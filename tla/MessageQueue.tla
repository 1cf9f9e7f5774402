---------------------------- MODULE MessageQueue ----------------------------
(***************************************************************************)
(* cc::MessageQueue (cocos/base/threading/MessageQueue.{h,cpp}): the       *)
(* single-producer single-consumer queue through which the game thread     *)
(* drives the render thread.  Messages are placed one behind the other in  *)
(* fixed-size memory chunks and chained through Message::_next; a message  *)
(* becomes visible to the consumer when the producer adds its pending      *)
(* count to the atomic writtenMessageCount.  A full chunk is left through  *)
(* a MemoryChunkSwitchMessage, whose destructor stashes the old chunk      *)
(* until a FreeChunksInFreeQueue message returns the stash to the          *)
(* allocator.                                                              *)
(*                                                                         *)
(* Offsets count slots of 16 bytes, the alignment of allocateImpl.  Chunks *)
(* in the allocator's pool and chunks owned by the C heap are both "free": *)
(* request() may hand out any of them.                                     *)
(***************************************************************************)
EXTENDS Naturals, Integers, MemoryChunks

CONSTANTS
  ChunkSlots,     \* MEMORY_CHUNK_SIZE in slots
  SwitchSlots,    \* slots kept free at the end of a chunk for the switch message
  DummySlots,     \* slots of the DummyMessage at the head of a chunk
  MessageSlots,   \* sizes of the messages the program enqueues
  DataSlots,      \* sizes of the argument blocks the program allocates
  W,              \* the message counters are unsigned and wrap at W (2^32)
  MaxMessages     \* bound: messages placed in a behaviour

(* The static layout and CC_ASSERT(alignedSize +                           *)
(* SWITCH_CHUNK_MEMORY_REQUIREMENT <= MEMORY_CHUNK_SIZE).                  *)
ASSUME SlotAssumption ==
  /\ ChunkSlots \in Nat /\ SwitchSlots \in Nat \ {0} /\ DummySlots \in Nat \ {0}
  /\ MessageSlots \subseteq Nat \ {0}
  /\ DataSlots \subseteq Nat \ {0}
  /\ DummySlots + SwitchSlots <= ChunkSlots
  /\ \A n \in MessageSlots \cup DataSlots : n + SwitchSlots + DummySlots <= ChunkSlots

ASSUME CountAssumption ==
  /\ W \in Nat \ {0, 1, 2}
  /\ MaxMessages \in Nat

VARIABLES
  \* WriterContext, the producer's but for written
  wChunk, wOffset, wLast, wPending,
  written,        \* std::atomic<uint32_t> writtenMessageCount
  \* ReaderContext, the consumer's
  rChunk, rLast, rSnap, rNew, rTerminate, rFlushed,
  \* memory
  link,           \* Message::_next of the message at an address
  msg,            \* the message constructed at an address
  chunk,          \* a chunk is "free", "used" or "stashed" (in _chunkFreeQueue)
  \* modes, threads and their synchronisation
  immediate,      \* _immediateMode
  attached,       \* _workerAttached
  mutex,          \* who holds _mutex
  event,          \* the EventSem of the waiting producer has been signalled
  pPc, pReq,      \* where the producer is, and the request it is serving
  cPc,            \* where the consumer thread is
  \* history
  wData,          \* chunks of argument blocks that no message carries yet
  sent,           \* messages placed so far, the sentinel included
  published,      \* messages added to written so far, not wrapped
  read,           \* messages the consumer has taken
  where           \* where the i-th message was placed

writerVars == <<wChunk, wOffset, wLast, wPending>>
readerVars == <<rChunk, rLast, rSnap, rNew, rTerminate, rFlushed>>
memoryVars == <<link, msg, chunk>>
threadVars == <<immediate, attached, mutex, event, pPc, pReq, cPc>>
historyVars == <<wData, sent, published, read, where>>
vars == <<writerVars, written, readerVars, memoryVars, threadVars, historyVars>>

Addr == Chunks \X (0..ChunkSlots)
ChunkOf(a) == a[1]

Kinds == {"User", "Dummy", "Switch", "Finish", "Wait", "Terminate", "Free"}

(* A message: its rank in the sending order (history), its class, the two  *)
(* chunk pointers of a MemoryChunkSwitchMessage, and the chunks that hold  *)
(* the argument blocks it points to (history).                             *)
Message == [id : Nat, kind : Kinds \ {"Switch"}, old : {NoChunk}, new : {NoChunk},
            data : SUBSET Chunks]
           \cup [id : Nat, kind : {"Switch"}, old : Chunks, new : Chunks, data : {{}}]

Plain(i, k, d) == [id |-> i, kind |-> k, old |-> NoChunk, new |-> NoChunk, data |-> d]
SwitchMessage(i, o, n) == [id |-> i, kind |-> "Switch", old |-> o, new |-> n, data |-> {}]

(* What the producer asks for.  The calls of KickKinds enqueue one message *)
(* and end in kick(); a "User" call enqueues and returns; "Data" allocates *)
(* an argument block; "Kick" is a bare kick().                             *)
KickKinds == {"Finish", "Wait", "Terminate", "Free"}
Requests == [kind : {"User"} \cup KickKinds, slots : MessageSlots]
            \cup [kind : {"Data"}, slots : DataSlots]
            \cup [kind : {"Kick"}, slots : {0}]

(* newOffset + sizeof(MemoryChunkSwitchMessage) <= MEMORY_CHUNK_SIZE       *)
Fits(n) == wOffset + n + SwitchSlots <= ChunkSlots

(* Unsigned sum and difference.                                            *)
Plus(a, b) == (a + b) % W
Minus(a, b) == (a - b) % W

(* The bound.  A call places at most three messages: its own, and the      *)
(* switch and dummy messages of a full chunk.  Fewer than W messages may   *)
(* be unread, and the C heap always has another chunk.                     *)
Bound(n) ==
  /\ sent + 3 <= MaxMessages
  /\ sent + 3 - read < W
  /\ Fits(n) \/ \E c \in Chunks : chunk[c] = "free"

(* hasNewMessage, and a faulty form that is off by one.                    *)
HasMessageOffByOne == rNew >= 0 /\ ~rFlushed
HasNewMessage == rNew > 0 /\ ~rFlushed

(* Message::_next of the message at a: the slot behind n allocated slots.  *)
(* The faulty form takes the offset before it moves.                       *)
RelinkedTooEarly(a, n) == [link EXCEPT ![a] = <<wChunk, wOffset>>]
Relinked(a, n) == [link EXCEPT ![a] = <<wChunk, wOffset + n>>]

(* recycleMemoryChunk: the chunk is stashed, _freeChunksByUser being true. *)
(* Faulty forms: the chunk is freed at once, and is not recycled.          *)
FreedAtOnce(f, c) == [f EXCEPT ![c] = "free"]
NotRecycled(f, c) == f
Recycled(f, c) == [f EXCEPT ![c] = "stashed"]

(* FreeChunksInFreeQueue returns the stash to the allocator.               *)
Stashed == {c \in Chunks : chunk[c] = "stashed"}
Freed(f) == [c \in Chunks |-> IF f[c] = "stashed" THEN "free" ELSE f[c]]

(* pullMessages; the faulty form keeps the old snapshot.                   *)
PullWithoutSnapshot ==
  /\ rNew' = rNew + Minus(written, rSnap)
  /\ UNCHANGED rSnap

Pull ==
  /\ rNew' = rNew + Minus(written, rSnap)
  /\ rSnap' = written

(* kickAndWait and terminateConsumerThread wait on a semaphore of their    *)
(* own; the faulty form reuses the last one.                               *)
StaleEvent(r) == event
FreshEvent(r) == IF r.kind \in {"Wait", "Terminate"} THEN FALSE ELSE event

-----------------------------------------------------------------------------
(* MessageQueue::MessageQueue: one chunk, and a sentinel that the          *)
(* constructor publishes and takes and that is never executed.             *)
Init ==
  /\ wChunk \in Chunks /\ rChunk = wChunk
  /\ wOffset = DummySlots
  /\ wLast = <<wChunk, 0>> /\ rLast = <<wChunk, 0>>
  /\ wPending = 0 /\ written = 1 /\ rSnap = 1 /\ rNew = 0
  /\ rTerminate = FALSE /\ rFlushed = FALSE
  /\ link = [a \in Addr |-> <<wChunk, DummySlots>>]
  /\ msg = [a \in Addr |-> Plain(1, "Dummy", {})]
  /\ chunk = [c \in Chunks |-> IF c = wChunk THEN "used" ELSE "free"]
  /\ immediate = TRUE /\ attached = FALSE
  /\ mutex = "none" /\ event = FALSE
  /\ pPc = "idle" /\ pReq = [kind |-> "Kick", slots |-> 0]
  /\ cPc = "none"
  /\ wData = {}
  /\ sent = 1 /\ published = 1 /\ read = 1
  /\ where = [i \in {1} |-> <<wChunk, 0>>]

-----------------------------------------------------------------------------
(* The producer.                                                           *)

(* A call of the queue outside immediate mode.  Argument blocks are        *)
(* followed by the message that carries them before anything is kicked;    *)
(* kickAndWait and terminateConsumerThread need a consumer thread.         *)
Call(r) ==
  /\ pPc = "idle" /\ ~immediate
  /\ Bound(r.slots)
  /\ r.kind \in KickKinds \cup {"Kick"} => wData = {}
  /\ r.kind \in {"Wait", "Terminate"} => attached
  /\ pPc' = IF r.kind = "Kick" THEN "push" ELSE "alloc"
  /\ pReq' = r
  /\ event' = FreshEvent(r)
  /\ UNCHANGED <<writerVars, written, readerVars, memoryVars, immediate, attached,
                 mutex, cPc, historyVars>>

(* What allocateImpl does to a full chunk: the switch message takes the    *)
(* reserved slots, and the dummy the head of the new chunk c.  Up to the   *)
(* pending count this is common to both modes.                             *)
EnterChunk(c) ==
  /\ chunk[c] = "free"
  /\ wChunk' = c /\ wOffset' = DummySlots
  /\ wLast' = <<c, 0>>
  /\ link' = [link EXCEPT ![<<wChunk, wOffset>>] = <<c, 0>>,
                          ![<<c, 0>>] = <<c, DummySlots>>]
  /\ msg' = [msg EXCEPT ![<<wChunk, wOffset>>] = SwitchMessage(sent + 1, wChunk, c),
                        ![<<c, 0>>] = Plain(sent + 2, "Dummy", {})]
  /\ sent' = sent + 2
  /\ where' = [i \in 1..(sent + 2) |->
                 IF i = sent + 1 THEN <<wChunk, wOffset>>
                 ELSE IF i = sent + 2 THEN <<c, 0>> ELSE where[i]]

SwitchChunk ==
  /\ pPc = "alloc" /\ ~Fits(pReq.slots)
  /\ \E c \in Chunks : EnterChunk(c) /\ chunk' = [chunk EXCEPT ![c] = "used"]
  /\ wPending' = wPending + 2
  /\ UNCHANGED <<written, readerVars, threadVars, wData, published, read>>

(* allocate<T> of a message.  Its _next is the slot behind it, where the   *)
(* next message goes unless an argument block gets there first.            *)
PlaceMessage ==
  LET here == <<wChunk, wOffset>>
      data == IF pReq.kind = "User" THEN wData ELSE {}
  IN  /\ pPc = "alloc" /\ pReq.kind # "Data" /\ Fits(pReq.slots)
      /\ wOffset' = wOffset + pReq.slots
      /\ link' = Relinked(here, pReq.slots)
      /\ msg' = [msg EXCEPT ![here] = Plain(sent + 1, pReq.kind, data)]
      /\ wLast' = here
      /\ wPending' = wPending + 1
      /\ sent' = sent + 1
      /\ where' = [i \in 1..(sent + 1) |-> IF i = sent + 1 THEN here ELSE where[i]]
      /\ wData' = wData \ data
      /\ pPc' = IF pReq.kind = "User" THEN "idle" ELSE "push"
      /\ UNCHANGED <<wChunk, written, readerVars, chunk, immediate, attached, mutex,
                     event, pReq, cPc, published, read>>

(* allocate<T> of an argument block: the _next of the last message, which  *)
(* may be published already, is moved behind the block.                    *)
PlaceData ==
  /\ pPc = "alloc" /\ pReq.kind = "Data" /\ Fits(pReq.slots)
  /\ wOffset' = wOffset + pReq.slots
  /\ link' = Relinked(wLast, pReq.slots)
  /\ wData' = wData \cup {wChunk}
  /\ pPc' = "idle"
  /\ UNCHANGED <<wChunk, wLast, wPending, written, readerVars, msg, chunk, immediate,
                 attached, mutex, event, pReq, cPc, sent, published, read, where>>

(* pushMessages, the first half of kick.                                   *)
Push ==
  /\ pPc = "push"
  /\ written' = Plus(written, wPending)
  /\ published' = sent
  /\ wPending' = 0
  /\ pPc' = "notify"
  /\ UNCHANGED <<wChunk, wOffset, wLast, readerVars, memoryVars, immediate, attached,
                 mutex, event, pReq, cPc, wData, sent, read, where>>

(* The second half of kick: lock, notify_all, unlock.  The faulty form     *)
(* notifies without the lock.                                              *)
NotifyWithoutLock ==
  /\ pPc = "notify"
  /\ cPc' = IF cPc = "asleep" THEN "woken" ELSE cPc
  /\ pPc' = IF pReq.kind \in {"Wait", "Terminate"} THEN "wait" ELSE "idle"
  /\ UNCHANGED <<writerVars, written, readerVars, memoryVars, immediate, attached,
                 mutex, event, pReq, historyVars>>

Notify ==
  /\ pPc = "notify" /\ mutex = "none"
  /\ cPc' = IF cPc = "asleep" THEN "woken" ELSE cPc
  /\ pPc' = IF pReq.kind \in {"Wait", "Terminate"} THEN "wait" ELSE "idle"
  /\ UNCHANGED <<writerVars, written, readerVars, memoryVars, immediate, attached,
                 mutex, event, pReq, historyVars>>

(* event.wait() of kickAndWait and terminateConsumerThread, and the join.  *)
WaitReturn ==
  /\ pPc = "wait" /\ event
  /\ pPc' = IF pReq.kind = "Terminate" THEN "join" ELSE "idle"
  /\ UNCHANGED <<writerVars, written, readerVars, memoryVars, immediate, attached,
                 mutex, event, pReq, cPc, historyVars>>

Join ==
  /\ pPc = "join" /\ cPc = "exited"
  /\ pPc' = "idle" /\ cPc' = "none"
  /\ UNCHANGED <<writerVars, written, readerVars, memoryVars, immediate, attached,
                 mutex, event, pReq, historyVars>>

(* setImmediateMode assigns and does nothing else: messages that are still *)
(* in the queue stay there.  Its callers hold for the rest: a consumer     *)
(* thread of the queue has been joined, and no argument block waits for    *)
(* its message.                                                            *)
SetImmediateMode ==
  /\ pPc = "idle" /\ ~attached /\ wData = {}
  /\ immediate' = ~immediate
  /\ UNCHANGED <<writerVars, written, readerVars, memoryVars, attached, mutex, event,
                 pPc, pReq, cPc, historyVars>>

RunConsumerThread ==
  /\ pPc = "idle" /\ ~immediate /\ ~attached
  /\ rTerminate' = FALSE /\ rFlushed' = FALSE
  /\ cPc' = "check"
  /\ attached' = TRUE
  /\ UNCHANGED <<writerVars, written, rChunk, rLast, rSnap, rNew, memoryVars,
                 immediate, mutex, event, pPc, pReq, historyVars>>

-----------------------------------------------------------------------------
(* Immediate mode: messages execute on the caller's stack, and only        *)
(* argument blocks are allocated.                                          *)

(* The tail of allocateImpl in immediate mode: the switch message and the  *)
(* dummy are pushed, pulled and executed on the spot.  The two are all     *)
(* that is unread, as CC_ASSERT_EQ(_reader.newMessageCount, 2) demands;    *)
ImmediateSwitchChunk(n) ==
  /\ pPc = "idle" /\ immediate /\ Bound(n) /\ ~Fits(n)
  /\ read = sent
  /\ \E c \in Chunks :
       /\ EnterChunk(c)
       /\ chunk' = Recycled([chunk EXCEPT ![c] = "used"], wChunk)
       /\ rChunk' = c /\ rLast' = <<c, 0>>
  /\ written' = Plus(written, wPending + 2)
  /\ wPending' = 0
  /\ rNew' = rNew + Minus(written', rSnap) - 2
  /\ rSnap' = written'
  /\ published' = sent + 2
  /\ read' = read + 2
  /\ UNCHANGED <<rTerminate, rFlushed, threadVars, wData>>

(* over messages left from before immediate mode the assertion fails and   *)
(* the program ends.                                                       *)
ImmediateSwitchFails(n) ==
  /\ pPc = "idle" /\ immediate /\ Bound(n) /\ ~Fits(n)
  /\ read # sent
  /\ pPc' = "aborted"
  /\ UNCHANGED <<writerVars, written, readerVars, memoryVars, immediate, attached,
                 mutex, event, pReq, cPc, historyVars>>

ImmediateData(n) ==
  /\ pPc = "idle" /\ immediate /\ Fits(n)
  /\ wOffset' = wOffset + n
  /\ link' = Relinked(wLast, n)
  /\ wData' = wData \cup {wChunk}
  /\ UNCHANGED <<wChunk, wLast, wPending, written, readerVars, msg, chunk, threadVars,
                 sent, published, read, where>>

(* A message executed inline takes its argument blocks with it.            *)
ImmediateMessage ==
  /\ pPc = "idle" /\ immediate /\ wData # {}
  /\ wData' = {}
  /\ UNCHANGED <<writerVars, written, readerVars, memoryVars, threadVars, sent,
                 published, read, where>>

ImmediateFree ==
  /\ pPc = "idle" /\ immediate /\ wData = {} /\ Stashed # {}
  /\ chunk' = Freed(chunk)
  /\ UNCHANGED <<writerVars, written, readerVars, link, msg, threadVars, historyVars>>

(* ~MessageQueue: the current chunk goes to the stash.                     *)
Destroy ==
  /\ pPc = "idle" /\ ~attached /\ wData = {} /\ read = sent
  /\ chunk' = Recycled(chunk, wChunk)
  /\ pPc' = "gone"
  /\ UNCHANGED <<writerVars, written, readerVars, link, msg, immediate, attached,
                 mutex, event, pReq, cPc, historyVars>>

-----------------------------------------------------------------------------
(* The consumer thread.                                                    *)

producerSide == <<writerVars, written, pPc, pReq, wData, sent, published, where>>

(* readMessage finds nothing new and takes the mutex...                    *)
Lock ==
  /\ cPc = "check" /\ ~HasNewMessage /\ mutex = "none"
  /\ mutex' = "consumer" /\ cPc' = "locked"
  /\ UNCHANGED <<producerSide, readerVars, memoryVars, immediate, attached, event, read>>

(* ... pulls under it, and lets it go unless there is still nothing;       *)
PullLocked ==
  /\ cPc = "locked"
  /\ Pull
  /\ UNCHANGED <<producerSide, rChunk, rLast, rTerminate, rFlushed, memoryVars,
                 immediate, attached, event, read>>
  /\ IF HasNewMessage' THEN cPc' = "check" /\ mutex' = "none"
                       ELSE cPc' = "drowsy" /\ UNCHANGED mutex

(* _condVar.wait releases the mutex and sleeps;                            *)
Sleep ==
  /\ cPc = "drowsy"
  /\ cPc' = "asleep" /\ mutex' = "none"
  /\ UNCHANGED <<producerSide, readerVars, memoryVars, immediate, attached, event, read>>

(* it may also return without having been notified;                        *)
SpuriousWakeup ==
  /\ cPc = "asleep"
  /\ cPc' = "woken"
  /\ UNCHANGED <<producerSide, readerVars, memoryVars, immediate, attached, mutex,
                 event, read>>

(* awake, the consumer has the mutex back, pulls again and rechecks.       *)
PullAwake ==
  /\ cPc = "woken" /\ mutex = "none"
  /\ Pull
  /\ cPc' = "check"
  /\ UNCHANGED <<producerSide, rChunk, rLast, rTerminate, rFlushed, memoryVars,
                 immediate, attached, mutex, event, read>>

(* readMessage finds a message behind the last one.                        *)
Read ==
  /\ cPc = "check" /\ HasNewMessage
  /\ rLast' = link[rLast]
  /\ rNew' = rNew - 1
  /\ read' = read + 1
  /\ cPc' = "exec"
  /\ UNCHANGED <<producerSide, rChunk, rSnap, rTerminate, rFlushed, memoryVars,
                 immediate, attached, mutex, event>>

(* executeMessages: msg->execute() and msg->~Message().                    *)
ExecPlain ==
  /\ cPc = "exec" /\ msg[rLast].kind \in {"User", "Dummy"}
  /\ cPc' = "check"
  /\ UNCHANGED <<producerSide, readerVars, memoryVars, immediate, attached, mutex,
                 event, read>>

(* MemoryChunkSwitchMessage::execute and its destructor.                   *)
ExecSwitch ==
  /\ cPc = "exec" /\ msg[rLast].kind = "Switch"
  /\ rChunk' = msg[rLast].new
  /\ Pull
  /\ chunk' = Recycled(chunk, msg[rLast].old)
  /\ cPc' = "check"
  /\ UNCHANGED <<producerSide, rLast, rTerminate, rFlushed, link, msg, immediate,
                 attached, mutex, event, read>>

(* FreeChunksInFreeQueue of MemoryAllocator::freeByUser.                   *)
ExecFree ==
  /\ cPc = "exec" /\ msg[rLast].kind = "Free"
  /\ chunk' = Freed(chunk)
  /\ cPc' = "check"
  /\ UNCHANGED <<producerSide, readerVars, link, msg, immediate, attached, mutex,
                 event, read>>

(* WaitUntilFinish of kickAndWait.                                         *)
ExecWait ==
  /\ cPc = "exec" /\ msg[rLast].kind = "Wait"
  /\ event' = TRUE
  /\ cPc' = "check"
  /\ UNCHANGED <<producerSide, readerVars, memoryVars, immediate, attached, mutex, read>>

(* The message of finishWriting makes flushMessages return.                *)
ExecFinish ==
  /\ cPc = "exec" /\ msg[rLast].kind = "Finish"
  /\ rFlushed' = TRUE
  /\ cPc' = "flushed"
  /\ UNCHANGED <<producerSide, rChunk, rLast, rSnap, rNew, rTerminate, memoryVars,
                 immediate, attached, mutex, event, read>>

(* TerminateConsumerThreadMessage::execute                                 *)
ExecTerminate ==
  /\ cPc = "exec" /\ msg[rLast].kind = "Terminate"
  /\ rTerminate' = TRUE /\ rFlushed' = TRUE
  /\ event' = TRUE
  /\ cPc' = "flushed"
  /\ UNCHANGED <<producerSide, rChunk, rLast, rSnap, rNew, memoryVars, immediate,
                 attached, mutex, read>>

(* flushMessages returns to consumerThreadLoop.                            *)
FlushEnd ==
  /\ cPc = "flushed"
  /\ rFlushed' = FALSE
  /\ IF rTerminate THEN cPc' = "exited" /\ attached' = FALSE
                   ELSE cPc' = "check" /\ UNCHANGED attached
  /\ UNCHANGED <<producerSide, rChunk, rLast, rSnap, rNew, rTerminate, memoryVars,
                 immediate, mutex, event, read>>

-----------------------------------------------------------------------------
(* What the producer does once a call has begun, and what it may begin.    *)
ProducerStep ==
  SwitchChunk \/ PlaceMessage \/ PlaceData \/ Push \/ Notify \/ WaitReturn \/ Join

ProducerCall ==
  \/ \E r \in Requests : Call(r)
  \/ SetImmediateMode \/ RunConsumerThread \/ Destroy
  \/ \E n \in DataSlots :
       ImmediateSwitchChunk(n) \/ ImmediateSwitchFails(n) \/ ImmediateData(n)
  \/ ImmediateMessage \/ ImmediateFree

ConsumerStep ==
  \/ Lock \/ PullLocked \/ Sleep \/ PullAwake \/ Read
  \/ ExecPlain \/ ExecSwitch \/ ExecFree \/ ExecWait \/ ExecFinish \/ ExecTerminate
  \/ FlushEnd

Next == ProducerCall \/ ProducerStep \/ ConsumerStep \/ SpuriousWakeup

Spec == Init /\ [][Next]_vars

(* A running thread is scheduled again; nothing obliges the program to     *)
(* call the queue, nor a condition variable to wake on its own.            *)
FairSpec == Spec /\ WF_vars(ProducerStep) /\ WF_vars(ConsumerStep)

-----------------------------------------------------------------------------
(* Properties.                                                             *)

(* Every variable has its type, and the writer's chunk always has room     *)
(* left for the switch message.                                            *)
TypeOK ==
  /\ wChunk \in Chunks /\ rChunk \in Chunks
  /\ wOffset \in 0..(ChunkSlots - SwitchSlots) /\ wPending \in Nat
  /\ wLast \in Addr /\ rLast \in Addr
  /\ written \in 0..(W - 1) /\ rSnap \in 0..(W - 1) /\ rNew \in Nat
  /\ rTerminate \in BOOLEAN /\ rFlushed \in BOOLEAN
  /\ link \in [Addr -> Addr]
  /\ msg \in [Addr -> Message]
  /\ chunk \in [Chunks -> {"free", "used", "stashed"}]
  /\ immediate \in BOOLEAN /\ attached \in BOOLEAN
  /\ mutex \in {"none", "consumer"} /\ event \in BOOLEAN
  /\ pPc \in {"idle", "alloc", "push", "notify", "wait", "join", "gone", "aborted"}
  /\ pReq \in Requests
  /\ cPc \in {"none", "check", "locked", "drowsy", "asleep", "woken", "exec",
              "flushed", "exited"}
  /\ wData \subseteq Chunks
  /\ sent \in Nat /\ published \in Nat /\ read \in Nat
  /\ where \in [1..sent -> Addr]

(* Following Message::_next from chunk to chunk, the consumer finds every  *)
(* message exactly once and in the order it was placed: the n-th message   *)
(* it takes is the n-th that was placed.                                   *)
Fifo == msg[rLast].id = read

(* The wrapping counters account for every published message: what the     *)
(* consumer has taken, what it has pulled and what it has yet to pull add  *)
(* up, so that newMessageCount never runs ahead of the producer.           *)
CountersAgree == read + rNew + Minus(written, rSnap) = published

(* Nothing the consumer can still reach lies in a chunk that the allocator *)
(* may hand out: neither the message whose _next it reads next, nor an     *)
(* unread message, nor an argument block of one that is still to execute.  *)
MemoryLive ==
  /\ chunk[ChunkOf(rLast)] # "free"
  /\ \A i \in (read + 1)..sent :
       /\ chunk[ChunkOf(where[i])] = "used"
       /\ \A c \in msg[where[i]].data : chunk[c] # "free"
  /\ cPc = "exec" => \A c \in msg[rLast].data : chunk[c] # "free"
  /\ \A c \in wData : chunk[c] # "free"

(* The producer rewrites the _next of its last message without a lock      *)
(* whenever it allocates an argument block.  The consumer never reads that *)
(* same field, since it only looks behind a message that has a published   *)
(* successor.                                                              *)
NoLinkRace == ~ (/\ pPc = "alloc" /\ pReq.kind = "Data"
                 /\ cPc = "check" /\ HasNewMessage
                 /\ rLast = wLast)

(* Every chunk a message was placed in is given back: once all messages    *)
(* are executed the queue holds the writer's chunk alone, and none after   *)
(* the destructor.                                                         *)
NoChunkLost ==
  read = sent /\ cPc # "exec" =>
    {c \in Chunks : chunk[c] = "used"} = IF pPc = "gone" THEN {} ELSE {wChunk}

(* kickAndWait ("block the producer until finished") and                   *)
(* terminateConsumerThread come back only when every message the producer  *)
(* ever placed has been executed, and a finished thread leaves none.       *)
WaitDrains ==
  /\ pPc = "wait" /\ event => read = sent
  /\ pPc = "join" \/ cPc = "exited" => read = sent /\ rNew = 0

(* In immediate mode a switch of chunks finds its own two messages and no  *)
(* other: CC_ASSERT_EQ(_reader.newMessageCount, 2) never fails.            *)
SwitchReadsTwo == pPc # "aborted"

(* No wake-up is lost: whatever is published while a consumer runs is      *)
(* taken by it.                                                            *)
Delivery == \A i \in 1..MaxMessages : attached /\ published >= i ~> read >= i

(* A producer blocked in kickAndWait or terminateConsumerThread comes      *)
(* back.                                                                   *)
WaitReturns == pPc = "wait" ~> pPc = "idle"

(* No wake-up is lost between the two threads.                             *)
NoWakeUpLost == Delivery /\ WaitReturns
=============================================================================
