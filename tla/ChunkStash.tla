----------------------------- MODULE ChunkStash -----------------------------
(***************************************************************************)
(* The stash of memory chunks that all message queues share                *)
(* (MessageQueue::MemoryAllocator, cocos/base/threading/MessageQueue.cpp), *)
(* as DeviceAgent and CommandBufferAgent use it.                           *)
(*                                                                         *)
(* Module MessageQueue shows one queue to be safe on its own.  Here the    *)
(* main queue and the queues of the command buffers stash their chunks in  *)
(* the one _chunkFreeQueue, and a FreeChunksInFreeQueue message in any of  *)
(* them frees what all of them have stashed.                               *)
(*                                                                         *)
(* Only chunks are modelled: an allocation fits into the current chunk or  *)
(* does not, and a message is where it lies and what it points to.         *)
(***************************************************************************)
EXTENDS Naturals, Sequences, MemoryChunks

CONSTANTS
  main,          \* the main message queue of DeviceAgent
  CmdBuffs,      \* command buffers, each with a queue
  FlushLists,    \* arguments of DeviceAgent::flushCommands
  JobThreads,    \* JobSystem::threadCount()
  MaxPlaced      \* bound: messages a queue holds unread

ASSUME QueueAssumption ==
  /\ main \notin CmdBuffs
  /\ FlushLists \subseteq Seq(CmdBuffs)
  /\ JobThreads \in Nat \ {0} /\ MaxPlaced \in Nat

VARIABLES
  unread,    \* the messages of each queue that were not taken yet
  visible,   \* how many of the main queue's are visible to the device thread
  current,   \* _writer.currentMemoryChunk of each queue
  last,      \* the chunk of _reader.lastMessage of each queue
  chunk,     \* "free", "used" or "stashed" in _chunkFreeQueue
  gPc, gTodo, gCall,   \* the game thread, and the flushCommands it is in
  dPc, todo, begun,    \* the device thread, and the flush it is in
  executing  \* the message that each queue's consumer is executing

gameVars == <<gPc, gTodo, gCall>>
vars == <<unread, visible, current, last, chunk, gameVars, dPc, todo, begun, executing>>

Queues == {main} \cup CmdBuffs

(* A message lies in a chunk and may point to an argument block in another *)
(* chunk.  The block of a Switch message is the chunk it leaves.           *)
Message(k, c, b, cs) == [kind |-> k, chunk |-> c, block |-> b, cmdBuffs |-> cs]
NoMessage == Message("None", NoChunk, NoChunk, <<>>)
Kinds == {"None", "Plain", "Dummy", "Switch", "Free", "Finish", "Flush"}

-----------------------------------------------------------------------------
(* allocateImpl: an allocation lands in the current chunk or, behind a     *)
(* switch message there and a dummy, in a new one.  The faulty form has    *)
(* the new chunk recycled.                                                 *)
Room(q) == {current[q]} \cup {c \in Chunks : chunk[c] = "free"}

SwitchToEntered(q, c) ==
  IF c = current[q] THEN <<>>
  ELSE <<Message("Switch", current[q], c, <<>>), Message("Dummy", c, NoChunk, <<>>)>>

SwitchTo(q, c) ==
  IF c = current[q] THEN <<>>
  ELSE <<Message("Switch", current[q], current[q], <<>>), Message("Dummy", c, NoChunk, <<>>)>>

(* Messages ms are placed in queue q, and chunk c is entered for them.     *)
Enter(q, c, ms) ==
  /\ unread' = [unread EXCEPT ![q] = @ \o SwitchTo(q, c) \o ms]
  /\ current' = [current EXCEPT ![q] = c]
  /\ chunk' = [chunk EXCEPT ![c] = "used"]

Init ==
  /\ unread = [q \in Queues |-> <<>>] /\ visible = 0
  /\ current \in [Queues -> Chunks]
  /\ \A p, q \in Queues : p # q => current[p] # current[q]
  /\ last = current
  /\ chunk = [c \in Chunks |-> IF \E q \in Queues : current[q] = c THEN "used" ELSE "free"]
  /\ gPc = "record" /\ gTodo = <<>> /\ gCall = NoMessage
  /\ dPc = "main" /\ todo = {} /\ begun = {}
  /\ executing = [q \in Queues |-> NoMessage]

-----------------------------------------------------------------------------
(* The game thread.                                                        *)

(* A message whose argument block was allocated just before it: the        *)
(* message may already lie in the next chunk.                              *)
Enqueue(q) ==
  /\ gPc = "record" /\ Len(unread[q]) < MaxPlaced
  /\ \E c \in Room(q) : Enter(q, c, <<Message("Plain", c, current[q], <<>>)>>)
  /\ UNCHANGED <<visible, last, gameVars, dPc, todo, begun, executing>>

(* DeviceAgent::flushCommands allocates the array of command buffers, ...  *)
FlushCommands(cs) ==
  /\ gPc = "record" /\ Len(unread[main]) < MaxPlaced
  /\ \E c \in Room(main) :
       /\ Enter(main, c, <<>>)
       /\ gCall' = Message("Flush", NoChunk, c, cs)
  /\ gTodo' = cs
  /\ gPc' = "flush"
  /\ UNCHANGED <<visible, last, dPc, todo, begun, executing>>

(* ... has the stash freed and the queue finished for each of them,        *)
FinishWriting ==
  LET q == Head(gTodo)
  IN  /\ gPc = "flush" /\ gTodo # <<>>
      /\ \E c \in Room(q) : Enter(q, c, <<Message("Free", c, NoChunk, <<>>),
                                          Message("Finish", c, NoChunk, <<>>)>>)
      /\ gTodo' = Tail(gTodo)
      /\ UNCHANGED <<visible, last, gPc, gCall, dPc, todo, begun, executing>>

(* ... and enqueues the message that points to the array.                  *)
EnqueueFlush ==
  /\ gPc = "flush" /\ gTodo = <<>>
  /\ \E c \in Room(main) : Enter(main, c, <<[gCall EXCEPT !.chunk = c]>>)
  /\ gPc' = "record"
  /\ UNCHANGED <<visible, last, gTodo, gCall, dPc, todo, begun, executing>>

(* DeviceAgent::present: freeChunksInFreeQueue and finishWriting.          *)
Present ==
  /\ gPc = "record" /\ Len(unread[main]) < MaxPlaced
  /\ \E c \in Room(main) : Enter(main, c, <<Message("Free", c, NoChunk, <<>>),
                                            Message("Finish", c, NoChunk, <<>>)>>)
  /\ visible' = Len(unread'[main])
  /\ UNCHANGED <<last, gameVars, dPc, todo, begun, executing>>

-----------------------------------------------------------------------------
(* The device thread and its jobs.                                         *)

(* readMessage on queue q: _next is read in the last message's chunk.      *)
Take(q) ==
  /\ executing[q] = NoMessage /\ unread[q] # <<>>
  /\ executing' = [executing EXCEPT ![q] = Head(unread[q])]
  /\ last' = [last EXCEPT ![q] = Head(unread[q]).chunk]
  /\ unread' = [unread EXCEPT ![q] = Tail(@)]

TakeMain ==
  /\ dPc = "main" /\ visible > 0
  /\ Take(main)
  /\ visible' = visible - 1
  /\ UNCHANGED <<current, chunk, gameVars, dPc, todo, begun>>

(* recycleMemoryChunk stashes a chunk; the faulty form frees it.           *)
FreedAtOnce(c) == [chunk EXCEPT ![c] = "free"]
Recycled(c) == [chunk EXCEPT ![c] = "stashed"]

(* FreeChunksInFreeQueue frees what every queue has stashed.               *)
Freed == [c \in Chunks |-> IF chunk[c] = "stashed" THEN "free" ELSE chunk[c]]

(* What the execution and the destruction of a message do to the chunks.   *)
Effect(m) ==
  chunk' = IF m.kind = "Switch" THEN Recycled(m.block)
           ELSE IF m.kind = "Free" THEN Freed ELSE chunk

Execute(q) ==
  /\ executing[q].kind \in Kinds \ {"None", "Flush"}
  /\ Effect(executing[q])
  /\ executing' = [executing EXCEPT ![q] = NoMessage]

ExecMain ==
  /\ Execute(main)
  /\ UNCHANGED <<unread, visible, current, last, gameVars, dPc, todo, begun>>

(* DeviceFlushCommands, CommandBufferAgent::flushCommands: in order, or in *)
(* parallel behind the first workForThisThread positions.                  *)
FlushBegin ==
  /\ dPc = "main" /\ executing[main].kind = "Flush"
  /\ dPc' = "flush"
  /\ todo' = DOMAIN executing[main].cmdBuffs /\ begun' = {}
  /\ UNCHANGED <<unread, visible, current, last, chunk, gameVars, executing>>

MayRun(i) ==
  LET count == Len(executing[main].cmdBuffs)
      workForThisThread == ((count - 1) \div JobThreads) + 1
  IN  \/ count > workForThisThread + 1 /\ i > workForThisThread
      \/ \A j \in todo : i <= j

(* cmdBuffs[i]->getMessageQueue(): position i of the array is read.        *)
FlushRead(i) ==
  /\ dPc = "flush" /\ i \in todo \ begun /\ MayRun(i)
  /\ begun' = begun \cup {i}
  /\ UNCHANGED <<unread, visible, current, last, chunk, gameVars, dPc, todo, executing>>

(* flushMessages on that queue takes a message, ...                        *)
FlushTake(i) ==
  /\ dPc = "flush" /\ i \in todo \cap begun
  /\ Take(executing[main].cmdBuffs[i])
  /\ UNCHANGED <<visible, current, chunk, gameVars, dPc, todo, begun>>

(* ... executes it, and returns at the finish message.                     *)
FlushExec(i) ==
  LET q == executing[main].cmdBuffs[i]
  IN  /\ dPc = "flush" /\ i \in todo \cap begun
      /\ Execute(q)
      /\ todo' = IF executing[q].kind = "Finish" THEN todo \ {i} ELSE todo
      /\ UNCHANGED <<unread, visible, current, last, gameVars, dPc, begun>>

FlushEnd ==
  /\ dPc = "flush" /\ todo = {}
  /\ dPc' = "main" /\ begun' = {}
  /\ executing' = [executing EXCEPT ![main] = NoMessage]
  /\ UNCHANGED <<unread, visible, current, last, chunk, gameVars, todo>>

-----------------------------------------------------------------------------
Next ==
  \/ \E q \in Queues : Enqueue(q)
  \/ \E cs \in FlushLists : FlushCommands(cs)
  \/ FinishWriting \/ EnqueueFlush \/ Present
  \/ TakeMain \/ ExecMain \/ FlushBegin \/ FlushEnd
  \/ \E i \in todo : FlushRead(i) \/ FlushTake(i) \/ FlushExec(i)

Spec == Init /\ [][Next]_vars

-----------------------------------------------------------------------------
(* Properties.                                                             *)

MessageType == [kind : Kinds, chunk : Chunks \cup {NoChunk}, block : Chunks \cup {NoChunk},
                cmdBuffs : {<<>>} \cup FlushLists]

(* Every variable has its type.                                            *)
TypeOK ==
  /\ unread \in [Queues -> Seq(MessageType)]
  /\ visible \in 0..Len(unread[main])
  /\ current \in [Queues -> Chunks] /\ last \in [Queues -> Chunks]
  /\ chunk \in [Chunks -> {"free", "used", "stashed"}]
  /\ gPc \in {"record", "flush"} /\ gTodo \in Seq(CmdBuffs) /\ gCall \in MessageType
  /\ dPc \in {"main", "flush"} /\ todo \subseteq Nat /\ begun \subseteq Nat
  /\ executing \in [Queues -> MessageType]

(* What a message needs while it executes: the chunk it lies in, and the   *)
(* argument block it reads.                                                *)
Kept(c) == c = NoChunk \/ chunk[c] # "free"
BlockRead(m) ==
  m.kind = "Plain" \/ (m.kind = "Flush" /\ (dPc = "main" \/ todo \ begun # {}))

(* No consumer reads memory that was freed: neither the _next of the last  *)
(* message of its queue, nor the message it executes, nor the argument     *)
(* block of that message - such as the array of command buffers that       *)
(* flushCommands goes through while it executes their queues.              *)
ReadsLive ==
  \A q \in Queues :
    /\ unread[q] # <<>> => Kept(last[q])
    /\ Kept(executing[q].chunk)
    /\ BlockRead(executing[q]) => Kept(executing[q].block)

(* Whatever is still to be taken lies in memory that was not freed.        *)
UnreadLive ==
  \A q \in Queues : \A i \in DOMAIN unread[q] : Kept(unread[q][i].chunk)

(* Two queues never write into the same chunk.                             *)
WritersApart == \A p, q \in Queues : current[p] = current[q] => p = q

(* The stash that all queues share hands a chunk on only when nobody needs *)
(* it any more.                                                            *)
ChunksApart == TypeOK /\ UnreadLive /\ WritersApart
=============================================================================
