-------------------------- MODULE MessageQueueInv --------------------------
(***************************************************************************)
(* The inductive invariant of MessageQueue, in five parts that build on    *)
(* one another: the counters, the chain of messages in memory, the         *)
(* argument blocks, the blocked producer, and the sleep of the consumer.   *)
(***************************************************************************)
EXTENDS MessageQueue

-----------------------------------------------------------------------------
(* 1. Counters.                                                            *)

(* The wrapped counters are the remainders of what really happened.        *)
Counted ==
  /\ 1 <= read /\ read + rNew <= published /\ published <= sent
  /\ sent - read < W
  /\ wPending = sent - published
  /\ written = published % W
  /\ rSnap = (read + rNew) % W

(* A call that has begun has the room it may need.                         *)
RoomLeft ==
  pPc = "alloc" =>
    /\ pReq.slots \in MessageSlots \cup DataSlots
    /\ sent + 3 - read < W \/ (Fits(pReq.slots) /\ sent + 1 - read < W)

(* Immediate mode and a consumer thread exclude each other.                *)
ModesExclusive ==
  /\ attached <=> cPc \notin {"none", "exited"}
  /\ immediate => ~attached /\ pPc \in {"idle", "gone", "aborted"}
  /\ pPc = "gone" => ~attached /\ read = sent

CountInv == TypeOK /\ Counted /\ RoomLeft /\ ModesExclusive

-----------------------------------------------------------------------------
(* 2. The chain of messages.                                               *)

(* The i-th message is still to be executed, or being executed.            *)
Live(i) == i \in read..sent /\ (i > read \/ cPc = "exec")

(* From the reader's last message the links lead through every unread      *)
(* message to the writer's, and from there to the next free slot.          *)
Chain ==
  /\ rLast = where[read] /\ wLast = where[sent]
  /\ ChunkOf(wLast) = wChunk
  /\ link[wLast] = <<wChunk, wOffset>>
  /\ \A i \in read..(sent - 1) : link[where[i]] = where[i + 1]
  /\ \A i \in read..sent : msg[where[i]].id = i

(* Nothing is placed over a message of the chain.                          *)
Disjoint ==
  /\ \A i \in read..sent : ChunkOf(where[i]) = wChunk => where[i][2] < wOffset
  /\ \A i, j \in read..sent : where[i] = where[j] => i = j

(* The chain lies in chunks the queue owns.                                *)
Owned ==
  /\ \A i \in read..sent : chunk[ChunkOf(where[i])] # "free"
  /\ \A i \in read..sent : Live(i) => chunk[ChunkOf(where[i])] = "used"
  /\ pPc # "gone" => chunk[wChunk] = "used"

(* Behind a switch message the chain never returns to the chunk it leaves. *)
IsSwitch(i) == msg[where[i]].kind = "Switch"

SwitchesLeave ==
  \A i \in read..sent : Live(i) /\ IsSwitch(i) =>
    /\ i < sent
    /\ msg[where[i]].old = ChunkOf(where[i])
    /\ msg[where[i]].old # wChunk
    /\ \A j \in (i + 1)..sent : ChunkOf(where[j]) # msg[where[i]].old

ChainInv == Chain /\ Disjoint /\ Owned /\ SwitchesLeave

-----------------------------------------------------------------------------
(* 3. Argument blocks, and the account of chunks.                          *)

(* No Free message executed before the i-th message frees chunk c: it is   *)
(* executed while c is in use, before the message that leaves c.           *)
SafeBefore(c, i) ==
  /\ chunk[c] # "free"
  /\ \A j \in read..sent : Live(j) /\ j < i /\ msg[where[j]].kind = "Free" =>
       /\ chunk[c] = "used"
       /\ \A s \in read..sent : Live(s) /\ IsSwitch(s) /\ msg[where[s]].old = c => j < s

(* Nothing is kicked between an argument block and its message.            *)
KickInv ==
  pPc \in {"alloc", "push", "notify", "wait", "join"} /\ pReq.kind \in KickKinds
    => wData = {}

BlocksSafe ==
  /\ \A c \in wData : SafeBefore(c, sent + 1)
  /\ \A i \in read..sent : Live(i) => \A c \in msg[where[i]].data : SafeBefore(c, i)

DataInv == KickInv /\ BlocksSafe

(* A chunk in use is the writer's, or one that an unexecuted switch        *)
(* message will give back.                                                 *)
AccountInv ==
  \A c \in Chunks :
    chunk[c] = "used" <=>
      \/ c = wChunk /\ pPc # "gone"
      \/ \E i \in read..sent : Live(i) /\ IsSwitch(i) /\ msg[where[i]].old = c

-----------------------------------------------------------------------------
(* 4. The blocked producer.                                                *)

Blocking == {"Wait", "Terminate"}

(* A blocking message is the last one, and its producer waits for it.      *)
BlockedLast ==
  \A i \in read..sent : Live(i) /\ msg[where[i]].kind \in Blocking =>
    i = sent /\ pPc \in {"push", "notify", "wait"} /\ pReq.kind = msg[where[i]].kind

(* Its event is signalled when it was executed, and nothing is left.       *)
SignalledDone ==
  pPc \in {"alloc", "push", "notify", "wait"} /\ pReq.kind \in Blocking /\ event =>
    /\ pPc # "alloc" /\ read = sent /\ cPc # "exec"
    /\ pReq.kind = "Terminate" => rTerminate

(* The consumer thread ends for a producer that waits for its end.         *)
Ending ==
  /\ pPc = "wait" => pReq.kind \in Blocking
  /\ pPc = "join" => pReq.kind = "Terminate" /\ rTerminate
  /\ pPc \in {"alloc", "push", "notify", "wait", "join"} /\ pReq.kind \in Blocking
       => cPc # "none"
  /\ rTerminate => cPc \in {"none", "flushed", "exited"}
  /\ rTerminate /\ cPc # "none" =>
       pReq.kind = "Terminate" /\ pPc \in {"push", "notify", "wait", "join"} /\ read = sent
  /\ cPc = "exited" => rTerminate

BlockInv == BlockedLast /\ SignalledDone /\ Ending

(* Without a consumer thread nothing has been executed since the queue was *)
(* last drained, so nothing of what is unread lies in a stashed chunk.     *)
DetachedUsed ==
  ~attached /\ pPc # "gone" =>
    /\ chunk[ChunkOf(where[read])] = "used"
    /\ \A i \in (read + 1)..sent : \A c \in msg[where[i]].data : chunk[c] = "used"
    /\ ~immediate => \A c \in wData : chunk[c] = "used"

-----------------------------------------------------------------------------
(* 5. Sleep and wake-up.                                                   *)

Sleeping == cPc \in {"drowsy", "asleep"}

(* The consumer keeps the mutex from its test to its sleep.                *)
MutexHeld ==
  /\ mutex = "consumer" <=> cPc \in {"locked", "drowsy"}
  /\ rFlushed => cPc = "flushed"

(* It sleeps when it has taken everything; who publishes then notifies it. *)
NothingMissed ==
  /\ Sleeping => rNew = 0 /\ (read < published => pPc = "notify")
  /\ pPc \in {"notify", "wait"} => published = sent

(* What the producer waits for has still to be executed.                   *)
AwaitedLive ==
  pPc \in {"push", "notify", "wait"} /\ pReq.kind \in Blocking /\ ~event =>
    Live(sent) /\ msg[where[sent]].kind = pReq.kind

WakeInv == MutexHeld /\ NothingMissed /\ AwaitedLive

(* The two threads never wait for each other: while a message is published *)
(* and not taken the consumer is awake or is about to be notified, and a   *)
(* producer that waits for a message or for the end of the thread faces a  *)
(* consumer that is awake and has that before it.                          *)
NobodyWaitsInVain ==
  /\ Sleeping /\ read < published => pPc = "notify"
  /\ pPc = "wait" /\ ~event =>
       /\ cPc \notin {"none", "drowsy", "asleep", "exited"}
       /\ read < published \/ cPc = "exec"
  /\ pPc = "join" => cPc \in {"flushed", "exited"}

IInv ==
  CountInv /\ ChainInv /\ DataInv /\ AccountInv /\ BlockInv /\ DetachedUsed /\ WakeInv
=============================================================================
