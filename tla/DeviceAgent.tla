---------------------------- MODULE DeviceAgent ----------------------------
(***************************************************************************)
(* cc::gfx::DeviceAgent, CommandBufferAgent and BufferAgent                *)
(* (cocos/renderer/gfx-agent): the game thread records a frame while the   *)
(* device thread executes an earlier one.                                  *)
(*                                                                         *)
(* The game thread enqueues messages in the main message queue and records *)
(* commands in a queue of each command buffer.  flushCommands ends what is *)
(* recorded with a finish message and enqueues one message in the main     *)
(* queue, upon which the device thread, or jobs in parallel, execute the   *)
(* command queues up to their finish messages.  present() lets the game    *)
(* thread run at most MAX_CPU_FRAME_AHEAD frames ahead, which is what      *)
(* makes MAX_FRAME_INDEX slots of a staging buffer enough.                 *)
(*                                                                         *)
(* The queues are what MessageQueueChannel shows MessageQueue to be: FIFO  *)
(* channels whose messages become visible to the consumer at a kick.       *)
(***************************************************************************)
EXTENDS Naturals, Sequences, FiniteSets

CONSTANTS
  main,                  \* _mainMessageQueue
  CmdBuffs,              \* command buffer agents, each with its _messageQueue
  primary,               \* the command buffer of the device itself
  Buffers,               \* buffer agents with a staging buffer
  MAX_CPU_FRAME_AHEAD,   \* 1 in the code
  JobThreads,            \* JobSystem::threadCount()
  FlushLists,            \* arguments of flushCommands
  MaxFrames,             \* bound: frames presented in a behaviour
  MaxResizes,            \* bound: resizes of a buffer
  MaxCalls,              \* bound: calls of the game thread in a frame
  MaxRecorded            \* bound: commands recorded in a frame

ASSUME CmdBuffAssumption ==
  /\ main \notin CmdBuffs /\ primary \in CmdBuffs
  /\ FlushLists \subseteq Seq(CmdBuffs)
  /\ \A cs \in FlushLists : \A i, j \in DOMAIN cs : cs[i] = cs[j] => i = j
ASSUME FrameAssumption ==
  /\ MAX_CPU_FRAME_AHEAD \in Nat \ {0} /\ JobThreads \in Nat \ {0}
  /\ {MaxFrames, MaxResizes, MaxCalls, MaxRecorded} \subseteq Nat

MAX_FRAME_INDEX == MAX_CPU_FRAME_AHEAD + 1

Slots == 0..(MAX_FRAME_INDEX - 1)
Stores == 0..MaxResizes   \* the memories a buffer has had
Gone == MaxResizes + 1    \* the buffer was destroyed
Freed == MaxFrames + 1    \* in memory that was given back

VARIABLES
  queue,         \* each queue: its unread messages, and how many are visible
  currentIndex,  \* _currentIndex: the slot of the frame being recorded
  semaphore,     \* _frameBoundarySemaphore
  store,         \* the _stagingBuffer of a buffer: its current memory, or Gone
  staging,       \* history: the frame whose data a slot of a memory holds, or Freed
  agent,         \* the life of a command buffer agent
  actor,         \* the life of the command buffer the device thread owns
  flushes,       \* history: how often a command buffer was flushed
  gPc, gTodo, gThen,   \* the game thread: where it is in which call
  event,         \* the EventSem of kickAndWait or terminateConsumerThread
  dPc,           \* the device thread: in its main queue, in a flush, or gone
  todo,          \* positions of the flush under way whose queue is not flushed
  frame,         \* history: frames the game thread has presented
  presented,     \* history: frames the device thread has presented
  calls          \* history: calls in this frame

bufferVars == <<staging, store>>
queueVars == <<queue, bufferVars, agent, flushes, currentIndex>>
gameVars == <<gPc, gTodo, gThen, frame, calls>>
deviceVars == <<dPc, todo, actor, presented>>
vars == <<queueVars, gameVars, deviceVars, semaphore, event>>

Queues == {main} \cup CmdBuffs

(* Messages.  "flush" is the flush a recorded message belongs to, "frame"  *)
(* the frame that an update or a present is part of (history).             *)
Update(b, n) == [kind |-> "Update", buffer |-> b, store |-> store[b], slot |-> currentIndex,
                 frame |-> frame, flush |-> n]
Command(n) == [kind |-> "Command", flush |-> n]
Finish(n) == [kind |-> "Finish", flush |-> n]
Free(n) == [kind |-> "Free", flush |-> n]
Flush(cs, ns) == [kind |-> "Flush", cmdBuffs |-> cs, number |-> ns]
Life(k, c) == [kind |-> k, cmdBuff |-> c]
FreeStaging(b) == [kind |-> "FreeStaging", buffer |-> b, store |-> store[b]]
PresentFrame == [kind |-> "Present", frame |-> frame]
Bare(k) == [kind |-> k]

-----------------------------------------------------------------------------
(* The queues.                                                             *)

Enqueue(q, ms) == [q EXCEPT !.unread = @ \o ms]
Kick(q) == [q EXCEPT !.visible = Len(q.unread)]
Dequeue(q) == [unread |-> Tail(q.unread), visible |-> q.visible - 1]

HasNewMessage(c) == queue[c].visible > 0
Message(c) == Head(queue[c].unread)

NothingRecorded(c) == \A i \in DOMAIN queue[c].unread : queue[c].unread[i].flush <= flushes[c]
Recorded == {c \in CmdBuffs : agent[c] = "live" /\ ~NothingRecorded(c)}

-----------------------------------------------------------------------------
(* doInit: the device's own command buffer exists, and setMultithreaded    *)
(* has started the device thread.                                          *)
Init ==
  /\ queue = [c \in Queues |-> [unread |-> <<>>, visible |-> 0]]
  /\ currentIndex = 0
  /\ semaphore = MAX_CPU_FRAME_AHEAD
  /\ store = [b \in Buffers |-> 0]
  /\ staging = [b \in Buffers |-> [s \in Stores |-> [i \in Slots |-> 0]]]
  /\ agent = [c \in CmdBuffs |-> IF c = primary THEN "live" ELSE "new"]
  /\ actor = [c \in CmdBuffs |-> IF c = primary THEN "ready" ELSE "new"]
  /\ flushes = [c \in CmdBuffs |-> 0]
  /\ gPc = "record" /\ gTodo = <<>> /\ gThen = Bare("record")
  /\ event = FALSE
  /\ dPc = "main" /\ todo = {}
  /\ frame = 0 /\ presented = 0 /\ calls = 0

-----------------------------------------------------------------------------
(* The game thread.                                                        *)

(* The bound on a frame: one more call.                                    *)
NextCall ==
  /\ gPc = "record"
  /\ calls < MaxCalls /\ frame < MaxFrames
  /\ calls' = calls + 1

(* getActorBuffer: the slot of the frame, and the data copied there.       *)
WriteSlot(b) ==
  /\ store[b] # Gone
  /\ staging' = [staging EXCEPT ![b][store[b]][currentIndex] = frame]
  /\ UNCHANGED store

(* BufferAgent::update                                                     *)
UpdateBuffer(b) ==
  /\ NextCall
  /\ WriteSlot(b)
  /\ queue' = [queue EXCEPT ![main] = Enqueue(@, <<Update(b, 0)>>)]
  /\ UNCHANGED <<currentIndex, agent, flushes, gPc, gTodo, gThen, frame, deviceVars,
                 semaphore, event>>

(* BufferAgent::doResize and doDestroy: the memory goes with a message.    *)
(* The game does not change a buffer while it has recorded updates of it   *)
(* that it did not flush.  The faulty form gives the memory back at once.  *)
MayChange(b) ==
  /\ store[b] # Gone
  /\ \A c \in Recorded : \A i \in DOMAIN queue[c].unread :
       LET m == queue[c].unread[i]
       IN  m.kind = "Update" /\ m.buffer = b => m.flush <= flushes[c]

ChangeStoreAtOnce(b, s) ==
  /\ NextCall /\ MayChange(b)
  /\ store' = [store EXCEPT ![b] = s]
  /\ staging' = [staging EXCEPT ![b][store[b]] = [i \in Slots |-> Freed]]
  /\ UNCHANGED <<queue, currentIndex, agent, flushes, gPc, gTodo, gThen, frame, deviceVars,
                 semaphore, event>>

ChangeStore(b, s) ==
  /\ NextCall /\ MayChange(b)
  /\ queue' = [queue EXCEPT ![main] = Enqueue(@, <<FreeStaging(b)>>)]
  /\ store' = [store EXCEPT ![b] = s]
  /\ UNCHANGED <<staging, currentIndex, agent, flushes, gPc, gTodo, gThen, frame, deviceVars,
                 semaphore, event>>

ResizeBuffer(b) == store[b] + 1 \in Stores /\ ChangeStore(b, store[b] + 1)

DestroyBuffer(b) == ChangeStore(b, Gone)

(* A command of CommandBufferAgent, and its updateBuffer.                  *)
CanRecord(c) == agent[c] = "live" /\ Cardinality(Recorded) <= MaxRecorded

RecordCommand(c) ==
  /\ NextCall /\ CanRecord(c)
  /\ queue' = [queue EXCEPT ![c] = Enqueue(@, <<Command(flushes[c] + 1)>>)]
  /\ UNCHANGED <<bufferVars, currentIndex, agent, flushes, gPc, gTodo, gThen, frame,
                 deviceVars, semaphore, event>>

RecordUpdateBuffer(c, b) ==
  /\ NextCall /\ CanRecord(c)
  /\ WriteSlot(b)
  /\ queue' = [queue EXCEPT ![c] =
                 Enqueue(@, <<Update(b, flushes[c] + 1)>>)]
  /\ UNCHANGED <<currentIndex, agent, flushes, gPc, gTodo, gThen, frame, deviceVars,
                 semaphore, event>>

(* CommandBufferAgent::doInit                                              *)
CreateCommandBuffer(c) ==
  /\ NextCall
  /\ agent[c] = "new"
  /\ agent' = [agent EXCEPT ![c] = "live"]
  /\ queue' = [queue EXCEPT ![main] = Enqueue(@, <<Life("Init", c)>>)]
  /\ UNCHANGED <<bufferVars, currentIndex, flushes, gPc, gTodo, gThen, frame, deviceVars,
                 semaphore, event>>

(* kickAndWait of the main queue, behind the messages ms.                  *)
KickAndWait(ms, then) ==
  /\ queue' = [queue EXCEPT ![main] = Kick(Enqueue(@, ms \o <<Bare("Wait")>>))]
  /\ event' = FALSE
  /\ gPc' = "wait" /\ gThen' = then

(* DeviceAgent::copyTextureToBuffers                                       *)
CopyTextureToBuffers ==
  /\ NextCall
  /\ KickAndWait(<<Bare("Copy")>>, Bare("record"))
  /\ UNCHANGED <<bufferVars, agent, flushes, currentIndex, gTodo, frame, deviceVars, semaphore>>

(* CommandBufferAgent::doDestroy and ~CommandBufferAgent: destroyMessage-  *)
(* Queue waits for the device thread before it deletes the queue, and with *)
(* it commands that were not flushed.  The faulty form does not wait.      *)
DestroyAtOnce(c) ==
  /\ NextCall
  /\ agent[c] = "live" /\ c # primary
  /\ agent' = [agent EXCEPT ![c] = "deleted"]
  /\ queue' = [queue EXCEPT ![main] = Enqueue(@, <<Life("Destroy", c)>>)]
  /\ UNCHANGED <<bufferVars, flushes, currentIndex, gPc, gTodo, gThen, frame, deviceVars,
                 semaphore, event>>

DestroyCommandBuffer(c) ==
  /\ NextCall
  /\ agent[c] = "live" /\ c # primary
  /\ KickAndWait(<<>>, Life("Destroy", c))
  /\ UNCHANGED <<bufferVars, agent, flushes, currentIndex, gTodo, frame, deviceVars, semaphore>>

(* kickAndWait returns; doDestroy then deletes the queue and has the actor *)
(* destroyed, in the device's case the device thread's own end.            *)
WaitReturn ==
  /\ gPc = "wait" /\ event
  /\ \/ /\ gThen.kind = "record"
        /\ gPc' = "record"
        /\ UNCHANGED <<queue, agent, event>>
     \/ /\ gThen.kind = "Destroy"
        /\ agent' = [agent EXCEPT ![gThen.cmdBuff] = "deleted"]
        /\ queue' = [queue EXCEPT ![main] = Enqueue(@, <<gThen>>)]
        /\ gPc' = "record"
        /\ UNCHANGED event
     \/ /\ gThen.kind = "Terminate"
        /\ agent' = [agent EXCEPT ![primary] = "deleted"]
        /\ queue' = [queue EXCEPT ![main] = Kick(Enqueue(@, <<Bare("Terminate")>>))]
        /\ event' = FALSE
        /\ gPc' = "join"
  /\ UNCHANGED <<bufferVars, flushes, currentIndex, gTodo, gThen, frame, calls, deviceVars,
                 semaphore>>

(* DeviceAgent::flushCommands: each queue gets its FreeChunksInFreeQueue   *)
(* and finish messages and is kicked; the faulty form forgets the finish   *)
(* message.                                                                *)
FlushCommands(cs) ==
  /\ NextCall
  /\ \A i \in DOMAIN cs : agent[cs[i]] = "live"
  /\ gTodo' = cs
  /\ gThen' = Flush(cs, [c \in {cs[i] : i \in DOMAIN cs} |-> flushes[c] + 1])
  /\ gPc' = "flush"
  /\ UNCHANGED <<queueVars, frame, deviceVars, semaphore, event>>

Unfinished(q, n) == Kick(Enqueue(q, <<Free(n)>>))
Finished(q, n) == Kick(Enqueue(q, <<Free(n), Finish(n)>>))

FinishWriting ==
  LET c == Head(gTodo)
  IN  /\ gPc = "flush" /\ gTodo # <<>>
      /\ queue' = [queue EXCEPT ![c] = Finished(@, flushes[c] + 1)]
      /\ flushes' = [flushes EXCEPT ![c] = @ + 1]
      /\ gTodo' = Tail(gTodo)
      /\ UNCHANGED <<bufferVars, agent, currentIndex, gPc, gThen, frame, calls, deviceVars,
                     semaphore, event>>

EnqueueFlush ==
  /\ gPc = "flush" /\ gTodo = <<>>
  /\ queue' = [queue EXCEPT ![main] = Enqueue(@, <<gThen>>)]
  /\ gPc' = "record"
  /\ UNCHANGED <<bufferVars, agent, flushes, currentIndex, gTodo, gThen, frame, calls,
                 deviceVars, semaphore, event>>

(* DeviceAgent::present, which the pipelines call with all they recorded   *)
(* flushed: freeChunksInFreeQueue kicks,...                                *)
Present ==
  /\ gPc = "record" /\ frame < MaxFrames /\ Recorded = {}
  /\ queue' = [queue EXCEPT ![main] = Kick(Enqueue(@, <<PresentFrame, Free(0)>>))]
  /\ gPc' = "present"
  /\ UNCHANGED <<bufferVars, agent, flushes, currentIndex, gTodo, gThen, frame, calls,
                 deviceVars, semaphore, event>>

(* ... and so does finishWriting, before the frame index moves on;         *)
(* the faulty form has no second slot.                                     *)
SameIndex == currentIndex
NextIndex == (currentIndex + 1) % MAX_FRAME_INDEX

PresentFinish ==
  /\ gPc = "present"
  /\ queue' = [queue EXCEPT ![main] = Kick(Enqueue(@, <<Finish(0)>>))]
  /\ currentIndex' = NextIndex
  /\ gPc' = "boundary"
  /\ UNCHANGED <<bufferVars, agent, flushes, gTodo, gThen, frame, calls, deviceVars,
                 semaphore, event>>

(* _frameBoundarySemaphore.wait()                                          *)
FrameBoundary ==
  /\ gPc = "boundary" /\ semaphore > 0
  /\ semaphore' = semaphore - 1
  /\ frame' = frame + 1 /\ calls' = 0
  /\ gPc' = "record"
  /\ UNCHANGED <<queueVars, gTodo, gThen, deviceVars, event>>

(* DeviceAgent::doDestroy, when no other command buffer is left.           *)
DestroyDevice ==
  /\ gPc = "record"
  /\ \A c \in CmdBuffs \ {primary} : agent[c] # "live"
  /\ KickAndWait(<<Bare("DeviceDestroy")>>, Bare("Terminate"))
  /\ UNCHANGED <<bufferVars, agent, flushes, currentIndex, gTodo, frame, calls, deviceVars,
                 semaphore>>

Join ==
  /\ gPc = "join" /\ event /\ dPc = "exited"
  /\ gPc' = "gone"
  /\ UNCHANGED <<queueVars, gTodo, gThen, frame, calls, deviceVars, semaphore, event>>

-----------------------------------------------------------------------------
(* The device thread.                                                      *)

Take(c) == queue' = [queue EXCEPT ![c] = Dequeue(@)]

CanExecute(ks) ==
  dPc = "main" /\ HasNewMessage(main) /\ Message(main).kind \in ks

(* Messages that change nothing modelled here.                             *)
ExecPlain ==
  /\ CanExecute({"Update", "Free", "Finish", "Copy", "DeviceDestroy"})
  /\ Take(main)
  /\ UNCHANGED <<bufferVars, agent, flushes, currentIndex, gameVars, deviceVars, semaphore,
                 event>>

ExecLife ==
  /\ CanExecute({"Init", "Destroy"})
  /\ Take(main)
  /\ actor' = [actor EXCEPT ![Message(main).cmdBuff] =
                 IF Message(main).kind = "Init" THEN "ready" ELSE "destroyed"]
  /\ UNCHANGED <<bufferVars, agent, flushes, currentIndex, gameVars, dPc, todo,
                 presented, semaphore, event>>

(* The end of a BufferFreeStagingBuffer or BufferDestroy message.          *)
ExecFreeStaging ==
  /\ CanExecute({"FreeStaging"})
  /\ Take(main)
  /\ staging' = [staging EXCEPT ![Message(main).buffer][Message(main).store] =
                   [i \in Slots |-> Freed]]
  /\ UNCHANGED <<store, agent, flushes, currentIndex, gameVars, deviceVars, semaphore, event>>

(* actor->present() and frameBoundarySemaphore->signal(); the faulty form  *)
(* never signals.                                                          *)
ExecPresentQuietly ==
  /\ CanExecute({"Present"})
  /\ Take(main)
  /\ presented' = presented + 1
  /\ UNCHANGED <<bufferVars, agent, flushes, currentIndex, gameVars, dPc, todo, actor,
                 semaphore, event>>

ExecPresent ==
  /\ CanExecute({"Present"})
  /\ Take(main)
  /\ presented' = presented + 1
  /\ semaphore' = semaphore + 1
  /\ UNCHANGED <<bufferVars, agent, flushes, currentIndex, gameVars, dPc, todo, actor,
                 event>>

ExecWait ==
  /\ CanExecute({"Wait"})
  /\ Take(main)
  /\ event' = TRUE
  /\ UNCHANGED <<bufferVars, agent, flushes, currentIndex, gameVars, deviceVars, semaphore>>

ExecTerminate ==
  /\ CanExecute({"Terminate"})
  /\ Take(main)
  /\ event' = TRUE
  /\ dPc' = "exited"
  /\ UNCHANGED <<bufferVars, agent, flushes, currentIndex, gameVars, todo, actor, presented,
                 semaphore>>

(* DeviceFlushCommands: CommandBufferAgent::flushCommands starts, ...      *)
FlushBegin ==
  /\ CanExecute({"Flush"})
  /\ dPc' = "flush"
  /\ todo' = DOMAIN Message(main).cmdBuffs
  /\ UNCHANGED <<queueVars, gameVars, actor, presented, semaphore, event>>

(* ... flushes the queues in order or, if there is more than one to        *)
(* dispatch, those behind the first workForThisThread in parallel as jobs, *)
MayRun(i) ==
  LET count == Len(Message(main).cmdBuffs)
      workForThisThread == ((count - 1) \div JobThreads) + 1
  IN  \/ count > workForThisThread + 1 /\ i > workForThisThread
      \/ \A j \in todo : i <= j

(* executing one message of a queue after the other until its finish       *)
(* message, ...                                                            *)
FlushStep(i) ==
  LET c == Message(main).cmdBuffs[i]
  IN  /\ dPc = "flush" /\ i \in todo /\ MayRun(i)
      /\ HasNewMessage(c)
      /\ Take(c)
      /\ todo' = IF Message(c).kind = "Finish" THEN todo \ {i} ELSE todo
      /\ UNCHANGED <<bufferVars, agent, flushes, currentIndex, gameVars, dPc, actor,
                     presented, semaphore, event>>

(* ... and waits for all of them.                                          *)
FlushEnd ==
  /\ dPc = "flush" /\ todo = {}
  /\ Take(main)
  /\ dPc' = "main"
  /\ UNCHANGED <<bufferVars, agent, flushes, currentIndex, gameVars, todo, actor, presented,
                 semaphore, event>>

-----------------------------------------------------------------------------
GameCall ==
  \/ \E b \in Buffers : UpdateBuffer(b) \/ ResizeBuffer(b) \/ DestroyBuffer(b)
  \/ \E c \in CmdBuffs : \/ RecordCommand(c)
                         \/ \E b \in Buffers : RecordUpdateBuffer(c, b)
                         \/ CreateCommandBuffer(c) \/ DestroyCommandBuffer(c)
  \/ \E cs \in FlushLists : FlushCommands(cs)
  \/ CopyTextureToBuffers \/ Present \/ DestroyDevice

(* What the game thread does once a call has begun.                        *)
GameStep ==
  FinishWriting \/ EnqueueFlush \/ PresentFinish \/ FrameBoundary \/ WaitReturn \/ Join

DeviceStep ==
  \/ ExecPlain \/ ExecLife \/ ExecFreeStaging \/ ExecPresent \/ ExecWait \/ ExecTerminate
  \/ FlushBegin \/ FlushEnd
  \/ \E i \in todo : FlushStep(i)

Next == GameCall \/ GameStep \/ DeviceStep

Spec == Init /\ [][Next]_vars

(* Running threads are scheduled again; nothing obliges the game to call.  *)
FairSpec == Spec /\ WF_vars(GameStep) /\ WF_vars(DeviceStep)

-----------------------------------------------------------------------------
(* Properties.                                                             *)

Kinds == {"Update", "Command", "Finish", "Free", "Flush", "Init", "Destroy", "Present",
          "FreeStaging", "Wait", "Copy", "DeviceDestroy", "Terminate"}

(* Every variable has its type.                                            *)
TypeOK ==
  /\ \A c \in Queues :
       /\ queue[c].visible \in 0..Len(queue[c].unread)
       /\ \A i \in DOMAIN queue[c].unread : queue[c].unread[i].kind \in Kinds
  /\ currentIndex \in Slots
  /\ semaphore \in Nat
  /\ store \in [Buffers -> Stores \cup {Gone}]
  /\ staging \in [Buffers -> [Stores -> [Slots -> Nat]]]
  /\ agent \in [CmdBuffs -> {"new", "live", "deleted"}]
  /\ actor \in [CmdBuffs -> {"new", "ready", "destroyed"}]
  /\ flushes \in [CmdBuffs -> Nat]
  /\ gPc \in {"record", "flush", "present", "boundary", "wait", "join", "gone"}
  /\ gTodo \in Seq(CmdBuffs) /\ gThen.kind \in Kinds \cup {"record"}
  /\ event \in BOOLEAN
  /\ dPc \in {"main", "flush", "exited"} /\ todo \subseteq Nat
  /\ frame \in Nat /\ presented \in Nat /\ calls \in 0..MaxCalls

(* An update that the device thread has still to execute finds the data of *)
(* the frame that asked for it: a staging slot is never overwritten by a   *)
(* later frame before the device thread has copied it, and its memory not  *)
(* given back although the buffer was resized or destroyed.                *)
StagingStable ==
  \A c \in {main} \cup {d \in CmdBuffs : agent[d] = "live"} : \A i \in DOMAIN queue[c].unread :
    LET m == queue[c].unread[i]
    IN  m.kind = "Update" => staging[m.buffer][m.store][m.slot] = m.frame

(* The game thread records at most MAX_CPU_FRAME_AHEAD frames that the     *)
(* device thread has not presented.                                        *)
FramesAhead == gPc = "record" => frame <= presented + MAX_CPU_FRAME_AHEAD

(* Frames do not meet: the two facts above, which need one another.        *)
FramesApart == FramesAhead /\ StagingStable

(* A flush executes exactly what was recorded for it: it finds no command  *)
(* of another flush in the queue, neither one left over nor one of a       *)
(* frame that the game thread is already recording.                        *)
FlushExact ==
  dPc = "flush" =>
    LET m == Message(main)
    IN  \A i \in DOMAIN m.cmdBuffs :
          LET c == m.cmdBuffs[i]
          IN  /\ i \in todo => HasNewMessage(c) /\ Message(c).flush = m.number[c]
              /\ i \notin todo => \A j \in DOMAIN queue[c].unread :
                                    queue[c].unread[j].flush > m.number[c]

(* Commands execute on a command buffer whose actor the device thread has  *)
(* initialised and not yet destroyed, although both arrive by another      *)
(* queue than the commands.                                                *)
ActorReady ==
  dPc = "flush" => \A i \in todo : actor[Message(main).cmdBuffs[i]] = "ready"

(* The queue of a command buffer is deleted only when everything that was  *)
(* flushed from it has been executed, and no flush of it is outstanding.   *)
QueueLive ==
  /\ \A c \in CmdBuffs : agent[c] = "deleted" => ~HasNewMessage(c)
  /\ \A i \in DOMAIN queue[main].unread :
       LET m == queue[main].unread[i]
       IN  m.kind = "Flush" => \A j \in DOMAIN m.cmdBuffs : agent[m.cmdBuffs[j]] = "live"

(* Agents, queues and actors of command buffers live in step, whatever the *)
(* order in which the two queues that lead to them are drained.            *)
LifeInStep == TypeOK /\ ActorReady /\ QueueLive

(* No call blocks the game thread forever: not the frame boundary, not a   *)
(* kickAndWait, not the end of the device.                                 *)
CallReturns == gPc # "record" ~> gPc \in {"record", "gone"}
=============================================================================
