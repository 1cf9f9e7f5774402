-------------------------- MODULE LegacyThreadPool --------------------------
(***************************************************************************)
(* cc::LegacyThreadPool (cocos/base/ThreadPool.cpp): the pool behind the   *)
(* HTTP client, audio and file access.                                     *)
(*                                                                         *)
(* The cocos thread pushes tasks, and stretches the pool when no worker is *)
(* idle or shrinks it when many are.  A worker takes tasks until the queue *)
(* is empty and then sleeps on a condition variable.  The queue, the count *)
(* of idle workers and the condition each have a mutex; the idle, abort    *)
(* and done flags are atomics that are read and written outside of them.   *)
(***************************************************************************)
EXTENDS Naturals, Sequences, FiniteSets

CONSTANTS
  minThreadNum, maxThreadNum,
  shrinkStep, stretchStep,
  fixedSize,      \* _isFixedSize
  TaskTypes,
  Calls,          \* calls of the cocos thread other than pushTask
  MaxTasks,       \* bound: tasks pushed in a behaviour
  MaxCalls        \* bound: other calls in a behaviour, but for stop

ASSUME ThreadNumAssumption ==
  /\ minThreadNum \in Nat \ {0} /\ maxThreadNum \in Nat /\ minThreadNum <= maxThreadNum
  /\ shrinkStep \in Nat \ {0} /\ stretchStep \in Nat \ {0}
  /\ fixedSize \in BOOLEAN /\ fixedSize => minThreadNum = maxThreadNum
ASSUME CallAssumption ==
  /\ Calls \subseteq {"tryShrinkPool", "stopTasksByType", "stopAllTasks", "stop"}
  /\ TaskTypes # {} /\ MaxTasks \in Nat /\ MaxCalls \in Nat

Threads == 0..(maxThreadNum - 1)
Tasks == [id : 1..MaxTasks, type : TaskTypes]
NoTask == [id |-> 0]
NoThread == maxThreadNum

VARIABLES
  taskQueue,      \* _taskQueue, locked for one push or pop at a time
  abort, idle, inited,       \* _abortFlags, _idleFlags, _initedFlags
  initedNum, idleNum, isDone,
  mutex,          \* holder of _mutex
  waiting,        \* threads asleep on _cv
  pc, task,       \* where a worker is, and its task
  cPc,            \* where the cocos thread is
  pushing,        \* the task it is pushing
  at, chosen,     \* loop index and threadIDsToJoin
  saved, type,    \* notStopTasks and the type to stop
  pushed, executed, stopped, \* history: the tasks pushed, run and removed
  sifted,         \* history: tasks that stopTasksByType put back
  calls           \* history: calls other than pushTask

flags == <<abort, idle, inited>>
workerVars == <<pc, task>>
callerVars == <<cPc, pushing, at, chosen, saved, type>>
history == <<pushed, executed, stopped, sifted, calls>>
vars == <<taskQueue, flags, initedNum, idleNum, isDone, mutex, waiting, workerVars,
          callerVars, history>>

(* init: the first minThreadNum threads are started.                       *)
Init ==
  /\ taskQueue = <<>>
  /\ inited = [t \in Threads |-> t < minThreadNum]
  /\ abort = [t \in Threads |-> t >= minThreadNum]
  /\ idle = [t \in Threads |-> FALSE]
  /\ initedNum = minThreadNum /\ idleNum = 0 /\ isDone = FALSE
  /\ mutex = NoThread /\ waiting = {}
  /\ pc = [t \in Threads |-> IF t < minThreadNum THEN "pop" ELSE "none"]
  /\ task = [t \in Threads |-> NoTask]
  /\ cPc = "idle" /\ pushing = NoTask /\ at = 0 /\ chosen = {}
  /\ saved = <<>> /\ type = CHOOSE y \in TaskTypes : TRUE
  /\ pushed = 0 /\ executed = {} /\ stopped = {} /\ sifted = {} /\ calls = 0

Goto(l) == cPc' = l
GotoWorker(t, l) == pc' = [pc EXCEPT ![t] = l]

(* A call other than pushTask begins.                                      *)
Calling(f) ==
  /\ f \in Calls
  /\ cPc = "idle" /\ calls < MaxCalls
  /\ calls' = calls + 1

NotifyAll == mutex = NoThread /\ waiting' = {}

-----------------------------------------------------------------------------
(* The cocos thread.                                                       *)

(* pushTask reads the number of idle threads, ...                          *)
PushTask(y) ==
  /\ cPc = "idle" /\ pushed < MaxTasks
  /\ pushed' = pushed + 1
  /\ pushing' = [id |-> pushed + 1, type |-> y]
  /\ Goto(IF fixedSize THEN "enqueue"
          ELSE IF idleNum > minThreadNum THEN "look"
          ELSE IF idleNum = 0 THEN "stretch" ELSE "enqueue")
  /\ UNCHANGED <<taskQueue, flags, initedNum, idleNum, isDone, mutex, waiting, workerVars,
                 at, chosen, saved, type, executed, stopped, sifted, calls>>

(* ... shrinks the pool if the queue is empty and the last time is long    *)
(* ago, ...                                                                *)
LookEmpty ==
  /\ cPc = "look"
  /\ \/ taskQueue = <<>> /\ Goto("shrink") /\ at' = 0
     \/ Goto("enqueue") /\ UNCHANGED at
  /\ UNCHANGED <<taskQueue, flags, initedNum, idleNum, isDone, mutex, waiting, workerVars,
                 pushing, chosen, saved, type, history>>

(* ... or starts threads that have ended or never begun, ...               *)
StretchPool ==
  LET unstarted == {t \in Threads : ~inited[t]}
      new == {t \in unstarted : Cardinality({u \in unstarted : u < t}) < stretchStep}
  IN  /\ cPc = "stretch"
      /\ abort' = [t \in Threads |-> abort[t] /\ t \notin new]
      /\ inited' = [t \in Threads |-> inited[t] \/ t \in new]
      /\ initedNum' = initedNum + Cardinality(new)
      /\ pc' = [t \in Threads |-> IF t \in new THEN "pop" ELSE pc[t]]
      /\ Goto("enqueue")
      /\ UNCHANGED <<taskQueue, idle, idleNum, isDone, mutex, waiting, task, pushing, at,
                     chosen, saved, type, history>>

(* ... and puts the task into the queue and notifies one thread; the       *)
(* faulty form notifies none.                                              *)
Enqueue ==
  /\ cPc = "enqueue"
  /\ taskQueue' = Append(taskQueue, pushing)
  /\ pushing' = NoTask
  /\ Goto("notify")
  /\ UNCHANGED <<flags, initedNum, idleNum, isDone, mutex, waiting, workerVars, at, chosen,
                 saved, type, history>>

NotifyNobody ==
  /\ cPc = "notify" /\ mutex = NoThread
  /\ Goto("idle")
  /\ UNCHANGED <<taskQueue, flags, initedNum, idleNum, isDone, mutex, waiting, workerVars,
                 pushing, at, chosen, saved, type, history>>

NotifyOne ==
  /\ cPc = "notify" /\ mutex = NoThread
  /\ \/ waiting = {} /\ UNCHANGED waiting
     \/ \E t \in waiting : waiting' = waiting \ {t}
  /\ Goto("idle")
  /\ UNCHANGED <<taskQueue, flags, initedNum, idleNum, isDone, mutex, workerVars, pushing,
                 at, chosen, saved, type, history>>

(* tryShrinkPool has threads whose idle flag is set abort, so many that    *)
(* minThreadNum remain.                                                    *)
TryShrinkPool ==
  /\ Calling("tryShrinkPool") /\ ~fixedSize
  /\ Goto("shrink") /\ at' = 0
  /\ UNCHANGED <<taskQueue, flags, initedNum, idleNum, isDone, mutex, waiting, workerVars,
                 pushing, chosen, saved, type, pushed, executed, stopped, sifted>>

Enough == Cardinality(chosen) >= initedNum - minThreadNum \/ Cardinality(chosen) >= shrinkStep

ShrinkLook ==
  /\ cPc = "shrink" /\ at < maxThreadNum /\ ~Enough
  /\ IF idle[at] THEN Goto("mark") /\ UNCHANGED at ELSE at' = at + 1 /\ UNCHANGED cPc
  /\ UNCHANGED <<taskQueue, flags, initedNum, idleNum, isDone, mutex, waiting, workerVars,
                 pushing, chosen, saved, type, history>>

ShrinkMark ==
  /\ cPc = "mark"
  /\ abort' = [abort EXCEPT ![at] = TRUE]
  /\ chosen' = chosen \cup {at}
  /\ at' = at + 1
  /\ Goto("shrink")
  /\ UNCHANGED <<taskQueue, idle, inited, initedNum, idleNum, isDone, mutex, waiting,
                 workerVars, pushing, saved, type, history>>

(* It wakes all threads and waits for the chosen ones to end.  The faulty  *)
(* form does not wake them.                                                *)
ShrinkUnnotified ==
  /\ cPc = "shrink" /\ (at = maxThreadNum \/ Enough)
  /\ Goto("join")
  /\ UNCHANGED <<taskQueue, flags, initedNum, idleNum, isDone, mutex, waiting, workerVars,
                 pushing, at, chosen, saved, type, history>>

ShrinkNotify ==
  /\ cPc = "shrink" /\ (at = maxThreadNum \/ Enough)
  /\ NotifyAll
  /\ Goto("join")
  /\ UNCHANGED <<taskQueue, flags, initedNum, idleNum, isDone, mutex, workerVars, pushing,
                 at, chosen, saved, type, history>>

(* A joined thread is gone, and may be started anew.                       *)
Join(t) ==
  /\ pc[t] = "exited"
  /\ GotoWorker(t, "none")
  /\ inited' = [inited EXCEPT ![t] = FALSE]
  /\ initedNum' = initedNum - 1

ShrinkJoin ==
  /\ cPc = "join"
  /\ \E t \in chosen : /\ \A u \in chosen : t <= u
                       /\ Join(t)
                       /\ chosen' = chosen \ {t}
  /\ UNCHANGED <<taskQueue, abort, idle, idleNum, isDone, mutex, waiting, task, cPc,
                 pushing, at, saved, type, history>>

ShrinkEnd ==
  /\ cPc = "join" /\ chosen = {}
  /\ Goto(IF pushing = NoTask THEN "idle" ELSE "enqueue")
  /\ UNCHANGED <<taskQueue, flags, initedNum, idleNum, isDone, mutex, waiting, workerVars,
                 pushing, at, chosen, saved, type, history>>

(* stopTasksByType empties the queue task by task and pushes those of      *)
(* other types again.                                                      *)
StopTasksByType(y) ==
  /\ Calling("stopTasksByType")
  /\ type' = y /\ Goto("sift")
  /\ UNCHANGED <<taskQueue, flags, initedNum, idleNum, isDone, mutex, waiting, workerVars,
                 pushing, at, chosen, saved, pushed, executed, stopped, sifted>>

Sift ==
  /\ cPc = "sift"
  /\ \/ taskQueue = <<>> /\ Goto("again") /\ UNCHANGED <<taskQueue, saved, stopped>>
     \/ /\ taskQueue # <<>>
        /\ taskQueue' = Tail(taskQueue)
        /\ IF Head(taskQueue).type = type
           THEN stopped' = stopped \cup {Head(taskQueue).id} /\ UNCHANGED saved
           ELSE saved' = Append(saved, Head(taskQueue)) /\ UNCHANGED stopped
        /\ UNCHANGED cPc
  /\ UNCHANGED <<flags, initedNum, idleNum, isDone, mutex, waiting, workerVars, pushing, at,
                 chosen, type, pushed, executed, sifted, calls>>

PushAgain ==
  /\ cPc = "again"
  /\ IF saved = <<>>
     THEN Goto("idle") /\ UNCHANGED <<taskQueue, saved, sifted>>
     ELSE /\ taskQueue' = Append(taskQueue, Head(saved))
          /\ saved' = Tail(saved)
          /\ sifted' = sifted \cup {Head(saved).id}
          /\ UNCHANGED cPc
  /\ UNCHANGED <<flags, initedNum, idleNum, isDone, mutex, waiting, workerVars, pushing, at,
                 chosen, type, pushed, executed, stopped, calls>>

(* stopAllTasks, on its own or at the end of stop                          *)
StopAllTasks ==
  /\ Calling("stopAllTasks")
  /\ Goto("clear")
  /\ UNCHANGED <<taskQueue, flags, initedNum, idleNum, isDone, mutex, waiting, workerVars,
                 pushing, at, chosen, saved, type, pushed, executed, stopped, sifted>>

Clear ==
  /\ cPc = "clear"
  /\ IF taskQueue = <<>>
     THEN Goto(IF isDone THEN "gone" ELSE "idle") /\ UNCHANGED <<taskQueue, stopped>>
     ELSE /\ stopped' = stopped \cup {Head(taskQueue).id}
          /\ taskQueue' = Tail(taskQueue)
          /\ UNCHANGED cPc
  /\ UNCHANGED <<flags, initedNum, idleNum, isDone, mutex, waiting, workerVars, pushing, at,
                 chosen, saved, type, pushed, executed, sifted, calls>>

(* stop, called by the destructor                                          *)
Stop ==
  /\ "stop" \in Calls
  /\ cPc = "idle" /\ ~isDone
  /\ isDone' = TRUE
  /\ Goto("done") /\ at' = 0
  /\ UNCHANGED <<taskQueue, flags, initedNum, idleNum, mutex, waiting, workerVars, pushing,
                 chosen, saved, type, history>>

StopNotify ==
  /\ cPc = "done" /\ NotifyAll
  /\ Goto("joinAll")
  /\ UNCHANGED <<taskQueue, flags, initedNum, idleNum, isDone, mutex, workerVars, pushing,
                 at, chosen, saved, type, history>>

StopJoin ==
  /\ cPc = "joinAll" /\ at < maxThreadNum
  /\ \/ inited[at] /\ Join(at)
     \/ ~inited[at] /\ UNCHANGED <<pc, inited, initedNum>>
  /\ at' = at + 1
  /\ UNCHANGED <<taskQueue, abort, idle, idleNum, isDone, mutex, waiting, task, cPc,
                 pushing, chosen, saved, type, history>>

StopClear ==
  /\ cPc = "joinAll" /\ at = maxThreadNum
  /\ Goto("clear")
  /\ UNCHANGED <<taskQueue, flags, initedNum, idleNum, isDone, mutex, waiting, workerVars,
                 pushing, at, chosen, saved, type, history>>

-----------------------------------------------------------------------------
(* A worker (setThread).                                                   *)

(* _taskQueue.pop(task)                                                    *)
TryPop(t) ==
  IF taskQueue = <<>>
  THEN task' = [task EXCEPT ![t] = NoTask] /\ UNCHANGED taskQueue
  ELSE task' = [task EXCEPT ![t] = Head(taskQueue)] /\ taskQueue' = Tail(taskQueue)

Pop(t) ==
  /\ pc[t] = "pop"
  /\ TryPop(t)
  /\ GotoWorker(t, IF taskQueue = <<>> THEN "lock" ELSE "run")
  /\ UNCHANGED <<flags, initedNum, idleNum, isDone, mutex, waiting, callerVars, history>>

(* The task is run, and the abort flag looked at afterwards; in the faulty *)
(* form also before.                                                       *)
RunUnlessAborted(t) ==
  /\ pc[t] = "run"
  /\ executed' = IF abort[t] THEN executed ELSE executed \cup {task[t].id}
  /\ GotoWorker(t, "ran")
  /\ UNCHANGED <<taskQueue, flags, initedNum, idleNum, isDone, mutex, waiting, task,
                 callerVars, pushed, stopped, sifted, calls>>

Run(t) ==
  /\ pc[t] = "run"
  /\ executed' = executed \cup {task[t].id}
  /\ GotoWorker(t, "ran")
  /\ UNCHANGED <<taskQueue, flags, initedNum, idleNum, isDone, mutex, waiting, task,
                 callerVars, pushed, stopped, sifted, calls>>

LookAbort(t) ==
  /\ pc[t] = "ran"
  /\ task' = [task EXCEPT ![t] = NoTask]
  /\ GotoWorker(t, IF abort[t] THEN "exited" ELSE "pop")
  /\ UNCHANGED <<taskQueue, flags, initedNum, idleNum, isDone, mutex, waiting, callerVars,
                 history>>

Lock(t) ==
  /\ pc[t] = "lock" /\ mutex = NoThread
  /\ mutex' = t
  /\ idleNum' = idleNum + 1
  /\ GotoWorker(t, "locked")
  /\ UNCHANGED <<taskQueue, flags, initedNum, isDone, waiting, task, callerVars, history>>

SetIdle(t) ==
  /\ pc[t] = "locked"
  /\ idle' = [idle EXCEPT ![t] = TRUE]
  /\ GotoWorker(t, "check")
  /\ UNCHANGED <<taskQueue, abort, inited, initedNum, idleNum, isDone, mutex, waiting, task,
                 callerVars, history>>

(* The predicate of _cv.wait first tries to pop a task and then looks at   *)
(* the flags; the faulty form looks at _isDone before.                     *)
CheckDoneFirst(t) ==
  /\ pc[t] = "check"
  /\ IF isDone THEN GotoWorker(t, "leave") /\ UNCHANGED <<task, taskQueue>>
     ELSE /\ TryPop(t)
          /\ GotoWorker(t, IF taskQueue = <<>> THEN "flags" ELSE "leave")
  /\ UNCHANGED <<flags, initedNum, idleNum, isDone, mutex, waiting, callerVars, history>>

CheckPop(t) ==
  /\ pc[t] = "check"
  /\ TryPop(t)
  /\ GotoWorker(t, IF taskQueue = <<>> THEN "flags" ELSE "leave")
  /\ UNCHANGED <<flags, initedNum, idleNum, isDone, mutex, waiting, callerVars, history>>

CheckFlags(t) ==
  /\ pc[t] = "flags"
  /\ IF isDone \/ abort[t]
     THEN GotoWorker(t, "leave") /\ UNCHANGED <<mutex, waiting>>
     ELSE GotoWorker(t, "wait") /\ mutex' = NoThread /\ waiting' = waiting \cup {t}
  /\ UNCHANGED <<taskQueue, flags, initedNum, idleNum, isDone, task, callerVars, history>>

SpuriousWakeup(t) ==
  /\ t \in waiting
  /\ waiting' = waiting \ {t}
  /\ UNCHANGED <<taskQueue, flags, initedNum, idleNum, isDone, mutex, workerVars,
                 callerVars, history>>

Wake(t) ==
  /\ pc[t] = "wait" /\ t \notin waiting /\ mutex = NoThread
  /\ mutex' = t
  /\ GotoWorker(t, "check")
  /\ UNCHANGED <<taskQueue, flags, initedNum, idleNum, isDone, waiting, task, callerVars,
                 history>>

ClearIdle(t) ==
  /\ pc[t] = "leave"
  /\ idle' = [idle EXCEPT ![t] = FALSE]
  /\ GotoWorker(t, "left")
  /\ UNCHANGED <<taskQueue, abort, inited, initedNum, idleNum, isDone, mutex, waiting, task,
                 callerVars, history>>

(* The mutex is released at the end of the block: with a task, or for good.*)
Leave(t) ==
  /\ pc[t] = "left"
  /\ idleNum' = idleNum - 1
  /\ mutex' = NoThread
  /\ GotoWorker(t, IF task[t] = NoTask THEN "exited" ELSE "run")
  /\ UNCHANGED <<taskQueue, flags, initedNum, isDone, waiting, task, callerVars, history>>

-----------------------------------------------------------------------------
Call ==
  \/ \E y \in TaskTypes : PushTask(y) \/ StopTasksByType(y)
  \/ TryShrinkPool \/ StopAllTasks \/ Stop

(* What the cocos thread does once a call has begun, ...                   *)
CallStep ==
  \/ LookEmpty \/ StretchPool \/ Enqueue
  \/ ShrinkLook \/ ShrinkMark \/ ShrinkJoin \/ ShrinkEnd
  \/ Sift \/ PushAgain \/ Clear \/ StopJoin \/ StopClear

(* ... and where it needs the mutex.                                       *)
CallLock == NotifyOne \/ ShrinkNotify \/ StopNotify

WorkerStep(t) ==
  \/ Pop(t) \/ Run(t) \/ LookAbort(t) \/ SetIdle(t) \/ CheckPop(t) \/ CheckFlags(t)
  \/ ClearIdle(t) \/ Leave(t)
WorkerLock(t) == Lock(t) \/ Wake(t)

Next ==
  \/ Call \/ CallStep \/ CallLock
  \/ \E t \in Threads : WorkerStep(t) \/ WorkerLock(t) \/ SpuriousWakeup(t)

Spec == Init /\ [][Next]_vars

(* Running threads are scheduled again, tasks end, and whoever waits for   *)
(* the mutex gets it if it is free again and again.                        *)
FairSpec ==
  /\ Spec
  /\ WF_vars(CallStep) /\ SF_vars(CallLock)
  /\ \A t \in Threads : WF_vars(WorkerStep(t)) /\ SF_vars(WorkerLock(t))

-----------------------------------------------------------------------------
(* Properties.                                                             *)

(* Every variable has its type.                                            *)
TypeOK ==
  /\ taskQueue \in Seq(Tasks) /\ saved \in Seq(Tasks)
  /\ abort \in [Threads -> BOOLEAN] /\ idle \in [Threads -> BOOLEAN]
  /\ inited \in [Threads -> BOOLEAN]
  /\ initedNum \in 0..maxThreadNum /\ idleNum \in 0..maxThreadNum /\ isDone \in BOOLEAN
  /\ mutex \in Threads \cup {NoThread} /\ waiting \subseteq Threads
  /\ pc \in [Threads -> {"none", "pop", "run", "ran", "lock", "locked", "check", "flags",
                         "wait", "leave", "left", "exited"}]
  /\ task \in [Threads -> Tasks \cup {NoTask}]
  /\ cPc \in {"idle", "look", "stretch", "enqueue", "notify", "shrink", "mark", "join",
              "sift", "again", "clear", "done", "joinAll", "gone"}
  /\ pushing \in Tasks \cup {NoTask} /\ type \in TaskTypes
  /\ at \in 0..maxThreadNum /\ chosen \subseteq Threads
  /\ pushed \in 0..MaxTasks /\ executed \subseteq 1..MaxTasks /\ stopped \subseteq 1..MaxTasks
  /\ sifted \subseteq 1..MaxTasks
  /\ calls \in 0..MaxCalls

(* Where a task is that was neither run nor removed.                       *)
Pending ==
  {taskQueue[i].id : i \in DOMAIN taskQueue} \cup {saved[i].id : i \in DOMAIN saved}
  \cup {task[t].id : t \in {u \in Threads : pc[u] \in {"run", "leave", "left"}}}
  \cup {pushing.id}

(* No task is lost, run twice or run after it was removed, while the cocos *)
(* thread and the workers take tasks out of one queue and put them back.   *)
TaskAccount ==
  /\ 1..pushed \subseteq Pending \cup executed \cup stopped
  /\ executed \cap stopped = {}
  /\ (executed \cup stopped) \cap (Pending \ {0}) = {}

(* The pool keeps its minimum of threads that are not asked to abort, and  *)
(* counts the ones it has, whichever are chosen while they wake.           *)
Available == {t \in Threads : inited[t] /\ ~abort[t]}
MinimumKept ==
  /\ ~isDone => Cardinality(Available) >= minThreadNum
  /\ initedNum = Cardinality({t \in Threads : inited[t]})
  /\ \A t \in Available : ~isDone => pc[t] \notin {"none", "exited"}

(* Tasks and threads are accounted for.                                    *)
PoolAccount == TypeOK /\ TaskAccount /\ MinimumKept

(* "The destructor waits for all the functions in the queue to be          *)
(* finished": when all threads have been joined the queue holds at most    *)
(* what stopTasksByType put back, of which no thread was told.             *)
StopDrains ==
  cPc = "joinAll" /\ at = maxThreadNum =>
    \A i \in DOMAIN taskQueue : taskQueue[i].id \in sifted

(* The same without an exception, as the comment has it.                   *)
DestructorWaits == cPc = "joinAll" /\ at = maxThreadNum => taskQueue = <<>>

(* A pushed task is run or removed, unless stopTasksByType has put it back *)
(* behind the back of the worker that was notified for it.                 *)
TaskRuns ==
  \A k \in 1..MaxTasks :
    (\E i \in DOMAIN taskQueue : taskQueue[i].id = k) ~> k \in executed \cup stopped \cup sifted

(* Shrinking, stopping and all other calls come back.                      *)
PoolCallReturns == cPc # "idle" ~> cPc \in {"idle", "gone"}
=============================================================================
