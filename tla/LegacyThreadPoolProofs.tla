----------------------- MODULE LegacyThreadPoolProofs -----------------------
(***************************************************************************)
(* The accounts of the pool and what its destructor leaves, for any number *)
(* of threads and tasks.                                                   *)
(***************************************************************************)
EXTENDS LegacyThreadPool, FiniteSetTheorems, TLAPS

(* A task's identifiers in a queue, and that none is there twice.          *)
Ids(s) == {s[i].id : i \in DOMAIN s}
Distinct(s) == \A i, j \in DOMAIN s : s[i].id = s[j].id => i = j

(* The threads that hold a task they have not run.                         *)
Holders == {t \in Threads : pc[t] \in {"run", "leave", "left"} /\ task[t] # NoTask}
HeldIds == {task[t].id : t \in Holders}
HeldApart == \A t, u \in Holders : task[t].id = task[u].id => t = u
PushingIds == IF pushing = NoTask THEN {} ELSE {pushing.id}

IdlePcs == {"locked", "check", "flags", "wait", "leave", "left"}
IdleSet == {t \in Threads : pc[t] \in IdlePcs}
InitedSet == {t \in Threads : inited[t]}

(* Where a worker is agrees with the flags, the mutex and the condition.   *)
Worker(t) ==
  /\ inited[t] <=> pc[t] # "none"
  /\ mutex = t <=> pc[t] \in IdlePcs \ {"wait"}
  /\ t \in waiting => pc[t] = "wait"
  /\ idle[t] => pc[t] \in {"check", "flags", "wait", "leave"}
  /\ pc[t] = "run" => task[t] # NoTask
  /\ pc[t] = "flags" => task[t] = NoTask
  /\ \/ pc[t] = "exited"
     \/ pc[t] \in {"leave", "left"} /\ task[t] = NoTask
     => isDone \/ abort[t]
Workers == \A t \in Threads : Worker(t)

Counts ==
  /\ idleNum = Cardinality(IdleSet)
  /\ initedNum = Cardinality(InitedSet)

(* Started threads that are asked to abort are those tryShrinkPool chose,  *)
(* and it leaves enough.                                                   *)
Chosen ==
  /\ \A t \in Threads : inited[t] => (abort[t] <=> t \in chosen)
  /\ \A t \in chosen : inited[t]
  /\ cPc \notin {"shrink", "mark", "join"} => chosen = {}
  /\ cPc \in {"shrink", "mark"} => \A t \in chosen : t < at
  /\ cPc = "mark" => /\ at \in Threads /\ inited[at]
                     /\ Cardinality(chosen) + minThreadNum < initedNum
  /\ ~isDone => Cardinality(chosen) + minThreadNum <= initedNum

(* What the step of the cocos thread says of the task it pushes, and of    *)
(* the end.                                                                *)
Caller ==
  /\ isDone => cPc \in {"done", "joinAll", "clear", "gone"}
  /\ cPc \in {"done", "joinAll"} => isDone
  /\ cPc = "done" => at = 0
  /\ cPc \in {"look", "stretch", "enqueue"} => pushing # NoTask
  /\ cPc \notin {"look", "stretch", "enqueue", "shrink", "mark", "join"} => pushing = NoTask
  /\ cPc = "joinAll" => \A t \in Threads : t < at => pc[t] = "none"

(* Every task pushed is in one place.                                      *)
Partition(Q, S, H, U, E, X, n) ==
  /\ Q \cup S \cup H \cup U \cup E \cup X = 1..n
  /\ Q \cap (S \cup H \cup U \cup E \cup X) = {}
  /\ S \cap (H \cup U \cup E \cup X) = {}
  /\ H \cap (U \cup E \cup X) = {}
  /\ U \cap (E \cup X) = {}
  /\ E \cap X = {}

Account ==
  /\ Distinct(taskQueue) /\ Distinct(saved)
  /\ HeldApart
  /\ Partition(Ids(taskQueue), Ids(saved), HeldIds, PushingIds, executed, stopped, pushed)

(* A thread that will look into the queue before it sleeps or ends.        *)
Wakeful(t) ==
  /\ inited[t] /\ ~abort[t]
  /\ \/ pc[t] \in {"pop", "run", "ran", "lock", "locked", "check"}
     \/ pc[t] \in {"leave", "left"} /\ task[t] # NoTask
     \/ pc[t] = "wait" /\ t \notin waiting

(* While a task is in the queue that was not put back, somebody will look, *)
(* except while somebody is still to be notified.                          *)
NoWakeUpMissed ==
  Ids(taskQueue) \subseteq sifted \/ cPc \in {"notify", "shrink", "mark"}
    \/ \E t \in Threads : Wakeful(t)

IInv == TypeOK /\ Workers /\ Counts /\ Chosen /\ Caller /\ Account /\ NoWakeUpMissed

-----------------------------------------------------------------------------
(* Sets of threads and queues of tasks.                                    *)

LEMMA ThreadFacts ==
  /\ maxThreadNum \in Nat /\ minThreadNum \in Nat
  /\ Threads \subseteq Nat /\ NoThread \notin Threads
  /\ IsFiniteSet(Threads) /\ Cardinality(Threads) = maxThreadNum
<1>1. /\ maxThreadNum \in Nat /\ minThreadNum \in Nat
      /\ Threads \subseteq Nat /\ NoThread \notin Threads
  BY ThreadNumAssumption DEF Threads, NoThread
<1>2. IsFiniteSet(Threads) /\ Cardinality(Threads) = maxThreadNum
  BY FS_Interval, ThreadNumAssumption DEF Threads
<1>3. QED
  BY <1>1, <1>2

LEMMA SomeThreads ==
  ASSUME NEW A \in SUBSET Threads
  PROVE  IsFiniteSet(A) /\ Cardinality(A) \in 0..maxThreadNum
<1>1. IsFiniteSet(A) /\ Cardinality(A) <= maxThreadNum
  BY ThreadFacts, FS_Subset
<1>2. QED
  BY <1>1, ThreadFacts, FS_CardinalityType

LEMMA TaskId ==
  ASSUME NEW e \in Tasks
  PROVE  e.id \in 1..MaxTasks /\ e # NoTask
BY CallAssumption DEF Tasks, NoTask

LEMMA AppendTask ==
  ASSUME NEW s \in Seq(Tasks), NEW e \in Tasks
  PROVE  /\ Append(s, e) \in Seq(Tasks)
         /\ Ids(Append(s, e)) = Ids(s) \cup {e.id}
         /\ Distinct(s) /\ e.id \notin Ids(s) => Distinct(Append(s, e))
<1>1. /\ Append(s, e) \in Seq(Tasks) /\ Len(s) \in Nat
      /\ DOMAIN s = 1..Len(s) /\ DOMAIN Append(s, e) = 1..Len(s) + 1
      /\ \A i \in 1..Len(s) : Append(s, e)[i] = s[i]
      /\ Append(s, e)[Len(s) + 1] = e
  OBVIOUS
<1>2. \A i \in 1..Len(s) + 1 : i \in 1..Len(s) \/ i = Len(s) + 1
  BY <1>1
<1>3. Ids(Append(s, e)) = Ids(s) \cup {e.id}
  BY <1>1, <1>2 DEF Ids
<1>4. Distinct(s) /\ e.id \notin Ids(s) => Distinct(Append(s, e))
  BY <1>1, <1>2 DEF Ids, Distinct
<1>5. QED
  BY <1>1, <1>3, <1>4

LEMMA TailTask ==
  ASSUME NEW s \in Seq(Tasks), s # <<>>, Distinct(s)
  PROVE  /\ Tail(s) \in Seq(Tasks) /\ Head(s) \in Tasks
         /\ Head(s).id \in Ids(s) /\ Ids(Tail(s)) = Ids(s) \ {Head(s).id}
         /\ Distinct(Tail(s))
<1>1. /\ Tail(s) \in Seq(Tasks) /\ Len(s) \in Nat \ {0} /\ Head(s) = s[1]
      /\ DOMAIN s = 1..Len(s) /\ DOMAIN Tail(s) = 1..Len(s) - 1
      /\ \A i \in 1..Len(s) - 1 : Tail(s)[i] = s[i + 1]
  OBVIOUS
<1>2. Head(s) \in Tasks /\ Head(s).id \in Ids(s)
  BY <1>1 DEF Ids
<1>3. Distinct(Tail(s))
  BY <1>1 DEF Distinct
<1>4. Ids(Tail(s)) \subseteq Ids(s) \ {Head(s).id}
  BY <1>1 DEF Ids, Distinct
<1>5. ASSUME NEW k \in Ids(s) \ {Head(s).id} PROVE k \in Ids(Tail(s))
  <2>1. PICK i \in 1..Len(s) : k = s[i].id
    BY <1>1 DEF Ids
  <2>2. i - 1 \in 1..Len(s) - 1 /\ Tail(s)[i - 1] = s[i]
    BY <1>1, <2>1
  <2>3. QED
    BY <1>1, <2>1, <2>2 DEF Ids
<1>6. QED
  BY <1>1, <1>2, <1>3, <1>4, <1>5

-----------------------------------------------------------------------------
(* Workers.                                                                *)

Surroundings == <<pc, inited, mutex, waiting, idle, task, isDone, abort>>

LEMMA WorkersStep ==
  ASSUME IInv, [Next]_vars
  PROVE  Workers'
<1>0. TypeOK /\ Workers /\ Chosen /\ Caller /\ NoThread \notin Threads
  BY ThreadFacts DEF IInv
<1>1. ASSUME UNCHANGED Surroundings PROVE Workers'
  BY <1>0, <1>1 DEF Surroundings, Workers, Worker
<1>2. ASSUME Call PROVE Workers'
  <2>1. ASSUME UNCHANGED <<pc, inited, mutex, waiting, idle, task, abort>>, isDone'
        PROVE  Workers'
    BY <1>0, <2>1 DEF Workers, Worker
  <2>2. QED
    BY <1>1, <1>2, <2>1 DEF Call, PushTask, StopTasksByType, TryShrinkPool, StopAllTasks,
       Stop, flags, workerVars, Surroundings
<1>3. ASSUME LookEmpty \/ Enqueue \/ ShrinkLook \/ ShrinkEnd \/ Sift \/ PushAgain \/ Clear
               \/ StopClear
      PROVE  Workers'
  BY <1>1, <1>3 DEF LookEmpty, Enqueue, ShrinkLook, ShrinkEnd, Sift, PushAgain, Clear,
     StopClear, flags, workerVars, Surroundings
<1>4. ASSUME StretchPool PROVE Workers'
  BY <1>0, <1>4 DEF StretchPool, TypeOK, Workers, Worker, IdlePcs
<1>5. ASSUME ShrinkMark PROVE Workers'
  BY <1>0, <1>5 DEF ShrinkMark, TypeOK, Workers, Worker, workerVars
<1>6. ASSUME ShrinkJoin \/ StopJoin PROVE Workers'
  <2>1. ASSUME NEW t \in Threads, Join(t), UNCHANGED <<mutex, waiting, idle, task, isDone, abort>>
        PROVE  Workers'
    BY <1>0, <2>1 DEF Join, GotoWorker, TypeOK, Workers, Worker, IdlePcs
  <2>2. ASSUME ShrinkJoin PROVE Workers'
    BY <1>0, <2>1, <2>2 DEF ShrinkJoin, TypeOK
  <2>3. ASSUME StopJoin PROVE Workers'
    <3>1. at \in Threads
      BY <1>0, <2>3, ThreadNumAssumption DEF StopJoin, TypeOK, Threads
    <3>2. QED
      BY <1>1, <2>1, <2>3, <3>1 DEF StopJoin, Surroundings
  <2>4. QED
    BY <1>6, <2>2, <2>3
<1>7. ASSUME CallLock PROVE Workers'
  <2>1. /\ UNCHANGED <<pc, inited, mutex, idle, task, isDone, abort>>
        /\ waiting' \subseteq waiting
    BY <1>0, <1>7 DEF CallLock, NotifyOne, ShrinkNotify, StopNotify, NotifyAll, flags,
       workerVars, TypeOK
  <2>2. QED
    BY <1>0, <2>1 DEF Workers, Worker
<1>8. ASSUME NEW t \in Threads, WorkerStep(t) \/ WorkerLock(t) \/ SpuriousWakeup(t)
      PROVE  Workers'
  <2>0. /\ \A u \in Threads : Worker(u)
        /\ UNCHANGED <<inited, isDone, abort>>
    BY <1>0, <1>8 DEF WorkerStep, WorkerLock, SpuriousWakeup, Pop, Run, LookAbort, SetIdle,
       CheckPop, CheckFlags, ClearIdle, Leave, Lock, Wake, flags, Workers
  <2>1. ASSUME NEW u \in Threads, u # t PROVE Worker(u)'
    <3>1. /\ pc'[u] = pc[u] /\ task'[u] = task[u] /\ idle'[u] = idle[u]
          /\ u \in waiting' <=> u \in waiting
          /\ mutex' = u <=> mutex = u
      BY <1>0, <1>8, <2>0, <2>1 DEF WorkerStep, WorkerLock, SpuriousWakeup, Pop, Run, LookAbort,
         SetIdle, CheckPop, CheckFlags, ClearIdle, Leave, Lock, Wake, flags, GotoWorker,
         TryPop, workerVars, TypeOK, Worker, IdlePcs
    <3>2. QED
      BY <2>0, <2>1, <3>1 DEF Worker
  <2>2. Worker(t)'
    BY <1>0, <1>8, <2>0, TaskId DEF WorkerStep, WorkerLock, SpuriousWakeup, Pop, Run, LookAbort,
         SetIdle, CheckPop, CheckFlags, ClearIdle, Leave, Lock, Wake, flags, GotoWorker,
         TryPop, workerVars, TypeOK, Worker, IdlePcs
  <2>3. QED
    BY <2>1, <2>2 DEF Workers
<1>9. CASE UNCHANGED vars
  BY <1>1, <1>9 DEF vars, flags, workerVars, Surroundings
<1>10. QED
  BY <1>2, <1>3, <1>4, <1>5, <1>6, <1>7, <1>8, <1>9 DEF Next, CallStep

-----------------------------------------------------------------------------
(* The counts.                                                             *)

LEMMA CountsKept ==
  ASSUME Counts, UNCHANGED <<idleNum, initedNum, inited>>, IdleSet' = IdleSet
  PROVE  Counts'
BY DEF Counts, InitedSet

(* A joined thread was started, and no idle one.                           *)
LEMMA CountsJoin ==
  ASSUME TypeOK, Workers, Counts, NEW t \in Threads, Join(t), UNCHANGED idleNum
  PROVE  Counts'
<1>1. IdleSet' = IdleSet /\ t \in InitedSet /\ InitedSet' = InitedSet \ {t}
  BY DEF Join, GotoWorker, TypeOK, Workers, Worker, IdleSet, IdlePcs, InitedSet
<1>2. IsFiniteSet(InitedSet)
  BY SomeThreads DEF InitedSet
<1>3. Cardinality(InitedSet') = Cardinality(InitedSet) - 1
  BY <1>1, <1>2, FS_RemoveElement
<1>4. QED
  BY <1>1, <1>3 DEF Counts, Join

LEMMA CountsStretch ==
  ASSUME TypeOK, Workers, Counts, StretchPool
  PROVE  Counts'
<1> DEFINE unstarted == {t \in Threads : ~inited[t]}
           new == {t \in unstarted : Cardinality({u \in unstarted : u < t}) < stretchStep}
<1>1. /\ new \subseteq Threads
      /\ \A t \in new : ~inited[t]
  OBVIOUS
<1>2. /\ inited' = [t \in Threads |-> inited[t] \/ t \in new]
      /\ initedNum' = initedNum + Cardinality(new)
      /\ pc' = [t \in Threads |-> IF t \in new THEN "pop" ELSE pc[t]]
      /\ idleNum' = idleNum
  BY DEF StretchPool
<1> HIDE DEF new
<1>3. IdleSet' = IdleSet
  BY <1>1, <1>2 DEF IdleSet, IdlePcs, Workers, Worker
<1>4. InitedSet' = InitedSet \cup new /\ InitedSet \cap new = {}
  BY <1>1, <1>2 DEF InitedSet
<1>5. IsFiniteSet(InitedSet) /\ IsFiniteSet(new)
  BY <1>1, SomeThreads DEF InitedSet
<1>6. Cardinality(InitedSet \cup new) =
        Cardinality(InitedSet) + Cardinality(new) - Cardinality(InitedSet \cap new)
  BY <1>5, FS_Union
<1>7. Cardinality(InitedSet \cap new) = 0
  BY <1>4, FS_EmptySet
<1>8. Cardinality(InitedSet) \in Nat /\ Cardinality(new) \in Nat
  BY <1>5, FS_CardinalityType
<1>9. Cardinality(InitedSet') = Cardinality(InitedSet) + Cardinality(new)
  BY <1>4, <1>6, <1>7, <1>8
<1>10. QED
  BY <1>2, <1>3, <1>9 DEF Counts

LEMMA CountsStep ==
  ASSUME IInv, [Next]_vars
  PROVE  Counts'
<1>0. TypeOK /\ Workers /\ Chosen /\ Counts
  BY DEF IInv
<1>1. ASSUME UNCHANGED <<idleNum, initedNum, inited, pc>> PROVE Counts'
  BY <1>0, <1>1, CountsKept DEF IdleSet
<1>2. ASSUME Call PROVE Counts'
  BY <1>1, <1>2 DEF Call, PushTask, StopTasksByType, TryShrinkPool, StopAllTasks, Stop, flags,
     workerVars
<1>3. ASSUME CallStep PROVE Counts'
  <2>1. ASSUME \/ LookEmpty \/ Enqueue \/ ShrinkLook \/ ShrinkMark \/ ShrinkEnd \/ Sift
               \/ PushAgain \/ Clear \/ StopClear
        PROVE  Counts'
    BY <1>1, <2>1 DEF LookEmpty, Enqueue, ShrinkLook, ShrinkMark, ShrinkEnd, Sift, PushAgain,
       Clear, StopClear, flags, workerVars
  <2>2. ASSUME ShrinkJoin PROVE Counts'
    BY <1>0, <2>2, CountsJoin DEF ShrinkJoin, TypeOK
  <2>3. ASSUME StopJoin PROVE Counts'
    <3>1. at \in Threads
      BY <1>0, <2>3, ThreadNumAssumption DEF StopJoin, TypeOK, Threads
    <3>2. QED
      BY <1>0, <1>1, <2>3, <3>1, CountsJoin DEF StopJoin
  <2>4. QED
    BY <1>0, <1>3, <2>1, <2>2, <2>3, CountsStretch DEF CallStep
<1>4. ASSUME CallLock PROVE Counts'
  BY <1>1, <1>4 DEF CallLock, NotifyOne, ShrinkNotify, StopNotify, flags, workerVars
<1>5. ASSUME NEW t \in Threads, WorkerStep(t) \/ WorkerLock(t) \/ SpuriousWakeup(t)
      PROVE  Counts'
  <2>0. IsFiniteSet(IdleSet) /\ Cardinality(IdleSet) \in Nat
    BY SomeThreads DEF IdleSet
  <2>1. CASE Lock(t)
    <3>1. IdleSet' = IdleSet \cup {t} /\ t \notin IdleSet
      BY <1>0, <2>1 DEF Lock, GotoWorker, TypeOK, IdleSet, IdlePcs
    <3>2. Cardinality(IdleSet') = Cardinality(IdleSet) + 1
      BY <2>0, <3>1, FS_AddElement
    <3>3. QED
      BY <1>0, <2>1, <3>2 DEF Lock, Counts, flags, InitedSet
  <2>2. CASE Leave(t)
    <3>1. IdleSet' = IdleSet \ {t} /\ t \in IdleSet
      BY <1>0, <2>2 DEF Leave, GotoWorker, TypeOK, IdleSet, IdlePcs
    <3>2. Cardinality(IdleSet') = Cardinality(IdleSet) - 1
      BY <2>0, <3>1, FS_RemoveElement
    <3>3. QED
      BY <1>0, <2>2, <3>2 DEF Leave, Counts, flags, InitedSet
  <2>3. CASE ~Lock(t) /\ ~Leave(t)
    <3>1. /\ UNCHANGED <<idleNum, initedNum, inited>>
          /\ \A u \in Threads : pc'[u] \in IdlePcs <=> pc[u] \in IdlePcs
      BY <1>0, <1>5, <2>3 DEF WorkerStep, WorkerLock, SpuriousWakeup, Pop, Run, LookAbort,
         SetIdle, CheckPop, CheckFlags, ClearIdle, Wake, flags, GotoWorker, TryPop, workerVars,
         TypeOK, IdlePcs
    <3>2. QED
      BY <1>0, <3>1, CountsKept DEF IdleSet
  <2>4. QED
    BY <2>1, <2>2, <2>3
<1>6. CASE UNCHANGED vars
  BY <1>1, <1>6 DEF vars, flags, workerVars
<1>7. QED
  BY <1>2, <1>3, <1>4, <1>5, <1>6 DEF Next

-----------------------------------------------------------------------------
(* The threads chosen to abort.                                            *)

LEMMA ChosenCount ==
  ASSUME TypeOK
  PROVE  IsFiniteSet(chosen) /\ Cardinality(chosen) \in Nat /\ initedNum \in Nat
BY SomeThreads, ThreadNumAssumption DEF TypeOK

LEMMA ChosenKept ==
  ASSUME Chosen, UNCHANGED <<abort, inited, initedNum, chosen>>, isDone => isDone',
         \/ UNCHANGED <<cPc, at>>
         \/ cPc' \notin {"shrink", "mark"} /\ (cPc' = "join" \/ chosen = {})
  PROVE  Chosen'
BY DEF Chosen

LEMMA ChosenStep ==
  ASSUME IInv, [Next]_vars
  PROVE  Chosen'
<1>0. TypeOK /\ Workers /\ Chosen /\ Caller /\ minThreadNum \in Nat /\ Threads \subseteq Nat
  BY ThreadFacts DEF IInv
<1>c. IsFiniteSet(chosen) /\ Cardinality(chosen) \in Nat /\ initedNum \in Nat
  BY <1>0, ChosenCount
<1>1. ASSUME UNCHANGED <<abort, inited, initedNum, chosen>>,
             cPc' \in {"shrink", "mark", "join"} => UNCHANGED <<cPc, at>>,
             cPc \notin {"shrink", "mark", "join"} \/ UNCHANGED <<cPc, at>>,
             isDone => isDone'
      PROVE  Chosen'
  BY <1>0, <1>1, ChosenKept DEF Chosen
<1>2. ASSUME Call PROVE Chosen'
  <2>1. CASE TryShrinkPool
    <3>1. chosen = {} /\ chosen' = {} /\ cPc' = "shrink" /\ UNCHANGED <<abort, inited, initedNum, isDone>>
      BY <1>0, <2>1 DEF TryShrinkPool, Calling, Goto, Chosen, flags
    <3>2. QED
      BY <1>0, <3>1 DEF Chosen
  <2>2. CASE Call /\ ~TryShrinkPool
    BY <1>1, <2>2 DEF Call, Calling, PushTask, StopTasksByType, StopAllTasks, Stop, Goto, flags
  <2>3. QED
    BY <1>2, <2>1, <2>2
<1>3. ASSUME CallStep PROVE Chosen'
  <2>1. CASE LookEmpty
    <3>1. chosen = {} /\ chosen' = {} /\ cPc' \in {"shrink", "enqueue"}
          /\ UNCHANGED <<abort, inited, initedNum, isDone>>
      BY <1>0, <2>1 DEF LookEmpty, Goto, Chosen, flags
    <3>2. QED
      BY <1>0, <3>1 DEF Chosen
  <2>2. CASE StretchPool
    <3>1. /\ chosen = {} /\ chosen' = {} /\ cPc' = "enqueue" /\ isDone' = isDone
          /\ \A t \in Threads : inited'[t] => \/ inited[t] /\ abort'[t] = abort[t]
                                             \/ ~abort'[t]
      BY <1>0, <2>2 DEF StretchPool, Goto, Chosen, TypeOK
    <3>2. initedNum' >= initedNum
      <4>1. InitedSet \subseteq InitedSet'
        BY <1>0, <2>2 DEF StretchPool, InitedSet
      <4>2. Counts'
        BY CountsStep
      <4>3. InitedSet' \subseteq Threads
        BY DEF InitedSet
      <4>4. IsFiniteSet(InitedSet') /\ Cardinality(InitedSet') \in Nat
        BY <4>3, SomeThreads
      <4>5. Cardinality(InitedSet) <= Cardinality(InitedSet')
        BY <4>1, <4>4, FS_Subset
      <4>6. QED
        BY <4>2, <4>5 DEF IInv, Counts
    <3>3. initedNum' \in Nat
      <4>1. Counts'
        BY CountsStep
      <4>2. InitedSet' \in SUBSET Threads
        BY DEF InitedSet
      <4>3. QED
        BY <4>1, <4>2, SomeThreads, ThreadFacts DEF Counts
    <3>4. QED
      BY <1>0, <1>c, <3>1, <3>2, <3>3 DEF Chosen
  <2>3. CASE Enqueue \/ Sift \/ PushAgain \/ Clear \/ StopClear
    BY <1>1, <2>3 DEF Enqueue, Sift, PushAgain, Clear, StopClear, Goto, flags
  <2>4. CASE ShrinkLook
    <3>1. at \in Threads
      BY <1>0, <2>4, ThreadNumAssumption DEF ShrinkLook, TypeOK, Threads
    <3>2. /\ UNCHANGED <<abort, inited, initedNum, isDone, chosen>>
          /\ Cardinality(chosen) < initedNum - minThreadNum
          /\ \A t \in chosen : t < at
          /\ \/ cPc' = "mark" /\ inited[at] /\ at' = at
             \/ cPc' = "shrink" /\ at' = at + 1
      BY <1>0, <1>c, <2>4, <3>1, ThreadNumAssumption
         DEF ShrinkLook, Enough, Goto, Chosen, Workers, Worker, flags
    <3>3. \A t \in chosen : t \in Nat /\ at \in Nat
      BY <1>0, <3>1 DEF TypeOK
    <3>4. QED
      BY <1>0, <1>c, <3>1, <3>2, <3>3 DEF Chosen
  <2>5. CASE ShrinkMark
    <3>1. /\ at \in Threads /\ inited[at]
          /\ Cardinality(chosen) + minThreadNum < initedNum
          /\ \A t \in chosen : t < at
          /\ abort' = [abort EXCEPT ![at] = TRUE] /\ chosen' = chosen \cup {at}
          /\ at' = at + 1 /\ cPc' = "shrink"
          /\ UNCHANGED <<inited, initedNum, isDone>>
      BY <1>0, <2>5 DEF ShrinkMark, Chosen, Goto
    <3>0. at \in Nat /\ ~(at < at) /\ at \notin chosen
      BY <1>0, <3>1
    <3>2. Cardinality(chosen') = Cardinality(chosen) + 1
      BY <1>c, <3>0, <3>1, FS_AddElement
    <3>3. \A t \in chosen' : t < at'
      BY <1>0, <3>1 DEF TypeOK
    <3>4. \A t \in Threads : inited'[t] => (abort'[t] <=> t \in chosen')
      BY <1>0, <3>1 DEF TypeOK, Chosen
    <3>5. \A t \in chosen' : inited'[t]
      BY <1>0, <3>1 DEF Chosen
    <3>6. Cardinality(chosen') + minThreadNum <= initedNum'
      BY <1>0, <1>c, <3>1, <3>2
    <3>7. QED
      BY <3>1, <3>3, <3>4, <3>5, <3>6 DEF Chosen
  <2>6. CASE ShrinkJoin
    <3>1. PICK t \in chosen : Join(t) /\ chosen' = chosen \ {t}
      BY <2>6 DEF ShrinkJoin
    <3>2. UNCHANGED <<abort, isDone, cPc, at>> /\ cPc = "join"
      BY <2>6 DEF ShrinkJoin
    <3>3. Cardinality(chosen') = Cardinality(chosen) - 1
      BY <1>c, <3>1, FS_RemoveElement
    <3>4. /\ inited' = [inited EXCEPT ![t] = FALSE] /\ initedNum' = initedNum - 1
      BY <3>1 DEF Join
    <3>5. \A u \in Threads : inited'[u] <=> inited[u] /\ u # t
      BY <1>0, <3>4 DEF TypeOK
    <3>6. chosen' \subseteq Threads /\ \A u \in chosen' : inited'[u]
      BY <1>0, <3>1, <3>5 DEF Chosen, TypeOK
    <3>7. \A u \in Threads : inited'[u] => (abort'[u] <=> u \in chosen')
      BY <1>0, <3>1, <3>2, <3>5 DEF Chosen
    <3>8. ~isDone => Cardinality(chosen') + minThreadNum <= initedNum'
      BY <1>0, <1>c, <3>3, <3>4 DEF Chosen
    <3>9. QED
      BY <3>2, <3>6, <3>7, <3>8 DEF Chosen
  <2>7. CASE ShrinkEnd
    BY <1>0, <2>7, ChosenKept DEF ShrinkEnd, Goto, flags
  <2>8. CASE StopJoin
    <3>1. chosen = {} /\ chosen' = {} /\ cPc' = "joinAll" /\ isDone'
          /\ \A t \in Threads : inited'[t] => inited[t] /\ abort'[t] = abort[t]
      BY <1>0, <2>8 DEF StopJoin, Join, Chosen, Caller, TypeOK
    <3>2. QED
      BY <1>0, <3>1 DEF Chosen
  <2>9. QED
    BY <1>3, <2>1, <2>2, <2>3, <2>4, <2>5, <2>6, <2>7, <2>8 DEF CallStep
<1>4. ASSUME CallLock PROVE Chosen'
  BY <1>0, <1>4, ChosenKept
     DEF Chosen, CallLock, NotifyOne, ShrinkNotify, StopNotify, NotifyAll, Goto, flags
<1>5. ASSUME NEW t \in Threads, WorkerStep(t) \/ WorkerLock(t) \/ SpuriousWakeup(t)
      PROVE  Chosen'
  <2>1. UNCHANGED <<abort, inited, initedNum, isDone, callerVars>>
    BY <1>5 DEF WorkerStep, WorkerLock, SpuriousWakeup, Pop, Run, LookAbort, SetIdle, CheckPop,
       CheckFlags, ClearIdle, Leave, Lock, Wake, flags
  <2>2. QED
    BY <1>0, <2>1, ChosenKept DEF callerVars
<1>6. CASE UNCHANGED vars
  BY <1>0, <1>6, ChosenKept DEF vars, flags, callerVars
<1>7. QED
  BY <1>2, <1>3, <1>4, <1>5, <1>6 DEF Next

-----------------------------------------------------------------------------
(* The calls.                                                              *)

LEMMA CallerStep ==
  ASSUME IInv, [Next]_vars
  PROVE  Caller'
<1>0. TypeOK /\ Workers /\ Caller
  BY DEF IInv
<1>1. ASSUME UNCHANGED <<pc, isDone, cPc, pushing, at>> PROVE Caller'
  BY <1>0, <1>1 DEF Caller
<1>2. ASSUME NEW y \in TaskTypes, PushTask(y) PROVE Caller'
  <2>1. /\ pushing' = [id |-> pushed + 1, type |-> y] /\ pushed \in Nat
        /\ cPc' \in {"look", "stretch", "enqueue"} /\ cPc = "idle" /\ isDone' = isDone
    BY <1>0, <1>2, CallAssumption DEF PushTask, Goto, TypeOK
  <2>2. pushing'.id # NoTask.id
    BY <2>1 DEF NoTask
  <2>3. QED
    BY <1>0, <2>1, <2>2 DEF Caller
<1>3. ASSUME \/ \E y \in TaskTypes : StopTasksByType(y)
             \/ TryShrinkPool \/ StopAllTasks \/ Stop
      PROVE  Caller'
  BY <1>0, <1>3 DEF StopTasksByType, TryShrinkPool, StopAllTasks, Stop, Calling, Goto, Caller
<1>4. ASSUME CallStep PROVE Caller'
  <2>1. CASE LookEmpty \/ StretchPool \/ Enqueue \/ Sift \/ PushAgain \/ Clear
    BY <1>0, <2>1 DEF LookEmpty, StretchPool, Enqueue, Sift, PushAgain, Clear, Goto, Caller
  <2>2. CASE ShrinkLook \/ ShrinkMark \/ ShrinkJoin \/ ShrinkEnd
    BY <1>0, <2>2 DEF ShrinkLook, ShrinkMark, ShrinkJoin, ShrinkEnd, Goto, Caller
  <2>3. CASE StopJoin
    <3>1. /\ at \in Threads /\ at' = at + 1 /\ cPc = "joinAll"
          /\ UNCHANGED <<cPc, isDone, pushing>>
      BY <1>0, <2>3, ThreadNumAssumption DEF StopJoin, TypeOK, Threads
    <3>2. pc'[at] = "none" /\ \A t \in Threads : pc[t] = "none" => pc'[t] = "none"
      BY <1>0, <2>3, <3>1 DEF StopJoin, Join, GotoWorker, TypeOK, Workers, Worker
    <3>3. \A t \in Threads : t < at' => t < at \/ t = at
      BY <3>1, ThreadFacts
    <3>4. QED
      BY <1>0, <3>1, <3>2, <3>3 DEF Caller
  <2>4. CASE StopClear
    BY <1>0, <2>4 DEF StopClear, Goto, Caller
  <2>5. QED
    BY <1>4, <2>1, <2>2, <2>3, <2>4 DEF CallStep
<1>5. ASSUME CallLock PROVE Caller'
  <2>1. CASE NotifyOne \/ ShrinkNotify
    BY <1>0, <2>1 DEF NotifyOne, ShrinkNotify, Goto, Caller
  <2>2. CASE StopNotify
    <3>1. cPc = "done" /\ cPc' = "joinAll" /\ at = 0 /\ at' = at /\ isDone' = isDone /\ pushing' = pushing
      BY <1>0, <2>2 DEF StopNotify, Goto, Caller
    <3>2. \A t \in Threads : ~(t < at')
      BY <3>1, ThreadFacts
    <3>3. QED
      BY <1>0, <3>1, <3>2 DEF Caller
  <2>3. QED
    BY <1>5, <2>1, <2>2 DEF CallLock
<1>6. ASSUME NEW t \in Threads, WorkerStep(t) \/ WorkerLock(t) \/ SpuriousWakeup(t)
      PROVE  Caller'
  <2>1. /\ UNCHANGED <<isDone, callerVars>>
        /\ \A u \in Threads : pc[u] = "none" => pc'[u] = "none"
    BY <1>0, <1>6 DEF WorkerStep, WorkerLock, SpuriousWakeup, Pop, Run, LookAbort, SetIdle,
       CheckPop, CheckFlags, ClearIdle, Leave, Lock, Wake, flags, GotoWorker, workerVars, TypeOK
  <2>2. QED
    BY <1>0, <2>1 DEF Caller, callerVars
<1>7. CASE UNCHANGED vars
  BY <1>1, <1>7 DEF vars, callerVars, workerVars
<1>8. QED
  BY <1>2, <1>3, <1>4, <1>5, <1>6, <1>7 DEF Next, Call

-----------------------------------------------------------------------------
(* Types.                                                                  *)

LEMMA NextCounts ==
  ASSUME IInv, [Next]_vars
  PROVE  initedNum' \in 0..maxThreadNum /\ idleNum' \in 0..maxThreadNum
<1>1. InitedSet' \in SUBSET Threads /\ IdleSet' \in SUBSET Threads
  BY DEF InitedSet, IdleSet
<1>2. QED
  BY <1>1, CountsStep, SomeThreads DEF Counts

LEMMA TypeStep ==
  ASSUME IInv, [Next]_vars
  PROVE  TypeOK'
<1>0. /\ TypeOK /\ Workers /\ Caller /\ Distinct(taskQueue) /\ Distinct(saved)
      /\ initedNum' \in 0..maxThreadNum /\ idleNum' \in 0..maxThreadNum
  BY NextCounts DEF IInv, Account
<1> DEFINE Flags ==
             /\ abort' \in [Threads -> BOOLEAN] /\ idle' \in [Threads -> BOOLEAN]
             /\ inited' \in [Threads -> BOOLEAN] /\ isDone' \in BOOLEAN
             /\ mutex' \in Threads \cup {NoThread} /\ waiting' \subseteq Threads
             /\ pc' \in [Threads -> {"none", "pop", "run", "ran", "lock", "locked", "check",
                                     "flags", "wait", "leave", "left", "exited"}]
           Places ==
             /\ taskQueue' \in Seq(Tasks) /\ saved' \in Seq(Tasks)
             /\ task' \in [Threads -> Tasks \cup {NoTask}]
             /\ pushing' \in Tasks \cup {NoTask}
           Control ==
             /\ cPc' \in {"idle", "look", "stretch", "enqueue", "notify", "shrink", "mark",
                          "join", "sift", "again", "clear", "done", "joinAll", "gone"}
             /\ type' \in TaskTypes
             /\ at' \in 0..maxThreadNum /\ chosen' \subseteq Threads
           History ==
             /\ pushed' \in 0..MaxTasks /\ executed' \subseteq 1..MaxTasks
             /\ stopped' \subseteq 1..MaxTasks /\ sifted' \subseteq 1..MaxTasks
             /\ calls' \in 0..MaxCalls
<1>q. ASSUME NEW s \in Seq(Tasks), s # <<>>
      PROVE  Tail(s) \in Seq(Tasks) /\ Head(s) \in Tasks /\ Head(s).id \in 1..MaxTasks
  <2>1. Tail(s) \in Seq(Tasks) /\ Head(s) \in Tasks
    BY <1>q
  <2>2. QED
    BY <2>1, TaskId
<1>1. ASSUME UNCHANGED <<abort, idle, inited, isDone, mutex, waiting, pc>> PROVE Flags
  BY <1>0, <1>1 DEF TypeOK
<1>2. ASSUME UNCHANGED <<taskQueue, saved, task, pushing>> PROVE Places
  BY <1>0, <1>2 DEF TypeOK
<1>3. ASSUME UNCHANGED <<cPc, type, at, chosen>> PROVE Control
  BY <1>0, <1>3 DEF TypeOK
<1>4. ASSUME UNCHANGED <<pushed, executed, stopped, sifted, calls>> PROVE History
  BY <1>0, <1>4 DEF TypeOK
<1>5. ASSUME NEW y \in TaskTypes, PushTask(y) PROVE Flags /\ Places /\ Control /\ History
  <2>1. pushed + 1 \in 1..MaxTasks
    BY <1>0, <1>5, CallAssumption DEF PushTask, TypeOK
  <2>2. [id |-> pushed + 1, type |-> y] \in Tasks
    BY <2>1 DEF Tasks
  <2>3. Flags
    BY <1>1, <1>5 DEF PushTask, flags, workerVars
  <2>4. Places
    BY <1>0, <1>5, <2>2 DEF PushTask, TypeOK, workerVars
  <2>5. Control
    BY <1>0, <1>5 DEF PushTask, Goto, TypeOK
  <2>6. History
    BY <1>0, <1>5, <2>1, CallAssumption DEF PushTask, TypeOK
  <2>7. QED
    BY <2>3, <2>4, <2>5, <2>6
<1>6. ASSUME NEW y \in TaskTypes, StopTasksByType(y) \/ TryShrinkPool \/ StopAllTasks \/ Stop
      PROVE  Flags /\ Places /\ Control /\ History
  <2>1. Flags
    BY <1>0, <1>6 DEF StopTasksByType, TryShrinkPool, StopAllTasks, Stop, flags, workerVars, TypeOK
  <2>2. Places
    BY <1>2, <1>6 DEF StopTasksByType, TryShrinkPool, StopAllTasks, Stop, workerVars
  <2>3. Control
    <3>1. /\ cPc' \in {"sift", "shrink", "clear", "done"}
          /\ type' = type \/ type' = y
          /\ at' = at \/ at' = 0
          /\ chosen' = chosen
      BY <1>6 DEF StopTasksByType, TryShrinkPool, StopAllTasks, Stop, Goto
    <3>2. 0 \in 0..maxThreadNum
      BY ThreadFacts
    <3>3. QED
      BY <1>0, <3>1, <3>2 DEF TypeOK
  <2>4. History
    <3>1. /\ UNCHANGED <<pushed, executed, stopped, sifted>>
          /\ \/ calls' = calls
             \/ calls < MaxCalls /\ calls' = calls + 1
      BY <1>6 DEF StopTasksByType, TryShrinkPool, StopAllTasks, Stop, Calling, history
    <3>2. calls' \in 0..MaxCalls
      BY <1>0, <3>1, CallAssumption DEF TypeOK
    <3>3. QED
      BY <1>0, <3>1, <3>2 DEF TypeOK
  <2>5. QED
    BY <2>1, <2>2, <2>3, <2>4
<1>7. ASSUME CallStep PROVE Flags /\ Places /\ Control /\ History
  <2>1. Flags
    <3>1. CASE LookEmpty \/ Enqueue \/ ShrinkLook \/ ShrinkEnd \/ Sift \/ PushAgain \/ Clear
               \/ StopClear
      BY <1>1, <3>1 DEF LookEmpty, Enqueue, ShrinkLook, ShrinkEnd, Sift, PushAgain, Clear,
         StopClear, flags, workerVars
    <3>2. CASE StretchPool
      BY <1>0, <3>2 DEF StretchPool, TypeOK
    <3>3. CASE ShrinkMark
      BY <1>0, <3>3 DEF ShrinkMark, TypeOK, workerVars
    <3>4. CASE ShrinkJoin \/ StopJoin
      BY <1>0, <3>4 DEF ShrinkJoin, StopJoin, Join, GotoWorker, TypeOK
    <3>5. QED
      BY <1>7, <3>1, <3>2, <3>3, <3>4 DEF CallStep
  <2>2. Places
    <3>1. CASE LookEmpty \/ StretchPool \/ ShrinkLook \/ ShrinkMark \/ ShrinkJoin \/ ShrinkEnd
               \/ StopJoin \/ StopClear
      BY <1>2, <3>1 DEF LookEmpty, StretchPool, ShrinkLook, ShrinkMark, ShrinkJoin, ShrinkEnd,
         StopJoin, StopClear, workerVars
    <3>2. CASE Enqueue
      <4>1. pushing \in Tasks
        BY <1>0, <3>2 DEF Enqueue, TypeOK, Caller
      <4>2. QED
        BY <1>0, <3>2, <4>1, AppendTask DEF Enqueue, TypeOK, workerVars
    <3>3. CASE Sift
      <4>1. CASE taskQueue = <<>>
        BY <1>2, <3>3, <4>1 DEF Sift, workerVars
      <4>2. CASE taskQueue # <<>>
        <5>1. Tail(taskQueue) \in Seq(Tasks) /\ Head(taskQueue) \in Tasks
          BY <1>0, <1>q, <4>2 DEF TypeOK
        <5>2. Append(saved, Head(taskQueue)) \in Seq(Tasks)
          BY <1>0, <5>1, AppendTask DEF TypeOK
        <5>3. QED
          BY <1>0, <3>3, <4>2, <5>1, <5>2 DEF Sift, TypeOK, workerVars
      <4>3. QED
        BY <4>1, <4>2
    <3>4. CASE PushAgain
      <4>1. CASE saved = <<>>
        BY <1>2, <3>4, <4>1 DEF PushAgain, workerVars
      <4>2. CASE saved # <<>>
        <5>1. Tail(saved) \in Seq(Tasks) /\ Head(saved) \in Tasks
          BY <1>0, <1>q, <4>2 DEF TypeOK
        <5>2. Append(taskQueue, Head(saved)) \in Seq(Tasks)
          BY <1>0, <5>1, AppendTask DEF TypeOK
        <5>3. QED
          BY <1>0, <3>4, <4>2, <5>1, <5>2 DEF PushAgain, TypeOK, workerVars
      <4>3. QED
        BY <4>1, <4>2
    <3>5. CASE Clear
      <4>1. taskQueue' \in Seq(Tasks)
        BY <1>0, <1>q, <3>5 DEF Clear, TypeOK
      <4>2. QED
        BY <1>0, <3>5, <4>1 DEF Clear, TypeOK, workerVars
    <3>6. QED
      BY <1>7, <3>1, <3>2, <3>3, <3>4, <3>5 DEF CallStep
  <2>3. Control
    <3>1. maxThreadNum \in Nat /\ \A t \in Threads : t + 1 \in 0..maxThreadNum
      BY ThreadNumAssumption DEF Threads
    <3>2. ASSUME ShrinkLook \/ ShrinkMark \/ StopJoin PROVE Control
      <4>1. at \in Threads
        <5>1. at \in 0..maxThreadNum /\ (at < maxThreadNum \/ at \in Threads)
          BY <1>0, <3>2 DEF ShrinkLook, ShrinkMark, StopJoin, TypeOK, Chosen, IInv
        <5>2. QED
          BY <5>1, ThreadNumAssumption DEF Threads
      <4>2. /\ cPc' \in {"shrink", "mark", "joinAll"} /\ type' = type
            /\ at' = at \/ at' = at + 1
            /\ chosen' = chosen \/ chosen' = chosen \cup {at}
        BY <1>0, <3>2 DEF ShrinkLook, ShrinkMark, StopJoin, Goto
      <4>3. QED
        BY <1>0, <3>1, <4>1, <4>2 DEF TypeOK
    <3>3. CASE LookEmpty \/ StretchPool \/ Enqueue \/ ShrinkJoin \/ ShrinkEnd
               \/ Sift \/ PushAgain \/ Clear \/ StopClear
      BY <1>0, <3>1, <3>3 DEF LookEmpty, StretchPool, Enqueue, ShrinkJoin, ShrinkEnd, Sift,
         PushAgain, Clear, StopClear, Goto, TypeOK
    <3>4. QED
      BY <1>7, <3>2, <3>3 DEF CallStep
  <2>4. History
    <3>1. CASE Sift
      <4>1. /\ UNCHANGED <<pushed, executed, sifted, calls>>
            /\ \/ stopped' = stopped
               \/ taskQueue # <<>> /\ stopped' = stopped \cup {Head(taskQueue).id}
        BY <3>1 DEF Sift
      <4>2. taskQueue # <<>> => Head(taskQueue).id \in 1..MaxTasks
        BY <1>0, <1>q DEF TypeOK
      <4>3. QED
        BY <1>0, <4>1, <4>2 DEF TypeOK
    <3>2. CASE PushAgain
      BY <1>0, <1>q, <3>2 DEF PushAgain, TypeOK
    <3>3. CASE Clear
      BY <1>0, <1>q, <3>3 DEF Clear, TypeOK
    <3>4. CASE CallStep /\ ~Sift /\ ~PushAgain /\ ~Clear
      BY <1>4, <3>4 DEF CallStep, LookEmpty, StretchPool, Enqueue, ShrinkLook, ShrinkMark,
         ShrinkJoin, ShrinkEnd, StopJoin, StopClear, history
    <3>5. QED
      BY <1>7, <3>1, <3>2, <3>3, <3>4
  <2>5. QED
    BY <2>1, <2>2, <2>3, <2>4
<1>8. ASSUME CallLock PROVE Flags /\ Places /\ Control /\ History
  <2>1. /\ waiting' \subseteq waiting
        /\ UNCHANGED <<taskQueue, flags, isDone, mutex, workerVars, pushing, at, chosen, saved,
                       type, history>>
        /\ cPc' \in {"idle", "join", "joinAll"}
    BY <1>8 DEF CallLock, NotifyOne, ShrinkNotify, StopNotify, NotifyAll, Goto
  <2>2. QED
    BY <1>0, <2>1 DEF TypeOK, flags, workerVars, history
<1>9. ASSUME NEW t \in Threads, WorkerStep(t) \/ WorkerLock(t) \/ SpuriousWakeup(t)
      PROVE  Flags /\ Places /\ Control /\ History
  <2>1. Flags
    BY <1>0, <1>9 DEF WorkerStep, WorkerLock, SpuriousWakeup, Pop, Run, LookAbort, SetIdle,
       CheckPop, CheckFlags, ClearIdle, Leave, Lock, Wake, flags, GotoWorker, workerVars, TypeOK
  <2>2. Places
    <3>1. ASSUME TryPop(t), UNCHANGED callerVars PROVE Places
      BY <1>0, <1>q, <3>1 DEF TryPop, TypeOK, callerVars
    <3>2. CASE Pop(t) \/ CheckPop(t)
      BY <3>1, <3>2 DEF Pop, CheckPop
    <3>3. CASE LookAbort(t)
      BY <1>0, <3>3 DEF LookAbort, TypeOK, callerVars
    <3>4. CASE Run(t) \/ SetIdle(t) \/ CheckFlags(t) \/ ClearIdle(t) \/ Leave(t)
               \/ Lock(t) \/ Wake(t) \/ SpuriousWakeup(t)
      BY <1>2, <3>4 DEF Run, SetIdle, CheckFlags, ClearIdle, Leave, Lock, Wake, SpuriousWakeup,
         workerVars, callerVars
    <3>5. QED
      BY <1>9, <3>2, <3>3, <3>4 DEF WorkerStep, WorkerLock
  <2>3. Control
    BY <1>3, <1>9 DEF WorkerStep, WorkerLock, SpuriousWakeup, Pop, Run, LookAbort, SetIdle,
       CheckPop, CheckFlags, ClearIdle, Leave, Lock, Wake, callerVars
  <2>4. History
    <3>1. CASE Run(t)
      <4>1. task[t] \in Tasks
        BY <1>0, <3>1 DEF Run, TypeOK, Workers, Worker
      <4>2. QED
        BY <1>0, <3>1, <4>1, TaskId DEF Run, TypeOK
    <3>2. CASE ~Run(t)
      BY <1>4, <1>9, <3>2 DEF WorkerStep, WorkerLock, SpuriousWakeup, Pop, LookAbort, SetIdle,
         CheckPop, CheckFlags, ClearIdle, Leave, Lock, Wake, history
    <3>3. QED
      BY <3>1, <3>2
  <2>5. QED
    BY <2>1, <2>2, <2>3, <2>4
<1>10. ASSUME UNCHANGED vars PROVE Flags /\ Places /\ Control /\ History
  BY <1>1, <1>2, <1>3, <1>4, <1>10 DEF vars, flags, workerVars, callerVars, history
<1> HIDE DEF Flags, Places, Control, History
<1>t. \E y \in TaskTypes : TRUE
  BY <1>0 DEF TypeOK
<1>11. Flags /\ Places /\ Control /\ History
  BY <1>5, <1>6, <1>7, <1>8, <1>9, <1>10, <1>t DEF Next, Call
<1>12. QED
  BY <1>0, <1>11 DEF TypeOK, Flags, Places, Control, History

-----------------------------------------------------------------------------
(* Where the tasks are.                                                    *)

LEMMA HeldSame ==
  ASSUME \A u \in Threads : /\ u \in Holders' <=> u \in Holders
                            /\ u \in Holders => task'[u] = task[u]
  PROVE  HeldIds' = HeldIds /\ (HeldApart => HeldApart')
<1>1. Holders \subseteq Threads /\ Holders' \subseteq Threads
  BY DEF Holders
<1>2. Holders' = Holders /\ \A u \in Holders : task'[u] = task[u]
  BY <1>1
<1>3. QED
  BY <1>2 DEF HeldIds, HeldApart

LEMMA HeldMore ==
  ASSUME TypeOK, NEW t \in Threads, NEW e \in Tasks, t \notin Holders,
         Holders' = Holders \cup {t}, task' = [task EXCEPT ![t] = e],
         HeldApart, e.id \notin HeldIds
  PROVE  HeldIds' = HeldIds \cup {e.id} /\ HeldApart'
<1>1. task'[t] = e /\ \A u \in Holders : task'[u] = task[u]
  BY DEF TypeOK, Holders
<1>2. HeldIds' = HeldIds \cup {e.id}
  BY <1>1 DEF HeldIds
<1>3. \A u \in Holders : task[u].id # e.id
  BY DEF HeldIds
<1>4. QED
  BY <1>1, <1>2, <1>3 DEF HeldApart

LEMMA HeldLess ==
  ASSUME NEW t \in Holders, Holders' = Holders \ {t}, task' = task, HeldApart
  PROVE  /\ task[t].id \in HeldIds /\ HeldIds' = HeldIds \ {task[t].id}
         /\ HeldApart'
BY DEF HeldIds, HeldApart

LEMMA AccountKept ==
  ASSUME Account, UNCHANGED <<taskQueue, saved, pushing, executed, stopped, pushed>>,
         HeldIds' = HeldIds, HeldApart'
  PROVE  Account'
BY DEF Account, PushingIds

(* A task moves between two of the six places.                             *)
LEMMA Moved ==
  ASSUME NEW n, NEW k, NEW Q, NEW S, NEW H, NEW U, NEW E, NEW X,
         Partition(Q, S, H, U, E, X, n)
  PROVE  /\ k \in Q => /\ k \notin S /\ k \notin H
                       /\ Partition(Q \ {k}, S \cup {k}, H, U, E, X, n)
                       /\ Partition(Q \ {k}, S, H \cup {k}, U, E, X, n)
                       /\ Partition(Q \ {k}, S, H, U, E, X \cup {k}, n)
         /\ k \in S => k \notin Q /\ Partition(Q \cup {k}, S \ {k}, H, U, E, X, n)
         /\ k \in H => Partition(Q, S, H \ {k}, U, E \cup {k}, X, n)
         /\ U = {k} => k \notin Q /\ Partition(Q \cup {k}, S, H, {}, E, X, n)
BY DEF Partition

LEMMA PopAccount ==
  ASSUME TypeOK, Account, NEW t \in Threads, TryPop(t),
         UNCHANGED <<saved, pushing, executed, stopped, pushed>>,
         pc[t] \in {"pop", "check"},
         \A u \in Threads \ {t} : pc'[u] = pc[u],
         pc'[t] \in IF taskQueue = <<>> THEN {"lock", "flags"} ELSE {"run", "leave"}
  PROVE  Account'
<1>1. /\ t \notin Holders
      /\ \A u \in Threads \ {t} : task'[u] = task[u]
  BY DEF TryPop, TypeOK, Holders
<1>2. CASE taskQueue = <<>>
  <2>1. \A u \in Threads : (u \in Holders' <=> u \in Holders)
                           /\ (u \in Holders => task'[u] = task[u])
    BY <1>1, <1>2 DEF Holders
  <2>2. HeldIds' = HeldIds /\ HeldApart'
    BY <2>1, HeldSame DEF Account
  <2>3. taskQueue' = taskQueue
    BY <1>2 DEF TryPop
  <2>4. QED
    BY <2>2, <2>3, AccountKept
<1>3. CASE taskQueue # <<>>
  <2> DEFINE e == Head(taskQueue)
  <2>1. /\ e \in Tasks /\ e.id \in Ids(taskQueue) /\ Distinct(taskQueue')
        /\ Ids(taskQueue') = Ids(taskQueue) \ {e.id}
        /\ task' = [task EXCEPT ![t] = e]
    BY <1>3, TailTask DEF TryPop, TypeOK, Account
  <2>2. e # NoTask
    BY <2>1, TaskId
  <2>3. Holders' = Holders \cup {t}
    <3>1. task'[t] = e /\ pc'[t] \in {"run", "leave"}
      BY <1>3, <2>1 DEF TypeOK
    <3>2. QED
      BY <1>1, <2>2, <3>1 DEF Holders
  <2> HIDE DEF e
  <2>p. Partition(Ids(taskQueue), Ids(saved), HeldIds, PushingIds, executed, stopped, pushed)
    BY DEF Account
  <2>4. /\ e.id \notin HeldIds
        /\ Partition(Ids(taskQueue) \ {e.id}, Ids(saved), HeldIds \cup {e.id}, PushingIds,
                     executed, stopped, pushed)
    <3>1. e.id \in Ids(taskQueue)
      BY <2>1
    <3>2. QED
      BY <2>p, <3>1, Moved
  <2>5. HeldIds' = HeldIds \cup {e.id} /\ HeldApart'
    BY <1>1, <2>1, <2>3, <2>4, HeldMore DEF Account
  <2>6. PushingIds' = PushingIds
    BY DEF PushingIds
  <2>7. QED
    BY <2>1, <2>4, <2>5, <2>6 DEF Account
<1>4. QED
  BY <1>2, <1>3

LEMMA AccountStep ==
  ASSUME IInv, [Next]_vars
  PROVE  Account'
<1>0. /\ TypeOK /\ Workers /\ Caller /\ Account
      /\ HeldApart /\ Distinct(taskQueue) /\ Distinct(saved)
      /\ Partition(Ids(taskQueue), Ids(saved), HeldIds, PushingIds, executed, stopped, pushed)
  BY DEF IInv, Account
<1>s. ASSUME UNCHANGED <<pc, task>> PROVE HeldIds' = HeldIds /\ HeldApart'
  BY <1>0, <1>s DEF HeldIds, HeldApart, Holders
<1>p. UNCHANGED pushing => PushingIds' = PushingIds
  BY DEF PushingIds
<1>1. ASSUME UNCHANGED <<pc, task, taskQueue, saved, pushing, executed, stopped, pushed>>
      PROVE  Account'
  BY <1>0, <1>1, <1>s, AccountKept
<1>2. ASSUME NEW y \in TaskTypes, PushTask(y) PROVE Account'
  <2>1. /\ pushing = NoTask /\ pushed' = pushed + 1 /\ pushed \in Nat
        /\ pushing' = [id |-> pushed + 1, type |-> y]
        /\ UNCHANGED <<pc, task, taskQueue, saved, executed, stopped>>
    BY <1>0, <1>2, CallAssumption DEF PushTask, Caller, TypeOK, workerVars
  <2>2. pushing'.id = pushed + 1 /\ NoTask.id = 0
    BY <2>1 DEF NoTask
  <2>3. PushingIds = {} /\ PushingIds' = {pushed + 1}
    BY <2>1, <2>2 DEF PushingIds
  <2>4. 1..pushed + 1 = 1..pushed \cup {pushed + 1} /\ pushed + 1 \notin 1..pushed
    BY <2>1
  <2>5. HeldIds' = HeldIds /\ HeldApart'
    BY <1>s, <2>1
  <2>6. Partition(Ids(taskQueue), Ids(saved), HeldIds, {pushed + 1}, executed, stopped,
                  pushed + 1)
    BY <1>0, <2>3, <2>4 DEF Partition
  <2>7. QED
    BY <1>0, <2>1, <2>3, <2>5, <2>6 DEF Account
<1>3. ASSUME \/ \E y \in TaskTypes : StopTasksByType(y)
             \/ TryShrinkPool \/ StopAllTasks \/ Stop
      PROVE  Account'
  BY <1>1, <1>3 DEF StopTasksByType, TryShrinkPool, StopAllTasks, Stop, workerVars, history
<1>4. ASSUME CallStep PROVE Account'
  <2>1. CASE LookEmpty \/ ShrinkLook \/ ShrinkMark \/ ShrinkEnd \/ StopClear
    BY <1>1, <2>1 DEF LookEmpty, ShrinkLook, ShrinkMark, ShrinkEnd, StopClear, workerVars, history
  <2>2. CASE StretchPool \/ ShrinkJoin \/ StopJoin
    <3>1. UNCHANGED <<task, taskQueue, saved, pushing, executed, stopped, pushed>>
      BY <2>2 DEF StretchPool, ShrinkJoin, StopJoin, history
    <3>2. \A u \in Threads : \/ pc'[u] = pc[u]
                             \/ pc[u] \in {"none", "exited"} /\ pc'[u] \in {"pop", "none"}
      <4>1. CASE StretchPool
        BY <1>0, <4>1 DEF StretchPool, TypeOK, Workers, Worker
      <4>2. ASSUME NEW t, Join(t)
            PROVE  \A u \in Threads : \/ pc'[u] = pc[u]
                                      \/ pc[u] = "exited" /\ pc'[u] = "none"
        BY <1>0, <4>2 DEF Join, GotoWorker, TypeOK
      <4>3. CASE ShrinkJoin
        BY <4>2, <4>3 DEF ShrinkJoin
      <4>4. CASE StopJoin
        BY <4>2, <4>4 DEF StopJoin
      <4>5. QED
        BY <2>2, <4>1, <4>3, <4>4
    <3>3. \A u \in Threads : (u \in Holders' <=> u \in Holders) /\ task'[u] = task[u]
      BY <3>1, <3>2 DEF Holders
    <3>4. QED
      BY <1>0, <3>1, <3>3, HeldSame, AccountKept
  <2>3. CASE Enqueue
    <3>1. /\ pushing \in Tasks /\ pushing # NoTask /\ pushing' = NoTask
          /\ taskQueue' = Append(taskQueue, pushing)
          /\ UNCHANGED <<pc, task, saved, executed, stopped, pushed>>
      BY <1>0, <2>3 DEF Enqueue, Caller, TypeOK, workerVars, history
    <3>2. PushingIds = {pushing.id} /\ PushingIds' = {}
      BY <3>1 DEF PushingIds
    <3>3. /\ pushing.id \notin Ids(taskQueue)
          /\ Partition(Ids(taskQueue) \cup {pushing.id}, Ids(saved), HeldIds, {}, executed,
                       stopped, pushed)
      BY <1>0, <3>2, Moved
    <3>4. Ids(taskQueue') = Ids(taskQueue) \cup {pushing.id} /\ Distinct(taskQueue')
      BY <1>0, <3>1, <3>3, AppendTask DEF TypeOK
    <3>5. QED
      BY <1>0, <1>s, <3>1, <3>2, <3>3, <3>4 DEF Account
  <2>4. CASE (Sift \/ Clear) /\ taskQueue # <<>>
    <3>1. /\ taskQueue' = Tail(taskQueue)
          /\ \/ stopped' = stopped \cup {Head(taskQueue).id} /\ UNCHANGED saved
             \/ saved' = Append(saved, Head(taskQueue)) /\ UNCHANGED stopped
          /\ UNCHANGED <<pc, task, pushing, executed, pushed>>
      BY <2>4 DEF Sift, Clear, workerVars
    <3>2. /\ Head(taskQueue) \in Tasks /\ Head(taskQueue).id \in Ids(taskQueue)
          /\ Ids(taskQueue') = Ids(taskQueue) \ {Head(taskQueue).id} /\ Distinct(taskQueue')
      BY <1>0, <2>4, <3>1, TailTask DEF TypeOK
    <3>3. CASE stopped' = stopped \cup {Head(taskQueue).id} /\ UNCHANGED saved
      <4>1. Partition(Ids(taskQueue) \ {Head(taskQueue).id}, Ids(saved), HeldIds, PushingIds,
                      executed, stopped \cup {Head(taskQueue).id}, pushed)
        BY <1>0, <3>2, <3>3, Moved
      <4>2. QED
        BY <1>0, <1>p, <1>s, <3>1, <3>2, <3>3, <4>1 DEF Account
    <3>4. CASE saved' = Append(saved, Head(taskQueue)) /\ UNCHANGED stopped
      <4>1. /\ Head(taskQueue).id \notin Ids(saved)
            /\ Partition(Ids(taskQueue) \ {Head(taskQueue).id},
                         Ids(saved) \cup {Head(taskQueue).id}, HeldIds, PushingIds, executed,
                         stopped, pushed)
        BY <1>0, <3>2, Moved
      <4>2. Ids(saved') = Ids(saved) \cup {Head(taskQueue).id} /\ Distinct(saved')
        BY <1>0, <3>2, <3>4, <4>1, AppendTask DEF TypeOK
      <4>3. QED
        BY <1>0, <1>p, <1>s, <3>1, <3>2, <3>4, <4>1, <4>2 DEF Account
    <3>5. QED
      BY <3>1, <3>3, <3>4
  <2>5. CASE (Sift \/ Clear) /\ taskQueue = <<>>
    BY <1>1, <2>5 DEF Sift, Clear, workerVars
  <2>6. CASE PushAgain /\ saved # <<>>
    <3>1. /\ saved' = Tail(saved) /\ taskQueue' = Append(taskQueue, Head(saved))
          /\ UNCHANGED <<pc, task, pushing, executed, stopped, pushed>>
      BY <2>6 DEF PushAgain, workerVars
    <3>2. /\ Head(saved) \in Tasks /\ Head(saved).id \in Ids(saved)
          /\ Ids(saved') = Ids(saved) \ {Head(saved).id} /\ Distinct(saved')
      BY <1>0, <2>6, <3>1, TailTask DEF TypeOK
    <3>3. /\ Head(saved).id \notin Ids(taskQueue)
          /\ Partition(Ids(taskQueue) \cup {Head(saved).id}, Ids(saved) \ {Head(saved).id},
                       HeldIds, PushingIds, executed, stopped, pushed)
      BY <1>0, <3>2, Moved
    <3>4. Ids(taskQueue') = Ids(taskQueue) \cup {Head(saved).id} /\ Distinct(taskQueue')
      BY <1>0, <3>1, <3>2, <3>3, AppendTask DEF TypeOK
    <3>5. QED
      BY <1>0, <1>p, <1>s, <3>1, <3>2, <3>3, <3>4 DEF Account
  <2>7. CASE PushAgain /\ saved = <<>>
    BY <1>1, <2>7 DEF PushAgain, workerVars
  <2>8. QED
    BY <1>4, <2>1, <2>2, <2>3, <2>4, <2>5, <2>6, <2>7 DEF CallStep
<1>5. ASSUME CallLock PROVE Account'
  BY <1>1, <1>5 DEF CallLock, NotifyOne, ShrinkNotify, StopNotify, workerVars, history
<1>6. ASSUME NEW t \in Threads, WorkerStep(t) \/ WorkerLock(t) \/ SpuriousWakeup(t)
      PROVE  Account'
  <2>1. CASE Pop(t) \/ CheckPop(t)
    <3>1. /\ TryPop(t) /\ UNCHANGED <<saved, pushing, executed, stopped, pushed>>
          /\ pc[t] \in {"pop", "check"}
          /\ \A u \in Threads \ {t} : pc'[u] = pc[u]
          /\ pc'[t] \in IF taskQueue = <<>> THEN {"lock", "flags"} ELSE {"run", "leave"}
      BY <1>0, <2>1 DEF Pop, CheckPop, GotoWorker, callerVars, history, TypeOK
    <3>2. QED
      BY <1>0, <3>1, PopAccount
  <2>2. CASE Run(t)
    <3>1. /\ t \in Holders /\ Holders' = Holders \ {t} /\ task' = task
          /\ executed' = executed \cup {task[t].id}
          /\ UNCHANGED <<taskQueue, saved, pushing, stopped, pushed>>
      BY <1>0, <2>2 DEF Run, GotoWorker, Holders, Workers, Worker, TypeOK, callerVars
    <3>2. /\ task[t].id \in HeldIds /\ HeldIds' = HeldIds \ {task[t].id} /\ HeldApart'
      BY <1>0, <3>1, HeldLess
    <3>3. Partition(Ids(taskQueue), Ids(saved), HeldIds \ {task[t].id}, PushingIds,
                    executed \cup {task[t].id}, stopped, pushed)
      BY <1>0, <3>1, <3>2, Moved
    <3>4. QED
      BY <1>0, <1>p, <3>1, <3>2, <3>3 DEF Account
  <2>3. CASE ~(Pop(t) \/ CheckPop(t) \/ Run(t))
    <3>1. /\ UNCHANGED <<taskQueue, saved, pushing, executed, stopped, pushed>>
          /\ \A u \in Threads : /\ u \in Holders' <=> u \in Holders
                                /\ u \in Holders => task'[u] = task[u]
      BY <1>0, <1>6, <2>3 DEF WorkerStep, WorkerLock, SpuriousWakeup, LookAbort, SetIdle,
         CheckFlags, ClearIdle, Leave, Lock, Wake, GotoWorker, workerVars, callerVars, history,
         Holders, Workers, Worker, TypeOK
    <3>2. HeldIds' = HeldIds /\ HeldApart'
      BY <1>0, <3>1, HeldSame
    <3>3. QED
      BY <1>0, <3>1, <3>2, AccountKept
  <2>4. QED
    BY <2>1, <2>2, <2>3
<1>7. CASE UNCHANGED vars
  BY <1>1, <1>7 DEF vars, workerVars, callerVars, history
<1>8. QED
  BY <1>2, <1>3, <1>4, <1>5, <1>6, <1>7 DEF Next, Call

-----------------------------------------------------------------------------
(* Somebody looks into the queue.                                          *)

(* tryShrinkPool leaves a thread that is not asked to abort.               *)
LEMMA SomeAvailable ==
  ASSUME TypeOK, Workers, Counts, Chosen, ~isDone
  PROVE  \E t \in Threads : inited[t] /\ ~abort[t] /\ pc[t] \notin {"none", "exited"}
<1>1. IsFiniteSet(chosen) /\ Cardinality(chosen) \in Nat /\ Cardinality(InitedSet) \in Nat
  BY SomeThreads, ThreadFacts DEF TypeOK, InitedSet
<1>2. Cardinality(chosen) < Cardinality(InitedSet)
  BY <1>1, ThreadNumAssumption DEF Chosen, Counts
<1>3. ~(InitedSet \subseteq chosen)
  <2>1. InitedSet \subseteq chosen => Cardinality(InitedSet) <= Cardinality(chosen)
    BY <1>1, FS_Subset
  <2>2. QED
    BY <1>1, <1>2, <2>1
<1>4. PICK t \in InitedSet : t \notin chosen
  BY <1>3
<1>5. QED
  BY <1>4 DEF InitedSet, Chosen, Workers, Worker

LEMMA WakeKept ==
  ASSUME NoWakeUpMissed, Ids(taskQueue') \subseteq Ids(taskQueue), sifted \subseteq sifted',
         \/ cPc \notin {"notify", "shrink", "mark"}
         \/ cPc' \in {"notify", "shrink", "mark"},
         \A t \in Threads : Wakeful(t) => Wakeful(t)'
  PROVE  NoWakeUpMissed'
BY DEF NoWakeUpMissed

LEMMA WakefulKept ==
  ASSUME NEW t, Wakeful(t), pc'[t] = pc[t], task'[t] = task[t], inited'[t] = inited[t],
         abort'[t] => abort[t], t \in waiting' => t \in waiting
  PROVE  Wakeful(t)'
BY DEF Wakeful

(* All that are asleep, or one if there is one, are woken.                 *)
LEMMA NotifyWakes ==
  ASSUME TypeOK, Workers, Counts, Chosen, ~isDone, mutex = NoThread,
         UNCHANGED <<pc, task, inited, abort>>,
         \/ waiting' = {}
         \/ chosen = {} /\ \E t \in waiting : waiting' = waiting \ {t}
  PROVE  \E t \in Threads : Wakeful(t)'
<1>1. CASE waiting' = {}
  <2>1. PICK t \in Threads : inited[t] /\ ~abort[t] /\ pc[t] \notin {"none", "exited"}
    BY SomeAvailable
  <2>2. pc[t] \notin IdlePcs \ {"wait"}
    BY ThreadFacts DEF Workers, Worker
  <2>3. pc[t] \in {"pop", "run", "ran", "lock", "wait"}
    BY <2>1, <2>2 DEF TypeOK, IdlePcs
  <2>4. QED
    BY <1>1, <2>1, <2>3 DEF Wakeful
<1>2. CASE chosen = {} /\ \E t \in waiting : waiting' = waiting \ {t}
  <2>1. PICK t \in waiting : waiting' = waiting \ {t}
    BY <1>2
  <2>2. t \in Threads /\ pc[t] = "wait" /\ inited[t] /\ ~abort[t]
    BY <1>2, <2>1 DEF TypeOK, Workers, Worker, Chosen
  <2>3. QED
    BY <2>1, <2>2 DEF Wakeful
<1>3. QED
  BY <1>1, <1>2

LEMMA WakeStep ==
  ASSUME IInv, [Next]_vars
  PROVE  NoWakeUpMissed'
<1>0. /\ TypeOK /\ Workers /\ Counts /\ Chosen /\ Caller /\ NoWakeUpMissed
      /\ Distinct(taskQueue) /\ Distinct(saved)
  BY DEF IInv, Account
<1>1. ASSUME UNCHANGED <<pc, task, inited, abort, taskQueue, sifted>>, waiting' \subseteq waiting,
             \/ cPc \notin {"notify", "shrink", "mark"}
             \/ cPc' = cPc
      PROVE  NoWakeUpMissed'
  <2>1. \A t \in Threads : Wakeful(t) => Wakeful(t)'
    BY <1>1, WakefulKept
  <2>2. Ids(taskQueue') \subseteq Ids(taskQueue)
    BY <1>1
  <2>3. QED
    BY <1>0, <1>1, <2>1, <2>2, WakeKept
<1>2. ASSUME Call PROVE NoWakeUpMissed'
  BY <1>1, <1>2 DEF Call, PushTask, StopTasksByType, TryShrinkPool, StopAllTasks, Stop, Calling,
     flags, workerVars, history
<1>3. ASSUME CallStep PROVE NoWakeUpMissed'
  <2>1. CASE LookEmpty \/ ShrinkEnd \/ StopClear
    BY <1>1, <2>1 DEF LookEmpty, ShrinkEnd, StopClear, flags, workerVars, history
  <2>2. CASE StretchPool
    <3>1. \A t \in Threads : Wakeful(t) => Wakeful(t)'
      BY <1>0, <2>2 DEF StretchPool, TypeOK, Wakeful
    <3>2. QED
      BY <1>0, <2>2, <3>1, WakeKept DEF StretchPool, history
  <2>3. CASE Enqueue \/ ShrinkLook \/ ShrinkMark
    BY <2>3, <1>0 DEF Enqueue, ShrinkLook, ShrinkMark, Goto, NoWakeUpMissed
  <2>4. CASE ShrinkJoin \/ StopJoin
    <3>1. ASSUME NEW u, Join(u), UNCHANGED <<task, abort, waiting>>
          PROVE  \A t \in Threads : Wakeful(t) => Wakeful(t)'
      <4>1. \A t \in Threads : Wakeful(t) => t # u
        BY <3>1 DEF Join, Wakeful
      <4>2. \A t \in Threads : t # u => pc'[t] = pc[t] /\ inited'[t] = inited[t]
        BY <1>0, <3>1 DEF Join, GotoWorker, TypeOK
      <4>3. QED
        BY <3>1, <4>1, <4>2, WakefulKept
    <3>2. /\ UNCHANGED <<task, abort, waiting, taskQueue, sifted, cPc>>
          /\ (\E u : Join(u)) \/ UNCHANGED <<pc, inited>>
      BY <2>4 DEF ShrinkJoin, StopJoin, history
    <3>3. CASE \E u : Join(u)
      <4>1. \A t \in Threads : Wakeful(t) => Wakeful(t)'
        BY <3>1, <3>2, <3>3
      <4>2. QED
        BY <1>0, <3>2, <4>1, WakeKept
    <3>4. CASE UNCHANGED <<pc, inited>>
      BY <1>1, <3>2, <3>4
    <3>5. QED
      BY <3>2, <3>3, <3>4
  <2>5. CASE Sift \/ Clear
    <3>1. UNCHANGED <<pc, task, inited, abort, waiting, sifted>>
      BY <2>5 DEF Sift, Clear, flags, workerVars
    <3>2. Ids(taskQueue') \subseteq Ids(taskQueue)
      <4>1. CASE taskQueue # <<>> /\ taskQueue' = Tail(taskQueue)
        BY <1>0, <4>1, TailTask DEF TypeOK
      <4>2. QED
        BY <2>5, <4>1 DEF Sift, Clear
    <3>3. \A t \in Threads : Wakeful(t) => Wakeful(t)'
      BY <3>1, WakefulKept
    <3>4. cPc \notin {"notify", "shrink", "mark"}
      BY <2>5 DEF Sift, Clear
    <3>5. QED
      BY <1>0, <3>1, <3>2, <3>3, <3>4, WakeKept
  <2>6. CASE PushAgain
    <3>1. CASE saved = <<>>
      BY <1>1, <2>6, <3>1 DEF PushAgain, flags, workerVars
    <3>2. CASE saved # <<>>
      <4>1. /\ taskQueue' = Append(taskQueue, Head(saved)) /\ cPc = "again"
            /\ sifted' = sifted \cup {Head(saved).id}
            /\ UNCHANGED <<pc, task, inited, abort, waiting>>
        BY <2>6, <3>2 DEF PushAgain, flags, workerVars
      <4>2. Head(saved) \in Tasks
        BY <1>0, <3>2 DEF TypeOK
      <4>3. Ids(taskQueue') = Ids(taskQueue) \cup {Head(saved).id}
        BY <1>0, <4>1, <4>2, AppendTask DEF TypeOK
      <4>4. Ids(taskQueue) \subseteq sifted => Ids(taskQueue') \subseteq sifted'
        BY <4>1, <4>3
      <4>5. \A t \in Threads : Wakeful(t) => Wakeful(t)'
        BY <4>1, WakefulKept
      <4>6. QED
        BY <1>0, <4>1, <4>4, <4>5 DEF NoWakeUpMissed
    <3>3. QED
      BY <3>1, <3>2
  <2>7. QED
    BY <1>3, <2>1, <2>2, <2>3, <2>4, <2>5, <2>6 DEF CallStep
<1>4. ASSUME CallLock PROVE NoWakeUpMissed'
  <2>1. mutex = NoThread /\ UNCHANGED <<pc, task, inited, abort, taskQueue, sifted>>
    BY <1>4 DEF CallLock, NotifyOne, ShrinkNotify, StopNotify, NotifyAll, flags, workerVars, history
  <2>2. CASE NotifyOne
    <3>1. ~isDone /\ chosen = {}
      BY <1>0, <2>2 DEF NotifyOne, Caller, Chosen
    <3>2. waiting' = {} \/ \E t \in waiting : waiting' = waiting \ {t}
      BY <2>2 DEF NotifyOne
    <3>3. \E t \in Threads : Wakeful(t)'
      BY <1>0, <2>1, <3>1, <3>2, NotifyWakes
    <3>4. QED
      BY <3>3 DEF NoWakeUpMissed
  <2>3. CASE ShrinkNotify
    <3>1. ~isDone /\ waiting' = {}
      BY <1>0, <2>3 DEF ShrinkNotify, NotifyAll, Caller
    <3>2. \E t \in Threads : Wakeful(t)'
      BY <1>0, <2>1, <3>1, NotifyWakes
    <3>3. QED
      BY <3>2 DEF NoWakeUpMissed
  <2>4. CASE StopNotify
    BY <1>1, <2>1, <2>4 DEF StopNotify, NotifyAll
  <2>5. QED
    BY <1>4, <2>2, <2>3, <2>4 DEF CallLock
<1>5. ASSUME NEW t \in Threads, WorkerStep(t) \/ WorkerLock(t) \/ SpuriousWakeup(t)
      PROVE  NoWakeUpMissed'
  <2>1. /\ UNCHANGED <<inited, abort, sifted, cPc>>
        /\ \/ taskQueue' = taskQueue
           \/ taskQueue # <<>> /\ taskQueue' = Tail(taskQueue)
    BY <1>5 DEF WorkerStep, WorkerLock, SpuriousWakeup, Pop, Run, LookAbort, SetIdle, CheckPop,
       CheckFlags, ClearIdle, Leave, Lock, Wake, TryPop, flags, callerVars, history
  <2>2. Ids(taskQueue') \subseteq Ids(taskQueue)
    BY <1>0, <2>1, TailTask DEF TypeOK
  <2>3. CASE taskQueue = <<>>
    <3>1. Ids(taskQueue) = {}
      BY <2>3 DEF Ids
    <3>2. QED
      BY <2>2, <3>1 DEF NoWakeUpMissed
  <2>4. CASE taskQueue # <<>>
    <3>1. ASSUME NEW u \in Threads, u # t, Wakeful(u) PROVE Wakeful(u)'
      <4>1. pc'[u] = pc[u] /\ task'[u] = task[u] /\ (u \in waiting' => u \in waiting)
        BY <1>0, <1>5, <3>1 DEF WorkerStep, WorkerLock, SpuriousWakeup, Pop, Run, LookAbort,
           SetIdle, CheckPop, CheckFlags, ClearIdle, Leave, Lock, Wake, TryPop, GotoWorker,
           workerVars, TypeOK
      <4>2. QED
        BY <2>1, <3>1, <4>1, WakefulKept
    <3>2. Wakeful(t) => Wakeful(t)'
      <4>1. Head(taskQueue) # NoTask
        BY <1>0, <2>4, TailTask, TaskId DEF TypeOK
      <4>2. QED
        BY <1>0, <1>5, <2>1, <2>4, <4>1 DEF WorkerStep, WorkerLock, SpuriousWakeup, Pop, Run,
           LookAbort, SetIdle, CheckPop, CheckFlags, ClearIdle, Leave, Lock, Wake, TryPop,
           GotoWorker, workerVars, TypeOK, Wakeful
    <3>3. QED
      BY <1>0, <2>1, <2>2, <3>1, <3>2, WakeKept
  <2>5. QED
    BY <2>3, <2>4
<1>6. CASE UNCHANGED vars
  BY <1>1, <1>6 DEF vars, flags, workerVars, callerVars, history
<1>7. QED
  BY <1>2, <1>3, <1>4, <1>5, <1>6 DEF Next

-----------------------------------------------------------------------------
LEMMA IInvInit == Init => IInv
<1> SUFFICES ASSUME Init PROVE IInv
  OBVIOUS
<1>0. /\ minThreadNum \in Nat \ {0} /\ maxThreadNum \in Nat /\ minThreadNum <= maxThreadNum
      /\ Threads = 0..maxThreadNum - 1 /\ NoThread = maxThreadNum
  BY ThreadNumAssumption DEF Threads, NoThread
<1>1. InitedSet = 0..minThreadNum - 1
  BY <1>0 DEF Init, InitedSet
<1>2. Cardinality(InitedSet) = minThreadNum
  BY <1>0, <1>1, FS_Interval
<1>3. IdleSet = {}
  BY DEF Init, IdleSet, IdlePcs
<1>4. Cardinality({}) = 0
  BY FS_EmptySet
<1>5. Counts
  BY <1>2, <1>3, <1>4 DEF Init, Counts
<1>6. Holders = {} /\ HeldIds = {} /\ HeldApart
  <2>1. Holders = {}
    BY DEF Init, Holders
  <2>2. QED
    BY <2>1 DEF HeldIds, HeldApart
<1>7. Ids(<<>>) = {} /\ Distinct(<<>>)
  BY DEF Ids, Distinct
<1>8. Account
  BY <1>6, <1>7 DEF Init, Account, PushingIds, Partition
<1>9. Workers
  BY <1>0 DEF Init, Workers, Worker, IdlePcs
<1>10. Chosen /\ Caller
  BY <1>0, <1>4 DEF Init, Chosen, Caller
<1>11. NoWakeUpMissed
  BY <1>7 DEF Init, NoWakeUpMissed
<1>12. TypeOK
  <2>1. type \in TaskTypes
    BY CallAssumption DEF Init
  <2>2. taskQueue \in Seq(Tasks) /\ saved \in Seq(Tasks)
    BY DEF Init
  <2>3. /\ abort \in [Threads -> BOOLEAN] /\ idle \in [Threads -> BOOLEAN]
        /\ inited \in [Threads -> BOOLEAN]
        /\ \A t \in Threads : pc[t] \in {"none", "pop"}
        /\ DOMAIN pc = Threads /\ pc = [t \in Threads |-> pc[t]]
        /\ task \in [Threads -> Tasks \cup {NoTask}]
    BY DEF Init
  <2>4. /\ initedNum \in 0..maxThreadNum /\ idleNum \in 0..maxThreadNum
        /\ at \in 0..maxThreadNum
        /\ pushed \in 0..MaxTasks /\ calls \in 0..MaxCalls
    BY <1>0, CallAssumption DEF Init
  <2>5. /\ isDone \in BOOLEAN /\ mutex = NoThread /\ waiting = {} /\ cPc = "idle"
        /\ pushing = NoTask /\ chosen = {} /\ executed = {} /\ stopped = {} /\ sifted = {}
    BY DEF Init
  <2>6. QED
    BY <2>1, <2>2, <2>3, <2>4, <2>5 DEF TypeOK
<1>13. QED
  BY <1>5, <1>8, <1>9, <1>10, <1>11, <1>12 DEF IInv

(* The invariant holds in every reachable state.                           *)
THEOREM IInvCorrect == Spec => []IInv
<1>1. IInv /\ [Next]_vars => IInv'
  BY TypeStep, WorkersStep, CountsStep, ChosenStep, CallerStep, AccountStep, WakeStep DEF IInv
<1>2. QED
  BY <1>1, IInvInit, PTL DEF Spec

(* No task is lost, run twice or run after it was removed, and the pool    *)
(* keeps its minimum of threads, whatever is called and however the idle   *)
(* flags change while the pool shrinks.                                    *)
THEOREM PoolAccountCorrect == Spec => []PoolAccount
<1>1. IInv => PoolAccount
  <2> SUFFICES ASSUME IInv PROVE PoolAccount
    OBVIOUS
  <2>0. /\ TypeOK /\ Workers /\ Counts /\ Chosen
        /\ Partition(Ids(taskQueue), Ids(saved), HeldIds, PushingIds, executed, stopped, pushed)
    BY DEF IInv, Account
  <2>1. TaskAccount
    <3> DEFINE Places == Ids(taskQueue) \cup Ids(saved) \cup HeldIds \cup PushingIds
               H == {task[t].id : t \in {u \in Threads : pc[u] \in {"run", "leave", "left"}}}
    <3>1. NoTask.id = 0
      BY DEF NoTask
    <3>2. HeldIds \subseteq H /\ H \subseteq HeldIds \cup {0}
      BY <3>1 DEF HeldIds, Holders
    <3>3. PushingIds \subseteq {pushing.id} /\ {pushing.id} \subseteq PushingIds \cup {0}
      BY <3>1 DEF PushingIds
    <3>4. Pending = Ids(taskQueue) \cup Ids(saved) \cup H \cup {pushing.id}
      BY DEF Pending, Ids
    <3> HIDE DEF H
    <3>5. Places \subseteq Pending /\ Pending \subseteq Places \cup {0}
      BY <3>2, <3>3, <3>4
    <3>6. QED
      BY <2>0, <3>5 DEF TaskAccount, Partition
  <2>2. MinimumKept
    <3>1. Available = InitedSet \ chosen /\ chosen \subseteq InitedSet
      BY <2>0 DEF Available, InitedSet, Chosen, TypeOK
    <3>2. IsFiniteSet(InitedSet) /\ IsFiniteSet(chosen)
      BY <2>0, SomeThreads DEF InitedSet, TypeOK
    <3>3. Cardinality(InitedSet \ chosen) =
            Cardinality(InitedSet) - Cardinality(InitedSet \cap chosen)
      BY <3>2, FS_Difference
    <3>4. InitedSet \cap chosen = chosen
      BY <3>1
    <3>5. /\ Cardinality(InitedSet) \in Nat /\ Cardinality(chosen) \in Nat
          /\ minThreadNum \in Nat
      BY <3>2, FS_CardinalityType, ThreadFacts
    <3>6. initedNum = Cardinality(InitedSet)
      BY <2>0 DEF Counts
    <3>7. Cardinality(Available) = initedNum - Cardinality(chosen)
      BY <3>1, <3>3, <3>4, <3>6
    <3>8. ~isDone => Cardinality(chosen) + minThreadNum <= initedNum
      BY <2>0 DEF Chosen
    <3>9. ~isDone => Cardinality(Available) >= minThreadNum
      BY <3>5, <3>6, <3>7, <3>8
    <3>10. initedNum = Cardinality({t \in Threads : inited[t]})
      BY <3>6 DEF InitedSet
    <3>11. \A t \in Available : ~isDone => pc[t] \notin {"none", "exited"}
      BY <2>0 DEF Available, Workers, Worker
    <3>12. QED
      BY <3>9, <3>10, <3>11 DEF MinimumKept
  <2>3. QED
    BY <2>0, <2>1, <2>2 DEF PoolAccount
<1>2. QED
  BY <1>1, IInvCorrect, PTL

(* When the destructor has joined all threads, the queue holds at most     *)
(* what stopTasksByType put back.                                          *)
THEOREM StopDrainsCorrect == Spec => []StopDrains
<1>1. IInv => StopDrains
  <2> SUFFICES ASSUME IInv, cPc = "joinAll", at = maxThreadNum,
                      NEW i \in DOMAIN taskQueue
               PROVE  taskQueue[i].id \in sifted
    BY DEF StopDrains
  <2>1. \A t \in Threads : t < at
    BY ThreadNumAssumption DEF Threads
  <2>2. \A t \in Threads : pc[t] = "none"
    BY <2>1 DEF IInv, Caller
  <2>3. \A t \in Threads : ~Wakeful(t)
    BY <2>2 DEF IInv, Workers, Worker, Wakeful
  <2>4. Ids(taskQueue) \subseteq sifted
    BY <2>3 DEF IInv, NoWakeUpMissed
  <2>5. QED
    BY <2>4 DEF Ids
<1>2. QED
  BY <1>1, IInvCorrect, PTL
=============================================================================
