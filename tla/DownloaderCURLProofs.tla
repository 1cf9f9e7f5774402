------------------------ MODULE DownloaderCURLProofs ------------------------
(***************************************************************************)
(* The downloader for any number of tasks and paths, any limit, and with   *)
(* and without its destruction.                                            *)
(***************************************************************************)
EXTENDS DownloaderCURL, SequenceTheorems, TLAPS

(* Until the downloader is destroyed, the handle is attached exactly while *)
(* a network thread lives; one that is about to end has no transfer left,  *)
(* and the timer sleeps only while no thread is attached.                  *)
Attached ==
  /\ cPc # "gone" => (joinable <=> netPc # "none")
  /\ cPc # "gone" /\ netPc \in {"none", "stop"} => coTaskMap = {}
  /\ moving # NoTask <=> netPc = "push"
  /\ cPc # "gone" /\ adding = NoTask /\ paused => ~joinable
  /\ cPc = "gone" => adding = NoTask
  /\ cPc \in {"idle", "gone"} => batch = <<>>

(* What a task writes is reserved, or was freed under its hands.           *)
Reserved == \A k \in writing : path[k] \in storagePaths \cup freedByOther

IInv == TypeOK /\ OnePlace /\ Attached /\ Reserved /\ OneWriter

(* OnePlace, one queue at a time.                                          *)
Apart(S, T) == \A x \in S : x \notin T
Parted ==
  /\ IsInjective(requestQueue) /\ IsInjective(finishedQueue) /\ IsInjective(batch)
  /\ Apart(ToSet(requestQueue), ToSet(finishedQueue))
  /\ Apart(ToSet(requestQueue), ToSet(batch)) /\ Apart(ToSet(finishedQueue), ToSet(batch))
Elsewhere(W) ==
  /\ moving \notin coTaskMap
  /\ Apart(W, InCurl) /\ Apart(W, delivered) /\ Apart(InCurl, delivered)
  /\ W \cup InCurl \cup delivered = 1..created
Placed ==
  Parted /\ Elsewhere(ToSet(requestQueue) \cup ToSet(finishedQueue) \cup ToSet(batch))

-----------------------------------------------------------------------------
(* The elements of a queue.                                                *)

(* They are what its places hold.                                          *)
LEMMA Elements ==
  ASSUME NEW S, NEW s \in Seq(S)
  PROVE  /\ ToSet(s) \subseteq S
         /\ \A x : x \in ToSet(s) <=> \E i \in 1..Len(s) : s[i] = x
         /\ IsInjective(s) <=> \A i, j \in 1..Len(s) : s[i] = s[j] => i = j
<1>1. DOMAIN s = 1..Len(s) /\ \A i \in 1..Len(s) : s[i] \in S
  BY LenProperties, ElementOfSeq
<1>2. \A x : x \in ToSet(s) <=> \E i \in 1..Len(s) : s[i] = x
  BY <1>1 DEF ToSet
<1>3. IsInjective(s) <=> \A i, j \in 1..Len(s) : s[i] = s[j] => i = j
  BY <1>1, Zenon DEF IsInjective
<1>4. QED
  BY <1>1, <1>2, <1>3

(* The empty queue has none.                                               *)
LEMMA NoElements == ToSet(<<>>) = {} /\ IsInjective(<<>>)
  BY DEF ToSet, IsInjective

(* A queue behind another holds what both hold, once each if they are      *)
(* apart.                                                                  *)
LEMMA ConcatElements ==
  ASSUME NEW S, NEW s \in Seq(S), NEW t \in Seq(S)
  PROVE  /\ s \o t \in Seq(S) /\ ToSet(s \o t) = ToSet(s) \cup ToSet(t)
         /\ IsInjective(s \o t)
              <=> IsInjective(s) /\ IsInjective(t) /\ Apart(ToSet(s), ToSet(t))
<1>1. PICK u, m, n : u = s \o t /\ m = Len(s) /\ n = Len(t)
  OBVIOUS
<1>2. /\ u \in Seq(S) /\ Len(u) = m + n /\ m \in Nat /\ n \in Nat
      /\ \A i \in 1..m + n : u[i] = IF i <= m THEN s[i] ELSE t[i - m]
  BY <1>1, ConcatProperties, LenProperties
<1>3. \A i \in 1..m : i \in 1..m + n /\ u[i] = s[i]
  <2>1. SUFFICES ASSUME NEW i \in 1..m PROVE i \in 1..m + n /\ u[i] = s[i]
    OBVIOUS
  <2>2. i \in 1..m + n /\ i <= m
    BY <1>2
  <2>3. QED
    BY <1>2, <2>2
<1>4. \A j \in 1..n : m + j \in 1..m + n /\ u[m + j] = t[j]
  <2>1. SUFFICES ASSUME NEW j \in 1..n PROVE m + j \in 1..m + n /\ u[m + j] = t[j]
    OBVIOUS
  <2>2. m + j \in 1..m + n /\ ~(m + j <= m) /\ m + j - m = j
    BY <1>2
  <2>3. u[m + j] = t[m + j - m]
    BY <1>2, <2>2
  <2>4. QED
    BY <2>2, <2>3
<1>5. \A i \in 1..m + n : i \notin 1..m => i - m \in 1..n /\ i = m + (i - m)
  <2>1. m \in Nat /\ n \in Nat
    BY <1>2
  <2>2. QED
    BY <2>1
<1>6. /\ \A x : x \in ToSet(s) <=> \E i \in 1..m : s[i] = x
      /\ IsInjective(s) <=> \A i, j \in 1..m : s[i] = s[j] => i = j
  <2>1. /\ \A x : x \in ToSet(s) <=> \E i \in 1..Len(s) : s[i] = x
        /\ IsInjective(s) <=> \A i, j \in 1..Len(s) : s[i] = s[j] => i = j
    BY Elements
  <2>2. m = Len(s)
    BY <1>1
  <2>3. QED
    BY <2>1, <2>2
<1>7. /\ \A x : x \in ToSet(t) <=> \E i \in 1..n : t[i] = x
      /\ IsInjective(t) <=> \A i, j \in 1..n : t[i] = t[j] => i = j
  <2>1. /\ \A x : x \in ToSet(t) <=> \E i \in 1..Len(t) : t[i] = x
        /\ IsInjective(t) <=> \A i, j \in 1..Len(t) : t[i] = t[j] => i = j
    BY Elements
  <2>2. n = Len(t)
    BY <1>1
  <2>3. QED
    BY <2>1, <2>2
<1>8. /\ \A x : x \in ToSet(u) <=> \E i \in 1..m + n : u[i] = x
      /\ IsInjective(u) <=> \A i, j \in 1..m + n : u[i] = u[j] => i = j
  <2>1. u \in Seq(S) /\ Len(u) = m + n
    BY <1>2
  <2>2. /\ \A x : x \in ToSet(u) <=> \E i \in 1..Len(u) : u[i] = x
        /\ IsInjective(u) <=> \A i, j \in 1..Len(u) : u[i] = u[j] => i = j
    BY <2>1, Elements
  <2>3. QED
    BY <2>1, <2>2
<1>9. ToSet(u) = ToSet(s) \cup ToSet(t)
  <2>1. ASSUME NEW x \in ToSet(u) PROVE x \in ToSet(s) \cup ToSet(t)
    <3>1. PICK i \in 1..m + n : u[i] = x
      BY <1>8
    <3>2. CASE i \in 1..m
      BY <1>3, <1>6, <3>1, <3>2
    <3>3. CASE i \notin 1..m
      <4>1. PICK j \in 1..n : i = m + j
        BY <1>5, <3>3
      <4>2. t[j] = x
        BY <1>4, <3>1, <4>1
      <4>3. QED
        BY <1>7, <4>2
    <3>4. QED
      BY <3>2, <3>3
  <2>2. ASSUME NEW x \in ToSet(s) PROVE x \in ToSet(u)
    BY <1>3, <1>6, <1>8
  <2>3. ASSUME NEW x \in ToSet(t) PROVE x \in ToSet(u)
    BY <1>4, <1>7, <1>8
  <2>4. QED
    BY <2>1, <2>2, <2>3
<1>10. ASSUME IsInjective(u)
       PROVE  IsInjective(s) /\ IsInjective(t) /\ Apart(ToSet(s), ToSet(t))
  <2>1. \A i, j \in 1..m + n : u[i] = u[j] => i = j
    BY <1>8, <1>10
  <2>2. IsInjective(s)
    <3>1. ASSUME NEW i \in 1..m, NEW j \in 1..m, s[i] = s[j] PROVE i = j
      BY <1>3, <2>1, <3>1
    <3>2. QED
      BY <1>6, <3>1
  <2>3. IsInjective(t)
    <3>1. ASSUME NEW i \in 1..n, NEW j \in 1..n, t[i] = t[j] PROVE i = j
      <4>1. m + i = m + j
        BY <1>4, <2>1, <3>1
      <4>2. QED
        BY <1>2, <4>1
    <3>2. QED
      BY <1>7, <3>1
  <2>4. ASSUME NEW x \in ToSet(s), x \in ToSet(t) PROVE FALSE
    <3>1. PICK i \in 1..m : s[i] = x
      BY <1>6
    <3>2. PICK j \in 1..n : t[j] = x
      BY <1>7, <2>4
    <3>3. i = m + j
      BY <1>3, <1>4, <2>1, <3>1, <3>2
    <3>4. QED
      BY <1>2, <3>3
  <2>5. QED
    BY <2>2, <2>3, <2>4 DEF Apart
<1>11. ASSUME IsInjective(s), IsInjective(t), Apart(ToSet(s), ToSet(t))
       PROVE  IsInjective(u)
  <2>1. \A i \in 1..m, j \in 1..n : s[i] # t[j]
    BY <1>6, <1>7, <1>11 DEF Apart
  <2>2. ASSUME NEW i \in 1..m + n, NEW j \in 1..m + n, u[i] = u[j] PROVE i = j
    <3>1. CASE i \in 1..m /\ j \in 1..m
      BY <1>3, <1>6, <1>11, <2>2, <3>1
    <3>2. CASE i \in 1..m /\ j \notin 1..m
      <4>1. PICK k \in 1..n : j = m + k
        BY <1>5, <3>2
      <4>2. QED
        BY <1>3, <1>4, <2>1, <2>2, <3>2, <4>1
    <3>3. CASE i \notin 1..m /\ j \in 1..m
      <4>1. PICK k \in 1..n : i = m + k
        BY <1>5, <3>3
      <4>2. QED
        BY <1>3, <1>4, <2>1, <2>2, <3>3, <4>1
    <3>4. CASE i \notin 1..m /\ j \notin 1..m
      <4>1. PICK k \in 1..n : i = m + k
        BY <1>5, <3>4
      <4>2. PICK l \in 1..n : j = m + l
        BY <1>5, <3>4
      <4>3. t[k] = t[l]
        BY <1>4, <2>2, <4>1, <4>2
      <4>4. k = l
        BY <1>7, <1>11, <4>3
      <4>5. QED
        BY <4>1, <4>2, <4>4
    <3>5. QED
      BY <3>1, <3>2, <3>3, <3>4
  <2>3. QED
    BY <1>8, <2>2
<1>12. QED
  BY <1>1, <1>2, <1>9, <1>10, <1>11

(* A new last element is one more, and makes no double if it is new.       *)
LEMMA AppendElements ==
  ASSUME NEW S, NEW s \in Seq(S), NEW x \in S
  PROVE  /\ Append(s, x) \in Seq(S) /\ ToSet(Append(s, x)) = ToSet(s) \cup {x}
         /\ IsInjective(Append(s, x)) <=> IsInjective(s) /\ x \notin ToSet(s)
<1>1. <<x>> \in Seq(S) /\ ToSet(<<x>>) = {x} /\ IsInjective(<<x>>)
  BY DEF ToSet, IsInjective
<1>2. PICK t, u : t = <<x>> /\ u = Append(s, x)
  OBVIOUS
<1>3. t \in Seq(S) /\ ToSet(t) = {x} /\ IsInjective(t)
  BY <1>1, <1>2
<1>4. u = s \o t
  BY <1>2, AppendIsConcat
<1>5. /\ s \o t \in Seq(S) /\ ToSet(s \o t) = ToSet(s) \cup ToSet(t)
      /\ IsInjective(s \o t)
           <=> IsInjective(s) /\ IsInjective(t) /\ Apart(ToSet(s), ToSet(t))
  BY <1>3, ConcatElements, Zenon
<1>6. Apart(ToSet(s), ToSet(t)) <=> x \notin ToSet(s)
  BY <1>3 DEF Apart
<1>7. /\ u \in Seq(S) /\ ToSet(u) = ToSet(s) \cup {x}
      /\ IsInjective(u) <=> IsInjective(s) /\ x \notin ToSet(s)
  BY <1>3, <1>4, <1>5, <1>6
<1>8. QED
  BY <1>2, <1>7

(* A queue without its first element has the others.                       *)
LEMMA TailElements ==
  ASSUME NEW S, NEW s \in Seq(S), s # <<>>
  PROVE  /\ Head(s) \in S /\ Tail(s) \in Seq(S)
         /\ ToSet(s) = ToSet(Tail(s)) \cup {Head(s)}
         /\ IsInjective(s) => IsInjective(Tail(s)) /\ Head(s) \notin ToSet(Tail(s))
<1>1. Head(s) \in S /\ Tail(s) \in Seq(S) /\ s = <<Head(s)>> \o Tail(s)
  <2>1. Head(s) \in S /\ Tail(s) \in Seq(S)
    BY HeadTailProperties
  <2>2. Len(s) \in Nat \ {0}
    BY EmptySeq
  <2>3. 1 \in 1..Len(s) /\ Len(s) \in 1..Len(s) /\ 1 + 1 = 2
    BY <2>2
  <2>4. SubSeq(s, 1, Len(s)) = <<s[1]>> \o SubSeq(s, 2, Len(s))
    BY <2>3, SubSeqRecursiveFirst
  <2>5. s[1] = Head(s)
    OBVIOUS
  <2>6. QED
    BY <2>1, <2>4, <2>5, SubSeqFull, TailIsSubSeq
<1>2. PICK h, t, r : h = Head(s) /\ t = <<h>> /\ r = Tail(s)
  OBVIOUS
<1>3. t \in Seq(S) /\ r \in Seq(S) /\ ToSet(t) = {h}
  BY <1>1, <1>2 DEF ToSet
<1>4. /\ ToSet(t \o r) = ToSet(t) \cup ToSet(r)
      /\ IsInjective(t \o r)
           <=> IsInjective(t) /\ IsInjective(r) /\ Apart(ToSet(t), ToSet(r))
  <2>1. t \in Seq(S) /\ r \in Seq(S)
    BY <1>3
  <2>2. QED
    BY <2>1, ConcatElements
<1>5. QED
  BY <1>1, <1>2, <1>3, <1>4 DEF Apart

(* The three queues one behind the other.                                  *)
LEMMA ThreeQueues ==
  ASSUME NEW S, NEW r \in Seq(S), NEW f \in Seq(S), NEW b \in Seq(S)
  PROVE  /\ ToSet(r \o f \o b) = ToSet(r) \cup ToSet(f) \cup ToSet(b)
         /\ IsInjective(r \o f \o b)
              <=> /\ IsInjective(r) /\ IsInjective(f) /\ IsInjective(b)
                  /\ Apart(ToSet(r), ToSet(f))
                  /\ Apart(ToSet(r), ToSet(b)) /\ Apart(ToSet(f), ToSet(b))
<1>1. PICK u : u = r \o f
  OBVIOUS
<1>2. /\ u \in Seq(S) /\ ToSet(u) = ToSet(r) \cup ToSet(f)
      /\ IsInjective(u) <=> IsInjective(r) /\ IsInjective(f) /\ Apart(ToSet(r), ToSet(f))
  BY <1>1, ConcatElements
<1>3. u \in Seq(S)
  BY <1>2
<1>4. /\ ToSet(u \o b) = ToSet(u) \cup ToSet(b)
      /\ IsInjective(u \o b) <=> IsInjective(u) /\ IsInjective(b) /\ Apart(ToSet(u), ToSet(b))
  BY <1>3, ConcatElements
<1>5. Apart(ToSet(u), ToSet(b)) <=> Apart(ToSet(r), ToSet(b)) /\ Apart(ToSet(f), ToSet(b))
  BY <1>2 DEF Apart
<1>6. QED
  BY <1>1, <1>2, <1>4, <1>5

(* OnePlace is Placed, before a step ...                                   *)
LEMMA PlacedBefore ==
  ASSUME TypeOK
  PROVE  OnePlace <=> Placed
<1>1. /\ requestQueue \in Seq(Tasks) /\ finishedQueue \in Seq(Tasks) /\ batch \in Seq(Tasks)
  BY DEF TypeOK
<1>2. /\ ToSet(Waiting) = ToSet(requestQueue) \cup ToSet(finishedQueue) \cup ToSet(batch)
      /\ IsInjective(Waiting) <=> Parted
  BY <1>1, ThreeQueues DEF Waiting, Parted
<1>3. PICK W : W = ToSet(Waiting)
  OBVIOUS
<1>4. Placed <=> IsInjective(Waiting) /\ Elsewhere(W)
  BY <1>2, <1>3 DEF Placed
<1>5. OnePlace <=> IsInjective(Waiting) /\ Elsewhere(W)
  BY <1>3 DEF OnePlace, Elsewhere, Apart
<1>6. QED
  BY <1>4, <1>5

(* ... and after it.                                                       *)
LEMMA PlacedAfter ==
  ASSUME TypeOK'
  PROVE  OnePlace' <=> Placed'
<1>1. PICK r, f, b : r = requestQueue' /\ f = finishedQueue' /\ b = batch'
  OBVIOUS
<1>2. r \in Seq(Tasks) /\ f \in Seq(Tasks) /\ b \in Seq(Tasks)
  BY <1>1 DEF TypeOK
<1>3. PICK q : q = r \o f \o b
  OBVIOUS
<1>4. /\ ToSet(q) = ToSet(r) \cup ToSet(f) \cup ToSet(b)
      /\ IsInjective(q)
           <=> /\ IsInjective(r) /\ IsInjective(f) /\ IsInjective(b)
               /\ Apart(ToSet(r), ToSet(f))
               /\ Apart(ToSet(r), ToSet(b)) /\ Apart(ToSet(f), ToSet(b))
  BY <1>2, <1>3, ThreeQueues
<1>5. q = Waiting'
  BY <1>1, <1>3 DEF Waiting
<1>6. PICK W : W = ToSet(q)
  OBVIOUS
<1>7. Parted' <=> IsInjective(q)
  BY <1>1, <1>4 DEF Parted
<1>8. Placed' <=> IsInjective(q) /\ Elsewhere(W)'
  BY <1>1, <1>4, <1>6, <1>7 DEF Placed
<1>9. OnePlace' <=> IsInjective(q) /\ Elsewhere(W)'
  BY <1>5, <1>6 DEF OnePlace, Elsewhere, Apart
<1>10. QED
  BY <1>8, <1>9

-----------------------------------------------------------------------------
(* The invariant.                                                          *)

(* It holds at the start.                                                  *)
LEMMA IInvInit == Init => IInv
<1> SUFFICES ASSUME Init PROVE IInv
  OBVIOUS
<1>1. <<>> \in Seq(Tasks) /\ <<>> \in Seq(Paths) /\ Len(<<>>) = 0 /\ 1..0 = {}
  OBVIOUS
<1>0. created = 0 /\ 0 <= MaxTasks
  BY <1>1, DownloaderAssumption DEF Init, created
<1>2. TypeOK
  BY <1>0, <1>1 DEF Init, TypeOK
<1>3. Placed
  BY <1>0, <1>1, NoElements DEF Init, Placed, Parted, Elsewhere, Apart, InCurl
<1>4. OnePlace
  BY <1>2, <1>3, PlacedBefore
<1>5. Attached /\ Reserved /\ OneWriter
  BY DEF Init, Attached, Reserved, OneWriter, NoTask
<1>6. QED
  BY <1>2, <1>4, <1>5 DEF IInv

(* A new task has the next number.                                         *)
LEMMA AddTaskEffects ==
  ASSUME TypeOK, NEW p \in Paths, AddTask(p)
  PROVE  /\ created \in Nat /\ created + 1 \in Tasks /\ created + 1 \notin 1..created
         /\ path' \in Seq(Paths) /\ created' = created + 1 /\ created' <= MaxTasks
         /\ 1..created' = (1..created) \cup {created + 1}
         /\ path'[created + 1] = p /\ \A k \in 1..created : path'[k] = path[k]
<1>1. PICK n : n = created
  OBVIOUS
<1>2. n \in Nat /\ path \in Seq(Paths) /\ n = Len(path) /\ n < MaxTasks
  BY <1>1, LenProperties DEF TypeOK, created, AddTask
<1>3. path' = Append(path, p)
  BY DEF AddTask
<1>4. /\ path' \in Seq(Paths) /\ Len(path') = n + 1 /\ path'[n + 1] = p
      /\ \A k \in 1..n : path'[k] = path[k]
  BY <1>2, <1>3, AppendProperties
<1>5. n + 1 \in 1..MaxTasks /\ n + 1 \notin 1..n /\ 1..(n + 1) = (1..n) \cup {n + 1}
      /\ n + 1 <= MaxTasks
  BY <1>2, DownloaderAssumption
<1>6. QED
  BY <1>1, <1>2, <1>4, <1>5 DEF created, Tasks

(* Every step keeps the types ...                                          *)
LEMMA TypeStep ==
  ASSUME TypeOK, Placed, Attached, [Next]_vars
  PROVE  TypeOK'
<1>1. CASE UNCHANGED vars
  BY <1>1 DEF TypeOK, vars, queues, files, created
<1>2. ASSUME NEW p \in Paths, AddTask(p) PROVE TypeOK'
  <2>1. PICK k : k = created + 1
    OBVIOUS
  <2>2. /\ k \in Tasks /\ path' \in Seq(Paths) /\ created' <= MaxTasks
        /\ 1..created' = (1..created) \cup {k}
    BY <1>2, <2>1, AddTaskEffects
  <2>3. InitTask(k, p) /\ adding' = k
    BY <1>2, <2>1 DEF AddTask
  <2>4. requestQueue' \in Seq(Tasks) /\ finishedQueue' \in Seq(Tasks)
    <3>1. requestQueue \in Seq(Tasks) /\ finishedQueue \in Seq(Tasks)
      BY DEF TypeOK
    <3>2. Append(requestQueue, k) \in Seq(Tasks) /\ Append(finishedQueue, k) \in Seq(Tasks)
      BY <2>2, <3>1, AppendElements
    <3>3. QED
      BY <2>3, <3>1, <3>2 DEF InitTask, Queued, Refused
  <2>5. storagePaths' \subseteq Paths /\ writing' \subseteq 1..created'
    BY <2>2, <2>3 DEF InitTask, TypeOK
  <2>6. UNCHANGED <<coTaskMap, moving, joinable, netPc, cPc, batch, paused, freedByOther,
                    delivered, released>>
    BY <1>2 DEF AddTask
  <2>7. QED
    BY <2>2, <2>3, <2>4, <2>5, <2>6 DEF TypeOK
<1>3. CASE Run \/ PauseIfStopped \/ OnScheduleEnd \/ Destroy
  BY <1>3 DEF Run, PauseIfStopped, OnScheduleEnd, Destroy, TypeOK, queues, files, created
<1>11. CASE OnSchedule
  <2>1. <<>> \in Seq(Tasks)
    OBVIOUS
  <2>2. QED
    BY <1>11, <2>1 DEF OnSchedule, TypeOK, files, created
<1>4. CASE Deliver
  <2>1. batch # <<>> /\ batch \in Seq(Tasks)
    BY <1>4 DEF Deliver, TypeOK
  <2>2. /\ Head(batch) \in Tasks /\ Tail(batch) \in Seq(Tasks)
        /\ ToSet(batch) = ToSet(Tail(batch)) \cup {Head(batch)}
    BY <2>1, TailElements
  <2>3. Head(batch) \in 1..created
    BY <2>2 DEF Placed, Elsewhere
  <2>4. QED
    BY <1>4, <2>2, <2>3 DEF Deliver, TypeOK, queues, created
<1>5. ASSUME NEW k \in Tasks, Release(k) PROVE TypeOK'
  BY <1>5 DEF Release, TypeOK, queues, created
<1>6. CASE CheckAttached \/ PerformEnd \/ FetchEnd \/ StopThread
  BY <1>6 DEF CheckAttached, PerformEnd, FetchEnd, StopThread, TypeOK, queues, files, created
<1>7. CASE PushFinished
  <2>1. moving \in Tasks /\ finishedQueue \in Seq(Tasks)
    BY <1>7 DEF PushFinished, TypeOK, Attached
  <2>2. Append(finishedQueue, moving) \in Seq(Tasks)
    BY <2>1, AppendElements
  <2>3. QED
    BY <1>7, <2>2 DEF PushFinished, TypeOK, files, created
<1>8. CASE Fetch
  <2>1. requestQueue # <<>> /\ requestQueue \in Seq(Tasks)
    BY <1>8 DEF Fetch, TypeOK
  <2>2. Head(requestQueue) \in Tasks /\ Tail(requestQueue) \in Seq(Tasks)
    BY <2>1, TailElements
  <2>3. finishedQueue \in Seq(Tasks) /\ Append(finishedQueue, Head(requestQueue)) \in Seq(Tasks)
    BY <2>2, AppendElements DEF TypeOK
  <2>4. /\ requestQueue' \in Seq(Tasks) /\ finishedQueue' \in Seq(Tasks)
        /\ coTaskMap' \subseteq Tasks
    BY <1>8, <2>2, <2>3 DEF Fetch, TypeOK
  <2>5. UNCHANGED <<moving, joinable, netPc, cPc, adding, batch, paused, files, delivered,
                    released>>
    BY <1>8 DEF Fetch
  <2>6. QED
    BY <2>4, <2>5 DEF TypeOK, files, created
<1>9. ASSUME NEW k \in Tasks, TransferDone(k) PROVE TypeOK'
  BY <1>9 DEF TransferDone, TypeOK, files, created
<1>12. QED
  BY <1>1, <1>2, <1>3, <1>4, <1>5, <1>6, <1>7, <1>8, <1>9, <1>11 DEF Next, Timer, Network

(* ... the places of the tasks, as each moves one at most, ...             *)
LEMMA PlacedStep ==
  ASSUME TypeOK, Placed, Attached, [Next]_vars
  PROVE  Placed'
<1> USE DEF Placed, Parted, Elsewhere, Apart, InCurl
<1>0. /\ requestQueue \in Seq(Tasks) /\ finishedQueue \in Seq(Tasks) /\ batch \in Seq(Tasks)
      /\ NoTask \notin Tasks
  BY DEF TypeOK, NoTask, Tasks
<1>1. CASE UNCHANGED vars
  BY <1>1 DEF vars, queues, files, created
<1>2. ASSUME NEW p \in Paths, AddTask(p) PROVE Placed'
  <2>1. PICK k : k = created + 1
    OBVIOUS
  <2>2. k \in Tasks /\ k \notin 1..created /\ 1..created' = (1..created) \cup {k}
    BY <1>2, <2>1, AddTaskEffects
  <2>3. InitTask(k, p) /\ UNCHANGED <<coTaskMap, moving, batch, delivered>>
    BY <1>2, <2>1 DEF AddTask
  <2>4. /\ k \notin ToSet(requestQueue) /\ k \notin ToSet(finishedQueue)
        /\ k \notin ToSet(batch) /\ k \notin InCurl /\ k \notin delivered
    BY <2>2
  <2>5. /\ ToSet(Append(requestQueue, k)) = ToSet(requestQueue) \cup {k}
        /\ IsInjective(Append(requestQueue, k))
        /\ ToSet(Append(finishedQueue, k)) = ToSet(finishedQueue) \cup {k}
        /\ IsInjective(Append(finishedQueue, k))
    BY <1>0, <2>2, <2>4, AppendElements
  <2>6. CASE Queued(k)
    BY <2>2, <2>3, <2>4, <2>5, <2>6 DEF Queued
  <2>7. CASE Refused(k)
    BY <2>2, <2>3, <2>4, <2>5, <2>7 DEF Refused
  <2>8. QED
    BY <2>3, <2>6, <2>7 DEF InitTask
<1>3. CASE Run \/ PauseIfStopped \/ OnScheduleEnd \/ Destroy
  BY <1>3 DEF Run, PauseIfStopped, OnScheduleEnd, Destroy, queues, files, created
<1>4. CASE OnSchedule
  <2>1. batch = <<>>
    BY <1>4 DEF OnSchedule, Attached
  <2>2. QED
    BY <1>4, <2>1, NoElements DEF OnSchedule, files, created
<1>5. CASE Deliver
  <2>1. batch # <<>>
    BY <1>5 DEF Deliver
  <2>2. PICK k, b : k = Head(batch) /\ b = Tail(batch)
    OBVIOUS
  <2>3. /\ ToSet(batch) = ToSet(b) \cup {k} /\ IsInjective(b) /\ k \notin ToSet(b)
    BY <1>0, <2>1, <2>2, TailElements
  <2>4. /\ batch' = b /\ delivered' = delivered \cup {k} /\ UNCHANGED <<queues, path>>
    BY <1>5, <2>2 DEF Deliver
  <2>5. QED
    BY <2>3, <2>4 DEF queues, created
<1>6. ASSUME NEW k \in Tasks, Release(k) PROVE Placed'
  BY <1>6 DEF Release, queues, created
<1>7. CASE CheckAttached \/ PerformEnd \/ FetchEnd \/ StopThread
  BY <1>7 DEF CheckAttached, PerformEnd, FetchEnd, StopThread, queues, files, created
<1>8. CASE PushFinished
  <2>1. moving \in Tasks /\ moving # NoTask /\ moving \notin ToSet(finishedQueue)
    BY <1>8 DEF PushFinished, TypeOK, Attached
  <2>2. PICK k, f : k = moving /\ f = Append(finishedQueue, moving)
    OBVIOUS
  <2>3. ToSet(f) = ToSet(finishedQueue) \cup {k} /\ IsInjective(f)
    BY <1>0, <2>1, <2>2, AppendElements
  <2>4. /\ finishedQueue' = f /\ moving' = NoTask
        /\ UNCHANGED <<requestQueue, coTaskMap, batch, path, delivered>>
    BY <1>8, <2>2 DEF PushFinished, files
  <2>5. NoTask \notin coTaskMap
    BY <1>0 DEF TypeOK
  <2>6. QED
    BY <2>1, <2>2, <2>3, <2>4, <2>5 DEF created
<1>9. CASE Fetch
  <2>1. requestQueue # <<>>
    BY <1>9 DEF Fetch
  <2>2. PICK k, r, f : /\ k = Head(requestQueue) /\ r = Tail(requestQueue)
                       /\ f = Append(finishedQueue, k)
    OBVIOUS
  <2>3. /\ k \in Tasks /\ ToSet(requestQueue) = ToSet(r) \cup {k}
        /\ IsInjective(r) /\ k \notin ToSet(r)
    BY <1>0, <2>1, <2>2, TailElements
  <2>4. k \notin ToSet(finishedQueue)
    BY <2>3
  <2>5. ToSet(f) = ToSet(finishedQueue) \cup {k} /\ IsInjective(f)
    BY <1>0, <2>2, <2>3, <2>4, AppendElements
  <2>6. k # NoTask /\ k # moving
    BY <1>0, <2>3
  <2>7. /\ requestQueue' = r /\ UNCHANGED <<moving, batch, path, delivered>>
        /\ \/ coTaskMap' = coTaskMap \cup {k} /\ UNCHANGED finishedQueue
           \/ finishedQueue' = f /\ UNCHANGED coTaskMap
    BY <1>9, <2>2 DEF Fetch, files
  <2>8. CASE coTaskMap' = coTaskMap \cup {k} /\ UNCHANGED finishedQueue
    BY <2>3, <2>6, <2>7, <2>8 DEF created
  <2>9. CASE finishedQueue' = f /\ UNCHANGED coTaskMap
    BY <2>3, <2>5, <2>7, <2>9 DEF created
  <2>10. QED
    BY <2>7, <2>8, <2>9
<1>10. ASSUME NEW k \in Tasks, TransferDone(k) PROVE Placed'
  <2>1. moving = NoTask /\ k # NoTask /\ k \in coTaskMap
    BY <1>0, <1>10 DEF TransferDone, Attached
  <2>2. /\ coTaskMap' = coTaskMap \ {k} /\ moving' = k
        /\ UNCHANGED <<requestQueue, finishedQueue, batch, path, delivered>>
    BY <1>10 DEF TransferDone, files
  <2>3. QED
    BY <2>1, <2>2 DEF created
<1>11. QED
  BY <1>1, <1>2, <1>3, <1>4, <1>5, <1>6, <1>7, <1>8, <1>9, <1>10 DEF Next, Timer, Network

(* ... the handle of the thread, ...                                       *)
LEMMA AttachedStep ==
  ASSUME TypeOK, Attached, [Next]_vars
  PROVE  Attached'
<1>1. CASE UNCHANGED vars
  BY <1>1 DEF Attached, vars, queues
<1>2. ASSUME NEW p \in Paths, AddTask(p) PROVE Attached'
  <2>1. created + 1 # NoTask
    BY <1>2, AddTaskEffects DEF NoTask, Tasks
  <2>2. QED
    BY <1>2, <2>1 DEF AddTask, Attached
<1>3. CASE Run
  BY <1>3 DEF Run, Attached, queues
<1>4. CASE OnSchedule
  BY <1>4 DEF OnSchedule, Attached, queues
<1>5. CASE PauseIfStopped
  BY <1>5 DEF PauseIfStopped, Attached, queues
<1>6. CASE Deliver
  BY <1>6 DEF Deliver, Attached, queues
<1>7. CASE OnScheduleEnd
  BY <1>7 DEF OnScheduleEnd, Attached, queues
<1>8. CASE Destroy
  BY <1>8 DEF Destroy, Attached, queues
<1>9. CASE CheckAttached
  BY <1>9 DEF CheckAttached, Attached, queues
<1>10. CASE PushFinished
  BY <1>10 DEF PushFinished, Attached, queues
<1>11. CASE PerformEnd
  BY <1>11 DEF PerformEnd, Attached, queues
<1>12. CASE Fetch
  BY <1>12 DEF Fetch, Attached, queues
<1>13. CASE FetchEnd
  BY <1>13 DEF FetchEnd, Attached, queues
<1>14. CASE StopThread
  BY <1>14 DEF StopThread, Attached, queues
<1>15. ASSUME NEW k \in Tasks, Release(k) PROVE Attached'
  BY <1>15 DEF Release, Attached, queues
<1>16. ASSUME NEW k \in Tasks, TransferDone(k) PROVE Attached'
  BY <1>16 DEF TransferDone, Attached, NoTask, Tasks
<1>17. QED
  BY <1>1, <1>2, <1>3, <1>4, <1>5, <1>6, <1>7, <1>8, <1>9,
     <1>10, <1>11, <1>12, <1>13, <1>14, <1>15, <1>16
  DEF Next, Timer, Network

(* ... and the reservations.                                               *)
LEMMA FilesStep ==
  ASSUME TypeOK, Reserved, OneWriter, [Next]_vars
  PROVE  Reserved' /\ OneWriter'
<1>1. CASE UNCHANGED files
  BY <1>1 DEF files, Reserved, OneWriter
<1>2. ASSUME NEW p \in Paths, AddTask(p) PROVE Reserved' /\ OneWriter'
  <2>1. PICK k : k = created + 1
    OBVIOUS
  <2>2. /\ k \notin writing /\ path'[k] = p /\ \A j \in writing : path'[j] = path[j]
    BY <1>2, <2>1, AddTaskEffects DEF TypeOK
  <2>3. InitTask(k, p) /\ UNCHANGED freedByOther
    BY <1>2, <2>1 DEF AddTask
  <2>4. CASE UNCHANGED writing /\ storagePaths \subseteq storagePaths'
    BY <2>2, <2>3, <2>4 DEF Reserved, OneWriter
  <2>5. CASE /\ p \notin storagePaths /\ storagePaths' = storagePaths \cup {p}
             /\ writing' = writing \cup {k}
    <3>1. \A j \in writing : path[j] = p => p \in freedByOther
      BY <2>5 DEF Reserved
    <3>2. QED
      BY <2>2, <2>3, <2>5, <3>1 DEF Reserved, OneWriter
  <2>6. QED
    BY <2>3, <2>4, <2>5 DEF InitTask
<1>3. CASE Deliver
  <2>1. PICK k : k = Head(batch)
    OBVIOUS
  <2>2. /\ writing' = writing \ {k} /\ UNCHANGED <<path, freedByOther>>
        /\ \/ k \in writing /\ storagePaths' = storagePaths \ {path[k]}
           \/ UNCHANGED storagePaths
    BY <1>3, <2>1 DEF Deliver
  <2>3. OneWriter'
    BY <2>2 DEF OneWriter
  <2>4. Reserved'
    BY <2>2 DEF Reserved, OneWriter
  <2>5. QED
    BY <2>3, <2>4
<1>4. ASSUME NEW k \in Tasks, Release(k) PROVE Reserved' /\ OneWriter'
  <2>1. /\ UNCHANGED <<writing, path>> /\ storagePaths' = storagePaths \ {path[k]}
        /\ freedByOther \subseteq freedByOther'
        /\ (\E w \in writing : path[w] = path[k]) => path[k] \in freedByOther'
    BY <1>4 DEF Release
  <2>2. QED
    BY <2>1 DEF Reserved, OneWriter
<1>5. QED
  <2>1. [Next]_vars => \/ UNCHANGED files \/ Deliver
                       \/ \E p \in Paths : AddTask(p)
                       \/ \E k \in Tasks : Release(k)
    BY DEF Next, Timer, Network, Run, OnSchedule, PauseIfStopped, OnScheduleEnd, Destroy,
           CheckAttached, PushFinished, PerformEnd, Fetch, FetchEnd, StopThread, TransferDone,
           vars
  <2>2. QED
    BY <1>1, <1>2, <1>3, <1>4, <2>1

LEMMA IInvStep == IInv /\ [Next]_vars => IInv'
<1> SUFFICES ASSUME IInv, [Next]_vars PROVE IInv'
  OBVIOUS
<1>1. TypeOK /\ Placed /\ Attached /\ Reserved /\ OneWriter
  BY PlacedBefore DEF IInv
<1>2. TypeOK' /\ Placed' /\ Attached' /\ Reserved' /\ OneWriter'
  BY <1>1, TypeStep, PlacedStep, AttachedStep, FilesStep
<1>3. OnePlace'
  BY <1>2, PlacedAfter
<1>4. QED
  BY <1>2, <1>3 DEF IInv

LEMMA IInvAlways == Spec => []IInv
  BY IInvInit, IInvStep, PTL DEF Spec

-----------------------------------------------------------------------------
(* For every number of tasks and paths, a task that was created is in one  *)
(* place until it is delivered: _requestQueue, _coTaskMap, the hands of    *)
(* _threadProc, _finishedQueue or those of onSchedule.                     *)
THEOREM TasksAccountedCorrect == Spec => []TasksAccounted
<1>1. IInv => TasksAccounted
  BY DEF IInv, TasksAccounted
<1>2. QED
  BY <1>1, IInvAlways, PTL

(* When the timer of a downloader that lives is paused and run has been    *)
(* called, no network thread runs and curl has no transfer.                *)
THEOREM PausedAtRestCorrect == Spec => []PausedAtRest
<1>1. IInv => PausedAtRest
  BY DEF IInv, Attached, PausedAtRest
<1>2. QED
  BY <1>1, IInvAlways, PTL

(* init refuses a path in _sStoragePathSet: two tasks write one file only  *)
(* when the destructor of a third took the path out of the set.            *)
THEOREM OneWriterCorrect == Spec => []OneWriter
<1>1. IInv => OneWriter
  BY DEF IInv
<1>2. QED
  BY <1>1, IInvAlways, PTL

=============================================================================
