-------------------------- MODULE HttpClientProofs --------------------------
(***************************************************************************)
(* The life of the client: it is deleted once, by the last thread to leave *)
(* it, and nothing it has posted runs after the engine is gone; and the    *)
(* order in which it answers; for any number of requests.                  *)
(***************************************************************************)
EXTENDS HttpClient, FiniteSetTheorems, FunctionTheorems, SequenceTheorems, TLAPS

(* The cocos thread has not left yet.                                      *)
CocosCounted == call \notin {"remove", "gone"}

One(b) == IF b THEN 1 ELSE 0

(* _threadCount counts who has come and not left, and the client is gone   *)
(* when nobody is there.                                                   *)
Counted ==
  /\ threadCount = One(CocosCounted) + One(NetCounted) + Cardinality(AloneCounted)
  /\ deleted <=> threadCount = 0

(* The network thread works on a request; those not sent are nowhere.      *)
Working ==
  /\ net = "process" => current \in Requests
  /\ \A r \in Requests : r > sent => alone[r] = "none"

(* From destroyInstance on nothing is posted, and no frame runs.           *)
Quiet ==
  /\ call \notin {"none", "notify"} => ~scheduler /\ frame = "idle"
  /\ frame = "idle" => taken = <<>>
  /\ call = "gone" => functions = <<>>

IInv == TypeOK /\ Counted /\ Working /\ Quiet

-----------------------------------------------------------------------------
(* The count.                                                              *)

LEMMA SomeFinite ==
  ASSUME NEW A \in SUBSET Requests
  PROVE  /\ IsFiniteSet(A) /\ Cardinality(A) \in Nat
         /\ Cardinality(A) <= MaxRequests
<1>1. IsFiniteSet(1..MaxRequests) /\ Cardinality(1..MaxRequests) = MaxRequests
  BY FS_Interval, HttpAssumption
<1>2. QED
  BY <1>1, FS_Subset, FS_CardinalityType DEF Requests

LEMMA AloneFinite ==
  /\ IsFiniteSet(AloneCounted) /\ Cardinality(AloneCounted) \in Nat
  /\ Cardinality(AloneCounted) <= MaxRequests
BY SomeFinite DEF AloneCounted

LEMMA CountBound ==
  ASSUME Counted'
  PROVE  threadCount' \in 0..MaxRequests + 2
<1>1. AloneCounted' \in SUBSET Requests
  BY DEF AloneCounted
<1>2. PICK n \in Nat : n = Cardinality(AloneCounted') /\ n <= MaxRequests
  BY <1>1, SomeFinite
<1>3. PICK c \in 0..2 : threadCount' = c + n
  BY <1>2 DEF Counted, One
<1>4. QED
  BY <1>2, <1>3, HttpAssumption

LEMMA Decreased ==
  ASSUME DecreaseAndMayDelete
  PROVE  threadCount' = threadCount - 1 /\ (deleted' <=> threadCount = 1)
<1>1. threadCount' = threadCount - 1 /\ deleted' = (threadCount = 1)
  BY Zenon DEF DecreaseAndMayDelete
<1>2. QED
  BY <1>1, Zenon

(* Steps by which nobody comes or leaves.                                  *)
LEMMA CountKept ==
  ASSUME Counted, UNCHANGED count, AloneCounted' = AloneCounted,
         NetCounted' <=> NetCounted, CocosCounted' <=> CocosCounted
  PROVE  Counted'
BY DEF Counted, One, count

(* The network thread comes, or leaves.                                    *)
LEMMA NetCount ==
  ASSUME Counted, UNCHANGED <<alone, call>>,
         \/ ~NetCounted /\ NetCounted' /\ ~deleted /\ Increase
         \/ NetCounted /\ ~NetCounted' /\ DecreaseAndMayDelete
  PROVE  Counted'
<1>1. AloneCounted' = AloneCounted /\ CocosCounted' = CocosCounted
  BY DEF AloneCounted, CocosCounted
<1>2. Cardinality(AloneCounted) \in Nat
  BY AloneFinite
<1>3. CASE ~NetCounted /\ NetCounted' /\ ~deleted /\ Increase
  BY <1>1, <1>2, <1>3 DEF Counted, One, Increase
<1>4. CASE NetCounted /\ ~NetCounted' /\ DecreaseAndMayDelete
  BY <1>1, <1>2, <1>4, Decreased DEF Counted, One
<1>5. QED
  BY <1>3, <1>4

(* The cocos thread leaves.                                                *)
LEMMA CocosCount ==
  ASSUME Counted, UNCHANGED <<alone, net>>, CocosCounted, ~CocosCounted',
         DecreaseAndMayDelete
  PROVE  Counted'
<1>1. AloneCounted' = AloneCounted /\ NetCounted' = NetCounted
  BY DEF AloneCounted, NetCounted
<1>2. Cardinality(AloneCounted) \in Nat
  BY AloneFinite
<1>3. QED
  BY <1>1, <1>2, Decreased DEF Counted, One

(* A task of the pool comes, or leaves.                                    *)
LEMMA AloneCount ==
  ASSUME TypeOK, Counted, UNCHANGED <<net, call>>, NEW r \in Requests, NEW s,
         alone' = [alone EXCEPT ![r] = s],
         \/ alone[r] = "pushed" /\ s = "process" /\ ~deleted /\ Increase
         \/ alone[r] = "leave" /\ s = "ended" /\ DecreaseAndMayDelete
  PROVE  Counted'
<1>1. NetCounted' = NetCounted /\ CocosCounted' = CocosCounted
  BY DEF NetCounted, CocosCounted
<1>2. IsFiniteSet(AloneCounted) /\ Cardinality(AloneCounted) \in Nat
  BY AloneFinite
<1>3. CASE alone[r] = "pushed" /\ s = "process" /\ ~deleted /\ Increase
  <2>1. AloneCounted' = AloneCounted \cup {r} /\ r \notin AloneCounted
    BY <1>3 DEF AloneCounted, TypeOK
  <2>2. Cardinality(AloneCounted') = Cardinality(AloneCounted) + 1
    BY <1>2, <2>1, FS_AddElement
  <2>3. QED
    BY <1>1, <1>2, <1>3, <2>2 DEF Counted, One, Increase
<1>4. CASE alone[r] = "leave" /\ s = "ended" /\ DecreaseAndMayDelete
  <2>1. AloneCounted' = AloneCounted \ {r} /\ r \in AloneCounted
    BY <1>4 DEF AloneCounted, TypeOK
  <2>2. Cardinality(AloneCounted') = Cardinality(AloneCounted) - 1
    BY <1>2, <2>1, FS_RemoveElement
  <2>3. QED
    BY <1>1, <1>2, <1>4, <2>2, Decreased DEF Counted, One
<1>5. QED
  BY <1>3, <1>4

LEMMA CountStep ==
  ASSUME IInv, [Next]_vars
  PROVE  Counted'
<1>0. TypeOK /\ Counted /\ Working
  BY DEF IInv
<1>1. ASSUME UNCHANGED <<count, alone>>, NetCounted' <=> NetCounted,
             CocosCounted' <=> CocosCounted
      PROVE  Counted'
  BY <1>0, <1>1, CountKept DEF AloneCounted
<1>2. ASSUME Send \/ Notify \/ NotifyQuit PROVE Counted'
  <2>1. /\ UNCHANGED <<count, alone>> /\ CocosCounted /\ CocosCounted'
        /\ net' = net \/ (net = "none" /\ net' = "new") \/ (net = "asleep" /\ net' = "wait")
    BY <1>2 DEF Send, Notify, NotifyQuit, CanCall, WakeNetwork, IsInited, CocosCounted
  <2>2. QED
    BY <1>1, <2>1 DEF NetCounted
<1>3. ASSUME SendImmediate PROVE Counted'
  <2>1. alone[sent + 1] = "none" /\ sent + 1 \in Requests
    BY <1>0, <1>3, HttpAssumption DEF SendImmediate, CanCall, Working, TypeOK, sent, Requests
  <2>2. AloneCounted' = AloneCounted
    BY <1>0, <1>3, <2>1 DEF SendImmediate, AloneCounted, TypeOK
  <2>3. QED
    BY <1>0, <1>3, <2>2, CountKept DEF SendImmediate, netVars, cocos, NetCounted, CocosCounted
<1>4. ASSUME TakeFunctions \/ RunFunction \/ PutBack PROVE Counted'
  <2>1. UNCHANGED <<count, alone, net, call>>
    BY <1>4 DEF TakeFunctions, RunFunction, PutBack, netVars, cocos
  <2>2. QED
    BY <1>1, <2>1 DEF NetCounted, CocosCounted
<1>5. ASSUME DestroyInstance \/ PushSentinel \/ RemoveAllFunctions PROVE Counted'
  <2>1. UNCHANGED <<count, alone, net>> /\ (CocosCounted' <=> CocosCounted)
    BY <1>5 DEF DestroyInstance, PushSentinel, RemoveAllFunctions, netVars, CocosCounted
  <2>2. QED
    BY <1>1, <2>1 DEF NetCounted
<1>6. ASSUME Leave PROVE Counted'
  BY <1>0, <1>6, CocosCount DEF Leave, CocosCounted, netVars
<1>7. ASSUME NetStart PROVE Counted'
  <2>1. CASE deleted
    BY <1>1, <1>7, <2>1 DEF NetStart, NetCounted, CocosCounted, cocos
  <2>2. CASE ~deleted
    BY <1>0, <1>7, <2>2, NetCount DEF NetStart, NetCounted, cocos
  <2>3. QED
    BY <2>1, <2>2
<1>8. ASSUME NetSleep \/ NetTake \/ NetRespond \/ NetPost \/ NetClear PROVE Counted'
  <2>1. UNCHANGED <<count, alone, call>> /\ NetCounted /\ NetCounted'
    BY <1>8 DEF NetSleep, NetTake, NetRespond, NetPost, NetClear, NetCounted, cocos
  <2>2. QED
    BY <1>1, <2>1 DEF CocosCounted
<1>9. ASSUME NetLeave PROVE Counted'
  BY <1>0, <1>9, NetCount DEF NetLeave, NetCounted, cocos
<1>10. ASSUME NEW r \in Requests, AloneStart(r) PROVE Counted'
  <2>1. CASE deleted
    <3>1. AloneCounted' = AloneCounted
      BY <1>0, <1>10, <2>1 DEF AloneStart, AloneCounted, TypeOK
    <3>2. QED
      BY <1>0, <1>10, <2>1, <3>1, CountKept
         DEF AloneStart, netVars, cocos, NetCounted, CocosCounted
  <2>2. CASE ~deleted
    BY <1>0, <1>10, <2>2, AloneCount DEF AloneStart, netVars, cocos
  <2>3. QED
    BY <2>1, <2>2
<1>11. ASSUME NEW r \in Requests, AlonePost(r) PROVE Counted'
  <2>1. AloneCounted' = AloneCounted
    BY <1>0, <1>11 DEF AlonePost, AloneCounted, TypeOK
  <2>2. QED
    BY <1>0, <1>11, <2>1, CountKept DEF AlonePost, netVars, cocos, NetCounted, CocosCounted
<1>12. ASSUME NEW r \in Requests, AloneLeave(r) PROVE Counted'
  BY <1>0, <1>12, AloneCount DEF AloneLeave, netVars, cocos
<1>13. CASE UNCHANGED vars
  BY <1>1, <1>13 DEF vars, netVars, cocos, NetCounted, CocosCounted
<1>14. QED
  BY <1>2, <1>3, <1>4, <1>5, <1>6, <1>7, <1>8, <1>9, <1>10, <1>11, <1>12, <1>13
     DEF Next, Frame, Destroying, Network, Alone

-----------------------------------------------------------------------------
(* Types.                                                                  *)

Queue == Seq(Requests \cup {Sentinel})
Functions == Seq(Requests \cup {Dispatch})

LEMMA PostTypes ==
  ASSUME TypeOK, NEW f \in Requests \cup {Dispatch}, Post(f)
  PROVE  functions' \in Functions /\ taken' \in Functions
<1>1. functions \in Functions /\ taken \in Functions
  BY DEF TypeOK, Functions
<1>2. Append(functions, f) \in Functions
  BY <1>1 DEF Functions
<1>3. /\ taken' = taken
      /\ functions' = functions \/ functions' = Append(functions, f)
  BY DEF Post, perform
<1>4. QED
  BY <1>1, <1>2, <1>3

LEMMA TypeStep ==
  ASSUME IInv, [Next]_vars
  PROVE  TypeOK'
<1>0. TypeOK /\ Working
  BY DEF IInv
<1>1. threadCount' \in 0..MaxRequests + 2
  <2>1. Counted'
    BY CountStep
  <2>2. QED
    BY <2>1, CountBound
<1> DEFINE Rest == /\ requestQueue' \in Queue /\ responseQueue' \in Seq(Requests)
                   /\ scheduler' \in BOOLEAN /\ deleted' \in BOOLEAN
                   /\ current' \in Requests \cup {None}
                   /\ functions' \in Functions /\ taken' \in Functions
           Places == /\ net' \in {"none", "new", "wait", "asleep", "process", "post",
                                  "clear", "leave", "ended", "undefined"}
                     /\ alone' \in [Requests -> {"none", "pushed", "process", "leave",
                                                 "ended", "undefined"}]
                     /\ call' \in {"none", "notify", "sentinel", "wake", "leave",
                                   "remove", "gone"}
                     /\ frame' \in {"idle", "run"}
                     /\ kind' \in Seq({"queue", "alone"}) /\ Len(kind') <= MaxRequests
<1>2. Rest
  <2>1. ASSUME UNCHANGED <<requestQueue, responseQueue, scheduler, deleted, current,
                           functions, taken>>
        PROVE  Rest
    BY <1>0, <2>1 DEF TypeOK, Queue, Functions
  <2>2. ASSUME Send PROVE Rest
    <3>1. sent + 1 \in Requests
      BY <1>0, <2>2, HttpAssumption DEF Send, CanCall, TypeOK, sent, Requests
    <3>2. requestQueue' \in Queue
      BY <1>0, <2>2, <3>1 DEF Send, TypeOK, Queue
    <3>3. QED
      BY <1>0, <2>2, <3>2 DEF Send, TypeOK, Functions, perform, count
  <2>3. ASSUME \/ Notify \/ SendImmediate \/ NotifyQuit \/ NetSleep
               \/ \E r \in Requests : AloneStart(r)
        PROVE  Rest
    BY <2>1, <2>3 DEF Notify, SendImmediate, NotifyQuit, NetSleep, AloneStart, client,
       count, netVars, perform, Increase
  <2>4. ASSUME TakeFunctions PROVE Rest
    BY <1>0, <2>4 DEF TakeFunctions, TypeOK, Queue, Functions, client, count, netVars
  <2>5. ASSUME RunFunction PROVE Rest
    <3>1. taken \in Functions /\ taken # <<>> /\ taken' = Tail(taken)
      BY <1>0, <2>5 DEF RunFunction, TypeOK, Functions
    <3>2. taken' \in Functions
      BY <3>1 DEF Functions
    <3>3. /\ responseQueue \in Seq(Requests)
          /\ \/ responseQueue' = responseQueue
             \/ responseQueue # <<>> /\ responseQueue' = Tail(responseQueue)
      BY <1>0, <2>5 DEF RunFunction, TypeOK
    <3>4. responseQueue' \in Seq(Requests)
      BY <3>3
    <3>5. QED
      BY <1>0, <2>5, <3>2, <3>4 DEF RunFunction, TypeOK, Queue, Functions, count, netVars
  <2>6. ASSUME PutBack PROVE Rest
    BY <1>0, <2>6 DEF PutBack, TypeOK, Queue, Functions, client, count, netVars
  <2>7. ASSUME DestroyInstance PROVE Rest
    BY <1>0, <2>7 DEF DestroyInstance, TypeOK, Queue, Functions, count, netVars, perform
  <2>8. ASSUME PushSentinel PROVE Rest
    BY <1>0, <2>8 DEF PushSentinel, TypeOK, Queue, Functions, count, netVars, perform
  <2>9. ASSUME \/ Leave \/ NetStart \/ NetLeave
               \/ \E r \in Requests : AloneLeave(r)
        PROVE  Rest
    <3>1. /\ UNCHANGED <<requestQueue, responseQueue, scheduler, current, functions, taken>>
          /\ deleted' \in BOOLEAN
      BY <1>0, <2>9 DEF Leave, NetStart, NetLeave, AloneLeave, TypeOK, client, netVars,
         perform, count, Increase, DecreaseAndMayDelete
    <3>2. QED
      BY <1>0, <3>1 DEF TypeOK, Queue, Functions
  <2>10. ASSUME RemoveAllFunctions PROVE Rest
    BY <1>0, <2>10 DEF RemoveAllFunctions, TypeOK, Queue, Functions, client, count, netVars
  <2>11. ASSUME NetTake PROVE Rest
    <3>1. Head(requestQueue) \in Requests \cup {Sentinel} /\ Tail(requestQueue) \in Queue
      BY <1>0, <2>11 DEF NetTake, TypeOK, Queue
    <3>2. current' \in Requests \cup {None} /\ requestQueue' \in Queue
      BY <1>0, <2>11, <3>1 DEF NetTake, TypeOK
    <3>3. QED
      BY <1>0, <2>11, <3>2 DEF NetTake, TypeOK, Functions, count, perform
  <2>12. ASSUME NetRespond PROVE Rest
    <3>1. responseQueue' \in Seq(Requests)
      BY <1>0, <2>12 DEF NetRespond, Working, TypeOK
    <3>2. QED
      BY <1>0, <2>12, <3>1 DEF NetRespond, TypeOK, Queue, Functions, count, perform
  <2>13. ASSUME NetPost PROVE Rest
    <3>1. functions' \in Functions /\ taken' \in Functions
      BY <1>0, <2>13, PostTypes DEF NetPost
    <3>2. QED
      BY <1>0, <2>13, <3>1 DEF NetPost, TypeOK, Queue, client, count
  <2>14. ASSUME NetClear PROVE Rest
    BY <1>0, <2>14 DEF NetClear, TypeOK, Queue, Functions, count, perform
  <2>15. ASSUME NEW r \in Requests, AlonePost(r) PROVE Rest
    <3>1. functions' \in Functions /\ taken' \in Functions
      BY <1>0, <2>15, PostTypes DEF AlonePost
    <3>2. QED
      BY <1>0, <2>15, <3>1 DEF AlonePost, TypeOK, Queue, client, count, netVars
  <2>16. CASE UNCHANGED vars
    BY <2>1, <2>16 DEF vars, client, count, netVars, perform
  <2>17. QED
    BY <2>2, <2>3, <2>4, <2>5, <2>6, <2>7, <2>8, <2>9, <2>10, <2>11, <2>12, <2>13, <2>14,
       <2>15, <2>16 DEF Next, Frame, Destroying, Network, Alone
<1>3. Places
  <2>1. ASSUME UNCHANGED <<alone, kind>>,
               \/ net' = net
               \/ net' \in {"new", "wait", "asleep", "process", "post", "clear", "leave",
                            "ended", "undefined"},
               \/ call' = call
               \/ call' \in {"none", "notify", "sentinel", "wake", "leave", "remove", "gone"},
               frame' = frame \/ frame' \in {"idle", "run"}
        PROVE  Places
    BY <1>0, <2>1 DEF TypeOK, sent
  <2>2. ASSUME Send \/ SendImmediate PROVE Places
    <3>1. kind \in Seq({"queue", "alone"}) /\ Len(kind) < MaxRequests
      BY <1>0, <2>2 DEF Send, SendImmediate, CanCall, TypeOK, sent
    <3>2. kind' = Append(kind, "queue") \/ kind' = Append(kind, "alone")
      BY <2>2 DEF Send, SendImmediate
    <3>3. kind' \in Seq({"queue", "alone"}) /\ Len(kind') <= MaxRequests
      BY <3>1, <3>2, HttpAssumption
    <3>4. QED
      BY <1>0, <2>2, <3>3 DEF Send, SendImmediate, TypeOK, netVars, cocos
  <2>3. ASSUME \/ Notify \/ TakeFunctions \/ RunFunction \/ PutBack \/ DestroyInstance
               \/ PushSentinel \/ NotifyQuit \/ Leave \/ RemoveAllFunctions
        PROVE  Places
    BY <2>1, <2>3 DEF Notify, WakeNetwork, TakeFunctions, RunFunction, PutBack,
       DestroyInstance, PushSentinel, NotifyQuit, Leave, RemoveAllFunctions, netVars, cocos
  <2>4. ASSUME Network PROVE Places
    BY <2>1, <2>4 DEF Network, NetStart, NetSleep, NetTake, NetRespond, NetPost, NetClear,
       NetLeave, cocos
  <2>5. ASSUME NEW r \in Requests, Alone(r) PROVE Places
    BY <1>0, <2>5 DEF Alone, AloneStart, AlonePost, AloneLeave, TypeOK, sent, netVars, cocos
  <2>6. CASE UNCHANGED vars
    BY <2>1, <2>6 DEF vars, netVars, cocos
  <2>7. QED
    BY <2>2, <2>3, <2>4, <2>5, <2>6 DEF Next, Frame, Destroying
<1>4. QED
  BY <1>1, <1>2, <1>3 DEF TypeOK, Queue, Functions, sent

-----------------------------------------------------------------------------
(* The order of the end.                                                   *)

LEMMA WorkingStep ==
  ASSUME IInv, [Next]_vars
  PROVE  Working'
<1>0. TypeOK /\ Working
  BY DEF IInv
<1>1. ASSUME UNCHANGED <<alone, kind>>, net' # "process" \/ UNCHANGED <<net, current>>
      PROVE  Working'
  BY <1>0, <1>1 DEF Working, sent
<1>2. ASSUME Send PROVE Working'
  <2>1. /\ Len(kind') = Len(kind) + 1 /\ Len(kind) \in Nat
        /\ UNCHANGED <<alone, current>> /\ (net' = "process" => net = "process")
    BY <1>0, <1>2 DEF Send, TypeOK
  <2>2. QED
    BY <1>0, <2>1 DEF Working, sent, Requests
<1>3. ASSUME SendImmediate PROVE Working'
  <2>1. /\ Len(kind') = Len(kind) + 1 /\ Len(kind) \in Nat /\ UNCHANGED <<net, current>>
        /\ alone' = [alone EXCEPT ![Len(kind) + 1] = "pushed"]
    BY <1>0, <1>3 DEF SendImmediate, TypeOK, netVars, sent
  <2>2. QED
    BY <1>0, <2>1 DEF Working, sent, Requests, TypeOK
<1>4. ASSUME \/ Notify \/ TakeFunctions \/ RunFunction \/ PutBack \/ DestroyInstance
             \/ PushSentinel \/ NotifyQuit \/ Leave \/ RemoveAllFunctions
      PROVE  Working'
  <2>1. UNCHANGED <<alone, kind>> /\ (net' # "process" \/ UNCHANGED <<net, current>>)
    BY <1>4 DEF Notify, WakeNetwork, TakeFunctions, RunFunction, PutBack,
       DestroyInstance, PushSentinel, NotifyQuit, Leave, RemoveAllFunctions, netVars
  <2>2. QED
    BY <1>1, <2>1
<1>5. ASSUME \/ NetStart \/ NetSleep \/ NetRespond \/ NetPost \/ NetClear \/ NetLeave
      PROVE  Working'
  <2>1. UNCHANGED <<alone, kind>> /\ net' # "process"
    BY <1>5 DEF NetStart, NetSleep, NetRespond, NetPost, NetClear, NetLeave
  <2>2. QED
    BY <1>1, <2>1
<1>6. ASSUME NetTake PROVE Working'
  <2>1. Head(requestQueue) \in Requests \cup {Sentinel}
    BY <1>0, <1>6 DEF NetTake, TypeOK
  <2>2. QED
    BY <1>0, <1>6, <2>1 DEF NetTake, Working, sent
<1>7. ASSUME NEW r \in Requests, Alone(r) PROVE Working'
  <2>1. PICK s : alone' = [alone EXCEPT ![r] = s]
    BY <1>7 DEF Alone, AloneStart, AlonePost, AloneLeave
  <2>2. UNCHANGED <<kind, net, current>> /\ alone[r] # "none"
    BY <1>7 DEF Alone, AloneStart, AlonePost, AloneLeave, netVars
  <2>3. QED
    BY <1>0, <2>1, <2>2 DEF Working, sent, TypeOK
<1>8. CASE UNCHANGED vars
  BY <1>1, <1>8 DEF vars, netVars
<1>9. QED
  BY <1>2, <1>3, <1>4, <1>5, <1>6, <1>7, <1>8 DEF Next, Frame, Destroying, Network

LEMMA QuietStep ==
  ASSUME IInv, [Next]_vars
  PROVE  Quiet'
<1>0. TypeOK /\ Quiet
  BY DEF IInv
<1>1. ASSUME UNCHANGED <<frame, taken, functions, call>>, ~scheduler => ~scheduler'
      PROVE  Quiet'
  BY <1>0, <1>1 DEF Quiet
<1>2. ASSUME Send \/ Notify \/ SendImmediate PROVE Quiet'
  <2>1. /\ UNCHANGED <<frame, taken>> /\ call' \in {"none", "notify"}
    BY <1>2 DEF Send, Notify, SendImmediate, CanCall, cocos, perform
  <2>2. QED
    BY <1>0, <2>1 DEF Quiet
<1>3. ASSUME TakeFunctions \/ RunFunction \/ PutBack PROVE Quiet'
  <2>1. /\ call = "none" /\ UNCHANGED call
        /\ frame' = "idle" => taken' = <<>>
    BY <1>3 DEF TakeFunctions, RunFunction, PutBack, cocos
  <2>2. QED
    BY <1>0, <2>1 DEF Quiet
<1>4. ASSUME DestroyInstance PROVE Quiet'
  BY <1>0, <1>4 DEF DestroyInstance, Quiet, perform
<1>5. ASSUME PushSentinel \/ NotifyQuit \/ Leave PROVE Quiet'
  <2>1. /\ UNCHANGED <<frame, taken, scheduler>> /\ call \in {"sentinel", "wake", "leave"}
        /\ call' \in {"wake", "leave", "remove"}
    BY <1>5 DEF PushSentinel, NotifyQuit, Leave, client, perform
  <2>2. QED
    BY <1>0, <2>1 DEF Quiet
<1>6. ASSUME RemoveAllFunctions PROVE Quiet'
  BY <1>0, <1>6 DEF RemoveAllFunctions, Quiet, client
<1>7. ASSUME NetStart \/ NetSleep \/ NetTake \/ NetRespond \/ NetClear \/ NetLeave PROVE Quiet'
  <2>1. UNCHANGED <<frame, taken, functions, call, scheduler>>
    BY <1>7 DEF NetStart, NetSleep, NetTake, NetRespond, NetClear, NetLeave, client, cocos,
       perform
  <2>2. QED
    BY <1>1, <2>1
<1>8. ASSUME NEW f, Post(f), UNCHANGED <<call, frame, scheduler>> PROVE Quiet'
  BY <1>0, <1>8 DEF Post, Quiet, perform
<1>9. ASSUME NetPost \/ \E r \in Requests : AlonePost(r) PROVE Quiet'
  BY <1>8, <1>9 DEF NetPost, AlonePost, client, cocos
<1>10. ASSUME NEW r \in Requests, AloneStart(r) \/ AloneLeave(r) PROVE Quiet'
  BY <1>1, <1>10 DEF AloneStart, AloneLeave, client, cocos, perform
<1>11. CASE UNCHANGED vars
  BY <1>1, <1>11 DEF vars, client, cocos, perform
<1>12. QED
  BY <1>2, <1>3, <1>4, <1>5, <1>6, <1>7, <1>9, <1>10, <1>11
     DEF Next, Frame, Destroying, Network, Alone

-----------------------------------------------------------------------------
LEMMA IInvInit == Init => IInv
<1> SUFFICES ASSUME Init PROVE IInv
  OBVIOUS
<1>1. TypeOK
  <2>1. threadCount \in 0..MaxRequests + 2 /\ Len(kind) <= MaxRequests
    BY HttpAssumption DEF Init
  <2>2. /\ requestQueue \in Queue /\ functions \in Functions /\ taken \in Functions
        /\ responseQueue \in Seq(Requests) /\ kind \in Seq({"queue", "alone"})
    BY DEF Init, Queue, Functions
  <2>3. /\ scheduler \in BOOLEAN /\ deleted \in BOOLEAN
        /\ net = "none" /\ current = None /\ call = "none" /\ frame = "idle"
        /\ alone = [r \in Requests |-> "none"]
    BY DEF Init
  <2>4. QED
    BY <2>1, <2>2, <2>3 DEF TypeOK, sent, Queue, Functions
<1>2. AloneCounted = {}
  BY DEF Init, AloneCounted
<1>3. Counted
  BY <1>2, FS_EmptySet DEF Init, Counted, One, CocosCounted, NetCounted
<1>4. Working /\ Quiet
  BY DEF Init, Working, Quiet
<1>5. QED
  BY <1>1, <1>3, <1>4 DEF IInv

(* The invariant holds in every reachable state.                           *)
THEOREM IInvCorrect == Spec => []IInv
<1>1. IInv /\ [Next]_vars => IInv'
  BY TypeStep, CountStep, WorkingStep, QuietStep DEF IInv
<1>2. QED
  BY <1>1, IInvInit, PTL DEF Spec

(* The client is deleted once and by the last of the cocos thread, the     *)
(* network thread and the tasks of the pool to leave it.                   *)
THEOREM ClientLifeCorrect == Spec => []ClientLife
<1>1. IInv => ClientLife
  <2> SUFFICES ASSUME IInv PROVE ClientLife
    OBVIOUS
  <2>1. deleted => /\ ~CocosCounted /\ ~NetCounted
                   /\ Cardinality(AloneCounted) = 0
    BY AloneFinite DEF IInv, Counted, One
  <2>2. Cardinality(AloneCounted) = 0 => AloneCounted = {}
    BY AloneFinite, FS_EmptySet
  <2>3. QED
    BY <2>1, <2>2 DEF IInv, ClientLife, LastOneDeletes, CocosCounted
<1>2. QED
  BY <1>1, IInvCorrect, PTL

(* Nothing posted for the client is left to run when the engine is gone.   *)
THEOREM NoStrayFunctionCorrect == Spec => []NoStrayFunction
<1>1. IInv => NoStrayFunction
  <2> SUFFICES ASSUME IInv PROVE NoStrayFunction
    OBVIOUS
  <2>1. deleted => ~CocosCounted
    BY AloneFinite DEF IInv, Counted, One
  <2>2. deleted => frame = "idle"
    BY <2>1 DEF IInv, Quiet, CocosCounted
  <2>3. call = "gone" => functions = <<>> /\ taken = <<>>
    BY DEF IInv, Quiet
  <2>4. QED
    BY <2>2, <2>3 DEF NoStrayFunction
<1>2. QED
  BY <1>1, IInvCorrect, PTL

-----------------------------------------------------------------------------
(* The order of the answers.                                               *)

Answered == {ran[i] : i \in 1..Len(ran)} \ {None}
Queued(r) == r \in 1..sent /\ kind[r] = "queue"
Posted(r) == r \in 1..sent /\ kind[r] = "alone" /\ alone[r] \in {"leave", "ended"}

(* What was posted has run or is pending.                                  *)
PostedInv ==
  /\ posted \in Seq(Requests \cup {None, Dispatch}) /\ ran \in Seq(Requests \cup {None})
  /\ Len(posted) = Len(ran) + Len(pending)
  /\ \A i \in 1..Len(pending) : posted[Len(ran) + i] = pending[i]
  /\ \A i \in 1..Len(ran) : posted[i] # Dispatch => ran[i] = posted[i]

(* An immediate request is pending once, and not answered before.          *)
PendingInv ==
  /\ \A i \in 1..Len(pending) :
       pending[i] # Dispatch => Posted(pending[i]) /\ pending[i] \notin Answered
  /\ \A i, j \in 1..Len(pending) :
       pending[i] = pending[j] /\ pending[i] # Dispatch => i = j
  /\ \A a \in Answered : Queued(a) \/ Posted(a)
  /\ \A r \in Requests : alone[r] # "none" => r <= sent /\ kind[r] = "alone"

(* A request that was queued is answered, has its response queued, is being*)
(* processed or is queued, in that order.                                  *)
Increasing(s) == \A i, j \in 1..Len(s) : i < j => s[i] < s[j]
Precede(A, B) == \A a \in A, b \in B : a < b
Responses == ToSet(responseQueue)
Processed == {current} \ {None}
Requested == ToSet(requestQueue)

LineInv ==
  /\ Increasing(responseQueue) /\ Increasing(requestQueue)
  /\ \A r \in Responses \cup Processed \cup (Requested \ {Sentinel}) : Queued(r)
  /\ Precede(Responses, Processed \cup Requested) /\ Precede(Processed, Requested)
  /\ \A a \in Answered : Queued(a) => Precede({a}, Responses \cup Processed \cup Requested)

Cleared == net \in {"leave", "ended"}

EndInv ==
  /\ net # "process" => current = None
  /\ Cleared => responseQueue = <<>>
  /\ ~Cleared =>
       \A r \in 1..sent : Queued(r) =>
         r \in Answered \cup Responses \cup Processed \cup Requested
  /\ net = "clear" \/ Sentinel \in Requested => call \in {"wake", "leave", "remove", "gone"}

OrderInv ==
  PostedInv /\ PendingInv /\ LineInv /\ EndInv /\ AnsweredInOrder /\ DispatchPerResponse

-----------------------------------------------------------------------------
(* The pending functions.                                                  *)

LEMMA PendingType ==
  ASSUME TypeOK
  PROVE  pending \in Functions /\ taken \in Functions /\ functions \in Functions
BY ConcatProperties DEF TypeOK, pending, Functions

LEMMA TailElements ==
  ASSUME NEW S, NEW s \in Seq(S), s # <<>>
  PROVE  /\ s[1] = Head(s) /\ s[1] \in S /\ 1 \in 1..Len(s)
         /\ Tail(s) \in Seq(S) /\ Len(Tail(s)) = Len(s) - 1
         /\ \A i \in 1..Len(s) - 1 : Tail(s)[i] = s[i + 1]
<1>1. Len(s) \in Nat /\ Len(s) # 0
  BY EmptySeq
<1>2. Head(s) \in S /\ Tail(s) \in Seq(S) /\ Len(Tail(s)) = Len(s) - 1
      /\ \A i \in 1..Len(Tail(s)) : Tail(s)[i] = s[i + 1]
  BY HeadTailProperties
<1>3. s[1] = Head(s)
  OBVIOUS
<1>4. QED
  BY <1>1, <1>2, <1>3

LEMMA RunPending ==
  ASSUME TypeOK, RunFunction
  PROVE  /\ pending # <<>> /\ Head(taken) = pending[1]
         /\ pending' = Tail(pending)
<1>1. PICK a, b : a = taken /\ b = functions
  OBVIOUS
<1>2. /\ a \in Functions /\ b \in Functions /\ a # <<>>
      /\ taken' = Tail(a) /\ functions' = b
  BY <1>1, PendingType DEF RunFunction
<1>3. /\ Tail(a) \in Functions /\ Len(Tail(a)) = Len(a) - 1 /\ Len(a) \in Nat
      /\ a[1] = Head(a) /\ Len(a) >= 1
      /\ \A i \in 1..Len(a) - 1 : Tail(a)[i] = a[i + 1]
  BY <1>2, TailElements DEF Functions
<1>4. PICK p : p = a \o b
  OBVIOUS
<1>5. /\ p \in Functions /\ Len(p) = Len(a) + Len(b) /\ Len(b) \in Nat
      /\ \A i \in 1..Len(a) + Len(b) : p[i] = IF i <= Len(a) THEN a[i] ELSE b[i - Len(a)]
  BY <1>2, <1>4, ConcatProperties DEF Functions
<1>6. p # <<>> /\ p[1] = Head(a)
  BY <1>3, <1>5
<1>7. /\ Tail(p) \in Functions /\ Len(Tail(p)) = Len(p) - 1
      /\ \A i \in 1..Len(p) - 1 : Tail(p)[i] = p[i + 1]
  BY <1>5, <1>6, TailElements DEF Functions
<1>8. PICK c : c = Tail(a)
  OBVIOUS
<1>9. PICK q : q = c \o b
  OBVIOUS
<1>10. /\ q \in Functions /\ Len(q) = Len(c) + Len(b)
       /\ \A i \in 1..Len(c) + Len(b) : q[i] = IF i <= Len(c) THEN c[i] ELSE b[i - Len(c)]
  <2>1. PICK S : S = Requests \cup {Dispatch}
    OBVIOUS
  <2>2. c \in Seq(S) /\ b \in Seq(S) /\ Functions = Seq(S)
    BY <1>2, <1>3, <1>8, <2>1 DEF Functions
  <2>3. /\ c \o b \in Seq(S) /\ Len(c \o b) = Len(c) + Len(b)
        /\ \A i \in 1..Len(c) + Len(b) :
             (c \o b)[i] = IF i <= Len(c) THEN c[i] ELSE b[i - Len(c)]
    BY <2>2, ConcatProperties
  <2>4. QED
    BY <1>9, <2>2, <2>3, Zenon
<1>11. Len(q) = Len(Tail(p))
  <2>1. Len(q) = Len(c) + Len(b) /\ Len(c) = Len(a) - 1
    BY <1>3, <1>8, <1>10
  <2>2. Len(Tail(p)) = (Len(a) + Len(b)) - 1
    BY <1>5, <1>7
  <2>3. Len(a) \in Nat /\ Len(b) \in Nat
    BY <1>3, <1>5
  <2>4. QED
    BY <2>1, <2>2, <2>3
<1>12. ASSUME NEW i \in 1..Len(q) PROVE q[i] = Tail(p)[i]
  <2>1. i \in 1..Len(p) - 1 /\ i + 1 \in 1..Len(a) + Len(b) /\ i \in 1..Len(c) + Len(b)
    BY <1>3, <1>5, <1>8, <1>10
  <2>2. CASE i <= Len(c)
    <3>1. i \in 1..Len(a) - 1 /\ i + 1 <= Len(a)
      BY <1>3, <1>8, <2>1, <2>2
    <3>2. q[i] = c[i] /\ c[i] = a[i + 1] /\ p[i + 1] = a[i + 1]
      BY <1>3, <1>5, <1>8, <1>10, <2>1, <2>2, <3>1
    <3>3. QED
      BY <1>7, <2>1, <3>2
  <2>3. CASE ~(i <= Len(c))
    <3>1. ~(i + 1 <= Len(a)) /\ i - Len(c) = (i + 1) - Len(a)
      <4>1. Len(c) = Len(a) - 1
        BY <1>3, <1>8
      <4>2. QED
        BY <1>3, <2>3, <4>1
    <3>2. q[i] = b[i - Len(c)] /\ p[i + 1] = b[(i + 1) - Len(a)]
      BY <1>5, <1>10, <2>1, <2>3, <3>1
    <3>3. QED
      BY <1>7, <2>1, <3>1, <3>2
  <2>4. QED
    BY <2>2, <2>3
<1>13. q = Tail(p)
  <2>1. \A i \in 1..Len(q) : q[i] = Tail(p)[i]
    BY <1>12
  <2>2. QED
    BY <1>7, <1>10, <1>11, <2>1, SeqEqual DEF Functions
<1>14. pending = p /\ pending' = q
  BY <1>1, <1>2, <1>4, <1>8, <1>9 DEF pending
<1>15. QED
  BY <1>1, <1>6, <1>13, <1>14

LEMMA PostPending ==
  ASSUME TypeOK, NEW f \in Requests \cup {Dispatch}, Post(f)
  PROVE  /\ UNCHANGED ran
         /\ IF scheduler THEN pending' = Append(pending, f) /\ posted' = Append(posted, f)
                         ELSE UNCHANGED <<pending, posted>>
<1>1. PICK a, b : a = taken /\ b = functions
  OBVIOUS
<1>2. a \in Functions /\ b \in Functions /\ <<f>> \in Functions /\ a \o b \in Functions
  BY <1>1, PendingType DEF Functions, pending
<1>3. CASE ~scheduler
  BY <1>3 DEF Post, perform, pending
<1>4. CASE scheduler
  <2>1. /\ functions' = Append(b, f) /\ taken' = a /\ UNCHANGED ran
        /\ posted' = Append(posted, f)
    BY <1>1, <1>4 DEF Post
  <2>2. Append(b, f) = b \o <<f>> /\ Append(a \o b, f) = (a \o b) \o <<f>>
    BY <1>2, AppendIsConcat DEF Functions
  <2>3. (a \o b) \o <<f>> = a \o (b \o <<f>>)
    BY <1>2, ConcatAssociative DEF Functions
  <2>4. pending' = Append(pending, f)
    BY <1>1, <2>1, <2>2, <2>3 DEF pending
  <2>5. QED
    BY <1>4, <2>1, <2>4
<1>5. QED
  BY <1>3, <1>4

(* A frame takes the functions and puts back the rest: they keep their     *)
(* order.                                                                  *)
LEMMA FramePending ==
  ASSUME TypeOK, Quiet, TakeFunctions \/ PutBack \/ UNCHANGED <<functions, taken>>
  PROVE  pending' = pending
<1>1. PICK a, b : a = taken /\ b = functions
  OBVIOUS
<1>2. a \in Functions /\ b \in Functions /\ a \o b \in Functions
  BY <1>1, PendingType DEF pending
<1>3. /\ b \o <<>> = b /\ <<>> \o b = b /\ <<>> \o (a \o b) = a \o b
  BY <1>2, ConcatEmptySeq DEF Functions
<1>4. CASE TakeFunctions
  <2>1. a = <<>> /\ taken' = b /\ functions' = <<>>
    BY <1>1, <1>4 DEF TakeFunctions, Quiet
  <2>2. QED
    BY <1>1, <1>3, <2>1 DEF pending
<1>5. CASE PutBack
  BY <1>1, <1>3, <1>5 DEF PutBack, pending
<1>6. CASE UNCHANGED <<functions, taken>>
  BY <1>6 DEF pending
<1>7. QED
  BY <1>4, <1>5, <1>6

LEMMA RemovePending ==
  ASSUME TypeOK, Quiet, RemoveAllFunctions
  PROVE  pending' = <<>> /\ posted' = ran /\ UNCHANGED ran
<1>1. taken = <<>> /\ taken' = <<>> /\ functions' = <<>>
  BY DEF RemoveAllFunctions, Quiet
<1>2. <<>> \o <<>> = <<>>
  BY ConcatEmptySeq
<1>3. QED
  BY <1>1, <1>2 DEF RemoveAllFunctions, pending

-----------------------------------------------------------------------------
(* Posted functions run in order.                                          *)

LEMMA PostedStep ==
  ASSUME IInv, PostedInv, [Next]_vars
  PROVE  PostedInv'
<1>1. TypeOK /\ Quiet /\ Working
  BY DEF IInv
<1>2. /\ posted \in Seq(Requests \cup {None, Dispatch}) /\ ran \in Seq(Requests \cup {None})
      /\ pending \in Functions /\ Len(posted) = Len(ran) + Len(pending)
      /\ Len(ran) \in Nat /\ Len(pending) \in Nat
  BY <1>1, PendingType DEF PostedInv, Functions
<1>3. ASSUME UNCHANGED <<pending, posted, ran>> PROVE PostedInv'
  BY <1>3 DEF PostedInv
<1>4. ASSUME TakeFunctions \/ PutBack PROVE PostedInv'
  <2>1. pending' = pending /\ UNCHANGED <<posted, ran>>
    BY <1>1, <1>4, FramePending DEF TakeFunctions, PutBack
  <2>2. QED
    BY <1>3, <2>1
<1>5. ASSUME NEW f \in Requests \cup {Dispatch}, Post(f) PROVE PostedInv'
  <2>1. CASE ~scheduler
    BY <1>1, <1>3, <1>5, <2>1, PostPending
  <2>2. CASE scheduler
    <3>1. PICK p, s, n : p = pending /\ s = posted /\ n = Len(ran)
      OBVIOUS
    <3>2. pending' = Append(p, f) /\ posted' = Append(s, f) /\ ran' = ran
      BY <1>1, <1>5, <2>2, <3>1, PostPending
    <3>3. PICK q, t : q = Append(p, f) /\ t = Append(s, f)
      OBVIOUS
    <3>4. /\ Len(q) = Len(p) + 1 /\ \A i \in 1..Len(p) : q[i] = p[i]
          /\ q[Len(p) + 1] = f
      BY <1>2, <1>5, <3>1, <3>3, AppendProperties DEF Functions
    <3>5. /\ t \in Seq(Requests \cup {None, Dispatch})
          /\ Len(t) = Len(s) + 1 /\ \A i \in 1..Len(s) : t[i] = s[i]
          /\ t[Len(s) + 1] = f
      BY <1>2, <1>5, <3>1, <3>3, AppendProperties
    <3>6. Len(s) = n + Len(p) /\ n \in Nat /\ Len(p) \in Nat
      BY <1>2, <3>1
    <3>7. Len(t) = n + Len(q)
      BY <3>4, <3>5, <3>6
    <3>8. ASSUME NEW i \in 1..Len(q) PROVE t[n + i] = q[i]
      <4>1. CASE i = Len(p) + 1
        <5>1. n + i = Len(s) + 1
          BY <3>6, <4>1
        <5>2. QED
          BY <3>4, <3>5, <4>1, <5>1
      <4>2. CASE i # Len(p) + 1
        <5>1. i \in 1..Len(p) /\ n + i \in 1..Len(s)
          BY <3>4, <3>6, <4>2
        <5>2. s[n + i] = p[i]
          BY <3>1, <5>1 DEF PostedInv
        <5>3. QED
          BY <3>4, <3>5, <5>1, <5>2
      <4>3. QED
        BY <4>1, <4>2
    <3>9. ASSUME NEW i \in 1..n, t[i] # Dispatch PROVE ran[i] = t[i]
      <4>1. i \in 1..Len(s) /\ t[i] = s[i]
        BY <3>5, <3>6
      <4>2. QED
        BY <3>1, <3>9, <4>1 DEF PostedInv
    <3>10. QED
      BY <1>2, <3>1, <3>2, <3>3, <3>5, <3>7, <3>8, <3>9 DEF PostedInv
  <2>3. QED
    BY <2>1, <2>2
<1>6. ASSUME RunFunction PROVE PostedInv'
  <2>1. PICK p, s, o, n : p = pending /\ s = posted /\ o = ran /\ n = Len(ran)
    OBVIOUS
  <2>2. /\ p # <<>> /\ Head(taken) = p[1] /\ pending' = Tail(p) /\ posted' = s
    BY <1>1, <1>6, <2>1, RunPending DEF RunFunction
  <2>3. /\ p[1] \in Requests \cup {Dispatch} /\ 1 \in 1..Len(p)
        /\ Len(Tail(p)) = Len(p) - 1 /\ \A i \in 1..Len(p) - 1 : Tail(p)[i] = p[i + 1]
    BY <1>2, <2>1, <2>2, TailElements DEF Functions
  <2>4. PICK x \in Requests \cup {None} : ran' = Append(o, x) /\ (p[1] # Dispatch => x = p[1])
    <3>1. CASE p[1] # Dispatch
      BY <1>6, <2>1, <2>2, <2>3, <3>1 DEF RunFunction
    <3>2. CASE p[1] = Dispatch /\ responseQueue = <<>>
      BY <1>6, <2>1, <2>2, <3>2 DEF RunFunction
    <3>3. CASE p[1] = Dispatch /\ responseQueue # <<>>
      <4>1. Head(responseQueue) \in Requests
        BY <1>1, <3>3, HeadTailProperties DEF TypeOK
      <4>2. QED
        BY <1>6, <2>1, <2>2, <3>3, <4>1 DEF RunFunction
    <3>4. QED
      BY <3>1, <3>2, <3>3
  <2>5. PICK u : u = Append(o, x)
    OBVIOUS
  <2>6. /\ u \in Seq(Requests \cup {None})
        /\ Len(u) = n + 1 /\ (\A i \in 1..n : u[i] = o[i]) /\ u[n + 1] = x
    BY <1>2, <2>1, <2>4, <2>5, AppendProperties
  <2>7. PICK q : q = Tail(p)
    OBVIOUS
  <2>8. Len(q) = Len(p) - 1 /\ Len(s) = n + Len(p) /\ n \in Nat /\ Len(p) \in Nat
    BY <1>2, <2>1, <2>3, <2>7
  <2>9. \A i \in 1..Len(p) : s[n + i] = p[i]
    BY <2>1 DEF PostedInv
  <2>10. Len(s) = Len(u) + Len(q)
    BY <2>6, <2>8
  <2>11. ASSUME NEW i \in 1..Len(q) PROVE s[Len(u) + i] = q[i]
    <3>1. i + 1 \in 1..Len(p) /\ i \in 1..Len(p) - 1 /\ Len(u) + i = n + (i + 1)
      BY <2>6, <2>8
    <3>2. s[n + (i + 1)] = p[i + 1]
      BY <2>9, <3>1
    <3>3. QED
      BY <2>3, <2>7, <3>1, <3>2
  <2>12. ASSUME NEW i \in 1..Len(u), s[i] # Dispatch PROVE u[i] = s[i]
    <3>1. CASE i \in 1..n
      BY <2>1, <2>6, <2>12, <3>1 DEF PostedInv
    <3>2. CASE i = n + 1
      BY <2>3, <2>4, <2>6, <2>9, <2>12, <3>2
    <3>3. QED
      BY <2>6, <2>8, <3>1, <3>2
  <2>13. QED
    BY <1>2, <2>1, <2>2, <2>4, <2>5, <2>6, <2>7, <2>10, <2>11, <2>12 DEF PostedInv
<1>7. ASSUME RemoveAllFunctions PROVE PostedInv'
  <2>1. pending' = <<>> /\ posted' = ran /\ ran' = ran
    BY <1>1, <1>7, RemovePending
  <2>2. ran \in Seq(Requests \cup {None, Dispatch})
    BY <1>2
  <2>3. Len(<<>>) = 0 /\ \A i \in 1..0 : FALSE
    BY EmptySeq
  <2>4. QED
    BY <1>2, <2>1, <2>2, <2>3 DEF PostedInv
<1>8. ASSUME UNCHANGED perform PROVE PostedInv'
  <2>1. pending' = pending /\ UNCHANGED <<posted, ran>>
    BY <1>8 DEF perform, pending
  <2>2. QED
    BY <1>3, <2>1
<1>9. CASE Send \/ SendImmediate \/ DestroyInstance \/ Notify
  BY <1>8, <1>9 DEF Send, SendImmediate, DestroyInstance, Notify
<1>10. CASE PushSentinel \/ NotifyQuit \/ Leave
  BY <1>8, <1>10 DEF PushSentinel, NotifyQuit, Leave
<1>11. CASE Network
  <2>1. ASSUME NetPost PROVE PostedInv'
    BY <1>5, <2>1 DEF NetPost
  <2>2. ASSUME NetStart \/ NetSleep \/ NetTake \/ NetRespond \/ NetClear \/ NetLeave
        PROVE  PostedInv'
    BY <1>8, <2>2 DEF NetStart, NetSleep, NetTake, NetRespond, NetClear, NetLeave
  <2>3. QED
    BY <1>11, <2>1, <2>2 DEF Network
<1>12. ASSUME NEW r \in Requests, Alone(r) PROVE PostedInv'
  <2>1. ASSUME AlonePost(r) PROVE PostedInv'
    BY <1>5, <2>1 DEF AlonePost
  <2>2. ASSUME AloneStart(r) \/ AloneLeave(r) PROVE PostedInv'
    BY <1>8, <2>2 DEF AloneStart, AloneLeave
  <2>3. QED
    BY <1>12, <2>1, <2>2 DEF Alone
<1>13. CASE UNCHANGED vars
  BY <1>8, <1>13 DEF vars
<1>14. QED
  BY <1>4, <1>6, <1>7, <1>9, <1>10, <1>11, <1>12, <1>13 DEF Next, Frame, Destroying

-----------------------------------------------------------------------------
(* What was sent stays of its kind, and what was posted stays posted.      *)

LEMMA KindStep ==
  ASSUME IInv, [Next]_vars, \A r \in Requests : alone[r] # "none" => r <= sent
  PROVE  /\ sent \in Nat /\ sent <= MaxRequests /\ sent' \in sent..sent + 1
         /\ \A r \in 1..sent : kind'[r] = kind[r]
         /\ \A r : Queued(r) => Queued(r)'
         /\ \A r : Posted(r) => Posted(r)'
<1>1. TypeOK /\ MaxRequests \in Nat
  BY HttpAssumption DEF IInv
<1>2. kind \in Seq({"queue", "alone"}) /\ sent \in Nat /\ sent <= MaxRequests
        /\ alone \in [Requests -> {"none", "pushed", "process", "leave", "ended", "undefined"}]
  BY <1>1 DEF TypeOK, sent
<1>3. UNCHANGED kind \/ (\E k \in {"queue", "alone"} : kind' = Append(kind, k))
  <2>1. CASE Send \/ SendImmediate
    BY <2>1 DEF Send, SendImmediate
  <2>2. CASE RunFunction \/ DestroyInstance \/ Frame
    BY <2>2 DEF RunFunction, DestroyInstance, Frame, Notify, TakeFunctions, PutBack
  <2>3. CASE Destroying
    BY <2>3 DEF Destroying, PushSentinel, NotifyQuit, Leave, RemoveAllFunctions
  <2>4. CASE Network
    BY <2>4 DEF Network, NetStart, NetSleep, NetTake, NetRespond, NetPost, NetClear, NetLeave
  <2>5. ASSUME NEW r \in Requests, Alone(r) PROVE UNCHANGED kind
    BY <2>5 DEF Alone, AloneStart, AlonePost, AloneLeave
  <2>6. CASE UNCHANGED vars
    BY <2>6 DEF vars
  <2>7. QED
    BY <2>1, <2>2, <2>3, <2>4, <2>5, <2>6 DEF Next
<1>4. /\ sent' \in sent..sent + 1 /\ \A r \in 1..sent : kind'[r] = kind[r]
  <2>1. CASE UNCHANGED kind
    BY <1>2, <2>1 DEF sent
  <2>2. ASSUME NEW k \in {"queue", "alone"}, kind' = Append(kind, k)
        PROVE  sent' \in sent..sent + 1 /\ \A r \in 1..sent : kind'[r] = kind[r]
    <3>1. PICK s, t : s = kind /\ t = Append(s, k)
      OBVIOUS
    <3>2. Len(t) = Len(s) + 1 /\ \A r \in 1..Len(s) : t[r] = s[r]
      BY <1>2, <3>1, AppendProperties
    <3>3. kind' = t /\ sent = Len(s) /\ sent' = Len(t)
      BY <2>2, <3>1 DEF sent
    <3>4. QED
      BY <1>2, <3>1, <3>2, <3>3
  <2>3. QED
    BY <1>3, <2>1, <2>2
<1>5. ASSUME NEW r \in 1..sent
      PROVE  alone[r] \in {"leave", "ended"} => alone'[r] \in {"leave", "ended"}
  <2>1. r \in Requests
    BY <1>1, <1>2 DEF Requests
  <2>2. ASSUME NEW q \in Requests, NEW a, alone' = [alone EXCEPT ![q] = a],
               q = r /\ alone[r] \in {"leave", "ended"} => a \in {"leave", "ended"}
        PROVE  alone[r] \in {"leave", "ended"} => alone'[r] \in {"leave", "ended"}
    BY <1>2, <2>1, <2>2
  <2>3. CASE SendImmediate
    <3>1. PICK q : q = sent + 1
      OBVIOUS
    <3>2. alone' = [alone EXCEPT ![q] = "pushed"] /\ q \in Requests /\ q # r
      BY <1>1, <1>2, <2>3, <3>1 DEF SendImmediate, CanCall, Requests
    <3>3. QED
      BY <2>2, <3>2
  <2>4. ASSUME NEW q \in Requests, Alone(q)
        PROVE  alone[r] \in {"leave", "ended"} => alone'[r] \in {"leave", "ended"}
    <3>1. CASE AloneStart(q)
      BY <2>2, <3>1 DEF AloneStart
    <3>2. CASE AlonePost(q)
      BY <2>2, <3>2 DEF AlonePost
    <3>3. CASE AloneLeave(q)
      BY <2>2, <3>3 DEF AloneLeave
    <3>4. QED
      BY <2>4, <3>1, <3>2, <3>3 DEF Alone
  <2>5. CASE Send \/ RunFunction \/ DestroyInstance \/ Frame
    BY <2>5 DEF Send, RunFunction, DestroyInstance, Frame, Notify, TakeFunctions, PutBack
  <2>6. CASE Destroying
    BY <2>6 DEF Destroying, PushSentinel, NotifyQuit, Leave, RemoveAllFunctions
  <2>7. CASE Network
    BY <2>7 DEF Network, NetStart, NetSleep, NetTake, NetRespond, NetPost, NetClear, NetLeave
  <2>8. CASE UNCHANGED vars
    BY <2>8 DEF vars
  <2>9. QED
    BY <2>3, <2>4, <2>5, <2>6, <2>7, <2>8 DEF Next
<1>6. 1..sent \subseteq 1..sent'
  BY <1>2, <1>4
<1>7. QED
  BY <1>2, <1>4, <1>5, <1>6 DEF Queued, Posted

LEMMA AnsweredStep ==
  ASSUME PostedInv, NEW x \in Requests \cup {None}, ran' = Append(ran, x)
  PROVE  Answered' = Answered \cup ({x} \ {None})
<1>1. PICK o, u : o = ran /\ u = Append(o, x)
  OBVIOUS
<1>2. o \in Seq(Requests \cup {None}) /\ Len(o) \in Nat
  BY <1>1 DEF PostedInv
<1>3. Len(u) = Len(o) + 1 /\ (\A i \in 1..Len(o) : u[i] = o[i]) /\ u[Len(o) + 1] = x
  BY <1>1, <1>2, AppendProperties
<1>4. 1..Len(u) = 1..Len(o) \cup {Len(o) + 1}
  BY <1>2, <1>3
<1>5. {u[i] : i \in 1..Len(u)} = {o[i] : i \in 1..Len(o)} \cup {x}
  BY <1>3, <1>4
<1>6. QED
  BY <1>1, <1>5 DEF Answered

LEMMA AloneKinds ==
  ASSUME IInv, PendingInv, [Next]_vars, NEW r \in Requests, alone'[r] # "none"
  PROVE  r <= sent' /\ kind'[r] = "alone"
<1>1. TypeOK
  BY DEF IInv
<1>2. /\ sent \in Nat /\ sent <= MaxRequests /\ sent' \in sent..sent + 1
      /\ \A q \in 1..sent : kind'[q] = kind[q]
      /\ \A q \in Requests : alone[q] # "none" => q <= sent /\ kind[q] = "alone"
      /\ r \in Nat /\ r >= 1
  BY KindStep, HttpAssumption DEF PendingInv, Requests
<1>3. ASSUME alone[r] # "none" PROVE r <= sent' /\ kind'[r] = "alone"
  BY <1>2, <1>3
<1>4. CASE SendImmediate
  <2>1. PICK s, n : s = kind /\ n = sent
    OBVIOUS
  <2>2. s \in Seq({"queue", "alone"}) /\ n = Len(s) /\ n \in Nat
    BY <1>1, <1>2, <2>1 DEF TypeOK, sent
  <2>3. kind' = Append(s, "alone") /\ alone' = [alone EXCEPT ![n + 1] = "pushed"]
    BY <1>4, <2>1 DEF SendImmediate
  <2>4. PICK t : t = Append(s, "alone")
    OBVIOUS
  <2>5. t[n + 1] = "alone" /\ Len(t) = n + 1
    BY <2>2, <2>4, AppendProperties
  <2>6. CASE r = n + 1
    BY <2>3, <2>4, <2>5, <2>6 DEF sent
  <2>7. CASE r # n + 1
    BY <1>1, <1>3, <2>3, <2>7 DEF TypeOK
  <2>8. QED
    BY <2>6, <2>7
<1>5. ASSUME NEW q \in Requests, Alone(q) PROVE alone[r] # "none"
  BY <1>1, <1>5 DEF Alone, AloneStart, AlonePost, AloneLeave, TypeOK
<1>6. CASE Send \/ RunFunction \/ DestroyInstance \/ Frame
  BY <1>3, <1>6 DEF Send, RunFunction, DestroyInstance, Frame, Notify, TakeFunctions, PutBack
<1>7. CASE Destroying
  BY <1>3, <1>7 DEF Destroying, PushSentinel, NotifyQuit, Leave, RemoveAllFunctions
<1>8. CASE Network
  BY <1>3, <1>8 DEF Network, NetStart, NetSleep, NetTake, NetRespond, NetPost, NetClear, NetLeave
<1>9. CASE UNCHANGED vars
  BY <1>3, <1>9 DEF vars
<1>10. QED
  BY <1>3, <1>4, <1>5, <1>6, <1>7, <1>8, <1>9 DEF Next

-----------------------------------------------------------------------------
(* Queues as sets.                                                         *)

LEMMA Elements ==
  ASSUME NEW S, NEW s \in Seq(S)
  PROVE  /\ ToSet(s) \subseteq S
         /\ \A x : x \in ToSet(s) <=> \E i \in 1..Len(s) : s[i] = x
<1>1. DOMAIN s = 1..Len(s) /\ \A i \in 1..Len(s) : s[i] \in S
  BY LenProperties, ElementOfSeq
<1>2. \A x : x \in ToSet(s) <=> \E i \in 1..Len(s) : s[i] = x
  BY <1>1 DEF ToSet
<1>3. QED
  BY <1>1, <1>2

LEMMA AppendSet ==
  ASSUME NEW S, NEW s \in Seq(S), NEW x \in S
  PROVE  ToSet(Append(s, x)) = ToSet(s) \cup {x}
<1>1. PICK t, n : t = Append(s, x) /\ n = Len(s)
  OBVIOUS
<1>2. /\ t \in Seq(S) /\ Len(t) = n + 1 /\ t[n + 1] = x /\ n \in Nat
      /\ \A i \in 1..n : t[i] = s[i]
  BY <1>1, AppendProperties, LenProperties
<1>3. 1..n + 1 = 1..n \cup {n + 1}
  BY <1>2
<1>4. \A y : y \in ToSet(t) <=> \E i \in 1..n + 1 : t[i] = y
  BY <1>2, Elements
<1>5. \A y : y \in ToSet(s) <=> \E i \in 1..n : s[i] = y
  BY <1>1, Elements
<1>6. \A y : y \in ToSet(t) <=> y \in ToSet(s) \/ y = x
  BY <1>2, <1>3, <1>4, <1>5
<1>7. ToSet(t) = ToSet(s) \cup {x}
  BY <1>6
<1>8. QED
  BY <1>1, <1>7

LEMMA AppendLine ==
  ASSUME NEW S \in SUBSET Nat, NEW s \in Seq(S), NEW x \in S,
         Increasing(s), \A a \in ToSet(s) : a < x
  PROVE  Increasing(Append(s, x)) /\ ToSet(Append(s, x)) = ToSet(s) \cup {x}
<1>1. PICK t, n : t = Append(s, x) /\ n = Len(s)
  OBVIOUS
<1>2. /\ t \in Seq(S) /\ Len(t) = n + 1 /\ t[n + 1] = x /\ n \in Nat
      /\ \A i \in 1..n : t[i] = s[i]
  BY <1>1, AppendProperties, LenProperties
<1>3. \A i \in 1..n : s[i] < x
  BY <1>1, Elements
<1>4. ASSUME NEW i \in 1..n + 1, NEW j \in 1..n + 1, i < j PROVE t[i] < t[j]
  <2>1. i \in 1..n
    BY <1>2, <1>4
  <2>2. CASE j = n + 1
    BY <1>2, <1>3, <2>1, <2>2
  <2>3. CASE j # n + 1
    <3>1. j \in 1..n
      BY <1>2, <2>3
    <3>2. s[i] < s[j]
      BY <1>1, <1>4, <2>1, <3>1 DEF Increasing
    <3>3. QED
      BY <1>2, <2>1, <3>1, <3>2
  <2>4. QED
    BY <2>2, <2>3
<1>5. Increasing(t)
  BY <1>2, <1>4 DEF Increasing
<1>6. QED
  BY <1>1, <1>5, AppendSet

LEMMA TailLine ==
  ASSUME NEW S \in SUBSET Nat, NEW s \in Seq(S), s # <<>>, Increasing(s)
  PROVE  /\ Head(s) \in ToSet(s) /\ Increasing(Tail(s))
         /\ ToSet(Tail(s)) = ToSet(s) \ {Head(s)}
         /\ \A x \in ToSet(Tail(s)) : Head(s) < x
<1>1. PICK t, n : t = Tail(s) /\ n = Len(s)
  OBVIOUS
<1>2. /\ s[1] = Head(s) /\ 1 \in 1..n /\ t \in Seq(S) /\ Len(t) = n - 1
      /\ n \in Nat /\ \A i \in 1..n - 1 : t[i] = s[i + 1]
  BY <1>1, TailElements, LenProperties
<1>3. \A i \in 1..n : s[i] \in Nat
  BY <1>1, ElementOfSeq
<1>4. Head(s) \in ToSet(s)
  BY <1>1, <1>2, Elements
<1>5. \A i \in 1..n - 1 : i + 1 \in 1..n /\ 1 < i + 1
  BY <1>2
<1>6. \A i \in 1..n - 1 : s[1] < t[i]
  BY <1>1, <1>2, <1>5 DEF Increasing
<1>7. ASSUME NEW i \in 1..n - 1, NEW j \in 1..n - 1, i < j PROVE t[i] < t[j]
  <2>1. i + 1 \in 1..n /\ j + 1 \in 1..n /\ i + 1 < j + 1
    BY <1>2, <1>7
  <2>2. s[i + 1] < s[j + 1]
    BY <1>1, <2>1 DEF Increasing
  <2>3. QED
    BY <1>2, <2>2
<1>8. Increasing(t)
  BY <1>2, <1>7 DEF Increasing
<1>9. \A x : x \in ToSet(t) <=> \E i \in 1..n - 1 : t[i] = x
  BY <1>2, Elements
<1>10. ASSUME NEW x \in ToSet(t) PROVE s[1] < x /\ x \in ToSet(s) /\ x # s[1]
  <2>1. PICK i \in 1..n - 1 : t[i] = x
    BY <1>9
  <2>2. s[1] < x /\ x = s[i + 1] /\ i + 1 \in 1..n
    BY <1>2, <1>5, <1>6, <2>1
  <2>3. x \in ToSet(s)
    BY <1>1, <2>2, Elements
  <2>4. x \in Nat /\ s[1] \in Nat
    BY <1>2, <1>3, <2>2
  <2>5. QED
    BY <2>2, <2>3, <2>4
<1>11. ASSUME NEW x \in ToSet(s), x # s[1] PROVE x \in ToSet(t)
  <2>1. PICK i \in 1..n : s[i] = x
    BY <1>1, Elements
  <2>2. i # 1
    BY <1>11, <2>1
  <2>3. i - 1 \in 1..n - 1 /\ (i - 1) + 1 = i
    BY <1>2, <2>2
  <2>4. t[i - 1] = x
    BY <1>2, <2>1, <2>3
  <2>5. QED
    BY <1>9, <2>3, <2>4
<1>12. ToSet(t) = ToSet(s) \ {Head(s)}
  BY <1>2, <1>10, <1>11
<1>13. QED
  BY <1>1, <1>2, <1>4, <1>8, <1>10, <1>12

LEMMA EmptyLine == ToSet(<<>>) = {} /\ Increasing(<<>>)
<1>1. PICK e : e = <<>>
  OBVIOUS
<1>2. e \in Seq(Nat) /\ Len(e) = 0
  BY <1>1, EmptySeq
<1>3. \A x : x \in ToSet(e) <=> \E i \in 1..Len(e) : e[i] = x
  BY <1>2, Elements
<1>4. ToSet(e) = {} /\ Increasing(e)
  BY <1>2, <1>3 DEF Increasing
<1>5. QED
  BY <1>1, <1>4

-----------------------------------------------------------------------------
(* What a function that runs answers: an immediate request is answered by  *)
(* its own function, a queued one by a dispatch.                           *)

RunAlone(x) ==
  pending[1] = x /\ Posted(x) /\ x \notin Answered /\ UNCHANGED responseQueue
RunNothing(x) ==
  pending[1] = Dispatch /\ x = None /\ responseQueue = <<>> /\ UNCHANGED responseQueue
RunDispatch(x) ==
  /\ pending[1] = Dispatch /\ responseQueue # <<>> /\ x = Head(responseQueue)
  /\ Queued(x) /\ x \notin Answered /\ responseQueue' = Tail(responseQueue)

LEMMA Names ==
  /\ MaxRequests \in Nat /\ Requests \subseteq Nat /\ None \notin Requests
  /\ Dispatch \notin Requests /\ Dispatch # None /\ Sentinel \in Nat
  /\ Requests \cup {Sentinel} \subseteq Nat /\ \A r \in Requests : r < Sentinel
BY HttpAssumption DEF Requests, None, Dispatch, Sentinel

LEMMA RunAnswer ==
  ASSUME IInv, PendingInv, LineInv, RunFunction
  PROVE  \E x \in Requests \cup {None} :
           ran' = Append(ran, x) /\ (RunAlone(x) \/ RunNothing(x) \/ RunDispatch(x))
<1>1. TypeOK
  BY DEF IInv
<1>2. PICK p, s : p = pending /\ s = responseQueue
  OBVIOUS
<1>3. p # <<>> /\ p \in Functions /\ s \in Seq(Requests) /\ Head(taken) = p[1]
  BY <1>1, <1>2, RunPending, PendingType DEF TypeOK
<1>4. p[1] \in Requests \cup {Dispatch} /\ 1 \in 1..Len(p)
  BY <1>3, TailElements DEF Functions
<1>5. CASE p[1] # Dispatch
  <2>1. ran' = Append(ran, p[1]) /\ UNCHANGED responseQueue
    BY <1>3, <1>5 DEF RunFunction
  <2>2. Posted(p[1]) /\ p[1] \notin Answered
    BY <1>2, <1>4, <1>5 DEF PendingInv
  <2>3. QED
    BY <1>2, <1>4, <1>5, <2>1, <2>2 DEF RunAlone
<1>6. CASE p[1] = Dispatch /\ s = <<>>
  <2>1. ran' = Append(ran, None) /\ UNCHANGED responseQueue
    BY <1>2, <1>3, <1>6 DEF RunFunction
  <2>2. QED
    BY <1>2, <1>6, <2>1 DEF RunNothing
<1>7. CASE p[1] = Dispatch /\ s # <<>>
  <2>1. ran' = Append(ran, Head(s)) /\ responseQueue' = Tail(s)
    BY <1>2, <1>3, <1>7 DEF RunFunction
  <2>2. PICK h : h = Head(s)
    OBVIOUS
  <2>3. h \in Responses /\ h \in Requests
    <3>1. Increasing(s)
      BY <1>2 DEF LineInv
    <3>2. h \in ToSet(s)
      BY <1>3, <1>7, <2>2, <3>1, TailLine, Names
    <3>3. ToSet(s) \subseteq Requests
      BY <1>3, Elements
    <3>4. QED
      BY <1>2, <3>2, <3>3 DEF Responses
  <2>4. Queued(h)
    BY <2>3 DEF LineInv
  <2>5. h \notin Answered
    <3>1. ASSUME h \in Answered PROVE h < h
      BY <2>3, <2>4, <3>1 DEF LineInv, Precede
    <3>2. QED
      BY <2>3, <3>1, Names
  <2>6. QED
    BY <1>2, <1>7, <2>1, <2>2, <2>3, <2>4, <2>5 DEF RunDispatch
<1>8. QED
  BY <1>5, <1>6, <1>7

-----------------------------------------------------------------------------
(* Immediate requests are answered once.                                   *)

LEMMA PendingStep ==
  ASSUME IInv, PostedInv, PendingInv, LineInv, [Next]_vars
  PROVE  PendingInv'
<1>1. TypeOK /\ Quiet /\ Working
  BY DEF IInv
<1>2. /\ \A r : Queued(r) => Queued(r)'
      /\ \A r : Posted(r) => Posted(r)'
  BY KindStep DEF PendingInv
<1>3. PICK p, A : p = pending /\ A = Answered
  OBVIOUS
<1>4. p \in Functions /\ Len(p) \in Nat
  BY <1>1, <1>3, PendingType DEF Functions
<1>5. /\ \A i \in 1..Len(p) : p[i] # Dispatch => Posted(p[i])' /\ p[i] \notin A
      /\ \A i, j \in 1..Len(p) : p[i] = p[j] /\ p[i] # Dispatch => i = j
      /\ \A a \in A : Queued(a)' \/ Posted(a)'
  <2>1. \A i \in 1..Len(p) : p[i] # Dispatch => Posted(p[i]) /\ p[i] \notin A
    BY <1>3 DEF PendingInv
  <2>2. \A i, j \in 1..Len(p) : p[i] = p[j] /\ p[i] # Dispatch => i = j
    BY <1>3 DEF PendingInv
  <2>3. \A a \in A : Queued(a) \/ Posted(a)
    BY <1>3 DEF PendingInv
  <2>4. QED
    BY <1>2, <2>1, <2>2, <2>3
<1>6. ASSUME NEW q, NEW B, pending' = q, Answered' = B,
             \A i \in 1..Len(q) : q[i] # Dispatch => Posted(q[i])' /\ q[i] \notin B,
             \A i, j \in 1..Len(q) : q[i] = q[j] /\ q[i] # Dispatch => i = j,
             \A a \in B : Queued(a)' \/ Posted(a)'
      PROVE  PendingInv'
  BY <1>6, AloneKinds DEF PendingInv
<1>7. ASSUME pending' = p, UNCHANGED ran PROVE PendingInv'
  <2>1. Answered' = A
    BY <1>3, <1>7 DEF Answered
  <2>2. QED
    BY <1>5, <1>6, <1>7, <2>1
<1>8. ASSUME NEW f \in Requests \cup {Dispatch}, Post(f),
             scheduler /\ f # Dispatch =>
               Posted(f)' /\ f \notin A /\ \A i \in 1..Len(p) : p[i] # f
      PROVE  PendingInv'
  <2>1. CASE ~scheduler
    BY <1>1, <1>3, <1>7, <1>8, <2>1, PostPending
  <2>2. CASE scheduler
    <3>1. pending' = Append(p, f) /\ UNCHANGED ran
      BY <1>1, <1>3, <1>8, <2>2, PostPending
    <3>2. PICK q, n : q = Append(p, f) /\ n = Len(p)
      OBVIOUS
    <3>3. Len(q) = n + 1 /\ (\A i \in 1..n : q[i] = p[i]) /\ q[n + 1] = f /\ n \in Nat
      BY <1>4, <3>2, AppendProperties DEF Functions
    <3>4. Answered' = A /\ pending' = q
      BY <1>3, <3>1, <3>2 DEF Answered
    <3>5. \A i \in 1..n + 1 : i = n + 1 \/ i \in 1..n
      BY <3>3
    <3>6. \A i \in 1..Len(q) : q[i] # Dispatch => Posted(q[i])' /\ q[i] \notin A
      BY <1>5, <1>8, <2>2, <3>2, <3>3, <3>5
    <3>7. ASSUME NEW i \in 1..n + 1, NEW j \in 1..n + 1, q[i] = q[j], q[i] # Dispatch
          PROVE  i = j
      <4>1. CASE i = n + 1 /\ j = n + 1
        BY <4>1
      <4>2. CASE i = n + 1 /\ j \in 1..n
        BY <1>8, <2>2, <3>2, <3>3, <3>7, <4>2
      <4>3. CASE i \in 1..n /\ j = n + 1
        BY <1>8, <2>2, <3>2, <3>3, <3>7, <4>3
      <4>4. CASE i \in 1..n /\ j \in 1..n
        BY <1>5, <3>2, <3>3, <3>7, <4>4
      <4>5. QED
        BY <3>5, <4>1, <4>2, <4>3, <4>4
    <3>8. \A i, j \in 1..Len(q) : q[i] = q[j] /\ q[i] # Dispatch => i = j
      BY <3>3, <3>7
    <3>9. QED
      BY <1>5, <1>6, <3>4, <3>6, <3>8
  <2>3. QED
    BY <2>1, <2>2
<1>9. ASSUME NEW r \in Requests, AlonePost(r) PROVE PendingInv'
  <2>1. ~Posted(r)
    BY <1>9 DEF AlonePost, Posted
  <2>2. alone[r] = "process" /\ alone' = [alone EXCEPT ![r] = "leave"] /\ UNCHANGED kind
    BY <1>9 DEF AlonePost
  <2>3. r <= sent /\ kind[r] = "alone"
    BY <2>2 DEF PendingInv
  <2>4. ~Queued(r)
    BY <2>3 DEF Queued
  <2>5. r \notin A
    BY <1>3, <2>1, <2>4 DEF PendingInv
  <2>6. \A i \in 1..Len(p) : p[i] # r
    BY <1>3, <2>1, Names DEF PendingInv
  <2>7. r \in 1..sent
    BY <1>1, <2>3, Names DEF Requests, TypeOK, sent
  <2>8. Posted(r)'
    <3>1. alone'[r] = "leave"
      BY <1>1, <2>2 DEF TypeOK
    <3>2. r \in 1..sent' /\ kind'[r] = "alone"
      BY <2>2, <2>3, <2>7 DEF sent
    <3>3. QED
      BY <3>1, <3>2 DEF Posted
  <2>9. QED
    BY <1>8, <1>9, <2>5, <2>6, <2>8 DEF AlonePost
<1>10. ASSUME RunFunction PROVE PendingInv'
  <2>1. PICK x \in Requests \cup {None} :
          ran' = Append(ran, x) /\ (RunAlone(x) \/ RunNothing(x) \/ RunDispatch(x))
    BY <1>10, RunAnswer
  <2>2. PICK q : q = Tail(p)
    OBVIOUS
  <2>3. PICK B : B = A \cup ({x} \ {None})
    OBVIOUS
  <2>4. pending' = q /\ Answered' = B
    BY <1>1, <1>3, <1>10, <2>1, <2>2, <2>3, RunPending, AnsweredStep
  <2>5. p # <<>>
    BY <1>1, <1>3, <1>10, RunPending
  <2>6. PICK n : n = Len(p)
    OBVIOUS
  <2>7. /\ Len(q) = n - 1 /\ n \in Nat /\ 1 \in 1..n /\ \A i \in 1..n - 1 : q[i] = p[i + 1]
    BY <1>4, <2>2, <2>5, <2>6, TailElements DEF Functions
  <2>8. \A i \in 1..n - 1 : i + 1 \in 1..n /\ i + 1 # 1
    BY <2>7
  <2>9. \A i \in 2..n : p[i] # Dispatch => p[i] # x
    <3>1. CASE RunAlone(x)
      <4>1. p[1] = x
        BY <1>3, <3>1 DEF RunAlone
      <4>2. \A i \in 2..n : i \in 1..n /\ i # 1
        BY <2>7
      <4>3. QED
        BY <1>5, <2>6, <2>7, <4>1, <4>2
    <3>2. CASE RunNothing(x)
      <4>1. \A i \in 2..n : i \in 1..n
        BY <2>7
      <4>2. \A i \in 1..n : p[i] \in Requests \cup {Dispatch}
        BY <1>4, <2>6, ElementOfSeq DEF Functions
      <4>3. QED
        BY <3>2, <4>1, <4>2, Names DEF RunNothing
    <3>3. CASE RunDispatch(x)
      <4>1. \A i \in 2..n : i \in 1..n
        BY <2>7
      <4>2. kind[x] = "queue"
        BY <3>3 DEF RunDispatch, Queued
      <4>3. \A i \in 1..n : p[i] # Dispatch => kind[p[i]] = "alone"
        BY <1>3, <2>6 DEF PendingInv, Posted
      <4>4. QED
        BY <4>1, <4>2, <4>3
    <3>4. QED
      BY <2>1, <3>1, <3>2, <3>3
  <2>10. \A i \in 1..n - 1 : i + 1 \in 2..n
    BY <2>7
  <2>11. \A i \in 1..Len(q) : q[i] # Dispatch => Posted(q[i])' /\ q[i] \notin B
    BY <1>5, <2>3, <2>6, <2>7, <2>8, <2>9, <2>10
  <2>12. \A i, j \in 1..Len(q) : q[i] = q[j] /\ q[i] # Dispatch => i = j
    <3>1. ASSUME NEW i \in 1..n - 1, NEW j \in 1..n - 1, q[i] = q[j], q[i] # Dispatch
          PROVE  i = j
      <4>1. i + 1 = j + 1
        BY <1>5, <2>6, <2>7, <2>8, <3>1
      <4>2. QED
        BY <2>7, <4>1
    <3>2. QED
      BY <2>7, <3>1
  <2>13. x # None => Queued(x)' \/ Posted(x)'
    <3>1. x # None => Queued(x) \/ Posted(x)
      BY <2>1 DEF RunAlone, RunNothing, RunDispatch
    <3>2. QED
      BY <1>2, <3>1
  <2>14. \A a \in B : Queued(a)' \/ Posted(a)'
    BY <1>5, <2>3, <2>13
  <2>15. QED
    BY <1>6, <2>4, <2>11, <2>12, <2>14
<1>11. ASSUME RemoveAllFunctions PROVE PendingInv'
  <2>1. PICK q : q = <<>>
    OBVIOUS
  <2>2. pending' = q /\ UNCHANGED ran
    BY <1>1, <1>11, <2>1, RemovePending
  <2>3. Answered' = A
    BY <1>3, <2>2 DEF Answered
  <2>4. \A i \in 1..Len(q) : FALSE
    BY <2>1, EmptySeq
  <2>5. QED
    BY <1>5, <1>6, <2>2, <2>3, <2>4
<1>12. ASSUME TakeFunctions \/ PutBack PROVE PendingInv'
  <2>1. pending' = p /\ UNCHANGED ran
    BY <1>1, <1>3, <1>12, FramePending DEF TakeFunctions, PutBack
  <2>2. QED
    BY <1>7, <2>1
<1>13. ASSUME UNCHANGED perform PROVE PendingInv'
  <2>1. pending' = p /\ UNCHANGED ran
    BY <1>3, <1>13 DEF perform, pending
  <2>2. QED
    BY <1>7, <2>1
<1>14. CASE Send \/ SendImmediate \/ DestroyInstance \/ Notify
  BY <1>13, <1>14 DEF Send, SendImmediate, DestroyInstance, Notify
<1>15. CASE PushSentinel \/ NotifyQuit \/ Leave
  BY <1>13, <1>15 DEF PushSentinel, NotifyQuit, Leave
<1>16. CASE Network
  <2>1. ASSUME NetPost PROVE PendingInv'
    BY <1>8, <2>1 DEF NetPost
  <2>2. ASSUME NetStart \/ NetSleep \/ NetTake \/ NetRespond \/ NetClear \/ NetLeave
        PROVE  PendingInv'
    BY <1>13, <2>2 DEF NetStart, NetSleep, NetTake, NetRespond, NetClear, NetLeave
  <2>3. QED
    BY <1>16, <2>1, <2>2 DEF Network
<1>17. ASSUME NEW r \in Requests, Alone(r) PROVE PendingInv'
  <2>1. ASSUME AloneStart(r) \/ AloneLeave(r) PROVE PendingInv'
    BY <1>13, <2>1 DEF AloneStart, AloneLeave
  <2>2. QED
    BY <1>9, <1>17, <2>1 DEF Alone
<1>18. CASE UNCHANGED vars
  BY <1>13, <1>18 DEF vars
<1>19. QED
  BY <1>10, <1>11, <1>12, <1>14, <1>15, <1>16, <1>17, <1>18 DEF Next, Frame, Destroying

-----------------------------------------------------------------------------
(* Queued requests keep their order from queue to queue.                   *)

LEMMA QueuedBack ==
  ASSUME IInv, PendingInv, [Next]_vars, NEW a \in Answered, Queued(a)'
  PROVE  Queued(a)
<1>1. \A r \in 1..sent : kind'[r] = kind[r]
  BY KindStep DEF PendingInv
<1>2. a \in 1..sent
  BY DEF PendingInv, Queued, Posted
<1>3. QED
  BY <1>1, <1>2 DEF Queued

InLine(A, s, P, q) ==
  /\ Increasing(s) /\ Increasing(q)
  /\ \A a \in A : \A b \in ToSet(s) \cup P \cup ToSet(q) : a < b
  /\ \A a \in ToSet(s) : \A b \in P \cup ToSet(q) : a < b
  /\ \A a \in P : \A b \in ToSet(q) : a < b

LEMMA LineStep ==
  ASSUME IInv, PostedInv, PendingInv, LineInv, EndInv, [Next]_vars
  PROVE  LineInv'
<1>1. TypeOK /\ Working
  BY DEF IInv
<1>2. PICK s, q, P, B, n : s = responseQueue /\ q = requestQueue /\ P = Processed
                            /\ B = {a \in Answered : Queued(a)} /\ n = sent
  OBVIOUS
<1>3. /\ n \in Nat /\ n <= MaxRequests /\ \A r : Queued(r) => Queued(r)'
      /\ \A r : Queued(r) => r \in 1..n
  BY <1>2, KindStep DEF PendingInv, Queued
<1>4. /\ s \in Seq(Requests) /\ q \in Seq(Requests \cup {Sentinel})
      /\ ToSet(s) \subseteq Requests /\ ToSet(q) \subseteq Requests \cup {Sentinel}
      /\ Increasing(s) /\ Increasing(q)
  BY <1>1, <1>2, Elements DEF TypeOK, LineInv
<1>5. \A r \in ToSet(s) \cup P \cup (ToSet(q) \ {Sentinel}) \cup B : Queued(r)
  BY <1>2 DEF LineInv, Responses, Requested
<1>6. /\ \A a \in ToSet(s) : \A b \in P \cup ToSet(q) : a < b
      /\ \A a \in P : \A b \in ToSet(q) : a < b
      /\ \A a \in B : \A b \in ToSet(s) \cup P \cup ToSet(q) : a < b
  BY <1>2 DEF LineInv, Precede, Responses, Requested
<1>7. ASSUME NEW t, NEW u, NEW O, NEW C,
             responseQueue' = t, requestQueue' = u, Processed' = O,
             InLine(C, t, O, u),
             \A r \in ToSet(t) \cup O \cup (ToSet(u) \ {Sentinel}) : Queued(r)',
             \A a \in Answered' : Queued(a)' => a \in C
      PROVE  LineInv'
  BY <1>7 DEF InLine, LineInv, Precede, Responses, Requested
<1>8. ASSUME UNCHANGED ran PROVE \A a \in Answered' : Queued(a)' => a \in B
  <2>1. Answered' = Answered
    BY <1>8 DEF Answered
  <2>2. QED
    BY <1>2, <2>1, QueuedBack
<1>9. \A r \in ToSet(s) \cup P \cup (ToSet(q) \ {Sentinel}) : Queued(r)'
  BY <1>3, <1>5
<1>10. InLine(B, s, P, q)
  BY <1>4, <1>6 DEF InLine
<1>11. ASSUME UNCHANGED <<responseQueue, requestQueue, current, ran>> PROVE LineInv'
  <2>1. Processed' = P
    BY <1>2, <1>11 DEF Processed
  <2>2. \A a \in Answered' : Queued(a)' => a \in B
    BY <1>8, <1>11
  <2>3. responseQueue' = s /\ requestQueue' = q
    BY <1>2, <1>11
  <2>4. QED
    BY <1>7, <1>9, <1>10, <2>1, <2>2, <2>3
<1>12. Sentinel \notin ToSet(q) =>
         \A a \in ToSet(s) \cup P \cup ToSet(q) \cup B : a \in Nat /\ a <= n
  BY <1>3, <1>5
<1>13. call \in {"none", "sentinel"} => Sentinel \notin ToSet(q)
  BY <1>2 DEF EndInv, Requested
<1>14. CASE Send
  <2>1. PICK u, m : u = Append(q, m) /\ m = n + 1
    OBVIOUS
  <2>2. /\ requestQueue' = u /\ responseQueue' = s /\ UNCHANGED <<current, ran>>
        /\ kind' = Append(kind, "queue") /\ m \in Requests
    BY <1>2, <1>3, <1>14, <2>1, Names DEF Send, CanCall, perform, Requests
  <2>3. Processed' = P
    BY <1>2, <2>2 DEF Processed
  <2>4. \A a \in ToSet(s) \cup P \cup ToSet(q) \cup B : a < m
    BY <1>3, <1>12, <1>13, <1>14, <2>1 DEF Send, CanCall
  <2>5. Increasing(u) /\ ToSet(u) = ToSet(q) \cup {m}
    <3>1. PICK S : S = Requests \cup {Sentinel}
      OBVIOUS
    <3>2. S \in SUBSET Nat /\ q \in Seq(S) /\ m \in S /\ Increasing(q)
      BY <1>4, <2>2, <3>1, Names
    <3>3. \A a \in ToSet(q) : a < m
      BY <2>4
    <3>4. QED
      BY <2>1, <3>2, <3>3, AppendLine
  <2>6. Queued(m)'
    <3>1. PICK k, l : k = kind /\ l = Append(k, "queue")
      OBVIOUS
    <3>2. k \in Seq({"queue", "alone"}) /\ Len(k) = n
      BY <1>1, <1>2, <3>1 DEF TypeOK, sent
    <3>3. Len(l) = m /\ l[m] = "queue"
      BY <2>1, <3>1, <3>2, AppendProperties
    <3>4. kind' = l /\ m \in 1..m
      BY <1>3, <2>1, <2>2, <3>1
    <3>5. QED
      BY <3>3, <3>4 DEF Queued, sent
  <2>7. \A r \in ToSet(s) \cup P \cup (ToSet(u) \ {Sentinel}) : Queued(r)'
    BY <1>9, <2>5, <2>6
  <2>8. \A a \in Answered' : Queued(a)' => a \in B
    BY <1>8, <2>2
  <2>9. InLine(B, s, P, u)
    BY <1>4, <1>6, <2>4, <2>5 DEF InLine
  <2>10. QED
    BY <1>7, <2>2, <2>3, <2>7, <2>8, <2>9
<1>15. CASE PushSentinel
  <2>1. PICK u : u = Append(q, Sentinel)
    OBVIOUS
  <2>2. requestQueue' = u /\ responseQueue' = s /\ UNCHANGED <<current, ran>>
    BY <1>2, <1>15, <2>1 DEF PushSentinel, perform, netVars
  <2>3. Processed' = P
    BY <1>2, <2>2 DEF Processed
  <2>4. \A a \in ToSet(s) \cup P \cup ToSet(q) \cup B : a < Sentinel
    <3>1. \A a \in ToSet(s) \cup P \cup ToSet(q) \cup B : a \in Nat /\ a <= n
      BY <1>12, <1>13, <1>15 DEF PushSentinel
    <3>2. n < Sentinel
      BY <1>3, Names DEF Sentinel
    <3>3. QED
      BY <1>3, <3>1, <3>2, Names
  <2>5. Increasing(u) /\ ToSet(u) = ToSet(q) \cup {Sentinel}
    <3>1. PICK S : S = Requests \cup {Sentinel}
      OBVIOUS
    <3>2. S \in SUBSET Nat /\ q \in Seq(S) /\ Sentinel \in S /\ Increasing(q)
      BY <1>4, <3>1, Names
    <3>3. \A a \in ToSet(q) : a < Sentinel
      BY <2>4
    <3>4. QED
      BY <2>1, <3>2, <3>3, AppendLine
  <2>6. \A r \in ToSet(s) \cup P \cup (ToSet(u) \ {Sentinel}) : Queued(r)'
    BY <1>9, <2>5
  <2>7. \A a \in Answered' : Queued(a)' => a \in B
    BY <1>8, <2>2
  <2>8. InLine(B, s, P, u)
    BY <1>4, <1>6, <2>4, <2>5 DEF InLine
  <2>9. QED
    BY <1>7, <2>2, <2>3, <2>6, <2>7, <2>8
<1>16. CASE RunFunction
  <2>1. PICK x \in Requests \cup {None} :
          ran' = Append(ran, x) /\ (RunAlone(x) \/ RunNothing(x) \/ RunDispatch(x))
    BY <1>16, RunAnswer
  <2>2. Answered' = Answered \cup ({x} \ {None})
    BY <2>1, AnsweredStep
  <2>3. UNCHANGED <<kind, current>> /\ requestQueue' = q
    BY <1>2, <1>16 DEF RunFunction, netVars
  <2>4. Processed' = P
    BY <1>2, <2>3 DEF Processed
  <2>5. \A a : Queued(a)' => Queued(a)
    BY <2>3 DEF Queued, sent
  <2>6. \A a \in Answered' : Queued(a)' => a \in B \/ (a = x /\ Queued(x))
    BY <1>2, <2>2, <2>5
  <2>7. CASE RunAlone(x) \/ RunNothing(x)
    <3>1. responseQueue' = s
      BY <1>2, <2>7 DEF RunAlone, RunNothing
    <3>2. ~Queued(x)
      BY <1>3, <2>7, Names DEF RunAlone, RunNothing, Queued, Posted, None
    <3>3. \A a \in Answered' : Queued(a)' => a \in B
      BY <2>6, <3>2
    <3>4. QED
      BY <1>7, <1>9, <1>10, <2>3, <2>4, <3>1, <3>3
  <2>8. CASE RunDispatch(x)
    <3>1. PICK t : t = Tail(s)
      OBVIOUS
    <3>2. s # <<>> /\ x = Head(s) /\ responseQueue' = t
      BY <1>2, <2>8, <3>1 DEF RunDispatch
    <3>3. /\ x \in ToSet(s) /\ Increasing(t) /\ ToSet(t) = ToSet(s) \ {x}
          /\ \A y \in ToSet(t) : x < y
      BY <1>4, <3>1, <3>2, TailLine, Names
    <3>4. \A a \in B \cup {x} : \A b \in ToSet(t) \cup P \cup ToSet(q) : a < b
      BY <1>6, <3>3
    <3>5. \A a \in Answered' : Queued(a)' => a \in B \cup {x}
      BY <2>6
    <3>6. \A r \in ToSet(t) \cup P \cup (ToSet(q) \ {Sentinel}) : Queued(r)'
      BY <1>9, <3>3
    <3>7. \A a \in ToSet(t) : \A b \in P \cup ToSet(q) : a < b
      BY <1>6, <3>3
    <3>8. InLine(B \cup {x}, t, P, q)
      BY <1>4, <1>6, <3>3, <3>4, <3>7 DEF InLine
    <3>9. PICK C : C = B \cup {x}
      OBVIOUS
    <3>10. QED
      BY <1>7, <2>3, <2>4, <3>2, <3>5, <3>6, <3>8, <3>9
  <2>9. QED
    BY <2>1, <2>7, <2>8
<1>17. CASE NetTake
  <2>1. PICK u, h : u = Tail(q) /\ h = Head(q)
    OBVIOUS
  <2>2. /\ q # <<>> /\ requestQueue' = u /\ responseQueue' = s /\ UNCHANGED ran
        /\ IF h = Sentinel THEN current' = current ELSE current' = h
    BY <1>2, <1>17, <2>1 DEF NetTake, perform
  <2>3. /\ h \in ToSet(q) /\ Increasing(u) /\ ToSet(u) = ToSet(q) \ {h}
        /\ \A y \in ToSet(u) : h < y
    BY <1>4, <2>1, <2>2, TailLine, Names
  <2>4. \A a \in Answered' : Queued(a)' => a \in B
    BY <1>8, <2>2
  <2>5. CASE h = Sentinel
    <3>1. Processed' = P
      BY <1>2, <2>2, <2>5 DEF Processed
    <3>2. QED
      <4>1. InLine(B, s, P, u)
        BY <1>4, <1>6, <2>3 DEF InLine
      <4>2. \A r \in ToSet(s) \cup P \cup (ToSet(u) \ {Sentinel}) : Queued(r)'
        BY <1>9, <2>3
      <4>3. QED
        BY <1>7, <2>2, <2>4, <3>1, <4>1, <4>2
  <2>6. CASE h # Sentinel
    <3>1. h \in Requests /\ h # None
      BY <1>4, <2>3, <2>6, Names
    <3>2. Processed' = {h}
      BY <2>2, <2>6, <3>1 DEF Processed
    <3>3. \A r \in ToSet(s) \cup {h} \cup (ToSet(u) \ {Sentinel}) : Queued(r)'
      BY <1>9, <2>3, <2>6
    <3>4. /\ \A a \in ToSet(s) : \A b \in {h} \cup ToSet(u) : a < b
          /\ \A a \in {h} : \A b \in ToSet(u) : a < b
          /\ \A a \in B : \A b \in ToSet(s) \cup {h} \cup ToSet(u) : a < b
      BY <1>6, <2>3
    <3>5. InLine(B, s, {h}, u)
      BY <1>4, <2>3, <3>4 DEF InLine
    <3>6. QED
      BY <1>7, <2>2, <2>4, <3>2, <3>3, <3>5
  <2>7. QED
    BY <2>5, <2>6
<1>18. CASE NetRespond
  <2>1. PICK c : c = current
    OBVIOUS
  <2>2. PICK t : t = Append(s, c)
    OBVIOUS
  <2>3. /\ c \in Requests /\ responseQueue' = t /\ requestQueue' = q /\ UNCHANGED ran
        /\ current' = None
    BY <1>1, <1>2, <1>18, <2>1, <2>2 DEF NetRespond, Working, perform
  <2>4. P = {c} /\ Processed' = {}
    BY <1>2, <2>1, <2>3, Names DEF Processed
  <2>5. Increasing(t) /\ ToSet(t) = ToSet(s) \cup {c}
    BY <1>4, <1>6, <2>2, <2>3, <2>4, AppendLine, Names
  <2>6. \A a \in Answered' : Queued(a)' => a \in B
    BY <1>8, <2>3
  <2>7. InLine(B, t, {}, q)
    BY <1>4, <1>6, <2>4, <2>5 DEF InLine
  <2>8. \A r \in ToSet(t) \cup {} \cup (ToSet(q) \ {Sentinel}) : Queued(r)'
    BY <1>9, <2>4, <2>5
  <2>9. QED
    BY <1>7, <2>3, <2>4, <2>6, <2>7, <2>8
<1>19. CASE NetClear
  <2>1. PICK t : t = <<>>
    OBVIOUS
  <2>2. responseQueue' = t /\ requestQueue' = t /\ UNCHANGED <<current, ran>>
    BY <1>19, <2>1 DEF NetClear, perform
  <2>3. Processed' = P
    BY <1>2, <2>2 DEF Processed
  <2>4. ToSet(t) = {} /\ Increasing(t)
    BY <2>1, EmptyLine
  <2>5. \A a \in Answered' : Queued(a)' => a \in B
    BY <1>8, <2>2
  <2>6. InLine(B, t, P, t)
    BY <1>6, <2>4 DEF InLine
  <2>7. \A r \in ToSet(t) \cup P \cup (ToSet(t) \ {Sentinel}) : Queued(r)'
    BY <1>9, <2>4
  <2>8. QED
    BY <1>7, <2>2, <2>3, <2>5, <2>6, <2>7
<1>20. CASE SendImmediate \/ DestroyInstance \/ Frame
  BY <1>11, <1>20 DEF SendImmediate, DestroyInstance, Frame, Notify, TakeFunctions, PutBack,
     client, netVars, perform
<1>21. CASE NotifyQuit \/ Leave \/ RemoveAllFunctions
  BY <1>11, <1>21 DEF NotifyQuit, Leave, RemoveAllFunctions, client, netVars, perform
<1>22. CASE NetStart \/ NetSleep \/ NetLeave
  BY <1>11, <1>22 DEF NetStart, NetSleep, NetLeave, client, perform
<1>23. CASE NetPost
  <2>1. UNCHANGED ran
    BY <1>1, <1>23, PostPending DEF NetPost
  <2>2. QED
    BY <1>11, <1>23, <2>1 DEF NetPost, client
<1>24. ASSUME NEW r \in Requests, Alone(r) PROVE LineInv'
  <2>1. ASSUME AlonePost(r) PROVE LineInv'
    <3>1. UNCHANGED ran
      BY <1>1, <2>1, PostPending DEF AlonePost
    <3>2. QED
      BY <1>11, <2>1, <3>1 DEF AlonePost, client, netVars
  <2>2. ASSUME AloneStart(r) \/ AloneLeave(r) PROVE LineInv'
    BY <1>11, <2>2 DEF AloneStart, AloneLeave, client, netVars, perform
  <2>3. QED
    BY <1>24, <2>1, <2>2 DEF Alone
<1>25. CASE UNCHANGED vars
  BY <1>11, <1>25 DEF vars, client, netVars, perform
<1>26. QED
  BY <1>14, <1>15, <1>16, <1>17, <1>18, <1>19, <1>20, <1>21, <1>22, <1>23, <1>24, <1>25
     DEF Next, Destroying, Network

-----------------------------------------------------------------------------
(* No queued request is lost before the network thread clears the queues.  *)

Covered == Answered \cup Responses \cup Processed \cup Requested

LEMMA SendQueue ==
  ASSUME TypeOK, Send
  PROVE  sent + 1 \in Requests /\ Requested' = Requested \cup {sent + 1}
<1>1. PICK m, q : m = sent + 1 /\ q = requestQueue
  OBVIOUS
<1>2. m \in Requests /\ q \in Seq(Requests \cup {Sentinel}) /\ requestQueue' = Append(q, m)
  BY <1>1, Names DEF Send, CanCall, TypeOK, sent, Requests
<1>3. PICK S : S = Requests \cup {Sentinel}
  OBVIOUS
<1>4. ToSet(Append(q, m)) = ToSet(q) \cup {m}
  BY <1>2, <1>3, AppendSet
<1>5. QED
  BY <1>1, <1>2, <1>4 DEF Requested

LEMMA SentinelQueue ==
  ASSUME TypeOK, PushSentinel
  PROVE  Requested' = Requested \cup {Sentinel}
<1>1. PICK q, S : q = requestQueue /\ S = Requests \cup {Sentinel}
  OBVIOUS
<1>2. q \in Seq(S) /\ Sentinel \in S /\ requestQueue' = Append(q, Sentinel)
  BY <1>1 DEF PushSentinel, TypeOK
<1>3. ToSet(Append(q, Sentinel)) = ToSet(q) \cup {Sentinel}
  BY <1>2, AppendSet
<1>4. QED
  BY <1>1, <1>2, <1>3 DEF Requested

LEMMA TakeQueue ==
  ASSUME TypeOK, LineInv, NetTake
  PROVE  Head(requestQueue) \in Requested /\ Requested' = Requested \ {Head(requestQueue)}
<1>1. PICK q, S : q = requestQueue /\ S = Requests \cup {Sentinel}
  OBVIOUS
<1>2. /\ q \in Seq(S) /\ S \in SUBSET Nat /\ Increasing(q) /\ q # <<>>
      /\ requestQueue' = Tail(q)
  BY <1>1, Names DEF NetTake, TypeOK, LineInv
<1>3. Head(q) \in ToSet(q) /\ ToSet(Tail(q)) = ToSet(q) \ {Head(q)}
  BY <1>2, TailLine
<1>4. QED
  BY <1>1, <1>2, <1>3 DEF Requested

(* Nothing else is added to the requests.                                  *)
LEMMA QueuesStep ==
  ASSUME TypeOK, LineInv, [Next]_vars
  PROVE  Send \/ PushSentinel \/ Requested' \subseteq Requested
<1>1. ASSUME UNCHANGED requestQueue PROVE Requested' \subseteq Requested
  BY <1>1 DEF Requested
<1>2. CASE NetTake
  BY <1>2, TakeQueue
<1>3. CASE NetClear
  BY <1>3, EmptyLine DEF NetClear, Requested
<1>4. CASE RunFunction \/ SendImmediate \/ DestroyInstance \/ Frame
  BY <1>1, <1>4 DEF RunFunction, SendImmediate, DestroyInstance, Frame, Notify, TakeFunctions,
     PutBack, client
<1>5. CASE NotifyQuit \/ Leave \/ RemoveAllFunctions
  BY <1>1, <1>5 DEF NotifyQuit, Leave, RemoveAllFunctions, client
<1>6. CASE NetStart \/ NetSleep \/ NetRespond \/ NetPost \/ NetLeave
  BY <1>1, <1>6 DEF NetStart, NetSleep, NetRespond, NetPost, NetLeave, client
<1>7. ASSUME NEW r \in Requests, Alone(r) PROVE UNCHANGED requestQueue
  BY <1>7 DEF Alone, AloneStart, AlonePost, AloneLeave, client
<1>8. CASE UNCHANGED vars
  BY <1>1, <1>8 DEF vars, client
<1>9. QED
  BY <1>1, <1>2, <1>3, <1>4, <1>5, <1>6, <1>7, <1>8 DEF Next, Destroying, Network

(* A request goes on to the next queue, unless they are cleared.           *)
LEMMA CoveredStep ==
  ASSUME IInv, PostedInv, PendingInv, LineInv, EndInv, [Next]_vars, ~Cleared'
  PROVE  ~Cleared /\ \A r \in Covered : r = Sentinel \/ r \in Covered'
<1>1. TypeOK /\ Working
  BY DEF IInv
<1>2. PICK A, R, P, T : A = Answered /\ R = Responses /\ P = Processed /\ T = Requested
  OBVIOUS
<1>3. Covered = A \cup R \cup P \cup T
  BY <1>2 DEF Covered
<1>4. responseQueue \in Seq(Requests) /\ requestQueue \in Seq(Requests \cup {Sentinel})
      /\ Increasing(responseQueue) /\ Increasing(requestQueue)
  BY <1>1 DEF TypeOK, LineInv
<1>5. PICK s, q : s = responseQueue /\ q = requestQueue
  OBVIOUS
<1>6. R = ToSet(s) /\ T = ToSet(q)
  BY <1>2, <1>5 DEF Responses, Requested
<1>7. ASSUME UNCHANGED <<requestQueue, responseQueue, current, ran>>, Cleared' <=> Cleared
      PROVE  ~Cleared /\ \A r \in Covered : r = Sentinel \/ r \in Covered'
  BY <1>7 DEF Covered, Answered, Responses, Processed, Requested
<1>8. ASSUME UNCHANGED ran PROVE Answered' = A
  BY <1>2, <1>8 DEF Answered
<1>9. ASSUME UNCHANGED current PROVE Processed' = P
  BY <1>2, <1>9 DEF Processed
<1>10. CASE Send
  <2>1. UNCHANGED <<responseQueue, current, ran>> /\ (Cleared' <=> Cleared)
    BY <1>10 DEF Send, perform, Cleared, IsInited
  <2>2. T \subseteq Requested' /\ Responses' = R
    BY <1>1, <1>2, <1>10, <2>1, SendQueue DEF Responses
  <2>3. QED
    BY <1>3, <1>8, <1>9, <2>1, <2>2 DEF Covered
<1>11. CASE PushSentinel
  <2>1. UNCHANGED <<responseQueue, current, ran>> /\ (Cleared' <=> Cleared)
    BY <1>11 DEF PushSentinel, perform, netVars, Cleared
  <2>2. T \subseteq Requested' /\ Responses' = R
    BY <1>1, <1>2, <1>11, <2>1, SentinelQueue DEF Responses
  <2>3. QED
    BY <1>3, <1>8, <1>9, <2>1, <2>2 DEF Covered
<1>12. CASE RunFunction
  <2>1. UNCHANGED <<requestQueue, current>> /\ (Cleared' <=> Cleared)
    BY <1>12 DEF RunFunction, netVars, Cleared
  <2>2. PICK x \in Requests \cup {None} :
          ran' = Append(ran, x) /\ (RunAlone(x) \/ RunNothing(x) \/ RunDispatch(x))
    BY <1>12, RunAnswer
  <2>3. Answered' = A \cup ({x} \ {None})
    BY <1>2, <2>2, AnsweredStep
  <2>4. Requested' = T /\ Processed' = P
    BY <1>2, <1>9, <2>1 DEF Requested
  <2>5. R \subseteq Responses' \cup Answered'
    <3>1. CASE RunAlone(x) \/ RunNothing(x)
      BY <1>2, <3>1 DEF RunAlone, RunNothing, Responses
    <3>2. CASE RunDispatch(x)
      <4>1. s # <<>> /\ x = Head(s) /\ responseQueue' = Tail(s)
        BY <1>5, <3>2 DEF RunDispatch
      <4>2. x \in ToSet(s) /\ ToSet(Tail(s)) = ToSet(s) \ {x}
        BY <1>4, <1>5, <4>1, TailLine, Names
      <4>3. x # None
        BY <1>4, <1>5, <4>2, Elements, Names
      <4>4. Responses' = R \ {x}
        BY <1>6, <4>1, <4>2 DEF Responses
      <4>5. QED
        BY <2>3, <4>3, <4>4
    <3>3. QED
      BY <2>2, <3>1, <3>2
  <2>6. QED
    BY <1>3, <2>1, <2>3, <2>4, <2>5 DEF Covered
<1>13. CASE NetTake
  <2>1. UNCHANGED <<responseQueue, ran>> /\ ~Cleared
    BY <1>13 DEF NetTake, perform, Cleared
  <2>2. PICK h : h = Head(q)
    OBVIOUS
  <2>3. /\ q # <<>> /\ requestQueue' = Tail(q) /\ current = None
        /\ h # Sentinel => current' = h
    BY <1>5, <1>13, <2>2 DEF NetTake, EndInv
  <2>4. ToSet(Tail(q)) = T \ {h} /\ h \in T
    BY <1>4, <1>5, <1>6, <2>2, <2>3, TailLine, Names
  <2>5. T \subseteq Requests \cup {Sentinel}
    BY <1>4, <1>5, <1>6, Elements
  <2>6. Requested' = T \ {h} /\ Responses' = R /\ P = {}
    BY <1>2, <2>1, <2>3, <2>4 DEF Requested, Responses, Processed
  <2>7. h # Sentinel => h \in Processed'
    BY <2>3, <2>4, <2>5, Names DEF Processed
  <2>8. QED
    BY <1>3, <1>8, <2>1, <2>6, <2>7 DEF Covered
<1>14. CASE NetRespond
  <2>1. UNCHANGED <<requestQueue, ran>> /\ ~Cleared
    BY <1>14 DEF NetRespond, perform, Cleared
  <2>2. PICK c : c = current
    OBVIOUS
  <2>3. c \in Requests /\ responseQueue' = Append(s, c)
    BY <1>1, <1>5, <1>14, <2>2 DEF NetRespond, Working
  <2>4. Increasing(Append(s, c)) /\ ToSet(Append(s, c)) = ToSet(s) \cup {c}
    <3>1. c \in Processed
      BY <2>2, <2>3, Names DEF Processed
    <3>2. \A a \in ToSet(s) : a < c
      BY <1>2, <1>6, <3>1 DEF LineInv, Precede
    <3>3. QED
      BY <1>4, <1>5, <2>3, <3>2, AppendLine, Names
  <2>5. Responses' = R \cup {c} /\ Requested' = T /\ P \subseteq {c}
    BY <1>2, <1>6, <2>1, <2>2, <2>3, <2>4 DEF Responses, Requested, Processed
  <2>6. QED
    BY <1>3, <1>8, <2>1, <2>5 DEF Covered
<1>15. CASE NetClear
  BY <1>15 DEF NetClear, Cleared
<1>16. CASE SendImmediate \/ DestroyInstance \/ Frame
  BY <1>7, <1>16 DEF SendImmediate, DestroyInstance, Frame, Notify, WakeNetwork, TakeFunctions,
     PutBack, client, netVars, perform, Cleared
<1>17. CASE NotifyQuit \/ Leave \/ RemoveAllFunctions
  BY <1>7, <1>17 DEF NotifyQuit, WakeNetwork, Leave, RemoveAllFunctions, client, netVars, perform,
     Cleared
<1>18. CASE NetStart \/ NetSleep \/ NetLeave
  BY <1>7, <1>18 DEF NetStart, NetSleep, NetLeave, client, perform, Cleared
<1>19. CASE NetPost
  <2>1. UNCHANGED ran
    BY <1>1, <1>19, PostPending DEF NetPost
  <2>2. QED
    BY <1>7, <1>19, <2>1 DEF NetPost, client, Cleared
<1>20. ASSUME NEW r \in Requests, Alone(r)
       PROVE  UNCHANGED <<requestQueue, responseQueue, current, ran, net>>
  <2>1. ASSUME AlonePost(r)
        PROVE  UNCHANGED <<requestQueue, responseQueue, current, ran, net>>
    <3>1. UNCHANGED ran
      BY <1>1, <2>1, PostPending DEF AlonePost
    <3>2. QED
      BY <2>1, <3>1 DEF AlonePost, client, netVars
  <2>2. QED
    BY <1>20, <2>1 DEF Alone, AloneStart, AloneLeave, client, netVars, perform
<1>21. ASSUME NEW r \in Requests, Alone(r)
       PROVE  ~Cleared /\ \A x \in Covered : x = Sentinel \/ x \in Covered'
  BY <1>7, <1>20, <1>21 DEF Cleared
<1>22. CASE UNCHANGED vars
  BY <1>7, <1>22 DEF vars, client, netVars, perform, Cleared
<1>23. QED
  BY <1>10, <1>11, <1>12, <1>13, <1>14, <1>15, <1>16, <1>17, <1>18, <1>19, <1>21, <1>22
     DEF Next, Destroying, Network

LEMMA EndStep ==
  ASSUME IInv, PostedInv, PendingInv, LineInv, EndInv, [Next]_vars
  PROVE  EndInv'
<1>1. TypeOK /\ Working
  BY DEF IInv
<1>2. net' # "process" => current' = None
  <2>1. ASSUME UNCHANGED current, net' = "process" <=> net = "process"
        PROVE  net' # "process" => current' = None
    BY <2>1 DEF EndInv
  <2>2. CASE Send \/ SendImmediate \/ RunFunction \/ DestroyInstance
    BY <2>1, <2>2 DEF Send, IsInited, SendImmediate, RunFunction, DestroyInstance, netVars
  <2>3. CASE Frame
    BY <2>1, <2>3 DEF Frame, Notify, WakeNetwork, TakeFunctions, PutBack, netVars
  <2>4. CASE Destroying
    BY <2>1, <2>4 DEF Destroying, PushSentinel, NotifyQuit, WakeNetwork, Leave,
       RemoveAllFunctions, netVars
  <2>5. CASE NetTake \/ NetRespond
    BY <2>1, <2>5 DEF NetTake, NetRespond
  <2>6. CASE NetStart \/ NetSleep \/ NetPost \/ NetClear \/ NetLeave
    BY <2>1, <2>6 DEF NetStart, NetSleep, NetPost, NetClear, NetLeave
  <2>7. ASSUME NEW r \in Requests, Alone(r) PROVE UNCHANGED netVars
    BY <2>7 DEF Alone, AloneStart, AlonePost, AloneLeave
  <2>8. CASE UNCHANGED netVars
    BY <2>1, <2>8 DEF netVars
  <2>9. QED
    BY <2>2, <2>3, <2>4, <2>5, <2>6, <2>7, <2>8 DEF Next, Network, vars
<1>3. Cleared' => responseQueue' = <<>>
  <2>1. ASSUME UNCHANGED responseQueue, Cleared' => Cleared
        PROVE  Cleared' => responseQueue' = <<>>
    BY <2>1 DEF EndInv
  <2>2. CASE Send \/ SendImmediate \/ DestroyInstance
    BY <2>1, <2>2 DEF Send, IsInited, SendImmediate, DestroyInstance, netVars, client, Cleared
  <2>3. CASE RunFunction
    <3>1. Cleared' => responseQueue = <<>>
      BY <2>3 DEF RunFunction, netVars, Cleared, EndInv
    <3>2. responseQueue = <<>> => responseQueue' = <<>>
      BY <2>3 DEF RunFunction
    <3>3. QED
      BY <3>1, <3>2
  <2>4. CASE Frame
    BY <2>1, <2>4 DEF Frame, Notify, WakeNetwork, TakeFunctions, PutBack, netVars, client, Cleared
  <2>5. CASE Destroying
    BY <2>1, <2>5 DEF Destroying, PushSentinel, NotifyQuit, WakeNetwork, Leave,
       RemoveAllFunctions, netVars, client, Cleared
  <2>6. CASE NetRespond \/ NetClear
    BY <2>6 DEF NetRespond, NetClear, Cleared
  <2>7. CASE NetStart \/ NetSleep \/ NetTake \/ NetPost \/ NetLeave
    BY <2>1, <2>7 DEF NetStart, NetSleep, NetTake, NetPost, NetLeave, client, Cleared
  <2>8. ASSUME NEW r \in Requests, Alone(r) PROVE UNCHANGED <<netVars, client>>
    BY <2>8 DEF Alone, AloneStart, AlonePost, AloneLeave
  <2>9. CASE UNCHANGED <<netVars, client>>
    BY <2>1, <2>9 DEF netVars, client, Cleared
  <2>10. QED
    BY <2>2, <2>3, <2>4, <2>5, <2>6, <2>7, <2>8, <2>9 DEF Next, Network, vars
<1>4. ASSUME ~Cleared', NEW r \in 1..sent', Queued(r)'
      PROVE  r \in Answered' \cup Responses' \cup Processed' \cup Requested'
  <2>1. PICK n : n = sent
    OBVIOUS
  <2>2. /\ n \in Nat /\ n <= MaxRequests /\ sent' \in n..n + 1
        /\ \A q \in 1..n : kind'[q] = kind[q]
    BY <2>1, KindStep DEF PendingInv
  <2>3. ~Cleared /\ \A q \in Covered : q = Sentinel \/ q \in Covered'
    BY <1>4, CoveredStep
  <2>4. CASE r \in 1..n
    <3>1. Queued(r) /\ r # Sentinel
      <4>1. r < Sentinel
        BY <2>2, <2>4, HttpAssumption DEF Sentinel
      <4>2. QED
        BY <1>4, <2>1, <2>2, <2>4, <4>1, Names DEF Queued
    <3>2. r \in Covered
      BY <2>1, <2>3, <2>4, <3>1 DEF EndInv, Covered
    <3>3. QED
      BY <2>3, <3>1, <3>2 DEF Covered
  <2>5. CASE r \notin 1..n
    <3>1. r = n + 1 /\ sent' = n + 1
      BY <2>2, <2>5
    <3>2. CASE Send
      <4>1. r \in Requested'
        BY <1>1, <2>1, <3>1, <3>2, SendQueue
      <4>2. QED
        BY <4>1
    <3>3. CASE SendImmediate
      <4>1. PICK k, l : k = kind /\ l = Append(k, "alone")
        OBVIOUS
      <4>2. k \in Seq({"queue", "alone"}) /\ Len(k) = n
        BY <1>1, <2>1, <4>1 DEF TypeOK, sent
      <4>3. l[r] = "alone"
        BY <3>1, <4>1, <4>2, AppendProperties
      <4>4. kind' = l
        BY <3>3, <4>1 DEF SendImmediate
      <4>5. QED
        BY <1>4, <4>3, <4>4 DEF Queued
    <3>4. CASE UNCHANGED kind
      BY <2>1, <2>2, <3>1, <3>4 DEF sent
    <3>5. CASE RunFunction \/ DestroyInstance \/ Frame
      BY <3>4, <3>5 DEF RunFunction, DestroyInstance, Frame, Notify, TakeFunctions, PutBack
    <3>6. CASE Destroying
      BY <3>4, <3>6 DEF Destroying, PushSentinel, NotifyQuit, Leave, RemoveAllFunctions
    <3>7. CASE Network
      BY <3>4, <3>7 DEF Network, NetStart, NetSleep, NetTake, NetRespond, NetPost, NetClear,
         NetLeave
    <3>8. ASSUME NEW q \in Requests, Alone(q) PROVE UNCHANGED kind
      BY <3>8 DEF Alone, AloneStart, AlonePost, AloneLeave
    <3>9. CASE UNCHANGED vars
      BY <3>4, <3>9 DEF vars
    <3>10. QED
      BY <3>2, <3>3, <3>4, <3>5, <3>6, <3>7, <3>8, <3>9 DEF Next
  <2>6. QED
    BY <2>4, <2>5
<1>5. net' = "clear" \/ Sentinel \in Requested' => call' \in {"wake", "leave", "remove", "gone"}
  <2>1. net = "clear" \/ Sentinel \in Requested => call \in {"wake", "leave", "remove", "gone"}
    BY DEF EndInv
  <2>2. ASSUME net' = "clear" => net = "clear" \/ Sentinel \in Requested,
               Sentinel \in Requested' => Sentinel \in Requested,
               call \in {"wake", "leave", "remove", "gone"} =>
                 call' \in {"wake", "leave", "remove", "gone"}
        PROVE  net' = "clear" \/ Sentinel \in Requested' =>
                 call' \in {"wake", "leave", "remove", "gone"}
    BY <2>1, <2>2, Zenon
  <2>3. Send \/ PushSentinel \/ (Sentinel \in Requested' => Sentinel \in Requested)
    BY <1>1, QueuesStep
  <2>4. CASE Send
    <3>1. Sentinel \in Requested' => Sentinel \in Requested
      BY <1>1, <2>4, SendQueue, Names
    <3>2. (net' = "clear" => net = "clear") /\ call = "none"
      BY <2>4 DEF Send, CanCall, IsInited
    <3>3. QED
      BY <2>2, <3>1, <3>2
  <2>5. CASE PushSentinel
    BY <2>5 DEF PushSentinel
  <2>6. ASSUME net' = "clear" => net = "clear" \/ Sentinel \in Requested,
               call \in {"wake", "leave", "remove", "gone"} =>
                 call' \in {"wake", "leave", "remove", "gone"}
        PROVE  net' = "clear" \/ Sentinel \in Requested' =>
                 call' \in {"wake", "leave", "remove", "gone"}
    BY <2>2, <2>3, <2>4, <2>5, <2>6, Zenon
  <2>7. CASE NetTake
    <3>1. net' = "clear" => Sentinel \in Requested
      BY <1>1, <2>7, TakeQueue DEF NetTake
    <3>2. QED
      BY <2>6, <2>7, <3>1 DEF NetTake, cocos
  <2>8. CASE SendImmediate \/ RunFunction \/ DestroyInstance \/ Frame
    BY <2>6, <2>8 DEF SendImmediate, RunFunction, DestroyInstance, Frame, Notify, WakeNetwork,
       TakeFunctions, PutBack, netVars, cocos
  <2>9. CASE NotifyQuit \/ Leave \/ RemoveAllFunctions
    BY <2>6, <2>9 DEF NotifyQuit, WakeNetwork, Leave, RemoveAllFunctions, netVars
  <2>10. CASE NetStart \/ NetSleep \/ NetRespond \/ NetPost \/ NetClear \/ NetLeave
    BY <2>6, <2>10 DEF NetStart, NetSleep, NetRespond, NetPost, NetClear, NetLeave, cocos
  <2>11. ASSUME NEW r \in Requests, Alone(r) PROVE UNCHANGED <<netVars, cocos>>
    BY <2>11 DEF Alone, AloneStart, AlonePost, AloneLeave
  <2>12. CASE UNCHANGED <<netVars, cocos>>
    BY <2>6, <2>12 DEF netVars, cocos
  <2>13. QED
    BY <2>4, <2>5, <2>7, <2>8, <2>9, <2>10, <2>11, <2>12 DEF Next, Destroying, Network, vars
<1>6. QED
  BY <1>2, <1>3, <1>4, <1>5 DEF EndInv

-----------------------------------------------------------------------------
(* The answers.                                                            *)

LEMMA AnsweredInOrderStep ==
  ASSUME IInv, PostedInv, PendingInv, LineInv, EndInv, AnsweredInOrder, [Next]_vars
  PROVE  AnsweredInOrder'
<1>1. TypeOK
  BY DEF IInv
<1>2. PICK o, n, m : o = ran /\ n = sent /\ m = Len(ran)
  OBVIOUS
<1>3. /\ n \in Nat /\ n <= MaxRequests /\ sent' \in n..n + 1
      /\ \A r \in 1..n : kind'[r] = kind[r]
  BY <1>2, KindStep DEF PendingInv
<1>4. o \in Seq(Requests \cup {None}) /\ m \in Nat /\ m = Len(o)
      /\ \A i \in 1..m : o[i] \in Requests \cup {None}
  BY <1>2, ElementOfSeq, LenProperties DEF PostedInv
<1>5. \A i \in 1..m : o[i] # None => o[i] \in Answered
  BY <1>2 DEF Answered
<1>6. \A a \in Answered : a \in 1..n /\ \E i \in 1..m : o[i] = a
  BY <1>2 DEF PendingInv, Queued, Posted, Answered
<1>7. /\ \A i, j \in 1..m : o[i] = o[j] /\ o[i] # None => i = j
      /\ \A j \in 1..m : \A r \in 1..o[j] - 1 :
           kind[o[j]] = "queue" /\ kind[r] = "queue" => \E i \in 1..j - 1 : o[i] = r
  BY <1>2 DEF AnsweredInOrder
<1>8. ASSUME NEW j \in 1..m, NEW r \in 1..o[j] - 1, kind'[o[j]] = "queue", kind'[r] = "queue"
      PROVE  \E i \in 1..j - 1 : o[i] = r
  <2>1. o[j] # None
    BY <1>4, <1>8 DEF None
  <2>2. o[j] \in 1..n
    BY <1>5, <1>6, <2>1
  <2>3. r \in 1..n
    BY <1>3, <1>8, <2>2
  <2>4. kind[o[j]] = "queue" /\ kind[r] = "queue"
    BY <1>3, <1>8, <2>2, <2>3
  <2>5. QED
    BY <1>7, <1>8, <2>4
<1>9. CASE UNCHANGED ran
  BY <1>2, <1>4, <1>7, <1>8, <1>9 DEF AnsweredInOrder
<1>10. CASE RunFunction
  <2>1. PICK x \in Requests \cup {None} :
          ran' = Append(ran, x) /\ (RunAlone(x) \/ RunNothing(x) \/ RunDispatch(x))
    BY <1>10, RunAnswer
  <2>2. PICK u : u = Append(o, x)
    OBVIOUS
  <2>3. Len(u) = m + 1 /\ (\A i \in 1..m : u[i] = o[i]) /\ u[m + 1] = x
    BY <1>4, <2>2, AppendProperties
  <2>4. ran' = u /\ UNCHANGED kind
    BY <1>2, <1>10, <2>1, <2>2 DEF RunFunction
  <2>5. x \notin Answered
    BY <2>1, Names DEF RunAlone, RunNothing, RunDispatch, Answered
  <2>6. \A i \in 1..m : o[i] = x => x = None
    BY <1>5, <2>5
  <2>7. \A i \in 1..m + 1 : i = m + 1 \/ i \in 1..m
    BY <1>4
  <2>8. ASSUME NEW i \in 1..m + 1, NEW j \in 1..m + 1, u[i] = u[j], u[i] # None
        PROVE  i = j
    <3>1. CASE i = m + 1 /\ j = m + 1
      BY <3>1
    <3>2. CASE i = m + 1 /\ j \in 1..m
      BY <2>3, <2>6, <2>8, <3>2
    <3>3. CASE i \in 1..m /\ j = m + 1
      BY <2>3, <2>6, <2>8, <3>3
    <3>4. CASE i \in 1..m /\ j \in 1..m
      BY <1>7, <2>3, <2>8, <3>4
    <3>5. QED
      BY <2>7, <3>1, <3>2, <3>3, <3>4
  <2>9. ASSUME NEW r \in 1..x - 1, kind[x] = "queue", kind[r] = "queue"
        PROVE  \E i \in 1..m : o[i] = r
    <3>1. x # None /\ x \in Nat /\ r \in Nat /\ r >= 1 /\ r < x
      BY <2>1, <2>9, Names DEF None
    <3>2. RunDispatch(x)
      BY <2>1, <2>9, <3>1 DEF RunAlone, RunNothing, Posted
    <3>3. Queued(x) /\ responseQueue # <<>> /\ x = Head(responseQueue)
      BY <3>2 DEF RunDispatch
    <3>4. x \in 1..n /\ r \in 1..n
      BY <1>2, <1>3, <3>1, <3>3 DEF Queued
    <3>5. Queued(r) /\ ~Cleared
      BY <1>2, <2>9, <3>3, <3>4 DEF Queued, EndInv
    <3>6. r \in Answered \cup Responses \cup Processed \cup Requested
      BY <1>2, <3>4, <3>5 DEF EndInv
    <3>7. PICK s : s = responseQueue
      OBVIOUS
    <3>8. s \in Seq(Requests) /\ Increasing(s) /\ Responses = ToSet(s)
      BY <1>1, <3>7 DEF TypeOK, LineInv, Responses
    <3>9. x \in ToSet(s) /\ ToSet(Tail(s)) = ToSet(s) \ {x} /\ \A y \in ToSet(Tail(s)) : x < y
      BY <3>3, <3>7, <3>8, TailLine, Names
    <3>10. r \notin Responses
      BY <3>1, <3>8, <3>9
    <3>11. \A b \in Processed \cup Requested : x < b
      BY <3>8, <3>9 DEF LineInv, Precede
    <3>12. r \notin Processed \cup Requested
      BY <3>1, <3>11
    <3>13. r \in Answered
      BY <3>6, <3>10, <3>12
    <3>14. QED
      BY <1>6, <3>13
  <2>10. ASSUME NEW j \in 1..m + 1, NEW r \in 1..u[j] - 1,
                kind[u[j]] = "queue", kind[r] = "queue"
         PROVE  \E i \in 1..j - 1 : u[i] = r
    <3>1. CASE j = m + 1
      <4>1. u[j] = x
        BY <2>3, <3>1
      <4>2. PICK i \in 1..m : o[i] = r
        BY <2>9, <2>10, <4>1
      <4>3. i \in 1..j - 1
        BY <1>4, <3>1
      <4>4. QED
        BY <2>3, <4>2, <4>3
    <3>2. CASE j \in 1..m
      <4>1. u[j] = o[j]
        BY <2>3, <3>2
      <4>2. PICK i \in 1..j - 1 : o[i] = r
        BY <1>7, <2>10, <3>2, <4>1
      <4>3. i \in 1..m
        BY <1>4, <3>2
      <4>4. QED
        BY <2>3, <4>2, <4>3
    <3>3. QED
      BY <2>7, <3>1, <3>2
  <2>11. QED
    BY <2>3, <2>4, <2>8, <2>10 DEF AnsweredInOrder
<1>11. CASE Send \/ SendImmediate \/ DestroyInstance \/ Frame
  BY <1>9, <1>11 DEF Send, SendImmediate, DestroyInstance, Frame, Notify, TakeFunctions, PutBack,
     perform
<1>12. CASE Destroying
  BY <1>9, <1>12 DEF Destroying, PushSentinel, NotifyQuit, Leave, RemoveAllFunctions, perform
<1>13. ASSUME NEW f \in Requests \cup {Dispatch}, Post(f) PROVE UNCHANGED ran
  BY <1>1, <1>13, PostPending
<1>14. CASE Network
  BY <1>9, <1>13, <1>14 DEF Network, NetStart, NetSleep, NetTake, NetRespond, NetPost, NetClear,
     NetLeave, perform
<1>15. ASSUME NEW r \in Requests, Alone(r) PROVE UNCHANGED ran
  BY <1>13, <1>15 DEF Alone, AloneStart, AlonePost, AloneLeave, perform
<1>16. CASE UNCHANGED vars
  BY <1>9, <1>16 DEF vars, perform
<1>17. QED
  BY <1>9, <1>10, <1>11, <1>12, <1>14, <1>15, <1>16 DEF Next

-----------------------------------------------------------------------------
(* The dispatches that are pending.                                        *)

DispatchIn(s) == {i \in 1..Len(s) : s[i] = Dispatch}
Many(s) == Cardinality(DispatchIn(s))

LEMMA DispatchFinite ==
  ASSUME NEW s \in Functions
  PROVE  IsFiniteSet(DispatchIn(s)) /\ Many(s) \in Nat
<1>1. Len(s) \in Nat
  BY LenProperties DEF Functions
<1>2. IsFiniteSet(1..Len(s))
  BY <1>1, FS_Interval
<1>3. DispatchIn(s) \in SUBSET (1..Len(s))
  BY DEF DispatchIn
<1>4. IsFiniteSet(DispatchIn(s))
  BY <1>2, <1>3, FS_Subset
<1>5. QED
  BY <1>4, FS_CardinalityType DEF Many

LEMMA DispatchAppend ==
  ASSUME NEW s \in Functions, NEW f \in Requests \cup {Dispatch}
  PROVE  Many(Append(s, f)) = Many(s) + One(f = Dispatch)
<1>1. PICK t, n : t = Append(s, f) /\ n = Len(s)
  OBVIOUS
<1>2. /\ Len(t) = n + 1 /\ t[n + 1] = f /\ n \in Nat /\ \A i \in 1..n : t[i] = s[i]
  BY <1>1, AppendProperties, LenProperties DEF Functions
<1>3. IsFiniteSet(DispatchIn(s)) /\ Many(s) \in Nat
  BY DispatchFinite
<1>4. 1..n + 1 = 1..n \cup {n + 1} /\ n + 1 \notin 1..n
  BY <1>2
<1>5. CASE f = Dispatch
  <2>1. DispatchIn(t) = DispatchIn(s) \cup {n + 1} /\ n + 1 \notin DispatchIn(s)
    BY <1>1, <1>2, <1>4, <1>5 DEF DispatchIn
  <2>2. Many(t) = Many(s) + 1
    BY <1>3, <2>1, FS_AddElement DEF Many
  <2>3. QED
    BY <1>1, <1>5, <2>2 DEF One
<1>6. CASE f # Dispatch
  <2>1. DispatchIn(t) = DispatchIn(s)
    BY <1>1, <1>2, <1>4, <1>6 DEF DispatchIn
  <2>2. QED
    BY <1>1, <1>3, <1>6, <2>1 DEF Many, One
<1>7. QED
  BY <1>5, <1>6

LEMMA DispatchTail ==
  ASSUME NEW s \in Functions, s # <<>>
  PROVE  Many(s) = Many(Tail(s)) + One(s[1] = Dispatch)
<1>1. PICK t, n : t = Tail(s) /\ n = Len(s)
  OBVIOUS
<1>2. /\ t \in Functions /\ Len(t) = n - 1 /\ n \in Nat /\ 1 \in 1..n
      /\ \A i \in 1..n - 1 : t[i] = s[i + 1]
  BY <1>1, TailElements, LenProperties DEF Functions
<1>3. PICK A, B : A = DispatchIn(t) /\ B = DispatchIn(s) \ {1}
  OBVIOUS
<1>4. \A i : i \in A <=> i \in 1..n - 1 /\ s[i + 1] = Dispatch
  BY <1>2, <1>3 DEF DispatchIn
<1>5. \A i : i \in B <=> i \in 1..n /\ i # 1 /\ s[i] = Dispatch
  BY <1>1, <1>3 DEF DispatchIn
<1>6. PICK F : F = [i \in A |-> i + 1]
  OBVIOUS
<1>7. F \in [A -> B]
  <2>1. \A i \in A : i + 1 \in B
    <3>1. \A i \in 1..n - 1 : i + 1 \in 1..n /\ i + 1 # 1
      BY <1>2
    <3>2. QED
      BY <1>4, <1>5, <3>1
  <2>2. QED
    BY <1>6, <2>1
<1>8. \A i, j \in A : F[i] = F[j] => i = j
  BY <1>4, <1>6
<1>9. \A k \in B : \E i \in A : F[i] = k
  <2>1. \A k \in B : k - 1 \in 1..n - 1 /\ (k - 1) + 1 = k
    BY <1>2, <1>5
  <2>2. \A k \in B : k - 1 \in A
    BY <1>4, <1>5, <2>1
  <2>3. \A k \in B : F[k - 1] = k
    BY <1>6, <2>1, <2>2
  <2>4. QED
    BY <2>2, <2>3
<1>10. ExistsBijection(A, B)
  <2>1. F \in Bijection(A, B)
    BY <1>7, <1>8, <1>9, Fun_IsBij
  <2>2. QED
    BY <2>1, Fun_ExistsBij
<1>11. IsFiniteSet(A) /\ IsFiniteSet(DispatchIn(s)) /\ Many(s) \in Nat /\ Many(t) \in Nat
  BY <1>2, <1>3, DispatchFinite
<1>12. Cardinality(B) = Many(t)
  BY <1>3, <1>10, <1>11, FS_Bijection DEF Many
<1>13. CASE s[1] = Dispatch
  <2>1. 1 \in DispatchIn(s)
    BY <1>1, <1>2, <1>13 DEF DispatchIn
  <2>2. Cardinality(B) = Many(s) - 1
    BY <1>3, <1>11, <2>1, FS_RemoveElement DEF Many
  <2>3. QED
    BY <1>1, <1>11, <1>12, <1>13, <2>2 DEF One
<1>14. CASE s[1] # Dispatch
  <2>1. B = DispatchIn(s)
    BY <1>3, <1>14 DEF DispatchIn
  <2>2. QED
    BY <1>1, <1>11, <1>12, <1>14, <2>1 DEF One, Many
<1>15. QED
  BY <1>13, <1>14

LEMMA DispatchStep ==
  ASSUME IInv, PostedInv, PendingInv, LineInv, EndInv, DispatchPerResponse, [Next]_vars
  PROVE  DispatchPerResponse'
<1>1. TypeOK /\ Quiet /\ Working
  BY DEF IInv
<1>2. PICK p, s, d : p = pending /\ s = responseQueue /\ d = Many(p)
  OBVIOUS
<1>3. /\ p \in Functions /\ s \in Seq(Requests) /\ d \in Nat /\ Len(s) \in Nat
  BY <1>1, <1>2, PendingType, DispatchFinite, LenProperties DEF TypeOK
<1>4. scheduler => Len(s) = d + One(net = "post")
  BY <1>2 DEF DispatchPerResponse, Dispatches, Many, DispatchIn, One
<1>5. ASSUME scheduler' => Len(responseQueue') = Many(pending') + One(net' = "post")
      PROVE  DispatchPerResponse'
  BY <1>5 DEF DispatchPerResponse, Dispatches, Many, DispatchIn, One
<1>6. ASSUME pending' = p, responseQueue' = s, net' = "post" <=> net = "post",
             scheduler' => scheduler
      PROVE  DispatchPerResponse'
  BY <1>2, <1>4, <1>5, <1>6 DEF One
<1>7. CASE Send \/ SendImmediate \/ DestroyInstance
  <2>1. pending' = p
    BY <1>2, <1>7 DEF Send, SendImmediate, DestroyInstance, perform, pending
  <2>2. QED
    BY <1>2, <1>6, <1>7, <2>1 DEF Send, IsInited, SendImmediate, DestroyInstance, netVars, client
<1>8. CASE Frame
  <2>1. pending' = p
    BY <1>1, <1>2, <1>8, FramePending DEF Frame, Notify, perform
  <2>2. QED
    BY <1>2, <1>6, <1>8, <2>1 DEF Frame, Notify, WakeNetwork, TakeFunctions, PutBack, netVars,
       client
<1>9. CASE RunFunction
  <2>1. PICK x \in Requests \cup {None} :
          ran' = Append(ran, x) /\ (RunAlone(x) \/ RunNothing(x) \/ RunDispatch(x))
    BY <1>9, RunAnswer
  <2>2. p # <<>> /\ pending' = Tail(p)
    BY <1>1, <1>2, <1>9, RunPending
  <2>3. PICK t, e : t = Tail(p) /\ e = Many(t)
    OBVIOUS
  <2>4. e \in Nat /\ d = e + One(p[1] = Dispatch)
    <3>1. t \in Functions
      BY <1>3, <2>2, <2>3, TailElements DEF Functions
    <3>2. QED
      BY <1>2, <1>3, <2>2, <2>3, <3>1, DispatchFinite, DispatchTail
  <2>5. UNCHANGED <<scheduler, net>>
    BY <1>9 DEF RunFunction, netVars
  <2>6. CASE RunAlone(x)
    <3>1. responseQueue' = s /\ p[1] # Dispatch
      BY <1>2, <1>3, <2>6, Names DEF RunAlone, Posted, sent, Dispatch, TypeOK
    <3>2. d = e
      BY <2>4, <3>1 DEF One
    <3>3. QED
      BY <1>4, <1>5, <2>2, <2>3, <2>5, <3>1, <3>2
  <2>7. CASE RunNothing(x)
    <3>1. s = <<>> /\ p[1] = Dispatch
      BY <1>2, <2>7 DEF RunNothing
    <3>2. d = e + 1 /\ Len(s) = 0
      BY <2>4, <3>1, EmptySeq DEF One
    <3>3. ~scheduler
      BY <1>4, <2>4, <3>2 DEF One
    <3>4. QED
      BY <1>5, <2>5, <3>3
  <2>8. CASE RunDispatch(x)
    <3>1. s # <<>> /\ p[1] = Dispatch /\ responseQueue' = Tail(s)
      BY <1>2, <2>8 DEF RunDispatch
    <3>2. d = e + 1 /\ Len(Tail(s)) = Len(s) - 1
      BY <1>3, <2>4, <3>1, TailElements DEF One
    <3>3. scheduler => Len(Tail(s)) = e + One(net = "post")
      BY <1>3, <1>4, <2>4, <3>2 DEF One
    <3>4. QED
      BY <1>5, <2>2, <2>3, <2>5, <3>1, <3>3
  <2>9. QED
    BY <2>1, <2>6, <2>7, <2>8
<1>10. CASE PushSentinel \/ NotifyQuit \/ Leave
  <2>1. pending' = p
    BY <1>2, <1>10 DEF PushSentinel, NotifyQuit, Leave, perform, pending
  <2>2. QED
    BY <1>2, <1>6, <1>10, <2>1 DEF PushSentinel, NotifyQuit, WakeNetwork, Leave, netVars, client
<1>11. CASE RemoveAllFunctions
  <2>1. ~scheduler'
    BY <1>1, <1>11 DEF RemoveAllFunctions, client, Quiet
  <2>2. QED
    BY <1>5, <2>1
<1>12. ASSUME UNCHANGED perform PROVE pending' = p
  BY <1>2, <1>12 DEF perform, pending
<1>13. CASE NetStart \/ NetSleep \/ NetTake \/ NetLeave
  BY <1>2, <1>6, <1>12, <1>13 DEF NetStart, NetSleep, NetTake, NetLeave, client
<1>14. CASE NetRespond
  <2>1. PICK c : c = current
    OBVIOUS
  <2>2. /\ c \in Requests /\ responseQueue' = Append(s, c) /\ pending' = p
        /\ net = "process" /\ net' = "post" /\ UNCHANGED scheduler
    BY <1>1, <1>2, <1>12, <1>14, <2>1 DEF NetRespond, Working
  <2>3. Len(Append(s, c)) = Len(s) + 1
    BY <1>3, <2>2, AppendProperties
  <2>4. scheduler => Len(Append(s, c)) = d + 1
    BY <1>3, <1>4, <2>2, <2>3 DEF One
  <2>5. QED
    BY <1>2, <1>5, <2>2, <2>4 DEF One
<1>15. CASE NetPost
  <2>1. net = "post" /\ net' = "wait" /\ responseQueue' = s /\ UNCHANGED scheduler
    BY <1>2, <1>15 DEF NetPost, client
  <2>2. CASE scheduler
    <3>1. pending' = Append(p, Dispatch)
      BY <1>1, <1>2, <1>15, <2>2, PostPending DEF NetPost
    <3>2. Many(Append(p, Dispatch)) = d + 1
      BY <1>2, <1>3, DispatchAppend DEF One
    <3>3. QED
      BY <1>3, <1>4, <1>5, <2>1, <3>1, <3>2 DEF One
  <2>3. QED
    BY <1>5, <2>1, <2>2
<1>16. CASE NetClear
  <2>1. ~scheduler
    BY <1>1, <1>16 DEF NetClear, EndInv, Quiet
  <2>2. QED
    BY <1>5, <1>16, <2>1 DEF NetClear
<1>17. ASSUME NEW r \in Requests, Alone(r) PROVE DispatchPerResponse'
  <2>1. UNCHANGED <<scheduler, net>> /\ responseQueue' = s
    BY <1>2, <1>17 DEF Alone, AloneStart, AlonePost, AloneLeave, client, netVars
  <2>2. CASE AlonePost(r) /\ scheduler
    <3>1. pending' = Append(p, r)
      BY <1>1, <1>2, <2>2, PostPending DEF AlonePost
    <3>2. r # Dispatch
      BY Names
    <3>3. Many(Append(p, r)) = d
      BY <1>2, <1>3, <3>2, DispatchAppend DEF One
    <3>4. QED
      BY <1>4, <1>5, <2>1, <3>1, <3>3
  <2>3. CASE ~scheduler
    BY <1>5, <2>1, <2>3
  <2>4. CASE AloneStart(r) \/ AloneLeave(r)
    BY <1>6, <1>12, <2>1, <2>4 DEF AloneStart, AloneLeave
  <2>5. QED
    BY <1>17, <2>2, <2>3, <2>4 DEF Alone
<1>18. CASE UNCHANGED vars
  BY <1>2, <1>6, <1>12, <1>18 DEF vars, client, netVars
<1>19. QED
  BY <1>7, <1>8, <1>9, <1>10, <1>11, <1>13, <1>14, <1>15, <1>16, <1>17, <1>18
     DEF Next, Destroying, Network

-----------------------------------------------------------------------------

LEMMA OrderInvInit == Init => OrderInv
<1> SUFFICES ASSUME Init PROVE OrderInv
  OBVIOUS
<1>1. PICK e : e = <<>>
  OBVIOUS
<1>2. Len(e) = 0 /\ e \in Seq(Requests \cup {None, Dispatch}) /\ e \in Seq(Requests \cup {None})
      /\ ToSet(e) = {} /\ Increasing(e) /\ e \o e = e
  BY <1>1, EmptySeq, EmptyLine, ConcatEmptySeq
<1>3. /\ pending = e /\ posted = e /\ ran = e /\ kind = e /\ requestQueue = e
      /\ responseQueue = e /\ current = None /\ net = "none"
  BY <1>1, <1>2 DEF Init, pending
<1>4. Answered = {} /\ Responses = {} /\ Requested = {} /\ Processed = {} /\ sent = 0
  BY <1>2, <1>3 DEF Answered, Responses, Requested, Processed, sent
<1>5. \A i : i \notin 1..0
  OBVIOUS
<1>6. PostedInv
  BY <1>2, <1>3, <1>5 DEF PostedInv
<1>7. PendingInv
  BY <1>2, <1>3, <1>4, <1>5 DEF PendingInv, Init
<1>8. LineInv
  BY <1>2, <1>3, <1>4 DEF LineInv, Precede
<1>9. EndInv
  BY <1>3, <1>4, <1>5 DEF EndInv, Cleared
<1>10. AnsweredInOrder
  BY <1>2, <1>3, <1>5 DEF AnsweredInOrder
<1>11. DispatchPerResponse
  <2>1. Dispatches = {}
    BY <1>2, <1>3, <1>5 DEF Dispatches
  <2>2. Cardinality({}) = 0
    BY FS_EmptySet
  <2>3. QED
    BY <1>2, <1>3, <2>1, <2>2 DEF DispatchPerResponse
<1>12. QED
  BY <1>6, <1>7, <1>8, <1>9, <1>10, <1>11 DEF OrderInv

(* The invariant that orders the answers holds in every reachable state.   *)
THEOREM OrderInvCorrect == Spec => []OrderInv
<1>1. IInv /\ OrderInv /\ [Next]_vars => OrderInv'
  BY PostedStep, PendingStep, LineStep, EndStep, AnsweredInOrderStep, DispatchStep DEF OrderInv
<1>2. QED
  BY <1>1, IInvCorrect, OrderInvInit, PTL DEF Spec

LEMMA RunInOrder ==
  ASSUME TypeOK, PostedInv
  PROVE  RunInPostedOrder
<1>1. PICK s, p, n : s = posted /\ p = pending /\ n = Len(ran)
  OBVIOUS
<1>2. PICK S : S = Requests \cup {None, Dispatch}
  OBVIOUS
<1>3. /\ s \in Seq(S) /\ p \in Seq(S) /\ n \in Nat /\ Len(p) \in Nat
      /\ Len(s) = n + Len(p) /\ \A i \in 1..Len(p) : s[n + i] = p[i]
  <2>1. p \in Functions
    BY <1>1, PendingType
  <2>2. Functions \subseteq Seq(S)
    BY <1>2, SeqMonotonic DEF Functions
  <2>3. ran \in Seq(Requests \cup {None})
    BY DEF PostedInv
  <2>4. QED
    BY <1>1, <1>2, <2>1, <2>2, <2>3, LenProperties DEF PostedInv
<1>4. PICK f : f = [i \in 1..n |-> s[i]]
  OBVIOUS
<1>5. f \in Seq(S) /\ Len(f) = n /\ \A i \in 1..n : f[i] = s[i]
  <2>1. \A i \in 1..n : s[i] \in S
    <3>1. 1..n \subseteq 1..Len(s)
      BY <1>3
    <3>2. QED
      BY <1>3, <3>1, ElementOfSeq
  <2>2. f \in [1..n -> S]
    BY <1>4, <2>1
  <2>3. f \in Seq(S)
    BY <1>3, <2>2
  <2>4. DOMAIN f = 1..n
    BY <1>4
  <2>5. QED
    BY <1>3, <1>4, <2>3, <2>4, LenProperties
<1>6. PICK t : t = f \o p
  OBVIOUS
<1>7. /\ t \in Seq(S) /\ Len(t) = n + Len(p)
      /\ \A i \in 1..n + Len(p) : t[i] = IF i <= n THEN f[i] ELSE p[i - n]
  BY <1>3, <1>5, <1>6, ConcatProperties
<1>8. ASSUME NEW i \in 1..n + Len(p) PROVE s[i] = t[i]
  <2>1. CASE i <= n
    BY <1>3, <1>5, <1>7, <2>1
  <2>2. CASE ~(i <= n)
    <3>1. i - n \in 1..Len(p) /\ n + (i - n) = i
      BY <1>3, <2>2
    <3>2. s[i] = p[i - n]
      BY <1>3, <3>1
    <3>3. QED
      BY <1>7, <2>2, <3>2
  <2>3. QED
    BY <2>1, <2>2
<1>9. s = t
  BY <1>3, <1>7, <1>8, SeqEqual
<1>10. posted = [i \in 1..Len(ran) |-> posted[i]] \o pending
  BY <1>1, <1>4, <1>6, <1>9
<1>11. QED
  BY <1>10 DEF RunInPostedOrder, PostedInv

(* The game gets one answer at a time and in order: there is a dispatch for*)
(* every response, no request is answered twice or before one of the queue *)
(* that was sent before it, and the functions run as they were posted.     *)
THEOREM AnswersInOrderCorrect == Spec => []AnswersInOrder
<1>1. IInv /\ OrderInv => AnswersInOrder
  BY RunInOrder DEF IInv, OrderInv, AnswersInOrder
<1>2. QED
  BY <1>1, IInvCorrect, OrderInvCorrect, PTL
=============================================================================
