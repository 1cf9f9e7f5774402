----------------------------- MODULE HttpClient -----------------------------
(***************************************************************************)
(* cc::network::HttpClient (cocos/network/HttpClient.cpp) and the queue of *)
(* functions of cc::Scheduler it answers through.                          *)
(*                                                                         *)
(* The cocos thread queues requests; one network thread, created with the  *)
(* first request, sends them one by one.  Immediate requests run in a pool.*)
(* Each thread posts a function for the cocos thread, which calls the game *)
(* back.  Engine::destroy destroys the client, and whoever is last to leave*)
(* it, the cocos thread or one of the others, deletes it.                  *)
(***************************************************************************)
EXTENDS Naturals, Sequences, FiniteSets, SequencesExt

CONSTANTS
  Destroys,       \* whether the engine may be destroyed
  MaxRequests     \* bound: requests sent in a behaviour

ASSUME HttpAssumption == Destroys \in BOOLEAN /\ MaxRequests \in Nat

Requests == 1..MaxRequests
None == 0
Sentinel == MaxRequests + 1       \* _requestSentinel
Dispatch == MaxRequests + 1       \* a posted dispatchResponseCallbacks

VARIABLES
  requestQueue, responseQueue,
  scheduler,      \* the client's _scheduler is not reset
  threadCount, deleted,
  net, current,   \* the network thread and the request it works on
  alone,          \* where the pool is with each immediate request
  call,           \* the step that the cocos thread's call has reached
  frame,          \* whether it runs the functions it has taken
  functions,      \* the scheduler's _functionsToPerform
  taken,          \* those the cocos thread took and has not called
  kind,           \* history: "queue" or "alone" of each request, in order
  posted,         \* history: the functions posted and not thrown away
  ran             \* history: what each of them called back, None for nothing

client == <<requestQueue, responseQueue, scheduler>>
count == <<threadCount, deleted>>
netVars == <<net, current>>
cocos == <<call, frame>>
perform == <<functions, taken, posted, ran>>
vars == <<client, count, netVars, alone, cocos, perform, kind>>

sent == Len(kind)
IsInited == net # "none"
pending == taken \o functions      \* in the order they will be called

Init ==
  /\ requestQueue = <<>> /\ responseQueue = <<>> /\ scheduler = TRUE
  /\ threadCount = 1 /\ deleted = FALSE
  /\ net = "none" /\ current = None
  /\ alone = [r \in Requests |-> "none"]
  /\ call = "none" /\ frame = "idle"
  /\ functions = <<>> /\ taken = <<>> /\ posted = <<>> /\ ran = <<>>
  /\ kind = <<>>

-----------------------------------------------------------------------------
(* What several threads call.                                              *)

Increase ==
  /\ threadCount' = threadCount + 1 /\ UNCHANGED deleted

(* The last one to leave deletes the client.                               *)
DecreaseAndMayDelete ==
  /\ threadCount' = threadCount - 1
  /\ deleted' = (threadCount = 1)

(* performFunctionInCocosThread, under the mutex that guards _scheduler.   *)
(* The faulty form does not look whether it has been reset.                *)
PostAnyway(f) ==
  /\ functions' = Append(functions, f) /\ posted' = Append(posted, f)
  /\ UNCHANGED <<taken, ran>>

Post(f) ==
  IF scheduler
  THEN /\ functions' = Append(functions, f) /\ posted' = Append(posted, f)
       /\ UNCHANGED <<taken, ran>>
  ELSE UNCHANGED perform

-----------------------------------------------------------------------------
(* The cocos thread.                                                       *)

CanCall == call = "none" /\ sent < MaxRequests

(* send: the network thread is created with the first request and notified *)
(* outside the lock.                                                       *)
Send ==
  /\ CanCall
  /\ kind' = Append(kind, "queue")
  /\ requestQueue' = Append(requestQueue, sent + 1)
  /\ net' = IF IsInited THEN net ELSE "new"
  /\ call' = "notify"
  /\ UNCHANGED <<responseQueue, scheduler, count, current, alone, frame, perform>>

(* The only waiter is the network thread, if it waits.                     *)
WakeNetwork == net' = IF net = "asleep" THEN "wait" ELSE net

NotifyNobody ==
  /\ call = "notify"
  /\ call' = "none"
  /\ UNCHANGED <<client, count, netVars, alone, frame, perform, kind>>

Notify ==
  /\ call = "notify"
  /\ WakeNetwork
  /\ call' = "none"
  /\ UNCHANGED <<client, count, current, alone, frame, perform, kind>>

SendImmediate ==
  /\ CanCall
  /\ kind' = Append(kind, "alone")
  /\ alone' = [alone EXCEPT ![sent + 1] = "pushed"]
  /\ UNCHANGED <<client, count, netVars, cocos, perform>>

(* The end of a frame: the functions are taken, unless the test without    *)
(* the lock misses one just posted, ...                                    *)
TakeFunctions ==
  /\ call = "none" /\ frame = "idle" /\ functions # <<>>
  /\ taken' = functions /\ functions' = <<>>
  /\ frame' = "run"
  /\ UNCHANGED <<client, count, netVars, alone, call, posted, ran, kind>>

(* ... called one by one (a call-back may send requests in its turn), a    *)
(* dispatch calls back the oldest response, if there is one, ...           *)
RunFunction ==
  /\ call = "none" /\ frame = "run" /\ taken # <<>>
  /\ taken' = Tail(taken)
  /\ IF Head(taken) # Dispatch
     THEN ran' = Append(ran, Head(taken)) /\ UNCHANGED responseQueue
     ELSE IF responseQueue = <<>>
          THEN ran' = Append(ran, None) /\ UNCHANGED responseQueue
          ELSE /\ ran' = Append(ran, Head(responseQueue))
               /\ responseQueue' = Tail(responseQueue)
  /\ UNCHANGED <<requestQueue, scheduler, count, netVars, alone, cocos, functions, posted, kind>>

(* ... and put back in front after the last one or after 16 ms; the faulty *)
(* form puts the rest at the end.                                          *)
PutBackLast ==
  /\ call = "none" /\ frame = "run"
  /\ functions' = functions \o taken /\ taken' = <<>>
  /\ frame' = "idle"
  /\ UNCHANGED <<client, count, netVars, alone, call, posted, ran, kind>>

PutBack ==
  /\ call = "none" /\ frame = "run"
  /\ functions' = taken \o functions /\ taken' = <<>>
  /\ frame' = "idle"
  /\ UNCHANGED <<client, count, netVars, alone, call, posted, ran, kind>>

(* Engine::destroy calls destroyInstance between frames, which resets the  *)
(* scheduler, ...                                                          *)
DestroyInstance ==
  /\ Destroys /\ call = "none" /\ frame = "idle"
  /\ scheduler' = FALSE
  /\ call' = "sentinel"
  /\ UNCHANGED <<requestQueue, responseQueue, count, netVars, alone, frame, perform, kind>>

(* ... tells the network thread to quit (the faulty form lets it sleep) ...*)
PushSentinelQuietly ==
  /\ call = "sentinel"
  /\ requestQueue' = Append(requestQueue, Sentinel)
  /\ call' = "leave"
  /\ UNCHANGED <<responseQueue, scheduler, count, netVars, alone, frame, perform, kind>>

PushSentinel ==
  /\ call = "sentinel"
  /\ requestQueue' = Append(requestQueue, Sentinel)
  /\ call' = "wake"
  /\ UNCHANGED <<responseQueue, scheduler, count, netVars, alone, frame, perform, kind>>

NotifyQuit ==
  /\ call = "wake"
  /\ WakeNetwork
  /\ call' = "leave"
  /\ UNCHANGED <<client, count, current, alone, frame, perform, kind>>

(* ... and leaves.                                                         *)
Leave ==
  /\ call = "leave"
  /\ DecreaseAndMayDelete
  /\ call' = "remove"
  /\ UNCHANGED <<client, netVars, alone, frame, perform, kind>>

(* The engine then throws away what is posted.                             *)
RemoveAllFunctions ==
  /\ call = "remove"
  /\ functions' = <<>> /\ posted' = ran
  /\ call' = "gone"
  /\ UNCHANGED <<client, count, netVars, alone, frame, taken, ran, kind>>

-----------------------------------------------------------------------------
(* The network thread.  It counts itself once it runs; by then the client  *)
(* may be deleted, and what it does is undefined.  In the faulty form it   *)
(* never counts itself.                                                    *)
NetStartUncounted ==
  /\ net = "new"
  /\ net' = IF deleted THEN "undefined" ELSE "wait"
  /\ UNCHANGED <<client, count, current, alone, cocos, perform, kind>>

NetStart ==
  /\ net = "new"
  /\ IF deleted THEN net' = "undefined" /\ UNCHANGED count
                ELSE net' = "wait" /\ Increase
  /\ UNCHANGED <<client, current, alone, cocos, perform, kind>>

NetSleep ==
  /\ net = "wait" /\ requestQueue = <<>>
  /\ net' = "asleep"
  /\ UNCHANGED <<client, count, current, alone, cocos, perform, kind>>

NetTake ==
  /\ net = "wait" /\ requestQueue # <<>>
  /\ requestQueue' = Tail(requestQueue)
  /\ IF Head(requestQueue) = Sentinel
     THEN net' = "clear" /\ UNCHANGED current
     ELSE net' = "process" /\ current' = Head(requestQueue)
  /\ UNCHANGED <<responseQueue, scheduler, count, alone, cocos, perform, kind>>

(* processResponse ends, with an answer or an error.                       *)
NetRespond ==
  /\ net = "process"
  /\ responseQueue' = Append(responseQueue, current)
  /\ current' = None
  /\ net' = "post"
  /\ UNCHANGED <<requestQueue, scheduler, count, alone, cocos, perform, kind>>

NetPost ==
  /\ net = "post"
  /\ Post(Dispatch)
  /\ net' = "wait"
  /\ UNCHANGED <<client, count, current, alone, cocos, kind>>

NetClear ==
  /\ net = "clear"
  /\ requestQueue' = <<>> /\ responseQueue' = <<>>
  /\ net' = "leave"
  /\ UNCHANGED <<scheduler, count, current, alone, cocos, perform, kind>>

NetLeave ==
  /\ net = "leave"
  /\ DecreaseAndMayDelete
  /\ net' = "ended"
  /\ UNCHANGED <<client, current, alone, cocos, perform, kind>>

-----------------------------------------------------------------------------
(* networkThreadAlone, a task of the pool.                                 *)
AloneStart(r) ==
  /\ alone[r] = "pushed"
  /\ IF deleted
     THEN alone' = [alone EXCEPT ![r] = "undefined"] /\ UNCHANGED count
     ELSE alone' = [alone EXCEPT ![r] = "process"] /\ Increase
  /\ UNCHANGED <<client, netVars, cocos, perform, kind>>

AlonePost(r) ==
  /\ alone[r] = "process"
  /\ Post(r)
  /\ alone' = [alone EXCEPT ![r] = "leave"]
  /\ UNCHANGED <<client, count, netVars, cocos, kind>>

AloneLeave(r) ==
  /\ alone[r] = "leave"
  /\ DecreaseAndMayDelete
  /\ alone' = [alone EXCEPT ![r] = "ended"]
  /\ UNCHANGED <<client, netVars, cocos, perform, kind>>

-----------------------------------------------------------------------------
Frame == Notify \/ TakeFunctions \/ PutBack
Destroying == PushSentinel \/ NotifyQuit \/ Leave \/ RemoveAllFunctions
Network ==
  NetStart \/ NetSleep \/ NetTake \/ NetRespond \/ NetPost \/ NetClear \/ NetLeave
Alone(r) == AloneStart(r) \/ AlonePost(r) \/ AloneLeave(r)

Next ==
  \/ Send \/ SendImmediate \/ DestroyInstance
  \/ Frame \/ RunFunction \/ Destroying \/ Network
  \/ \E r \in Requests : Alone(r)

Spec == Init /\ [][Next]_vars

(* The engine's frames go on, its calls return, threads are scheduled and  *)
(* a transfer ends (it has time limits); now and then a frame calls one of *)
(* its functions before the 16 ms are over.                                *)
FairSpec ==
  /\ Spec
  /\ WF_vars(Frame) /\ SF_vars(RunFunction) /\ WF_vars(Destroying) /\ WF_vars(Network)
  /\ \A r \in Requests : WF_vars(Alone(r))

-----------------------------------------------------------------------------
(* Properties.                                                             *)

(* Every variable has its type.                                            *)
TypeOK ==
  /\ requestQueue \in Seq(Requests \cup {Sentinel}) /\ responseQueue \in Seq(Requests)
  /\ scheduler \in BOOLEAN /\ deleted \in BOOLEAN
  /\ threadCount \in 0..MaxRequests + 2
  /\ net \in {"none", "new", "wait", "asleep", "process", "post", "clear", "leave",
              "ended", "undefined"}
  /\ current \in Requests \cup {None}
  /\ alone \in [Requests -> {"none", "pushed", "process", "leave", "ended", "undefined"}]
  /\ call \in {"none", "notify", "sentinel", "wake", "leave", "remove", "gone"}
  /\ frame \in {"idle", "run"}
  /\ functions \in Seq(Requests \cup {Dispatch}) /\ taken \in Seq(Requests \cup {Dispatch})
  /\ kind \in Seq({"queue", "alone"}) /\ sent <= MaxRequests

(* Nobody who has counted himself works on a deleted client: it is deleted *)
(* by the last one to leave, and only once.                                *)
NetCounted == net \in {"wait", "asleep", "process", "post", "clear", "leave"}
AloneCounted == {r \in Requests : alone[r] \in {"process", "leave"}}
LastOneDeletes ==
  deleted => /\ call \in {"remove", "gone"}
             /\ ~NetCounted /\ AloneCounted = {}

(* The client lives as long as whoever uses it, and no longer.             *)
ClientLife == TypeOK /\ LastOneDeletes

(* No function posted for the client is left to run once the engine is     *)
(* gone, so none runs on a deleted client, whatever the threads that quit  *)
(* late had in hand.                                                       *)
NoStrayFunction ==
  /\ deleted => frame = "idle"
  /\ call = "gone" => functions = <<>> /\ taken = <<>>

(* As long as the client answers there is one dispatch for every response, *)
(* so that none waits for a later one to be dispatched.                    *)
Dispatches == {i \in 1..Len(pending) : pending[i] = Dispatch}
DispatchPerResponse ==
  scheduler =>
    Len(responseQueue) = Cardinality(Dispatches) + (IF net = "post" THEN 1 ELSE 0)

(* No request is answered twice, and one that was queued is not answered   *)
(* before every one that was queued before it.                             *)
AnsweredInOrder ==
  /\ \A i, j \in 1..Len(ran) : ran[i] = ran[j] /\ ran[i] # None => i = j
  /\ \A j \in 1..Len(ran) : \A r \in 1..ran[j] - 1 :
       kind[ran[j]] = "queue" /\ kind[r] = "queue" => \E i \in 1..j - 1 : ran[i] = r

(* Posted functions run in the order they were posted, across the frames   *)
(* that run out of time and put the rest back.                             *)
RunInPostedOrder ==
  /\ posted = [i \in 1..Len(ran) |-> posted[i]] \o pending
  /\ \A i \in 1..Len(ran) : posted[i] # Dispatch => ran[i] = posted[i]

(* Answers reach the game one by one and in order, through two queues and  *)
(* however often a frame runs out of time.                                 *)
AnswersInOrder == DispatchPerResponse /\ AnsweredInOrder /\ RunInPostedOrder

(* Every request is answered unless the client is destroyed.               *)
EveryRequestAnswered ==
  \A r \in Requests : r <= sent ~> r \in ToSet(ran) \/ ~scheduler

(* A destroyed client is deleted in the end: the network thread is woken   *)
(* even if it sleeps, and whoever is last deletes it.                      *)
DestroyedGoesAway == ~scheduler ~> deleted
=============================================================================
