--------------------------- MODULE DownloaderCURL ---------------------------
(***************************************************************************)
(* cc::network::DownloaderCURL (cocos/network/Downloader-curl.cpp).        *)
(*                                                                         *)
(* The cocos thread creates tasks and starts a network thread if none is   *)
(* attached.  That thread moves tasks through curl until none is left,     *)
(* detaches itself and ends.  A timer of the scheduler delivers finished   *)
(* tasks on the cocos thread, and pauses itself when no thread is attached.*)
(* Three queues have a mutex each, and so has the thread's handle.         *)
(***************************************************************************)
EXTENDS Naturals, Sequences, FiniteSets, SequencesExt

CONSTANTS
  Paths,                        \* the files tasks may be asked to write
  countOfMaxProcessingTasks,    \* DownloaderHints, 0 for no limit
  Destroys,                     \* whether the downloader may be destroyed
  MaxTasks                      \* bound: tasks created in a behaviour

ASSUME DownloaderAssumption ==
  countOfMaxProcessingTasks \in Nat /\ Destroys \in BOOLEAN /\ MaxTasks \in Nat

Tasks == 1..MaxTasks
NoTask == 0

VARIABLES
  requestQueue, finishedQueue,
  coTaskMap,      \* what curl works on (_processSet is the same set)
  moving,         \* the task that has left curl and is not in finishedQueue yet
  joinable,       \* _thread is attached
  netPc,          \* where the network thread is
  cPc,            \* where the cocos thread is
  adding,         \* the task that was queued before run is called
  batch,          \* the finished tasks that onSchedule took
  paused,         \* the scheduler's flag for this target
  storagePaths,   \* _sStoragePathSet
  path,           \* a task's _tempFileName
  writing,        \* tasks whose _fp is open
  delivered,      \* tasks for which onTaskFinish was called
  released,       \* tasks whose DownloadTaskCURL is destroyed
  freedByOther    \* history: paths freed by a task while another wrote them

queues == <<requestQueue, finishedQueue, coTaskMap, moving>>
files == <<storagePaths, path, writing, freedByOther>>
vars == <<queues, joinable, netPc, cPc, adding, batch, paused, files, delivered, released>>

created == Len(path)

Init ==
  /\ requestQueue = <<>> /\ finishedQueue = <<>> /\ coTaskMap = {} /\ moving = NoTask
  /\ joinable = FALSE /\ netPc = "none"
  /\ cPc = "idle" /\ adding = NoTask /\ batch = <<>> /\ paused = TRUE
  /\ storagePaths = {} /\ path = <<>> /\ writing = {} /\ freedByOther = {}
  /\ delivered = {} /\ released = {}

-----------------------------------------------------------------------------
(* The cocos thread.                                                       *)

(* createCoTask, called by the game or from within onTaskFinish: init      *)
(* refuses a file another task writes, and a task that could not be set up *)
(* goes straight to the finished ones.  The faulty form refuses none.      *)
Queued(k) ==
  /\ requestQueue' = Append(requestQueue, k) /\ UNCHANGED finishedQueue
Refused(k) ==
  /\ finishedQueue' = Append(finishedQueue, k) /\ UNCHANGED requestQueue

InitUnchecked(k, p) ==
  /\ storagePaths' = storagePaths \cup {p}
  /\ Queued(k) /\ writing' = writing \cup {k}

InitTask(k, p) ==
  IF p \in storagePaths
  THEN Refused(k) /\ UNCHANGED <<storagePaths, writing>>
  ELSE /\ storagePaths' = storagePaths \cup {p}
       /\ \/ Queued(k) /\ writing' = writing \cup {k}
          \/ Refused(k) /\ UNCHANGED writing

AddTask(p) ==
  /\ cPc \in {"idle", "callback"} /\ adding = NoTask /\ created < MaxTasks
  /\ adding' = created + 1
  /\ path' = Append(path, p)
  /\ InitTask(created + 1, p)
  /\ UNCHANGED <<coTaskMap, moving, joinable, netPc, cPc, batch, paused, freedByOther,
                 delivered, released>>

(* run starts a thread unless one is attached, and the timer is resumed.   *)
Run ==
  /\ adding # NoTask
  /\ adding' = NoTask
  /\ joinable' = TRUE
  /\ netPc' = IF joinable THEN netPc ELSE "check"
  /\ paused' = FALSE
  /\ UNCHANGED <<queues, cPc, batch, files, delivered, released>>

(* onSchedule takes the finished tasks ...                                 *)
OnSchedule ==
  /\ cPc = "idle" /\ adding = NoTask /\ ~paused
  /\ batch' = finishedQueue /\ finishedQueue' = <<>>
  /\ cPc' = "taken"
  /\ UNCHANGED <<requestQueue, coTaskMap, moving, joinable, netPc, adding, paused, files,
                 delivered, released>>

(* ... pauses the timer if no thread is attached, ...                      *)
PauseIfStopped ==
  /\ cPc = "taken"
  /\ paused' = ~joinable
  /\ cPc' = "deliver"
  /\ UNCHANGED <<queues, joinable, netPc, adding, batch, files, delivered, released>>

(* ... closes and renames the file of each, after which its path is free   *)
(* again if that went well, and calls onTaskFinish.  In the faulty form    *)
(* the batch stays.                                                        *)
DeliverAgain ==
  /\ cPc \in {"deliver", "callback"} /\ adding = NoTask /\ batch # <<>>
  /\ delivered' = delivered \cup {Head(batch)}
  /\ writing' = writing \ {Head(batch)}
  /\ UNCHANGED storagePaths
  /\ finishedQueue' = finishedQueue \o batch /\ batch' = <<>>
  /\ cPc' = "callback"
  /\ UNCHANGED <<requestQueue, coTaskMap, moving, joinable, netPc, adding, paused, path,
                 freedByOther, released>>

Deliver ==
  LET k == Head(batch) IN
  /\ cPc \in {"deliver", "callback"} /\ adding = NoTask /\ batch # <<>>
  /\ batch' = Tail(batch)
  /\ delivered' = delivered \cup {k}
  /\ writing' = writing \ {k}
  /\ \/ k \in writing /\ storagePaths' = storagePaths \ {path[k]}
     \/ UNCHANGED storagePaths
  /\ cPc' = "callback"
  /\ UNCHANGED <<queues, joinable, netPc, adding, paused, path, freedByOther, released>>

OnScheduleEnd ==
  /\ cPc \in {"deliver", "callback"} /\ adding = NoTask /\ batch = <<>>
  /\ cPc' = "idle"
  /\ UNCHANGED <<queues, joinable, netPc, adding, batch, paused, files, delivered, released>>

(* The last owner of a delivered task lets go of it.  The destructor frees *)
(* the path if it is taken, be it by another task.                         *)
Release(k) ==
  /\ cPc = "idle" /\ adding = NoTask
  /\ k \in delivered \ released
  /\ released' = released \cup {k}
  /\ storagePaths' = storagePaths \ {path[k]}
  /\ freedByOther' = freedByOther \cup
       {p \in {path[k]} : \E w \in writing : path[w] = p}
  /\ UNCHANGED <<queues, joinable, netPc, cPc, adding, batch, paused, path, writing, delivered>>

(* ~DownloaderCURL unschedules the timer and detaches the thread, which    *)
(* keeps the Impl alive.                                                   *)
Destroy ==
  /\ Destroys
  /\ cPc = "idle" /\ adding = NoTask
  /\ joinable' = FALSE /\ paused' = TRUE /\ cPc' = "gone"
  /\ UNCHANGED <<queues, netPc, adding, batch, files, delivered, released>>

-----------------------------------------------------------------------------
(* The network thread (_threadProc).                                       *)

(* It ends if it has been detached.                                        *)
CheckAttached ==
  /\ netPc = "check"
  /\ netPc' = IF joinable THEN "perform" ELSE "stop"
  /\ UNCHANGED <<queues, joinable, cPc, adding, batch, paused, files, delivered, released>>

(* A transfer that curl has done with, well or not, leaves the map and the *)
(* set, ...                                                                *)
TransferDone(k) ==
  /\ netPc = "perform" /\ k \in coTaskMap
  /\ coTaskMap' = coTaskMap \ {k}
  /\ moving' = k
  /\ netPc' = "push"
  /\ UNCHANGED <<requestQueue, finishedQueue, joinable, cPc, adding, batch, paused, files,
                 delivered, released>>

(* ... and is queued; the faulty form forgets to.                          *)
PushNothing ==
  /\ netPc = "push"
  /\ moving' = NoTask
  /\ netPc' = "perform"
  /\ UNCHANGED <<requestQueue, finishedQueue, coTaskMap, joinable, cPc, adding, batch,
                 paused, files, delivered, released>>

PushFinished ==
  /\ netPc = "push"
  /\ finishedQueue' = Append(finishedQueue, moving)
  /\ moving' = NoTask
  /\ netPc' = "perform"
  /\ UNCHANGED <<requestQueue, coTaskMap, joinable, cPc, adding, batch, paused, files,
                 delivered, released>>

(* The limit is compared with the number of transfers before the first     *)
(* request is taken, and not again.                                        *)
PerformEnd ==
  /\ netPc = "perform"
  /\ netPc' = IF countOfMaxProcessingTasks = 0 \/ Cardinality(coTaskMap) < countOfMaxProcessingTasks
              THEN "fetch" ELSE "check"
  /\ UNCHANGED <<queues, joinable, cPc, adding, batch, paused, files, delivered, released>>

(* A request goes to curl, or fails at once if curl cannot take it.        *)
Fetch ==
  /\ netPc = "fetch" /\ requestQueue # <<>>
  /\ requestQueue' = Tail(requestQueue)
  /\ \/ coTaskMap' = coTaskMap \cup {Head(requestQueue)} /\ UNCHANGED finishedQueue
     \/ finishedQueue' = Append(finishedQueue, Head(requestQueue)) /\ UNCHANGED coTaskMap
  /\ UNCHANGED <<moving, joinable, netPc, cPc, adding, batch, paused, files, delivered,
                 released>>

(* The loop ends with the last transfer; in the faulty form with the last  *)
(* request.                                                                *)
FetchEndEarly ==
  /\ netPc = "fetch" /\ requestQueue = <<>>
  /\ netPc' = "stop"
  /\ UNCHANGED <<queues, joinable, cPc, adding, batch, paused, files, delivered, released>>

FetchEnd ==
  /\ netPc = "fetch" /\ requestQueue = <<>>
  /\ netPc' = IF coTaskMap = {} THEN "stop" ELSE "check"
  /\ UNCHANGED <<queues, joinable, cPc, adding, batch, paused, files, delivered, released>>

StopThread ==
  /\ netPc = "stop"
  /\ joinable' = FALSE
  /\ netPc' = "none"
  /\ UNCHANGED <<queues, cPc, adding, batch, paused, files, delivered, released>>

-----------------------------------------------------------------------------
Timer == Run \/ OnSchedule \/ PauseIfStopped \/ Deliver \/ OnScheduleEnd

Network ==
  \/ CheckAttached \/ PushFinished \/ PerformEnd \/ Fetch \/ FetchEnd \/ StopThread
  \/ \E k \in Tasks : TransferDone(k)

Next ==
  \/ Timer \/ Network \/ Destroy
  \/ \E p \in Paths : AddTask(p)
  \/ \E k \in Tasks : Release(k)

Spec == Init /\ [][Next]_vars

(* The scheduler calls the timer while it is not paused, the network       *)
(* thread is scheduled, and curl ends every transfer (the low-speed limit  *)
(* ends the ones that hang).                                               *)
FairSpec ==
  /\ Spec
  /\ WF_vars(Timer) /\ WF_vars(Network)
  /\ \A k \in Tasks : SF_vars(TransferDone(k))

-----------------------------------------------------------------------------
(* Properties.                                                             *)

(* Every variable has its type.                                            *)
TypeOK ==
  /\ requestQueue \in Seq(Tasks) /\ finishedQueue \in Seq(Tasks) /\ batch \in Seq(Tasks)
  /\ coTaskMap \subseteq Tasks /\ moving \in Tasks \cup {NoTask}
  /\ joinable \in BOOLEAN /\ paused \in BOOLEAN
  /\ netPc \in {"none", "check", "perform", "push", "fetch", "stop"}
  /\ cPc \in {"idle", "taken", "deliver", "callback", "gone"}
  /\ adding \in Tasks \cup {NoTask}
  /\ path \in Seq(Paths) /\ created <= MaxTasks
  /\ storagePaths \subseteq Paths /\ freedByOther \subseteq Paths
  /\ writing \subseteq 1..created
  /\ delivered \subseteq 1..created /\ released \subseteq delivered

(* A created task is in one place only until it has been delivered, while  *)
(* two threads move it through queues with a mutex each: none is lost and  *)
(* none is delivered twice.                                                *)
Waiting == requestQueue \o finishedQueue \o batch
InCurl == coTaskMap \cup ({moving} \ {NoTask})
OnePlace ==
  /\ IsInjective(Waiting) /\ moving \notin coTaskMap
  /\ ToSet(Waiting) \cap InCurl = {}
  /\ (ToSet(Waiting) \cup InCurl) \cap delivered = {}
  /\ ToSet(Waiting) \cup InCurl \cup delivered = 1..created

(* Tasks are accounted for, in queues and maps whose parts fit.            *)
TasksAccounted == TypeOK /\ OnePlace

(* The timer sleeps only while nothing runs: no thread is attached, and    *)
(* curl has no transfer left.                                              *)
PausedAtRest ==
  paused /\ cPc # "gone" /\ adding = NoTask => ~joinable /\ netPc = "none" /\ coTaskMap = {}

(* "if more than one task write to one file, cause file broken": two tasks *)
(* write one file at most when a third, that had been refused for it or    *)
(* had finished it before, was destroyed while one of them wrote.          *)
OneWriter ==
  \A j, k \in writing : j # k /\ path[j] = path[k] => path[j] \in freedByOther

(* The same without an exception: the set of paths keeps a second task     *)
(* from a file.                                                            *)
OneTaskPerFile == \A j, k \in writing : j # k => path[j] # path[k]

(* What curl works on is delivered in the end.  The one way to be stuck is *)
(* to have finished right before the timer paused itself.                  *)
FinishedDelivered ==
  \A k \in Tasks :
    (k = moving \/ k \in coTaskMap)
      ~> \/ k \in delivered \/ cPc = "gone"
         \/ paused /\ k \in ToSet(finishedQueue)

(* "update finished tasks": every task that was created is delivered.      *)
TaskFinishes ==
  \A k \in Tasks : k \in 1..created ~> k \in delivered \/ cPc = "gone"
=============================================================================
