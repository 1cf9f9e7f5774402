--------------------------- MODULE AssetsManagerEx ---------------------------
(***************************************************************************)
(* cc::extension::AssetsManagerEx (extensions/assets-manager): the update  *)
(* of a game's files from a server.                                        *)
(*                                                                         *)
(* The cocos thread asks for the server's version and its manifest, has the*)
(* differences prepared in a thread of the AsyncTaskPool, downloads files  *)
(* into a temporary directory, where the manifest with their states is     *)
(* saved so that a later run may resume, and at last moves them into the   *)
(* storage.  The process may end at any time; only files survive.          *)
(*                                                                         *)
(* Every asset changes with every version, and a file is the version it    *)
(* belongs to.                                                             *)
(***************************************************************************)
EXTENDS Naturals, FiniteSets, FiniteSetsExt

CONSTANTS
  Assets,
  MaxVersion,         \* bound: versions the server publishes
  maxConcurrentTask,
  Cancels,            \* whether the game calls cancelUpdate
  Rechecks,           \* whether it calls checkUpdate after a failed update
  EarlyRetries,       \* whether it calls downloadFailedAssets with none failed
  Crashes             \* whether the process may end

ManifestFile == "manifest"      \* TEMP_MANIFEST_FILENAME, then MANIFEST_FILENAME

(* No asset has the name of the manifest beside them.                      *)
ASSUME AssetsAssumption ==
  /\ IsFiniteSet(Assets) /\ Assets # {} /\ ManifestFile \notin Assets
  /\ MaxVersion \in Nat \ {0, 1}
  /\ maxConcurrentTask \in Nat \ {0}
  /\ {Cancels, Rechecks, EarlyRetries, Crashes} \subseteq BOOLEAN

Versions == 1..MaxVersion
None == 0
DownloadState == {"UNMARKED", "UNSTARTED", "DOWNLOADING", "SUCCESSED"}

VARIABLES
  server,         \* the version the server offers
  storage,        \* the file of each asset; version 1 is in the package
  cached,         \* the manifest in the storage
  tempFiles,      \* the files in the temporary directory
  tempManifestFile,   \* NoManifest also for one that cannot be parsed
  state, entry,   \* _updateState and _updateEntry
  canceled,
  local, remote, temp,    \* manifests; local by its version
  aliased,        \* _tempManifest is _remoteManifest
  phase,          \* where a prepared or successful update is; "told": in the
                  \* game's handler of an error
  failedUnits, downloadUnits, queue, inFlight, totalWait,
  merging,        \* the files updateSucceed still has to move
  spoiled         \* history: what has first put the update at risk

disk == <<storage, cached, tempFiles, tempManifestFile>>
manifests == <<remote, temp, aliased>>
units == <<failedUnits, downloadUnits, queue, inFlight, totalWait>>
control == <<state, entry, canceled, local, phase, merging>>
vars == <<server, disk, manifests, units, control, spoiled>>

Marked(mark) == [a \in Assets |-> mark]
Empty == [a \in Assets |-> None]
Published == [version |-> server, updating |-> FALSE, states |-> Marked("UNMARKED")]
NoManifest == [version |-> None, updating |-> FALSE, states |-> Marked("UNMARKED")]

(* A manifest in memory: json is the document that saveToFile writes, and  *)
(* updating a copy of its flag that parsing a document without one leaves. *)
Unloaded == [loaded |-> FALSE, updating |-> FALSE, json |-> NoManifest]
Parsed(m, file) ==
  [loaded |-> file # NoManifest, updating |-> file.updating \/ m.updating, json |-> file]

tempManifest == IF aliased THEN remote ELSE temp
SetTempManifest(m) ==
  IF aliased THEN remote' = m /\ UNCHANGED temp ELSE temp' = m /\ UNCHANGED remote

Spoil(cause) == spoiled' = IF spoiled = {} THEN {cause} ELSE spoiled

Init ==
  /\ server = 2
  /\ storage = [a \in Assets |-> 1] /\ cached = None
  /\ tempFiles = Empty /\ tempManifestFile = NoManifest
  /\ state = "UNCHECKED" /\ entry = "NONE" /\ canceled = FALSE
  /\ local = 1 /\ remote = Unloaded /\ temp = Unloaded /\ aliased = FALSE
  /\ phase = "none"
  /\ failedUnits = {} /\ downloadUnits = {} /\ queue = {} /\ inFlight = {} /\ totalWait = 0
  /\ merging = {} /\ spoiled = {}

Publish ==
  /\ server < MaxVersion
  /\ server' = server + 1
  /\ UNCHANGED <<disk, manifests, units, control, spoiled>>

RemoveTempDirectory == tempFiles' = Empty /\ tempManifestFile' = NoManifest

-----------------------------------------------------------------------------
(* Downloading.  u is what a handler leaves: a record of the units' state, *)
(* the temporary files and manifest, and the entry.                        *)

Units == [queue |-> queue, inFlight |-> inFlight, wait |-> totalWait,
          failed |-> failedUnits, files |-> tempFiles, manifest |-> tempManifest,
          entry |-> entry]

(* onDownloadUnitsFinished saves the manifest; without failures the update *)
(* has succeeded.                                                          *)
UnitsFinished(u) ==
  /\ queue' = u.queue /\ inFlight' = u.inFlight
  /\ tempManifestFile' = u.manifest.json
  /\ SetTempManifest(u.manifest)
  /\ IF u.failed # {}
     THEN state' = "FAIL_TO_UPDATE" /\ entry' = "NONE" /\ phase' = "none"
     ELSE state' = "UPDATING" /\ entry' = u.entry /\ phase' = "succeed"
  /\ UNCHANGED merging

(* More downloads are started, and this may be a save point.               *)
StartMore(u) ==
  LET free == IF canceled THEN 0 ELSE maxConcurrentTask - Cardinality(u.inFlight)
  IN  \E start \in kSubset(Min({free, Cardinality(u.queue)}), u.queue) :
        LET states == [a \in Assets |-> IF a \in start THEN "DOWNLOADING"
                                        ELSE u.manifest.json.states[a]]
            m == [u.manifest EXCEPT !.json.states = states]
        IN  /\ queue' = u.queue \ start /\ inFlight' = u.inFlight \cup start
            /\ SetTempManifest(m)
            /\ tempManifestFile' \in {tempManifestFile, m.json}
            /\ state' = "UPDATING" /\ entry' = u.entry
            /\ phase' = "none" /\ UNCHANGED merging

(* queueDowload: the units are finished when each has its answer, or when  *)
(* the update was cancelled and none is under way.                         *)
QueueDownload(u) ==
  /\ totalWait' = u.wait /\ failedUnits' = u.failed /\ tempFiles' = u.files
  /\ IF u.wait = 0 \/ (canceled /\ u.inFlight = {}) THEN UnitsFinished(u) ELSE StartMore(u)

(* setAssetDownloadState.                                                  *)
Remarked(a, mark) == [tempManifest EXCEPT !.json.states[a] = mark]

(* fileSuccess: the file is complete in the temporary directory.  The      *)
(* faulty form finds it there before.                                      *)
AfterHalfSuccess(a) ==
  [Units EXCEPT !.inFlight = @ \ {a}, !.wait = @ - 1, !.failed = @ \ {a},
                !.manifest = Remarked(a, "SUCCESSED")]
AfterSuccess(a) ==
  [Units EXCEPT !.inFlight = @ \ {a}, !.wait = @ - 1, !.failed = @ \ {a},
                !.files[a] = remote.json.version,
                !.manifest = Remarked(a, "SUCCESSED")]

(* fileError: the unit has failed.  The faulty forms forget it, and forget *)
(* to count it.                                                            *)
AfterForgottenError(a) ==
  [Units EXCEPT !.inFlight = @ \ {a}, !.wait = @ - 1,
                !.manifest = Remarked(a, "UNSTARTED"), !.entry = "NONE"]
AfterUncountedError(a) ==
  [Units EXCEPT !.inFlight = @ \ {a}, !.failed = @ \cup {a},
                !.manifest = Remarked(a, "UNSTARTED"), !.entry = "NONE"]
AfterError(a) ==
  [Units EXCEPT !.inFlight = @ \ {a}, !.wait = @ - 1, !.failed = @ \cup {a},
                !.manifest = Remarked(a, "UNSTARTED"), !.entry = "NONE"]

(* One of the downloads under way ends.                                    *)
FileDone(a) ==
  /\ a \in inFlight
  /\ QueueDownload(AfterSuccess(a)) \/ QueueDownload(AfterError(a))
  /\ UNCHANGED <<server, storage, cached, aliased, downloadUnits, canceled, local, spoiled>>

(* States in which an answer or the pool's thread is awaited, or files are.*)
Busy == {"DOWNLOADING_VERSION", "DOWNLOADING_MANIFEST", "MANIFEST_LOADED",
         "PREPARE_UPDATING", "UPDATING"}

(* downloadFailedAssets, in any state but UPDATING, in which it does       *)
(* nothing; the game is taken not to call it in the other busy states.  A  *)
(* call after an installed update meets no remote manifest and ends the    *)
(* process.                                                                *)
DownloadFailedAssets ==
  /\ state \notin Busy /\ remote.loaded /\ failedUnits # {}
  /\ downloadUnits' = failedUnits
  /\ QueueDownload([Units EXCEPT !.queue = failedUnits, !.wait = Cardinality(failedUnits)])
  /\ UNCHANGED <<server, storage, cached, aliased, canceled, local, spoiled>>

(* Where none has failed the list is empty, and the update has succeeded.  *)
DownloadNoAssets ==
  /\ EarlyRetries
  /\ state \notin Busy \cup {"UP_TO_DATE"} /\ remote.loaded /\ failedUnits = {}
  /\ downloadUnits' = {} /\ totalWait' = 0
  /\ UnitsFinished(Units)
  /\ Spoil("unfetched")
  /\ UNCHANGED <<server, storage, cached, tempFiles, aliased, failedUnits, canceled, local>>

(* The same when the manifest had nothing new: there is no temporary       *)
(* directory to save or to merge.                                          *)
DownloadUpToDate ==
  /\ EarlyRetries
  /\ state = "UP_TO_DATE" /\ remote.loaded /\ failedUnits = {}
  /\ downloadUnits' = {} /\ totalWait' = 0
  /\ local' = remote.json.version /\ entry' = "NONE"
  /\ remote' = Unloaded /\ temp' = Unloaded /\ aliased' = FALSE
  /\ UNCHANGED <<server, disk, failedUnits, queue, inFlight, state, canceled, phase, merging,
                 spoiled>>

(* cancelUpdate: the transfers go on (abort does nothing with curl).       *)
CancelUpdate ==
  /\ Cancels /\ ~canceled /\ phase \notin {"succeed", "merge"}
  /\ canceled' = TRUE
  /\ Spoil("canceled")
  /\ UNCHANGED <<server, disk, manifests, units, state, entry, local, phase, merging>>

-----------------------------------------------------------------------------
(* Looking for a new version.                                              *)
CanCall == phase \notin {"succeed", "merge"} /\ entry = "NONE"

(* A call that finds the manager in a state it has no case for leaves the  *)
(* entry set; so does one from the handler of an error, which the event    *)
(* has reset the entry for and which the state changes behind.             *)
CheckUpdate ==
  /\ CanCall /\ state # "UP_TO_DATE"
  /\ entry' = "CHECK_UPDATE"
  /\ \/ state = "UNCHECKED" /\ state' = "DOWNLOADING_VERSION" /\ UNCHANGED spoiled
     \/ /\ state = "FAIL_TO_UPDATE" /\ Rechecks
        /\ state' = "DOWNLOADING_VERSION"
        /\ IF aliased THEN Spoil("rechecked") ELSE UNCHANGED spoiled
     \/ state \notin {"UNCHECKED", "FAIL_TO_UPDATE"} /\ UNCHANGED <<state, spoiled>>
  /\ UNCHANGED <<server, disk, manifests, units, canceled, local, phase, merging>>

UpdateUnchecked ==
  /\ CanCall /\ state = "UNCHECKED"
  /\ state' = "DOWNLOADING_VERSION" /\ entry' = "DO_UPDATE"
  /\ UNCHANGED <<server, disk, manifests, units, canceled, local, phase, merging, spoiled>>

UpdateFailed ==
  /\ CanCall /\ state = "FAIL_TO_UPDATE"
  /\ entry' = "DO_UPDATE"
  /\ state' = IF remote.loaded THEN state ELSE "DOWNLOADING_MANIFEST"
  /\ UNCHANGED <<server, disk, manifests, units, canceled, local, phase, merging, spoiled>>

(* update in the handler of ERROR_DOWNLOAD_MANIFEST.  In that of           *)
(* ERROR_PARSE_MANIFEST it parses the same file again, with the same end.  *)
UpdateInHandler ==
  /\ CanCall /\ phase = "told" /\ state = "DOWNLOADING_MANIFEST"
  /\ entry' = "DO_UPDATE"
  /\ UNCHANGED <<server, disk, manifests, units, state, canceled, local, phase, merging, spoiled>>

(* batchDownload queues all units.                                         *)
BatchDownload(e) ==
  /\ QueueDownload([Units EXCEPT !.queue = downloadUnits, !.entry = e])
  /\ UNCHANGED <<server, storage, cached, aliased, downloadUnits, canceled, local, spoiled>>

UpdateReady ==
  /\ CanCall /\ state = "READY_TO_UPDATE"
  /\ BatchDownload("DO_UPDATE")

(* The end of an update, or there was none to make.                        *)
UpToDate ==
  /\ state' = "UP_TO_DATE" /\ entry' = "NONE"
  /\ RemoveTempDirectory

(* parseVersion: without an answer that can be parsed the manifest decides.*)
VersionDone(answer) ==
  /\ state = "DOWNLOADING_VERSION"
  /\ IF answer = "ok" /\ local >= server
     THEN UpToDate
     ELSE state' = "DOWNLOADING_MANIFEST" /\ UNCHANGED <<entry, tempFiles, tempManifestFile>>
  /\ remote' = IF answer = "error" THEN remote ELSE Parsed(remote, NoManifest)
  /\ UNCHANGED <<server, storage, cached, temp, aliased, units, canceled, local, phase, merging,
                 spoiled>>

(* parseManifest: a newer version is prepared in another thread.  An error *)
(* is dispatched before the state is set.                                  *)
ManifestDone(answer) ==
  /\ state = "DOWNLOADING_MANIFEST" /\ phase = "none"
  /\ \/ /\ answer = "error"
        /\ phase' = "told" /\ entry' = "NONE"
        /\ UNCHANGED <<state, tempFiles, tempManifestFile, remote, units>>
     \/ /\ answer = "garbage"
        /\ state' = "MANIFEST_LOADED" /\ phase' = "told" /\ entry' = "NONE"
        /\ tempManifestFile' = NoManifest /\ remote' = Parsed(remote, NoManifest)
        /\ UNCHANGED <<tempFiles, units>>
     \/ /\ answer = "ok" /\ local >= server
        /\ remote' = Parsed(remote, Published)
        /\ UpToDate
        /\ UNCHANGED <<phase, units>>
     \/ /\ answer = "ok" /\ local < server
        /\ remote' = Parsed(remote, Published)
        /\ tempManifestFile' = Published
        /\ state' = "PREPARE_UPDATING" /\ phase' = "prepare"
        /\ failedUnits' = {} /\ downloadUnits' = {} /\ totalWait' = 0
        /\ UNCHANGED <<queue, inFlight, tempFiles, entry>>
  /\ UNCHANGED <<server, storage, cached, temp, aliased, canceled, local, merging, spoiled>>

(* The game's handler returns, and the state is set.                       *)
HandlerReturns ==
  /\ phase = "told" /\ phase' = "none"
  /\ state' = IF state = "MANIFEST_LOADED" THEN "UNCHECKED" ELSE "FAIL_TO_UPDATE"
  /\ UNCHANGED <<server, disk, manifests, units, entry, canceled, local, merging, spoiled>>

-----------------------------------------------------------------------------
(* prepareUpdateAsync, in a thread of the pool.                            *)
CanResume ==
  tempManifest.loaded /\ tempManifest.updating
    /\ tempManifest.json.version = remote.json.version

(* The units of an interrupted update that have not succeeded; the faulty  *)
(* form takes those it had started for done.                               *)
ResumeUnstarted == {a \in Assets : tempManifest.json.states[a] = "UNSTARTED"}
ResumeUnits == {a \in Assets : tempManifest.json.states[a] \notin {"SUCCESSED", "UNMARKED"}}

PrepareResume ==
  /\ phase = "prepare" /\ CanResume
  /\ tempManifestFile' = tempManifest.json
  /\ downloadUnits' = ResumeUnits /\ totalWait' = Cardinality(ResumeUnits)
  /\ phase' = "prepared"
  /\ UNCHANGED <<server, storage, cached, tempFiles, manifests, failedUnits, queue, inFlight,
                 state, entry, canceled, local, merging, spoiled>>

(* Else the temporary directory is emptied but for the new manifest ...    *)
PrepareAnew ==
  /\ phase = "prepare" /\ ~CanResume
  /\ tempFiles' = Empty /\ tempManifestFile' = remote.json
  /\ aliased' = TRUE /\ temp' = Unloaded
  /\ phase' = "diff"
  /\ UNCHANGED <<server, storage, cached, remote, units, state, entry, canceled, local, merging,
                 spoiled>>

(* ... and each asset that differs becomes a unit.                         *)
PrepareDiff ==
  LET json == [remote.json EXCEPT !.updating = TRUE, !.states = Marked("UNSTARTED")]
  IN  /\ phase = "diff"
      /\ remote' = [remote EXCEPT !.updating = TRUE, !.json = json]
      /\ tempManifestFile' = json
      /\ downloadUnits' = Assets /\ totalWait' = Cardinality(Assets)
      /\ phase' = "prepared"
      /\ UNCHANGED <<server, storage, cached, tempFiles, temp, aliased, failedUnits, queue,
                     inFlight, state, entry, canceled, local, merging, spoiled>>

(* On the cocos thread again, update goes on and checkUpdate reports.      *)
PrepareFinished ==
  /\ phase = "prepared"
  /\ \/ entry = "DO_UPDATE" /\ BatchDownload(entry)
     \/ /\ entry # "DO_UPDATE"
        /\ state' = "READY_TO_UPDATE" /\ entry' = "NONE"
        /\ phase' = "none"
        /\ UNCHANGED <<server, disk, manifests, units, canceled, local, merging, spoiled>>

-----------------------------------------------------------------------------
(* updateSucceed renames the manifest and lists the files it has to move,  *)
(* ...                                                                     *)
UpdateSucceed ==
  /\ phase = "succeed"
  /\ SetTempManifest([tempManifest EXCEPT !.updating = FALSE, !.json.updating = FALSE])
  /\ tempManifestFile' = NoManifest
  /\ phase' = "merge"
  /\ merging' = {ManifestFile} \cup {a \in Assets : tempFiles[a] # None}
  /\ UNCHANGED <<server, storage, cached, tempFiles, aliased, units, state, entry, canceled,
                 local, spoiled>>

(* ... moves them one by one, ...                                          *)
MergeFile(f) ==
  /\ phase = "merge" /\ f \in merging
  /\ merging' = merging \ {f}
  /\ IF f = ManifestFile
     THEN cached' = remote.json.version /\ UNCHANGED <<storage, tempFiles>>
     ELSE /\ storage' = [storage EXCEPT ![f] = tempFiles[f]]
          /\ tempFiles' = [tempFiles EXCEPT ![f] = None]
          /\ UNCHANGED cached
  /\ UNCHANGED <<server, tempManifestFile, manifests, units, state, entry, canceled, local,
                 phase, spoiled>>

(* ... and the new manifest is the local one.                              *)
MergeEnd ==
  /\ phase = "merge" /\ merging = {}
  /\ local' = remote.json.version
  /\ UpToDate
  /\ phase' = "none"
  /\ remote' = Unloaded /\ temp' = Unloaded /\ aliased' = FALSE
  /\ failedUnits' = {} /\ downloadUnits' = {} /\ queue' = {}
  /\ UNCHANGED <<server, storage, cached, inFlight, totalWait, canceled, merging, spoiled>>

(* The process ends and starts again: loadLocalManifest takes the cached   *)
(* manifest, which is never older than the package's, and initManifests    *)
(* parses the temporary one.                                               *)
Restart ==
  /\ Crashes
  /\ IF phase = "merge" /\ merging # {} THEN Spoil("crashed") ELSE UNCHANGED spoiled
  /\ state' = "UNCHECKED" /\ entry' = "NONE" /\ canceled' = FALSE
  /\ local' = IF cached = None THEN 1 ELSE cached
  /\ remote' = Unloaded /\ temp' = Parsed(Unloaded, tempManifestFile) /\ aliased' = FALSE
  /\ phase' = "none" /\ merging' = {}
  /\ failedUnits' = {} /\ downloadUnits' = {} /\ queue' = {} /\ inFlight' = {} /\ totalWait' = 0
  /\ UNCHANGED <<server, disk>>

-----------------------------------------------------------------------------
Answers == {"ok", "error", "garbage"}

Network ==
  \/ \E a \in Assets : FileDone(a)
  \/ \E answer \in Answers : VersionDone(answer) \/ ManifestDone(answer)

Local ==
  \/ PrepareResume \/ PrepareAnew \/ PrepareDiff \/ PrepareFinished
  \/ UpdateSucceed \/ MergeEnd \/ HandlerReturns
  \/ \E f \in Assets \cup {ManifestFile} : MergeFile(f)

Game ==
  \/ CheckUpdate \/ UpdateUnchecked \/ UpdateFailed \/ UpdateReady \/ UpdateInHandler
  \/ DownloadFailedAssets \/ DownloadNoAssets \/ DownloadUpToDate \/ CancelUpdate

Next == Network \/ Local \/ Game \/ Restart \/ Publish

Spec == Init /\ [][Next]_vars

(* The tasks of the pool end and the game's handlers return; what the      *)
(* network owes is left open.                                              *)
FairSpec == Spec /\ WF_vars(Local)
-----------------------------------------------------------------------------
(* Properties.                                                             *)

File == [version : 0..MaxVersion, updating : BOOLEAN, states : [Assets -> DownloadState]]
Manifest == [loaded : BOOLEAN, updating : BOOLEAN, json : File]

(* Every variable has its type.                                            *)
TypeOK ==
  /\ server \in Versions /\ local \in Versions /\ cached \in 0..MaxVersion
  /\ storage \in [Assets -> Versions] /\ tempFiles \in [Assets -> 0..MaxVersion]
  /\ tempManifestFile \in File /\ remote \in Manifest /\ temp \in Manifest
  /\ state \in {"UNCHECKED", "DOWNLOADING_VERSION", "DOWNLOADING_MANIFEST", "PREPARE_UPDATING",
                "MANIFEST_LOADED", "READY_TO_UPDATE", "UPDATING", "UP_TO_DATE",
                "FAIL_TO_UPDATE"}
  /\ entry \in {"NONE", "CHECK_UPDATE", "DO_UPDATE"}
  /\ canceled \in BOOLEAN /\ aliased \in BOOLEAN
  /\ phase \in {"none", "told", "prepare", "diff", "prepared", "succeed", "merge"}
  /\ failedUnits \subseteq Assets /\ downloadUnits \subseteq Assets
  /\ queue \subseteq Assets /\ inFlight \subseteq Assets
  /\ totalWait \in 0..Cardinality(Assets)
  /\ merging \subseteq Assets \cup {ManifestFile}
  /\ spoiled \subseteq {"canceled", "rechecked", "unfetched", "crashed"}

(* "Every thing is correctly downloaded": except while updateSucceed moves *)
(* them, the files the game runs with are those of its manifest.           *)
FilesMatchManifest ==
  phase # "merge" => \A a \in Assets : storage[a] = local

(* The same, of updates that were not cancelled, not retried before a file *)
(* had failed, did not follow a failed one that checkUpdate had looked at  *)
(* again, and did not end with the process in the middle of updateSucceed; *)
(* failed files, retries, restarts and new versions on the way do no harm. *)
UpdateAtomic == spoiled = {} => FilesMatchManifest

(* What the saved manifest says need not be downloaded again is there, in  *)
(* the version it is of, wherever the process ends.                        *)
ResumeSound ==
  tempManifestFile.updating =>
    \A a \in Assets :
      tempManifestFile.states[a] \in {"SUCCESSED", "UNMARKED"} =>
        tempFiles[a] = tempManifestFile.version

(* While an update runs each of its units waits, is under way, has failed  *)
(* or is in the temporary directory, and those that have no answer yet are *)
(* counted: the update neither ends early nor waits for nothing.           *)
UnitsAccounted ==
  state = "UPDATING" /\ phase = "none" =>
    /\ totalWait = Cardinality(queue) + Cardinality(inFlight)
    /\ queue \cap inFlight = {} /\ Cardinality(inFlight) <= maxConcurrentTask
    /\ \A a \in downloadUnits \ (queue \cup inFlight \cup failedUnits) :
         tempFiles[a] = remote.json.version

(* prepareUpdateAsync releases the old temporary manifest before it takes  *)
(* the remote one; they are not the same then.                             *)
ReleasesOther == phase = "prepare" /\ ~CanResume => ~aliased

(* What an update has prepared and started is all accounted for.           *)
UnitsInv == TypeOK /\ UnitsAccounted /\ ReleasesOther

(* Every request to the server is answered, well or not.  With curl this   *)
(* is no fact (DownloaderCURL, TaskFinishes): it is a hypothesis of what   *)
(* follows.                                                                *)
Answered == WF_vars(Network)

(* An update that has begun to download ends.                              *)
UpdatingEnds == state = "UPDATING" ~> state # "UPDATING"

(* A call of checkUpdate or update that something is under way for is      *)
(* answered with an event that lets the next one in.                       *)
CallAnswered ==
  entry # "NONE" /\ state \in Busy /\ phase # "told" ~> entry = "NONE"

(* What the game has started comes to an end that it is told of, if the    *)
(* server's answers come.                                                  *)
UpdateReturns == Answered => UpdatingEnds /\ CallAnswered

(* "You may use this method before updating" (AssetsManagerEx.h:89): no    *)
(* checkUpdate locks update out for ever.                                  *)
CheckLetsUpdate == Answered => (entry = "CHECK_UPDATE" ~> entry # "CHECK_UPDATE")
=============================================================================
