----------------------- MODULE AssetsManagerExProofs ------------------------
(***************************************************************************)
(* What an update promises, for every set of assets, every number of       *)
(* versions and every limit of downloads: the inductive invariant of       *)
(* AssetsManagerEx, in three layers, each proved upon the one before.      *)
(***************************************************************************)
EXTENDS AssetsManagerEx, FiniteSetTheorems, TLAPS

-----------------------------------------------------------------------------
(* The invariant.                                                          *)

Preparing == phase \in {"prepare", "diff", "prepared"}
Planned == phase = "prepared" \/ state = "READY_TO_UPDATE"
Downloading == state = "UPDATING" /\ phase = "none"

(* There is an update to go on with: planned, running, or failed.          *)
Going ==
  \/ Planned \/ (state = "UPDATING" /\ phase # "merge")
  \/ remote.loaded /\ failedUnits # {} /\ state \notin {"UP_TO_DATE", "UPDATING"}

(* Where the update is, seen from its state and from its phase.            *)
PhaseInv ==
  /\ state = "PREPARE_UPDATING" <=> Preparing
  /\ phase \in {"succeed", "merge"} => state = "UPDATING"
  /\ phase = "told" => state \in {"DOWNLOADING_MANIFEST", "MANIFEST_LOADED"}
  /\ state = "MANIFEST_LOADED" => phase = "told"
  /\ inFlight # {} => Downloading
  /\ Preparing \/ Planned \/ state = "UPDATING" => remote.loaded
  /\ remote.loaded => remote.json.version # None
  /\ phase = "merge" => \A a \in merging \ {ManifestFile} : tempFiles[a] # None

(* The manifests in memory.                                                *)
ManifestInv ==
  /\ phase = "prepare" => ~remote.json.updating
  /\ phase = "diff" => aliased
  /\ aliased /\ phase \notin {"diff", "merge"} => remote.updating
  /\ temp.updating = temp.json.updating
  /\ Going => /\ tempManifest.json.version = remote.json.version
              /\ tempManifestFile.version = remote.json.version
  /\ phase = "merge" => ~tempManifestFile.updating /\ ~tempManifest.json.updating

(* What a manifest says need not be downloaded again is there.             *)
Sound(file) ==
  file.updating => \A a \in Assets : file.states[a] \in {"SUCCESSED", "UNMARKED"} =>
                     tempFiles[a] = file.version

MemorySound == state # "UP_TO_DATE" => Sound(tempManifest.json)

(* The units that are planned are counted.                                 *)
PlanInv ==
  /\ Preparing \/ Planned => failedUnits = {}
  /\ Planned => totalWait = Cardinality(downloadUnits)

(* The manifest in the storage is the one a restart will take.             *)
LocalInv ==
  IF phase = "merge" /\ ManifestFile \notin merging
  THEN cached = remote.json.version
  ELSE local = IF cached = None THEN 1 ELSE cached

(* What has put the update at risk is recorded.                            *)
SpoiledInv ==
  /\ canceled => spoiled # {}
  /\ aliased => \/ spoiled # {}
                \/ phase \in {"diff", "prepared"} \/ Planned \/ state = "UPDATING"
                \/ state = "FAIL_TO_UPDATE" /\ remote.loaded

(* The assets that have still to arrive; all others are there.             *)
Missing ==
  IF Planned THEN downloadUnits
  ELSE IF Downloading THEN queue \cup inFlight \cup failedUnits
  ELSE IF phase = "succeed" THEN {} ELSE failedUnits

Arrived ==
  /\ Going => \A a \in Assets \ Missing : tempFiles[a] = remote.json.version
  /\ phase = "merge" =>
       \A a \in Assets : IF a \in merging THEN tempFiles[a] = remote.json.version
                                          ELSE storage[a] = remote.json.version

AtomicInv == spoiled = {} => FilesMatchManifest /\ Arrived

(* No version is newer than the server's, only an older one is updated,    *)
(* and a manifest is kept for an update or for its failed files.           *)
Underway == Preparing \/ Planned \/ state = "UPDATING"

VersionInv ==
  /\ local <= server /\ cached <= server
  /\ remote.loaded => remote.json.version <= server
  /\ state = "UP_TO_DATE" => failedUnits = {} /\ (remote.loaded => remote.json.version = local)
  /\ failedUnits # {} \/ Underway => local < server
  /\ remote.loaded /\ failedUnits = {} => Underway \/ state = "UP_TO_DATE"

IInv ==
  /\ TypeOK /\ PhaseInv /\ ManifestInv /\ UnitsAccounted /\ PlanInv
  /\ MemorySound /\ ResumeSound
  /\ LocalInv /\ SpoiledInv /\ AtomicInv

-----------------------------------------------------------------------------
(* Sets of assets, and manifests with one field replaced.                  *)

LEMMA SomeAssets ==
  ASSUME NEW A \in SUBSET Assets
  PROVE  /\ IsFiniteSet(A) /\ Cardinality(A) \in 0..Cardinality(Assets)
         /\ Cardinality(A) = 0 <=> A = {}
<1>1. IsFiniteSet(Assets) /\ Cardinality(Assets) \in Nat
  BY AssetsAssumption, FS_CardinalityType
<1>2. IsFiniteSet(A) /\ Cardinality(A) <= Cardinality(Assets)
  BY <1>1, FS_Subset
<1>3. Cardinality(A) \in Nat /\ (Cardinality(A) = 0 <=> A = {})
  BY <1>2, FS_CardinalityType, FS_EmptySet
<1>4. QED
  BY <1>1, <1>2, <1>3

LEMMA MinPair ==
  ASSUME NEW a \in Int, NEW b \in Int
  PROVE  Min({a, b}) <= a /\ Min({a, b}) <= b /\ Min({a, b}) \in {a, b}
<1>1. \E x \in {a, b} : \A y \in {a, b} : x =< y
  <2>1. CASE a <= b
    BY <2>1
  <2>2. CASE b <= a
    BY <2>2
  <2>3. QED
    BY <2>1, <2>2
<1>2. Min({a, b}) \in {a, b} /\ \A y \in {a, b} : Min({a, b}) =< y
  BY <1>1 DEF Min
<1>3. QED
  BY <1>2

(* m is the manifest o with other states.                                  *)
OtherStates(m, o) ==
  /\ m \in Manifest /\ m.loaded = o.loaded /\ m.updating = o.updating
  /\ m.json.version = o.json.version /\ m.json.updating = o.json.updating

LEMMA StatesReplaced ==
  ASSUME NEW o \in Manifest, NEW s \in [Assets -> DownloadState]
  PROVE  /\ OtherStates([o EXCEPT !.json.states = s], o)
         /\ [o EXCEPT !.json.states = s].json.states = s
BY DEF OtherStates, Manifest, File

LEMMA StateReplaced ==
  ASSUME NEW o \in Manifest, NEW a \in Assets, NEW d \in DownloadState
  PROVE  /\ OtherStates([o EXCEPT !.json.states[a] = d], o)
         /\ [o EXCEPT !.json.states[a] = d].json.states = [o.json.states EXCEPT ![a] = d]
BY DEF OtherStates, Manifest, File

LEMMA EmptyFacts ==
  /\ Empty \in [Assets -> 0..MaxVersion]
  /\ NoManifest \in File /\ ~NoManifest.updating /\ NoManifest.version = None
  /\ Unloaded \in Manifest /\ ~Unloaded.loaded /\ ~Unloaded.updating
  /\ Unloaded.json = NoManifest /\ Unloaded.updating = Unloaded.json.updating
<1>1. None \in 0..MaxVersion /\ Empty \in [Assets -> 0..MaxVersion]
  BY AssetsAssumption DEF Empty, None
<1>2. NoManifest \in File /\ ~NoManifest.updating /\ NoManifest.version = None
  BY <1>1 DEF NoManifest, File, Marked, DownloadState
<1>3. /\ Unloaded \in Manifest /\ ~Unloaded.loaded /\ ~Unloaded.updating
      /\ Unloaded.json = NoManifest
  BY <1>2 DEF Unloaded, Manifest
<1>4. Unloaded.updating = FALSE /\ Unloaded.json.updating = FALSE
  BY DEF Unloaded, NoManifest
<1>5. Unloaded.updating = Unloaded.json.updating
  BY <1>4, Zenon
<1>6. QED
  BY <1>1, <1>2, <1>3, <1>5

LEMMA TempManifestType ==
  ASSUME TypeOK
  PROVE  tempManifest \in Manifest
BY DEF TypeOK, tempManifest

LEMMA TempManifestSet ==
  ASSUME NEW m, SetTempManifest(m), aliased' = aliased
  PROVE  /\ tempManifest' = m
         /\ remote' = IF aliased THEN m ELSE remote
         /\ temp' = IF aliased THEN temp ELSE m
BY DEF SetTempManifest, tempManifest

-----------------------------------------------------------------------------
(* The records that the handlers of a download leave to queueDowload.      *)

UnitsRecord ==
  [queue : SUBSET Assets, inFlight : SUBSET Assets, wait : 0..Cardinality(Assets),
   failed : SUBSET Assets, files : [Assets -> 0..MaxVersion], manifest : Manifest,
   entry : {"NONE", "CHECK_UPDATE", "DO_UPDATE"}]

(* Sound of other files than the present ones.                             *)
SoundIn(files, file) ==
  file.updating => \A a \in Assets : file.states[a] \in {"SUCCESSED", "UNMARKED"} =>
                     files[a] = file.version

(* u is what an update may go on with, when wanted is what it downloads.    *)
Fit(u, wanted) ==
  /\ u \in UnitsRecord /\ wanted \in SUBSET Assets
  /\ remote.loaded /\ remote.json.version # None
  /\ u.wait = Cardinality(u.queue) + Cardinality(u.inFlight)
  /\ u.queue \cap u.inFlight = {} /\ Cardinality(u.inFlight) <= maxConcurrentTask
  /\ OtherStates(u.manifest, tempManifest)
  /\ u.manifest.json.version = remote.json.version
  /\ tempManifestFile.version = remote.json.version
  /\ aliased => remote.updating
  /\ SoundIn(u.files, u.manifest.json) /\ SoundIn(u.files, tempManifestFile)
  /\ \A a \in wanted \ (u.queue \cup u.inFlight \cup u.failed) :
       u.files[a] = remote.json.version
  /\ spoiled = {} =>
       \A a \in Assets \ (u.queue \cup u.inFlight \cup u.failed) :
         u.files[a] = remote.json.version

LEMMA UnitsNow ==
  ASSUME TypeOK
  PROVE  Units \in UnitsRecord
BY TempManifestType DEF TypeOK, Units, UnitsRecord

(* The fields of what the two handlers leave.                              *)
LEMMA SuccessFields ==
  ASSUME TypeOK, NEW a \in Assets, totalWait # 0
  PROVE  LET u == AfterSuccess(a)
         IN  /\ u \in UnitsRecord
             /\ u.queue = queue /\ u.inFlight = inFlight \ {a} /\ u.wait = totalWait - 1
             /\ u.failed = failedUnits \ {a}
             /\ u.files = [tempFiles EXCEPT ![a] = remote.json.version]
             /\ OtherStates(u.manifest, tempManifest)
             /\ u.manifest.json.states = [tempManifest.json.states EXCEPT ![a] = "SUCCESSED"]
             /\ u.entry = entry
<1> DEFINE m == Remarked(a, "SUCCESSED")
           f == [tempFiles EXCEPT ![a] = remote.json.version]
<1>1. AfterSuccess(a) = [queue |-> queue, inFlight |-> inFlight \ {a}, wait |-> totalWait - 1,
                         failed |-> failedUnits \ {a}, files |-> f, manifest |-> m,
                         entry |-> entry]
  <2>1. PICK u : u = Units
    OBVIOUS
  <2>2. PICK v : v = [u EXCEPT !.inFlight = inFlight \ {a}, !.wait = totalWait - 1]
    OBVIOUS
  <2>3. PICK w : w = [v EXCEPT !.failed = failedUnits \ {a}, !.files = f, !.manifest = m]
    OBVIOUS
  <2>4. AfterSuccess(a) = w
    <3>1. /\ u.inFlight = inFlight /\ u.wait = totalWait /\ u.failed = failedUnits
          /\ u.files = tempFiles
      BY <2>1 DEF Units
    <3>2. v.files = tempFiles
      BY <2>1, <2>2 DEF Units
    <3>3. QED
      BY <2>1, <2>2, <2>3, <3>1, <3>2, Zenon DEF AfterSuccess
  <2>5. v = [queue |-> queue, inFlight |-> inFlight \ {a}, wait |-> totalWait - 1,
             failed |-> failedUnits, files |-> tempFiles, manifest |-> tempManifest,
             entry |-> entry]
    BY <2>1, <2>2 DEF Units
  <2>6. w = [queue |-> queue, inFlight |-> inFlight \ {a}, wait |-> totalWait - 1,
             failed |-> failedUnits \ {a}, files |-> f, manifest |-> m, entry |-> entry]
    BY <2>3, <2>5
  <2>7. QED
    BY <2>4, <2>6
<1>2. /\ OtherStates(m, tempManifest)
      /\ m.json.states = [tempManifest.json.states EXCEPT ![a] = "SUCCESSED"]
  BY TempManifestType, StateReplaced DEF DownloadState, Remarked
<1>3. m \in Manifest
  BY <1>2 DEF OtherStates
<1>4. f \in [Assets -> 0..MaxVersion]
  BY DEF TypeOK, Manifest, File
<1>5. totalWait - 1 \in 0..Cardinality(Assets)
  BY SomeAssets DEF TypeOK
<1> HIDE DEF m, f
<1>6. AfterSuccess(a) \in UnitsRecord
  BY <1>1, <1>3, <1>4, <1>5 DEF UnitsRecord, TypeOK
<1>7. QED
  BY <1>1, <1>2, <1>6 DEF f

LEMMA ErrorFields ==
  ASSUME TypeOK, NEW a \in Assets, totalWait # 0
  PROVE  LET u == AfterError(a)
         IN  /\ u \in UnitsRecord
             /\ u.queue = queue /\ u.inFlight = inFlight \ {a} /\ u.wait = totalWait - 1
             /\ u.failed = failedUnits \cup {a}
             /\ u.files = tempFiles
             /\ OtherStates(u.manifest, tempManifest)
             /\ u.manifest.json.states = [tempManifest.json.states EXCEPT ![a] = "UNSTARTED"]
             /\ u.entry = "NONE"
<1> DEFINE m == Remarked(a, "UNSTARTED")
<1>1. AfterError(a) = [queue |-> queue, inFlight |-> inFlight \ {a}, wait |-> totalWait - 1,
                       failed |-> failedUnits \cup {a}, files |-> tempFiles, manifest |-> m,
                       entry |-> "NONE"]
  <2>1. PICK u : u = Units
    OBVIOUS
  <2>2. PICK v : v = [u EXCEPT !.inFlight = inFlight \ {a}, !.wait = totalWait - 1]
    OBVIOUS
  <2>3. PICK w : w = [v EXCEPT !.failed = failedUnits \cup {a}, !.manifest = m, !.entry = "NONE"]
    OBVIOUS
  <2>4. AfterError(a) = w
    <3>1. /\ u.inFlight = inFlight /\ u.wait = totalWait /\ u.failed = failedUnits
      BY <2>1 DEF Units
    <3>2. QED
      BY <2>1, <2>2, <2>3, <3>1, Zenon DEF AfterError
  <2>5. v = [queue |-> queue, inFlight |-> inFlight \ {a}, wait |-> totalWait - 1,
             failed |-> failedUnits, files |-> tempFiles, manifest |-> tempManifest,
             entry |-> entry]
    BY <2>1, <2>2 DEF Units
  <2>6. w = [queue |-> queue, inFlight |-> inFlight \ {a}, wait |-> totalWait - 1,
             failed |-> failedUnits \cup {a}, files |-> tempFiles, manifest |-> m,
             entry |-> "NONE"]
    BY <2>3, <2>5
  <2>7. QED
    BY <2>4, <2>6
<1>2. /\ OtherStates(m, tempManifest)
      /\ m.json.states = [tempManifest.json.states EXCEPT ![a] = "UNSTARTED"]
  BY TempManifestType, StateReplaced DEF DownloadState, Remarked
<1>3. m \in Manifest
  BY <1>2 DEF OtherStates
<1>4. totalWait - 1 \in 0..Cardinality(Assets)
  BY SomeAssets DEF TypeOK
<1> HIDE DEF m
<1>5. AfterError(a) \in UnitsRecord
  BY <1>1, <1>3, <1>4 DEF UnitsRecord, TypeOK
<1>6. QED
  BY <1>1, <1>2, <1>5

(* A unit that is under way is counted.                                    *)
LEMMA UnderWay ==
  ASSUME IInv, NEW a \in inFlight
  PROVE  /\ Downloading /\ totalWait # 0 /\ a \in Assets /\ a \notin queue
         /\ totalWait - 1 = Cardinality(queue) + Cardinality(inFlight \ {a})
         /\ Cardinality(inFlight \ {a}) <= maxConcurrentTask
<1>1. Downloading /\ a \in Assets
  BY DEF IInv, PhaseInv, TypeOK
<1>2. /\ totalWait = Cardinality(queue) + Cardinality(inFlight)
      /\ queue \cap inFlight = {} /\ Cardinality(inFlight) <= maxConcurrentTask
  BY <1>1 DEF IInv, UnitsAccounted, Downloading
<1>3. IsFiniteSet(inFlight) /\ Cardinality(inFlight) \in Nat /\ Cardinality(queue) \in Nat
  BY SomeAssets DEF IInv, TypeOK
<1>4. Cardinality(inFlight \ {a}) = Cardinality(inFlight) - 1
  BY <1>3, FS_RemoveElement
<1>5. Cardinality(inFlight) # 0
  BY <1>3, FS_EmptySet
<1>6. maxConcurrentTask \in Nat
  BY AssetsAssumption
<1>7. QED
  BY <1>1, <1>2, <1>3, <1>4, <1>5, <1>6

LEMMA DownloadingNow ==
  ASSUME IInv, Downloading
  PROVE  /\ remote.loaded /\ remote.json.version # None
         /\ tempManifest.json.version = remote.json.version
         /\ tempManifestFile.version = remote.json.version
         /\ aliased => remote.updating
         /\ SoundIn(tempFiles, tempManifest.json) /\ SoundIn(tempFiles, tempManifestFile)
         /\ \A a \in downloadUnits \ (queue \cup inFlight \cup failedUnits) :
              tempFiles[a] = remote.json.version
         /\ spoiled = {} => \A a \in Assets \ (queue \cup inFlight \cup failedUnits) :
                              tempFiles[a] = remote.json.version
<1>1. state = "UPDATING" /\ phase = "none" /\ ~Planned /\ ~Preparing /\ Going
  BY DEF Downloading, Planned, Preparing, Going
<1>2. /\ remote.loaded /\ remote.json.version # None
      /\ tempManifest.json.version = remote.json.version
      /\ tempManifestFile.version = remote.json.version
      /\ aliased => remote.updating
  BY <1>1 DEF IInv, PhaseInv, ManifestInv
<1>3. SoundIn(tempFiles, tempManifest.json) /\ SoundIn(tempFiles, tempManifestFile)
  BY <1>1 DEF IInv, MemorySound, ResumeSound, Sound, SoundIn
<1>4. \A a \in downloadUnits \ (queue \cup inFlight \cup failedUnits) :
        tempFiles[a] = remote.json.version
  BY <1>1 DEF IInv, UnitsAccounted
<1>5. spoiled = {} => \A a \in Assets \ (queue \cup inFlight \cup failedUnits) :
                        tempFiles[a] = remote.json.version
  BY <1>1 DEF IInv, AtomicInv, Arrived, Missing, Downloading
<1>6. QED
  BY <1>2, <1>3, <1>4, <1>5

LEMMA SuccessFits ==
  ASSUME IInv, NEW a \in inFlight
  PROVE  Fit(AfterSuccess(a), downloadUnits)
<1>1. PICK u : u = AfterSuccess(a)
  OBVIOUS
<1>2. TypeOK /\ Downloading /\ totalWait # 0 /\ a \in Assets /\ a \notin queue
  BY UnderWay DEF IInv
<1>3. /\ u \in UnitsRecord
      /\ u.queue = queue /\ u.inFlight = inFlight \ {a} /\ u.wait = totalWait - 1
      /\ u.failed = failedUnits \ {a}
      /\ u.files = [tempFiles EXCEPT ![a] = remote.json.version]
      /\ OtherStates(u.manifest, tempManifest)
      /\ u.manifest.json.states = [tempManifest.json.states EXCEPT ![a] = "SUCCESSED"]
  BY <1>1, <1>2, SuccessFields
<1>4. u.wait = Cardinality(u.queue) + Cardinality(u.inFlight)
      /\ Cardinality(u.inFlight) <= maxConcurrentTask
  BY <1>3, UnderWay
<1>5. u.queue \cap u.inFlight = {}
  BY <1>2, <1>3 DEF IInv, UnitsAccounted, Downloading
<1>6. /\ tempFiles \in [Assets -> 0..MaxVersion] /\ downloadUnits \in SUBSET Assets
      /\ tempManifest.json.states \in [Assets -> DownloadState]
  BY <1>2, TempManifestType DEF TypeOK, Manifest, File
<1>7. u.files[a] = remote.json.version /\ \A b \in Assets \ {a} : u.files[b] = tempFiles[b]
  BY <1>2, <1>3, <1>6
<1>8. \A b \in Assets \ {a} : u.manifest.json.states[b] = tempManifest.json.states[b]
  BY <1>2, <1>3, <1>6
<1>9. /\ u.manifest.json.version = remote.json.version
      /\ u.manifest.json.updating = tempManifest.json.updating
      /\ tempManifest.json.version = remote.json.version
  BY <1>2, <1>3, DownloadingNow DEF OtherStates
<1>10. SoundIn(u.files, u.manifest.json)
  BY <1>2, <1>7, <1>8, <1>9, DownloadingNow DEF SoundIn
<1>11. SoundIn(u.files, tempManifestFile)
  BY <1>2, <1>7, DownloadingNow DEF SoundIn
<1>12. \A b \in downloadUnits \ (u.queue \cup u.inFlight \cup u.failed) :
         u.files[b] = remote.json.version
  <2> SUFFICES ASSUME NEW b \in downloadUnits \ (u.queue \cup u.inFlight \cup u.failed)
               PROVE  u.files[b] = remote.json.version
    OBVIOUS
  <2>1. CASE b # a
    <3>1. b \in downloadUnits \ (queue \cup inFlight \cup failedUnits) /\ b \in Assets
      BY <2>1, <1>3, <1>6
    <3>2. QED
      BY <3>1, <2>1, <1>2, <1>7, DownloadingNow
  <2>2. QED
    BY <2>1, <1>7
<1>13. spoiled = {} => \A b \in Assets \ (u.queue \cup u.inFlight \cup u.failed) :
                         u.files[b] = remote.json.version
  <2> SUFFICES ASSUME spoiled = {}, NEW b \in Assets \ (u.queue \cup u.inFlight \cup u.failed)
               PROVE  u.files[b] = remote.json.version
    OBVIOUS
  <2>1. CASE b # a
    <3>1. b \in Assets \ (queue \cup inFlight \cup failedUnits)
      BY <2>1, <1>3
    <3>2. QED
      BY <3>1, <2>1, <1>2, <1>7, DownloadingNow
  <2>2. QED
    BY <2>1, <1>7
<1>14. QED
  BY <1>1, <1>2, <1>3, <1>4, <1>5, <1>6, <1>9, <1>10, <1>11, <1>12, <1>13, DownloadingNow DEF Fit

LEMMA ErrorFits ==
  ASSUME IInv, NEW a \in inFlight
  PROVE  Fit(AfterError(a), downloadUnits)
<1>1. PICK u : u = AfterError(a)
  OBVIOUS
<1>2. TypeOK /\ Downloading /\ totalWait # 0 /\ a \in Assets /\ a \notin queue
  BY UnderWay DEF IInv
<1>3. /\ u \in UnitsRecord
      /\ u.queue = queue /\ u.inFlight = inFlight \ {a} /\ u.wait = totalWait - 1
      /\ u.failed = failedUnits \cup {a}
      /\ u.files = tempFiles
      /\ OtherStates(u.manifest, tempManifest)
      /\ u.manifest.json.states = [tempManifest.json.states EXCEPT ![a] = "UNSTARTED"]
  BY <1>1, <1>2, ErrorFields
<1>4. u.wait = Cardinality(u.queue) + Cardinality(u.inFlight)
      /\ Cardinality(u.inFlight) <= maxConcurrentTask
  BY <1>3, UnderWay
<1>5. u.queue \cap u.inFlight = {}
  BY <1>2, <1>3 DEF IInv, UnitsAccounted, Downloading
<1>6. /\ downloadUnits \in SUBSET Assets
      /\ tempManifest.json.states \in [Assets -> DownloadState]
  BY <1>2, TempManifestType DEF TypeOK, Manifest, File
<1>7. /\ u.manifest.json.states[a] = "UNSTARTED"
      /\ \A b \in Assets \ {a} : u.manifest.json.states[b] = tempManifest.json.states[b]
  BY <1>2, <1>3, <1>6
<1>8. /\ u.manifest.json.version = remote.json.version
      /\ u.manifest.json.updating = tempManifest.json.updating
      /\ tempManifest.json.version = remote.json.version
  BY <1>2, <1>3, DownloadingNow DEF OtherStates
<1>9. SoundIn(u.files, u.manifest.json)
  BY <1>2, <1>3, <1>7, <1>8, DownloadingNow DEF SoundIn
<1>10. SoundIn(u.files, tempManifestFile)
  BY <1>2, <1>3, DownloadingNow
<1>11. u.queue \cup u.inFlight \cup u.failed = queue \cup inFlight \cup failedUnits
  BY <1>3
<1>12. QED
  BY <1>1, <1>2, <1>3, <1>4, <1>5, <1>6, <1>8, <1>9, <1>10, <1>11, DownloadingNow DEF Fit

LEMMA BatchFits ==
  ASSUME IInv, Planned, NEW e \in {"NONE", "CHECK_UPDATE", "DO_UPDATE"}
  PROVE  Fit([Units EXCEPT !.queue = downloadUnits, !.entry = e], downloadUnits)
<1>1. PICK u : u = [Units EXCEPT !.queue = downloadUnits, !.entry = e]
  OBVIOUS
<1>2. /\ TypeOK /\ failedUnits = {} /\ totalWait = Cardinality(downloadUnits)
      /\ downloadUnits \in SUBSET Assets
  BY DEF IInv, PlanInv, TypeOK
<1>3. state # "UP_TO_DATE" /\ phase \notin {"merge", "succeed"} /\ ~Downloading /\ Going
  BY DEF IInv, PhaseInv, Planned, Preparing, Downloading, Going
<1>4. inFlight = {} /\ remote.loaded /\ remote.json.version # None
  BY <1>3 DEF IInv, PhaseInv
<1>5. phase \notin {"diff", "merge"}
  BY <1>3 DEF IInv, PhaseInv, Planned, Preparing
<1>6. /\ tempManifest.json.version = remote.json.version
      /\ tempManifestFile.version = remote.json.version
      /\ aliased => remote.updating
  BY <1>3, <1>5 DEF IInv, ManifestInv
<1>7. u = [queue |-> downloadUnits, inFlight |-> inFlight, wait |-> totalWait,
           failed |-> failedUnits, files |-> tempFiles, manifest |-> tempManifest,
           entry |-> e]
  BY <1>1 DEF Units
<1>8. u \in UnitsRecord
  BY <1>2, <1>7, TempManifestType DEF UnitsRecord, TypeOK
<1>9. u.wait = Cardinality(u.queue) + Cardinality(u.inFlight)
      /\ Cardinality(u.inFlight) <= maxConcurrentTask
  <2>1. Cardinality(inFlight) = 0 /\ Cardinality(downloadUnits) \in Nat
    BY <1>2, <1>4, SomeAssets
  <2>2. maxConcurrentTask \in Nat
    BY AssetsAssumption
  <2>3. QED
    BY <1>2, <1>7, <2>1, <2>2
<1>10. u.queue \cap u.inFlight = {}
  BY <1>4, <1>7
<1>11. OtherStates(u.manifest, tempManifest)
  BY <1>2, <1>7, TempManifestType DEF OtherStates
<1>12. SoundIn(tempFiles, tempManifest.json) /\ SoundIn(tempFiles, tempManifestFile)
  BY <1>3 DEF IInv, MemorySound, ResumeSound, Sound, SoundIn
<1>13. u.queue \cup u.inFlight \cup u.failed = downloadUnits
  BY <1>2, <1>4, <1>7
<1>14. spoiled = {} => \A a \in Assets \ downloadUnits : u.files[a] = remote.json.version
  BY <1>3, <1>7 DEF IInv, AtomicInv, Arrived, Missing
<1>15. u.manifest = tempManifest /\ u.files = tempFiles
  BY <1>7
<1>16. Fit(u, downloadUnits)
  BY <1>2, <1>4, <1>6, <1>7, <1>8, <1>9, <1>10, <1>11, <1>12, <1>13, <1>14, <1>15 DEF Fit
<1>17. QED
  BY <1>1, <1>16

LEMMA RetryFits ==
  ASSUME IInv, state \notin Busy \cup {"UP_TO_DATE"}, remote.loaded, failedUnits # {}
  PROVE  Fit([Units EXCEPT !.queue = failedUnits, !.wait = Cardinality(failedUnits)], failedUnits)
<1>1. PICK u : u = [Units EXCEPT !.queue = failedUnits, !.wait = Cardinality(failedUnits)]
  OBVIOUS
<1>2. TypeOK /\ failedUnits \in SUBSET Assets
  BY DEF IInv, TypeOK
<1>3. /\ phase \notin {"merge", "succeed"} /\ ~Downloading /\ ~Preparing /\ ~Planned
      /\ Going
  BY DEF IInv, PhaseInv, Planned, PlanInv, Preparing, Downloading, Going, Busy
<1>4. inFlight = {} /\ remote.json.version # None
  BY <1>3 DEF IInv, PhaseInv
<1>5. /\ tempManifest.json.version = remote.json.version
      /\ tempManifestFile.version = remote.json.version
      /\ aliased => remote.updating
  BY <1>3 DEF IInv, ManifestInv, Preparing
<1>6. u = [queue |-> failedUnits, inFlight |-> inFlight, wait |-> Cardinality(failedUnits),
           failed |-> failedUnits, files |-> tempFiles, manifest |-> tempManifest,
           entry |-> entry]
  BY <1>1 DEF Units
<1>7. /\ Cardinality(inFlight) = 0 /\ Cardinality(failedUnits) \in 0..Cardinality(Assets)
      /\ Cardinality(failedUnits) \in Nat
  BY <1>2, <1>4, SomeAssets
<1>8. u \in UnitsRecord
  BY <1>2, <1>6, <1>7, TempManifestType DEF UnitsRecord, TypeOK
<1>9. u.wait = Cardinality(u.queue) + Cardinality(u.inFlight)
      /\ Cardinality(u.inFlight) <= maxConcurrentTask
  BY <1>6, <1>7, AssetsAssumption
<1>10. u.queue \cap u.inFlight = {}
  BY <1>4, <1>6
<1>11. OtherStates(u.manifest, tempManifest)
  BY <1>2, <1>6, TempManifestType DEF OtherStates
<1>12. SoundIn(tempFiles, tempManifest.json) /\ SoundIn(tempFiles, tempManifestFile)
  BY DEF IInv, MemorySound, ResumeSound, Sound, SoundIn
<1>13. u.queue \cup u.inFlight \cup u.failed = failedUnits
  BY <1>4, <1>6
<1>14. spoiled = {} => \A a \in Assets \ failedUnits : u.files[a] = remote.json.version
  BY <1>3, <1>6 DEF IInv, AtomicInv, Arrived, Missing
<1>15. u.manifest = tempManifest /\ u.files = tempFiles
  BY <1>6
<1>16. Fit(u, failedUnits)
  BY <1>2, <1>4, <1>5, <1>6, <1>8, <1>9, <1>10, <1>11, <1>12, <1>13, <1>14, <1>15 DEF Fit
<1>17. QED
  BY <1>1, <1>16

-----------------------------------------------------------------------------
(* queueDowload.                                                           *)

LEMMA FinishKeeps ==
  ASSUME IInv, NEW u, NEW wanted, Fit(u, wanted), phase \in {"none", "prepared"},
         u.wait = 0 \/ (canceled /\ u.inFlight = {}), UnitsFinished(u),
         totalWait' = u.wait, failedUnits' = u.failed, tempFiles' = u.files,
         downloadUnits' = wanted,
         UNCHANGED <<server, storage, cached, aliased, canceled, local, spoiled>>
  PROVE  IInv'
<1>1. /\ u \in UnitsRecord /\ wanted \in SUBSET Assets
      /\ remote.loaded /\ remote.json.version # None
      /\ OtherStates(u.manifest, tempManifest) /\ u.manifest \in Manifest
      /\ u.manifest.json \in File
      /\ u.manifest.json.version = remote.json.version
      /\ aliased => remote.updating
  BY DEF Fit, UnitsRecord, Manifest
<1>2. u.wait = 0 => u.queue = {} /\ u.inFlight = {}
  <2>1. /\ Cardinality(u.queue) \in Nat /\ (Cardinality(u.queue) = 0 <=> u.queue = {})
        /\ Cardinality(u.inFlight) \in Nat /\ (Cardinality(u.inFlight) = 0 <=> u.inFlight = {})
    BY <1>1, SomeAssets DEF UnitsRecord
  <2>2. u.wait = Cardinality(u.queue) + Cardinality(u.inFlight)
    BY DEF Fit
  <2>3. QED
    BY <2>1, <2>2
<1>3. u.inFlight = {} /\ (spoiled = {} => u.queue = {})
  BY <1>2 DEF IInv, SpoiledInv
<1>4. /\ tempManifest' = u.manifest
      /\ remote' = IF aliased THEN u.manifest ELSE remote
      /\ temp' = IF aliased THEN temp ELSE u.manifest
  BY TempManifestSet DEF UnitsFinished
<1>5. /\ remote' \in Manifest /\ temp' \in Manifest
      /\ remote'.loaded /\ remote'.json.version = remote.json.version
      /\ remote'.updating = remote.updating
      /\ temp'.updating = temp'.json.updating
  BY <1>1, <1>4 DEF IInv, TypeOK, ManifestInv, OtherStates, tempManifest
<1>6. /\ queue' = u.queue /\ inFlight' = {} /\ tempManifestFile' = u.manifest.json
      /\ merging' = merging
      /\ \/ u.failed # {} /\ state' = "FAIL_TO_UPDATE" /\ entry' = "NONE" /\ phase' = "none"
         \/ u.failed = {} /\ state' = "UPDATING" /\ entry' = u.entry /\ phase' = "succeed"
  BY <1>3 DEF UnitsFinished
<1>7. /\ ~Planned' /\ ~Preparing' /\ ~Downloading'
      /\ phase' \in {"none", "succeed"} /\ state' \in {"FAIL_TO_UPDATE", "UPDATING"}
  BY <1>6 DEF Planned, Preparing, Downloading
<1>8. TypeOK'
  BY <1>1, <1>5, <1>6 DEF IInv, TypeOK, UnitsRecord
<1>9. PhaseInv' /\ PlanInv'
  BY <1>1, <1>5, <1>6, <1>7 DEF PhaseInv, PlanInv, Preparing
<1>10. ManifestInv'
  BY <1>1, <1>4, <1>5, <1>6, <1>7 DEF ManifestInv
<1>11. UnitsAccounted'
  BY <1>6 DEF UnitsAccounted
<1>12. MemorySound' /\ ResumeSound'
  <2>1. SoundIn(tempFiles', u.manifest.json)
    BY DEF Fit
  <2>2. QED
    BY <2>1, <1>4, <1>6 DEF SoundIn, MemorySound, ResumeSound, Sound
<1>13. LocalInv'
  BY <1>6 DEF IInv, LocalInv
<1>14. SpoiledInv'
  BY <1>5, <1>6 DEF IInv, SpoiledInv
<1>15. AtomicInv'
  <2> SUFFICES ASSUME spoiled = {} PROVE FilesMatchManifest' /\ Arrived'
    BY DEF AtomicInv
  <2>1. FilesMatchManifest'
    BY DEF IInv, AtomicInv, FilesMatchManifest
  <2>2. \A a \in Assets \ u.failed : u.files[a] = remote.json.version
    BY <1>3 DEF Fit
  <2>3. Missing' = u.failed
    BY <1>6, <1>7 DEF Missing
  <2>4. Arrived'
    BY <2>2, <2>3, <1>5, <1>7 DEF Arrived
  <2>5. QED
    BY <2>1, <2>4
<1>16. QED
  BY <1>8, <1>9, <1>10, <1>11, <1>12, <1>13, <1>14, <1>15 DEF IInv

LEMMA StartKeeps ==
  ASSUME IInv, NEW u, NEW wanted, Fit(u, wanted), phase \in {"none", "prepared"}, StartMore(u),
         totalWait' = u.wait, failedUnits' = u.failed, tempFiles' = u.files,
         downloadUnits' = wanted,
         UNCHANGED <<server, storage, cached, aliased, canceled, local, spoiled>>
  PROVE  IInv'
<1>1. /\ u \in UnitsRecord /\ wanted \in SUBSET Assets
      /\ remote.loaded /\ remote.json.version # None
      /\ u.manifest.json.version = remote.json.version
      /\ aliased => remote.updating
      /\ u.queue \in SUBSET Assets /\ u.inFlight \in SUBSET Assets
      /\ u.manifest \in Manifest /\ u.manifest.json.states \in [Assets -> DownloadState]
  BY DEF Fit, UnitsRecord, Manifest, File
<1> DEFINE free == IF canceled THEN 0 ELSE maxConcurrentTask - Cardinality(u.inFlight)
           n == Min({free, Cardinality(u.queue)})
<1>2. PICK start \in SUBSET u.queue, states \in [Assets -> DownloadState], m \in Manifest :
        /\ Cardinality(start) = n
        /\ states = [a \in Assets |-> IF a \in start THEN "DOWNLOADING"
                                      ELSE u.manifest.json.states[a]]
        /\ m = [u.manifest EXCEPT !.json.states = states]
        /\ queue' = u.queue \ start /\ inFlight' = u.inFlight \cup start
        /\ SetTempManifest(m)
        /\ tempManifestFile' \in {tempManifestFile, m.json}
        /\ state' = "UPDATING" /\ entry' = u.entry
        /\ phase' = "none" /\ UNCHANGED merging
  <2>1. PICK start \in kSubset(n, u.queue) :
          LET states == [a \in Assets |-> IF a \in start THEN "DOWNLOADING"
                                          ELSE u.manifest.json.states[a]]
              m == [u.manifest EXCEPT !.json.states = states]
          IN  /\ queue' = u.queue \ start /\ inFlight' = u.inFlight \cup start
              /\ SetTempManifest(m)
              /\ tempManifestFile' \in {tempManifestFile, m.json}
              /\ state' = "UPDATING" /\ entry' = u.entry
              /\ phase' = "none" /\ UNCHANGED merging
    BY DEF StartMore
  <2>2. start \in SUBSET u.queue /\ Cardinality(start) = n
    BY <2>1 DEF kSubset
  <2>3. [a \in Assets |-> IF a \in start THEN "DOWNLOADING" ELSE u.manifest.json.states[a]]
          \in [Assets -> DownloadState]
    BY <1>1 DEF DownloadState
  <2>4. \A s \in [Assets -> DownloadState] : [u.manifest EXCEPT !.json.states = s] \in Manifest
    BY <1>1, StatesReplaced DEF OtherStates
  <2>5. QED
    BY <2>1, <2>2, <2>3, <2>4
<1>3. OtherStates(m, u.manifest) /\ m.json.states = states
  BY <1>1, <1>2, StatesReplaced
<1>4. /\ OtherStates(m, tempManifest) /\ m \in Manifest /\ m.json \in File
      /\ m.json.version = remote.json.version /\ m.json.updating = u.manifest.json.updating
  BY <1>1, <1>3 DEF Fit, OtherStates, Manifest
<1>5. /\ tempManifest' = m
      /\ remote' = IF aliased THEN m ELSE remote
      /\ temp' = IF aliased THEN temp ELSE m
  BY <1>2, TempManifestSet
<1>6. /\ remote' \in Manifest /\ temp' \in Manifest
      /\ remote'.loaded /\ remote'.json.version = remote.json.version
      /\ remote'.updating = remote.updating
      /\ temp'.updating = temp'.json.updating
  BY <1>1, <1>4, <1>5 DEF IInv, TypeOK, ManifestInv, OtherStates, tempManifest
<1>7. ~Planned' /\ ~Preparing' /\ Downloading' /\ state' = "UPDATING" /\ phase' = "none"
  BY <1>2 DEF Planned, Preparing, Downloading
<1>8. TypeOK'
  <2>1. /\ queue' \subseteq Assets /\ inFlight' \subseteq Assets /\ entry' = u.entry
        /\ merging' = merging
    BY <1>1, <1>2
  <2>2. tempManifestFile' \in File
    BY <1>2, <1>4 DEF IInv, TypeOK
  <2>3. QED
    BY <1>1, <1>6, <1>7, <2>1, <2>2 DEF IInv, TypeOK, UnitsRecord
<1>9. PhaseInv' /\ PlanInv'
  BY <1>1, <1>6, <1>7 DEF PhaseInv, PlanInv
<1>10. ManifestInv'
  <2>1. tempManifestFile'.version = remote.json.version
    BY <1>2, <1>4 DEF Fit
  <2>2. QED
    BY <2>1, <1>1, <1>4, <1>5, <1>6, <1>7 DEF ManifestInv
<1>11. UnitsAccounted'
  <2>1. totalWait' = Cardinality(queue') + Cardinality(inFlight')
        /\ Cardinality(inFlight') <= maxConcurrentTask
    <3>1. /\ IsFiniteSet(u.queue) /\ IsFiniteSet(u.inFlight) /\ IsFiniteSet(start)
          /\ Cardinality(u.queue) \in Nat /\ Cardinality(u.inFlight) \in Nat
          /\ Cardinality(start) \in Nat
      BY <1>1, <1>2, SomeAssets
    <3>2. maxConcurrentTask \in Nat /\ free \in Int
      BY <3>1, AssetsAssumption
    <3>3. n <= free /\ n <= Cardinality(u.queue)
      <4> HIDE DEF free
      <4>1. \A x, y \in Int : Min({x, y}) <= x /\ Min({x, y}) <= y
        BY MinPair
      <4>2. Cardinality(u.queue) \in Int
        BY <3>1
      <4>3. QED
        BY <3>2, <4>1, <4>2
    <3>4. /\ Cardinality(u.inFlight) <= maxConcurrentTask /\ u.queue \cap u.inFlight = {}
          /\ u.wait = Cardinality(u.queue) + Cardinality(u.inFlight)
      BY DEF Fit
    <3>5. u.queue \cap start = start /\ u.inFlight \cap start = {}
      BY <1>2, <3>4
    <3>6. Cardinality(u.queue \ start) = Cardinality(u.queue) - Cardinality(start)
      BY <3>1, <3>5, FS_Difference
    <3>7. Cardinality(u.inFlight \cup start) = Cardinality(u.inFlight) + Cardinality(start)
      <4>1. Cardinality(u.inFlight \cup start)
              = Cardinality(u.inFlight) + Cardinality(start) - Cardinality({})
        BY <3>1, <3>5, FS_Union
      <4>2. QED
        BY <4>1, <3>1, FS_EmptySet
    <3>8. Cardinality(u.inFlight) + Cardinality(start) <= maxConcurrentTask
      BY <1>2, <3>1, <3>2, <3>3, <3>4
    <3>9. QED
      BY <1>2, <3>1, <3>4, <3>6, <3>7, <3>8
  <2>2. queue' \cap inFlight' = {}
    BY <1>2 DEF Fit
  <2>3. queue' \cup inFlight' = u.queue \cup u.inFlight
    BY <1>2
  <2>4. \A a \in wanted \ (u.queue \cup u.inFlight \cup u.failed) :
          u.files[a] = remote.json.version
    BY DEF Fit
  <2>5. \A a \in wanted \ (queue' \cup inFlight' \cup u.failed) :
          u.files[a] = remote.json.version
    BY <2>3, <2>4
  <2>6. QED
    BY <1>6, <2>1, <2>2, <2>5 DEF UnitsAccounted
<1>12. MemorySound' /\ ResumeSound'
  <2>1. /\ SoundIn(u.files, u.manifest.json) /\ SoundIn(u.files, tempManifestFile)
        /\ u.manifest.json.version = remote.json.version
    BY DEF Fit
  <2>2. \A a \in Assets : states[a] \in {"SUCCESSED", "UNMARKED"} =>
                            u.manifest.json.states[a] = states[a]
    BY <1>1, <1>2
  <2>3. SoundIn(u.files, m.json)
    BY <2>1, <2>2, <1>3, <1>4 DEF SoundIn
  <2>4. SoundIn(u.files, tempManifestFile')
    BY <2>1, <2>3, <1>2
  <2>5. QED
    BY <2>3, <2>4, <1>5 DEF SoundIn, MemorySound, ResumeSound, Sound
<1>13. LocalInv'
  BY <1>2 DEF IInv, LocalInv
<1>14. SpoiledInv'
  BY <1>7 DEF IInv, SpoiledInv
<1>15. AtomicInv'
  <2> SUFFICES ASSUME spoiled = {} PROVE FilesMatchManifest' /\ Arrived'
    BY DEF AtomicInv
  <2>1. FilesMatchManifest'
    BY DEF IInv, AtomicInv, FilesMatchManifest
  <2>2. \A a \in Assets \ (u.queue \cup u.inFlight \cup u.failed) :
          u.files[a] = remote.json.version
    BY DEF Fit
  <2>3. Missing' = u.queue \cup u.inFlight \cup u.failed
    BY <1>2, <1>7 DEF Missing
  <2>4. Arrived'
    BY <2>2, <2>3, <1>6, <1>7 DEF Arrived
  <2>5. QED
    BY <2>1, <2>4
<1>16. QED
  BY <1>8, <1>9, <1>10, <1>11, <1>12, <1>13, <1>14, <1>15 DEF IInv

LEMMA QueueKeeps ==
  ASSUME IInv, NEW u, NEW wanted, Fit(u, wanted), phase \in {"none", "prepared"},
         QueueDownload(u), downloadUnits' = wanted,
         UNCHANGED <<server, storage, cached, aliased, canceled, local, spoiled>>
  PROVE  IInv'
BY FinishKeeps, StartKeeps DEF QueueDownload

LEMMA FileDoneKeeps ==
  ASSUME IInv, NEW a \in Assets, FileDone(a)
  PROVE  IInv'
<1>1. a \in inFlight /\ phase = "none" /\ downloadUnits' = downloadUnits
      /\ UNCHANGED <<server, storage, cached, aliased, canceled, local, spoiled>>
  BY UnderWay DEF FileDone, Downloading
<1>2. ASSUME QueueDownload(AfterSuccess(a)) PROVE IInv'
  <2>1. PICK u : u = AfterSuccess(a)
    OBVIOUS
  <2>2. PICK wanted : wanted = downloadUnits
    OBVIOUS
  <2>3. Fit(u, wanted)
    BY <1>1, <2>1, <2>2, SuccessFits
  <2>4. QED
    BY <1>1, <1>2, <2>1, <2>2, <2>3, QueueKeeps
<1>3. ASSUME QueueDownload(AfterError(a)) PROVE IInv'
  <2>1. PICK u : u = AfterError(a)
    OBVIOUS
  <2>2. PICK wanted : wanted = downloadUnits
    OBVIOUS
  <2>3. Fit(u, wanted)
    BY <1>1, <2>1, <2>2, ErrorFits
  <2>4. QED
    BY <1>1, <1>3, <2>1, <2>2, <2>3, QueueKeeps
<1>4. QED
  BY <1>2, <1>3 DEF FileDone

LEMMA BatchKeeps ==
  ASSUME IInv, Planned, NEW e \in {"NONE", "CHECK_UPDATE", "DO_UPDATE"}, BatchDownload(e)
  PROVE  IInv'
<1>1. phase \in {"none", "prepared"}
  BY DEF IInv, PhaseInv, TypeOK, Planned, Preparing
<1>2. PICK u : u = [Units EXCEPT !.queue = downloadUnits, !.entry = e]
  OBVIOUS
<1>3. PICK wanted : wanted = downloadUnits
  OBVIOUS
<1>4. Fit(u, wanted)
  BY <1>2, <1>3, BatchFits
<1>5. QueueDownload(u) /\ downloadUnits' = wanted
      /\ UNCHANGED <<server, storage, cached, aliased, canceled, local, spoiled>>
  BY <1>2, <1>3 DEF BatchDownload
<1>6. QED
  BY <1>1, <1>4, <1>5, QueueKeeps

LEMMA RetryKeeps ==
  ASSUME IInv, VersionInv, DownloadFailedAssets
  PROVE  IInv'
<1>1. /\ phase = "none" /\ state \notin Busy \cup {"UP_TO_DATE"}
      /\ remote.loaded /\ failedUnits # {}
  BY DEF IInv, PhaseInv, TypeOK, VersionInv, Preparing, DownloadFailedAssets, Busy
<1>2. PICK u : u = [Units EXCEPT !.queue = failedUnits, !.wait = Cardinality(failedUnits)]
  OBVIOUS
<1>3. PICK wanted : wanted = failedUnits
  OBVIOUS
<1>4. Fit(u, wanted)
  BY <1>1, <1>2, <1>3, RetryFits
<1>5. QueueDownload(u) /\ downloadUnits' = wanted
      /\ UNCHANGED <<server, storage, cached, aliased, canceled, local, spoiled>>
  BY <1>2, <1>3 DEF DownloadFailedAssets
<1>6. QED
  BY <1>1, <1>4, <1>5, QueueKeeps

(* With nothing failed the update goes on to succeed, and is spoiled.       *)
LEMMA NoAssetsKeeps ==
  ASSUME IInv, VersionInv, DownloadNoAssets
  PROVE  IInv'
<1>1. Planned /\ failedUnits = {} /\ remote.loaded /\ phase = "none" /\ ~Preparing
  BY DEF IInv, TypeOK, PhaseInv, VersionInv, DownloadNoAssets, Underway, Planned, Preparing, Busy
<1>2. Going /\ ~Downloading /\ state = "READY_TO_UPDATE" /\ inFlight = {}
  BY <1>1 DEF IInv, PhaseInv, Planned, Going, Downloading
<1>3. PICK u : u = Units
  OBVIOUS
<1>4. /\ u.queue = queue /\ u.inFlight = inFlight /\ u.failed = failedUnits
      /\ u.manifest = tempManifest /\ u.entry = entry
  BY <1>3 DEF Units
<1>5. PICK m : m = tempManifest
  OBVIOUS
<1>6. /\ queue' = queue /\ inFlight' = inFlight /\ tempManifestFile' = m.json
      /\ SetTempManifest(m) /\ state' = "UPDATING" /\ entry' = entry /\ phase' = "succeed"
      /\ merging' = merging /\ downloadUnits' = {} /\ totalWait' = 0
      /\ Spoil("unfetched")
      /\ UNCHANGED <<server, storage, cached, tempFiles, aliased, failedUnits, canceled, local>>
  BY <1>1, <1>3, <1>4, <1>5 DEF DownloadNoAssets, UnitsFinished
<1>7. tempManifest' = m /\ remote' = remote /\ temp' = temp
  BY <1>5, <1>6, TempManifestSet DEF tempManifest
<1>8. ~Planned' /\ ~Preparing' /\ ~Downloading'
  BY <1>6 DEF Planned, Preparing, Downloading
<1>9. m \in Manifest /\ m.json \in File /\ m.json.version = remote.json.version
  BY <1>2, <1>5, TempManifestType DEF IInv, ManifestInv, Manifest
<1>10. TypeOK'
  BY <1>6, <1>7, <1>9, SomeAssets DEF IInv, TypeOK, Spoil
<1>11. PhaseInv' /\ PlanInv' /\ UnitsAccounted'
  BY <1>1, <1>2, <1>6, <1>7, <1>8 DEF IInv, PhaseInv, PlanInv, UnitsAccounted
<1>12. ManifestInv'
  BY <1>1, <1>6, <1>7, <1>8, <1>9 DEF IInv, ManifestInv
<1>13. MemorySound' /\ ResumeSound'
  <2>1. Sound(m.json)
    BY <1>2, <1>5 DEF IInv, MemorySound
  <2>2. QED
    BY <2>1, <1>6, <1>7 DEF MemorySound, ResumeSound, Sound
<1>14. LocalInv' /\ SpoiledInv'
  BY <1>1, <1>6, <1>7 DEF IInv, LocalInv, SpoiledInv, Spoil
<1>15. AtomicInv'
  <2>1. spoiled' # {}
    BY <1>6 DEF Spoil
  <2>2. QED
    BY <2>1 DEF AtomicInv
<1>16. QED
  BY <1>10, <1>11, <1>12, <1>13, <1>14, <1>15 DEF IInv

(* Nor does it matter when there was nothing to update.                    *)
LEMMA UpToDateRetryKeeps ==
  ASSUME IInv, VersionInv, DownloadUpToDate
  PROVE  IInv'
<1>1. /\ state = "UP_TO_DATE" /\ state' = "UP_TO_DATE" /\ failedUnits = {}
      /\ downloadUnits' = {} /\ totalWait' = 0 /\ entry' = "NONE"
      /\ remote' = Unloaded /\ temp' = Unloaded /\ aliased' = FALSE
      /\ server' = server /\ storage' = storage /\ cached' = cached
      /\ tempFiles' = tempFiles /\ tempManifestFile' = tempManifestFile
      /\ UNCHANGED <<failedUnits, queue, inFlight, canceled, phase, merging, spoiled>>
  BY DEF DownloadUpToDate, disk
<1>2. local' = local
  BY DEF VersionInv, DownloadUpToDate
<1>3. ~Preparing /\ ~Planned /\ phase = "none" /\ inFlight = {}
  BY <1>1 DEF IInv, TypeOK, PhaseInv, Preparing, Planned, Downloading
<1>4. ~Preparing' /\ ~Planned' /\ ~Downloading' /\ ~Going'
  BY <1>1, <1>3 DEF Preparing, Planned, Downloading, Going
<1>5. TypeOK'
  BY <1>1, <1>2, EmptyFacts, SomeAssets DEF IInv, TypeOK
<1>6. PhaseInv' /\ PlanInv' /\ UnitsAccounted'
  BY <1>1, <1>3, <1>4, EmptyFacts DEF PhaseInv, PlanInv, UnitsAccounted
<1>7. ManifestInv'
  BY <1>1, <1>3, <1>4, EmptyFacts DEF ManifestInv
<1>8. MemorySound' /\ ResumeSound'
  BY <1>1 DEF IInv, MemorySound, ResumeSound
<1>9. LocalInv' /\ SpoiledInv'
  BY <1>1, <1>2, <1>3 DEF IInv, LocalInv, SpoiledInv
<1>10. AtomicInv'
  BY <1>1, <1>2, <1>3, <1>4 DEF IInv, AtomicInv, FilesMatchManifest, Arrived
<1>11. QED
  BY <1>5, <1>6, <1>7, <1>8, <1>9, <1>10 DEF IInv

-----------------------------------------------------------------------------
(* The steps of the calls, of the answers and of the preparation.          *)

(* A step that changes only what the invariant does not look at keeps it.  *)
LEMMA PublishKeeps ==
  ASSUME IInv, Publish
  PROVE  IInv'
<1>1. server' \in Versions
  BY AssetsAssumption DEF IInv, TypeOK, Publish, Versions
<1>2. TypeOK'
  BY <1>1 DEF IInv, TypeOK, Publish, disk, manifests, units, control
<1>3. QED
  BY <1>2 DEF IInv, Publish, disk, manifests, units, control, PhaseInv, ManifestInv,
    UnitsAccounted, PlanInv, MemorySound, ResumeSound, LocalInv, SpoiledInv, AtomicInv,
    FilesMatchManifest, Arrived, Missing, Going, Preparing, Planned, Downloading, Sound,
    tempManifest

LEMMA CancelKeeps ==
  ASSUME IInv, CancelUpdate
  PROVE  IInv'
<1>1. /\ spoiled' # {}
      /\ spoiled' \subseteq {"canceled", "rechecked", "unfetched", "crashed"}
  BY DEF IInv, TypeOK, CancelUpdate, Spoil
<1>2. TypeOK' /\ SpoiledInv' /\ AtomicInv'
  BY <1>1 DEF IInv, TypeOK, SpoiledInv, AtomicInv, Planned, CancelUpdate, disk, manifests, units
<1>3. QED
  BY <1>2 DEF IInv, CancelUpdate, disk, manifests, units, PhaseInv, ManifestInv,
    UnitsAccounted, PlanInv, MemorySound, ResumeSound, LocalInv,
    Going, Preparing, Planned, Downloading, Sound, tempManifest

(* A call changes the state and the entry.                                 *)
LEMMA CallKeeps ==
  ASSUME IInv, entry' \in {"NONE", "CHECK_UPDATE", "DO_UPDATE"},
         UNCHANGED <<server, disk, manifests, units, canceled, local, phase, merging>>,
         \/ state' = state /\ spoiled' = spoiled
         \/ /\ state = "UNCHECKED" /\ spoiled' = spoiled
            /\ state' = "DOWNLOADING_VERSION"
         \/ /\ state = "FAIL_TO_UPDATE" /\ state' = "DOWNLOADING_VERSION"
            /\ IF aliased THEN Spoil("rechecked") ELSE UNCHANGED spoiled
         \/ /\ state = "FAIL_TO_UPDATE" /\ ~remote.loaded
            /\ state' = "DOWNLOADING_MANIFEST" /\ spoiled' = spoiled
  PROVE  IInv'
<1> USE DEF disk, manifests, units
<1>1. TypeOK'
  BY DEF IInv, TypeOK, Spoil
<1>2. PhaseInv'
  BY DEF IInv, PhaseInv, Preparing, Planned, Downloading
<1>3. Going' => Going
  BY DEF Going, Planned
<1>4. ManifestInv'
  BY <1>3 DEF IInv, ManifestInv, tempManifest
<1>5. UnitsAccounted' /\ PlanInv'
  BY DEF IInv, UnitsAccounted, PlanInv, Preparing, Planned
<1>6. MemorySound' /\ ResumeSound'
  BY DEF IInv, MemorySound, ResumeSound, Sound, tempManifest
<1>7. LocalInv' /\ SpoiledInv'
  BY DEF IInv, LocalInv, SpoiledInv, Planned, Spoil
<1>8. AtomicInv'
  <2>1. spoiled' = {} => spoiled = {}
    BY DEF Spoil
  <2>2. FilesMatchManifest' = FilesMatchManifest
    BY DEF FilesMatchManifest
  <2>3. Going' => Missing' = Missing
    BY DEF Going, Missing, Planned, Downloading
  <2>4. Arrived => Arrived'
    BY <1>3, <2>3 DEF Arrived
  <2>5. QED
    BY <2>1, <2>2, <2>4 DEF IInv, AtomicInv
<1>9. QED
  BY <1>1, <1>2, <1>4, <1>5, <1>6, <1>7, <1>8 DEF IInv

(* There is nothing to update to: the temporary directory goes, and the    *)
(* manifests no longer matter.                                             *)
LEMMA UpToDateKeeps ==
  ASSUME IInv, state \in {"DOWNLOADING_VERSION", "DOWNLOADING_MANIFEST"}, phase = "none", UpToDate,
         remote' \in Manifest, remote'.loaded => remote'.json.version # None,
         remote.updating => remote'.updating,
         UNCHANGED <<server, storage, cached, temp, aliased, units, canceled, local, phase,
                     merging, spoiled>>
  PROVE  IInv'
<1>1. ~Preparing /\ phase = "none" /\ inFlight = {}
  BY DEF IInv, PhaseInv, TypeOK, Preparing, Downloading
<1>2. /\ state' = "UP_TO_DATE" /\ entry' = "NONE" /\ tempFiles' = Empty
      /\ tempManifestFile' = NoManifest
      /\ ~Preparing' /\ ~Planned' /\ ~Downloading' /\ ~Going' /\ phase' = "none"
  BY <1>1 DEF UpToDate, RemoveTempDirectory, Preparing, Planned, Downloading, Going
<1>3. Empty \in [Assets -> 0..MaxVersion] /\ NoManifest \in File /\ ~NoManifest.updating
  BY EmptyFacts
<1>4. TypeOK'
  BY <1>2, <1>3 DEF IInv, TypeOK, units
<1>5. PhaseInv' /\ PlanInv' /\ UnitsAccounted'
  BY <1>1, <1>2 DEF IInv, PhaseInv, PlanInv, UnitsAccounted, units
<1>6. ManifestInv'
  BY <1>1, <1>2 DEF IInv, ManifestInv
<1>7. MemorySound' /\ ResumeSound'
  BY <1>2, <1>3 DEF MemorySound, ResumeSound
<1>8. LocalInv' /\ SpoiledInv'
  BY <1>1, <1>2 DEF IInv, LocalInv, SpoiledInv, Planned
<1>9. AtomicInv'
  BY <1>1, <1>2 DEF IInv, AtomicInv, FilesMatchManifest, Arrived
<1>10. QED
  BY <1>4, <1>5, <1>6, <1>7, <1>8, <1>9 DEF IInv

LEMMA VersionDoneKeeps ==
  ASSUME IInv, NEW answer \in Answers, VersionDone(answer)
  PROVE  IInv'
<1>1. state = "DOWNLOADING_VERSION"
      /\ UNCHANGED <<server, storage, cached, temp, aliased, units, canceled, local, phase,
                     merging, spoiled>>
  BY DEF VersionDone
<1>2. ~Preparing /\ phase = "none" /\ ~Planned /\ ~Downloading /\ inFlight = {}
      /\ (aliased => spoiled # {})
  BY <1>1 DEF IInv, PhaseInv, TypeOK, Preparing, Planned, Downloading, SpoiledInv
<1>3. NoManifest \in File /\ ~NoManifest.updating /\ NoManifest.version = None
  BY EmptyFacts
<1>4. /\ remote' \in Manifest /\ (remote'.loaded => remote'.json.version # None)
      /\ remote.updating => remote'.updating
      /\ \/ remote' = remote
         \/ ~remote'.loaded /\ remote'.json = NoManifest
  <2>1. remote \in Manifest /\ (remote.loaded => remote.json.version # None)
    BY DEF IInv, TypeOK, PhaseInv
  <2>2. CASE remote' = remote
    BY <2>1, <2>2
  <2>3. CASE remote' = Parsed(remote, NoManifest)
    BY <2>1, <2>3, <1>3 DEF Parsed, Manifest
  <2>4. QED
    BY <2>2, <2>3 DEF VersionDone
<1>5. CASE answer = "ok" /\ local >= server
  <2>1. UpToDate
    BY <1>5 DEF VersionDone
  <2>2. QED
    BY <2>1, <1>1, <1>2, <1>4, UpToDateKeeps
<1>6. CASE ~(answer = "ok" /\ local >= server)
  <2>1. /\ state' = "DOWNLOADING_MANIFEST"
        /\ UNCHANGED <<entry, tempFiles, tempManifestFile>>
    BY <1>6 DEF VersionDone
  <2>2. ~Preparing' /\ ~Planned' /\ ~Downloading' /\ phase' = "none"
    BY <2>1, <1>1, <1>2 DEF Preparing, Planned, Downloading
  <2>3. Going' => Going /\ remote' = remote
    BY <2>1, <2>2, <1>1, <1>4 DEF Going, units
  <2>4. TypeOK'
    BY <2>1, <1>1, <1>4 DEF IInv, TypeOK, units
  <2>5. PhaseInv' /\ PlanInv' /\ UnitsAccounted'
    BY <2>1, <2>2, <1>1, <1>2, <1>4 DEF PhaseInv, PlanInv, UnitsAccounted, units
  <2>6. ManifestInv'
    BY <2>1, <2>2, <2>3, <1>1, <1>2, <1>4 DEF IInv, ManifestInv, tempManifest
  <2>7. MemorySound' /\ ResumeSound'
    <3>1. ResumeSound'
      BY <2>1 DEF IInv, ResumeSound
    <3>2. tempManifest' = tempManifest \/ tempManifest'.json = NoManifest
      BY <1>1, <1>4 DEF tempManifest
    <3>3. Sound(tempManifest.json)
      BY <1>1 DEF IInv, MemorySound
    <3>4. QED
      BY <3>1, <3>2, <3>3, <2>1, <1>3 DEF MemorySound, Sound
  <2>8. LocalInv' /\ SpoiledInv'
    BY <1>1, <1>2 DEF IInv, LocalInv, SpoiledInv
  <2>9. AtomicInv'
    <3>1. FilesMatchManifest' = FilesMatchManifest
      BY <1>1 DEF FilesMatchManifest
    <3>2. Missing' = Missing
      BY <1>1, <1>2, <2>2 DEF Missing, units
    <3>3. Arrived => Arrived'
      BY <3>2, <2>1, <2>2, <2>3 DEF Arrived
    <3>4. QED
      BY <3>1, <3>3, <1>1 DEF IInv, AtomicInv
  <2>10. QED
    BY <2>4, <2>5, <2>6, <2>7, <2>8, <2>9 DEF IInv
<1>7. QED
  BY <1>5, <1>6

LEMMA PublishedFacts ==
  ASSUME TypeOK
  PROVE  /\ Published \in File /\ Published.version = server /\ server # None
         /\ ~Published.updating /\ Published # NoManifest
<1>1. server \in 1..MaxVersion /\ server # 0 /\ server \in 0..MaxVersion
  BY AssetsAssumption DEF TypeOK, Versions
<1>2. Published \in File /\ Published.version = server /\ ~Published.updating
  BY <1>1 DEF Published, File, Marked, DownloadState
<1>3. NoManifest.version = 0
  BY DEF NoManifest, None
<1>4. QED
  BY <1>1, <1>2, <1>3 DEF None

LEMMA ManifestDoneKeeps ==
  ASSUME IInv, NEW answer \in Answers, ManifestDone(answer)
  PROVE  IInv'
<1>1. state = "DOWNLOADING_MANIFEST" /\ phase = "none"
      /\ UNCHANGED <<server, storage, cached, temp, aliased, canceled, local, merging, spoiled>>
  BY DEF ManifestDone
<1>2. ~Preparing /\ phase = "none" /\ ~Planned /\ ~Downloading /\ inFlight = {}
      /\ (aliased => spoiled # {})
  BY <1>1 DEF IInv, PhaseInv, TypeOK, Preparing, Planned, Downloading, SpoiledInv
<1>3. NoManifest \in File /\ ~NoManifest.updating /\ NoManifest.version = None
  BY EmptyFacts
<1>4. remote \in Manifest /\ (remote.loaded => remote.json.version # None)
  BY DEF IInv, TypeOK, PhaseInv
<1>5. LET r == Parsed(remote, NoManifest)
      IN  r \in Manifest /\ ~r.loaded /\ r.json = NoManifest /\ r.updating = remote.updating
  BY <1>3, <1>4 DEF Parsed, Manifest
<1>6. LET r == Parsed(remote, Published)
      IN  /\ r \in Manifest /\ r.loaded /\ r.json = Published /\ r.json.version # None
          /\ r.updating = remote.updating
  BY <1>4, PublishedFacts DEF IInv, Parsed, Manifest
<1>7. Sound(tempManifest.json)
  BY <1>1 DEF IInv, MemorySound
<1>8. LocalInv'
  <2>1. phase' # "merge"
    BY <1>2 DEF ManifestDone
  <2>2. QED
    BY <2>1, <1>1, <1>2 DEF IInv, LocalInv
<1>9. ASSUME answer = "error",
             phase' = "told" /\ entry' = "NONE",
             UNCHANGED <<state, tempFiles, tempManifestFile, remote, units>>
      PROVE  IInv'
  <2>1. ~Preparing' /\ ~Planned' /\ ~Downloading' /\ phase' = "told"
    BY <1>9, <1>1 DEF Preparing, Planned, Downloading
  <2>2. Going' => Going
    BY <2>1, <1>9, <1>1 DEF Going, units
  <2>3. TypeOK' /\ PhaseInv' /\ PlanInv' /\ UnitsAccounted'
    BY <2>1, <1>1, <1>2, <1>9 DEF IInv, TypeOK, PhaseInv, PlanInv, UnitsAccounted, units
  <2>4. ManifestInv'
    BY <2>1, <2>2, <1>1, <1>2, <1>9 DEF IInv, ManifestInv, tempManifest
  <2>5. MemorySound' /\ ResumeSound'
    BY <1>1, <1>7, <1>9 DEF IInv, MemorySound, ResumeSound, Sound, tempManifest
  <2>6. SpoiledInv'
    BY <1>1, <1>2 DEF IInv, SpoiledInv
  <2>7. Missing' = Missing
    BY <2>1, <1>2, <1>9 DEF Missing, units
  <2>8. Arrived => Arrived'
    BY <2>1, <2>2, <2>7, <1>9 DEF Arrived
  <2>9. AtomicInv'
    BY <2>8, <1>1, <1>9 DEF IInv, AtomicInv, FilesMatchManifest
  <2>10. QED
    BY <2>3, <2>4, <2>5, <2>6, <2>9, <1>8 DEF IInv
<1>10. ASSUME answer = "garbage",
              state' = "MANIFEST_LOADED" /\ phase' = "told" /\ entry' = "NONE",
              tempManifestFile' = NoManifest, remote' = Parsed(remote, NoManifest),
              UNCHANGED <<tempFiles, units>>
       PROVE  IInv'
  <2>1. /\ ~Preparing' /\ ~Planned' /\ ~Downloading' /\ phase' = "told"
        /\ ~remote'.loaded /\ ~Going'
    BY <1>10, <1>2, <1>5 DEF Preparing, Planned, Downloading, Going
  <2>2. TypeOK' /\ PhaseInv' /\ PlanInv' /\ UnitsAccounted'
    BY <2>1, <1>1, <1>2, <1>3, <1>5, <1>10
    DEF IInv, TypeOK, PhaseInv, PlanInv, UnitsAccounted, units
  <2>3. ManifestInv'
    BY <2>1, <1>1, <1>2, <1>5, <1>10 DEF IInv, ManifestInv
  <2>4. tempManifest' = tempManifest \/ tempManifest'.json = NoManifest
    BY <1>1, <1>5, <1>10 DEF tempManifest
  <2>5. MemorySound' /\ ResumeSound'
    BY <2>4, <1>3, <1>7, <1>10 DEF MemorySound, ResumeSound, Sound
  <2>6. SpoiledInv'
    BY <1>1, <1>2 DEF IInv, SpoiledInv
  <2>7. AtomicInv'
    BY <2>1, <1>1, <1>10 DEF IInv, AtomicInv, FilesMatchManifest, Arrived
  <2>8. QED
    BY <2>2, <2>3, <2>5, <2>6, <2>7, <1>8 DEF IInv
<1>11. ASSUME answer = "ok", remote' = Parsed(remote, Published), UpToDate,
              UNCHANGED <<phase, units>>
       PROVE  IInv'
  BY <1>1, <1>2, <1>6, <1>11, UpToDateKeeps
<1>12. ASSUME answer = "ok", remote' = Parsed(remote, Published),
              tempManifestFile' = Published,
              state' = "PREPARE_UPDATING", phase' = "prepare",
              failedUnits' = {}, downloadUnits' = {}, totalWait' = 0,
              UNCHANGED <<queue, inFlight, tempFiles, entry>>
       PROVE  IInv'
  <2>1. Preparing' /\ ~Planned' /\ ~Downloading' /\ ~Going'
    BY <1>12 DEF Preparing, Planned, Downloading, Going
  <2>2. Published \in File /\ ~Published.updating
    BY PublishedFacts DEF IInv
  <2>3. 0 \in 0..Cardinality(Assets)
    BY SomeAssets
  <2>4. TypeOK'
    BY <2>2, <2>3, <1>1, <1>6, <1>12 DEF IInv, TypeOK
  <2>5. PhaseInv' /\ PlanInv' /\ UnitsAccounted'
    BY <2>1, <1>1, <1>2, <1>6, <1>12 DEF PhaseInv, PlanInv, UnitsAccounted
  <2>6. ManifestInv'
    BY <2>1, <2>2, <1>1, <1>2, <1>6, <1>12 DEF IInv, ManifestInv
  <2>7. tempManifest' = tempManifest \/ tempManifest'.json = Published
    BY <1>1, <1>6, <1>12 DEF tempManifest
  <2>8. MemorySound' /\ ResumeSound'
    BY <2>2, <2>7, <1>7, <1>12 DEF MemorySound, ResumeSound, Sound
  <2>9. SpoiledInv'
    BY <1>1, <1>2 DEF IInv, SpoiledInv
  <2>10. AtomicInv'
    BY <2>1, <1>1, <1>2, <1>12 DEF IInv, AtomicInv, FilesMatchManifest, Arrived
  <2>11. QED
    BY <2>4, <2>5, <2>6, <2>8, <2>9, <2>10, <1>8 DEF IInv
<1>13. QED
  BY <1>9, <1>10, <1>11, <1>12 DEF ManifestDone

LEMMA HandlerReturnsKeeps ==
  ASSUME IInv, HandlerReturns
  PROVE  IInv'
<1> USE DEF disk, manifests, units
<1>1. /\ phase = "told" /\ phase' = "none"
      /\ state \in {"DOWNLOADING_MANIFEST", "MANIFEST_LOADED"}
      /\ state' \in {"UNCHECKED", "FAIL_TO_UPDATE"}
      /\ UNCHANGED <<server, disk, manifests, units, entry, canceled, local, merging, spoiled>>
  BY DEF IInv, PhaseInv, HandlerReturns
<1>2. ~Preparing' /\ ~Planned' /\ ~Downloading' /\ ~Planned /\ ~Downloading
  BY <1>1 DEF Preparing, Planned, Downloading
<1>3. (Going' => Going) /\ tempManifest' = tempManifest
  BY <1>1, <1>2 DEF Going, tempManifest
<1>4. TypeOK' /\ PhaseInv' /\ PlanInv' /\ UnitsAccounted'
  BY <1>1, <1>2 DEF IInv, TypeOK, PhaseInv, PlanInv, UnitsAccounted
<1>5. ManifestInv'
  BY <1>1, <1>3 DEF IInv, ManifestInv
<1>6. MemorySound' /\ ResumeSound'
  BY <1>1, <1>3 DEF IInv, MemorySound, ResumeSound, Sound
<1>7. LocalInv' /\ SpoiledInv'
  BY <1>1, <1>2 DEF IInv, LocalInv, SpoiledInv
<1>8. AtomicInv'
  <2>1. Missing' = Missing
    BY <1>1, <1>2 DEF Missing
  <2>2. Arrived => Arrived'
    BY <2>1, <1>1, <1>3 DEF Arrived
  <2>3. QED
    BY <2>2, <1>1 DEF IInv, AtomicInv, FilesMatchManifest
<1>9. QED
  BY <1>4, <1>5, <1>6, <1>7, <1>8 DEF IInv

-----------------------------------------------------------------------------
(* The preparation in a thread of the pool.                                *)

LEMMA PrepareResumeKeeps ==
  ASSUME IInv, PrepareResume
  PROVE  IInv'
<1>1. /\ phase = "prepare" /\ CanResume /\ tempManifestFile' = tempManifest.json
      /\ downloadUnits' = ResumeUnits /\ totalWait' = Cardinality(ResumeUnits)
      /\ phase' = "prepared"
      /\ UNCHANGED <<server, storage, cached, tempFiles, manifests, failedUnits, queue, inFlight,
                     state, entry, canceled, local, merging, spoiled>>
  BY DEF PrepareResume
<1>2. /\ state = "PREPARE_UPDATING" /\ remote.loaded /\ failedUnits = {} /\ inFlight = {}
      /\ ~remote.json.updating /\ Preparing
  BY <1>1 DEF IInv, PhaseInv, ManifestInv, PlanInv, Preparing, Downloading
<1>3. /\ tempManifest \in Manifest /\ tempManifest.json \in File
      /\ tempManifest.json.version = remote.json.version /\ tempManifest.updating
  BY <1>1, TempManifestType DEF IInv, CanResume, Manifest
<1>4. Preparing' /\ Planned' /\ ~Downloading' /\ Going' /\ tempManifest' = tempManifest
  BY <1>1, <1>2 DEF Preparing, Planned, Downloading, Going, tempManifest, manifests
<1>5. ResumeUnits \in SUBSET Assets /\ Cardinality(ResumeUnits) \in 0..Cardinality(Assets)
  BY SomeAssets DEF ResumeUnits
<1>6. TypeOK'
  BY <1>1, <1>3, <1>5 DEF IInv, TypeOK, manifests
<1>7. PhaseInv' /\ PlanInv' /\ UnitsAccounted'
  BY <1>1, <1>2, <1>4 DEF IInv, PhaseInv, PlanInv, UnitsAccounted, manifests
<1>8. ManifestInv'
  BY <1>1, <1>3, <1>4 DEF IInv, ManifestInv, manifests
<1>9. Sound(tempManifest.json)
  BY <1>2 DEF IInv, MemorySound
<1>10. MemorySound' /\ ResumeSound'
  BY <1>1, <1>4, <1>9 DEF MemorySound, ResumeSound, Sound
<1>11. LocalInv' /\ SpoiledInv'
  BY <1>1 DEF IInv, LocalInv, SpoiledInv, manifests
<1>12. AtomicInv'
  <2> SUFFICES ASSUME spoiled = {} PROVE FilesMatchManifest' /\ Arrived'
    BY <1>1 DEF AtomicInv
  <2>1. ~aliased
    BY <1>1, <1>2 DEF IInv, SpoiledInv, Planned
  <2>2. tempManifest.json.updating
    BY <2>1, <1>3 DEF IInv, ManifestInv, tempManifest
  <2>3. \A a \in Assets \ ResumeUnits : tempFiles[a] = remote.json.version
    BY <2>2, <1>3, <1>9 DEF Sound, ResumeUnits
  <2>4. Missing' = ResumeUnits
    BY <1>1, <1>4 DEF Missing
  <2>5. QED
    BY <2>3, <2>4, <1>1 DEF IInv, AtomicInv, FilesMatchManifest, Arrived, manifests
<1>13. QED
  BY <1>6, <1>7, <1>8, <1>10, <1>11, <1>12 DEF IInv

LEMMA PrepareAnewKeeps ==
  ASSUME IInv, PrepareAnew
  PROVE  IInv'
<1>1. /\ phase = "prepare" /\ tempFiles' = Empty /\ tempManifestFile' = remote.json
      /\ aliased' = TRUE /\ temp' = Unloaded /\ phase' = "diff"
      /\ UNCHANGED <<server, storage, cached, remote, units, state, entry, canceled, local,
                     merging, spoiled>>
  BY DEF PrepareAnew
<1>2. /\ state = "PREPARE_UPDATING" /\ remote.loaded /\ failedUnits = {} /\ inFlight = {}
      /\ ~remote.json.updating /\ Preparing
  BY <1>1 DEF IInv, PhaseInv, ManifestInv, PlanInv, Preparing, Downloading
<1>3. Preparing' /\ ~Planned' /\ ~Downloading' /\ ~Going' /\ tempManifest' = remote
  BY <1>1, <1>2 DEF Preparing, Planned, Downloading, Going, tempManifest, units
<1>4. /\ Unloaded \in Manifest /\ Unloaded.updating = Unloaded.json.updating
      /\ Empty \in [Assets -> 0..MaxVersion] /\ remote.json \in File
  <2>1. remote.json \in File
    BY DEF IInv, TypeOK, Manifest
  <2>2. QED
    BY <2>1, EmptyFacts
<1>5. TypeOK'
  BY <1>1, <1>4 DEF IInv, TypeOK, units
<1>6. PhaseInv' /\ PlanInv' /\ UnitsAccounted'
  BY <1>1, <1>2, <1>3 DEF IInv, PhaseInv, PlanInv, UnitsAccounted, units
<1>7. ManifestInv'
  BY <1>1, <1>3, <1>4 DEF ManifestInv
<1>8. MemorySound' /\ ResumeSound'
  BY <1>1, <1>2, <1>3 DEF MemorySound, ResumeSound, Sound
<1>9. LocalInv' /\ SpoiledInv'
  BY <1>1 DEF IInv, LocalInv, SpoiledInv
<1>10. AtomicInv'
  BY <1>1, <1>3 DEF IInv, AtomicInv, FilesMatchManifest, Arrived
<1>11. QED
  BY <1>5, <1>6, <1>7, <1>8, <1>9, <1>10 DEF IInv

LEMMA PrepareDiffKeeps ==
  ASSUME IInv, PrepareDiff
  PROVE  IInv'
<1>1. PICK json : json = [remote.json EXCEPT !.updating = TRUE, !.states = Marked("UNSTARTED")]
  OBVIOUS
<1>2. PICK m : m = [remote EXCEPT !.updating = TRUE, !.json = json]
  OBVIOUS
<1>3. /\ phase = "diff" /\ remote' = m /\ tempManifestFile' = json
      /\ downloadUnits' = Assets /\ totalWait' = Cardinality(Assets)
      /\ phase' = "prepared"
      /\ UNCHANGED <<server, storage, cached, tempFiles, temp, aliased, failedUnits, queue,
                     inFlight, state, entry, canceled, local, merging, spoiled>>
  BY <1>1, <1>2 DEF PrepareDiff
<1>4. /\ remote \in Manifest /\ remote.json \in File
      /\ Marked("UNSTARTED") \in [Assets -> DownloadState]
  BY DEF IInv, TypeOK, Manifest, Marked, DownloadState
<1>5. /\ json \in File /\ json.version = remote.json.version /\ json.updating
      /\ json.states = Marked("UNSTARTED")
  <2>1. PICK f \in File, s \in [Assets -> DownloadState] :
          f = remote.json /\ s = Marked("UNSTARTED")
    BY <1>4
  <2>2. json = [f EXCEPT !.updating = TRUE, !.states = s]
    BY <1>1, <2>1, Zenon
  <2>3. PICK h : h = [f EXCEPT !.updating = TRUE]
    OBVIOUS
  <2>4. h \in File /\ h.version = f.version /\ h.updating
    BY <2>3 DEF File
  <2>5. json = [h EXCEPT !.states = s]
    BY <2>2, <2>3, Zenon
  <2>6. json \in File /\ json.version = h.version /\ json.updating = h.updating /\ json.states = s
    BY <2>4, <2>5 DEF File
  <2>7. QED
    BY <2>1, <2>4, <2>6
<1>6. m \in Manifest /\ m.loaded = remote.loaded /\ m.updating /\ m.json = json
  <2>1. PICK o \in Manifest : o = remote
    BY <1>4
  <2>2. m = [o EXCEPT !.updating = TRUE, !.json = json]
    BY <1>2, <2>1, Zenon
  <2>3. PICK h : h = [o EXCEPT !.updating = TRUE]
    OBVIOUS
  <2>4. h \in Manifest /\ h.loaded = o.loaded /\ h.updating
    BY <2>3 DEF Manifest
  <2>5. m = [h EXCEPT !.json = json]
    BY <2>2, <2>3, Zenon
  <2>6. m \in Manifest /\ m.loaded = h.loaded /\ m.updating = h.updating /\ m.json = json
    BY <1>5, <2>4, <2>5 DEF Manifest
  <2>7. QED
    BY <2>1, <2>4, <2>6
<1>7. /\ state = "PREPARE_UPDATING" /\ remote.loaded /\ remote.json.version # None
      /\ failedUnits = {} /\ inFlight = {} /\ aliased
  BY <1>3 DEF IInv, PhaseInv, ManifestInv, PlanInv, Preparing, Downloading
<1>8. Preparing' /\ Planned' /\ ~Downloading' /\ Going' /\ tempManifest' = m
  BY <1>3, <1>7 DEF Preparing, Planned, Downloading, Going, tempManifest
<1>9. Assets \in SUBSET Assets /\ Cardinality(Assets) \in 0..Cardinality(Assets)
  BY SomeAssets
<1>10. TypeOK'
  BY <1>3, <1>5, <1>6, <1>9 DEF IInv, TypeOK
<1>11. PhaseInv' /\ PlanInv' /\ UnitsAccounted'
  BY <1>3, <1>5, <1>6, <1>7, <1>8 DEF PhaseInv, PlanInv, UnitsAccounted
<1>12. ManifestInv'
  BY <1>3, <1>5, <1>6, <1>7, <1>8 DEF IInv, ManifestInv
<1>13. MemorySound' /\ ResumeSound'
  BY <1>3, <1>5, <1>6, <1>8 DEF MemorySound, ResumeSound, Sound, Marked
<1>14. LocalInv' /\ SpoiledInv'
  BY <1>3 DEF IInv, LocalInv, SpoiledInv
<1>15. AtomicInv'
  <2>1. Missing' = Assets
    BY <1>3, <1>8 DEF Missing
  <2>2. QED
    BY <2>1, <1>3 DEF IInv, AtomicInv, FilesMatchManifest, Arrived
<1>16. QED
  BY <1>10, <1>11, <1>12, <1>13, <1>14, <1>15 DEF IInv

LEMMA PrepareFinishedKeeps ==
  ASSUME IInv, PrepareFinished
  PROVE  IInv'
<1>1. phase = "prepared" /\ Planned /\ entry \in {"NONE", "CHECK_UPDATE", "DO_UPDATE"}
  BY DEF IInv, TypeOK, PrepareFinished, Planned
<1>2. ASSUME BatchDownload(entry) PROVE IInv'
  BY <1>1, <1>2, BatchKeeps
<1>3. ASSUME state' = "READY_TO_UPDATE", entry' = "NONE", phase' = "none",
             UNCHANGED <<server, disk, manifests, units, canceled, local, merging, spoiled>>
      PROVE  IInv'
  <2> USE <1>1, <1>3 DEF disk, manifests, units
  <2>1. /\ ~Preparing' /\ Planned' /\ ~Downloading' /\ Going /\ Going' /\ inFlight = {}
        /\ Preparing /\ remote.loaded /\ state = "PREPARE_UPDATING"
    BY DEF IInv, PhaseInv, Preparing, Planned, Downloading, Going
  <2>2. TypeOK'
    BY DEF IInv, TypeOK
  <2>3. PhaseInv' /\ PlanInv' /\ UnitsAccounted'
    BY <2>1 DEF IInv, PhaseInv, PlanInv, UnitsAccounted
  <2>4. ManifestInv'
    BY <2>1 DEF IInv, ManifestInv, tempManifest
  <2>5. MemorySound' /\ ResumeSound'
    BY <2>1 DEF IInv, MemorySound, ResumeSound, Sound, tempManifest
  <2>6. LocalInv' /\ SpoiledInv'
    BY <2>1 DEF IInv, LocalInv, SpoiledInv
  <2>7. Missing' = Missing
    BY <2>1 DEF Missing
  <2>8. AtomicInv'
    BY <2>1, <2>7 DEF IInv, AtomicInv, FilesMatchManifest, Arrived
  <2>9. QED
    BY <2>2, <2>3, <2>4, <2>5, <2>6, <2>8 DEF IInv
<1>4. QED
  BY <1>2, <1>3 DEF PrepareFinished

-----------------------------------------------------------------------------
(* The end of an update, and of the process.                               *)

LEMMA UpdateSucceedKeeps ==
  ASSUME IInv, UpdateSucceed
  PROVE  IInv'
<1>1. PICK o \in Manifest : o = tempManifest
  BY TempManifestType DEF IInv
<1>2. PICK m : m = [o EXCEPT !.updating = FALSE, !.json.updating = FALSE]
  OBVIOUS
<1>3. /\ m \in Manifest /\ m.loaded = o.loaded /\ m.updating = FALSE
      /\ m.json.version = o.json.version /\ m.json.updating = FALSE
  <2>1. PICK h : h = [o EXCEPT !.updating = FALSE]
    OBVIOUS
  <2>2. h \in Manifest /\ h.loaded = o.loaded /\ h.updating = FALSE /\ h.json = o.json
    BY <2>1 DEF Manifest
  <2>3. m = [h EXCEPT !.json.updating = FALSE]
    BY <1>2, <2>1, Zenon
  <2>4. /\ m \in Manifest /\ m.loaded = h.loaded /\ m.updating = h.updating
        /\ m.json.version = h.json.version /\ m.json.updating = FALSE
    BY <2>2, <2>3 DEF Manifest, File
  <2>5. QED
    BY <2>2, <2>4
<1>4. /\ phase = "succeed" /\ SetTempManifest(m)
      /\ tempManifestFile' = NoManifest /\ phase' = "merge"
      /\ merging' = {ManifestFile} \cup {a \in Assets : tempFiles[a] # None}
      /\ UNCHANGED <<server, storage, cached, tempFiles, aliased, units, state, entry, canceled,
                     local, spoiled>>
  BY <1>1, <1>2, Zenon DEF UpdateSucceed
<1>5. /\ tempManifest' = m
      /\ remote' = IF aliased THEN m ELSE remote
      /\ temp' = IF aliased THEN temp ELSE m
  BY <1>4, TempManifestSet
<1>6. /\ state = "UPDATING" /\ remote.loaded /\ remote.json.version # None /\ inFlight = {}
      /\ Going
  BY <1>4 DEF IInv, PhaseInv, Downloading, Going
<1>7. /\ remote' \in Manifest /\ temp' \in Manifest
      /\ remote'.loaded /\ remote'.json.version = remote.json.version
      /\ temp'.updating = temp'.json.updating
  BY <1>1, <1>3, <1>5, <1>6 DEF IInv, TypeOK, ManifestInv, tempManifest
<1>8. ~Preparing' /\ ~Planned' /\ ~Downloading' /\ ~Going' /\ phase' = "merge"
  BY <1>4, <1>6 DEF Preparing, Planned, Downloading, Going
<1>9. TypeOK'
  <2>1. merging' \subseteq Assets \cup {ManifestFile}
    BY <1>4
  <2>2. QED
    BY <2>1, <1>4, <1>7, EmptyFacts DEF IInv, TypeOK, units
<1>10. PhaseInv' /\ PlanInv' /\ UnitsAccounted'
  <2>1. \A a \in merging' \ {ManifestFile} : tempFiles'[a] # None
    BY <1>4
  <2>2. QED
    BY <2>1, <1>4, <1>6, <1>7, <1>8 DEF PhaseInv, PlanInv, UnitsAccounted, units
<1>11. ManifestInv'
  BY <1>3, <1>4, <1>5, <1>7, <1>8, EmptyFacts DEF ManifestInv
<1>12. MemorySound' /\ ResumeSound'
  BY <1>3, <1>4, <1>5, EmptyFacts DEF MemorySound, ResumeSound, Sound
<1>13. LocalInv' /\ SpoiledInv'
  <2>1. ManifestFile \in merging'
    BY <1>4
  <2>2. QED
    BY <2>1, <1>4, <1>6 DEF IInv, LocalInv, SpoiledInv
<1>14. AtomicInv'
  <2> SUFFICES ASSUME spoiled = {} PROVE FilesMatchManifest' /\ Arrived'
    BY <1>4 DEF AtomicInv
  <2>1. \A a \in Assets : tempFiles[a] = remote.json.version
    BY <1>4, <1>6 DEF IInv, AtomicInv, Arrived, Missing, Planned, Downloading
  <2>2. \A a \in Assets : a \in merging' /\ tempFiles'[a] = remote'.json.version
    BY <2>1, <1>4, <1>6, <1>7
  <2>3. QED
    BY <2>2, <1>8 DEF FilesMatchManifest, Arrived
<1>15. QED
  BY <1>9, <1>10, <1>11, <1>12, <1>13, <1>14 DEF IInv

LEMMA MergeFileKeeps ==
  ASSUME IInv, NEW f \in Assets \cup {ManifestFile}, MergeFile(f)
  PROVE  IInv'
<1>1. /\ phase = "merge" /\ f \in merging /\ merging' = merging \ {f} /\ phase' = "merge"
      /\ UNCHANGED <<server, tempManifestFile, manifests, units, state, entry, canceled, local,
                     spoiled>>
  BY DEF MergeFile
<1>2. /\ state = "UPDATING" /\ remote.loaded /\ remote.json.version # None
      /\ \A a \in merging \ {ManifestFile} : tempFiles[a] # None
      /\ ~Preparing' /\ ~Planned' /\ ~Downloading' /\ ~Going'
  BY <1>1 DEF IInv, PhaseInv, Preparing, Planned, Downloading, Going, units, manifests
<1>3. ManifestInv' /\ PlanInv' /\ UnitsAccounted' /\ SpoiledInv'
  BY <1>1, <1>2 DEF IInv, ManifestInv, PlanInv, UnitsAccounted, SpoiledInv, tempManifest,
    units, manifests
<1>4. MemorySound' /\ ResumeSound'
  BY <1>1, <1>2 DEF IInv, ManifestInv, MemorySound, ResumeSound, Sound, tempManifest, manifests
<1>5. CASE f = ManifestFile
  <2>1. cached' = remote.json.version /\ UNCHANGED <<storage, tempFiles>>
    BY <1>5 DEF MergeFile
  <2>2. cached' \in 0..MaxVersion
    BY <2>1 DEF IInv, TypeOK, Manifest, File
  <2>3. TypeOK'
    BY <2>1, <2>2, <1>1 DEF IInv, TypeOK, units, manifests
  <2>4. PhaseInv'
    BY <2>1, <1>1, <1>2 DEF IInv, PhaseInv, Preparing, Planned, Downloading, units, manifests
  <2>5. LocalInv'
    BY <2>1, <1>1, <1>5 DEF LocalInv, manifests
  <2>6. AtomicInv'
    BY <2>1, <1>1, <1>2, <1>5, AssetsAssumption
    DEF IInv, AtomicInv, FilesMatchManifest, Arrived, manifests
  <2>7. QED
    BY <2>3, <2>4, <2>5, <2>6, <1>3, <1>4 DEF IInv
<1>6. CASE f # ManifestFile
  <2>1. /\ storage' = [storage EXCEPT ![f] = tempFiles[f]]
        /\ tempFiles' = [tempFiles EXCEPT ![f] = None]
        /\ cached' = cached /\ f \in Assets
    BY <1>6 DEF MergeFile
  <2>2. /\ storage \in [Assets -> Versions] /\ tempFiles \in [Assets -> 0..MaxVersion]
        /\ tempFiles[f] # None
    BY <2>1, <1>1, <1>2, <1>6 DEF IInv, TypeOK
  <2>3. tempFiles[f] \in Versions /\ None \in 0..MaxVersion
    BY <2>1, <2>2, AssetsAssumption DEF Versions, None
  <2>4. TypeOK'
    BY <2>1, <2>2, <2>3, <1>1 DEF IInv, TypeOK, units, manifests
  <2>5. /\ storage'[f] = tempFiles[f]
        /\ \A a \in Assets \ {f} : storage'[a] = storage[a] /\ tempFiles'[a] = tempFiles[a]
    BY <2>1, <2>2
  <2>6. PhaseInv'
    <3>1. \A a \in merging' \ {ManifestFile} : a \in Assets \ {f}
      BY <1>1 DEF IInv, TypeOK
    <3>2. \A a \in merging' \ {ManifestFile} : tempFiles'[a] # None
      BY <3>1, <2>5, <1>1, <1>2
    <3>3. QED
      BY <3>2, <1>1, <1>2 DEF IInv, PhaseInv, Preparing, Planned, Downloading, units, manifests
  <2>7. LocalInv'
    BY <2>1, <1>1, <1>6 DEF IInv, LocalInv, manifests
  <2>8. AtomicInv'
    <3> SUFFICES ASSUME spoiled = {}, NEW a \in Assets
                 PROVE  IF a \in merging' THEN tempFiles'[a] = remote.json.version
                                          ELSE storage'[a] = remote.json.version
      BY <1>1, <1>2 DEF AtomicInv, FilesMatchManifest, Arrived, manifests
    <3>1. IF a \in merging THEN tempFiles[a] = remote.json.version
                           ELSE storage[a] = remote.json.version
      BY <1>1 DEF IInv, AtomicInv, Arrived
    <3>2. CASE a = f
      BY <3>1, <3>2, <2>5, <1>1
    <3>3. CASE a # f
      BY <3>1, <3>3, <2>5, <1>1
    <3>4. QED
      BY <3>2, <3>3
  <2>9. QED
    BY <2>4, <2>6, <2>7, <2>8, <1>3, <1>4 DEF IInv
<1>7. QED
  BY <1>5, <1>6

LEMMA MergeEndKeeps ==
  ASSUME IInv, MergeEnd
  PROVE  IInv'
<1>1. /\ phase = "merge" /\ merging = {} /\ local' = remote.json.version
      /\ state' = "UP_TO_DATE" /\ entry' = "NONE" /\ tempFiles' = Empty
      /\ tempManifestFile' = NoManifest /\ phase' = "none"
      /\ remote' = Unloaded /\ temp' = Unloaded /\ aliased' = FALSE
      /\ failedUnits' = {} /\ downloadUnits' = {} /\ queue' = {}
      /\ UNCHANGED <<server, storage, cached, inFlight, totalWait, canceled, merging, spoiled>>
  BY DEF MergeEnd, UpToDate, RemoveTempDirectory
<1>2. inFlight = {} /\ remote.json.version # None
  BY <1>1 DEF IInv, PhaseInv, Downloading
<1>3. remote.json.version \in Versions
  BY <1>2 DEF IInv, TypeOK, Manifest, File, Versions, None
<1>4. ~Preparing' /\ ~Planned' /\ ~Downloading' /\ ~Going'
  BY <1>1 DEF Preparing, Planned, Downloading, Going
<1>5. TypeOK'
  BY <1>1, <1>3, EmptyFacts DEF IInv, TypeOK
<1>6. PhaseInv' /\ PlanInv' /\ UnitsAccounted'
  BY <1>1, <1>2, <1>4, EmptyFacts DEF PhaseInv, PlanInv, UnitsAccounted
<1>7. ManifestInv'
  BY <1>1, <1>4, EmptyFacts DEF ManifestInv
<1>8. MemorySound' /\ ResumeSound'
  BY <1>1, EmptyFacts DEF MemorySound, ResumeSound
<1>9. LocalInv' /\ SpoiledInv'
  BY <1>1, <1>2 DEF IInv, LocalInv, SpoiledInv
<1>10. AtomicInv'
  BY <1>1, <1>4 DEF IInv, AtomicInv, FilesMatchManifest, Arrived
<1>11. QED
  BY <1>5, <1>6, <1>7, <1>8, <1>9, <1>10 DEF IInv

LEMMA RestartKeeps ==
  ASSUME IInv, Restart
  PROVE  IInv'
<1>1. /\ state' = "UNCHECKED" /\ entry' = "NONE" /\ canceled' = FALSE
      /\ local' = IF cached = None THEN 1 ELSE cached
      /\ remote' = Unloaded /\ temp' = Parsed(Unloaded, tempManifestFile) /\ aliased' = FALSE
      /\ phase' = "none" /\ merging' = {}
      /\ failedUnits' = {} /\ downloadUnits' = {} /\ queue' = {} /\ inFlight' = {}
      /\ totalWait' = 0 /\ server' = server /\ storage' = storage /\ cached' = cached
      /\ tempFiles' = tempFiles /\ tempManifestFile' = tempManifestFile
      /\ IF phase = "merge" /\ merging # {} THEN Spoil("crashed") ELSE UNCHANGED spoiled
  BY DEF Restart, disk
<1>2. ~Preparing' /\ ~Planned' /\ ~Downloading' /\ ~Going'
  BY <1>1, EmptyFacts DEF Preparing, Planned, Downloading, Going
<1>3. tempManifestFile \in File
  BY DEF IInv, TypeOK
<1>4. /\ temp' \in Manifest /\ temp'.json = tempManifestFile
      /\ temp'.updating = tempManifestFile.updating
  BY <1>1, <1>3, EmptyFacts DEF Parsed, Manifest, File
<1>5. tempManifest' = temp'
  BY <1>1 DEF tempManifest
<1>6. local' \in Versions /\ spoiled' \subseteq {"canceled", "rechecked", "unfetched", "crashed"}
  <2>1. cached \in 0..MaxVersion /\ 1 \in Versions
    BY AssetsAssumption DEF IInv, TypeOK, Versions
  <2>2. cached # None => cached \in Versions
    BY <2>1 DEF Versions, None
  <2>3. QED
    BY <1>1, <2>1, <2>2 DEF IInv, TypeOK, Spoil
<1>7. TypeOK'
  <2>1. 0 \in 0..Cardinality(Assets)
    BY SomeAssets
  <2>2. QED
    BY <2>1, <1>1, <1>4, <1>6, EmptyFacts DEF IInv, TypeOK
<1>8. PhaseInv' /\ PlanInv' /\ UnitsAccounted'
  BY <1>1, <1>2, EmptyFacts DEF PhaseInv, PlanInv, UnitsAccounted
<1>9. ManifestInv'
  BY <1>1, <1>2, <1>4 DEF ManifestInv
<1>10. MemorySound' /\ ResumeSound'
  BY <1>1, <1>4, <1>5 DEF IInv, MemorySound, ResumeSound, Sound
<1>11. LocalInv' /\ SpoiledInv'
  BY <1>1 DEF LocalInv, SpoiledInv
<1>12. AtomicInv'
  <2> SUFFICES ASSUME spoiled' = {}, NEW a \in Assets
               PROVE  storage[a] = local'
    BY <1>1, <1>2 DEF AtomicInv, FilesMatchManifest, Arrived
  <2>1. spoiled = {} /\ (phase = "merge" => merging = {})
    BY <1>1 DEF Spoil
  <2>2. CASE phase = "merge"
    <3>1. remote.json.version # None
      BY <2>2 DEF IInv, PhaseInv
    <3>2. storage[a] = remote.json.version /\ cached = remote.json.version
      BY <2>1, <2>2 DEF IInv, AtomicInv, Arrived, LocalInv
    <3>3. QED
      BY <3>1, <3>2, <1>1
  <2>3. CASE phase # "merge"
    BY <2>1, <2>3, <1>1 DEF IInv, AtomicInv, FilesMatchManifest, LocalInv
  <2>4. QED
    BY <2>2, <2>3
<1>13. QED
  BY <1>7, <1>8, <1>9, <1>10, <1>11, <1>12 DEF IInv

-----------------------------------------------------------------------------
(* The invariant holds.                                                    *)

LEMMA InitHolds ==
  ASSUME Init
  PROVE  IInv
<1>1. ~Preparing /\ ~Planned /\ ~Downloading /\ ~Going
  BY EmptyFacts DEF Init, Preparing, Planned, Downloading, Going
<1>2. TypeOK
  <2>1. /\ 2 \in Versions /\ 1 \in Versions /\ 0 \in 0..Cardinality(Assets)
        /\ None \in 0..MaxVersion
    BY AssetsAssumption, SomeAssets DEF Versions, None
  <2>2. [a \in Assets |-> 1] \in [Assets -> Versions]
    BY <2>1
  <2>3. QED
    BY <2>1, <2>2, EmptyFacts DEF Init, TypeOK
<1>3. PhaseInv /\ PlanInv /\ UnitsAccounted /\ ManifestInv
  BY <1>1, EmptyFacts DEF Init, PhaseInv, PlanInv, UnitsAccounted, ManifestInv
<1>4. MemorySound /\ ResumeSound /\ LocalInv /\ SpoiledInv
  BY EmptyFacts DEF Init, MemorySound, ResumeSound, Sound, LocalInv, SpoiledInv, tempManifest
<1>5. AtomicInv
  BY <1>1 DEF Init, AtomicInv, FilesMatchManifest, Arrived
<1>6. QED
  BY <1>2, <1>3, <1>4, <1>5 DEF IInv

LEMMA CheckUpdateKeeps ==
  ASSUME IInv, CheckUpdate
  PROVE  IInv'
<1>1. /\ entry' = "CHECK_UPDATE"
      /\ UNCHANGED <<server, disk, manifests, units, canceled, local, phase, merging>>
  BY DEF CheckUpdate
<1>2. \/ state' = state /\ spoiled' = spoiled
      \/ state = "UNCHECKED" /\ spoiled' = spoiled /\ state' = "DOWNLOADING_VERSION"
      \/ /\ state = "FAIL_TO_UPDATE" /\ state' = "DOWNLOADING_VERSION"
         /\ IF aliased THEN Spoil("rechecked") ELSE UNCHANGED spoiled
  BY DEF CheckUpdate
<1>3. QED
  BY <1>1, <1>2, CallKeeps

LEMMA UpdateKeeps ==
  ASSUME IInv, UpdateUnchecked \/ UpdateFailed \/ UpdateInHandler
  PROVE  IInv'
<1>1. /\ entry' = "DO_UPDATE"
      /\ UNCHANGED <<server, disk, manifests, units, canceled, local, phase, merging>>
  BY DEF UpdateUnchecked, UpdateFailed, UpdateInHandler
<1>2. /\ spoiled' = spoiled
      /\ \/ state' = state
         \/ state = "UNCHECKED" /\ state' = "DOWNLOADING_VERSION"
         \/ state = "FAIL_TO_UPDATE" /\ ~remote.loaded /\ state' = "DOWNLOADING_MANIFEST"
  BY DEF UpdateUnchecked, UpdateFailed, UpdateInHandler
<1>3. QED
  BY <1>1, <1>2, CallKeeps

LEMMA StepKeeps ==
  ASSUME IInv, VersionInv, [Next]_vars
  PROVE  IInv'
<1>1. ASSUME NEW a \in Assets, FileDone(a) PROVE IInv'
  BY <1>1, FileDoneKeeps
<1>2. ASSUME NEW answer \in Answers, VersionDone(answer) \/ ManifestDone(answer) PROVE IInv'
  BY <1>2, VersionDoneKeeps, ManifestDoneKeeps
<1>3. ASSUME PrepareResume \/ PrepareAnew \/ PrepareDiff \/ PrepareFinished PROVE IInv'
  BY <1>3, PrepareResumeKeeps, PrepareAnewKeeps, PrepareDiffKeeps, PrepareFinishedKeeps
<1>4. ASSUME UpdateSucceed \/ MergeEnd \/ HandlerReturns PROVE IInv'
  BY <1>4, UpdateSucceedKeeps, MergeEndKeeps, HandlerReturnsKeeps
<1>5. ASSUME NEW f \in Assets \cup {ManifestFile}, MergeFile(f) PROVE IInv'
  BY <1>5, MergeFileKeeps
<1>6. ASSUME CheckUpdate \/ UpdateUnchecked \/ UpdateFailed \/ UpdateInHandler PROVE IInv'
  BY <1>6, CheckUpdateKeeps, UpdateKeeps
<1>7. ASSUME UpdateReady PROVE IInv'
  BY <1>7, BatchKeeps DEF UpdateReady, Planned
<1>8. ASSUME \/ DownloadFailedAssets \/ DownloadNoAssets \/ DownloadUpToDate
             \/ CancelUpdate
      PROVE  IInv'
  BY <1>8, RetryKeeps, NoAssetsKeeps, UpToDateRetryKeeps, CancelKeeps
<1>9. ASSUME Restart \/ Publish PROVE IInv'
  BY <1>9, RestartKeeps, PublishKeeps
<1>10. ASSUME UNCHANGED vars PROVE IInv'
  BY <1>10 DEF vars, disk, manifests, units, control, IInv, TypeOK, PhaseInv, ManifestInv,
    UnitsAccounted, PlanInv, MemorySound, ResumeSound, LocalInv, SpoiledInv, AtomicInv,
    FilesMatchManifest, Arrived, Missing, Going, Preparing, Planned, Downloading, Sound,
    tempManifest
<1>11. QED
  BY <1>1, <1>2, <1>3, <1>4, <1>5, <1>6, <1>7, <1>8, <1>9, <1>10 DEF Next, Network, Local, Game

(* The versions.  A step of a download keeps the manifests' versions.      *)
LEMMA QueueVersion ==
  ASSUME IInv, VersionInv, NEW u, NEW wanted, Fit(u, wanted), QueueDownload(u),
         local < server, UNCHANGED <<server, cached, aliased, local>>
  PROVE  VersionInv'
<1>1. /\ OtherStates(u.manifest, tempManifest) /\ u.manifest \in Manifest
      /\ u.manifest.json.states \in [Assets -> DownloadState]
  BY DEF Fit, UnitsRecord, Manifest, File
<1>2. \E m : SetTempManifest(m) /\ OtherStates(m, tempManifest)
  <2>1. ASSUME UnitsFinished(u) PROVE \E m : SetTempManifest(m) /\ OtherStates(m, tempManifest)
    BY <2>1, <1>1 DEF UnitsFinished
  <2>2. ASSUME StartMore(u) PROVE \E m : SetTempManifest(m) /\ OtherStates(m, tempManifest)
    <3>1. PICK start :
            SetTempManifest([u.manifest EXCEPT !.json.states =
              [a \in Assets |-> IF a \in start THEN "DOWNLOADING"
                                ELSE u.manifest.json.states[a]]])
      BY <2>2 DEF StartMore
    <3>2. [a \in Assets |-> IF a \in start THEN "DOWNLOADING" ELSE u.manifest.json.states[a]]
            \in [Assets -> DownloadState]
      BY <1>1 DEF DownloadState
    <3>3. PICK states \in [Assets -> DownloadState] :
            SetTempManifest([u.manifest EXCEPT !.json.states = states])
      BY <3>1, <3>2
    <3>4. OtherStates([u.manifest EXCEPT !.json.states = states], u.manifest)
      BY <1>1, StatesReplaced
    <3>5. OtherStates([u.manifest EXCEPT !.json.states = states], tempManifest)
      BY <3>4, <1>1 DEF OtherStates
    <3>6. QED
      BY <3>3, <3>5
  <2>3. QED
    BY <2>1, <2>2 DEF QueueDownload
<1>3. remote'.loaded = remote.loaded /\ remote'.json.version = remote.json.version
  <2>1. PICK m : SetTempManifest(m) /\ OtherStates(m, tempManifest)
    BY <1>2
  <2>2. remote' = IF aliased THEN m ELSE remote
    BY <2>1, TempManifestSet
  <2>3. QED
    BY <2>1, <2>2 DEF OtherStates, tempManifest
<1>4. \/ state' = "UPDATING"
      \/ state' = "FAIL_TO_UPDATE" /\ failedUnits' # {}
  BY DEF QueueDownload, UnitsFinished, StartMore
<1>5. QED
  BY <1>3, <1>4 DEF VersionInv, Underway

LEMMA DownloadVersion ==
  ASSUME IInv, VersionInv,
         \/ \E a \in Assets : FileDone(a)
         \/ Planned /\ \E e \in {"NONE", "CHECK_UPDATE", "DO_UPDATE"} : BatchDownload(e)
         \/ DownloadFailedAssets
  PROVE  VersionInv'
<1>1. \E u, wanted : Fit(u, wanted) /\ QueueDownload(u)
  <2>1. ASSUME NEW a \in Assets, FileDone(a)
        PROVE  \E u, wanted : Fit(u, wanted) /\ QueueDownload(u)
    <3>1. a \in inFlight /\ (QueueDownload(AfterSuccess(a)) \/ QueueDownload(AfterError(a)))
      BY <2>1 DEF FileDone
    <3>2. Fit(AfterSuccess(a), downloadUnits) /\ Fit(AfterError(a), downloadUnits)
      BY <3>1, SuccessFits, ErrorFits
    <3>3. QED
      BY <3>1, <3>2
  <2>2. ASSUME Planned, NEW e \in {"NONE", "CHECK_UPDATE", "DO_UPDATE"}, BatchDownload(e)
        PROVE  \E u, wanted : Fit(u, wanted) /\ QueueDownload(u)
    BY <2>2, BatchFits DEF BatchDownload
  <2>3. ASSUME DownloadFailedAssets
        PROVE  \E u, wanted : Fit(u, wanted) /\ QueueDownload(u)
    <3>1. state \notin Busy \cup {"UP_TO_DATE"} /\ remote.loaded /\ failedUnits # {}
      BY <2>3 DEF VersionInv, DownloadFailedAssets
    <3>2. Fit([Units EXCEPT !.queue = failedUnits, !.wait = Cardinality(failedUnits)], failedUnits)
      BY <3>1, RetryFits
    <3>3. QED
      BY <2>3, <3>2 DEF DownloadFailedAssets
  <2>4. QED
    BY <2>1, <2>2, <2>3
<1>2. PICK u, wanted : Fit(u, wanted) /\ QueueDownload(u)
  BY <1>1
<1>3. UNCHANGED <<server, cached, aliased, local>>
  BY DEF FileDone, BatchDownload, DownloadFailedAssets
<1>4. local < server
  <2>1. ASSUME NEW a \in Assets, FileDone(a) PROVE local < server
    BY <2>1, UnderWay DEF FileDone, VersionInv, Underway, Downloading
  <2>2. CASE Planned
    BY <2>2 DEF VersionInv, Underway
  <2>3. CASE DownloadFailedAssets
    BY <2>3 DEF VersionInv, DownloadFailedAssets
  <2>4. QED
    BY <2>1, <2>2, <2>3
<1>5. QED
  BY <1>2, <1>3, <1>4, QueueVersion

(* The answers of the server.                                              *)
LEMMA AnswerVersion ==
  ASSUME IInv, VersionInv, NEW answer \in Answers,
         VersionDone(answer) \/ ManifestDone(answer)
  PROVE  VersionInv'
<1>1. /\ UNCHANGED <<server, cached, local>>
      /\ state \in {"DOWNLOADING_VERSION", "DOWNLOADING_MANIFEST"} /\ phase = "none"
  BY DEF VersionDone, ManifestDone, IInv, PhaseInv, TypeOK, Preparing
<1>2. ~Underway /\ local \in Int /\ server \in Int
  BY <1>1 DEF IInv, TypeOK, PhaseInv, Underway, Planned, Preparing, Versions
<1>3. ~Parsed(remote, NoManifest).loaded
  BY DEF Parsed
<1>4. /\ Parsed(remote, Published).json.version = server
      /\ Parsed(remote, Published).loaded
  BY PublishedFacts DEF IInv, Parsed
<1>5. CASE VersionDone(answer)
  <2>1. /\ UNCHANGED <<failedUnits, phase>>
        /\ remote' = remote \/ ~remote'.loaded
    BY <1>5, <1>3 DEF VersionDone, units
  <2>2. \/ state' = "UP_TO_DATE" /\ local >= server /\ ~remote'.loaded
        \/ state' = "DOWNLOADING_MANIFEST"
    BY <1>5, <1>3 DEF VersionDone, UpToDate
  <2>3. state' = "DOWNLOADING_MANIFEST" => ~Underway'
    BY <2>1, <1>1 DEF Underway, Planned, Preparing
  <2>4. QED
    BY <2>1, <2>2, <2>3, <1>1, <1>2 DEF VersionInv, Underway, Planned, Preparing
<1>6. CASE ManifestDone(answer)
  <2>1. \/ state' = state /\ phase' = "told" /\ remote' = remote /\ failedUnits' = failedUnits
        \/ /\ state' = "MANIFEST_LOADED" /\ phase' = "told" /\ ~remote'.loaded
           /\ failedUnits' = failedUnits
        \/ /\ state' = "UP_TO_DATE" /\ phase' = phase /\ local >= server
           /\ remote' = Parsed(remote, Published) /\ failedUnits' = failedUnits
        \/ /\ state' = "PREPARE_UPDATING" /\ phase' = "prepare" /\ local < server
           /\ remote' = Parsed(remote, Published) /\ failedUnits' = {}
    BY <1>6, <1>3 DEF ManifestDone, UpToDate, units
  <2>2. CASE state' \in {"DOWNLOADING_MANIFEST", "DOWNLOADING_VERSION", "MANIFEST_LOADED"}
    BY <2>1, <2>2, <1>1, <1>2 DEF VersionInv, Underway, Planned, Preparing
  <2>3. CASE state' = "UP_TO_DATE"
    BY <2>1, <2>3, <1>1, <1>2, <1>4 DEF VersionInv, Underway, Planned, Preparing
  <2>4. CASE state' = "PREPARE_UPDATING"
    <3>1. Underway'
      BY <2>1, <2>4, <1>1 DEF Underway, Preparing
    <3>2. /\ local < server /\ failedUnits' = {} /\ remote' = Parsed(remote, Published)
          /\ state' # "UP_TO_DATE"
      BY <2>1, <2>4, <1>1
    <3>3. remote'.json.version = server
      BY <3>2, <1>4
    <3>4. QED
      BY <3>1, <3>2, <3>3, <1>1, <1>2 DEF VersionInv
  <2>5. QED
    BY <2>1, <2>2, <2>3, <2>4, <1>1
<1>7. QED
  BY <1>5, <1>6

(* The steps on the way to an update and to its end.                       *)
LEMMA LocalVersion ==
  ASSUME IInv, VersionInv,
         \/ PrepareResume \/ PrepareAnew \/ PrepareDiff \/ HandlerReturns
         \/ UpdateSucceed \/ MergeEnd \/ \E f \in Assets \cup {ManifestFile} : MergeFile(f)
  PROVE  VersionInv'
<1>1. ASSUME PrepareResume \/ PrepareAnew PROVE VersionInv'
  <2>1. /\ Preparing /\ Preparing'
        /\ UNCHANGED <<server, cached, remote, failedUnits, state, local>>
    BY <1>1 DEF PrepareResume, PrepareAnew, Preparing, manifests, units
  <2>2. QED
    BY <2>1 DEF VersionInv, Underway
<1>2. ASSUME PrepareDiff PROVE VersionInv'
  <2>1. /\ Preparing /\ Preparing'
        /\ UNCHANGED <<server, cached, failedUnits, state, local>>
    BY <1>2 DEF PrepareDiff, Preparing
  <2>2. remote'.loaded = remote.loaded /\ remote'.json.version = remote.json.version
    <3>1. PICK json : json = [remote.json EXCEPT !.updating = TRUE, !.states = Marked("UNSTARTED")]
      OBVIOUS
    <3>2. remote' = [remote EXCEPT !.updating = TRUE, !.json = json]
      BY <1>2, <3>1 DEF PrepareDiff
    <3>3. remote \in Manifest /\ remote.json \in File
      BY DEF IInv, TypeOK, Manifest
    <3>4. json.version = remote.json.version
      BY <3>1, <3>3 DEF File
    <3>5. QED
      BY <3>2, <3>3, <3>4 DEF Manifest
  <2>3. QED
    BY <2>1, <2>2 DEF VersionInv, Underway
<1>3. ASSUME HandlerReturns PROVE VersionInv'
  <2>1. /\ state \in {"DOWNLOADING_MANIFEST", "MANIFEST_LOADED"} /\ phase = "told"
        /\ state' \in {"UNCHECKED", "FAIL_TO_UPDATE"} /\ phase' = "none"
        /\ UNCHANGED <<server, cached, remote, failedUnits, local>>
    BY <1>3 DEF IInv, PhaseInv, HandlerReturns, disk, manifests, units
  <2>2. ~Underway /\ ~Underway'
    BY <2>1 DEF Underway, Planned, Preparing
  <2>3. QED
    BY <2>1, <2>2 DEF VersionInv
<1>4. ASSUME UpdateSucceed PROVE VersionInv'
  <2>1. PICK m : m = [tempManifest EXCEPT !.updating = FALSE, !.json.updating = FALSE]
    OBVIOUS
  <2>2. /\ SetTempManifest(m) /\ state = "UPDATING" /\ aliased' = aliased
        /\ UNCHANGED <<server, cached, failedUnits, state, local>>
    BY <2>1, <1>4 DEF IInv, PhaseInv, UpdateSucceed, units
  <2>3. m.loaded = tempManifest.loaded /\ m.json.version = tempManifest.json.version
    BY <2>1, TempManifestType DEF IInv, Manifest, File
  <2>4. remote' = IF aliased THEN m ELSE remote
    BY <2>2, TempManifestSet
  <2>5. remote'.loaded = remote.loaded /\ remote'.json.version = remote.json.version
    BY <2>3, <2>4 DEF tempManifest
  <2>6. QED
    BY <2>2, <2>5 DEF VersionInv, Underway
<1>5. ASSUME MergeEnd PROVE VersionInv'
  <2>1. /\ state' = "UP_TO_DATE" /\ phase' = "none" /\ failedUnits' = {}
        /\ remote' = Unloaded /\ local' = remote.json.version
        /\ UNCHANGED <<server, cached>> /\ remote.loaded
    BY <1>5 DEF IInv, PhaseInv, MergeEnd, UpToDate
  <2>2. ~Underway'
    BY <2>1 DEF Underway, Planned, Preparing
  <2>3. QED
    BY <2>1, <2>2, EmptyFacts DEF VersionInv
<1>6. ASSUME NEW f \in Assets \cup {ManifestFile}, MergeFile(f) PROVE VersionInv'
  <2>1. /\ state = "UPDATING" /\ remote.loaded
        /\ cached' = cached \/ cached' = remote.json.version
        /\ UNCHANGED <<server, remote, failedUnits, state, local>>
    BY <1>6 DEF IInv, PhaseInv, MergeFile, manifests, units
  <2>2. QED
    BY <2>1 DEF VersionInv, Underway
<1>7. QED
  BY <1>1, <1>2, <1>3, <1>4, <1>5, <1>6

(* The calls of the game that download nothing, and what ends them.        *)
LEMMA CallVersion ==
  ASSUME IInv, VersionInv,
         \/ CheckUpdate \/ UpdateUnchecked \/ UpdateFailed \/ UpdateInHandler \/ CancelUpdate
         \/ DownloadNoAssets \/ DownloadUpToDate \/ Restart \/ Publish
         \/ (PrepareFinished /\ entry # "DO_UPDATE") \/ UNCHANGED vars
  PROVE  VersionInv'
<1> USE DEF disk, manifests, units
<1>1. ASSUME CheckUpdate \/ UpdateUnchecked \/ UpdateFailed \/ UpdateInHandler \/ CancelUpdate
      PROVE  VersionInv'
  <2>1. /\ UNCHANGED <<server, cached, remote, failedUnits, local, phase>>
        /\ \/ state' = state
           \/ /\ state \in {"UNCHECKED", "FAIL_TO_UPDATE"}
              /\ state' \in {"DOWNLOADING_VERSION", "DOWNLOADING_MANIFEST"}
    BY <1>1 DEF CheckUpdate, UpdateUnchecked, UpdateFailed, UpdateInHandler, CancelUpdate
  <2>2. Underway' = Underway /\ (state' = "UP_TO_DATE") = (state = "UP_TO_DATE")
    BY <2>1 DEF Underway, Planned, Preparing
  <2>3. QED
    BY <2>1, <2>2 DEF VersionInv
<1>2. ASSUME DownloadNoAssets PROVE VersionInv'
  <2>1. /\ UNCHANGED <<server, cached, failedUnits, local>> /\ state' = "UPDATING"
        /\ SetTempManifest(Units.manifest) /\ aliased' = aliased
        /\ remote.loaded /\ failedUnits = {} /\ state \notin Busy \cup {"UP_TO_DATE"}
    BY <1>2 DEF DownloadNoAssets, UnitsFinished, Units
  <2>2. remote' = remote
    <3>1. PICK m : m = Units.manifest
      OBVIOUS
    <3>2. m = tempManifest
      BY <3>1 DEF Units
    <3>3. remote' = IF aliased THEN m ELSE remote
      BY <2>1, <3>1, TempManifestSet
    <3>4. QED
      BY <3>2, <3>3 DEF tempManifest
  <2>3. Underway
    BY <2>1 DEF VersionInv
  <2>4. QED
    BY <2>1, <2>2, <2>3 DEF VersionInv, Underway
<1>3. ASSUME DownloadUpToDate PROVE VersionInv'
  <2>1. /\ UNCHANGED <<server, cached, failedUnits, state, phase>> /\ state = "UP_TO_DATE"
        /\ local' = local /\ remote' = Unloaded
    BY <1>3 DEF DownloadUpToDate, VersionInv
  <2>2. QED
    BY <2>1, EmptyFacts DEF VersionInv, Underway, Planned, Preparing
<1>4. ASSUME Restart PROVE VersionInv'
  <2>1. /\ UNCHANGED <<server, cached>> /\ state' = "UNCHECKED" /\ phase' = "none"
        /\ failedUnits' = {} /\ remote' = Unloaded
        /\ local' = IF cached = None THEN 1 ELSE cached
    BY <1>4 DEF Restart
  <2>2. local' <= server
    BY <2>1 DEF IInv, TypeOK, Versions, VersionInv
  <2>3. ~Underway'
    BY <2>1 DEF Underway, Planned, Preparing
  <2>4. QED
    BY <2>1, <2>2, <2>3, EmptyFacts DEF VersionInv
<1>5. ASSUME Publish PROVE VersionInv'
  <2>1. /\ server' = server + 1
        /\ UNCHANGED <<cached, remote, failedUnits, state, phase, local>>
    BY <1>5 DEF Publish, control
  <2>2. server \in Int /\ local \in Int /\ cached \in Int /\ remote.json.version \in Int
    BY DEF IInv, TypeOK, Versions, Manifest, File
  <2>3. Underway' = Underway
    BY <2>1 DEF Underway, Planned, Preparing
  <2>4. QED
    BY <2>1, <2>2, <2>3 DEF VersionInv
<1>6. ASSUME PrepareFinished, entry # "DO_UPDATE" PROVE VersionInv'
  <2>1. /\ phase = "prepared" /\ state' = "READY_TO_UPDATE"
        /\ UNCHANGED <<server, cached, remote, failedUnits, local>>
    BY <1>6 DEF PrepareFinished
  <2>2. QED
    BY <2>1 DEF VersionInv, Underway, Planned
<1>7. ASSUME UNCHANGED vars PROVE VersionInv'
  BY <1>7 DEF vars, control, VersionInv, Underway, Planned, Preparing
<1>8. QED
  BY <1>1, <1>2, <1>3, <1>4, <1>5, <1>6, <1>7

LEMMA VersionKeeps ==
  ASSUME IInv, VersionInv, [Next]_vars
  PROVE  VersionInv'
<1>1. ASSUME NEW a \in Assets, FileDone(a) PROVE VersionInv'
  BY <1>1, DownloadVersion
<1>2. ASSUME NEW answer \in Answers, VersionDone(answer) \/ ManifestDone(answer)
      PROVE  VersionInv'
  BY <1>2, AnswerVersion
<1>3. ASSUME UpdateReady \/ (PrepareFinished /\ entry = "DO_UPDATE") PROVE VersionInv'
  <2>1. Planned /\ BatchDownload("DO_UPDATE")
    BY <1>3 DEF UpdateReady, PrepareFinished, Planned
  <2>2. QED
    BY <2>1, DownloadVersion
<1>4. ASSUME DownloadFailedAssets PROVE VersionInv'
  BY <1>4, DownloadVersion
<1>5. ASSUME \/ PrepareResume \/ PrepareAnew \/ PrepareDiff \/ HandlerReturns
             \/ UpdateSucceed \/ MergeEnd \/ \E f \in Assets \cup {ManifestFile} : MergeFile(f)
      PROVE  VersionInv'
  BY <1>5, LocalVersion
<1>6. ASSUME \/ CheckUpdate \/ UpdateUnchecked \/ UpdateFailed \/ UpdateInHandler \/ CancelUpdate
             \/ DownloadNoAssets \/ DownloadUpToDate \/ Restart \/ Publish
             \/ (PrepareFinished /\ entry # "DO_UPDATE") \/ UNCHANGED vars
      PROVE  VersionInv'
  BY <1>6, CallVersion
<1>7. QED
  BY <1>1, <1>2, <1>3, <1>4, <1>5, <1>6 DEF Next, Network, Local, Game

LEMMA IInvCorrect == Spec => []IInv
<1>1. Init => VersionInv
  BY EmptyFacts DEF Init, VersionInv, Underway, Planned, Preparing, None
<1>2. IInv /\ VersionInv /\ [Next]_vars => IInv' /\ VersionInv'
  BY StepKeeps, VersionKeeps
<1>3. QED
  BY <1>1, <1>2, InitHolds, PTL DEF Spec

-----------------------------------------------------------------------------
(* The theorems.                                                           *)

(* Unless something has put the update at risk, the files in the storage   *)
(* are those of one version, that of the local manifest, at any time but   *)
(* while updateSucceed moves them: whatever fails, is published or ends in *)
(* between.                                                                *)
THEOREM UpdateAtomicCorrect == Spec => []UpdateAtomic
<1>1. IInv => UpdateAtomic
  BY DEF IInv, AtomicInv, UpdateAtomic
<1>2. QED
  BY <1>1, IInvCorrect, PTL

(* What the saved manifest says need not be downloaded again is in the     *)
(* temporary directory, in that version: genResumeAssetsList may leave it  *)
(* out wherever the process ended.                                         *)
THEOREM ResumeSoundCorrect == Spec => []ResumeSound
<1>1. IInv => ResumeSound
  BY DEF IInv
<1>2. QED
  BY <1>1, IInvCorrect, PTL

(* Every unit that has no answer yet is counted in _totalWaitToDownload,   *)
(* no more than maxConcurrentTask are under way, each that is neither      *)
(* waiting, under way nor failed is there, and prepareUpdateAsync never    *)
(* releases the manifest it is about to use.                               *)
THEOREM UnitsInvCorrect == Spec => []UnitsInv
<1>1. IInv => UnitsInv
  <2> SUFFICES ASSUME IInv PROVE UnitsInv
    OBVIOUS
  <2>1. phase = "prepare" /\ aliased => CanResume
    BY DEF IInv, PhaseInv, ManifestInv, Preparing, CanResume, tempManifest
  <2>2. QED
    BY <2>1 DEF IInv, UnitsInv, ReleasesOther
<1>2. QED
  BY <1>1, IInvCorrect, PTL

LEMMA NothingSpoils ==
  ASSUME ~Cancels, ~Rechecks, ~EarlyRetries, ~Crashes, spoiled = {}, [Next]_vars
  PROVE  spoiled' = {}
<1>1. ASSUME NEW a \in Assets, FileDone(a) PROVE spoiled' = {}
  BY <1>1 DEF FileDone
<1>2. ASSUME NEW answer \in Answers, VersionDone(answer) \/ ManifestDone(answer)
      PROVE  spoiled' = {}
  BY <1>2 DEF VersionDone, ManifestDone
<1>3. ASSUME PrepareResume \/ PrepareAnew \/ PrepareDiff \/ PrepareFinished
      PROVE  spoiled' = {}
  BY <1>3 DEF PrepareResume, PrepareAnew, PrepareDiff, PrepareFinished, BatchDownload
<1>4. ASSUME UpdateSucceed \/ MergeEnd \/ HandlerReturns PROVE spoiled' = {}
  BY <1>4 DEF UpdateSucceed, MergeEnd, HandlerReturns
<1>5. ASSUME NEW f \in Assets \cup {ManifestFile}, MergeFile(f) PROVE spoiled' = {}
  BY <1>5 DEF MergeFile
<1>6. ASSUME CheckUpdate \/ UpdateUnchecked \/ UpdateFailed \/ UpdateReady
             \/ UpdateInHandler \/ DownloadFailedAssets \/ DownloadNoAssets
             \/ DownloadUpToDate \/ CancelUpdate
      PROVE  spoiled' = {}
  BY <1>6 DEF CheckUpdate, UpdateUnchecked, UpdateFailed, UpdateReady, UpdateInHandler,
    BatchDownload, DownloadFailedAssets, DownloadNoAssets, DownloadUpToDate, CancelUpdate
<1>7. ASSUME Restart \/ Publish PROVE spoiled' = {}
  BY <1>7 DEF Restart, Publish
<1>8. ASSUME UNCHANGED vars PROVE spoiled' = {}
  BY <1>8 DEF vars
<1>9. QED
  BY <1>1, <1>2, <1>3, <1>4, <1>5, <1>6, <1>7, <1>8 DEF Next, Network, Local, Game

(* "Every thing is correctly downloaded" (AssetsManagerEx.cpp:795), said   *)
(* without the history: where the game neither cancels an update, nor      *)
(* calls downloadFailedAssets before a file has failed, nor looks again    *)
(* for one that has failed, and the process does not end, the files are    *)
(* those of the manifest, whatever the server answers and publishes and    *)
(* however often failed files are tried again.  Each hypothesis is needed: *)
(* without it the code installs a manifest without its files.              *)
THEOREM QuietFilesMatch ==
  ASSUME ~Cancels, ~Rechecks, ~EarlyRetries, ~Crashes
  PROVE  Spec => []FilesMatchManifest
<1>1. Init => spoiled = {}
  BY DEF Init
<1>2. spoiled = {} /\ [Next]_vars => (spoiled = {})'
  BY NothingSpoils
<1>3. IInv /\ spoiled = {} => FilesMatchManifest
  BY DEF IInv, AtomicInv
<1>4. QED
  BY <1>1, <1>2, <1>3, IInvCorrect, PTL DEF Spec
=============================================================================
