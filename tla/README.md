# Verification of the native engine's concurrent core

TLA+ models, TLC configurations and TLAPS proofs for the C++ engine under
`cocos/` and `extensions/`. The subject is what the engine does between threads
and between call-backs: a game thread that records frames, a device thread that
executes them, the message queue between the two with its memory, the pools and
network threads that run the rest in the background, the scheduler through which
all of them come back to the game, and the update of a game's files, which has to
survive the end of the process. Paths below are relative to the repository; `MQ`
stands for `cocos/base/threading/MessageQueue`.

## 1. The system

### Components and their state

| Component | State | Operations | What makes it correct |
|---|---|---|---|
| `MessageQueue` (`MQ.{h,cpp}`) | a writer context (chunk, offset, last message, pending count), an atomic count of written messages, a reader context (chunk, last message, snapshot of the count, new messages, two flags), messages linked through `_next` in 64 KB chunks, one mutex and condition variable | allocate a message or an argument block, `kick`, `kickAndWait`, `finishWriting`, `runConsumerThread`, `terminateConsumerThread`, `flushMessages`, `setImmediateMode` | messages execute once and in order, never before they are published; memory is not reused while somebody may read it; no wake-up is lost; a waiting producer comes back, and only when all was executed |
| `MessageQueue::MemoryAllocator` | a pool of chunks, an unsigned count of it, a queue of recycled chunks | `request`, `recycle`, `freeByUser`, `free`, `destroy` | a chunk has one owner; the pool stays near its capacity; a stash that all queues share does not free what one of them still reads |
| gfx-agent: `DeviceAgent`, `CommandBufferAgent`, `BufferAgent` | a main queue, a queue per command buffer, staging slots per buffer, the index of the frame, a semaphore for the frame boundary | `present`, `flushCommands`, recording, `update`, resizing, creation and destruction, `copyTextureToBuffers` | the device thread reads the frame it executes and not the one being recorded; a flush executes its own commands; nothing is used after it was destroyed |
| gfx-agent: the other agents | actors | enqueue `initialize`, `destroy` and setters | as a command buffer's life |
| `LegacyThreadPool` (`cocos/base/ThreadPool.*`) | a task queue, abort, idle and inited flags per thread, counts of threads and of idle threads, a condition variable | `pushTask`, `stretchPool`, `tryShrinkPool`, `stopTasksByType`, `stopAllTasks`, `stop` | a task is run once; the pool keeps its minimum; it stops when told to |
| `ThreadPool` (`cocos/base/threading`) | a lock-free queue and a fixed set of workers | `dispatchTask`, `start`, `stop` | `stop` returns |
| `ThreadSafeLinearAllocator` | one atomic offset | `doAllocate` by compare-and-swap, `recycle` | blocks do not overlap |
| Job system | a graph handed to TBB, Taskflow or run in place | jobs, for-each jobs, `waitForAll` | all jobs have run at the wait |
| `Scheduler` (`cocos/base/Scheduler.*`) | a map from targets to lists of timers with an index and two "salvaged" flags, the entry that `update` visits, functions from other threads | `schedule`, `unschedule`, `unscheduleAllForTarget`, pause, resume, `update`, `performFunctionInCocosThread` | a walk survives what its call-backs change; a timer is updated once a frame and freed when nobody uses it; functions run once and in order |
| `HttpClient` (`cocos/network/HttpClient.cpp`) | request and response queues, a network thread, a use count, a pointer to the scheduler | `send`, `sendImmediate`, `dispatchResponseCallbacks`, `destroyInstance` | each request is answered once and in order; the client is deleted by its last user; nothing is posted for a client that is gone |
| Downloader (`cocos/network/Downloader-curl.cpp`) | request and finished queues, a map and a set of transfers, a network thread that comes and goes, a timer that pauses itself, a set of reserved paths | `createCoTask`, `run`, the thread's loop, `onSchedule`, destruction | a task is delivered once; the timer sleeps only when nothing is left; a file has one writer |
| `AssetsManagerEx` (`extensions/assets-manager`) | update state and entry, three manifests, units that wait, are under way or have failed, a temporary directory, the storage | `checkUpdate`, `update`, `downloadFailedAssets`, `cancelUpdate`, and a handler for every answer | the files the game runs with are those of one version; an interrupted update resumes with what is there; an update ends |
| Audio (`oalsoft`) | caches filled by pool tasks, players | load, play, `~AudioCache` | the destructor does not race the decoder and does not wait forever |
| Event buses, reference counting, engine, frame graph, scene, pipelines, bindings, platform layer | see `PROJECT.json` | | |

### How they interact

```
 game thread                                       device thread
 -----------                                       -------------
 agents --- messages ---> main MessageQueue -----> actors (gfx back end)
 CommandBufferAgent ----> MessageQueue per          |
        |                 command buffer <- flush --+--- jobs (in parallel)
        |                        |
        +-- staging slots        +-- chunks --> MemoryAllocator (one for all queues)
 present() <---- frame boundary semaphore --------- present executed

 Scheduler::update, once a frame, on the game thread
   timers            <--- DownloaderCURL::onSchedule, the game
   posted functions  <--- HttpClient (network thread, pool), AsyncTaskPool, audio
                             |                     |
                             v                     v
                    network threads       LegacyThreadPool workers

 AssetsManagerEx ---> Downloader (transfers) , AsyncTaskPool (preparation)
        |
        +-- temporary directory, storage: what outlives the process
```

* The game thread never calls an actor of the back end: it enqueues a message
  that does. It blocks in two places, `kickAndWait` (until the device thread
  has executed everything) and the frame boundary of `present`.
* The commands of a frame travel in queues of their own and run when the main
  queue's `DeviceFlushCommands` message executes.
* All queues recycle their chunks into one stash, and a `FreeChunksInFreeQueue`
  message in any of them frees the whole stash.
* Threads other than the game thread never call the game: they post functions
  (`HttpClient`, `AsyncTaskPool`) or leave results for a timer (the downloader).

### What is hard

*Order and visibility.* A message is linked before it is published; an argument
block rewrites the `_next` of the last message even when that one was published
and executed; a full chunk is left through two extra messages.
*Sleep.* The consumer tests, locks, tests again and sleeps while the producer
publishes without the lock and notifies with it.
*Wrapping.* Two unsigned counters and their difference say how much is unread;
the pool's unsigned counter drops below zero.
*Frames.* Two staging slots, one semaphore count and one index must fit each
other. *Life.* Command buffers have an agent on one thread and an actor on the
other, and two queues lead there; an `HttpClient` is deleted by whichever thread
leaves it last.
*Flags.* The thread pool reads idle, abort and done flags outside of locks; the
downloader takes results and tests for its thread's end in two steps.
*Re-entrance.* A timer's call-back changes the containers `update` walks over.
*Partial failure and crashes.* Some files of an update fail, are retried, or are
left behind when the process ends; the server publishes a new version on the way.
The list, line by line, is `hazards` in `PROJECT.json`; section 5 names those
that could not be listed there or are not covered.

## 2. Modules

| Module | Models | Role |
|---|---|---|
| `MemoryChunks` | the chunks that queues and allocator pass around | constants |
| `MessageQueue` | `MQ.{h,cpp}` without the allocator | component; properties |
| `FifoChannel` | what the queue promises | abstract specification |
| `MessageQueueChannel` | | refinement mapping from chunks and links to the channel |
| `MessageQueueInv` | | the inductive invariant |
| `MessageQueueProofs` | | proofs |
| `MemoryAllocator` | `MemoryAllocator` step by step, as several threads run it | component |
| `ChunkStash` | the stash as the main queue and the command queues share it in a flush | composition |
| `ChunkProofs` | | proofs about both; the allocator's `Init`, `Next` and `Spec` are therefore called `PoolInit`, `PoolNext` and `PoolSpec` |
| `DeviceAgent`, `DeviceAgentProofs` | `DeviceAgent`, `CommandBufferAgent`, `BufferAgent` over FIFO queues | composition; proofs |
| `LegacyThreadPool`, `LegacyThreadPoolProofs` | `cocos/base/ThreadPool.{h,cpp}` | component; proofs |
| `Scheduler`, `SchedulerProofs` | the timers of `cocos/base/Scheduler.cpp` and their call-backs | component; proofs |
| `HttpClient`, `HttpClientProofs` | `cocos/network/HttpClient.cpp`, its pool tasks, and the function queue of the scheduler | composition; proofs |
| `DownloaderCURL`, `DownloaderCURLProofs` | `cocos/network/Downloader-curl.cpp` with its network thread and timer | composition; proofs |
| `AssetsManagerEx`, `AssetsManagerExProofs` | `extensions/assets-manager` with server, disk and restarts | component; proofs |
| `MC*` | | TLC instances |

`DeviceAgent` and `ChunkStash` use queues that are sequences. That is justified
by `ImplementsChannel`, which is proved: a `MessageQueue` is a FIFO channel whose
items become visible at a kick.

### How state and actions correspond to the code

**MessageQueue.** `w*` variables are `WriterContext`, `r*` are `ReaderContext`,
`written` is the atomic. An address is a chunk and a slot of 16 bytes; `link`
and `msg` are the memory. The producer's program counter `pPc` goes `idle` ->
`alloc` (the call may have to change chunks, `SwitchChunk`, before
`PlaceMessage` or `PlaceData`) -> `push` (`pushMessages`) -> `notify` ->
`wait` -> `join`. The consumer's `cPc` goes through `readMessage`: `check`,
`locked`, `drowsy`, `asleep`, `woken`, then `exec` and `flushed`. Actions are as
fine as the accesses another thread can see: the atomic store, the lock, the
read of `_next`, the execution of a message together with its destructor.
`id`, `where`, `sent`, `published` and `read` are history. Immediate mode
executes on the caller's stack and is one action per call. `SetImmediateMode` is
the assignment that `setImmediateMode` is, whatever is unread; the assertion at a
chunk switch in immediate mode is an action of its own (`ImmediateSwitchFails`),
after which the producer is `aborted`.

**MemoryAllocator.** One action per change of counter or queue; the two lock-free
queues are sets whose operations are atomic, and `request` may miss a chunk that
is in the pool, as `try_dequeue` may.

**ChunkStash.** A message is its chunk and the chunk of the argument block it
points to. Every allocation may fit or may change chunks, whatever its size. A
message of a command queue is visible when a flush of it executes.

**DeviceAgent.** One action per agent call, split at each kick, because the
device thread runs between the kicks; messages carry the frame and the flush
they belong to as history. Jobs flush positions in any order, as far as
`MayRun` (the split of `flushCommands` into work for this thread and jobs)
allows it. `store` names the memory a buffer stages its data in: `doResize`
allocates a new one and `doResize` and `doDestroy` leave the old one to a
`FreeStaging` message, upon which `staging` marks all its slots as given back.

**LegacyThreadPool.** One action per access to a flag, a count or the queue.
The time test of `pushTask` (`_shrinkInterval`) is a free choice. The
condition variable is the set `waiting` of threads asleep; a notified thread
leaves the set and needs the mutex to go on.

**Scheduler.** `order` is the iteration order of the hash map of targets and `pos`
the iterator of `update`. A new target may make the map grow, and then every entry
may change its place (`InsertEntry`); the iterator stays at its entry, and what was
ahead of it may be behind it afterwards, and the reverse. The map grows at most when
it holds more entries than ever before (`most`), since a removal never shrinks it: a
call-back cannot rearrange it again and again within a frame. `timers` are
the lists of `HashTimerEntry`, `refs` the reference counts of `ccCArray`, so that
a timer whose count is zero is freed and its identity is reused. `update` and
`Timer::update` are walked step by step (`VisitTarget`, `VisitTimer`,
`DelayedReturn`, `WhileElapsed`, `CallbackReturn`, `NextTimer`, `LeaveTarget`),
and in the steps in which a call-back runs (`delayed`, `callback`) every call of
the scheduler is possible any number of times. `updated`, `due` (the timers that were
there all along the frame and are not yet updated), `skipped` (the targets the iterator
passed over) and `again` (those it has visited and has
before it once more) are history.

**HttpClient.** `net` is the network thread in `networkThread`, `alone` each
`networkThreadAlone` task, `call` and `frame` the cocos thread; `functions` and
`taken` are the two vectors of `Scheduler::runFunctionsToBePerformedInCocosThread`,
whose 16 ms may end anywhere (`PutBack`). `threadCount` and `deleted` are the use
count and the client's memory; `posted` and `ran` are history. A thread that
starts after the client was deleted is `undefined` and does nothing more: the code
has no defence (see 5).

**DownloaderCURL.** The queues, the map with the process set (they change
together except while a finished task is `moving`), and the handle of the thread
(`joinable`) each change in actions of their own, as they have a mutex each.
`onSchedule` is split at the take, the test and every call-back. `storagePaths`,
`path` and `writing` are the reservation of files: `Release`, the destructor of a
task, frees its path whoever holds it.

**AssetsManagerEx.** A file and a manifest are the version they belong to, and
every asset changes with every version, so that each file of an update matters.
One action per answer of the downloader (`VersionDone`, `ManifestDone`,
`FileDone`, each with the possible outcomes), per call of the game, and per step
of the two tasks that write several files (`prepareUpdateAsync`, `updateSucceed`).
`disk` is what outlives the process; `Restart` ends it anywhere and runs
`initManifests`. `remote`, `temp` and `aliased` keep the identity of the manifest
objects: after a new download is prepared the temporary manifest *is* the remote
one, and parsing one changes both; a parsed document without an `updating` flag
leaves the old one in the object (`Parsed`). `entry` is `_updateEntry`. `saveManifest`
at 10 % steps is a save that may happen or not. `downloadFailedAssets` is three
actions, since an empty list ends the update at once (`DownloadNoAssets`,
`DownloadUpToDate`). An error of the manifest is dispatched before the state is set:
in `phase` "told" the game's handler runs and may call, and `HandlerReturns` sets the
state. `spoiled` is history: the first of the four known troubles (below) that the
manager has met, or none.

### Assumptions on the environment

* `MessageQueue` is single-producer, and its `User` messages follow the argument
  blocks they carry (the `ENQUEUE_MESSAGE` macros and the agents do that).
  `setImmediateMode` is called between messages and while no consumer thread runs
  (`DeviceAgent::setMultithreaded` joins it first); it need not meet a drained queue.
  The destructor does: what is left in a queue that is destroyed undrained is not
  modelled (see 5).
* `DeviceAgent`: a pipeline flushes what it recorded before `present`; each list
  passed to `flushCommands` holds a command buffer once; the device is destroyed
  last; the loop is the one without XR. A staged buffer is neither resized nor
  destroyed while an update of it is recorded and not flushed (`MayChange`): the
  memory would be given back by the main queue before the command queue copies
  from it, and nothing in the code prevents it (see 5).
* `LegacyThreadPool` is called by the cocos thread alone, as `ThreadPool.h`
  requires, and its destructor by the same thread.
* `Scheduler`: call-backs call the timer operations only; `update` is not called
  from within itself. The C++ standard says that a rehash invalidates the iterator
  of `update`; in the libraries the engine is built with (libstdc++, libc++, MSVC) it
  points to its entry, and the model has it stay there. That it is undefined is
  recorded as a hazard, and no theorem says more than this convention gives.
* `HttpClient`: the engine is destroyed between frames and once. That
  `Engine::close` drops pending functions too is the same step in the model.
* `DownloaderCURL`: one Impl; a thread that was detached keeps it alive. The last
  owner's release may run on the network thread; the model does not say which
  thread it is.
* `AssetsManagerEx`: `downloadFailedAssets` is not called while an answer or the
  pool's thread is awaited (`Busy`; in `UPDATING` it does nothing), and the handler of
  an error makes at most one call that is let in and returns. A call after an
  installed update meets no remote manifest and ends the process; it is left out.
* A failed assertion ends the program; builds that compile assertions out are not
  modelled.
* Memory orders: steps are interleaved. The queue's plain fields are handed over
  by one atomic, added to with release and read with acquire order, and what a
  sleeper must see is ordered by the mutex, so that the weaker orders add no
  behaviour; the flags of the thread pool are sequentially consistent.

## 3. Runs

| Run | Question | Instance |
|---|---|---|
| `queue` | are messages ordered, counted, alive when read; are chunks given back; do waits drain; is any wake-up lost; do the chunks implement `FifoChannel`? | 3 chunks of 6 slots (3 reserved), messages of 1 and blocks of 2, counters modulo 5, 7 messages |
| `chunk_pool` | do three threads keep ownership and count without a lock? | 3 threads, 5 chunks, capacity 2, counter modulo 16 |
| `stash_single_flush` | is the shared stash safe with flushes of one command buffer? | 3 queues, 4 chunks, 4 unread messages per queue |
| `agent` | are two staging slots and one frame of head start enough, also when buffers are resized and destroyed; do flushes of one to three command buffers, in parallel too, execute exactly theirs on actors that exist; does every blocking call return? | 3 frames of 2 calls, 3 command buffers, 3 job threads, 1 staged buffer, 1 resize |
| `pool` | is a task ever lost, duplicated or run after removal; is the minimum of threads kept; is every task run; does every call return, does the destructor drain? | 1 to 2 threads, steps of 2, 2 tasks, 2 other calls |
| `scheduler` | are timers alive while used and freed then, are they called as often as asked; does the iterator survive call-backs that insert and remove; is a timer updated once a frame, and what are the only ways to miss one; does a frame end? | 3 targets, 2 keys, 3 timers at a time: for every frame, for one, and a delayed one with a repeat; rehashes |
| `scheduler_every_frame` | is every timer updated in every frame? (violated by the double advance) | 2 targets: no other entry to rearrange |
| `downloader` | is a task lost or delivered twice, a file written twice, the timer asleep too early? | 2 paths, 1 transfer at a time, 3 tasks, destruction |
| `downloader_lost` | is every task delivered? (violated, see below) | 1 task |
| `http` | does the client live as long as its users, and are requests answered in order? | 3 requests, queued and immediate |
| `assets_update` | is an update atomic and resumable, is every unit accounted for; does an update end, and is a call answered, if the server's answers come? | 2 assets, 3 versions, 1 transfer at a time, cancels, rechecks, early retries, crashes |
| `assets_cancel` | are the files those of the manifest? (violated, see below) | 2 assets, 2 versions; only cancels |

Nine runs pass; the three that expect a violation show something the repository says
and the code does not do. Further instances of that kind are kept beside them, each with
one property that does not hold and is started in the same way, as in
`tlc -config MCAssetsStuck.cfg MCAssetsManagerEx`:

| Configuration | Property | Of |
|---|---|---|
| `MCMessageQueueImmediate.cfg` | `SwitchReadsTwo` | `MCMessageQueue` |
| `MCChunkStashSeveral.cfg` | `ReadsLive` | `MCChunkStash` |
| `MCLegacyThreadPoolSifted.cfg` | `DestructorWaits` | `MCLegacyThreadPool` |
| `MCSchedulerRehash.cfg` | `UpdatedEveryFrame` | `MCScheduler` |
| `MCDownloaderFile.cfg` | `OneTaskPerFile` | `MCDownloaderCURL` |
| `MCAssetsUnfetched.cfg`, `MCAssetsRecheck.cfg` | `FilesMatchManifest` | `MCAssetsManagerEx` |
| `MCAssetsStuck.cfg` | `CheckLetsUpdate` | `MCAssetsManagerEx` |

*Conjunctions.* Some properties are a conjunction of facts that belong together:
`NoWakeUpLost` (what is published is taken, and a waiting producer comes
back), `ChunksApart` (no unread message loses its chunk and no
two queues write into one), `FramesApart`, `LifeInStep`, `PoolAccount`, `TimersInv`,
`ClientLife`, `AnswersInOrder`, `TasksAccounted`, `UnitsInv`, `UpdateReturns`.
The parts have names and comments of their own in the modules. The type
invariants of `MessageQueue` and `MemoryAllocator` are proved and not run.

*Why the bounds are enough.* In `queue` three slots are left to use in a
chunk, so that every second or third allocation changes chunks, chunks are
stashed, freed and entered again, and the counters wrap; three chunks let one be
written, one be read and one be stashed at a time, and `Bound` only keeps the
heap from being exhausted and the counters from lapping each other (2^32 unread
messages of at least 16 bytes do not fit in memory). In `agent` a slot is
reused in the third frame. `chunk_pool` needs two threads between check and count
to overfill the pool and one that takes a chunk before it is counted. The pool
needs one thread beyond its minimum to choose from and two tasks for a notified
worker to find its task gone; what holds of more is proved. The scheduler needs a
target before and one behind the visited one, and two timers in a list for an index
to be wrong; three timers at a time let the running one be freed and its place be
taken; a rehash matters from a third target on, that is neither visited nor inserted.
In `scheduler_every_frame` there are two, so that no other entry is rearranged and the
double advance alone is shown. The downloader needs a third task to
free a path under the second one. An update needs two assets for one to fail, and
a third version for one that is published while the second is downloaded.
Every property is also shown to depend on the code: for each there is
a plausible slip (a dropped guard, a reset forgotten, an order swapped) written
next to the definition it would replace as "the faulty form", under which the
same instance violates it. No action of the specifications uses a faulty form.

*Deadlock* is not checked where the system may stop: a bound is reached, the
device, the pool, the client or the downloader is gone, or everybody waits for a
call that need not come. That nobody waits in vain is what the liveness
properties say. `chunk_pool` and `scheduler` never stop and are checked for it.

*Fairness.* Weak fairness of a thread that can take a step: the operating system
schedules it again. `MessageQueue` and `DeviceAgent` need no more: the consumer
that keeps the mutex from the producer by one spurious wake-up after the other
looks at the counters each time, and so takes what the producer has published.
In `LegacyThreadPool` several workers contend for one
mutex, and a thread that waits for it gets strong fairness: whoever asks for a
mutex that is free again and again is served in the end. In `Scheduler` only
`update` itself is fair, and that call-backs return; in `HttpClient` a frame may
run out of its 16 ms before it has called one function, but not forever
(strong fairness of `RunFunction`), and transfers end, as curl's time limits
make them; likewise a transfer of the downloader (strong fairness of
`TransferDone`, because the loop passes through other steps in between). In
`AssetsManagerEx` pool tasks end and handlers return. That a request to the server is
answered is no fairness of the specification, since `downloader_lost` shows it not to
be a fact; it is a hypothesis (`Answered`) inside the properties that need it. Nothing
obliges the game to call, and no spurious wake-up ever has to happen.

### What the runs found

* **`flushCommands` with more than one command buffer** (`MCChunkStashSeveral.cfg`).
  `CommandBufferAgent::flushCommands` goes through an array that
  `DeviceAgent::flushCommands` allocated from the main queue, while it executes the
  command queues. If the message behind the array did not fit, the array lies in a
  chunk the main queue has left and stashed, and the first command buffer's
  `FreeChunksInFreeQueue` message frees it before the second position is read.
  The pipelines of the engine pass one command buffer at a time, and for that
  `stash_single_flush` holds.
* **Immediate mode over recorded messages** (`MCMessageQueueImmediate.cfg`). `setImmediateMode`
  assigns, and `DeviceAgent::setMultithreaded(false)` calls it for command queues that
  it did not drain; the next chunk switch finds more than its own two messages and its
  assertion fails. `setMultithreaded` is public, and the engine calls it only when it
  starts, with `true`.
* **The destructor of the thread pool deletes a task** (`MCLegacyThreadPoolSifted.cfg`).
  `stopTasksByType` pops all tasks and pushes those of other types again without a
  notification. A worker that was notified in between finds nothing and sleeps, or
  ends when `stop` comes first; the task waits for the next push and is deleted by
  `stop`. `StopDrains` and `TaskRuns` say that this is the only way (`sifted`). No
  caller of `stopTasksByType` exists in the repository.
* **`update` misses a timer** (`scheduler_every_frame`, `MCSchedulerRehash.cfg`). A target
  that loses its last timer while it is visited makes the iterator advance twice; a
  call-back that schedules for a new target may make the map rearrange its entries
  under the iterator. `FrameUpdatesAll` and `UpdatedOnce` say that there is no third
  way (`skipped`, `again`).
* **Two tasks of the downloader write one file** (`MCDownloaderFile.cfg`). The destructor
  of a task that had been refused for a path, or had finished with it, erases the path
  from the set although another task writes there. `OneWriter` says that this is the
  only way (`freedByOther`).
* **The downloader's timer goes to sleep on a finished task** (`downloader_lost`).
  `onSchedule` takes the finished tasks, and then pauses the timer if the thread
  has stopped. A task that finishes in between stays where it is until another one
  is created. `FinishedDelivered` states what does hold: there is no other way
  to be stuck.
* **An update is installed without its files.** `onDownloadUnitsFinished` takes an
  update without failed units for a successful one. It is reached when an update is
  cancelled with units in the queue (`assets_cancel`), when `downloadFailedAssets` is
  called before any file was tried (`MCAssetsUnfetched.cfg`), and when `checkUpdate` after a
  failed update parses the manifest into the object that update still uses, which
  then looks resumable and has no units left (`MCAssetsRecheck.cfg`).
* **`checkUpdate` locks the manager** (`MCAssetsStuck.cfg`). An error of the manifest is
  dispatched before the state changes; a `checkUpdate` from its handler sets
  `_updateEntry` in a state it has no case for, and nothing resets it any more. So does
  one with an update ready. `CallAnswered`, a part of `UpdateReturns`, is about the
  calls that something is under way for.

Exempted from a property that is otherwise right and not shown by an instance of its own:

* a process that ends while `updateSucceed` moves files leaves two versions mixed
  (`"crashed"` in `UpdateAtomic`);
* a thread or pool task of `HttpClient` that starts only after the client was
  deleted touches freed memory (`"undefined"`).

## 4. Proofs

For every value of the constants, not only those of the runs:

| Module | Theorems | For every |
|---|---|---|
| `MessageQueueProofs` | `TypeCorrect`, `CountersCorrect`, `FifoCorrect`, `NoLinkRaceCorrect`, `MemoryLiveCorrect`, `NoChunkLostCorrect`, `WaitDrainsCorrect`, `NobodyWaitsInVainCorrect`, `ChannelCorrect` | number and size of chunks and messages, counter width, bound |
| `ChunkProofs` | `OneOwnerCorrect`, `CountAgreesCorrect`, `PoolBoundedCorrect` | number of threads and chunks, capacity |
| | `ReadsLiveCorrect`, `ChunksApartCorrect` | number of queues and chunks, depth of the queues; flushes of one command buffer |
| `DeviceAgentProofs` | `FramesApartCorrect`, `FlushExactCorrect`, `LifeInStepCorrect` | number of buffers, command buffers, frames, frames ahead, job threads; any lists of command buffers |
| `LegacyThreadPoolProofs` | `PoolAccountCorrect`, `StopDrainsCorrect` | number of threads and tasks, steps of growing and shrinking |
| `SchedulerProofs` | `TimersInvCorrect`, `IteratorValidCorrect`, `FrameUpdatesAllCorrect`, `UpdatedOnceCorrect` | number of targets, keys and timers, any intervals, delays and repeats |
| `HttpClientProofs` | `ClientLifeCorrect`, `NoStrayFunctionCorrect`, `AnswersInOrderCorrect` | number of requests, with and without destruction |
| `DownloaderCURLProofs` | `TasksAccountedCorrect`, `PausedAtRestCorrect`, `OneWriterCorrect` | number of tasks and paths, limit of transfers, with and without destruction |
| `AssetsManagerExProofs` | `UpdateAtomicCorrect`, `ResumeSoundCorrect`, `UnitsInvCorrect`, `QuietFilesMatch` | number of assets, versions and concurrent downloads |

Every safety and action property of the passing runs is among them.

*Assumptions* are the named `ASSUME`s of the modules, and TLC evaluates them in the
runs: that a dummy, a switch message and the largest request fit in a chunk
(`SlotAssumption`: `CC_ASSERT(alignedSize + SWITCH_CHUNK_MEMORY_REQUIREMENT <=
MEMORY_CHUNK_SIZE)`), that counters are wider than what they have to tell apart
(`CountAssumption`, `CapacityAssumption`), that a null chunk is no chunk, that sets of
threads are finite, that the pool's bounds are ordered (`ThreadNumAssumption`), and
that a flush does not list a command buffer twice (`CmdBuffAssumption`).

None of the properties is inductive by itself. What each invariant adds:

**The queue** (`MessageQueueInv`), in layers, each proved from those below:

1. `CountInv`: the wrapped counters are the remainders of true counts, and fewer than
   `W` messages are unread. The difference modulo `W` then is the true difference
   (`ModDistance`), which gives `CountersAgree`.
   Immediate mode and a consumer thread exclude each other (`ModesExclusive`).
2. `ChainInv`: from the reader's last message the links lead through all unread
   messages to the writer's last, whose link is the next free slot. It needs that
   nothing is placed over the chain (`Disjoint`), that its chunks are not free
   (`Owned`), and that behind a switch message the chain never comes back to the
   chunk left (`SwitchesLeave`): otherwise stashing that chunk would break
   `Owned`. `Fifo` is the chain's first element, and `NoLinkRace` follows because
   a reader with a new message stands before the writer's last one. The refinement
   mapping walks along the links; the chain says that it visits the ranks between
   the counters in order, and so every step is one of the channel or a stutter.
3. `DataInv`: no `Free` message before the i-th frees a chunk with the i-th
   message's argument blocks (`SafeBefore`), because a block's chunk is in use
   until a switch message behind it executes. It needs that nothing is kicked
   between a block and its message. `MemoryLive` follows from 2 and 3.
4. `AccountInv`: a chunk is in use if and only if it is the writer's, or an
   unexecuted switch message will give it back. `NoChunkLost` is the case in which
   nothing is unexecuted.
5. `BlockInv`: the message a producer waits for is the last one, and is signalled only
   when all was executed. `WaitDrains` follows. While no consumer runs nothing unread
   lies in a stashed chunk (`DetachedUsed`): messages may be left from before immediate
   mode, and `FreeChunksInFreeQueue`, executed on the caller's stack, must not take
   what they point to. It needs 5, and 3 needs it, so that layers 1, 2, 3 and 5 are
   proved inductive together (`MemoryInv`).
6. `WakeInv`: the consumer holds the mutex exactly from its test to its sleep and has
   then taken everything published, and kick notifies under the mutex; what a producer
   waits for is still unexecuted. With 5 this gives `NobodyWaitsInVain`, the safety core
   of `NoWakeUpLost`: a sleeping consumer with something to take is about to be notified,
   and a waiting producer faces a consumer that is awake and has its message before it.
   Only that scheduled threads then get there is left to TLC.

**The allocator.** `CountAgrees` and `OneOwner` are inductive with the types.
`PoolBounded` is not: a thread that has passed the test of the counter will still
enqueue. `PoolRoom` counts those threads in, and the test then bounds them, because a
counter below the capacity that agrees with the pool modulo `W` leaves room for all
threads but one.

**The agents.** `Frames`: the semaphore and the frames begun add up to those presented
and the head start, and the presents in the main queue are in order. `Flushes`: every
flush has a message in the main queue and a `Finish` in the queue of each command
buffer it lists, in the same order on both sides, so that what stands before
the `Finish` is what the flush is to execute. `Staging`: no message ahead of an update
can take its data; an update that no flush has picked up is of the frame being
recorded and of the memory the buffer has now. The slot of an update is reused
only `MAX_CPU_FRAME_AHEAD + 1` frames later, which `Frames` excludes. `Waits`: who
waits finds the main queue empty when the event is signalled. `Lives`: a
command buffer that a flush lists has a live agent, and its actor is ready or its
initialisation is further ahead in the main queue than the flush; its destruction is behind.

**The shared stash.** `ReadsLive` holds when a flush lists one command buffer
(`Single`, the theorems' assumption), and `MCChunkStashSeveral.cfg` shows that it does
not hold otherwise. A queue *holds* its current chunk and those that its switch messages
leave, and `Leaving` says that a held chunk is in use and is left by one message of one
queue. So a message (`Lying`) and what it points to (`Pointing`) are safe while the
queue holds their chunk from there on. Three reads come after the chunk was left: the
link of a switch message, and the argument block of the message behind a dummy, in that
message's place or in execution. For these the chunk is stashed and not yet freed, since
no other queue runs between the switch and the read: `Running` names the one queue that
is read (`OneRuns`). That there is one is due to `Single`: with it `Device` says that a
flush has one position, and otherwise the array is read again after a queue has run.

**The thread pool.** `Workers`, `Counts` and `Chosen` relate the flags, the two atomic
counts and where each thread stands, also while `tryShrinkPool` picks threads that
become busy under its hands. `Account`: the six places a task can be in (queued, put
aside by `stopTasksByType`, held, being pushed, executed, removed) partition the tasks
pushed. `NoWakeUpMissed`: if nobody is on the way to the queue, it holds at most what
was put back without a notification. `StopDrains` is its value when all have left.

**The HTTP client.** `Counted`: the use count is who has come and not left, of the
cocos thread, the network thread and the tasks in the pool. `Working`: who is at work
has come. `Quiet`: from `destroyInstance` on nothing is posted. `AnswersInOrder` needs
where every request is (`OrderInv`): what was posted has run or is pending, in the two
vectors of the scheduler, in one order, whenever the 16 ms end (`PostedInv`); an
immediate request is pending once, and not after its answer (`PendingInv`); the queued
ones stand in a line, those answered before the responses, these before the one being
processed and that before the request queue (`LineInv`), from which none falls out
before the queues are cleared at the end (`EndInv`).

**The scheduler.** `Core` holds each list of timers against what the walk has done.
`RefsInv`: a timer's count is one while a list or, when salvaged, the walk holds it.
`CurrentInv`: the running timer is in the list that is visited unless it was salvaged.
`WalkInv` and `PlaceInv`: behind the iterator and below the index nothing is due, ahead
and above nothing was updated; insertions and removals move the index so that
this stays true. The targets that a rehash or the double advance moves across the
iterator are in `again` and `skipped`, and the invariant says that they are the only
exceptions. None of this depends on how often the map grows (`most`).
`FrameUpdatesAll` is its value when the walk is over, and `UpdatedOnce` follows because
the timer that is next has not been updated. `FieldsInv`
adds what timers say themselves: keys are unique in a list, and a call-back runs when
its interval has elapsed.

**The downloader.** `OnePlace` is nearly inductive; what is missing is that no finished
tasks are in hand when new ones are taken, and that a task is moving exactly between
leaving curl and being queued. `Attached` says so, and that the handle is attached
exactly while the thread lives, until the downloader is destroyed: a thread about to
end has nothing left, and so the timer, which looks at the handle, may sleep. `OneWriter`
needs `Reserved`: the path of an open file is in the set of reserved ones, or was freed
by a task that was not the one writing.

**The asset manager.** In four layers. The types, with where an update stands seen
from its state and from its phase (`PhaseInv`), and how the manifest objects relate
(`ManifestInv`: the temporary manifest of an update that goes on is of the version
being installed, and may be the remote one). `VersionInv`: no version is newer
than the server's, only an older one is updated, and a manifest is kept for an update or
for its failed files. Then `MemorySound`: what the manifest in
memory says need not be downloaded is in the temporary directory, so that each save of
it keeps `ResumeSound` whichever step the process ends after. Last `AtomicInv`: where
nothing has put the update at risk, all assets but the missing ones are in the temporary
directory in the new version (`Arrived`), and while they are moved each is either there
or in the storage; with `LocalInv`, that a restart takes the manifest that fits,
`UpdateAtomic` follows. `QuietFilesMatch` says that a violation of `FilesMatchManifest`
needs a cancellation, a retry with nothing failed, a second check after a failure, or
the end of the process, and that downloads that fail and their retries are no cause.

*Only model-checked:* the liveness properties (`NoWakeUpLost`, `CallReturns`, `TaskRuns`,
`PoolCallReturns`, `FrameEnds`, `FinishedDelivered`, `EveryRequestAnswered`,
`DestroyedGoesAway`, `UpdateReturns`), as liveness under fairness and `ENABLED` are out of
the prover's reach, and what the runs that expect a violation show.

## 5. Not modelled

Back ends, bindings, platform, vendored, physics, math and animation code, which
is most of the repository: translations to foreign interfaces, generated or
numeric code. Logging, names and reporting in all modelled parts.
`MemoryAllocator::destroy`, which runs when the process ends. Below the level of
the models: the lifetimes of C++ temporaries and the memory orders inside the
vendored lock-free queue. Of modelled components:

* `DeviceAgent`: the XR loop, `setMultithreaded` at run time, query pools.
* `Scheduler`: `unscheduleAll`, scheduling with a paused target, an `update` from
  within `update`.
* `HttpClient`: cookies, time-outs, a second client after the first.
* `DownloaderCURL`: progress, the header phase, tasks that deliver data, errors of
  curl's multi interface.
* `AssetsManagerEx`: decompression, verification call-backs, assets that a version
  deletes or leaves unchanged, sizes and progress.

Hazards that no property covers and that `hazards` does not list:

* `ThreadPool::stop` (`cocos/base/threading/ThreadPool.cpp:72`) wakes workers whose
  predicate does not look at `_running`: an idle one is never joined. Nothing in the
  repository starts this pool.
* `AudioCache.cpp:67`: the destructor waits for a decoding task by polling.
* `MQ.cpp:90`: `destroy` frees one chunk of the pool.
* `DeviceAgent.cpp:425`: query results are copied before the message that fetches
  them executes; `:442`: the XR semaphore starts at 0; `:173`: queues change to
  immediate mode one after the other.
* `BufferAgent.cpp:85`: resizing or destroying a buffer with an update recorded and
  not flushed (excluded by `MayChange`); `:122`: two updates of a buffer in one
  frame share a slot.
* `TBBJobGraph.h:98`: a job refers to a functor that is gone.
* `MQ.cpp:277`: a queue that is destroyed with messages in it recycles only its
  writer's chunk, and the others are lost.
* `Downloader-curl.cpp:413`: the network thread takes its share of the Impl when it
  starts, so that one that starts late finds none; `:563`: the limit of transfers is
  compared with a size taken before the loop; `:739`: a file that cannot be renamed
  keeps its path reserved until its task is destroyed.
* `HttpClient.cpp:125`: requests thrown away at the end are not released.
* `Scheduler.cpp:97`: a timer that unschedules itself is called again if the frame
  holds several of its intervals and its target keeps other timers; `:121`: `cancel`
  goes by key and so may take a timer that was scheduled in its place; `:373`: an
  `update` from within `update` shares its iterator.
* `AssetsManagerEx.cpp:528`: a decompression that ends after the manager was
  destroyed; `:734`: an update without differences is installed in the pool's thread.

## 6. Plan

Done: `MessageQueue` with its abstract channel, `MemoryAllocator`, `ChunkStash`,
`DeviceAgent`, `LegacyThreadPool`, `Scheduler`, `HttpClient`, `DownloaderCURL` and
`AssetsManagerEx`, each with proofs of its safety properties.

Theorems that are left: that `DeviceAgent` stays correct when its sequences are replaced
by `MessageQueue` (composition with `ChannelCorrect`); abstract specifications of the
thread pool and the downloader, shown to be implemented.

Models that are left, most important first:

1. `AudioCache`: the decoding task against playing and destruction.
2. `EventBus` and `EventTarget`: listeners changed during a broadcast.
3. `DeviceAgent`: the XR frame boundary, query pools.
4. `ThreadSafeLinearAllocator`, and `stop` of `ThreadPool`.
5. The engine's life cycle, and the culling of the frame graph as a pure algorithm.
