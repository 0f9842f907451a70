# Models of reflaxe.rust

reflaxe.rust compiles Haxe to Rust.  This directory holds TLA+ models of the three parts of
the repository that several actors work on at once, or that have to survive a failure half
way, and machine-checked proofs about them:

* the **threading runtime** that compiled programs use: the crate `hxrt` (`runtime/hxrt`) and the
  Haxe overrides of `sys.thread` (`std/rust/_std`);
* the **reviewed Cargo graph**: the commands that observe, review, publish and check the
  dependencies of generated code, the Rust toolchain policy and the packaged native helper
  (`scripts/ci`, `tools/support-crate-admission-helper`), on one checkout that people and jobs
  share;
* the **release**: the jobs that derive, build, verify, tag and publish a package, and repair
  what a failed one left (`scripts/release`).

Contents: [inventory](#inventory), [modules](#modules), [state and code](#state-and-code),
[runs](#runs), [bounds](#bounds), [fairness](#fairness), [proofs](#proofs),
[where the code and its documentation part](#where-the-code-and-its-documentation-part),
[what is not modelled](#what-is-not-modelled), [how to extend](#how-to-extend).

To check: `tlc -config Handles.cfg Handles` and so on for each row of [runs](#runs);
`tlapm Handles_proofs.tla` for each module of [proofs](#proofs).

## Inventory

| Component | State | Operations | Interacts with |
|---|---|---|---|
| Counting lock, semaphore (`thread.rs` 485-757) | an `i32` count, one condition variable | wait, timed wait, release; acquire, tryAcquire with and without timeout | Deque, ElasticThreadPool, EntryPoint |
| Re-entrant mutex (`thread.rs` 546-617) | owner, depth, condition variable | acquire, tryAcquire, release | Deque, pools, EntryPoint |
| Condition (`thread.rs` 619-699) | holder, generation, two condition variables | acquire, tryAcquire, release, wait, signal, broadcast | user code |
| Thread registry, messages (`thread.rs` 60-239) | `THREADS`, `NEXT_THREAD_ID`, the thread-local id, a queue and its condition variable per thread | create, sendMessage, readMessage, the registration guard | event loop; threads started elsewhere |
| Event loop (`thread.rs` 241-483) | one-shot queue, sorted timers, promise count, condition variable per thread | promise, run, runPromised, repeat, cancel, progress, wait, loop | the registry; callbacks post to their own loop |
| `sys.thread.Deque` | an array, a Mutex, a Lock that counts | add, push, pop | pools, EntryPoint |
| `FixedThreadPool` | flag, deque, workers | run, shutdown, worker loop | Deque |
| `ElasticThreadPool` | flag, workers with task, dead, isShutdown, Lock and deathMutex each, overflow deque | run, shutdown, wakeup, worker loop | Deque, Lock, Mutex |
| Publication lock (`fresh-cargo-resolution.js` 479-620) | a lock file, a reclaim lock file | acquire, reclaim from a dead owner, release | every command of the reviewed graph |
| Publication journal (the same file) | the baseline, its staged and its previous copy, a journal | recover, check, write | the lock |
| Reviewed graph (the same file, `run-reviewed-generated-cargo.js`) | manifest, lock and metadata per case; candidates in a directory | observe, classify, verify, admit, gates, generated-crate runner | toolchain policy, Cargo's registry, the journal |
| Toolchain policy (`rust-toolchain-policy.js`) | the manifest, three generated files, the files kept by hand | validate, check, `--write` | the reviewed graph, the helper |
| Helper package (`support-crate-admission-helper/build.js`) | binary, inventory, provenance, notices, digest in the locator; build directories | build, `--check` | the policy, Cargo |
| Release source (`exact-git-source.js`, `reviewed-source.js`, `package-input-cleanliness.js`) | the job's repository | bootstrap, assert, read a commit | the job |
| Release policy (`release-policy.js`, `semantic-release-policy.cjs`) | none | derive a version, allow or veto it | the job |
| Release archive (`package-haxelib.sh`, `vendor-reflaxe-provenance.js`, `generate-license-artifacts.js`, `deterministic-zip.js`, `prepare-package-metadata.js`, `verify-release-artifact.js`) | none | stage, write, read back, verify | the job |
| Release and repair jobs (`haxelib-artifact-plugin.cjs`, `published-verifier-plugin.cjs`, `repair-release.js`, `release-provenance.js`) | the files of the job, tags, hosted releases | derive, build, smoke, tag, approve, draft, upload, publish, repair | all of the above, git, GitHub |
| `haxe.EntryPoint`, `haxe.MainLoop` | pending deque, wakeup lock, thread count; linked list of events | runInMainThread, addThread, run; add, stop, delay, tick | Deque, Lock, Mutex, Thread |
| `rust.concurrent`, `rust.async` | channels, join handles, locks with a re-entrancy stack; task handles over an executor | send, recv, tryRecv, spawn, join, withRef, withMut | user callbacks; tokio |
| Exceptions, cells | thread-local id, payload, depth; a `RwLock` per Haxe object | throw, catch, rethrow; borrow | all generated code |
| Processes, sockets, TLS, files, databases | OS handles in cells | calls with error mapping | guards held over blocking calls |
| Values, library overrides | sequential data | conversions | |
| Compiler (`src/reflaxe/rust`) | typed trees, tables, plans | lowering, passes, analyses, emission, admission of support crates | the native helper |
| Checks, documentation scripts, CI | files read once | compare, render | external processes |

What is hard here:

* in the runtime, sleepers that are notified, time out or are overtaken at the same moment; posts
  that arrive between a look at the state and the sleep that relies on it; callbacks that run with
  the state unlocked and change it; threads that end, throw or cannot be started; workers that time
  out while they are given work; shutdown against late work;
* in the publication, processes that share nothing but files and may die between any two system
  calls; locks left by the dead; two renames that are not atomic together;
* in the upkeep of the graph, inputs that people edit, a registry that moves and files that other
  commands replace between the moment a command reads them and the moment it relies on them;
* in the release, a job that is killed or fails after its tag is pushed, after its draft is created or
  after half of its uploads, files of the job that its tools change, and the repair of all that
  without ever altering what is published.

What makes each part correct:

* lock, semaphore, mutex, condition and deque are what their names say (the abstract modules below),
  and no release, signal or unlock is left under threads that sleep;
* the registry holds exactly the threads whose scope is open; readers do not sleep over messages;
  messages of one sender stay in order;
* the event loop never sleeps on ready work or with nothing to wake it; a callback is called at most
  once and, if accepted, in the end; a timer fires; a cancelled one is not called again;
* a pool runs a task at most once; a task that a worker was given is run whatever the worker does at
  that moment; shutdown ends every worker;
* the baseline is one register, changed only by a compare-and-swap under the lock, whole or
  recoverable at every moment; what it holds was observed as a whole; a report of drift names every
  difference; no checksum changes under an unchanged version;
* a published release is made of the reviewed commit its tag names, and never changes; versions grow
  along main as the policy of their own commits allows; a tag does not stay without its release.

`PROJECT.json` lists under `hazards` each place in the code where one of these could break, at its
line, with the properties that would catch it.

## Modules

`map` in `PROJECT.json` ties every definition to its lines.  Names are the code's where possible.

| Module | Models | Abstract module it implements |
|---|---|---|
| `CountingLock` | `LockHandle` and `SemaphoreHandle`; `lockKind` says which and never changes | `TokenCounter`: tokens and blocked threads |
| `ReentrantMutex` | `MutexHandle` | `RecursiveLock`: how often each thread holds it |
| `ConditionVar` | `ConditionHandle` | `Monitor`: holder, entering, asleep |
| `Handles` | the three beside each other; a behaviour is about one (`subject`); `OsThreads` declares the threads | all three |
| `EventLoop` (`MCEventLoop` adds the symmetry) | the loop of one thread: its owner, its callbacks, other threads that post | |
| `ThreadRegistry` | registry and message queues of all threads | |
| `Deque` | `sys.thread.Deque`, on a lock that is a `TokenCounter` and a mutex that excludes | `BlockingDeque` |
| `FixedThreadPool` | clients and workers, on a deque that is a `BlockingDeque` | |
| `DequePool` | the two beside each other, one `subject` per behaviour | `BlockingDeque` |
| `ElasticThreadPool` | clients and workers, field by field, on the same abstractions | |
| `PublicationLock` | the lock file and the reclaim lock file, one action per system call | |
| `BaselinePublication` | the journal and the directories, under `PublicationLock` | `BaselineRegister`: one value and compare-and-swap |
| `CargoGraph` | Cargo's lock and metadata: parsing, the normal form, the comparison | |
| `ToolchainPolicy` | the policy, what is generated from it, every file kept by hand that has to agree with it: Cargo manifests and the workspace's, the compiler's lists, the workflows with the jobs of each lane, the scripts and workflows under contract, the facts the documents state | |
| `ReviewedGraph` | the checkout, the manifest of the graph, its checks, the classification of a candidate | |
| `Admission` | observers, admissions (of any digest somebody names) and gates, on `ReviewedGraph` | |
| `HelperPackage` | build and check of the helper in the directory all builds of a kind share; synchronisation of the generated files | |
| `Upkeep` (`MCUpkeep` gives the instance) | everything on one checkout, side by side | |
| `ExactGitSource` | a repository, what is asserted of it, the files of a commit | |
| `ReleasePolicy` | the next version and whether it may be released | |
| `ReleaseArchive` | staging (which file goes where, which overlays which, what is pruned), the archive with its two directories, all of its verification | |
| `ReleaseJob` (`MCReleaseJob` gives the instance) | release and repair jobs, the host, failures and faults; uses the three above | `ReleaseLedger`: tags and published contents never change |

The components are composed through their abstractions where one exists: `Deque` uses the lock and
the mutex as what `CountingLock` and `ReentrantMutex` are shown to implement, the pools use the
deque as what `Deque` implements, and `Upkeep` replaces the baseline in the one step that
`BaselinePublication` is shown to implement.  That keeps the steps that matter at each level and
nothing below.

Definitions marked `Mutated:`, and the ones `PROJECT.json` names under `mutants`, are plausible
mistakes in the definition that follows them.  No model uses them: with one of them in place of the
original, the property it is paired with is violated.

## State and code

Runtime.  A critical section of a `parking_lot` mutex is one step; what lies between two of them is
where others interleave.  A condition variable is the set of its sleepers: notify moves one of them
(any) to "notified", and it runs again only in a later step, when it has the mutex back, so that
newcomers may overtake it.  `parking_lot` has no spurious wakeups and the models have none.

* `CountingLock`: `count` is the handle's; the places of a thread say who is parked or notified and
  stand for the local `remaining` and `timed_out`.  A timeout may expire whenever it is the turn of
  a timed sleeper; durations are not modelled.
* `EventLoop`: `oneTime`, `promised`, `regular` are `EventLoopState`; `pc`, `due`, `shots`, `seen`,
  `deadline` are the owner's place in `loop`, `progress` and `wait` and their locals; `call` is the
  post a caller is in after it found the loop.  `fate` and `timer` are history, read by properties and
  by no guard but "each task is posted once" and "a handle is known once the timer was made".  The clock
  counts milliseconds.
* `ThreadRegistry`: `registry` is `THREADS`, `queue` is the queue of each `ThreadState`, which a
  sender that found it keeps alive after the thread has left the registry.
* `Deque`: an insertion is two steps (33-38), the element and its announcement; a pop is two (59-69).
* `ElasticThreadPool`: `task`, `dead`, `told`, `tokens` are the fields of `Worker`, `pc` its thread;
  `holder` has the pool's mutex; `at`, `arg`, `index` are the locals of `run` and `shutdown`;
  `announced` counts the deque's elements whose `add` is over.

Publication.  One action per call of the file system that another process or a crash could come
before or after: create, write, read, rename, remove.  A process is its pid, which a later process may
have again; a crash forgets its locals and leaves its files.  A directory is a version and whether
all its files are there.

Upkeep.  A command is a record of what it has read so far and a place; it is cut where another
command, an editor, the registry or a death can come between.  What it reads in one go (a check that
loads its files and compares them) is one step.  The helper's build is cut where another build in the
same directory can come between: the removal (`HelperEmpty`), what Haxe reads and what it writes, the
copy of the lock, what Cargo reads and what it links, the read of the binary, the inventory, the record
(`build.js` 379-401).  `touched` remembers of a check whether someone wrote to the files it reads
(`"files"`) or a build that had itself been disturbed wrote into its directory (`"directory"`); it and
`observed` are history, read by properties and by its own update only.  A digest of bytes is the bytes.
Cargo is external: `LockOf` and `MetadataOf` say what it makes of a manifest and a registry
(versions compatible with each requirement, the fallback to one the compiler can build).

Release.  One action per external call or per stretch of local code no call interrupts.  An object is
named by its content, a checksum is the content, an archive keeps its entries, offsets and two
directories, since their agreement is what the verification is about.  A failing call, a killed job
(a timeout can kill it anywhere) and a change to the job's own files (index, worktree, `dist`, staged
copies, while the job still reads them) may come at each step.  One job runs at a time, as the
concurrency group `release-${repo}` of both workflows says (`ci.yml` 650-652, `release-repair.yml`
14-16).  `Build` reads the commit and makes the first build, `Verify` is the second
build, its comparison with what lies in `dist`, the verification and the checksum; `Rebuild` and `Approve`
are the same of the build that the publication makes.  That the host keeps published releases and
does not move tags are settings that `verify-host-controls.js` checks (`release-provenance.js` 278-319);
that it refuses a second release of a tag is an assumption about GitHub that nothing in the code checks.

## Runs

| Run | Instance | States | Shows |
|---|---|---|---|
| `handles` | 3 threads, counts, depths and signals up to 3 | 29 k | `TypeOK`; `TokensLoseNoWakeup`, `MutexLosesNoWakeup`, `ConditionLosesNoWakeup`, `SignalIsNotSwallowed`; `ImplementsTokenCounter`, `ImplementsRecursiveLock`, `ImplementsMonitor`, with liveness |
| `event_loop_posts` | 2 callers that promise, run, keep promises, repeat and cancel, 2 tasks, 2 timers, throwing callbacks, spawned and main threads | 1.5 M | `TypeOK`, `NoDeadSleep`, `OnceOnly` |
| `event_loop_progress` | 1 caller that promises, runs and keeps promises, 2 tasks, 2 timers, no throws, spawned and main threads | 159 k | `NothingLost`, `AcceptedRuns`, `TimerFires`, `CancelIsFinal` |
| `event_loop_late_timer` | 1 caller that calls repeat | 408 | `TimerFires` is **violated** |
| `threads` | main, one spawned, one foreign thread, 2 messages each | 426 k | `RegistryExact`, `NoLostWakeup`, `InOrder` |
| `deque_and_fixed_pool` | 3 threads, 2 elements, up to 3 in the array; 2 clients, 2 workers, 3 tasks, one throws | 49 k | `TokensCountItems`, `BlockedPopServed`, `ImplementsBlockingDeque`; `FixedEachTaskOnce`, `QueuedBeforeShutdownRuns`, `FixedShutdownEnds` |
| `elastic_pool` | 2 clients, up to 2 workers, 3 tasks, one throws | 191 k | `AssignmentAnnounced`, `EachTaskOnce`, `AssignedTaskRuns`, `ShutdownEnds` |
| `elastic_pool_stranded` | 1 client, 1 worker, 2 tasks | 444 | `AcceptedTasksRun` is **violated** |
| `baseline_publication` | 2 pids, 3 starts, 2 crashes, 2 versions, failing writes | 141 k | `LockSafe`, `BaselineWhole`, `RefinesRegister`, `EveryCommandEnds` |
| `baseline_lock_race` | 3 pids, 4 starts, no crash, processes may end in the window | about 85 k when found | `OneProcessHolds` is **violated** |
| `release_publication` | 2 pushes out of 4 further commits, 1 failure or kill, 1 fault | 68 k | `PublishedIsReviewed`, `TagsFollowMain`, `RefinesLedger`, `EveryTagIsPublished`; no deadlock |
| `upkeep` | 2 people or jobs, six mixes of commands | 270 k | `InstalledWasObserved`, `DriftIsNamed`, `PassedCheckIsExact`, `ChecksumsKept` |

Runs with `CHECK_DEADLOCK FALSE` are of systems that may really stop: every thread asleep with nobody
left to release, a program that has ended, processes that have all exited.  A release never stops:
another repair can always be started.

What the properties say, where the name does not:

* `AcceptedRuns`: no loop decides to end while a promise is outstanding, and a one-shot callback,
  promised or not, that is accepted before that decision is called.  The decision is taken when
  `progress` has read its counters and found nothing (`Ending`); what is accepted after it is in vain.
* `TimerFires`: a timer of a loop that has not decided to end is called soon after its time, or
  cancelled.  A main program that never enters its loop is owed nothing by either property.
* `CancelIsFinal`: of cancels by the loop's own thread, as one of its callbacks makes them.
* `BaselineWhole`: a whole baseline is at its path, or the path is empty and a whole one lies beside it
  with a valid journal, so that every recovery finds it.
* `RefinesRegister`: seen through that value, the directories are a register that an admission replaces
  only while it holds what the admission has checked.
* `PublishedIsReviewed`: the assets of every published release are the package made of the files of the
  commit its tag names, and its checksum, whatever happened to the job's files on the way.
* `RefinesLedger`: what a reader *extracts* from published archives is a ledger to which entries are
  only added; it is also the round trip of writing and reading an archive.
* `InstalledWasObserved`: whatever a gate or an admission takes for the reviewed graph was observed,
  with its policy, toolchain, inputs and artifacts, in one observation; a file of it edited by hand is
  refused.
* `DriftIsNamed`: the classification says "match" only of equal bytes, policy and inputs, and each
  package locked differently is the subject of a listed change.
* `PassedCheckIsExact`: a check that passed undisturbed tells the truth about the generated files or the
  packaged helper, whatever other builds removed, half filled or filled again in the shared directory.
  It is disturbed by a write to what it reads, and by what a build that was running during such a write
  puts into the directory afterwards; that second case is one of [where the code and its documentation
  part](#where-the-code-and-its-documentation-part).
* `ChecksumsKept`: an admission never changes the checksum of a package both graphs lock in a case.

## Bounds

* Three threads give a releaser, a sleeper that is notified or times out, and a newcomer that
  overtakes; a depth of 3 gives nested re-entry; `MaxCount`, `MaxDepth`, `MaxGen` cut the counters of
  the handles off far below their widths.
* Two timers, of which one may be cancelled in the callback of the other; two callers of all kinds whose
  posts race for one promise (`MaxPromised` is also the `u32` limit at which a promise is refused).  The
  clock of `event_loop_posts` goes to 1, with timers due at once and later ones, as its properties are
  about posts; the one of `event_loop_progress` to 2, a time, its double and a pass between them.
  `TimerFires` speaks only of timers whose time, doubled, is before `MaxTime`: the loop may compute its
  timeout early and start to sleep late.  `HandleSpan` is the width of a timer handle, larger than any
  id in the runs.
* Two readers of one queue (main and the foreign thread, both with id 0), two messages each
  (`MaxThreads`, `MaxSends`).
* Two workers and three tasks fill the elastic pool and use its queue; the throwing task hits an
  assigned or a queued worker; two clients race in run and shutdown.
* `MaxStarts` and `MaxCrashes` bound the processes of the publication: two crashes are an owner that dies
  and a reclaimer that dies over it, with a third start of a reused pid that finds both.  The race needs a
  third live process and no crash, hence its own run.
* `MaxPushes`, `MaxFailures`, `MaxFaults`: one failure lets a job stop at each step, and the repair then
  starts from each thing it may have left; one fault changes one file of the job, or pushes a foreign
  tag.  The commits are a fix, a breaking change whose own manifest approves major one and whose `std`
  overlays a file of `src`, one with a symbolic link, which cannot be bootstrapped, and one whose records
  contradict each other, which cannot be packaged.
* `Mixes` bounds what shares a behaviour of `upkeep` (commands, how many start, die and are edited under,
  and the `files` an edit writes): two observers and an admission; an
  observer of both resolutions and an admission that may die; the gates beside a raise of the policy;
  synchronisation beside checks; builds, checks and synchronisation around an edit of the helper, three
  of them in a row or at once; a build and a check of which one dies.  Two processes and three starts let
  a build of old sources finish in the middle of a later check.  The edits take the helper to other code
  with the same lock, or to other code and another lock.  Policies A
  (Rust 1.96, one case) and B (1.98, two cases); one crate with two lines, of which one release needs a
  newer compiler and one may be replaced under its own version.

## Fairness

* A thread that was notified, or is in the middle of a call, goes on: the operating system schedules it,
  and `parking_lot` hands a free mutex on in the end (its fair unlocks).  Weak fairness per thread.
* A callback or task comes to an end, normally or with a throw; the event loop's clock runs to its bound.
* The job of a spawned thread returns, and its loop is pumped then (`thread.rs` 131-138).  The main
  program is not obliged to enter its loop, nor to enter it again after it has left it.
* Nobody is obliged to call anything: no fairness on releases, signals, posts, kept promises, runs,
  shutdowns, or the starts of commands.  The idle timeout of the elastic pool may be as long as it likes:
  liveness there does not lean on it.
* `Deque` and `FixedThreadPool`: if elements are there and workers are blocked in pop, some worker gets
  one.  That is what `Deque` guarantees (`BlockedPopServed`), not that each one does.
* A process of the publication that can run runs; one that polls a lock for ever reaches its deadline
  (strong fairness of `Times`), because every poll waits 50 ms of a ten-second limit.
* A release job ends: its calls return, or the time limit of its workflow kills it (`[]<>(pc = "idle")`).
  As long as a tag has no release a repair of it gets its turn (`SF(RepairUnpublished)`):
  `docs/release.md` 131-149 asks for exactly that, and nothing in the code starts it by itself.
* `Upkeep` has no fairness and no liveness property: people start its commands.

## Proofs

Checked by TLAPS for every value of the constants.  No axiom is used; the `ASSUME`s of the modules give
the constants their types and keep model values apart, and TLC evaluates each of them.

| Module | Theorems | Inductive invariant |
|---|---|---|
| `Handles_proofs` | `HandlesKeepTheirTypes`, `CountTypeCorrect`, `TokenWakeupsAreNotLost`, `MutexWakeupsAreNotLost`, `OwnerNeverSleeps`, `ConditionWakeupsAreNotLost`, `SignalsAreNotSwallowed`; `StepsAreTokenSteps`, `StepsAreLockSteps`, `StepsAreMonitorSteps`; `EachHandleRuns` (what is proved of a handle holds in the runs of all three) | `CountIInv`, `MutexIInv`, `CondIInv`: types and the wakeup property; a release notifies a sleeper for each token it adds, one that gives up first takes the token meant for it; the owner of the mutex is awake, so it is not among the sleepers it notifies; a waiter's generation is never ahead of a signal's |
| `EventLoop_proofs` | `LoopTyped`, `NeverSleepsDead`; `CalledOnce`, `AcceptedAreKept`; `DueFound`, `OwnCancelIsFinal`; `PromisesHold` | `NoDeadSleep` with `promised \in Nat`: every post either wakes the loop or only adds a promise.  `ShotInv`: the drained and the waiting queue together have no callback twice, all of them accepted; the callbacks of pending calls are different and not yet accepted (`CallsApart`).  `LoopInv`: with the types, the timers stand in the order of their times after every insert, removal and pass (`SortedByTime`), which the search for the due ones relies on.  `CancelInv`: an id is given once, to a timer or to one pending `repeat` (`Drawn`); a timer that the owner cancelled is not in the list (`GoneIsGone`), and not the one chosen to be called next (`ChosenIsLive`).  The types say that the lists read at their head are not empty there (`HeadsThere`).  `RanInv`: a pass with callbacks still to call remembers that it ran some, so that its loop comes back to look again |
| `ThreadRegistry_proofs` | `RegistryIsExact`; `MessagesWakeReaders`; `MessagesStayInOrder` | `IdsFresh`: the counter is ahead of every id given out.  `WakeInv`: types and `NoLostWakeup`, for finitely many foreign threads.  `MailInv`: queues are in the order of sending, behind what was read and before what is being sent |
| `DequePool_proofs` | `LockCountsArray`, `TokenBuysElement`, `DequeIsBlockingDeque`; `TasksRunAtMostOnce`; `BothRun` (what is proved of either holds in the runs of both) | `DequeIInv`: types and `TokensCountItems`, from which every removal finds an element.  `FixedIInv`: types, `CallsApart`, `RunningHasTask` |
| `ElasticThreadPool_proofs` | `AssignmentsAreAnnounced`, `DeadAreIdle`; `TasksRunAtMostOnce` | `IInv`: a worker has a thread or is dead (`Made`), and has one between the two ends of a wakeup (`HasThread`): the worker's `deathMutex` alone carries that argument.  `TaskInv`: the pool's mutex excludes, so the worker that `run` found idle stays so (`FoundIdle`), a worker keeps its first task until the queue is drained (`Busy`), and each task is in one of four places (`OnePlace`) or counted as run (`Counted`) |
| `BaselinePublication_proofs` | `LockIsSafe`; `BaselineStaysWhole`, `BaselineIsRegister` | `FileInv`, `ReclaimInv`, `ProbeInv`: whose file is at each path at each place of the code, and that a reclaimer's probe speaks of the owner it read.  `TreeInv`: what each label of the work relies on (`AtWork`), with one process at work |
| `ReleaseJob_proofs` | `OnlyReviewedIsPublished`, `PublishedStaysForever`; `VersionsFollowMain`; `ReleasesAreLedger`; `HonestBuildVerifies`, `HonestJobsBuild` | `IInv`: a draft that may still be published holds, or will be made to hold, the package of the tagged commit (`JobInv`, `DraftInv`).  `OrderInv`: a derived version is newer than every tag before its commit and its commit is behind all of them (`NextInv`).  `LedgerInv`: both, and what has been built has a version (`VersionInv`); versions that grow along main make each version's tag the only one, which is what makes the tags a function.  `ReadyInv`: a job that may build runs on a commit that can be bootstrapped, and a repair on the one its version is the tag of |
| `Upkeep_proofs` | `GraphHolds`, `InstalledObserved`, `DriftNamedInReports`, `ChecksumsStay`; `ChecksAreExact` | `GraphInv`: what the baseline's manifest says was reviewed was observed as a whole, whatever people did to its files (`BaselineInv`), each command holds, at its place, what it has read or observed so far, sound against what was ever observed (`CmdInv`), and so do the candidates that lie in the directory (`CandidatesInv`).  `CheckInv`: what a check has read or built is so as long as nobody disturbed it; for the helper that takes a statement about every build in the directory, that none without a mark holds older sources (`Current`), and about the directory itself, that what it holds is current while an undisturbed check is under way (`Untouched`, `OutInv`) |

The three theorems of `BaselinePublication_proofs` assume `~ExitsInWindow`, the assumption the
`baseline_publication` run makes too: no process ends exactly between the second read of its pid by a
reclaimer and the probe of that pid.  Without it they are false, which `baseline_lock_race` shows.
`AcceptedAreKept` and `PromisesHold` assume that callbacks do not throw, as the run of `NothingLost` and
`AcceptedRuns` does: a throw drops the rest of a batch.

`OwnCancelIsFinal` assumes `FewTimers`, fewer repeats than there are positive handles (2^31 with the code's
`i32`): later handles are negative, `cancel` makes a huge id of them and removes nothing, so without the
assumption it is false.  `HonestBuildVerifies` is about commits that hold what a package needs and
whose files the archive may hold (`Packable`: safe and different names, none in a place or of an ending
that the verifier forbids, the required entries there, records that agree); three commits of the instance
are such.
`HonestJobsBuild` says it of whole jobs, from the bootstrap on: it also assumes that the two sentinels
`NoTree` and `NoReceipt` are no tree and no receipt (`SentinelsApart`).

What the constants must satisfy beyond their types: the baseline the checkout starts with was reviewed as
the code reviews (`GraphAssumption`), and the manifests people write name finitely many dependencies;
`Names` lists every name a package can have (`ArchiveAssumption`).

How the refinements are proved: the abstract state is a function of the concrete one, the initial states
map to initial states, and each step, under the inductive invariant, to an abstract step or to none.
`ReleasesAreLedger` has two steps that do something to the ledger, `PushTag` and `PublishDraft`; that the
second enters the files of the tagged commit needs that reading an archive gives back what was packed
(`ExtractedIsPacked`: its offsets lead from the central directory to the right entries).  For the three
handles the steps are proved (`StepsAreTokenSteps` and its like) and the liveness of the abstract handle
is left to TLC.

The order of a list is never proved by induction, which is out of this prover's reach: `Vec::sort_by`,
`Vec::retain` (`Listed` in `EventLoop`) and `collectFiles` (`CollectFiles` in `ReleaseArchive`) are written
by rank, each element standing behind as many as come before it, and `PlacesTaken` proves from
cardinalities that the ranks are the places, each taken once.

Only model-checked: every liveness property (`AcceptedRuns`, `TimerFires`, `BlockedPopServed`,
`QueuedBeforeShutdownRuns`, `FixedShutdownEnds`, `AssignedTaskRuns`, `ShutdownEnds`, `EveryCommandEnds`,
`EveryTagIsPublished`) and the liveness part of `ImplementsTokenCounter`, `ImplementsRecursiveLock` and
`ImplementsMonitor`: fairness and `ENABLED` are out of this prover's reach.  Every safety invariant and
every safety action property of a passing run is a theorem, and so is the first half of `AcceptedRuns`
(`PromiseHolds`).

## Where the code and its documentation part

Three of them are runs that TLC violates:

* **Late timer** (`event_loop_late_timer`).  `loop` sleeps with the timeout `progress` implied, none
  if there are only promises; a `repeat` of another thread that lands between the two notifies nobody,
  and `wait` (434-451) looks only at what is ready now.  The loop then sleeps without a timeout over a
  timer (`thread.rs` 475).
* **Stranded task** (`elastic_pool_stranded`).  A worker finds the queue empty and says it is idle in two
  steps without the pool's mutex.  A `run` in between finds it busy and queues its task; then
  everybody is idle and the task lies there (`ElasticThreadPool.hx` 162-167).
* **Two holders** (`baseline_lock_race`).  A reclaimer reads the pid in the lock a second time, probes
  that pid and removes the path in three calls (`fresh-cargo-resolution.js` 577).  If the owner it read
  releases and ends before the probe, and a third process takes the lock before the removal, the
  reclaimer removes a live lock.  `docs/rust-toolchain-policy.md` 123 and 128 say one process holds it.

The others are behaviours of the models, which is why some properties are stated as they are:

* **Early end**.  `progress` reads the promise count under its last lock (`thread.rs` 406), `loop` ends on
  what it returned (472), and the thread leaves the registry after that (131-138).  A promise of another
  thread in between is accepted (269-278), and so is the `runPromised` that keeps it (292-307), or a plain
  `run`; a spawned thread ends all the same and the callback is never called.  `EventLoop.hx` 100 gives the
  reason of `promise`: "a loop with no queued work must remain alive while an external producer still owes
  work"; 167 says that `loop` runs until no queued, repeating or promised work remains.  `AcceptedRuns` speaks
  of what is accepted before the decision.
* **Late cancel**.  `progress` checks under the lock that a due timer is still registered, drops the lock and
  calls the callback (`thread.rs` 387-396).  A cancel of another thread in between returns, and the callback
  starts after it; `EventLoop.hx` 88 says `cancel` prevents a not-yet-started callback in the current pass.
  `CancelIsFinal` speaks of the owner's own cancels.
* **Dead receiver**.  A sender finds the state of its receiver under the registry's lock, drops that lock and
  pushes into the queue it found (`thread.rs` 211-219).  A receiver that ends in between gets a message
  nobody can read, and the sender is not told; `Thread.hx` 55-56 promises that a dead thread accepts none
  and that the call throws.
* **Shared helper directory**.  All checks of the helper build in one directory without a lock
  (`build.js` 38, 379).  A build may package the binary of old sources with a record of edited ones, since
  the sources are digested after the compilers have read them (401); a check of the old sources that is still
  running may then write its crate over the one a later check, begun after the edit, has made in the
  directory, and the later check builds and compares that, and passes on a binary its sources do not make.
  The helper's `README.md` 157 speaks of a separate directory, 163-165 of fresh bytes that must match.
* A throwing one-shot callback drops the rest of the batch drained with it (`thread.rs` 414;
  `EventLoop.hx` 138).
* A timer id is a u64 handed out as an `i32` (`thread.rs` 341, 345): from the 2^31st `repeat` of a
  process on, `cancel` finds nothing.
* Threads of `rust.concurrent` and `rust.async` have the id of the main thread and read its messages
  (`thread.rs` 74; `Thread.hx` 15).
* `FixedThreadPool.run` may queue its task behind the pills of a concurrent `shutdown`
  (`FixedThreadPool.hx` 62-64; 69), and a throwing task ends its worker for good (104; 10).
  `QueuedBeforeShutdownRuns` speaks of what is queued when the flag rises, and only one of the two
  workers can be lost to a throw in its run.
* An `ElasticThreadPool.run` that overlaps `shutdown` may start or revive a worker that nobody tells to
  stop.  `ShutdownEnds` speaks of shutdowns no run overlaps.
* `Deque.pop(false)` may return null while an element is in the array: it looks at the lock, which the
  insertion releases one step later.  `BlockingDeque` says so.
* An admission compares checksums case by case with the graph it replaces: a case under a new id, and a
  version that went and came back, are compared with nothing.  `ChecksumsKept` speaks of cases both
  graphs have.

## What is not modelled

Within the modelled components: the owner alone pumps its loop (a thread that calls `progress` or `wait`
on another thread's loop, and a callback that calls `progress` again, are left out); panics of the
allocator; overflow of the `i32` count and the `u32` depth; clocks that jump; arguments that are null,
which throw before any state changes.  A `Thread.create` that
throws (`HXRT-THREAD-SPAWN`) in `ElasticThreadPool.start`, which `wakeup` and the worker's own revival call,
or in the constructor of `FixedThreadPool`: the models of the pools always get their threads, so that they
say nothing of mutexes left held or of a worker that counts as alive without a thread (`ThreadRegistry`
models the failing call itself).  Old lock files without a token; the environment variables and tools a
release job selects; the text of notices and inventories, each one content made of what it is generated from
(a document states a set of facts); prereleases, which no job makes, and their refusals; the evidence
directories of `verify` and `admit`; the file and git modes and the host and SDK checks of the helper's
build.  Its compilers are functions of its sources that read all their inputs at once and write all their
outputs at once, and fail only where an input is missing or when the command dies with them: mixtures of files
from two compilers at work at once are left out.

Other components and why they are left out are in `PROJECT.json`.  In short: the compiler is a
sequential, syntax-directed translation of 40000 lines whose state is trees; files, sockets, TLS and
databases are calls of the operating system or of libraries; the contract checks and documentation
scripts read files once and compare or render them, with no other actor and nothing to recover.

Hazards of the code that no property covers, since the component or the operation is outside of the
models or the code keeps no promise there: the `i32` count of a lock wraps after 2^31 unconsumed releases
(`thread.rs` 542); a thread that does not own a loop calls its `progress` (360); a thread-local destructor
reads its messages after the registration is gone (91); a receiver ends between the lookup of a sender
and its push (215); a thread that the elastic pool cannot start leaves its mutexes held
(`ElasticThreadPool.hx` 148); a job of `EntryPoint.addThread` that throws skips the decrement of the
count (`EntryPoint.hx` 59); `MainLoop.add` links into a list that `tick` walks (`MainLoop.hx` 165);
`recv` blocks with the receiver locked (`concurrent.rs` 154); one payload slot for nested throws
(`exception.rs` 52); `exitCode` waits under the handle's write guard (`process.rs` 221); guards of one
cell held by several threads (`cell.rs` 65).

## How to extend

The primitives came first, since the rest of the runtime rests on them; then the event loop and the
registry, then what is built from the primitives; then the two parts of the repository's scripts that
have state, other actors and failures.  What is next in value:

1. `EntryPoint` with `MainLoop`, on what `Deque`, `CountingLock` and `ReentrantMutex` implement: the loop
   does not sleep over a posted callback, and returns only when no thread and no blocking event is left.
2. `rust.concurrent`: the channel whose receiver is locked while it blocks, join, and the re-entrancy
   stack of the callback locks, nested and unwound.
3. Exceptions: id, payload and suppression depth over nested catches; cells and processes: guards held
   over blocking calls.
4. Re-entrant and foreign pumping of the event loop.
5. Support crate admission: the protocol between the compiler and the native helper.
6. Compiler passes on small statement lists: clone elision and mutability inference as operators against
   what they may not change.
7. Proofs: that the pools, on the abstract deque, keep their promises on the detailed one.
