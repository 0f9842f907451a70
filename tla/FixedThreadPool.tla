-------------------------- MODULE FixedThreadPool --------------------------
(***************************************************************************)
(* sys.thread.FixedThreadPool: a flag, a Deque of tasks and a constant number *)
(* of workers that pop it for ever.  shutdown raises the flag and queues one    *)
(* pill per worker, a task that throws the exception the worker loop catches;   *)
(* any other exception leaves the loop and ends the worker's thread.  run and    *)
(* shutdown read the flag and use the deque in separate, unsynchronised steps.   *)
(*                                                                           *)
(* The deque is used through what Deque implements, the BlockingDeque.        *)
(***************************************************************************)
EXTENDS Integers, Sequences, FiniteSets, Functions

CONSTANTS Clients,      \* threads that call run and shutdown
          Tasks,        \* tasks, each submitted once
          Throwing,     \* the tasks that throw
          FixedWorkers, \* the pool's workers, threadsCount of them
          Pill,         \* the task shutdown queues
          Idle          \* a client or a worker without a task

ASSUME WorkersFinite == IsFiniteSet(FixedWorkers)
ASSUME ThrowingTasks == Throwing \subseteq Tasks
ASSUME PillOutside == Pill \notin Tasks
ASSUME IdleOutside == Idle \notin Tasks \cup {Pill}

VARIABLES fixedShutdown, \* _isShutdown
          fixedQueue,    \* the deque, front first
          fixedStatus,   \* what became of the run call of each task
          adding,        \* the task whose run call a client is in, past the flag
          closing,       \* a client past the flag of shutdown, not yet past the loop
          pills,         \* pills a client has yet to queue
          worker,        \* the state of each worker's thread
          fixedDoing,    \* the task it runs
          fixedRan       \* how often each task was run

clientVars == <<fixedShutdown, fixedStatus, adding, closing, pills>>
fixedVars == <<clientVars, fixedQueue, worker, fixedDoing, fixedRan>>

FixedInit == /\ fixedShutdown = FALSE
             /\ fixedQueue = <<>>
             /\ fixedStatus = [k \in Tasks |-> "new"]
             /\ adding = [c \in Clients |-> Idle]
             /\ closing = [c \in Clients |-> FALSE]
             /\ pills = [c \in Clients |-> 0]
             /\ worker = [w \in FixedWorkers |-> "popping"]
             /\ fixedDoing = [w \in FixedWorkers |-> Idle]
             /\ fixedRan = [k \in Tasks |-> 0]

FixedTypeOK == /\ fixedShutdown \in BOOLEAN
               /\ fixedQueue \in Seq(Tasks \cup {Pill})
               /\ fixedStatus \in [Tasks -> {"new", "calling", "accepted", "rejected"}]
               /\ adding \in [Clients -> Tasks \cup {Idle}]
               /\ closing \in [Clients -> BOOLEAN]
               /\ pills \in [Clients -> Nat]
               /\ worker \in [FixedWorkers -> {"popping", "running", "ended", "killed"}]
               /\ fixedDoing \in [FixedWorkers -> Tasks \cup {Idle}]
               /\ fixedRan \in [Tasks -> Nat]

Free(c) == adding[c] = Idle /\ ~closing[c] /\ pills[c] = 0

-----------------------------------------------------------------------------
FixedRunRejected(c, k) == /\ Free(c)
                          /\ fixedStatus[k] = "new"
                          /\ fixedShutdown
                          /\ fixedStatus' = [fixedStatus EXCEPT ![k] = "rejected"]
                          /\ UNCHANGED <<fixedShutdown, adding, closing, pills, fixedQueue, worker, fixedDoing, fixedRan>>

FixedRunChecked(c, k) == /\ Free(c)
                         /\ fixedStatus[k] = "new"
                         /\ ~fixedShutdown
                         /\ fixedStatus' = [fixedStatus EXCEPT ![k] = "calling"]
                         /\ adding' = [adding EXCEPT ![c] = k]
                         /\ UNCHANGED <<fixedShutdown, closing, pills, fixedQueue, worker, fixedDoing, fixedRan>>

\* queue.add(task), and the call returns.
RunAdd(c) == /\ adding[c] # Idle
             /\ fixedQueue' = Append(fixedQueue, adding[c])
             /\ fixedStatus' = [fixedStatus EXCEPT ![adding[c]] = "accepted"]
             /\ adding' = [adding EXCEPT ![c] = Idle]
             /\ UNCHANGED <<fixedShutdown, closing, pills, worker, fixedDoing, fixedRan>>

\* A call that finds the flag up returns: no step.
FixedShutdownChecked(c) == /\ Free(c)
                           /\ ~fixedShutdown
                           /\ closing' = [closing EXCEPT ![c] = TRUE]
                           /\ UNCHANGED <<fixedShutdown, fixedStatus, adding, pills, fixedQueue, worker, fixedDoing, fixedRan>>

\* Mutated: one pill for the whole pool.
ShutdownOnePill(c) == /\ closing[c]
                      /\ closing' = [closing EXCEPT ![c] = FALSE]
                      /\ fixedShutdown' = TRUE
                      /\ pills' = [pills EXCEPT ![c] = 1]
                      /\ UNCHANGED <<fixedStatus, adding, fixedQueue, worker, fixedDoing, fixedRan>>

ShutdownFlag(c) == /\ closing[c]
                   /\ closing' = [closing EXCEPT ![c] = FALSE]
                   /\ fixedShutdown' = TRUE
                   /\ pills' = [pills EXCEPT ![c] = Cardinality(FixedWorkers)]
                   /\ UNCHANGED <<fixedStatus, adding, fixedQueue, worker, fixedDoing, fixedRan>>

\* Mutated: the pill goes to the front.
ShutdownPillFirst(c) == /\ pills[c] > 0
                        /\ fixedQueue' = <<Pill>> \o fixedQueue
                        /\ pills' = [pills EXCEPT ![c] = @ - 1]
                        /\ UNCHANGED <<fixedShutdown, fixedStatus, adding, closing, worker, fixedDoing, fixedRan>>

ShutdownPill(c) == /\ pills[c] > 0
                   /\ fixedQueue' = Append(fixedQueue, Pill)
                   /\ pills' = [pills EXCEPT ![c] = @ - 1]
                   /\ UNCHANGED <<fixedShutdown, fixedStatus, adding, closing, worker, fixedDoing, fixedRan>>

-----------------------------------------------------------------------------
\* Mutated: the task stays in the queue.
FixedPopCopy(w) == /\ worker[w] = "popping"
                   /\ fixedQueue # <<>>
                   /\ UNCHANGED <<clientVars, fixedQueue, fixedRan>>

\* queue.pop(true)
Pop(w) == /\ worker[w] = "popping"
          /\ fixedQueue # <<>>
          /\ fixedQueue' = Tail(fixedQueue)
          /\ UNCHANGED <<clientVars, fixedRan>>

\* The pill throws ShutdownException: the loop is left for good.
TakePill(w) == /\ Pop(w)
               /\ Head(fixedQueue) = Pill
               /\ worker' = [worker EXCEPT ![w] = "ended"]
               /\ UNCHANGED fixedDoing

TakeTask(w) == /\ Pop(w)
               /\ Head(fixedQueue) # Pill
               /\ worker' = [worker EXCEPT ![w] = "running"]
               /\ fixedDoing' = [fixedDoing EXCEPT ![w] = Head(fixedQueue)]

\* The task is over: by an exception the loop does not catch, or normally.
FixedFinish(w) == /\ worker[w] = "running"
                  /\ fixedRan' = [fixedRan EXCEPT ![fixedDoing[w]] = @ + 1]
                  /\ fixedDoing' = [fixedDoing EXCEPT ![w] = Idle]
                  /\ worker' = [worker EXCEPT ![w] =
                                  IF fixedDoing[w] \in Throwing THEN "killed" ELSE "popping"]
                  /\ UNCHANGED <<clientVars, fixedQueue>>

FixedClientStep(c) == RunAdd(c) \/ ShutdownFlag(c) \/ ShutdownPill(c)
FixedCall(c) == FixedShutdownChecked(c) \/ \E k \in Tasks : FixedRunRejected(c, k) \/ FixedRunChecked(c, k)
FixedWorkerStep(w) == TakePill(w) \/ TakeTask(w) \/ FixedFinish(w)

FixedNext == \/ \E c \in Clients : FixedCall(c) \/ FixedClientStep(c)
             \/ \E w \in FixedWorkers : FixedWorkerStep(w)

\* A client finishes the call it is in, a task comes to an end, and the deque
\* does not leave an element lying while workers are blocked for one.
FixedFairness == /\ \A c \in Clients : WF_fixedVars(FixedClientStep(c))
                 /\ \A w \in FixedWorkers : WF_fixedVars(FixedFinish(w))
                 /\ WF_fixedVars(\E w \in FixedWorkers : TakePill(w) \/ TakeTask(w))

FixedSpec == FixedInit /\ [][FixedNext]_fixedVars /\ FixedFairness

-----------------------------------------------------------------------------
FixedPlaces(k) == {i \in DOMAIN fixedQueue : fixedQueue[i] = k}
Queued(k) == FixedPlaces(k) # {}
Held(k) == \E w \in FixedWorkers : fixedDoing[w] = k

OnePlace(k) ==
  /\ fixedStatus[k] = "accepted" <=> Queued(k) \/ Held(k) \/ fixedRan[k] = 1
  /\ \A i, j \in FixedPlaces(k) : i = j
  /\ \A v, w \in FixedWorkers : fixedDoing[v] = k /\ fixedDoing[w] = k => v = w
  /\ ~(Queued(k) /\ Held(k))
  /\ Queued(k) \/ Held(k) => fixedRan[k] = 0
  /\ fixedRan[k] \in {0, 1}

(* A task that was accepted is queued, running or done, in one place only and at *)
(* most once, and one that was not is nowhere.                                 *)
FixedEachTaskOnce == \A k \in Tasks : OnePlace(k)

Alive == {w \in FixedWorkers : worker[w] \in {"popping", "running"}}

(* After the flag is up there is a pill, queued or coming, for every worker that *)
(* still has to stop.                                                          *)
EnoughPills ==
  fixedShutdown => Cardinality(Alive) <= Cardinality(FixedPlaces(Pill)) + FoldFunction(+, 0, pills)

(* What was queued before shutdown raised the flag is executed, if a worker      *)
(* survives the tasks that throw.                                              *)
QueuedBeforeShutdownRuns ==
  \A k \in Tasks : (fixedStatus[k] = "accepted" /\ ~fixedShutdown) ~> fixedRan[k] = 1

(* shutdown ends every worker.                                                 *)
FixedShutdownEnds == fixedShutdown ~> Alive = {}
=============================================================================
