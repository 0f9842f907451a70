------------------------- MODULE ElasticThreadPool -------------------------
(***************************************************************************)
(* sys.thread.ElasticThreadPool.  run holds the pool's mutex while it looks   *)
(* for a worker: the first without a task, else a new one, else the overflow   *)
(* queue.  A worker sleeps on its Lock, runs the task it was woken for, drains  *)
(* the queue, and declares itself dead when the Lock times out.  The worker     *)
(* reads and clears its fields without the pool's mutex, so every field access  *)
(* that another thread can see is a step of its own.                           *)
(*                                                                           *)
(* The Locks are token counters, as CountingLock implements; the Mutexes        *)
(* exclude, as ReentrantMutex does; the queue is what Deque implements, with     *)
(* an add of two steps, the element and its announcement.                      *)
(***************************************************************************)
EXTENDS Integers, Sequences, FiniteSets

CONSTANTS Clients,    \* threads that call run and shutdown
          MaxThreads, \* maxThreadsCount
          Tasks,      \* tasks, each submitted once
          Throwing,   \* the tasks that throw
          None        \* null

ASSUME MaxThreadsPositive == MaxThreads \in Nat \ {0}
ASSUME ThrowingTasks == Throwing \subseteq Tasks
ASSUME NoneOutside == None \notin Tasks \cup Clients

Workers == 1 .. MaxThreads

VARIABLES isShutdown, \* _isShutdown
          size,       \* pool.length
          queue,      \* the overflow queue, front first
          announced,  \* the elements of it whose add has released the lock
          holder,     \* who has the pool's mutex
          at,         \* where each client is in its call
          arg,        \* the task its run call was given
          index,      \* the worker its loop is at
          status,     \* what became of the run call of each task
          task,       \* Worker.task
          dead,       \* Worker.dead
          told,       \* Worker.isShutdown
          tokens,     \* Worker.waiter
          pc,         \* where the worker's thread is
          doing,      \* the task it runs
          ran         \* how often each task was run

poolVars == <<isShutdown, size>>
queueVars == <<queue, announced>>
callVars == <<holder, at, arg, index, status>>
fieldVars == <<task, dead, told, tokens>>
threadVars == <<pc, doing, ran>>
vars == <<poolVars, queueVars, callVars, fieldVars, threadVars>>

Init == /\ isShutdown = FALSE
        /\ size = 0
        /\ queue = <<>>
        /\ announced = 0
        /\ holder = None
        /\ at = [c \in Clients |-> "idle"]
        /\ arg = [c \in Clients |-> None]
        /\ index = [c \in Clients |-> 1]
        /\ status = [k \in Tasks |-> "new"]
        /\ task = [w \in Workers |-> None]
        /\ dead = [w \in Workers |-> FALSE]
        /\ told = [w \in Workers |-> FALSE]
        /\ tokens = [w \in Workers |-> 0]
        /\ pc = [w \in Workers |-> "none"]
        /\ doing = [w \in Workers |-> None]
        /\ ran = [k \in Tasks |-> 0]

ClientPlaces == {"idle", "locking", "scanning", "starting", "assigning", "waking",
                 "announcing", "closing", "telling"}
ThreadPlaces == {"none", "waiting", "woken", "running", "draining", "clearing",
                 "dying", "caught", "restarting"}

TypeOK == /\ isShutdown \in BOOLEAN
          /\ size \in 0 .. MaxThreads
          /\ queue \in Seq(Tasks)
          /\ announced \in 0 .. Len(queue)
          /\ holder \in Clients \cup {None}
          /\ at \in [Clients -> ClientPlaces]
          /\ arg \in [Clients -> Tasks \cup {None}]
          /\ index \in [Clients -> 1 .. MaxThreads + 1]
          /\ status \in [Tasks -> {"new", "calling", "accepted", "rejected"}]
          /\ task \in [Workers -> Tasks \cup {None}]
          /\ dead \in [Workers -> BOOLEAN]
          /\ told \in [Workers -> BOOLEAN]
          /\ tokens \in [Workers -> Nat]
          /\ pc \in [Workers -> ThreadPlaces]
          /\ doing \in [Workers -> Tasks \cup {None}]
          /\ ran \in [Tasks -> Nat]

ClientGoes(c, from, to) == at[c] = from /\ at' = [at EXCEPT ![c] = to]
ThreadGoes(w, from, to) == pc[w] = from /\ pc' = [pc EXCEPT ![w] = to]

-----------------------------------------------------------------------------
\* run: the flag is read before the mutex is taken.
RunRejected(c, k) == /\ at[c] = "idle"
                     /\ status[k] = "new"
                     /\ isShutdown
                     /\ status' = [status EXCEPT ![k] = "rejected"]
                     /\ UNCHANGED <<poolVars, queueVars, holder, at, arg, index, fieldVars, threadVars>>

RunChecked(c, k) == /\ ClientGoes(c, "idle", "locking")
                    /\ status[k] = "new"
                    /\ ~isShutdown
                    /\ status' = [status EXCEPT ![k] = "calling"]
                    /\ arg' = [arg EXCEPT ![c] = k]
                    /\ UNCHANGED <<poolVars, queueVars, holder, index, fieldVars, threadVars>>

RunLocks(c) == /\ ClientGoes(c, "locking", "scanning")
               /\ holder = None
               /\ holder' = c
               /\ index' = [index EXCEPT ![c] = 1]
               /\ UNCHANGED <<poolVars, queueVars, arg, status, fieldVars, threadVars>>

\* The loop passes a worker that has a task.  A dead worker has none (DeadIsIdle),
\* so the loop never remembers one and run's second branch is never taken.
ScanBusy(c) == /\ at[c] = "scanning"
               /\ index[c] <= size
               /\ task[index[c]] # None
               /\ index' = [index EXCEPT ![c] = @ + 1]
               /\ UNCHANGED <<poolVars, queueVars, holder, at, arg, status, fieldVars, threadVars>>

ScanIdle(c) == /\ ClientGoes(c, "scanning", "starting")
               /\ index[c] <= size
               /\ task[index[c]] = None
               /\ UNCHANGED <<poolVars, queueVars, holder, arg, index, status, fieldVars, threadVars>>

\* new Worker: its thread waits, and the pool has one more.
NewWorker(c) == /\ ClientGoes(c, "scanning", "starting")
                /\ index[c] > size
                /\ size < MaxThreads
                /\ size' = size + 1
                /\ pc' = [pc EXCEPT ![size + 1] = "waiting"]
                /\ UNCHANGED <<isShutdown, queueVars, holder, arg, index, status, fieldVars, doing, ran>>

Overflow(c) == /\ ClientGoes(c, "scanning", "announcing")
               /\ index[c] > size
               /\ size = MaxThreads
               /\ queue' = Append(queue, arg[c])
               /\ UNCHANGED <<poolVars, announced, holder, arg, index, status, fieldVars, threadVars>>

\* The call of run returns and the mutex is free.
RunReturns(c, from) == /\ ClientGoes(c, from, "idle")
                       /\ status' = [status EXCEPT ![arg[c]] = "accepted"]
                       /\ arg' = [arg EXCEPT ![c] = None]
                       /\ holder' = None
                       /\ UNCHANGED index

Announce(c) == /\ RunReturns(c, "announcing")
               /\ announced' = announced + 1
               /\ UNCHANGED <<poolVars, queue, fieldVars, threadVars>>

\* Worker.wakeup: under the worker's deathMutex from here to Wake.
WakeStart(c) == /\ ClientGoes(c, "starting", "assigning")
                /\ LET w == index[c] IN
                     /\ dead' = [dead EXCEPT ![w] = FALSE]
                     /\ pc' = [pc EXCEPT ![w] = IF dead[w] THEN "waiting" ELSE @]
                /\ UNCHANGED <<poolVars, queueVars, holder, arg, index, status, task, told, tokens, doing, ran>>

WakeAssign(c) == /\ ClientGoes(c, "assigning", "waking")
                 /\ task' = [task EXCEPT ![index[c]] = arg[c]]
                 /\ UNCHANGED <<poolVars, queueVars, holder, arg, index, status, dead, told, tokens, threadVars>>

Wake(c) == /\ RunReturns(c, "waking")
           /\ tokens' = [tokens EXCEPT ![index[c]] = @ + 1]
           /\ UNCHANGED <<poolVars, queueVars, task, dead, told, threadVars>>

\* shutdown: a call that finds the flag up returns, no step.
ShutdownChecked(c) == /\ ClientGoes(c, "idle", "closing")
                      /\ ~isShutdown
                      /\ UNCHANGED <<poolVars, queueVars, holder, arg, index, status, fieldVars, threadVars>>

ShutdownLocks(c) == /\ ClientGoes(c, "closing", "telling")
                    /\ holder = None
                    /\ holder' = c
                    /\ isShutdown' = TRUE
                    /\ index' = [index EXCEPT ![c] = 1]
                    /\ UNCHANGED <<size, queueVars, arg, status, fieldVars, threadVars>>

\* Mutated: the worker is told and not woken.
TellQuietly(c) == /\ at[c] = "telling"
                  /\ index[c] <= size
                  /\ told' = [told EXCEPT ![index[c]] = TRUE]
                  /\ index' = [index EXCEPT ![c] = @ + 1]
                  /\ UNCHANGED <<poolVars, queueVars, holder, at, arg, status, task, dead, tokens, threadVars>>

\* Worker.shutdown
Tell(c) == /\ at[c] = "telling"
           /\ index[c] <= size
           /\ told' = [told EXCEPT ![index[c]] = TRUE]
           /\ tokens' = [tokens EXCEPT ![index[c]] = @ + 1]
           /\ index' = [index EXCEPT ![c] = @ + 1]
           /\ UNCHANGED <<poolVars, queueVars, holder, at, arg, status, task, dead, threadVars>>

ShutdownReturns(c) == /\ ClientGoes(c, "telling", "idle")
                      /\ index[c] > size
                      /\ holder' = None
                      /\ UNCHANGED <<poolVars, queueVars, arg, index, status, fieldVars, threadVars>>

-----------------------------------------------------------------------------
\* waiter.wait(timeout) returns true ...
Woken(w) == /\ ThreadGoes(w, "waiting", "woken")
            /\ tokens[w] > 0
            /\ tokens' = [tokens EXCEPT ![w] = @ - 1]
            /\ UNCHANGED <<poolVars, queueVars, callVars, task, dead, told, doing, ran>>

\* ... or false, at a moment without a token.
TimedOut(w) == /\ ThreadGoes(w, "waiting", "dying")
               /\ tokens[w] = 0
               /\ UNCHANGED <<poolVars, queueVars, callVars, fieldVars, doing, ran>>

\* Woken for nothing: stop if told to, else wait again.
NoTask(w) == /\ pc[w] = "woken"
             /\ task[w] = None
             /\ pc' = [pc EXCEPT ![w] = IF told[w] THEN "dying" ELSE "waiting"]
             /\ UNCHANGED <<poolVars, queueVars, callVars, fieldVars, doing, ran>>

ReadTask(w) == /\ ThreadGoes(w, "woken", "running")
               /\ task[w] # None
               /\ doing' = [doing EXCEPT ![w] = task[w]]
               /\ UNCHANGED <<poolVars, queueVars, callVars, fieldVars, ran>>

\* The task, read or popped, is over: normally, or with an exception.
Finish(w) == /\ pc[w] = "running"
             /\ pc' = [pc EXCEPT ![w] = IF doing[w] \in Throwing THEN "caught" ELSE "draining"]
             /\ ran' = [ran EXCEPT ![doing[w]] = @ + 1]
             /\ doing' = [doing EXCEPT ![w] = None]
             /\ UNCHANGED <<poolVars, queueVars, callVars, fieldVars>>

\* Mutated: the popped task stays in the queue.
PopCopy(w) == /\ ThreadGoes(w, "draining", "running")
              /\ announced > 0
              /\ doing' = [doing EXCEPT ![w] = Head(queue)]
              /\ UNCHANGED <<poolVars, queueVars, callVars, fieldVars, ran>>

\* queue.pop(false) finds a task ...
PopTask(w) == /\ ThreadGoes(w, "draining", "running")
              /\ announced > 0
              /\ doing' = [doing EXCEPT ![w] = Head(queue)]
              /\ queue' = Tail(queue)
              /\ announced' = announced - 1
              /\ UNCHANGED <<poolVars, callVars, fieldVars, ran>>

\* ... or null, although an element may be there whose add is not over.
PopNull(w) == /\ ThreadGoes(w, "draining", "clearing")
              /\ announced = 0
              /\ UNCHANGED <<poolVars, queueVars, callVars, fieldVars, doing, ran>>

\* worker.task = null after the drain, and back to the wait.
Clear(w) == /\ ThreadGoes(w, "clearing", "waiting")
            /\ task' = [task EXCEPT ![w] = None]
            /\ UNCHANGED <<poolVars, queueVars, callVars, dead, told, tokens, doing, ran>>

\* Nobody is in wakeup for w: its deathMutex is free.
DeathMutexFree(w) == ~\E c \in Clients : at[c] \in {"assigning", "waking"} /\ index[c] = w

\* Mutated: a task that came after the timeout is not looked for.
DieAnyway(w) == /\ ThreadGoes(w, "dying", "none")
                /\ DeathMutexFree(w)
                /\ dead' = [dead EXCEPT ![w] = TRUE]
                /\ UNCHANGED <<poolVars, queueVars, callVars, task, told, tokens, doing, ran>>

\* Mutated: the deathMutex is not taken.
DieUnlocked(w) == /\ pc[w] = "dying"
                  /\ pc' = [pc EXCEPT ![w] = IF task[w] = None THEN "none" ELSE "waiting"]
                  /\ dead' = [dead EXCEPT ![w] = task[w] = None]
                  /\ UNCHANGED <<poolVars, queueVars, callVars, task, told, tokens, doing, ran>>

\* After the loop: a new thread if a task came in the meantime, else dead.
Die(w) == /\ pc[w] = "dying"
          /\ DeathMutexFree(w)
          /\ pc' = [pc EXCEPT ![w] = IF task[w] = None THEN "none" ELSE "waiting"]
          /\ dead' = [dead EXCEPT ![w] = task[w] = None]
          /\ UNCHANGED <<poolVars, queueVars, callVars, task, told, tokens, doing, ran>>

\* catch: the task is dropped ...
Catch(w) == /\ ThreadGoes(w, "caught", "restarting")
            /\ task' = [task EXCEPT ![w] = None]
            /\ UNCHANGED <<poolVars, queueVars, callVars, dead, told, tokens, doing, ran>>

\* ... and a new thread takes the place of this one, which rethrows.
Restart(w) == /\ ThreadGoes(w, "restarting", "waiting")
              /\ dead' = [dead EXCEPT ![w] = FALSE]
              /\ UNCHANGED <<poolVars, queueVars, callVars, task, told, tokens, doing, ran>>

ClientStep(c) == \/ RunLocks(c) \/ ScanBusy(c) \/ ScanIdle(c) \/ NewWorker(c)
                 \/ Overflow(c) \/ Announce(c)
                 \/ WakeStart(c) \/ WakeAssign(c) \/ Wake(c)
                 \/ ShutdownLocks(c) \/ Tell(c) \/ ShutdownReturns(c)

Call(c) == ShutdownChecked(c) \/ \E k \in Tasks : RunRejected(c, k) \/ RunChecked(c, k)

ThreadStep(w) == \/ Woken(w) \/ NoTask(w) \/ ReadTask(w) \/ Finish(w)
                 \/ PopTask(w) \/ PopNull(w) \/ Clear(w) \/ Die(w)
                 \/ Catch(w) \/ Restart(w)

Next == \/ \E c \in Clients : Call(c) \/ ClientStep(c)
        \/ \E w \in Workers : ThreadStep(w) \/ TimedOut(w)

\* Threads run and tasks end; an idle timeout may be as long as it likes.
Fairness == /\ \A c \in Clients : WF_vars(ClientStep(c))
            /\ \A w \in Workers : WF_vars(ThreadStep(w))

Spec == Init /\ [][Next]_vars /\ Fairness

-----------------------------------------------------------------------------
(* A dead worker has no task: wakeup may revive it without losing one, and run   *)
(* never finds a dead worker that is not also idle.                            *)
DeadIsIdle == \A w \in Workers : dead[w] => task[w] = None /\ pc[w] = "none"

\* The task of w has not been read by its thread.
Unread(w) == task[w] # None /\ pc[w] \in {"none", "waiting", "woken", "dying", "restarting"}

(* A task given to a worker has a thread that will look at it: the wakeup is on   *)
(* its way, in the Lock, or taken by the thread that is about to read.          *)
AssignmentAnnounced ==
  \A w \in Workers :
    Unread(w) => /\ pc[w] # "none"
                 /\ \/ tokens[w] > 0
                    \/ pc[w] = "woken"
                    \/ \E c \in Clients : at[c] = "waking" /\ index[c] = w

Wanted(k) == \/ \E i \in DOMAIN queue : queue[i] = k
             \/ \E w \in Workers : Unread(w) /\ task[w] = k
             \/ \E w \in Workers : doing[w] = k
             \/ \E c \in Clients : arg[c] = k /\ at[c] \notin {"waking", "announcing"}

(* Every submitted task is in one place until it has run, once.                 *)
EachTaskOnce ==
  \A k \in Tasks :
    /\ ran[k] \in {0, 1}
    /\ status[k] \in {"calling", "accepted"} => (Wanted(k) <=> ran[k] = 0)

(* A task that was given to a worker is run, timeouts and restarts or not.       *)
AssignedTaskRuns ==
  \A k \in Tasks : (\E w \in Workers : task[w] = k) ~> ran[k] = 1

InRun(c) == at[c] \notin {"idle", "closing", "telling"}

(* shutdown stops every worker, without the help of an idle timeout, if no run     *)
(* overlaps it: one that checked the flag before may revive or make a worker that  *)
(* nobody tells to stop.                                                          *)
ShutdownEnds == \/ <>(isShutdown /\ \E c \in Clients : InRun(c))
                \/ isShutdown ~> \A w \in Workers : pc[w] = "none"

(* ElasticThreadPool.hx:92 and IThreadPool.hx:34, "All previously submitted tasks   *)
(* will be executed".                                                           *)
AcceptedTasksRun == \A k \in Tasks : (status[k] = "accepted") ~> ran[k] = 1
=============================================================================
