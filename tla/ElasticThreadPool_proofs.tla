---------------------- MODULE ElasticThreadPool_proofs ----------------------
(***************************************************************************)
(* For every set of clients and tasks, throwing or not, and every size of the *)
(* pool: a task given to a worker has a wakeup and a thread that will look at  *)
(* it, and a dead worker has no task.  The pool's mutex, the queue and the      *)
(* flags play no part in it: it is the worker's deathMutex that counts.  With     *)
(* the pool's mutex, every task has one place until it has run, once.           *)
(***************************************************************************)
EXTENDS ElasticThreadPool, SequenceTheorems, TLAPS

\* The types of what the argument is about.
Shapes == /\ size \in 0 .. MaxThreads
          /\ at \in [Clients -> ClientPlaces]
          /\ arg \in [Clients -> Tasks \cup {None}]
          /\ index \in [Clients -> 1 .. MaxThreads + 1]
          /\ task \in [Workers -> Tasks \cup {None}]
          /\ dead \in [Workers -> BOOLEAN]
          /\ tokens \in [Workers -> Nat]
          /\ pc \in [Workers -> ThreadPlaces]

\* The loop of run is at a worker or one past the last; a wakeup is at one.
IndexInPool ==
  \A c \in Clients :
    /\ at[c] = "scanning" => index[c] <= size + 1
    /\ at[c] \in {"starting", "assigning", "waking"} => index[c] <= size

\* A worker has a thread or is dead, and those still to be made have nothing.
Made == \A w \in Workers :
          /\ w > size => task[w] = None /\ pc[w] = "none" /\ ~dead[w]
          /\ w <= size => (pc[w] = "none" <=> dead[w])

\* Between the two ends of a wakeup the worker has a thread: it cannot die.
HasThread ==
  \A c \in Clients : at[c] \in {"assigning", "waking"} => pc[index[c]] # "none"

IInv == Shapes /\ IndexInPool /\ Made /\ HasThread /\ DeadIsIdle /\ AssignmentAnnounced

\* A new pool has no worker and no client in it: the constructor, lines 38-53.
LEMMA InitInv == Init => IInv
<1> SUFFICES ASSUME Init PROVE IInv
  OBVIOUS
<1> USE DEF Init
<1>1. size \in 0 .. MaxThreads
  BY MaxThreadsPositive
<1>2. /\ at \in [Clients -> ClientPlaces]
      /\ index \in [Clients -> 1 .. MaxThreads + 1]
      /\ arg \in [Clients -> Tasks \cup {None}]
  BY MaxThreadsPositive DEF ClientPlaces
<1>3. /\ task \in [Workers -> Tasks \cup {None}]
      /\ tokens \in [Workers -> Nat]
      /\ pc \in [Workers -> ThreadPlaces]
  BY DEF ThreadPlaces
<1>4. dead \in [Workers -> BOOLEAN]
  BY Zenon
<1>5. IndexInPool /\ HasThread
  BY DEF IndexInPool, HasThread
<1>6. Made /\ DeadIsIdle /\ AssignmentAnnounced
  BY MaxThreadsPositive DEF Made, DeadIsIdle, AssignmentAnnounced, Unread, Workers
<1> QED
  BY <1>1, <1>2, <1>3, <1>4, <1>5, <1>6 DEF IInv, Shapes

-----------------------------------------------------------------------------
(* Steps of run and shutdown outside of the wakeup: the client moves, tokens     *)
(* may be added.                                                               *)
Elsewhere == {"idle", "locking", "scanning", "announcing", "closing", "telling"}

Moves(c, place) ==
  /\ UNCHANGED <<size, task, dead, pc>>
  /\ tokens' \in [Workers -> Nat]
  /\ \A w \in Workers : tokens'[w] >= tokens[w]
  /\ arg' \in [Clients -> Tasks \cup {None}]
  /\ index' \in [Clients -> 1 .. MaxThreads + 1]
  /\ \A d \in Clients \ {c} : index'[d] = index[d]
  /\ at[c] \in Elsewhere
  /\ at' = [at EXCEPT ![c] = place]
  /\ place = "scanning" => index'[c] <= size + 1
  /\ place = "starting" => index'[c] <= size

\* A step of run or shutdown that touches no task, thread or death keeps the invariant.
LEMMA MovesStep ==
  ASSUME IInv, NEW c \in Clients, NEW place \in Elsewhere \cup {"starting"}, Moves(c, place)
  PROVE  IInv'
<1> USE DEF IInv, Moves
<1>1. Shapes'
  BY DEF Shapes, ClientPlaces, Elsewhere
<1>2. \A d \in Clients : at'[d] = IF d = c THEN place ELSE at[d]
  BY DEF Shapes
<1>3. IndexInPool'
  BY <1>2 DEF IndexInPool, Elsewhere
<1>4. Made' /\ DeadIsIdle'
  BY DEF Made, DeadIsIdle
<1>5. HasThread'
  BY <1>2 DEF HasThread, Elsewhere
<1>6. AssignmentAnnounced'
  <2> SUFFICES ASSUME NEW w \in Workers, Unread(w)
               PROVE  /\ pc[w] # "none"
                      /\ \/ tokens'[w] > 0
                         \/ pc[w] = "woken"
                         \/ \E d \in Clients : at'[d] = "waking" /\ index'[d] = w
    BY DEF AssignmentAnnounced, Unread
  <2>1. /\ pc[w] # "none"
        /\ \/ tokens[w] > 0
           \/ pc[w] = "woken"
           \/ \E d \in Clients : at[d] = "waking" /\ index[d] = w
    BY DEF AssignmentAnnounced
  <2>2. CASE tokens[w] > 0
    <3>1. tokens'[w] >= tokens[w] /\ tokens[w] \in Nat /\ tokens'[w] \in Nat
      BY DEF Shapes
    <3> QED
      BY <2>1, <2>2, <3>1
  <2>3. ASSUME NEW d \in Clients, at[d] = "waking", index[d] = w
        PROVE  at'[d] = "waking" /\ index'[d] = w
    BY <1>2, <2>3 DEF Elsewhere
  <2> QED
    BY <2>1, <2>2, <2>3
<1> QED
  BY <1>1, <1>3, <1>4, <1>5, <1>6

\* The entries of run and shutdown, lines 60-62 and 96-98, are such steps.
LEMMA CallStep == ASSUME IInv, NEW c \in Clients, Call(c) PROVE IInv'
<1> USE DEF ClientGoes, poolVars, queueVars, callVars, fieldVars, threadVars
<1>0. Shapes
  BY DEF IInv
<1>1. ASSUME NEW k \in Tasks, RunRejected(c, k) PROVE IInv'
  BY <1>1 DEF RunRejected, IInv, Shapes, IndexInPool, Made, HasThread, DeadIsIdle,
     AssignmentAnnounced, Unread
<1>2. ASSUME NEW k \in Tasks, RunChecked(c, k) PROVE IInv'
  <2>1. Moves(c, "locking")
    BY <1>0, <1>2 DEF RunChecked, Moves, Shapes, Elsewhere
  <2> QED
    BY <2>1, MovesStep DEF Elsewhere
<1>3. CASE ShutdownChecked(c)
  <2>1. Moves(c, "closing")
    BY <1>0, <1>3 DEF ShutdownChecked, Moves, Shapes, Elsewhere
  <2> QED
    BY <2>1, MovesStep DEF Elsewhere
<1> QED
  BY <1>1, <1>2, <1>3 DEF Call

\* So are the scan of the workers, the overflow and the end of shutdown.
LEMMA PlainStep ==
  ASSUME IInv, NEW c \in Clients,
         \/ RunLocks(c) \/ ScanBusy(c) \/ ScanIdle(c) \/ Overflow(c) \/ Announce(c)
         \/ ShutdownLocks(c) \/ Tell(c) \/ ShutdownReturns(c)
  PROVE  IInv'
<1> USE DEF ClientGoes, poolVars, queueVars, callVars, fieldVars, threadVars
<1>0. Shapes /\ size \in Nat
  BY MaxThreadsPositive DEF IInv, Shapes
<1>1. ASSUME NEW place \in Elsewhere \cup {"starting"}, Moves(c, place) PROVE IInv'
  BY <1>1, MovesStep
<1>2. RunLocks(c) => Moves(c, "scanning")
  BY <1>0, MaxThreadsPositive DEF RunLocks, Moves, Shapes, Elsewhere
<1>3. ShutdownLocks(c) => Moves(c, "telling")
  BY <1>0, MaxThreadsPositive DEF ShutdownLocks, Moves, Shapes, Elsewhere
<1>4. ScanBusy(c) => Moves(c, "scanning")
  <2> SUFFICES ASSUME ScanBusy(c) PROVE Moves(c, "scanning")
    OBVIOUS
  <2>1. at' = [at EXCEPT ![c] = "scanning"] /\ at[c] = "scanning"
    BY <1>0 DEF ScanBusy, Shapes
  <2>2. index[c] + 1 \in 1 .. MaxThreads + 1 /\ index[c] + 1 <= size + 1
    BY <1>0, MaxThreadsPositive DEF ScanBusy, Shapes
  <2>3. index' = [index EXCEPT ![c] = index[c] + 1]
    BY Zenon DEF ScanBusy
  <2>4. index' \in [Clients -> 1 .. MaxThreads + 1] /\ index'[c] <= size + 1
    BY <1>0, <2>2, <2>3 DEF Shapes
  <2>5. \A d \in Clients \ {c} : index'[d] = index[d]
    BY <1>0, <2>3 DEF Shapes
  <2>6. UNCHANGED <<size, arg, task, dead, tokens, pc>>
    BY DEF ScanBusy
  <2>7. \A w \in Workers : tokens'[w] >= tokens[w]
    BY <1>0, <2>6 DEF Shapes
  <2> QED
    BY <1>0, <2>1, <2>4, <2>5, <2>6, <2>7 DEF Moves, Shapes, Elsewhere
<1>5. ScanIdle(c) => Moves(c, "starting")
  BY <1>0 DEF ScanIdle, Moves, Shapes, Elsewhere
<1>6. Overflow(c) => Moves(c, "announcing")
  BY <1>0 DEF Overflow, Moves, Shapes, Elsewhere
<1>7. ShutdownReturns(c) \/ Announce(c) => Moves(c, "idle")
  BY <1>0 DEF ShutdownReturns, Announce, RunReturns, Moves, Shapes, Elsewhere
<1>8. Tell(c) => Moves(c, "telling")
  <2> SUFFICES ASSUME Tell(c) PROVE Moves(c, "telling")
    OBVIOUS
  <2>1. at' = [at EXCEPT ![c] = "telling"] /\ at[c] = "telling"
    BY <1>0 DEF Tell, Shapes
  <2>2. index' \in [Clients -> 1 .. MaxThreads + 1]
    BY <1>0, MaxThreadsPositive DEF Tell, Shapes
  <2>3. tokens' \in [Workers -> Nat] /\ \A w \in Workers : tokens'[w] >= tokens[w]
    <3>1. index[c] \in Workers
      BY <1>0, MaxThreadsPositive DEF Tell, Shapes, Workers
    <3>2. tokens' = [tokens EXCEPT ![index[c]] = tokens[index[c]] + 1]
      BY DEF Tell
    <3>3. tokens[index[c]] \in Nat /\ tokens[index[c]] + 1 \in Nat
      BY <1>0, <3>1 DEF Shapes
    <3>4. tokens' \in [Workers -> Nat]
      BY <1>0, <3>2, <3>3 DEF Shapes
    <3>5. \A w \in Workers : tokens'[w] >= tokens[w]
      BY <1>0, <3>2, <3>3 DEF Shapes
    <3> QED
      BY <3>4, <3>5
  <2> QED
    BY <1>0, <2>1, <2>2, <2>3 DEF Tell, Moves, Shapes, Elsewhere
<1> QED
  BY <1>1, <1>2, <1>3, <1>4, <1>5, <1>6, <1>7, <1>8 DEF Elsewhere

-----------------------------------------------------------------------------
(* The new worker has a thread and nothing to do.                               *)
LEMMA NewWorkerStep == ASSUME IInv, NEW c \in Clients, NewWorker(c) PROVE IInv'
<1> USE DEF IInv, ClientGoes, fieldVars
<1>1. /\ size \in Nat /\ size' = size + 1 /\ size + 1 \in Workers
      /\ at' = [at EXCEPT ![c] = "starting"] /\ at[c] = "scanning"
      /\ index[c] = size + 1
      /\ pc' = [pc EXCEPT ![size + 1] = "waiting"]
      /\ UNCHANGED <<arg, index, task, dead, tokens>>
  BY MaxThreadsPositive DEF NewWorker, Shapes, IndexInPool, Workers
<1>2. Shapes'
  BY <1>1, MaxThreadsPositive DEF NewWorker, Shapes, ClientPlaces, ThreadPlaces
<1>3. \A d \in Clients : at'[d] = IF d = c THEN "starting" ELSE at[d]
  BY <1>1 DEF Shapes
<1>4. \A w \in Workers : pc'[w] = IF w = size + 1 THEN "waiting" ELSE pc[w]
  BY <1>1 DEF Shapes
<1>5. task[size + 1] = None /\ ~dead[size + 1]
  BY <1>1 DEF Made
<1>6. IndexInPool'
  BY <1>1, <1>3 DEF IndexInPool, Shapes
<1>7. Made'
  BY <1>1, <1>4, <1>5 DEF Made, Workers
<1>8. HasThread'
  <2>1. \A d \in Clients : at'[d] \in {"assigning", "waking"} => index[d] \in Workers
    BY <1>1, <1>3, MaxThreadsPositive DEF IndexInPool, Shapes, Workers
  <2> QED
    BY <1>1, <1>3, <1>4, <2>1 DEF HasThread
<1>9. DeadIsIdle'
  BY <1>1, <1>4, <1>5 DEF DeadIsIdle
<1>10. AssignmentAnnounced'
  BY <1>1, <1>3, <1>4, <1>5 DEF AssignmentAnnounced, Unread
<1> QED
  BY <1>2, <1>6, <1>7, <1>8, <1>9, <1>10

(* wakeup revives a dead worker, which has no task.                             *)
LEMMA WakeStartStep == ASSUME IInv, NEW c \in Clients, WakeStart(c) PROVE IInv'
<1> USE DEF IInv, ClientGoes
<1> DEFINE v == index[c]
<1>1. /\ at[c] = "starting" /\ v \in Workers /\ v <= size
      /\ at' = [at EXCEPT ![c] = "assigning"]
      /\ dead' = [dead EXCEPT ![v] = FALSE]
      /\ pc' = [pc EXCEPT ![v] = IF dead[v] THEN "waiting" ELSE @]
      /\ UNCHANGED <<size, arg, index, task, tokens>>
  BY MaxThreadsPositive DEF WakeStart, Shapes, IndexInPool, Workers, poolVars
<1>2. Shapes'
  BY <1>1 DEF Shapes, ClientPlaces, ThreadPlaces
<1>3. \A d \in Clients : at'[d] = IF d = c THEN "assigning" ELSE at[d]
  BY <1>1 DEF Shapes
<1>4. \A w \in Workers : /\ dead'[w] = IF w = v THEN FALSE ELSE dead[w]
                         /\ pc'[w] = IF w = v /\ dead[v] THEN "waiting" ELSE pc[w]
  BY <1>1 DEF Shapes
<1>5. pc'[v] # "none"
  <2>1. pc[v] = "none" <=> dead[v]
    BY <1>1 DEF Made
  <2>2. pc'[v] = IF dead[v] THEN "waiting" ELSE pc[v]
    BY <1>1 DEF Shapes
  <2> QED
    BY <2>1, <2>2, Zenon
<1>6. IndexInPool'
  BY <1>1, <1>3 DEF IndexInPool
<1>7. Made'
  BY <1>1, <1>4, <1>5 DEF Made, Shapes, Workers
<1>8. HasThread'
  <2>1. \A d \in Clients : at'[d] \in {"assigning", "waking"} => index[d] \in Workers
    BY <1>1, <1>3, MaxThreadsPositive DEF IndexInPool, Shapes, Workers
  <2> QED
    BY <1>1, <1>3, <1>4, <1>5, <2>1 DEF HasThread
<1>9. DeadIsIdle'
  BY <1>1, <1>4 DEF DeadIsIdle
<1>10. AssignmentAnnounced'
  BY <1>1, <1>3, <1>4 DEF AssignmentAnnounced, Unread, DeadIsIdle
<1> QED
  BY <1>2, <1>6, <1>7, <1>8, <1>9, <1>10

(* The task is there, and the client that put it there will release the Lock.    *)
LEMMA WakeAssignStep == ASSUME IInv, NEW c \in Clients, WakeAssign(c) PROVE IInv'
<1> USE DEF IInv, ClientGoes
<1> DEFINE v == index[c]
<1>1. /\ at[c] = "assigning" /\ v \in Workers /\ v <= size
      /\ at' = [at EXCEPT ![c] = "waking"]
      /\ task' = [task EXCEPT ![v] = arg[c]]
      /\ UNCHANGED <<size, arg, index, dead, tokens, pc>>
  BY MaxThreadsPositive DEF WakeAssign, Shapes, IndexInPool, Workers, poolVars, threadVars
<1>2. Shapes'
  BY <1>1 DEF Shapes, ClientPlaces
<1>3. \A d \in Clients : at'[d] = IF d = c THEN "waking" ELSE at[d]
  BY <1>1 DEF Shapes
<1>4. \A w \in Workers \ {v} : task'[w] = task[w]
  BY <1>1 DEF Shapes
<1>5. pc[v] # "none" /\ ~dead[v]
  BY <1>1 DEF HasThread, DeadIsIdle
<1>6. IndexInPool' /\ HasThread'
  BY <1>1, <1>3 DEF IndexInPool, HasThread
<1>7. Made'
  BY <1>1, <1>4 DEF Made, Shapes, Workers
<1>8. DeadIsIdle'
  BY <1>1, <1>4, <1>5 DEF DeadIsIdle
<1>9. AssignmentAnnounced'
  BY <1>1, <1>3, <1>4, <1>5 DEF AssignmentAnnounced, Unread
<1> QED
  BY <1>2, <1>6, <1>7, <1>8, <1>9

(* The wakeup is now in the Lock.                                               *)
LEMMA WakeStep == ASSUME IInv, NEW c \in Clients, Wake(c) PROVE IInv'
<1> USE DEF IInv, ClientGoes
<1> DEFINE v == index[c]
<1>1. /\ at[c] = "waking" /\ v \in Workers
      /\ at' = [at EXCEPT ![c] = "idle"]
      /\ arg' = [arg EXCEPT ![c] = None]
      /\ tokens' = [tokens EXCEPT ![v] = @ + 1]
      /\ UNCHANGED <<size, index, task, dead, pc>>
  BY MaxThreadsPositive
     DEF Wake, RunReturns, Shapes, IndexInPool, Workers, poolVars, threadVars
<1>2. Shapes'
  BY <1>1 DEF Shapes, ClientPlaces
<1>3. \A d \in Clients : at'[d] = IF d = c THEN "idle" ELSE at[d]
  BY <1>1 DEF Shapes
<1>4. \A w \in Workers : tokens'[w] = IF w = v THEN tokens[w] + 1 ELSE tokens[w]
  BY <1>1 DEF Shapes
<1>5. tokens'[v] > 0
  BY <1>1, <1>4 DEF Shapes
<1>6. IndexInPool' /\ HasThread' /\ Made' /\ DeadIsIdle'
  BY <1>1, <1>3 DEF IndexInPool, HasThread, Made, DeadIsIdle
<1>7. AssignmentAnnounced'
  BY <1>1, <1>3, <1>4, <1>5 DEF AssignmentAnnounced, Unread
<1> QED
  BY <1>2, <1>6, <1>7

-----------------------------------------------------------------------------
(* Steps of the thread of v: it has one before, and no other worker is touched.  *)
LEMMA ThreadFrame ==
  ASSUME IInv, NEW v \in Workers, pc[v] # "none",
         UNCHANGED <<size, at, arg, index>>,
         NEW place \in ThreadPlaces, pc' = [pc EXCEPT ![v] = place],
         task' = task \/ task' = [task EXCEPT ![v] = None],
         dead' \in [Workers -> BOOLEAN],
         \A w \in Workers \ {v} : dead'[w] = dead[w],
         dead'[v] <=> place = "none",
         place = "none" => task'[v] = None /\ DeathMutexFree(v),
         tokens' \in [Workers -> Nat],
         \A w \in Workers \ {v} : tokens'[w] = tokens[w],
         Unread(v)' => \/ tokens'[v] > 0
                       \/ place = "woken"
                       \/ \E c \in Clients : at[c] = "waking" /\ index[c] = v
  PROVE  IInv'
<1> USE DEF IInv
<1>1. /\ \A w \in Workers : pc'[w] = IF w = v THEN place ELSE pc[w]
      /\ \A w \in Workers \ {v} : task'[w] = task[w]
      /\ task' \in [Workers -> Tasks \cup {None}]
  BY DEF Shapes
<1>2. v <= size
  BY DEF Made, Shapes, Workers
<1>3. Shapes'
  BY <1>1 DEF Shapes
<1>4. IndexInPool'
  BY DEF IndexInPool
<1>5. Made'
  BY <1>1, <1>2 DEF Made, Shapes, Workers
<1>6. HasThread'
  <2>1. \A d \in Clients : at[d] \in {"assigning", "waking"} => index[d] \in Workers
    BY MaxThreadsPositive DEF IndexInPool, Shapes, Workers
  <2> QED
    BY <1>1, <2>1 DEF HasThread, DeathMutexFree
<1>7. DeadIsIdle'
  BY <1>1 DEF DeadIsIdle
<1>8. AssignmentAnnounced'
  <2> SUFFICES ASSUME NEW w \in Workers, Unread(w)'
               PROVE  /\ pc'[w] # "none"
                      /\ \/ tokens'[w] > 0
                         \/ pc'[w] = "woken"
                         \/ \E c \in Clients : at'[c] = "waking" /\ index'[c] = w
    BY DEF AssignmentAnnounced
  <2>1. CASE w = v
    BY <1>1, <2>1 DEF Unread
  <2>2. CASE w # v
    BY <1>1, <2>2 DEF AssignmentAnnounced, Unread
  <2> QED
    BY <2>1, <2>2
<1> QED
  BY <1>3, <1>4, <1>5, <1>6, <1>7, <1>8

\* Every step of a worker's loop, its death and its restart keep the invariant.
LEMMA ThreadStepKeeps ==
  ASSUME IInv, NEW w \in Workers, ThreadStep(w) \/ TimedOut(w) PROVE IInv'
<1> USE DEF ThreadGoes, poolVars, callVars, fieldVars, threadVars
<1>0. Shapes /\ Made /\ DeadIsIdle /\ AssignmentAnnounced
  BY DEF IInv
<1>1. pc[w] # "none" => ~dead[w]
  BY <1>0 DEF DeadIsIdle
<1>2. CASE Woken(w)
  <2>1. tokens' \in [Workers -> Nat] /\ \A u \in Workers \ {w} : tokens'[u] = tokens[u]
    BY <1>0, <1>2 DEF Woken, Shapes
  <2> QED
    BY <1>0, <1>1, <1>2, <2>1, ThreadFrame DEF Woken, Shapes, ThreadPlaces
<1>3. CASE TimedOut(w)
  <2>1. Unread(w)' => \E c \in Clients : at[c] = "waking" /\ index[c] = w
    BY <1>0, <1>3 DEF TimedOut, Unread, AssignmentAnnounced
  <2> QED
    BY <1>0, <1>1, <1>3, <2>1, ThreadFrame DEF TimedOut, Shapes, ThreadPlaces
<1>4. CASE NoTask(w)
  <2>1. PICK place \in {"dying", "waiting"} : pc' = [pc EXCEPT ![w] = place]
    BY <1>4 DEF NoTask
  <2>2. ~Unread(w)'
    BY <1>4 DEF NoTask, Unread
  <2> QED
    BY <1>0, <1>1, <1>4, <2>1, <2>2, ThreadFrame DEF NoTask, Shapes, ThreadPlaces
<1>5. CASE ReadTask(w) \/ Finish(w) \/ PopTask(w) \/ PopNull(w)
  <2>1. PICK place \in {"running", "caught", "draining", "clearing"} :
          pc' = [pc EXCEPT ![w] = place]
    BY <1>5 DEF ReadTask, Finish, PopTask, PopNull
  <2>2. ~Unread(w)'
    BY <1>0, <2>1 DEF Unread, Shapes
  <2>3. pc[w] # "none" /\ UNCHANGED <<size, at, arg, index, task, dead, tokens>>
    BY <1>5 DEF ReadTask, Finish, PopTask, PopNull
  <2> QED
    BY <1>0, <1>1, <2>1, <2>2, <2>3, ThreadFrame DEF Shapes, ThreadPlaces
<1>6. CASE Clear(w) \/ Catch(w)
  <2>1. PICK place \in {"waiting", "restarting"} : pc' = [pc EXCEPT ![w] = place]
    BY <1>6 DEF Clear, Catch
  <2>2. ~Unread(w)'
    BY <1>0, <1>6 DEF Clear, Catch, Unread, Shapes
  <2>3. pc[w] # "none" /\ UNCHANGED <<size, at, arg, index, dead, tokens>>
        /\ task' = [task EXCEPT ![w] = None]
    BY <1>6 DEF Clear, Catch
  <2> QED
    BY <1>0, <1>1, <2>1, <2>2, <2>3, ThreadFrame DEF Shapes, ThreadPlaces
<1>7. CASE Die(w)
  <2> DEFINE place == IF task[w] = None THEN "none" ELSE "waiting"
  <2>1. /\ pc[w] = "dying" /\ DeathMutexFree(w)
        /\ pc' = [pc EXCEPT ![w] = place]
        /\ UNCHANGED <<size, at, arg, index, task, tokens>>
    BY <1>7 DEF Die
  <2>2. /\ dead' \in [Workers -> BOOLEAN]
        /\ \A u \in Workers \ {w} : dead'[u] = dead[u]
        /\ dead'[w] <=> task[w] = None
    BY <1>0, <1>7 DEF Die, Shapes
  <2>3. Unread(w)' => tokens[w] > 0
    BY <1>0, <2>1 DEF Unread, AssignmentAnnounced, DeathMutexFree, Shapes
  <2>4. place \in ThreadPlaces /\ (place = "none" <=> task[w] = None)
    BY DEF ThreadPlaces
  <2> HIDE DEF place
  <2> QED
    BY <1>0, <2>1, <2>2, <2>3, <2>4, ThreadFrame DEF Shapes
<1>8. CASE Restart(w)
  <2>1. /\ dead' \in [Workers -> BOOLEAN]
        /\ \A u \in Workers \ {w} : dead'[u] = dead[u]
        /\ ~dead'[w]
    BY <1>0, <1>8 DEF Restart, Shapes
  <2>2. Unread(w)' => Unread(w)
    BY <1>8 DEF Restart, Unread
  <2>3. pc[w] = "restarting" /\ pc' = [pc EXCEPT ![w] = "waiting"]
        /\ UNCHANGED <<size, at, arg, index, task, tokens>>
    BY <1>8 DEF Restart
  <2>4. Unread(w)' => \/ tokens[w] > 0
                     \/ \E c \in Clients : at[c] = "waking" /\ index[c] = w
    BY <1>0, <2>2, <2>3 DEF AssignmentAnnounced
  <2> QED
    BY <1>0, <2>1, <2>3, <2>4, ThreadFrame DEF Shapes, ThreadPlaces
<1> QED
  BY <1>2, <1>3, <1>4, <1>5, <1>6, <1>7, <1>8 DEF ThreadStep

-----------------------------------------------------------------------------
\* The conjunction is inductive: it holds in every state that is reached.
THEOREM Inductive == Spec => []IInv
<1>1. IInv /\ [Next]_vars => IInv'
  <2> SUFFICES ASSUME IInv, [Next]_vars PROVE IInv'
    OBVIOUS
  <2>1. ASSUME NEW c \in Clients, Call(c) \/ ClientStep(c) PROVE IInv'
    BY <2>1, CallStep, PlainStep, NewWorkerStep, WakeStartStep, WakeAssignStep, WakeStep
       DEF ClientStep
  <2>2. ASSUME NEW w \in Workers, ThreadStep(w) \/ TimedOut(w) PROVE IInv'
    BY <2>2, ThreadStepKeeps
  <2>3. CASE UNCHANGED vars
    BY <2>3 DEF vars, poolVars, callVars, fieldVars, threadVars, IInv, Shapes, IndexInPool,
       Made, HasThread, DeadIsIdle, AssignmentAnnounced, Unread
  <2> QED
    BY <2>1, <2>2, <2>3 DEF Next
<1> QED
  BY <1>1, InitInv, PTL DEF Spec

(* A task that a client gives to a worker is announced to a thread of it until   *)
(* it is read, although the worker may time out, die, be revived, throw and be     *)
(* told to stop at the same moment: ElasticThreadPool.hx 132-139 against 170-180.   *)
THEOREM AssignmentsAreAnnounced == Spec => []AssignmentAnnounced
BY Inductive, PTL DEF IInv

(* A dead worker has no task and no thread, so that reviving it loses nothing.     *)
THEOREM DeadAreIdle == Spec => []DeadIsIdle
BY Inductive, PTL DEF IInv

-----------------------------------------------------------------------------
(* Where a task is.  Here the argument needs the pool's mutex: the worker that    *)
(* run found idle stays so until run has given it the task.                    *)

Placed == /\ queue \in Seq(Tasks) /\ announced \in Nat
          /\ status \in [Tasks -> {"new", "calling", "accepted", "rejected"}]
          /\ doing \in [Workers -> Tasks \cup {None}]
          /\ ran \in [Tasks -> Nat]

Inside == {"scanning", "starting", "assigning", "waking", "announcing", "telling"}

\* The pool's mutex excludes.
Exclusive == \A c \in Clients : at[c] \in Inside => holder = c

\* The worker run has chosen is idle, and only run may change that.
FoundIdle == \A c \in Clients : at[c] \in {"starting", "assigning"} => task[index[c]] = None

\* A worker keeps its first task until the queue is drained.
Busy == \A w \in Workers :
          /\ pc[w] \in {"running", "draining", "clearing", "caught"} => task[w] # None
          /\ pc[w] = "running" <=> doing[w] # None

\* Calls of run have different tasks.
CallsApart ==
  /\ \A c \in Clients : /\ arg[c] # None <=> InRun(c)
                        /\ arg[c] # None => status[arg[c]] = "calling"
  /\ \A c, d \in Clients : arg[c] = arg[d] /\ arg[c] # None => c = d

\* Only the last element of the queue may be unannounced.
AnnouncedLast == /\ announced <= Len(queue)
                 /\ \A c \in Clients : at[c] = "announcing" => announced < Len(queue)

LEMMA NoneIsNobody == None \notin Tasks /\ None \notin Clients
BY NoneOutside

LEMMA PlacedStep ==
  ASSUME IInv, Placed, Busy, CallsApart, AnnouncedLast, [Next]_vars PROVE Placed'
<1> USE DEF IInv, Shapes, Placed
<1>1. ASSUME NEW c \in Clients, Call(c) PROVE Placed'
  BY <1>1 DEF Call, ShutdownChecked, RunRejected, RunChecked, queueVars, threadVars
<1>2. ASSUME NEW c \in Clients, ClientStep(c) PROVE Placed'
  <2>1. CASE RunLocks(c) \/ ScanBusy(c) \/ ScanIdle(c) \/ NewWorker(c) \/ WakeStart(c)
             \/ WakeAssign(c) \/ ShutdownLocks(c) \/ Tell(c) \/ ShutdownReturns(c)
    BY <2>1 DEF RunLocks, ScanBusy, ScanIdle, NewWorker, WakeStart, WakeAssign,
       ShutdownLocks, Tell, ShutdownReturns, queueVars, threadVars
  <2>2. CASE Announce(c) \/ Wake(c)
    <3>1. /\ status' = [status EXCEPT ![arg[c]] = "accepted"]
          /\ announced' \in {announced, announced + 1} /\ UNCHANGED <<queue, doing, ran>>
      BY <2>2 DEF Announce, Wake, RunReturns, queueVars, threadVars
    <3>2. announced' \in Nat
      BY <3>1
    <3>3. status' \in [Tasks -> {"new", "calling", "accepted", "rejected"}]
      BY <3>1
    <3> QED
      BY <3>1, <3>2, <3>3
  <2>3. CASE Overflow(c)
    <3>1. arg[c] \in Tasks
      BY <2>3 DEF Overflow, ClientGoes, CallsApart, InRun
    <3> QED
      BY <2>3, <3>1, AppendProperties DEF Overflow, threadVars
  <2> QED
    BY <1>2, <2>1, <2>2, <2>3 DEF ClientStep
<1>3. ASSUME NEW w \in Workers, ThreadStep(w) \/ TimedOut(w) PROVE Placed'
  <2>1. CASE Woken(w) \/ TimedOut(w) \/ NoTask(w) \/ ReadTask(w) \/ PopNull(w) \/ Clear(w)
             \/ Die(w) \/ Catch(w) \/ Restart(w)
    BY <2>1 DEF Woken, TimedOut, NoTask, ReadTask, PopNull, Clear, Die, Catch, Restart,
       queueVars, callVars
  <2>2. CASE Finish(w)
    <3>1. doing[w] \in Tasks
      BY <2>2 DEF Finish, Busy
    <3>2. ran[doing[w]] + 1 \in Nat
      BY <3>1
    <3> QED
      BY <2>2, <3>1, <3>2 DEF Finish, queueVars, callVars
  <2>3. CASE PopTask(w)
    <3>1. Len(queue) \in Nat /\ announced > 0 /\ announced <= Len(queue)
      BY <2>3 DEF PopTask, AnnouncedLast
    <3>2. queue # <<>>
      BY <3>1, EmptySeq
    <3>3. Head(queue) \in Tasks /\ Tail(queue) \in Seq(Tasks)
      BY <3>2, HeadTailProperties
    <3> QED
      BY <2>3, <3>1, <3>3 DEF PopTask, callVars
  <2> QED
    BY <1>3, <2>1, <2>2, <2>3 DEF ThreadStep
<1>4. CASE UNCHANGED vars
  BY <1>4 DEF vars, queueVars, callVars, threadVars
<1> QED
  BY <1>1, <1>2, <1>3, <1>4 DEF Next

LEMMA ExclusiveStep == ASSUME IInv, Exclusive, [Next]_vars PROVE Exclusive'
<1>1. Shapes
  BY DEF IInv
<1>2. ASSUME NEW c \in Clients, Call(c) \/ ClientStep(c) PROVE Exclusive'
  <2>1. CASE Call(c)
    BY <1>1, <2>1 DEF Call, ShutdownChecked, RunRejected, RunChecked, ClientGoes, Shapes, Exclusive, Inside
  <2>2. CASE RunLocks(c) \/ ShutdownLocks(c)
    BY <1>1, <2>2, NoneIsNobody DEF RunLocks, ShutdownLocks, ClientGoes, Shapes, Exclusive, Inside
  <2>3. CASE ScanBusy(c) \/ ScanIdle(c) \/ NewWorker(c) \/ Overflow(c) \/ WakeStart(c) \/ WakeAssign(c) \/ Tell(c)
    BY <1>1, <2>3 DEF ScanBusy, ScanIdle, NewWorker, Overflow, WakeStart, WakeAssign, Tell, ClientGoes, Shapes, Exclusive, Inside
  <2>4. CASE Announce(c) \/ Wake(c) \/ ShutdownReturns(c)
    BY <1>1, <2>4 DEF Announce, Wake, ShutdownReturns, RunReturns, ClientGoes, Shapes, Exclusive, Inside
  <2> QED
    BY <1>2, <2>1, <2>2, <2>3, <2>4 DEF ClientStep
<1>3. ASSUME NEW w \in Workers, ThreadStep(w) \/ TimedOut(w) PROVE UNCHANGED callVars
  BY <1>3 DEF ThreadStep, TimedOut, Woken, NoTask, ReadTask, Finish, PopTask, PopNull, Clear,
     Die, Catch, Restart
<1>4. CASE UNCHANGED callVars
  BY <1>4 DEF callVars, Exclusive
<1> QED
  BY <1>2, <1>3, <1>4 DEF Next, vars

LEMMA FoundIdleStep ==
  ASSUME IInv, IInv', Exclusive, FoundIdle, [Next]_vars PROVE FoundIdle'
<1>1. Shapes /\ IndexInPool /\ Made
  BY DEF IInv
<1> DEFINE Chosen(d) == at[d] \in {"starting", "assigning"}
<1>2. ASSUME NEW c \in Clients, Call(c) \/ ClientStep(c) PROVE FoundIdle'
  <2>1. CASE Call(c)
    BY <1>1, <2>1 DEF Call, ShutdownChecked, RunRejected, RunChecked, ClientGoes, Shapes,
       FoundIdle, fieldVars
  <2>2. CASE RunLocks(c) \/ ShutdownLocks(c) \/ ScanBusy(c) \/ Tell(c)
    BY <1>1, <2>2 DEF RunLocks, ShutdownLocks, ScanBusy, Tell, ClientGoes, Shapes, FoundIdle, fieldVars
  <2>3. CASE ScanIdle(c) \/ Overflow(c) \/ WakeStart(c) \/ Announce(c) \/ Wake(c) \/ ShutdownReturns(c)
    BY <1>1, <2>3 DEF ScanIdle, Overflow, WakeStart, Announce, Wake, ShutdownReturns, RunReturns,
       ClientGoes, Shapes, FoundIdle, fieldVars
  <2>4. CASE NewWorker(c)
    <3>1. size + 1 \in Workers /\ index[c] = size + 1 /\ size \in Nat
      BY <1>1, <2>4, MaxThreadsPositive DEF NewWorker, ClientGoes, Shapes, IndexInPool, Workers
    <3>2. task[index[c]] = None
      BY <1>1, <3>1 DEF Made
    <3> QED
      BY <1>1, <2>4, <3>2 DEF NewWorker, ClientGoes, Shapes, FoundIdle, fieldVars
  <2>5. CASE WakeAssign(c)
    <3>1. \A d \in Clients : at'[d] \in {"starting", "assigning"} => FALSE
      BY <1>1, <2>5 DEF WakeAssign, ClientGoes, Shapes, Exclusive, Inside
    <3> QED
      BY <3>1 DEF FoundIdle
  <2> QED
    BY <1>2, <2>1, <2>2, <2>3, <2>4, <2>5 DEF ClientStep
<1>3. ASSUME NEW w \in Workers, ThreadStep(w) \/ TimedOut(w) PROVE FoundIdle'
  <2>1. UNCHANGED callVars /\ (task' = task \/ task' = [task EXCEPT ![w] = None])
    BY <1>3 DEF ThreadStep, TimedOut, Woken, NoTask, ReadTask, Finish, PopTask, PopNull, Clear,
       Die, Catch, Restart, fieldVars
  <2>2. \A d \in Clients : at[d] \in {"starting", "assigning"} => index[d] \in Workers
    BY <1>1, MaxThreadsPositive DEF IndexInPool, Shapes, Workers
  <2> QED
    BY <1>1, <2>1, <2>2 DEF callVars, FoundIdle, Shapes
<1>4. CASE UNCHANGED vars
  BY <1>4 DEF vars, callVars, fieldVars, FoundIdle
<1> QED
  BY <1>2, <1>3, <1>4 DEF Next

LEMMA BusyStep ==
  ASSUME IInv, Placed, FoundIdle, Busy, AnnouncedLast, [Next]_vars PROVE Busy'
<1>1. Shapes /\ IndexInPool /\ Made
  BY DEF IInv
<1>2. ASSUME NEW c \in Clients, Call(c) \/ ClientStep(c) PROVE Busy'
  <2>1. CASE Call(c)
    BY <2>1 DEF Call, ShutdownChecked, RunRejected, RunChecked, Busy, fieldVars, threadVars
  <2>2. CASE RunLocks(c) \/ ShutdownLocks(c) \/ ScanBusy(c) \/ Tell(c) \/ ScanIdle(c) \/ Overflow(c)
             \/ Announce(c) \/ Wake(c) \/ ShutdownReturns(c)
    BY <2>2 DEF RunLocks, ShutdownLocks, ScanBusy, Tell, ScanIdle, Overflow, Announce, Wake,
       ShutdownReturns, Busy, fieldVars, threadVars
  <2>3. CASE NewWorker(c)
    <3>1. size + 1 \in Workers /\ pc[size + 1] = "none" /\ pc' = [pc EXCEPT ![size + 1] = "waiting"]
          /\ UNCHANGED <<task, doing>>
      BY <1>1, <2>3, MaxThreadsPositive
         DEF NewWorker, ClientGoes, Shapes, IndexInPool, Made, Workers, fieldVars
    <3> QED
      BY <1>1, <3>1 DEF Busy, Shapes
  <2>4. CASE WakeStart(c)
    <3>1. index[c] \in Workers /\ index[c] <= size
      BY <1>1, <2>4, MaxThreadsPositive DEF WakeStart, ClientGoes, Shapes, IndexInPool, Workers
    <3>2. (dead[index[c]] => pc[index[c]] = "none") /\ UNCHANGED <<task, doing>>
      BY <1>1, <2>4, <3>1 DEF WakeStart, Made
    <3>3. \A w \in Workers : pc'[w] = pc[w] \/ (pc[w] = "none" /\ pc'[w] = "waiting")
      BY <1>1, <2>4, <3>1, <3>2 DEF WakeStart, Shapes
    <3> QED
      BY <3>2, <3>3 DEF Busy
  <2>5. CASE WakeAssign(c)
    <3>1. /\ index[c] \in Workers /\ task[index[c]] = None
          /\ task' = [task EXCEPT ![index[c]] = arg[c]] /\ UNCHANGED <<pc, doing>>
      BY <1>1, <2>5, MaxThreadsPositive
         DEF WakeAssign, ClientGoes, Shapes, IndexInPool, Workers, FoundIdle, threadVars
    <3>2. pc[index[c]] \notin {"running", "draining", "clearing", "caught"}
      BY <3>1 DEF Busy
    <3> QED
      BY <1>1, <3>1, <3>2 DEF Busy, Shapes
  <2> QED
    BY <1>2, <2>1, <2>2, <2>3, <2>4, <2>5 DEF ClientStep
<1>3. ASSUME NEW w \in Workers, ThreadStep(w) \/ TimedOut(w) PROVE Busy'
  <2> USE <1>1 DEF ThreadGoes, fieldVars, Busy, Shapes, Placed
  <2>1. CASE Woken(w) \/ TimedOut(w) \/ PopNull(w) \/ Restart(w)
    BY <2>1 DEF Woken, TimedOut, PopNull, Restart
  <2>2. CASE NoTask(w) \/ Die(w)
    BY <2>2 DEF NoTask, Die
  <2>3. CASE ReadTask(w)
    BY <2>3 DEF ReadTask
  <2>4. CASE Finish(w)
    BY <2>4 DEF Finish
  <2>5. CASE PopTask(w)
    <3>1. Len(queue) \in Nat /\ announced > 0 /\ announced <= Len(queue)
      BY <2>5 DEF PopTask, AnnouncedLast
    <3>2. Head(queue) \in Tasks
      BY <3>1, EmptySeq, HeadTailProperties
    <3> QED
      BY <2>5, <3>2, NoneIsNobody DEF PopTask
  <2>6. CASE Clear(w) \/ Catch(w)
    BY <2>6 DEF Clear, Catch
  <2> QED
    BY <1>3, <2>1, <2>2, <2>3, <2>4, <2>5, <2>6 DEF ThreadStep
<1>4. CASE UNCHANGED vars
  BY <1>4 DEF vars, fieldVars, threadVars, Busy
<1> QED
  BY <1>2, <1>3, <1>4 DEF Next

LEMMA CallsApartStep ==
  ASSUME IInv, Placed, CallsApart, [Next]_vars PROVE CallsApart'
<1>1. Shapes
  BY DEF IInv
<1>2. ASSUME NEW c \in Clients, Call(c) \/ ClientStep(c) PROVE CallsApart'
  <2> USE <1>1 DEF ClientGoes, Shapes, CallsApart, InRun
  <2>1. CASE ShutdownChecked(c)
    BY <2>1 DEF ShutdownChecked
  <2>2. ASSUME NEW k \in Tasks, RunRejected(c, k) PROVE CallsApart'
    BY <2>2 DEF RunRejected, Placed
  <2>3. ASSUME NEW k \in Tasks, RunChecked(c, k) PROVE CallsApart'
    BY <2>3, NoneIsNobody DEF RunChecked, Placed
  <2>4. CASE RunLocks(c) \/ ScanBusy(c) \/ ScanIdle(c) \/ NewWorker(c) \/ Overflow(c)
             \/ WakeStart(c) \/ WakeAssign(c)
    BY <2>4 DEF RunLocks, ScanBusy, ScanIdle, NewWorker, Overflow, WakeStart, WakeAssign
  <2>5. CASE ShutdownLocks(c) \/ Tell(c) \/ ShutdownReturns(c)
    BY <2>5 DEF ShutdownLocks, Tell, ShutdownReturns
  <2>6. CASE Announce(c) \/ Wake(c)
    <3>1. /\ at[c] \in {"announcing", "waking"} /\ at' = [at EXCEPT ![c] = "idle"]
          /\ arg' = [arg EXCEPT ![c] = None] /\ status' = [status EXCEPT ![arg[c]] = "accepted"]
      BY <2>6 DEF Announce, Wake, RunReturns
    <3>2. arg[c] \in Tasks
      BY <3>1
    <3> QED
      BY <3>1, <3>2 DEF Placed
  <2> QED
    BY <1>2, <2>1, <2>2, <2>3, <2>4, <2>5, <2>6 DEF ClientStep, Call
<1>3. ASSUME NEW w \in Workers, ThreadStep(w) \/ TimedOut(w) PROVE UNCHANGED callVars
  BY <1>3 DEF ThreadStep, TimedOut, Woken, NoTask, ReadTask, Finish, PopTask, PopNull, Clear,
     Die, Catch, Restart
<1>4. CASE UNCHANGED callVars
  BY <1>4 DEF callVars, CallsApart, InRun
<1> QED
  BY <1>2, <1>3, <1>4 DEF Next, vars

LEMMA AnnouncedLastStep ==
  ASSUME IInv, Placed, Exclusive, CallsApart, AnnouncedLast, [Next]_vars PROVE AnnouncedLast'
<1>1. Shapes /\ Len(queue) \in Nat
  BY DEF IInv, Placed
<1>2. ASSUME NEW c \in Clients, Call(c) \/ ClientStep(c) PROVE AnnouncedLast'
  <2> USE <1>1 DEF ClientGoes, Shapes, AnnouncedLast, queueVars
  <2>1. CASE Call(c)
    BY <2>1 DEF Call, ShutdownChecked, RunRejected, RunChecked
  <2>2. CASE RunLocks(c) \/ ScanBusy(c) \/ ScanIdle(c) \/ NewWorker(c) \/ WakeStart(c)
             \/ WakeAssign(c)
    BY <2>2 DEF RunLocks, ScanBusy, ScanIdle, NewWorker, WakeStart, WakeAssign
  <2>3. CASE ShutdownLocks(c) \/ Tell(c) \/ ShutdownReturns(c) \/ Wake(c)
    BY <2>3 DEF ShutdownLocks, Tell, ShutdownReturns, Wake, RunReturns
  <2>4. CASE Overflow(c)
    <3>1. arg[c] \in Tasks
      BY <2>4 DEF Overflow, CallsApart, InRun
    <3>2. Len(queue') = Len(queue) + 1 /\ announced' = announced
      BY <2>4, <3>1, AppendProperties DEF Overflow, Placed
    <3> QED
      BY <3>2 DEF Placed
  <2>5. CASE Announce(c)
    <3>1. \A d \in Clients : at'[d] # "announcing"
      BY <2>5 DEF Announce, RunReturns, Exclusive, Inside
    <3>2. announced' = announced + 1 /\ announced < Len(queue) /\ queue' = queue
      BY <2>5 DEF Announce, RunReturns
    <3> QED
      BY <3>1, <3>2 DEF Placed
  <2> QED
    BY <1>2, <2>1, <2>2, <2>3, <2>4, <2>5 DEF ClientStep
<1>3. ASSUME NEW w \in Workers, PopTask(w) PROVE AnnouncedLast'
  <2>1. queue # <<>> /\ announced' = announced - 1 /\ queue' = Tail(queue) /\ at' = at
    BY <1>1, <1>3, EmptySeq DEF PopTask, AnnouncedLast, callVars, Placed
  <2>2. Len(queue') = Len(queue) - 1
    BY <2>1, HeadTailProperties DEF Placed
  <2> QED
    BY <1>1, <2>1, <2>2 DEF AnnouncedLast, Placed
<1>4. ASSUME NEW w \in Workers, (ThreadStep(w) /\ ~PopTask(w)) \/ TimedOut(w)
      PROVE  UNCHANGED <<callVars, queueVars>>
  BY <1>4 DEF ThreadStep, TimedOut, Woken, NoTask, ReadTask, Finish, PopNull, Clear,
     Die, Catch, Restart
<1>5. CASE UNCHANGED <<callVars, queueVars>>
  BY <1>5 DEF callVars, queueVars, AnnouncedLast
<1> QED
  BY <1>2, <1>3, <1>4, <1>5 DEF Next, vars, ThreadStep

-----------------------------------------------------------------------------
(* The places of a task: the queue, the field of a worker that has yet to read    *)
(* it, a worker's hands, and the call that is still to place it.                *)

Field(w) == IF Unread(w) THEN task[w] ELSE None
Offer(c) == IF at[c] \in {"waking", "announcing"} THEN None ELSE arg[c]

OnePlace ==
  /\ \A i, j \in DOMAIN queue : queue[i] = queue[j] => i = j
  /\ \A i \in DOMAIN queue, w \in Workers : queue[i] # Field(w) /\ queue[i] # doing[w]
  /\ \A i \in DOMAIN queue, c \in Clients : queue[i] # Offer(c)
  /\ \A v, w \in Workers : /\ Field(v) = Field(w) => v = w \/ Field(v) = None
                           /\ doing[v] = doing[w] => v = w \/ doing[v] = None
                           /\ Field(v) = doing[w] => Field(v) = None
  /\ \A w \in Workers, c \in Clients : /\ Field(w) = Offer(c) => Field(w) = None
                                       /\ doing[w] = Offer(c) => doing[w] = None
  /\ \A c, d \in Clients : Offer(c) = Offer(d) => c = d \/ Offer(c) = None

Somewhere(k) == \/ \E i \in DOMAIN queue : queue[i] = k
                \/ \E w \in Workers : Field(w) = k \/ doing[w] = k
                \/ \E c \in Clients : Offer(c) = k

Counted ==
  \A k \in Tasks :
    /\ ran[k] \in {0, 1}
    /\ status[k] \in {"calling", "accepted"} <=> Somewhere(k) \/ ran[k] = 1
    /\ Somewhere(k) => ran[k] = 0

PlaceInv == OnePlace /\ Counted

\* The places a step leaves alone.
WorkersStill == UNCHANGED doing /\ \A w \in Workers : Field(w)' = Field(w)
OffersStill == \A c \in Clients : Offer(c)' = Offer(c)

\* Whether a call is under way or over makes no difference to the places.
SameStatus == \A k \in Tasks : status'[k] \in {"calling", "accepted"}
                                 <=> status[k] \in {"calling", "accepted"}

LEMMA StayStep ==
  ASSUME PlaceInv, UNCHANGED queue, WorkersStill, OffersStill, UNCHANGED ran, SameStatus
  PROVE  PlaceInv'
<1>1. OnePlace'
  BY DEF PlaceInv, OnePlace, WorkersStill, OffersStill
<1>2. \A k \in Tasks : Somewhere(k)' <=> Somewhere(k)
  BY DEF Somewhere, WorkersStill, OffersStill
<1> QED
  BY <1>1, <1>2 DEF PlaceInv, Counted, SameStatus

(* A call comes with a task that has no place yet.                              *)
LEMMA OfferStep ==
  ASSUME PlaceInv, UNCHANGED <<queue, ran>>, WorkersStill, NEW c \in Clients, NEW k \in Tasks,
         Offer(c) = None, Offer(c)' = k, \A d \in Clients \ {c} : Offer(d)' = Offer(d),
         status[k] = "new", status'[k] = "calling", \A j \in Tasks \ {k} : status'[j] = status[j]
  PROVE  PlaceInv'
<1>1. ~Somewhere(k) /\ ran[k] = 0
  BY DEF PlaceInv, Counted
<1>2. OnePlace'
  BY <1>1, NoneIsNobody DEF PlaceInv, OnePlace, Somewhere, WorkersStill
<1>3. \A j \in Tasks : Somewhere(j)' <=> Somewhere(j) \/ j = k
  BY NoneIsNobody DEF Somewhere, WorkersStill
<1> QED
  BY <1>1, <1>2, <1>3 DEF PlaceInv, Counted

(* From a call to the end of the queue.                                        *)
LEMMA QueueStep ==
  ASSUME PlaceInv, queue \in Seq(Tasks), UNCHANGED ran, WorkersStill, SameStatus,
         NEW c \in Clients, NEW k \in Tasks, Offer(c) = k, Offer(c)' = None,
         \A d \in Clients \ {c} : Offer(d)' = Offer(d), queue' = Append(queue, k)
  PROVE  PlaceInv'
<1>1. /\ DOMAIN queue = 1 .. Len(queue) /\ DOMAIN queue' = 1 .. Len(queue) + 1 /\ Len(queue) \in Nat
      /\ \A i \in 1 .. Len(queue) : queue'[i] = queue[i] /\ queue[i] \in Tasks
      /\ queue'[Len(queue) + 1] = k
  BY AppendProperties
<1>2. /\ \A i \in DOMAIN queue : queue[i] # k
      /\ \A w \in Workers : Field(w) # k /\ doing[w] # k
      /\ \A d \in Clients : Offer(d) = k => d = c
  BY NoneIsNobody DEF PlaceInv, OnePlace
<1>3. \A i \in DOMAIN queue' : \/ i \in DOMAIN queue /\ queue'[i] = queue[i] /\ queue'[i] # k
                               \/ i = Len(queue) + 1 /\ queue'[i] = k
  BY <1>1, <1>2
<1>4. \A i, j \in DOMAIN queue' : queue'[i] = queue'[j] => i = j
  BY <1>3 DEF PlaceInv, OnePlace
<1>5. OnePlace'
  BY <1>1, <1>2, <1>3, <1>4, NoneIsNobody DEF PlaceInv, OnePlace, WorkersStill
<1>6. \A j \in Tasks : Somewhere(j)' <=> Somewhere(j)
  <2> SUFFICES ASSUME NEW j \in Tasks PROVE Somewhere(j)' <=> Somewhere(j)
    OBVIOUS
  <2>1. (\E i \in DOMAIN queue' : queue'[i] = j) <=> (\E i \in DOMAIN queue : queue[i] = j) \/ j = k
    BY <1>1, <1>3
  <2>2. (\E d \in Clients : Offer(d)' = j) \/ j = k <=> \E d \in Clients : Offer(d) = j
    BY <1>2, NoneIsNobody
  <2> QED
    BY <2>1, <2>2 DEF Somewhere, WorkersStill
<1> QED
  BY <1>5, <1>6 DEF PlaceInv, Counted, SameStatus

(* From a call to the field of a worker without one.                            *)
LEMMA FieldStep ==
  ASSUME PlaceInv, UNCHANGED <<queue, ran, doing>>, SameStatus,
         NEW c \in Clients, NEW k \in Tasks, Offer(c) = k, Offer(c)' = None,
         \A d \in Clients \ {c} : Offer(d)' = Offer(d),
         NEW v \in Workers, Field(v) = None, Field(v)' = k,
         \A w \in Workers \ {v} : Field(w)' = Field(w)
  PROVE  PlaceInv'
<1>1. /\ \A i \in DOMAIN queue : queue[i] # k
      /\ \A w \in Workers : Field(w) # k /\ doing[w] # k
      /\ \A d \in Clients : Offer(d) = k => d = c
  BY NoneIsNobody DEF PlaceInv, OnePlace
<1>2. OnePlace'
  BY <1>1, NoneIsNobody DEF PlaceInv, OnePlace
<1>3. \A j \in Tasks : Somewhere(j)' <=> Somewhere(j)
  BY <1>1, NoneIsNobody DEF Somewhere
<1> QED
  BY <1>2, <1>3 DEF PlaceInv, Counted, SameStatus

(* From the field of a worker into its hands.                                  *)
LEMMA HandStep ==
  ASSUME PlaceInv, UNCHANGED <<queue, ran, status>>, OffersStill,
         NEW v \in Workers, NEW k \in Tasks, Field(v) = k, doing[v] = None,
         Field(v)' = None, \A w \in Workers \ {v} : Field(w)' = Field(w),
         doing'[v] = k, \A w \in Workers \ {v} : doing'[w] = doing[w]
  PROVE  PlaceInv'
<1>1. /\ \A i \in DOMAIN queue : queue[i] # k
      /\ \A w \in Workers : doing[w] # k /\ (Field(w) = k => w = v)
      /\ \A d \in Clients : Offer(d) # k
  BY NoneIsNobody DEF PlaceInv, OnePlace
<1>2. OnePlace'
  BY <1>1, NoneIsNobody DEF PlaceInv, OnePlace, OffersStill
<1>3. \A j \in Tasks : Somewhere(j)' <=> Somewhere(j)
  BY <1>1, NoneIsNobody DEF Somewhere, OffersStill
<1> QED
  BY <1>2, <1>3 DEF PlaceInv, Counted

(* From the head of the queue into a worker's hands.                            *)
LEMMA PopStep ==
  ASSUME PlaceInv, queue \in Seq(Tasks), queue # <<>>, UNCHANGED <<ran, status>>, OffersStill,
         NEW v \in Workers, doing[v] = None, \A w \in Workers : Field(w)' = Field(w),
         queue' = Tail(queue), doing'[v] = Head(queue),
         \A w \in Workers \ {v} : doing'[w] = doing[w]
  PROVE  PlaceInv'
<1> DEFINE k == queue[1]
<1>1. /\ DOMAIN queue = 1 .. Len(queue) /\ DOMAIN queue' = 1 .. Len(queue) - 1
      /\ Len(queue) \in Nat /\ Len(queue) # 0 /\ Head(queue) = queue[1]
      /\ \A i \in 1 .. Len(queue) - 1 : queue'[i] = queue[i + 1]
      /\ \A i \in 1 .. Len(queue) : queue[i] \in Tasks
  BY HeadTailProperties, EmptySeq
<1>2. /\ k \in Tasks /\ 1 \in DOMAIN queue
      /\ \A i \in DOMAIN queue' : i + 1 \in DOMAIN queue /\ queue'[i] = queue[i + 1] /\ i + 1 # 1
      /\ \A i \in DOMAIN queue : i # 1 => i - 1 \in DOMAIN queue' /\ queue'[i - 1] = queue[i]
  BY <1>1
<1>3. /\ \A i \in DOMAIN queue' : queue'[i] # k
      /\ \A w \in Workers : Field(w) # k /\ doing[w] # k
      /\ \A d \in Clients : Offer(d) # k
  BY <1>2 DEF PlaceInv, OnePlace
<1>4. \A i, j \in DOMAIN queue' : queue'[i] = queue'[j] => i = j
  <2> SUFFICES ASSUME NEW i \in DOMAIN queue', NEW j \in DOMAIN queue', queue'[i] = queue'[j]
               PROVE  i = j
    OBVIOUS
  <2>1. i + 1 = j + 1
    BY <1>2 DEF PlaceInv, OnePlace
  <2> QED
    BY <1>1, <2>1
<1>5. \A i \in DOMAIN queue' : \E j \in DOMAIN queue : queue'[i] = queue[j]
  BY <1>2
<1> HIDE DEF k
<1>6. doing'[v] = k
  BY <1>1 DEF k
<1>7. OnePlace'
  BY <1>3, <1>4, <1>5, <1>6 DEF PlaceInv, OnePlace, OffersStill
<1>8. \A j \in Tasks : Somewhere(j)' <=> Somewhere(j)
  <2> SUFFICES ASSUME NEW j \in Tasks PROVE Somewhere(j)' <=> Somewhere(j)
    OBVIOUS
  <2>1. (\E i \in DOMAIN queue' : queue'[i] = j) \/ j = k <=> (\E i \in DOMAIN queue : queue[i] = j)
    <3>1. ASSUME NEW i \in DOMAIN queue', queue'[i] = j PROVE \E h \in DOMAIN queue : queue[h] = j
      BY <1>5, <3>1
    <3>2. j = k => \E h \in DOMAIN queue : queue[h] = j
      BY <1>2 DEF k
    <3>3. ASSUME NEW h \in DOMAIN queue, queue[h] = j, j # k
          PROVE  \E i \in DOMAIN queue' : queue'[i] = j
      <4>1. h # 1
        BY <3>3 DEF k
      <4> QED
        BY <1>2, <3>3, <4>1
    <3> QED
      BY <3>1, <3>2, <3>3
  <2>2. (\E w \in Workers : doing'[w] = j) <=> (\E w \in Workers : doing[w] = j) \/ j = k
    BY <1>6, NoneIsNobody
  <2> QED
    BY <2>1, <2>2 DEF Somewhere, OffersStill
<1> QED
  BY <1>7, <1>8 DEF PlaceInv, Counted

(* From a worker's hands into the count of what has run.                        *)
LEMMA DoneStep ==
  ASSUME PlaceInv, Placed, UNCHANGED <<queue, status>>, OffersStill,
         NEW v \in Workers, NEW k \in Tasks, doing[v] = k, doing'[v] = None,
         \A w \in Workers : Field(w)' = Field(w), \A w \in Workers \ {v} : doing'[w] = doing[w],
         ran' = [ran EXCEPT ![k] = @ + 1]
  PROVE  PlaceInv'
<1>1. /\ \A i \in DOMAIN queue : queue[i] # k
      /\ \A w \in Workers : Field(w) # k /\ (doing[w] = k => w = v)
      /\ \A d \in Clients : Offer(d) # k
  <2>1. OnePlace /\ k # None
    BY NoneIsNobody DEF PlaceInv
  <2>2. \A i \in DOMAIN queue : queue[i] # k
    BY <2>1 DEF OnePlace
  <2>3. \A w \in Workers : Field(w) # k
    BY <2>1 DEF OnePlace
  <2>4. \A w \in Workers : doing[w] = k => w = v
    BY <2>1 DEF OnePlace
  <2>5. \A d \in Clients : Offer(d) # k
    BY <2>1 DEF OnePlace
  <2> QED
    BY <2>2, <2>3, <2>4, <2>5
<1>2. OnePlace'
  <2>1. \A i \in DOMAIN queue : queue[i] # None
    BY NoneIsNobody DEF Placed
  <2> QED
    BY <1>1, <2>1, NoneIsNobody DEF PlaceInv, OnePlace, OffersStill
<1>3. Somewhere(k) /\ ~Somewhere(k)' /\ \A j \in Tasks \ {k} : Somewhere(j)' <=> Somewhere(j)
  BY <1>1, NoneIsNobody DEF Somewhere, OffersStill
<1>4. ran[k] = 0 /\ ran'[k] = 1 /\ \A j \in Tasks \ {k} : ran'[j] = ran[j]
  BY <1>3 DEF PlaceInv, Counted, Placed
<1> QED
  BY <1>2, <1>3, <1>4 DEF PlaceInv, Counted

-----------------------------------------------------------------------------
\* The inductive invariant of the second theorem, beside that of the first.
TaskInv == Placed /\ Exclusive /\ FoundIdle /\ Busy /\ CallsApart /\ AnnouncedLast /\ PlaceInv

\* A step of a client that leaves workers and queue alone, and its own offer too.
LEMMA ClientStays ==
  ASSUME TaskInv, UNCHANGED <<queue, doing, ran>>,
         \A w \in Workers : Field(w)' = Field(w), \A c \in Clients : Offer(c)' = Offer(c),
         SameStatus
  PROVE  PlaceInv'
BY StayStep DEF TaskInv, WorkersStill, OffersStill

LEMMA CallPlaces == ASSUME IInv, TaskInv, NEW c \in Clients, Call(c) PROVE PlaceInv'
<1>1. Shapes
  BY DEF IInv
<1> USE DEF ClientGoes
<1>2. CASE ShutdownChecked(c)
  <2>1. UNCHANGED <<queue, doing, ran, task, pc, arg, status>>
    BY <1>2 DEF ShutdownChecked, queueVars, fieldVars, threadVars
  <2>2. \A w \in Workers : Field(w)' = Field(w)
    BY <2>1 DEF Field, Unread
  <2>3. \A d \in Clients : Offer(d)' = Offer(d)
    BY <1>1, <1>2, <2>1 DEF ShutdownChecked, Offer, Shapes
  <2> QED
    BY <2>1, <2>2, <2>3, ClientStays DEF SameStatus
<1>3. ASSUME NEW k \in Tasks, RunRejected(c, k) PROVE PlaceInv'
  <2>1. UNCHANGED <<queue, doing, ran, task, pc, arg, at>>
    BY <1>3 DEF RunRejected, queueVars, fieldVars, threadVars
  <2>2. (\A w \in Workers : Field(w)' = Field(w)) /\ \A d \in Clients : Offer(d)' = Offer(d)
    BY <2>1 DEF Field, Unread, Offer
  <2>3. SameStatus
    BY <1>3 DEF RunRejected, SameStatus, TaskInv, Placed
  <2> QED
    BY <2>1, <2>2, <2>3, ClientStays
<1>4. ASSUME NEW k \in Tasks, RunChecked(c, k) PROVE PlaceInv'
  <2>1. UNCHANGED <<queue, doing, ran, task, pc>>
    BY <1>4 DEF RunChecked, queueVars, fieldVars, threadVars
  <2>2. WorkersStill
    BY <2>1 DEF WorkersStill, Field, Unread
  <2>3. Offer(c) = None
    BY <1>4 DEF RunChecked, Offer, TaskInv, CallsApart, InRun
  <2>4. Offer(c)' = k /\ \A d \in Clients \ {c} : Offer(d)' = Offer(d)
    BY <1>1, <1>4 DEF RunChecked, Offer, Shapes
  <2>5. status[k] = "new" /\ status'[k] = "calling" /\ \A j \in Tasks \ {k} : status'[j] = status[j]
    BY <1>4 DEF RunChecked, TaskInv, Placed
  <2> QED
    BY <2>1, <2>2, <2>3, <2>4, <2>5, OfferStep DEF TaskInv
<1> QED
  BY <1>2, <1>3, <1>4 DEF Call

LEMMA ClientPlacesStep == ASSUME IInv, TaskInv, NEW c \in Clients, ClientStep(c) PROVE PlaceInv'
<1>1. Shapes /\ IndexInPool /\ Made
  BY DEF IInv
<1> USE DEF ClientGoes
<1>2. ASSUME UNCHANGED <<queue, doing, ran, task, pc, arg, status>>,
             NEW place, at' = [at EXCEPT ![c] = place],
             at[c] \notin {"waking", "announcing"}, place \notin {"waking", "announcing"}
      PROVE  PlaceInv'
  <2>1. \A w \in Workers : Field(w)' = Field(w)
    BY <1>2 DEF Field, Unread
  <2>2. \A d \in Clients : Offer(d)' = Offer(d)
    BY <1>1, <1>2 DEF Offer, Shapes
  <2> QED
    BY <1>2, <2>1, <2>2, ClientStays DEF SameStatus
<1>3. CASE RunLocks(c) \/ ShutdownLocks(c) \/ ScanIdle(c) \/ ShutdownReturns(c)
  <2>1. UNCHANGED <<queue, doing, ran, task, pc, arg, status>>
    BY <1>3 DEF RunLocks, ShutdownLocks, ScanIdle, ShutdownReturns, queueVars, fieldVars, threadVars
  <2>2. PICK place \in {"scanning", "telling", "starting", "idle"} : at' = [at EXCEPT ![c] = place]
    BY <1>3 DEF RunLocks, ShutdownLocks, ScanIdle, ShutdownReturns
  <2>3. at[c] \notin {"waking", "announcing"} /\ place \notin {"waking", "announcing"}
    BY <1>3, <2>2 DEF RunLocks, ShutdownLocks, ScanIdle, ShutdownReturns
  <2> QED
    BY <1>2, <2>1, <2>2, <2>3
<1>4. CASE ScanBusy(c) \/ Tell(c)
  <2>1. at' = [at EXCEPT ![c] = at[c]] /\ at[c] \in {"scanning", "telling"}
    BY <1>1, <1>4 DEF ScanBusy, Tell, Shapes
  <2>2. UNCHANGED <<queue, doing, ran, task, pc, arg, status>>
    BY <1>4 DEF ScanBusy, Tell, queueVars, fieldVars, threadVars
  <2> QED
    BY <1>2, <2>1, <2>2
<1>5. CASE NewWorker(c) \/ WakeStart(c)
  <2>1. UNCHANGED <<queue, doing, ran, task, arg, status>>
    BY <1>5 DEF NewWorker, WakeStart, queueVars, fieldVars
  <2>2. \A w \in Workers : pc'[w] = pc[w] \/ (pc[w] = "none" /\ pc'[w] = "waiting")
    <3>1. CASE NewWorker(c)
      <4>1. size + 1 \in Workers /\ pc[size + 1] = "none" /\ pc' = [pc EXCEPT ![size + 1] = "waiting"]
        BY <1>1, <3>1, MaxThreadsPositive DEF NewWorker, Shapes, IndexInPool, Made, Workers
      <4> QED
        BY <1>1, <4>1 DEF Shapes
    <3>2. CASE WakeStart(c)
      <4>1. index[c] \in Workers /\ index[c] <= size
        BY <1>1, <3>2, MaxThreadsPositive DEF WakeStart, Shapes, IndexInPool, Workers
      <4>2. dead[index[c]] => pc[index[c]] = "none"
        BY <1>1, <4>1 DEF Made
      <4> QED
        BY <1>1, <3>2, <4>1, <4>2 DEF WakeStart, Shapes
    <3> QED
      BY <1>5, <3>1, <3>2
  <2>3. \A w \in Workers : Field(w)' = Field(w)
    BY <2>1, <2>2 DEF Field, Unread
  <2>4. \A d \in Clients : Offer(d)' = Offer(d)
    BY <1>1, <1>5, <2>1 DEF NewWorker, WakeStart, Offer, Shapes
  <2> QED
    BY <2>1, <2>3, <2>4, ClientStays DEF SameStatus
<1>6. CASE Overflow(c)
  <2>1. UNCHANGED <<doing, ran, task, pc, arg, status>> /\ queue' = Append(queue, arg[c])
        /\ at[c] = "scanning" /\ at' = [at EXCEPT ![c] = "announcing"]
    BY <1>6 DEF Overflow, fieldVars, threadVars
  <2>2. arg[c] \in Tasks
    BY <1>1, <2>1 DEF Shapes, TaskInv, CallsApart, InRun
  <2>3. WorkersStill /\ SameStatus
    BY <2>1 DEF WorkersStill, Field, Unread, SameStatus
  <2>4. Offer(c) = arg[c] /\ Offer(c)' = None /\ \A d \in Clients \ {c} : Offer(d)' = Offer(d)
    BY <1>1, <2>1 DEF Offer, Shapes
  <2> QED
    BY <2>1, <2>2, <2>3, <2>4, QueueStep DEF TaskInv, Placed
<1>7. CASE WakeAssign(c)
  <2>0. PICK v \in Workers : v = index[c]
    BY <1>1, <1>7, MaxThreadsPositive DEF WakeAssign, Shapes, IndexInPool, Workers
  <2>1. /\ UNCHANGED <<queue, doing, ran, pc, arg, status>>
        /\ task' = [task EXCEPT ![v] = arg[c]]
        /\ at[c] = "assigning" /\ at' = [at EXCEPT ![c] = "waking"]
        /\ task[v] = None
    BY <1>7, <2>0 DEF WakeAssign, queueVars, threadVars, TaskInv, FoundIdle
  <2>2. arg[c] \in Tasks
    BY <1>1, <2>1 DEF Shapes, TaskInv, CallsApart, InRun
  <2>3. pc[v] \notin {"running", "draining", "clearing", "caught"}
    BY <2>1 DEF TaskInv, Busy
  <2>4. task'[v] = arg[c] /\ \A w \in Workers \ {v} : task'[w] = task[w]
    BY <1>1, <2>1 DEF Shapes
  <2>5. pc[v] \in {"none", "waiting", "woken", "dying", "restarting"}
    BY <1>1, <2>1, <2>3 DEF Shapes, ThreadPlaces
  <2>6. Field(v) = None /\ Field(v)' = arg[c] /\ \A w \in Workers \ {v} : Field(w)' = Field(w)
    BY <2>1, <2>2, <2>4, <2>5, NoneIsNobody DEF Field, Unread
  <2>7. Offer(c) = arg[c] /\ Offer(c)' = None /\ \A d \in Clients \ {c} : Offer(d)' = Offer(d)
    BY <1>1, <2>1 DEF Offer, Shapes
  <2> QED
    BY <2>1, <2>2, <2>6, <2>7, FieldStep DEF TaskInv, SameStatus
<1>8. CASE Announce(c) \/ Wake(c)
  <2>1. /\ at[c] \in {"announcing", "waking"} /\ at' = [at EXCEPT ![c] = "idle"]
        /\ arg' = [arg EXCEPT ![c] = None] /\ status' = [status EXCEPT ![arg[c]] = "accepted"]
        /\ UNCHANGED <<queue, doing, ran, task, pc>>
    BY <1>8 DEF Announce, Wake, RunReturns, queueVars, fieldVars, threadVars
  <2>2. arg[c] \in Tasks /\ status[arg[c]] = "calling"
    BY <1>1, <2>1 DEF Shapes, TaskInv, CallsApart, InRun
  <2>3. SameStatus
    BY <2>1, <2>2 DEF SameStatus, TaskInv, Placed
  <2>4. \A w \in Workers : Field(w)' = Field(w)
    BY <2>1 DEF Field, Unread
  <2>5. \A d \in Clients : Offer(d)' = Offer(d)
    BY <1>1, <2>1 DEF Offer, Shapes
  <2> QED
    BY <2>1, <2>3, <2>4, <2>5, ClientStays
<1> QED
  BY <1>3, <1>4, <1>5, <1>6, <1>7, <1>8 DEF ClientStep

LEMMA ThreadPlacesStep ==
  ASSUME IInv, TaskInv, NEW v \in Workers, ThreadStep(v) \/ TimedOut(v) PROVE PlaceInv'
<1>1. Shapes
  BY DEF IInv
<1> USE DEF ThreadGoes
<1>2. UNCHANGED <<at, arg, status>> /\ OffersStill
  <2>1. UNCHANGED callVars
    BY DEF ThreadStep, TimedOut, Woken, NoTask, ReadTask, Finish, PopTask, PopNull, Clear,
       Die, Catch, Restart
  <2> QED
    BY <2>1 DEF callVars, OffersStill, Offer
<1>3. ASSUME UNCHANGED <<queue, doing, ran>>, \A w \in Workers : Field(w)' = Field(w)
      PROVE  PlaceInv'
  BY <1>2, <1>3, StayStep DEF TaskInv, WorkersStill, SameStatus
<1>4. CASE Woken(v) \/ TimedOut(v) \/ PopNull(v) \/ Restart(v)
  <2>1. UNCHANGED <<queue, doing, ran, task>>
    BY <1>4 DEF Woken, TimedOut, PopNull, Restart, queueVars, fieldVars
  <2>2. \A w \in Workers : Field(w)' = Field(w)
    BY <1>1, <1>4, <2>1 DEF Woken, TimedOut, PopNull, Restart, Field, Unread, Shapes
  <2> QED
    BY <1>3, <2>1, <2>2
<1>5. CASE NoTask(v) \/ Die(v)
  <2>1. UNCHANGED <<queue, doing, ran, task>>
    BY <1>5 DEF NoTask, Die, queueVars, fieldVars
  <2>2. \A w \in Workers : \/ pc'[w] = pc[w]
                           \/ /\ pc[w] \in {"woken", "dying"}
                              /\ pc'[w] \in {"none", "dying", "waiting"}
    BY <1>1, <1>5 DEF NoTask, Die, Shapes
  <2>3. \A w \in Workers : Field(w)' = Field(w)
    BY <2>1, <2>2 DEF Field, Unread
  <2> QED
    BY <1>3, <2>1, <2>3
<1>6. CASE Clear(v) \/ Catch(v)
  <2>1. UNCHANGED <<queue, doing, ran>> /\ task' = [task EXCEPT ![v] = None]
        /\ pc[v] \in {"clearing", "caught"} /\ \A w \in Workers \ {v} : pc'[w] = pc[w]
    BY <1>1, <1>6 DEF Clear, Catch, queueVars, Shapes
  <2>2. \A w \in Workers : Field(w)' = Field(w)
    BY <1>1, <2>1 DEF Field, Unread, Shapes
  <2> QED
    BY <1>3, <2>1, <2>2
<1>7. CASE ReadTask(v)
  <2>1. /\ UNCHANGED <<queue, ran, task>> /\ task[v] # None /\ pc[v] = "woken"
        /\ pc' = [pc EXCEPT ![v] = "running"] /\ doing' = [doing EXCEPT ![v] = task[v]]
    BY <1>7 DEF ReadTask, queueVars, fieldVars
  <2>2. task[v] \in Tasks /\ doing[v] = None
    BY <1>1, <2>1 DEF Shapes, TaskInv, Busy
  <2>3. doing'[v] = task[v] /\ \A w \in Workers \ {v} : doing'[w] = doing[w]
    BY <2>1 DEF TaskInv, Placed
  <2>4. Field(v) = task[v] /\ Field(v)' = None /\ \A w \in Workers \ {v} : Field(w)' = Field(w)
    BY <1>1, <2>1 DEF Field, Unread, Shapes
  <2> QED
    BY <1>2, <2>1, <2>2, <2>3, <2>4, HandStep DEF TaskInv
<1>8. CASE PopTask(v)
  <2>1. /\ UNCHANGED <<ran, task>> /\ pc[v] = "draining" /\ pc' = [pc EXCEPT ![v] = "running"]
        /\ doing' = [doing EXCEPT ![v] = Head(queue)] /\ queue' = Tail(queue) /\ announced > 0
    BY <1>8 DEF PopTask, fieldVars
  <2>2. queue # <<>> /\ doing[v] = None
    BY <2>1, EmptySeq DEF TaskInv, Placed, Busy, AnnouncedLast
  <2>3. doing'[v] = Head(queue) /\ \A w \in Workers \ {v} : doing'[w] = doing[w]
    BY <2>1 DEF TaskInv, Placed
  <2>4. \A w \in Workers : Field(w)' = Field(w)
    BY <1>1, <2>1 DEF Field, Unread, Shapes
  <2> QED
    BY <1>2, <2>1, <2>2, <2>3, <2>4, PopStep DEF TaskInv, Placed
<1>9. CASE Finish(v)
  <2>1. /\ UNCHANGED <<queue, task>> /\ pc[v] = "running"
        /\ \A w \in Workers \ {v} : pc'[w] = pc[w]
        /\ pc'[v] \in {"caught", "draining"}
        /\ ran' = [ran EXCEPT ![doing[v]] = @ + 1] /\ doing' = [doing EXCEPT ![v] = None]
    BY <1>1, <1>9 DEF Finish, queueVars, fieldVars, Shapes
  <2>2. doing[v] \in Tasks
    BY <2>1 DEF TaskInv, Placed, Busy
  <2>3. doing'[v] = None /\ \A w \in Workers \ {v} : doing'[w] = doing[w]
    BY <2>1 DEF TaskInv, Placed
  <2>4. \A w \in Workers : Field(w)' = Field(w)
    BY <2>1 DEF Field, Unread
  <2> QED
    BY <1>2, <2>1, <2>2, <2>3, <2>4, DoneStep DEF TaskInv
<1> QED
  BY <1>4, <1>5, <1>6, <1>7, <1>8, <1>9 DEF ThreadStep

LEMMA TaskInit == Init => TaskInv
<1> SUFFICES ASSUME Init PROVE TaskInv
  OBVIOUS
<1> USE DEF Init
<1>1. Placed
  BY DEF Placed
<1>2. Exclusive /\ FoundIdle /\ Busy /\ CallsApart
  BY DEF Exclusive, Inside, FoundIdle, Busy, CallsApart, InRun
<1>3. AnnouncedLast
  BY DEF AnnouncedLast
<1>4. DOMAIN queue = {} /\ \A w \in Workers : Field(w) = None /\ doing[w] = None
  BY DEF Field, Unread
<1>5. \A c \in Clients : Offer(c) = None
  BY DEF Offer
<1>6. PlaceInv
  BY <1>4, <1>5, NoneIsNobody DEF PlaceInv, OnePlace, Counted, Somewhere
<1> QED
  BY <1>1, <1>2, <1>3, <1>6 DEF TaskInv

LEMMA TaskNext == IInv /\ IInv' /\ TaskInv /\ [Next]_vars => TaskInv'
<1> SUFFICES ASSUME IInv, IInv', TaskInv, [Next]_vars PROVE TaskInv'
  OBVIOUS
<1>1. Placed' /\ Exclusive' /\ FoundIdle' /\ Busy' /\ CallsApart' /\ AnnouncedLast'
  BY PlacedStep, ExclusiveStep, FoundIdleStep, BusyStep, CallsApartStep, AnnouncedLastStep
     DEF TaskInv
<1>2. ASSUME NEW c \in Clients, Call(c) \/ ClientStep(c) PROVE PlaceInv'
  BY <1>2, CallPlaces, ClientPlacesStep
<1>3. ASSUME NEW w \in Workers, ThreadStep(w) \/ TimedOut(w) PROVE PlaceInv'
  BY <1>3, ThreadPlacesStep
<1>4. ASSUME UNCHANGED vars PROVE PlaceInv'
  <2>1. UNCHANGED <<queue, doing, ran, task, pc, arg, at, status>>
    BY <1>4 DEF vars, queueVars, callVars, fieldVars, threadVars
  <2>2. (\A w \in Workers : Field(w)' = Field(w)) /\ \A d \in Clients : Offer(d)' = Offer(d)
    BY <2>1 DEF Field, Unread, Offer
  <2> QED
    BY <2>1, <2>2, ClientStays DEF SameStatus
<1>5. PlaceInv'
  BY <1>2, <1>3, <1>4 DEF Next
<1> QED
  BY <1>1, <1>5 DEF TaskInv

\* What is wanted, as the property says it, is somewhere.
LEMMA TaskInvImplies == IInv /\ TaskInv => EachTaskOnce
<1> SUFFICES ASSUME IInv, TaskInv, NEW k \in Tasks
             PROVE  /\ ran[k] \in {0, 1}
                    /\ status[k] \in {"calling", "accepted"} => (Wanted(k) <=> ran[k] = 0)
  BY DEF EachTaskOnce
<1>1. Wanted(k) <=> Somewhere(k)
  <2>1. \A w \in Workers : Field(w) = k <=> Unread(w) /\ task[w] = k
    BY NoneIsNobody DEF Field
  <2>2. \A c \in Clients : Offer(c) = k <=> arg[c] = k /\ at[c] \notin {"waking", "announcing"}
    BY NoneIsNobody DEF Offer
  <2> QED
    BY <2>1, <2>2 DEF Wanted, Somewhere
<1> QED
  BY <1>1 DEF TaskInv, PlaceInv, Counted

(* Every submitted task is in one place until it has run, once: in its call, in   *)
(* the field of a worker, in the queue or in a worker's hands, whatever times out, *)
(* dies, is revived, throws or is shut down meanwhile.                          *)
THEOREM TasksRunAtMostOnce == Spec => []EachTaskOnce
<1>1. IInv /\ IInv' /\ TaskInv /\ [Next]_vars => TaskInv'
  BY TaskNext
<1> QED
  BY <1>1, Inductive, TaskInit, TaskInvImplies, PTL DEF Spec
=============================================================================
