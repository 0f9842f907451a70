--------------------------- MODULE ReentrantMutex ---------------------------
(***************************************************************************)
(* hxrt::thread::MutexHandle, the re-entrant mutex behind sys.thread.Mutex: *)
(* an owner and a depth under a parking_lot mutex, and one condition         *)
(* variable for the threads that found another owner.                       *)
(***************************************************************************)
EXTENDS OsThreads, Integers

CONSTANTS NoThread,  \* owner: None
          MaxDepth   \* bound: depth is a u32, the model stops here

ASSUME NoThreadOutside == NoThread \notin Threads
ASSUME MaxDepthNat == MaxDepth \in Nat \ {0}

VARIABLES owner,  \* ReMutexState.owner
          depth,  \* ReMutexState.depth
          mutexPc      \* where each thread is in acquire

mutexVars == <<owner, depth, mutexPc>>

MutexInit == /\ owner = NoThread
             /\ depth = 0
             /\ mutexPc = [t \in Threads |-> "idle"]

MutexTypeOK == /\ owner \in Threads \cup {NoThread}
               /\ depth \in Nat
               /\ mutexPc \in [Threads -> {"idle", "parked", "notified"}]

MutexParked == {t \in Threads : mutexPc[t] = "parked"}
MutexNotified == {t \in Threads : mutexPc[t] = "notified"}

-----------------------------------------------------------------------------
Own(t) == /\ owner = NoThread
          /\ owner' = t
          /\ depth' = 1

Reenter(t) == /\ owner = t
              /\ depth < MaxDepth
              /\ depth' = depth + 1
              /\ UNCHANGED owner

OwnedByOther(t) == owner \notin {NoThread, t}

\* The loop of acquire, from its start or after the condition variable.
TryOnce(t) == \/ /\ Own(t) \/ Reenter(t)
                 /\ mutexPc' = [mutexPc EXCEPT ![t] = "idle"]
              \/ /\ OwnedByOther(t)
                 /\ mutexPc' = [mutexPc EXCEPT ![t] = "parked"]
                 /\ UNCHANGED <<owner, depth>>

MutexAcquire(t) == mutexPc[t] = "idle" /\ TryOnce(t)

MutexResume(t) == mutexPc[t] = "notified" /\ TryOnce(t)

\* The unsuccessful tryAcquire changes nothing.
MutexTryAcquire(t) == /\ mutexPc[t] = "idle"
                      /\ \/ Own(t) \/ Reenter(t)
                         \/ OwnedByOther(t) /\ UNCHANGED <<owner, depth>>
                      /\ UNCHANGED mutexPc

MutexNotifyOne == \/ \E w \in MutexParked : mutexPc' = [mutexPc EXCEPT ![w] = "notified"]
                  \/ MutexParked = {} /\ UNCHANGED mutexPc

\* Mutated: the mutex is handed back at the first release.
ReleaseFirst(t) == /\ mutexPc[t] = "idle"
                   /\ owner = t
                   /\ depth' = depth - 1
                   /\ owner' = NoThread
                   /\ MutexNotifyOne

\* Mutated: the last release forgets the threads asleep on the condition variable.
ReleaseSilently(t) == /\ mutexPc[t] = "idle"
                      /\ owner = t
                      /\ depth' = depth - 1
                      /\ owner' = IF depth = 1 THEN NoThread ELSE owner
                      /\ UNCHANGED mutexPc

\* release throws in a thread that is not the owner, and then changes nothing.
MutexRelease(t) == /\ mutexPc[t] = "idle"
                   /\ \/ /\ owner = t /\ depth > 1
                         /\ depth' = depth - 1
                         /\ UNCHANGED <<owner, mutexPc>>
                      \/ /\ owner = t /\ depth = 1
                         /\ depth' = 0
                         /\ owner' = NoThread
                         /\ MutexNotifyOne
                      \/ /\ owner # t
                         /\ UNCHANGED mutexVars

MutexNext == \E t \in Threads : \/ MutexAcquire(t) \/ MutexTryAcquire(t)
                                \/ MutexResume(t) \/ MutexRelease(t)

MutexFairness == \A t \in Threads : WF_mutexVars(MutexResume(t))

MutexSpec == MutexInit /\ [][MutexNext]_mutexVars /\ MutexFairness

-----------------------------------------------------------------------------
(* While the mutex is free and threads sleep in acquire, one of them has      *)
(* been notified and is on its way, even when it was overtaken before.        *)
MutexLosesNoWakeup == owner = NoThread /\ MutexParked # {} => MutexNotified # {}

(* The thread that owns the mutex is never asleep waiting for it: acquiring   *)
(* it again does not deadlock the owner with itself.                         *)
OwnerAwake == owner # NoThread => mutexPc[owner] = "idle" /\ depth > 0

(* The handle is a re-entrant lock: what a thread holds is its depth while it *)
(* is the owner, and nobody else holds anything meanwhile.                    *)
Recursive == INSTANCE RecursiveLock WITH
               holds <- [t \in Threads |-> IF owner = t THEN depth ELSE 0],
               waiting <- {t \in Threads : mutexPc[t] # "idle"}

ImplementsRecursiveLock == Recursive!Spec
=============================================================================
