---------------------------- MODULE ConditionVar ----------------------------
(***************************************************************************)
(* hxrt::thread::ConditionHandle, behind sys.thread.Condition: the holder   *)
(* of the internal mutex and a generation number under one parking_lot       *)
(* mutex, a condition variable for threads that want the internal mutex      *)
(* (lock_cv) and one for threads that wait for a signal (cond_cv).           *)
(***************************************************************************)
EXTENDS OsThreads, Integers

CONSTANTS Nobody,   \* locked_by: None
          MaxGen    \* bound: gen is a u64, the model stops signalling here

ASSUME NobodyOutside == Nobody \notin Threads
ASSUME MaxGenNat == MaxGen \in Nat

VARIABLES lockedBy,  \* ConditionState.locked_by
          gen,       \* ConditionState.gen
          condPc,        \* where each thread is in acquire or wait
          myGen      \* the generation a waiting thread saw

condVars == <<lockedBy, gen, condPc, myGen>>

CondInit == /\ lockedBy = Nobody
            /\ gen = 0
            /\ condPc = [t \in Threads |-> "idle"]
            /\ myGen = [t \in Threads |-> 0]

Places == {"idle", "lockParked", "lockNotified", "condParked", "condNotified"}

CondTypeOK == /\ lockedBy \in Threads \cup {Nobody}
              /\ gen \in Nat
              /\ condPc \in [Threads -> Places]
              /\ myGen \in [Threads -> 0 .. gen]

At(place) == {t \in Threads : condPc[t] = place}

-----------------------------------------------------------------------------
\* The loop that ends acquire and wait alike; from is where the thread stands.
CondLock(t) == \/ /\ lockedBy \in {Nobody, t}
                  /\ lockedBy' = t
                  /\ condPc' = [condPc EXCEPT ![t] = "idle"]
                  /\ UNCHANGED <<gen, myGen>>
               \/ /\ lockedBy \notin {Nobody, t}
                  /\ condPc' = [condPc EXCEPT ![t] = "lockParked"]
                  /\ UNCHANGED <<lockedBy, gen, myGen>>

CondAcquire(t) == condPc[t] = "idle" /\ CondLock(t)

ResumeLock(t) == condPc[t] = "lockNotified" /\ CondLock(t)

CondTryAcquire(t) == /\ condPc[t] = "idle"
                     /\ \/ lockedBy \in {Nobody, t} /\ lockedBy' = t
                        \/ lockedBy \notin {Nobody, t} /\ UNCHANGED lockedBy
                     /\ UNCHANGED <<gen, condPc, myGen>>

\* notify_one on lock_cv, in a step that also moves threads as q says.
NotifyLock(q) == \/ \E w \in At("lockParked") : condPc' = [q EXCEPT ![w] = "lockNotified"]
                 \/ At("lockParked") = {} /\ condPc' = q

\* release and wait throw in a thread that does not hold the internal mutex.
Rejected(t) == condPc[t] = "idle" /\ lockedBy # t /\ UNCHANGED condVars

CondRelease(t) == /\ condPc[t] = "idle"
                  /\ lockedBy = t
                  /\ lockedBy' = Nobody
                  /\ NotifyLock(condPc)
                  /\ UNCHANGED <<gen, myGen>>

\* Mutated: wait gives the internal mutex up without telling anybody.
WaitSilently(t) == /\ condPc[t] = "idle"
                   /\ lockedBy = t
                   /\ lockedBy' = Nobody
                   /\ myGen' = [myGen EXCEPT ![t] = gen]
                   /\ condPc' = [condPc EXCEPT ![t] = "condParked"]
                   /\ UNCHANGED gen

\* Mutated: wait sleeps through the generation after the current one as well.
WaitNextGen(t) == /\ condPc[t] = "idle"
                  /\ lockedBy = t
                  /\ lockedBy' = Nobody
                  /\ myGen' = [myGen EXCEPT ![t] = gen + 1]
                  /\ NotifyLock([condPc EXCEPT ![t] = "condParked"])
                  /\ UNCHANGED gen

Wait(t) == /\ condPc[t] = "idle"
           /\ lockedBy = t
           /\ lockedBy' = Nobody
           /\ myGen' = [myGen EXCEPT ![t] = gen]
           /\ NotifyLock([condPc EXCEPT ![t] = "condParked"])
           /\ UNCHANGED gen

\* Mutated: a woken waiter returns at once when the mutex is taken.
ResumeCondHasty(t) == /\ condPc[t] = "condNotified"
                      /\ lockedBy' = IF lockedBy = Nobody THEN t ELSE lockedBy
                      /\ condPc' = [condPc EXCEPT ![t] = "idle"]
                      /\ UNCHANGED <<gen, myGen>>

\* A woken waiter sleeps on only if the generation has not moved.
ResumeCond(t) == /\ condPc[t] = "condNotified"
                 /\ \/ gen # myGen[t] /\ CondLock(t)
                    \/ /\ gen = myGen[t]
                       /\ condPc' = [condPc EXCEPT ![t] = "condParked"]
                       /\ UNCHANGED <<lockedBy, gen, myGen>>

\* Neither signal nor broadcast asks for the internal mutex.
Signal == /\ At("idle") # {} /\ gen < MaxGen
          /\ gen' = gen + 1
          /\ \/ \E w \in At("condParked") : condPc' = [condPc EXCEPT ![w] = "condNotified"]
             \/ At("condParked") = {} /\ UNCHANGED condPc
          /\ UNCHANGED <<lockedBy, myGen>>

NotifyAll == condPc' = [t \in Threads |-> IF condPc[t] = "condParked" THEN "condNotified"
                                                              ELSE condPc[t]]

\* Mutated: broadcast forgets the generation.
BroadcastSameGen == /\ At("idle") # {} /\ gen < MaxGen
                    /\ NotifyAll
                    /\ UNCHANGED <<lockedBy, gen, myGen>>

Broadcast == /\ At("idle") # {} /\ gen < MaxGen
             /\ gen' = gen + 1
             /\ NotifyAll
             /\ UNCHANGED <<lockedBy, myGen>>

CondResume(t) == ResumeLock(t) \/ ResumeCond(t)

CondNext == \/ Signal \/ Broadcast
            \/ \E t \in Threads : \/ CondAcquire(t) \/ CondTryAcquire(t) \/ CondRelease(t)
                                  \/ Wait(t) \/ Rejected(t) \/ CondResume(t)

CondFairness == \A t \in Threads : WF_condVars(CondResume(t))

CondSpec == CondInit /\ [][CondNext]_condVars /\ CondFairness

-----------------------------------------------------------------------------
(* While the internal mutex is free and threads sleep on lock_cv, one of them *)
(* has been notified: release and the first half of wait both hand it on,     *)
(* though signalled waiters and newcomers may overtake.                      *)
ConditionLosesNoWakeup ==
  lockedBy = Nobody /\ At("lockParked") # {} => At("lockNotified") # {}

(* A waiter that a signal or broadcast woke finds the generation moved: the    *)
(* loop against spurious wakeups never sends it back to sleep, which would     *)
(* swallow the signal.                                                       *)
SignalIsNotSwallowed == \A t \in At("condNotified") : gen # myGen[t]

(* The handle is a monitor: wait returns only to the holder of the mutex and   *)
(* only after a signal or broadcast issued while it slept; a signal wakes one   *)
(* sleeper, a broadcast all; the mutex is never left free under threads that   *)
(* want it.                                                                  *)
Mon == INSTANCE Monitor WITH
         holder <- lockedBy,
         entering <- At("lockParked") \cup At("lockNotified") \cup At("condNotified"),
         asleep <- At("condParked")

ImplementsMonitor == Mon!Spec
=============================================================================
