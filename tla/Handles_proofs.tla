--------------------------- MODULE Handles_proofs ---------------------------
(***************************************************************************)
(* For every set of threads: the re-entrant mutex loses no wakeup, never     *)
(* puts its owner to sleep and implements the abstract lock; the condition   *)
(* loses no wakeup of its internal mutex, swallows no signal and implements  *)
(* the monitor; and, for every finite set of threads, the counting handles   *)
(* lose no wakeup and implement the token counter.                          *)
(***************************************************************************)
EXTENDS Handles, FiniteSetTheorems, TLAPS

MutexIInv == MutexTypeOK /\ OwnerAwake /\ MutexLosesNoWakeup

LEMMA MutexInitHolds == MutexInit => MutexIInv
BY NoThreadOutside DEF MutexInit, MutexIInv, MutexTypeOK, OwnerAwake, MutexLosesNoWakeup, MutexParked

(* What the loop of acquire does to the three conjuncts, whether the thread   *)
(* just arrived or was notified.                                            *)
LEMMA TryOnceKeeps ==
  ASSUME MutexIInv, NEW t \in Threads, mutexPc[t] \in {"idle", "notified"}, TryOnce(t)
  PROVE  MutexIInv'
<1> USE NoThreadOutside DEF MutexIInv
<1>1. CASE Own(t) /\ mutexPc' = [mutexPc EXCEPT ![t] = "idle"]
  BY <1>1 DEF Own, MutexTypeOK, OwnerAwake, MutexLosesNoWakeup
<1>2. CASE Reenter(t) /\ mutexPc' = [mutexPc EXCEPT ![t] = "idle"]
  <2>1. mutexPc' = mutexPc /\ owner' = owner /\ depth' = depth + 1 /\ owner = t
    BY <1>2 DEF Reenter, MutexTypeOK, OwnerAwake
  <2> QED
    BY <2>1 DEF MutexTypeOK, OwnerAwake, MutexLosesNoWakeup
<1>3. CASE OwnedByOther(t) /\ mutexPc' = [mutexPc EXCEPT ![t] = "parked"]
           /\ UNCHANGED <<owner, depth>>
  BY <1>3 DEF OwnedByOther, MutexTypeOK, OwnerAwake, MutexLosesNoWakeup
<1> QED
  BY <1>1, <1>2, <1>3 DEF TryOnce

(* The last release hands the mutex to nobody, and wakes one sleeper if there *)
(* is one.                                                                  *)
LEMMA ReleaseKeeps ==
  ASSUME MutexIInv, NEW t \in Threads, MutexRelease(t)
  PROVE  MutexIInv'
<1> USE NoThreadOutside DEF MutexIInv
<1>1. CASE owner = t /\ depth > 1 /\ depth' = depth - 1 /\ UNCHANGED <<owner, mutexPc>>
  BY <1>1 DEF MutexTypeOK, OwnerAwake, MutexLosesNoWakeup
<1>2. CASE depth' = 0 /\ owner' = NoThread /\ MutexNotifyOne
  <2>1. CASE MutexParked = {} /\ UNCHANGED mutexPc
    BY <1>2, <2>1 DEF MutexTypeOK, OwnerAwake, MutexLosesNoWakeup, MutexParked
  <2>2. ASSUME NEW w \in MutexParked, mutexPc' = [mutexPc EXCEPT ![w] = "notified"]
        PROVE  MutexIInv'
    BY <1>2, <2>2 DEF MutexTypeOK, OwnerAwake, MutexLosesNoWakeup, MutexParked, MutexNotified
  <2> QED
    BY <1>2, <2>1, <2>2 DEF MutexNotifyOne
<1>3. CASE UNCHANGED mutexVars
  BY <1>3 DEF mutexVars, MutexTypeOK, OwnerAwake, MutexLosesNoWakeup, MutexParked, MutexNotified
<1> QED
  BY <1>1, <1>2, <1>3 DEF MutexRelease

LEMMA MutexStepHolds == MutexIInv /\ [MutexNext]_mutexVars => MutexIInv'
<1> SUFFICES ASSUME MutexIInv, [MutexNext]_mutexVars PROVE MutexIInv'
  OBVIOUS
<1>1. ASSUME NEW t \in Threads, MutexAcquire(t) \/ MutexResume(t) PROVE MutexIInv'
  BY <1>1, TryOnceKeeps DEF MutexAcquire, MutexResume
<1>2. ASSUME NEW t \in Threads, MutexTryAcquire(t) PROVE MutexIInv'
  <2>1. CASE Own(t) /\ UNCHANGED mutexPc
    BY <1>2, <2>1, NoThreadOutside
       DEF MutexTryAcquire, Own, MutexIInv, MutexTypeOK, OwnerAwake, MutexLosesNoWakeup
  <2>2. CASE Reenter(t) /\ UNCHANGED mutexPc
    BY <2>2, NoThreadOutside DEF Reenter, MutexIInv, MutexTypeOK, OwnerAwake, MutexLosesNoWakeup
  <2>3. CASE UNCHANGED mutexVars
    BY <2>3 DEF mutexVars, MutexIInv, MutexTypeOK, OwnerAwake, MutexLosesNoWakeup, MutexParked, MutexNotified
  <2> QED
    BY <1>2, <2>1, <2>2, <2>3 DEF MutexTryAcquire, mutexVars
<1>3. ASSUME NEW t \in Threads, MutexRelease(t) PROVE MutexIInv'
  BY <1>3, ReleaseKeeps
<1>4. CASE UNCHANGED mutexVars
  BY <1>4 DEF mutexVars, MutexIInv, MutexTypeOK, OwnerAwake, MutexLosesNoWakeup, MutexParked, MutexNotified
<1> QED
  BY <1>1, <1>2, <1>3, <1>4 DEF MutexNext

THEOREM MutexInductive == MutexSpec => []MutexIInv
BY MutexInitHolds, MutexStepHolds, PTL DEF MutexSpec

(* A free mutex with sleepers always has a notified thread on its way to it,  *)
(* however often arriving threads overtake the notified ones.                *)
THEOREM MutexWakeupsAreNotLost == MutexSpec => []MutexLosesNoWakeup
BY MutexInductive, PTL DEF MutexIInv

(* The owner is never asleep in acquire: re-entering cannot deadlock it.      *)
THEOREM OwnerNeverSleeps == MutexSpec => []OwnerAwake
BY MutexInductive, PTL DEF MutexIInv

-----------------------------------------------------------------------------
(* Every step is a step of the re-entrant lock or invisible to its users, so  *)
(* at most one thread holds the mutex and it holds it as often as it acquired *)
(* it.                                                                      *)
THEOREM StepsAreLockSteps == MutexSpec => Recursive!Init /\ [][Recursive!Next]_(Recursive!vars)
<1> USE NoThreadOutside
<1> DEFINE H == [t \in Threads |-> IF owner = t THEN depth ELSE 0]
<1> DEFINE W == {t \in Threads : mutexPc[t] # "idle"}
<1>1. MutexInit => Recursive!Init
  BY DEF MutexInit, Recursive!Init
<1>2. MutexIInv /\ [MutexNext]_mutexVars => [Recursive!Next]_(Recursive!vars)
  <2> SUFFICES ASSUME MutexTypeOK, OwnerAwake, [MutexNext]_mutexVars
               PROVE  [Recursive!Next]_(Recursive!vars)
    BY DEF MutexIInv
  <2>1. ASSUME NEW t \in Threads, Own(t) \/ Reenter(t), mutexPc' = [mutexPc EXCEPT ![t] = "idle"]
        PROVE  Recursive!Next
    <3>1. H' = [H EXCEPT ![t] = @ + 1]
      <4>1. H'[t] = H[t] + 1
        BY <2>1 DEF Own, Reenter, MutexTypeOK
      <4>2. \A u \in Threads \ {t} : H'[u] = H[u]
        BY <2>1 DEF Own, Reenter, MutexTypeOK
      <4> QED
        BY <4>1, <4>2
    <3>2. W' = W \ {t}
      BY <2>1 DEF MutexTypeOK
    <3>3. \A u \in Threads \ {t} : H[u] = 0
      BY <2>1 DEF Own, Reenter
    <3> QED
      BY <3>1, <3>2, <3>3 DEF Recursive!Next, Recursive!Acquire, Recursive!FreeFor
  <2>2. ASSUME NEW t \in Threads, mutexPc[t] = "idle", OwnedByOther(t),
               mutexPc' = [mutexPc EXCEPT ![t] = "parked"], UNCHANGED <<owner, depth>>
        PROVE  Recursive!Next
    <3>1. H' = H
      BY <2>2
    <3>2. W' = W \cup {t} /\ t \notin W
      BY <2>2 DEF MutexTypeOK
    <3>3. \E u \in Threads \ {t} : H[u] # 0
      <4>1. owner \in Threads \ {t} /\ H[owner] = depth /\ depth # 0
        BY <2>2 DEF OwnedByOther, MutexTypeOK, OwnerAwake
      <4> QED
        BY <4>1
    <3> QED
      BY <3>1, <3>2, <3>3 DEF Recursive!Next, Recursive!Block, Recursive!FreeFor
  <2>3. ASSUME NEW t \in Threads, mutexPc[t] = "notified",
               mutexPc' = [mutexPc EXCEPT ![t] = "parked"], UNCHANGED <<owner, depth>>
        PROVE  UNCHANGED Recursive!vars
    <3>1. W' = W
      BY <2>3 DEF MutexTypeOK
    <3> QED
      BY <2>3, <3>1 DEF Recursive!vars
  <2>4. ASSUME NEW t \in Threads, MutexRelease(t) PROVE [Recursive!Next]_(Recursive!vars)
    <3>1. CASE owner = t /\ depth > 0 /\ W' = W
               /\ \/ depth' = depth - 1 /\ owner' = owner
                  \/ depth = 1 /\ depth' = 0 /\ owner' = NoThread
      <4>1. H'[t] = H[t] - 1 /\ H[t] > 0
        BY <3>1 DEF MutexTypeOK
      <4>3. \A u \in Threads \ {t} : H'[u] = H[u]
        BY <3>1 DEF MutexTypeOK
      <4>4. H' = [H EXCEPT ![t] = @ - 1]
        BY <4>1, <4>3
      <4>2. t \notin W
        BY <2>4 DEF MutexRelease
      <4> QED
        BY <3>1, <4>1, <4>2, <4>4 DEF Recursive!Next, Recursive!Release
    <3>2. CASE UNCHANGED mutexVars
      BY <3>2 DEF mutexVars, Recursive!vars
    <3>3. MutexNotifyOne => W' = W
      BY DEF MutexNotifyOne, MutexParked, MutexTypeOK
    <3> QED
      BY <2>4, <3>1, <3>2, <3>3 DEF MutexRelease, MutexTypeOK
  <2>5. ASSUME NEW t \in Threads, MutexTryAcquire(t) PROVE [Recursive!Next]_(Recursive!vars)
    <3>1. mutexPc' = mutexPc /\ mutexPc = [mutexPc EXCEPT ![t] = "idle"]
      BY <2>5 DEF MutexTryAcquire, MutexTypeOK
    <3>2. UNCHANGED <<owner, depth>> => UNCHANGED Recursive!vars
      BY <3>1 DEF Recursive!vars
    <3> QED
      BY <2>1, <2>5, <3>1, <3>2 DEF MutexTryAcquire
  <2>6. CASE UNCHANGED mutexVars
    BY <2>6 DEF mutexVars, Recursive!vars
  <2>7. ASSUME NEW t \in Threads, MutexAcquire(t) \/ MutexResume(t)
        PROVE  [Recursive!Next]_(Recursive!vars)
    BY <2>7, <2>1, <2>2, <2>3 DEF MutexAcquire, MutexResume, TryOnce
  <2> QED
    BY <2>4, <2>5, <2>6, <2>7 DEF MutexNext
<1> QED
  BY <1>1, <1>2, MutexInductive, PTL DEF MutexSpec

-----------------------------------------------------------------------------
CondIInv == CondTypeOK /\ ConditionLosesNoWakeup /\ SignalIsNotSwallowed

LEMMA CondInitHolds == CondInit => CondIInv
BY NobodyOutside
   DEF CondInit, CondIInv, CondTypeOK, Places, ConditionLosesNoWakeup, SignalIsNotSwallowed, At

(* The loop on lock_cv keeps the invariant from any of its three entries.     *)
LEMMA LockKeeps ==
  ASSUME CondIInv, NEW t \in Threads,
         condPc[t] \in {"idle", "lockNotified", "condNotified"}, CondLock(t)
  PROVE  CondIInv'
<1> USE NobodyOutside DEF CondIInv
<1>1. CASE lockedBy' = t /\ condPc' = [condPc EXCEPT ![t] = "idle"] /\ UNCHANGED <<gen, myGen>>
  BY <1>1 DEF CondTypeOK, Places, ConditionLosesNoWakeup, SignalIsNotSwallowed, At
<1>2. CASE lockedBy # Nobody /\ condPc' = [condPc EXCEPT ![t] = "lockParked"]
           /\ UNCHANGED <<lockedBy, gen, myGen>>
  BY <1>2 DEF CondTypeOK, Places, ConditionLosesNoWakeup, SignalIsNotSwallowed, At
<1> QED
  BY <1>1, <1>2 DEF CondLock

(* Giving the mutex up keeps the invariant, whether the thread then sleeps on *)
(* cond_cv (wait) or goes on (release).                                       *)
LEMMA GiveUpKeeps ==
  ASSUME CondIInv, NEW t \in Threads, condPc[t] = "idle", NEW p \in {"idle", "condParked"},
         NotifyLock([condPc EXCEPT ![t] = p]), gen' = gen,
         myGen' \in [Threads -> 0 .. gen],
         \A u \in Threads \ {t} : myGen'[u] = myGen[u], lockedBy' = Nobody
  PROVE  CondIInv'
<1> DEFINE q == [condPc EXCEPT ![t] = p]
<1>1. q \in [Threads -> Places] /\ q[t] = p /\ \A u \in Threads \ {t} : q[u] = condPc[u]
  BY DEF CondIInv, CondTypeOK, Places
<1>2. CASE At("lockParked") = {} /\ condPc' = q
  BY <1>1, <1>2 DEF CondIInv, CondTypeOK, ConditionLosesNoWakeup, SignalIsNotSwallowed, At
<1>3. ASSUME NEW w \in At("lockParked"), condPc' = [q EXCEPT ![w] = "lockNotified"]
      PROVE  CondIInv'
  <2>1. w \in Threads /\ condPc'[w] = "lockNotified" /\ condPc' \in [Threads -> Places]
        /\ \A u \in Threads \ {w} : condPc'[u] = q[u]
    BY <1>1, <1>3 DEF At, Places
  <2>2. CondTypeOK' /\ ConditionLosesNoWakeup'
    BY <2>1 DEF CondIInv, CondTypeOK, ConditionLosesNoWakeup, At
  <2>3. \A u \in Threads : condPc'[u] = "condNotified" => u # t /\ condPc[u] = "condNotified"
    BY <1>1, <2>1
  <2> QED
    BY <2>2, <2>3 DEF CondIInv, SignalIsNotSwallowed, At
<1> QED
  BY <1>2, <1>3 DEF NotifyLock

(* A new generation is unlike any a waiter has seen, so whoever it wakes may  *)
(* leave.                                                                    *)
LEMMA SignalKeeps ==
  ASSUME CondIInv, gen' = gen + 1, UNCHANGED <<lockedBy, myGen>>,
         condPc' \in [Threads -> Places],
         \A t \in Threads : \/ condPc'[t] = condPc[t]
                            \/ condPc[t] = "condParked" /\ condPc'[t] = "condNotified"
  PROVE  CondIInv'
<1>1. \A t \in Threads : myGen[t] \in 0 .. gen /\ gen \in Nat
  BY DEF CondIInv, CondTypeOK
<1>2. CondTypeOK'
  BY <1>1 DEF CondIInv, CondTypeOK
<1>3. At("lockParked")' = At("lockParked") /\ At("lockNotified")' = At("lockNotified")
  BY DEF At
<1>4. SignalIsNotSwallowed'
  BY <1>1 DEF SignalIsNotSwallowed, At
<1> QED
  BY <1>2, <1>3, <1>4 DEF CondIInv, ConditionLosesNoWakeup

LEMMA CondStepHolds == CondIInv /\ [CondNext]_condVars => CondIInv'
<1> SUFFICES ASSUME CondIInv, [CondNext]_condVars PROVE CondIInv'
  OBVIOUS
<1>1. CASE Signal
  BY <1>1, SignalKeeps DEF Signal, CondIInv, CondTypeOK, Places, At
<1>2. CASE Broadcast
  BY <1>2, SignalKeeps DEF Broadcast, NotifyAll, CondIInv, CondTypeOK, Places
<1>3. ASSUME NEW t \in Threads, CondAcquire(t) \/ ResumeLock(t) PROVE CondIInv'
  BY <1>3, LockKeeps DEF CondAcquire, ResumeLock
<1>4. ASSUME NEW t \in Threads, CondTryAcquire(t) PROVE CondIInv'
  BY <1>4, NobodyOutside
     DEF CondTryAcquire, CondIInv, CondTypeOK, ConditionLosesNoWakeup, SignalIsNotSwallowed, At
<1>5. ASSUME NEW t \in Threads, CondRelease(t) PROVE CondIInv'
  <2>1. condPc = [condPc EXCEPT ![t] = "idle"] /\ myGen \in [Threads -> 0 .. gen]
    BY <1>5 DEF CondRelease, CondIInv, CondTypeOK
  <2> QED
    BY <1>5, <2>1, GiveUpKeeps DEF CondRelease
<1>6. ASSUME NEW t \in Threads, Wait(t) PROVE CondIInv'
  <2>1. /\ myGen' \in [Threads -> 0 .. gen]
        /\ \A u \in Threads \ {t} : myGen'[u] = myGen[u]
    BY <1>6 DEF Wait, CondIInv, CondTypeOK
  <2> QED
    BY <1>6, <2>1, GiveUpKeeps DEF Wait
<1>7. ASSUME NEW t \in Threads, ResumeCond(t) PROVE CondIInv'
  <2>1. gen # myGen[t]
    BY <1>7 DEF ResumeCond, CondIInv, SignalIsNotSwallowed, At
  <2> QED
    BY <1>7, <2>1, LockKeeps DEF ResumeCond
<1>8. CASE UNCHANGED condVars
  BY <1>8 DEF condVars, CondIInv, CondTypeOK, ConditionLosesNoWakeup, SignalIsNotSwallowed, At
<1> QED
  BY <1>1, <1>2, <1>3, <1>4, <1>5, <1>6, <1>7, <1>8 DEF CondNext, Rejected, CondResume

THEOREM CondInductive == CondSpec => []CondIInv
BY CondInitHolds, CondStepHolds, PTL DEF CondSpec

(* release and wait hand a free internal mutex on to a sleeper in every run.  *)
THEOREM ConditionWakeupsAreNotLost == CondSpec => []ConditionLosesNoWakeup
BY CondInductive, PTL DEF CondIInv

(* A waiter woken by signal or broadcast never goes back to sleep for it.     *)
THEOREM SignalsAreNotSwallowed == CondSpec => []SignalIsNotSwallowed
BY CondInductive, PTL DEF CondIInv

-----------------------------------------------------------------------------
(* Every step is a step of the monitor or invisible to its users.             *)
THEOREM StepsAreMonitorSteps == CondSpec => Mon!Init /\ [][Mon!Next]_(Mon!vars)
<1> USE NobodyOutside
<1> DEFINE E == At("lockParked") \cup At("lockNotified") \cup At("condNotified")
<1> DEFINE A == At("condParked")
<1>1. CondInit => Mon!Init
  BY DEF CondInit, Mon!Init, At
<1>2. CondIInv /\ [CondNext]_condVars => [Mon!Next]_(Mon!vars)
  <2> SUFFICES ASSUME CondTypeOK, SignalIsNotSwallowed, [CondNext]_condVars
               PROVE  [Mon!Next]_(Mon!vars)
    BY DEF CondIInv
  <2>2. ASSUME NEW t \in Threads, lockedBy \in {Nobody, t}, lockedBy' = t,
               condPc' = [condPc EXCEPT ![t] = "idle"], condPc[t] # "condParked"
        PROVE  Mon!Next
    <3>1. E' = E \ {t} /\ A' = A /\ t \notin A
      BY <2>2 DEF CondTypeOK, Places, At
    <3> QED
      BY <2>2, <3>1 DEF Mon!Next, Mon!Enter
  <2>3. ASSUME NEW t \in Threads, lockedBy \notin {Nobody, t}, lockedBy' = lockedBy,
               condPc' = [condPc EXCEPT ![t] = "lockParked"], condPc[t] # "condParked"
        PROVE  [Mon!Next]_(Mon!vars)
    <3>1. A' = A /\ t \notin A /\ E' = E \cup {t}
      BY <2>3 DEF CondTypeOK, Places, At
    <3>2. CASE t \in E
      BY <2>3, <3>1, <3>2 DEF Mon!vars
    <3>3. CASE t \notin E
      BY <2>3, <3>1, <3>3 DEF Mon!Next, Mon!Block
    <3> QED
      BY <3>2, <3>3
  <2>4. ASSUME NEW t \in Threads, condPc[t] # "condParked", CondLock(t)
        PROVE  [Mon!Next]_(Mon!vars)
    BY <2>4, <2>2, <2>3 DEF CondLock
  <2>5. ASSUME NEW t \in Threads, condPc[t] = "idle", NEW p \in {"idle", "condParked"},
               NotifyLock([condPc EXCEPT ![t] = p])
        PROVE  E' = E /\ A' = IF p = "idle" THEN A ELSE A \cup {t}
    <3> DEFINE q == [condPc EXCEPT ![t] = p]
    <3>1. q \in [Threads -> Places] /\ q[t] = p /\ \A u \in Threads \ {t} : q[u] = condPc[u]
      BY DEF CondTypeOK, Places
    <3>2. \/ condPc' = q
          \/ \E w \in At("lockParked") : condPc' = [q EXCEPT ![w] = "lockNotified"]
      BY <2>5 DEF NotifyLock
    <3>3. \A u \in Threads : \/ condPc'[u] = q[u]
                             \/ q[u] = "lockParked" /\ condPc'[u] = "lockNotified"
      BY <2>5, <3>1, <3>2 DEF At
    <3> QED
      BY <2>5, <3>1, <3>3 DEF At
  <2>6. ASSUME NEW t \in Threads, CondRelease(t) PROVE Mon!Next
    <3>1. condPc = [condPc EXCEPT ![t] = "idle"]
      BY <2>6 DEF CondRelease, CondTypeOK
    <3>2. E' = E /\ A' = A
      BY <2>6, <3>1, <2>5 DEF CondRelease
    <3> QED
      BY <2>6, <3>2 DEF CondRelease, Mon!Next, Mon!Exit
  <2>7. ASSUME NEW t \in Threads, Wait(t) PROVE Mon!Next
    <3>1. E' = E /\ A' = A \cup {t}
      BY <2>7, <2>5 DEF Wait
    <3> QED
      BY <2>7, <3>1 DEF Wait, Mon!Next, Mon!Sleep
  <2>8. CASE Signal
    <3>1. ASSUME NEW w \in At("condParked"), condPc' = [condPc EXCEPT ![w] = "condNotified"]
          PROVE  Mon!Next
      <4>1. E' = E \cup {w} /\ A' = A \ {w}
        BY <3>1 DEF CondTypeOK, Places, At
      <4> QED
        BY <2>8, <4>1 DEF Signal, Mon!Next, Mon!Wake
    <3>2. CASE UNCHANGED condPc
      BY <2>8, <3>2 DEF Signal, Mon!vars, At
    <3> QED
      BY <2>8, <3>1, <3>2 DEF Signal
  <2>9. CASE Broadcast
    <3>1. E' = E \cup A /\ A' = A \ A
      BY <2>9 DEF Broadcast, NotifyAll, At, CondTypeOK
    <3> QED
      BY <2>9, <3>1 DEF Broadcast, Mon!Next, Mon!Wake
  <2>10. ASSUME NEW t \in Threads, CondTryAcquire(t) PROVE [Mon!Next]_(Mon!vars)
    <3>1. E' = E /\ A' = A /\ t \notin E /\ t \notin A
      BY <2>10 DEF CondTryAcquire, At
    <3> QED
      BY <2>10, <3>1 DEF CondTryAcquire, Mon!vars, Mon!Next, Mon!Enter
  <2>11. ASSUME NEW t \in Threads, CondAcquire(t) \/ CondResume(t) PROVE [Mon!Next]_(Mon!vars)
    BY <2>11, <2>4 DEF CondAcquire, CondResume, ResumeLock, ResumeCond, SignalIsNotSwallowed, At
  <2>12. CASE UNCHANGED condVars
    BY <2>12 DEF condVars, Mon!vars, At
  <2> QED
    BY <2>6, <2>7, <2>8, <2>9, <2>10, <2>11, <2>12 DEF CondNext, Rejected
<1> QED
  BY <1>1, <1>2, CondInductive, PTL DEF CondSpec

-----------------------------------------------------------------------------
CountIInv == CountTypeOK /\ TokensLoseNoWakeup

(* notify_one adds exactly one thread to the notified ones when somebody    *)
(* sleeps, and changes nothing else.                                        *)
LEMMA NotifyOneAdds ==
  ASSUME CountTypeOK, CountNotifyOne, CountParked # {}
  PROVE  /\ IsFiniteSet(CountNotified)
         /\ Cardinality(CountNotified') = Cardinality(CountNotified) + 1
<1>1. PICK w \in CountParked : lockPc' = [lockPc EXCEPT ![w] = "notified"]
  BY DEF CountNotifyOne
<1>2. CountNotified' = CountNotified \cup {w} /\ w \notin CountNotified
  BY <1>1 DEF CountTypeOK, CountNotified, CountParked
<1>3. IsFiniteSet(CountNotified)
  BY ThreadsFinite, FS_Subset, CountNotified \subseteq Threads DEF CountNotified
<1> QED
  BY <1>2, <1>3, FS_AddElement

(* A notified thread that leaves lowers their number by one.                *)
LEMMA LeaveNotified ==
  ASSUME CountTypeOK, NEW t \in Threads, NEW p \in {"idle", "parked"},
         lockPc[t] = "notified", lockPc' = [lockPc EXCEPT ![t] = p]
  PROVE  /\ Cardinality(CountNotified) \in Nat
         /\ Cardinality(CountNotified') = Cardinality(CountNotified) - 1
<1>1. CountNotified' = CountNotified \ {t} /\ t \in CountNotified
  BY DEF CountTypeOK, CountNotified
<1>2. IsFiniteSet(CountNotified)
  BY ThreadsFinite, FS_Subset, CountNotified \subseteq Threads DEF CountNotified
<1> QED
  BY <1>1, <1>2, FS_RemoveElement, FS_CardinalityType

LEMMA InitialCountNat == \A k : InitialCount(k) \in Nat
BY ValueInt DEF InitialCount

(* The state keeps its types.                                               *)
LEMMA CountTypeStep == CountTypeOK /\ [CountNext]_countVars => CountTypeOK'
<1> SUFFICES ASSUME CountTypeOK, [CountNext]_countVars PROVE CountTypeOK'
  OBVIOUS
<1> USE DEF CountTypeOK
<1>1. CASE ReleaseToken
  BY <1>1 DEF ReleaseToken, CountNotifyOne, CountParked
<1>2. ASSUME NEW t \in Threads, NEW b \in BOOLEAN, TakeToken(t) \/ FailToken(t) \/ ParkForToken(t, b)
      PROVE  CountTypeOK'
  <2>1. CASE TakeToken(t)
    BY <2>1 DEF TakeToken, CountReturn
  <2>2. CASE FailToken(t)
    BY <2>2 DEF FailToken, CountReturn
  <2>3. CASE ParkForToken(t, b)
    BY <2>3 DEF ParkForToken
  <2> QED
    BY <1>2, <2>1, <2>2, <2>3
<1>3. ASSUME NEW t \in Threads, ExpireWait(t) PROVE CountTypeOK'
  BY <1>3 DEF ExpireWait
<1>4. ASSUME NEW t \in Threads, ResumeWait(t) PROVE CountTypeOK'
  <2>1. lockTimed[t] \in BOOLEAN
    OBVIOUS
  <2> HIDE DEF CountTypeOK
  <2> QED
    BY <1>2, <1>4, <2>1 DEF ResumeWait, ResumeExpired, ResumeNotified
<1>5. CASE UNCHANGED countVars
  BY <1>5 DEF countVars
<1>6. ASSUME NEW t \in Threads, CallHandle(t) PROVE CountTypeOK'
  <2> HIDE DEF CountTypeOK
  <2> QED
    BY <1>2, <1>6 DEF CallHandle, LockWait, SemAcquire, SemTryAcquire
<1> QED
  BY <1>1, <1>3, <1>4, <1>5, <1>6 DEF CountNext

(* A token and the thread notified for it come and go together: a release    *)
(* adds both, a notified thread that takes its token removes both, and a     *)
(* thread only goes to sleep, or back to sleep, when no token is left.       *)
LEMMA CountWakeupStep == CountIInv /\ [CountNext]_countVars => TokensLoseNoWakeup'
<1> SUFFICES ASSUME CountTypeOK, TokensLoseNoWakeup, [CountNext]_countVars PROVE TokensLoseNoWakeup'
  BY DEF CountIInv
<1>0. CountTypeOK' /\ IsFiniteSet(CountNotified) /\ IsFiniteSet(CountNotified')
  <2>1. CountNotified \subseteq Threads /\ CountNotified' \subseteq Threads
    BY DEF CountNotified
  <2> QED
    BY <2>1, CountTypeStep, ThreadsFinite, FS_Subset
<1>01. Cardinality(CountNotified) \in Nat /\ Cardinality(CountNotified') \in Nat
  BY <1>0, FS_CardinalityType
<1>1. CASE ReleaseToken
  <2>1. CASE CountParked = {}
    BY <1>1, <2>1 DEF ReleaseToken, CountNotifyOne, TokensLoseNoWakeup, CountParked
  <2>2. CASE CountParked # {}
    BY <1>1, <2>2, <1>01, NotifyOneAdds DEF ReleaseToken, TokensLoseNoWakeup, CountTypeOK
  <2> QED
    BY <2>1, <2>2
<1>2. ASSUME NEW t \in Threads, lockPc[t] \in {"idle", "expired"},
             TakeToken(t) \/ FailToken(t) \/ (\E b \in BOOLEAN : ParkForToken(t, b))
      PROVE  TokensLoseNoWakeup'
  <2>1. CountNotified' = CountNotified /\ lockPc'[t] \in {"idle", "parked"}
        /\ \A u \in Threads : u # t => lockPc'[u] = lockPc[u]
    BY <1>2 DEF TakeToken, FailToken, ParkForToken, CountReturn, CountTypeOK, CountNotified
  <2>2. CASE TakeToken(t)
    <3>1. CountParked' \subseteq CountParked
      BY <2>1, <2>2 DEF TakeToken, CountReturn, CountParked, CountTypeOK
    <3> QED
      BY <2>1, <2>2, <3>1, <1>01 DEF TakeToken, TokensLoseNoWakeup, CountTypeOK
  <2>3. CASE lockCount <= 0 /\ lockCount' = lockCount
    BY <2>3, <1>01 DEF TokensLoseNoWakeup, CountTypeOK
  <2> QED
    BY <1>2, <2>2, <2>3 DEF FailToken, ParkForToken
<1>3. ASSUME NEW t \in Threads, ResumeNotified(t) PROVE TokensLoseNoWakeup'
  <2>1. CASE TakeToken(t)
    <3>1. CountParked' = CountParked
      BY <1>3, <2>1 DEF ResumeNotified, TakeToken, CountReturn, CountParked, CountTypeOK
    <3>2. Cardinality(CountNotified') = Cardinality(CountNotified) - 1
      BY <1>3, <2>1, LeaveNotified DEF ResumeNotified, TakeToken, CountReturn
    <3> QED
      BY <2>1, <3>1, <3>2, <1>01 DEF TakeToken, TokensLoseNoWakeup, CountTypeOK
  <2>2. CASE lockCount <= 0 /\ lockCount' = lockCount
    BY <2>2, <1>01 DEF TokensLoseNoWakeup, CountTypeOK
  <2> QED
    BY <1>3, <2>1, <2>2 DEF ResumeNotified, FailToken, ParkForToken
<1>4. ASSUME NEW t \in Threads, ExpireWait(t) PROVE TokensLoseNoWakeup'
  <2>1. CountParked' \subseteq CountParked /\ CountNotified' = CountNotified
    BY <1>4 DEF ExpireWait, CountParked, CountNotified, CountTypeOK
  <2> QED
    BY <1>4, <2>1 DEF ExpireWait, TokensLoseNoWakeup
<1>5. CASE UNCHANGED countVars
  BY <1>5 DEF countVars, TokensLoseNoWakeup, CountParked, CountNotified
<1>6. ASSUME NEW t \in Threads, CallHandle(t) \/ ResumeExpired(t) PROVE TokensLoseNoWakeup'
  BY <1>6, <1>2 DEF CallHandle, LockWait, SemAcquire, SemTryAcquire, ResumeExpired
<1> QED
  BY <1>1, <1>3, <1>4, <1>5, <1>6 DEF CountNext, ResumeWait

(* The count and the threads in a call keep their types in every run.        *)
THEOREM CountTypeCorrect == CountSpec => []CountTypeOK
<1>1. CountInit => CountTypeOK
  BY InitialCountNat DEF CountInit, CountTypeOK
<1> QED
  BY <1>1, CountTypeStep, PTL DEF CountSpec

(* No run of the handle leaves a token under sleepers with nobody notified   *)
(* to come and take it.                                                     *)
THEOREM TokenWakeupsAreNotLost == CountSpec => []TokensLoseNoWakeup
<1>1. CountInit => CountIInv
  BY InitialCountNat DEF CountInit, CountIInv, CountTypeOK, TokensLoseNoWakeup, CountParked
<1>2. CountIInv /\ [CountNext]_countVars => CountIInv'
  BY CountTypeStep, CountWakeupStep DEF CountIInv
<1>3. CountIInv => TokensLoseNoWakeup
  BY DEF CountIInv
<1> QED
  BY <1>1, <1>2, <1>3, PTL DEF CountSpec

-----------------------------------------------------------------------------
(* What the callers see of every step is a step of the token counter: a      *)
(* success consumes one token, a timeout happens with none left, and being   *)
(* notified, expiring and parking again are invisible.                       *)
THEOREM StepsAreTokenSteps == CountSpec => Tokens!Init /\ [][Tokens!Next]_(Tokens!vars)
<1>1. CountInit => Tokens!Init
  BY InitialCountNat DEF CountInit, Tokens!Init
<1>2. CountTypeOK /\ [CountNext]_countVars => [Tokens!Next]_(Tokens!vars)
  <2> SUFFICES ASSUME CountTypeOK, [CountNext]_countVars PROVE [Tokens!Next]_(Tokens!vars)
    OBVIOUS
  <2> DEFINE W == {t \in Threads : lockPc[t] # "idle"}
  <2>1. CASE ReleaseToken
    <3>1. W' = W
      BY <2>1 DEF ReleaseToken, CountNotifyOne, CountParked, CountTypeOK
    <3> QED
      BY <2>1, <3>1 DEF ReleaseToken, Tokens!Next, Tokens!Give
  <2>2. ASSUME NEW t \in Threads, TakeToken(t) PROVE Tokens!Next
    <3>1. W' = W \ {t}
      BY <2>2 DEF TakeToken, CountReturn, CountTypeOK
    <3> QED
      BY <2>2, <3>1 DEF TakeToken, CountReturn, Tokens!Next, Tokens!Take
  <2>3. ASSUME NEW t \in Threads, FailToken(t) PROVE Tokens!Next
    <3>1. W' = W \ {t} /\ lockCount = 0
      BY <2>3 DEF FailToken, CountReturn, CountTypeOK
    <3> QED
      BY <2>3, <3>1 DEF FailToken, CountReturn, Tokens!Next, Tokens!GiveUp
  <2>4. ASSUME NEW t \in Threads, NEW b, lockPc[t] = "idle", ParkForToken(t, b) PROVE Tokens!Next
    <3>1. W' = W \cup {t} /\ t \notin W /\ lockCount = 0
      BY <2>4 DEF ParkForToken, CountTypeOK
    <3> QED
      BY <2>4, <3>1 DEF ParkForToken, Tokens!Next, Tokens!Block
  <2>5. ASSUME NEW t \in Threads, NEW b, lockPc[t] = "notified", ParkForToken(t, b)
        PROVE  UNCHANGED Tokens!vars
    BY <2>5 DEF ParkForToken, CountTypeOK, Tokens!vars
  <2>6. ASSUME NEW t \in Threads, ExpireWait(t) PROVE UNCHANGED Tokens!vars
    BY <2>6 DEF ExpireWait, CountTypeOK, Tokens!vars
  <2>7. CASE UNCHANGED countVars
    BY <2>7 DEF countVars, Tokens!vars
  <2>8. ASSUME NEW t \in Threads, CallHandle(t) PROVE Tokens!Next
    BY <2>8, <2>2, <2>3, <2>4 DEF CallHandle, LockWait, SemAcquire, SemTryAcquire
  <2>9. ASSUME NEW t \in Threads, ResumeWait(t) PROVE [Tokens!Next]_(Tokens!vars)
    BY <2>9, <2>2, <2>3, <2>5 DEF ResumeWait, ResumeExpired, ResumeNotified
  <2> QED
    BY <2>1, <2>6, <2>7, <2>8, <2>9 DEF CountNext
<1> QED
  BY <1>1, <1>2, CountTypeCorrect, PTL DEF CountSpec

-----------------------------------------------------------------------------
(* The three handles keep their types whichever one a behaviour is about:    *)
(* the invariants of the one it uses are kept by its steps, and those of the  *)
(* others by nothing happening to them.                                     *)
THEOREM HandlesKeepTheirTypes == Spec => []TypeOK
<1> DEFINE All == CountTypeOK /\ MutexIInv /\ CondIInv
<1>1. Init => All
  BY InitialCountNat, MutexInitHolds, CondInitHolds DEF Init, CountInit, CountTypeOK
<1>2. All /\ [Next]_vars => All'
  <2> SUFFICES ASSUME All, [Next]_vars PROVE All'
    OBVIOUS
  <2>1. [CountNext]_countVars /\ [MutexNext]_mutexVars /\ [CondNext]_condVars
    BY DEF Next, vars, countVars, mutexVars, condVars
  <2> QED
    BY <2>1, CountTypeStep, MutexStepHolds, CondStepHolds
<1>3. All => TypeOK
  BY DEF TypeOK, MutexIInv, CondIInv
<1> QED
  BY <1>1, <1>2, <1>3, PTL DEF Spec

(* A behaviour of the three side by side is one of each: what is proved of a  *)
(* handle alone holds of it in their company, with its fairness.             *)
THEOREM EachHandleRuns == Spec => CountSpec /\ MutexSpec /\ CondSpec
<1>1. Init => CountInit /\ MutexInit /\ CondInit
  BY DEF Init
<1>2. [Next]_vars => [CountNext]_countVars /\ [MutexNext]_mutexVars /\ [CondNext]_condVars
  BY DEF Next, vars, countVars, mutexVars, condVars
<1> QED
  BY <1>1, <1>2, PTL DEF Spec, CountSpec, MutexSpec, CondSpec
=============================================================================
