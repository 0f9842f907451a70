-------------------------- MODULE DequePool_proofs --------------------------
(***************************************************************************)
(* For every finite set of threads: the deque's lock counts its array, a pop *)
(* past the lock finds an element, and the deque implements the blocking     *)
(* deque.  For every set of clients, workers and tasks: an accepted task of  *)
(* the fixed pool is in one place until it has run, once.                    *)
(***************************************************************************)
EXTENDS DequePool, FiniteSetTheorems, TLAPS

DequeIInv == DequeTypeOK /\ TokensCountItems

LEMMA AtFinite ==
  ASSUME NEW p
  PROVE  IsFiniteSet(At(p)) /\ Cardinality(At(p)) \in Nat
<1>1. At(p) \subseteq Threads
  BY DEF At
<1> QED
  BY <1>1, ThreadsFinite, FS_Subset, FS_CardinalityType

(* A thread that goes from one place to another changes the number of threads  *)
(* at a place by one at most, as its two places tell.                         *)
LEMMA MoveCounts ==
  ASSUME DequeTypeOK, NEW t \in Threads, NEW q \in Places, Goto(t, q), NEW p \in Places
  PROVE  Cardinality(At(p)') = Cardinality(At(p))
            + (IF q = p /\ pc[t] # p THEN 1 ELSE 0)
            - (IF q # p /\ pc[t] = p THEN 1 ELSE 0)
<1> IsFiniteSet(At(p)) /\ Cardinality(At(p)) \in Nat
  BY AtFinite
<1>1. CASE q = p
  <2>1. At(p)' = At(p) \cup {t} /\ (t \in At(p) <=> pc[t] = p)
    BY <1>1 DEF DequeTypeOK, At, Goto
  <2>2. Cardinality(At(p) \cup {t}) =
          IF t \in At(p) THEN Cardinality(At(p)) ELSE Cardinality(At(p)) + 1
    BY FS_AddElement
  <2>3. Cardinality(At(p)') = Cardinality(At(p) \cup {t})
    BY <2>1
  <2> QED
    BY <1>1, <2>1, <2>2, <2>3
<1>2. CASE q # p
  <2>1. At(p)' = At(p) \ {t} /\ (t \in At(p) <=> pc[t] = p)
    BY <1>2 DEF DequeTypeOK, At, Goto
  <2>2. Cardinality(At(p) \ {t}) =
          IF t \in At(p) THEN Cardinality(At(p)) - 1 ELSE Cardinality(At(p))
    BY FS_RemoveElement
  <2>3. Cardinality(At(p)') = Cardinality(At(p) \ {t})
    BY <2>1
  <2> QED
    BY <1>2, <2>1, <2>2, <2>3
<1> QED
  BY <1>1, <1>2

LEMMA ShiftFinds == DequeIInv => ShiftFindsOne
<1> SUFFICES ASSUME DequeTypeOK, TokensCountItems, At("shifting") # {} PROVE items # <<>>
  BY DEF DequeIInv, ShiftFindsOne
<1>1. Cardinality(At("shifting")) # 0
  BY AtFinite, FS_EmptySet
<1>2. Len(items) > 0
  BY <1>1, AtFinite DEF DequeTypeOK, TokensCountItems
<1> QED
  BY <1>2

LEMMA DequeTypeStep == DequeTypeOK /\ [DequeNext]_dequeVars => DequeTypeOK'
<1> SUFFICES ASSUME DequeTypeOK, [DequeNext]_dequeVars PROVE DequeTypeOK'
  OBVIOUS
<1> USE DEF DequeTypeOK, Goto, Places
<1>1. ASSUME NEW t \in Threads, NEW e \in Elements, Add(t, e) \/ PushFront(t, e)
      PROVE  DequeTypeOK'
  <2>1. Append(items, e) \in Seq(Elements)
    OBVIOUS
  <2>2. <<e>> \in Seq(Elements)
    OBVIOUS
  <2>3. <<e>> \o items \in Seq(Elements)
    BY <2>2
  <2>4. items' \in Seq(Elements)
    BY <1>1, <2>1, <2>3 DEF Add, PushFront, Insert
  <2> QED
    BY <1>1, <2>4 DEF Add, PushFront, Insert
<1>2. ASSUME NEW t \in Threads, Release(t) PROVE DequeTypeOK'
  BY <1>2 DEF Release
<1>3. ASSUME NEW t \in Threads, TakeToken(t) PROVE DequeTypeOK'
  BY <1>3 DEF TakeToken
<1>4. ASSUME NEW t \in Threads, PopBegin(t) PROVE DequeTypeOK'
  BY <1>3, <1>4 DEF PopBegin
<1>5. ASSUME NEW t \in Threads, PopNull(t) PROVE DequeTypeOK'
  BY <1>5 DEF PopNull
<1>6. ASSUME NEW t \in Threads, Shift(t) PROVE DequeTypeOK'
  BY <1>6 DEF Shift
<1>7. CASE UNCHANGED dequeVars
  BY <1>7 DEF dequeVars
<1> QED
  BY <1>1, <1>2, <1>3, <1>4, <1>5, <1>6, <1>7 DEF DequeNext, PopWoken

(* An insertion owes a token until it releases, a pop that took one owes the   *)
(* array an element until it shifts: each step moves one between the terms.     *)
LEMMA CountStep == DequeIInv /\ [DequeNext]_dequeVars => TokensCountItems'
<1> SUFFICES ASSUME DequeTypeOK, TokensCountItems, [DequeNext]_dequeVars PROVE TokensCountItems'
  BY DEF DequeIInv
<1> DEFINE R == Cardinality(At("releasing"))
           S == Cardinality(At("shifting"))
<1> R \in Nat /\ S \in Nat
  BY AtFinite
<1> items \in Seq(Elements) /\ tokens \in Nat
  BY DEF DequeTypeOK
<1> Len(items) = tokens + R + S
  BY DEF TokensCountItems
<1> SUFFICES Len(items') = tokens' + R' + S'
  BY DEF TokensCountItems
<1> HIDE DEF R, S
<1>0. ASSUME NEW t \in Threads, NEW q \in Places, Goto(t, q)
      PROVE  /\ R' = R + (IF q = "releasing" /\ pc[t] # "releasing" THEN 1 ELSE 0)
                       - (IF q # "releasing" /\ pc[t] = "releasing" THEN 1 ELSE 0)
             /\ S' = S + (IF q = "shifting" /\ pc[t] # "shifting" THEN 1 ELSE 0)
                       - (IF q # "shifting" /\ pc[t] = "shifting" THEN 1 ELSE 0)
  <2> "releasing" \in Places /\ "shifting" \in Places
    BY DEF Places
  <2> QED
    BY <1>0, MoveCounts DEF R, S
<1> "idle" \in Places /\ "releasing" \in Places /\ "shifting" \in Places
      /\ "blocked" \in Places /\ "polling" \in Places
  BY DEF Places
<1>1. ASSUME NEW t \in Threads, NEW e \in Elements, Add(t, e) \/ PushFront(t, e)
      PROVE  Len(items') = tokens' + R' + S'
  <2>1. Len(items') = Len(items) + 1 /\ tokens' = tokens /\ pc[t] = "idle"
    BY <1>1 DEF Add, PushFront, Insert
  <2>2. Goto(t, "releasing")
    BY <1>1 DEF Add, PushFront, Insert
  <2>3. R' = R + 1 /\ S' = S
    BY <1>0, <2>1, <2>2
  <2> QED
    BY <2>1, <2>3
<1>2. ASSUME NEW t \in Threads, Release(t) PROVE Len(items') = tokens' + R' + S'
  BY <1>0, <1>2 DEF Release
<1>3. ASSUME NEW t \in Threads, TakeToken(t), pc[t] \in {"idle", "blocked", "polling"}
      PROVE  Len(items') = tokens' + R' + S'
  BY <1>0, <1>3 DEF TakeToken
<1>4. ASSUME NEW t \in Threads, PopBegin(t) PROVE Len(items') = tokens' + R' + S'
  <2>1. CASE TakeToken(t)
    BY <1>3, <1>4, <2>1 DEF PopBegin
  <2>2. ASSUME NEW place \in {"blocked", "polling"},
               Goto(t, place), pc[t] = "idle", UNCHANGED <<items, tokens, ret>>
        PROVE  Len(items') = tokens' + R' + S'
    <3>1. place \in Places
      BY DEF Places
    <3>2. R' = R /\ S' = S
      BY <1>0, <2>2, <3>1
    <3> QED
      BY <2>2, <3>2
  <2> QED
    BY <1>4, <2>1, <2>2 DEF PopBegin
<1>5. ASSUME NEW t \in Threads, PopNull(t) PROVE Len(items') = tokens' + R' + S'
  BY <1>0, <1>5 DEF PopNull
<1>6. ASSUME NEW t \in Threads, Shift(t) PROVE Len(items') = tokens' + R' + S'
  <2>1. items # <<>>
    <3>1. t \in At("shifting")
      BY <1>6 DEF Shift, At
    <3> QED
      BY <3>1, ShiftFinds DEF DequeIInv, ShiftFindsOne
  <2>2. Len(items') = Len(items) - 1 /\ tokens' = tokens /\ pc[t] = "shifting"
    BY <1>6, <2>1 DEF Shift
  <2>3. Goto(t, "idle")
    BY <1>6 DEF Shift
  <2>4. R' = R /\ S' = S - 1
    BY <1>0, <2>2, <2>3
  <2> QED
    BY <2>2, <2>4
<1>7. CASE UNCHANGED dequeVars
  BY <1>7 DEF dequeVars, R, S, At
<1> QED
  BY <1>1, <1>2, <1>3, <1>4, <1>5, <1>6, <1>7 DEF DequeNext, PopWoken

LEMMA DequeInitInv == DequeInit => DequeIInv
<1> SUFFICES ASSUME DequeInit PROVE DequeIInv
  OBVIOUS
<1>1. At("releasing") = {} /\ At("shifting") = {}
  BY DEF DequeInit, At
<1>2. DequeTypeOK
  BY DEF DequeInit, DequeTypeOK, Places
<1>3. Len(items) = 0 /\ tokens = 0
  BY DEF DequeInit
<1>4. Cardinality(At("releasing")) = 0 /\ Cardinality(At("shifting")) = 0
  BY <1>1, FS_EmptySet
<1> QED
  BY <1>2, <1>3, <1>4 DEF DequeIInv, TokensCountItems

(* sys.thread.Deque: whatever the interleaving of add, push and pop, the lock   *)
(* counts the elements of the array.                                          *)
THEOREM DequeInductive == DequeSpec => []DequeIInv
<1>1. DequeIInv /\ [DequeNext]_dequeVars => DequeIInv'
  BY DequeTypeStep, CountStep DEF DequeIInv
<1> QED
  BY <1>1, DequeInitInv, PTL DEF DequeSpec

(* The lock announces exactly the elements that are in the array and not yet    *)
(* spoken for (Deque.add, push, pop).                                         *)
THEOREM LockCountsArray == DequeSpec => []TokensCountItems
<1>1. DequeIInv => TokensCountItems
  BY DEF DequeIInv
<1> QED
  BY <1>1, DequeInductive, PTL

(* A pop that got past the lock never finds the array empty, so pop(true) never *)
(* returns null.                                                              *)
THEOREM TokenBuysElement == DequeSpec => []ShiftFindsOne
BY ShiftFinds, DequeInductive, PTL

-----------------------------------------------------------------------------
(* A thread in the middle of its own call sees no more elements than there are  *)
(* other threads in theirs, when no token is left.                             *)
LEMMA OthersAccount ==
  ASSUME DequeIInv, tokens = 0, NEW t \in Threads, pc[t] = "polling"
  PROVE  Len(items) <= Cardinality((Threads \ At("idle")) \ {t})
<1> DEFINE Rs == At("releasing")
           Ss == At("shifting")
           Bs == (Threads \ At("idle")) \ {t}
<1>1. Rs \cap Ss = {} /\ Rs \cup Ss \subseteq Bs
  BY DEF At, DequeIInv, DequeTypeOK
<1>2. IsFiniteSet(Bs)
  BY ThreadsFinite, FS_Subset, Bs \subseteq Threads
<1>3. Cardinality(Rs \cup Ss) <= Cardinality(Bs)
  BY <1>1, <1>2, FS_Subset
<1>4. Cardinality(Rs \cup Ss) = Cardinality(Rs) + Cardinality(Ss)
  <2>1. IsFiniteSet(Rs) /\ IsFiniteSet(Ss)
    BY AtFinite
  <2>2. Cardinality(Rs \cap Ss) = 0
    BY <1>1, FS_EmptySet
  <2> HIDE DEF Rs, Ss
  <2>3. Cardinality(Rs \cup Ss) = Cardinality(Rs) + Cardinality(Ss) - Cardinality(Rs \cap Ss)
    BY <2>1, FS_Union
  <2> QED
    BY <2>1, <2>2, <2>3, FS_CardinalityType
<1>5. Cardinality(Rs) \in Nat /\ Cardinality(Ss) \in Nat
  BY AtFinite
<1>6. Len(items) = Cardinality(Rs) + Cardinality(Ss)
  BY <1>5 DEF DequeIInv, DequeTypeOK, TokensCountItems
<1> QED
  BY <1>3, <1>4, <1>6

(* Every step of the deque is a step of the blocking deque or a stutter.        *)
LEMMA StepRefines == DequeIInv /\ [DequeNext]_dequeVars => [Queue!Next]_Queue!vars
<1> SUFFICES ASSUME DequeIInv, [DequeNext]_dequeVars PROVE [Queue!Next]_Queue!vars
  OBVIOUS
<1> DEFINE B == Threads \ At("idle")
<1>0. ASSUME NEW t \in Threads, NEW q \in Places, Goto(t, q)
      PROVE  /\ q = "idle" => B' = B \ {t}
             /\ q # "idle" => B' = B \cup {t}
  BY <1>0 DEF DequeIInv, DequeTypeOK, At, Goto
<1> "idle" \in Places /\ "releasing" \in Places /\ "shifting" \in Places
      /\ "blocked" \in Places /\ "polling" \in Places
  BY DEF Places
<1>b. ASSUME NEW t \in Threads PROVE t \in B <=> pc[t] # "idle"
  BY DEF DequeIInv, DequeTypeOK, At
<1> HIDE DEF B
<1>u. ASSUME B' = B, UNCHANGED <<items, ret>> PROVE [Queue!Next]_Queue!vars
  BY <1>u DEF Queue!vars, B
<1>n. ASSUME NEW t \in Threads,
             \/ Queue!Enter(t) \/ Queue!Leave(t) \/ Queue!Take(t) \/ Queue!ComeBackEmpty(t)
      PROVE  [Queue!Next]_Queue!vars
  BY <1>n DEF Queue!Next
<1>1. ASSUME NEW t \in Threads, NEW e \in Elements, Add(t, e) \/ PushFront(t, e)
      PROVE  Queue!Enter(t)
  <2>1. t \notin B /\ B' = B \cup {t}
    BY <1>0, <1>1, <1>b DEF Add, PushFront, Insert
  <2> QED
    BY <1>1, <2>1 DEF Add, PushFront, Insert, Queue!Enter, B
<1>2. ASSUME NEW t \in Threads, Release(t) PROVE Queue!Leave(t)
  <2>1. t \in B /\ B' = B \ {t}
    BY <1>0, <1>2, <1>b DEF Release
  <2> QED
    BY <1>2, <2>1 DEF Release, Queue!Leave, B
<1>3. ASSUME NEW t \in Threads, PopBegin(t) PROVE Queue!Enter(t)
  <2>1. t \notin B /\ B' = B \cup {t}
    BY <1>0, <1>3, <1>b DEF PopBegin, TakeToken
  <2> QED
    BY <1>3, <2>1 DEF PopBegin, TakeToken, Queue!Enter, B
<1>4. ASSUME NEW t \in Threads, PopWoken(t) PROVE [Queue!Next]_Queue!vars
  <2>1. t \in B /\ B' = B \cup {t}
    BY <1>0, <1>4, <1>b DEF PopWoken, TakeToken
  <2> QED
    BY <1>4, <1>u, <2>1 DEF PopWoken, TakeToken
<1>5. ASSUME NEW t \in Threads, PopNull(t) PROVE Queue!ComeBackEmpty(t)
  <2>1. B' = B \ {t}
    BY <1>0, <1>5 DEF PopNull
  <2>2. Len(items) <= Cardinality((Threads \ At("idle")) \ {t})
    BY <1>5, OthersAccount DEF PopNull
  <2>3. /\ items' = items
        /\ ret' = [ret EXCEPT ![t] = Null]
        /\ (Threads \ At("idle"))' = (Threads \ At("idle")) \ {t}
    BY <1>5, <2>1 DEF PopNull, B
  <2>4. Cardinality((Threads \ At("idle")) \ {t}) = Queue!Cardinality((Threads \ At("idle")) \ {t})
    BY Zenon DEF Cardinality, Queue!Cardinality
  <2> QED
    BY <2>2, <2>3, <2>4 DEF Queue!ComeBackEmpty
<1>6. ASSUME NEW t \in Threads, Shift(t) PROVE Queue!Take(t)
  <2>1. t \in B /\ B' = B \ {t}
    BY <1>0, <1>6, <1>b DEF Shift
  <2>2. items # <<>>
    <3>1. t \in At("shifting")
      BY <1>6 DEF Shift, At
    <3> QED
      BY <3>1, ShiftFinds DEF ShiftFindsOne
  <2> QED
    BY <1>6, <2>1, <2>2 DEF Shift, Queue!Take, B
<1>7. CASE UNCHANGED dequeVars
  BY <1>7, <1>u DEF dequeVars, B, At
<1> QED
  BY <1>1, <1>2, <1>3, <1>4, <1>5, <1>6, <1>7, <1>n DEF DequeNext

(* The safety part of ImplementsBlockingDeque: sys.thread.Deque is a blocking   *)
(* deque, for every number of threads.                                        *)
THEOREM StepsAreDequeSteps == DequeSpec => Queue!Init /\ [][Queue!Next]_Queue!vars
<1>1. DequeInit => Queue!Init
  BY DEF DequeInit, Queue!Init, At
<1> QED
  BY <1>1, DequeInductive, StepRefines, PTL DEF DequeSpec

(* The same as the property the run checks.                                    *)
THEOREM DequeIsBlockingDeque == DequeSpec => ImplementsBlockingDeque
BY StepsAreDequeSteps, PTL DEF ImplementsBlockingDeque, Queue!Spec

-----------------------------------------------------------------------------
\* A client past the flag is the only one with its task, and nobody else knows it.
CallsApart ==
  /\ \A c, d \in Clients : adding[c] = adding[d] /\ adding[c] # Idle => c = d
  /\ \A c \in Clients : adding[c] # Idle => fixedStatus[adding[c]] = "calling"

\* A worker has a task exactly while it runs one.
RunningHasTask == \A w \in FixedWorkers : worker[w] = "running" <=> fixedDoing[w] # Idle

FixedIInv == FixedTypeOK /\ CallsApart /\ RunningHasTask /\ FixedEachTaskOnce

LEMMA FixedInitInv == FixedInit => FixedIInv
<1> SUFFICES ASSUME FixedInit PROVE FixedIInv
  OBVIOUS
<1> USE DEF FixedInit
<1>1. FixedTypeOK
  <2>1. fixedQueue \in Seq(Tasks \cup {Pill})
    OBVIOUS
  <2>2. /\ fixedStatus \in [Tasks -> {"new", "calling", "accepted", "rejected"}]
        /\ adding \in [Clients -> Tasks \cup {Idle}]
        /\ closing \in [Clients -> BOOLEAN]
    OBVIOUS
  <2>3. /\ pills \in [Clients -> Nat]
        /\ worker \in [FixedWorkers -> {"popping", "running", "ended", "killed"}]
        /\ fixedDoing \in [FixedWorkers -> Tasks \cup {Idle}]
        /\ fixedRan \in [Tasks -> Nat]
    OBVIOUS
  <2> QED
    BY <2>1, <2>2, <2>3 DEF FixedTypeOK
<1>2. CallsApart /\ RunningHasTask
  BY DEF CallsApart, RunningHasTask
<1>3. ASSUME NEW k \in Tasks PROVE OnePlace(k)
  <2>1. FixedPlaces(k) = {} /\ ~Held(k)
    BY IdleOutside DEF FixedPlaces, Held
  <2> QED
    BY <2>1, IdleOutside DEF OnePlace, Queued
<1> QED
  BY <1>1, <1>2, <1>3 DEF FixedIInv, FixedEachTaskOnce

LEMMA FixedTypeStep == FixedIInv /\ [FixedNext]_fixedVars => FixedTypeOK'
<1> SUFFICES ASSUME FixedTypeOK, RunningHasTask, [FixedNext]_fixedVars PROVE FixedTypeOK'
  BY DEF FixedIInv
<1> USE DEF FixedTypeOK, clientVars
<1>1. ASSUME NEW c \in Clients, NEW k \in Tasks, FixedRunRejected(c, k) \/ FixedRunChecked(c, k)
      PROVE  FixedTypeOK'
  BY <1>1 DEF FixedRunRejected, FixedRunChecked
<1>2. ASSUME NEW c \in Clients, RunAdd(c) PROVE FixedTypeOK'
  BY <1>2 DEF RunAdd
<1>3. ASSUME NEW c \in Clients, FixedShutdownChecked(c) PROVE FixedTypeOK'
  BY <1>3 DEF FixedShutdownChecked
<1>4. ASSUME NEW c \in Clients, ShutdownFlag(c) PROVE FixedTypeOK'
  BY <1>4, WorkersFinite, FS_CardinalityType DEF ShutdownFlag
<1>5. ASSUME NEW c \in Clients, ShutdownPill(c) PROVE FixedTypeOK'
  BY <1>5 DEF ShutdownPill
<1>6. ASSUME NEW w \in FixedWorkers, TakePill(w) PROVE FixedTypeOK'
  BY <1>6 DEF TakePill, Pop
<1>7. ASSUME NEW w \in FixedWorkers, TakeTask(w) PROVE FixedTypeOK'
  BY <1>7 DEF TakeTask, Pop
<1>8. ASSUME NEW w \in FixedWorkers, FixedFinish(w) PROVE FixedTypeOK'
  <2>1. fixedDoing[w] \in Tasks
    BY <1>8 DEF FixedFinish, RunningHasTask
  <2> QED
    BY <1>8, <2>1 DEF FixedFinish
<1>9. CASE UNCHANGED fixedVars
  BY <1>9 DEF fixedVars
<1> QED
  BY <1>1, <1>2, <1>3, <1>4, <1>5, <1>6, <1>7, <1>8, <1>9 DEF FixedNext, FixedCall, FixedClientStep, FixedWorkerStep

LEMMA CallsStep == FixedIInv /\ [FixedNext]_fixedVars => CallsApart'
<1> SUFFICES ASSUME FixedTypeOK, CallsApart, [FixedNext]_fixedVars PROVE CallsApart'
  BY DEF FixedIInv
<1> USE DEF FixedTypeOK, CallsApart
<1>1. ASSUME NEW c \in Clients, NEW k \in Tasks, FixedRunRejected(c, k) PROVE CallsApart'
  BY <1>1 DEF FixedRunRejected
<1>2. ASSUME NEW c \in Clients, NEW k \in Tasks, FixedRunChecked(c, k) PROVE CallsApart'
  BY <1>2, IdleOutside DEF FixedRunChecked
<1>3. ASSUME NEW c \in Clients, RunAdd(c) PROVE CallsApart'
  BY <1>3 DEF RunAdd
<1>4. ASSUME UNCHANGED <<fixedStatus, adding>> PROVE CallsApart'
  BY <1>4
<1> QED
  BY <1>1, <1>2, <1>3, <1>4 DEF FixedNext, FixedCall, FixedClientStep, FixedWorkerStep, FixedShutdownChecked,
     ShutdownFlag, ShutdownPill, TakePill, TakeTask, Pop, FixedFinish, fixedVars, clientVars

LEMMA RunningStep == FixedIInv /\ [FixedNext]_fixedVars => RunningHasTask'
<1> SUFFICES ASSUME FixedTypeOK, RunningHasTask, [FixedNext]_fixedVars PROVE RunningHasTask'
  BY DEF FixedIInv
<1> USE DEF FixedTypeOK, RunningHasTask
<1>1. ASSUME NEW w \in FixedWorkers, TakePill(w) PROVE RunningHasTask'
  BY <1>1 DEF TakePill, Pop
<1>2. ASSUME NEW w \in FixedWorkers, TakeTask(w) PROVE RunningHasTask'
  <2>1. Head(fixedQueue) \in Tasks
    BY <1>2 DEF TakeTask, Pop
  <2> QED
    BY <1>2, <2>1, IdleOutside DEF TakeTask
<1>3. ASSUME NEW w \in FixedWorkers, FixedFinish(w) PROVE RunningHasTask'
  BY <1>3 DEF FixedFinish
<1>4. ASSUME UNCHANGED <<worker, fixedDoing>> PROVE RunningHasTask'
  BY <1>4
<1> QED
  BY <1>1, <1>2, <1>3, <1>4 DEF FixedNext, FixedCall, FixedClientStep, FixedWorkerStep, FixedShutdownChecked,
     ShutdownFlag, ShutdownPill, FixedRunRejected, FixedRunChecked, RunAdd, fixedVars

-----------------------------------------------------------------------------
(* Where a value stands in a queue one longer at the back ...                   *)
LEMMA PlacesAfterAppend ==
  ASSUME FixedTypeOK, NEW e \in Tasks \cup {Pill}, fixedQueue' = Append(fixedQueue, e),
         NEW k \in Tasks
  PROVE  FixedPlaces(k)' = IF e = k THEN FixedPlaces(k) \cup {Len(fixedQueue) + 1} ELSE FixedPlaces(k)
<1>1. DOMAIN fixedQueue' = 1 .. Len(fixedQueue) + 1 /\ DOMAIN fixedQueue = 1 .. Len(fixedQueue)
  BY DEF FixedTypeOK
<1>2. \A i \in DOMAIN fixedQueue' :
         fixedQueue'[i] = IF i = Len(fixedQueue) + 1 THEN e ELSE fixedQueue[i]
  BY DEF FixedTypeOK
<1> QED
  BY <1>1, <1>2 DEF FixedPlaces

(* ... and in one that lost its front: one place further, if it was not there.    *)
LEMMA PlacesAfterTail ==
  ASSUME FixedTypeOK, fixedQueue # <<>>, fixedQueue' = Tail(fixedQueue), NEW k \in Tasks
  PROVE  FixedPlaces(k)' = {i \in DOMAIN fixedQueue' : i + 1 \in FixedPlaces(k)}
<1>1. /\ DOMAIN fixedQueue' = 1 .. Len(fixedQueue) - 1
      /\ DOMAIN fixedQueue = 1 .. Len(fixedQueue)
      /\ Len(fixedQueue) \in Nat \ {0}
  BY DEF FixedTypeOK
<1>2. \A i \in DOMAIN fixedQueue' : fixedQueue'[i] = fixedQueue[i + 1]
  BY DEF FixedTypeOK
<1> QED
  BY <1>1, <1>2 DEF FixedPlaces

(* A front that leaves: a task is elsewhere in the queue as before.             *)
LEMMA PlacesAfterPop ==
  ASSUME FixedTypeOK, fixedQueue # <<>>, fixedQueue' = Tail(fixedQueue), NEW k \in Tasks,
         \A i, j \in FixedPlaces(k) : i = j
  PROVE  /\ \A i, j \in FixedPlaces(k)' : i = j
         /\ Head(fixedQueue) = k => Queued(k) /\ ~Queued(k)'
         /\ Head(fixedQueue) # k => (Queued(k)' <=> Queued(k))
<1>1. FixedPlaces(k)' = {i \in DOMAIN fixedQueue' : i + 1 \in FixedPlaces(k)}
  BY PlacesAfterTail
<1>2. /\ DOMAIN fixedQueue' = 1 .. Len(fixedQueue) - 1
      /\ DOMAIN fixedQueue = 1 .. Len(fixedQueue)
      /\ Len(fixedQueue) \in Nat \ {0}
      /\ Head(fixedQueue) = fixedQueue[1]
  BY DEF FixedTypeOK
<1>3. FixedPlaces(k) \subseteq 1 .. Len(fixedQueue) /\ (1 \in FixedPlaces(k) <=> Head(fixedQueue) = k)
  BY <1>2 DEF FixedPlaces
<1>4. \A i, j \in FixedPlaces(k)' : i = j
  BY <1>1, <1>2
<1>5. ASSUME Head(fixedQueue) = k PROVE Queued(k) /\ ~Queued(k)'
  BY <1>1, <1>2, <1>3, <1>5 DEF Queued
<1>6. ASSUME Head(fixedQueue) # k PROVE Queued(k)' <=> Queued(k)
  <2>1. ASSUME NEW i \in FixedPlaces(k) PROVE i - 1 \in FixedPlaces(k)'
    BY <1>1, <1>2, <1>3, <1>6
  <2>2. ASSUME NEW i \in FixedPlaces(k)' PROVE i + 1 \in FixedPlaces(k)
    BY <1>1
  <2> QED
    BY <2>1, <2>2 DEF Queued
<1> QED
  BY <1>4, <1>5, <1>6

(* A task moves from its call to the queue, from the queue to one worker, and    *)
(* from there to the count of its runs.                                        *)
LEMMA OnceStep == FixedIInv /\ [FixedNext]_fixedVars => FixedEachTaskOnce'
<1> SUFFICES ASSUME FixedIInv, [FixedNext]_fixedVars, NEW k \in Tasks PROVE OnePlace(k)'
  BY DEF FixedEachTaskOnce
<1>0. OnePlace(k) /\ FixedTypeOK
  BY DEF FixedIInv, FixedEachTaskOnce
<1>1. ASSUME NEW c \in Clients, RunAdd(c) PROVE OnePlace(k)'
  <2>1. FixedPlaces(k)' = IF adding[c] = k THEN FixedPlaces(k) \cup {Len(fixedQueue) + 1} ELSE FixedPlaces(k)
    <3>1. adding[c] \in Tasks \cup {Pill} /\ fixedQueue' = Append(fixedQueue, adding[c])
      BY <1>0, <1>1 DEF FixedTypeOK, RunAdd
    <3> QED
      BY <1>0, <3>1, PlacesAfterAppend
  <2>2. Held(k)' = Held(k) /\ fixedRan' = fixedRan /\ fixedDoing' = fixedDoing
    BY <1>1 DEF RunAdd, Held
  <2>3. CASE adding[c] = k
    <3>1. fixedStatus[k] = "calling" /\ fixedStatus'[k] = "accepted"
      BY <1>0, <1>1, <2>3 DEF RunAdd, FixedIInv, CallsApart, FixedTypeOK
    <3>2. FixedPlaces(k) = {} /\ ~Held(k) /\ fixedRan[k] = 0
      BY <1>0, <3>1 DEF OnePlace, Queued
    <3>3. FixedPlaces(k)' = {Len(fixedQueue) + 1}
      BY <2>1, <2>3, <3>2
    <3> QED
      BY <1>0, <2>2, <3>1, <3>2, <3>3 DEF OnePlace, Queued
  <2>4. CASE adding[c] # k
    <3>1. fixedStatus'[k] = fixedStatus[k]
      BY <1>0, <1>1, <2>4 DEF RunAdd, FixedTypeOK
    <3> QED
      BY <1>0, <2>1, <2>2, <2>4, <3>1 DEF OnePlace, Queued
  <2> QED
    BY <2>3, <2>4
<1>2. ASSUME NEW c \in Clients, NEW j \in Tasks, FixedRunRejected(c, j) \/ FixedRunChecked(c, j)
      PROVE  OnePlace(k)'
  <2>1. FixedPlaces(k)' = FixedPlaces(k) /\ Held(k)' = Held(k) /\ fixedRan' = fixedRan /\ fixedDoing' = fixedDoing
    BY <1>2 DEF FixedRunRejected, FixedRunChecked, FixedPlaces, Held
  <2>2. fixedStatus'[k] = "accepted" <=> fixedStatus[k] = "accepted"
    BY <1>0, <1>2 DEF FixedRunRejected, FixedRunChecked, FixedTypeOK
  <2> QED
    BY <1>0, <2>1, <2>2 DEF OnePlace, Queued
<1>3. ASSUME NEW c \in Clients, ShutdownPill(c) PROVE OnePlace(k)'
  <2>1. FixedPlaces(k)' = FixedPlaces(k)
    BY <1>0, <1>3, PlacesAfterAppend, PillOutside DEF ShutdownPill
  <2> QED
    BY <1>0, <1>3, <2>1 DEF ShutdownPill, OnePlace, Queued, Held
<1>4. ASSUME NEW w \in FixedWorkers, TakePill(w) PROVE OnePlace(k)'
  <2>1. /\ \A i, j \in FixedPlaces(k)' : i = j
        /\ Queued(k)' <=> Queued(k)
    <3>1. \A i, j \in FixedPlaces(k) : i = j
      BY <1>0 DEF OnePlace
    <3> QED
      BY <1>0, <1>4, <3>1, PlacesAfterPop, PillOutside DEF TakePill, Pop
  <2> QED
    BY <1>0, <1>4, <2>1 DEF TakePill, Pop, clientVars, OnePlace, Held
<1>5. ASSUME NEW w \in FixedWorkers, TakeTask(w) PROVE OnePlace(k)'
  <2>0. \A i, j \in FixedPlaces(k) : i = j
    BY <1>0 DEF OnePlace
  <2>1. /\ \A i, j \in FixedPlaces(k)' : i = j
        /\ Head(fixedQueue) = k => Queued(k) /\ ~Queued(k)'
        /\ Head(fixedQueue) # k => (Queued(k)' <=> Queued(k))
    BY <1>0, <1>5, <2>0, PlacesAfterPop DEF TakeTask, Pop
  <2>2. fixedStatus' = fixedStatus /\ fixedRan' = fixedRan
    BY <1>5 DEF TakeTask, Pop, clientVars
  <2>3. /\ fixedDoing[w] = Idle
        /\ fixedDoing' = [fixedDoing EXCEPT ![w] = Head(fixedQueue)]
        /\ k # Idle
    BY <1>0, <1>5, IdleOutside DEF TakeTask, Pop, FixedIInv, RunningHasTask, FixedTypeOK
  <2>4. CASE Head(fixedQueue) = k
    <3>1. ~Held(k) /\ Held(k)'
      BY <1>0, <2>1, <2>3, <2>4 DEF OnePlace, Held, FixedTypeOK
    <3>2. \A u, v \in FixedWorkers : fixedDoing'[u] = k /\ fixedDoing'[v] = k => u = v
      BY <1>0, <2>3, <2>4, <3>1 DEF Held, FixedTypeOK
    <3> QED
      BY <1>0, <2>1, <2>2, <2>4, <3>1, <3>2 DEF OnePlace
  <2>5. CASE Head(fixedQueue) # k
    <3>1. Held(k)' <=> Held(k)
      BY <1>0, <2>3, <2>5 DEF Held, FixedTypeOK
    <3>2. \A u, v \in FixedWorkers : fixedDoing'[u] = k /\ fixedDoing'[v] = k => u = v
      BY <1>0, <2>3, <2>5 DEF OnePlace, FixedTypeOK
    <3> QED
      BY <1>0, <2>1, <2>2, <2>5, <3>1, <3>2 DEF OnePlace
  <2> QED
    BY <2>4, <2>5
<1>6. ASSUME NEW w \in FixedWorkers, FixedFinish(w) PROVE OnePlace(k)'
  <2>1. FixedPlaces(k)' = FixedPlaces(k) /\ fixedStatus' = fixedStatus
    BY <1>6 DEF FixedFinish, FixedPlaces, clientVars
  <2>2. /\ fixedRan' = [fixedRan EXCEPT ![fixedDoing[w]] = @ + 1]
        /\ fixedDoing' = [fixedDoing EXCEPT ![w] = Idle]
        /\ k # Idle
    BY <1>6, IdleOutside DEF FixedFinish
  <2>3. CASE fixedDoing[w] = k
    <3>1. fixedRan[k] = 0 /\ Held(k) /\ ~Queued(k)
      BY <1>0, <2>3 DEF OnePlace, Held
    <3>2. fixedRan'[k] = 1
      BY <1>0, <2>2, <2>3, <3>1 DEF FixedTypeOK
    <3>3. ~Held(k)'
      BY <1>0, <2>2, <2>3 DEF OnePlace, Held, FixedTypeOK
    <3>4. \A u, v \in FixedWorkers : fixedDoing'[u] = k /\ fixedDoing'[v] = k => u = v
      BY <3>3 DEF Held
    <3> QED
      BY <1>0, <2>1, <3>1, <3>2, <3>3, <3>4 DEF OnePlace, Queued
  <2>4. CASE fixedDoing[w] # k
    <3>1. fixedRan'[k] = fixedRan[k]
      BY <1>0, <2>2, <2>4 DEF FixedTypeOK
    <3>2. Held(k)' <=> Held(k)
      BY <1>0, <2>2, <2>4 DEF Held, FixedTypeOK
    <3>3. \A u, v \in FixedWorkers : fixedDoing'[u] = k /\ fixedDoing'[v] = k => u = v
      BY <1>0, <2>2, <2>4 DEF OnePlace, FixedTypeOK
    <3> QED
      BY <1>0, <2>1, <3>1, <3>2, <3>3 DEF OnePlace, Queued
  <2> QED
    BY <2>3, <2>4
<1>7. ASSUME UNCHANGED <<fixedStatus, fixedQueue, fixedDoing, fixedRan>> PROVE OnePlace(k)'
  BY <1>0, <1>7 DEF OnePlace, FixedPlaces, Queued, Held
<1> QED
  BY <1>1, <1>2, <1>3, <1>4, <1>5, <1>6, <1>7 DEF FixedNext, FixedCall, FixedClientStep, FixedWorkerStep,
     FixedShutdownChecked, ShutdownFlag, fixedVars, clientVars

(* FixedThreadPool: no interleaving of run, shutdown and the workers runs a task *)
(* twice, or loses one that run accepted before a worker took it.               *)
THEOREM TasksRunAtMostOnce == FixedSpec => []FixedEachTaskOnce
<1>1. FixedIInv /\ [FixedNext]_fixedVars => FixedIInv'
  BY FixedTypeStep, CallsStep, RunningStep, OnceStep DEF FixedIInv
<1>2. FixedIInv => FixedEachTaskOnce
  BY DEF FixedIInv
<1> QED
  BY <1>1, <1>2, FixedInitInv, PTL DEF FixedSpec

-----------------------------------------------------------------------------
(* A behaviour of DequePool is one of the deque and one of the fixed pool, so  *)
(* that what is proved of either holds in the runs of both.                   *)
THEOREM BothRun == Spec => DequeSpec /\ FixedSpec
<1>1. Init => DequeInit /\ FixedInit
  BY DEF Init
<1>2. [Next]_vars => [DequeNext]_dequeVars /\ [FixedNext]_fixedVars
  BY DEF Next, vars
<1> QED
  BY <1>1, <1>2, PTL DEF Spec, DequeSpec, FixedSpec
=============================================================================
