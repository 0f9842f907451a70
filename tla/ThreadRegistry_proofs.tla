----------------------- MODULE ThreadRegistry_proofs -----------------------
(***************************************************************************)
(* For any number of threads, foreign threads and messages: the registry     *)
(* holds the main thread and exactly the spawned threads that live, no       *)
(* message is left under sleeping readers, and the messages of one sender    *)
(* stay in their order.                                                      *)
(***************************************************************************)
EXTENDS ThreadRegistry, TLAPS, FiniteSetTheorems, SequenceTheorems

(* The counter is ahead of every id that was ever given to a thread, so a new  *)
(* thread never gets the state of an old one.                                *)
IdsFresh == /\ nextId \in Nat \ {0}
            /\ pc \in [Actors -> {"unborn", "running", "parked", "notified",
                                  "dropping", "ended"}]
            /\ \A i \in Spawnable : i >= nextId => pc[i] = "unborn"

IInv == IdsFresh /\ RegistryExact

Alive(p) == p \notin {"unborn", "ended"}

LEMMA Names == /\ Spawnable \subseteq Actors /\ Spawnable \subseteq Nat \ {0}
               /\ Foreign \cap Spawnable = {} /\ Foreign \subseteq Actors
               /\ 0 \in Actors /\ 0 \notin Spawnable
BY BoundsNat, ForeignApart DEF Spawnable, Ids, Actors

(* A step that lets no spawned thread come to life or die keeps the invariant. *)
LEMMA SameLives ==
  ASSUME IInv, UNCHANGED <<registry, nextId>>,
         pc' \in [Actors -> {"unborn", "running", "parked", "notified", "dropping", "ended"}],
         \A i \in Spawnable : \/ pc'[i] = pc[i]
                              \/ Alive(pc[i]) /\ Alive(pc'[i])
  PROVE  IInv'
<1>1. \A i \in Spawnable : Alive(pc'[i]) <=> Alive(pc[i])
  OBVIOUS
<1>2. RegistryExact'
  BY <1>1 DEF IInv, RegistryExact, Alive
<1>3. IdsFresh'
  BY DEF IInv, IdsFresh, Alive
<1> QED
  BY <1>2, <1>3 DEF IInv

(* Parking, waking and reading happen among the living.                       *)
LEMMA ReaderLives ==
  ASSUME IInv, NEW t \in Actors, pc[t] \in {"running", "notified"},
         Pop(t) \/ ParkReader(t) \/ UNCHANGED pc, UNCHANGED <<registry, nextId>>
  PROVE  IInv'
<1>1. \/ UNCHANGED pc
      \/ pc' = [pc EXCEPT ![t] = "running"]
      \/ pc' = [pc EXCEPT ![t] = "parked"]
  BY DEF Pop, ParkReader
<1> QED
  BY <1>1, SameLives, Names DEF IInv, IdsFresh, Alive

LEMMA StepHolds == IInv /\ [Next]_vars => IInv'
<1> SUFFICES ASSUME IInv, [Next]_vars PROVE IInv'
  OBVIOUS
<1> USE Names
<1>1. ASSUME NEW t \in Actors, Spawn(t) PROVE IInv'
  <2>1. pc[nextId] = "unborn" /\ nextId \in Spawnable
    BY <1>1 DEF Spawn, IInv, IdsFresh
  <2>2. /\ pc'[nextId] = "running"
        /\ \A i \in Spawnable \ {nextId} : pc'[i] = pc[i]
    BY <1>1, <2>1 DEF Spawn, IInv, IdsFresh
  <2>3. RegistryExact'
    BY <1>1, <2>1, <2>2 DEF Spawn, IInv, RegistryExact
  <2>4. IdsFresh'
    BY <1>1, <2>1, <2>2 DEF Spawn, IInv, IdsFresh
  <2> QED
    BY <2>3, <2>4 DEF IInv
<1>2. ASSUME NEW t \in Actors, SpawnFails(t) PROVE IInv'
  <2>1. pc[nextId] = "unborn" /\ nextId \in Spawnable
    BY <1>2 DEF SpawnFails, IInv, IdsFresh
  <2>2. /\ pc'[nextId] = "ended"
        /\ \A i \in Spawnable \ {nextId} : pc'[i] = pc[i]
    BY <1>2, <2>1 DEF SpawnFails, IInv, IdsFresh
  <2>3. RegistryExact'
    BY <1>2, <2>1, <2>2 DEF SpawnFails, IInv, RegistryExact
  <2>4. IdsFresh'
    BY <1>2, <2>1, <2>2 DEF SpawnFails, IInv, IdsFresh
  <2> QED
    BY <2>3, <2>4 DEF IInv
<1>3. ASSUME NEW t \in Actors, JobEnds(t) PROVE IInv'
  <2>1. t \in Spawnable \/ t \in Foreign
    BY <1>3 DEF JobEnds, Actors, Ids, Spawnable
  <2> QED
    BY <1>3, <2>1, SameLives DEF JobEnds, Free, IInv, IdsFresh, Alive
<1>4. ASSUME NEW i \in Spawnable, DropGuard(i) PROVE IInv'
  <2>1. pc'[i] = "ended" /\ \A j \in Spawnable \ {i} : pc'[j] = pc[j]
    BY <1>4 DEF DropGuard, IInv, IdsFresh
  <2>2. RegistryExact'
    BY <1>4, <2>1 DEF DropGuard, IInv, RegistryExact
  <2>3. IdsFresh'
    BY <1>4, <2>1 DEF DropGuard, IInv, IdsFresh
  <2> QED
    BY <2>2, <2>3 DEF IInv
<1>5. ASSUME NEW f \in Foreign, StartForeign(f) PROVE IInv'
  BY <1>5, SameLives DEF StartForeign, IInv, IdsFresh
<1>6. ASSUME NEW t \in Actors, NEW i \in Ids, SendLookup(t, i) PROVE IInv'
  BY <1>6, SameLives DEF SendLookup, IInv, IdsFresh
<1>7. ASSUME NEW t \in Actors, SendDeliver(t) PROVE IInv'
  <2> DEFINE i == sending[t].to
  <2>1. \/ UNCHANGED pc
        \/ \E r \in Readers(i, "parked") : pc' = [pc EXCEPT ![r] = "notified"]
    BY <1>7 DEF SendDeliver, NotifyOne
  <2>2. \A r \in Readers(i, "parked") : r \in Actors /\ Alive(pc[r])
    BY DEF Readers, Alive
  <2> QED
    BY <1>7, <2>1, <2>2, SameLives DEF SendDeliver, IInv, IdsFresh, Alive
<1>8. ASSUME NEW t \in Actors, NEW block \in BOOLEAN, Read(t, block) PROVE IInv'
  BY <1>8, ReaderLives DEF Read, Free
<1>9. ASSUME NEW t \in Actors, ResumeRead(t) PROVE IInv'
  BY <1>9, ReaderLives DEF ResumeRead
<1>10. CASE UNCHANGED vars
  BY <1>10, SameLives DEF vars, IInv, IdsFresh
<1> QED
  BY <1>1, <1>2, <1>3, <1>4, <1>5, <1>6, <1>7, <1>8, <1>9, <1>10 DEF Next

(* A thread is registered exactly while its registration scope is open,        *)
(* whatever way its job ends and whoever fails to be started.                  *)
THEOREM RegistryIsExact == Spec => []RegistryExact
<1>1. Init => IInv
  BY Names DEF Init, IInv, IdsFresh, RegistryExact, Actors, Ids, Spawnable
<1>2. IInv => RegistryExact
  BY DEF IInv
<1> QED
  BY <1>1, <1>2, StepHolds, PTL DEF Spec

-----------------------------------------------------------------------------
(* Readers that sleep, readers on their way and messages.                     *)
WakeInv == queue \in [Ids -> Seq(Message)] /\ NoLostWakeup

LEMMA SomeFinite ==
  ASSUME IsFiniteSet(Foreign), NEW some \in SUBSET Actors
  PROVE  IsFiniteSet(some) /\ Cardinality(some) \in Nat
<1>1. IsFiniteSet(0 .. MaxThreads)
  BY FS_Interval, BoundsNat
<1>2. IsFiniteSet(Actors)
  BY <1>1, FS_Union DEF Actors, Ids
<1>3. IsFiniteSet(some)
  BY <1>2, FS_Subset
<1> QED
  BY <1>3, FS_CardinalityType

LEMMA ReadersFinite ==
  ASSUME IsFiniteSet(Foreign), NEW i, NEW place
  PROVE  /\ IsFiniteSet(Readers(i, place))
         /\ Cardinality(Readers(i, place)) \in Nat
BY SomeFinite DEF Readers

(* A step that moves no reader and no message.                                *)
LEMMA SameReaders ==
  ASSUME WakeInv, UNCHANGED queue,
         \A t \in Actors : pc'[t] # pc[t] =>
           pc[t] \notin {"parked", "notified"} /\ pc'[t] \notin {"parked", "notified"}
  PROVE  WakeInv'
<1>1. \A i \in Ids : /\ Readers(i, "parked")' = Readers(i, "parked")
                     /\ Readers(i, "notified")' = Readers(i, "notified")
  BY DEF Readers
<1> QED
  BY <1>1 DEF WakeInv, NoLostWakeup

(* A message wakes one of the sleepers, if there are any.                     *)
LEMMA DeliverWakes ==
  ASSUME IsFiniteSet(Foreign), IInv, WakeInv, NEW t \in Actors, SendDeliver(t),
         sending[t].to \in Ids, sending[t].msg \in Message
  PROVE  WakeInv'
<1> PICK i \in Ids, m \in Message : i = sending[t].to /\ m = sending[t].msg
  OBVIOUS
<1>0. pc \in [Actors -> {"unborn", "running", "parked", "notified", "dropping", "ended"}]
  BY DEF IInv, IdsFresh
<1>1. /\ queue' = [queue EXCEPT ![i] = Append(queue[i], m)] /\ NotifyOne(i)
      /\ queue[i] \in Seq(Message)
  BY DEF SendDeliver, WakeInv
<1>2. /\ queue' \in [Ids -> Seq(Message)]
      /\ Len(queue'[i]) = Len(queue[i]) + 1 /\ Len(queue[i]) \in Nat
      /\ \A j \in Ids \ {i} : queue'[j] = queue[j]
  BY <1>1, AppendProperties DEF WakeInv
<1>3. CASE Readers(i, "parked") = {} /\ UNCHANGED pc
  <2>1. \A j \in Ids : /\ Readers(j, "parked")' = Readers(j, "parked")
                       /\ Readers(j, "notified")' = Readers(j, "notified")
    BY <1>3 DEF Readers
  <2> QED
    BY <1>2, <1>3, <2>1 DEF WakeInv, NoLostWakeup
<1>4. ASSUME NEW r \in Readers(i, "parked"), pc' = [pc EXCEPT ![r] = "notified"]
      PROVE  WakeInv'
  <2>1. /\ r \in Actors /\ IdOf(r) = i /\ pc[r] = "parked"
        /\ pc'[r] = "notified" /\ \A q \in Actors \ {r} : pc'[q] = pc[q]
    BY <1>0, <1>4 DEF Readers
  <2>2. /\ Readers(i, "notified")' = Readers(i, "notified") \cup {r}
        /\ r \notin Readers(i, "notified")
    BY <2>1 DEF Readers
  <2>3. Cardinality(Readers(i, "notified")') = Cardinality(Readers(i, "notified")) + 1
    BY <2>2, ReadersFinite, FS_AddElement
  <2>4. \A j \in Ids \ {i} : /\ Readers(j, "parked")' = Readers(j, "parked")
                             /\ Readers(j, "notified")' = Readers(j, "notified")
    BY <2>1 DEF Readers
  <2>5. Len(queue[i]) <= Cardinality(Readers(i, "notified"))
    BY <1>4 DEF WakeInv, NoLostWakeup
  <2>6. Cardinality(Readers(i, "notified")) \in Nat
    BY ReadersFinite
  <2>7. Len(queue'[i]) <= Cardinality(Readers(i, "notified")')
    BY <1>2, <2>3, <2>5, <2>6
  <2>8. NoLostWakeup'
    <3> SUFFICES ASSUME NEW j \in Ids, Readers(j, "parked")' # {}
                 PROVE  Len(queue'[j]) <= Cardinality(Readers(j, "notified")')
      BY DEF NoLostWakeup
    <3>1. CASE j = i
      BY <2>7, <3>1
    <3>2. CASE j # i
      BY <1>2, <2>4, <3>2 DEF WakeInv, NoLostWakeup
    <3> QED
      BY <3>1, <3>2
  <2> QED
    BY <1>2, <2>8 DEF WakeInv
<1> QED
  BY <1>1, <1>3, <1>4 DEF NotifyOne

(* A reader takes a message, or sleeps because there is none.                 *)
LEMMA ReaderKeeps ==
  ASSUME IsFiniteSet(Foreign), IInv, WakeInv, NEW t \in Actors,
         pc[t] \in {"running", "notified"}, Pop(t) \/ ParkReader(t)
  PROVE  WakeInv'
<1> DEFINE i == IdOf(t)
<1>0. /\ pc \in [Actors -> {"unborn", "running", "parked", "notified", "dropping", "ended"}]
      /\ i \in Ids /\ queue[i] \in Seq(Message)
  BY BoundsNat DEF IInv, IdsFresh, WakeInv, IdOf, Actors, Ids
<1>1. CASE ParkReader(t)
  <2>1. /\ UNCHANGED queue /\ queue[i] = <<>> /\ pc'[t] = "parked"
        /\ \A q \in Actors \ {t} : pc'[q] = pc[q]
    BY <1>0, <1>1 DEF ParkReader
  <2>2. \A j \in Ids \ {i} : /\ Readers(j, "parked")' = Readers(j, "parked")
                             /\ Readers(j, "notified")' = Readers(j, "notified")
    BY <2>1 DEF Readers
  <2>3. Len(queue'[i]) = 0 /\ Cardinality(Readers(i, "notified")') \in Nat
    <3>1. Readers(i, "notified")' \in SUBSET Actors
      BY DEF Readers
    <3> QED
      BY <2>1, <3>1, SomeFinite
  <2> QED
    BY <2>1, <2>2, <2>3 DEF WakeInv, NoLostWakeup
<1>2. CASE Pop(t)
  <2>1. /\ queue[i] # <<>> /\ queue' = [queue EXCEPT ![i] = Tail(queue[i])]
        /\ pc'[t] = "running" /\ \A q \in Actors \ {t} : pc'[q] = pc[q]
    BY <1>0, <1>2 DEF Pop
  <2>2. /\ queue' \in [Ids -> Seq(Message)]
        /\ Len(queue'[i]) = Len(queue[i]) - 1 /\ Len(queue[i]) \in Nat
        /\ \A j \in Ids \ {i} : queue'[j] = queue[j]
    BY <1>0, <2>1, HeadTailProperties DEF WakeInv
  <2>3. \A j \in Ids \ {i} : /\ Readers(j, "parked")' = Readers(j, "parked")
                             /\ Readers(j, "notified")' = Readers(j, "notified")
    BY <2>1 DEF Readers
  <2>4. /\ Readers(i, "parked")' = Readers(i, "parked")
        /\ Readers(i, "notified")' = Readers(i, "notified") \ {t}
    BY <2>1 DEF Readers
  <2> DEFINE before == Readers(i, "notified")
             after == before \ {t}
  <2>5. Cardinality(before) \in Nat
    BY ReadersFinite
  <2>6. /\ IsFiniteSet(after)
        /\ Cardinality(after) = IF t \in before THEN Cardinality(before) - 1
                                ELSE Cardinality(before)
    BY ReadersFinite, FS_RemoveElement
  <2>7. Cardinality(after) \in Nat /\ Cardinality(after) >= Cardinality(before) - 1
    BY <2>5, <2>6, FS_CardinalityType
  <2>8. Readers(i, "parked")' # {} => Len(queue'[i]) <= Cardinality(Readers(i, "notified")')
    <3>1. Readers(i, "parked") # {} => Len(queue[i]) <= Cardinality(before)
      BY <1>0 DEF WakeInv, NoLostWakeup
    <3> HIDE DEF before, after
    <3>2. Readers(i, "parked") # {} => Len(queue[i]) - 1 <= Cardinality(after)
      BY <2>2, <2>5, <2>7, <3>1
    <3> QED
      BY <2>2, <2>4, <3>2 DEF before, after
  <2> QED
    BY <2>2, <2>3, <2>8 DEF WakeInv, NoLostWakeup
<1> QED
  BY <1>1, <1>2

-----------------------------------------------------------------------------
(* What is in a queue of one sender comes after what was read of it, in the   *)
(* order it was sent, and before what the sender is about to add.             *)
MailTypeOK ==
  /\ queue \in [Ids -> Seq(Message)]
  /\ sending \in [Actors -> {NoSend} \cup [to : Ids, msg : Message]]
  /\ sent \in [Actors -> Nat]
  /\ lastRead \in [Ids -> [Actors -> Nat]]

Queued(i, k, t) == k \in DOMAIN queue[i] /\ queue[i][k][1] = t

InQueueOrder ==
  \A i \in Ids, t \in Actors :
    \A k \in DOMAIN queue[i] : Queued(i, k, t) =>
      /\ lastRead[i][t] < queue[i][k][2]
      /\ \A l \in DOMAIN queue[i] : Queued(i, l, t) /\ l < k => queue[i][l][2] < queue[i][k][2]

BehindSender ==
  \A i \in Ids, t \in Actors :
    /\ lastRead[i][t] <= sent[t]
    /\ sending[t] # NoSend => lastRead[i][t] < sent[t]
    /\ \A k \in DOMAIN queue[i] : Queued(i, k, t) =>
         /\ queue[i][k][2] <= sent[t]
         /\ sending[t] # NoSend => queue[i][k][2] < sent[t]

SendsNext ==
  \A t \in Actors : sending[t] # NoSend => sending[t].msg = <<t, sent[t]>>

MailInv == MailTypeOK /\ InQueueOrder /\ BehindSender /\ SendsNext

Reads(t) == Pop(t) /\ UNCHANGED <<sending, sent>>

LEMMA SameMail ==
  ASSUME MailInv, UNCHANGED <<queue, sending, sent, lastRead>>
  PROVE  MailInv'
BY DEF MailInv, MailTypeOK, InQueueOrder, BehindSender, SendsNext, Queued

LEMMA NumbersNat ==
  ASSUME MailTypeOK, NEW j \in Ids, NEW k \in DOMAIN queue[j]
  PROVE  queue[j][k] \in Message /\ queue[j][k][2] \in Nat
<1>1. queue[j] \in Seq(Message) /\ k \in 1 .. Len(queue[j])
  BY DEF MailTypeOK
<1>2. queue[j][k] \in Message
  BY <1>1, ElementOfSeq
<1> QED
  BY <1>2, BoundsNat DEF Message

LEMMA LookupMail ==
  ASSUME MailInv, NEW t \in Actors, NEW i \in Ids, SendLookup(t, i)
  PROVE  MailInv'
<1>1. CASE UNCHANGED <<sent, sending>>
  BY <1>1, SameMail DEF SendLookup
<1>2. CASE /\ sent' = [sent EXCEPT ![t] = @ + 1]
           /\ sending' = [sending EXCEPT ![t] = [to |-> i, msg |-> <<t, sent[t] + 1>>]]
  <2>1. /\ sent[t] \in Nat /\ sent[t] < MaxSends /\ sending[t] = NoSend
        /\ sent' \in [Actors -> Nat] /\ sent'[t] = sent[t] + 1
        /\ \A q \in Actors \ {t} : sent'[q] = sent[q] /\ sending'[q] = sending[q]
        /\ sending'[t] = [to |-> i, msg |-> <<t, sent[t] + 1>>]
        /\ UNCHANGED <<queue, lastRead>>
    BY <1>2 DEF SendLookup, Free, MailInv, MailTypeOK
  <2>2. <<t, sent[t] + 1>> \in Message
    BY <2>1, BoundsNat DEF Message
  <2>3. MailTypeOK'
    BY <1>2, <2>1, <2>2 DEF MailInv, MailTypeOK
  <2>4. InQueueOrder'
    BY <2>1 DEF MailInv, InQueueOrder, Queued
  <2>5. SendsNext'
    BY <2>1 DEF MailInv, SendsNext
  <2>6. BehindSender'
    <3> SUFFICES ASSUME NEW j \in Ids, NEW q \in Actors
                 PROVE  /\ lastRead[j][q] <= sent'[q]
                        /\ sending'[q] # NoSend => lastRead[j][q] < sent'[q]
                        /\ \A k \in DOMAIN queue[j] : Queued(j, k, q) =>
                             /\ queue[j][k][2] <= sent'[q]
                             /\ sending'[q] # NoSend => queue[j][k][2] < sent'[q]
      BY <2>1 DEF BehindSender, Queued
    <3>1. lastRead[j][q] \in Nat /\ \A k \in DOMAIN queue[j] : queue[j][k][2] \in Nat
      BY NumbersNat DEF MailInv, MailTypeOK
    <3> QED
      BY <2>1, <3>1 DEF MailInv, BehindSender
  <2> QED
    BY <2>3, <2>4, <2>5, <2>6 DEF MailInv
<1> QED
  BY <1>1, <1>2 DEF SendLookup

LEMMA DeliverMail ==
  ASSUME MailInv, NEW t \in Actors, SendDeliver(t)
  PROVE  MailInv'
<1> DEFINE i == sending[t].to
           n == Len(queue[i]) + 1
<1>1. /\ sending[t] # NoSend /\ sending[t].msg = <<t, sent[t]>> /\ <<t, sent[t]>> \in Message
      /\ i \in Ids /\ queue[i] \in Seq(Message)
      /\ queue' = [queue EXCEPT ![i] = Append(queue[i], <<t, sent[t]>>)]
      /\ UNCHANGED <<sent, lastRead>> /\ sending' = [sending EXCEPT ![t] = NoSend]
  BY DEF SendDeliver, MailInv, MailTypeOK, SendsNext
<1>2. /\ queue' \in [Ids -> Seq(Message)]
      /\ \A j \in Ids \ {i} : queue'[j] = queue[j]
      /\ DOMAIN queue[i] = 1 .. Len(queue[i]) /\ Len(queue[i]) \in Nat
      /\ DOMAIN queue'[i] = 1 .. n
      /\ queue'[i][n] = <<t, sent[t]>>
      /\ \A k \in DOMAIN queue[i] : queue'[i][k] = queue[i][k]
  BY <1>1, AppendProperties DEF MailInv, MailTypeOK
<1>3. MailTypeOK' /\ SendsNext'
  BY <1>1, <1>2 DEF MailInv, MailTypeOK, SendsNext
<1>4. ASSUME NEW q \in Actors, NEW j \in Ids, NEW k, ~(q = t /\ j = i /\ k = n)
      PROVE  Queued(j, k, q)' <=> Queued(j, k, q)
  <2>1. CASE j = i
    <3>1. k \in DOMAIN queue'[i] <=> k = n \/ k \in DOMAIN queue[i]
      BY <1>2
    <3>2. n \notin DOMAIN queue[i] /\ queue'[i][n][1] = t
      BY <1>2
    <3> QED
      BY <1>2, <1>4, <2>1, <3>1, <3>2 DEF Queued
  <2>2. CASE j # i
    BY <1>2, <2>2 DEF Queued
  <2> QED
    BY <2>1, <2>2
<1>6. sent[t] \in Nat /\ \A j \in Ids : \A k \in DOMAIN queue[j] : queue[j][k][2] \in Nat
  BY NumbersNat DEF MailInv, MailTypeOK
<1>7. BehindSender'
  <2> SUFFICES ASSUME NEW j \in Ids, NEW q \in Actors, NEW k \in DOMAIN queue'[j], Queued(j, k, q)'
               PROVE  /\ queue'[j][k][2] <= sent[q]
                      /\ sending'[q] # NoSend => queue'[j][k][2] < sent[q]
    BY <1>1 DEF BehindSender, MailInv, MailTypeOK
  <2>1. CASE Queued(j, k, q)
    <3>1. queue'[j][k] = queue[j][k]
      BY <1>2, <2>1 DEF Queued
    <3> QED
      BY <1>1, <2>1, <3>1 DEF MailInv, MailTypeOK, BehindSender, Queued
  <2>2. CASE ~Queued(j, k, q)
    <3>1. q = t /\ j = i /\ k = n
      BY <1>4, <2>2
    <3> QED
      BY <1>1, <1>2, <1>6, <3>1 DEF MailInv, MailTypeOK
  <2> QED
    BY <2>1, <2>2
<1>8. InQueueOrder'
  <2> SUFFICES ASSUME NEW j \in Ids, NEW q \in Actors, NEW k \in DOMAIN queue'[j], Queued(j, k, q)'
               PROVE  /\ lastRead[j][q] < queue'[j][k][2]
                      /\ \A l \in DOMAIN queue'[j] :
                           Queued(j, l, q)' /\ l < k => queue'[j][l][2] < queue'[j][k][2]
    BY <1>1 DEF InQueueOrder
  <2>1. CASE Queued(j, k, q)
    <3>1. /\ k \in DOMAIN queue[j] /\ queue'[j][k] = queue[j][k]
          /\ lastRead[j][q] < queue[j][k][2]
      BY <1>2, <2>1 DEF Queued, MailInv, InQueueOrder
    <3>2. ASSUME NEW l \in DOMAIN queue'[j], Queued(j, l, q)', l < k
          PROVE  queue'[j][l][2] < queue'[j][k][2]
      <4>1. ~(j = i /\ l = n)
        BY <1>2, <3>1, <3>2
      <4>2. Queued(j, l, q)
        BY <1>4, <3>2, <4>1
      <4>3. queue'[j][l] = queue[j][l]
        BY <1>2, <4>2 DEF Queued
      <4> QED
        BY <2>1, <3>1, <3>2, <4>2, <4>3 DEF Queued, MailInv, InQueueOrder
    <3> QED
      BY <3>1, <3>2
  <2>2. CASE ~Queued(j, k, q)
    <3>1. q = t /\ j = i /\ k = n /\ queue'[j][k][2] = sent[t]
      BY <1>2, <1>4, <2>2
    <3>2. lastRead[j][q] < sent[t]
      BY <1>1, <3>1 DEF MailInv, BehindSender
    <3>3. ASSUME NEW l \in DOMAIN queue'[j], Queued(j, l, q)', l < k
          PROVE  queue'[j][l][2] < queue'[j][k][2]
      <4>1. l # n
        BY <1>2, <3>1, <3>3
      <4>2. Queued(j, l, q)
        BY <1>4, <3>3, <4>1
      <4>3. queue'[j][l] = queue[j][l]
        BY <1>2, <3>1, <4>2 DEF Queued
      <4> QED
        BY <1>1, <3>1, <4>2, <4>3 DEF Queued, MailInv, BehindSender
    <3> QED
      BY <3>1, <3>2, <3>3
  <2> QED
    BY <2>1, <2>2
<1> QED
  BY <1>3, <1>7, <1>8 DEF MailInv

LEMMA ReadMail ==
  ASSUME MailInv, NEW t \in Actors, Reads(t)
  PROVE  /\ MailInv'
         /\ \A j \in Ids, q \in Actors :
              lastRead'[j][q] # lastRead[j][q] => lastRead'[j][q] > lastRead[j][q]
<1> DEFINE i == IdOf(t)
           m == Head(queue[i])
<1>1. /\ i \in Ids /\ queue[i] \in Seq(Message) /\ queue[i] # <<>>
      /\ queue' = [queue EXCEPT ![i] = Tail(queue[i])]
      /\ lastRead' = [lastRead EXCEPT ![i][m[1]] = m[2]]
      /\ UNCHANGED <<sending, sent>>
  BY BoundsNat DEF Reads, Pop, MailInv, MailTypeOK, IdOf, Actors, Ids
<1>2. /\ queue' \in [Ids -> Seq(Message)]
      /\ \A j \in Ids \ {i} : queue'[j] = queue[j]
      /\ Len(queue[i]) \in Nat \ {0} /\ DOMAIN queue[i] = 1 .. Len(queue[i])
      /\ DOMAIN queue'[i] = 1 .. (Len(queue[i]) - 1)
      /\ \A k \in 1 .. (Len(queue[i]) - 1) : queue'[i][k] = queue[i][k + 1]
      /\ m = queue[i][1] /\ m \in Message
  BY <1>1, HeadTailProperties DEF MailInv, MailTypeOK
<1>3. m[1] \in Actors /\ m[2] \in Nat /\ Queued(i, 1, m[1])
  BY <1>2, BoundsNat DEF Message, Queued
<1>4. /\ lastRead' \in [Ids -> [Actors -> Nat]] /\ lastRead'[i][m[1]] = m[2]
      /\ \A j \in Ids, q \in Actors : j # i \/ q # m[1] => lastRead'[j][q] = lastRead[j][q]
  BY <1>1, <1>3 DEF MailInv, MailTypeOK
<1>5. lastRead[i][m[1]] < m[2] /\ m[2] <= sent[m[1]]
      /\ (sending[m[1]] # NoSend => m[2] < sent[m[1]])
  BY <1>1, <1>2, <1>3 DEF MailInv, InQueueOrder, BehindSender
<1>6. ASSUME NEW j \in Ids, NEW q \in Actors, NEW k \in DOMAIN queue'[j], Queued(j, k, q)'
      PROVE  LET o == IF j = i THEN k + 1 ELSE k
             IN o \in DOMAIN queue[j] /\ Queued(j, o, q) /\ queue'[j][k] = queue[j][o]
  BY <1>2, <1>6 DEF Queued
<1>7. MailTypeOK' /\ SendsNext'
  BY <1>1, <1>2, <1>4 DEF MailInv, MailTypeOK, SendsNext
<1>8. BehindSender'
  <2> SUFFICES ASSUME NEW j \in Ids, NEW q \in Actors
               PROVE  /\ lastRead'[j][q] <= sent[q]
                      /\ sending[q] # NoSend => lastRead'[j][q] < sent[q]
                      /\ \A k \in DOMAIN queue'[j] : Queued(j, k, q)' =>
                           /\ queue'[j][k][2] <= sent[q]
                           /\ sending[q] # NoSend => queue'[j][k][2] < sent[q]
    BY <1>1 DEF BehindSender
  <2>1. /\ lastRead'[j][q] <= sent[q]
        /\ sending[q] # NoSend => lastRead'[j][q] < sent[q]
    BY <1>3, <1>4, <1>5 DEF MailInv, BehindSender
  <2>2. ASSUME NEW k \in DOMAIN queue'[j], Queued(j, k, q)'
        PROVE  /\ queue'[j][k][2] <= sent[q]
               /\ sending[q] # NoSend => queue'[j][k][2] < sent[q]
    BY <1>6, <2>2 DEF MailInv, BehindSender
  <2> QED
    BY <2>1, <2>2
<1>9. InQueueOrder'
  <2> SUFFICES ASSUME NEW j \in Ids, NEW q \in Actors, NEW k \in DOMAIN queue'[j], Queued(j, k, q)'
               PROVE  /\ lastRead'[j][q] < queue'[j][k][2]
                      /\ \A l \in DOMAIN queue'[j] :
                           Queued(j, l, q)' /\ l < k => queue'[j][l][2] < queue'[j][k][2]
    BY DEF InQueueOrder
  <2> DEFINE Old(l) == IF j = i THEN l + 1 ELSE l
  <2>1. Old(k) \in DOMAIN queue[j] /\ Queued(j, Old(k), q) /\ queue'[j][k] = queue[j][Old(k)]
    BY <1>6
  <2>2. lastRead'[j][q] < queue'[j][k][2]
    <3>1. CASE j = i /\ q = m[1]
      <4>1. 1 < Old(k) /\ 1 \in DOMAIN queue[i]
        BY <1>2, <3>1
      <4>2. queue[i][1][2] < queue[i][Old(k)][2]
        BY <1>1, <1>3, <2>1, <3>1, <4>1 DEF MailInv, InQueueOrder
      <4> QED
        BY <1>2, <1>4, <2>1, <3>1, <4>2
    <3>2. CASE ~(j = i /\ q = m[1])
      BY <1>4, <2>1, <3>2 DEF MailInv, InQueueOrder
    <3> QED
      BY <3>1, <3>2
  <2>3. ASSUME NEW l \in DOMAIN queue'[j], Queued(j, l, q)', l < k
        PROVE  queue'[j][l][2] < queue'[j][k][2]
    <3>1. Old(l) \in DOMAIN queue[j] /\ Queued(j, Old(l), q) /\ queue'[j][l] = queue[j][Old(l)]
      BY <1>6, <2>3
    <3>2. DOMAIN queue'[j] \subseteq Int
      BY <1>2
    <3>3. Old(l) < Old(k)
      BY <2>3, <3>2
    <3> QED
      BY <2>1, <3>1, <3>3 DEF MailInv, InQueueOrder
  <2> QED
    BY <2>2, <2>3
<1> QED
  BY <1>4, <1>5, <1>7, <1>8, <1>9 DEF MailInv, MailTypeOK

-----------------------------------------------------------------------------
LEMMA MailNext ==
  ASSUME MailInv, [Next]_vars
  PROVE  /\ MailInv'
         /\ \A j \in Ids, q \in Actors :
              lastRead'[j][q] # lastRead[j][q] => lastRead'[j][q] > lastRead[j][q]
<1>1. CASE UNCHANGED <<queue, sending, sent, lastRead>>
  BY <1>1, SameMail
<1>2. ASSUME NEW t \in Actors, Reads(t)
      PROVE  /\ MailInv'
             /\ \A j \in Ids, q \in Actors :
                  lastRead'[j][q] # lastRead[j][q] => lastRead'[j][q] > lastRead[j][q]
  BY <1>2, ReadMail
<1>3. ASSUME NEW t \in Actors,
             (\E block \in BOOLEAN : Read(t, block)) \/ ResumeRead(t),
             ~UNCHANGED <<queue, sending, sent, lastRead>>
      PROVE  Reads(t)
  BY <1>3 DEF Read, ResumeRead, ParkReader, Reads
<1>4. ASSUME NEW t \in Actors, Spawn(t) \/ SpawnFails(t) \/ JobEnds(t)
      PROVE  UNCHANGED <<queue, sending, sent, lastRead>>
  BY <1>4 DEF Spawn, SpawnFails, JobEnds
<1>5. ASSUME NEW i, DropGuard(i) \/ StartForeign(i)
      PROVE  UNCHANGED <<queue, sending, sent, lastRead>>
  BY <1>5 DEF DropGuard, StartForeign
<1>6. ASSUME NEW t \in Actors, SendDeliver(t) PROVE MailInv' /\ UNCHANGED lastRead
  BY <1>6, DeliverMail DEF SendDeliver
<1>7. ASSUME NEW t \in Actors, NEW i \in Ids, SendLookup(t, i)
      PROVE  MailInv' /\ UNCHANGED lastRead
  BY <1>7, LookupMail DEF SendLookup
<1>8. CASE UNCHANGED vars
  BY <1>8, <1>1 DEF vars
<1> QED
  BY <1>1, <1>2, <1>3, <1>4, <1>5, <1>6, <1>7, <1>8 DEF Next

LEMMA WakeNext ==
  ASSUME IsFiniteSet(Foreign), IInv, WakeInv, MailInv, [Next]_vars
  PROVE  WakeInv'
<1> USE Names
<1>0. pc \in [Actors -> {"unborn", "running", "parked", "notified", "dropping", "ended"}]
  BY DEF IInv, IdsFresh
<1>1. ASSUME NEW t \in Actors, Spawn(t) \/ SpawnFails(t) PROVE WakeInv'
  <2>1. pc[nextId] = "unborn" /\ nextId \in Actors
    BY <1>1 DEF Spawn, SpawnFails, IInv, IdsFresh
  <2> QED
    BY <1>0, <1>1, <2>1, SameReaders DEF Spawn, SpawnFails
<1>2. ASSUME NEW t \in Actors, JobEnds(t) PROVE WakeInv'
  BY <1>0, <1>2, SameReaders DEF JobEnds, Free
<1>3. ASSUME NEW i \in Spawnable, DropGuard(i) PROVE WakeInv'
  BY <1>0, <1>3, SameReaders DEF DropGuard
<1>4. ASSUME NEW f \in Foreign, StartForeign(f) PROVE WakeInv'
  BY <1>0, <1>4, SameReaders DEF StartForeign
<1>5. ASSUME NEW t \in Actors, NEW i \in Ids, SendLookup(t, i) PROVE WakeInv'
  BY <1>5, SameReaders DEF SendLookup
<1>6. ASSUME NEW t \in Actors, SendDeliver(t) PROVE WakeInv'
  <2>1. sending[t].to \in Ids /\ sending[t].msg \in Message
    BY <1>6 DEF SendDeliver, MailInv, MailTypeOK
  <2> QED
    BY <1>6, <2>1, DeliverWakes
<1>7. ASSUME NEW t \in Actors, NEW block \in BOOLEAN, Read(t, block) PROVE WakeInv'
  <2>1. CASE Pop(t) \/ ParkReader(t)
    BY <1>7, <2>1, ReaderKeeps DEF Read, Free
  <2>2. CASE UNCHANGED <<queue, pc>>
    BY <2>2, SameReaders
  <2> QED
    BY <1>7, <2>1, <2>2 DEF Read
<1>8. ASSUME NEW t \in Actors, ResumeRead(t) PROVE WakeInv'
  BY <1>8, ReaderKeeps DEF ResumeRead
<1>9. CASE UNCHANGED vars
  BY <1>9, SameReaders DEF vars
<1> QED
  BY <1>1, <1>2, <1>3, <1>4, <1>5, <1>6, <1>7, <1>8, <1>9 DEF Next

LEMMA MailInit == Init => IInv /\ WakeInv /\ MailInv
<1> SUFFICES ASSUME Init PROVE IInv /\ WakeInv /\ MailInv
  OBVIOUS
<1>1. IInv
  BY Names DEF Init, IInv, IdsFresh, RegistryExact, Actors, Ids, Spawnable
<1>2. \A i \in Ids : Readers(i, "parked") = {}
  BY DEF Init, Readers
<1>3. WakeInv
  BY <1>2 DEF Init, WakeInv, NoLostWakeup
<1>4. MailTypeOK /\ InQueueOrder /\ BehindSender /\ SendsNext
  BY DEF Init, MailTypeOK, InQueueOrder, BehindSender, SendsNext, Queued
<1> QED
  BY <1>1, <1>3, <1>4 DEF MailInv

(* With finitely many foreign threads no message is left under sleeping        *)
(* readers, however many of them read the one queue of id 0.                  *)
THEOREM MessagesWakeReaders == IsFiniteSet(Foreign) => (Spec => []NoLostWakeup)
<1> SUFFICES ASSUME IsFiniteSet(Foreign) PROVE Spec => []NoLostWakeup
  OBVIOUS
<1>1. IInv /\ WakeInv /\ MailInv /\ [Next]_vars => IInv' /\ WakeInv' /\ MailInv'
  BY StepHolds, WakeNext, MailNext
<1>2. WakeInv => NoLostWakeup
  BY DEF WakeInv
<1> QED
  BY <1>1, <1>2, MailInit, PTL DEF Spec

(* The messages of one sender to one receiver are read in the order they were  *)
(* sent, none twice, whoever ends meanwhile.                                  *)
THEOREM MessagesStayInOrder == Spec => InOrder
<1>1. MailInv /\ [Next]_vars =>
        [\A i \in Ids, t \in Actors :
           lastRead'[i][t] # lastRead[i][t] => lastRead'[i][t] > lastRead[i][t]]_vars
  BY MailNext
<1>2. MailInv /\ [Next]_vars => MailInv'
  BY MailNext
<1> QED
  BY <1>1, <1>2, MailInit, PTL DEF Spec, InOrder
=============================================================================
