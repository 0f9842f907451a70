-------------------------- MODULE EventLoop_proofs --------------------------
(***************************************************************************)
(* For any number of callers, callbacks and timers, whatever they post and  *)
(* whether callbacks throw: the loop does not sleep on ready work, and not   *)
(* with nothing left to wake it; a one-shot callback is called at most once,  *)
(* and is not lost while nothing throws; every due timer is found, and one    *)
(* that its own thread cancelled is not called.                              *)
(***************************************************************************)
EXTENDS EventLoop, FiniteSetTheorems, SequenceTheorems, TLAPS

(* A post leaves the loop awake or leaves what it sleeps on as it was, except *)
(* for one more promise.                                                     *)
LEMMA PostWakes ==
  ASSUME NEW p, NEW who, Accept(p, who), pc' = "parked"
  PROVE  /\ pc = "parked"
         /\ oneTime' = oneTime /\ regular' = regular
         /\ promised' = promised \/ promised' = promised + 1
<1>1. CASE Promise(p)
  BY <1>1 DEF Promise
<1>2. CASE Run(p) \/ Repeat(p) \/ Cancel(p, who)
  BY <1>2 DEF Run, Repeat, Cancel, Notify
<1>3. CASE RunPromised(p)
  BY <1>3 DEF RunPromised, Notify
<1> QED
  BY <1>1, <1>2, <1>3 DEF Accept

PromisedNat == promised \in Nat

LEMMA PromisedStep == PromisedNat /\ [Next]_vars => PromisedNat'
<1> SUFFICES ASSUME PromisedNat, [Next]_vars PROVE PromisedNat'
  OBVIOUS
<1>1. ASSUME NEW p, NEW who, Accept(p, who) PROVE PromisedNat'
  BY <1>1 DEF Accept, Promise, Run, RunPromised, Repeat, Cancel, PromisedNat
<1>2. CASE UNCHANGED promised
  BY <1>2 DEF PromisedNat
<1>3. ASSUME NEW c \in Callers, Lookup(c) \/ Deliver(c) PROVE PromisedNat'
  BY <1>1, <1>2, <1>3 DEF Lookup, Deliver, state
<1>4. CASE OwnerPost
  BY <1>1, <1>4 DEF OwnerPost
<1>5. CASE Pump \/ Throw \/ Tick \/ UNCHANGED vars
  BY <1>2, <1>5 DEF Pump, Throw, Tick, vars, EnterLoop, Advance, StillRegistered,
     StartRegular, EndRegular, Drain, StartShot, EndShot, Decide, Wait, TimeOut, Leave,
     others, state
<1> QED
  BY <1>3, <1>4, <1>5 DEF Next

LEMMA SleepStep == PromisedNat /\ NoDeadSleep /\ [Next]_vars => NoDeadSleep'
<1> SUFFICES ASSUME PromisedNat, NoDeadSleep, [Next]_vars, pc' = "parked"
             PROVE  oneTime' = <<>> /\ (regular' # <<>> \/ promised' > 0)
  BY DEF NoDeadSleep
<1>1. ASSUME NEW p, NEW who, Accept(p, who)
      PROVE  oneTime' = <<>> /\ (regular' # <<>> \/ promised' > 0)
  BY <1>1, PostWakes DEF NoDeadSleep, PromisedNat
<1>2. CASE UNCHANGED <<pc, oneTime, regular, promised>>
  BY <1>2 DEF NoDeadSleep
<1>3. ASSUME NEW c \in Callers, Lookup(c) \/ Deliver(c)
      PROVE  oneTime' = <<>> /\ (regular' # <<>> \/ promised' > 0)
  BY <1>1, <1>2, <1>3 DEF Lookup, Deliver, state
<1>4. CASE OwnerPost
  BY <1>1, <1>4 DEF OwnerPost
<1>5. CASE Wait
  <2>1. oneTime = <<>> /\ (regular # <<>> \/ promised > 0)
    BY <1>5 DEF Wait, Goto
  <2> QED
    BY <1>5, <2>1 DEF Wait, others
<1>6. CASE Tick \/ UNCHANGED vars
  BY <1>2, <1>6 DEF Tick, vars, state
<1>7. CASE EnterLoop \/ Advance \/ StartRegular \/ EndRegular \/ Drain \/ StartShot
           \/ EndShot \/ TimeOut \/ Throw \/ Leave
  BY <1>7 DEF EnterLoop, Advance, StartRegular, EndRegular, Drain, StartShot, EndShot,
     TimeOut, Throw, Leave, Goto
<1>8. CASE StillRegistered
  BY <1>8 DEF StillRegistered, Goto
<1>9. CASE Decide
  <2>1. pc' \in {"advance", "wait", "leaving"}
    BY <1>9 DEF Decide
  <2> QED
    BY <2>1
<1> QED
  BY <1>3, <1>4, <1>5, <1>6, <1>7, <1>8, <1>9 DEF Next, Pump

(* Whatever other threads post between the loop's last look at its state and  *)
(* its sleep, it never sleeps over a queued callback, and never without a     *)
(* timer or a promise that can wake it.                                      *)
THEOREM NeverSleepsDead == Spec => []NoDeadSleep
<1>1. Init => PromisedNat /\ NoDeadSleep
  BY DEF Init, PromisedNat, NoDeadSleep
<1>2. PromisedNat /\ NoDeadSleep /\ [Next]_vars => PromisedNat' /\ NoDeadSleep'
  BY PromisedStep, SleepStep
<1> QED
  BY <1>1, <1>2, PTL DEF Spec

-----------------------------------------------------------------------------
(* Queues of callbacks, none of which occurs twice.                        *)

LEMMA AppendFresh ==
  ASSUME NEW s \in Seq(Tasks), NEW k \in Tasks, IsInjective(s), k \notin ToSet(s)
  PROVE  IsInjective(Append(s, k)) /\ ToSet(Append(s, k)) = ToSet(s) \cup {k}
<1> DEFINE t == Append(s, k)
<1>1. /\ DOMAIN t = 1 .. Len(s) + 1 /\ DOMAIN s = 1 .. Len(s) /\ Len(s) \in Nat
      /\ \A i \in 1 .. Len(s) : t[i] = s[i]
      /\ t[Len(s) + 1] = k
  BY AppendProperties
<1>2. \A i \in 1 .. Len(s) : s[i] # k
  BY <1>1 DEF ToSet
<1>3. IsInjective(t)
  <2> SUFFICES ASSUME NEW a \in DOMAIN t, NEW b \in DOMAIN t, t[a] = t[b] PROVE a = b
    BY DEF IsInjective
  <2>1. CASE a \in 1 .. Len(s) /\ b \in 1 .. Len(s)
    BY <1>1, <2>1 DEF IsInjective
  <2>2. CASE a = Len(s) + 1 \/ b = Len(s) + 1
    BY <1>1, <1>2, <2>2
  <2> QED
    BY <1>1, <2>1, <2>2
<1>4. ToSet(t) = ToSet(s) \cup {k}
  <2>1. ToSet(t) \subseteq ToSet(s) \cup {k}
    BY <1>1 DEF ToSet
  <2>2. ToSet(s) \subseteq ToSet(t)
    BY <1>1 DEF ToSet
  <2>3. k \in ToSet(t)
    BY <1>1 DEF ToSet
  <2> QED
    BY <2>1, <2>2, <2>3
<1> QED
  BY <1>3, <1>4

LEMMA DropHead ==
  ASSUME NEW s \in Seq(Tasks), s # <<>>, IsInjective(s)
  PROVE  IsInjective(Tail(s)) /\ ToSet(Tail(s)) = ToSet(s) \ {Head(s)}
<1> DEFINE t == Tail(s)
<1>1. /\ DOMAIN t = 1 .. Len(s) - 1 /\ DOMAIN s = 1 .. Len(s) /\ Len(s) \in Nat
      /\ Len(s) # 0
      /\ \A i \in 1 .. Len(s) - 1 : t[i] = s[i + 1]
      /\ Head(s) = s[1]
  BY HeadTailProperties, EmptySeq
<1>2. IsInjective(t)
  <2> SUFFICES ASSUME NEW a \in DOMAIN t, NEW b \in DOMAIN t, t[a] = t[b] PROVE a = b
    BY DEF IsInjective
  <2>1. /\ a \in 1 .. Len(s) - 1 /\ b \in 1 .. Len(s) - 1
        /\ a + 1 \in DOMAIN s /\ b + 1 \in DOMAIN s /\ s[a + 1] = s[b + 1]
    BY <1>1
  <2>2. a + 1 = b + 1
    BY <2>1 DEF IsInjective
  <2> QED
    BY <2>1, <2>2
<1>3. ToSet(t) \subseteq ToSet(s) \ {Head(s)}
  <2> SUFFICES ASSUME NEW i \in DOMAIN t PROVE t[i] \in ToSet(s) /\ t[i] # Head(s)
    BY DEF ToSet
  <2>1. t[i] = s[i + 1] /\ i + 1 \in DOMAIN s /\ 1 \in DOMAIN s /\ i + 1 # 1
    BY <1>1
  <2> QED
    BY <1>1, <2>1 DEF IsInjective, ToSet
<1>4. ToSet(s) \ {Head(s)} \subseteq ToSet(t)
  <2> SUFFICES ASSUME NEW i \in DOMAIN s, s[i] # Head(s) PROVE s[i] \in ToSet(t)
    BY DEF ToSet
  <2>1. i # 1 /\ i - 1 \in DOMAIN t /\ t[i - 1] = s[i]
    BY <1>1
  <2> QED
    BY <2>1 DEF ToSet
<1> QED
  BY <1>2, <1>3, <1>4

LEMMA DropPrefix ==
  ASSUME NEW s \in Seq(Tasks), NEW t \in Seq(Tasks), IsInjective(s \o t)
  PROVE  IsInjective(t) /\ ToSet(t) \subseteq ToSet(s \o t)
<1> DEFINE n == Len(s)
<1>1. /\ DOMAIN t = 1 .. Len(t) /\ Len(t) \in Nat /\ n \in Nat
      /\ DOMAIN (s \o t) = 1 .. n + Len(t)
  BY ConcatProperties
<1>2. ASSUME NEW i \in DOMAIN t
      PROVE  i + n \in DOMAIN (s \o t) /\ (s \o t)[i + n] = t[i]
  <2>1. i + n \in 1 .. n + Len(t) /\ ~(i + n <= n) /\ (i + n) - n = i
    BY <1>1
  <2> QED
    BY <1>1, <2>1, ConcatProperties
<1>3. IsInjective(t)
  <2> SUFFICES ASSUME NEW a \in DOMAIN t, NEW b \in DOMAIN t, t[a] = t[b] PROVE a = b
    BY DEF IsInjective
  <2>1. a + n = b + n
    BY <1>2 DEF IsInjective
  <2> QED
    BY <1>1, <2>1
<1>4. ToSet(t) \subseteq ToSet(s \o t)
  BY <1>2 DEF ToSet
<1> QED
  BY <1>3, <1>4

LEMMA TailOfConcat ==
  ASSUME NEW s \in Seq(Tasks), NEW t \in Seq(Tasks), s # <<>>
  PROVE  Tail(s) \o t = Tail(s \o t) /\ Head(s \o t) = Head(s) /\ s \o t # <<>>
  OBVIOUS

LEMMA AppendToConcat ==
  ASSUME NEW s \in Seq(Tasks), NEW t \in Seq(Tasks), NEW k \in Tasks
  PROVE  s \o Append(t, k) = Append(s \o t, k)
  OBVIOUS

-----------------------------------------------------------------------------
(* Posts of callbacks, and where the callbacks are until they are called.   *)

Tasked(p) == p.kind \in {"run", "runPromised"}

\* The queues hold callbacks, and the drained one only while it is called from.
QueuesOk == /\ oneTime \in Seq(Tasks) /\ shots \in Seq(Tasks)
            /\ pc \notin {"shots", "inShot"} => shots = <<>>
            /\ pc = "inShot" => shots # <<>>

\* Callers that are in a post of a callback have different ones, not posted yet.
CallsApart ==
  /\ call = [c \in Callers |-> call[c]]
  /\ \A c \in Callers : Tasked(call[c]) => call[c].task \in Tasks /\ fate[call[c].task] = "called"
  /\ \A c, d \in Callers : Tasked(call[c]) /\ Tasked(call[d]) /\ call[c].task = call[d].task
                             => c = d

ShotInv == QueuesOk /\ fate = [k \in Tasks |-> fate[k]] /\ CallsApart /\ OnceOnly

LEMMA ToComeIsSeq == ASSUME QueuesOk PROVE ToCome \in Seq(Tasks)
<1>1. pc = "inShot" => Tail(shots) \in Seq(Tasks)
  BY HeadTailProperties DEF QueuesOk
<1> QED
  BY <1>1, ConcatProperties DEF QueuesOk, ToCome

(* What a critical section of a post does to the callbacks: nothing, or it    *)
(* adds the one posted at the end.                                           *)
LEMMA AcceptQueues ==
  ASSUME QueuesOk, NEW p, NEW who, Accept(p, who), UNCHANGED shots,
         Tasked(p) => p.task \in Tasks
  PROVE  /\ QueuesOk'
         /\ \/ /\ ToCome' = ToCome
               /\ \/ fate' = fate
                  \/ Tasked(p) /\ fate' = [fate EXCEPT ![p.task] = "rejected"]
            \/ /\ Tasked(p) /\ ToCome' = Append(ToCome, p.task)
               /\ \E f \in {"queued", "promised"} : fate' = [fate EXCEPT ![p.task] = f]
<1>1. pc' = pc \/ (pc = "parked" /\ pc' = "advance")
  BY DEF Accept, Promise, Run, RunPromised, Repeat, Cancel, Notify
<1>2. CASE oneTime' = oneTime
  <2>1. fate' = fate \/ (Tasked(p) /\ fate' = [fate EXCEPT ![p.task] = "rejected"])
    <3>1. CASE Promise(p) \/ Repeat(p) \/ Cancel(p, who)
      BY <3>1 DEF Promise, Repeat, Cancel
    <3>2. CASE RunPromised(p) /\ fate' = [fate EXCEPT ![p.task] = "rejected"]
      BY <3>2 DEF RunPromised, Tasked
    <3>3. CASE Tasked(p) /\ oneTime' = Append(oneTime, p.task)
      <4>1. Len(Append(oneTime, p.task)) = Len(oneTime) + 1 /\ Len(oneTime) \in Nat
        BY <3>3, AppendProperties DEF QueuesOk
      <4> QED
        BY <1>2, <3>3, <4>1
    <3> QED
      BY <3>1, <3>2, <3>3 DEF Accept, Run, RunPromised, Tasked, Fate
  <2> QED
    BY <1>1, <1>2, <2>1 DEF QueuesOk, ToCome
<1>3. CASE Tasked(p) /\ oneTime' = Append(oneTime, p.task)
           /\ \E f \in {"queued", "promised"} : fate' = [fate EXCEPT ![p.task] = f]
  <2> DEFINE front == IF pc = "inShot" THEN Tail(shots) ELSE shots
  <2>1. front \in Seq(Tasks) /\ ToCome = front \o oneTime /\ ToCome' = front \o Append(oneTime, p.task)
    BY <1>1, <1>3, HeadTailProperties DEF QueuesOk, ToCome
  <2>2. ToCome' = Append(ToCome, p.task)
    BY <1>3, <2>1, AppendToConcat DEF QueuesOk
  <2>3. QueuesOk'
    BY <1>1, <1>3, AppendProperties DEF QueuesOk
  <2> QED
    BY <1>3, <2>2, <2>3
<1>4. CASE Promise(p) \/ Repeat(p) \/ Cancel(p, who)
  BY <1>2, <1>4 DEF Promise, Repeat, Cancel
<1>5. CASE Run(p)
  BY <1>3, <1>5 DEF Run, Fate, Tasked
<1>6. CASE RunPromised(p)
  BY <1>2, <1>3, <1>6 DEF RunPromised, Fate, Tasked
<1> QED
  BY <1>4, <1>5, <1>6 DEF Accept

(* A post of a callback that is in no queue leaves every callback in one place.*)
LEMMA AcceptOnce ==
  ASSUME ShotInv, NEW p, NEW who, Accept(p, who), UNCHANGED shots,
         Tasked(p) => p.task \in Tasks /\ ~Accepted(p.task)
  PROVE  /\ QueuesOk' /\ OnceOnly'
         /\ fate' = [k \in Tasks |-> fate'[k]]
         /\ \A k \in Tasks : fate'[k] # fate[k] => Tasked(p) /\ k = p.task
         /\ NothingLost => NothingLost'
<1>1. /\ QueuesOk'
      /\ ToCome \in Seq(Tasks) /\ IsInjective(ToCome)
      /\ \A k \in ToSet(ToCome) : Accepted(k)
  BY AcceptQueues, ToComeIsSeq DEF ShotInv, OnceOnly
<1>2. CASE ToCome' = ToCome /\ fate' = fate
  BY <1>1, <1>2 DEF ShotInv, OnceOnly, Accepted, NothingLost
<1>3. CASE ToCome' = ToCome /\ Tasked(p) /\ fate' = [fate EXCEPT ![p.task] = "rejected"]
  <2>1. p.task \in Tasks /\ p.task \notin ToSet(ToCome)
    BY <1>1, <1>3
  <2>2. /\ fate' = [k \in Tasks |-> fate'[k]] /\ fate'[p.task] = "rejected"
        /\ \A k \in Tasks : k # p.task => fate'[k] = fate[k]
    BY <1>3, <2>1 DEF ShotInv
  <2>3. ToSet(ToCome) \subseteq Tasks
    BY <1>1 DEF ToSet
  <2>4. OnceOnly'
    <3>1. \A k \in ToSet(ToCome) : fate'[k] = fate[k]
      BY <2>1, <2>2, <2>3
    <3> QED
      BY <1>1, <1>3, <3>1 DEF OnceOnly, Accepted
  <2>5. NothingLost => NothingLost'
    BY <1>3, <2>2 DEF NothingLost, Accepted
  <2> QED
    BY <1>1, <1>3, <2>2, <2>4, <2>5
<1>4. ASSUME Tasked(p), ToCome' = Append(ToCome, p.task),
             NEW f \in {"queued", "promised"}, fate' = [fate EXCEPT ![p.task] = f]
      PROVE  /\ OnceOnly' /\ fate' = [k \in Tasks |-> fate'[k]]
             /\ \A k \in Tasks : fate'[k] # fate[k] => Tasked(p) /\ k = p.task
             /\ NothingLost => NothingLost'
  <2>1. p.task \in Tasks /\ p.task \notin ToSet(ToCome)
    BY <1>1, <1>4
  <2>2. /\ fate' = [k \in Tasks |-> fate'[k]] /\ fate'[p.task] = f
        /\ \A k \in Tasks : k # p.task => fate'[k] = fate[k]
    BY <1>4, <2>1 DEF ShotInv
  <2>3. IsInjective(ToCome') /\ ToSet(ToCome') = ToSet(ToCome) \cup {p.task}
    BY <1>1, <1>4, <2>1, AppendFresh
  <2>4. OnceOnly'
    <3>1. ToSet(ToCome) \subseteq Tasks
      BY <1>1 DEF ToSet
    <3>2. \A k \in ToSet(ToCome') : fate'[k] \in {"queued", "promised"}
      BY <1>1, <2>1, <2>2, <2>3, <3>1 DEF Accepted
    <3> QED
      BY <2>3, <3>2 DEF OnceOnly, Accepted
  <2>5. NothingLost => NothingLost'
    BY <2>2, <2>3 DEF NothingLost, Accepted
  <2> QED
    BY <1>4, <2>2, <2>4, <2>5
<1> QED
  BY <1>1, <1>2, <1>3, <1>4, AcceptQueues DEF ShotInv

LEMMA PostsAreNew ==
  ASSUME NEW kinds, NEW p \in Posts(kinds), Tasked(p)
  PROVE  p.task \in Tasks /\ fate[p.task] = "new"
BY DEF Posts, Tasked

LEMMA LookupOnce ==
  ASSUME ShotInv, NEW c \in Callers, Lookup(c)
  PROVE  ShotInv' /\ (NothingLost => NothingLost')
<1>1. PICK p \in Posts(CallerKinds) :
        /\ call' = [call EXCEPT ![c] = IF registered # "gone" THEN p ELSE NoCall]
        /\ Fate(p, IF registered # "gone" THEN "called" ELSE "rejected")
  BY DEF Lookup
<1>2. UNCHANGED <<oneTime, pc, shots>>
  BY DEF Lookup, state, locals
<1>3. Tasked(p) => p.task \in Tasks /\ fate[p.task] = "new"
  BY PostsAreNew
<1>4. /\ fate' = [k \in Tasks |-> fate'[k]]
      /\ \A k \in Tasks : fate'[k] # fate[k] => Tasked(p) /\ k = p.task /\ ~Accepted(k)
      /\ \A k \in Tasks : fate'[k] \in {"queued", "promised"} => fate'[k] = fate[k]
      /\ Tasked(p) /\ registered # "gone" => fate'[p.task] = "called"
  BY <1>1, <1>3 DEF ShotInv, Fate, Tasked, Accepted
<1>5. QueuesOk' /\ ToCome' = ToCome /\ ToCome \in Seq(Tasks)
  BY <1>2, ToComeIsSeq DEF ShotInv, QueuesOk, ToCome
<1>6. OnceOnly'
  <2>1. ToSet(ToCome) \subseteq Tasks
    BY <1>5 DEF ToSet
  <2>2. \A k \in ToSet(ToCome) : fate'[k] = fate[k]
    BY <1>4, <2>1 DEF ShotInv, OnceOnly
  <2> QED
    BY <1>5, <2>2 DEF ShotInv, OnceOnly, Accepted
<1>7. CallsApart'
  <2>1. call' = [d \in Callers |-> call'[d]] /\ \A d \in Callers : d # c => call'[d] = call[d]
    BY <1>1 DEF ShotInv, CallsApart
  <2>2. (call'[c] = p /\ registered # "gone") \/ call'[c] = NoCall
    BY <1>1 DEF ShotInv, CallsApart
  <2>3. ~Tasked(NoCall)
    BY DEF Tasked, NoCall
  <2>4. \A d \in Callers : d # c /\ Tasked(call'[d]) =>
          /\ call'[d].task \in Tasks /\ fate'[call'[d].task] = "called"
          /\ Tasked(p) => call'[d].task # p.task
    BY <1>3, <1>4, <2>1 DEF ShotInv, CallsApart
  <2>5. Tasked(call'[c]) => /\ call'[c] = p /\ Tasked(p)
                            /\ p.task \in Tasks /\ fate'[p.task] = "called"
    BY <1>3, <1>4, <2>2, <2>3
  <2> QED
    BY <2>1, <2>4, <2>5 DEF ShotInv, CallsApart, Tasked
<1>8. NothingLost => NothingLost'
  BY <1>4, <1>5 DEF NothingLost, Accepted
<1> QED
  BY <1>4, <1>5, <1>6, <1>7, <1>8 DEF ShotInv

LEMMA DeliverOnce ==
  ASSUME ShotInv, NEW c \in Callers, Deliver(c)
  PROVE  ShotInv' /\ (NothingLost => NothingLost')
<1> DEFINE p == call[c]
<1>1. Accept(p, "byCaller") /\ UNCHANGED shots /\ call' = [call EXCEPT ![c] = NoCall]
  BY DEF Deliver, locals
<1>2. Tasked(p) => p.task \in Tasks /\ fate[p.task] = "called"
  BY DEF ShotInv, CallsApart
<1>3. Tasked(p) => p.task \in Tasks /\ ~Accepted(p.task)
  BY <1>2 DEF Accepted
<1>4. /\ QueuesOk' /\ OnceOnly' /\ fate' = [k \in Tasks |-> fate'[k]]
      /\ \A k \in Tasks : fate'[k] # fate[k] => Tasked(p) /\ k = p.task
      /\ NothingLost => NothingLost'
  BY <1>1, <1>3, AcceptOnce
<1>5. CallsApart'
  <2>1. /\ call' = [d \in Callers |-> call'[d]] /\ call'[c] = NoCall
        /\ \A d \in Callers : d # c => call'[d] = call[d]
    BY <1>1 DEF ShotInv, CallsApart
  <2>2. ~Tasked(NoCall)
    BY DEF Tasked, NoCall
  <2>3. \A d \in Callers : Tasked(call'[d]) => d # c /\ call'[d] = call[d]
    BY <2>1, <2>2
  <2>4. \A d \in Callers : Tasked(call'[d]) =>
          call'[d].task \in Tasks /\ fate'[call'[d].task] = "called"
    BY <1>4, <2>3 DEF ShotInv, CallsApart
  <2>5. \A d, e \in Callers : Tasked(call'[d]) /\ Tasked(call'[e]) /\ call'[d].task = call'[e].task
                                => d = e
    BY <2>3 DEF ShotInv, CallsApart
  <2> QED
    BY <2>1, <2>4, <2>5 DEF CallsApart, Tasked
<1> QED
  BY <1>4, <1>5 DEF ShotInv

LEMMA OwnerPostOnce ==
  ASSUME ShotInv, OwnerPost
  PROVE  ShotInv' /\ (NothingLost => NothingLost')
<1>1. PICK p \in Posts(OwnerKinds) : Accept(p, "byOwner")
  BY DEF OwnerPost
<1>2. UNCHANGED <<shots, call>>
  BY DEF OwnerPost, locals
<1>3. Tasked(p) => p.task \in Tasks /\ fate[p.task] = "new"
  BY PostsAreNew
<1>4. Tasked(p) => p.task \in Tasks /\ ~Accepted(p.task)
  BY <1>3 DEF Accepted
<1>5. /\ QueuesOk' /\ OnceOnly' /\ fate' = [k \in Tasks |-> fate'[k]]
      /\ \A k \in Tasks : fate'[k] # fate[k] => Tasked(p) /\ k = p.task
      /\ NothingLost => NothingLost'
  BY <1>1, <1>2, <1>4, AcceptOnce
<1>6. CallsApart'
  BY <1>2, <1>3, <1>5 DEF ShotInv, CallsApart, Tasked
<1> QED
  BY <1>5, <1>6 DEF ShotInv

(* The loop takes the queue as a whole and calls it from its head.           *)
LEMMA PumpOnce ==
  ASSUME ShotInv, Pump
  PROVE  ShotInv' /\ (NothingLost => NothingLost')
<1>1. CASE UNCHANGED <<oneTime, shots, fate, call>> /\ pc \notin {"inShot", "shots"}
           /\ pc' \notin {"inShot", "shots"}
  <2>1. ToCome' = ToCome
    BY <1>1 DEF ToCome
  <2> QED
    BY <1>1, <2>1 DEF ShotInv, QueuesOk, CallsApart, OnceOnly, NothingLost, Accepted
<1>2. CASE Drain
  <2>1. shots = <<>> /\ shots' = oneTime /\ oneTime' = <<>> /\ pc = "due" /\ pc' = "shots"
        /\ UNCHANGED <<fate, call>>
    BY <1>2 DEF Drain, others, Goto, ShotInv, QueuesOk
  <2>2. ToCome' = ToCome
    BY <2>1, ConcatEmptySeq DEF ToCome, ShotInv, QueuesOk
  <2> QED
    BY <2>1, <2>2, EmptySeq DEF ShotInv, QueuesOk, CallsApart, OnceOnly, NothingLost, Accepted
<1>3. CASE StartShot
  <2> DEFINE k0 == Head(shots)
  <2>1. /\ pc = "shots" /\ shots # <<>> /\ pc' = "inShot"
        /\ UNCHANGED <<oneTime, shots, call>> /\ fate' = [fate EXCEPT ![k0] = "ran"]
    BY <1>3 DEF StartShot, others, locals, Goto
  <2>2. /\ ToCome \in Seq(Tasks) /\ ToCome # <<>> /\ k0 = Head(ToCome)
        /\ ToCome' = Tail(ToCome)
    BY <2>1, ToComeIsSeq, TailOfConcat DEF ShotInv, QueuesOk, ToCome
  <2>3. IsInjective(ToCome') /\ ToSet(ToCome') = ToSet(ToCome) \ {k0}
    BY <2>2, DropHead DEF ShotInv, OnceOnly
  <2>4. k0 \in Tasks /\ k0 \in ToSet(ToCome) /\ ToSet(ToCome) \subseteq Tasks
    <3>1. DOMAIN ToCome = 1 .. Len(ToCome) /\ Len(ToCome) \in Nat /\ Len(ToCome) # 0
          /\ Head(ToCome) = ToCome[1]
      BY <2>2, EmptySeq
    <3> QED
      BY <2>2, <3>1 DEF ToSet
  <2>5. /\ fate' = [k \in Tasks |-> fate'[k]] /\ fate'[k0] = "ran"
        /\ \A k \in Tasks : k # k0 => fate'[k] = fate[k]
    BY <2>1, <2>4 DEF ShotInv
  <2>6. OnceOnly'
    <3>1. \A k \in ToSet(ToCome') : k # k0 /\ fate'[k] = fate[k] /\ Accepted(k)
      BY <2>3, <2>4, <2>5 DEF ShotInv, OnceOnly
    <3> QED
      BY <2>3, <3>1 DEF OnceOnly, Accepted
  <2>7. NothingLost => NothingLost'
    BY <2>3, <2>5 DEF NothingLost, Accepted
  <2>8. CallsApart'
    <3>1. fate[k0] # "called"
      BY <2>4 DEF ShotInv, OnceOnly, Accepted
    <3> QED
      BY <2>1, <2>5, <3>1 DEF ShotInv, CallsApart, Tasked
  <2> QED
    BY <2>1, <2>5, <2>6, <2>7, <2>8 DEF ShotInv, QueuesOk
<1>4. CASE EndShot
  <2>1. /\ pc = "inShot" /\ shots # <<>> /\ shots' = Tail(shots) /\ pc' = "shots"
        /\ UNCHANGED <<oneTime, fate, call>>
    BY <1>4 DEF EndShot, others, Goto, ShotInv, QueuesOk
  <2>2. ToCome' = ToCome /\ shots' \in Seq(Tasks)
    BY <2>1, HeadTailProperties DEF ToCome, ShotInv, QueuesOk
  <2> QED
    BY <2>1, <2>2 DEF ShotInv, QueuesOk, CallsApart, OnceOnly, NothingLost, Accepted
<1>5. CASE Decide
  <2>1. pc = "shots" /\ shots = <<>> /\ pc' \in {"advance", "wait", "leaving"}
        /\ UNCHANGED <<oneTime, shots, fate, call>>
    BY <1>5 DEF Decide, others
  <2>2. ToCome' = ToCome
    BY <2>1 DEF ToCome
  <2> QED
    BY <2>1, <2>2 DEF ShotInv, QueuesOk, CallsApart, OnceOnly, NothingLost, Accepted
<1>6. CASE EnterLoop \/ Advance \/ StartRegular \/ EndRegular \/ TimeOut
  BY <1>1, <1>6 DEF EnterLoop, Advance, StartRegular, EndRegular, TimeOut, others, locals, Goto
<1>7. CASE StillRegistered
  BY <1>1, <1>7 DEF StillRegistered, others, Goto
<1>8. CASE Wait
  BY <1>1, <1>8 DEF Wait, others, Goto
<1>9. CASE Leave
  BY <1>1, <1>9 DEF Leave, state, locals, Goto
<1> QED
  BY <1>2, <1>3, <1>4, <1>5, <1>6, <1>7, <1>8, <1>9 DEF Pump

(* A throw drops the drained callbacks; those still queued stay where they are.*)
LEMMA ThrowOnce == ASSUME ShotInv, Throw PROVE ShotInv'
<1>1. /\ shots' = <<>> /\ pc' = "leaving" /\ UNCHANGED <<oneTime, fate, call>>
  BY DEF Throw, others, Goto
<1>2. ToCome' = oneTime
  BY <1>1, ConcatEmptySeq DEF ToCome, ShotInv, QueuesOk
<1>3. IsInjective(oneTime) /\ ToSet(oneTime) \subseteq ToSet(ToCome)
  <2>1. pc = "inShot" => Tail(shots) \in Seq(Tasks)
    BY HeadTailProperties DEF ShotInv, QueuesOk
  <2> QED
    BY <2>1, DropPrefix DEF ToCome, ShotInv, QueuesOk, OnceOnly
<1> QED
  BY <1>1, <1>2, <1>3, EmptySeq DEF ShotInv, QueuesOk, CallsApart, OnceOnly, Accepted

LEMMA ShotInit == Init => ShotInv /\ NothingLost
<1> SUFFICES ASSUME Init PROVE ShotInv /\ NothingLost
  OBVIOUS
<1>1. /\ oneTime = <<>> /\ shots = <<>> /\ pc = "job" /\ fate = [k \in Tasks |-> "new"]
      /\ call = [c \in Callers |-> NoCall]
  BY DEF Init
<1>2. ToCome = <<>> /\ DOMAIN ToCome = {}
  BY <1>1, EmptySeq DEF ToCome
<1>3. OnceOnly
  BY <1>2 DEF OnceOnly, IsInjective, ToSet
<1>4. CallsApart
  BY <1>1 DEF CallsApart, Tasked, NoCall
<1> QED
  BY <1>1, <1>3, <1>4, EmptySeq DEF ShotInv, QueuesOk, NothingLost, Accepted

LEMMA ShotNext ==
  ShotInv /\ [Next]_vars => ShotInv' /\ (~MayThrow /\ NothingLost => NothingLost')
<1> SUFFICES ASSUME ShotInv, [Next]_vars
             PROVE  ShotInv' /\ (~MayThrow /\ NothingLost => NothingLost')
  OBVIOUS
<1>1. CASE Pump
  BY <1>1, PumpOnce
<1>2. CASE OwnerPost
  BY <1>2, OwnerPostOnce
<1>3. CASE Throw
  BY <1>3, ThrowOnce DEF Throw
<1>4. CASE Tick \/ UNCHANGED vars
  <2>1. UNCHANGED <<oneTime, shots, pc, fate, call>>
    BY <1>4 DEF Tick, vars, state, locals
  <2>2. ToCome' = ToCome
    BY <2>1 DEF ToCome
  <2> QED
    BY <2>1, <2>2 DEF ShotInv, QueuesOk, CallsApart, OnceOnly, NothingLost, Accepted
<1>5. ASSUME NEW c \in Callers, Lookup(c) \/ Deliver(c)
      PROVE  ShotInv' /\ (NothingLost => NothingLost')
  BY <1>5, LookupOnce, DeliverOnce
<1> QED
  BY <1>1, <1>2, <1>3, <1>4, <1>5 DEF Next

(* A one-shot callback is called at most once, whoever posts it and whatever  *)
(* is posted meanwhile, also when callbacks throw and the loop is entered     *)
(* again: it has one place in one queue until it is called.                  *)
THEOREM CalledOnce == Spec => []OnceOnly
<1>1. ShotInv => OnceOnly
  BY DEF ShotInv
<1> QED
  BY <1>1, ShotInit, ShotNext, PTL DEF Spec

(* While no callback throws, one that was accepted keeps its place in a queue  *)
(* until it is called: neither the hand-over of the queue to the loop nor a    *)
(* post in the middle of it loses any.                                       *)
THEOREM AcceptedAreKept == ~MayThrow => (Spec => []NothingLost)
<1> SUFFICES ASSUME ~MayThrow PROVE Spec => []NothingLost
  OBVIOUS
<1>1. ShotInv /\ NothingLost /\ [Next]_vars => ShotInv' /\ NothingLost'
  BY ShotNext
<1> QED
  BY <1>1, ShotInit, PTL DEF Spec

-----------------------------------------------------------------------------
(* Lists of timers: what sorting, retaining and inserting make of them.     *)

\* Pairs that put the elements of D one after the other.
Orders(before, D) ==
  /\ \A i \in D : <<i, i>> \notin before
  /\ \A i, j \in D : i # j => <<i, j>> \in before \/ <<j, i>> \in before
  /\ \A i, j, k \in D : <<i, j>> \in before /\ <<j, k>> \in before => <<i, k>> \in before

\* The place of a position among them: one more than those before it.
PlaceOf(i, D, before) == 1 + Cardinality({j \in D : <<j, i>> \in before})

\* T are elements of timers, from positions in D that follow each other.
InOrder(T, R, timers, D, before) ==
  /\ T \in Seq(R)
  /\ \A k \in DOMAIN T : \E i \in D : T[k] = timers[i]
  /\ \A k, l \in DOMAIN T : k < l =>
       \E i, j \in D : T[k] = timers[i] /\ T[l] = timers[j] /\ <<i, j>> \in before

(* In a list that follows the order, times do not fall when the order of   *)
(* the positions does not let them.                                        *)
LEMMA OrderKept ==
  ASSUME NEW T, NEW R, NEW timers, NEW D, NEW before, InOrder(T, R, timers, D, before),
         \A i, j \in D : <<i, j>> \in before => timers[i].next <= timers[j].next,
         NEW k \in DOMAIN T, NEW l \in DOMAIN T, k < l
  PROVE  T[k].next <= T[l].next
<1>1. \A m, n \in DOMAIN T : m < n =>
        \E i, j \in D : T[m] = timers[i] /\ T[n] = timers[j] /\ <<i, j>> \in before
  BY Zenon DEF InOrder
<1>2. PICK i, j \in D : T[k] = timers[i] /\ T[l] = timers[j] /\ <<i, j>> \in before
  BY <1>1, Zenon
<1> QED
  BY <1>2

(* Positions that are ordered are numbered: every one has its own place.   *)
LEMMA PlacesTaken ==
  ASSUME NEW D, IsFiniteSet(D), NEW before, Orders(before, D)
  PROVE  /\ \A i \in D : PlaceOf(i, D, before) \in 1 .. Cardinality(D)
         /\ \A i, j \in D : PlaceOf(i, D, before) < PlaceOf(j, D, before) => <<i, j>> \in before
         /\ \A k \in 1 .. Cardinality(D) : \E i \in D : PlaceOf(i, D, before) = k
<1> DEFINE S(i) == {j \in D : <<j, i>> \in before}
           f == [i \in D |-> PlaceOf(i, D, before)]
           n == Cardinality(D)
<1>1. n \in Nat
  BY FS_CardinalityType
<1>2. \A i \in D : IsFiniteSet(S(i)) /\ Cardinality(S(i)) \in Nat
  BY FS_Subset, FS_CardinalityType
<1>3. ASSUME NEW i \in D
      PROVE  f[i] \in 1 .. n
  <2>1. S(i) \in SUBSET (D \ {i})
    BY DEF Orders
  <2>2. IsFiniteSet(D \ {i}) /\ Cardinality(D \ {i}) = n - 1
    BY FS_RemoveElement
  <2> DEFINE rest == D \ {i}
             below == S(i)
  <2>3. Cardinality(below) <= n - 1
    <3> HIDE DEF rest, below
    <3>1. below \in SUBSET rest /\ IsFiniteSet(rest) /\ Cardinality(rest) = n - 1
      BY <2>1, <2>2 DEF rest, below
    <3> QED
      BY <3>1, FS_Subset
  <2>4. f[i] = 1 + Cardinality(below) /\ Cardinality(below) \in Nat
    BY <1>2 DEF PlaceOf
  <2> HIDE DEF f, below, n
  <2> QED
    BY <1>1, <2>3, <2>4
<1>4. ASSUME NEW i \in D, NEW j \in D, <<i, j>> \in before
      PROVE  f[i] < f[j]
  <2>1. S(i) \in SUBSET S(j) /\ i \in S(j) /\ i \notin S(i)
    BY <1>4 DEF Orders
  <2>2. Cardinality(S(i)) <= Cardinality(S(j)) /\ Cardinality(S(i)) # Cardinality(S(j))
    BY <1>2, <2>1, FS_Subset
  <2>3. Cardinality(S(i)) \in Nat /\ Cardinality(S(j)) \in Nat
    BY <1>2
  <2>4. f[i] = 1 + Cardinality(S(i)) /\ f[j] = 1 + Cardinality(S(j))
    BY DEF PlaceOf
  <2> HIDE DEF f, S
  <2> QED
    BY <2>2, <2>3, <2>4
<1> HIDE DEF S
<1>5. \A i, j \in D : f[i] < f[j] => <<i, j>> \in before
  <2> SUFFICES ASSUME NEW i \in D, NEW j \in D, f[i] < f[j], <<i, j>> \notin before
               PROVE  FALSE
    OBVIOUS
  <2>1. i # j => f[j] < f[i]
    BY <1>4 DEF Orders
  <2>2. f[i] \in Nat /\ f[j] \in Nat
    BY <1>1, <1>3
  <2> HIDE DEF f
  <2> QED
    BY <2>1, <2>2
<1>6. \A i, j \in D : f[i] = f[j] => i = j
  <2> SUFFICES ASSUME NEW i \in D, NEW j \in D, f[i] = f[j], i # j
               PROVE  FALSE
    OBVIOUS
  <2>1. f[i] < f[j] \/ f[j] < f[i]
    BY <1>4 DEF Orders
  <2>2. f[i] \in Nat /\ f[j] \in Nat
    BY <1>1, <1>3
  <2> HIDE DEF f
  <2> QED
    BY <2>1, <2>2
<1>7. f \in Surjection(D, 1 .. n)
  <2>0. DOMAIN f = D
    OBVIOUS
  <2>1. f \in [D -> 1 .. n]
    BY <1>3
  <2> HIDE DEF f
  <2>2. f \in Injection(D, 1 .. n)
    BY <2>1, <1>6 DEF Injection, IsInjective
  <2>3. IsFiniteSet(1 .. n) /\ Cardinality(1 .. n) = n
    BY <1>1, FS_Interval
  <2> QED
    BY <2>2, <2>3, FS_Injection
<1>8. \A k \in 1 .. n : \E i \in D : f[i] = k
  <2> HIDE DEF f
  <2> QED
    BY <1>7 DEF Surjection
<1> QED
  BY <1>3, <1>5, <1>8

(* What is listed are the elements at the positions, one after the other.  *)
LEMMA ListedInOrder ==
  ASSUME NEW R, NEW timers \in Seq(R), NEW D \in SUBSET DOMAIN timers, NEW before,
         Orders(before, D)
  PROVE  InOrder(Listed(timers, D, before), R, timers, D, before)
<1> DEFINE n == Cardinality(D)
           at(k) == CHOOSE i \in D : PlaceOf(i, D, before) = k
           T == Listed(timers, D, before)
<1>1. IsFiniteSet(D) /\ n \in Nat
  <2>1. DOMAIN timers = 1 .. Len(timers) /\ Len(timers) \in Nat
    BY LenProperties
  <2>2. IsFiniteSet(DOMAIN timers)
    BY <2>1, FS_Interval
  <2>3. IsFiniteSet(D)
    BY <2>2, FS_Subset
  <2> QED
    BY <2>3, FS_CardinalityType
<1>2. ASSUME NEW k \in 1 .. n
      PROVE  at(k) \in D /\ PlaceOf(at(k), D, before) = k
  BY <1>1, PlacesTaken
<1>3. T = [k \in 1 .. n |-> timers[at(k)]]
  BY Zenon DEF Listed, PlaceOf
<1> HIDE DEF at, T
<1>4. \A k \in 1 .. n : timers[at(k)] \in R
  BY <1>2, ElementOfSeq, LenProperties
<1>5. T \in [1 .. n -> R] /\ DOMAIN T = 1 .. n
  BY <1>3, <1>4
<1>6. T \in Seq(R)
  BY <1>1, <1>5, IsASeq
<1>7. \A k \in 1 .. n : T[k] = timers[at(k)]
  BY <1>3
<1>8. \A k, l \in 1 .. n : k < l => <<at(k), at(l)>> \in before
  BY <1>1, <1>2, PlacesTaken
<1> QED
  BY <1>2, <1>5, <1>6, <1>7, <1>8 DEF T, InOrder

(* Vec::sort_by on next_run gives the same timers, the soonest first.      *)
LEMMA SortedByNext ==
  ASSUME NEW R, NEW timers \in Seq(R), \A r \in R : r.next \in Nat
  PROVE  /\ SortByNext(timers) \in Seq(R)
         /\ \A k \in DOMAIN SortByNext(timers) :
              \E i \in DOMAIN timers : SortByNext(timers)[k] = timers[i]
         /\ \A k, l \in DOMAIN SortByNext(timers) :
              k < l => SortByNext(timers)[k].next <= SortByNext(timers)[l].next
<1> DEFINE D == DOMAIN timers
           Sooner(i, j) == \/ timers[i].next < timers[j].next
                           \/ timers[i].next = timers[j].next /\ i < j
           before == {p \in Pairs(timers) : Sooner(p[1], p[2])}
<1>1. \A i, j \in D : <<i, j>> \in before <=> Sooner(i, j)
  BY DEF Pairs
<1>2. \A i \in D : i \in Nat /\ timers[i].next \in Nat
  BY ElementOfSeq, LenProperties
<1>3. Orders(before, D)
  <2> HIDE DEF before, D
  <2> QED
    BY <1>1, <1>2 DEF Orders
<1>4. SortByNext(timers) = Listed(timers, D, before)
  BY DEF SortByNext
<1>5. \A i, j \in D : <<i, j>> \in before => timers[i].next <= timers[j].next
  BY <1>1, <1>2
<1> HIDE DEF before, D
<1>6. D \in SUBSET DOMAIN timers
  BY DEF D
<1>7. InOrder(SortByNext(timers), R, timers, D, before)
  BY <1>3, <1>4, <1>6, ListedInOrder
<1> DEFINE T == SortByNext(timers)
<1> HIDE DEF T
<1>8. InOrder(T, R, timers, D, before)
  BY <1>7 DEF T
<1>9. /\ T \in Seq(R)
      /\ \A k \in DOMAIN T : \E i \in DOMAIN timers : T[k] = timers[i]
  BY <1>6, <1>8 DEF InOrder
<1>10. ASSUME NEW k \in DOMAIN T, NEW l \in DOMAIN T, k < l
       PROVE  T[k].next <= T[l].next
  BY <1>5, <1>8, <1>10, OrderKept
<1> QED
  BY <1>9, <1>10 DEF T

(* Vec::retain gives the timers of other ids, in the order they had.       *)
LEMMA WithoutInOrder ==
  ASSUME NEW R, NEW timers \in Seq(R), NEW id
  PROVE  /\ Without(timers, id) \in Seq(R)
         /\ \A k \in DOMAIN Without(timers, id) :
              \E i \in DOMAIN timers : Without(timers, id)[k] = timers[i] /\ timers[i].id # id
         /\ \A k, l \in DOMAIN Without(timers, id) : k < l =>
              \E i, j \in DOMAIN timers : /\ Without(timers, id)[k] = timers[i]
                                          /\ Without(timers, id)[l] = timers[j] /\ i < j
<1> DEFINE D == {i \in DOMAIN timers : timers[i].id # id}
           before == {p \in Pairs(timers) : p[1] < p[2]}
<1>1. \A i, j \in D : <<i, j>> \in before <=> i < j
  BY DEF Pairs
<1>2. \A i \in D : i \in Nat
  BY LenProperties
<1>3. Orders(before, D)
  <2> HIDE DEF before, D
  <2> QED
    BY <1>1, <1>2 DEF Orders
<1>4. Without(timers, id) = Listed(timers, D, before)
  BY DEF Without
<1>5. D \in SUBSET DOMAIN timers
  OBVIOUS
<1> HIDE DEF before
<1>6. InOrder(Without(timers, id), R, timers, D, before)
  <2> HIDE DEF D
  <2> QED
    BY <1>3, <1>4, <1>5, ListedInOrder
<1> DEFINE T == Without(timers, id)
<1> HIDE DEF T
<1>7. InOrder(T, R, timers, D, before)
  BY <1>6 DEF T
<1>8. /\ T \in Seq(R)
      /\ \A k \in DOMAIN T : \E i \in DOMAIN timers : T[k] = timers[i] /\ timers[i].id # id
  BY <1>7 DEF InOrder
<1>9. ASSUME NEW k \in DOMAIN T, NEW l \in DOMAIN T, k < l
      PROVE  \E i, j \in DOMAIN timers : T[k] = timers[i] /\ T[l] = timers[j] /\ i < j
  <2>1. PICK i, j \in D : T[k] = timers[i] /\ T[l] = timers[j] /\ <<i, j>> \in before
    BY <1>7, <1>9 DEF InOrder
  <2> QED
    BY <2>1, <1>1
<1> QED
  BY <1>8, <1>9 DEF T

(* Some position is the first.                                             *)
LEMMA FirstTaken ==
  ASSUME NEW D, IsFiniteSet(D), D # {}, NEW before, Orders(before, D)
  PROVE  \E i \in D : PlaceOf(i, D, before) = 1
<1>1. Cardinality(D) \in Nat /\ Cardinality(D) # 0
  BY FS_CardinalityType, FS_EmptySet
<1>2. \A k \in 1 .. Cardinality(D) : \E i \in D : PlaceOf(i, D, before) = k
  BY PlacesTaken
<1> QED
  BY <1>1, <1>2

(* The first index of a search is an index that was searched for, and no   *)
(* other is before it.                                                     *)
LEMMA SmallestIn ==
  ASSUME NEW n \in Nat, NEW I \in SUBSET (1 .. n), I # {}
  PROVE  Min(I) \in I /\ \A y \in I : Min(I) <= y
<1> DEFINE before == {p \in (1 .. n) \X (1 .. n) : p[1] < p[2]}
<1>1. \A i, j \in I : <<i, j>> \in before <=> i < j
  OBVIOUS
<1>2. IsFiniteSet(I) /\ Cardinality(I) \in Nat
  <2>1. IsFiniteSet(1 .. n)
    BY FS_Interval
  <2>2. IsFiniteSet(I)
    BY <2>1, FS_Subset
  <2> QED
    BY <2>2, FS_CardinalityType
<1>3. Cardinality(I) # 0
  BY <1>2, FS_EmptySet
<1> HIDE DEF before
<1>4. Orders(before, I)
  BY <1>1 DEF Orders
<1>5. \E i \in I : PlaceOf(i, I, before) = 1
  BY <1>2, <1>4, FirstTaken
<1>a. PICK i \in I : PlaceOf(i, I, before) = 1
  BY <1>5
<1>6. ASSUME NEW y \in I
      PROVE  i <= y
  <2>1. PlaceOf(y, I, before) \in 1 .. Cardinality(I)
    BY <1>2, <1>4, PlacesTaken
  <2>2. {j \in I : <<j, i>> \in before} = {}
    <3> DEFINE S == {j \in I : <<j, i>> \in before}
    <3>1. S \in SUBSET I
      OBVIOUS
    <3>2. 1 + Cardinality(S) = 1
      BY <1>a DEF PlaceOf
    <3> HIDE DEF S
    <3>3. IsFiniteSet(S) /\ Cardinality(S) \in Nat
      <4>1. IsFiniteSet(S)
        BY <1>2, <3>1, FS_Subset
      <4> QED
        BY <4>1, FS_CardinalityType
    <3>4. Cardinality(S) = 0
      BY <3>2, <3>3
    <3>5. S = {}
      BY <3>3, <3>4, FS_EmptySet
    <3> QED
      BY <3>5 DEF S
  <2>3. ~(y < i)
    BY <1>1, <2>2
  <2> QED
    BY <2>3
<1>7. \E x \in I : \A y \in I : x =< y
  BY <1>6
<1> QED
  BY <1>7 DEF Min

\* Timers with the soonest first.
SortedByTime(T) == \A k, l \in DOMAIN T : k < l => T[k].next <= T[l].next

(* A list with one more element in its place.                              *)
LEMMA InsertedAt ==
  ASSUME NEW R, NEW timers \in Seq(R), NEW e \in R, NEW p \in 1 .. Len(timers) + 1
  PROVE  LET T == InsertAt(timers, p, e)
         IN  /\ T \in Seq(R) /\ DOMAIN T = 1 .. Len(timers) + 1 /\ Len(timers) \in Nat
             /\ \A k \in 1 .. p - 1 : T[k] = timers[k]
             /\ T[p] = e
             /\ \A k \in p + 1 .. Len(timers) + 1 : T[k] = timers[k - 1]
<1> DEFINE n == Len(timers)
           A == SubSeq(timers, 1, p - 1)
           B == A \o <<e>>
           C == SubSeq(timers, p, n)
           T == InsertAt(timers, p, e)
<1>1. n \in Nat /\ p \in Nat /\ DOMAIN timers = 1 .. n /\ \A i \in 1 .. n : timers[i] \in R
  BY LenProperties, ElementOfSeq
<1>2. /\ A \in Seq(R) /\ Len(A) = p - 1
      /\ \A i \in 1 .. p - 1 : A[i] = timers[i]
  <2> HIDE DEF n
  <2>1. \A i \in 1 .. p - 1 : timers[i] \in R
    BY <1>1 DEF n
  <2>2. 1 \in Int /\ p - 1 \in Int
    BY <1>1
  <2> DEFINE m == p - 1
  <2>3. m \in Int /\ 1 <= p /\ m - 1 + 1 = m /\ (m < 1 => m = 0)
    BY <1>1 DEF n
  <2>4. \A i \in 1 .. m : 1 + i - 1 = i
    BY <2>3
  <2>5. \A i \in 1 .. m : timers[i] \in R
    BY <2>1
  <2> HIDE DEF m
  <2>6. /\ SubSeq(timers, 1, m) \in Seq(R)
        /\ Len(SubSeq(timers, 1, m)) = m
        /\ \A i \in 1 .. m : SubSeq(timers, 1, m)[i] = timers[i]
    BY <2>3, <2>4, <2>5, SubSeqProperties
  <2> QED
    BY <2>6 DEF m
<1>3. /\ C \in Seq(R) /\ Len(C) = n + 1 - p
      /\ \A i \in 1 .. n + 1 - p : C[i] = timers[p + i - 1]
  <2>1. p \in Int /\ n \in Int /\ p <= n + 1
    BY <1>1
  <2>2. \A i \in p .. n : timers[i] \in R
    BY <1>1
  <2>3. n - p + 1 = n + 1 - p /\ (~(p <= n) => n + 1 - p = 0)
    BY <1>1
  <2> HIDE DEF n
  <2> QED
    BY <2>1, <2>2, <2>3, SubSeqProperties
<1> HIDE DEF A, C
<1>4. /\ B \in Seq(R) /\ Len(B) = p
      /\ \A i \in 1 .. p - 1 : B[i] = timers[i]
      /\ B[p] = e
  <2>1. B = Append(A, e)
    BY <1>2, AppendIsConcat
  <2>2. Len(A) + 1 = p
    BY <1>1, <1>2
  <2> HIDE DEF B
  <2> QED
    BY <1>2, <2>1, <2>2, AppendProperties
<1> HIDE DEF B
<1>5. T = B \o C
  BY DEF InsertAt, A, B, C
<1>6. /\ T \in Seq(R) /\ Len(T) = n + 1
      /\ \A i \in 1 .. n + 1 : T[i] = IF i <= p THEN B[i] ELSE C[i - p]
  <2>1. Len(B) + Len(C) = n + 1
    BY <1>1, <1>3, <1>4
  <2> HIDE DEF T, n
  <2>2. /\ B \o C \in Seq(R) /\ Len(B \o C) = Len(B) + Len(C)
        /\ \A i \in 1 .. Len(B) + Len(C) :
             (B \o C)[i] = IF i <= Len(B) THEN B[i] ELSE C[i - Len(B)]
    BY <1>3, <1>4, ConcatProperties
  <2>3. Len(B) = p
    BY <1>4
  <2> QED
    BY <1>5, <2>1, <2>2, <2>3
<1> HIDE DEF T
<1>7. DOMAIN T = 1 .. n + 1
  BY <1>1, <1>6, LenProperties
<1>8. \A k \in 1 .. p - 1 : T[k] = timers[k]
  <2> HIDE DEF n
  <2>1. \A k \in 1 .. p - 1 : k \in 1 .. n + 1 /\ k <= p
    BY <1>1 DEF n
  <2> QED
    BY <1>4, <1>6, <2>1
<1>9. T[p] = e
  BY <1>1, <1>4, <1>6
<1>10. \A k \in p + 1 .. n + 1 : T[k] = timers[k - 1]
  <2>1. \A k \in p + 1 .. n + 1 : /\ k \in 1 .. n + 1 /\ ~(k <= p) /\ k - p \in 1 .. n + 1 - p
                                  /\ p + (k - p) - 1 = k - 1
    BY <1>1
  <2> HIDE DEF n
  <2>2. \A k \in p + 1 .. n + 1 : T[k] = C[k - p]
    BY <1>6, <2>1
  <2>3. \A k \in p + 1 .. n + 1 : C[k - p] = timers[k - 1]
    BY <1>3, <2>1
  <2> QED
    BY <2>2, <2>3
<1> QED
  BY <1>1, <1>6, <1>7, <1>8, <1>9, <1>10 DEF T

(* A timer that is inserted before the first later one leaves the list     *)
(* sorted.                                                                 *)
LEMMA InsertedInOrder ==
  ASSUME NEW R, NEW timers \in Seq(R), NEW e \in R, \A r \in R : r.next \in Nat
  PROVE  /\ Insert(timers, e) \in Seq(R)
         /\ \A k \in DOMAIN Insert(timers, e) :
              Insert(timers, e)[k] = e \/ \E i \in DOMAIN timers : Insert(timers, e)[k] = timers[i]
         /\ SortedByTime(timers) => SortedByTime(Insert(timers, e))
<1> DEFINE n == Len(timers)
           I == {i \in 1 .. n : e.next < timers[i].next}
           p == IF I # {} THEN Min(I) ELSE n + 1
           T == InsertAt(timers, p, e)
<1>1. n \in Nat /\ DOMAIN timers = 1 .. n /\ \A i \in 1 .. n : timers[i] \in R /\ timers[i].next \in Nat
  BY LenProperties, ElementOfSeq
<1>2. I \in SUBSET (1 .. n)
  OBVIOUS
<1>3. I # {} => Min(I) \in I /\ \A y \in I : Min(I) <= y
  <2> HIDE DEF I, n
  <2> QED
    BY <1>1, <1>2, SmallestIn
<1>4. /\ p \in 1 .. n + 1
      /\ \A i \in 1 .. n : i < p => timers[i].next <= e.next
      /\ p <= n => e.next < timers[p].next
  <2>1. CASE I = {}
    <3>1. \A i \in 1 .. n : timers[i].next <= e.next
      BY <1>1, <2>1
    <3> QED
      BY <1>1, <2>1, <3>1
  <2>2. CASE I # {}
    <3>1. p \in I /\ \A y \in I : p <= y
      BY <1>3, <2>2
    <3>2. \A i \in 1 .. n : i < p => i \notin I
      BY <1>1, <3>1
    <3>3. p \in 1 .. n /\ e.next < timers[p].next
      BY <3>1
    <3>4. \A i \in 1 .. n : i \notin I => timers[i].next <= e.next
      BY <1>1
    <3> HIDE DEF p, I
    <3> QED
      BY <1>1, <3>2, <3>3, <3>4
  <2> QED
    BY <2>1, <2>2
<1>5. Insert(timers, e) = T
  <2>1. \A i \in I : i # 0
    BY <1>1
  <2> QED
    BY <1>3, <2>1, Zenon DEF Insert, SelectInSeq
<1> HIDE DEF p, I
<1>6. /\ T \in Seq(R) /\ DOMAIN T = 1 .. n + 1
      /\ \A k \in 1 .. p - 1 : T[k] = timers[k]
      /\ T[p] = e
      /\ \A k \in p + 1 .. n + 1 : T[k] = timers[k - 1]
  BY <1>4, InsertedAt
<1> HIDE DEF T, n
<1>7. ASSUME NEW k \in DOMAIN T
      PROVE  \/ k = p /\ T[k] = e
             \/ k < p /\ k \in 1 .. n /\ T[k] = timers[k]
             \/ k > p /\ k - 1 \in 1 .. n /\ k - 1 >= p /\ T[k] = timers[k - 1]
  <2>1. k \in 1 .. n + 1
    BY <1>6
  <2> QED
    BY <1>1, <1>4, <1>6, <2>1
<1>8. SortedByTime(timers) => SortedByTime(T)
  <2> SUFFICES ASSUME SortedByTime(timers), NEW k \in DOMAIN T, NEW l \in DOMAIN T, k < l
               PROVE  T[k].next <= T[l].next
    BY DEF SortedByTime
  <2>0. \A i, j \in 1 .. n : i <= j => timers[i].next <= timers[j].next
    BY <1>1 DEF SortedByTime
  <2>1. k \in 1 .. n + 1 /\ l \in 1 .. n + 1
    BY <1>6
  <2>2. CASE k = p
    <3>1. l > p /\ l - 1 \in 1 .. n /\ l - 1 >= p /\ T[l] = timers[l - 1] /\ T[k] = e
      BY <1>1, <1>4, <1>7, <2>1, <2>2
    <3>2. p \in 1 .. n
      BY <1>1, <1>4, <3>1
    <3>3. e.next < timers[p].next /\ timers[p].next <= timers[l - 1].next
      BY <1>1, <1>4, <2>0, <3>1, <3>2
    <3> QED
      BY <1>1, <3>1, <3>2, <3>3
  <2>3. CASE k < p
    <3>1. k \in 1 .. n /\ T[k] = timers[k]
      BY <1>1, <1>4, <1>7, <2>1, <2>3
    <3>2. CASE l = p
      BY <1>4, <1>6, <2>3, <3>1, <3>2
    <3>3. CASE l < p
      <4>1. l \in 1 .. n /\ T[l] = timers[l]
        BY <1>1, <1>4, <1>7, <2>1, <3>3
      <4> QED
        BY <1>1, <2>0, <3>1, <4>1
    <3>4. CASE l > p
      <4>1. l - 1 \in 1 .. n /\ T[l] = timers[l - 1] /\ k <= l - 1
        BY <1>1, <1>4, <1>7, <2>1, <3>4
      <4> QED
        BY <1>1, <2>0, <3>1, <4>1
    <3> QED
      BY <1>4, <2>1, <3>2, <3>3, <3>4
  <2>4. CASE k > p
    <3>1. k - 1 \in 1 .. n /\ T[k] = timers[k - 1]
      BY <1>1, <1>4, <1>7, <2>1, <2>4
    <3>2. l - 1 \in 1 .. n /\ T[l] = timers[l - 1] /\ k - 1 <= l - 1
      BY <1>1, <1>4, <1>7, <2>1, <2>4
    <3> QED
      BY <2>0, <3>1, <3>2
  <2> QED
    BY <1>4, <2>1, <2>2, <2>3, <2>4
<1>9. \A k \in DOMAIN T : T[k] = e \/ \E i \in DOMAIN timers : T[k] = timers[i]
  BY <1>1, <1>7
<1> QED
  BY <1>5, <1>6, <1>8, <1>9

(* The search for the first timer of the future splits the list: before it *)
(* every time has come, and its own has not.                               *)
LEMMA DueInRange ==
  ASSUME NEW R, regular \in Seq(R), \A r \in R : r.next \in Nat, now \in Nat
  PROVE  /\ DueCount \in 0 .. Len(regular) /\ Len(regular) \in Nat
         /\ \A i \in 1 .. DueCount : regular[i].next <= now
         /\ DueCount # Len(regular) => regular[DueCount + 1].next > now
<1> DEFINE n == Len(regular)
           I == {i \in 1 .. n : regular[i].next > now}
           d == IF I = {} THEN n ELSE Min(I) - 1
<1>1. n \in Nat /\ DOMAIN regular = 1 .. n /\ \A i \in 1 .. n : regular[i].next \in Nat
  BY LenProperties, ElementOfSeq
<1>2. I \in SUBSET (1 .. n)
  OBVIOUS
<1>3. I # {} => Min(I) \in I /\ \A y \in I : Min(I) <= y
  <2> HIDE DEF I, n
  <2> QED
    BY <1>1, <1>2, SmallestIn
<1>4. \A i \in I : i # 0
  BY <1>1
<1>5. DueCount = d
  BY <1>3, <1>4, Zenon DEF DueCount, SelectInSeq
<1>6. CASE I = {}
  <2>1. d = n /\ \A i \in 1 .. n : regular[i].next <= now
    BY <1>1, <1>6
  <2> HIDE DEF d, I
  <2> QED
    BY <1>1, <1>5, <2>1
<1>7. CASE I # {}
  <2>1. Min(I) \in 1 .. n /\ regular[Min(I)].next > now /\ \A y \in I : Min(I) <= y
    BY <1>3, <1>7
  <2> DEFINE m == Min(I)
  <2>2. d = m - 1 /\ m \in 1 .. n /\ regular[m].next > now
    BY <1>7, <2>1
  <2>3. \A i \in 1 .. n : i < m => i \notin I
    BY <1>1, <2>1
  <2>4. \A i \in 1 .. n : i \notin I => regular[i].next <= now
    BY <1>1
  <2> HIDE DEF d, I, m
  <2>5. d \in 0 .. n /\ d + 1 = m /\ \A i \in 1 .. d : i \in 1 .. n /\ i < m
    BY <1>1, <2>2
  <2> QED
    BY <1>1, <1>5, <2>2, <2>3, <2>4, <2>5
<1> QED
  BY <1>6, <1>7

-----------------------------------------------------------------------------
(* The types of the loop, and its timers in the order of their time.        *)

\* The records of EventLoopState.regular.
Timers == [id : Events, next : Nat, every : Nat]

(* The fields of a timer.                                                  *)
LEMMA TimerIsRecord ==
  ASSUME NEW r \in Timers
  PROVE  r.next \in Nat /\ r.every \in Nat /\ r.id \in Events
BY DEF Timers

(* A cancel leaves the list sorted, and no timer of the id in it.          *)
LEMMA WithoutSorted ==
  ASSUME NEW timers \in Seq(Timers), NEW id, SortedByTime(timers)
  PROVE  /\ Without(timers, id) \in Seq(Timers) /\ SortedByTime(Without(timers, id))
         /\ \A k \in DOMAIN Without(timers, id) :
              /\ Without(timers, id)[k].id # id
              /\ \E i \in DOMAIN timers : Without(timers, id)[k].id = timers[i].id
<1> DEFINE T == Without(timers, id)
<1>1. /\ T \in Seq(Timers)
      /\ \A k \in DOMAIN T : \E i \in DOMAIN timers : T[k] = timers[i] /\ timers[i].id # id
      /\ \A k, l \in DOMAIN T : k < l =>
              \E i, j \in DOMAIN timers : T[k] = timers[i] /\ T[l] = timers[j] /\ i < j
  <2> HIDE DEF T
  <2> QED
    BY WithoutInOrder DEF T
<1> HIDE DEF T
<1>2. SortedByTime(T)
  BY <1>1 DEF SortedByTime
<1> QED
  BY <1>1, <1>2 DEF T

\* The timers after one pass: the first d of them have moved on.
Moved(timers, d) == [i \in DOMAIN timers |->
                       IF i <= d THEN [timers[i] EXCEPT !.next = @ + timers[i].every]
                       ELSE timers[i]]

(* A pass moves the due timers on and sorts the list again: the ids stay.  *)
LEMMA MovedTimers ==
  ASSUME NEW timers \in Seq(Timers), NEW d
  PROVE  /\ SortByNext(Moved(timers, d)) \in Seq(Timers)
         /\ SortedByTime(SortByNext(Moved(timers, d)))
         /\ \A k \in DOMAIN SortByNext(Moved(timers, d)) : \E i \in DOMAIN timers :
              SortByNext(Moved(timers, d))[k].id = timers[i].id
<1> DEFINE M == Moved(timers, d)
           T == SortByNext(M)
<1>1. DOMAIN timers = 1 .. Len(timers) /\ Len(timers) \in Nat
  BY LenProperties
<1>2. \A i \in DOMAIN timers : timers[i] \in Timers
  BY <1>1, ElementOfSeq
<1>3. ASSUME NEW i \in DOMAIN timers
      PROVE  M[i] \in Timers /\ M[i].id = timers[i].id
  <2>1. timers[i] \in [id : Events, next : Nat, every : Nat]
    BY <1>2 DEF Timers
  <2>2. [timers[i] EXCEPT !.next = @ + timers[i].every] \in [id : Events, next : Nat, every : Nat]
    BY <2>1
  <2>3. [timers[i] EXCEPT !.next = @ + timers[i].every].id = timers[i].id
    BY <2>1
  <2> QED
    BY <2>1, <2>2, <2>3 DEF Moved, Timers
<1>4. DOMAIN M = 1 .. Len(timers)
  BY <1>1 DEF Moved
<1>5. M \in [1 .. Len(timers) -> Timers]
  BY <1>1, <1>3 DEF Moved
<1>6. M \in Seq(Timers)
  BY <1>1, <1>5, IsASeq
<1> HIDE DEF M
<1>7. \A r \in Timers : r.next \in Nat
  BY TimerIsRecord
<1>8. /\ T \in Seq(Timers)
      /\ \A k \in DOMAIN T : \E i \in DOMAIN M : T[k] = M[i]
      /\ \A k, l \in DOMAIN T : k < l => T[k].next <= T[l].next
  <2> HIDE DEF T
  <2> QED
    BY <1>6, <1>7, SortedByNext DEF T
<1> HIDE DEF T
<1>9. \A k \in DOMAIN T : \E i \in DOMAIN timers : T[k].id = timers[i].id
  BY <1>1, <1>3, <1>4, <1>8
<1> QED
  BY <1>8, <1>9 DEF SortedByTime, M, T

\* A post as its caller made it.
PostOk(p) == /\ Tasked(p) => p.task \in Tasks
             /\ p.kind = "repeat" => p.id \in Events /\ p.every \in Nat /\ p.from \in Nat

(* What a thread may post is well formed, and repeat draws the next id.    *)
LEMMA PostsAreOk ==
  ASSUME Typing, NEW kinds, NEW p \in Posts(kinds)
  PROVE  PostOk(p) /\ (p.kind = "repeat" => p.id = nextId)
<1>1. CASE p \in [kind : {"promise"}]
  BY <1>1 DEF PostOk, Tasked
<1>2. CASE p \in [kind : kinds \cap {"run", "runPromised"}, task : {k \in Tasks : fate[k] = "new"}]
  BY <1>2 DEF PostOk, Tasked
<1>3. CASE p \in [kind : kinds \cap {"repeat"}, id : {nextId} \cap Events,
                  every : {IF i > 1 THEN i ELSE 1 : i \in Intervals}, from : {now}]
  <2>1. /\ p.kind = "repeat" /\ p.id = nextId /\ p.id \in Events /\ p.from = now
        /\ p.every \in {IF i > 1 THEN i ELSE 1 : i \in Intervals}
    BY <1>3
  <2>2. p.every \in Nat
    BY <2>1, BoundsNat
  <2>3. now \in Nat
    BY BoundsNat DEF Typing
  <2> QED
    BY <2>1, <2>2, <2>3 DEF PostOk, Tasked
<1>4. CASE p \in [kind : kinds \cap {"cancel"},
                  handle : {Handle(e) : e \in {x \in Events : timer[x] # "new"}}]
  BY <1>4 DEF PostOk, Tasked
<1> QED
  BY <1>1, <1>2, <1>3, <1>4 DEF Posts

\* What may become of a task, and of a timer.
Fates == {"new", "called", "queued", "promised", "ran", "rejected"}

(* A post gives its task one of the fates.                                 *)
LEMMA FateTyped ==
  ASSUME fate \in [Tasks -> Fates], NEW p, PostOk(p), NEW f \in Fates, Fate(p, f)
  PROVE  fate' \in [Tasks -> Fates]
<1>1. CASE p.kind \in {"run", "runPromised"}
  BY <1>1 DEF Fate, PostOk, Tasked
<1>2. CASE p.kind \notin {"run", "runPromised"}
  BY <1>2 DEF Fate
<1> QED
  BY <1>1, <1>2

TimerStates == {"new", "live", "byOwner", "byCaller"}

(* The critical section of a post keeps the queues and the timers what they*)
(* are, and the list sorted.                                               *)
LEMMA AcceptTyped ==
  ASSUME Typing, SortedByTime(regular), NEW p, PostOk(p), NEW who \in {"byOwner", "byCaller"},
         Accept(p, who)
  PROVE  /\ oneTime' \in Seq(Tasks) /\ promised' \in 0 .. MaxPromised
         /\ regular' \in Seq(Timers) /\ SortedByTime(regular')
         /\ fate' \in [Tasks -> Fates] /\ timer' \in [Events -> TimerStates]
         /\ pc' = pc \/ (pc = "parked" /\ pc' = "advance")
<1>0. /\ oneTime \in Seq(Tasks) /\ promised \in 0 .. MaxPromised
      /\ regular \in Seq(Timers) /\ fate \in [Tasks -> Fates]
      /\ timer \in [Events -> TimerStates] /\ MaxPromised \in Nat
  BY BoundsNat DEF Typing, Timers, Fates, TimerStates
<1>1. CASE Promise(p)
  BY <1>0, <1>1 DEF Promise
<1>2. CASE Run(p)
  <2>1. p.task \in Tasks
    BY <1>2 DEF Run, PostOk, Tasked
  <2>2. fate' \in [Tasks -> Fates]
    BY <1>0, <1>2, FateTyped DEF Run, Fates
  <2>3. oneTime' \in Seq(Tasks)
    BY <1>0, <1>2, <2>1, AppendProperties DEF Run
  <2> QED
    BY <1>0, <1>2, <2>2, <2>3 DEF Run, Notify
<1>3. CASE RunPromised(p)
  <2>1. p.task \in Tasks
    BY <1>3 DEF RunPromised, PostOk, Tasked
  <2>2. CASE /\ promised > 0 /\ promised' = promised - 1 /\ oneTime' = Append(oneTime, p.task)
             /\ Fate(p, "promised") /\ Notify
    <3>1. fate' \in [Tasks -> Fates]
      BY <1>0, <2>2, FateTyped DEF Fates
    <3>2. oneTime' \in Seq(Tasks)
      BY <1>0, <2>1, <2>2, AppendProperties
    <3>3. promised' \in 0 .. MaxPromised
      BY <1>0, <2>2
    <3> QED
      BY <1>0, <1>3, <2>2, <3>1, <3>2, <3>3 DEF RunPromised, Notify
  <2>3. CASE Fate(p, "rejected") /\ UNCHANGED <<oneTime, promised, pc>>
    <3>1. fate' \in [Tasks -> Fates]
      BY <1>0, <2>3, FateTyped DEF Fates
    <3> QED
      BY <1>0, <1>3, <2>3, <3>1 DEF RunPromised
  <2> QED
    BY <1>3, <2>2, <2>3 DEF RunPromised
<1>4. CASE Repeat(p)
  <2> DEFINE e == [id |-> p.id, every |-> p.every, next |-> p.from + p.every]
  <2>1. p.id \in Events /\ p.every \in Nat /\ p.from \in Nat
    BY <1>4 DEF Repeat, PostOk
  <2>2. e \in Timers
    BY <2>1 DEF Timers
  <2>3. regular' = Insert(regular, e)
    BY <1>4 DEF Repeat
  <2> HIDE DEF e
  <2>4. regular' \in Seq(Timers) /\ SortedByTime(regular')
    BY <1>0, <2>2, <2>3, InsertedInOrder, TimerIsRecord
  <2>5. timer' \in [Events -> TimerStates]
    BY <1>0, <1>4, <2>1 DEF Repeat, TimerStates
  <2> QED
    BY <1>0, <1>4, <2>4, <2>5 DEF Repeat, Notify
<1>5. CASE Cancel(p, who)
  <2>1. regular' = Without(regular, EventOf(p.handle))
    BY <1>5 DEF Cancel
  <2>2. regular' \in Seq(Timers) /\ SortedByTime(regular')
    BY <1>0, <2>1, WithoutSorted
  <2>3. timer' \in [Events -> TimerStates]
    <3>1. \A e \in Events : (IF Handle(e) = p.handle /\ timer[e] = "live" THEN who ELSE timer[e])
                              \in TimerStates
      BY <1>0 DEF TimerStates
    <3> QED
      BY <1>5, <3>1 DEF Cancel
  <2> QED
    BY <1>0, <1>5, <2>2, <2>3 DEF Cancel, Notify
<1> QED
  BY <1>1, <1>2, <1>3, <1>4, <1>5 DEF Accept

\* The calls in flight are well formed, and a timer that is being called is the
\* head of the due ones.
CallsOk == \A c \in Callers : PostOk(call[c])
DuePlaces == pc \in {"chosen", "inRegular"} => due # <<>>
\* What the loop keeps: its callbacks, its types and the order of its timers.
LoopInv == ShotInv /\ Typing /\ SortedByTime(regular) /\ CallsOk /\ DuePlaces
Typed == Typing /\ SortedByTime(regular) /\ CallsOk /\ DuePlaces

(* The type invariant, with its sets named.                                *)
LEMMA TimersTyped ==
  Typing <=> /\ registered \in Owners \cup {"gone"}
             /\ oneTime \in Seq(Tasks) /\ promised \in 0 .. MaxPromised
             /\ regular \in Seq(Timers)
             /\ nextId \in 1 .. MaxEvents + 1 /\ now \in 0 .. MaxTime
             /\ pc \in Places
             /\ due \in Seq(Events) /\ shots \in Seq(Tasks)
             /\ seen \in [ran : BOOLEAN, nextAt : Nat \cup {Forever}, promised : Nat]
             /\ deadline \in Nat \cup {Forever}
             /\ fate \in [Tasks -> Fates]
             /\ timer \in [Events -> TimerStates]
BY DEF Typing, Timers, Fates, TimerStates

(* Ids are drawn within their bound.                                       *)
LEMMA NextIdTyped ==
  ASSUME Typing, NEW p, PostOk(p), p.kind = "repeat" => p.id = nextId, DrawId(p)
  PROVE  nextId' \in 1 .. MaxEvents + 1
<1>1. CASE p.kind = "repeat"
  <2>1. nextId \in 1 .. MaxEvents
    BY <1>1 DEF PostOk, Events
  <2> QED
    BY <1>1, <2>1, BoundsNat DEF DrawId
<1>2. CASE p.kind # "repeat"
  BY <1>2 DEF DrawId, Typing
<1> QED
  BY <1>1, <1>2

(* A caller that looks for the loop.                                       *)
LEMMA LookupTyped ==
  ASSUME LoopInv, NEW c \in Callers, Lookup(c)
  PROVE  Typed'
<1>1. PICK p \in Posts(CallerKinds) :
        /\ DrawId(p)
        /\ call' = [call EXCEPT ![c] = IF registered # "gone" THEN p ELSE NoCall]
        /\ Fate(p, IF registered # "gone" THEN "called" ELSE "rejected")
  BY DEF Lookup
<1>2. PostOk(p) /\ (p.kind = "repeat" => p.id = nextId)
  BY PostsAreOk DEF LoopInv
<1>3. nextId' \in 1 .. MaxEvents + 1
  BY <1>1, <1>2, NextIdTyped DEF LoopInv
<1>4. fate' \in [Tasks -> Fates]
  <2>1. (IF registered # "gone" THEN "called" ELSE "rejected") \in Fates
    BY DEF Fates
  <2>2. fate \in [Tasks -> Fates]
    BY TimersTyped DEF LoopInv
  <2> QED
    BY <1>1, <1>2, <2>1, <2>2, FateTyped
<1>5. CallsOk'
  <2>1. PostOk(NoCall)
    BY DEF PostOk, NoCall, Tasked
  <2>2. \A d \in Callers : call'[d] = call[d] \/ call'[d] = p \/ call'[d] = NoCall
    BY <1>1 DEF LoopInv, ShotInv, CallsApart
  <2> QED
    BY <1>2, <2>1, <2>2 DEF LoopInv, CallsOk, PostOk, Tasked
<1>6. UNCHANGED <<registered, oneTime, promised, regular, now, pc, due, shots, seen, deadline, timer>>
  BY DEF Lookup, state, locals
<1>7. Typing'
  BY <1>3, <1>4, <1>6, TimersTyped DEF LoopInv, Typing, Timers, Fates, TimerStates
<1> QED
  BY <1>5, <1>6, <1>7 DEF LoopInv, Typed, DuePlaces

(* A caller that locks the state and posts.                                *)
LEMMA DeliverTyped ==
  ASSUME LoopInv, NEW c \in Callers, Deliver(c)
  PROVE  Typed'
<1>1. Accept(call[c], "byCaller") /\ call' = [call EXCEPT ![c] = NoCall]
      /\ UNCHANGED <<registered, nextId, now, due, shots, seen, deadline>>
  BY DEF Deliver, locals
<1>2. PostOk(call[c])
  BY DEF LoopInv, CallsOk
<1>3. /\ oneTime' \in Seq(Tasks) /\ promised' \in 0 .. MaxPromised
      /\ regular' \in Seq(Timers) /\ SortedByTime(regular')
      /\ fate' \in [Tasks -> Fates] /\ timer' \in [Events -> TimerStates]
      /\ pc' = pc \/ (pc = "parked" /\ pc' = "advance")
  BY <1>1, <1>2, AcceptTyped DEF LoopInv
<1>4. CallsOk'
  <2>1. PostOk(NoCall)
    BY DEF PostOk, NoCall, Tasked
  <2>2. \A d \in Callers : call'[d] = call[d] \/ call'[d] = NoCall
    BY <1>1 DEF LoopInv, ShotInv, CallsApart
  <2> QED
    BY <2>1, <2>2 DEF LoopInv, CallsOk, PostOk, Tasked
<1>5. Typing'
  BY <1>1, <1>3 DEF LoopInv, Typing, Timers, Fates, TimerStates, Places
<1> QED
  BY <1>1, <1>3, <1>4, <1>5 DEF LoopInv, Typed, DuePlaces, SortedByTime

(* A post of the owner to itself.                                          *)
LEMMA OwnerPostTyped ==
  ASSUME LoopInv, OwnerPost
  PROVE  Typed'
<1>1. PICK p \in Posts(OwnerKinds) : DrawId(p) /\ Accept(p, "byOwner")
  BY DEF OwnerPost
<1>2. UNCHANGED <<registered, now, due, shots, seen, deadline, call>>
  BY DEF OwnerPost, locals
<1>3. PostOk(p) /\ (p.kind = "repeat" => p.id = nextId)
  BY PostsAreOk DEF LoopInv
<1>4. nextId' \in 1 .. MaxEvents + 1
  BY <1>1, <1>3, NextIdTyped DEF LoopInv
<1>5. /\ oneTime' \in Seq(Tasks) /\ promised' \in 0 .. MaxPromised
      /\ regular' \in Seq(Timers) /\ SortedByTime(regular')
      /\ fate' \in [Tasks -> Fates] /\ timer' \in [Events -> TimerStates]
      /\ pc' = pc \/ (pc = "parked" /\ pc' = "advance")
  BY <1>1, <1>3, AcceptTyped DEF LoopInv
<1>6. Typing'
  BY <1>2, <1>4, <1>5 DEF LoopInv, Typing, Timers, Fates, TimerStates, Places
<1> QED
  BY <1>2, <1>5, <1>6 DEF LoopInv, Typed, DuePlaces, SortedByTime, CallsOk, PostOk, Tasked

(* The first critical section of a pass.                                   *)
LEMMA AdvanceTyped ==
  ASSUME LoopInv, Advance
  PROVE  Typed'
<1>0. regular \in Seq(Timers) /\ now \in Nat
  BY BoundsNat DEF LoopInv, Typing, Timers
<1>1. DueCount \in 0 .. Len(regular) /\ Len(regular) \in Nat
  BY <1>0, DueInRange, TimerIsRecord
<1>2. due' \in Seq(Events)
  <2> DEFINE d == DueCount
  <2> HIDE DEF d
  <2>1. d \in Nat /\ d <= Len(regular)
    BY <1>1 DEF d
  <2>2. \A i \in 1 .. d : regular[i].id \in Events
    BY <1>0, <1>1, <2>1, ElementOfSeq, TimerIsRecord
  <2>3. [i \in 1 .. d |-> regular[i].id] \in [1 .. d -> Events]
    BY <2>2
  <2>4. due' = [i \in 1 .. d |-> regular[i].id]
    BY DEF Advance, d
  <2> QED
    BY <2>1, <2>3, <2>4, IsASeq
<1>3. regular' = SortByNext(Moved(regular, DueCount))
  BY DEF Advance, Moved
<1>4. regular' \in Seq(Timers) /\ SortedByTime(regular')
  BY <1>0, <1>3, MovedTimers
<1>5. /\ seen' = [seen EXCEPT !.ran = DueCount > 0] /\ pc' = "due" /\ deadline' = Forever
      /\ UNCHANGED <<registered, promised, nextId, now, call, timer, oneTime, shots, fate>>
  BY DEF Advance, others, Goto
<1>6. seen' \in [ran : BOOLEAN, nextAt : Nat \cup {Forever}, promised : Nat]
  <2>1. (DueCount > 0) \in BOOLEAN
    BY <1>1
  <2>2. seen \in [ran : BOOLEAN, nextAt : Nat \cup {Forever}, promised : Nat]
    BY DEF LoopInv, Typing
  <2> QED
    BY <1>5, <2>1, <2>2
<1>7. Typing'
  BY <1>2, <1>4, <1>5, <1>6 DEF LoopInv, Typing, Timers, Places
<1> QED
  BY <1>4, <1>5, <1>7 DEF LoopInv, Typed, DuePlaces, SortedByTime, CallsOk, PostOk, Tasked

(* A step that leaves the timers and the calls alone.                      *)
LEMMA KeptTyped ==
  ASSUME LoopInv, Typing', DuePlaces', UNCHANGED <<regular, call>>
  PROVE  Typed'
BY DEF LoopInv, Typed, SortedByTime, CallsOk, PostOk, Tasked

(* The steps of the owner.                                                 *)
LEMMA PumpTyped ==
  ASSUME LoopInv, Pump
  PROVE  Typed'
<1> USE DEF Goto
<1>0. regular \in Seq(Timers) /\ now \in Nat /\ Typing /\ QueuesOk
  BY BoundsNat DEF LoopInv, Typing, Timers, ShotInv
<1>2. CASE EnterLoop \/ TimeOut
  <2>1. pc' = "advance" /\ UNCHANGED <<regular, call>>
    BY <1>2 DEF EnterLoop, TimeOut, others
  <2>2. Typing'
    BY <1>0, <1>2 DEF EnterLoop, TimeOut, others, locals, Typing, Places
  <2> QED
    BY KeptTyped, <2>1, <2>2 DEF DuePlaces
<1>3. CASE StartRegular
  <2>1. pc = "chosen" /\ due' = due /\ UNCHANGED <<regular, call>>
    BY <1>3 DEF StartRegular, others, locals
  <2>2. Typing'
    BY <1>0, <1>3 DEF StartRegular, others, locals, Typing, Places
  <2> QED
    BY KeptTyped, <2>1, <2>2 DEF DuePlaces, LoopInv
<1>4. CASE EndRegular
  <2>1. pc = "inRegular" /\ due' = Tail(due) /\ pc' = "due" /\ UNCHANGED <<regular, call>>
    BY <1>4 DEF EndRegular, others
  <2>2. due' \in Seq(Events)
    BY <1>0, <2>1, HeadTailProperties DEF LoopInv, DuePlaces, Typing
  <2>3. Typing'
    BY <1>0, <1>4, <2>1, <2>2 DEF EndRegular, others, Typing, Places
  <2> QED
    BY KeptTyped, <2>1, <2>3 DEF DuePlaces
<1>5. CASE StillRegistered
  <2>1. /\ due # <<>> /\ UNCHANGED <<regular, call>>
        /\ \/ due' = due
           \/ pc' = "due" /\ due' = Tail(due)
    BY <1>5 DEF StillRegistered, others
  <2>2. due' \in Seq(Events)
    <3>1. due \in Seq(Events)
      BY <1>0 DEF Typing
    <3>2. Tail(due) \in Seq(Events)
      BY <2>1, <3>1, HeadTailProperties
    <3> QED
      BY <2>1, <3>1, <3>2
  <2>3. Typing'
    BY <1>0, <1>5, <2>1, <2>2 DEF StillRegistered, others, Typing, Places
  <2>4. DuePlaces'
    BY <2>1 DEF DuePlaces
  <2> QED
    BY KeptTyped, <2>1, <2>3, <2>4
<1>6. CASE Drain
  <2>1. /\ pc' = "shots" /\ shots' = oneTime /\ oneTime' = <<>>
        /\ seen' = [ran |-> seen.ran \/ oneTime # <<>>,
                    nextAt |-> IF regular = <<>> THEN Forever ELSE regular[1].next,
                    promised |-> promised]
        /\ UNCHANGED <<registered, promised, nextId, now, call, timer, regular, due, deadline, fate>>
    BY <1>6 DEF Drain, others
  <2>2. regular # <<>> => regular[1].next \in Nat
    <3>1. regular # <<>> => regular[1] \in Timers
      BY <1>0, HeadTailProperties
    <3> QED
      BY <3>1, TimerIsRecord
  <2>3. seen.ran \in BOOLEAN /\ promised \in Nat
    BY <1>0 DEF Typing
  <2>4. seen' \in [ran : BOOLEAN, nextAt : Nat \cup {Forever}, promised : Nat]
    BY <2>1, <2>2, <2>3
  <2>5. Typing'
    BY <1>0, <2>1, <2>4, EmptySeq DEF Typing, Places
  <2> QED
    BY KeptTyped, <2>1, <2>5 DEF DuePlaces
<1>7. CASE StartShot
  <2>1. /\ pc' = "inShot" /\ shots # <<>> /\ fate' = [fate EXCEPT ![Head(shots)] = "ran"]
        /\ UNCHANGED <<registered, promised, nextId, now, call, timer, oneTime, regular,
                       due, shots, seen, deadline>>
    BY <1>7 DEF StartShot, others, locals
  <2>2. Typing'
    BY <1>0, <2>1 DEF Typing, Places
  <2> QED
    BY KeptTyped, <2>1, <2>2 DEF DuePlaces
<1>8. CASE EndShot
  <2>1. pc = "inShot" /\ pc' = "shots" /\ shots' = Tail(shots) /\ UNCHANGED <<regular, call>>
    BY <1>8 DEF EndShot, others
  <2>2. shots' \in Seq(Tasks)
    BY <1>0, <2>1, HeadTailProperties DEF QueuesOk
  <2>3. Typing'
    BY <1>0, <1>8, <2>1, <2>2 DEF EndShot, others, Typing, Places
  <2> QED
    BY KeptTyped, <2>1, <2>3 DEF DuePlaces
<1>9. CASE Decide
  <2>1. /\ pc' \in {"advance", "wait", "leaving"} /\ seen' = Nothing
        /\ UNCHANGED <<registered, promised, nextId, now, call, timer, oneTime, regular,
                       due, shots, fate>>
    BY <1>9 DEF Decide, others
  <2>2. deadline' \in Nat \cup {Forever}
    <3>1. \/ deadline' = Forever \/ deadline' = 0
          \/ seen.nextAt # Forever /\ seen.nextAt > now /\ deadline' = seen.nextAt - now
      BY <1>9 DEF Decide
    <3>2. seen.nextAt \in Nat \cup {Forever}
      BY <1>0 DEF Typing
    <3> QED
      BY <1>0, <3>1, <3>2
  <2>3. seen' \in [ran : BOOLEAN, nextAt : Nat \cup {Forever}, promised : Nat]
    BY <2>1 DEF Nothing
  <2>4. Typing'
    BY <1>0, <2>1, <2>2, <2>3 DEF Typing, Places
  <2> QED
    BY KeptTyped, <2>1, <2>4 DEF DuePlaces
<1>10. CASE Wait
  <2>1. /\ pc' \in {"advance", "parked"}
        /\ deadline' = Forever \/ (deadline # Forever /\ deadline' = now + deadline)
        /\ UNCHANGED <<registered, promised, nextId, now, call, timer, oneTime, regular,
                       due, shots, seen, fate>>
    BY <1>10 DEF Wait, others
  <2>2. deadline' \in Nat \cup {Forever}
    BY <1>0, <2>1 DEF Typing
  <2>3. Typing'
    BY <1>0, <2>1, <2>2 DEF Typing, Places
  <2> QED
    BY KeptTyped, <2>1, <2>3 DEF DuePlaces
<1>11. CASE Leave
  <2>1. pc' \in {"job", "gone"} /\ registered' \in {registered, "gone"}
        /\ UNCHANGED <<oneTime, promised, regular, nextId, now, due, shots, seen, deadline,
                       call, fate, timer>>
    BY <1>11 DEF Leave, state, locals
  <2>2. Typing'
    BY <1>0, <2>1 DEF Typing, Places
  <2> QED
    BY KeptTyped, <2>1, <2>2 DEF DuePlaces
<1> QED
  BY <1>2, <1>3, <1>4, <1>5, <1>6, <1>7, <1>8, <1>9, <1>10, <1>11, AdvanceTyped DEF Pump

(* Every step keeps the invariant.                                         *)
LEMMA LoopStep == LoopInv /\ [Next]_vars => LoopInv'
<1> SUFFICES ASSUME LoopInv, [Next]_vars PROVE LoopInv'
  OBVIOUS
<1>1. ShotInv'
  BY ShotNext DEF LoopInv
<1>5. Typed' => LoopInv'
  BY <1>1 DEF Typed, LoopInv
<1>2. CASE Throw
  <2>1. /\ pc' = "leaving" /\ due' = <<>> /\ shots' = <<>> /\ seen' = Nothing
        /\ UNCHANGED <<registered, promised, nextId, now, call, timer, oneTime, regular,
                       deadline, fate>>
    BY <1>2 DEF Throw, others, Goto
  <2>2. seen' \in [ran : BOOLEAN, nextAt : Nat \cup {Forever}, promised : Nat]
    BY <2>1 DEF Nothing
  <2>3. Typing'
    BY <2>1, <2>2, EmptySeq DEF LoopInv, Typing, Places
  <2> QED
    BY <1>5, <2>1, <2>3, KeptTyped DEF DuePlaces
<1>3. CASE Tick
  <2>1. now < MaxTime /\ now' = now + 1
        /\ UNCHANGED <<registered, oneTime, promised, regular, nextId, pc, due, shots, seen,
                       deadline, call, fate, timer>>
    BY <1>3 DEF Tick, state, locals
  <2>2. Typing'
    BY <2>1, BoundsNat DEF LoopInv, Typing
  <2>3. DuePlaces'
    BY <2>1 DEF LoopInv, DuePlaces
  <2> QED
    BY <1>5, <2>1, <2>2, <2>3, KeptTyped
<1>4. CASE UNCHANGED vars
  <2>1. Typing' /\ DuePlaces' /\ UNCHANGED <<regular, call>>
    BY <1>4 DEF vars, LoopInv, Typing, DuePlaces
  <2> QED
    BY <1>5, <2>1, KeptTyped
<1>6. CASE Pump \/ OwnerPost \/ \E c \in Callers : Lookup(c) \/ Deliver(c)
  <2>1. Typed'
    BY <1>6, PumpTyped, OwnerPostTyped, LookupTyped, DeliverTyped
  <2> QED
    BY <1>5, <2>1
<1> QED
  BY <1>2, <1>3, <1>4, <1>6 DEF Next

(* The loop begins in it.                                                  *)
LEMMA LoopInit == Init => LoopInv
<1> SUFFICES ASSUME Init PROVE LoopInv
  OBVIOUS
<1>1. ShotInv
  BY ShotInit
<1>2. Typing
  BY BoundsNat, EmptySeq DEF Init, Typing, Places, Nothing, Forever, Events
<1>3. CallsOk
  BY DEF Init, CallsOk, PostOk, NoCall, Tasked
<1>4. SortedByTime(regular) /\ DuePlaces
  BY EmptySeq DEF Init, SortedByTime, DuePlaces
<1> QED
  BY <1>1, <1>2, <1>3, <1>4 DEF LoopInv

(* Every queue, timer and local of the loop stays what it is declared to   *)
(* be, for any callers, posts and bounds: a timer that is moved, sorted,   *)
(* inserted or retained is a timer, the promise count keeps to its range,  *)
(* and the owner takes the head only of lists that have one.               *)
THEOREM LoopTyped == Spec => []TypeOK
<1>1. LoopInv => TypeOK
  BY DEF LoopInv, DuePlaces, ShotInv, QueuesOk, TypeOK, HeadsThere
<1> QED
  BY <1>1, LoopInit, LoopStep, PTL DEF Spec

(* Of a sorted list that is split at the first timer of the future, those  *)
(* before the split are all that are due.                                  *)
LEMMA FirstAreDue ==
  ASSUME NEW ts, NEW n \in Nat, DOMAIN ts = 1 .. n, \A k \in 1 .. n : ts[k].next \in Nat,
         SortedByTime(ts), NEW t \in Nat, NEW d \in 0 .. n,
         \A k \in 1 .. d : ts[k].next <= t, d # n => ts[d + 1].next > t,
         NEW i \in 1 .. n
  PROVE  ts[i].next <= t <=> i <= d
<1>2. i \in Nat /\ d \in Nat /\ d <= n
  OBVIOUS
<1>3. CASE i <= d
  <2>1. i \in 1 .. d
    BY <1>2, <1>3
  <2> QED
    BY <1>3, <2>1
<1>4. CASE ~(i <= d)
  <2>1. d + 1 \in 1 .. n /\ d # n /\ (d + 1 = i \/ d + 1 < i)
    BY <1>2, <1>4
  <2>2. ts[d + 1].next <= ts[i].next
    <3>1. CASE d + 1 = i
      BY <1>2, <3>1
    <3>2. CASE d + 1 < i
      BY <1>2, <2>1, <3>2 DEF SortedByTime
    <3> QED
      BY <2>1, <3>1, <3>2
  <2>3. ts[d + 1].next > t
    BY <2>1
  <2>4. ~(ts[i].next <= t)
    BY <1>2, <2>1, <2>2, <2>3
  <2> QED
    BY <1>4, <2>4
<1> QED
  BY <1>3, <1>4

(* The timers whose time has come are exactly the first DueCount of the list. *)
DueAreFirst == \A i \in DOMAIN regular : regular[i].next <= now <=> i <= DueCount

(* progress finds every timer whose time has come and no other, by a search*)
(* for the first that is later: the inserts of repeat, the removals of     *)
(* cancel and the sort of every pass keep the list in the order the search *)
(* relies on, and so do the head that wait reads and the time that progress*)
(* returns.                                                                *)
THEOREM DueFound == Spec => []DueAreFirst
<1>1. LoopInv => DueAreFirst
  <2> SUFFICES ASSUME LoopInv PROVE DueAreFirst
    OBVIOUS
  <2>1. regular \in Seq(Timers) /\ now \in Nat /\ SortedByTime(regular)
    BY BoundsNat DEF LoopInv, Typing, Timers
  <2>2. /\ DueCount \in 0 .. Len(regular)
        /\ \A k \in 1 .. DueCount : regular[k].next <= now
        /\ DueCount # Len(regular) => regular[DueCount + 1].next > now
    BY <2>1, DueInRange, TimerIsRecord
  <2>3. /\ DOMAIN regular = 1 .. Len(regular) /\ Len(regular) \in Nat
        /\ \A k \in 1 .. Len(regular) : regular[k].next \in Nat
    BY <2>1, LenProperties, ElementOfSeq, TimerIsRecord
  <2> QED
    BY <2>1, <2>2, <2>3, FirstAreDue DEF DueAreFirst
<1> QED
  BY <1>1, LoopInit, LoopStep, PTL DEF Spec

-----------------------------------------------------------------------------
(* A timer that its own thread cancelled.                                  *)

(* A number below the modulus is its own remainder.                        *)
LEMMA SmallRemainder ==
  ASSUME NEW n \in Nat, NEW e \in Nat, e < n
  PROVE  e % n = e
<1> DEFINE r == e % n
           q == e \div n
<1>1. r \in Int /\ 0 <= r /\ r < n
  OBVIOUS
<1>2. q \in Int /\ e = n * q + r
  OBVIOUS
<1> HIDE DEF r, q
<1>3. ~(q >= 1)
  <2> SUFFICES ASSUME q >= 1 PROVE FALSE
    OBVIOUS
  <2>1. q - 1 \in Nat /\ n * (q - 1) >= 0 /\ n * q = n + n * (q - 1)
    BY <1>2
  <2> QED
    BY <1>1, <1>2, <2>1
<1>4. ~(q <= -1)
  <2> SUFFICES ASSUME q <= -1 PROVE FALSE
    OBVIOUS
  <2>1. -1 - q \in Nat /\ n * (-1 - q) >= 0 /\ n * (-1 - q) = -n - n * q
    BY <1>2
  <2> QED
    BY <1>1, <1>2, <2>1
<1>5. q = 0
  BY <1>2, <1>3, <1>4
<1> QED
  BY <1>1, <1>2, <1>5 DEF r

(* Below a half is below the whole.                                        *)
LEMMA Half == ASSUME NEW n \in Nat, NEW e \in Nat, e < n \div 2 PROVE e < n
OBVIOUS

\* Fewer repeats than there are positive handles.
FewTimers == MaxEvents < HandleSpan \div 2

(* The handles of these ids are positive, and the ids come back from them. *)
LEMMA HandleIsId ==
  ASSUME FewTimers, NEW e \in Events
  PROVE  Handle(e) = e /\ EventOf(e) = e
<1>1. e \in Nat /\ e <= MaxEvents /\ MaxEvents \in Nat /\ HandleSpan \in Nat
  BY BoundsNat DEF Events
<1> DEFINE half == HandleSpan \div 2
<1>2. half \in Nat
  BY BoundsNat
<1>3. e < half
  <2> HIDE DEF half
  <2>1. MaxEvents < half
    BY DEF FewTimers, half
  <2> QED
    BY <1>1, <1>2, <2>1
<1>4. e < HandleSpan
  BY <1>1, <1>3, Half
<1>5. e % HandleSpan = e
  BY <1>1, <1>4, SmallRemainder
<1> QED
  BY <1>1, <1>3, <1>5 DEF Handle, EventOf

\* The ids that callers have drawn are theirs, and of timers not added yet; no
\* timer its own thread cancelled is in the list, nor about to be called.
Drawn == /\ \A e \in Events : e >= nextId => timer[e] = "new"
         /\ \A c \in Callers : call[c].kind = "repeat" =>
                              call[c].id < nextId /\ timer[call[c].id] = "new"
         /\ \A c, d \in Callers : call[c].kind = "repeat" /\ call[d].kind = "repeat"
                                  /\ call[c].id = call[d].id => c = d
GoneIsGone == \A e \in Events : timer[e] = "byOwner" => ~Registered(e)
ChosenIsLive == pc = "chosen" => timer[Head(due)] # "byOwner"
CancelInv == LoopInv /\ Drawn /\ GoneIsGone /\ ChosenIsLive

(* A post adds a timer that was never there, or takes out the one it       *)
(* cancels: none that its own thread cancelled comes back.                 *)
LEMMA AcceptTimers ==
  ASSUME FewTimers, LoopInv, GoneIsGone, NEW p, PostOk(p), NEW who \in {"byOwner", "byCaller"},
         Accept(p, who), p.kind = "repeat" => timer[p.id] = "new",
         who = "byOwner" /\ p.kind = "cancel" => \E e \in Events : p.handle = Handle(e)
  PROVE  /\ GoneIsGone'
         /\ \A e \in Events : \/ timer'[e] = timer[e]
                              \/ p.kind = "repeat" /\ e = p.id /\ timer'[e] = "live"
                              \/ timer[e] = "live" /\ timer'[e] = who
<1>0. regular \in Seq(Timers) /\ timer \in [Events -> TimerStates] /\ SortedByTime(regular)
  BY TimersTyped DEF LoopInv
<1>1. CASE UNCHANGED <<regular, timer>>
  BY <1>1 DEF GoneIsGone, Registered
<1>2. CASE Repeat(p)
  <2> DEFINE r == [id |-> p.id, every |-> p.every, next |-> p.from + p.every]
  <2>1. p.id \in Events /\ p.every \in Nat /\ p.from \in Nat /\ p.kind = "repeat"
    BY <1>2 DEF Repeat, PostOk
  <2>2. r \in Timers /\ r.id = p.id
    BY <2>1 DEF Timers
  <2>3. regular' = Insert(regular, r) /\ timer' = [timer EXCEPT ![p.id] = "live"]
    BY <1>2 DEF Repeat
  <2> HIDE DEF r
  <2>4. \A k \in DOMAIN regular' : regular'[k] = r \/ \E i \in DOMAIN regular : regular'[k] = regular[i]
    BY <1>0, <2>2, <2>3, InsertedInOrder, TimerIsRecord
  <2>5. /\ timer'[p.id] = "live"
        /\ \A e \in Events : e # p.id => timer'[e] = timer[e]
    BY <1>0, <2>1, <2>3
  <2>6. GoneIsGone'
    <3> SUFFICES ASSUME NEW e \in Events, timer'[e] = "byOwner", NEW k \in DOMAIN regular',
                        regular'[k].id = e
                 PROVE  FALSE
      BY DEF GoneIsGone, Registered
    <3>1. e # p.id /\ timer[e] = "byOwner"
      BY <2>5
    <3>2. PICK i \in DOMAIN regular : regular'[k] = regular[i]
      BY <2>2, <2>4, <3>1
    <3> QED
      BY <3>1, <3>2 DEF GoneIsGone, Registered
  <2> QED
    BY <2>1, <2>5, <2>6
<1>3. CASE Cancel(p, who)
  <2> DEFINE id == EventOf(p.handle)
  <2>1. /\ p.kind = "cancel" /\ regular' = Without(regular, id)
        /\ timer' = [e \in Events |-> IF Handle(e) = p.handle /\ timer[e] = "live"
                                      THEN who ELSE timer[e]]
    BY <1>3 DEF Cancel
  <2>2. \A e \in Events : /\ timer'[e] = timer[e] \/ (timer[e] = "live" /\ timer'[e] = who)
                          /\ timer'[e] # timer[e] => e = p.handle
    BY <2>1, HandleIsId
  <2> HIDE DEF id
  <2>3. \A k \in DOMAIN regular' : /\ regular'[k].id # id
                                   /\ \E i \in DOMAIN regular : regular'[k].id = regular[i].id
    BY <1>0, <2>1, WithoutSorted
  <2>4. GoneIsGone'
    <3> SUFFICES ASSUME NEW e \in Events, timer'[e] = "byOwner", NEW k \in DOMAIN regular',
                        regular'[k].id = e
                 PROVE  FALSE
      BY DEF GoneIsGone, Registered
    <3>1. CASE timer[e] = "byOwner"
      <4>1. PICK i \in DOMAIN regular : regular'[k].id = regular[i].id
        BY <2>3
      <4> QED
        BY <3>1, <4>1 DEF GoneIsGone, Registered
    <3>2. CASE timer[e] # "byOwner"
      <4>1. e = p.handle
        BY <2>2, <3>2
      <4>2. id = e
        BY <4>1, HandleIsId DEF id
      <4> QED
        BY <2>3, <4>2
    <3> QED
      BY <3>1, <3>2
  <2> QED
    BY <2>2, <2>4
<1> QED
  BY <1>1, <1>2, <1>3 DEF Accept, Promise, Run, RunPromised

(* The handle of a cancel was given by a repeat.                           *)
LEMMA PostTimers ==
  ASSUME NEW kinds, NEW p \in Posts(kinds), p.kind = "cancel"
  PROVE  \E e \in Events : p.handle = Handle(e)
<1>1. p.handle \in {Handle(e) : e \in {x \in Events : timer[x] # "new"}}
  BY DEF Posts
<1> QED
  BY <1>1

(* A caller draws an id no other call has.                                 *)
LEMMA LookupCancel == ASSUME CancelInv, NEW c \in Callers, Lookup(c)
                      PROVE  Drawn' /\ GoneIsGone' /\ ChosenIsLive'
<1>1. PICK p \in Posts(CallerKinds) :
        /\ DrawId(p)
        /\ call' = [call EXCEPT ![c] = IF registered # "gone" THEN p ELSE NoCall]
  BY DEF Lookup
<1>2. p.kind = "repeat" => p.id = nextId /\ p.id \in Events
  BY PostsAreOk DEF CancelInv, LoopInv, PostOk
<1>3. UNCHANGED <<regular, pc, due, timer>>
  BY DEF Lookup, state, locals
<1>4. nextId \in Nat /\ nextId' \in Nat /\ nextId <= nextId'
      /\ (p.kind = "repeat" => nextId' = nextId + 1)
  BY <1>1, BoundsNat DEF DrawId, CancelInv, LoopInv, Typing
<1>5. \A d \in Callers : call'[d] = call[d] \/ (d = c /\ call'[d] \in {p, NoCall})
  BY <1>1 DEF CancelInv, LoopInv, ShotInv, CallsApart
<1>6. \A d \in Callers : call[d].kind = "repeat" => call[d].id \in Events /\ call[d].id < nextId
                                                  /\ timer[call[d].id] = "new"
  BY DEF CancelInv, LoopInv, CallsOk, PostOk, Drawn
<1>7. Events \subseteq Nat
  BY DEF Events
<1>8. NoCall.kind # "repeat"
  BY DEF NoCall
<1>9. \A e \in Events : e >= nextId' => timer'[e] = "new"
  <2> SUFFICES ASSUME NEW e \in Events, e >= nextId' PROVE timer'[e] = "new"
    OBVIOUS
  <2>1. e \in Nat /\ e >= nextId
    BY <1>4, <1>7
  <2> QED
    BY <1>3, <2>1 DEF CancelInv, Drawn
<1>10. ASSUME NEW d \in Callers, call'[d].kind = "repeat"
       PROVE  call'[d].id < nextId' /\ timer'[call'[d].id] = "new"
  <2>1. CASE call'[d] = call[d]
    <3>1. call[d].id \in Nat /\ call[d].id < nextId /\ timer[call[d].id] = "new"
      BY <1>6, <1>7, <1>10, <2>1
    <3>2. call[d].id < nextId'
      BY <1>4, <3>1
    <3> QED
      BY <1>3, <2>1, <3>1, <3>2
  <2>2. CASE call'[d] = p
    <3>1. timer[nextId] = "new" /\ p.id = nextId /\ nextId' = nextId + 1
      BY <1>2, <1>4, <1>10, <2>2 DEF CancelInv, Drawn
    <3> QED
      BY <1>3, <1>4, <2>2, <3>1
  <2> QED
    BY <1>5, <1>8, <1>10, <2>1, <2>2
<1>11. ASSUME NEW d \in Callers, NEW e \in Callers, call'[d].kind = "repeat",
              call'[e].kind = "repeat", call'[d].id = call'[e].id
       PROVE  d = e
  <2> SUFFICES ASSUME d # e PROVE FALSE
    OBVIOUS
  <2>1. CASE call'[d] = call[d] /\ call'[e] = call[e]
    BY <1>11, <2>1 DEF CancelInv, Drawn
  <2>2. CASE d = c /\ call'[d] = p
    <3>1. call'[e] = call[e] /\ p.id = nextId /\ call[e].id = nextId
      BY <1>2, <1>5, <1>11, <2>2
    <3> QED
      BY <1>4, <1>6, <1>11, <3>1
  <2>3. CASE e = c /\ call'[e] = p
    <3>1. call'[d] = call[d] /\ p.id = nextId /\ call[d].id = nextId
      BY <1>2, <1>5, <1>11, <2>3
    <3> QED
      BY <1>4, <1>6, <1>11, <3>1
  <2> QED
    BY <1>5, <1>8, <1>11, <2>1, <2>2, <2>3
<1> QED
  BY <1>3, <1>9, <1>10, <1>11 DEF CancelInv, Drawn, GoneIsGone, ChosenIsLive, Registered

(* A caller posts: it adds only the timer whose id it drew, and a cancel of*)
(* its own is not the owner's.                                             *)
LEMMA DeliverCancel == ASSUME FewTimers, CancelInv, NEW c \in Callers, Deliver(c)
                       PROVE  Drawn' /\ GoneIsGone' /\ ChosenIsLive'
<1> DEFINE p == call[c]
<1>1. Accept(p, "byCaller") /\ call' = [call EXCEPT ![c] = NoCall] /\ UNCHANGED <<nextId, due>>
  BY DEF Deliver, locals
<1>2. PostOk(p) /\ (p.kind = "repeat" => timer[p.id] = "new" /\ p.id < nextId)
  BY DEF CancelInv, LoopInv, CallsOk, Drawn
<1>3. \A d \in Callers : (d # c /\ call'[d] = call[d]) \/ call'[d] = NoCall
  BY <1>1 DEF CancelInv, LoopInv, ShotInv, CallsApart
<1>4. NoCall.kind # "repeat"
  BY DEF NoCall
<1>5. \A d \in Callers : d # c /\ call[d].kind = "repeat" /\ p.kind = "repeat" => call[d].id # p.id
  BY DEF CancelInv, Drawn
<1>6. \A d \in Callers : call[d].kind = "repeat" => call[d].id \in Events /\ call[d].id < nextId
                                                  /\ timer[call[d].id] = "new"
  BY DEF CancelInv, LoopInv, CallsOk, PostOk, Drawn
<1> HIDE DEF p
<1>7. /\ GoneIsGone'
      /\ \A e \in Events : \/ timer'[e] = timer[e]
                           \/ p.kind = "repeat" /\ e = p.id /\ timer'[e] = "live"
                           \/ timer[e] = "live" /\ timer'[e] = "byCaller"
  BY <1>1, <1>2, AcceptTimers DEF CancelInv
<1>8. Drawn'
  <2>1. \A e \in Events : e >= nextId' => timer'[e] = "new"
    <3> SUFFICES ASSUME NEW e \in Events, e >= nextId PROVE timer'[e] = "new"
      BY <1>1
    <3>1. timer[e] = "new" /\ e \in Nat /\ nextId \in Nat
      BY BoundsNat DEF CancelInv, Drawn, LoopInv, Typing, Events
    <3>2. p.kind = "repeat" => e # p.id
      BY <1>2, <3>1
    <3> QED
      BY <1>7, <3>1, <3>2
  <2>2. ASSUME NEW d \in Callers, call'[d].kind = "repeat"
        PROVE  call'[d].id < nextId' /\ timer'[call'[d].id] = "new"
    <3>1. d # c /\ call'[d] = call[d]
      BY <1>3, <1>4, <2>2
    <3>2. call[d].id \in Events /\ call[d].id < nextId /\ timer[call[d].id] = "new"
      BY <1>6, <2>2, <3>1
    <3>3. p.kind = "repeat" => call[d].id # p.id
      BY <1>5, <2>2, <3>1
    <3>4. timer'[call[d].id] = "new"
      BY <1>7, <3>2, <3>3
    <3> QED
      BY <1>1, <3>1, <3>2, <3>4
  <2>3. \A d, e \in Callers : call'[d].kind = "repeat" /\ call'[e].kind = "repeat"
                              /\ call'[d].id = call'[e].id => d = e
    BY <1>3, <1>4 DEF CancelInv, Drawn
  <2> QED
    BY <2>1, <2>2, <2>3 DEF Drawn
<1>9. ChosenIsLive'
  <2> SUFFICES ASSUME pc' = "chosen" PROVE timer'[Head(due)] # "byOwner"
    BY <1>1 DEF ChosenIsLive
  <2>1. pc = "chosen"
    BY <1>1, <1>2, AcceptTyped DEF CancelInv, LoopInv
  <2>2. due \in Seq(Events) /\ due # <<>> /\ timer[Head(due)] # "byOwner"
    BY <2>1 DEF CancelInv, LoopInv, Typing, DuePlaces, ChosenIsLive
  <2>3. Head(due) \in Events
    BY <2>2, HeadTailProperties
  <2> QED
    BY <1>7, <2>2, <2>3
<1> QED
  BY <1>7, <1>8, <1>9

(* The owner posts, never between the choice of a callback and its call.   *)
LEMMA OwnerPostCancel == ASSUME FewTimers, CancelInv, OwnerPost
                         PROVE  Drawn' /\ GoneIsGone' /\ ChosenIsLive'
<1>1. PICK p \in Posts(OwnerKinds) : DrawId(p) /\ Accept(p, "byOwner")
  BY DEF OwnerPost
<1>2. call' = call /\ pc # "chosen"
  BY DEF OwnerPost
<1>3. PostOk(p) /\ (p.kind = "repeat" => p.id = nextId /\ p.id \in Events)
  BY PostsAreOk DEF CancelInv, LoopInv, PostOk
<1>4. p.kind = "repeat" => timer[p.id] = "new"
  <2>1. nextId \in Nat
    BY BoundsNat DEF CancelInv, LoopInv, Typing
  <2> QED
    BY <1>3, <2>1 DEF CancelInv, Drawn
<1>5. p.kind = "cancel" => \E e \in Events : p.handle = Handle(e)
  BY PostTimers
<1>6. /\ GoneIsGone'
      /\ \A e \in Events : \/ timer'[e] = timer[e]
                           \/ p.kind = "repeat" /\ e = p.id /\ timer'[e] = "live"
                           \/ timer[e] = "live" /\ timer'[e] = "byOwner"
  BY <1>1, <1>3, <1>4, <1>5, AcceptTimers DEF CancelInv
<1>7. nextId \in Nat /\ nextId' \in Nat /\ nextId <= nextId'
      /\ (p.kind = "repeat" => nextId' = nextId + 1)
  BY <1>1, BoundsNat DEF DrawId, CancelInv, LoopInv, Typing
<1>8. \A d \in Callers : call[d].kind = "repeat" => call[d].id \in Events /\ call[d].id < nextId
                                                  /\ timer[call[d].id] = "new"
  BY DEF CancelInv, LoopInv, CallsOk, PostOk, Drawn
<1>9. Drawn'
  <2>1. \A e \in Events : e >= nextId' => timer'[e] = "new"
    <3> SUFFICES ASSUME NEW e \in Events, e >= nextId' PROVE timer'[e] = "new"
      OBVIOUS
    <3>1. e \in Nat /\ e >= nextId /\ (p.kind = "repeat" => e # p.id)
      BY <1>3, <1>7 DEF Events
    <3>2. timer[e] = "new"
      BY <3>1 DEF CancelInv, Drawn
    <3> QED
      BY <1>6, <3>1, <3>2
  <2>2. ASSUME NEW d \in Callers, call'[d].kind = "repeat"
        PROVE  call'[d].id < nextId' /\ timer'[call'[d].id] = "new"
    <3>1. call[d].id \in Events /\ call[d].id < nextId /\ timer[call[d].id] = "new"
      BY <1>2, <1>8, <2>2
    <3>2. call[d].id < nextId' /\ (p.kind = "repeat" => call[d].id # p.id)
      BY <1>3, <1>7, <3>1 DEF Events
    <3>3. timer'[call[d].id] = "new"
      BY <1>6, <3>1, <3>2
    <3> QED
      BY <1>2, <3>2, <3>3
  <2>3. \A d, e \in Callers : call'[d].kind = "repeat" /\ call'[e].kind = "repeat"
                              /\ call'[d].id = call'[e].id => d = e
    BY <1>2 DEF CancelInv, Drawn
  <2> QED
    BY <2>1, <2>2, <2>3 DEF Drawn
<1>10. pc' # "chosen"
  BY <1>1, <1>2, <1>3, AcceptTyped DEF CancelInv, LoopInv
<1> QED
  BY <1>6, <1>9, <1>10 DEF ChosenIsLive

(* The owner chooses a timer that is registered, and calls it with no post *)
(* of its own in between.                                                  *)
LEMMA PumpCancel == ASSUME CancelInv, Pump
                    PROVE  Drawn' /\ GoneIsGone' /\ ChosenIsLive'
<1> USE DEF Goto
<1>1. UNCHANGED <<nextId, call, timer>>
  BY DEF Pump, EnterLoop, Advance, StillRegistered, StartRegular, EndRegular, Drain,
         StartShot, EndShot, Decide, Wait, TimeOut, Leave, others, state, locals
<1>2. Drawn'
  BY <1>1 DEF CancelInv, Drawn
<1>3. CASE Advance
  <2>1. regular' = SortByNext(Moved(regular, DueCount)) /\ pc' = "due"
    BY <1>3 DEF Advance, Moved
  <2>2. regular \in Seq(Timers)
    BY TimersTyped DEF CancelInv, LoopInv
  <2>3. \A k \in DOMAIN regular' : \E i \in DOMAIN regular : regular'[k].id = regular[i].id
    BY <2>1, <2>2, MovedTimers
  <2>4. GoneIsGone'
    BY <1>1, <2>3 DEF CancelInv, GoneIsGone, Registered
  <2> QED
    BY <1>2, <2>1, <2>4 DEF ChosenIsLive
<1>4. CASE ~Advance
  <2>1. regular' = regular
    BY <1>4 DEF Pump, EnterLoop, StillRegistered, StartRegular, EndRegular, Drain,
         StartShot, EndShot, Decide, Wait, TimeOut, Leave, others, state, locals
  <2>2. GoneIsGone'
    BY <1>1, <2>1 DEF CancelInv, GoneIsGone, Registered
  <2>3. CASE StillRegistered
    <3>1. CASE pc' = "chosen"
      <4>1. due' = due /\ due # <<>> /\ Registered(Head(due))
        BY <2>3, <3>1 DEF StillRegistered
      <4>2. due \in Seq(Events)
        BY DEF CancelInv, LoopInv, Typing
      <4>3. Head(due) \in Events
        BY <4>1, <4>2, HeadTailProperties
      <4>4. timer[Head(due)] # "byOwner"
        BY <4>1, <4>3 DEF CancelInv, GoneIsGone
      <4> QED
        BY <1>1, <1>2, <2>2, <4>1, <4>4 DEF ChosenIsLive
    <3>2. CASE pc' # "chosen"
      BY <1>2, <2>2, <3>2 DEF ChosenIsLive
    <3> QED
      BY <3>1, <3>2
  <2>4. CASE ~StillRegistered
    <3>1. pc' # "chosen"
      <4>1. CASE Decide
        <5>1. pc' \in {"advance", "wait", "leaving"}
          BY <4>1 DEF Decide
        <5> QED
          BY <5>1
      <4>2. CASE ~Decide
        BY <1>4, <2>4, <4>2 DEF Pump, EnterLoop, StartRegular, EndRegular, Drain,
           StartShot, EndShot, Wait, TimeOut, Leave
      <4> QED
        BY <4>1, <4>2
    <3> QED
      BY <1>2, <2>2, <3>1 DEF ChosenIsLive
  <2> QED
    BY <2>3, <2>4
<1> QED
  BY <1>3, <1>4

(* Every step keeps the invariant of cancellation.                         *)
LEMMA CancelStep == FewTimers /\ CancelInv /\ [Next]_vars => CancelInv'
<1> SUFFICES ASSUME FewTimers, CancelInv, [Next]_vars PROVE CancelInv'
  OBVIOUS
<1>1. LoopInv'
  BY LoopStep DEF CancelInv
<1>2. CASE Throw \/ Tick \/ UNCHANGED vars
  <2>1. UNCHANGED <<nextId, call, timer, regular>>
    BY <1>2 DEF Throw, Tick, vars, others, state, locals
  <2>2. pc' = "leaving" \/ UNCHANGED <<pc, due>>
    BY <1>2 DEF Throw, Tick, vars, Goto, locals
  <2> QED
    BY <1>1, <2>1, <2>2 DEF CancelInv, Drawn, GoneIsGone, ChosenIsLive, Registered
<1>3. CASE Pump
  BY <1>1, <1>3, PumpCancel DEF CancelInv
<1>4. CASE OwnerPost
  BY <1>1, <1>4, OwnerPostCancel DEF CancelInv
<1>5. ASSUME NEW c \in Callers, Lookup(c) \/ Deliver(c)
      PROVE  CancelInv'
  BY <1>1, <1>5, LookupCancel, DeliverCancel DEF CancelInv
<1> QED
  BY <1>2, <1>3, <1>4, <1>5 DEF Next

(* It holds when the loop begins.                                          *)
LEMMA CancelInit == Init => CancelInv
<1> SUFFICES ASSUME Init PROVE CancelInv
  OBVIOUS
<1>1. LoopInv
  BY LoopInit
<1> QED
  BY <1>1 DEF Init, CancelInv, Drawn, GoneIsGone, ChosenIsLive, NoCall

(* While a process has made fewer than 2^31 repeats, whose handles are     *)
(* positive, a timer that its own thread cancels is not called afterwards: *)
(* it leaves the list in the same critical section, it cannot come back    *)
(* under its id, and between the look at the list and the call the owner   *)
(* posts nothing.                                                          *)
THEOREM OwnCancelIsFinal == FewTimers => (Spec => CancelIsFinal)
<1> SUFFICES ASSUME FewTimers PROVE Spec => CancelIsFinal
  OBVIOUS
<1>1. CancelInv /\ [Next]_vars => CancelInv'
  BY CancelStep
<1>2. CancelInv => [pc = "chosen" /\ pc' = "inRegular" => timer[Head(due)] # "byOwner"]_vars
  BY DEF CancelInv, ChosenIsLive
<1> QED
  BY <1>1, <1>2, CancelInit, PTL DEF Spec, CancelIsFinal
-----------------------------------------------------------------------------
(* The end of the loop and the promises.                                   *)

\* A pass that has taken callbacks knows that it did something.
RanInv == LoopInv /\ (pc = "inShot" \/ shots # <<>> => seen.ran)

(* What a pass knows survives the posts: they touch neither its locals nor  *)
(* where it is, unless it sleeps.                                          *)
LEMMA PostKeepsPlace ==
  ASSUME NEW p, NEW who, Accept(p, who)
  PROVE  pc' = pc \/ (pc = "parked" /\ pc' = "advance")
BY DEF Accept, Promise, Run, RunPromised, Repeat, Cancel, Notify

(* A step is of the owner's pass, or changes neither what the pass knows nor *)
(* where it is, but for the end of a sleep; or it is a throw.                *)
LEMMA OtherSteps ==
  ASSUME [Next]_vars
  PROVE  \/ Pump \/ Throw
         \/ /\ UNCHANGED <<registered, seen, shots>>
            /\ pc' = pc \/ (pc = "parked" /\ pc' = "advance")
<1>1. CASE Tick \/ UNCHANGED vars
  BY <1>1 DEF Tick, vars, locals
<1>2. CASE OwnerPost
  BY <1>2, PostKeepsPlace DEF OwnerPost, locals
<1>3. ASSUME NEW c \in Callers, Lookup(c) \/ Deliver(c)
      PROVE  /\ UNCHANGED <<registered, seen, shots>>
             /\ pc' = pc \/ (pc = "parked" /\ pc' = "advance")
  BY <1>3, PostKeepsPlace DEF Lookup, Deliver, locals
<1> QED
  BY <1>1, <1>2, <1>3 DEF Next

LEMMA RanStep == RanInv /\ [Next]_vars => RanInv'
<1> SUFFICES ASSUME RanInv, [Next]_vars, pc' = "inShot" \/ shots' # <<>>
             PROVE  seen'.ran
  BY LoopStep DEF RanInv
<1> USE DEF Goto
<1>1. /\ pc \notin {"shots", "inShot"} => shots = <<>>
      /\ pc = "inShot" => shots # <<>>
      /\ pc = "inShot" \/ shots # <<>> => seen.ran
  BY DEF RanInv, LoopInv, ShotInv, QueuesOk
<1>2. CASE UNCHANGED <<seen, shots>> /\ pc' # "inShot"
  BY <1>1, <1>2
<1>3. CASE Advance \/ Decide
  BY <1>1, <1>3 DEF Advance, Decide, others
<1>4. CASE Drain
  BY <1>4 DEF Drain
<1>5. CASE StartShot \/ EndShot
  BY <1>1, <1>5 DEF StartShot, EndShot, locals
<1>6. CASE Throw
  BY <1>6 DEF Throw
<1>7. CASE EnterLoop \/ StillRegistered \/ StartRegular \/ EndRegular \/ Wait \/ TimeOut \/ Leave
  BY <1>2, <1>7 DEF EnterLoop, StillRegistered, StartRegular, EndRegular, Wait, TimeOut,
     Leave, locals
<1>8. CASE /\ UNCHANGED <<registered, seen, shots>>
           /\ pc' = pc \/ (pc = "parked" /\ pc' = "advance")
  BY <1>1, <1>8
<1> QED
  BY <1>3, <1>4, <1>5, <1>6, <1>7, <1>8, OtherSteps DEF Pump

(* While a promise is outstanding, no step decides the end of the loop: the  *)
(* pass that reads the counters sees the promise, and one that took a        *)
(* callback comes back anyway.                                             *)
LEMMA PromiseStep ==
  ASSUME RanInv, ~MayThrow, [Next]_vars, promised > 0, Staying
  PROVE  Staying'
<1> USE DEF Goto
<1>1. /\ pc = "inShot" \/ shots # <<>> => seen.ran
      /\ seen \in [ran : BOOLEAN, nextAt : Nat \cup {Forever}, promised : Nat]
      /\ promised \in Nat /\ seen.promised \in Nat
  BY BoundsNat DEF RanInv, LoopInv, Typing
<1>2. ~Ending /\ (pc = "job" => registered = "spawned")
  BY DEF Staying
<1>3. pc \notin {"leaving", "gone"}
  BY <1>2 DEF Ending
<1>4. CASE pc' \in {"advance", "due", "chosen", "inRegular", "inShot", "wait", "parked"}
  BY <1>4 DEF Staying, Ending
<1>5. CASE EnterLoop \/ Advance \/ StillRegistered \/ StartRegular \/ EndRegular
           \/ StartShot \/ Wait \/ TimeOut
  BY <1>4, <1>5 DEF EnterLoop, Advance, StillRegistered, StartRegular, EndRegular,
     StartShot, Wait, TimeOut
<1>6. CASE Drain
  <2>1. pc' = "shots" /\ seen'.promised # 0
    BY <1>1, <1>6 DEF Drain
  <2> QED
    BY <2>1 DEF Staying, Ending
<1>7. CASE EndShot
  <2>1. pc' = "shots" /\ seen'.ran
    BY <1>1, <1>7 DEF EndShot
  <2> QED
    BY <2>1 DEF Staying, Ending
<1>8. CASE Decide
  <2>1. seen.ran \/ seen.nextAt # Forever \/ seen.promised > 0
    BY <1>1, <1>2, <1>8 DEF Decide, Ending
  <2>2. pc' \in {"advance", "wait"}
    BY <2>1, <1>8 DEF Decide
  <2> QED
    BY <1>4, <2>2
<1>9. CASE Leave
  BY <1>3, <1>9 DEF Leave
<1>10. CASE /\ UNCHANGED <<registered, seen, shots>>
            /\ pc' = pc \/ (pc = "parked" /\ pc' = "advance")
  BY <1>2, <1>4, <1>10 DEF Staying, Ending
<1> QED
  BY <1>5, <1>6, <1>7, <1>8, <1>9, <1>10, OtherSteps DEF Pump, Throw

(* While no callback throws, for any callers and posts, a loop with an       *)
(* outstanding promise does not decide to end.  (A promise accepted after    *)
(* the decision is accepted in vain.)                                      *)
THEOREM PromisesHold == ~MayThrow => (Spec => PromiseHolds)
<1> SUFFICES ASSUME ~MayThrow PROVE Spec => PromiseHolds
  OBVIOUS
<1>1. Init => RanInv
  BY LoopInit DEF Init, RanInv
<1>2. RanInv /\ [Next]_vars => RanInv'
  BY RanStep
<1>3. RanInv /\ [Next]_vars => [promised > 0 /\ Staying => Staying']_vars
  BY PromiseStep
<1> QED
  BY <1>1, <1>2, <1>3, PTL DEF Spec, PromiseHolds
=============================================================================
