----------------------------- MODULE EventLoop -----------------------------
(***************************************************************************)
(* The per-thread event loop of hxrt::thread behind sys.thread.EventLoop:   *)
(* one-shot callbacks, promises and repeating timers under one parking_lot   *)
(* mutex, a condition variable on which the loop sleeps, and the owner's     *)
(* loop, which pumps the state in passes and calls callbacks with the mutex  *)
(* released.  Other threads post to the loop at any time.                   *)
(*                                                                         *)
(* A critical section is one step.  A post of another thread is two: it     *)
(* finds the loop in the thread registry, and locks the state later.  The    *)
(* body of a callback is any sequence of posts to its own loop, which ends    *)
(* normally or with a throw.  Time counts milliseconds.                     *)
(***************************************************************************)
EXTENDS Integers, Sequences, SequencesExt

CONSTANTS Callers,     \* threads other than the owner that post to the loop
          Tasks,       \* one-shot callbacks, each posted at most once
          CallerKinds, \* the kinds of posts the callers make
          OwnerKinds,  \* the kinds the owner makes, in its job and in callbacks
          MayThrow,    \* whether the job and callbacks may throw
          Owners,      \* whose loop it is, of Registrations
          Intervals,   \* arguments of repeat
          MaxTime,     \* bound: time stops here
          MaxEvents,   \* bound: calls to repeat
          MaxPromised, \* the largest promise count, u32::MAX in the code
          HandleSpan   \* the number of distinct handles, 2^32 in the code

Kinds == {"promise", "run", "runPromised", "repeat", "cancel"}

\* A thread made by createWithEventLoop, or else the main thread.
Registrations == {"spawned", "main"}

ASSUME KindsKnown == CallerKinds \subseteq Kinds /\ OwnerKinds \subseteq Kinds
ASSUME FlagsKnown == MayThrow \in BOOLEAN /\ Owners \subseteq Registrations
ASSUME BoundsNat == /\ Intervals \subseteq Nat
                    /\ MaxTime \in Nat /\ MaxEvents \in Nat
                    /\ MaxPromised \in Nat /\ HandleSpan \in Nat \ {0, 1}

VARIABLES registered, \* the owner's id is in THREADS, as what; or it is "gone"
          oneTime,    \* EventLoopState.one_time
          promised,   \* EventLoopState.promised
          regular,    \* EventLoopState.regular
          nextId,     \* NEXT_EVENT_ID
          now,        \* the clock
          pc,         \* where the owner is
          due,        \* regular_to_run, what is left of it
          shots,      \* one_time_to_run, what is left of it
          seen,       \* what progress will return from: its locals
          deadline,   \* the timeout of the wait to come, then its end
          call,       \* the post each caller is in, after its lookup
          fate,       \* what became of each task
          timer       \* what became of each timer, and who timer it

state == <<oneTime, promised, regular>>
locals == <<due, shots, seen, deadline>>
vars == <<registered, oneTime, promised, regular, nextId, now, pc, due, shots,
          seen, deadline, call, fate, timer>>

Events == 1 .. MaxEvents
Forever == -1
NoCall == [kind |-> "none"]
Nothing == [ran |-> FALSE, nextAt |-> Forever, promised |-> 0]

Init == /\ registered \in Owners
        /\ oneTime = <<>> /\ promised = 0 /\ regular = <<>>
        /\ nextId = 1 /\ now = 0
        /\ pc = "job"
        /\ due = <<>> /\ shots = <<>> /\ seen = Nothing /\ deadline = Forever
        /\ call = [c \in Callers |-> NoCall]
        /\ fate = [k \in Tasks |-> "new"]
        /\ timer = [e \in Events |-> "new"]

Places == {"job", "advance", "due", "chosen", "inRegular", "shots", "inShot",
           "wait", "parked", "leaving", "gone"}

Typing == /\ registered \in Owners \cup {"gone"}
          /\ oneTime \in Seq(Tasks) /\ promised \in 0 .. MaxPromised
          /\ regular \in Seq([id : Events, next : Nat, every : Nat])
          /\ nextId \in 1 .. MaxEvents + 1 /\ now \in 0 .. MaxTime
          /\ pc \in Places
          /\ due \in Seq(Events) /\ shots \in Seq(Tasks)
          /\ seen \in [ran : BOOLEAN, nextAt : Nat \cup {Forever}, promised : Nat]
          /\ deadline \in Nat \cup {Forever}
          /\ fate \in [Tasks -> {"new", "called", "queued", "promised", "ran", "rejected"}]
          /\ timer \in [Events -> {"new", "live", "byOwner", "byCaller"}]

\* A list is read at its head only while it has one.
HeadsThere == /\ pc \in {"chosen", "inRegular"} => due # <<>>
              /\ pc = "inShot" => shots # <<>>

TypeOK == Typing /\ HeadsThere

-----------------------------------------------------------------------------
(* Operations on the timers, the list EventLoopState.regular.              *)

\* Before the first timer that is later than e.
Insert(timers, e) ==
  LET later == SelectInSeq(timers, LAMBDA x : e.next < x.next)
  IN  InsertAt(timers, IF later = 0 THEN Len(timers) + 1 ELSE later, e)

\* Those at some positions, in an order of the positions: its pairs.
Listed(timers, positions, before) ==
  LET place(i) == 1 + Cardinality({j \in positions : <<j, i>> \in before})
  IN  [k \in 1 .. Cardinality(positions) |-> timers[CHOOSE i \in positions : place(i) = k]]
Pairs(timers) == (DOMAIN timers) \X (DOMAIN timers)

\* Vec::sort_by on next_run: stable.
SortByNext(timers) ==
  LET Sooner(i, j) == \/ timers[i].next < timers[j].next
                      \/ timers[i].next = timers[j].next /\ i < j
  IN  Listed(timers, DOMAIN timers, {p \in Pairs(timers) : Sooner(p[1], p[2])})

\* Vec::retain: all but those of an id, in the order they have.
Without(timers, id) ==
  Listed(timers, {i \in DOMAIN timers : timers[i].id # id},
         {p \in Pairs(timers) : p[1] < p[2]})

\* How many timers at the head of the list have their time come.
DueCount == LET future == SelectInSeq(regular, LAMBDA x : x.next > now)
            IN  IF future = 0 THEN Len(regular) ELSE future - 1

Registered(e) == \E i \in DOMAIN regular : regular[i].id = e

\* A u64 id handed out as an i32, and an i32 handle taken as a u64: a negative
\* one is extended to a number near 2^64, the id of no event.
Handle(id) == LET r == id % HandleSpan
              IN  IF r < HandleSpan \div 2 THEN r ELSE r - HandleSpan
EventOf(handle) == IF handle >= 0 THEN handle ELSE 0

-----------------------------------------------------------------------------
(* Posts.  A post is a record; Accept is its critical section.             *)

\* The posts a thread may make now; repeat draws its id and reads the clock
\* before it looks for the loop.
Posts(kinds) ==
  LET new == {k \in Tasks : fate[k] = "new"}
  IN  {p \in [kind : {"promise"}] : "promise" \in kinds}
      \cup [kind : kinds \cap {"run", "runPromised"}, task : new]
      \cup [kind : kinds \cap {"repeat"}, id : {nextId} \cap Events,
            every : {IF i > 1 THEN i ELSE 1 : i \in Intervals}, from : {now}]
      \cup [kind : kinds \cap {"cancel"}, handle : {Handle(e) : e \in {x \in Events : timer[x] # "new"}}]

DrawId(p) == nextId' = IF p.kind = "repeat" THEN nextId + 1 ELSE nextId

Fate(p, f) == fate' = IF p.kind \in {"run", "runPromised"}
                      THEN [fate EXCEPT ![p.task] = f] ELSE fate

\* events_cv.notify_one: only the owner sleeps there.
Notify == pc' = IF pc = "parked" THEN "advance" ELSE pc

Promise(p) == /\ p.kind = "promise"
              /\ promised' = IF promised < MaxPromised THEN promised + 1 ELSE promised
              /\ UNCHANGED <<oneTime, regular, pc, fate, timer>>

\* Mutated: a one-shot callback is queued without a word to the loop.
RunSilently(p) == /\ p.kind = "run"
                  /\ oneTime' = Append(oneTime, p.task)
                  /\ Fate(p, "queued")
                  /\ UNCHANGED <<promised, regular, pc, timer>>

Run(p) == /\ p.kind = "run"
          /\ oneTime' = Append(oneTime, p.task)
          /\ Fate(p, "queued")
          /\ Notify
          /\ UNCHANGED <<promised, regular, timer>>

\* Mutated: nobody asks for an outstanding promise.
RunPromisedUnchecked(p) == /\ p.kind = "runPromised"
                           /\ promised' = promised - 1
                           /\ oneTime' = Append(oneTime, p.task)
                           /\ Fate(p, "promised")
                           /\ Notify
                           /\ UNCHANGED <<regular, timer>>

\* Without an outstanding promise runPromised throws and queues nothing.
RunPromised(p) == /\ p.kind = "runPromised"
                  /\ \/ /\ promised > 0
                        /\ promised' = promised - 1
                        /\ oneTime' = Append(oneTime, p.task)
                        /\ Fate(p, "promised")
                        /\ Notify
                     \/ /\ promised = 0
                        /\ Fate(p, "rejected")
                        /\ UNCHANGED <<oneTime, promised, pc>>
                  /\ UNCHANGED <<regular, timer>>

Repeat(p) == /\ p.kind = "repeat"
             /\ regular' = Insert(regular, [id |-> p.id, every |-> p.every,
                                            next |-> p.from + p.every])
             /\ timer' = [timer EXCEPT ![p.id] = "live"]
             /\ Notify
             /\ UNCHANGED <<oneTime, promised, fate>>

\* Mutated: a cancellation does not wake the loop.
CancelSilently(p, who) ==
  /\ p.kind = "cancel"
  /\ regular' = Without(regular, EventOf(p.handle))
  /\ UNCHANGED <<oneTime, promised, pc, fate, timer>>

Cancel(p, who) ==
  LET id == EventOf(p.handle)
  IN  /\ p.kind = "cancel"
      /\ regular' = Without(regular, id)
      /\ timer' = [e \in Events |-> IF Handle(e) = p.handle /\ timer[e] = "live"
                                    THEN who ELSE timer[e]]
      /\ Notify
      /\ UNCHANGED <<oneTime, promised, fate>>

Accept(p, who) == \/ Promise(p) \/ Run(p) \/ RunPromised(p)
                  \/ Repeat(p) \/ Cancel(p, who)

\* A caller finds the loop, and later locks its state, which it keeps alive.
\* A caller that does not find it throws.
Lookup(c) == /\ call[c] = NoCall
             /\ \E p \in Posts(CallerKinds) :
                  /\ DrawId(p)
                  /\ call' = [call EXCEPT ![c] = IF registered # "gone" THEN p ELSE NoCall]
                  /\ Fate(p, IF registered # "gone" THEN "called" ELSE "rejected")
             /\ UNCHANGED <<registered, state, now, pc, locals, timer>>

Deliver(c) == /\ call[c] # NoCall
              /\ Accept(call[c], "byCaller")
              /\ call' = [call EXCEPT ![c] = NoCall]
              /\ UNCHANGED <<registered, nextId, now, locals>>

\* The owner posts to its own loop, from its job or from a callback.
OwnerPost == /\ pc \in {"job", "inRegular", "inShot"}
             /\ \E p \in Posts(OwnerKinds) : DrawId(p) /\ Accept(p, "byOwner")
             /\ UNCHANGED <<registered, now, locals, call>>

-----------------------------------------------------------------------------
(* The owner's loop.                                                       *)

Goto(place) == pc' = place

others == <<registered, promised, nextId, now, call, timer>>

EnterLoop == /\ pc = "job"
             /\ Goto("advance")
             /\ UNCHANGED <<others, oneTime, regular, locals, fate>>

\* progress, first lock: every timer that is due moves on by one interval before
\* any callback runs.
Advance ==
  /\ pc = "advance"
  /\ due' = [i \in 1 .. DueCount |-> regular[i].id]
  /\ regular' = SortByNext([i \in DOMAIN regular |->
                   IF i <= DueCount THEN [regular[i] EXCEPT !.next = @ + regular[i].every]
                   ELSE regular[i]])
  /\ seen' = [seen EXCEPT !.ran = DueCount > 0]
  /\ Goto("due")
  /\ deadline' = Forever
  /\ UNCHANGED <<others, oneTime, shots, fate>>

\* Mutated: whoever was due at the start of the pass is called.
StillRegisteredAlways ==
  /\ pc = "due" /\ due # <<>>
  /\ Goto("chosen")
  /\ UNCHANGED <<others, oneTime, regular, locals, fate>>

\* progress, second lock, once per due timer: is it still registered?
StillRegistered ==
  /\ pc = "due" /\ due # <<>>
  /\ \/ /\ Registered(Head(due))
        /\ Goto("chosen")
        /\ UNCHANGED due
     \/ /\ ~Registered(Head(due))
        /\ due' = Tail(due)
        /\ UNCHANGED pc
  /\ UNCHANGED <<others, oneTime, regular, shots, seen, deadline, fate>>

\* The callback is called with the state unlocked.
StartRegular == /\ pc = "chosen"
                /\ Goto("inRegular")
                /\ UNCHANGED <<others, oneTime, regular, locals, fate>>

EndRegular == /\ pc = "inRegular"
              /\ due' = Tail(due)
              /\ Goto("due")
              /\ UNCHANGED <<others, oneTime, regular, shots, seen, deadline, fate>>

\* Mutated: the queue keeps what was taken from it.
DrainCopy == /\ pc = "due" /\ due = <<>>
             /\ shots' = oneTime
             /\ seen' = [ran |-> seen.ran \/ oneTime # <<>>,
                         nextAt |-> IF regular = <<>> THEN Forever ELSE regular[1].next,
                         promised |-> promised]
             /\ Goto("shots")
             /\ UNCHANGED <<others, oneTime, regular, due, deadline, fate>>

\* Mutated: the queue is emptied for the sake of its first callback.
DrainOne == /\ pc = "due" /\ due = <<>>
            /\ shots' = IF oneTime = <<>> THEN <<>> ELSE <<Head(oneTime)>>
            /\ oneTime' = <<>>
            /\ seen' = [ran |-> seen.ran \/ oneTime # <<>>,
                        nextAt |-> IF regular = <<>> THEN Forever ELSE regular[1].next,
                        promised |-> promised]
            /\ Goto("shots")
            /\ UNCHANGED <<others, regular, due, deadline, fate>>

\* progress, third lock: all one-shot callbacks are taken, and what the call
\* will return is read.
Drain == /\ pc = "due" /\ due = <<>>
         /\ shots' = oneTime
         /\ oneTime' = <<>>
         /\ seen' = [ran |-> seen.ran \/ oneTime # <<>>,
                     nextAt |-> IF regular = <<>> THEN Forever ELSE regular[1].next,
                     promised |-> promised]
         /\ Goto("shots")
         /\ UNCHANGED <<others, regular, due, deadline, fate>>

StartShot == /\ pc = "shots" /\ shots # <<>>
             /\ fate' = [fate EXCEPT ![Head(shots)] = "ran"]
             /\ Goto("inShot")
             /\ UNCHANGED <<others, oneTime, regular, locals>>

EndShot == /\ pc = "inShot"
           /\ shots' = Tail(shots)
           /\ Goto("shots")
           /\ UNCHANGED <<others, oneTime, regular, due, seen, deadline, fate>>

\* progress returns; the loop goes on, ends, or computes how long to wait.
Decide ==
  /\ pc = "shots" /\ shots = <<>>
  /\ LET again == seen.ran
         timed == ~seen.ran /\ seen.nextAt # Forever
         owed  == ~seen.ran /\ seen.nextAt = Forever /\ seen.promised > 0
     IN  /\ pc' = CASE again -> "advance" [] timed \/ owed -> "wait" [] OTHER -> "leaving"
         /\ deadline' = CASE timed /\ seen.nextAt > now -> seen.nextAt - now
                          [] timed /\ seen.nextAt <= now -> 0
                          [] OTHER -> Forever
  /\ seen' = Nothing
  /\ UNCHANGED <<others, oneTime, regular, due, shots, fate>>

\* Mutated: the loop sleeps without a timeout even when it has timers.
WaitForever ==
  LET pending == oneTime # <<>> \/ regular # <<>> \/ promised > 0
      ready   == oneTime # <<>> \/ (regular # <<>> /\ regular[1].next <= now)
  IN  /\ pc = "wait"
      /\ Goto(IF ~pending \/ ready THEN "advance" ELSE "parked")
      /\ deadline' = Forever
      /\ UNCHANGED <<others, oneTime, regular, due, shots, seen, fate>>

\* wait, under the lock: nothing to wait for, or something ready, and it
\* returns; else it sleeps for the time the loop computed.
Wait ==
  LET pending == oneTime # <<>> \/ regular # <<>> \/ promised > 0
      ready   == oneTime # <<>> \/ (regular # <<>> /\ regular[1].next <= now)
  IN  /\ pc = "wait"
      /\ \/ /\ ~pending \/ ready
            /\ Goto("advance")
            /\ deadline' = Forever
         \/ /\ pending /\ ~ready
            /\ Goto("parked")
            /\ deadline' = IF deadline = Forever THEN Forever ELSE now + deadline
      /\ UNCHANGED <<others, oneTime, regular, due, shots, seen, fate>>

TimeOut == /\ pc = "parked"
           /\ deadline # Forever /\ now >= deadline
           /\ Goto("advance")
           /\ UNCHANGED <<others, oneTime, regular, locals, fate>>

\* A throw in a callback leaves progress and the loop; what was taken from the
\* queue and not run yet is gone.  A throw in the job never reaches the loop.
Throw == /\ MayThrow
         /\ pc \in {"job", "inRegular", "inShot"}
         /\ due' = <<>> /\ shots' = <<>> /\ seen' = Nothing
         /\ Goto("leaving")
         /\ UNCHANGED <<others, oneTime, regular, deadline, fate>>

\* The registration of a spawned thread ends with its loop.  The main thread
\* stays registered, and its program may come back to the loop.
Leave == /\ pc = "leaving"
         /\ \/ registered = "main" /\ Goto("job") /\ UNCHANGED registered
            \/ registered = "spawned" /\ Goto("gone") /\ registered' = "gone"
         /\ UNCHANGED <<state, nextId, now, locals, call, fate, timer>>

Tick == /\ now < MaxTime
        /\ now' = now + 1
        /\ UNCHANGED <<registered, state, nextId, pc, locals, call, fate, timer>>

Pump == \/ EnterLoop \/ Advance \/ StillRegistered \/ StartRegular \/ EndRegular
        \/ Drain \/ StartShot \/ EndShot \/ Decide \/ Wait \/ TimeOut \/ Leave

Next == \/ Pump \/ OwnerPost \/ Throw \/ Tick
        \/ \E c \in Callers : Lookup(c) \/ Deliver(c)

\* The owner and the callers are scheduled, callbacks and the job of a spawned
\* thread return, the clock runs.  Nobody is obliged to post anything or to keep a
\* promise, nor the main program to enter its loop, or to come back to it.
Fairness == /\ WF_vars(Pump /\ (pc = "job" => registered = "spawned"))
            /\ WF_vars(Tick)
            /\ \A c \in Callers : WF_vars(Deliver(c))

Spec == Init /\ [][Next]_vars /\ Fairness

-----------------------------------------------------------------------------
\* One-shot callbacks that were accepted and not called yet, in order.
ToCome == (IF pc = "inShot" THEN Tail(shots) ELSE shots) \o oneTime

Accepted(k) == fate[k] \in {"queued", "promised"}

(* The loop never sleeps on ready work, nor with nothing left to wait for: a  *)
(* post that changes either wakes it, whatever was posted between its last    *)
(* look at the state and its sleep.                                          *)
NoDeadSleep == pc = "parked" => oneTime = <<>> /\ (regular # <<>> \/ promised > 0)

(* A one-shot callback is called at most once: it is in one place of one      *)
(* queue until its turn, through draining, throwing and re-entering the loop. *)
OnceOnly == IsInjective(ToCome) /\ \A k \in ToSet(ToCome) : Accepted(k)

(* Unless a callback throws, a one-shot callback that was accepted stays      *)
(* queued until it is called.                                                *)
NothingLost == \A k \in Tasks : Accepted(k) => k \in ToSet(ToCome)

(* A callback that its own thread cancelled, in the pass that was to call it  *)
(* or before, is not started afterwards.  (A cancel of another thread may     *)
(* come between the check of the registration and the call.)                 *)
CancelIsFinal ==
  [][pc = "chosen" /\ pc' = "inRegular" => timer[Head(due)] # "byOwner"]_vars

\* The end of the loop is decided: progress has read its counters and found
\* nothing to come back for, although the state still accepts posts.
Ending == \/ pc \in {"leaving", "gone"}
          \/ /\ pc = "shots"
             /\ ~seen.ran /\ seen.nextAt = Forever /\ seen.promised = 0

\* The loop is running or certain to run, and its end is not decided.
Staying == ~Ending /\ (pc = "job" => registered = "spawned")

(* Unless a callback throws, no loop decides to end while a promise is         *)
(* outstanding.                                                              *)
PromiseHolds == [][promised > 0 /\ Staying => Staying']_vars

(* Unless a callback throws, a promise keeps the loop from deciding to end,    *)
(* and a one-shot callback, promised or plain, that is accepted before that    *)
(* decision is called in the end.  One accepted after it is stranded in the    *)
(* state of a spawned thread, and so is one that was promised after it: the    *)
(* registration that still accepts the promise is about to go.                *)
AcceptedRuns == /\ PromiseHolds
                /\ \A k \in Tasks : Accepted(k) /\ Staying ~> fate[k] = "ran"

(* A live timer of a loop that has not decided to end is called again before   *)
(* long, or cancelled.  The loop may read the clock early and start its sleep  *)
(* late, so that it sleeps up to twice the time: the property speaks of timers *)
(* the model's clock leaves room for.                                        *)
TimerFires ==
  \A e \in Events :
    (Staying /\ \E i \in DOMAIN regular : regular[i].id = e /\ 2 * regular[i].next <= MaxTime)
      ~> (timer[e] # "live" \/ (pc = "inRegular" /\ Head(due) = e))
=============================================================================
