---------------------------- MODULE CountingLock ----------------------------
(***************************************************************************)
(* hxrt::thread::LockHandle and SemaphoreHandle, the two counting           *)
(* primitives behind sys.thread.Lock and sys.thread.Semaphore.              *)
(*                                                                         *)
(* Both keep a count under a parking_lot mutex and put callers to sleep on  *)
(* one condition variable.  A critical section is one step; the condition   *)
(* variable is the set of parked threads.  notify_one moves one of them out *)
(* of that set, a timeout moves a timed one out, and either way the thread  *)
(* acts again only in a later step, when it has the mutex back.             *)
(***************************************************************************)
EXTENDS OsThreads, Integers, FiniteSets

CONSTANTS Value,    \* the argument of semaphore_new
          MaxCount  \* bound: the count is an i32, the model stops here

ASSUME ThreadsFinite == IsFiniteSet(Threads)
ASSUME ValueInt == Value \in Int
ASSUME MaxCountNat == MaxCount \in Nat

VARIABLES lockKind,   \* which handle it is, for good: "lock" or "semaphore"
          lockCount,  \* the handle's count
          lockPc,     \* where each thread is in its call
          lockTimed,  \* whether the call it is in has a finite timeout
          lockRet     \* what its last call returned

countVars == <<lockKind, lockCount, lockPc, lockTimed, lockRet>>

\* lock_new starts at i32::default(), semaphore_new at value.max(0).
InitialCount(k) == IF k = "semaphore" /\ Value > 0 THEN Value ELSE 0

CountInit == /\ lockKind \in {"lock", "semaphore"}
             /\ lockCount = InitialCount(lockKind)
             /\ lockPc = [t \in Threads |-> "idle"]
             /\ lockTimed = [t \in Threads |-> FALSE]
             /\ lockRet = [t \in Threads |-> "none"]

CountTypeOK == /\ lockKind \in {"lock", "semaphore"}
               /\ lockCount \in Nat
               /\ lockPc \in [Threads -> {"idle", "parked", "notified", "expired"}]
               /\ lockTimed \in [Threads -> BOOLEAN]
               /\ lockRet \in [Threads -> {"none", "taken", "timedOut"}]

CountParked == {t \in Threads : lockPc[t] = "parked"}
CountNotified == {t \in Threads : lockPc[t] = "notified"}

-----------------------------------------------------------------------------
CountReturn(t, r) == /\ lockPc' = [lockPc EXCEPT ![t] = "idle"]
                     /\ lockRet' = [lockRet EXCEPT ![t] = r]

\* Mutated: the count is not looked at again before a token is taken.
TakeUnchecked(t) == /\ lockCount' = lockCount - 1
                    /\ CountReturn(t, "taken")
                    /\ UNCHANGED <<lockKind, lockTimed>>

TakeToken(t) == /\ lockCount > 0
                /\ lockCount' = lockCount - 1
                /\ CountReturn(t, "taken")
                /\ UNCHANGED <<lockKind, lockTimed>>

FailToken(t) == /\ lockCount <= 0
                /\ CountReturn(t, "timedOut")
                /\ UNCHANGED <<lockKind, lockCount, lockTimed>>

ParkForToken(t, isTimed) == /\ lockCount <= 0
                            /\ lockPc' = [lockPc EXCEPT ![t] = "parked"]
                            /\ lockTimed' = [lockTimed EXCEPT ![t] = isTimed]
                            /\ UNCHANGED <<lockKind, lockCount, lockRet>>

\* Lock.wait(timeout): no timeout and a negative one both block for good.
LockWait(t) == /\ lockKind = "lock"
               /\ lockPc[t] = "idle"
               /\ \/ TakeToken(t)
                  \/ ParkForToken(t, FALSE)
                  \/ ParkForToken(t, TRUE)

SemAcquire(t) == /\ lockKind = "semaphore"
                 /\ lockPc[t] = "idle"
                 /\ \/ TakeToken(t)
                    \/ ParkForToken(t, FALSE)

\* Semaphore.tryAcquire(timeout): without a timeout, or with a negative one, it
\* never blocks.
SemTryAcquire(t) == /\ lockKind = "semaphore"
                    /\ lockPc[t] = "idle"
                    /\ \/ TakeToken(t)
                       \/ FailToken(t)
                       \/ ParkForToken(t, TRUE)

\* The timeout of a parked thread fires before anybody notifies it.
ExpireWait(t) == /\ lockPc[t] = "parked"
                 /\ lockTimed[t]
                 /\ lockPc' = [lockPc EXCEPT ![t] = "expired"]
                 /\ UNCHANGED <<lockKind, lockCount, lockTimed, lockRet>>

\* Mutated: the timeout is reported without looking at the count again.
ResumeExpiredBlind(t) == /\ lockPc[t] = "expired"
                         /\ CountReturn(t, "timedOut")
                         /\ UNCHANGED <<lockKind, lockCount, lockTimed>>

\* A thread that timed out has the mutex back and looks at the count once more.
ResumeExpired(t) == /\ lockPc[t] = "expired"
                    /\ TakeToken(t) \/ FailToken(t)

\* A notified thread has the mutex back.  Somebody may have taken the token
\* first; then it parks again, or gives up when its time has run out as well.
ResumeNotified(t) == /\ lockPc[t] = "notified"
                     /\ \/ TakeToken(t)
                        \/ ParkForToken(t, lockTimed[t])
                        \/ lockTimed[t] /\ FailToken(t)

\* Condvar::notify_one: one parked thread, if there is one, leaves the queue.
CountNotifyOne == \/ \E w \in CountParked : lockPc' = [lockPc EXCEPT ![w] = "notified"]
                  \/ CountParked = {} /\ UNCHANGED lockPc

\* Mutated: only the release that makes the count positive notifies.
ReleaseNotifyFirst == /\ \E t \in Threads : lockPc[t] = "idle"
                      /\ lockCount < MaxCount
                      /\ lockCount' = lockCount + 1
                      /\ IF lockCount = 0 THEN CountNotifyOne ELSE UNCHANGED lockPc
                      /\ UNCHANGED <<lockKind, lockTimed, lockRet>>

ReleaseToken == /\ \E t \in Threads : lockPc[t] = "idle"
                /\ lockCount < MaxCount
                /\ lockCount' = lockCount + 1
                /\ CountNotifyOne
                /\ UNCHANGED <<lockKind, lockTimed, lockRet>>

ResumeWait(t) == ResumeExpired(t) \/ ResumeNotified(t)

CallHandle(t) == LockWait(t) \/ SemAcquire(t) \/ SemTryAcquire(t)

CountNext == \/ ReleaseToken
             \/ \E t \in Threads : CallHandle(t) \/ ExpireWait(t) \/ ResumeWait(t)

\* A thread that is woken is scheduled and gets the mutex at some point; nobody
\* is obliged to call, to release, or to let a timeout fire.
CountFairness == \A t \in Threads : WF_countVars(ResumeWait(t))

CountSpec == CountInit /\ [][CountNext]_countVars /\ CountFairness

-----------------------------------------------------------------------------
(* A token in the count always has a thread on its way to it while others   *)
(* sleep: as many have been notified and not resumed as there are tokens.   *)
(* LockHandle and SemaphoreHandle notify one thread per release, and a      *)
(* sleeper may time out, or be overtaken, after it was notified.            *)
TokensLoseNoWakeup == CountParked # {} => lockCount <= Cardinality(CountNotified)

(* The handle is a counter of tokens: a wait that reports success consumed  *)
(* exactly one release, one that reports a timeout did so at a moment with   *)
(* none left, and a release is never left lying under a blocked caller.     *)
Tokens == INSTANCE TokenCounter WITH
            ret <- lockRet,
            InitialTokens <- {InitialCount("lock"), InitialCount("semaphore")},
            tokens <- lockCount,
            waiting <- {t \in Threads : lockPc[t] # "idle"}

ImplementsTokenCounter == Tokens!Spec
=============================================================================
