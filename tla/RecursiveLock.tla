--------------------------- MODULE RecursiveLock ---------------------------
(***************************************************************************)
(* What a re-entrant mutex promises: at any time at most one thread holds   *)
(* it, that thread may hold it several times over, and it is free again      *)
(* when the thread has released it as often as it acquired it.              *)
(***************************************************************************)
EXTENDS Integers

CONSTANT Threads

VARIABLES holds,   \* acquisitions of each thread not yet released
          waiting  \* threads blocked in acquire

vars == <<holds, waiting>>

Init == /\ holds = [t \in Threads |-> 0]
        /\ waiting = {}

FreeFor(t) == \A u \in Threads \ {t} : holds[u] = 0

Acquire(t) == /\ FreeFor(t)
              /\ holds' = [holds EXCEPT ![t] = @ + 1]
              /\ waiting' = waiting \ {t}

Block(t) == /\ ~FreeFor(t)
            /\ t \notin waiting
            /\ waiting' = waiting \cup {t}
            /\ UNCHANGED holds

Release(t) == /\ holds[t] > 0
              /\ t \notin waiting
              /\ holds' = [holds EXCEPT ![t] = @ - 1]
              /\ UNCHANGED waiting

Next == \E t \in Threads : Acquire(t) \/ Block(t) \/ Release(t)

\* A free mutex is not left free while threads are blocked for it.
Spec == /\ Init /\ [][Next]_vars
        /\ WF_vars(\E t \in waiting : Acquire(t))
=============================================================================
