------------------------------ MODULE Monitor ------------------------------
(***************************************************************************)
(* What a condition with an internal mutex promises: one holder at a time,  *)
(* a wait that gives the mutex up and comes back holding it, a signal that   *)
(* wakes one of the threads asleep at that moment and a broadcast that wakes  *)
(* them all.  The mutex is not counted: acquiring it again changes nothing.  *)
(***************************************************************************)
CONSTANTS Threads, Nobody

VARIABLES holder,    \* the thread inside the monitor
          entering,  \* threads blocked for the mutex, woken waiters included
          asleep     \* threads waiting for a signal

vars == <<holder, entering, asleep>>

Init == /\ holder = Nobody
        /\ entering = {}
        /\ asleep = {}

Enter(t) == /\ holder \in {Nobody, t}
            /\ t \notin asleep
            /\ holder' = t
            /\ entering' = entering \ {t}
            /\ UNCHANGED asleep

Block(t) == /\ holder \notin {Nobody, t}
            /\ t \notin entering \cup asleep
            /\ entering' = entering \cup {t}
            /\ UNCHANGED <<holder, asleep>>

Exit(t) == /\ holder = t
           /\ holder' = Nobody
           /\ UNCHANGED <<entering, asleep>>

Sleep(t) == /\ holder = t
            /\ holder' = Nobody
            /\ asleep' = asleep \cup {t}
            /\ UNCHANGED entering

Wake(S) == /\ asleep' = asleep \ S
           /\ entering' = entering \cup S
           /\ UNCHANGED holder

Next == \/ \E t \in Threads : Enter(t) \/ Block(t) \/ Exit(t) \/ Sleep(t)
        \/ \E w \in asleep : Wake({w})
        \/ Wake(asleep)

\* The mutex is not left free while threads are blocked for it.
Spec == /\ Init /\ [][Next]_vars
        /\ WF_vars(\E t \in entering : Enter(t))
=============================================================================
