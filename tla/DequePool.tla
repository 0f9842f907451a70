----------------------------- MODULE DequePool -----------------------------
(***************************************************************************)
(* sys.thread.Deque, and the fixed pool that hands its tasks over through    *)
(* one.  A behaviour is about the deque itself, field access by field        *)
(* access, or about the pool, which sees of the deque what it implements     *)
(* (BlockingDeque); the other one stays as it was created.                   *)
(***************************************************************************)
EXTENDS Deque, FixedThreadPool

VARIABLE subject  \* "deque" or "pool"

vars == <<subject, dequeVars, fixedVars>>

Init == /\ subject \in {"deque", "pool"}
        /\ DequeInit
        /\ FixedInit

Next == \/ /\ subject = "deque"
           /\ DequeNext
           /\ UNCHANGED <<subject, fixedVars>>
        \/ /\ subject = "pool"
           /\ FixedNext
           /\ UNCHANGED <<subject, dequeVars>>

Spec == Init /\ [][Next]_vars /\ DequeFairness /\ FixedFairness

=============================================================================
