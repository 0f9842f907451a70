-------------------------- MODULE BaselineRegister --------------------------
(* What the reviewed baseline promises the commands that share it: it is    *)
(* one value; a command reads it, and an admission replaces exactly the     *)
(* value it has read, or nothing.                                           *)
CONSTANTS Procs, Versions, NoVersion

VARIABLES value, base
vars == <<value, base>>

Init == value \in Versions /\ base = [p \in Procs |-> NoVersion]

Read(p) == base' = [base EXCEPT ![p] = value] /\ UNCHANGED value

Replace(p) ==
  /\ base[p] = value
  /\ value' \in Versions
  /\ UNCHANGED base

Forget(p) == base' = [base EXCEPT ![p] = NoVersion] /\ UNCHANGED value

Next == \E p \in Procs : Read(p) \/ Replace(p) \/ Forget(p)
Spec == Init /\ [][Next]_vars
=============================================================================
