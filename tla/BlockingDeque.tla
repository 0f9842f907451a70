--------------------------- MODULE BlockingDeque ---------------------------
(***************************************************************************)
(* What sys.thread.Deque promises: elements come out in deque order, each to *)
(* one caller; and a pop comes back with null only while the calls in         *)
(* progress account for every element, so that a deque at rest gives its front *)
(* element.                                                                   *)
(***************************************************************************)
EXTENDS Integers, Sequences, FiniteSets

CONSTANTS Threads, Elements, Null

VARIABLES items, \* the elements, front first
          busy,  \* threads inside a call
          ret    \* what the last pop of each thread returned

vars == <<items, busy, ret>>

Init == /\ items = <<>>
        /\ busy = {}
        /\ ret = [t \in Threads |-> Null]

\* A call of t puts e at the back or at the front, or starts to look for one.
Enter(t) == /\ t \notin busy
            /\ busy' = busy \cup {t}
            /\ \/ \E e \in Elements : items' \in {Append(items, e), <<e>> \o items}
               \/ UNCHANGED items
            /\ UNCHANGED ret

Leave(t) == /\ t \in busy
            /\ busy' = busy \ {t}
            /\ UNCHANGED <<items, ret>>

Take(t) == /\ t \in busy
           /\ items # <<>>
           /\ items' = Tail(items)
           /\ ret' = [ret EXCEPT ![t] = Head(items)]
           /\ busy' = busy \ {t}

ComeBackEmpty(t) == /\ Len(items) <= Cardinality(busy \ {t})
                    /\ busy' = busy \ {t}
                    /\ ret' = [ret EXCEPT ![t] = Null]
                    /\ UNCHANGED items

Next == \E t \in Threads : Enter(t) \/ Leave(t) \/ Take(t) \/ ComeBackEmpty(t)

Spec == Init /\ [][Next]_vars
=============================================================================
