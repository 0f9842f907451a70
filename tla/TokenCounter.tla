---------------------------- MODULE TokenCounter ----------------------------
(***************************************************************************)
(* What a counting lock or a semaphore promises its callers, without       *)
(* saying how a blocked caller sleeps.  Tokens are the releases nobody has  *)
(* consumed yet; a call that succeeds consumes exactly one of them, and a   *)
(* call may come back empty-handed only at a moment when there is none.     *)
(***************************************************************************)
EXTENDS Integers

CONSTANTS Threads,      \* the OS threads that share the handle
          InitialTokens \* the numbers of tokens a handle is created with

VARIABLES tokens,       \* releases not yet consumed
          waiting,      \* threads inside a blocked call
          ret           \* what each thread's last call returned

vars == <<tokens, waiting, ret>>

Init == /\ tokens \in InitialTokens
        /\ waiting = {}
        /\ ret = [t \in Threads |-> "none"]

\* A call of t, blocked or just made, succeeds.
Take(t) == /\ tokens > 0
           /\ tokens' = tokens - 1
           /\ waiting' = waiting \ {t}
           /\ ret' = [ret EXCEPT ![t] = "taken"]

\* A call of t gives up: the timeout ran out, or it never meant to block.
GiveUp(t) == /\ tokens = 0
             /\ waiting' = waiting \ {t}
             /\ ret' = [ret EXCEPT ![t] = "timedOut"]
             /\ UNCHANGED tokens

Block(t) == /\ tokens = 0
            /\ t \notin waiting
            /\ waiting' = waiting \cup {t}
            /\ UNCHANGED <<tokens, ret>>

Give == /\ tokens' = tokens + 1
        /\ UNCHANGED <<waiting, ret>>

Next == \/ Give
        \/ \E t \in Threads : Take(t) \/ GiveUp(t) \/ Block(t)

\* A token is not left lying while somebody is blocked for one.
Spec == /\ Init /\ [][Next]_vars
        /\ WF_vars(\E t \in waiting : Take(t))
=============================================================================
