------------------------------ MODULE Handles ------------------------------
(***************************************************************************)
(* The counting lock and semaphore, the re-entrant mutex and the condition   *)
(* of hxrt::thread side by side.  The threads of a behaviour share one of    *)
(* them, the subject; the other ones stay as they were created.             *)
(***************************************************************************)
EXTENDS CountingLock, ReentrantMutex, ConditionVar

VARIABLE subject  \* the handle this behaviour is about

vars == <<subject, countVars, mutexVars, condVars>>

Init == /\ subject \in {"count", "mutex", "condition"}
        /\ CountInit
        /\ subject # "count" => lockKind = "lock"
        /\ MutexInit
        /\ CondInit

Next == \/ /\ subject = "count"
           /\ CountNext
           /\ UNCHANGED <<subject, mutexVars, condVars>>
        \/ /\ subject = "mutex"
           /\ MutexNext
           /\ UNCHANGED <<subject, countVars, condVars>>
        \/ /\ subject = "condition"
           /\ CondNext
           /\ UNCHANGED <<subject, countVars, mutexVars>>

Spec == Init /\ [][Next]_vars /\ CountFairness /\ MutexFairness /\ CondFairness

(* The handles keep their types: no thread outside the places of a call, no  *)
(* count below zero, no generation a waiter saw ahead of its condition's.    *)
TypeOK == CountTypeOK /\ MutexTypeOK /\ CondTypeOK
=============================================================================
