------------------------ MODULE BaselinePublication ------------------------
(* The reviewed baseline on disk: a directory that an admission replaces     *)
(* with two renames and a journal, and that every command recovers before it *)
(* reads.  A directory is a version and whether all its files are there.     *)
EXTENDS PublicationLock

CONSTANTS Versions, NoVersion, NoTree, FirstVersion

Tree == [version : Versions, whole : BOOLEAN]

ASSUME BaselineAssumption ==
  NoVersion \notin Versions /\ NoTree \notin Tree /\ FirstVersion \in Versions

VARIABLES
  root,       \* the canonical directory
  previous,   \* paths.previous
  staged,     \* paths.staged
  journal,    \* paths.journal: "none", "torn" (created, not written) or "valid"
  work,       \* the next step of a process that holds the lock
  base        \* baseline.manifestSha256 of a process that has checked

treeVars == <<root, previous, staged, journal>>
opVars == <<work, base>>
vars == <<lockVars, pc, starts, crashes, treeVars, opVars>>

Work == {"recover", "restore", "dropPrevious", "recoverStaged", "dropJournal",
         "body", "verify", "clearStaged", "build", "seal", "openJournal",
         "writeJournal", "moveOld", "install", "dropOld", "closeJournal",
         "passed", "failed"}

Init ==
  /\ LockInit
  /\ root = [version |-> FirstVersion, whole |-> TRUE]
  /\ previous = NoTree /\ staged = NoTree /\ journal = "none"
  /\ work = [p \in Procs |-> "recover"]
  /\ base = [p \in Procs |-> NoVersion]

-----------------------------------------------------------------------------
(* Steps under the lock: work goes from one label to another; the end of the *)
(* work, good or bad, goes through the finally that releases the lock.       *)
Does(p, from, to) ==
  /\ pc[p] = "critical" /\ work[p] = from
  /\ work' = [work EXCEPT ![p] = to]
  /\ pc' = [pc EXCEPT ![p] = IF to \in {"passed", "failed"} THEN "release" ELSE "critical"]
  /\ UNCHANGED <<lockVars, starts, crashes>>

\* rmSync of a directory: file after file, then the directory.
Deletes(tree) ==
  \/ tree # NoTree /\ tree' = NoTree
  \/ tree # NoTree /\ tree.whole /\ tree' = [tree EXCEPT !.whole = FALSE]

ReadJournal(p) ==
  /\ Does(p, "recover", CASE journal = "none" -> "body"
                          [] journal = "torn" -> "failed"
                          [] journal = "valid" -> "restore")
  /\ UNCHANGED <<treeVars, base>>

\* Mutated: the recovery copy is removed without looking for the directory it
\* is the copy of.
RestoreForward(p) ==
  /\ Does(p, "restore", IF previous # NoTree THEN "dropPrevious" ELSE "recoverStaged")
  /\ UNCHANGED <<treeVars, base>>

Restore(p) ==
  /\ \/ /\ root = NoTree /\ previous # NoTree
        /\ Does(p, "restore", "recoverStaged")
        /\ root' = previous /\ previous' = NoTree
     \/ /\ root # NoTree
        /\ Does(p, "restore", IF previous # NoTree THEN "dropPrevious" ELSE "recoverStaged")
        /\ UNCHANGED <<root, previous>>
     \/ /\ root = NoTree /\ previous = NoTree
        /\ Does(p, "restore", "failed")
        /\ UNCHANGED <<root, previous>>
  /\ UNCHANGED <<staged, journal, base>>

DropPrevious(p) ==
  /\ Deletes(previous)
  /\ Does(p, "dropPrevious", IF previous' = NoTree THEN "recoverStaged" ELSE "dropPrevious")
  /\ UNCHANGED <<root, staged, journal, base>>

RecoverStaged(p) ==
  /\ IF staged = NoTree THEN UNCHANGED staged ELSE Deletes(staged)
  /\ Does(p, "recoverStaged", IF staged' = NoTree THEN "dropJournal" ELSE "recoverStaged")
  /\ UNCHANGED <<root, previous, journal, base>>

DropJournal(p) ==
  /\ Does(p, "dropJournal", "body")
  /\ journal' = "none"
  /\ UNCHANGED <<root, previous, staged, base>>

\* checkBaseline, second half: the manifest, then the files it names.
ReadManifest(p) ==
  /\ base[p] = NoVersion
  /\ \/ root # NoTree /\ Does(p, "body", "verify")
        /\ base' = [base EXCEPT ![p] = root.version]
     \/ root = NoTree /\ Does(p, "body", "failed") /\ UNCHANGED base
  /\ UNCHANGED treeVars

VerifyFiles(p) ==
  /\ \/ root = [version |-> base[p], whole |-> TRUE] /\ Does(p, "verify", "passed")
        /\ UNCHANGED base
     \/ root # [version |-> base[p], whole |-> TRUE] /\ Does(p, "verify", "failed")
        /\ base' = [base EXCEPT ![p] = NoVersion]
  /\ UNCHANGED treeVars

\* Mutated: the manifest is not compared again under the second lock.
CompareNothing(p) ==
  /\ base[p] # NoVersion
  /\ Does(p, "body", IF root # NoTree THEN "clearStaged" ELSE "failed")
  /\ UNCHANGED <<treeVars, base>>

\* writeBaselineAtomically: the baseline must be the one the admission read.
CompareManifest(p) ==
  /\ base[p] # NoVersion
  /\ Does(p, "body", IF root # NoTree /\ root.version = base[p] THEN "clearStaged" ELSE "failed")
  /\ UNCHANGED <<treeVars, base>>

ClearStaged(p) ==
  /\ IF staged = NoTree THEN UNCHANGED staged ELSE Deletes(staged)
  /\ Does(p, "clearStaged", IF staged' = NoTree THEN "build" ELSE "clearStaged")
  /\ UNCHANGED <<root, previous, journal, base>>

\* The graph the admission publishes is the candidate it has verified: any.
BuildStaged(p) ==
  /\ Does(p, "build", "seal")
  /\ \E candidate \in Versions : staged' = [version |-> candidate, whole |-> FALSE]
  /\ UNCHANGED <<root, previous, journal, base>>

SealStaged(p) ==
  /\ Does(p, "seal", "openJournal")
  /\ staged' = [staged EXCEPT !.whole = TRUE]
  /\ UNCHANGED <<root, previous, journal, base>>

OpenJournal(p) ==
  /\ Does(p, "openJournal", "writeJournal")
  /\ journal' = "torn"
  /\ UNCHANGED <<root, previous, staged, base>>

WriteJournal(p) ==
  /\ Does(p, "writeJournal", "moveOld")
  /\ journal' = "valid"
  /\ UNCHANGED <<root, previous, staged, base>>

\* renameSync onto an existing directory, or from a missing one, throws.
MoveOld(p) ==
  /\ \/ root # NoTree /\ previous = NoTree /\ Does(p, "moveOld", "install")
        /\ previous' = root /\ root' = NoTree
     \/ (root = NoTree \/ previous # NoTree) /\ Does(p, "moveOld", "failed")
        /\ UNCHANGED <<root, previous>>
  /\ UNCHANGED <<staged, journal, base>>

Install(p) ==
  /\ \/ staged # NoTree /\ root = NoTree /\ Does(p, "install", "dropOld")
        /\ root' = staged /\ staged' = NoTree
     \/ (staged = NoTree \/ root # NoTree) /\ Does(p, "install", "failed")
        /\ UNCHANGED <<root, staged>>
  /\ UNCHANGED <<previous, journal, base>>

DropOld(p) ==
  /\ IF previous = NoTree THEN UNCHANGED previous ELSE Deletes(previous)
  /\ Does(p, "dropOld", IF previous' = NoTree THEN "closeJournal" ELSE "dropOld")
  /\ UNCHANGED <<root, staged, journal, base>>

CloseJournal(p) ==
  /\ Does(p, "closeJournal", "passed")
  /\ journal' = "none"
  /\ base' = [base EXCEPT ![p] = NoVersion]
  /\ UNCHANGED <<root, previous, staged>>

WorkStep(p) ==
  \/ ReadJournal(p) \/ Restore(p) \/ DropPrevious(p) \/ RecoverStaged(p)
  \/ DropJournal(p) \/ ReadManifest(p) \/ VerifyFiles(p) \/ CompareManifest(p)
  \/ ClearStaged(p) \/ BuildStaged(p) \/ SealStaged(p) \/ OpenJournal(p)
  \/ WriteJournal(p) \/ MoveOld(p) \/ Install(p) \/ DropOld(p) \/ CloseJournal(p)

\* A file system call throws: the test hook stopAfterPhase, or a full disk.
Throws(p) == work[p] \in Work /\ Does(p, work[p], "failed") /\ UNCHANGED <<treeVars, base>>

-----------------------------------------------------------------------------
(* A command starts, takes the lock a second time to write, and ends.        *)
StartCommand(p) == Start(p) /\ UNCHANGED <<treeVars, work, base>>

\* runAdmit after its check: the candidate was verified, without the lock.
\* A command that only checks ends instead.
AdmitCandidate(p) ==
  /\ work[p] = "passed" /\ base[p] # NoVersion
  /\ Goto(p, "released", "create")
  /\ work' = [work EXCEPT ![p] = "recover"]
  /\ UNCHANGED <<lockVars, starts, crashes, treeVars, base>>

\* The work is over or failed, the candidate is rejected, or --dry-run.
EndCommand(p) ==
  /\ Goto(p, "released", "done")
  /\ UNCHANGED <<lockVars, starts, crashes, treeVars, opVars>>

ForgetCommand(p) ==
  /\ work' = [work EXCEPT ![p] = "recover"]
  /\ base' = [base EXCEPT ![p] = NoVersion]
  /\ UNCHANGED treeVars

LockOnly(p) == UNCHANGED <<starts, crashes, treeVars, opVars>>

Step(p) == \/ LockStep(p) /\ LockOnly(p)
           \/ WorkStep(p)
           \/ EndCommand(p)
           \/ Exit(p) /\ ForgetCommand(p)

Times(p) == GiveUp(p) /\ LockOnly(p)

Next == \E p \in Procs :
  \/ StartCommand(p) \/ Step(p) \/ Times(p) \/ AdmitCandidate(p)
  \/ WriteFails(p) /\ LockOnly(p)
  \/ Throws(p)
  \/ Crash(p) /\ ForgetCommand(p)

\* A process that can run runs; and a loop that polls for ever reaches its
\* deadline, for every poll waits 50 ms of the ten seconds.
Fairness == \A p \in Procs : WF_vars(Step(p)) /\ SF_vars(Times(p))

Spec == Init /\ [][Next]_vars /\ Fairness

-----------------------------------------------------------------------------
\* Whatever was interrupted, one whole baseline is on disk where a recovery
\* finds it: at the canonical path, or beside it with the journal that says
\* so.  A command that recovers never finds both copies missing.
BaselineWhole ==
  \/ root # NoTree /\ root.whole
  \/ root = NoTree /\ previous # NoTree /\ previous.whole /\ journal = "valid"

\* The baseline behaves as one register that an admission replaces only if it
\* still holds the value the admission has checked.
Register == INSTANCE BaselineRegister
  WITH value <- IF root # NoTree THEN root.version ELSE previous.version
RefinesRegister == Register!Spec

\* No command waits for ever on another one: not on a lock whose owner died,
\* not on a reclaim lock whose owner died, not on a lock that cannot be read.
EveryCommandEnds == \A p \in Procs : pc[p] # "exited" ~> pc[p] = "exited"
=============================================================================
