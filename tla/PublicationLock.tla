-------------------------- MODULE PublicationLock --------------------------
(* The lock file under which every command of fresh-cargo-resolution.js     *)
(* touches the reviewed baseline, and the reclaim lock under which a file   *)
(* left by a dead process is taken over.  One action per file system call:  *)
(* the processes share nothing but the files.                               *)
EXTENDS Naturals, FiniteSets

CONSTANTS
  Procs,          \* process ids: the same id may be given to a later process
  Tokens,         \* the random tokens of lock files
  NoToken,        \* what a created, not yet written lock file holds
  NoFile,         \* no file at a path
  NoProc,         \* no pid was read
  MaxStarts,      \* bound: processes started in a behaviour
  MaxCrashes,     \* bound: processes that stop without running their finally
  ExitsInWindow   \* may a process end between the second read of its pid by
                  \* a reclaimer and the probe of that pid?

LockFile == [pid : Procs, token : Tokens \cup {NoToken}]

ASSUME PublicationLockAssumption ==
  /\ NoToken \notin Tokens
  /\ NoFile \notin LockFile
  /\ NoProc \notin Procs
  /\ MaxStarts \in Nat /\ MaxCrashes \in Nat
  /\ ExitsInWindow \in BOOLEAN

VARIABLES
  lockFile,       \* paths.lock
  reclaimFile,    \* paths.reclaimLock
  pc,             \* what each process does next
  owner,          \* the pid each process read last from paths.lock
  token,          \* lock.token of the publication lock object
  reclaimToken,   \* the same of the reclaim lock object
  outcome,        \* what acquirePublicationLock does after its finally
  starts, crashes

lockVars == <<lockFile, reclaimFile, owner, token, reclaimToken, outcome>>

Pcs == {"exited", "done", "create", "write", "read", "poll", "probe",
        "reclaim", "reclaimPoll", "reclaimWrite", "reread", "exists",
        "reprobe", "remove", "recreate", "rewrite", "unreclaim",
        "unreclaimRemove", "critical", "release", "releaseRemove", "released"}

processIsRunning(p) == pc[p] # "exited"

\* A lock that can be read holds a pid and a token.
Readable(file) == file # NoFile /\ file.token # NoToken

\* 16 random bytes.  A token is compared together with the pid it was written
\* with, so it need only differ from those this pid has and those in files
\* that an earlier process of this pid left.
TokensInUse(p) ==
  {token[p], reclaimToken[p]} \cup
  {file.token : file \in {f \in {lockFile, reclaimFile} \ {NoFile} : f.pid = p}}
FreshToken(p) == CHOOSE t \in Tokens : t \notin TokensInUse(p)

Goto(p, from, to) == pc[p] = from /\ pc' = [pc EXCEPT ![p] = to]

LockInit ==
  /\ lockFile = NoFile /\ reclaimFile = NoFile
  /\ pc = [p \in Procs |-> "exited"]
  /\ owner = [p \in Procs |-> NoProc]
  /\ token = [p \in Procs |-> NoToken]
  /\ reclaimToken = [p \in Procs |-> NoToken]
  /\ outcome = [p \in Procs |-> "retry"]
  /\ starts = 0 /\ crashes = 0

-----------------------------------------------------------------------------
(* acquirePublicationLock: openSync 'wx', then the write of the content.     *)
\* Mutated: opened with 'w', so that a lock that is there is truncated.
CreateOverLock(p) ==
  /\ Goto(p, "create", "write")
  /\ lockFile' = [pid |-> p, token |-> NoToken]
  /\ UNCHANGED <<reclaimFile, owner, token, reclaimToken, outcome>>

CreateLock(p) ==
  /\ \/ lockFile = NoFile /\ Goto(p, "create", "write")
        /\ lockFile' = [pid |-> p, token |-> NoToken]
     \/ lockFile # NoFile /\ Goto(p, "create", "read") /\ UNCHANGED lockFile
  /\ UNCHANGED <<reclaimFile, owner, token, reclaimToken, outcome>>

WriteLock(p) ==
  /\ Goto(p, "write", "critical")
  /\ Tokens \ TokensInUse(p) # {}
  /\ lockFile' = [pid |-> p, token |-> FreshToken(p)]
  /\ token' = [token EXCEPT ![p] = FreshToken(p)]
  /\ UNCHANGED <<reclaimFile, owner, reclaimToken, outcome>>

\* The write or the fsync fails: the file is closed and removed.
WriteLockFails(p) ==
  /\ Goto(p, "write", "done")
  /\ lockFile' = NoFile
  /\ UNCHANGED <<reclaimFile, owner, token, reclaimToken, outcome>>

ReadOwner(p) ==
  /\ \/ Readable(lockFile) /\ Goto(p, "read", "probe")
        /\ owner' = [owner EXCEPT ![p] = lockFile.pid]
     \/ ~Readable(lockFile) /\ Goto(p, "read", "poll") /\ UNCHANGED owner
  /\ UNCHANGED <<lockFile, reclaimFile, token, reclaimToken, outcome>>

ProbeOwner(p) ==
  /\ pc[p] = "probe"
  /\ Goto(p, "probe", IF processIsRunning(owner[p]) THEN "poll" ELSE "reclaim")
  /\ owner' = [owner EXCEPT ![p] = NoProc]
  /\ UNCHANGED <<lockFile, reclaimFile, token, reclaimToken, outcome>>

\* Before the deadline: wait 50 ms and try again.
PollAgain(p) ==
  /\ Goto(p, "poll", "create") \/ Goto(p, "reclaimPoll", "reclaim")
  /\ UNCHANGED lockVars

\* Mutated: the wait for the reclaim lock has no deadline.
GiveUpOnLock(p) == Goto(p, "poll", "done") /\ UNCHANGED lockVars

\* Date.now() >= deadline: the command fails with FCR204.
GiveUp(p) ==
  /\ Goto(p, "poll", "done") \/ Goto(p, "reclaimPoll", "done")
  /\ UNCHANGED lockVars

-----------------------------------------------------------------------------
(* The take-over of a lock whose owner is dead, under the reclaim lock.      *)
CreateReclaim(p) ==
  /\ \/ reclaimFile = NoFile /\ Goto(p, "reclaim", "reclaimWrite")
        /\ reclaimFile' = [pid |-> p, token |-> NoToken]
     \/ reclaimFile # NoFile /\ Goto(p, "reclaim", "reclaimPoll")
        /\ UNCHANGED reclaimFile
  /\ UNCHANGED <<lockFile, owner, token, reclaimToken, outcome>>

WriteReclaim(p) ==
  /\ Goto(p, "reclaimWrite", "reread")
  /\ Tokens \ TokensInUse(p) # {}
  /\ reclaimFile' = [pid |-> p, token |-> FreshToken(p)]
  /\ reclaimToken' = [reclaimToken EXCEPT ![p] = FreshToken(p)]
  /\ UNCHANGED <<lockFile, owner, token, outcome>>

WriteReclaimFails(p) ==
  /\ Goto(p, "reclaimWrite", "done")
  /\ reclaimFile' = NoFile
  /\ UNCHANGED <<lockFile, owner, token, reclaimToken, outcome>>

RereadOwner(p) ==
  /\ \/ Readable(lockFile) /\ Goto(p, "reread", "reprobe")
        /\ owner' = [owner EXCEPT ![p] = lockFile.pid]
     \/ ~Readable(lockFile) /\ Goto(p, "reread", "exists") /\ UNCHANGED owner
  /\ UNCHANGED <<lockFile, reclaimFile, token, reclaimToken, outcome>>

\* The lock could not be read: gone is a reason to retry, present to fail.
LockExists(p) ==
  /\ Goto(p, "exists", "unreclaim")
  /\ outcome' = [outcome EXCEPT ![p] = IF lockFile = NoFile THEN "retry" ELSE "fail"]
  /\ UNCHANGED <<lockFile, reclaimFile, owner, token, reclaimToken>>

ReprobeOwner(p) ==
  /\ pc[p] = "reprobe"
  /\ \/ processIsRunning(owner[p]) /\ Goto(p, "reprobe", "unreclaim")
        /\ outcome' = [outcome EXCEPT ![p] = "retry"]
     \/ ~processIsRunning(owner[p]) /\ Goto(p, "reprobe", "remove")
        /\ UNCHANGED outcome
  /\ owner' = [owner EXCEPT ![p] = NoProc]
  /\ UNCHANGED <<lockFile, reclaimFile, token, reclaimToken>>

\* rmSync without force: a missing file throws.
RemoveStale(p) ==
  /\ \/ lockFile # NoFile /\ Goto(p, "remove", "recreate") /\ UNCHANGED outcome
     \/ lockFile = NoFile /\ Goto(p, "remove", "unreclaim")
        /\ outcome' = [outcome EXCEPT ![p] = "fail"]
  /\ lockFile' = NoFile
  /\ UNCHANGED <<reclaimFile, owner, token, reclaimToken>>

RecreateLock(p) ==
  /\ \/ lockFile = NoFile /\ Goto(p, "recreate", "rewrite")
        /\ lockFile' = [pid |-> p, token |-> NoToken] /\ UNCHANGED outcome
     \/ lockFile # NoFile /\ Goto(p, "recreate", "unreclaim")
        /\ outcome' = [outcome EXCEPT ![p] = "retry"] /\ UNCHANGED lockFile
  /\ UNCHANGED <<reclaimFile, owner, token, reclaimToken>>

RewriteLock(p) ==
  /\ Goto(p, "rewrite", "unreclaim")
  /\ Tokens \ TokensInUse(p) # {}
  /\ lockFile' = [pid |-> p, token |-> FreshToken(p)]
  /\ token' = [token EXCEPT ![p] = FreshToken(p)]
  /\ outcome' = [outcome EXCEPT ![p] = "acquired"]
  /\ UNCHANGED <<reclaimFile, owner, reclaimToken>>

RewriteLockFails(p) ==
  /\ Goto(p, "rewrite", "unreclaim")
  /\ lockFile' = NoFile
  /\ outcome' = [outcome EXCEPT ![p] = "fail"]
  /\ UNCHANGED <<reclaimFile, owner, token, reclaimToken>>

-----------------------------------------------------------------------------
(* releaseOwnedLock: read the file, compare pid and token, remove it.        *)
Owns(file, p, t) == file = [pid |-> p, token |-> t]

CheckReclaim(p) ==
  /\ Goto(p, "unreclaim",
          IF Owns(reclaimFile, p, reclaimToken[p]) THEN "unreclaimRemove" ELSE "done")
  /\ UNCHANGED lockVars

RemoveReclaim(p) ==
  /\ Goto(p, "unreclaimRemove",
          CASE outcome[p] = "acquired" -> "critical"
            [] outcome[p] = "retry" -> "create"
            [] outcome[p] = "fail" -> "done")
  /\ reclaimFile' = NoFile
  /\ reclaimToken' = [reclaimToken EXCEPT ![p] = NoToken]
  /\ outcome' = [outcome EXCEPT ![p] = "retry"]
  /\ UNCHANGED <<lockFile, owner, token>>

CheckRelease(p) ==
  /\ Goto(p, "release",
          IF Owns(lockFile, p, token[p]) THEN "releaseRemove" ELSE "done")
  /\ UNCHANGED lockVars

RemoveRelease(p) ==
  /\ Goto(p, "releaseRemove", "released")
  /\ lockFile' = NoFile
  /\ token' = [token EXCEPT ![p] = NoToken]
  /\ UNCHANGED <<reclaimFile, owner, reclaimToken, outcome>>

LockStep(p) ==
  \/ CreateLock(p) \/ WriteLock(p) \/ ReadOwner(p) \/ ProbeOwner(p) \/ PollAgain(p)
  \/ CreateReclaim(p) \/ WriteReclaim(p) \/ RereadOwner(p) \/ LockExists(p)
  \/ ReprobeOwner(p) \/ RemoveStale(p) \/ RecreateLock(p) \/ RewriteLock(p)
  \/ CheckReclaim(p) \/ RemoveReclaim(p) \/ CheckRelease(p) \/ RemoveRelease(p)

WriteFails(p) == WriteLockFails(p) \/ WriteReclaimFails(p) \/ RewriteLockFails(p)

-----------------------------------------------------------------------------
(* Processes start, end and crash; what they created stays.                  *)
MayEnd(p) == ExitsInWindow \/ \A q \in Procs : pc[q] = "reprobe" => owner[q] # p

Start(p) ==
  /\ starts < MaxStarts
  /\ Goto(p, "exited", "create")
  /\ starts' = starts + 1
  /\ UNCHANGED <<lockVars, crashes>>

Forget(p) ==
  /\ pc' = [pc EXCEPT ![p] = "exited"]
  /\ owner' = [owner EXCEPT ![p] = NoProc]
  /\ token' = [token EXCEPT ![p] = NoToken]
  /\ reclaimToken' = [reclaimToken EXCEPT ![p] = NoToken]
  /\ outcome' = [outcome EXCEPT ![p] = "retry"]
  /\ UNCHANGED <<lockFile, reclaimFile, starts>>

Exit(p) == pc[p] = "done" /\ MayEnd(p) /\ Forget(p) /\ UNCHANGED crashes

Crash(p) ==
  /\ crashes < MaxCrashes
  /\ pc[p] \notin {"exited", "done"} /\ MayEnd(p)
  /\ Forget(p)
  /\ crashes' = crashes + 1

-----------------------------------------------------------------------------
(* The process has made the publication lock and has not removed it yet.     *)
Holds(p) ==
  \/ pc[p] \in {"critical", "release", "releaseRemove"}
  \/ pc[p] \in {"unreclaim", "unreclaimRemove"} /\ outcome[p] = "acquired"

Reclaims(p) ==
  pc[p] \in {"reread", "exists", "reprobe", "remove", "recreate", "rewrite",
             "unreclaim", "unreclaimRemove"}

\* One process holds the publication lock, as docs/rust-toolchain-policy.md:123
\* says; the tests cover two processes that saw the same dead owner.
OneProcessHolds == \A p, q \in Procs : Holds(p) /\ Holds(q) => p = q

\* The file at the path of a lock is its holder's: no other process removed it
\* or put another one there, so that the holder's release finds it.
LockSafe ==
  /\ OneProcessHolds
  /\ \A p \in Procs : Holds(p) => Owns(lockFile, p, token[p])
  /\ \A p \in Procs : Reclaims(p) => Owns(reclaimFile, p, reclaimToken[p])
=============================================================================
