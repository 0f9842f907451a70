--------------------- MODULE BaselinePublication_proofs ---------------------
(* For every set of processes: as long as no process ends between the two   *)
(* system calls with which a reclaimer reads and probes its pid, the lock    *)
(* file of the baseline has one holder; and then a whole baseline is always  *)
(* on disk, which behaves as one register that admissions compare and set.   *)
EXTENDS BaselinePublication, TLAPS

LockTypeOK ==
  /\ lockFile \in LockFile \cup {NoFile}
  /\ reclaimFile \in LockFile \cup {NoFile}
  /\ pc \in [Procs -> Pcs]
  /\ owner \in [Procs -> Procs \cup {NoProc}]
  /\ token \in [Procs -> Tokens \cup {NoToken}]
  /\ reclaimToken \in [Procs -> Tokens \cup {NoToken}]
  /\ outcome \in [Procs -> {"acquired", "retry", "fail"}]

\* A process has created the lock and not written it.
Writes(p) == pc[p] \in {"write", "rewrite"}

\* The lock file belongs to nobody who could still remove it.
Stale == lockFile # NoFile /\ \A q \in Procs : ~Holds(q) /\ ~Writes(q)

FileInv ==
  \A p \in Procs :
    /\ Writes(p) => Owns(lockFile, p, NoToken)
    /\ Holds(p) => Owns(lockFile, p, token[p]) /\ token[p] \in Tokens

ReclaimInv ==
  \A p \in Procs :
    /\ pc[p] = "reclaimWrite" => Owns(reclaimFile, p, NoToken)
    /\ Reclaims(p) => Owns(reclaimFile, p, reclaimToken[p]) /\ reclaimToken[p] \in Tokens

\* What the reclaimer has read of the lock is still so when it acts on it.
ProbeInv ==
  \A p \in Procs :
    /\ pc[p] = "reprobe" => owner[p] \in Procs /\ (processIsRunning(owner[p]) \/ Stale)
    /\ pc[p] = "remove" => Stale

IInv == LockTypeOK /\ FileInv /\ ReclaimInv /\ ProbeInv

-----------------------------------------------------------------------------
LEMMA FreshIsToken ==
  ASSUME NEW p \in Procs, Tokens \ TokensInUse(p) # {}
  PROVE  FreshToken(p) \in Tokens
BY DEF FreshToken

(* One file, one owner: two processes cannot both have made it.              *)
LEMMA OneOwner ==
  ASSUME IInv, NEW p \in Procs, NEW q \in Procs,
         Holds(p) \/ Writes(p), Holds(q) \/ Writes(q)
  PROVE  p = q /\ lockFile # NoFile /\ ~Stale
<1>1. \E s, t \in Tokens \cup {NoToken} : Owns(lockFile, p, s) /\ Owns(lockFile, q, t)
  BY DEF IInv, FileInv, LockTypeOK
<1>2. p = q
  BY <1>1 DEF Owns
<1>3. lockFile # NoFile
  BY <1>1, PublicationLockAssumption DEF Owns, LockFile
<1> QED
  BY <1>2, <1>3 DEF Stale

LEMMA OneReclaimer ==
  ASSUME IInv, NEW p \in Procs, NEW q \in Procs,
         Reclaims(p) \/ pc[p] = "reclaimWrite", Reclaims(q) \/ pc[q] = "reclaimWrite"
  PROVE  p = q /\ reclaimFile # NoFile
<1>1. \E s, t \in Tokens \cup {NoToken} : Owns(reclaimFile, p, s) /\ Owns(reclaimFile, q, t)
  BY DEF IInv, ReclaimInv, LockTypeOK
<1>2. p = q
  BY <1>1 DEF Owns
<1>3. reclaimFile # NoFile
  BY <1>1, PublicationLockAssumption DEF Owns, LockFile
<1> QED
  BY <1>2, <1>3

LEMMA IInvImpliesSafe == IInv => LockSafe
<1> SUFFICES ASSUME IInv PROVE LockSafe
  OBVIOUS
<1>1. OneProcessHolds
  BY OneOwner DEF OneProcessHolds
<1> QED
  BY <1>1 DEF IInv, FileInv, ReclaimInv, LockSafe

LEMMA InitHolds == Init => IInv
BY PublicationLockAssumption
   DEF Init, LockInit, IInv, LockTypeOK, Pcs, FileInv, ReclaimInv, ProbeInv, Writes,
       Holds, Reclaims

-----------------------------------------------------------------------------
(* Every action is one process's: the others keep their place and what they  *)
(* know, and the state keeps its types.                                      *)
Elsewhere(p) ==
  \A q \in Procs \ {p} :
    /\ pc'[q] = pc[q] /\ owner'[q] = owner[q] /\ token'[q] = token[q]
    /\ reclaimToken'[q] = reclaimToken[q] /\ outcome'[q] = outcome[q]

Acts(p) == LockStep(p) \/ WriteFails(p) \/ GiveUp(p)

LEMMA ActsElsewhere ==
  ASSUME LockTypeOK, NEW p \in Procs, Acts(p)
  PROVE  LockTypeOK' /\ Elsewhere(p)
<1> USE DEF LockTypeOK, Elsewhere, Goto, Pcs, LockFile, lockVars
<1>1. CASE CreateLock(p) \/ ReadOwner(p) \/ ProbeOwner(p) \/ PollAgain(p) \/ GiveUp(p)
  BY <1>1 DEF CreateLock, ReadOwner, Readable, ProbeOwner, PollAgain, GiveUp
<1>2. CASE WriteLock(p) \/ RewriteLock(p)
  BY <1>2, FreshIsToken DEF WriteLock, RewriteLock
<1>3. CASE WriteReclaim(p)
  BY <1>3, FreshIsToken DEF WriteReclaim
<1>4. CASE WriteFails(p)
  BY <1>4 DEF WriteFails, WriteLockFails, WriteReclaimFails, RewriteLockFails
<1>5. CASE CreateReclaim(p) \/ RereadOwner(p) \/ LockExists(p)
  BY <1>5 DEF CreateReclaim, RereadOwner, Readable, LockExists
<1>6. CASE ReprobeOwner(p) \/ RemoveStale(p) \/ RecreateLock(p)
  BY <1>6 DEF ReprobeOwner, RemoveStale, RecreateLock
<1>7. CASE CheckReclaim(p) \/ CheckRelease(p) \/ RemoveRelease(p)
  BY <1>7 DEF CheckReclaim, CheckRelease, RemoveRelease
<1>8. CASE RemoveReclaim(p)
  <2>1. pc' \in [Procs -> Pcs] /\ \A q \in Procs \ {p} : pc'[q] = pc[q]
    BY <1>8 DEF RemoveReclaim
  <2> QED
    BY <1>8, <2>1 DEF RemoveReclaim
<1> QED
  BY <1>1, <1>2, <1>3, <1>4, <1>5, <1>6, <1>7, <1>8 DEF Acts, LockStep

(* A step that leaves both files alone, makes its process no holder and no   *)
(* reclaimer, and acts on nothing it has read, keeps the invariant.           *)
LEMMA QuietStep ==
  ASSUME IInv, LockTypeOK', NEW p \in Procs, Elsewhere(p),
         UNCHANGED <<lockFile, reclaimFile>>,
         token'[p] = token[p], reclaimToken'[p] = reclaimToken[p],
         Holds(p)' => Holds(p), Reclaims(p)' => Reclaims(p),
         pc'[p] \notin {"exited", "write", "rewrite", "reclaimWrite", "reprobe", "remove"}
  PROVE  IInv'
<1>1. \A q \in Procs : /\ Holds(q)' => Holds(q)
                       /\ Reclaims(q)' => Reclaims(q)
                       /\ Writes(q)' => Writes(q)
                       /\ processIsRunning(q) => processIsRunning(q)'
  BY DEF Elsewhere, Holds, Reclaims, Writes, processIsRunning
<1>2. \A q \in Procs : token'[q] = token[q] /\ reclaimToken'[q] = reclaimToken[q]
  BY DEF Elsewhere
<1>3. FileInv'
  BY <1>1, <1>2 DEF IInv, FileInv, Owns
<1>4. ReclaimInv'
  BY <1>1, <1>2 DEF IInv, ReclaimInv, Owns, Elsewhere
<1>5. Stale => Stale'
  BY <1>1 DEF Stale
<1>6. ProbeInv'
  BY <1>1, <1>5 DEF IInv, ProbeInv, Elsewhere
<1> QED
  BY <1>3, <1>4, <1>6 DEF IInv

(* Creating the lock file: there was none, so nobody held it, nobody was      *)
(* writing it, and nobody was about to remove it.                            *)
LEMMA CreateStep ==
  ASSUME IInv, LockTypeOK', NEW p \in Procs, Elsewhere(p),
         lockFile = NoFile, lockFile' = [pid |-> p, token |-> NoToken],
         UNCHANGED reclaimFile, reclaimToken'[p] = reclaimToken[p],
         pc'[p] \in {"write", "rewrite"}, Reclaims(p)' => Reclaims(p)
  PROVE  IInv'
<1>1. \A q \in Procs : ~Holds(q) /\ ~Writes(q)
  BY OneOwner
<1>2. FileInv'
  BY <1>1 DEF FileInv, Elsewhere, Holds, Writes, Owns
<1>3. ReclaimInv'
  BY DEF IInv, ReclaimInv, Elsewhere, Reclaims, Owns
<1>4. ProbeInv'
  BY DEF IInv, ProbeInv, Stale, Elsewhere, processIsRunning
<1> QED
  BY <1>2, <1>3, <1>4 DEF IInv

(* The owner of the lock file writes or removes it: nobody else owned it.     *)
LEMMA OwnerStep ==
  ASSUME IInv, LockTypeOK', NEW p \in Procs, Elsewhere(p),
         Holds(p) \/ Writes(p), ~Writes(p)', pc'[p] # "exited",
         Holds(p)' => Owns(lockFile, p, token[p])' /\ token'[p] \in Tokens,
         UNCHANGED reclaimFile, reclaimToken'[p] = reclaimToken[p],
         pc'[p] \notin {"reclaimWrite", "reprobe", "remove"},
         Reclaims(p)' => Reclaims(p)
  PROVE  IInv'
<1>1. ~Stale /\ \A q \in Procs \ {p} : ~Holds(q) /\ ~Writes(q)
  BY OneOwner
<1>2. FileInv'
  BY <1>1 DEF FileInv, Elsewhere, Holds, Writes, Owns
<1>3. ReclaimInv'
  BY DEF IInv, ReclaimInv, Elsewhere, Reclaims, Owns
<1>4. ProbeInv'
  BY <1>1 DEF IInv, ProbeInv, Elsewhere, processIsRunning
<1> QED
  BY <1>2, <1>3, <1>4 DEF IInv

(* Creating, writing and removing the reclaim file.                          *)
LEMMA ReclaimFileStep ==
  ASSUME IInv, LockTypeOK', NEW p \in Procs, Elsewhere(p), UNCHANGED lockFile,
         reclaimFile = NoFile \/ Reclaims(p) \/ pc[p] = "reclaimWrite",
         pc'[p] = "reclaimWrite" => Owns(reclaimFile, p, NoToken)',
         Reclaims(p)' => Owns(reclaimFile, p, reclaimToken[p])' /\ reclaimToken'[p] \in Tokens,
         Holds(p)' => Holds(p), token'[p] = token[p],
         pc'[p] \notin {"exited", "write", "rewrite", "reprobe", "remove"}
  PROVE  IInv'
<1>1. \A q \in Procs \ {p} : ~Reclaims(q) /\ pc[q] # "reclaimWrite"
  BY OneReclaimer
<1>2. ReclaimInv'
  BY <1>1 DEF ReclaimInv, Elsewhere, Reclaims, Owns
<1>3. \A q \in Procs : (Holds(q)' => Holds(q)) /\ (Writes(q)' => Writes(q))
  BY DEF Elsewhere, Holds, Writes
<1>4. FileInv'
  BY <1>3 DEF IInv, FileInv, Owns, Elsewhere
<1>5. Stale => Stale'
  BY <1>3 DEF Stale
<1>6. ProbeInv'
  BY <1>5 DEF IInv, ProbeInv, Elsewhere, processIsRunning
<1> QED
  BY <1>2, <1>4, <1>6 DEF IInv

(* The reclaimer reads the pid in the lock: it runs, or the lock is stale.    *)
LEMMA RereadKeeps ==
  ASSUME IInv, NEW p \in Procs, RereadOwner(p)
  PROVE  IInv'
<1>0. LockTypeOK' /\ Elsewhere(p)
  BY ActsElsewhere DEF IInv, Acts, LockStep
<1> USE DEF RereadOwner, Goto
<1>1. CASE ~Readable(lockFile)
  <2>1. pc'[p] = "exists" /\ pc[p] = "reread"
    BY <1>1 DEF IInv, LockTypeOK
  <2> QED
    BY <1>0, <1>1, <2>1, QuietStep DEF Holds, Reclaims
<1>2. CASE Readable(lockFile)
  <2>1. /\ pc'[p] = "reprobe" /\ pc[p] = "reread" /\ owner'[p] = lockFile.pid
        /\ UNCHANGED <<lockFile, reclaimFile, token, reclaimToken, outcome>>
        /\ lockFile \in LockFile
    BY <1>2 DEF IInv, LockTypeOK, Readable
  <2>2. \A q \in Procs : /\ Holds(q)' <=> Holds(q)
                         /\ Writes(q)' <=> Writes(q)
                         /\ Reclaims(q)' => Reclaims(q)
                         /\ processIsRunning(q)' <=> processIsRunning(q)
    BY <1>0, <2>1 DEF Elsewhere, Holds, Writes, Reclaims, processIsRunning
  <2>3. FileInv'
    BY <1>0, <2>1, <2>2 DEF IInv, FileInv, Owns, Elsewhere
  <2>4. ReclaimInv'
    BY <1>0, <2>1, <2>2 DEF IInv, ReclaimInv, Owns, Elsewhere
  <2>5. Stale' <=> Stale
    BY <2>1, <2>2 DEF Stale
  <2>6. processIsRunning(lockFile.pid) \/ Stale
    <3> SUFFICES ASSUME NEW q \in Procs, Holds(q) \/ Writes(q)
                 PROVE  processIsRunning(lockFile.pid)
      BY <1>2 DEF Stale, Readable
    <3>1. lockFile.pid = q
      BY DEF IInv, FileInv, Owns
    <3> QED
      BY <3>1 DEF Holds, Writes, processIsRunning
  <2>7. ProbeInv'
    BY <1>0, <2>1, <2>2, <2>5, <2>6 DEF IInv, ProbeInv, Elsewhere, LockFile
  <2> QED
    BY <1>0, <2>3, <2>4, <2>7 DEF IInv
<1> QED
  BY <1>1, <1>2

(* The pid no longer runs: then the lock was stale when it was read, and is.  *)
LEMMA ReprobeKeeps ==
  ASSUME IInv, NEW p \in Procs, ReprobeOwner(p)
  PROVE  IInv'
<1>0. LockTypeOK' /\ Elsewhere(p)
  BY ActsElsewhere DEF IInv, Acts, LockStep
<1> USE DEF ReprobeOwner, Goto
<1>1. CASE processIsRunning(owner[p])
  <2>1. /\ pc'[p] = "unreclaim" /\ pc[p] = "reprobe" /\ outcome'[p] = "retry"
        /\ UNCHANGED <<lockFile, reclaimFile, token, reclaimToken>>
    BY <1>1 DEF IInv, LockTypeOK
  <2> QED
    BY <1>0, <2>1, QuietStep DEF Holds, Reclaims
<1>2. CASE ~processIsRunning(owner[p])
  <2>1. /\ pc'[p] = "remove" /\ pc[p] = "reprobe"
        /\ UNCHANGED <<lockFile, reclaimFile, token, reclaimToken, outcome>>
    BY <1>2 DEF IInv, LockTypeOK
  <2>2. \A q \in Procs : /\ Holds(q)' <=> Holds(q)
                         /\ Writes(q)' <=> Writes(q)
                         /\ Reclaims(q)' => Reclaims(q)
                         /\ processIsRunning(q)' <=> processIsRunning(q)
    BY <1>0, <2>1 DEF Elsewhere, Holds, Writes, Reclaims, processIsRunning
  <2>3. FileInv' /\ ReclaimInv'
    BY <1>0, <2>1, <2>2 DEF IInv, FileInv, ReclaimInv, Owns, Elsewhere
  <2>4. Stale /\ (Stale' <=> Stale)
    BY <1>2, <2>1, <2>2 DEF IInv, ProbeInv, Stale
  <2>5. ProbeInv'
    BY <1>0, <2>1, <2>2, <2>4 DEF IInv, ProbeInv, Elsewhere
  <2> QED
    BY <1>0, <2>3, <2>5 DEF IInv
<1> QED
  BY <1>1, <1>2

(* Removing the stale lock takes it from nobody, and nobody else is about to  *)
(* remove it.                                                               *)
LEMMA RemoveStaleKeeps ==
  ASSUME IInv, NEW p \in Procs, RemoveStale(p)
  PROVE  IInv'
<1>0. LockTypeOK' /\ Elsewhere(p)
  BY ActsElsewhere DEF IInv, Acts, LockStep
<1>1. Stale /\ pc[p] = "remove" /\ lockFile # NoFile
  BY DEF RemoveStale, Goto, IInv, ProbeInv, Stale
<1>2. /\ pc'[p] = "recreate" /\ lockFile' = NoFile
      /\ UNCHANGED <<reclaimFile, token, reclaimToken, outcome>>
  BY <1>1 DEF RemoveStale, Goto, IInv, LockTypeOK
<1>3. \A q \in Procs : ~Holds(q)' /\ ~Writes(q)' /\ (Reclaims(q)' => Reclaims(q))
  BY <1>0, <1>1, <1>2 DEF Elsewhere, Holds, Writes, Reclaims, Stale
<1>4. FileInv' /\ ReclaimInv'
  BY <1>0, <1>2, <1>3 DEF IInv, FileInv, ReclaimInv, Owns, Elsewhere
<1>5. \A q \in Procs \ {p} : ~Reclaims(q)
  BY <1>1, OneReclaimer DEF Reclaims
<1>6. ProbeInv'
  BY <1>0, <1>2, <1>5 DEF ProbeInv, Elsewhere, Reclaims
<1> QED
  BY <1>0, <1>4, <1>6 DEF IInv

(* A process ends.  No reclaimer is between reading and probing its pid.      *)
LEMMA ForgetKeeps ==
  ASSUME ~ExitsInWindow, IInv, NEW p \in Procs, MayEnd(p), Forget(p)
  PROVE  IInv'
<1>1. LockTypeOK'
  BY DEF IInv, LockTypeOK, Forget, Pcs
<1>2. /\ pc'[p] = "exited" /\ Elsewhere(p)
      /\ UNCHANGED <<lockFile, reclaimFile>>
  BY DEF IInv, LockTypeOK, Forget, Elsewhere
<1>3. \A q \in Procs : /\ Holds(q)' => q # p /\ Holds(q)
                       /\ Writes(q)' => q # p /\ Writes(q)
                       /\ Reclaims(q)' => q # p /\ Reclaims(q)
  BY <1>2 DEF Elsewhere, Holds, Writes, Reclaims
<1>4. FileInv' /\ ReclaimInv'
  BY <1>2, <1>3 DEF IInv, FileInv, ReclaimInv, Owns, Elsewhere
<1>5. Stale => Stale'
  BY <1>2, <1>3 DEF Stale
<1>6. ProbeInv'
  <2> SUFFICES ASSUME NEW q \in Procs, pc'[q] \in {"reprobe", "remove"}
               PROVE  /\ pc'[q] = "reprobe" => /\ owner'[q] \in Procs
                                               /\ processIsRunning(owner[q])' \/ Stale'
                      /\ pc'[q] = "remove" => Stale'
    BY DEF ProbeInv
  <2>1. q # p /\ pc'[q] = pc[q] /\ owner'[q] = owner[q]
    BY <1>2 DEF Elsewhere
  <2>2. pc[q] = "reprobe" => owner[q] # p
    BY DEF MayEnd
  <2> QED
    BY <1>2, <1>5, <2>1, <2>2 DEF IInv, ProbeInv, Elsewhere, processIsRunning
<1> QED
  BY <1>1, <1>4, <1>6 DEF IInv

-----------------------------------------------------------------------------
(* Every step of the protocol, by what it does to the two files.              *)
LEMMA LockActsKeep ==
  ASSUME IInv, NEW p \in Procs, Acts(p)
  PROVE  IInv'
<1>0. LockTypeOK' /\ Elsewhere(p)
  BY ActsElsewhere DEF IInv
<1> USE DEF Goto
<1>1. CASE CreateLock(p)
  <2>1. CASE lockFile = NoFile
    <3>1. pc'[p] = "write"
      BY <1>1, <2>1 DEF CreateLock, IInv, LockTypeOK
    <3> QED
      BY <1>0, <1>1, <2>1, <3>1, CreateStep DEF CreateLock, Reclaims
  <2>2. CASE lockFile # NoFile
    <3>1. pc'[p] = "read"
      BY <1>1, <2>2 DEF CreateLock, IInv, LockTypeOK
    <3> QED
      BY <1>0, <1>1, <2>2, <3>1, QuietStep DEF CreateLock, Holds, Reclaims
  <2> QED
    BY <2>1, <2>2
<1>2. CASE ReadOwner(p) \/ ProbeOwner(p) \/ PollAgain(p) \/ GiveUp(p)
  <2>1. /\ pc'[p] \in {"probe", "poll", "reclaim", "create", "done"}
        /\ UNCHANGED <<lockFile, reclaimFile, token, reclaimToken>>
    BY <1>2 DEF ReadOwner, ProbeOwner, PollAgain, GiveUp, lockVars, IInv, LockTypeOK
  <2> QED
    BY <1>0, <2>1, QuietStep DEF Holds, Reclaims
<1>3. CASE WriteLock(p) \/ RewriteLock(p)
  <2>1. /\ pc'[p] \in {"critical", "unreclaim"} /\ Writes(p)
        /\ pc'[p] = "unreclaim" => pc[p] = "rewrite"
        /\ UNCHANGED <<reclaimFile, reclaimToken>>
    BY <1>3 DEF WriteLock, RewriteLock, Writes, IInv, LockTypeOK
  <2>2. Owns(lockFile, p, token[p])' /\ token'[p] \in Tokens
    BY <1>3, FreshIsToken DEF WriteLock, RewriteLock, Owns, IInv, LockTypeOK
  <2> QED
    BY <1>0, <2>1, <2>2, OwnerStep DEF Writes, Reclaims
<1>4. CASE WriteLockFails(p) \/ RewriteLockFails(p) \/ RemoveRelease(p)
  <2>1. /\ pc'[p] \in {"done", "unreclaim", "released"} /\ (Holds(p) \/ Writes(p))
        /\ pc'[p] = "unreclaim" => pc[p] = "rewrite" /\ outcome'[p] = "fail"
        /\ UNCHANGED <<reclaimFile, reclaimToken>>
    BY <1>4 DEF WriteLockFails, RewriteLockFails, RemoveRelease, Writes, Holds, IInv, LockTypeOK
  <2> QED
    BY <1>0, <2>1, OwnerStep DEF Writes, Reclaims, Holds
<1>5. CASE CreateReclaim(p)
  <2>1. CASE reclaimFile = NoFile
    <3>1. pc'[p] = "reclaimWrite" /\ Owns(reclaimFile, p, NoToken)'
      BY <1>5, <2>1 DEF CreateReclaim, Owns, IInv, LockTypeOK
    <3> QED
      BY <1>0, <1>5, <2>1, <3>1, ReclaimFileStep DEF CreateReclaim, Holds, Reclaims
  <2>2. CASE reclaimFile # NoFile
    <3>1. pc'[p] = "reclaimPoll"
      BY <1>5, <2>2 DEF CreateReclaim, IInv, LockTypeOK
    <3> QED
      BY <1>0, <1>5, <2>2, <3>1, QuietStep DEF CreateReclaim, Holds, Reclaims
  <2> QED
    BY <2>1, <2>2
<1>6. CASE WriteReclaim(p)
  <2>1. /\ pc'[p] = "reread" /\ pc[p] = "reclaimWrite" /\ UNCHANGED <<lockFile, token>>
        /\ Owns(reclaimFile, p, reclaimToken[p])' /\ reclaimToken'[p] \in Tokens
    BY <1>6, FreshIsToken DEF WriteReclaim, Owns, IInv, LockTypeOK
  <2> QED
    BY <1>0, <2>1, ReclaimFileStep DEF Holds
<1>7. CASE WriteReclaimFails(p)
  <2>1. pc'[p] = "done" /\ pc[p] = "reclaimWrite" /\ UNCHANGED <<lockFile, token>>
    BY <1>7 DEF WriteReclaimFails, IInv, LockTypeOK
  <2> QED
    BY <1>0, <2>1, ReclaimFileStep DEF Holds, Reclaims
<1>8. CASE LockExists(p)
  <2>1. /\ pc'[p] = "unreclaim" /\ pc[p] = "exists" /\ outcome'[p] # "acquired"
        /\ UNCHANGED <<lockFile, reclaimFile, token, reclaimToken>>
    BY <1>8 DEF LockExists, IInv, LockTypeOK
  <2> QED
    BY <1>0, <2>1, QuietStep DEF Holds, Reclaims
<1>9. CASE RecreateLock(p)
  <2>1. CASE lockFile = NoFile
    <3>1. pc'[p] = "rewrite" /\ pc[p] = "recreate"
      BY <1>9, <2>1 DEF RecreateLock, IInv, LockTypeOK
    <3> QED
      BY <1>0, <1>9, <2>1, <3>1, CreateStep DEF RecreateLock, Reclaims
  <2>2. CASE lockFile # NoFile
    <3>1. /\ pc'[p] = "unreclaim" /\ pc[p] = "recreate" /\ outcome'[p] = "retry"
          /\ UNCHANGED <<lockFile, reclaimFile, token, reclaimToken>>
      BY <1>9, <2>2 DEF RecreateLock, IInv, LockTypeOK
    <3> QED
      BY <1>0, <3>1, QuietStep DEF Holds, Reclaims
  <2> QED
    BY <2>1, <2>2
<1>10. CASE CheckReclaim(p)
  <2>1. /\ pc'[p] = "unreclaimRemove" /\ pc[p] = "unreclaim"
        /\ UNCHANGED <<lockFile, reclaimFile, token, reclaimToken, outcome>>
    BY <1>10 DEF CheckReclaim, lockVars, IInv, LockTypeOK, ReclaimInv, Reclaims
  <2> QED
    BY <1>0, <2>1, QuietStep DEF Holds, Reclaims
<1>11. CASE RemoveReclaim(p)
  <2>1. /\ pc[p] = "unreclaimRemove" /\ UNCHANGED <<lockFile, token>>
        /\ pc'[p] = "critical" \/ pc'[p] = "create" \/ pc'[p] = "done"
        /\ pc'[p] = "critical" => outcome[p] = "acquired"
    BY <1>11 DEF RemoveReclaim, IInv, LockTypeOK
  <2> QED
    BY <1>0, <2>1, ReclaimFileStep DEF Holds, Reclaims
<1>12. CASE CheckRelease(p)
  <2>1. /\ pc'[p] \in {"releaseRemove", "done"} /\ pc[p] = "release"
        /\ UNCHANGED <<lockFile, reclaimFile, token, reclaimToken>>
    BY <1>12 DEF CheckRelease, lockVars, IInv, LockTypeOK
  <2> QED
    BY <1>0, <2>1, QuietStep DEF Holds, Reclaims
<1> QED
  BY <1>1, <1>2, <1>3, <1>4, <1>5, <1>6, <1>7, <1>8, <1>9, <1>10, <1>11, <1>12,
     RereadKeeps, ReprobeKeeps, RemoveStaleKeeps DEF Acts, LockStep, WriteFails

(* The work under the lock moves its process inside the critical section or   *)
(* on to the release, and touches no lock.                                   *)
LEMMA WorkKeeps ==
  ASSUME IInv, NEW p \in Procs, NEW from, NEW to, Does(p, from, to)
  PROVE  IInv'
<1>1. /\ pc[p] = "critical" /\ pc' \in [Procs -> Pcs] /\ UNCHANGED lockVars
      /\ pc'[p] \in {"critical", "release"} /\ \A q \in Procs \ {p} : pc'[q] = pc[q]
  BY DEF Does, IInv, LockTypeOK, Pcs
<1>2. LockTypeOK' /\ Elsewhere(p)
  BY <1>1 DEF IInv, LockTypeOK, Elsewhere, lockVars
<1> QED
  BY <1>1, <1>2, QuietStep DEF Holds, Reclaims, lockVars

LEMMA CommandKeeps ==
  ASSUME IInv, NEW p \in Procs, StartCommand(p) \/ AdmitCandidate(p) \/ EndCommand(p)
  PROVE  IInv'
<1>1. /\ pc' \in [Procs -> Pcs] /\ UNCHANGED lockVars
      /\ pc'[p] \in {"create", "done"} /\ \A q \in Procs \ {p} : pc'[q] = pc[q]
  BY DEF StartCommand, Start, AdmitCandidate, EndCommand, Goto, IInv, LockTypeOK, Pcs
<1>2. LockTypeOK' /\ Elsewhere(p)
  BY <1>1 DEF IInv, LockTypeOK, Elsewhere, lockVars
<1> QED
  BY <1>1, <1>2, QuietStep DEF Holds, Reclaims, lockVars

LEMMA WorkIsDone ==
  ASSUME NEW p \in Procs, WorkStep(p) \/ Throws(p)
  PROVE  \E from, to : Does(p, from, to)
BY DEF WorkStep, Throws, ReadJournal, Restore, DropPrevious, RecoverStaged, DropJournal,
       ReadManifest, VerifyFiles, CompareManifest, ClearStaged, BuildStaged, SealStaged,
       OpenJournal, WriteJournal, MoveOld, Install, DropOld, CloseJournal

LEMMA NextKeeps ==
  ASSUME ~ExitsInWindow
  PROVE  IInv /\ [Next]_vars => IInv'
<1> SUFFICES ASSUME IInv, [Next]_vars PROVE IInv'
  OBVIOUS
<1>1. CASE UNCHANGED vars
  BY <1>1 DEF vars, lockVars, IInv, LockTypeOK, FileInv, ReclaimInv, ProbeInv, Stale,
              Holds, Writes, Reclaims, Owns, processIsRunning
<1>2. ASSUME NEW p \in Procs, WorkStep(p) \/ Throws(p) PROVE IInv'
  BY <1>2, WorkIsDone, WorkKeeps
<1>3. ASSUME NEW p \in Procs, Exit(p) \/ Crash(p) PROVE IInv'
  BY <1>3, ForgetKeeps DEF Exit, Crash
<1> QED
  BY <1>1, <1>2, <1>3, LockActsKeep, CommandKeeps DEF Next, Step, Times, Acts

(* The lock of the baseline is safe for every number of processes and every   *)
(* order of their system calls, crashes and restarts, unless a process ends    *)
(* exactly between the second read of its pid and its probe.                  *)
THEOREM LockIsSafe == ~ExitsInWindow => (Spec => []LockSafe)
<1> SUFFICES ASSUME ~ExitsInWindow PROVE Spec => []LockSafe
  OBVIOUS
<1>1. IInv /\ [Next]_vars => IInv'
  BY NextKeeps
<1> QED
  BY <1>1, InitHolds, IInvImpliesSafe, PTL DEF Spec

-----------------------------------------------------------------------------
(* The directories.  What is on disk depends on how far the one process that  *)
(* works under the lock has come; what a dead one left is BaselineWhole.      *)
Good(tree) == tree # NoTree /\ tree.whole

\* The value of the register.
Value == IF root # NoTree THEN root.version ELSE previous.version

TreeTypeOK ==
  /\ root \in Tree \cup {NoTree}
  /\ previous \in Tree \cup {NoTree}
  /\ staged \in Tree \cup {NoTree}
  /\ journal \in {"none", "torn", "valid"}
  /\ work \in [Procs -> Work]
  /\ base \in [Procs -> Versions \cup {NoVersion}]

\* The pc of a process that has not been in the critical section yet.
Acquiring == Pcs \ {"critical", "release", "releaseRemove", "released", "done"}

Replacing == {"clearStaged", "build", "seal", "openJournal", "writeJournal",
              "moveOld", "install"}

RootPresent == (Work \ {"recover", "restore", "install", "passed", "failed"})

\* What the process at a label of the work relies on.
AtWork(p) ==
  /\ work[p] \in RootPresent => Good(root)
  /\ work[p] = "seal" => staged \in Tree
  /\ work[p] \in {"openJournal", "writeJournal", "moveOld", "install"} => Good(staged)
  /\ work[p] \in {"moveOld", "install"} => journal = "valid"
  /\ work[p] = "install" => root = NoTree
  /\ work[p] \in Replacing => base[p] = Value

WorkInv ==
  \A p \in Procs : /\ pc[p] \in Acquiring => work[p] = "recover"
                   /\ pc[p] = "critical" => AtWork(p)

TreeInv == TreeTypeOK /\ BaselineWhole /\ WorkInv

LEMMA TreeInit == Init => TreeInv
<1> SUFFICES ASSUME Init PROVE TreeInv
  OBVIOUS
<1>1. root \in Tree /\ root.whole
  BY BaselineAssumption DEF Init, Tree
<1>2. TreeTypeOK /\ BaselineWhole
  BY <1>1, BaselineAssumption DEF Init, TreeTypeOK, Work, BaselineWhole
<1>3. WorkInv
  BY DEF Init, LockInit, WorkInv
<1> QED
  BY <1>2, <1>3 DEF TreeInv

(* Only one process is in the critical section: to keep the invariant it must *)
(* keep it for itself.                                                       *)
LEMMA WorksAlone ==
  ASSUME IInv, TreeInv, NEW p \in Procs, NEW from, NEW to \in Work, Does(p, from, to),
         TreeTypeOK', BaselineWhole', work'[p] = to => AtWork(p)'
  PROVE  TreeInv'
<1>1. /\ pc[p] = "critical" /\ pc'[p] \in {"critical", "release"} /\ work'[p] = to
      /\ \A q \in Procs \ {p} : pc'[q] = pc[q] /\ work'[q] = work[q]
  BY DEF Does, IInv, LockTypeOK, TreeInv, TreeTypeOK
<1>2. \A q \in Procs \ {p} : pc[q] # "critical"
  BY <1>1, OneOwner DEF Holds
<1>3. WorkInv'
  BY <1>1, <1>2 DEF TreeInv, WorkInv, Acquiring
<1> QED
  BY <1>3 DEF TreeInv

(* A deletion that has begun leaves a directory that is not whole.            *)
LEMMA DeletesTypes ==
  ASSUME NEW tree, NEW after, tree \in Tree \cup {NoTree},
         \/ tree # NoTree /\ after = NoTree
         \/ tree # NoTree /\ tree.whole /\ after = [tree EXCEPT !.whole = FALSE]
  PROVE  after \in Tree \cup {NoTree}
BY DEF Tree

-----------------------------------------------------------------------------
(* The recovery, under whatever a dead process left.                          *)
LEMMA RecoveryKeeps ==
  ASSUME IInv, TreeInv, NEW p \in Procs,
         ReadJournal(p) \/ Restore(p) \/ DropPrevious(p) \/ RecoverStaged(p) \/ DropJournal(p)
  PROVE  TreeInv'
<1> USE DEF TreeInv
<1>0. pc[p] = "critical" => AtWork(p)
  BY DEF WorkInv
<1>1. CASE ReadJournal(p)
  <2>1. PICK to \in Work : Does(p, "recover", to) /\ to \in {"body", "failed", "restore"}
                           /\ (to = "body" => journal = "none")
    BY <1>1 DEF ReadJournal, TreeTypeOK, Work
  <2>2. TreeTypeOK' /\ BaselineWhole' /\ UNCHANGED treeVars
    BY <1>1, <2>1 DEF ReadJournal, treeVars, TreeTypeOK, BaselineWhole, Does
  <2>3. work'[p] = to => AtWork(p)'
    BY <2>1, <2>2 DEF AtWork, BaselineWhole, Good, treeVars, RootPresent, Replacing
  <2> QED
    BY <2>1, <2>2, <2>3, WorksAlone
<1>2. CASE Restore(p)
  <2>1. PICK to \in Work : /\ Does(p, "restore", to)
                           /\ to \in {"recoverStaged", "dropPrevious", "failed"}
                           /\ to # "failed" => Good(root)'
    BY <1>2 DEF Restore, Work, BaselineWhole, Good
  <2>2. TreeTypeOK' /\ BaselineWhole'
    BY <1>2, <2>1 DEF Restore, TreeTypeOK, BaselineWhole, Does
  <2>3. work'[p] = to => AtWork(p)'
    BY <2>1 DEF AtWork, RootPresent, Replacing
  <2> QED
    BY <2>1, <2>2, <2>3, WorksAlone
<1>3. CASE DropPrevious(p)
  <2>1. PICK to \in Work : Does(p, "dropPrevious", to)
                           /\ to \in {"recoverStaged", "dropPrevious"}
    BY <1>3 DEF DropPrevious, Work
  <2>2. Good(root) /\ UNCHANGED <<root, staged, journal, base>>
    BY <1>0, <1>3, <2>1 DEF DropPrevious, Does, AtWork, RootPresent, Work
  <2>3. previous' \in Tree \cup {NoTree}
    BY <1>3, DeletesTypes DEF DropPrevious, Deletes, TreeTypeOK
  <2>4. TreeTypeOK' /\ BaselineWhole'
    BY <2>1, <2>2, <2>3 DEF TreeTypeOK, BaselineWhole, Does, Good
  <2>5. work'[p] = to => AtWork(p)'
    BY <2>1, <2>2 DEF AtWork, RootPresent, Replacing, Good
  <2> QED
    BY <2>1, <2>4, <2>5, WorksAlone
<1>4. CASE RecoverStaged(p)
  <2>1. PICK to \in Work : Does(p, "recoverStaged", to)
                           /\ to \in {"recoverStaged", "dropJournal"}
    BY <1>4 DEF RecoverStaged, Work
  <2>2. Good(root) /\ UNCHANGED <<root, previous, journal, base>>
    BY <1>0, <1>4, <2>1 DEF RecoverStaged, Does, AtWork, RootPresent, Work
  <2>3. staged' \in Tree \cup {NoTree}
    BY <1>4, DeletesTypes DEF RecoverStaged, Deletes, TreeTypeOK
  <2>4. TreeTypeOK' /\ BaselineWhole'
    BY <2>1, <2>2, <2>3 DEF TreeTypeOK, BaselineWhole, Does, Good
  <2>5. work'[p] = to => AtWork(p)'
    BY <2>1, <2>2 DEF AtWork, RootPresent, Replacing, Good
  <2> QED
    BY <2>1, <2>4, <2>5, WorksAlone
<1>5. CASE DropJournal(p)
  <2>1. Does(p, "dropJournal", "body") /\ "body" \in Work
    BY <1>5 DEF DropJournal, Work
  <2>2. Good(root) /\ UNCHANGED <<root, previous, staged, base>> /\ journal' = "none"
    BY <1>0, <1>5, <2>1 DEF DropJournal, Does, AtWork, RootPresent, Work
  <2>4. TreeTypeOK' /\ BaselineWhole'
    BY <2>1, <2>2 DEF TreeTypeOK, BaselineWhole, Does, Good
  <2>5. work'[p] = "body" => AtWork(p)'
    BY <2>1, <2>2 DEF AtWork, RootPresent, Replacing, Good
  <2> QED
    BY <2>1, <2>4, <2>5, WorksAlone
<1> QED
  BY <1>1, <1>2, <1>3, <1>4, <1>5

(* The check, and the comparison with which an admission begins to write.     *)
LEMMA CheckKeeps ==
  ASSUME IInv, TreeInv, NEW p \in Procs,
         ReadManifest(p) \/ VerifyFiles(p) \/ CompareManifest(p)
  PROVE  TreeInv'
<1> USE DEF TreeInv
<1>0. pc[p] = "critical" => AtWork(p)
  BY DEF WorkInv
<1>1. UNCHANGED treeVars
  BY DEF ReadManifest, VerifyFiles, CompareManifest
<1>2. PICK to \in Work : /\ Does(p, "body", to) \/ Does(p, "verify", to)
                         /\ to \in {"verify", "passed", "failed", "clearStaged"}
                         /\ to = "clearStaged" =>
                              base[p] = Value /\ UNCHANGED base
  BY DEF ReadManifest, VerifyFiles, CompareManifest, Work, Value
<1>3. Good(root)
  BY <1>0, <1>2 DEF Does, AtWork, RootPresent, Work
<1>4. base' \in [Procs -> Versions \cup {NoVersion}]
  BY <1>3 DEF ReadManifest, VerifyFiles, CompareManifest, TreeTypeOK, Tree, Good
<1>5. TreeTypeOK' /\ BaselineWhole'
  BY <1>1, <1>2, <1>4 DEF TreeTypeOK, BaselineWhole, Does, treeVars
<1>6. work'[p] = to => AtWork(p)'
  BY <1>1, <1>2, <1>3 DEF AtWork, RootPresent, Replacing, Good, Value, treeVars
<1> QED
  BY <1>2, <1>5, <1>6, WorksAlone

(* Building the new directory beside the old one.                             *)
LEMMA BuildKeeps ==
  ASSUME IInv, TreeInv, NEW p \in Procs,
         ClearStaged(p) \/ BuildStaged(p) \/ SealStaged(p) \/ OpenJournal(p) \/ WriteJournal(p)
  PROVE  TreeInv'
<1> USE DEF TreeInv
<1>0. pc[p] = "critical" => AtWork(p)
  BY DEF WorkInv
<1>1. PICK from \in {"clearStaged", "build", "seal", "openJournal", "writeJournal"} :
        \E to \in Work : Does(p, from, to)
  BY DEF ClearStaged, BuildStaged, SealStaged, OpenJournal, WriteJournal, Work
<1>2. /\ Good(root) /\ base[p] = Value /\ UNCHANGED <<root, previous, base>>
      /\ from \in {"openJournal", "writeJournal"} => Good(staged)
  BY <1>0, <1>1 DEF ClearStaged, BuildStaged, SealStaged, OpenJournal, WriteJournal, Does,
                    AtWork, RootPresent, Replacing, Work
<1>3. BaselineWhole' /\ Good(root)' /\ base'[p] = Value'
  BY <1>2 DEF BaselineWhole, Good, Value
<1>4. CASE ClearStaged(p)
  <2>1. PICK to \in Work : Does(p, "clearStaged", to) /\ to \in {"clearStaged", "build"}
    BY <1>4 DEF ClearStaged, Work
  <2>2. staged' \in Tree \cup {NoTree} /\ UNCHANGED journal
    BY <1>4, DeletesTypes DEF ClearStaged, Deletes, TreeTypeOK
  <2>3. TreeTypeOK'
    BY <1>2, <2>1, <2>2 DEF TreeTypeOK, Does
  <2>4. work'[p] = to => AtWork(p)'
    BY <1>3, <2>1 DEF AtWork
  <2> QED
    BY <1>3, <2>1, <2>3, <2>4, WorksAlone
<1>5. CASE BuildStaged(p)
  <2>1. Does(p, "build", "seal") /\ "seal" \in Work
    BY <1>5 DEF BuildStaged, Work
  <2>2. staged' \in Tree /\ UNCHANGED journal
    BY <1>5 DEF BuildStaged, Tree
  <2>3. TreeTypeOK'
    BY <1>2, <2>1, <2>2 DEF TreeTypeOK, Does
  <2>4. work'[p] = "seal" => AtWork(p)'
    BY <1>3, <2>2 DEF AtWork
  <2> QED
    BY <1>3, <2>1, <2>3, <2>4, WorksAlone
<1>6. CASE SealStaged(p)
  <2>1. Does(p, "seal", "openJournal") /\ "openJournal" \in Work
    BY <1>6 DEF SealStaged, Work
  <2>2. staged \in Tree /\ UNCHANGED journal
    BY <1>0, <1>6, <2>1 DEF SealStaged, Does, AtWork
  <2>3. staged' \in Tree /\ Good(staged)'
    BY <1>6, <2>2, BaselineAssumption DEF SealStaged, Tree, Good
  <2>4. TreeTypeOK'
    BY <1>2, <2>1, <2>2, <2>3 DEF TreeTypeOK, Does
  <2>5. work'[p] = "openJournal" => AtWork(p)'
    BY <1>3, <2>3 DEF AtWork
  <2> QED
    BY <1>3, <2>1, <2>4, <2>5, WorksAlone
<1>7. CASE OpenJournal(p) \/ WriteJournal(p)
  <2>1. PICK to \in Work : /\ Does(p, "openJournal", to) \/ Does(p, "writeJournal", to)
                           /\ to \in {"writeJournal", "moveOld"}
                           /\ journal' = IF to = "moveOld" THEN "valid" ELSE "torn"
    <3>1. "writeJournal" \in Work /\ "moveOld" \in Work
      BY DEF Work
    <3>2. CASE OpenJournal(p)
      BY <3>1, <3>2 DEF OpenJournal
    <3>3. CASE WriteJournal(p)
      BY <3>1, <3>3 DEF WriteJournal
    <3> QED
      BY <1>7, <3>2, <3>3
  <2>2. Good(staged) /\ UNCHANGED staged
    BY <1>0, <1>7 DEF OpenJournal, WriteJournal, Does, AtWork
  <2>3. TreeTypeOK'
    BY <1>2, <2>1, <2>2 DEF TreeTypeOK, Does
  <2>4. work'[p] = to => AtWork(p)'
    BY <1>3, <2>1, <2>2 DEF AtWork, Good
  <2> QED
    BY <1>3, <2>1, <2>3, <2>4, WorksAlone
<1> QED
  BY <1>4, <1>5, <1>6, <1>7

(* The two renames and what follows them.                                     *)
LEMMA ReplaceKeeps ==
  ASSUME IInv, TreeInv, NEW p \in Procs,
         MoveOld(p) \/ Install(p) \/ DropOld(p) \/ CloseJournal(p)
  PROVE  TreeInv'
<1> USE DEF TreeInv
<1>0. pc[p] = "critical" => AtWork(p)
  BY DEF WorkInv
<1>1. CASE MoveOld(p)
  <2>1. PICK to \in Work : Does(p, "moveOld", to) /\ to \in {"install", "failed"}
                           /\ (to = "failed" => UNCHANGED <<root, previous>>)
                           /\ (to = "install" => previous' = root /\ root' = NoTree)
    BY <1>1 DEF MoveOld, Work
  <2>2. /\ Good(root) /\ Good(staged) /\ journal = "valid" /\ base[p] = Value
        /\ UNCHANGED <<staged, journal, base>>
    BY <1>0, <1>1, <2>1 DEF MoveOld, Does, AtWork, RootPresent, Replacing, Work
  <2>3. TreeTypeOK' /\ BaselineWhole' /\ Value' = Value
    BY <2>1, <2>2 DEF TreeTypeOK, BaselineWhole, Does, Good, Value
  <2>4. work'[p] = to => AtWork(p)'
    BY <2>1, <2>2, <2>3 DEF AtWork, RootPresent, Replacing, Good
  <2> QED
    BY <2>1, <2>3, <2>4, WorksAlone
<1>2. CASE Install(p)
  <2>1. PICK to \in Work : Does(p, "install", to) /\ to \in {"dropOld", "failed"}
                           /\ (to = "failed" => UNCHANGED <<root, staged>>)
                           /\ (to = "dropOld" => root' = staged /\ staged' = NoTree)
    BY <1>2 DEF Install, Work
  <2>2. Good(staged) /\ UNCHANGED <<previous, journal, base>>
    BY <1>0, <1>2, <2>1 DEF Install, Does, AtWork
  <2>3. TreeTypeOK' /\ BaselineWhole'
    BY <2>1, <2>2 DEF TreeTypeOK, BaselineWhole, Does, Good
  <2>4. work'[p] = to => AtWork(p)'
    BY <2>1, <2>2 DEF AtWork, RootPresent, Replacing, Good
  <2> QED
    BY <2>1, <2>3, <2>4, WorksAlone
<1>3. CASE DropOld(p)
  <2>1. PICK to \in Work : Does(p, "dropOld", to) /\ to \in {"dropOld", "closeJournal"}
    BY <1>3 DEF DropOld, Work
  <2>2. Good(root) /\ UNCHANGED <<root, staged, journal, base>>
    BY <1>0, <1>3, <2>1 DEF DropOld, Does, AtWork, RootPresent, Work
  <2>3. previous' \in Tree \cup {NoTree}
    BY <1>3, DeletesTypes DEF DropOld, Deletes, TreeTypeOK
  <2>4. TreeTypeOK' /\ BaselineWhole'
    BY <2>1, <2>2, <2>3 DEF TreeTypeOK, BaselineWhole, Does, Good
  <2>5. work'[p] = to => AtWork(p)'
    BY <2>1, <2>2 DEF AtWork, RootPresent, Replacing, Good
  <2> QED
    BY <2>1, <2>4, <2>5, WorksAlone
<1>4. CASE CloseJournal(p)
  <2>1. Does(p, "closeJournal", "passed") /\ "passed" \in Work
    BY <1>4 DEF CloseJournal, Work
  <2>2. Good(root) /\ UNCHANGED <<root, previous, staged>> /\ journal' = "none"
    BY <1>0, <1>4, <2>1 DEF CloseJournal, Does, AtWork, RootPresent, Work
  <2>3. base' \in [Procs -> Versions \cup {NoVersion}]
    BY <1>4 DEF CloseJournal, TreeTypeOK
  <2>4. TreeTypeOK' /\ BaselineWhole'
    BY <2>1, <2>2, <2>3 DEF TreeTypeOK, BaselineWhole, Does, Good
  <2>5. work'[p] = "passed" => AtWork(p)'
    BY <2>1, <2>2 DEF AtWork, RootPresent, Replacing
  <2> QED
    BY <2>1, <2>4, <2>5, WorksAlone
<1> QED
  BY <1>1, <1>2, <1>3, <1>4

LEMMA ThrowsKeeps ==
  ASSUME IInv, TreeInv, NEW p \in Procs, Throws(p)
  PROVE  TreeInv'
<1>1. Does(p, work[p], "failed") /\ "failed" \in Work /\ UNCHANGED <<treeVars, base>>
  BY DEF Throws, Work
<1>2. TreeTypeOK' /\ BaselineWhole'
  BY <1>1 DEF TreeInv, TreeTypeOK, BaselineWhole, treeVars, Does
<1>3. work'[p] = "failed" => AtWork(p)'
  BY DEF AtWork, RootPresent, Replacing
<1> QED
  BY <1>1, <1>2, <1>3, WorksAlone

-----------------------------------------------------------------------------
(* Every other step leaves the directories alone, and whoever enters the      *)
(* critical section begins with the recovery.                                *)
LEMMA OutsideKeeps ==
  ASSUME IInv, TreeInv, NEW p \in Procs, UNCHANGED treeVars, TreeTypeOK',
         \A q \in Procs \ {p} : pc'[q] = pc[q] /\ work'[q] = work[q] /\ base'[q] = base[q],
         pc'[p] \in Acquiring \cup {"critical"} => work'[p] = "recover"
  PROVE  TreeInv'
<1>1. BaselineWhole'
  BY DEF TreeInv, BaselineWhole, treeVars
<1>2. WorkInv'
  BY DEF TreeInv, WorkInv, AtWork, Value, treeVars, RootPresent, Replacing, Acquiring, Good
<1> QED
  BY <1>1, <1>2 DEF TreeInv

\* A step of the lock protocol comes to the critical section from outside.
LEMMA ActsFrom ==
  ASSUME LockTypeOK, NEW p \in Procs, Acts(p), pc'[p] \in Acquiring \cup {"critical"}
  PROVE  pc[p] \in Acquiring
<1> USE DEF LockTypeOK, Goto, Pcs, Acquiring
<1>1. CASE CreateLock(p) \/ ReadOwner(p) \/ ProbeOwner(p) \/ PollAgain(p) \/ GiveUp(p)
  BY <1>1 DEF CreateLock, ReadOwner, ProbeOwner, PollAgain, GiveUp
<1>2. CASE WriteLock(p) \/ RewriteLock(p) \/ WriteReclaim(p) \/ WriteFails(p)
  BY <1>2 DEF WriteLock, RewriteLock, WriteReclaim, WriteFails, WriteLockFails,
              WriteReclaimFails, RewriteLockFails
<1>3. CASE CreateReclaim(p) \/ RereadOwner(p) \/ LockExists(p) \/ ReprobeOwner(p)
  BY <1>3 DEF CreateReclaim, RereadOwner, LockExists, ReprobeOwner
<1>4. CASE RemoveStale(p) \/ RecreateLock(p) \/ CheckReclaim(p) \/ RemoveReclaim(p)
  BY <1>4 DEF RemoveStale, RecreateLock, CheckReclaim, RemoveReclaim
<1>5. CASE CheckRelease(p) \/ RemoveRelease(p)
  BY <1>5 DEF CheckRelease, RemoveRelease
<1> QED
  BY <1>1, <1>2, <1>3, <1>4, <1>5 DEF Acts, LockStep

LEMMA ActsKeepTrees ==
  ASSUME IInv, TreeInv, NEW p \in Procs, Acts(p), LockOnly(p)
  PROVE  TreeInv'
<1>1. UNCHANGED treeVars /\ UNCHANGED <<work, base>> /\ TreeTypeOK'
  BY DEF LockOnly, treeVars, opVars, TreeInv, TreeTypeOK
<1>2. \A q \in Procs \ {p} : pc'[q] = pc[q]
  BY ActsElsewhere DEF IInv, Elsewhere
<1>3. pc'[p] \in Acquiring \cup {"critical"} => work'[p] = "recover"
  BY <1>1, ActsFrom DEF IInv, TreeInv, WorkInv
<1> QED
  BY <1>1, <1>2, <1>3, OutsideKeeps

LEMMA CommandKeepsTrees ==
  ASSUME IInv, TreeInv, NEW p \in Procs,
         \/ StartCommand(p) \/ AdmitCandidate(p) \/ EndCommand(p)
         \/ Exit(p) /\ ForgetCommand(p)
         \/ Crash(p) /\ ForgetCommand(p)
  PROVE  TreeInv'
<1>1. /\ UNCHANGED treeVars
      /\ \A q \in Procs \ {p} : pc'[q] = pc[q] /\ work'[q] = work[q] /\ base'[q] = base[q]
  BY DEF StartCommand, Start, AdmitCandidate, EndCommand, Exit, Crash, ForgetCommand, Forget,
         Goto, IInv, LockTypeOK, TreeInv, TreeTypeOK, opVars, treeVars
<1>2. TreeTypeOK'
  BY <1>1 DEF StartCommand, AdmitCandidate, EndCommand, ForgetCommand,
              TreeInv, TreeTypeOK, opVars, treeVars, Work
<1>3. pc'[p] \in Acquiring \cup {"critical"} => work'[p] = "recover"
  BY DEF StartCommand, Start, AdmitCandidate, EndCommand, ForgetCommand, Goto, Acquiring,
         Pcs, IInv, LockTypeOK, TreeInv, TreeTypeOK, WorkInv
<1> QED
  BY <1>1, <1>2, <1>3, OutsideKeeps

LEMMA TreeNextKeeps ==
  IInv /\ TreeInv /\ [Next]_vars => TreeInv'
<1> SUFFICES ASSUME IInv, TreeInv, [Next]_vars PROVE TreeInv'
  OBVIOUS
<1>1. CASE UNCHANGED vars
  BY <1>1 DEF vars, treeVars, opVars, TreeInv, TreeTypeOK, BaselineWhole, WorkInv, AtWork,
              Value, Good
<1>2. ASSUME NEW p \in Procs, WorkStep(p) PROVE TreeInv'
  BY <1>2, RecoveryKeeps, CheckKeeps, BuildKeeps, ReplaceKeeps DEF WorkStep
<1> QED
  BY <1>1, <1>2, ThrowsKeeps, ActsKeepTrees, CommandKeepsTrees
     DEF Next, Step, Times, Acts

(* Whatever is interrupted, and in whatever order processes crash and come    *)
(* back, a whole baseline is at its path, or beside it with a valid journal.  *)
THEOREM BaselineStaysWhole == ~ExitsInWindow => (Spec => []BaselineWhole)
<1> SUFFICES ASSUME ~ExitsInWindow PROVE Spec => []BaselineWhole
  OBVIOUS
<1>1. IInv /\ [Next]_vars => IInv'
  BY NextKeeps
<1>2. TreeInv => BaselineWhole
  BY DEF TreeInv
<1> QED
  BY <1>1, <1>2, InitHolds, TreeInit, TreeNextKeeps, PTL DEF Spec

-----------------------------------------------------------------------------
(* The register.  Only the second rename of an admission changes its value,   *)
(* and the admission still has the value it replaces.                        *)
LEMMA InitIsRegister == Init => Register!Init
BY BaselineAssumption DEF Init, Register!Init

LEMMA KeepsRegister ==
  ASSUME NEW p \in Procs, Value' = Value,
         \/ UNCHANGED base
         \/ base' = [base EXCEPT ![p] = Value]
         \/ base' = [base EXCEPT ![p] = NoVersion]
  PROVE  [Register!Next]_(Register!vars)
BY DEF Value, Register!Next, Register!vars, Register!Read, Register!Forget

LEMMA WorkIsRegister ==
  ASSUME IInv, TreeInv, NEW p \in Procs, WorkStep(p)
  PROVE  [Register!Next]_(Register!vars)
<1> USE DEF TreeInv
<1>0. pc[p] = "critical" => AtWork(p)
  BY DEF WorkInv
<1>1. CASE Install(p)
  <2>1. CASE UNCHANGED root
    BY <1>1, <2>1, KeepsRegister DEF Install, Value
  <2>2. CASE root' = staged /\ staged # NoTree
    <3>1. base[p] = Value /\ UNCHANGED base /\ Value' \in Versions
      BY <1>0, <1>1, <2>2 DEF Install, Does, AtWork, Replacing, Value, TreeTypeOK, Tree
    <3> QED
      BY <3>1 DEF Value, Register!Next, Register!Replace
  <2> QED
    BY <1>1, <2>1, <2>2 DEF Install
<1>2. CASE MoveOld(p)
  <2>1. Value' = Value /\ UNCHANGED base
    BY <1>2, BaselineAssumption DEF MoveOld, Value
  <2> QED
    BY <2>1, KeepsRegister
<1>3. CASE Restore(p)
  <2>1. Value' = Value /\ UNCHANGED base
    BY <1>3 DEF Restore, Value
  <2> QED
    BY <2>1, KeepsRegister
<1>4. CASE DropPrevious(p) \/ DropOld(p)
  <2>1. Good(root) /\ UNCHANGED <<root, base>>
    BY <1>0, <1>4 DEF DropPrevious, DropOld, Does, AtWork, RootPresent, Work
  <2> QED
    BY <2>1, KeepsRegister DEF Value, Good
<1>5. CASE ReadManifest(p) \/ VerifyFiles(p) \/ CloseJournal(p)
  <2>1. Value' = Value
    BY <1>5 DEF ReadManifest, VerifyFiles, CloseJournal, treeVars, Value
  <2>2. \/ UNCHANGED base
        \/ base' = [base EXCEPT ![p] = Value]
        \/ base' = [base EXCEPT ![p] = NoVersion]
    BY <1>5 DEF ReadManifest, VerifyFiles, CloseJournal, Value
  <2> QED
    BY <2>1, <2>2, KeepsRegister
<1>6. CASE ReadJournal(p) \/ RecoverStaged(p) \/ DropJournal(p) \/ CompareManifest(p)
  <2>1. UNCHANGED <<root, previous, base>>
    BY <1>6 DEF ReadJournal, RecoverStaged, DropJournal, CompareManifest, treeVars
  <2> QED
    BY <2>1, KeepsRegister DEF Value
<1>7. CASE ClearStaged(p) \/ BuildStaged(p) \/ SealStaged(p) \/ OpenJournal(p) \/ WriteJournal(p)
  <2>1. UNCHANGED <<root, previous, base>>
    BY <1>7 DEF ClearStaged, BuildStaged, SealStaged, OpenJournal, WriteJournal
  <2> QED
    BY <2>1, KeepsRegister DEF Value
<1> QED
  BY <1>1, <1>2, <1>3, <1>4, <1>5, <1>6, <1>7 DEF WorkStep

LEMMA NextIsRegister ==
  IInv /\ TreeInv /\ [Next]_vars => [Register!Next]_(Register!vars)
<1> SUFFICES ASSUME IInv, TreeInv, [Next]_vars PROVE [Register!Next]_(Register!vars)
  OBVIOUS
<1>1. CASE UNCHANGED vars
  BY <1>1 DEF vars, treeVars, opVars, Register!vars
<1>2. ASSUME NEW p \in Procs, \/ StartCommand(p) \/ AdmitCandidate(p) \/ EndCommand(p)
                              \/ ForgetCommand(p) \/ LockOnly(p) \/ Throws(p)
      PROVE  [Register!Next]_(Register!vars)
  <2>1. UNCHANGED <<root, previous>>
    BY <1>2 DEF StartCommand, AdmitCandidate, EndCommand, ForgetCommand, LockOnly, Throws,
                treeVars, opVars
  <2>2. UNCHANGED base \/ base' = [base EXCEPT ![p] = NoVersion]
    BY <1>2 DEF StartCommand, AdmitCandidate, EndCommand, ForgetCommand, LockOnly, Throws,
                treeVars, opVars
  <2> QED
    BY <2>1, <2>2, KeepsRegister DEF Value
<1> QED
  BY <1>1, <1>2, WorkIsRegister DEF Next, Step, Times

(* The directories, journals and locks implement one value that an admission  *)
(* replaces only while it is the value that it has checked.                   *)
THEOREM BaselineIsRegister == ~ExitsInWindow => (Spec => RefinesRegister)
<1> SUFFICES ASSUME ~ExitsInWindow PROVE Spec => RefinesRegister
  OBVIOUS
<1>1. IInv /\ [Next]_vars => IInv'
  BY NextKeeps
<1> QED
  BY <1>1, InitHolds, TreeInit, TreeNextKeeps, InitIsRegister, NextIsRegister, PTL
     DEF Spec, RefinesRegister, Register!Spec
=============================================================================
