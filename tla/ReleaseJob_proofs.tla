-------------------------- MODULE ReleaseJob_proofs -------------------------
(* For every set of commits, files and policies, any number of pushes, jobs, *)
(* failing calls and changed files: what is published is what was reviewed,  *)
(* and stays; versions follow main; the releases page, read archive by       *)
(* archive, is a ledger; and no honest build is refused.                     *)
EXTENDS ReleaseJob, FiniteSetTheorems, SequenceTheorems, TLAPS

\* The archive that the files of the job's commit make.
Reviewed == Package(Checkout(commit), version, commit)

Built == {"smoke", "tag", "recheck", "rebuild", "approve", "capture", "view", "clear", "stage",
          "create", "upload", "edit"}
Checked == Built \cup {"build", "verify"}
Untagged == {"build", "verify", "smoke", "tag"}
Captured == {"view", "clear", "stage", "create", "upload", "edit"}

KindInv == pc # "idle" => kind \in {"release", "repair"}

ReleaseShape ==
  \A v \in DOMAIN releases :
    \E s, i, a : releases[v] = [state |-> s, immutable |-> i, assets |-> a]

\* What the job holds is the archive of its commit, and the tag says so.
JobInv ==
  /\ pc \in {"verify", "approve"} => sources = Checkout(commit)
  /\ pc \in Built => approved = Reviewed
  /\ pc \in Captured => receipt = Pair(Reviewed)
  /\ pc \in Checked /\ (kind = "repair" \/ pc \notin Untagged)
       => LightTag(version, commit) \in remoteTags

\* The release a job writes to is a draft, and complete when it is published.
WritesDraft == pc \in {"clear", "upload", "edit"} \/ (pc = "stage" /\ kind = "repair")
DraftInv ==
  /\ WritesDraft => Hosted /\ releases[version].state = "draft"
  /\ pc = "edit" => releases[version].assets = Uploaded(receipt)

IInv == KindInv /\ ReleaseShape /\ JobInv /\ DraftInv /\ PublishedIsReviewed

-----------------------------------------------------------------------------
(* What is read of a commit without complaint is the commit's: a store that  *)
(* gives every object its own content leaves nothing else to read.           *)
LEMMA SourceIsCheckout ==
  ASSUME NEW r, NEW c, ReviewedSource(r, c) # NoTree
  PROVE  ReviewedSource(r, c) = Checkout(c)
<1>1. /\ ReviewedSource(r, c) =
           [f \in FilesIn(c) |-> [bytes |-> ReadObject(r, EntryOf(c, f)),
                                  executable |-> Executable(EntryOf(c, f))]]
      /\ \A e \in Entries(c) : ObjectIntact(r, e)
  BY DEF ReviewedSource, Materialize
<1>2. ASSUME NEW f \in FilesIn(c) PROVE EntryOf(c, f) \in Entries(c)
  BY DEF EntryOf, FilesIn
<1>3. ASSUME NEW f \in FilesIn(c)
      PROVE  ReadObject(r, EntryOf(c, f)) = EntryOf(c, f).object
  BY <1>1, <1>2 DEF ObjectIntact
<1> QED
  BY <1>1, <1>3 DEF Checkout

LEMMA ReadingIsCheckout ==
  ASSUME NEW files \in Readings
  PROVE  files = Checkout(commit)
BY SourceIsCheckout DEF Readings

LEMMA VerifiedIsReviewed ==
  ASSUME NEW zip, sources = Checkout(commit),
         VerifiedArtifact(zip, PackageOf(sources), sources, version, commit)
  PROVE  zip = Reviewed
BY DEF VerifiedArtifact, PackageOf, Reviewed

LEMMA InitHolds == Init => IInv
<1> SUFFICES ASSUME Init PROVE IInv
  OBVIOUS
<1> DEFINE first == [state |-> "published", immutable |-> TRUE,
         assets |-> Uploaded(Pair(Package(Checkout(FirstCommit), FirstVersion, FirstCommit)))]
<1>1. releases = [v \in {FirstVersion} |-> first]
  BY DEF Init
<1>2. KindInv /\ JobInv /\ DraftInv
  BY DEF Init, KindInv, JobInv, DraftInv, WritesDraft, Built, Checked, Untagged, Captured
<1>3. ReleaseShape
  BY <1>1 DEF ReleaseShape
<1>4. PublishedIsReviewed
  <2>1. LightTag(FirstVersion, FirstCommit) \in remoteTags
    BY DEF Init
  <2> QED
    BY <1>1, <2>1 DEF PublishedIsReviewed, LightTag
<1> QED
  BY <1>2, <1>3, <1>4 DEF IInv

-----------------------------------------------------------------------------
(* Steps that leave the hosted releases alone keep what is said of them, as  *)
(* tags are only added.                                                      *)
LEMMA HostKept ==
  ASSUME IInv, UNCHANGED releases, remoteTags \subseteq remoteTags'
  PROVE  ReleaseShape' /\ PublishedIsReviewed'
<1>1. ReleaseShape'
  BY DEF IInv, ReleaseShape
<1>2. PublishedIsReviewed'
  BY DEF IInv, PublishedIsReviewed
<1> QED
  BY <1>1, <1>2

LEMMA EndKeeps ==
  ASSUME Ends
  PROVE  KindInv' /\ JobInv' /\ DraftInv'
BY DEF Ends, KindInv, JobInv, DraftInv, WritesDraft, Built, Checked, Untagged, Captured

LEMMA EndAloneKeeps ==
  ASSUME IInv, Ends, UNCHANGED releases, remoteTags \subseteq remoteTags'
  PROVE  IInv'
BY EndKeeps, HostKept DEF IInv

(* A job that only changes its files on disk.                                *)
LEMMA SameJob ==
  ASSUME IInv, UNCHANGED <<pc, kind, commit, version, sources, approved, receipt, releases>>,
         remoteTags \subseteq remoteTags'
  PROVE  IInv'
<1>1. ReleaseShape' /\ PublishedIsReviewed'
  BY HostKept
<1>2. KindInv' /\ JobInv' /\ DraftInv'
  BY DEF IInv, KindInv, JobInv, DraftInv, WritesDraft, Hosted, Reviewed
<1> QED
  BY <1>1, <1>2 DEF IInv

(* A job that goes on to another step and holds on to its commit, its        *)
(* version and the hosted releases.                                          *)
LEMMA GoesOn ==
  ASSUME IInv, UNCHANGED <<kind, commit, version, releases>>,
         remoteTags \subseteq remoteTags', pc # "idle",
         pc' \in {"verify", "approve"} => sources' = Checkout(commit),
         pc' \in Built => approved' = Reviewed,
         pc' \in Captured => receipt' = Pair(Reviewed),
         pc' \in Checked /\ (kind = "repair" \/ pc' \notin Untagged)
           => LightTag(version, commit) \in remoteTags',
         pc' \notin {"clear", "upload", "edit"},
         pc' = "stage" /\ kind = "repair" => Hosted /\ releases[version].state = "draft"
  PROVE  IInv'
<1>1. ReleaseShape' /\ PublishedIsReviewed'
  BY HostKept
<1>2. KindInv'
  BY DEF IInv, KindInv
<1>3. Reviewed' = Reviewed
  BY DEF Reviewed
<1>4. JobInv'
  BY <1>3 DEF JobInv
<1>5. DraftInv'
  BY DEF DraftInv, WritesDraft, Hosted
<1> QED
  BY <1>1, <1>2, <1>4, <1>5 DEF IInv

-----------------------------------------------------------------------------
(* The steps of the others, of the start of a job and of its accidents.      *)
LEMMA OthersKeep ==
  ASSUME IInv, NEW c, Push(c) \/ PushOtherTag
  PROVE  IInv'
<1>1. UNCHANGED <<pc, kind, commit, version, sources, approved, receipt, releases>>
  BY DEF Push, PushOtherTag, jobVars
<1>2. remoteTags \subseteq remoteTags'
  BY DEF Push, PushOtherTag
<1> QED
  BY <1>1, <1>2, SameJob

LEMMA StartKeeps ==
  ASSUME IInv, NEW c, StartRelease(c) \/ StartRepair(c)
  PROVE  IInv'
<1>1. UNCHANGED releases /\ remoteTags' = remoteTags
      /\ pc' \in {"derive", "check"} /\ kind' \in {"release", "repair"}
  BY DEF StartRelease, StartRepair, Goes, Keeps, hostVars
<1>2. ReleaseShape' /\ PublishedIsReviewed'
  BY <1>1, HostKept
<1>3. KindInv' /\ JobInv' /\ DraftInv'
  BY <1>1 DEF KindInv, JobInv, DraftInv, WritesDraft, Built, Checked, Untagged, Captured
<1> QED
  BY <1>2, <1>3 DEF IInv

LEMMA AccidentsKeep ==
  ASSUME IInv, JobIsKilled \/ DisturbRepository \/ AlterDist \/ AlterStaged
  PROVE  IInv'
<1>1. CASE JobIsKilled
  BY <1>1, EndAloneKeeps DEF JobIsKilled, hostVars
<1>2. CASE DisturbRepository \/ AlterDist \/ AlterStaged
  <2>1. /\ UNCHANGED <<pc, kind, commit, version, sources, approved, receipt, releases>>
        /\ remoteTags' = remoteTags
    BY <1>2 DEF DisturbRepository, AlterDist, AlterStaged, hostVars
  <2> QED
    BY <2>1, SameJob
<1> QED
  BY <1>1, <1>2

-----------------------------------------------------------------------------
(* From the derivation of the version to the receipt.                        *)
LEMMA DeriveKeeps ==
  ASSUME IInv, Derive
  PROVE  IInv'
<1>1. CASE Ends /\ Keeps(<<>>)
  BY <1>1, EndAloneKeeps DEF Keeps, hostVars
<1>2. CASE Goes("check") /\ Keeps(<<kind, commit, sources, dist, approved, receipt, staged, uploads>>)
  <2>1. UNCHANGED <<releases, remoteTags, kind>> /\ pc' = "check" /\ pc = "derive"
    BY <1>2 DEF Goes, Keeps, hostVars, Derive
  <2>2. ReleaseShape' /\ PublishedIsReviewed'
    BY <2>1, HostKept
  <2>3. KindInv' /\ JobInv' /\ DraftInv'
    BY <2>1 DEF IInv, KindInv, JobInv, DraftInv, WritesDraft, Built, Checked, Untagged, Captured
  <2> QED
    BY <2>2, <2>3 DEF IInv
<1> QED
  BY <1>1, <1>2 DEF Derive

LEMMA CheckingKeeps ==
  ASSUME IInv, Check \/ Recheck
  PROVE  IInv'
<1>1. CASE Ends /\ Keeps(<<>>)
  BY <1>1, EndAloneKeeps DEF Keeps, hostVars
<1>2. CASE Check /\ TagChecked /\ Goes("build") /\ Keeps(jobVars)
  <2>1. UNCHANGED <<kind, commit, version, releases, remoteTags>> /\ pc' = "build" /\ pc = "check"
    BY <1>2 DEF Goes, Keeps, hostVars, jobVars, Check
  <2>2. kind = "repair" => LightTag(version, commit) \in remoteTags
    BY <1>2 DEF TagChecked, TagIdentity
  <2> QED
    BY <2>1, <2>2, GoesOn DEF Built, Captured, Untagged
<1>3. CASE Recheck /\ TagIdentity /\ Goes("rebuild") /\ Keeps(jobVars)
  <2>1. /\ UNCHANGED <<kind, commit, version, approved, releases, remoteTags>>
        /\ pc' = "rebuild" /\ pc = "recheck"
    BY <1>3 DEF Goes, Keeps, hostVars, jobVars, Recheck
  <2>2. approved = Reviewed
    BY <2>1 DEF IInv, JobInv, Built
  <2>3. LightTag(version, commit) \in remoteTags
    BY <1>3 DEF TagIdentity
  <2> QED
    BY <2>1, <2>2, <2>3, GoesOn DEF Captured
<1> QED
  BY <1>1, <1>2, <1>3 DEF Check, Recheck

LEMMA ReadingKeeps ==
  ASSUME IInv, Build \/ Rebuild
  PROVE  IInv'
<1>1. CASE Ends /\ Keeps(<<>>)
  BY <1>1, EndAloneKeeps DEF Keeps, hostVars
<1>2. CASE Build /\ sources' \in Readings /\ Goes("verify")
           /\ Keeps(<<kind, commit, version, repo, approved, receipt, staged, uploads>>)
  <2>1. UNCHANGED <<kind, commit, version, releases, remoteTags>> /\ pc' = "verify" /\ pc = "build"
    BY <1>2 DEF Goes, Keeps, hostVars, Build
  <2>2. sources' = Checkout(commit)
    BY <1>2, ReadingIsCheckout
  <2>3. kind = "repair" => LightTag(version, commit) \in remoteTags
    BY <2>1 DEF IInv, JobInv, Checked
  <2> QED
    BY <2>1, <2>2, <2>3, GoesOn DEF Built, Captured, Untagged
<1>3. CASE Rebuild /\ sources' \in Readings /\ Goes("approve")
           /\ Keeps(<<kind, commit, version, repo, dist, approved, receipt, staged, uploads>>)
  <2>1. /\ UNCHANGED <<kind, commit, version, approved, releases, remoteTags>>
        /\ pc' = "approve" /\ pc = "rebuild"
    BY <1>3 DEF Goes, Keeps, hostVars, Rebuild
  <2>2. sources' = Checkout(commit)
    BY <1>3, ReadingIsCheckout
  <2>3. approved = Reviewed /\ LightTag(version, commit) \in remoteTags
    BY <2>1 DEF IInv, JobInv, Built, Checked, Untagged
  <2> QED
    BY <2>1, <2>2, <2>3, GoesOn DEF Captured
<1> QED
  BY <1>1, <1>2, <1>3 DEF Build, Rebuild

LEMMA VerifyingKeeps ==
  ASSUME IInv, Verify \/ Approve
  PROVE  IInv'
<1>1. CASE Ends
  <2>1. Keeps(<<>>)
    BY <1>1 DEF Verify, Approve, Ends, Goes
  <2> QED
    BY <1>1, <2>1, EndAloneKeeps DEF Keeps, hostVars
<1>2. CASE ~Ends
  <2>1. /\ pc \in {"verify", "approve"} /\ pc' = IF pc = "verify" THEN "smoke" ELSE "capture"
        /\ UNCHANGED <<kind, commit, version, releases, remoteTags>>
        /\ approved' = dist.archive
        /\ VerifiedArtifact(dist.archive, PackageOf(sources), sources, version, commit)
    BY <1>2 DEF Verify, Approve, Goes, Keeps, hostVars
  <2>2. approved' = Reviewed
    BY <2>1, VerifiedIsReviewed DEF IInv, JobInv
  <2>3. kind = "repair" \/ pc = "approve" => LightTag(version, commit) \in remoteTags
    BY <2>1 DEF IInv, JobInv, Built, Checked, Untagged
  <2> QED
    BY <2>1, <2>2, <2>3, GoesOn DEF Captured, Untagged
<1> QED
  BY <1>1, <1>2

LEMMA SmokeKeeps ==
  ASSUME IInv, Smoke
  PROVE  IInv'
<1>1. CASE Ends /\ Keeps(<<>>)
  BY <1>1, EndAloneKeeps DEF Keeps, hostVars
<1>2. CASE /\ Goes(IF kind = "release" THEN "tag" ELSE "view")
           /\ receipt' = IF kind = "repair" THEN Pair(approved) ELSE Nothing
           /\ Keeps(<<kind, commit, version, repo, sources, dist, approved, staged, uploads>>)
  <2>1. /\ UNCHANGED <<kind, commit, version, releases, remoteTags, approved>>
        /\ pc = "smoke" /\ pc' = IF kind = "release" THEN "tag" ELSE "view"
    BY <1>2 DEF Goes, Keeps, hostVars, Smoke
  <2>2. approved = Reviewed /\ kind \in {"release", "repair"}
        /\ (kind = "repair" => LightTag(version, commit) \in remoteTags)
    BY <2>1 DEF IInv, KindInv, JobInv, Built, Checked, Untagged
  <2>3. kind = "repair" => receipt' = Pair(Reviewed)
    BY <1>2, <2>2
  <2> QED
    BY <2>1, <2>2, <2>3, GoesOn DEF Captured, Untagged
<1> QED
  BY <1>1, <1>2 DEF Smoke

LEMMA PushTagKeeps ==
  ASSUME IInv, PushTag
  PROVE  IInv'
<1>1. CASE Ends /\ Keeps(<<>>)
  BY <1>1, EndAloneKeeps DEF Keeps, hostVars
<1>2. CASE /\ Goes("recheck")
           /\ remoteTags' = remoteTags \cup {LightTag(version, commit)}
           /\ UNCHANGED <<main, releases, kind, commit, version, sources, dist, approved,
                          receipt, staged, uploads, bounds>>
  <2>1. approved' = Reviewed
    BY <1>2 DEF IInv, JobInv, Built, Checked, Untagged, PushTag
  <2> QED
    BY <1>2, <2>1, GoesOn DEF Goes, PushTag, Captured
<1> QED
  BY <1>1, <1>2 DEF PushTag

LEMMA CaptureKeeps ==
  ASSUME IInv, Capture
  PROVE  IInv'
<1>1. CASE Ends /\ Keeps(<<>>)
  BY <1>1, EndAloneKeeps DEF Keeps, hostVars
<1>2. CASE /\ Goes("view") /\ receipt' = Pair(approved)
           /\ Keeps(<<kind, commit, version, repo, sources, dist, approved, staged, uploads>>)
  <2>1. UNCHANGED <<kind, commit, version, releases, remoteTags, approved>>
        /\ pc' = "view" /\ pc = "capture"
    BY <1>2 DEF Goes, Keeps, hostVars, Capture
  <2>2. approved = Reviewed /\ LightTag(version, commit) \in remoteTags
    BY <2>1 DEF IInv, JobInv, Built, Checked, Untagged
  <2> QED
    BY <1>2, <2>1, <2>2, GoesOn
<1> QED
  BY <1>1, <1>2 DEF Capture

-----------------------------------------------------------------------------
(* Writing to the hosted release: what is published stays, and what becomes  *)
(* published is the archive of the tagged commit.                            *)
PublishedStays ==
  \A v \in DOMAIN releases : releases[v].state = "published" =>
    v \in DOMAIN releases' /\ releases'[v] = releases[v]

LEMMA WriteKeeps ==
  ASSUME IInv, NEW s, NEW i, NEW a,
         SetRelease([state |-> s, immutable |-> i, assets |-> a]),
         UNCHANGED remoteTags,
         Hosted => releases[version].state # "published",
         s = "published" => LightTag(version, commit) \in remoteTags /\ a = Uploaded(Pair(Reviewed))
  PROVE  /\ ReleaseShape' /\ PublishedIsReviewed' /\ PublishedStays
         /\ version \in DOMAIN releases'
         /\ releases'[version] = [state |-> s, immutable |-> i, assets |-> a]
<1> DEFINE new == [state |-> s, immutable |-> i, assets |-> a]
<1>1. /\ DOMAIN releases' = DOMAIN releases \cup {version}
      /\ releases'[version] = new
      /\ \A v \in DOMAIN releases \ {version} : releases'[v] = releases[v]
  BY DEF SetRelease
<1>2. ReleaseShape'
  <2>1. ASSUME NEW v \in DOMAIN releases'
        PROVE  \E s1, i1, a1 : releases'[v] = [state |-> s1, immutable |-> i1, assets |-> a1]
    <3>1. CASE v = version
      BY <1>1, <3>1
    <3>2. CASE v # version
      <4>1. v \in DOMAIN releases /\ releases'[v] = releases[v]
        BY <1>1, <2>1, <3>2
      <4>2. PICK s2, i2, a2 : releases[v] = [state |-> s2, immutable |-> i2, assets |-> a2]
        BY <4>1 DEF IInv, ReleaseShape
      <4> QED
        BY <4>1, <4>2
    <3> QED
      BY <3>1, <3>2
  <2> QED
    BY <2>1 DEF ReleaseShape
<1>3. PublishedIsReviewed'
  <2>1. ASSUME NEW v \in DOMAIN releases', releases'[v].state = "published"
        PROVE  \E t \in remoteTags' :
                 /\ t.ref = v
                 /\ releases'[v].assets = Uploaded(Pair(Package(Checkout(t.commit), v, t.commit)))
    <3>1. CASE v = version
      <4>1. s = "published" /\ releases'[v].assets = a
        BY <1>1, <2>1, <3>1
      <4>2. LightTag(version, commit).ref = v /\ LightTag(version, commit).commit = commit
        BY <3>1 DEF LightTag
      <4> QED
        BY <4>1, <4>2, <3>1 DEF Reviewed
    <3>2. CASE v # version
      BY <1>1, <2>1, <3>2 DEF IInv, PublishedIsReviewed
    <3> QED
      BY <3>1, <3>2
  <2> QED
    BY <2>1 DEF PublishedIsReviewed
<1>4. PublishedStays
  BY <1>1 DEF PublishedStays, Hosted
<1> QED
  BY <1>1, <1>2, <1>3, <1>4

(* A step of the job that rewrites its draft, and leaves it one.             *)
LEMMA DraftKeeps ==
  ASSUME IInv, NEW i, NEW a, pc \in Captured, pc # "edit",
         SetRelease([state |-> "draft", immutable |-> i, assets |-> a]),
         UNCHANGED remoteTags,
         Hosted => releases[version].state = "draft",
         \/ Ends
         \/ /\ UNCHANGED <<kind, commit, version, sources, approved, receipt>>
            /\ pc' \in Captured \ {"edit"}
  PROVE  IInv' /\ PublishedStays
<1>1. /\ ReleaseShape' /\ PublishedIsReviewed' /\ PublishedStays
      /\ version \in DOMAIN releases'
      /\ releases'[version] = [state |-> "draft", immutable |-> i, assets |-> a]
  BY WriteKeeps
<1>2. CASE Ends
  BY <1>1, <1>2, EndKeeps DEF IInv
<1>3. CASE UNCHANGED <<kind, commit, version, sources, approved, receipt>> /\ pc' \in Captured \ {"edit"}
  <2>1. Reviewed' = Reviewed
    BY <1>3 DEF Reviewed
  <2>2. KindInv'
    BY <1>3 DEF IInv, KindInv, Captured
  <2>3. JobInv'
    BY <1>3, <2>1 DEF IInv, JobInv, Built, Checked, Untagged, Captured
  <2>4. releases'[version'].state = "draft" /\ Hosted'
    BY <1>1, <1>3 DEF Hosted
  <2>5. DraftInv'
    BY <1>3, <2>4 DEF DraftInv
  <2> QED
    BY <1>1, <2>2, <2>3, <2>5 DEF IInv
<1> QED
  BY <1>2, <1>3

\* An update of the assets of a release leaves its other fields.
LEMMA AssetsReplaced ==
  ASSUME IInv, Hosted, NEW a
  PROVE  [releases[version] EXCEPT !.assets = a] =
           [state |-> releases[version].state, immutable |-> releases[version].immutable, assets |-> a]
<1>1. PICK s, i, b : releases[version] = [state |-> s, immutable |-> i, assets |-> b]
  BY DEF IInv, ReleaseShape, Hosted
<1> QED
  BY <1>1

LEMMA LooksKeep ==
  ASSUME IInv, LookForRelease \/ ViewRelease \/ ViewFails
  PROVE  IInv'
<1>1. CASE Ends /\ Keeps(<<>>)
  BY <1>1, EndAloneKeeps DEF Keeps, hostVars
<1>2. CASE /\ pc = "view" /\ UNCHANGED hostVars /\ UNCHANGED jobVars
           /\ \/ pc' = "stage" /\ kind = "release"
              \/ pc' = "create"
              \/ pc' = "clear" /\ HostedAs("draft")
  <2>1. UNCHANGED <<kind, commit, version, sources, approved, receipt, releases, remoteTags>>
    BY <1>2 DEF hostVars, jobVars
  <2>2. ReleaseShape' /\ PublishedIsReviewed'
    BY <2>1, HostKept
  <2>3. KindInv' /\ JobInv'
    BY <1>2, <2>1 DEF IInv, KindInv, JobInv, Built, Checked, Untagged, Captured, Reviewed
  <2>4. DraftInv'
    BY <1>2, <2>1 DEF DraftInv, WritesDraft, HostedAs, Hosted
  <2> QED
    BY <2>2, <2>3, <2>4 DEF IInv
<1> QED
  BY <1>1, <1>2 DEF LookForRelease, ViewRelease, ViewFails, Goes, Keeps, HostedAs

LEMMA StageKeeps ==
  ASSUME IInv, StageCopies
  PROVE  IInv'
<1>1. CASE Ends /\ Keeps(<<>>)
  BY <1>1, EndAloneKeeps DEF Keeps, hostVars
<1>2. CASE Goes(IF kind = "release" THEN "create" ELSE "upload") /\ Keeps(JobOnly)
  <2>1. /\ UNCHANGED <<kind, commit, version, sources, approved, receipt, releases, remoteTags>>
        /\ pc = "stage" /\ pc' = IF kind = "release" THEN "create" ELSE "upload"
    BY <1>2 DEF Goes, Keeps, JobOnly, hostVars, StageCopies
  <2>2. ReleaseShape' /\ PublishedIsReviewed'
    BY <2>1, HostKept
  <2>3. KindInv' /\ JobInv'
    BY <2>1 DEF IInv, KindInv, JobInv, Built, Checked, Untagged, Captured, Reviewed
  <2>4. DraftInv'
    BY <2>1 DEF IInv, KindInv, DraftInv, WritesDraft, Hosted
  <2> QED
    BY <2>2, <2>3, <2>4 DEF IInv
<1> QED
  BY <1>1, <1>2 DEF StageCopies

LEMMA ClearKeeps ==
  ASSUME IInv, DeleteAsset
  PROVE  IInv' /\ PublishedStays
<1>1. pc = "clear" /\ Hosted /\ releases[version].state = "draft"
  BY DEF DeleteAsset, IInv, DraftInv, WritesDraft
<1>2. CASE \E a \in DOMAIN releases[version].assets :
             /\ SetRelease([releases[version] EXCEPT
                  !.assets = [b \in DOMAIN releases[version].assets \ {a} |-> releases[version].assets[b]]])
             /\ HostOnly(<<pc, jobVars>>)
  <2>1. PICK rest : /\ SetRelease([releases[version] EXCEPT !.assets = rest])
                    /\ HostOnly(<<pc, jobVars>>)
    BY <1>2
  <2>2. SetRelease([state |-> "draft", immutable |-> releases[version].immutable, assets |-> rest])
    BY <1>1, <2>1, AssetsReplaced
  <2>3. UNCHANGED <<pc, remoteTags, kind, commit, version, sources, approved, receipt>>
    BY <2>1 DEF HostOnly, jobVars
  <2> QED
    BY <1>1, <2>2, <2>3, DraftKeeps DEF Captured
<1>3. CASE Goes("stage") /\ Keeps(jobVars)
  <2>1. UNCHANGED <<kind, commit, version, sources, approved, receipt, releases, remoteTags>> /\ pc' = "stage"
    BY <1>3 DEF Goes, Keeps, jobVars, hostVars
  <2>2. ReleaseShape' /\ PublishedIsReviewed' /\ PublishedStays
    BY <2>1, HostKept DEF PublishedStays
  <2>3. KindInv' /\ JobInv'
    BY <1>1, <2>1 DEF IInv, KindInv, JobInv, Built, Checked, Untagged, Captured, Reviewed
  <2>4. DraftInv'
    BY <1>1, <2>1 DEF DraftInv, WritesDraft, Hosted
  <2> QED
    BY <2>2, <2>3, <2>4 DEF IInv
<1> QED
  BY <1>2, <1>3 DEF DeleteAsset

LEMMA CreateKeeps ==
  ASSUME IInv, CreateDraft
  PROVE  IInv' /\ PublishedStays
<1>1. CASE Hosted /\ Ends /\ Keeps(<<>>)
  BY <1>1, EndAloneKeeps DEF Keeps, hostVars, PublishedStays
<1>2. CASE /\ ~Hosted
           /\ SetRelease([state |-> "draft", immutable |-> FALSE, assets |-> <<>>])
           /\ \/ kind = "repair" /\ Goes("stage") /\ UNCHANGED jobVars
              \/ kind = "release" /\ staged = receipt /\ Goes("upload") /\ UNCHANGED jobVars
              \/ kind = "release" /\ staged # receipt /\ Ends
           /\ HostOnly(<<>>)
  <2>1. /\ pc = "create" /\ remoteTags' = remoteTags
        /\ Ends \/ (/\ UNCHANGED <<kind, commit, version, sources, approved, receipt>>
                    /\ pc' \in Captured \ {"edit"})
    BY <1>2 DEF CreateDraft, HostOnly, Goes, jobVars, Captured
  <2> QED
    BY <1>2, <2>1, DraftKeeps DEF Captured
<1> QED
  BY <1>1, <1>2 DEF CreateDraft

LEMMA UploadKeeps ==
  ASSUME IInv, NEW a \in Asset, Upload(a) \/ UploadBreaks(a)
  PROVE  IInv' /\ PublishedStays
<1>1. pc = "upload" /\ Hosted /\ releases[version].state = "draft"
  BY DEF Upload, UploadBreaks, IInv, DraftInv, WritesDraft
<1>2. PICK assets : SetRelease([releases[version] EXCEPT !.assets = assets])
  <2>1. CASE Upload(a)
    BY <2>1 DEF Upload
  <2>2. CASE UploadBreaks(a)
    BY <2>2 DEF UploadBreaks
  <2> QED
    BY <2>1, <2>2
<1>3. SetRelease([state |-> "draft", immutable |-> releases[version].immutable, assets |-> assets])
  BY <1>1, <1>2, AssetsReplaced
<1>4. /\ remoteTags' = remoteTags
      /\ Ends \/ UNCHANGED <<pc, kind, commit, version, sources, approved, receipt>>
  BY DEF Upload, UploadBreaks, HostOnly, JobOnly
<1> QED
  BY <1>1, <1>3, <1>4, DraftKeeps DEF Captured

LEMMA CheckKeeps ==
  ASSUME IInv, CheckDraft
  PROVE  IInv'
<1>1. CASE Ends /\ Keeps(<<>>)
  BY <1>1, EndAloneKeeps DEF Keeps, hostVars
<1>2. CASE /\ releases[version].state = "draft" /\ releases[version].assets = Uploaded(receipt)
           /\ Goes("edit") /\ Keeps(jobVars)
  <2>1. /\ UNCHANGED <<kind, commit, version, sources, approved, receipt, releases, remoteTags>>
        /\ pc = "upload" /\ pc' = "edit"
    BY <1>2 DEF CheckDraft, Goes, Keeps, jobVars, hostVars
  <2>2. ReleaseShape' /\ PublishedIsReviewed'
    BY <2>1, HostKept
  <2>3. KindInv' /\ JobInv'
    BY <2>1 DEF IInv, KindInv, JobInv, Built, Checked, Untagged, Captured, Reviewed
  <2>4. DraftInv'
    BY <1>2, <2>1 DEF IInv, DraftInv, WritesDraft, Hosted
  <2> QED
    BY <2>2, <2>3, <2>4 DEF IInv
<1> QED
  BY <1>1, <1>2 DEF CheckDraft

LEMMA PublishKeeps ==
  ASSUME IInv, PublishDraft
  PROVE  IInv' /\ PublishedStays
<1>1. /\ pc = "edit" /\ Hosted /\ releases[version].state = "draft"
      /\ releases[version].assets = Uploaded(Pair(Reviewed))
      /\ LightTag(version, commit) \in remoteTags
  BY DEF PublishDraft, IInv, DraftInv, WritesDraft, JobInv, Built, Checked, Untagged, Captured
<1>2. PICK s, i, a : releases[version] = [state |-> s, immutable |-> i, assets |-> a]
  BY <1>1 DEF IInv, ReleaseShape, Hosted
<1>3. [releases[version] EXCEPT !.state = "published", !.immutable = ImmutableReleases]
        = [state |-> "published", immutable |-> ImmutableReleases, assets |-> releases[version].assets]
  <2>1. releases[version].assets = a
    BY <1>2
  <2>2. [releases[version] EXCEPT !.state = "published"]
          = [state |-> "published", immutable |-> i, assets |-> a]
    BY <1>2
  <2>3. [releases[version] EXCEPT !.state = "published", !.immutable = ImmutableReleases]
          = [[releases[version] EXCEPT !.state = "published"] EXCEPT !.immutable = ImmutableReleases]
    OBVIOUS
  <2>4. [[state |-> "published", immutable |-> i, assets |-> a] EXCEPT !.immutable = ImmutableReleases]
          = [state |-> "published", immutable |-> ImmutableReleases, assets |-> a]
    OBVIOUS
  <2> QED
    BY <2>1, <2>2, <2>3, <2>4
<1>4. /\ SetRelease([state |-> "published", immutable |-> ImmutableReleases,
                     assets |-> releases[version].assets])
      /\ remoteTags' = remoteTags /\ Ends
  BY <1>3 DEF PublishDraft, HostOnly
<1>5. ReleaseShape' /\ PublishedIsReviewed' /\ PublishedStays
  BY <1>1, <1>4, WriteKeeps
<1> QED
  BY <1>4, <1>5, EndKeeps DEF IInv

-----------------------------------------------------------------------------
LEMMA JobStepKeeps ==
  ASSUME IInv, JobStep
  PROVE  IInv' /\ PublishedStays
<1>1. CASE \/ Derive \/ Check \/ Build \/ Verify \/ Smoke
           \/ PushTag \/ Recheck \/ Rebuild \/ Approve \/ Capture
  <2>1. IInv'
    BY <1>1, DeriveKeeps, CheckingKeeps, ReadingKeeps, VerifyingKeeps, SmokeKeeps, PushTagKeeps,
       CaptureKeeps
  <2>2. UNCHANGED releases
    BY <1>1 DEF Derive, Check, Build, Verify, Smoke, PushTag, Recheck, Rebuild, Approve, Capture,
         Keeps, hostVars
  <2> QED
    BY <2>1, <2>2 DEF PublishedStays
<1>2. CASE LookForRelease \/ ViewRelease \/ StageCopies \/ CheckDraft
  <2>1. IInv'
    BY <1>2, LooksKeep, StageKeeps, CheckKeeps
  <2>2. UNCHANGED releases
    BY <1>2 DEF LookForRelease, ViewRelease, StageCopies, CheckDraft, Keeps, hostVars
  <2> QED
    BY <2>1, <2>2 DEF PublishedStays
<1>3. CASE DeleteAsset \/ CreateDraft \/ (\E a \in Asset : Upload(a)) \/ PublishDraft
  BY <1>3, ClearKeeps, CreateKeeps, UploadKeeps, PublishKeeps
<1> QED
  BY <1>1, <1>2, <1>3 DEF JobStep

LEMMA NextKeeps ==
  ASSUME IInv, [Next]_vars
  PROVE  IInv' /\ PublishedStays
<1>1. CASE \E c \in Commits : Push(c) \/ StartRelease(c)
  <2>1. IInv'
    BY <1>1, OthersKeep, StartKeeps
  <2>2. UNCHANGED releases
    BY <1>1 DEF Push, StartRelease, Keeps, hostVars
  <2> QED
    BY <2>1, <2>2 DEF PublishedStays
<1>2. CASE PushOtherTag \/ \E t \in VersionTags : StartRepair(t.ref)
  <2>1. IInv'
    BY <1>2, OthersKeep, StartKeeps
  <2>2. UNCHANGED releases
    BY <1>2 DEF PushOtherTag, StartRepair, Keeps, hostVars
  <2> QED
    BY <2>1, <2>2 DEF PublishedStays
<1>3. CASE JobStep
  BY <1>3, JobStepKeeps
<1>4. CASE JobIsKilled \/ ViewFails \/ DisturbRepository \/ AlterDist \/ AlterStaged
  <2>1. IInv'
    BY <1>4, AccidentsKeep, LooksKeep
  <2>2. UNCHANGED releases
    BY <1>4 DEF JobIsKilled, ViewFails, DisturbRepository, AlterDist, AlterStaged, hostVars
  <2> QED
    BY <2>1, <2>2 DEF PublishedStays
<1>5. CASE \E a \in Asset : UploadBreaks(a)
  BY <1>5, UploadKeeps
<1>6. CASE UNCHANGED vars
  <2>1. UNCHANGED <<pc, kind, commit, version, sources, approved, receipt, releases, remoteTags>>
    BY <1>6 DEF vars, hostVars, jobVars
  <2> QED
    BY <2>1, SameJob DEF PublishedStays
<1> QED
  BY <1>1, <1>2, <1>3, <1>4, <1>5, <1>6 DEF Next

(* For every repository, every history of main and any number of jobs,       *)
(* killed, failing or disturbed: a published release holds the archive made  *)
(* of the files of the commit its tag names, and the checksum of it.         *)
THEOREM OnlyReviewedIsPublished == Spec => []PublishedIsReviewed
<1>1. IInv /\ [Next]_vars => IInv'
  BY NextKeeps
<1>2. IInv => PublishedIsReviewed
  BY DEF IInv
<1> QED
  BY <1>1, <1>2, InitHolds, PTL DEF Spec

(* No job, not even a repair of a published version, changes what is         *)
(* published (DeleteAsset and Upload write to drafts alone).                 *)
THEOREM PublishedStaysForever == Spec => [][PublishedStays]_vars
<1>1. IInv /\ [Next]_vars => IInv' /\ PublishedStays
  BY NextKeeps
<1> QED
  BY <1>1, InitHolds, PTL DEF Spec

-----------------------------------------------------------------------------
(* Versions along main.                                                      *)
Version == [major : Nat, minor : Nat, patch : Nat, label : {"none"}]

MainInv ==
  /\ main \in Seq(Commits) /\ main # <<>>
  /\ \A i, j \in DOMAIN main : main[i] = main[j] => i = j

TagInv ==
  /\ \A t \in VersionTags :
       t.ref \in Version /\ t.commit \in ToSet(main) /\ VersionAllowed(PolicyLines[t.commit], t.ref)
  /\ \E n \in VersionTags : \A t \in VersionTags \ {n} : Older(t.ref, n.ref)

Deriving == {"check", "build", "verify", "smoke", "tag"}

\* The version a release job is about to give is ahead of all there are, and
\* its commit behind none of theirs.
NextInv ==
  /\ pc = "tag" => kind = "release"
  /\ kind = "release" /\ pc \in Deriving =>
       /\ version \in Version /\ commit \in ToSet(main)
       /\ VersionAllowed(PolicyLines[commit], version)
       /\ \A t \in VersionTags :
            Older(t.ref, version) /\ PositionOf(t.commit) < PositionOf(commit)

OrderInv == MainInv /\ TagInv /\ NextInv /\ TagsFollowMain

LEMMA OlderIsOrder ==
  ASSUME NEW a \in Version, NEW b \in Version, NEW c \in Version
  PROVE  /\ Older(a, b) => ~Older(b, a) /\ a # b
         /\ Older(a, b) /\ Older(b, c) => Older(a, c)
BY DEF Version, Older

LEMMA IncrementIsNewer ==
  ASSUME NEW v \in Version, NEW bump \in {"patch", "minor", "major"}
  PROVE  Increment(v, bump) \in Version /\ Older(v, Increment(v, bump))
<1> DEFINE minor == [v EXCEPT !.minor = v.minor + 1]
           major == [v EXCEPT !.major = v.major + 1]
           fresh == [major EXCEPT !.minor = 0]
<1>1. CASE bump = "patch"
  BY <1>1 DEF Version, Older, Increment
<1>2. CASE bump = "minor"
  <2>1. Increment(v, bump) = [minor EXCEPT !.patch = 0]
    BY <1>2 DEF Increment
  <2>2. minor \in Version /\ minor.major = v.major /\ minor.minor = v.minor + 1
    BY DEF Version
  <2>3. /\ [minor EXCEPT !.patch = 0] \in Version
        /\ [minor EXCEPT !.patch = 0].major = v.major
        /\ [minor EXCEPT !.patch = 0].minor = v.minor + 1
    BY <2>2 DEF Version
  <2> QED
    BY <2>1, <2>3 DEF Version, Older
<1>3. CASE bump = "major"
  <2>1. Increment(v, bump) = [fresh EXCEPT !.patch = 0]
    BY <1>3 DEF Increment
  <2>2. major \in Version /\ major.major = v.major + 1
    BY DEF Version
  <2>3. fresh \in Version /\ fresh.major = v.major + 1
    BY <2>2 DEF Version
  <2>4. [fresh EXCEPT !.patch = 0] \in Version /\ [fresh EXCEPT !.patch = 0].major = v.major + 1
    BY <2>3 DEF Version
  <2> QED
    BY <2>1, <2>4 DEF Version, Older
<1> QED
  BY <1>1, <1>2, <1>3

LEMMA AllowedIsApproved ==
  ASSUME NEW lines, NEW v \in Version, VersionAllowed(lines, v), v.major >= 1
  PROVE  lines[v.major].approved
BY DEF VersionAllowed, StableMajorApproved, Version

LEMMA PositionFound ==
  ASSUME MainInv, NEW c \in ToSet(main)
  PROVE  PositionOf(c) \in DOMAIN main /\ main[PositionOf(c)] = c
BY DEF PositionOf, ToSet

\* A version follows from a change, and such a change only from a commit.
LEMMA NextFollowsChange ==
  ASSUME NEW lines, NEW last \in Version, NEW bumps, NEW v \in NextVersions(lines, last, bumps),
         VersionAllowed(lines, v)
  PROVE  v \in Version /\ Older(last, v) /\ bumps # {}
<1> DEFINE bump == CappedBump(lines, last, Strongest(bumps))
<1>1. bump # "none" /\ v = Increment(last, bump)
  BY DEF NextVersions
<1>2. lines[0].breakingBump = "minor"
  BY DEF VersionAllowed, ValidPolicy
<1>3. Strongest(bumps) \in {"none", "patch", "minor", "major"}
      /\ (bumps = {} => Strongest(bumps) = "none")
  BY DEF Strongest
<1>4. bump \in {"none", "patch", "minor", "major"} /\ (bumps = {} => bump = "none")
  BY <1>2, <1>3 DEF CappedBump
<1> QED
  BY <1>1, <1>4, IncrementIsNewer

LEMMA OrderInit == Init => OrderInv
<1> SUFFICES ASSUME Init PROVE OrderInv
  OBVIOUS
<1> DEFINE first == LightTag(FirstVersion, FirstCommit)
<1>1. FirstVersion \in Version /\ ExactVersion(FirstVersion)
  BY JobAssumption DEF Version, ExactVersion
<1>2. VersionTags = {first}
  BY <1>1 DEF Init, VersionTags, LightTag
<1>3. main = <<FirstCommit>>
  BY DEF Init
<1>4. MainInv
  BY <1>3, JobAssumption DEF MainInv
<1>5. FirstCommit \in ToSet(main)
  BY <1>3 DEF ToSet
<1>6. TagInv
  BY <1>1, <1>2, <1>5, JobAssumption DEF TagInv, LightTag
<1>7. NextInv
  BY DEF Init, NextInv, Deriving
<1>8. TagsFollowMain
  BY <1>1, <1>2, AllowedIsApproved, JobAssumption DEF TagsFollowMain, LightTag
<1> QED
  BY <1>4, <1>6, <1>7, <1>8 DEF OrderInv

(* Neither main nor a version tag is added, and no new version is in work.   *)
LEMMA QuietStep ==
  ASSUME OrderInv, UNCHANGED main, VersionTags' = VersionTags,
         \/ pc' \notin Deriving
         \/ pc' \in Deriving \ {"tag"} /\ kind' # "release"
         \/ /\ UNCHANGED <<kind, commit, version>>
            /\ pc \in Deriving /\ pc' \in Deriving
            /\ pc' = "tag" => kind = "release"
  PROVE  OrderInv'
<1>1. ASSUME NEW c PROVE PositionOf(c)' = PositionOf(c)
  BY DEF PositionOf
<1>2. MainInv' /\ TagInv' /\ TagsFollowMain'
  BY <1>1 DEF OrderInv, MainInv, TagInv, TagsFollowMain
<1>3. NextInv'
  BY <1>1 DEF OrderInv, NextInv, Deriving
<1> QED
  BY <1>2, <1>3 DEF OrderInv

\* main only grows, so that positions in it stay.
LEMMA PushOrder ==
  ASSUME OrderInv, NEW c \in Commits, Push(c)
  PROVE  OrderInv'
<1>1. main' = Append(main, c) /\ c \notin ToSet(main) /\ VersionTags' = VersionTags
      /\ UNCHANGED <<pc, kind, commit, version>>
  BY DEF Push, VersionTags, jobVars
<1>2. /\ main' \in Seq(Commits) /\ main' # <<>>
      /\ DOMAIN main' = 1 .. (Len(main) + 1) /\ DOMAIN main = 1 .. Len(main)
      /\ \A i \in DOMAIN main : main'[i] = main[i]
      /\ main'[Len(main) + 1] = c
  BY <1>1 DEF OrderInv, MainInv
<1>3. MainInv'
  BY <1>1, <1>2 DEF OrderInv, MainInv, ToSet
<1>4. ASSUME NEW d \in ToSet(main)
      PROVE  d \in ToSet(main') /\ PositionOf(d)' = PositionOf(d)
  <2>1. PositionOf(d) \in DOMAIN main /\ main[PositionOf(d)] = d
    BY PositionFound DEF OrderInv
  <2>2. d \in ToSet(main')
    BY <1>2, <2>1 DEF ToSet
  <2>3. \A i \in DOMAIN main' : main'[i] = d => i = PositionOf(d)
    BY <1>2, <1>3, <2>1 DEF MainInv
  <2>4. PositionOf(d) \in DOMAIN main' /\ main'[PositionOf(d)] = d
    BY <1>2, <2>1
  <2> QED
    BY <2>2, <2>3, <2>4 DEF PositionOf
<1>5. TagInv'
  BY <1>1, <1>4 DEF OrderInv, TagInv
<1>6. NextInv'
  BY <1>1, <1>4 DEF OrderInv, NextInv, TagInv
<1>7. TagsFollowMain'
  BY <1>1, <1>4 DEF OrderInv, TagsFollowMain, TagInv
<1> QED
  BY <1>3, <1>5, <1>6, <1>7 DEF OrderInv

LEMMA DeriveOrder ==
  ASSUME OrderInv, Derive, ~Ends
  PROVE  OrderInv'
<1> DEFINE L == LastRelease
           allowed == {v \in NextVersions(PolicyLines[commit], L, BumpsSince(L)) :
                         VersionAllowed(PolicyLines[commit], v)}
<1>1. /\ commit = Last(main) /\ version' \in allowed
      /\ UNCHANGED <<main, remoteTags, kind, commit>> /\ pc' = "check"
  BY DEF Derive, Goes, Keeps, hostVars
<1>2. PICK n \in VersionTags : \A t \in VersionTags \ {n} : Older(t.ref, n.ref)
  BY DEF OrderInv, TagInv
<1>3. {t.ref : t \in {u \in VersionTags : u.commit \in ToSet(main)}} = {t.ref : t \in VersionTags}
  BY DEF OrderInv, TagInv
<1>4. L = n.ref
  <2> DEFINE refs == {t.ref : t \in VersionTags}
  <2>1. n.ref \in refs /\ refs \subseteq Version
    BY DEF OrderInv, TagInv
  <2>2. \A w \in refs \ {n.ref} : Older(w, n.ref)
    BY <1>2
  <2>3. \A v \in refs : (\A w \in refs \ {v} : Older(w, v)) => v = n.ref
    BY <2>1, <2>2, OlderIsOrder
  <2> QED
    BY <1>3, <2>1, <2>2, <2>3 DEF LastRelease, Newest
<1>5. PICK m \in VersionTags : m.ref = L /\ TaggedCommit(L) = m.commit
  <2>1. n \in remoteTags /\ ExactVersion(L)
    BY <1>4 DEF VersionTags
  <2> QED
    BY <1>4, <2>1 DEF VersionTags, TaggedCommit
<1>6. L \in Version
  BY <1>4 DEF OrderInv, TagInv
<1>7. version' \in Version /\ Older(L, version') /\ BumpsSince(L) # {}
  BY <1>1, <1>6, NextFollowsChange
<1>8. Len(main) \in DOMAIN main /\ PositionOf(commit) = Len(main) /\ commit \in ToSet(main)
  <2>1. Len(main) \in DOMAIN main /\ main[Len(main)] = commit
    BY <1>1 DEF OrderInv, MainInv, Last
  <2>2. commit \in ToSet(main)
    BY <2>1 DEF ToSet
  <2> QED
    BY <2>1, <2>2, PositionFound DEF OrderInv, MainInv
<1>9. PositionOf(m.commit) < PositionOf(commit)
  <2>1. PICK j \in DOMAIN main : j > PositionOf(m.commit)
    BY <1>5, <1>7 DEF BumpsSince
  <2>2. m.commit \in ToSet(main)
    BY DEF OrderInv, TagInv
  <2>3. PositionOf(m.commit) \in Nat /\ j \in 1 .. Len(main) /\ Len(main) \in Nat
    BY <2>2, PositionFound DEF OrderInv, MainInv
  <2> QED
    BY <1>8, <2>1, <2>3
<1>10. ASSUME NEW t \in VersionTags
       PROVE  Older(t.ref, version') /\ PositionOf(t.commit) < PositionOf(commit)
  <2>1. t.ref \in Version /\ t.commit \in ToSet(main) /\ m.commit \in ToSet(main)
    BY DEF OrderInv, TagInv
  <2>2. t.ref = L \/ Older(t.ref, L)
    BY <1>2, <1>4
  <2>3. Older(t.ref, version')
    BY <1>6, <1>7, <2>1, <2>2, OlderIsOrder
  <2>4. t = m \/ ~(PositionOf(m.commit) <= PositionOf(t.commit))
    <3>1. ~Older(L, t.ref)
      BY <1>6, <2>1, <2>2, OlderIsOrder
    <3> QED
      BY <1>5, <3>1 DEF OrderInv, TagsFollowMain
  <2>5. PositionOf(t.commit) \in Nat /\ PositionOf(m.commit) \in Nat /\ PositionOf(commit) \in Nat
    BY <1>8, <2>1, PositionFound DEF OrderInv, MainInv
  <2> QED
    BY <1>9, <2>3, <2>4, <2>5
<1>11. ASSUME NEW c PROVE PositionOf(c)' = PositionOf(c)
  BY <1>1 DEF PositionOf
<1>12. VersionTags' = VersionTags
  BY <1>1 DEF VersionTags
<1>13. MainInv' /\ TagInv' /\ TagsFollowMain'
  BY <1>1, <1>11, <1>12 DEF OrderInv, MainInv, TagInv, TagsFollowMain
<1>14. NextInv'
  BY <1>1, <1>7, <1>8, <1>10, <1>11, <1>12 DEF NextInv, Deriving
<1> QED
  BY <1>13, <1>14 DEF OrderInv

LEMMA PushTagOrder ==
  ASSUME OrderInv, PushTag, ~Ends
  PROVE  OrderInv'
<1> DEFINE new == LightTag(version, commit)
<1>1. /\ pc = "tag" /\ pc' = "recheck" /\ UNCHANGED main
      /\ remoteTags' = remoteTags \cup {new}
  BY DEF PushTag, Goes
<1>2. /\ version \in Version /\ commit \in ToSet(main)
      /\ VersionAllowed(PolicyLines[commit], version)
      /\ \A t \in VersionTags :
           Older(t.ref, version) /\ PositionOf(t.commit) < PositionOf(commit)
  BY <1>1 DEF OrderInv, NextInv, Deriving
<1>3. new.ref = version /\ new.commit = commit
  BY DEF LightTag
<1>4. VersionTags' = VersionTags \cup {new}
  BY <1>1, <1>2, <1>3 DEF VersionTags, Version, ExactVersion
<1>5. ASSUME NEW c PROVE PositionOf(c)' = PositionOf(c)
  BY <1>1 DEF PositionOf
<1>6. MainInv' /\ NextInv'
  BY <1>1 DEF OrderInv, MainInv, NextInv, Deriving
<1>7. TagInv'
  BY <1>1, <1>2, <1>3, <1>4 DEF OrderInv, TagInv
<1>8. TagsFollowMain'
  <2>1. ASSUME NEW s \in VersionTags', s.ref.major >= 1
        PROVE  PolicyLines[s.commit][s.ref.major].approved
    BY <1>7, <2>1, AllowedIsApproved DEF TagInv
  <2>2. ASSUME NEW s \in VersionTags', NEW t \in VersionTags', s # t,
               PositionOf(s.commit) <= PositionOf(t.commit)
        PROVE  Older(s.ref, t.ref)
    <3>1. CASE s \in VersionTags /\ t \in VersionTags
      BY <2>2, <3>1 DEF OrderInv, TagsFollowMain
    <3>2. CASE s \in VersionTags /\ t = new
      BY <1>2, <1>3, <3>2
    <3>3. CASE s = new /\ t \in VersionTags
      <4>1. PositionOf(t.commit) < PositionOf(commit)
        BY <1>2, <3>3
      <4>2. PositionOf(t.commit) \in Nat /\ PositionOf(commit) \in Nat
        BY <1>2, <3>3, PositionFound DEF OrderInv, MainInv, TagInv
      <4> QED
        BY <1>3, <2>2, <3>3, <4>1, <4>2
    <3> QED
      BY <1>4, <2>2, <3>1, <3>2, <3>3
  <2> QED
    BY <1>5, <2>1, <2>2 DEF TagsFollowMain
<1> QED
  BY <1>6, <1>7, <1>8 DEF OrderInv

LEMMA OrderStep ==
  ASSUME OrderInv, [Next]_vars
  PROVE  OrderInv'
<1>1. CASE \E c \in Commits : Push(c)
  BY <1>1, PushOrder
<1>2. CASE Derive /\ ~Ends
  BY <1>2, DeriveOrder
<1>3. CASE PushTag /\ ~Ends
  BY <1>3, PushTagOrder
<1>4. CASE PushOtherTag
  <2>1. VersionTags' = VersionTags
    BY <1>4, JobAssumption DEF PushOtherTag, VersionTags
  <2>2. UNCHANGED <<main, pc, kind, commit, version>>
    BY <1>4 DEF PushOtherTag, jobVars
  <2> QED
    BY <2>1, <2>2, QuietStep DEF OrderInv, NextInv, Deriving
<1>5. ASSUME UNCHANGED <<main, remoteTags>>
      PROVE  VersionTags' = VersionTags
  BY <1>5 DEF VersionTags
<1>6. CASE Ends /\ UNCHANGED <<main, remoteTags>>
  BY <1>5, <1>6, QuietStep DEF Ends, Deriving
<1>7. CASE (\E c \in Commits : StartRelease(c)) \/ (\E t \in VersionTags : StartRepair(t.ref))
  <2>1. ASSUME NEW c, StartRelease(c)
        PROVE  UNCHANGED <<main, remoteTags>> /\ pc' = "derive"
    BY <2>1 DEF StartRelease, Goes, Keeps, hostVars
  <2>2. ASSUME NEW v, StartRepair(v)
        PROVE  UNCHANGED <<main, remoteTags>> /\ pc' = "check" /\ kind' = "repair"
    BY <2>2 DEF StartRepair, Goes, Keeps, hostVars
  <2> QED
    BY <1>5, <1>7, <2>1, <2>2, QuietStep DEF Deriving
<1>8. CASE (Check \/ Build \/ Verify \/ Smoke) /\ ~Ends
  <2>1. /\ UNCHANGED <<main, remoteTags, kind, commit, version>>
        /\ \/ pc = "check" /\ pc' = "build"
           \/ pc = "build" /\ pc' = "verify"
           \/ pc = "verify" /\ pc' = "smoke"
           \/ pc = "smoke" /\ pc' = "tag" /\ kind = "release"
           \/ pc' = "view"
    BY <1>8 DEF Check, Build, Verify, Smoke, Goes, Keeps, hostVars, jobVars
  <2> QED
    BY <1>5, <2>1, QuietStep DEF Deriving
<1>9. CASE (\/ Recheck \/ Rebuild \/ Approve \/ Capture \/ LookForRelease \/ ViewRelease
            \/ ViewFails \/ DeleteAsset \/ StageCopies \/ CreateDraft
            \/ (\E a \in Asset : Upload(a)) \/ CheckDraft) /\ ~Ends
  <2>1. CASE Recheck \/ Rebuild \/ Approve \/ Capture
    BY <1>5, <1>9, <2>1, QuietStep
       DEF Recheck, Rebuild, Approve, Capture, Goes, Keeps, hostVars, Deriving
  <2>2. CASE \/ LookForRelease \/ ViewRelease \/ ViewFails \/ DeleteAsset \/ StageCopies
             \/ CreateDraft \/ (\E a \in Asset : Upload(a)) \/ CheckDraft
    <3>1. UNCHANGED <<main, remoteTags>> /\ pc' \notin Deriving
      BY <1>9, <2>2 DEF LookForRelease, ViewRelease, ViewFails, DeleteAsset, StageCopies,
           CreateDraft, Upload, CheckDraft, Goes, Keeps, HostOnly, hostVars, Deriving
    <3> QED
      BY <1>5, <3>1, QuietStep
  <2> QED
    BY <1>9, <2>1, <2>2
<1>10. CASE DisturbRepository \/ AlterDist \/ AlterStaged \/ UNCHANGED vars
  <2>1. UNCHANGED <<main, remoteTags, pc, kind, commit, version>>
    BY <1>10 DEF DisturbRepository, AlterDist, AlterStaged, vars, hostVars, jobVars
  <2> QED
    BY <1>5, <2>1, QuietStep DEF OrderInv, NextInv, Deriving
<1>11. CASE Ends /\ ~UNCHANGED <<main, remoteTags>>
  <2>1. pc' = "idle"
    BY <1>11 DEF Ends
  <2>2. ASSUME \/ Derive \/ Check \/ Build \/ Verify \/ Smoke \/ Recheck \/ Rebuild \/ Approve
               \/ Capture \/ LookForRelease \/ ViewRelease
        PROVE  UNCHANGED <<main, remoteTags>>
    <3>1. CASE Derive
      BY <3>1 DEF Derive, Keeps, hostVars
    <3>2. CASE Check
      BY <3>2 DEF Check, Keeps, hostVars
    <3>3. CASE Build
      BY <3>3 DEF Build, Keeps, hostVars
    <3>4. CASE Verify
      BY <3>4 DEF Verify, Keeps, hostVars
    <3>5. CASE Smoke
      BY <3>5 DEF Smoke, Keeps, hostVars
    <3>6. CASE Recheck
      BY <3>6 DEF Recheck, Keeps, hostVars
    <3>7. CASE Rebuild
      BY <3>7 DEF Rebuild, Keeps, hostVars
    <3>8. CASE Approve
      BY <3>8 DEF Approve, Keeps, hostVars
    <3>9. CASE Capture
      BY <3>9 DEF Capture, Keeps, hostVars
    <3>10. CASE LookForRelease
      BY <3>10 DEF LookForRelease, Keeps, hostVars
    <3>11. CASE ViewRelease
      BY <3>11 DEF ViewRelease, Keeps, hostVars
    <3> QED
      BY <2>2, <3>1, <3>2, <3>3, <3>4, <3>5, <3>6, <3>7, <3>8, <3>9, <3>10, <3>11
  <2>3. ASSUME DeleteAsset \/ StageCopies \/ CreateDraft \/ CheckDraft \/ PublishDraft
        PROVE  UNCHANGED <<main, remoteTags>>
    BY <2>3 DEF DeleteAsset, StageCopies, CreateDraft, CheckDraft, PublishDraft, Keeps, HostOnly, hostVars
  <2>4. ASSUME NEW a \in Asset, Upload(a) \/ UploadBreaks(a)
        PROVE  UNCHANGED <<main, remoteTags>>
    BY <2>4 DEF Upload, UploadBreaks, HostOnly
  <2>5. ASSUME JobIsKilled \/ ViewFails
        PROVE  UNCHANGED <<main, remoteTags>>
    BY <2>5 DEF JobIsKilled, ViewFails, hostVars
  <2>6. ASSUME PushTag
        PROVE  UNCHANGED <<main, remoteTags>>
    BY <2>1, <2>6 DEF PushTag, Goes, Keeps, hostVars
  <2>7. ~(JobStep \/ JobIsKilled \/ ViewFails \/ \E a \in Asset : UploadBreaks(a))
    BY <1>11, <2>2, <2>3, <2>4, <2>5, <2>6 DEF JobStep
  <2> QED
    BY <1>1, <1>4, <1>7, <1>10, <2>7 DEF Next
<1>12. JobIsKilled \/ PublishDraft \/ (\E a \in Asset : UploadBreaks(a)) => Ends
  BY DEF JobIsKilled, PublishDraft, UploadBreaks
<1> QED
  BY <1>1, <1>2, <1>3, <1>4, <1>6, <1>7, <1>8, <1>9, <1>10, <1>11, <1>12 DEF Next, JobStep

(* For every history of main, every policy and any number of jobs and tags:  *)
(* the versions along main grow, and a stable major was approved by the      *)
(* manifest of the very commit that is released as it.                       *)
THEOREM VersionsFollowMain == Spec => []TagsFollowMain
<1>1. OrderInv => TagsFollowMain
  BY DEF OrderInv
<1> QED
  BY <1>1, OrderInit, OrderStep, PTL DEF Spec

-----------------------------------------------------------------------------
(* An archive gives back the directory it was made of.                       *)
\* The place of a position among those of the names found.
PlaceOf(k, D) == Cardinality({j \in D : j <= k})

LEMMA PlacesTaken ==
  ASSUME NEW D, IsFiniteSet(D), D \subseteq Nat
  PROVE  /\ \A j, k \in D : PlaceOf(j, D) = PlaceOf(k, D) => j = k
         /\ \A k \in D : PlaceOf(k, D) \in 1 .. Cardinality(D)
         /\ \A i \in 1 .. Cardinality(D) : \E k \in D : PlaceOf(k, D) = i
<1> DEFINE S(k) == {j \in D : j <= k}
           n == Cardinality(D)
           f == [k \in D |-> PlaceOf(k, D)]
<1>1. n \in Nat /\ IsFiniteSet(1 .. n) /\ Cardinality(1 .. n) = n
  BY FS_CardinalityType, FS_Interval
<1>2. \A k \in D : IsFiniteSet(S(k)) /\ Cardinality(S(k)) \in Nat /\ Cardinality(S(k)) <= n
  BY FS_Subset, FS_CardinalityType
<1>3. ASSUME NEW k \in D
      PROVE  f[k] \in 1 .. n
  <2>1. k \in S(k)
    OBVIOUS
  <2>2. Cardinality(S(k)) # 0
    BY <1>2, <2>1, FS_EmptySet
  <2>3. f[k] = Cardinality(S(k))
    BY DEF PlaceOf
  <2> HIDE DEF f, S, n
  <2> QED
    BY <1>1, <1>2, <2>2, <2>3
<1>4. ASSUME NEW j \in D, NEW k \in D, j < k
      PROVE  f[j] # f[k]
  <2>1. S(j) \subseteq S(k) /\ k \in S(k) /\ k \notin S(j)
    <3>1. \A i \in D : i <= j => i <= k
      BY <1>4
    <3>2. k <= k /\ ~(k <= j)
      BY <1>4
    <3> QED
      BY <3>1, <3>2
  <2>2. Cardinality(S(j)) # Cardinality(S(k))
    BY <1>2, <2>1, FS_Subset
  <2> QED
    BY <2>2 DEF PlaceOf
<1> HIDE DEF S
<1>5. \A j, k \in D : f[j] = f[k] => j = k
  <2> SUFFICES ASSUME NEW j \in D, NEW k \in D, f[j] = f[k], j # k
               PROVE  FALSE
    OBVIOUS
  <2>1. j < k \/ k < j
    OBVIOUS
  <2> HIDE DEF f
  <2> QED
    BY <1>4, <2>1
<1>6. f \in Surjection(D, 1 .. n)
  <2>1. f \in [D -> 1 .. n]
    BY <1>3
  <2> HIDE DEF f
  <2>2. f \in Injection(D, 1 .. n)
    BY <2>1, <1>5 DEF Injection, IsInjective
  <2> QED
    BY <1>1, <2>2, FS_Injection
<1>7. \A i \in 1 .. n : \E k \in D : f[k] = i
  <2> HIDE DEF f
  <2> QED
    BY <1>6 DEF Surjection
<1> QED
  BY <1>3, <1>5, <1>7

\* What is collected are the files of the directory, all of them.
LEMMA FilesCollected ==
  ASSUME NEW dir, DOMAIN dir \subseteq ToSet(Names)
  PROVE  LET files == CollectFiles(dir)
         IN  /\ \A i \in DOMAIN files : i \in Int /\ files[i] \in DOMAIN dir
             /\ \A f \in DOMAIN dir : \E i \in DOMAIN files : files[i] = f
<1> DEFINE D == {k \in DOMAIN Names : Names[k] \in DOMAIN dir}
           at(i) == CHOOSE k \in D : PlaceOf(k, D) = i
           n == Cardinality(D)
           files == CollectFiles(dir)
<1>1. DOMAIN Names = 1 .. Len(Names) /\ Len(Names) \in Nat
  BY ArchiveAssumption
<1>2. IsFiniteSet(D) /\ D \subseteq Nat
  <2>1. D \in SUBSET (1 .. Len(Names)) /\ IsFiniteSet(1 .. Len(Names))
    BY <1>1, FS_Interval
  <2> QED
    BY <2>1, FS_Subset
<1>3. \A f \in DOMAIN dir : \E k \in D : Names[k] = f
  BY DEF ToSet
<1>4. files = [i \in 1 .. n |-> Names[at(i)]]
  BY Zenon DEF CollectFiles, PlaceOf
<1>5. \A k \in D : Names[k] \in DOMAIN dir
  OBVIOUS
<1> HIDE DEF D, files
<1>6. \A i \in 1 .. n : at(i) \in D /\ PlaceOf(at(i), D) = i
  BY <1>2, PlacesTaken
<1>7. \A k \in D : PlaceOf(k, D) \in 1 .. n /\ at(PlaceOf(k, D)) = k
  BY <1>2, <1>6, PlacesTaken
<1> HIDE DEF at, n
<1>8. ASSUME NEW f \in DOMAIN dir
      PROVE  \E i \in DOMAIN files : files[i] = f
  <2>1. PICK k \in D : Names[k] = f
    BY <1>3
  <2> QED
    BY <1>4, <1>7, <2>1
<1>9. \A i \in DOMAIN files : i \in Int /\ files[i] \in DOMAIN dir
  BY <1>4, <1>5, <1>6
<1> QED
  BY <1>8, <1>9 DEF files

\* Reading the archive of a directory gives the directory.
LEMMA ExtractedIsPacked ==
  ASSUME NEW dir, dir = [f \in DOMAIN dir |-> dir[f]], DOMAIN dir \subseteq ToSet(Names)
  PROVE  Extract(ZipBytes(dir)) = dir
<1> DEFINE files == CollectFiles(dir)
           zip == ZipBytes(dir)
           at(f) == CHOOSE k \in DOMAIN files : files[k] = f
<1>1. /\ \A i \in DOMAIN files : i \in Int /\ files[i] \in DOMAIN dir
      /\ \A f \in DOMAIN dir : \E i \in DOMAIN files : files[i] = f
  BY FilesCollected
<1> HIDE DEF files
<1>2. /\ zip.local = [k \in DOMAIN files |->
           [name |-> files[k], crc |-> dir[files[k]], data |-> dir[files[k]]]]
      /\ zip.central = [k \in DOMAIN files |->
           [name |-> files[k], crc |-> dir[files[k]], mode |-> "0644", offset |-> k - 1]]
  BY DEF ZipBytes, files
<1> HIDE DEF zip
<1>3. /\ DOMAIN zip.central = DOMAIN files
      /\ \A k \in DOMAIN files : zip.central[k].name = files[k]
  BY <1>2
<1>4. ASSUME NEW k \in DOMAIN files
      PROVE  LocalHeader(zip, zip.central[k]).data = dir[files[k]]
  <2>1. zip.central[k].offset + 1 = k
    BY <1>1, <1>2
  <2>2. zip.local[k].data = dir[files[k]]
    BY <1>2
  <2> QED
    BY <2>1, <2>2 DEF LocalHeader
<1>5. {zip.central[k].name : k \in DOMAIN zip.central} = DOMAIN dir
  <2>1. {zip.central[k].name : k \in DOMAIN zip.central} = {files[k] : k \in DOMAIN files}
    BY <1>3
  <2>2. {files[k] : k \in DOMAIN files} = DOMAIN dir
    BY <1>1
  <2> QED
    BY <2>1, <2>2
<1>6. ASSUME NEW f \in DOMAIN dir
      PROVE  (CHOOSE k \in DOMAIN zip.central : zip.central[k].name = f) = at(f)
  BY <1>3
<1>7. ASSUME NEW f \in DOMAIN dir
      PROVE  at(f) \in DOMAIN files /\ files[at(f)] = f
  BY <1>1
<1> HIDE DEF at
<1>8. Extract(zip) = [f \in DOMAIN dir |->
         LocalHeader(zip, zip.central[CHOOSE k \in DOMAIN zip.central : zip.central[k].name = f]).data]
  BY <1>5, Zenon DEF Extract
<1>9. ASSUME NEW f \in DOMAIN dir
      PROVE  Extract(zip)[f] = dir[f]
  <2>1. Extract(zip)[f] = LocalHeader(zip, zip.central[at(f)]).data
    BY <1>6, <1>8
  <2> QED
    BY <1>4, <1>7, <2>1
<1>10. Extract(zip) = [f \in DOMAIN dir |-> dir[f]]
  BY <1>8, <1>9
<1> QED
  BY <1>10 DEF zip

LEMMA InstalledIsStaged ==
  ASSUME NEW c \in Commits, NEW v
  PROVE  Extract(Package(Checkout(c), v, c)) = FilesOf(c, v)
<1> DEFINE dir == Stage(Checkout(c), v, c)
<1>1. DOMAIN Checkout(c) = FilesIn(c)
  BY DEF Checkout
<1>2. DOMAIN dir = PlacedNames(FilesIn(c)) \cup Generated \cup {Metadata}
  BY <1>1 DEF Stage
<1>3. dir = [f \in DOMAIN dir |-> dir[f]]
  BY DEF Stage
<1>4. DOMAIN dir \subseteq ToSet(Names)
  BY <1>2, ArchiveAssumption
<1> QED
  BY <1>3, <1>4, ExtractedIsPacked DEF Package, FilesOf

-----------------------------------------------------------------------------
(* The releases page as a ledger.                                            *)
\* A job whose tag is checked has a version to release.
VersionInv == pc \in Checked => ExactVersion(version)

LedgerInv == IInv /\ OrderInv /\ VersionInv

\* What is published after a step was so before.
NothingNew == \A v \in DOMAIN releases' : releases'[v].state = "published" => v \in PublishedVersions

LEMMA VersionStep ==
  ASSUME LedgerInv, [Next]_vars
  PROVE  VersionInv'
<1>1. CASE pc' \notin Checked
  BY <1>1 DEF VersionInv
<1>2. CASE pc \in Checked /\ version' = version
  BY <1>2 DEF LedgerInv, VersionInv
<1>3. CASE Check /\ ~Ends
  <2>1. pc = "check" /\ version' = version /\ TagChecked
    BY <1>3 DEF Check, Goes, Keeps, jobVars
  <2>2. kind \in {"release", "repair"}
    BY <2>1 DEF LedgerInv, IInv, KindInv
  <2>3. kind = "repair" => ExactVersion(version)
    BY <2>1 DEF TagChecked, VersionAllowed
  <2>4. kind = "release" => ExactVersion(version)
    BY <2>1 DEF LedgerInv, OrderInv, NextInv, Deriving, VersionAllowed
  <2> QED
    BY <2>1, <2>2, <2>3, <2>4 DEF VersionInv
<1>4. CASE \/ Build \/ Verify \/ Smoke \/ PushTag \/ Recheck \/ Rebuild \/ Approve \/ Capture
           \/ LookForRelease \/ ViewRelease \/ ViewFails \/ DeleteAsset \/ StageCopies
           \/ CreateDraft \/ CheckDraft \/ PublishDraft
           \/ \E a \in Asset : Upload(a) \/ UploadBreaks(a)
  <2>1. Ends => pc' \notin Checked
    BY DEF Ends, Checked, Built
  <2>2. CASE Build \/ Verify \/ Smoke \/ PushTag
    BY <1>1, <1>2, <2>1, <2>2 DEF Build, Verify, Smoke, PushTag, Keeps, Checked, Built
  <2>3. CASE Recheck \/ Rebuild \/ Approve \/ Capture
    BY <1>1, <1>2, <2>1, <2>3 DEF Recheck, Rebuild, Approve, Capture, Keeps, jobVars, Checked, Built
  <2>4. CASE LookForRelease \/ ViewRelease \/ ViewFails \/ StageCopies \/ CheckDraft
    BY <1>1, <1>2, <2>1, <2>4 DEF LookForRelease, ViewRelease, ViewFails, StageCopies, CheckDraft,
         Keeps, JobOnly, jobVars, Checked, Built
  <2>5. CASE DeleteAsset \/ CreateDraft \/ PublishDraft \/ \E a \in Asset : Upload(a) \/ UploadBreaks(a)
    BY <1>1, <1>2, <2>1, <2>5 DEF DeleteAsset, CreateDraft, PublishDraft, Upload, UploadBreaks,
         Keeps, HostOnly, JobOnly, jobVars, Checked, Built
  <2> QED
    BY <1>4, <2>2, <2>3, <2>4, <2>5
<1>5. CASE Ends \/ Derive \/ (\E c \in Commits : StartRelease(c)) \/ (\E t \in VersionTags : StartRepair(t.ref))
  <2>1. pc' \notin Checked
    BY <1>5 DEF Ends, Derive, StartRelease, StartRepair, Goes, Checked, Built
  <2> QED
    BY <1>1, <2>1
<1>6. CASE \/ (\E c \in Commits : Push(c)) \/ PushOtherTag \/ UNCHANGED vars
           \/ DisturbRepository \/ AlterDist \/ AlterStaged
  <2>1. UNCHANGED <<pc, version>>
    BY <1>6 DEF Push, PushOtherTag, DisturbRepository, AlterDist, AlterStaged, vars, jobVars
  <2> QED
    BY <1>1, <1>2, <2>1
<1> QED
  BY <1>3, <1>4, <1>5, <1>6 DEF Next, JobStep, JobIsKilled

LEMMA LedgerHolds == Init => LedgerInv
BY InitHolds, OrderInit DEF LedgerInv, VersionInv, Init, Checked, Built

LEMMA LedgerKeeps == LedgerInv /\ [Next]_vars => LedgerInv'
BY NextKeeps, OrderStep, VersionStep DEF LedgerInv

-----------------------------------------------------------------------------
(* Each version has one tag, so that TaggedCommit is the commit of it.       *)
OneTagEach == \A s, t \in VersionTags : s.ref = t.ref => s = t

LEMMA TagsDiffer ==
  ASSUME OrderInv
  PROVE  OneTagEach
<1> SUFFICES ASSUME NEW s \in VersionTags, NEW t \in VersionTags, s.ref = t.ref, s # t
             PROVE  FALSE
  BY DEF OneTagEach
<1>1. s.ref \in Version /\ PositionOf(s.commit) \in Nat /\ PositionOf(t.commit) \in Nat
  BY PositionFound DEF OrderInv, MainInv, TagInv
<1>2. Older(s.ref, t.ref) \/ Older(t.ref, s.ref)
  BY <1>1 DEF OrderInv, TagsFollowMain
<1> QED
  BY <1>1, <1>2, OlderIsOrder

LEMMA OnlyTag ==
  ASSUME NEW tags, NEW t \in tags, \A s \in tags : s.ref = t.ref => s = t
  PROVE  (CHOOSE s \in tags : s.ref = t.ref) = t
OBVIOUS

LEMMA TagFound ==
  ASSUME OneTagEach, NEW t \in VersionTags
  PROVE  TaggedCommit(t.ref) = t.commit
<1>1. t \in remoteTags /\ \A s \in remoteTags : s.ref = t.ref => s = t
  BY DEF OneTagEach, VersionTags
<1> QED
  BY <1>1, OnlyTag DEF TaggedCommit

(* While tags are only added, and no version gets a second one, the commits  *)
(* of the versions stay.                                                     *)
LEMMA TagsExtended ==
  ASSUME OneTagEach, OneTagEach', VersionTags \subseteq VersionTags'
  PROVE  \A t \in VersionTags : /\ t.ref \in DOMAIN TagOf /\ t.ref \in DOMAIN TagOf'
                                /\ TagOf[t.ref] = t.commit /\ TagOf'[t.ref] = t.commit
<1> SUFFICES ASSUME NEW t \in VersionTags
             PROVE  /\ t.ref \in DOMAIN TagOf /\ t.ref \in DOMAIN TagOf'
                    /\ TagOf[t.ref] = t.commit /\ TagOf'[t.ref] = t.commit
  OBVIOUS
<1>1. t.ref \in DOMAIN TagOf /\ TagOf[t.ref] = t.commit
  BY TagFound DEF TagOf
<1>2. TaggedCommit(t.ref)' = t.commit
  <2>1. t \in remoteTags' /\ \A s \in remoteTags' : s.ref = t.ref => s = t
    BY DEF OneTagEach, VersionTags
  <2> QED
    BY <2>1, OnlyTag DEF TaggedCommit
<1>3. t.ref \in DOMAIN TagOf' /\ TagOf'[t.ref] = t.commit
  BY <1>2 DEF TagOf
<1> QED
  BY <1>1, <1>3

LEMMA TagsSame ==
  ASSUME OneTagEach, VersionTags' = VersionTags
  PROVE  TagOf' = TagOf
<1>1. OneTagEach'
  BY DEF OneTagEach
<1>2. DOMAIN TagOf = {t.ref : t \in VersionTags} /\ DOMAIN TagOf' = {t.ref : t \in VersionTags}
  BY DEF TagOf
<1>3. \A v \in DOMAIN TagOf : TagOf'[v] = TagOf[v]
  BY <1>1, <1>2, TagsExtended
<1>4. TagOf = [v \in DOMAIN TagOf |-> TagOf[v]] /\ TagOf' = [v \in DOMAIN TagOf' |-> TagOf'[v]]
  BY DEF TagOf
<1> QED
  BY <1>2, <1>3, <1>4

LEMMA FilesSame ==
  ASSUME PublishedStays, NothingNew
  PROVE  PublishedFiles' = PublishedFiles
<1>1. PublishedVersions' = PublishedVersions
  BY DEF PublishedStays, NothingNew, PublishedVersions
<1>2. \A v \in PublishedVersions : releases'[v] = releases[v]
  BY DEF PublishedStays, PublishedVersions
<1> QED
  BY <1>1, <1>2 DEF PublishedFiles, Installed

-----------------------------------------------------------------------------
(* The two steps that enter something into the ledger.                       *)
LEMMA TagStep ==
  ASSUME LedgerInv, PushTag, ~Ends
  PROVE  Ledger!TagVersion
<1> DEFINE new == LightTag(version, commit)
<1>1. /\ pc = "tag" /\ remoteTags' = remoteTags \cup {new} /\ UNCHANGED releases
      /\ TagNamed(version) = {}
  BY DEF PushTag
<1>2. /\ version \in Version /\ commit \in ToSet(main) /\ new.ref = version /\ new.commit = commit
  BY <1>1 DEF LedgerInv, OrderInv, NextInv, Deriving, LightTag
<1>3. VersionTags' = VersionTags \cup {new}
  BY <1>1, <1>2 DEF VersionTags, Version, ExactVersion
<1>4. OneTagEach
  BY TagsDiffer DEF LedgerInv
<1>5. OneTagEach'
  <2>1. \A t \in VersionTags : t.ref # version
    BY <1>1 DEF TagNamed, VersionTags
  <2> HIDE DEF new
  <2> QED
    BY <1>2, <1>3, <1>4, <2>1 DEF OneTagEach
<1>6. DOMAIN TagOf' = DOMAIN TagOf \cup {version}
  <2> HIDE DEF new
  <2> QED
    BY <1>2, <1>3 DEF TagOf
<1>7. Ledger!Extends(TagOf, TagOf')
  <2>1. \A v \in DOMAIN TagOf : \E t \in VersionTags : t.ref = v
    BY DEF TagOf
  <2> QED
    BY <1>3, <1>4, <1>5, <2>1, TagsExtended DEF Ledger!Extends
<1>8. TagOf'[version] = commit
  <2>1. new \in remoteTags' /\ \A s \in remoteTags' : s.ref = new.ref => s = new
    BY <1>1, <1>2 DEF TagNamed
  <2>2. (CHOOSE s \in remoteTags' : s.ref = new.ref) = new
    <3> HIDE DEF new
    <3> QED
      BY <2>1, OnlyTag
  <2>3. version \in DOMAIN TagOf'
    BY <1>6
  <2> QED
    BY <1>2, <2>2, <2>3, Zenon DEF TagOf, TaggedCommit
<1>9. commit \in Commits
  BY <1>2 DEF LedgerInv, OrderInv, MainInv, ToSet
<1>10. PublishedFiles' = PublishedFiles
  BY <1>1, FilesSame DEF PublishedStays, NothingNew, PublishedVersions
<1> QED
  BY <1>6, <1>7, <1>8, <1>9, <1>10 DEF Ledger!TagVersion

LEMMA PublishStep ==
  ASSUME LedgerInv, PublishDraft
  PROVE  Ledger!Publish
<1> DEFINE new == [releases[version] EXCEPT !.state = "published", !.immutable = ImmutableReleases]
<1>1. /\ pc = "edit" /\ Hosted /\ releases[version].state = "draft"
      /\ releases[version].assets = Uploaded(Pair(Reviewed))
      /\ LightTag(version, commit) \in remoteTags
  BY DEF PublishDraft, LedgerInv, IInv, DraftInv, WritesDraft, JobInv, Checked, Untagged, Built, Captured
<1>2. /\ DOMAIN releases' = DOMAIN releases \cup {version} /\ releases'[version] = new
      /\ \A v \in DOMAIN releases \ {version} : releases'[v] = releases[v]
      /\ UNCHANGED remoteTags
  BY DEF PublishDraft, SetRelease, HostOnly
<1>3. new.state = "published" /\ new.assets = Uploaded(Pair(Reviewed))
  <2>1. PICK s, i, a : releases[version] = [state |-> s, immutable |-> i, assets |-> a]
    BY <1>1 DEF LedgerInv, IInv, ReleaseShape, Hosted
  <2>2. a = Uploaded(Pair(Reviewed))
    BY <1>1, <2>1
  <2>3. new = [[[state |-> s, immutable |-> i, assets |-> a] EXCEPT !.state = "published"]
                 EXCEPT !.immutable = ImmutableReleases]
    BY <2>1
  <2>4. [[state |-> s, immutable |-> i, assets |-> a] EXCEPT !.state = "published"]
          = [state |-> "published", immutable |-> i, assets |-> a]
    OBVIOUS
  <2>5. [[state |-> "published", immutable |-> i, assets |-> a] EXCEPT !.immutable = ImmutableReleases]
          = [state |-> "published", immutable |-> ImmutableReleases, assets |-> a]
    OBVIOUS
  <2> QED
    BY <2>2, <2>3, <2>4, <2>5
<1> HIDE DEF new
<1>4. LightTag(version, commit) \in VersionTags
      /\ LightTag(version, commit).ref = version /\ LightTag(version, commit).commit = commit
  BY <1>1 DEF LedgerInv, VersionInv, Checked, Built, VersionTags, LightTag
<1>5. version \in DOMAIN TagOf /\ TagOf[version] = commit
  BY <1>4, TagsDiffer, TagFound DEF LedgerInv, TagOf
<1>6. commit \in Commits
  BY <1>4 DEF LedgerInv, OrderInv, TagInv, MainInv, ToSet
<1>7. Installed(releases'[version]) = FilesOf(commit, version)
  <2>1. "archive" \in DOMAIN new.assets /\ new.assets["archive"].bytes = Reviewed
    BY <1>3 DEF Uploaded, Pair, Asset
  <2> QED
    BY <1>2, <1>6, <2>1, InstalledIsStaged DEF Installed, Reviewed
<1>8. PublishedVersions' = PublishedVersions \cup {version} /\ version \notin PublishedVersions
  BY <1>1, <1>2, <1>3 DEF PublishedVersions
<1>9. /\ DOMAIN PublishedFiles' = DOMAIN PublishedFiles \cup {version}
      /\ PublishedFiles'[version] = FilesOf(TagOf[version], version)
  BY <1>5, <1>7, <1>8 DEF PublishedFiles
<1>10. Ledger!Extends(PublishedFiles, PublishedFiles')
  <2>1. \A v \in PublishedVersions : releases'[v] = releases[v]
    BY <1>2, <1>8 DEF PublishedVersions
  <2> QED
    BY <1>8, <2>1 DEF Ledger!Extends, PublishedFiles, Installed
<1>11. TagOf' = TagOf
  <2>1. VersionTags' = VersionTags
    BY <1>2 DEF VersionTags
  <2> QED
    BY <2>1, TagsDiffer, TagsSame DEF LedgerInv
<1> QED
  BY <1>5, <1>9, <1>10, <1>11 DEF Ledger!Publish

(* Every other step leaves the ledger as it is.                              *)
LEMMA QuietOnLedger ==
  ASSUME LedgerInv, [Next]_vars, ~PushTag \/ Ends, ~PublishDraft
  PROVE  VersionTags' = VersionTags /\ NothingNew
<1>1. ASSUME UNCHANGED <<remoteTags, releases>>
      PROVE  VersionTags' = VersionTags /\ NothingNew
  BY <1>1 DEF VersionTags, NothingNew, PublishedVersions
<1>2. CASE \/ (\E c \in Commits : Push(c) \/ StartRelease(c)) \/ UNCHANGED vars
           \/ (\E t \in VersionTags : StartRepair(t.ref))
           \/ JobIsKilled \/ ViewFails \/ DisturbRepository \/ AlterDist \/ AlterStaged
  <2>1. UNCHANGED <<remoteTags, releases>>
    BY <1>2 DEF Push, StartRelease, StartRepair, JobIsKilled, ViewFails, DisturbRepository,
         AlterDist, AlterStaged, Keeps, hostVars, vars
  <2> QED
    BY <1>1, <2>1
<1>3. CASE PushOtherTag
  <2>1. VersionTags' = VersionTags
    BY <1>3, JobAssumption DEF PushOtherTag, VersionTags
  <2>2. UNCHANGED releases
    BY <1>3 DEF PushOtherTag
  <2> QED
    BY <2>1, <2>2 DEF NothingNew, PublishedVersions
<1>4. CASE \/ Derive \/ Check \/ Build \/ Verify \/ Smoke
           \/ Recheck \/ Rebuild \/ Approve \/ Capture
  <2>1. UNCHANGED <<remoteTags, releases>>
    BY <1>4 DEF Derive, Check, Build, Verify, Smoke, Recheck, Rebuild, Approve, Capture, Keeps,
         hostVars
  <2> QED
    BY <1>1, <2>1
<1>5. CASE LookForRelease \/ ViewRelease \/ StageCopies \/ CheckDraft
  <2>1. UNCHANGED <<remoteTags, releases>>
    BY <1>5 DEF LookForRelease, ViewRelease, StageCopies, CheckDraft, Keeps, hostVars
  <2> QED
    BY <1>1, <2>1
<1>6. CASE PushTag
  <2>1. pc' = "idle"
    BY <1>6 DEF Ends
  <2>2. UNCHANGED <<remoteTags, releases>>
    BY <1>6, <2>1 DEF PushTag, Goes, Keeps, hostVars
  <2> QED
    BY <1>1, <2>2
<1>7. ASSUME NEW new, SetRelease(new), UNCHANGED remoteTags,
             new.state = "draft" \/ (Hosted /\ new.state = releases[version].state)
      PROVE  VersionTags' = VersionTags /\ NothingNew
  <2>1. VersionTags' = VersionTags
    BY <1>7 DEF VersionTags
  <2>2. /\ DOMAIN releases' = DOMAIN releases \cup {version} /\ releases'[version] = new
        /\ \A v \in DOMAIN releases \ {version} : releases'[v] = releases[v]
    BY <1>7 DEF SetRelease
  <2> QED
    BY <1>7, <2>1, <2>2 DEF NothingNew, PublishedVersions, Hosted
<1>8. CASE CreateDraft
  <2>1. CASE Keeps(<<>>)
    BY <1>1, <2>1 DEF Keeps, hostVars
  <2>2. CASE SetRelease([state |-> "draft", immutable |-> FALSE, assets |-> <<>>]) /\ HostOnly(<<>>)
    <3> DEFINE new == [state |-> "draft", immutable |-> FALSE, assets |-> <<>>]
    <3>1. SetRelease(new) /\ remoteTags' = remoteTags /\ new.state = "draft"
      BY <2>2 DEF HostOnly
    <3> HIDE DEF new
    <3> QED
      BY <1>7, <3>1
  <2> QED
    BY <1>8, <2>1, <2>2 DEF CreateDraft
<1>9. ASSUME NEW assets, pc \in {"clear", "upload"}, UNCHANGED remoteTags,
             SetRelease([releases[version] EXCEPT !.assets = assets])
      PROVE  VersionTags' = VersionTags /\ NothingNew
  <2>1. Hosted
    BY <1>9 DEF LedgerInv, IInv, DraftInv, WritesDraft
  <2>2. [releases[version] EXCEPT !.assets = assets] =
          [state |-> releases[version].state, immutable |-> releases[version].immutable, assets |-> assets]
    BY <2>1, AssetsReplaced DEF LedgerInv
  <2> QED
    BY <1>7, <1>9, <2>1, <2>2
<1>10. CASE DeleteAsset
  <2>1. CASE Keeps(jobVars)
    BY <1>1, <2>1 DEF Keeps, hostVars
  <2>2. CASE \E a \in DOMAIN releases[version].assets :
               /\ SetRelease([releases[version] EXCEPT
                    !.assets = [b \in DOMAIN releases[version].assets \ {a} |-> releases[version].assets[b]]])
               /\ HostOnly(<<pc, jobVars>>)
    BY <1>9, <1>10, <2>2 DEF DeleteAsset, HostOnly
  <2> QED
    BY <1>10, <2>1, <2>2 DEF DeleteAsset
<1>11. CASE \E a \in Asset : Upload(a) \/ UploadBreaks(a)
  BY <1>9, <1>11 DEF Upload, UploadBreaks, HostOnly
<1> QED
  BY <1>2, <1>3, <1>4, <1>5, <1>6, <1>8, <1>10, <1>11 DEF Next, JobStep

LEMMA LedgerStep == LedgerInv /\ [Next]_vars => [Ledger!Next]_(Ledger!ledgerVars)
<1> SUFFICES ASSUME LedgerInv, [Next]_vars
             PROVE  [Ledger!Next]_(Ledger!ledgerVars)
  OBVIOUS
<1>1. CASE PushTag /\ ~Ends
  BY <1>1, TagStep DEF Ledger!Next
<1>2. CASE PublishDraft
  BY <1>2, PublishStep DEF Ledger!Next
<1>3. CASE (~PushTag \/ Ends) /\ ~PublishDraft
  <2>1. VersionTags' = VersionTags /\ NothingNew
    BY <1>3, QuietOnLedger
  <2>2. TagOf' = TagOf
    BY <2>1, TagsDiffer, TagsSame DEF LedgerInv
  <2>3. PublishedFiles' = PublishedFiles
    BY <2>1, FilesSame, NextKeeps DEF LedgerInv
  <2> QED
    BY <2>2, <2>3 DEF Ledger!ledgerVars
<1> QED
  BY <1>1, <1>2, <1>3

LEMMA LedgerStarts == Init => Ledger!Init
<1> SUFFICES ASSUME Init PROVE Ledger!Init
  OBVIOUS
<1>1. LightTag(FirstVersion, FirstCommit) \in VersionTags
      /\ LightTag(FirstVersion, FirstCommit).ref = FirstVersion
  BY JobAssumption DEF Init, VersionTags, LightTag, ExactVersion
<1>2. FirstVersion \in DOMAIN TagOf
  BY <1>1 DEF TagOf
<1>3. DOMAIN PublishedFiles \subseteq {FirstVersion}
  BY DEF Init, PublishedFiles, PublishedVersions
<1> QED
  BY <1>2, <1>3 DEF Ledger!Init

(* For any commits, versions, failures, killed jobs and tampered files: what a *)
(* reader extracts from the published archives is a ledger.  A version is     *)
(* given to one commit for ever, its files are those of this commit staged as *)
(* this version, and once published they stay; no entry comes and goes with a *)
(* job that fails, is killed or is repaired.                                  *)
THEOREM ReleasesAreLedger == Spec => RefinesLedger
<1>1. Init => LedgerInv /\ Ledger!Init
  BY LedgerHolds, LedgerStarts
<1> QED
  BY <1>1, LedgerKeeps, LedgerStep, PTL DEF Spec, RefinesLedger, Ledger!Spec

-----------------------------------------------------------------------------
(* What the verifier accepts.                                                *)
\* A function on the first numbers is as long as they are many.
LEMMA CountedLen ==
  ASSUME NEW n \in Nat, NEW s, s = [i \in 1 .. n |-> s[i]]
  PROVE  Len(s) = n
<1>1. s \in Seq({s[i] : i \in 1 .. n})
  BY IsASeq
<1> QED
  BY <1>1, LenProperties

\* The names of the files that are collected stand in their places once.
LEMMA CollectedOnce ==
  ASSUME NEW dir, IsInjective(Names)
  PROVE  LET files == CollectFiles(dir)
         IN  /\ \E n \in Nat : files = [i \in 1 .. n |-> files[i]]
             /\ IsInjective(files)
<1> DEFINE D == {k \in DOMAIN Names : Names[k] \in DOMAIN dir}
           at(i) == CHOOSE k \in D : PlaceOf(k, D) = i
           n == Cardinality(D)
           files == CollectFiles(dir)
<1>1. DOMAIN Names = 1 .. Len(Names) /\ Len(Names) \in Nat
  BY ArchiveAssumption
<1>2. IsFiniteSet(D) /\ D \subseteq Nat /\ n \in Nat
  <2>1. D \in SUBSET (1 .. Len(Names)) /\ IsFiniteSet(1 .. Len(Names))
    BY <1>1, FS_Interval
  <2> QED
    BY <2>1, FS_Subset, FS_CardinalityType
<1>3. files = [i \in 1 .. n |-> Names[at(i)]]
  BY Zenon DEF CollectFiles, PlaceOf
<1>4. \A j, k \in D : Names[j] = Names[k] => j = k
  BY DEF IsInjective
<1> HIDE DEF D, files
<1>5. \A i \in 1 .. n : at(i) \in D /\ PlaceOf(at(i), D) = i
  BY <1>2, PlacesTaken
<1> HIDE DEF at, n
<1>6. IsInjective(files)
  BY <1>3, <1>4, <1>5 DEF IsInjective
<1>7. files = [i \in 1 .. n |-> files[i]]
  BY <1>3
<1> QED
  BY <1>2, <1>6, <1>7 DEF files

\* What is collected depends on the names of a directory alone.
LEMMA CollectedByName ==
  ASSUME NEW a, NEW b, DOMAIN a = DOMAIN b
  PROVE  CollectFiles(a) = CollectFiles(b)
BY DEF CollectFiles

\* A commit that has what a package needs, and places no file where no archive
\* may have one.
Packable(c) ==
  /\ CanPackage(Checkout(c))
  /\ \A f \in FilesIn(c) : SafeName(f)
  /\ \A name \in PlacedNames(FilesIn(c)) : SafeName(name) /\ ~DevelopmentPart(name)
  /\ Required \subseteq PlacedNames(FilesIn(c)) \cup Generated \cup {Metadata}

(* An archive of a directory with safe names can be read without complaint.  *)
LEMMA PackedIsReadable ==
  ASSUME NEW dir, DOMAIN dir \subseteq ToSet(Names), IsInjective(Names),
         \A f \in DOMAIN dir : SafeName(f)
  PROVE  /\ Readable(ZipBytes(dir))
         /\ EntryNames(ZipBytes(dir)) = CollectFiles(dir)
<1> DEFINE files == CollectFiles(dir)
           zip == ZipBytes(dir)
<1>1. PICK n \in Nat : files = [i \in 1 .. n |-> files[i]]
  BY CollectedOnce
<1>2. IsInjective(files) /\ DOMAIN files = 1 .. n /\ \A i \in 1 .. n : SafeName(files[i])
  <2>1. IsInjective(files)
    BY CollectedOnce
  <2>2. \A i \in DOMAIN files : files[i] \in DOMAIN dir
    BY FilesCollected
  <2> HIDE DEF files
  <2> QED
    BY <1>1, <2>1, <2>2
<1>3. /\ zip.local = [k \in DOMAIN files |->
           [name |-> files[k], crc |-> dir[files[k]], data |-> dir[files[k]]]]
      /\ zip.central = [k \in DOMAIN files |->
           [name |-> files[k], crc |-> dir[files[k]], mode |-> "0644", offset |-> k - 1]]
      /\ zip.end = [count |-> Len(files), offset |-> Len(files)]
  BY DEF ZipBytes
<1> HIDE DEF files, zip
<1>4. Len(files) = n
  BY <1>1, CountedLen
<1>5. Len(zip.local) = n /\ Len(zip.central) = n
  <2>1. zip.local = [k \in 1 .. n |-> zip.local[k]] /\ zip.central = [k \in 1 .. n |-> zip.central[k]]
    BY <1>2, <1>3
  <2> QED
    BY <2>1, CountedLen
<1>6. EntryNames(zip) = files
  <2>1. EntryNames(zip) = [k \in 1 .. n |-> files[k]]
    BY <1>2, <1>3 DEF EntryNames
  <2> QED
    BY <1>1, <2>1
<1>7. CentralReadable(zip)
  <2>1. zip.end = [count |-> Len(zip.central), offset |-> Len(zip.local)]
    BY <1>3, <1>4, <1>5
  <2>2. \A k \in DOMAIN zip.central : zip.central[k].mode = "0644"
    BY <1>3
  <2>3. SafeNames(EntryNames(zip))
    BY <1>2, <1>6 DEF SafeNames
  <2> QED
    BY <2>1, <2>2, <2>3 DEF CentralReadable
<1>8. ASSUME NEW k \in DOMAIN zip.central
      PROVE  LocalAgrees(zip, zip.central[k])
  <2>1. k \in 1 .. n /\ k \in Int
    BY <1>2, <1>3
  <2>2. zip.central[k] = [name |-> files[k], crc |-> dir[files[k]], mode |-> "0644", offset |-> k - 1]
    BY <1>2, <1>3, <2>1
  <2>3. zip.central[k].offset + 1 = k /\ zip.central[k].offset < n
        /\ zip.central[k].name = files[k] /\ zip.central[k].crc = dir[files[k]]
    BY <2>1, <2>2
  <2>4. zip.local[k] = [name |-> files[k], crc |-> dir[files[k]], data |-> dir[files[k]]]
    BY <1>2, <1>3, <2>1
  <2> QED
    BY <1>5, <2>3, <2>4 DEF LocalAgrees, LocalHeader
<1> QED
  BY <1>6, <1>7, <1>8 DEF Readable, zip, files

-----------------------------------------------------------------------------
(* Where the staging places a file.                                          *)
LEMMA PrefixAgrees ==
  ASSUME NEW s, NEW f, Len(s) \in Nat, IsPrefix(s, f), NEW i \in 1 .. Len(s)
  PROVE  f[i] = s[i]
<1> DEFINE n == Len(s)
           S == {s[j] : j \in 1 .. n} \cup {f[j] : j \in 1 .. n}
<1>1. (\A j \in 1 .. n : s[j] \in S /\ f[j] \in S) /\ 1 \in Int /\ n \in Int
  OBVIOUS
<1> HIDE DEF S, n
<1>2. \A j \in 1 .. n : SubSeq(s, 1, n)[j] = s[j] /\ SubSeq(f, 1, n)[j] = f[j]
  BY <1>1, SubSeqProperties
<1> QED
  BY <1>2 DEF n, IsPrefix

LEMMA PrefixStarts ==
  ASSUME NEW S, NEW s \in Seq(S), NEW f \in Seq(S)
  PROVE  IsStrictPrefix(s, f) <=> Len(f) > Len(s) /\ \A i \in 1 .. Len(s) : f[i] = s[i]
<1>1. Len(s) \in Nat /\ Len(f) \in Nat
      /\ (\A i \in 1 .. Len(s) : s[i] \in S) /\ (\A i \in 1 .. Len(f) : f[i] \in S)
  BY LenProperties, ElementOfSeq
<1>2. IsPrefix(s, f) => \A i \in 1 .. Len(s) : f[i] = s[i]
  BY <1>1, PrefixAgrees
<1>3. ASSUME Len(s) <= Len(f), \A i \in 1 .. Len(s) : f[i] = s[i]
      PROVE  IsPrefix(s, f)
  <2> DEFINE n == Len(s)
  <2>1. \A i \in 1 .. n : s[i] \in S /\ f[i] \in S
    BY <1>1, <1>3
  <2>2. n \in Int /\ 1 \in Int
    BY <1>1
  <2>3. /\ SubSeq(s, 1, n) \in Seq(S) /\ SubSeq(f, 1, n) \in Seq(S)
        /\ Len(SubSeq(s, 1, n)) = Len(SubSeq(f, 1, n))
        /\ \A i \in 1 .. n : SubSeq(s, 1, n)[i] = s[i] /\ SubSeq(f, 1, n)[i] = f[i]
    <3> HIDE DEF n
    <3> QED
      BY <2>1, <2>2, SubSeqProperties
  <2>4. Len(SubSeq(s, 1, n)) = n
    <3>1. n \in Nat
      BY <1>1
    <3> HIDE DEF n
    <3> QED
      BY <2>1, <2>2, <3>1, SubSeqProperties
  <2>5. SubSeq(s, 1, n) = SubSeq(f, 1, n)
    <3> HIDE DEF n
    <3> QED
      BY <1>3, <2>3, <2>4, SeqEqual DEF n
  <2> QED
    BY <1>3, <2>5 DEF IsPrefix
<1>4. Len(s) = Len(f) /\ (\A i \in 1 .. Len(s) : f[i] = s[i]) => s = f
  BY SeqEqual
<1>5. IsPrefix(s, f) => Len(s) <= Len(f)
  BY DEF IsPrefix
<1> QED
  BY <1>1, <1>2, <1>3, <1>4, <1>5 DEF IsStrictPrefix

\* Names of one to three parts.
LEMMA ShortNames ==
  ASSUME NEW S, NEW a \in S, NEW b \in S, NEW c \in S
  PROVE  /\ <<a>> \in Seq(S) /\ Len(<<a>>) = 1 /\ <<a>>[1] = a
         /\ <<a, b>> \in Seq(S) /\ Len(<<a, b>>) = 2 /\ <<a, b>>[1] = a /\ <<a, b>>[2] = b
         /\ <<a, b, c>> \in Seq(S) /\ Len(<<a, b, c>>) = 3
         /\ <<a, b, c>>[1] = a /\ <<a, b, c>>[2] = b /\ <<a, b, c>>[3] = c
OBVIOUS

\* The parts of the names below: the provers do not know that a literal is in
\* STRING.
Parts == STRING \cup RootFiles \cup RootDirectories \cup
         {"std", "rust", "_std", "hxrt", "tests", "reflaxe", "docs", "Cargo.toml",
          "stdlib-provenance-ledger.json"}

LEMMA PrefixOfOne ==
  ASSUME NEW a, NEW f \in Seq(Parts)
  PROVE  IsStrictPrefix(<<a>>, f) <=> Len(f) > 1 /\ f[1] = a
<1> DEFINE S == Parts \cup {a}
           s == <<a>>
<1>1. f \in Seq(S)
  BY SeqMonotonic
<1>2. s \in Seq(S) /\ Len(s) = 1 /\ s[1] = a
  BY ShortNames
<1> HIDE DEF S, s
<1>3. IsStrictPrefix(s, f) <=> Len(f) > 1 /\ \A i \in 1 .. 1 : f[i] = s[i]
  <2>1. IsStrictPrefix(s, f) <=> Len(f) > Len(s) /\ \A i \in 1 .. Len(s) : f[i] = s[i]
    BY <1>1, <1>2, PrefixStarts, Zenon
  <2> QED
    BY <1>2, <2>1, Zenon
<1>4. (\A i \in 1 .. 1 : f[i] = s[i]) <=> f[1] = s[1]
  OBVIOUS
<1> QED
  BY <1>2, <1>3, <1>4 DEF s

LEMMA PrefixOfTwo ==
  ASSUME NEW a, NEW b, NEW f \in Seq(Parts)
  PROVE  IsStrictPrefix(<<a, b>>, f) <=> Len(f) > 2 /\ f[1] = a /\ f[2] = b
<1> DEFINE S == Parts \cup {a, b}
           s == <<a, b>>
<1>1. f \in Seq(S)
  BY SeqMonotonic
<1>2. s \in Seq(S) /\ Len(s) = 2 /\ s[1] = a /\ s[2] = b
  BY ShortNames
<1> HIDE DEF S, s
<1>3. IsStrictPrefix(s, f) <=> Len(f) > 2 /\ \A i \in 1 .. 2 : f[i] = s[i]
  <2>1. IsStrictPrefix(s, f) <=> Len(f) > Len(s) /\ \A i \in 1 .. Len(s) : f[i] = s[i]
    BY <1>1, <1>2, PrefixStarts, Zenon
  <2> QED
    BY <1>2, <2>1, Zenon
<1>4. (\A i \in 1 .. 2 : f[i] = s[i]) <=> f[1] = s[1] /\ f[2] = s[2]
  OBVIOUS
<1> QED
  BY <1>2, <1>3, <1>4 DEF s

LEMMA PrefixOfThree ==
  ASSUME NEW a, NEW b, NEW c, NEW f \in Seq(Parts)
  PROVE  IsStrictPrefix(<<a, b, c>>, f) <=> Len(f) > 3 /\ f[1] = a /\ f[2] = b /\ f[3] = c
<1> DEFINE S == Parts \cup {a, b, c}
           s == <<a, b, c>>
<1>1. f \in Seq(S)
  BY SeqMonotonic
<1>2. s \in Seq(S) /\ Len(s) = 3 /\ s[1] = a /\ s[2] = b /\ s[3] = c
  BY ShortNames
<1> HIDE DEF S, s
<1>3. IsStrictPrefix(s, f) <=> Len(f) > 3 /\ \A i \in 1 .. 3 : f[i] = s[i]
  <2>1. IsStrictPrefix(s, f) <=> Len(f) > Len(s) /\ \A i \in 1 .. Len(s) : f[i] = s[i]
    BY <1>1, <1>2, PrefixStarts, Zenon
  <2> QED
    BY <1>2, <2>1, Zenon
<1>4. (\A i \in 1 .. 3 : f[i] = s[i]) <=> f[1] = s[1] /\ f[2] = s[2] /\ f[3] = s[3]
  OBVIOUS
<1> QED
  BY <1>2, <1>3, <1>4 DEF s

\* A file keeps its place, or it is the ledger, or it moves from std to src.
PlacedLedger == <<"provenance", "stdlib-provenance-ledger.json">>

LEMMA PlacedSomewhere ==
  ASSUME NEW f \in Seq(Parts), f # <<>>, PlacedAs(f) # Nowhere
  PROVE  \/ KeepsPlace(f) /\ PlacedAs(f) = f
         \/ f = StdlibLedger /\ PlacedAs(f) = PlacedLedger
         \/ PlacedAs(f)[1] = "src" /\ Len(PlacedAs(f)) \in Nat \ {0, 1}
<1>1. CASE KeepsPlace(f) \/ f = StdlibLedger
  BY <1>1 DEF PlacedAs, PlacedLedger
<1>2. CASE /\ ~KeepsPlace(f) /\ f # StdlibLedger
           /\ IsStrictPrefix(NativeStd, f)
  <2> DEFINE own == CrossName[Last(f)]
             middle == SubSeq(f, 4, Len(f) - 1)
  <2>1. Len(f) \in Nat
    BY LenProperties
  <2>2. Len(f) > 3
    BY <1>2, PrefixOfThree DEF NativeStd
  <2>3. middle \in Seq(Parts \cup {own}) /\ Len(middle) \in Nat
    <3>1. f \in Seq(Parts \cup {own})
      BY Zenon, SeqMonotonic
    <3>2. \A i \in 4 .. Len(f) - 1 : i \in 1 .. Len(f)
      BY <2>1, <2>2
    <3> QED
      BY <2>1, <2>2, <3>1, <3>2, SubSeqProperties
  <2>4. PlacedAs(f) = <<"src">> \o middle \o <<own>>
    BY <1>2 DEF PlacedAs
  <2> HIDE DEF middle, own
  <2>5. /\ <<"src">> \o middle \in Seq(Parts \cup {own}) /\ Len(<<"src">> \o middle) > 0
        /\ (<<"src">> \o middle)[1] = "src"
    <3>1. <<"src">> \in Seq(Parts \cup {own}) /\ Len(<<"src">>) = 1 /\ <<"src">>[1] = "src"
      <4>1. "src" \in Parts \cup {own}
        BY DEF Parts, RootDirectories
      <4> QED
        BY <4>1, ShortNames
    <3> QED
      BY <2>3, <3>1, ConcatProperties
  <2>6. <<own>> \in Seq(Parts \cup {own}) /\ Len(<<own>>) = 1
    <3>1. own \in Parts \cup {own}
      OBVIOUS
    <3> QED
      BY <3>1, ShortNames
  <2>7. Len(<<"src">> \o middle) \in Nat
    BY <2>5, LenProperties
  <2> QED
    BY <2>4, <2>5, <2>6, <2>7, ConcatProperties
<1>3. CASE /\ ~KeepsPlace(f) /\ f # StdlibLedger
           /\ ~IsStrictPrefix(NativeStd, f) /\ IsStrictPrefix(<<"std">>, f)
  <2>1. Len(f) \in Nat /\ Len(f) > 1
    BY <1>3, PrefixOfOne, LenProperties
  <2>2. Tail(f) \in Seq(Parts) /\ Len(Tail(f)) = Len(f) - 1
    BY <2>1, HeadTailProperties
  <2>3. PlacedAs(f) = <<"src">> \o Tail(f)
    BY <1>3 DEF PlacedAs
  <2> QED
    BY <2>1, <2>2, <2>3
<1> QED
  BY <1>1, <1>2, <1>3 DEF PlacedAs

\* Where nothing is moved to, each file is placed alone.
Fixed(f) == f = StdlibLedger \/ (KeepsPlace(f) /\ f[1] # "src")

LEMMA PlacedAlone ==
  ASSUME NEW f \in Seq(Parts), f # <<>>, Fixed(f),
         NEW g \in Seq(Parts), g # <<>>, PlacedAs(g) = PlacedAs(f)
  PROVE  g = f
<1>1. PlacedLedger # Nowhere /\ PlacedLedger[1] = "provenance" /\ Len(PlacedLedger) = 2
      /\ ~KeepsPlace(PlacedLedger) /\ ~KeepsPlace(StdlibLedger)
  BY DEF PlacedLedger, StdlibLedger, KeepsPlace, Nowhere
<1>2. IF KeepsPlace(f) THEN PlacedAs(f) = f ELSE PlacedAs(f) = PlacedLedger
  BY <1>1 DEF Fixed, PlacedAs, PlacedLedger
<1>3. PlacedAs(g) # Nowhere
  BY <1>1, <1>2 DEF Nowhere
<1> QED
  BY <1>1, <1>2, <1>3, PlacedSomewhere DEF Fixed

LEMMA ExactIsFixed ==
  ASSUME NEW f \in ExactSources \cup {Manifest}
  PROVE  /\ f \in Seq(Parts) /\ f # <<>> /\ Fixed(f)
         /\ PlacedAs(f) \notin {Nowhere, Metadata} \cup Generated
         /\ f # Manifest => PlacedAs(f) # Manifest
<1>1. CASE f \in {<<"LICENSE">>, <<"README.md">>, <<"extraParams.hxml">>, <<"Run.hx">>, <<"run.n">>,
                  Manifest}
  <2>1. f \in Seq(Parts) /\ Len(f) = 1 /\ f[1] \in CopiedFiles /\ f[1] # "src"
        /\ (f # Manifest => f[1] # "haxelib.json")
    <3>1. PICK part \in CopiedFiles : f = <<part>> /\ part # "src"
      BY <1>1 DEF Manifest, CopiedFiles
    <3>2. f # Manifest => part # "haxelib.json"
      BY <3>1 DEF Manifest
    <3>3. part \in Parts
      BY DEF Parts, RootFiles
    <3> QED
      BY <3>1, <3>2, <3>3, ShortNames
  <2>2. KeepsPlace(f) /\ PlacedAs(f) = f
    BY <2>1 DEF KeepsPlace, PlacedAs
  <2>3. f \notin {Nowhere, Metadata} \cup Generated
    BY <2>1 DEF Nowhere, Metadata, Generated, CopiedFiles
  <2> QED
    BY <2>1, <2>2, <2>3 DEF Fixed
<1>2. CASE f = StdlibLedger
  <2>1. f \in Seq(Parts) /\ f # <<>> /\ ~KeepsPlace(f)
    BY <1>2, ShortNames DEF StdlibLedger, KeepsPlace, Parts
  <2>2. PlacedAs(f) = PlacedLedger
    BY <1>2, <2>1 DEF PlacedAs, PlacedLedger
  <2>3. Len(PlacedLedger) = 2
    BY DEF PlacedLedger
  <2> QED
    BY <1>2, <2>1, <2>2, <2>3 DEF Fixed, Nowhere, Metadata, Generated, Manifest, StdlibLedger
<1>3. CASE f = <<"runtime", "hxrt", "Cargo.toml">>
  <2>1. f \in Seq(Parts) /\ Len(f) = 3 /\ f[1] = "runtime" /\ f[3] = "Cargo.toml"
    BY <1>3, ShortNames DEF Parts, RootDirectories
  <2>2. KeepsPlace(f) /\ PlacedAs(f) = f
    BY <2>1 DEF KeepsPlace, Pruned, PlacedAs
  <2> QED
    BY <2>1, <2>2 DEF Fixed, Nowhere, Metadata, Generated, Manifest
<1> QED
  BY <1>1, <1>2, <1>3 DEF ExactSources

LEMMA VendoredIsFixed ==
  ASSUME NEW f \in Seq(Parts), IsStrictPrefix(<<"vendor", "reflaxe">>, f)
  PROVE  /\ f # <<>> /\ Fixed(f) /\ PlacedAs(f) = f /\ Len(f) > 2
<1>1. Len(f) > 2 /\ f[1] = "vendor" /\ Len(f) \in Nat
  BY PrefixOfTwo, LenProperties
<1>2. ~Pruned(f)
  BY <1>1, PrefixOfTwo DEF Pruned
<1> QED
  BY <1>1, <1>2 DEF KeepsPlace, Fixed, PlacedAs

\* What the staging places is part of a package, and for its users.
LEMMA PlacedIsPackaged ==
  ASSUME NEW f \in Seq(Parts), SafeName(f), PlacedAs(f) # Nowhere, ~DevelopmentPart(PlacedAs(f))
  PROVE  Packaged(PlacedAs(f)) /\ ~DevelopmentOnly(PlacedAs(f))
<1> DEFINE name == PlacedAs(f)
<1>1. \/ KeepsPlace(f) /\ name = f
      \/ name = PlacedLedger
      \/ name[1] = "src" /\ Len(name) \in Nat \ {0, 1}
  BY PlacedSomewhere DEF SafeName
<1>2. Packaged(name)
  <2>1. CASE KeepsPlace(f) /\ name = f /\ Len(f) = 1
    BY <2>1 DEF KeepsPlace, Packaged, RootFiles
  <2>2. CASE KeepsPlace(f) /\ name = f /\ Len(f) # 1
    BY <2>2 DEF KeepsPlace, Packaged, RootDirectories
  <2>3. CASE name = PlacedLedger
    <3>1. Len(PlacedLedger) = 2 /\ PlacedLedger[1] = "provenance"
      BY DEF PlacedLedger
    <3> QED
      BY <2>3, <3>1 DEF Packaged, RootDirectories
  <2>4. CASE name[1] = "src" /\ Len(name) \in Nat \ {0, 1}
    BY <2>4 DEF Packaged, RootDirectories
  <2> QED
    BY <1>1, <2>1, <2>2, <2>3, <2>4
<1>3. ~IsStrictPrefix(<<"std">>, name)
  <2> SUFFICES ASSUME IsPrefix(<<"std">>, name), <<"std">> # name PROVE FALSE
    BY DEF IsStrictPrefix
  <2>1. name[1] = "std"
    BY PrefixAgrees
  <2>2. name = f /\ KeepsPlace(f)
    BY <1>1, <2>1 DEF PlacedLedger
  <2>3. Len(f) = 1 /\ f \in Seq(Parts)
    BY <2>1, <2>2 DEF KeepsPlace
  <2> QED
    BY <2>1, <2>2, <2>3
<1>4. ~IsStrictPrefix(<<"runtime", "hxrt", "tests">>, name)
  <2> DEFINE tests == <<"runtime", "hxrt", "tests">>
  <2> SUFFICES ASSUME IsStrictPrefix(tests, name) PROVE FALSE
    OBVIOUS
  <2>1. name[1] = "runtime"
    <3>1. Len(tests) = 3 /\ tests[1] = "runtime" /\ 1 \in 1 .. 3 /\ IsPrefix(tests, name)
      BY DEF IsStrictPrefix
    <3> HIDE DEF tests, name
    <3> QED
      BY <3>1, PrefixAgrees
  <2>2. name = f /\ KeepsPlace(f)
    BY <1>1, <2>1 DEF PlacedLedger
  <2>3. Len(f) > 3 /\ f[1] = "runtime" /\ f[2] = "hxrt" /\ f[3] = "tests" /\ Len(f) \in Nat
    BY <2>2, PrefixOfThree, LenProperties
  <2>4. IsStrictPrefix(<<"runtime", "hxrt">>, f)
    BY <2>3, PrefixOfTwo
  <2>5. Pruned(f)
    BY <2>3, <2>4 DEF Pruned
  <2> QED
    BY <2>2, <2>3, <2>5 DEF KeepsPlace
<1> QED
  BY <1>2, <1>3, <1>4 DEF DevelopmentOnly

LEMMA GeneratedIsPackaged ==
  ASSUME NEW name \in Generated \cup {Metadata}
  PROVE  SafeName(name) /\ Packaged(name) /\ ~DevelopmentOnly(name) /\ Len(name) = 1
         /\ name \in Seq(Parts)
<1> DEFINE own == {"THIRD_PARTY_NOTICES.md", "release-metadata.json", "release-sbom.json"}
<1>1. name \in Seq(Parts) /\ Len(name) = 1 /\ name[1] \in own
  <2>1. PICK part \in own : name = <<part>>
    BY DEF Generated, Metadata
  <2>2. part \in Parts
    BY DEF Parts, RootFiles
  <2> HIDE DEF own
  <2> QED
    BY <2>1, <2>2, ShortNames
<1>2. SafeName(name)
  <2>1. DOMAIN name = 1 .. 1 /\ name # <<>>
    BY <1>1, LenProperties
  <2>2. \A i \in 1 .. 1 : name[i] \in own
    BY <1>1
  <2> QED
    BY <2>1, <2>2 DEF SafeName
<1>3. ~IsStrictPrefix(<<"std">>, name) /\ ~IsStrictPrefix(<<"runtime", "hxrt", "tests">>, name)
  BY <1>1, PrefixOfOne, PrefixOfThree
<1>4. ~DevelopmentPart(name)
  <2>1. DOMAIN name = {1} /\ ~(\E i \in 2 .. Len(name) - 1 : TRUE)
    BY <1>1, LenProperties
  <2> QED
    BY <1>1, <2>1 DEF DevelopmentPart
<1> QED
  BY <1>1, <1>2, <1>3, <1>4 DEF Packaged, DevelopmentOnly, RootFiles

LEMMA FilesAreSequences ==
  ASSUME NEW c \in Commits, NEW f \in FilesIn(c)
  PROVE  f \in Seq(Parts)
<1>1. Tree[c] \in Seq(TreeEntry)
  BY SourceAssumption
<1>2. PICK i \in DOMAIN Tree[c] : f = Tree[c][i].file
  BY DEF FilesIn, Entries
<1>3. i \in 1 .. Len(Tree[c])
  BY <1>1, <1>2, LenProperties
<1>4. Tree[c][i] \in TreeEntry
  BY <1>1, <1>3, ElementOfSeq
<1>5. f \in Seq(STRING)
  BY <1>2, <1>4 DEF TreeEntry
<1> QED
  BY <1>5, SeqMonotonic DEF Parts

LEMMA NamesAllowed ==
  ASSUME NEW c \in Commits, Packable(c),
         NEW name \in PlacedNames(FilesIn(c)) \cup Generated \cup {Metadata}
  PROVE  SafeName(name) /\ Packaged(name) /\ ~DevelopmentOnly(name)
<1>1. CASE name \in PlacedNames(FilesIn(c))
  <2>1. PICK f \in FilesIn(c) : PlacedAs(f) = name /\ PlacedAs(f) # Nowhere
    BY <1>1 DEF PlacedNames, PlacedFrom
  <2>2. SafeName(name) /\ ~DevelopmentPart(name) /\ SafeName(f)
    BY <1>1 DEF Packable
  <2> QED
    BY <2>1, <2>2, FilesAreSequences, PlacedIsPackaged
<1>2. CASE name \in Generated \cup {Metadata}
  BY <1>2, GeneratedIsPackaged
<1> QED
  BY <1>1, <1>2

\* A file that is placed alone is in the staged package as it is in the commit.
LEMMA FixedIsStaged ==
  ASSUME NEW c \in Commits, NEW v, NEW f \in Seq(Parts), f # <<>>, Fixed(f),
         PlacedAs(f) \notin {Nowhere, Metadata} \cup Generated, Packable(c)
  PROVE  LET dir == Stage(Checkout(c), v, c)
         IN  /\ f \in FilesIn(c) <=> PlacedAs(f) \in DOMAIN dir
             /\ f \in FilesIn(c) => dir[PlacedAs(f)].file = Checkout(c)[f].bytes
<1> DEFINE source == Checkout(c)
           files == FilesIn(c)
           dir == Stage(source, v, c)
           name == PlacedAs(f)
<1>1. DOMAIN source = files /\ DOMAIN dir = PlacedNames(files) \cup Generated \cup {Metadata}
  BY DEF Checkout, Stage
<1>2. \A g \in files : PlacedAs(g) = name => g = f
  BY FilesAreSequences, PlacedAlone DEF Packable, SafeName
<1>3. f \in files <=> name \in PlacedNames(files)
  BY <1>2 DEF PlacedNames, PlacedFrom
<1>4. f \in files => SourceOf(files, name) = f
  <2> SUFFICES ASSUME f \in files PROVE SourceOf(files, name) = f
    OBVIOUS
  <2>1. /\ PlacedAs(f) = name
        /\ \A g \in files : PlacedAs(g) = name => Turn(g) <= Turn(f)
    BY <1>2 DEF Turn
  <2> QED
    BY <1>2, <2>1, Zenon DEF SourceOf
<1>5. ASSUME f \in files PROVE dir[name].file = source[f].bytes
  <2>1. name \in DOMAIN dir
    BY <1>1, <1>3, <1>5
  <2>2. dir[name] = IF name = Manifest THEN StampedManifest(source, v)
                    ELSE [file |-> source[f].bytes, stamp |-> <<>>]
    BY <1>1, <1>3, <1>4, <1>5 DEF Stage
  <2>3. name = Manifest => f = Manifest
    <3>1. Manifest \in Seq(Parts) /\ Manifest # <<>> /\ Fixed(Manifest)
      BY ExactIsFixed
    <3>2. PlacedAs(Manifest) = Manifest
      BY DEF PlacedAs, KeepsPlace, Manifest, CopiedFiles
    <3> QED
      BY <3>1, <3>2, PlacedAlone
  <2>4. StampedManifest(source, v).file = source[Manifest].bytes
    BY DEF StampedManifest
  <2> QED
    BY <2>2, <2>3, <2>4
<1> QED
  BY <1>1, <1>3, <1>5

LEMMA StagedIsIdentical ==
  ASSUME NEW c \in Commits, NEW v, Packable(c)
  PROVE  Identity(Stage(Checkout(c), v, c), Checkout(c), v, c)
<1> DEFINE source == Checkout(c)
           files == FilesIn(c)
           dir == Stage(Checkout(c), v, c)
<1>1. DOMAIN source = files /\ DOMAIN dir = PlacedNames(files) \cup Generated \cup {Metadata}
  BY DEF Checkout, Stage
<1>2. /\ RequiredInputs \cup LicenseSources \cup Evidence \subseteq files
      /\ <<[f \in Evidence |-> source[f].bytes], Inventory(source)>> \in Agreeing
  BY <1>1 DEF Packable, CanPackage
<1>3. dir[Manifest] = StampedManifest(source, v)
  <2>1. PlacedAs(Manifest) = Manifest /\ Manifest \notin {Metadata} \cup Generated
    BY DEF PlacedAs, KeepsPlace, Manifest, CopiedFiles, Metadata, Generated
  <2>2. Manifest # Nowhere
    BY ExactIsFixed DEF Nowhere
  <2>3. Manifest \in PlacedNames(files)
    BY <1>2, <2>1, <2>2, ArchiveAssumption DEF PlacedNames, PlacedFrom
  <2> QED
    BY <1>1, <2>1, <2>3 DEF Stage
<1>4. ASSUME NEW f \in ExactSources
      PROVE  /\ f \in files <=> PlacedAs(f) \in DOMAIN dir
             /\ f \in files => dir[PlacedAs(f)].file = source[f].bytes
  BY ExactIsFixed, FixedIsStaged
<1>5. ASSUME NEW f \in files, IsStrictPrefix(<<"vendor", "reflaxe">>, f)
      PROVE  /\ PlacedAs(f) = f /\ f \in DOMAIN dir
             /\ dir[PlacedAs(f)].file = source[f].bytes
  <2>1. f \in Seq(Parts)
    BY FilesAreSequences
  <2>2. f # <<>> /\ Fixed(f) /\ PlacedAs(f) = f /\ Len(f) > 2
    BY <1>5, <2>1, VendoredIsFixed
  <2>3. f \notin {Nowhere, Metadata} \cup Generated
    BY <2>2, GeneratedIsPackaged DEF Nowhere
  <2> QED
    BY <2>1, <2>2, <2>3, FixedIsStaged
<1>6. Vendored(DOMAIN dir) = Vendored(files)
  <2>1. ASSUME NEW name \in DOMAIN dir, IsStrictPrefix(<<"vendor", "reflaxe">>, name)
        PROVE  name \in files
    <3>1. name \notin Generated \cup {Metadata}
      <4> SUFFICES ASSUME name \in Generated \cup {Metadata} PROVE FALSE
        OBVIOUS
      <4>1. Len(name) = 1 /\ name \in Seq(Parts)
        BY GeneratedIsPackaged
      <4>2. Len(name) > 2
        BY <2>1, <4>1, VendoredIsFixed
      <4> QED
        BY <4>1, <4>2
    <3>2. PICK f \in files : PlacedAs(f) = name /\ PlacedAs(f) # Nowhere
      BY <1>1, <3>1 DEF PlacedNames, PlacedFrom
    <3>3. name[1] = "vendor"
      BY <2>1, PrefixAgrees DEF IsStrictPrefix
    <3>4. f \in Seq(Parts) /\ f # <<>>
      BY FilesAreSequences DEF Packable, SafeName
    <3> QED
      BY <3>2, <3>3, <3>4, PlacedSomewhere DEF PlacedLedger
  <2> QED
    BY <1>5, <2>1 DEF Vendored
<1>7. ASSUME NEW f \in Generated PROVE dir[f] = LicenseArtifact(source, v)
  BY <1>1 DEF Stage, Generated, Metadata
<1>8. dir[Metadata].stamp = Stamp(v, c)
  BY <1>1 DEF Stage
<1>9. ASSUME NEW e \in Evidence PROVE dir[PlacedAs(e)].file = source[e].bytes
  <2>1. e \in files
    BY <1>2
  <2>2. CASE e \in {Manifest, StdlibLedger}
    BY <2>1, <2>2, ExactIsFixed, FixedIsStaged DEF ExactSources
  <2>3. CASE IsStrictPrefix(<<"vendor", "reflaxe">>, e)
    BY <1>5, <2>1, <2>3
  <2> QED
    BY <2>2, <2>3, ArchiveAssumption
<1> HIDE DEF dir, source
<1>10. ASSUME NEW f \in Generated
       PROVE  <<[e \in Evidence |-> dir[PlacedAs(e)].file], dir[f].file>> \in Agreeing
  <2>1. [e \in Evidence |-> dir[PlacedAs(e)].file] = [e \in Evidence |-> source[e].bytes]
    BY <1>9
  <2>2. dir[f].file = Inventory(source)
    BY <1>7 DEF LicenseArtifact
  <2> QED
    BY <1>2, <2>1, <2>2
<1>11. \A f \in Vendored(files) : f \in files /\ IsStrictPrefix(<<"vendor", "reflaxe">>, f)
  BY DEF Vendored
<1> QED
  BY <1>1, <1>3, <1>4, <1>5, <1>6, <1>7, <1>8, <1>10, <1>11 DEF Identity, AsInSource, dir, source

(* The verifier accepts every archive that is built from the files of a      *)
(* commit with what a package needs, if no file is placed under a name or in *)
(* a directory that no archive may have: staging leaves out what layout      *)
(* refuses, and keeps apart what identity compares with the source.          *)
THEOREM HonestBuildVerifies ==
  ASSUME NEW c \in Commits, NEW v, Packable(c), IsInjective(Names)
  PROVE  LET zip == Package(Checkout(c), v, c)
         IN  VerifiedArtifact(zip, zip, Checkout(c), v, c)
<1> DEFINE source == Checkout(c)
           files == FilesIn(c)
           dir == Stage(Checkout(c), v, c)
           zip == ZipBytes(dir)
           names == EntryNames(zip)
<1>1. DOMAIN source = files /\ \A f \in files : f \in Seq(Parts) /\ f # <<>> /\ SafeName(f)
  BY FilesAreSequences DEF Checkout, Packable, SafeName
<1>2. DOMAIN dir = PlacedNames(files) \cup Generated \cup {Metadata}
      /\ dir = [f \in DOMAIN dir |-> dir[f]]
  BY <1>1 DEF Stage
<1>3. DOMAIN dir \subseteq ToSet(Names)
  BY <1>2, ArchiveAssumption
<1>4. \A f \in DOMAIN dir : SafeName(f) /\ Packaged(f) /\ ~DevelopmentOnly(f)
  BY <1>1, <1>2, NamesAllowed
<1>5. Required \subseteq DOMAIN dir
  BY <1>2 DEF Packable
<1>6. Identity(dir, source, v, c)
  BY StagedIsIdentical
<1> HIDE DEF dir
<1>7. Readable(zip) /\ names = CollectFiles(dir)
  BY <1>3, <1>4, PackedIsReadable
<1>8. Extract(zip) = dir
  BY <1>2, <1>3, ExtractedIsPacked
<1>9. ToSet(names) = DOMAIN dir
  <2> DEFINE found == CollectFiles(dir)
  <2>1. /\ \A i \in DOMAIN found : found[i] \in DOMAIN dir
        /\ \A f \in DOMAIN dir : \E i \in DOMAIN found : found[i] = f
    BY <1>3, FilesCollected
  <2> HIDE DEF found
  <2>2. ToSet(found) = DOMAIN dir
    BY <2>1 DEF ToSet
  <2> QED
    BY <1>7, <2>2 DEF found
<1> HIDE DEF zip, names
<1>10. Layout(names)
  <2>1. CollectFiles([f \in ToSet(names) |-> f]) = names
    BY <1>7, <1>9, CollectedByName
  <2>2. \A k \in DOMAIN names : names[k] \in DOMAIN dir
    BY <1>9 DEF ToSet
  <2> QED
    BY <1>4, <1>5, <1>9, <2>1, <2>2 DEF Layout
<1> QED
  BY <1>6, <1>7, <1>8, <1>10 DEF VerifiedArtifact, Package, dir, zip, names

-----------------------------------------------------------------------------
(* The assertions of the release code accept what its bootstrap makes.       *)
\* A commit whose entries have different files is found by file.
LEMMA EntryFound ==
  ASSUME NEW c \in Commits, CommitEntriesSafe(c), NEW e \in Entries(c)
  PROVE  EntryOf(c, e.file) = e
<1> DEFINE n == Len(Tree[c])
           E == Entries(c)
           F == FilesIn(c)
           f == [i \in 1 .. n |-> Tree[c][i]]
           g == [x \in E |-> x.file]
<1>0. Tree[c] \in Seq(TreeEntry)
  BY SourceAssumption
<1>1. n \in Nat /\ DOMAIN Tree[c] = 1 .. n /\ IsFiniteSet(1 .. n) /\ Cardinality(1 .. n) = n
  <2>1. n \in Nat /\ DOMAIN Tree[c] = 1 .. n
    BY <1>0, LenProperties
  <2> HIDE DEF n
  <2>2. IsFiniteSet(1 .. n) /\ Cardinality(1 .. n) = n
    BY <2>1, FS_Interval
  <2> QED
    BY <2>1, <2>2
<1>2. f \in Surjection(1 .. n, E)
  BY <1>1 DEF Surjection, Entries
<1>3. g \in Surjection(E, F)
  BY DEF Surjection, FilesIn
<1>4. Cardinality(F) = n
  BY DEF CommitEntriesSafe
<1> HIDE DEF n, E, F, f, g
<1>5. IsFiniteSet(E) /\ Cardinality(E) <= n
  BY <1>1, <1>2, FS_Surjection
<1>6. Cardinality(F) <= Cardinality(E) /\ (Cardinality(F) = Cardinality(E) => g \in Injection(E, F))
  BY <1>3, <1>5, FS_Surjection
<1>7. g \in Injection(E, F)
  BY <1>1, <1>4, <1>5, <1>6, FS_CardinalityType
<1>8. \A x, y \in E : x.file = y.file => x = y
  BY <1>7 DEF g, Injection, IsInjective
<1> QED
  BY <1>8 DEF E, EntryOf

\* What the bootstrap of a commit makes, field by field.
LEMMA BootstrappedFields ==
  ASSUME NEW c, NEW tags
  PROVE  LET r == Bootstrapped(c, tags)
         IN  /\ r.store = [o \in Objects |-> o] /\ r.admin = {} /\ r.hooks = {} /\ r.untracked = {}
             /\ r.hidden = {} /\ r.index = Entries(c) /\ r.work = Checkout(c)
             /\ r.config = ReviewedConfig /\ r.tags = tags
             /\ r.receipt = [commit |-> c, tags |-> Records(tags), config |-> ReviewedConfig]
BY DEF Bootstrapped, EmptyRepository

LEMMA BootstrapIsExact ==
  ASSUME NEW c \in Commits, NEW tags, CanBootstrap(c),
         [commit |-> c, tags |-> Records(tags), config |-> ReviewedConfig] # NoReceipt
  PROVE  LET r == Bootstrapped(c, tags)
         IN  /\ ExactBootstrap(r, c, tags, {}) /\ TrackedTreeClean(r, c)
             /\ ReviewedSource(r, c) = Checkout(c)
<1> DEFINE r == Bootstrapped(c, tags)
<1>1. /\ r.store = [o \in Objects |-> o] /\ r.admin = {} /\ r.hooks = {} /\ r.untracked = {}
      /\ r.hidden = {} /\ r.index = Entries(c) /\ r.work = Checkout(c)
      /\ r.config = ReviewedConfig /\ r.tags = tags
      /\ r.receipt = [commit |-> c, tags |-> Records(tags), config |-> ReviewedConfig]
  BY BootstrappedFields
<1> HIDE DEF r
<1>2. CommitEntriesSafe(c) /\ \A e \in Entries(c) : Regular(e)
  BY DEF CanBootstrap
<1>3. ASSUME NEW e \in Entries(c)
      PROVE  /\ ReadObject(r, e) = e.object /\ ObjectIntact(r, e)
             /\ e.file \in DOMAIN r.work
             /\ r.work[e.file] = [bytes |-> e.object, executable |-> Executable(e)]
  <2>1. e.object \in Objects
    <3>1. Tree[c] \in Seq(TreeEntry)
      BY SourceAssumption
    <3>2. PICK i \in DOMAIN Tree[c] : e = Tree[c][i]
      BY DEF Entries
    <3>3. i \in 1 .. Len(Tree[c])
      BY <3>1, <3>2, LenProperties
    <3>4. e \in TreeEntry
      BY <3>1, <3>2, <3>3, ElementOfSeq
    <3> QED
      BY <3>4 DEF TreeEntry
  <2>2. ReadObject(r, e) = e.object
    BY <1>1, <2>1 DEF ReadObject
  <2>3. e.file \in FilesIn(c)
    BY DEF FilesIn
  <2> QED
    BY <1>1, <1>2, <2>2, <2>3, EntryFound DEF ObjectIntact, Checkout
<1>4. ~HistorySubstituted(r) /\ ObjectsIntact(r, c)
  BY <1>1, <1>3 DEF HistorySubstituted, ObjectsIntact
<1>5. AdministrationMatches(r) /\ IndexMatches(r, c) /\ NoPreloadShadows(r)
  BY <1>1 DEF AdministrationMatches, IndexMatches, NoPreloadShadows
<1>6. TagsMatch(r, c, tags, {})
  BY <1>1 DEF TagsMatch
<1>7. WorktreeMatches(r, c)
  BY <1>2, <1>3, <1>4 DEF WorktreeMatches
<1>8. ExactBootstrap(r, c, tags, {})
  BY <1>1, <1>4, <1>5, <1>6, <1>7 DEF ExactBootstrap
<1>9. TrackedTreeClean(r, c)
  <2>1. \A e \in Entries(c) : e.mode \in {"100644", "100755"}
    BY <1>2 DEF Regular
  <2>2. \A e \in Entries(c) : e.file \in DOMAIN r.work /\ r.work[e.file].bytes = e.object
    <3> SUFFICES ASSUME NEW e \in Entries(c)
                 PROVE  e.file \in DOMAIN r.work /\ r.work[e.file].bytes = e.object
      OBVIOUS
    <3>1. r.work[e.file].bytes = e.object
      <4> DEFINE x == Executable(e)
                 w == r.work[e.file]
      <4>1. w = [bytes |-> e.object, executable |-> x]
        BY <1>3
      <4> HIDE DEF x, w
      <4>2. w.bytes = e.object
        BY <4>1
      <4> QED
        BY <4>2 DEF w
    <3> QED
      BY <1>3, <3>1
  <2>3. r.untracked \cap ReleaseInputs = {}
    BY <1>1
  <2> QED
    BY <1>1, <2>1, <2>2, <2>3 DEF TrackedTreeClean
<1>10. ReviewedSource(r, c) = Checkout(c)
  <2>1. ReleaseInputModes(c)
    BY <1>2 DEF ReleaseInputModes
  <2>2. \A f \in FilesIn(c) : EntryOf(c, f) \in Entries(c)
    BY DEF EntryOf, FilesIn
  <2>3. Materialize(r, c) = Checkout(c)
    BY <1>2, <1>3, <1>4, <2>2 DEF Materialize, Checkout
  <2> QED
    BY <2>1, <2>3 DEF ReviewedSource
<1> QED
  BY <1>8, <1>9, <1>10 DEF r

\* No sentinel is what a bootstrap makes.
SentinelsApart ==
  /\ \A c \in Commits : Checkout(c) # NoTree
  /\ \A c, tags : [commit |-> c, tags |-> tags, config |-> ReviewedConfig] # NoReceipt

(* A job that is about to build runs on a commit that can be bootstrapped,   *)
(* and a repair on one its version is the tag of.                            *)
Starting == {"derive", "check", "build"}

ReadyInv ==
  /\ \A t \in VersionTags : t = LightTag(t.ref, t.commit)
  /\ pc = "derive" => kind = "release"
  /\ pc \in Starting => commit \in Commits /\ CanBootstrap(commit)
  /\ pc = "check" /\ kind = "repair" => LightTag(version, commit) \in VersionTags

LEMMA TagsStayLight ==
  ASSUME LedgerInv, ReadyInv, [Next]_vars
  PROVE  /\ VersionTags \subseteq VersionTags'
         /\ \A t \in VersionTags' : t = LightTag(t.ref, t.commit)
<1>1. CASE VersionTags' = VersionTags
  BY <1>1 DEF ReadyInv
<1>2. CASE PushTag /\ ~Ends
  <2> DEFINE new == LightTag(version, commit)
  <2>1. remoteTags' = remoteTags \cup {new}
    BY <1>2 DEF PushTag
  <2>2. VersionTags' \subseteq VersionTags \cup {new} /\ VersionTags \subseteq VersionTags'
    <3> HIDE DEF new
    <3> QED
      BY <2>1 DEF VersionTags
  <2>3. new = LightTag(new.ref, new.commit)
    BY DEF LightTag
  <2> HIDE DEF new
  <2> QED
    BY <2>2, <2>3 DEF ReadyInv
<1>3. CASE PublishDraft
  <2>1. UNCHANGED remoteTags
    BY <1>3 DEF PublishDraft, HostOnly
  <2> QED
    BY <1>1, <2>1 DEF VersionTags
<1> QED
  BY <1>1, <1>2, <1>3, QuietOnLedger

LEMMA ReadyHolds == Init => ReadyInv
<1> SUFFICES ASSUME Init PROVE ReadyInv
  OBVIOUS
<1>1. \A t \in remoteTags : t = LightTag(t.ref, t.commit)
  BY DEF Init, LightTag
<1> QED
  BY <1>1 DEF ReadyInv, Init, VersionTags, Starting

LEMMA ReadyKeeps ==
  ASSUME LedgerInv, ReadyInv, [Next]_vars
  PROVE  ReadyInv'
<1>1. /\ VersionTags \subseteq VersionTags'
      /\ \A t \in VersionTags' : t = LightTag(t.ref, t.commit)
  BY TagsStayLight
<1>2. CASE pc' \notin Starting
  BY <1>1, <1>2 DEF ReadyInv, Starting
<1>3. CASE UNCHANGED <<pc, kind, commit, version>>
  <2>1. LightTag(version, commit)' = LightTag(version, commit)
    BY <1>3 DEF LightTag
  <2> QED
    BY <1>1, <1>3, <2>1 DEF ReadyInv
<1>4. CASE \E c \in Commits : StartRelease(c)
  <2>1. PICK c \in Commits : StartRelease(c)
    BY <1>4
  <2>2. pc' = "derive" /\ kind' = "release" /\ commit' = c /\ CanBootstrap(c)
    BY <2>1 DEF StartRelease, Goes
  <2> QED
    BY <1>1, <2>2 DEF ReadyInv
<1>5. CASE \E t \in VersionTags : StartRepair(t.ref)
  <2>1. PICK t \in VersionTags : StartRepair(t.ref)
    BY <1>5
  <2>2. TaggedCommit(t.ref) = t.commit
    BY TagsDiffer, TagFound DEF LedgerInv
  <2>3. /\ pc' = "check" /\ version' = t.ref /\ commit' = t.commit /\ CanBootstrap(t.commit)
    BY <2>1, <2>2 DEF StartRepair, Goes
  <2>4. t.commit \in Commits
    BY DEF LedgerInv, OrderInv, MainInv, TagInv, ToSet
  <2>5. LightTag(version, commit)' = t
    BY <2>3 DEF ReadyInv, LightTag
  <2> QED
    BY <1>1, <2>3, <2>4, <2>5 DEF ReadyInv
<1>6. CASE Derive
  <2>1. pc = "derive" /\ (Ends \/ (Goes("check") /\ UNCHANGED <<kind, commit>>))
    BY <1>6 DEF Derive, Keeps
  <2> QED
    BY <1>1, <1>2, <2>1 DEF ReadyInv, Ends, Goes, Starting
<1>7. CASE Ends
  BY <1>2, <1>7 DEF Ends, Starting
<1>8. CASE Check /\ ~Ends
  <2>1. pc = "check" /\ pc' = "build" /\ UNCHANGED <<kind, commit>>
    BY <1>8 DEF Check, Goes, Keeps, jobVars
  <2> QED
    BY <1>1, <2>1 DEF ReadyInv, Starting
<1>9. CASE (\/ Build \/ Verify \/ Smoke \/ PushTag \/ Recheck \/ Rebuild \/ Approve \/ Capture) /\ ~Ends
  BY <1>2, <1>9 DEF Build, Verify, Smoke, PushTag, Recheck, Rebuild, Approve, Capture, Goes, Starting
<1>10. CASE (\/ LookForRelease \/ ViewRelease \/ ViewFails \/ DeleteAsset \/ StageCopies
             \/ CreateDraft \/ CheckDraft \/ \E a \in Asset : Upload(a)) /\ ~Ends
  <2>1. pc' \notin Starting
    BY <1>10 DEF LookForRelease, ViewRelease, ViewFails, DeleteAsset, StageCopies, CreateDraft,
         CheckDraft, Upload, Goes, HostOnly, Starting
  <2> QED
    BY <1>2, <2>1
<1>11. CASE \/ (\E c \in Commits : Push(c)) \/ PushOtherTag \/ UNCHANGED vars
            \/ DisturbRepository \/ AlterDist \/ AlterStaged
  <2>1. UNCHANGED <<pc, kind, commit, version>>
    BY <1>11 DEF Push, PushOtherTag, DisturbRepository, AlterDist, AlterStaged, vars, jobVars
  <2> QED
    BY <1>3, <2>1
<1>12. JobIsKilled \/ PublishDraft \/ (\E a \in Asset : UploadBreaks(a)) => Ends
  BY DEF JobIsKilled, PublishDraft, UploadBreaks
<1>13. CASE JobStep
  BY <1>6, <1>7, <1>8, <1>9, <1>10, <1>12, <1>13 DEF JobStep
<1>14. CASE ViewFails
  BY <1>7, <1>10, <1>14
<1> QED
  BY <1>4, <1>5, <1>7, <1>11, <1>12, <1>13, <1>14 DEF Next

(* What a bootstrap makes of a commit passes the assertions, can be read and *)
(* packaged, and what is built of it is verified: no job is refused unless a *)
(* tool has touched its repository or its archive, or a tag has come since.  *)
Undisturbed == repo = Bootstrapped(commit, remoteTags)
Unaltered == sources = Checkout(commit) /\ dist.archive = PackageOf(sources)
UndisturbedJobsBuild ==
  [][ /\ Check /\ Undisturbed => pc' = "build"
      /\ Build /\ Undisturbed /\ Packable(commit) => pc' = "verify" /\ Unaltered'
      /\ Verify /\ Unaltered /\ commit \in Commits /\ Packable(commit) => pc' = "smoke" ]_vars

LEMMA UndisturbedCheck ==
  ASSUME SentinelsApart, LedgerInv, ReadyInv, Check, Undisturbed
  PROVE  pc' = "build"
<1>1. pc = "check" /\ commit \in Commits /\ CanBootstrap(commit)
  BY DEF Check, ReadyInv, Starting
<1>2. ExactCheckout({})
  BY <1>1, BootstrapIsExact DEF Undisturbed, SentinelsApart, ExactCheckout
<1>3. TagChecked
  <2> SUFFICES ASSUME kind = "repair"
               PROVE  TagIdentity /\ VersionAllowed(PolicyLines[commit], version)
    BY DEF TagChecked
  <2>1. LightTag(version, commit) \in VersionTags
    BY <1>1 DEF ReadyInv
  <2>2. VersionAllowed(PolicyLines[commit], version)
    <3>1. LightTag(version, commit).ref = version /\ LightTag(version, commit).commit = commit
      BY DEF LightTag
    <3> QED
      BY <2>1, <3>1 DEF LedgerInv, OrderInv, TagInv
  <2>3. repo.tags = remoteTags
    BY BootstrappedFields DEF Undisturbed
  <2> QED
    BY <2>1, <2>2, <2>3 DEF TagIdentity, VersionTags
<1> QED
  BY <1>2, <1>3 DEF Check, Goes

LEMMA UndisturbedBuild ==
  ASSUME SentinelsApart, LedgerInv, ReadyInv, Build, Undisturbed, Packable(commit)
  PROVE  pc' = "verify" /\ Unaltered'
<1>1. pc = "build" /\ commit \in Commits /\ CanBootstrap(commit)
  BY DEF Build, ReadyInv, Starting
<1>2. ReviewedSource(repo, commit) = Checkout(commit)
  BY <1>1, BootstrapIsExact DEF Undisturbed, SentinelsApart
<1>3. Checkout(commit) \in Readings
  BY <1>1, <1>2 DEF Readings, SentinelsApart, Packable
<1>4. /\ sources' \in Readings /\ dist' = [archive |-> PackageOf(sources')] /\ Goes("verify")
      /\ UNCHANGED <<commit, version>>
  BY <1>3 DEF Build, Keeps
<1>5. sources' = Checkout(commit)
  BY <1>4, ReadingIsCheckout
<1>6. dist'.archive = Package(sources', version, commit)
  BY <1>4 DEF PackageOf
<1> QED
  BY <1>4, <1>5, <1>6 DEF Goes, Unaltered, PackageOf

LEMMA UnalteredVerify ==
  ASSUME IsInjective(Names), Verify, Unaltered, commit \in Commits, Packable(commit)
  PROVE  pc' = "smoke"
<1> DEFINE zip == Package(Checkout(commit), version, commit)
<1>1. VerifiedArtifact(zip, zip, Checkout(commit), version, commit)
  BY HonestBuildVerifies
<1> HIDE DEF zip
<1>2. sources = Checkout(commit) /\ PackageOf(sources) = zip /\ dist.archive = zip
  BY DEF Unaltered, PackageOf, zip
<1> QED
  BY <1>1, <1>2 DEF Verify, Goes

(* For any commits, versions, tags and earlier jobs: what the bootstrap makes *)
(* passes every assertion before the build, for a release and for a repair of *)
(* any tag; a commit that can be packaged is built; and the verifier, with    *)
(* its layout and its identity, lets the archive pass that was built of it.   *)
THEOREM HonestJobsBuild ==
  ASSUME SentinelsApart, IsInjective(Names)
  PROVE  Spec => UndisturbedJobsBuild
<1> DEFINE Step ==
      /\ Check /\ Undisturbed => pc' = "build"
      /\ Build /\ Undisturbed /\ Packable(commit) => pc' = "verify" /\ Unaltered'
      /\ Verify /\ Unaltered /\ commit \in Commits /\ Packable(commit) => pc' = "smoke"
<1>1. Init => LedgerInv /\ ReadyInv
  BY LedgerHolds, ReadyHolds
<1>2. ASSUME LedgerInv, ReadyInv, [Next]_vars
      PROVE  LedgerInv' /\ ReadyInv'
  BY <1>2, LedgerKeeps, ReadyKeeps
<1>3. LedgerInv /\ ReadyInv => [Step]_vars
  BY UndisturbedCheck, UndisturbedBuild, UnalteredVerify
<1> QED
  BY <1>1, <1>2, <1>3, PTL DEF Spec, UndisturbedJobsBuild
=============================================================================
