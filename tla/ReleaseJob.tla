----------------------------- MODULE ReleaseJob -----------------------------
(* The jobs that release: the last one of ci.yml (semantic-release with the  *)
(* plugins of scripts/release) and the repair of an existing tag.  The       *)
(* concurrency group of the workflows lets one run at a time.  One action    *)
(* per call that another program or a failure can come between.              *)
EXTENDS ReleasePolicy, ReleaseArchive

CONSTANTS
  FirstCommit, FirstVersion,   \* what is released already
  Bump, PolicyLines,           \* per commit: its change, its release-manifest.json
  OtherTag,                    \* a tag that is no version
  Nothing,
  ImmutableReleases,           \* the setting of the repository host
  MaxPushes,                   \* bound: commits pushed to main
  MaxFailures,                 \* bound: calls that fail, jobs that are killed
  MaxFaults                    \* bound: files of a job its tools change, tags others push

ASSUME JobAssumption ==
  /\ FirstCommit \in Commits
  /\ FirstVersion \in [major : Nat, minor : Nat, patch : Nat, label : {"none"}]
  /\ VersionAllowed(PolicyLines[FirstCommit], FirstVersion)
  /\ ~ExactVersion(OtherTag)

VARIABLES
  main,        \* the commits of the branch, oldest first
  remoteTags,  \* the tags of origin
  releases,    \* the hosted release of each version that has one
  pc,          \* what the job does next: "idle" when none runs
  kind,        \* "release" or "repair"
  commit,      \* the exact commit the job was started for
  version,     \* the version it releases
  repo,        \* its bootstrapped repository
  sources,     \* the files of the commit, while a build has them
  dist,        \* dist/reflaxe.rust.zip and, once it is written, .zip.sha256
  approved,    \* the archive the verifier returned the digest of
  receipt,     \* the captured approval
  staged,      \* the copies that are uploaded
  uploads,     \* the assets still to be sent by gh release upload
  failures, faults

hostVars == <<main, remoteTags, releases>>
jobVars == <<kind, commit, version, repo, sources, dist, approved, receipt, staged, uploads>>
bounds == <<failures, faults>>
vars == <<hostVars, pc, jobVars, bounds>>

Asset == {"archive", "checksum"}

\* Both files hold an archive: the checksum file that of the archive it names.
Pair(zip) == [archive |-> zip, checksum |-> zip]
Uploaded(files) == [a \in Asset |-> [state |-> "uploaded", bytes |-> files[a]]]

LightTag(v, c) == [ref |-> v, object |-> c, commit |-> c]
TagNamed(v) == {t \in remoteTags : t.ref = v}
TaggedCommit(v) == (CHOOSE t \in remoteTags : t.ref = v).commit
VersionTags == {t \in remoteTags : ExactVersion(t.ref)}
PositionOf(c) == CHOOSE i \in DOMAIN main : main[i] = c

Init ==
  /\ main = <<FirstCommit>>
  /\ remoteTags = {LightTag(FirstVersion, FirstCommit)}
  /\ releases = [v \in {FirstVersion} |->
       [state |-> "published", immutable |-> TRUE,
        assets |-> Uploaded(Pair(Package(Checkout(FirstCommit), FirstVersion, FirstCommit)))]]
  /\ pc = "idle" /\ kind = "none" /\ commit = FirstCommit /\ version = FirstVersion
  /\ repo = EmptyRepository /\ sources = NoTree
  /\ dist = Nothing /\ approved = Nothing /\ receipt = Nothing /\ staged = Nothing
  /\ uploads = {}
  /\ failures = 0 /\ faults = 0

-----------------------------------------------------------------------------
(* Others: commits are pushed, and somebody pushes a tag of his own.         *)
Push(c) ==
  /\ Len(main) <= MaxPushes
  /\ c \notin ToSet(main)
  /\ main' = Append(main, c)
  /\ UNCHANGED <<remoteTags, releases, pc, jobVars, bounds>>

PushOtherTag ==
  /\ TagNamed(OtherTag) = {}
  /\ faults < MaxFaults /\ faults' = faults + 1
  /\ remoteTags' = remoteTags \cup {[ref |-> OtherTag, object |-> OtherTag, commit |-> Last(main)]}
  /\ UNCHANGED <<main, releases, pc, jobVars, failures>>

-----------------------------------------------------------------------------
(* The start of a job and its end.                                           *)
Ends ==
  /\ pc' = "idle" /\ kind' = "none" /\ commit' = FirstCommit /\ version' = FirstVersion
  /\ repo' = EmptyRepository /\ sources' = NoTree
  /\ dist' = Nothing /\ approved' = Nothing /\ receipt' = Nothing /\ staged' = Nothing
  /\ uploads' = {}
Goes(to) == pc' = to
Keeps(kept) == UNCHANGED <<hostVars, bounds, kept>>

\* The bootstrap of the workflow, which is loaded from the commit itself.
StartRelease(c) ==
  /\ pc = "idle"
  /\ c \in ToSet(main) /\ CanBootstrap(c)
  /\ Goes("derive")
  /\ kind' = "release" /\ commit' = c
  /\ repo' = Bootstrapped(c, remoteTags)
  /\ Keeps(<<version, sources, dist, approved, receipt, staged, uploads>>)

StartRepair(v) ==
  /\ pc = "idle"
  /\ TagNamed(v) # {} /\ CanBootstrap(TaggedCommit(v))
  /\ Goes("check")
  /\ kind' = "repair" /\ commit' = TaggedCommit(v) /\ version' = v
  /\ repo' = Bootstrapped(TaggedCommit(v), remoteTags)
  /\ Keeps(<<sources, dist, approved, receipt, staged, uploads>>)

Fails == failures < MaxFailures /\ failures' = failures + 1
JobIsKilled ==
  /\ pc # "idle" /\ Fails
  /\ Ends
  /\ UNCHANGED <<hostVars, faults>>

\* A tool of the job (npm, Haxe, the smoke test) changes what lies on disk, as
\* long as the job still reads it.
Faulty == pc # "idle" /\ faults < MaxFaults /\ faults' = faults + 1
ReadsRepository ==
  {"derive", "check", "build", "verify", "smoke", "tag", "recheck", "rebuild", "approve",
   "capture", "view"}
DisturbRepository ==
  /\ Faulty /\ pc \in ReadsRepository
  /\ repo' \in Disturbed(repo, commit)
  /\ UNCHANGED <<hostVars, pc, kind, commit, version, sources, dist, approved, receipt, staged,
                 uploads, failures>>
AlterDist ==
  /\ Faulty /\ dist # Nothing /\ staged = Nothing
  /\ \E changed \in (SUBSET DOMAIN dist) \ {{}} :
       dist' = [a \in DOMAIN dist |-> IF a \in changed THEN Damaged ELSE dist[a]]
  /\ UNCHANGED <<hostVars, pc, kind, commit, version, repo, sources, approved, receipt, staged,
                 uploads, failures>>
AlterStaged ==
  /\ Faulty /\ staged # Nothing
  /\ \E changed \in (SUBSET Asset) \ {{}} :
       staged' = [a \in Asset |-> IF a \in changed THEN Damaged ELSE staged[a]]
  /\ UNCHANGED <<hostVars, pc, kind, commit, version, repo, sources, dist, approved, receipt,
                 uploads, failures>>

-----------------------------------------------------------------------------
(* semantic-release: fetch the tags, derive the version, let the policy veto *)
(* it; nothing is released from a commit that main has left behind.          *)
LastRelease == Newest({t.ref : t \in {u \in VersionTags : u.commit \in ToSet(main)}})
BumpsSince(v) ==
  {Bump[main[i]] : i \in {j \in DOMAIN main : j > PositionOf(TaggedCommit(v))}}

Derive ==
  /\ pc = "derive"
  /\ LET next == NextVersions(PolicyLines[commit], LastRelease, BumpsSince(LastRelease))
         allowed == {v \in next : VersionAllowed(PolicyLines[commit], v)}
     IN \/ /\ commit = Last(main) /\ allowed # {}
           /\ Goes("check")
           /\ version' \in allowed
           /\ repo' = [repo EXCEPT !.tags = remoteTags]
           /\ Keeps(<<kind, commit, sources, dist, approved, receipt, staged, uploads>>)
        \/ /\ commit # Last(main) \/ allowed = {}
           /\ Ends /\ Keeps(<<>>)

ExactCheckout(newTags) ==
  ExactBootstrap(repo, commit, remoteTags, newTags) /\ TrackedTreeClean(repo, commit)

TagIdentity == \A tags \in {remoteTags, repo.tags} : LightTag(version, commit) \in tags

TagChecked == kind = "repair" => TagIdentity /\ VersionAllowed(PolicyLines[commit], version)

\* The assertions before a build; a repair checks its tag first.
Check ==
  /\ pc = "check"
  /\ LET good == ExactCheckout({}) /\ TagChecked
     IN \/ good /\ Goes("build") /\ Keeps(jobVars)
        \/ ~good /\ Ends /\ Keeps(<<>>)

\* The files of the commit, if they can be read and packaged.
Readings == {files \in {ReviewedSource(repo, commit)} \ {NoTree} : CanPackage(files)}
PackageOf(files) == Package(files, version, commit)

\* Both trees are read before the first build, which writes dist.
Build ==
  /\ pc = "build"
  /\ \/ /\ sources' \in Readings
        /\ dist' = [archive |-> PackageOf(sources')]
        /\ Goes("verify")
        /\ Keeps(<<kind, commit, version, repo, approved, receipt, staged, uploads>>)
     \/ Readings = {} /\ Ends /\ Keeps(<<>>)

\* The second build, what lies in dist compared with it and verified; then the
\* checksum is written.
Verify ==
  /\ pc = "verify"
  /\ LET good == /\ dist.archive = PackageOf(sources)
                 /\ VerifiedArtifact(dist.archive, PackageOf(sources), sources, version, commit)
     IN \/ /\ good /\ Goes("smoke")
           /\ approved' = dist.archive /\ dist' = Pair(dist.archive)
           /\ sources' = NoTree
           /\ Keeps(<<kind, commit, version, repo, receipt, staged, uploads>>)
        \/ ~good /\ Ends /\ Keeps(<<>>)

\* createArtifactReceipt: the checksum file names the archive, the archive is
\* the one the verifier saw.
ReceiptMatches == dist.checksum = dist.archive /\ dist.archive = approved

\* The smoke test installs and builds with the archive, which must not change.
Smoke ==
  /\ pc = "smoke"
  /\ LET good == ReceiptMatches /\ (kind = "release" => TrackedTreeClean(repo, commit))
     IN \/ /\ good /\ Goes(IF kind = "release" THEN "tag" ELSE "view")
           /\ receipt' = IF kind = "repair" THEN Pair(approved) ELSE Nothing
           /\ Keeps(<<kind, commit, version, repo, sources, dist, approved, staged, uploads>>)
        \/ ~good /\ Ends /\ Keeps(<<>>)

\* semantic-release pushes the tag between prepare and publish.
PushTag ==
  /\ pc = "tag"
  /\ \/ /\ TagNamed(version) = {}
        /\ Goes("recheck")
        /\ remoteTags' = remoteTags \cup {LightTag(version, commit)}
        /\ repo' = [repo EXCEPT !.tags = @ \cup {LightTag(version, commit)}]
        /\ UNCHANGED <<main, releases, kind, commit, version, sources, dist, approved,
                       receipt, staged, uploads, bounds>>
     \/ TagNamed(version) # {} /\ Ends /\ Keeps(<<>>)

\* haxelib-artifact-plugin publish: the assertions with the new tag, one build
\* more of the commit, and dist against it.
Recheck ==
  /\ pc = "recheck"
  /\ LET good == ExactCheckout({version}) /\ TagIdentity
     IN \/ good /\ Goes("rebuild") /\ Keeps(jobVars)
        \/ ~good /\ Ends /\ Keeps(<<>>)

Rebuild ==
  /\ pc = "rebuild"
  /\ \/ /\ sources' \in Readings
        /\ Goes("approve")
        /\ Keeps(<<kind, commit, version, repo, dist, approved, receipt, staged, uploads>>)
     \/ Readings = {} /\ Ends /\ Keeps(<<>>)

Approve ==
  /\ pc = "approve"
  /\ LET good == /\ dist.archive # Damaged
                 /\ VerifiedArtifact(dist.archive, PackageOf(sources), sources, version, commit)
     IN \/ /\ good /\ Goes("capture")
           /\ approved' = dist.archive
           /\ sources' = NoTree
           /\ Keeps(<<kind, commit, version, repo, dist, receipt, staged, uploads>>)
        \/ ~good /\ Ends /\ Keeps(<<>>)

Capture ==
  /\ pc = "capture"
  /\ LET good == ReceiptMatches /\ TrackedTreeClean(repo, commit)
     IN \/ /\ good /\ Goes("view")
           /\ receipt' = Pair(approved)
           /\ Keeps(<<kind, commit, version, repo, sources, dist, approved, staged, uploads>>)
        \/ ~good /\ Ends /\ Keeps(<<>>)

-----------------------------------------------------------------------------
(* The hosted release, through gh.                                           *)
Hosted == version \in DOMAIN releases
SetRelease(release) == releases' = [v \in DOMAIN releases \cup {version} |->
                                     IF v = version THEN release ELSE releases[v]]
HostOnly(kept) == UNCHANGED <<main, remoteTags, bounds, kept>>
JobOnly == <<kind, commit, version, repo, sources, dist, approved, receipt>>

\* published-verifier-plugin: releaseExists is also false when gh fails.
LookForRelease ==
  /\ pc = "view" /\ kind = "release"
  /\ LET ready == /\ ExactCheckout({version}) /\ TagIdentity /\ dist = receipt
     IN \/ ready /\ ~Hosted /\ Goes("stage") /\ Keeps(jobVars)
        \/ (~ready \/ Hosted) /\ Ends /\ Keeps(<<>>)

HostedAs(state) == Hosted /\ releases[version].state = state

\* Mutated: a release that is published is completed as well.
ViewAnyRelease ==
  /\ pc = "view" /\ kind = "repair"
  /\ \/ ~Hosted /\ Goes("create") /\ Keeps(jobVars)
     \/ Hosted /\ Goes("clear") /\ Keeps(jobVars)

\* Mutated: a draft that a job has left is taken for the release.
ViewAnyAsDone ==
  /\ pc = "view" /\ kind = "repair"
  /\ \/ ~Hosted /\ Goes("create") /\ Keeps(jobVars)
     \/ Hosted /\ Ends /\ Keeps(<<>>)

\* repair-release: releaseView is null when gh fails.
ViewRelease ==
  /\ pc = "view" /\ kind = "repair"
  /\ \/ ~Hosted /\ Goes("create") /\ Keeps(jobVars)
     \/ HostedAs("draft") /\ Goes("clear") /\ Keeps(jobVars)
     \/ HostedAs("published") /\ Ends /\ Keeps(<<>>)

ViewFails ==
  /\ pc = "view" /\ Hosted
  /\ \/ kind = "release" /\ Goes("stage") /\ dist = receipt
        /\ ExactCheckout({version}) /\ TagIdentity
     \/ kind = "repair" /\ Goes("create")
  /\ Fails
  /\ UNCHANGED <<hostVars, faults, jobVars>>

DeleteAsset ==
  /\ pc = "clear"
  /\ LET assets == releases[version].assets
     IN \/ \E a \in DOMAIN assets :
             /\ SetRelease([releases[version] EXCEPT
                  !.assets = [b \in DOMAIN assets \ {a} |-> assets[b]]])
             /\ HostOnly(<<pc, jobVars>>)
        \/ DOMAIN assets = {} /\ Goes("stage") /\ Keeps(jobVars)

\* Copies under their hosted names, compared with the receipt.
StageCopies ==
  /\ pc = "stage"
  /\ \/ /\ dist = receipt
        /\ staged' = dist
        /\ Goes(IF kind = "release" THEN "create" ELSE "upload")
        /\ uploads' = Asset
        /\ Keeps(JobOnly)
     \/ dist # receipt /\ Ends /\ Keeps(<<>>)

\* A host that has a release of the tag refuses another: an assumption about
\* GitHub.  The refusals of prereleases are left out, as no job makes one.
CreateDraft ==
  /\ pc = "create"
  /\ \/ /\ ~Hosted
        /\ SetRelease([state |-> "draft", immutable |-> FALSE, assets |-> <<>>])
        /\ \/ kind = "repair" /\ Goes("stage") /\ UNCHANGED jobVars
           \/ kind = "release" /\ staged = receipt /\ Goes("upload") /\ UNCHANGED jobVars
           \/ kind = "release" /\ staged # receipt /\ Ends
        /\ HostOnly(<<>>)
     \/ Hosted /\ Ends /\ Keeps(<<>>)

\* gh release upload sends the files one by one; an upload that breaks off
\* leaves an asset that was never completed.
Upload(a) ==
  /\ pc = "upload" /\ a \in uploads
  /\ SetRelease([releases[version] EXCEPT
       !.assets = (a :> [state |-> "uploaded", bytes |-> staged[a]]) @@ @])
  /\ uploads' = uploads \ {a}
  /\ HostOnly(<<pc, JobOnly, staged>>)

UploadBreaks(a) ==
  /\ pc = "upload" /\ a \in uploads
  /\ Fails
  /\ SetRelease([releases[version] EXCEPT
       !.assets = (a :> [state |-> "starter", bytes |-> Nothing]) @@ @])
  /\ Ends
  /\ UNCHANGED <<main, remoteTags, faults>>

\* verifyHostedDraft, and before it the copies once more.
\* Mutated: the draft is not compared with the receipt.
CheckNoDraft ==
  /\ pc = "upload" /\ uploads = {}
  /\ Goes("edit") /\ Keeps(jobVars)

CheckDraft ==
  /\ pc = "upload" /\ uploads = {}
  /\ LET good == /\ staged = receipt
                 /\ releases[version].state = "draft" /\ ~releases[version].immutable
                 /\ releases[version].assets = Uploaded(receipt)
     IN \/ good /\ Goes("edit") /\ Keeps(jobVars)
        \/ ~good /\ Ends /\ Keeps(<<>>)

\* gh release edit --draft=false; the check after it changes nothing.
PublishDraft ==
  /\ pc = "edit"
  /\ SetRelease([releases[version] EXCEPT !.state = "published",
                                         !.immutable = ImmutableReleases])
  /\ Ends
  /\ HostOnly(<<>>)

-----------------------------------------------------------------------------
JobStep ==
  \/ Derive \/ Check \/ Build \/ Verify \/ Smoke
  \/ PushTag \/ Recheck \/ Rebuild \/ Approve \/ Capture
  \/ LookForRelease \/ ViewRelease \/ DeleteAsset \/ StageCopies \/ CreateDraft
  \/ \E a \in Asset : Upload(a)
  \/ CheckDraft \/ PublishDraft

PublishedVersions == {v \in DOMAIN releases : releases[v].state = "published"}
Unpublished == {t.ref : t \in VersionTags} \ PublishedVersions
RepairUnpublished == \E v \in Unpublished : StartRepair(v)

Next ==
  \/ \E c \in Commits : Push(c) \/ StartRelease(c)
  \/ PushOtherTag
  \/ \E t \in VersionTags : StartRepair(t.ref)
  \/ JobStep \/ JobIsKilled \/ ViewFails \/ \E a \in Asset : UploadBreaks(a)
  \/ DisturbRepository \/ AlterDist \/ AlterStaged

\* Every call of a job returns, or the time limit of its workflow ends it:
\* a job takes its steps until none is left, as weak fairness of JobStep would
\* have it.  And as long as a tag has no release, a repair of it gets its turn
\* among the jobs, as docs/release.md asks.
Fairness == []<>(pc = "idle") /\ SF_vars(RepairUnpublished)

Spec == Init /\ [][Next]_vars /\ Fairness

-----------------------------------------------------------------------------
\* What is published of a version is the package of the commit its tag names,
\* whatever happened to the files of the jobs meanwhile, and the checksum beside
\* it is that of this archive.
PublishedIsReviewed ==
  \A v \in DOMAIN releases : releases[v].state = "published" =>
    \E t \in remoteTags :
      /\ t.ref = v
      /\ \E zip \in {Package(Checkout(t.commit), v, t.commit)} :
           releases[v].assets = Uploaded(Pair(zip))

\* The versions along main grow, and a stable one was approved by the manifest
\* of its own commit.
TagsFollowMain ==
  \A s, t \in VersionTags :
    /\ s.ref.major >= 1 => PolicyLines[s.commit][s.ref.major].approved
    /\ s # t /\ PositionOf(s.commit) <= PositionOf(t.commit) => Older(s.ref, t.ref)

\* What the archive of a release holds, nothing while it is missing.
Installed(release) ==
  IF "archive" \in DOMAIN release.assets THEN Extract(release.assets["archive"].bytes) ELSE <<>>

\* What a reader sees of them: the commit of each version, the files of each
\* that is published.
TagOf == [v \in {t.ref : t \in VersionTags} |-> TaggedCommit(v)]
PublishedFiles == [v \in PublishedVersions |-> Installed(releases[v])]
FilesOf(c, v) == Stage(Checkout(c), v, c)

\* Tags never move, published releases never change.
Ledger == INSTANCE ReleaseLedger
  WITH Contents <- FilesOf, tagOf <- TagOf, published <- PublishedFiles
RefinesLedger == Ledger!Spec

\* A tag without its release does not stay so: whatever a failed job has left,
\* a repair completes it.
EveryTagIsPublished == []<>(Unpublished = {})
=============================================================================
