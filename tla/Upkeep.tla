------------------------------- MODULE Upkeep -------------------------------
(* One checkout and everything that keeps it: the commands of the reviewed   *)
(* graph, of the generated files and of the packaged helper, in any order    *)
(* and side by side, on files that people edit and a registry that moves.    *)
EXTENDS Admission, HelperPackage

UpkeepInit == Init /\ HelperInit

Disturbed == [q \in Procs |-> Touched(cmd[q], "files")]
Edited ==
  /\ used.edits < used.mix.edits
  /\ used' = [used EXCEPT !.edits = @ + 1]
  /\ cmd' = Disturbed

EditFiles ==
  /\ Edited
  /\ \E files \in used.mix.files : repo' = With(files, repo)
  /\ repo' # repo
  /\ UNCHANGED <<graphVars, helperVars>>

\* After a build its digest goes into the locator by hand.
EditLocator ==
  /\ "build" \in used.mix.commands
  /\ repo.locator # package.binary
  /\ repo' = [repo EXCEPT !.locator = package.binary]
  /\ Edited
  /\ UNCHANGED <<graphVars, helperVars>>

RegistryMoves ==
  /\ {"observe", "observe both", "verify", "generated"} \cap used.mix.commands # {}
  /\ Edited
  /\ \E r \in Published(registry) : registry' = r
  /\ UNCHANGED <<repo, baseline, directory, observed, helperVars>>

\* Someone puts another resolution into the reviewed files, not through admit.
AlterBaseline ==
  /\ {"observe", "observe both", "verify", "generated"} \cap used.mix.commands # {}
  /\ Edited
  /\ \E id \in DOMAIN baseline.artifacts :
       LET input == baseline.manifest.cases[id].input
           crates == Resolution(input, "allow")
       IN /\ Resolvable(input)
          /\ baseline.artifacts[id].lock # LockOf(input, crates)
          /\ baseline' = [baseline EXCEPT !.artifacts[id].lock = LockOf(input, crates)]
  /\ UNCHANGED <<repo, registry, directory, observed, helperVars>>

Dies(p) ==
  /\ ~At(p, "idle") /\ used.deaths < used.mix.deaths
  /\ used' = [used EXCEPT !.deaths = @ + 1]
  /\ cmd' = [cmd EXCEPT ![p] = Idle]
  /\ UNCHANGED <<repo, graphVars, helperVars>>

Observes(p) == StartObserve(p) \/ Capture(p) \/ ResolvePass(p) \/ UpperEdgePass(p)
                 \/ Classify(p) \/ WriteObservation(p)
Admits(p) == StartAdmit(p) \/ VerifyCandidate(p) \/ AdmitFrozen(p) \/ Publish(p)
Gates(p) == StartVerify(p) \/ VerifyLocked(p) \/ StartGenerated(p) \/ RunGenerated(p) \/ GateEnds(p)
Synchronises(p) == StartSync(p) \/ SyncFile(p) \/ StartConsumerCheck(p) \/ ConsumerCheck(p)
Packages(p) == StartHelper(p) \/ HelperEmpty(p) \/ HaxeReads(p) \/ HaxeWrites(p) \/ CopyLock(p)
                 \/ CargoReads(p) \/ CargoLinks(p) \/ ReadBinary(p) \/ HelperInventory(p)
                 \/ HelperRecord(p) \/ CopyBinary(p) \/ WriteRecord(p) \/ ComparePackage(p)
                 \/ CheckEnds(p)

Next ==
  \/ \E p \in Procs : \/ Observes(p) \/ Admits(p) \/ Gates(p)
                      \/ Synchronises(p) \/ Packages(p) \/ Dies(p)
  \/ EditFiles \/ EditLocator \/ RegistryMoves \/ AlterBaseline

Spec == UpkeepInit /\ [][Next]_upkeepVars

-----------------------------------------------------------------------------
(* The reviewed graph only changes by admission, and a hand-edited file of   *)
(* it is not taken for it: whatever a command of the gates or of the         *)
(* evidence works with came whole, its policy, toolchain, inputs and both    *)
(* artifacts of every case, from one observation (checkBaseline,             *)
(* captureCandidateSnapshot, writeBaselineAtomically).                       *)
Recorded(b) ==
  [policy |-> b.manifest.policy,
   toolchain |-> [rustc |-> b.manifest.rustc, cargo |-> b.manifest.cargo],
   inputs |-> [id \in DOMAIN b.manifest.cases |-> b.manifest.cases[id].input],
   artifacts |-> b.artifacts]
InstalledWasObserved ==
  \A p \in Procs : "base" \in DOMAIN cmd[p] => Recorded(cmd[p].base) \in observed

(* docs/rust-toolchain-policy.md:111: admission rejects a checksum that      *)
(* changes under the same version.  Whoever runs it, and whatever the        *)
(* registry did since, a package both graphs lock in a case keeps its        *)
(* checksum (classifyCase, runAdmit).                                        *)
LockedIn(manifest, id) == ParseLock(manifest.cases[id].lock)
ChecksumsKept ==
  [][\A id \in DOMAIN baseline.manifest.cases \cap DOMAIN baseline'.manifest.cases :
       LET before == LockedIn(baseline.manifest, id)  after == LockedIn(baseline'.manifest, id)
       IN \A i \in DOMAIN before \cap DOMAIN after : before[i].checksum = after[i].checksum
    ]_baseline

(* What a reviewer is shown leaves nothing out: an observation that says the *)
(* graph matches has its very bytes, policy and inputs, and every package    *)
(* that is locked differently, by version, checksum or dependencies, is the  *)
(* subject of a change of its case (classifyArtifacts).                      *)
OfPackages ==
  {"package-added", "package-removed", "package-version-changed", "package-version-checksum-changed",
   "package-checksum-changed", "package-lock-dependencies-changed"}
Differing(before, after) ==
  {id \in DOMAIN before \cup DOMAIN after :
    id \notin DOMAIN before \cap DOMAIN after \/ before[id] # after[id]}
DriftIsNamed ==
  \A p \in Procs : At(p, "write") =>
    LET c == cmd[p]
        found == c.fallback[1]
        changes == c.classification.changes
        locked(artifacts, id) ==
          IF id \in DOMAIN artifacts THEN ParseLock(artifacts[id].lock) ELSE <<>>
    IN /\ c.classification.relation = "match" =>
            /\ found = c.base.artifacts
            /\ Recorded(c.base).policy = c.policy /\ Recorded(c.base).inputs = c.inputs
       /\ \A id \in DOMAIN found \cup DOMAIN c.base.artifacts :
            \A i \in Differing(locked(c.base.artifacts, id), locked(found, id)) :
              \E change \in changes :
                /\ Category(change) \in OfPackages
                /\ CaseOf(change) = id /\ Subject(change) \in {i, Line(i)}

(* A check that passed and was not disturbed says that the generated files   *)
(* are those of the policy, or that the packaged helper is what its sources  *)
(* make now: the binary, the record of the sources, the inventory, the       *)
(* notices and the digest the locator holds, whatever builds began after the *)
(* last edit did to the shared build directories and whoever stopped         *)
(* half-way.  It is disturbed when somebody writes what it reads, and also   *)
(* when a build that was running during such a write puts its crate or its   *)
(* binary into the directory meanwhile (checkConsumers, build.js).           *)
ConsumersExact ==
  \A f \in {"haxe", "toml", "docs"} : repo.files[f] = Rendered(repo.policy)[f]
HelperExact ==
  LET binary == [code |-> repo.helper.code, channel |-> repo.files.toml.channel]
  IN /\ package.binary = binary /\ repo.locator = binary
     /\ package.provenance = [binary |-> binary, sources |-> SourceInputIdentity]
     /\ {package.inventory} = DependencyInventory(repo.helper.graph, repo.helper.lock)
     /\ package.notices = ThirdPartyNotices(package.inventory)
PassedCheckIsExact ==
  \A p \in Procs :
    LET c == cmd[p]
    IN /\ c.at = "consumers checked" /\ c.touched = {} => ConsumersExact
       /\ c.at = "helper checked" /\ c.touched = {} => HelperExact
=============================================================================
