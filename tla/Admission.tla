----------------------------- MODULE Admission ------------------------------
(* The commands of fresh-cargo-resolution.js on one checkout: observers that *)
(* resolve the live registry and write a candidate into one directory they   *)
(* share, admissions of a reviewed candidate, and the gates that use the     *)
(* reviewed graph.  A command is taken apart where others can come between.  *)
EXTENDS ReviewedGraph

Init ==
  /\ repo \in FirstRepos
  /\ registry = FirstCrates
  /\ baseline = FirstBaseline
  /\ directory = <<>>
  /\ observed = {[policy |-> FirstBaseline.manifest.policy,
                  toolchain |-> [rustc |-> FirstBaseline.manifest.rustc,
                                 cargo |-> FirstBaseline.manifest.cargo],
                  inputs |-> [id \in DOMAIN FirstBaseline.manifest.cases |->
                                FirstBaseline.manifest.cases[id].input],
                  artifacts |-> FirstBaseline.artifacts]}
  /\ cmd = [p \in Procs |-> Idle]
  /\ \E mix \in Mixes : used = [mix |-> mix, starts |-> 0, edits |-> 0, deaths |-> 0]

\* How every command of the evidence begins: the policy, then the toolchain.
SelectedToolchains ==
  UNION {LoadSelectedToolchain(sh) : sh \in {s \in Shells : ControlledEnvironment(s)}}
Prepared(lane, allowChange) ==
  {c \in [policy : LoadPolicy, toolchain : SelectedToolchains, base : {baseline}] :
    LaneAllows(c.policy, lane, c.toolchain) /\ c.base \in CheckBaseline(c.policy, allowChange)}

-----------------------------------------------------------------------------
(* observe-live.                                                             *)
StartObserve(p) ==
  /\ \E upper \in BOOLEAN :
       /\ MayStart(p, IF upper THEN "observe both" ELSE "observe")
       /\ \E c \in Prepared("minimum", TRUE) :
            Starts(p, With(c, [at |-> "snapshot", then |-> "resolve", upper |-> upper,
                               fallback |-> <<>>, edge |-> <<>>]))
  /\ UNCHANGED <<repo, graphVars, helperVars>>

\* captureAuthoritySnapshot: the policy must still be the one the command read.
Capture(p) ==
  /\ At(p, "snapshot")
  /\ LET c == cmd[p]
     IN GoIf(p, repo.policy = c.policy /\ FixturesAgree(c.policy, repo.fixtures),
             With([c EXCEPT !.at = c.then], [inputs |-> ResolutionInputs(c.policy)]))
  /\ UNCHANGED <<repo, graphVars, helperVars>>

\* One pass more; the passes must agree.  The registry that changes in the middle
\* of a pass makes it differ from the others, as one that changes between two does.
Extended(passes, pass) ==
  {Append(passes, r) : r \in {q \in pass : passes = <<>> \/ q = passes[1]}}

ResolvePass(p) ==
  /\ At(p, "resolve")
  /\ LET c == cmd[p]
         fallback == Extended(c.fallback, FreshPass(c, FALSE))
         done == Len(c.fallback) + 1 = c.policy.repeats
     IN \/ fallback = {} /\ Go(p, Idle)
        \/ \E passes \in fallback :
             Go(p, [c EXCEPT !.fallback = passes,
                             !.at = IF ~done THEN "resolve" ELSE IF c.upper THEN "edge" ELSE "classify"])
  /\ UNCHANGED <<repo, graphVars, helperVars>>

UpperEdgePass(p) ==
  /\ At(p, "edge")
  /\ LET c == cmd[p]
         edge == Extended(c.edge, FreshPass(c, TRUE))
         done == Len(c.edge) + 1 = c.policy.repeats
     IN \/ edge = {} /\ Go(p, Idle)
        \/ \E passes \in edge :
             Go(p, [c EXCEPT !.edge = passes, !.at = IF done THEN "classify" ELSE "edge"])
  /\ UNCHANGED <<repo, graphVars, helperVars>>

AllReadable(artifacts) == \A id \in DOMAIN artifacts : Readable(artifacts[id])

\* The classification, the last look at the checkout, and the emptied directory.
Classify(p) ==
  /\ At(p, "classify")
  /\ LET c == cmd[p]
         found == c.fallback[1]
     IN IF MutationRejected(c.toolchain) /\ AllReadable(found) /\ SnapshotCurrent(c)
        THEN /\ Go(p, With([c EXCEPT !.at = "write"],
                   [classification |-> ClassifyArtifacts(c.policy, c.inputs, c.base, found),
                    written |-> 0]))
             /\ observed' = observed \cup {[policy |-> c.policy, toolchain |-> c.toolchain,
                                            inputs |-> c.inputs, artifacts |-> found]}
             /\ directory' = <<>>
        ELSE Go(p, Idle) /\ UNCHANGED <<observed, directory>>
  /\ UNCHANGED <<repo, registry, baseline, helperVars>>

Observation(c) ==
  [base |-> c.base.manifest, policy |-> c.policy, toolchain |-> c.toolchain, inputs |-> c.inputs,
   passes |-> [fallback |-> c.fallback, edge |-> c.edge],
   fallback |-> c.fallback[1], edge |-> IF c.upper THEN c.edge[1] ELSE Null,
   classification |-> c.classification,
   relation |-> c.classification.relation, admissible |-> c.classification.admissible]

\* The files of a candidate in the order they are written.
TreeFiles(tree, artifacts) ==
  LET ids == SetToSeq(DOMAIN artifacts)
  IN [k \in DOMAIN ids |-> [name |-> <<tree, ids[k]>>, content |-> artifacts[ids[k]]]]
CandidateFiles(c) ==
  TreeFiles("fallback", c.fallback[1])
  \o (IF c.upper THEN TreeFiles("upper-edge", c.edge[1]) ELSE <<>>)
  \o <<[name |-> <<"classification">>, content |-> c.classification],
       [name |-> <<"observation">>, content |-> Observation(c)]>>

WriteObservation(p) ==
  /\ At(p, "write")
  /\ LET c == cmd[p]
         files == CandidateFiles(c)
         k == c.written + 1
     IN /\ directory' = With([name \in {files[k].name} |-> files[k].content], directory)
        /\ Go(p, IF k = Len(files) THEN Idle ELSE [c EXCEPT !.written = k])
  /\ UNCHANGED <<repo, registry, baseline, observed, helperVars>>

-----------------------------------------------------------------------------
(* admit: the digest that is named may be that of whatever lies there, also  *)
(* of a mixture; a directory with another digest is refused at once.         *)
StartAdmit(p) ==
  /\ MayStart(p, "admit")
  /\ \E policy \in LoadPolicy :
       Starts(p, [at |-> "integrity", policy |-> policy, candidate |-> directory])
  /\ UNCHANGED <<repo, graphVars, helperVars>>

Tree(candidate, tree, ids) == [id \in ids |-> candidate[<<tree, id>>]]

\* Exactly the files of one observation.
CandidateInventory(candidate, ids) ==
  /\ {<<"classification">>, <<"observation">>} \subseteq DOMAIN candidate
  /\ LET trees == IF candidate[<<"observation">>].edge = Null THEN {"fallback"}
                  ELSE {"fallback", "upper-edge"}
     IN DOMAIN candidate = {<<"classification">>, <<"observation">>} \cup (trees \X ids)

ObservationShape(policy, observation, classification) ==
  /\ classification.relation = IF classification.changes = {} THEN "match" ELSE "drift"
  /\ observation.relation = classification.relation
  /\ observation.admissible = classification.admissible
  /\ classification.admissible = Admissible(classification.changes)
  /\ Len(observation.passes.fallback) = policy.repeats
  /\ Len(observation.passes.edge) \in {0, policy.repeats}

TreeIntact(artifacts, digests, passes) ==
  /\ digests = artifacts
  /\ \A id \in DOMAIN artifacts : MetadataShape(artifacts[id].metadata)
  /\ \A k \in DOMAIN passes : passes[k] = artifacts

ObservationIntegrity(c, inputs) ==
  LET observation == c.candidate[<<"observation">>]
      ids == CaseIds(c.policy)
  IN /\ ObservationShape(c.policy, observation, c.candidate[<<"classification">>])
     /\ observation.policy = c.policy
     /\ observation.classification = c.candidate[<<"classification">>]
     /\ observation.inputs = inputs
     /\ TreeIntact(Tree(c.candidate, "fallback", ids), observation.fallback,
                   observation.passes.fallback)
     /\ IF observation.edge = Null THEN observation.passes.edge = <<>>
        ELSE TreeIntact(Tree(c.candidate, "upper-edge", ids), observation.edge,
                        observation.passes.edge)

VerifyCandidate(p) ==
  /\ At(p, "integrity")
  /\ LET c == cmd[p]
         inputs == ResolutionInputs(c.policy)
         ids == CaseIds(c.policy)
         tree == Tree(c.candidate, "fallback", ids)
         Accepted(b, toolchain) ==
           LET observation == c.candidate[<<"observation">>]
               classification == c.candidate[<<"classification">>]
           IN /\ observation.base = b.manifest
              /\ ObservationIntegrity(c, inputs)
              /\ AllReadable(tree) /\ ClassifyArtifacts(c.policy, inputs, b, tree) = classification
              /\ classification.admissible
              /\ toolchain = observation.toolchain
              /\ LaneAllows(c.policy, "minimum", toolchain)
         ready == [base : CheckBaseline(c.policy, TRUE), toolchain : SelectedToolchains]
         sound == /\ repo.policy = c.policy /\ FixturesAgree(c.policy, repo.fixtures)
                  /\ CandidateInventory(c.candidate, ids)
     IN \/ Go(p, Idle)
        \/ /\ sound
           /\ \E r \in ready :
                /\ Accepted(r.base, r.toolchain)
                /\ Go(p, With([c EXCEPT !.at = "frozen"], With(r, [inputs |-> inputs])))
  /\ UNCHANGED <<repo, graphVars, helperVars>>

\* The captured candidate under frozen Cargo commands, and the last look at the
\* checkout; a dry run ends here.
AdmitFrozen(p) ==
  /\ At(p, "frozen")
  /\ LET c == cmd[p]
         candidate == Tree(c.candidate, "fallback", CaseIds(c.policy))
         ok == /\ MutationRejected(c.toolchain)
               /\ \E verified \in RunLocked(c, candidate) :
                    ClassifyArtifacts(c.policy, c.inputs, c.base, verified)
                      = c.candidate[<<"classification">>]
               /\ SnapshotCurrent(c)
     IN \/ GoIf(p, ok, [c EXCEPT !.at = "publish"])
        \/ Go(p, Idle)
  /\ UNCHANGED <<repo, graphVars, helperVars>>

Admitted(c) ==
  LET artifacts == Tree(c.candidate, "fallback", CaseIds(c.policy))
  IN [manifest |-> BuildBaselineManifest(c.policy, artifacts, c.toolchain, c.inputs),
      artifacts |-> artifacts]

Publish(p) ==
  /\ At(p, "publish")
  /\ baseline' = IF baseline.manifest = cmd[p].base.manifest THEN Admitted(cmd[p]) ELSE baseline
  /\ Go(p, Idle)
  /\ UNCHANGED <<repo, registry, directory, observed, helperVars>>

-----------------------------------------------------------------------------
(* The gates: verify-reviewed and contract-only, and the generated crate run *)
(* with the reviewed lock of a case.                                         *)
StartVerify(p) ==
  /\ MayStart(p, "verify")
  /\ \E lane \in {"minimum", "current"} : \E c \in Prepared(lane, FALSE) :
       Starts(p, With(c, [at |-> "snapshot", then |-> "locked", lane |-> lane]))
  /\ UNCHANGED <<repo, graphVars, helperVars>>

VerifyLocked(p) ==
  /\ At(p, "locked")
  /\ LET c == cmd[p]
     IN GoIf(p, /\ RunLocked(c, c.base.artifacts) # {}
                /\ c.lane = "minimum" => MutationRejected(c.toolchain)
                /\ SnapshotCurrent(c),
             [at |-> "passed", base |-> c.base])
  /\ UNCHANGED <<repo, graphVars, helperVars>>

StartGenerated(p) ==
  /\ MayStart(p, "generated")
  /\ \E b \in CheckBaseline(repo.policy, FALSE), f \in DOMAIN repo.fixtures, id \in CaseIds(repo.policy) :
       /\ repo.fixtures[f] = b.manifest.cases[id].input
       /\ Starts(p, [at |-> "generated", base |-> b, id |-> id, fixture |-> f])
  /\ UNCHANGED <<repo, graphVars, helperVars>>

RunGenerated(p) ==
  /\ At(p, "generated")
  /\ LET c == cmd[p]
         crate == repo.fixtures[c.fixture]
         lock == c.base.artifacts[c.id].lock
     IN \/ Go(p, Idle)
        \/ /\ crate = c.base.manifest.cases[c.id].input
           /\ lock = LockOf(crate, LockedCrates(lock))
           /\ \E toolchain \in SelectedToolchains : Builds(LockedCrates(lock), toolchain)
           /\ Go(p, [at |-> "passed", base |-> c.base])
  /\ UNCHANGED <<repo, graphVars, helperVars>>

GateEnds(p) == At(p, "passed") /\ Go(p, Idle) /\ UNCHANGED <<repo, graphVars, helperVars>>
=============================================================================
