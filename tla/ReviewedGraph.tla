--------------------------- MODULE ReviewedGraph ----------------------------
(* The checkout that the commands of fresh-cargo-resolution.js share, what   *)
(* they have Cargo do in it, and what the reviewed graph is: its manifest    *)
(* and its artifacts, their checks and the classification of a candidate.    *)
(* The graph is replaced in one step (BaselinePublication has that step).    *)
EXTENDS ToolchainPolicy

CONSTANTS
  Procs, Shells,
  FirstCrates,    \* the crates the registry serves at first
  FirstBaseline, FirstRepos,
  Published(_),   \* what may happen to the registry
  Mixes           \* bounds: which commands share the checkout in one behaviour, what
                  \* people may put into its files, how many commands are started,
                  \* how many edits and deaths there are

VARIABLES
  repo,       \* the files of the checkout the commands read
  registry,   \* the crates it serves
  baseline,   \* the reviewed graph: its manifest and its artifacts
  directory,  \* .cache/fresh-cargo-resolution/observation: file -> contents
  observed,   \* history: what an observer had in memory when it classified
  cmd,        \* the commands: where each is and what it holds
  package,    \* native/support-crate-admission, which HelperPackage keeps
  out,        \* and the directories it is built in
  used        \* the mix, and how much of its bounds is used

graphVars == <<registry, baseline, directory, observed>>
helperVars == <<package, out>>
upkeepVars == <<repo, graphVars, helperVars, cmd, used>>

\* More fields for what has some: those it has stay.
With(c, more) ==
  [f \in DOMAIN c \cup DOMAIN more |-> IF f \in DOMAIN c THEN c[f] ELSE more[f]]

Idle == [at |-> "idle"]
At(p, label) == cmd[p].at = label
\* A command that fails or is done holds nothing any more.
Go(p, c) == cmd' = [cmd EXCEPT ![p] = c] /\ UNCHANGED used
GoIf(p, ok, c) == Go(p, IF ok THEN c ELSE Idle)
MayStart(p, name) ==
  At(p, "idle") /\ used.starts < used.mix.starts /\ name \in used.mix.commands
Starts(p, c) ==
  /\ used' = [used EXCEPT !.starts = @ + 1]
  /\ cmd' = [cmd EXCEPT ![p] = c]

\* What a check of files must notice: others' writes while it runs, into the
\* files of the checkout or into the directory it builds in.
Touched(c, what) == IF "touched" \in DOMAIN c THEN [c EXCEPT !.touched = @ \cup {what}] ELSE c

LoadPolicy == {policy \in {repo.policy} : ValidManifest(policy, DOMAIN repo.fixtures)}

-----------------------------------------------------------------------------
(* Cargo and the registry.                                                   *)
Serves(req) == {k \in registry : k.name = req.name /\ k.version[1] = req.line}
Runs(k, floor) == k.rustVersion # Null => ~Older(floor, CanonicalVersion(k.rustVersion))

Choice(req, floor, mode) ==
  LET fits == {k \in Serves(req) : Runs(k, floor)}
      pool == IF mode = "fallback" /\ fits # {} THEN fits ELSE Serves(req)
  IN CHOOSE k \in pool : \A j \in pool : ~Older(k.version, j.version)

Resolvable(input) == \A req \in input.requires : Serves(req) # {}
Resolution(input, mode) == {Choice(req, input.rustVersion, mode) : req \in input.requires}

Root(input) ==
  [name |-> input.name, version |-> <<0, 1, 0>>, source |-> Null, checksum |-> Null,
   rustVersion |-> input.rustVersion]

LockOf(input, crates) ==
  [header |-> {"version"}, format |-> 4,
   blocks |-> SetToSeq({[name |-> k.name, version |-> k.version, source |-> k.source,
                         checksum |-> k.checksum, unknown |-> {},
                         dependencies |-> IF k.source = Null THEN {Identity(j) : j \in crates}
                                          ELSE {}] : k \in crates \cup {Root(input)}})]

MetadataOf(input, crates) ==
  LET id(k) == <<"id", Identity(k)>>
  IN [root |-> id(Root(input)), members |-> {id(Root(input))},
      packages |-> {[id |-> id(k), name |-> k.name, version |-> k.version, source |-> k.source,
                     rustVersion |-> k.rustVersion,
                     dependencies |-> IF k.source = Null THEN input.requires ELSE {}] :
                       k \in crates \cup {Root(input)}},
      nodes |-> {[id |-> id(k), features |-> {},
                  dependencies |-> IF k.source = Null THEN {id(j) : j \in crates} ELSE {}] :
                       k \in crates \cup {Root(input)}}]

Builds(crates, toolchain) == \A k \in crates : Runs(k, toolchain.rustc)

-----------------------------------------------------------------------------
(* The reviewed graph.                                                       *)
ResolutionInputs(policy) ==
  [id \in CaseIds(policy) |-> repo.fixtures[EntryNamed(policy, id).fixture]]

BuildBaselineManifest(policy, artifacts, toolchain, inputs) ==
  [policy |-> policy, rustc |-> toolchain.rustc, cargo |-> toolchain.cargo,
   minimum |-> policy.minimum, resolver |-> policy.resolver,
   formats |-> {artifacts[id].lock.format : id \in DOMAIN artifacts},
   cases |-> [id \in CaseIds(policy) |->
     [contract |-> EntryNamed(policy, id).contract, fixture |-> EntryNamed(policy, id).fixture,
      input |-> inputs[id], lock |-> artifacts[id].lock, metadata |-> artifacts[id].metadata]]]

\* What the manifest says of its files is what they hold.
BaselineIntact(b) ==
  /\ DOMAIN b.artifacts = DOMAIN b.manifest.cases
  /\ Cardinality(b.manifest.formats) = 1
  /\ \A id \in DOMAIN b.artifacts :
       /\ MetadataShape(b.artifacts[id].metadata)
       /\ b.artifacts[id].lock = b.manifest.cases[id].lock
       /\ b.artifacts[id].metadata = b.manifest.cases[id].metadata

\* What a day begins with has been reviewed, and nobody requires without end.
FiniteManifests(fixtures) == \A f \in DOMAIN fixtures : IsFiniteSet(fixtures[f].requires)
ASSUME GraphAssumption ==
  /\ DOMAIN FirstBaseline = {"manifest", "artifacts"}
  /\ BaselineIntact(FirstBaseline) /\ ArtifactFiles(FirstBaseline.artifacts)
  /\ \A id \in DOMAIN FirstBaseline.artifacts : LockReadable(FirstBaseline.artifacts[id].lock)
  /\ \A r \in FirstRepos : "fixtures" \in DOMAIN r /\ FiniteManifests(r.fixtures)
  /\ \A mix \in Mixes : \A files \in mix.files :
       "fixtures" \in DOMAIN files => FiniteManifests(files.fixtures)

\* And what it was reviewed for is what the checkout asks for now.
AuthorityCurrent(b, policy) ==
  /\ b.manifest.policy = repo.policy
  /\ DOMAIN b.manifest.cases = CaseIds(policy)
  /\ \A id \in CaseIds(policy) :
       LET reviewed == b.manifest.cases[id]  entry == EntryNamed(policy, id)
       IN /\ reviewed.contract = entry.contract /\ reviewed.fixture = entry.fixture
          /\ reviewed.input = repo.fixtures[entry.fixture]

\* Mutated: the files are not held against the manifest.
CheckManifestOnly(policy, allowChange) ==
  {b \in {baseline} : allowChange \/ AuthorityCurrent(b, policy)}

CheckBaseline(policy, allowChange) ==
  {b \in {baseline} : BaselineIntact(b) /\ (allowChange \/ AuthorityCurrent(b, policy))}

ReviewedCase(b, id) ==
  [id |-> id, contract |-> b.manifest.cases[id].contract, fixture |-> b.manifest.cases[id].fixture]

ClassifyArtifacts(policy, inputs, b, candidate) ==
  LET before == DOMAIN b.manifest.cases  after == CaseIds(policy)
      changes ==
        (UNION {ClassifyCase(id, b.artifacts[id], candidate[id]) : id \in before \cap after})
        \cup (UNION {ClassifyWholeCase(EntryNamed(policy, id), candidate[id], TRUE) :
                      id \in after \ before})
        \cup (UNION {ClassifyWholeCase(ReviewedCase(b, id), b.artifacts[id], FALSE) :
                      id \in before \ after})
        \cup CompareValues("authority-input-changed", "policySha256", Null, Null,
               b.manifest.policy, policy)
        \cup (UNION {CompareValues("authority-input-changed", "resolutionInputSha256", id, id,
               IF id \in before THEN b.manifest.cases[id].input ELSE Null, inputs[id]) : id \in after})
  IN [relation |-> IF changes = {} THEN "match" ELSE "drift",
      admissible |-> Admissible(changes), changes |-> changes]

SnapshotCurrent(c) == repo.policy = c.policy /\ ResolutionInputs(c.policy) = c.inputs

-----------------------------------------------------------------------------
(* What the commands have Cargo do: a set, empty when it fails.              *)
FreshPass(c, upper) ==
  LET mode == IF upper THEN "allow" ELSE "fallback"
      crates(id) == Resolution(c.inputs[id], mode)
      result(id) ==
        [lock |-> LockOf(c.inputs[id], crates(id)),
         metadata |-> NormalizeMetadata(MetadataOf(c.inputs[id], crates(id)),
                                        EntryNamed(c.policy, id), c.policy, mode)]
      Good(id) ==
        /\ Resolvable(c.inputs[id])
        /\ MetadataKnown(MetadataOf(c.inputs[id], crates(id)))
        /\ \/ upper
           \/ /\ TooNew(result(id).metadata, c.policy.minimum) = {}
              /\ Builds(crates(id), c.toolchain)
  IN IF \A id \in CaseIds(c.policy) : Good(id)
     THEN {[id \in CaseIds(c.policy) |-> result(id)]} ELSE {}

\* The locked crates as the registry serves them; fetch --locked takes no other
\* checksum and --frozen no lock that does not fit the manifest.
LockedCrates(lock) ==
  {k \in registry : \E b \in Range(lock.blocks) : Identity(b) = Identity(k) /\ b.checksum = k.checksum}

RunLocked(c, artifacts) ==
  LET crates(id) == LockedCrates(artifacts[id].lock)
      Good(id) ==
        /\ artifacts[id].lock = LockOf(c.inputs[id], crates(id))
        /\ \A req \in c.inputs[id].requires :
             \E k \in crates(id) : k.name = req.name /\ k.version[1] = req.line
        /\ artifacts[id].metadata =
             NormalizeMetadata(MetadataOf(c.inputs[id], crates(id)), EntryNamed(c.policy, id),
                               c.policy, "fallback")
        /\ TooNew(artifacts[id].metadata, c.policy.minimum) = {}
        /\ Builds(crates(id), c.toolchain)
  IN IF \A id \in CaseIds(c.policy) : Good(id) THEN {artifacts} ELSE {}

\* A crate that asks for the next compiler is refused by this one.
MutationRejected(toolchain) == ~Runs([rustVersion |-> NextRustMinor(toolchain.rustc)], toolchain.rustc)
=============================================================================
