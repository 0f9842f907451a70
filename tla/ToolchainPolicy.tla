-------------------------- MODULE ToolchainPolicy ---------------------------
(* rust-toolchain-policy.js and the parts of fresh-cargo-resolution.js that  *)
(* hold a toolchain, an environment and the fixtures against the policy: the *)
(* manifest, the three files generated from it, and every hand-kept file     *)
(* that has to agree with it.                                                *)
EXTENDS CargoGraph

CONSTANTS
  Sysroots,     \* the installed toolchains: sysroot -> [rustc, cargo]
  FixedFields,  \* the fields the validation allows one value only
  Lanes,        \* how many jobs of a lane each workflow sets up: workflow -> lane -> Nat
  Contracts,    \* what an automation has to do and must not: file -> [requires, forbids]
  Prohibited    \* environment variables that change a resolution or a build

ValidCases(cases) ==
  /\ cases \in Seq(ToSet(cases)) /\ cases # <<>>
  /\ \A j, k \in DOMAIN cases : cases[j].id = cases[k].id => j = k

ValidManifest(policy, fixtures) ==
  /\ policy.fixed = FixedFields
  /\ \A f \in {"minimum", "release", "generated"} : policy[f] = CanonicalVersion(policy[f])
  /\ ~Older(policy.release, policy.minimum)
  /\ policy.generated = policy.minimum
  /\ policy.repeats >= 2
  /\ ValidCases(policy.cases)
  /\ \A k \in DOMAIN policy.cases : policy.cases[k].fixture \in fixtures

CaseIds(policy) == {policy.cases[k].id : k \in DOMAIN policy.cases}
EntryNamed(policy, id) ==
  policy.cases[CHOOSE k \in DOMAIN policy.cases : policy.cases[k].id = id]

-----------------------------------------------------------------------------
(* The generated files.                                                      *)
RenderHaxe(policy) ==
  [minimum |-> policy.minimum, generated |-> policy.generated, resolver |-> policy.resolver]
RenderToml(policy) == [channel |-> policy.minimum, fixed |-> policy.fixed]
RenderDocs(policy) == policy
Rendered(policy) ==
  [haxe |-> RenderHaxe(policy), toml |-> RenderToml(policy), docs |-> RenderDocs(policy)]

\* The block between the markers is replaced; Null: a marker is missing.
ReplaceGeneratedDocs(docs, block) == IF docs = Null THEN Null ELSE block

\* A package manifest: its rust-version and its resolver.
ManifestAgrees(manifest, policy) ==
  manifest.rustVersion = policy.generated /\ manifest.resolver = policy.resolver

\* The steps of a workflow that install Rust: each with the ref of the action, the
\* lane it activates and the lane it installs.
WorkflowAgrees(steps, jobs) ==
  /\ steps # <<>>
  /\ \A k \in DOMAIN steps :
       steps[k].ref = FixedFields.action /\ steps[k].activates = steps[k].installs
  /\ \A lane \in DOMAIN jobs :
       Cardinality({k \in DOMAIN steps : steps[k].installs = lane}) >= jobs[lane]

\* What a workflow or the harness has to do with the reviewed graph, and must not.
ContractKept(does, contract) ==
  contract.requires \subseteq does /\ contract.forbids \cap does = {}

\* A document names the minimum, and what an application has to know.
ProseFacts == {"Cargo.lock", "rust_cargo_locked", "resolver 3"}
ProseAgrees(document, policy) ==
  document.minimum = policy.minimum /\ ProseFacts \subseteq document.states

CheckConsumers(repo, policy) ==
  /\ \A f \in {"haxe", "toml"} : repo.files[f] = Rendered(policy)[f]
  /\ repo.files.docs # Null
  /\ ReplaceGeneratedDocs(repo.files.docs, RenderDocs(policy)) = repo.files.docs
  /\ \A m \in DOMAIN repo.manifests : ManifestAgrees(repo.manifests[m], policy)
  /\ repo.workspace = policy.resolver
  /\ \A f \in DOMAIN repo.fixtures : ManifestAgrees(repo.fixtures[f], policy)
  /\ {"generated", "resolver"} \subseteq repo.compiler
  /\ \A w \in DOMAIN Lanes : WorkflowAgrees(repo.workflows[w], Lanes[w])
  /\ \A f \in DOMAIN Contracts : ContractKept(repo.automation[f], Contracts[f])
  /\ \A d \in DOMAIN repo.prose : ProseAgrees(repo.prose[d], policy)

-----------------------------------------------------------------------------
(* The toolchain a command of the evidence uses.  A shell says which sysroot *)
(* the rustc it finds belongs to, and those of RUSTC_BIN and CARGO_BIN.      *)
SelectToolchain(shell) ==
  LET rustc == IF "RUSTC_BIN" \in DOMAIN shell THEN shell.RUSTC_BIN ELSE shell.rustc
  IN [rustc |-> rustc, cargo |-> IF "CARGO_BIN" \in DOMAIN shell THEN shell.CARGO_BIN ELSE rustc]

\* No toolchain unless both are of one sysroot.
LoadSelectedToolchain(shell) ==
  LET of == SelectToolchain(shell)
  IN IF of.rustc # of.cargo THEN {}
     ELSE {[tool \in {"rustc", "cargo"} |-> CanonicalVersion(Sysroots[of.rustc][tool])]}

LaneAllows(policy, lane, toolchain) ==
  /\ lane \in {"minimum", "current"}
  /\ lane = "minimum" => toolchain.rustc = policy.minimum
  /\ ~Older(toolchain.rustc, policy.minimum)

AffectsResolution(name, value) ==
  name \in Prohibited \/ (name = "CARGO_INCREMENTAL" /\ value # "0")

ControlledEnvironment(shell) ==
  \A name \in DOMAIN shell : ~AffectsResolution(name, shell[name])

FixturesAgree(policy, fixtures) ==
  \A k \in DOMAIN policy.cases :
    LET input == fixtures[policy.cases[k].fixture]
    IN /\ policy.cases[k].fixture \in DOMAIN fixtures
       /\ input.rustVersion = policy.minimum /\ input.resolver = policy.resolver
=============================================================================
