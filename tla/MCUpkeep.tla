------------------------------ MODULE MCUpkeep ------------------------------
(* Upkeep with two policies (a raise of the minimum that also adds a case),  *)
(* two lines of one crate, of which the first gets a release that needs a    *)
(* newer compiler and may be replaced under its own version, and a helper    *)
(* in two states of its sources.                                             *)
EXTENDS Upkeep

ProcSymmetry == Permutations(Procs)

V96 == <<1, 96, 0>>
V98 == <<1, 98, 0>>

MCFixed == [action |-> "pinned"]
MCSysroots == [old |-> [rustc |-> V96, cargo |-> V96], new |-> [rustc |-> V98, cargo |-> V98]]
MCShells == {[rustc |-> "old"], [rustc |-> "new"], [rustc |-> "new", CARGO_BIN |-> "old"],
             [rustc |-> "old", RUSTFLAGS |-> "set"], [rustc |-> "new", CARGO_INCREMENTAL |-> "0"]}
MCProhibited == {"RUSTFLAGS", "CARGO_HOME"}
MCLanes == [ci |-> [minimum |-> 2, release |-> 1]]
MCContracts ==
  [ci |-> [requires |-> {"verify minimum", "verify current", "generated"}, forbids |-> {"observe", "admit"}],
   weekly |-> [requires |-> {"observe"}, forbids |-> {"write permission"}]]

Case(id) == [id |-> id, contract |-> id, fixture |-> id]
Policy(minimum, cases) ==
  [fixed |-> MCFixed, minimum |-> minimum, release |-> V98, generated |-> minimum,
   resolver |-> "3", repeats |-> 2, cases |-> cases]
PolicyA == Policy(V96, <<Case("a")>>)
PolicyB == Policy(V98, <<Case("a"), Case("b")>>)

D(version, checksum, rustVersion) ==
  [name |-> "d", version |-> version, source |-> "registry", checksum |-> checksum,
   rustVersion |-> rustVersion]
D10 == D(<<1, 0, 0>>, "d10", <<1, 90>>)
D10x == D(<<1, 0, 0>>, "other", <<1, 90>>)
D11 == D(<<1, 1, 0>>, "d11", <<1, 97>>)
D20 == D(<<2, 0, 0>>, "d20", Null)
MCFirstCrates == {D10, D20}
MCPublished(r) ==
  {r \cup {D11}, (r \ {D10}) \cup {D10x}, IF D11 \in r THEN r \ {D10} ELSE r} \ {r}

Line1 == [name |-> "d", line |-> 1]
Line2 == [name |-> "d", line |-> 2]
Fixtures(minimum) ==
  [a |-> [name |-> "a", rustVersion |-> minimum, resolver |-> "3", requires |-> {Line1, Line2}],
   b |-> [name |-> "b", rustVersion |-> minimum, resolver |-> "3", requires |-> {Line1}]]
Manifests(minimum) == [hxrt |-> [rustVersion |-> minimum, resolver |-> "3"]]
Step(lane) == [ref |-> "pinned", activates |-> lane, installs |-> lane]
MCWorkflows == [ci |-> <<Step("minimum"), Step("minimum"), Step("release")>>]
Prose(minimum) == [readme |-> [minimum |-> minimum, states |-> ProseFacts]]

Part(source, licence, dependencies) ==
  [source |-> source, licence |-> licence, foreign |-> FALSE, dependencies |-> dependencies]
Helper1 ==
  [code |-> "h1", lock |-> [helper |-> Null, x |-> "x1", y |-> "y1"],
   graph |-> [root |-> "helper",
              nodes |-> [helper |-> Part(Null, Null, {"x"}), x |-> Part("registry", "MIT", {}),
                         y |-> Part("registry", Null, {})]]]
Helper2 ==
  [code |-> "h2", lock |-> [helper |-> Null, x |-> "x2"],
   graph |-> [root |-> "helper",
              nodes |-> [helper |-> Part(Null, Null, {"x"}), x |-> Part("registry", "MIT", {})]]]
Helper3 == [Helper1 EXCEPT !.code = "h3"]

BinaryA == [code |-> "h1", channel |-> V96]
InStep ==
  [policy |-> PolicyA, fixtures |-> Fixtures(V96), files |-> Rendered(PolicyA),
   manifests |-> Manifests(V96), workflows |-> MCWorkflows,
   workspace |-> "3", compiler |-> {"generated", "resolver"},
   automation |-> [f \in DOMAIN MCContracts |-> MCContracts[f].requires],
   prose |-> Prose(V96), helper |-> Helper1,
   locator |-> BinaryA]
Raise ==
  [policy |-> PolicyB, fixtures |-> Fixtures(V98), manifests |-> Manifests(V98),
   prose |-> Prose(V98)]
MCFirstRepos == {InStep, With(Raise, InStep)}

MCFirstBaseline ==
  LET input == Fixtures(V96)["a"]
      crates == MCFirstCrates
      artifacts ==
        [id \in {"a"} |->
          [lock |-> LockOf(input, crates),
           metadata |-> NormalizeMetadata(MetadataOf(input, crates), Case("a"), PolicyA, "fallback")]]
  IN [manifest |-> BuildBaselineManifest(PolicyA, artifacts, [rustc |-> V96, cargo |-> V96],
                                         [id \in {"a"} |-> input]),
      artifacts |-> artifacts]

MCFirstPackage ==
  LET inventory == CHOOSE i \in DependencyInventory(Helper1.graph, Helper1.lock) : TRUE
  IN [binary |-> BinaryA, inventory |-> inventory, notices |-> ThirdPartyNotices(inventory),
      provenance |-> [binary |-> BinaryA,
        sources |-> [helper |-> Helper1, policy |-> PolicyA, haxe |-> RenderHaxe(PolicyA),
                     toml |-> RenderToml(PolicyA), locator |-> BinaryA]]]

Mix(commands, starts, edits, deaths) ==
  [commands |-> commands, starts |-> starts, edits |-> edits, deaths |-> deaths,
   files |-> IF "build" \in commands THEN {[helper |-> Helper2], [helper |-> Helper3]}
             ELSE {[policy |-> PolicyB], Raise}]
MCMixes ==
  {Mix({"observe", "admit"}, 3, 1, 0),
   Mix({"observe both", "admit"}, 2, 1, 1), Mix({"verify", "generated"}, 2, 2, 0),
   Mix({"sync", "check"}, 2, 2, 1), Mix({"build", "recheck", "sync"}, 3, 1, 0),
   Mix({"build", "recheck"}, 2, 1, 1)}
=============================================================================
