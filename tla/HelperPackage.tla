--------------------------- MODULE HelperPackage ----------------------------
(* support-crate-admission-helper/build.js: the native helper is built from  *)
(* the sources of the checkout and packaged beside a record of what it was   *)
(* built from; --check builds it again and compares.  And the commands of    *)
(* rust-toolchain-policy.js that keep the generated files in step.           *)
EXTENDS ReviewedGraph

CONSTANT FirstPackage

\* package holds binary, inventory, provenance and notices; two builders of a
\* kind share a build directory.
NotBuilt == [code |-> Null, graph |-> Null, lock |-> Null, binary |-> Null]

HelperInit == package = FirstPackage /\ out = [d \in {"out", "out_verify"} |-> NotBuilt]

\* Another command of the checkout has written: the rest have been disturbed.
GoTouching(p, c) ==
  /\ cmd' = [q \in Procs |-> IF q = p THEN c ELSE Touched(cmd[q], "files")]
  /\ UNCHANGED used

\* What a command that was itself disturbed leaves in a build directory disturbs
\* the others that build there.
Stains(p, q) ==
  cmd[p].touched # {} /\ "check" \in DOMAIN cmd[q] /\ cmd[q].check = cmd[p].check
GoBuilding(p, c) ==
  /\ cmd' = [q \in Procs |->
              IF q = p THEN c ELSE IF Stains(p, q) THEN Touched(cmd[q], "directory") ELSE cmd[q]]
  /\ UNCHANGED used

-----------------------------------------------------------------------------
(* The generated files, of which --write makes one after the other.          *)
StartSync(p) ==
  /\ MayStart(p, "sync")
  /\ \E policy \in LoadPolicy : Starts(p, [at |-> "sync", policy |-> policy, next |-> 1])
  /\ UNCHANGED <<repo, graphVars, helperVars>>

SyncOrder == <<"haxe", "toml", "docs">>

SyncFile(p) ==
  /\ At(p, "sync")
  /\ LET c == cmd[p]
         file == SyncOrder[c.next]
         content == IF file = "docs" THEN ReplaceGeneratedDocs(repo.files.docs, RenderDocs(c.policy))
                    ELSE Rendered(c.policy)[file]
     IN IF content = Null THEN Go(p, Idle) /\ UNCHANGED repo
        ELSE /\ repo' = [repo EXCEPT !.files[file] = content]
             /\ GoTouching(p, IF file = "docs" THEN Idle ELSE [c EXCEPT !.next = @ + 1])
  /\ UNCHANGED <<graphVars, helperVars>>

StartConsumerCheck(p) ==
  /\ MayStart(p, "check")
  /\ \E policy \in LoadPolicy :
       Starts(p, [at |-> "consumers", policy |-> policy, touched |-> {}])
  /\ UNCHANGED <<repo, graphVars, helperVars>>

ConsumerCheck(p) ==
  /\ At(p, "consumers")
  /\ GoIf(p, CheckConsumers(repo, cmd[p].policy), [cmd[p] EXCEPT !.at = "consumers checked"])
  /\ UNCHANGED <<repo, graphVars, helperVars>>

-----------------------------------------------------------------------------
(* The helper.                                                               *)
\* What build.js digests.  The locator is among the compiler's sources.
SourceInputIdentity ==
  [helper |-> repo.helper, policy |-> repo.policy, haxe |-> repo.files.haxe,
   toml |-> repo.files.toml, locator |-> repo.locator]

Reachable(graph) ==
  {n \in DOMAIN graph.nodes :
    \A closed \in SUBSET DOMAIN graph.nodes :
      graph.root \in closed /\ (\A m \in closed : graph.nodes[m].dependencies \subseteq closed)
        => n \in closed}

\* Empty when a package of the graph is not locked, has no licence or is another target's.
DependencyInventory(graph, lock) ==
  LET reached == Reachable(graph)
      licence(n) == IF graph.nodes[n].licence = Null /\ graph.nodes[n].source = Null
                    THEN "package-owned" ELSE graph.nodes[n].licence
  IN IF \E n \in reached : n \notin DOMAIN lock \/ licence(n) = Null \/ graph.nodes[n].foreign THEN {}
     ELSE {[lock |-> lock,
            packages |-> [n \in reached |-> [source |-> graph.nodes[n].source, checksum |-> lock[n],
                                           licence |-> licence(n)]],
            nodes |-> [n \in reached |-> graph.nodes[n].dependencies]]}

ThirdPartyNotices(inventory) ==
  {<<n, inventory.packages[n].licence>> :
    n \in {m \in DOMAIN inventory.packages : inventory.packages[m].source # Null}}

Provenance(binary) == [binary |-> binary, sources |-> SourceInputIdentity]

OutputRoot(c) == IF c.check THEN "out_verify" ELSE "out"

StartHelper(p) ==
  /\ \E check \in BOOLEAN :
       /\ MayStart(p, IF check THEN "recheck" ELSE "build")
       /\ Starts(p, [at |-> "empty", check |-> check, touched |-> {}])
  /\ UNCHANGED <<repo, graphVars, helperVars>>

\* Each step keeps what a later one uses.
Works(c, at, held) == With([at |-> at, check |-> c.check, touched |-> c.touched], held)
Nothing == <<>>

HelperEmpty(p) ==
  /\ At(p, "empty")
  /\ out' = [out EXCEPT ![OutputRoot(cmd[p])] = NotBuilt]
  /\ Go(p, Works(cmd[p], "haxe", Nothing))
  /\ UNCHANGED <<repo, graphVars, package>>

\* The Haxe compiler reads the sources and writes the crate at its end.
HaxeReads(p) ==
  /\ At(p, "haxe")
  /\ Go(p, Works(cmd[p], "crate",
                 [made |-> [code |-> repo.helper.code, graph |-> repo.helper.graph]]))
  /\ UNCHANGED <<repo, graphVars, helperVars>>

HaxeWrites(p) ==
  /\ At(p, "crate")
  /\ LET made == cmd[p].made
     IN out' = [out EXCEPT ![OutputRoot(cmd[p])] =
                 [@ EXCEPT !.code = made.code, !.graph = made.graph]]
  /\ GoBuilding(p, Works(cmd[p], "lock", Nothing))
  /\ UNCHANGED <<repo, graphVars, package>>

\* A step that writes into the directory, unless another build has removed it.
IntoDirectory(p, file, content) ==
  LET d == OutputRoot(cmd[p])
  IN out[d].code # Null /\ out' = [out EXCEPT ![d] = [@ EXCEPT ![file] = content]]
Removed(p) == out[OutputRoot(cmd[p])].code = Null /\ Go(p, Idle) /\ UNCHANGED out

CopyLock(p) ==
  /\ At(p, "lock")
  /\ \/ Removed(p)
     \/ IntoDirectory(p, "lock", repo.helper.lock) /\ Go(p, Works(cmd[p], "cargo", Nothing))
  /\ UNCHANGED <<repo, graphVars, package>>

\* cargo build --locked reads the crate, for the channel the checkout names,
\* and links at its end; --locked takes no lock that does not fit.
Complete(dir) ==
  dir.code # Null /\ dir.lock # Null /\ DOMAIN dir.lock = DOMAIN dir.graph.nodes

CargoReads(p) ==
  /\ At(p, "cargo")
  /\ LET dir == out[OutputRoot(cmd[p])]
     IN GoIf(p, Complete(dir),
             Works(cmd[p], "link",
                   [linked |-> [code |-> dir.code, channel |-> repo.files.toml.channel]]))
  /\ UNCHANGED <<repo, graphVars, helperVars>>

CargoLinks(p) ==
  /\ At(p, "link")
  /\ \/ Removed(p)
     \/ /\ IntoDirectory(p, "binary", cmd[p].linked)
        /\ GoBuilding(p, Works(cmd[p], "read", Nothing))
  /\ UNCHANGED <<repo, graphVars, package>>

\* What the directory holds by now is what is compared and recorded.
ReadBinary(p) ==
  /\ At(p, "read")
  /\ LET binary == out[OutputRoot(cmd[p])].binary
     IN GoIf(p, binary # Null, Works(cmd[p], "metadata", [built |-> binary]))
  /\ UNCHANGED <<repo, graphVars, helperVars>>

HelperInventory(p) ==
  /\ At(p, "metadata")
  /\ LET dir == out[OutputRoot(cmd[p])]
         inventories ==
           IF Complete(dir) THEN DependencyInventory(dir.graph, repo.helper.lock) ELSE {}
     IN \/ inventories = {} /\ Go(p, Idle)
        \/ \E inventory \in inventories :
             Go(p, Works(cmd[p], "record", [built |-> cmd[p].built, inventory |-> inventory]))
  /\ UNCHANGED <<repo, graphVars, helperVars>>

HelperRecord(p) ==
  /\ At(p, "record")
  /\ LET c == cmd[p]
     IN Go(p, Works(c, IF c.check THEN "compare" ELSE "binary",
                    [built |-> c.built, inventory |-> c.inventory,
                     provenance |-> Provenance(c.built),
                     notices |-> ThirdPartyNotices(c.inventory)]))
  /\ UNCHANGED <<repo, graphVars, helperVars>>

\* The binary is copied from the directory, not from what the command has read.
CopyBinary(p) ==
  /\ At(p, "binary")
  /\ IF out["out"].binary = Null THEN Go(p, Idle) /\ UNCHANGED package
     ELSE /\ package' = [package EXCEPT !.binary = out["out"].binary]
          /\ GoTouching(p, [cmd[p] EXCEPT !.at = "inventory"])
  /\ UNCHANGED <<repo, graphVars, out>>

RecordOrder == <<"inventory", "provenance", "notices">>

WriteRecord(p) ==
  /\ \E k \in DOMAIN RecordOrder :
       LET file == RecordOrder[k]
       IN /\ At(p, file)
          /\ package' = [package EXCEPT ![file] = cmd[p][file]]
          /\ GoTouching(p, IF k = 3 THEN Idle ELSE [cmd[p] EXCEPT !.at = RecordOrder[k + 1]])
  /\ UNCHANGED <<repo, graphVars, out>>

\* Mutated: the record is not compared.
CompareBinary(c) ==
  /\ package.binary = c.built
  /\ package.inventory = c.inventory /\ package.notices = c.notices
  /\ repo.locator = c.provenance.binary

PackageAgrees(c) ==
  /\ package.binary = c.built
  /\ package.inventory = c.inventory
  /\ package.provenance = c.provenance
  /\ package.notices = c.notices
  /\ repo.locator = c.provenance.binary

ComparePackage(p) ==
  /\ At(p, "compare")
  /\ GoIf(p, PackageAgrees(cmd[p]), [cmd[p] EXCEPT !.at = "helper checked"])
  /\ UNCHANGED <<repo, graphVars, helperVars>>

CheckEnds(p) ==
  /\ At(p, "consumers checked") \/ At(p, "helper checked")
  /\ Go(p, Idle)
  /\ UNCHANGED <<repo, graphVars, helperVars>>
=============================================================================
