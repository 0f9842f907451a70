----------------------------- MODULE CargoGraph -----------------------------
(* fresh-cargo-resolution.js: how Cargo's lock and metadata are read, put    *)
(* into one form and compared.  A lock is its header, its format and its     *)
(* package blocks, in order; what the code sorts is a set; a version is its  *)
(* three numbers; a digest of bytes is the bytes.                            *)
EXTENDS Integers, Sequences, FiniteSets, SequencesExt

CONSTANT Null

Older(v, w) == \E k \in 1..3 : v[k] < w[k] /\ \A j \in 1..(k - 1) : v[j] = w[j]
CanonicalVersion(v) == [k \in 1..3 |-> IF k <= Len(v) THEN v[k] ELSE 0]
NextRustMinor(v) == <<v[1], v[2] + 1, 0>>

-----------------------------------------------------------------------------
(* The lock.  unknown holds the lines of a block the reader has no use for:  *)
(* an unknown field, one given twice, a list that is not closed.             *)
Identity(p) == [name |-> p.name, version |-> p.version, source |-> p.source]

\* The fields a block has, and the files a case has.
BlockFields(b) ==
  b = [name |-> b.name, version |-> b.version, source |-> b.source, checksum |-> b.checksum,
       unknown |-> b.unknown, dependencies |-> b.dependencies]
LockFields(lock) == \A k \in DOMAIN lock.blocks : BlockFields(lock.blocks[k])
ArtifactFiles(artifacts) ==
  /\ artifacts = [id \in DOMAIN artifacts |->
                   [lock |-> artifacts[id].lock, metadata |-> artifacts[id].metadata]]
  /\ \A id \in DOMAIN artifacts : LockFields(artifacts[id].lock)

LockReadable(lock) ==
  /\ lock.header = {"version"}
  /\ \A k \in DOMAIN lock.blocks : lock.blocks[k].unknown = {}
  /\ \A j, k \in DOMAIN lock.blocks :
       Identity(lock.blocks[j]) = Identity(lock.blocks[k]) => j = k

ParseLock(lock) ==
  [id \in {Identity(lock.blocks[k]) : k \in DOMAIN lock.blocks} |->
    lock.blocks[CHOOSE k \in DOMAIN lock.blocks : Identity(lock.blocks[k]) = id]]

-----------------------------------------------------------------------------
(* The metadata.  raw.packages have Cargo's opaque ids; theirs become the    *)
(* name, version and source in the canonical form.                           *)
StableKey(raw, id) == Identity(CHOOSE p \in raw.packages : p.id = id)

MetadataKnown(raw) ==
  LET ids == {p.id : p \in raw.packages}
  IN /\ raw.root \in ids /\ raw.members \subseteq ids
     /\ \A n \in raw.nodes : n.id \in ids /\ n.dependencies \subseteq ids

NormalizeMetadata(raw, entry, policy, incompatible) ==
  LET features(id) == UNION {n.features : n \in {m \in raw.nodes : m.id = id}}
  IN [caseId |-> entry.id, contract |-> entry.contract, fixture |-> entry.fixture,
      minimum |-> policy.minimum, resolver |-> policy.resolver,
      incompatible |-> incompatible, root |-> StableKey(raw, raw.root),
      members |-> {StableKey(raw, id) : id \in raw.members},
      nodes |-> {[id |-> StableKey(raw, n.id), features |-> n.features,
                  dependencies |-> {StableKey(raw, d) : d \in n.dependencies}] : n \in raw.nodes},
      packages |-> {[id |-> Identity(p), name |-> p.name, version |-> p.version,
                     source |-> p.source, features |-> features(p.id),
                     rustVersion |-> IF p.rustVersion = Null THEN Null
                                     ELSE CanonicalVersion(p.rustVersion),
                     dependencies |-> p.dependencies] : p \in raw.packages}]

TooNew(metadata, minimum) ==
  {p \in metadata.packages : p.rustVersion # Null /\ Older(minimum, p.rustVersion)}

\* No id twice, among the packages and among the nodes.
MetadataShape(metadata) ==
  /\ \A p, q \in metadata.packages : p.id = q.id => p = q
  /\ \A m, n \in metadata.nodes : m.id = n.id => m = n

-----------------------------------------------------------------------------
(* A change: its category, its field, the case, the subject, old and new.    *)
Change(category, field, c, subject, old, new) == <<category, field, c, subject, old, new>>
Category(change) == change[1]
CaseOf(change) == change[3]
Subject(change) == change[4]

CompareValues(category, field, c, subject, old, new) ==
  IF old = new THEN {} ELSE {Change(category, field, c, subject, old, new)}

\* The pairs of one key that stand alone for it on both sides.
OnePairOf(L, R, key) ==
  {pair \in L \X R :
    /\ key[pair[1]] = key[pair[2]]
    /\ \A l \in L : key[l] = key[pair[1]] => l = pair[1]
    /\ \A r \in R : key[r] = key[pair[2]] => r = pair[2]}

LogicalPackagePairs(L, R) ==
  LET exact == {pair \in L \X R : pair[1].id = pair[2].id}
      l == {p \in L : \A q \in R : q.id # p.id}
      r == {q \in R : \A p \in L : q.id # p.id}
  IN exact \cup OnePairOf(l, r, [p \in l \cup r |-> p.name])

Line(id) == [name |-> id.name, source |-> id.source]

\* Mutated: a package that stays is not looked into.
LockPackages(c, before, after) ==
  LET L == DOMAIN ParseLock(before)  R == DOMAIN ParseLock(after)
  IN {Change("package-removed", "identity", c, id, id, Null) : id \in L \ R}
     \cup {Change("package-added", "identity", c, id, Null, id) : id \in R \ L}

\* One package of a name and a source gone and one come: another version of it.
Replaced(removed, added) ==
  OnePairOf(removed, added, [i \in removed \cup added |-> Line(i)])

LockChanges(c, before, after) ==
  LET L == ParseLock(before)  R == ParseLock(after)
      removed == DOMAIN L \ DOMAIN R
      added == DOMAIN R \ DOMAIN L
      replaced == Replaced(removed, added)
  IN CompareValues("lock-format", "format", c, c, before.format, after.format)
     \cup (UNION {
       CompareValues("package-checksum-changed", "checksum", c, id, L[id].checksum, R[id].checksum)
       \cup CompareValues("package-lock-dependencies-changed", "dependencies", c, id,
              L[id].dependencies, R[id].dependencies) : id \in DOMAIN L \cap DOMAIN R})
     \cup (UNION {
       {Change("package-version-changed", "version", c, Line(pair[1]), pair[1].version, pair[2].version)}
       \cup CompareValues("package-version-checksum-changed", "checksum", c, Line(pair[1]),
              L[pair[1]].checksum, R[pair[2]].checksum) : pair \in replaced})
     \cup {Change("package-removed", "identity", c, id, id, Null) :
             id \in removed \ {pair[1] : pair \in replaced}}
     \cup {Change("package-added", "identity", c, id, Null, id) :
             id \in added \ {pair[2] : pair \in replaced}}

AuthorityFields == {"caseId", "contract", "fixture", "minimum", "resolver", "incompatible"}
TopologyFields == {"root", "members"}
FieldCategory(f) ==
  IF f \in TopologyFields THEN "topology-changed" ELSE "authority-input-changed"

PackageChanges(c, pair) ==
  LET l == pair[1]  r == pair[2]
      on == IF l.id = r.id THEN l.id ELSE Line(l.id)
      moved(f) == CompareValues("metadata-package-identity-changed", f, c, on, l[f], r[f])
  IN (UNION {moved(f) : f \in {"name", "version", "source"}})
     \cup CompareValues("declared-msrv-changed", "rustVersion", c, on, l.rustVersion, r.rustVersion)
     \cup CompareValues("enabled-features-changed", "enabledFeatures", c, on, l.features, r.features)
     \cup CompareValues("declared-dependencies-changed", "dependencies", c, on,
            l.dependencies, r.dependencies)

NodeOf(metadata, id) == {n \in metadata.nodes : n.id = id}

\* The id a package of the new side had on the old one.
Old(pairs, id) ==
  LET of == {pair \in pairs : pair[2].id = id}
  IN IF of = {} THEN id ELSE (CHOOSE pair \in of : TRUE)[1].id

\* The nodes of a pair, the new side's ids put back to the old ones'.
NodeChanges(c, old, new, pair, pairs) ==
  UNION {LET m == nodes[1]  n == nodes[2]
         IN CompareValues("enabled-features-changed", "resolvedEnabledFeatures", c, m.id,
              m.features, n.features)
            \cup CompareValues("topology-edges-changed", "dependencies", c, m.id,
              m.dependencies, {Old(pairs, d) : d \in n.dependencies}) :
         nodes \in NodeOf(old, pair[1].id) \X NodeOf(new, pair[2].id)}

MetadataChanges(c, old, new) ==
  LET pairs == LogicalPackagePairs(old.packages, new.packages)
      gone == {p.id : p \in old.packages \ {pair[1] : pair \in pairs}}
      come == {p.id : p \in new.packages \ {pair[2] : pair \in pairs}}
  IN (UNION {CompareValues(FieldCategory(f), f, c, c, old[f], new[f]) :
              f \in AuthorityFields \cup TopologyFields})
     \cup CompareValues("topology-changed", "resolvedGraph.root", c, c, old.root, Old(pairs, new.root))
     \cup (UNION {PackageChanges(c, pair) \cup NodeChanges(c, old, new, pair, pairs) : pair \in pairs})
     \cup {Change("metadata-package-removed", "id", c, id, id, Null) : id \in gone}
     \cup {Change("metadata-package-added", "id", c, id, Null, id) : id \in come}
     \cup {Change("topology-node-removed", "node", c, n.id, n.id, Null) :
             n \in {m \in old.nodes : m.id \in gone}}
     \cup {Change("topology-node-added", "node", c, n.id, Null, n.id) :
             n \in {m \in new.nodes : m.id \in come}}

ClassifyCase(c, before, after) ==
  LET changes == LockChanges(c, before.lock, after.lock)
                   \cup MetadataChanges(c, before.metadata, after.metadata)
  IN IF changes # {} \/ before = after THEN changes
     ELSE {Change("serialization-changed", "bytes", c, c, before, after)}

\* A case on one side only: everything of it is a change.
ClassifyWholeCase(entry, artifact, added) ==
  LET c == entry.id
      whole(category, field, subject, value) ==
        Change(category, field, c, subject, IF added THEN Null ELSE value,
               IF added THEN value ELSE Null)
      or(a, b) == IF added THEN a ELSE b
      L == ParseLock(artifact.lock)
      m == artifact.metadata
  IN {whole("authority-input-changed", "case", c, Line([name |-> entry.contract, source |-> entry.fixture])),
      whole("lock-format", "format", c, artifact.lock.format),
      whole("topology-changed", "resolvedGraph.root", c, m.root)}
     \cup {whole(or("package-added", "package-removed"), "package", id, L[id]) : id \in DOMAIN L}
     \cup {whole(FieldCategory(f), f, c, m[f]) : f \in AuthorityFields \cup TopologyFields}
     \cup {whole(or("metadata-package-added", "metadata-package-removed"), "package", p.id, p) :
             p \in m.packages}
     \cup {whole(or("topology-node-added", "topology-node-removed"), "node", n.id, n) : n \in m.nodes}

Readable(artifact) == LockReadable(artifact.lock) /\ MetadataShape(artifact.metadata)

\* Mutated: a checksum is a change like another.
AdmissibleChecksum(changes) ==
  \A change \in changes : Category(change) # "serialization-changed"

Admissible(changes) ==
  \A change \in changes :
    Category(change) \notin {"package-checksum-changed", "serialization-changed"}
=============================================================================
