--------------------------- MODULE ReleaseArchive ---------------------------
(* package-haxelib.sh with the build of the vendored Reflaxe, the writer of  *)
(* the archive (deterministic-zip.js) and its verifier: what of a commit is  *)
(* staged, under which names, how it is packed and read back, and what it    *)
(* must hold.  A directory gives each file a content; the order of the names *)
(* is given; an offset counts the entries before it.                         *)
EXTENDS ExactGitSource

CONSTANTS
  Names,          \* every name a package can have, in compareEntryNames order
  CrossName,      \* a source file's own name with its ending made .cross.hx
  Required,       \* entries every package has
  RequiredInputs, \* files a package cannot be made without
  LicenseSources, \* files the notices and the inventory are generated from
  Evidence,       \* packaged records and what they describe: haxelib.json, the
                  \* provenance of Reflaxe, its patch and license, the std ledger
  Agreeing        \* their contents and the inventory's, where these agree

Manifest == <<"haxelib.json">>
Metadata == <<"release-metadata.json">>
Generated == {<<"THIRD_PARTY_NOTICES.md">>, <<"release-sbom.json">>}
CopiedFiles == {"LICENSE", "README.md", "Run.hx", "extraParams.hxml", "haxelib.json", "run.n"}
RootFiles == CopiedFiles \cup {"THIRD_PARTY_NOTICES.md", "release-metadata.json", "release-sbom.json"}
RootDirectories == {"provenance", "runtime", "src", "vendor"}

Packaged(name) ==
  IF Len(name) = 1 THEN name[1] \in RootFiles ELSE name[1] \in RootDirectories

-----------------------------------------------------------------------------
(* Staging: the class path, then std, then std/rust/_std are copied into     *)
(* src, so that the last of two files with one place stays; the runtime goes *)
(* without what only its developers need.  What std/rust/_std has twice but  *)
(* for the ending is left to the file system's order, here to CHOOSE.        *)
StdlibLedger == <<"docs", "stdlib-provenance-ledger.json">>
NativeStd == <<"std", "rust", "_std">>
Nowhere == <<>>

Pruned(file) ==
  /\ IsStrictPrefix(<<"runtime", "hxrt">>, file)
  /\ file[3] \in {"target", "Cargo.lock", "tests", "benches", "examples"}

KeepsPlace(file) ==
  IF Len(file) = 1 THEN file[1] \in CopiedFiles
                   ELSE file[1] \in {"src", "runtime", "vendor"} /\ ~Pruned(file)

PlacedAs(file) ==
  IF KeepsPlace(file) THEN file
  ELSE IF file = StdlibLedger THEN <<"provenance", "stdlib-provenance-ledger.json">>
  ELSE IF IsStrictPrefix(NativeStd, file)
    THEN <<"src">> \o SubSeq(file, 4, Len(file) - 1) \o <<CrossName[Last(file)]>>
  ELSE IF IsStrictPrefix(<<"std">>, file) THEN <<"src">> \o Tail(file)
  ELSE Nowhere

Turn(file) ==
  IF IsStrictPrefix(NativeStd, file) THEN 3 ELSE IF file[1] = "std" THEN 2 ELSE 1

PlacedFrom(files) == {f \in files : PlacedAs(f) # Nowhere}
PlacedNames(files) == {PlacedAs(f) : f \in PlacedFrom(files)}
SourceOf(files, name) ==
  CHOOSE f \in files : /\ PlacedAs(f) = name
                       /\ \A g \in files : PlacedAs(g) = name => Turn(g) <= Turn(f)

\* Every name a package can have is listed, and the evidence keeps its place.
ASSUME ArchiveAssumption ==
  /\ Names \in Seq(ToSet(Names))
  /\ \A c \in Commits : PlacedNames(FilesIn(c)) \cup Generated \cup {Metadata} \subseteq ToSet(Names)
  /\ Manifest \in RequiredInputs
  /\ \A e \in Evidence \ {Manifest, StdlibLedger} : IsStrictPrefix(<<"vendor", "reflaxe">>, e)

Stamp(v, c) == [version |-> v, commit |-> c]
StampedManifest(source, v) == [file |-> source[Manifest].bytes, stamp |-> [version |-> v]]
Inventory(source) == [f \in LicenseSources |-> source[f].bytes]
LicenseArtifact(source, v) == [file |-> Inventory(source), stamp |-> [version |-> v]]

\* The provenance check and the generator of the notices refuse records that
\* are missing or contradict what they describe.
CanPackage(source) ==
  /\ RequiredInputs \cup LicenseSources \cup Evidence \subseteq DOMAIN source
  /\ \A dir \in {"src", "std", "runtime", "vendor"} :
       \E f \in DOMAIN source : IsStrictPrefix(<<dir>>, f)
  /\ <<[f \in Evidence |-> source[f].bytes], Inventory(source)>> \in Agreeing

\* The staged package: the placed files of the source and what names it.
Stage(source, v, c) ==
  LET files == DOMAIN source
      Content(name) ==
        IF name = Metadata THEN [file |-> Metadata, stamp |-> Stamp(v, c)]
        ELSE IF name \in Generated THEN LicenseArtifact(source, v)
        ELSE IF name = Manifest THEN StampedManifest(source, v)
        ELSE [file |-> source[SourceOf(files, name)].bytes, stamp |-> <<>>]
  IN [name \in PlacedNames(files) \cup Generated \cup {Metadata} |-> Content(name)]

\* The files of a directory in the order of the names: each name found stands
\* behind as many as were found before it.
CollectFiles(dir) ==
  LET found == {k \in DOMAIN Names : Names[k] \in DOMAIN dir}
      place(k) == Cardinality({j \in found : j <= k})
  IN [i \in 1 .. Cardinality(found) |-> Names[CHOOSE k \in found : place(k) = i]]

ZipBytes(dir) ==
  LET files == CollectFiles(dir)
  IN [local |-> [k \in DOMAIN files |->
        LET f == files[k]  bytes == dir[f] IN [name |-> f, crc |-> bytes, data |-> bytes]],
      central |-> [k \in DOMAIN files |->
        LET f == files[k] IN [name |-> f, crc |-> dir[f], mode |-> "0644", offset |-> k - 1]],
      end |-> [count |-> Len(files), offset |-> Len(files)]]

Package(source, v, c) == ZipBytes(Stage(source, v, c))

-----------------------------------------------------------------------------
(* Reading: the central directory first, then each local header against it.  *)
EntryNames(zip) == [k \in DOMAIN zip.central |-> zip.central[k].name]

SafeNames(names) ==
  (\A k \in DOMAIN names : SafeName(names[k])) /\ IsInjective(names)

CentralReadable(zip) ==
  /\ zip.end = [count |-> Len(zip.central), offset |-> Len(zip.local)]
  /\ \A k \in DOMAIN zip.central : zip.central[k].mode = "0644"
  /\ SafeNames(EntryNames(zip))

LocalHeader(zip, e) == zip.local[e.offset + 1]
LocalAgrees(zip, e) ==
  /\ e.offset < Len(zip.local)
  /\ LocalHeader(zip, e) = [name |-> e.name, crc |-> e.crc, data |-> e.crc]

Readable(zip) ==
  CentralReadable(zip) /\ \A k \in DOMAIN zip.central : LocalAgrees(zip, zip.central[k])

\* What installing the package gives.
Extract(zip) ==
  [f \in {zip.central[k].name : k \in DOMAIN zip.central} |->
    LET k == CHOOSE k \in DOMAIN zip.central : zip.central[k].name = f
     IN LocalHeader(zip, zip.central[k]).data]

\* What only those who develop the compiler have.
DevelopmentPart(file) ==
  \/ \E i \in 2 .. Len(file) - 1 : file[i] \in {"target", "node_modules"}
  \/ \E i \in DOMAIN file : file[i] = ".git"
DevelopmentOnly(name) ==
  \/ IsStrictPrefix(<<"std">>, name) \/ IsStrictPrefix(<<"runtime", "hxrt", "tests">>, name)
  \/ DevelopmentPart(name)

Layout(names) ==
  /\ CollectFiles([f \in ToSet(names) |-> f]) = names
  /\ Required \subseteq ToSet(names)
  /\ \A k \in DOMAIN names : Packaged(names[k]) /\ ~DevelopmentOnly(names[k])

\* Files that are as in the source, and absent where the source has none.
ExactSources ==
  {<<"LICENSE">>, <<"README.md">>, <<"extraParams.hxml">>, <<"Run.hx">>, <<"run.n">>,
   StdlibLedger, <<"runtime", "hxrt", "Cargo.toml">>}
AsInSource(files, source, f) == files[PlacedAs(f)].file = source[f].bytes
Vendored(names) == {f \in names : IsStrictPrefix(<<"vendor", "reflaxe">>, f)}

\* What the files of an archive say of themselves and of each other, and
\* where the source must agree.
Identity(files, source, v, c) ==
  /\ files[Manifest] = StampedManifest(source, v)
  /\ \A f \in ExactSources :
       /\ f \in DOMAIN source <=> PlacedAs(f) \in DOMAIN files
       /\ f \in DOMAIN source => AsInSource(files, source, f)
  /\ Vendored(DOMAIN files) = Vendored(DOMAIN source)
  /\ \A f \in Vendored(DOMAIN source) : AsInSource(files, source, f)
  /\ \A f \in Generated : files[f] = LicenseArtifact(source, v)
  /\ files[Metadata].stamp = Stamp(v, c)
  /\ \A f \in Generated :
       <<[e \in Evidence |-> files[PlacedAs(e)].file], files[f].file>> \in Agreeing

\* verifyReleaseArtifact: structure, layout, identity, and the whole archive
\* against one that was built again.
VerifiedArtifact(zip, canonical, source, v, c) ==
  /\ Readable(zip) /\ Layout(EntryNames(zip))
  /\ Identity(Extract(zip), source, v, c)
  /\ zip = canonical
=============================================================================
