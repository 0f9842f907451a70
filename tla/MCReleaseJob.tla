---------------------------- MODULE MCReleaseJob ----------------------------
(* Five commits: the released one, a fix, a breaking change whose manifest   *)
(* approves major one and whose std has a file of the class path once more,  *)
(* one with a symbolic link among its files, and one whose copy of the       *)
(* license contradicts the record of it.                                     *)
EXTENDS ReleaseJob

CONSTANTS c0, c1, c2, c3, c4, h0, h1, a0, a1, l0, l1

Blob(file, object) == [file |-> file, type |-> "blob", mode |-> "100644", object |-> object]
Files(manifest, class, license) ==
  <<Blob(<<"haxelib.json">>, manifest), Blob(<<"runtime", "hxrt", "Cargo.toml">>, a0),
    Blob(<<"src", "A.hx">>, class), Blob(<<"std", "rust", "_std", "B.hx">>, a0),
    Blob(<<"vendor", "reflaxe", "LICENSE">>, license)>>
MCTree ==
  (c0 :> Files(h0, a0, l0)) @@
  (c1 :> Files(h0, a1, l0)) @@
  (c2 :> Append(Files(h1, a1, l0), Blob(<<"std", "A.hx">>, a0))) @@
  (c3 :> Append(Files(h1, a0, l0), [Blob(<<"src", "C.hx">>, a0) EXCEPT !.mode = "120000"])) @@
  (c4 :> Files(h0, a1, l1))

MCBump == (c0 :> "minor") @@ (c1 :> "patch") @@ (c2 :> "major") @@ (c3 :> "minor") @@
          (c4 :> "patch")

Initial == [stage |-> "initial-development", breakingBump |-> "minor", approved |-> FALSE]
Stable(approval) == [stage |-> "stable", breakingBump |-> "none", approved |-> approval]
MCPolicyLines ==
  [c \in Commits |-> (0 :> Initial) @@ (1 :> Stable(c = c2))]

MCFirstVersion == V(0, 1, 0)
MCOtherTag == [major |-> 0, minor |-> 0, patch |-> 0, label |-> "other"]
MCNames ==
  <<<<"THIRD_PARTY_NOTICES.md">>, <<"haxelib.json">>, <<"release-metadata.json">>,
    <<"release-sbom.json">>, <<"runtime", "hxrt", "Cargo.toml">>, <<"src", "A.hx">>,
    <<"src", "B.cross.hx">>, <<"src", "C.hx">>, <<"vendor", "reflaxe", "LICENSE">>>>
MCCrossName == "B.hx" :> "B.cross.hx"
MCRequired ==
  Generated \cup {Manifest, Metadata, <<"runtime", "hxrt", "Cargo.toml">>, <<"src", "B.cross.hx">>}
MCLicenseSources == {Manifest}
MCRequiredInputs == {Manifest}
MCEvidence == {Manifest, <<"vendor", "reflaxe", "LICENSE">>}
\* The license is the recorded one; the inventory has the manifest's facts.
MCAgreeing ==
  {<<(Manifest :> h) @@ (<<"vendor", "reflaxe", "LICENSE">> :> l0), Manifest :> h>> : h \in {h0, h1}}
\* D.hx and the configuration are in no commit.
MCReleaseInputs == FilesIn(c2) \cup {<<"src", "D.hx">>}
MCPreloaded == {<<".releaserc">>}
=============================================================================
