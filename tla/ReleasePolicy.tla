--------------------------- MODULE ReleasePolicy ---------------------------
(* release-policy.js and semantic-release-policy.cjs: which version follows  *)
(* from the last tag and the commits since, and whether the manifest of the  *)
(* commit lets it be released.                                               *)
EXTENDS Naturals, FiniteSets

\* A tag name: vMAJOR.MINOR.PATCH, or one with a label that is no release.
V(major, minor, patch) == [major |-> major, minor |-> minor, patch |-> patch, label |-> "none"]
ExactVersion(v) == v.label = "none"

Bumps == {"none", "patch", "minor", "major"}

Older(a, b) ==
  \/ a.major < b.major
  \/ a.major = b.major /\ a.minor < b.minor
  \/ a.major = b.major /\ a.minor = b.minor /\ a.patch < b.patch

Newest(versions) == CHOOSE v \in versions : \A w \in versions \ {v} : Older(w, v)

\* The manifest gives some majors a line; approved stands for the record of
\* the approval of a stable line.
ValidPolicy(lines) ==
  /\ 0 \in DOMAIN lines
  /\ \A major \in DOMAIN lines :
       IF major = 0
       THEN lines[0] = [stage |-> "initial-development", breakingBump |-> "minor", approved |-> FALSE]
       ELSE lines[major].stage = "stable"

StableMajorApproved(lines, major) ==
  major >= 1 /\ major \in DOMAIN lines /\ lines[major].stage = "stable" /\ lines[major].approved

\* Mutated: any major the manifest lists may be released.
VersionListed(lines, v) ==
  ValidPolicy(lines) /\ ExactVersion(v) /\ v.major \in DOMAIN lines

VersionAllowed(lines, v) ==
  /\ ValidPolicy(lines) /\ ExactVersion(v) /\ v.major \in DOMAIN lines
  /\ (v.major = 0 \/ StableMajorApproved(lines, v.major))

\* A breaking change on 0.x makes a minor while major one is not approved.
CappedBump(lines, last, bump) ==
  IF bump = "major" /\ last.major = 0 /\ ~StableMajorApproved(lines, 1)
  THEN lines[0].breakingBump ELSE bump

Increment(last, bump) ==
  CASE bump = "patch" -> [last EXCEPT !.patch = @ + 1]
    [] bump = "minor" -> [last EXCEPT !.minor = @ + 1, !.patch = 0]
    [] bump = "major" -> [last EXCEPT !.major = @ + 1, !.minor = 0, !.patch = 0]

\* The strongest change of the commits since the last release.
Strongest(bumps) ==
  IF "major" \in bumps THEN "major" ELSE IF "minor" \in bumps THEN "minor"
  ELSE IF "patch" \in bumps THEN "patch" ELSE "none"

\* The versions to release: none without a change that is worth one.
NextVersions(lines, last, bumps) ==
  LET bump == CappedBump(lines, last, Strongest(bumps))
  IN IF bump = "none" THEN {} ELSE {Increment(last, bump)}
=============================================================================
