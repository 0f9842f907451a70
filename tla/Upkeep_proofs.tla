---------------------------- MODULE Upkeep_proofs ----------------------------
(* The proofs about a checkout that commands, people and the registry change *)
(* at once: GraphInv says what every command of the reviewed graph holds at  *)
(* each of its steps, CheckInv what a check of files has found out as long   *)
(* as nobody wrote, and the safety properties of Upkeep follow from them.    *)
EXTENDS Upkeep, FiniteSetTheorems, SequenceTheorems, TLAPS

-----------------------------------------------------------------------------
(* Sets and sequences.                                                       *)
LEMMA ImageIsFinite ==
  ASSUME NEW f, IsFiniteSet(DOMAIN f)
  PROVE  IsFiniteSet({f[x] : x \in DOMAIN f})
<1> DEFINE T == {f[x] : x \in DOMAIN f}
           g == [x \in DOMAIN f |-> f[x]]
<1>1. g \in Surjection(DOMAIN f, T)
  BY DEF Surjection
<1> QED
  BY <1>1, FS_Surjection

\* A sequence has finitely many positions.
LEMMA ListedIsFinite ==
  ASSUME NEW s, s \in Seq(ToSet(s))
  PROVE  IsFiniteSet(DOMAIN s)
  BY FS_Interval, LenProperties

\* SetToSeq lists the elements of a finite set.
LEMMA SetToSeqLists ==
  ASSUME NEW S, IsFiniteSet(S)
  PROVE  SetToSeq(S) \in Seq(S)
<1>1. Cardinality(S) \in Nat /\ ExistsBijection(1..Cardinality(S), S)
  BY FS_CardinalityType
<1>2. \E f \in [1..Cardinality(S) -> S] : IsInjective(f)
  BY <1>1 DEF ExistsBijection, Bijection, Injection
<1>3. SetToSeq(S) \in [1..Cardinality(S) -> S]
  BY <1>2 DEF SetToSeq
<1> QED
  BY <1>1, <1>3

-----------------------------------------------------------------------------
(* What Cargo hands back.                                                    *)
LEMMA LockHasFields ==
  ASSUME NEW input, NEW crates, IsFiniteSet(crates)
  PROVE  LockFields(LockOf(input, crates))
<1> DEFINE all == crates \cup {Root(input)}
           block(k) == [name |-> k.name, version |-> k.version, source |-> k.source,
                        checksum |-> k.checksum, unknown |-> {},
                        dependencies |-> IF k.source = Null THEN {Identity(j) : j \in crates}
                                         ELSE {}]
           f == [k \in all |-> block(k)]
           blocks == {block(k) : k \in all}
<1>1. IsFiniteSet(all)
  BY FS_AddElement
<1>2. IsFiniteSet(blocks)
  <2> HIDE DEF block, all
  <2>1. DOMAIN f = all
    OBVIOUS
  <2>2. IsFiniteSet({f[k] : k \in DOMAIN f})
    <3> HIDE DEF f
    <3> QED
      BY <1>1, <2>1, ImageIsFinite
  <2>3. blocks = {f[k] : k \in DOMAIN f}
    OBVIOUS
  <2> QED
    BY <2>2, <2>3
<1>3. SetToSeq(blocks) \in Seq(blocks)
  <2> HIDE DEF blocks
  <2> QED
    BY <1>2, SetToSeqLists
<1>4. LockOf(input, crates).blocks = SetToSeq(blocks)
  BY DEF LockOf
<1>5. \A b \in blocks : BlockFields(b)
  BY DEF BlockFields
<1> QED
  BY <1>3, <1>4, <1>5 DEF LockFields

\* A fresh pass resolves every case of the policy, and each lock it makes has
\* blocks with the fields of Cargo's (freshPass, LockOf).
LEMMA FreshPassIsWhole ==
  ASSUME NEW c, NEW upper, NEW r \in FreshPass(c, upper),
         \A id \in CaseIds(c.policy) : IsFiniteSet(c.inputs[id].requires)
  PROVE  DOMAIN r = CaseIds(c.policy) /\ ArtifactFiles(r)
<1> DEFINE mode == IF upper THEN "allow" ELSE "fallback"
           crates(id) == Resolution(c.inputs[id], mode)
           meta(id) == NormalizeMetadata(MetadataOf(c.inputs[id], crates(id)),
                                         EntryNamed(c.policy, id), c.policy, mode)
           result(id) == [lock |-> LockOf(c.inputs[id], crates(id)), metadata |-> meta(id)]
<1>1. r = [id \in CaseIds(c.policy) |-> result(id)]
  <2> HIDE DEF meta
  <2> QED
    BY Zenon DEF FreshPass, meta
<1>2. \A id \in CaseIds(c.policy) : IsFiniteSet(crates(id))
  <2> TAKE id \in CaseIds(c.policy)
  <2> DEFINE input == c.inputs[id]
             f == [req \in input.requires |-> Choice(req, input.rustVersion, mode)]
  <2>1. IsFiniteSet(DOMAIN f)
    OBVIOUS
  <2>2. IsFiniteSet({f[x] : x \in DOMAIN f})
    <3> HIDE DEF f
    <3> QED
      BY <2>1, ImageIsFinite
  <2>3. crates(id) = {f[x] : x \in DOMAIN f}
    <3> HIDE DEF mode, input
    <3>1. crates(id) = {Choice(req, input.rustVersion, mode) : req \in input.requires}
      BY DEF Resolution, input
    <3> QED
      BY <3>1
  <2> QED
    BY <2>2, <2>3
<1> HIDE DEF mode, crates, meta
<1>3. \A id \in CaseIds(c.policy) : LockFields(r[id].lock)
  BY <1>1, <1>2, LockHasFields
<1> QED
  BY <1>1, <1>3 DEF ArtifactFiles

IsToolchain(t) == t = [rustc |-> t.rustc, cargo |-> t.cargo]
Passes(s, ids) ==
  s # <<>> => s \in Seq({s[1]}) /\ DOMAIN s[1] = ids /\ ArtifactFiles(s[1])
InputsOf(policy, inputs) ==
  /\ inputs = [id \in CaseIds(policy) |-> inputs[id]]
  /\ \A id \in CaseIds(policy) : IsFiniteSet(inputs[id].requires)

\* One more pass agrees with those before it.
LEMMA ExtendedPasses ==
  ASSUME NEW s, NEW c, NEW upper, NEW t \in Extended(s, FreshPass(c, upper)),
         InputsOf(c.policy, c.inputs), Passes(s, CaseIds(c.policy))
  PROVE  t # <<>> /\ Passes(t, CaseIds(c.policy))
<1>1. PICK r \in FreshPass(c, upper) : t = Append(s, r) /\ (s = <<>> \/ r = s[1])
  BY DEF Extended
<1>2. DOMAIN r = CaseIds(c.policy) /\ ArtifactFiles(r)
  BY FreshPassIsWhole DEF InputsOf
<1>3. CASE s = <<>>
  <2>1. t = <<r>>
    BY <1>1, <1>3
  <2> QED
    BY <2>1, <1>2 DEF Passes
<1>4. CASE s # <<>>
  <2>1. s \in Seq({r}) /\ r = s[1] /\ t = Append(s, r)
    BY <1>1, <1>4 DEF Passes
  <2>2. Len(s) > 0
    BY <2>1, <1>4, EmptySeq
  <2>3. t \in Seq({r}) /\ t[1] = r /\ t # <<>>
    BY <2>1, <2>2
  <2> QED
    BY <2>3, <1>2 DEF Passes
<1> QED
  BY <1>3, <1>4

\* A selected toolchain is a rustc and a cargo (loadSelectedToolchain).
LEMMA ToolchainHasBoth ==
  ASSUME NEW t \in SelectedToolchains
  PROVE  IsToolchain(t)
<1>1. PICK sh : t \in LoadSelectedToolchain(sh)
  BY DEF SelectedToolchains
<1>2. PICK f : t = [tool \in {"rustc", "cargo"} |-> f[tool]]
  <2> DEFINE f == [tool \in {"rustc", "cargo"} |-> 
                     CanonicalVersion(Sysroots[SelectToolchain(sh).rustc][tool])]
  <2>1. t = f
    BY <1>1 DEF LoadSelectedToolchain
  <2> HIDE DEF f
  <2>2. f = [tool \in {"rustc", "cargo"} |-> f[tool]]
    BY DEF f
  <2> QED
    BY <2>1, <2>2
<1> QED
  BY <1>2 DEF IsToolchain

\* A policy that loads is the checkout's, and has finitely many cases.
LEMMA LoadedPolicy ==
  ASSUME NEW policy \in LoadPolicy
  PROVE  policy = repo.policy /\ IsFiniteSet(CaseIds(policy))
<1>1. policy = repo.policy /\ policy.cases \in Seq(ToSet(policy.cases))
  BY DEF LoadPolicy, ValidManifest, ValidCases
<1>2. IsFiniteSet(DOMAIN policy.cases)
  BY <1>1, ListedIsFinite
<1> DEFINE f == [k \in DOMAIN policy.cases |-> policy.cases[k].id]
<1>3. IsFiniteSet({f[k] : k \in DOMAIN f})
  <2>1. IsFiniteSet(DOMAIN f)
    BY <1>2
  <2> HIDE DEF f
  <2> QED
    BY <2>1, ImageIsFinite
<1>4. CaseIds(policy) = {f[k] : k \in DOMAIN f}
  BY DEF CaseIds
<1> QED
  BY <1>1, <1>3, <1>4

-----------------------------------------------------------------------------
(* The files of a candidate.                                                 *)
LEMMA TreeIsListed ==
  ASSUME NEW tree, NEW artifacts, IsFiniteSet(DOMAIN artifacts)
  PROVE  /\ TreeFiles(tree, artifacts) \in Seq(ToSet(TreeFiles(tree, artifacts)))
         /\ \A k \in DOMAIN TreeFiles(tree, artifacts) :
              TreeFiles(tree, artifacts)[k].name # <<"observation">>
<1> DEFINE ids == SetToSeq(DOMAIN artifacts)
           T == TreeFiles(tree, artifacts)
           file(k) == [name |-> <<tree, ids[k]>>, content |-> artifacts[ids[k]]]
<1>1. ids \in Seq(DOMAIN artifacts)
  BY SetToSeqLists
<1>2. T = [k \in DOMAIN ids |-> file(k)]
  BY DEF TreeFiles
<1>3. DOMAIN ids = 1..Len(ids) /\ Len(ids) \in Nat
  BY <1>1, LenProperties
<1> HIDE DEF ids
<1>4. \A k \in DOMAIN ids : file(k) \in ToSet(T)
  BY <1>2 DEF ToSet
<1>5. \A k \in DOMAIN ids : file(k).name # <<"observation">>
  <2> TAKE k \in DOMAIN ids
  <2>1. Len(<<tree, ids[k]>>) = 2 /\ Len(<<"observation">>) = 1
    OBVIOUS
  <2> QED
    BY <2>1
<1> HIDE DEF file, T
<1>6. T \in [1..Len(ids) -> ToSet(T)]
  BY <1>2, <1>3, <1>4
<1> QED
  BY <1>2, <1>3, <1>5, <1>6 DEF T

\* The files of a candidate are listed, and the one so named is the observation.
LEMMA CandidateIsListed ==
  ASSUME NEW c, IsFiniteSet(DOMAIN c.fallback[1]), c.upper => IsFiniteSet(DOMAIN c.edge[1])
  PROVE  /\ Len(CandidateFiles(c)) \in Nat \ {0, 1}
         /\ DOMAIN CandidateFiles(c) = 1 .. Len(CandidateFiles(c))
         /\ \A k \in DOMAIN CandidateFiles(c) :
              CandidateFiles(c)[k].name = <<"observation">> =>
                CandidateFiles(c)[k].content = Observation(c)
<1> DEFINE A == TreeFiles("fallback", c.fallback[1])
           B == IF c.upper THEN TreeFiles("upper-edge", c.edge[1]) ELSE <<>>
           last == [name |-> <<"observation">>, content |-> Observation(c)]
           C == <<[name |-> <<"classification">>, content |-> c.classification], last>>
           All == ToSet(A) \cup ToSet(B) \cup ToSet(C)
           Apart(s) == \A k \in DOMAIN s : s[k].name = <<"observation">> => s[k] = last
<1>1. A \in Seq(ToSet(A)) /\ Apart(A)
  <2>1. A \in Seq(ToSet(A)) /\ \A k \in DOMAIN A : A[k].name # <<"observation">>
    BY TreeIsListed
  <2> HIDE DEF A, last
  <2> QED
    BY <2>1
<1>2. B \in Seq(ToSet(B)) /\ Apart(B)
  <2>1. CASE c.upper
    <3>1. B = TreeFiles("upper-edge", c.edge[1])
      BY <2>1
    <3>2. B \in Seq(ToSet(B)) /\ \A k \in DOMAIN B : B[k].name # <<"observation">>
      BY <2>1, <3>1, TreeIsListed
    <3> HIDE DEF B, last
    <3> QED
      BY <3>2
  <2>2. CASE ~c.upper
    <3>1. B = <<>>
      BY <2>2
    <3> HIDE DEF B
    <3> QED
      BY <3>1
  <2> QED
    BY <2>1, <2>2
<1>3. C \in Seq(ToSet(C)) /\ Len(C) = 2 /\ Apart(C)
  <2>1. <<"classification">> # <<"observation">>
    OBVIOUS
  <2>2. C \in Seq(ToSet(C)) /\ Len(C) = 2
    BY DEF ToSet
  <2>3. C[1].name = <<"classification">> /\ C[2] = last /\ DOMAIN C = {1, 2}
    OBVIOUS
  <2> HIDE DEF C, last
  <2> QED
    BY <2>1, <2>2, <2>3
<1>4. CandidateFiles(c) = (A \o B) \o C
  BY DEF CandidateFiles
<1> HIDE DEF A, B, C, last
<1>5. A \in Seq(All) /\ B \in Seq(All) /\ C \in Seq(All)
  BY <1>1, <1>2, <1>3
<1>6. \A s, t \in Seq(All) : Apart(s) /\ Apart(t) => Apart(s \o t) /\ s \o t \in Seq(All)
  <2> HIDE DEF All
  <2> TAKE s, t \in Seq(All)
  <2> HAVE Apart(s) /\ Apart(t)
  <2>1. /\ s \o t \in Seq(All)
        /\ DOMAIN (s \o t) = 1 .. Len(s) + Len(t)
        /\ Len(s) \in Nat /\ Len(t) \in Nat
        /\ \A k \in 1 .. Len(s) + Len(t) :
             (s \o t)[k] = IF k <= Len(s) THEN s[k] ELSE t[k - Len(s)]
    BY ConcatProperties, LenProperties
  <2>2. ASSUME NEW k \in DOMAIN (s \o t)
        PROVE  (s \o t)[k].name = <<"observation">> => (s \o t)[k] = last
    <3>1. CASE k <= Len(s)
      BY <2>1, <3>1, LenProperties
    <3>2. CASE k > Len(s)
      BY <2>1, <3>2, LenProperties
    <3> QED
      BY <2>1, <3>1, <3>2
  <2> QED
    BY <2>1, <2>2
<1>7. /\ CandidateFiles(c) \in Seq(All) /\ Apart(CandidateFiles(c))
      /\ Len(CandidateFiles(c)) = Len(A) + Len(B) + 2
  <2> HIDE DEF All, Apart
  <2>1. A \o B \in Seq(All) /\ Apart(A \o B) /\ Len(A \o B) = Len(A) + Len(B)
    BY <1>1, <1>2, <1>5, <1>6, ConcatProperties
  <2>2. (A \o B) \o C \in Seq(All) /\ Apart((A \o B) \o C)
    BY <1>3, <1>5, <1>6, <2>1
  <2>3. Len((A \o B) \o C) = Len(A \o B) + Len(C)
    BY <1>5, <2>1, ConcatProperties
  <2> QED
    BY <1>3, <1>4, <2>1, <2>2, <2>3
<1>8. Len(A) \in Nat /\ Len(B) \in Nat
  BY <1>5, LenProperties
<1> QED
  BY <1>7, <1>8, LenProperties DEF last

-----------------------------------------------------------------------------
(* What a classification says.                                               *)
LEMMA ComparedValues ==
  ASSUME NEW category, NEW field, NEW c, NEW subject, NEW old, NEW new, old # new
  PROVE  Change(category, field, c, subject, old, new)
           \in CompareValues(category, field, c, subject, old, new)
  BY DEF CompareValues

\* The parts a change is made of are read back.
LEMMA PartsOfChange ==
  ASSUME NEW category, NEW field, NEW c, NEW subject, NEW old, NEW new
  PROVE  LET change == Change(category, field, c, subject, old, new)
         IN Category(change) = category /\ CaseOf(change) = c /\ Subject(change) = subject
  BY DEF Change, Category, CaseOf, Subject

\* The changes of two locks, kind by kind.
Between(L, R) == Replaced(DOMAIN L \ DOMAIN R, DOMAIN R \ DOMAIN L)
KeptChanges(c, L, R) ==
  UNION {
    CompareValues("package-checksum-changed", "checksum", c, id, L[id].checksum, R[id].checksum)
    \cup CompareValues("package-lock-dependencies-changed", "dependencies", c, id,
           L[id].dependencies, R[id].dependencies) : id \in DOMAIN L \cap DOMAIN R}
ReplacedChanges(c, L, R) ==
  UNION {
    {Change("package-version-changed", "version", c, Line(pair[1]), pair[1].version, pair[2].version)}
    \cup CompareValues("package-version-checksum-changed", "checksum", c, Line(pair[1]),
           L[pair[1]].checksum, R[pair[2]].checksum) : pair \in Between(L, R)}
RemovedChanges(c, L, R) ==
  {Change("package-removed", "identity", c, id, id, Null) :
     id \in (DOMAIN L \ DOMAIN R) \ {pair[1] : pair \in Between(L, R)}}
AddedChanges(c, L, R) ==
  {Change("package-added", "identity", c, id, Null, id) :
     id \in (DOMAIN R \ DOMAIN L) \ {pair[2] : pair \in Between(L, R)}}
\* What compareLocks reports holds every kind of change of a case's packages.
LEMMA LockChangesHold ==
  ASSUME NEW c, NEW before, NEW after
  PROVE  LET L == ParseLock(before)  R == ParseLock(after)
             changes == LockChanges(c, before, after)
             replaced == Between(L, R)
         IN /\ \A id \in DOMAIN L \cap DOMAIN R :
                 /\ CompareValues("package-checksum-changed", "checksum", c, id,
                      L[id].checksum, R[id].checksum) \subseteq changes
                 /\ CompareValues("package-lock-dependencies-changed", "dependencies", c, id,
                      L[id].dependencies, R[id].dependencies) \subseteq changes
            /\ \A pair \in replaced :
                 Change("package-version-changed", "version", c, Line(pair[1]),
                        pair[1].version, pair[2].version) \in changes
            /\ \A id \in (DOMAIN L \ DOMAIN R) \ {pair[1] : pair \in replaced} :
                 Change("package-removed", "identity", c, id, id, Null) \in changes
            /\ \A id \in (DOMAIN R \ DOMAIN L) \ {pair[2] : pair \in replaced} :
                 Change("package-added", "identity", c, id, Null, id) \in changes
<1> DEFINE L == ParseLock(before)  R == ParseLock(after)
           changes == LockChanges(c, before, after)
<1>1. changes =
        CompareValues("lock-format", "format", c, c, before.format, after.format)
          \cup KeptChanges(c, L, R) \cup ReplacedChanges(c, L, R)
          \cup RemovedChanges(c, L, R) \cup AddedChanges(c, L, R)
  BY DEF LockChanges, KeptChanges, ReplacedChanges, RemovedChanges, AddedChanges, Between
<1> HIDE DEF L, R, changes
<1>2. ASSUME NEW id \in DOMAIN L \cap DOMAIN R
      PROVE  /\ CompareValues("package-checksum-changed", "checksum", c, id,
                  L[id].checksum, R[id].checksum) \subseteq KeptChanges(c, L, R)
             /\ CompareValues("package-lock-dependencies-changed", "dependencies", c, id,
                  L[id].dependencies, R[id].dependencies) \subseteq KeptChanges(c, L, R)
  BY DEF KeptChanges
<1>3. ASSUME NEW pair \in Between(L, R)
      PROVE  Change("package-version-changed", "version", c, Line(pair[1]),
                    pair[1].version, pair[2].version) \in ReplacedChanges(c, L, R)
  BY DEF ReplacedChanges
<1>4. ASSUME NEW id \in (DOMAIN L \ DOMAIN R) \ {pair[1] : pair \in Between(L, R)}
      PROVE  Change("package-removed", "identity", c, id, id, Null) \in RemovedChanges(c, L, R)
  BY Zenon DEF RemovedChanges
<1>5. ASSUME NEW id \in (DOMAIN R \ DOMAIN L) \ {pair[2] : pair \in Between(L, R)}
      PROVE  Change("package-added", "identity", c, id, Null, id) \in AddedChanges(c, L, R)
  BY Zenon DEF AddedChanges
<1> QED
  BY <1>1, <1>2, <1>3, <1>4, <1>5 DEF L, R, changes

\* A package of a lock is the block that has its identity.
LEMMA ParsedBlock ==
  ASSUME NEW lock, NEW i \in DOMAIN ParseLock(lock)
  PROVE  \E k \in DOMAIN lock.blocks :
           ParseLock(lock)[i] = lock.blocks[k] /\ Identity(lock.blocks[k]) = i
<1>1. \E k \in DOMAIN lock.blocks : Identity(lock.blocks[k]) = i
  BY DEF ParseLock
<1> DEFINE k == CHOOSE k \in DOMAIN lock.blocks : Identity(lock.blocks[k]) = i
<1>2. k \in DOMAIN lock.blocks /\ Identity(lock.blocks[k]) = i
  BY <1>1
<1>3. ParseLock(lock)[i] = lock.blocks[k]
  BY DEF ParseLock
<1> HIDE DEF k
<1> QED
  BY <1>2, <1>3

\* A package both locks have, whose blocks differ, differs in one of two fields.
LEMMA DifferentBlocks ==
  ASSUME NEW before, NEW after, LockReadable(before), LockReadable(after),
         LockFields(before), LockFields(after),
         NEW i \in DOMAIN ParseLock(before) \cap DOMAIN ParseLock(after),
         ParseLock(before)[i] # ParseLock(after)[i]
  PROVE  \/ ParseLock(before)[i].checksum # ParseLock(after)[i].checksum
         \/ ParseLock(before)[i].dependencies # ParseLock(after)[i].dependencies
<1>1. PICK b : b = ParseLock(before)[i] /\ Identity(b) = i /\ BlockFields(b) /\ b.unknown = {}
  BY ParsedBlock DEF LockReadable, LockFields
<1>2. PICK a : a = ParseLock(after)[i] /\ Identity(a) = i /\ BlockFields(a) /\ a.unknown = {}
  BY ParsedBlock DEF LockReadable, LockFields
<1>3. a.name = b.name /\ a.version = b.version /\ a.source = b.source
  BY <1>1, <1>2 DEF Identity
<1>4. a # b
  BY <1>1, <1>2
<1> QED
  BY <1>1, <1>2, <1>3, <1>4 DEF BlockFields

\* Every package two locks hold differently is the subject of a change.
Names(changes, c, i) ==
  \E change \in changes :
    /\ Category(change) \in OfPackages
    /\ CaseOf(change) = c /\ Subject(change) \in {i, Line(i)}
\* Every package that is locked differently is named by a change (compareLocks).
LEMMA LockDriftIsNamed ==
  ASSUME NEW c, NEW before, NEW after, LockReadable(before), LockReadable(after),
         LockFields(before), LockFields(after),
         NEW i \in Differing(ParseLock(before), ParseLock(after))
  PROVE  Names(LockChanges(c, before, after), c, i)
<1> DEFINE L == ParseLock(before)  R == ParseLock(after)
           removed == DOMAIN L \ DOMAIN R
           added == DOMAIN R \ DOMAIN L
           replaced == Between(L, R)
           version(pair) == Change("package-version-changed", "version", c, Line(pair[1]),
                                   pair[1].version, pair[2].version)
           Goal == Names(LockChanges(c, before, after), c, i)
<1>1. ASSUME NEW change \in LockChanges(c, before, after), NEW category \in OfPackages,
             NEW field, NEW subject \in {i, Line(i)}, NEW old, NEW new,
             change = Change(category, field, c, subject, old, new)
      PROVE  Goal
  BY <1>1, PartsOfChange DEF Names
<1>2. \A pair \in replaced : version(pair) \in LockChanges(c, before, after)
  BY LockChangesHold
<1>3. \A pair \in replaced : pair \in removed \X added /\ Line(pair[1]) = Line(pair[2])
  <2> TAKE pair \in replaced
  <2> DEFINE key == [j \in removed \cup added |-> Line(j)]
  <2>1. pair \in removed \X added /\ key[pair[1]] = key[pair[2]]
    BY DEF OnePairOf, Replaced, Between
  <2>2. pair[1] \in removed /\ pair[2] \in added
    BY <2>1
  <2> HIDE DEF removed, added
  <2> QED
    BY <2>1, <2>2
<1>4. CASE i \in DOMAIN L \cap DOMAIN R
  <2>1. L[i] # R[i]
    BY <1>4 DEF Differing
  <2>2. CASE L[i].checksum # R[i].checksum
    <3> DEFINE change == Change("package-checksum-changed", "checksum", c, i,
                                L[i].checksum, R[i].checksum)
    <3>1. change \in LockChanges(c, before, after)
      BY <1>4, <2>2, ComparedValues, LockChangesHold
    <3> QED
      BY <3>1, <1>1 DEF OfPackages
  <2>3. CASE L[i].dependencies # R[i].dependencies
    <3> DEFINE change == Change("package-lock-dependencies-changed", "dependencies", c, i,
                                L[i].dependencies, R[i].dependencies)
    <3>1. change \in LockChanges(c, before, after)
      BY <1>4, <2>3, ComparedValues, LockChangesHold
    <3> QED
      BY <3>1, <1>1 DEF OfPackages
  <2> QED
    BY <2>1, <2>2, <2>3, <1>4, DifferentBlocks
<1>5. CASE i \in removed
  <2>1. CASE \E pair \in replaced : pair[1] = i
    <3>1. PICK pair \in replaced : pair[1] = i
      BY <2>1
    <3> QED
      BY <3>1, <1>1, <1>2 DEF OfPackages
  <2>2. CASE i \notin {pair[1] : pair \in replaced}
    <3> DEFINE change == Change("package-removed", "identity", c, i, i, Null)
    <3>1. change \in LockChanges(c, before, after)
      BY <1>5, <2>2, LockChangesHold
    <3> QED
      BY <3>1, <1>1 DEF OfPackages
  <2> QED
    BY <2>1, <2>2
<1>6. CASE i \in added
  <2>1. CASE \E pair \in replaced : pair[2] = i
    <3>1. PICK pair \in replaced : pair[2] = i
      BY <2>1
    <3>2. Line(pair[1]) = Line(i)
      BY <3>1, <1>3
    <3> QED
      BY <3>1, <3>2, <1>1, <1>2 DEF OfPackages
  <2>2. CASE i \notin {pair[2] : pair \in replaced}
    <3> DEFINE change == Change("package-added", "identity", c, i, Null, i)
    <3>1. change \in LockChanges(c, before, after)
      BY <1>6, <2>2, LockChangesHold
    <3> QED
      BY <3>1, <1>1 DEF OfPackages
  <2> QED
    BY <2>1, <2>2
<1> QED
  BY <1>4, <1>5, <1>6 DEF Differing

\* Without a change of that category a package keeps its checksum.
LEMMA AdmissibleKeeps ==
  ASSUME NEW c, NEW before, NEW after, Admissible(LockChanges(c, before, after)),
         NEW i \in DOMAIN ParseLock(before) \cap DOMAIN ParseLock(after)
  PROVE  ParseLock(before)[i].checksum = ParseLock(after)[i].checksum
<1> DEFINE L == ParseLock(before)  R == ParseLock(after)
           change == Change("package-checksum-changed", "checksum", c, i,
                            L[i].checksum, R[i].checksum)
<1> SUFFICES ASSUME L[i].checksum # R[i].checksum PROVE FALSE
  OBVIOUS
<1>1. change \in LockChanges(c, before, after)
  BY ComparedValues, LockChangesHold
<1>2. Category(change) = "package-checksum-changed"
  BY PartsOfChange
<1> HIDE DEF change
<1> QED
  BY <1>1, <1>2 DEF Admissible

\* A case of both graphs changes in what compareLocks says at least, and
\* in something unless it is the same (classifyCase).
LEMMA CaseIsClassified ==
  ASSUME NEW c, NEW before, NEW after
  PROVE  /\ LockChanges(c, before.lock, after.lock) \subseteq ClassifyCase(c, before, after)
         /\ ClassifyCase(c, before, after) = {} => before = after
  BY DEF ClassifyCase

\* A case that is added or removed is a change, and names each of its packages.
LEMMA WholeCaseIsNamed ==
  ASSUME NEW entry, NEW artifact, NEW added \in BOOLEAN
  PROVE  /\ ClassifyWholeCase(entry, artifact, added) # {}
         /\ \A i \in DOMAIN ParseLock(artifact.lock) :
              Names(ClassifyWholeCase(entry, artifact, added), entry.id, i)
<1> DEFINE c == entry.id
           whole(category, field, subject, value) ==
             Change(category, field, c, subject, IF added THEN Null ELSE value,
                    IF added THEN value ELSE Null)
           kind == IF added THEN "package-added" ELSE "package-removed"
           L == ParseLock(artifact.lock)
           changes == ClassifyWholeCase(entry, artifact, added)
<1>1. whole("lock-format", "format", c, artifact.lock.format) \in changes
  BY DEF ClassifyWholeCase
<1>2. \A i \in DOMAIN L : whole(kind, "package", i, L[i]) \in changes
  BY DEF ClassifyWholeCase
<1>3. \A i \in DOMAIN L :
        LET change == whole(kind, "package", i, L[i])
        IN Category(change) \in OfPackages /\ CaseOf(change) = c /\ Subject(change) = i
  BY PartsOfChange DEF OfPackages
<1> HIDE DEF whole, changes
<1> QED
  BY <1>1, <1>2, <1>3 DEF changes, Names

\* A classification is admissible as the changes it holds are.
LEMMA AdmissibleFound ==
  ASSUME NEW policy, NEW inputs, NEW b, NEW candidate,
         ClassifyArtifacts(policy, inputs, b, candidate).admissible
  PROVE  Admissible(ClassifyArtifacts(policy, inputs, b, candidate).changes)
<1> DEFINE found == ClassifyArtifacts(policy, inputs, b, candidate)
<1>1. PICK changes : found = [relation |-> IF changes = {} THEN "match" ELSE "drift",
                              admissible |-> Admissible(changes), changes |-> changes]
  BY Zenon DEF ClassifyArtifacts
<1>2. found.admissible = Admissible(changes) /\ found.changes = changes
  BY <1>1
<1> QED
  BY <1>2

Classified(policy, inputs, b, candidate, found) ==
  LET before == DOMAIN b.manifest.cases  after == CaseIds(policy)
  IN /\ found.relation = "match" => found.changes = {}
     /\ \A id \in before \cap after :
          ClassifyCase(id, b.artifacts[id], candidate[id]) \subseteq found.changes
     /\ \A id \in after \ before :
          ClassifyWholeCase(EntryNamed(policy, id), candidate[id], TRUE) \subseteq found.changes
     /\ \A id \in before \ after :
          ClassifyWholeCase(ReviewedCase(b, id), b.artifacts[id], FALSE) \subseteq found.changes
     /\ found.changes = {} =>
          /\ b.manifest.policy = policy
          /\ \A id \in after : id \in before => b.manifest.cases[id].input = inputs[id]
\* The changes of a classification hold those of the authority and of each case.
LEMMA ClassificationHolds ==
  ASSUME NEW policy, NEW inputs, NEW b, NEW candidate
  PROVE  Classified(policy, inputs, b, candidate, ClassifyArtifacts(policy, inputs, b, candidate))
<1> DEFINE before == DOMAIN b.manifest.cases
           after == CaseIds(policy)
           both == UNION {ClassifyCase(id, b.artifacts[id], candidate[id]) : id \in before \cap after}
           came == UNION {ClassifyWholeCase(EntryNamed(policy, id), candidate[id], TRUE) :
                            id \in after \ before}
           went == UNION {ClassifyWholeCase(ReviewedCase(b, id), b.artifacts[id], FALSE) :
                            id \in before \ after}
           ofPolicy == CompareValues("authority-input-changed", "policySha256", Null, Null,
                                     b.manifest.policy, policy)
           ofInput(id) ==
             CompareValues("authority-input-changed", "resolutionInputSha256", id, id,
               IF id \in before THEN b.manifest.cases[id].input ELSE Null, inputs[id])
           ofInputs == UNION {ofInput(id) : id \in after}
           changes == both \cup came \cup went \cup ofPolicy \cup ofInputs
<1>1. ClassifyArtifacts(policy, inputs, b, candidate) =
        [relation |-> IF changes = {} THEN "match" ELSE "drift",
         admissible |-> Admissible(changes), changes |-> changes]
  BY DEF ClassifyArtifacts
<1>2. \A id \in before \cap after :
        ClassifyCase(id, b.artifacts[id], candidate[id]) \subseteq both
  OBVIOUS
<1>3. \A id \in after \ before :
        ClassifyWholeCase(EntryNamed(policy, id), candidate[id], TRUE) \subseteq came
  OBVIOUS
<1>4. \A id \in before \ after :
        ClassifyWholeCase(ReviewedCase(b, id), b.artifacts[id], FALSE) \subseteq went
  OBVIOUS
<1>5. \A id \in after : ofInput(id) \subseteq ofInputs
  <2> HIDE DEF ofInput
  <2> QED
    OBVIOUS
<1>6. ofPolicy = {} => b.manifest.policy = policy
  BY ComparedValues
<1>7. \A id \in after : id \in before /\ ofInput(id) = {} => b.manifest.cases[id].input = inputs[id]
  BY ComparedValues
<1>8. /\ both \subseteq changes /\ came \subseteq changes /\ went \subseteq changes
      /\ ofPolicy \subseteq changes /\ ofInputs \subseteq changes
  <2> HIDE DEF both, came, went, ofPolicy, ofInputs
  <2> QED
    OBVIOUS
<1> HIDE DEF both, came, went, ofPolicy, ofInput, ofInputs, changes
<1>9. changes = {} => ofPolicy = {} /\ \A id \in after : ofInput(id) = {}
  BY <1>5, <1>8
<1> DEFINE found == ClassifyArtifacts(policy, inputs, b, candidate)
<1>10. found.changes = changes /\ (found.relation = "match" => found.changes = {})
  BY <1>1
<1>11. \A id \in before \cap after :
         ClassifyCase(id, b.artifacts[id], candidate[id]) \subseteq found.changes
  BY <1>2, <1>8, <1>10
<1>12. \A id \in after \ before :
         ClassifyWholeCase(EntryNamed(policy, id), candidate[id], TRUE) \subseteq found.changes
  BY <1>3, <1>8, <1>10
<1>13. \A id \in before \ after :
         ClassifyWholeCase(ReviewedCase(b, id), b.artifacts[id], FALSE) \subseteq found.changes
  BY <1>4, <1>8, <1>10
<1>14. found.changes = {} =>
         /\ b.manifest.policy = policy
         /\ \A id \in after : id \in before => b.manifest.cases[id].input = inputs[id]
  BY <1>6, <1>7, <1>9, <1>10
<1> HIDE DEF found, before, after
<1> QED
  BY <1>10, <1>11, <1>12, <1>13, <1>14, Zenon DEF found, before, after, Classified

\* What compareLocks reports of a case of both graphs is in the classification;
\* where nothing is, its artifact is the reviewed one.
LEMMA CaseFound ==
  ASSUME NEW policy, NEW inputs, NEW b, NEW candidate,
         NEW id \in DOMAIN b.manifest.cases \cap CaseIds(policy)
  PROVE  /\ LockChanges(id, b.artifacts[id].lock, candidate[id].lock)
               \subseteq ClassifyArtifacts(policy, inputs, b, candidate).changes
         /\ ClassifyArtifacts(policy, inputs, b, candidate).changes = {}
              => b.artifacts[id] = candidate[id]
<1> DEFINE changes == ClassifyArtifacts(policy, inputs, b, candidate).changes
<1>1. ClassifyCase(id, b.artifacts[id], candidate[id]) \subseteq changes
  BY ClassificationHolds DEF Classified
<1> DEFINE old == b.artifacts[id]  new == candidate[id]
<1>2. LockChanges(id, old.lock, new.lock) \subseteq ClassifyCase(id, old, new)
  BY CaseIsClassified
<1>3. ClassifyCase(id, old, new) = {} => old = new
  BY CaseIsClassified
<1>4. LockChanges(id, old.lock, new.lock) \subseteq changes
  BY <1>1, <1>2
<1>5. changes = {} => ClassifyCase(id, old, new) = {}
  <2> HIDE DEF changes
  <2> QED
    BY <1>1
<1> QED
  BY <1>3, <1>4, <1>5, Zenon

\* Where nothing changed, the policy and the inputs are the reviewed ones.
LEMMA AuthorityFound ==
  ASSUME NEW policy, NEW inputs, NEW b, NEW candidate,
         ClassifyArtifacts(policy, inputs, b, candidate).changes = {}
  PROVE  /\ b.manifest.policy = policy
         /\ \A id \in CaseIds(policy) :
              id \in DOMAIN b.manifest.cases => b.manifest.cases[id].input = inputs[id]
<1> DEFINE found == ClassifyArtifacts(policy, inputs, b, candidate)
<1>1. Classified(policy, inputs, b, candidate, found)
  BY ClassificationHolds
<1>2. found.changes = {}
  OBVIOUS
<1> HIDE DEF found
<1> QED
  BY <1>1, <1>2 DEF Classified

-----------------------------------------------------------------------------
\* The entry of a case has its name.
LEMMA NamedEntry ==
  ASSUME NEW policy, NEW id \in CaseIds(policy)
  PROVE  EntryNamed(policy, id).id = id
  BY DEF EntryNamed, CaseIds

\* A match: the artifacts, the policy and the inputs are those reviewed.
LEMMA MatchIsEqual ==
  ASSUME NEW policy, NEW inputs, NEW b, NEW candidate,
         ClassifyArtifacts(policy, inputs, b, candidate).relation = "match",
         DOMAIN b.artifacts = DOMAIN b.manifest.cases,
         ArtifactFiles(b.artifacts), ArtifactFiles(candidate),
         DOMAIN candidate = CaseIds(policy),
         inputs = [id \in CaseIds(policy) |-> inputs[id]]
  PROVE  /\ candidate = b.artifacts
         /\ Recorded(b).policy = policy /\ Recorded(b).inputs = inputs
<1> DEFINE found == ClassifyArtifacts(policy, inputs, b, candidate)
           before == DOMAIN b.manifest.cases
           after == CaseIds(policy)
<1>1. found.changes = {}
  BY ClassificationHolds DEF Classified
<1>2. \A id \in after \ before :
        ClassifyWholeCase(EntryNamed(policy, id), candidate[id], TRUE) = {}
  BY <1>1, ClassificationHolds DEF Classified
<1>3. \A id \in before \ after :
        ClassifyWholeCase(ReviewedCase(b, id), b.artifacts[id], FALSE) = {}
  BY <1>1, ClassificationHolds DEF Classified
<1>4. before = after
  BY <1>2, <1>3, WholeCaseIsNamed
<1>5. \A id \in before : b.artifacts[id] = candidate[id]
  BY <1>1, <1>4, CaseFound
<1>6. candidate = b.artifacts
  <2>1. candidate = [id \in before |-> candidate[id]]
    BY <1>4 DEF ArtifactFiles
  <2>2. b.artifacts = [id \in before |-> b.artifacts[id]]
    BY DEF ArtifactFiles
  <2> QED
    BY <2>1, <2>2, <1>5
<1>7. /\ b.manifest.policy = policy
      /\ \A id \in after : id \in before => b.manifest.cases[id].input = inputs[id]
  BY <1>1, AuthorityFound
<1> QED
  BY <1>4, <1>6, <1>7 DEF Recorded

LockIn(artifacts, id) == IF id \in DOMAIN artifacts THEN ParseLock(artifacts[id].lock) ELSE <<>>

\* Every difference of the locks is named in the changes.
LEMMA DriftNamed ==
  ASSUME NEW policy, NEW inputs, NEW b, NEW candidate,
         DOMAIN b.artifacts = DOMAIN b.manifest.cases,
         ArtifactFiles(b.artifacts), ArtifactFiles(candidate),
         \A id \in DOMAIN b.artifacts : LockReadable(b.artifacts[id].lock),
         AllReadable(candidate),
         DOMAIN candidate = CaseIds(policy),
         NEW id \in DOMAIN candidate \cup DOMAIN b.artifacts,
         NEW i \in Differing(LockIn(b.artifacts, id), LockIn(candidate, id))
  PROVE  Names(ClassifyArtifacts(policy, inputs, b, candidate).changes, id, i)
<1> DEFINE found == ClassifyArtifacts(policy, inputs, b, candidate)
           before == DOMAIN b.manifest.cases
           after == CaseIds(policy)
<1>0. DOMAIN <<>> = {}
  OBVIOUS
<1>1. CASE id \in before \cap after
  <2> DEFINE old == b.artifacts[id].lock
             new == candidate[id].lock
  <2>1. i \in Differing(ParseLock(old), ParseLock(new))
    BY <1>1 DEF LockIn
  <2>2. /\ LockReadable(old) /\ LockReadable(new) /\ LockFields(old) /\ LockFields(new)
    BY <1>1 DEF AllReadable, Readable, ArtifactFiles
  <2>3. Names(LockChanges(id, old, new), id, i)
    BY <2>1, <2>2, LockDriftIsNamed
  <2>4. LockChanges(id, old, new) \subseteq found.changes
    BY <1>1, CaseFound
  <2> QED
    BY <2>3, <2>4 DEF Names
<1>2. CASE id \in after \ before
  <2>1. i \in DOMAIN ParseLock(candidate[id].lock)
    BY <1>0, <1>2 DEF LockIn, Differing
  <2>2. Names(ClassifyWholeCase(EntryNamed(policy, id), candidate[id], TRUE), EntryNamed(policy, id).id, i)
    BY <2>1, WholeCaseIsNamed
  <2>3. EntryNamed(policy, id).id = id
    BY <1>2, NamedEntry
  <2>4. ClassifyWholeCase(EntryNamed(policy, id), candidate[id], TRUE) \subseteq found.changes
    BY <1>2, ClassificationHolds DEF Classified
  <2> QED
    BY <2>2, <2>3, <2>4 DEF Names
<1>3. CASE id \in before \ after
  <2>1. i \in DOMAIN ParseLock(b.artifacts[id].lock)
    BY <1>0, <1>3 DEF LockIn, Differing
  <2>2. Names(ClassifyWholeCase(ReviewedCase(b, id), b.artifacts[id], FALSE), ReviewedCase(b, id).id, i)
    BY <2>1, WholeCaseIsNamed
  <2>3. ReviewedCase(b, id).id = id
    BY DEF ReviewedCase
  <2>4. ClassifyWholeCase(ReviewedCase(b, id), b.artifacts[id], FALSE) \subseteq found.changes
    BY <1>3, ClassificationHolds DEF Classified
  <2> QED
    BY <2>2, <2>3, <2>4 DEF Names
<1> QED
  BY <1>1, <1>2, <1>3

IsAdmissible(policy, inputs, b, candidate) == ClassifyArtifacts(policy, inputs, b, candidate).admissible
SameChecksums(lock, lock2) ==
  \A i \in DOMAIN ParseLock(lock) \cap DOMAIN ParseLock(lock2) :
    ParseLock(lock)[i].checksum = ParseLock(lock2)[i].checksum
\* A package that both graphs lock keeps its checksum when the change is admissible.
LEMMA AdmissibleKeepsAll ==
  ASSUME NEW policy, NEW inputs, NEW b, NEW candidate,
         IsAdmissible(policy, inputs, b, candidate),
         NEW id \in DOMAIN b.manifest.cases \cap CaseIds(policy)
  PROVE  SameChecksums(b.artifacts[id].lock, candidate[id].lock)
<1> DEFINE changes == LockChanges(id, b.artifacts[id].lock, candidate[id].lock)
           found == ClassifyArtifacts(policy, inputs, b, candidate)
<1>1. changes \subseteq found.changes
  BY CaseFound
<1>2. Admissible(found.changes)
  <2>1. found.admissible
    BY DEF IsAdmissible
  <2> QED
    BY <2>1, AdmissibleFound
<1>3. Admissible(changes)
  BY <1>1, <1>2 DEF Admissible
<1> HIDE DEF changes
<1>4. ASSUME NEW i \in DOMAIN ParseLock(b.artifacts[id].lock) \cap DOMAIN ParseLock(candidate[id].lock)
      PROVE  ParseLock(b.artifacts[id].lock)[i].checksum = ParseLock(candidate[id].lock)[i].checksum
  BY <1>3, AdmissibleKeeps DEF changes
<1> QED
  BY <1>4 DEF SameChecksums

-----------------------------------------------------------------------------
(* The invariant: what a command holds at each of its steps.                 *)
Begun == {"at", "policy", "toolchain", "base"}
Observer == Begun \cup {"then", "upper", "fallback", "edge"}
Checker == {"at", "check", "touched"}

Building == {"haxe", "crate", "lock", "cargo", "link", "read", "metadata"}
Helping == Building \cup {"empty", "record", "binary", "inventory", "provenance", "notices",
                          "compare", "helper checked"}
Checks == Helping \cup {"consumers", "consumers checked"}
FieldsAt(at, fields) ==
  /\ "at" \in fields
  /\ "touched" \in fields => at \in Checks /\ "base" \notin fields
  /\ at = "idle" => fields = {"at"}
  /\ at \in {"resolve", "edge", "classify"} => fields = Observer \cup {"inputs"}
  /\ at = "write" => fields = Observer \cup {"inputs", "classification", "written"}
  /\ at = "locked" => fields = Begun \cup {"then", "lane", "inputs"}
  /\ at = "integrity" => fields = {"at", "policy", "candidate"}
  /\ at \in {"frozen", "publish"} => fields = Begun \cup {"candidate", "inputs"}
  /\ at = "passed" => fields = {"at", "base"}
  /\ at = "generated" => fields = {"at", "base", "id", "fixture"}
  /\ at = "sync" => fields = {"at", "policy", "next"}
  /\ at \in {"consumers", "consumers checked"} => fields = {"at", "policy", "touched"}
  /\ at \in {"empty", "haxe", "lock", "cargo", "read"} => fields = Checker
  /\ at = "crate" => fields = Checker \cup {"made"}
  /\ at = "link" => fields = Checker \cup {"linked"}
  /\ at = "metadata" => fields = Checker \cup {"built"}
  /\ at = "record" => fields = Checker \cup {"built", "inventory"}
  /\ at \in {"binary", "inventory", "provenance", "notices", "compare", "helper checked"} =>
       fields = Checker \cup {"built", "inventory", "provenance", "notices"}
Fields(c) ==
  /\ FieldsAt(c.at, DOMAIN c)
  /\ c.at = "snapshot" => \/ c.then = "resolve" /\ DOMAIN c = Observer
                          \/ c.then = "locked" /\ DOMAIN c = Begun \cup {"then", "lane"}

\* An observer: its passes agree, and what it writes is its classification.
Observing(c) ==
  /\ c.at = "snapshot" /\ c.then = "resolve" => c.fallback = <<>> /\ c.edge = <<>>
  /\ c.at \in {"snapshot", "resolve", "edge", "classify", "write"} =>
       IsToolchain(c.toolchain) /\ IsFiniteSet(CaseIds(c.policy))
  /\ c.at \in {"resolve", "edge", "classify", "write"} =>
       /\ InputsOf(c.policy, c.inputs)
       /\ Passes(c.fallback, CaseIds(c.policy)) /\ Passes(c.edge, CaseIds(c.policy))
  /\ c.at \in {"edge", "classify", "write"} => c.fallback # <<>>
  /\ c.at \in {"classify", "write"} => (c.upper => c.edge # <<>>)
  /\ c.at = "write" =>
       /\ c.classification = ClassifyArtifacts(c.policy, c.inputs, c.base, c.fallback[1])
       /\ AllReadable(c.fallback[1])
       /\ c.written \in 0 .. Len(CandidateFiles(c)) - 1

\* What one observer had in memory, and where else it is found.
Seen(policy, toolchain, inputs, artifacts) ==
  [policy |-> policy, toolchain |-> toolchain, inputs |-> inputs, artifacts |-> artifacts]
Of(observation) ==
  Seen(observation.policy, observation.toolchain, observation.inputs, observation.fallback)
Candidate(files, seen) ==
  <<"observation">> \in DOMAIN files => Of(files[<<"observation">>]) \in seen

Based(c, seen) ==
  "base" \in DOMAIN c => BaselineIntact(c.base) /\ Recorded(c.base) \in seen
Writing(c, seen) ==
  c.at = "write" => Seen(c.policy, c.toolchain, c.inputs, c.fallback[1]) \in seen
Admitting(c, seen) ==
  /\ c.at = "integrity" => Candidate(c.candidate, seen)
  /\ c.at \in {"frozen", "publish"} =>
       LET tree == Tree(c.candidate, "fallback", CaseIds(c.policy))
       IN /\ IsToolchain(c.toolchain)
          /\ c.inputs = [id \in CaseIds(c.policy) |-> c.inputs[id]]
          /\ Seen(c.policy, c.toolchain, c.inputs, tree) \in seen
          /\ ClassifyArtifacts(c.policy, c.inputs, c.base, tree).admissible

Sound(c, seen) ==
  Fields(c) /\ Observing(c) /\ Based(c, seen) /\ Writing(c, seen) /\ Admitting(c, seen)

\* The graph as its manifest has it, whatever people did to the files.
TwoFiles(artifacts) ==
  artifacts = [id \in DOMAIN artifacts |->
                [lock |-> artifacts[id].lock, metadata |-> artifacts[id].metadata]]
Reviewed(manifest) ==
  [manifest |-> manifest,
   artifacts |-> [id \in DOMAIN manifest.cases |->
                   [lock |-> manifest.cases[id].lock, metadata |-> manifest.cases[id].metadata]]]
BaselineInv ==
  /\ DOMAIN baseline = {"manifest", "artifacts"}
  /\ TwoFiles(baseline.artifacts)
  /\ Recorded(Reviewed(baseline.manifest)) \in observed
ObservedInv ==
  \A o \in observed :
    ArtifactFiles(o.artifacts) /\ \A id \in DOMAIN o.artifacts : LockReadable(o.artifacts[id].lock)
FilesInv ==
  /\ "fixtures" \in DOMAIN repo /\ FiniteManifests(repo.fixtures)
  /\ DOMAIN used = {"mix", "starts", "edits", "deaths"} /\ used.mix \in Mixes
CmdInv == DOMAIN cmd = Procs /\ \A p \in Procs : Sound(cmd[p], observed)
CandidatesInv == Candidate(directory, observed)
GraphInv == BaselineInv /\ ObservedInv /\ FilesInv /\ CmdInv /\ CandidatesInv

-----------------------------------------------------------------------------
\* With keeps the fields there are and adds the others.
LEMMA WithFields ==
  ASSUME NEW c, NEW more
  PROVE  /\ DOMAIN With(c, more) = DOMAIN c \cup DOMAIN more
         /\ \A f \in DOMAIN c : With(c, more)[f] = c[f]
         /\ \A f \in DOMAIN more \ DOMAIN c : With(c, more)[f] = more[f]
  BY DEF With

\* Who is idle holds nothing.
LEMMA IdleIsSound ==
  ASSUME NEW seen
  PROVE  Sound(Idle, seen)
  BY DEF Idle, Sound, Fields, FieldsAt, Observing, Based, Writing, Admitting

\* A command stays sound when more has been observed.
LEMMA MoreIsSeen ==
  ASSUME NEW seen, NEW more, seen \subseteq more, NEW c, Sound(c, seen)
  PROVE  Sound(c, more)
  BY DEF Sound, Based, Writing, Admitting, Candidate

\* So does a candidate.
LEMMA CandidateStays ==
  ASSUME NEW seen, NEW more, seen \subseteq more, NEW files, Candidate(files, seen)
  PROVE  Candidate(files, more)
  BY DEF Candidate

\* Only the commands that check files take notice.
LEMMA TouchedIsSound ==
  ASSUME NEW seen, NEW c, NEW what, Sound(c, seen)
  PROVE  Sound(Touched(c, what), seen)
<1>1. CASE "touched" \notin DOMAIN c
  BY <1>1 DEF Touched
<1>2. CASE "touched" \in DOMAIN c
  <2>1. c.at \in Checks /\ "base" \notin DOMAIN c
    BY <1>2 DEF Sound, Fields, FieldsAt
  <2>2. DOMAIN Touched(c, what) = DOMAIN c /\ Touched(c, what).at = c.at
    BY <1>2 DEF Touched, Sound, Fields, FieldsAt
  <2>3. Fields(Touched(c, what))
    BY <2>1, <2>2 DEF Sound, Fields, Checks, Helping, Building
  <2>4. c.at \notin {"snapshot", "resolve", "edge", "classify", "write", "integrity", "frozen",
                     "publish"}
    BY <2>1 DEF Checks, Helping, Building
  <2> DEFINE t == Touched(c, what)
  <2>5. t.at \notin {"snapshot", "resolve", "edge", "classify", "write", "integrity", "frozen",
                     "publish"}
    BY <2>2, <2>4
  <2> HIDE DEF t
  <2>6. Observing(t) /\ Writing(t, seen) /\ Admitting(t, seen)
    BY <2>5 DEF Observing, Writing, Admitting
  <2>7. Based(t, seen)
    BY <2>1, <2>2 DEF Based, t
  <2> QED
    BY <2>3, <2>6, <2>7 DEF Sound, t
<1> QED
  BY <1>1, <1>2

-----------------------------------------------------------------------------
(* How the commands move.                                                    *)
LEMMA OneMoves ==
  ASSUME CmdInv, NEW p \in Procs, NEW c, cmd' = [cmd EXCEPT ![p] = c],
         observed \subseteq observed', Sound(c, observed')
  PROVE  CmdInv'
<1>1. DOMAIN cmd' = Procs
  BY DEF CmdInv
<1>2. ASSUME NEW q \in Procs
      PROVE  Sound(cmd'[q], observed')
  <2>1. CASE q = p
    BY <2>1 DEF CmdInv
  <2>2. CASE q # p
    <3>1. cmd'[q] = cmd[q] /\ Sound(cmd[q], observed)
      BY <2>2 DEF CmdInv
    <3> QED
      BY <3>1, MoreIsSeen
  <2> QED
    BY <2>1, <2>2
<1> QED
  BY <1>1, <1>2 DEF CmdInv

\* A step of one command, which may observe something.
LEMMA Goes ==
  ASSUME CmdInv, NEW p \in Procs, NEW c, Go(p, c),
         observed \subseteq observed', Sound(c, observed')
  PROVE  CmdInv'
  BY OneMoves DEF Go

\* A step that fails when its check does.
LEMMA GoesIf ==
  ASSUME CmdInv, NEW p \in Procs, NEW ok, NEW c, GoIf(p, ok, c), UNCHANGED observed,
         ok => Sound(c, observed)
  PROVE  CmdInv'
<1>1. CASE ok
  <2>1. Go(p, c)
    BY <1>1 DEF GoIf
  <2> QED
    BY <2>1, <1>1, Goes
<1>2. CASE ~ok
  <2>1. Go(p, Idle)
    BY <1>2 DEF GoIf
  <2> QED
    BY <2>1, IdleIsSound, Goes
<1> QED
  BY <1>1, <1>2

\* A step that touches the other commands.
LEMMA OthersTouched ==
  ASSUME CmdInv, NEW p \in Procs, NEW c, GoTouching(p, c), UNCHANGED observed,
         Sound(c, observed)
  PROVE  CmdInv'
<1>1. cmd' = [q \in Procs |-> IF q = p THEN c ELSE Touched(cmd[q], "files")]
  BY DEF GoTouching
<1>2. \A q \in Procs : Sound(cmd'[q], observed)
  BY <1>1, TouchedIsSound DEF CmdInv
<1> QED
  BY <1>1, <1>2 DEF CmdInv

\* A step that may touch those that build in the same directory.
LEMMA OthersStained ==
  ASSUME CmdInv, NEW p \in Procs, NEW c, GoBuilding(p, c), UNCHANGED observed,
         Sound(c, observed)
  PROVE  CmdInv'
<1>1. cmd' = [q \in Procs |->
               IF q = p THEN c
               ELSE IF Stains(p, q) THEN Touched(cmd[q], "directory") ELSE cmd[q]]
  BY DEF GoBuilding
<1>2. \A q \in Procs : Sound(cmd'[q], observed)
  BY <1>1, TouchedIsSound DEF CmdInv
<1> QED
  BY <1>1, <1>2 DEF CmdInv

\* An edit, which touches every command.
LEMMA AllTouched ==
  ASSUME CmdInv, cmd' = Disturbed, UNCHANGED observed
  PROVE  CmdInv'
<1>1. \A q \in Procs : Sound(cmd'[q], observed)
  BY TouchedIsSound DEF CmdInv, Disturbed
<1> QED
  BY <1>1 DEF CmdInv, Disturbed

\* The rest of the invariant only depends on the files.
LEMMA OnlyCommands ==
  ASSUME GraphInv, UNCHANGED <<repo, graphVars>>, CmdInv',
         UNCHANGED used \/ used' = [used EXCEPT !.starts = @ + 1]
  PROVE  GraphInv'
<1>1. UNCHANGED <<repo, registry, baseline, directory, observed>>
  BY DEF graphVars
<1>2. BaselineInv' /\ ObservedInv' /\ CandidatesInv'
  BY <1>1 DEF GraphInv, BaselineInv, ObservedInv, CandidatesInv
<1>3. FilesInv'
  BY <1>1 DEF GraphInv, FilesInv
<1> QED
  BY <1>2, <1>3 DEF GraphInv

\* Artifacts that are what the manifest says are those of the observation.
LEMMA IntactIsReviewed ==
  ASSUME BaselineInv, BaselineIntact(baseline)
  PROVE  Recorded(baseline) \in observed
<1> DEFINE manifest == baseline.manifest
           reviewed == [id \in DOMAIN manifest.cases |->
                         [lock |-> manifest.cases[id].lock, metadata |-> manifest.cases[id].metadata]]
<1>1. baseline.artifacts = reviewed
  BY DEF BaselineInv, BaselineIntact, TwoFiles
<1>2. Recorded(Reviewed(manifest)) = Recorded(baseline)
  BY <1>1 DEF Recorded, Reviewed
<1> QED
  BY <1>2 DEF BaselineInv

\* What a command of the evidence begins with.
LEMMA PreparedIsBased ==
  ASSUME GraphInv, NEW lane, NEW allowChange, NEW c \in Prepared(lane, allowChange)
  PROVE  /\ DOMAIN c = {"policy", "toolchain", "base"}
         /\ IsToolchain(c.toolchain) /\ IsFiniteSet(CaseIds(c.policy))
         /\ BaselineIntact(c.base) /\ Recorded(c.base) \in observed
<1>1. /\ c \in [policy : LoadPolicy, toolchain : SelectedToolchains, base : {baseline}]
      /\ c.base \in CheckBaseline(c.policy, allowChange)
  BY DEF Prepared
<1>2. DOMAIN c = {"policy", "toolchain", "base"} /\ c.base = baseline
  BY <1>1
<1>3. IsToolchain(c.toolchain) /\ IsFiniteSet(CaseIds(c.policy))
  BY <1>1, ToolchainHasBoth, LoadedPolicy
<1>4. BaselineIntact(baseline)
  BY <1>1, <1>2 DEF CheckBaseline
<1> QED
  BY <1>2, <1>3, <1>4, IntactIsReviewed DEF GraphInv

\* A command starts.
LEMMA Starting ==
  ASSUME GraphInv, NEW p \in Procs, NEW c, Starts(p, c), Sound(c, observed),
         UNCHANGED <<repo, graphVars, helperVars>>
  PROVE  GraphInv'
<1>1. CmdInv'
  BY OneMoves DEF Starts, graphVars, GraphInv
<1> QED
  BY <1>1, OnlyCommands DEF Starts

\* observe-live starts with a reviewed graph that came from an observation.
LEMMA StartObserveKeeps ==
  ASSUME GraphInv, NEW p \in Procs, StartObserve(p)
  PROVE  GraphInv'
<1>1. PICK upper \in BOOLEAN, b \in Prepared("minimum", TRUE) :
        Starts(p, With(b, [at |-> "snapshot", then |-> "resolve", upper |-> upper,
                           fallback |-> <<>>, edge |-> <<>>]))
  BY DEF StartObserve
<1> DEFINE more == [at |-> "snapshot", then |-> "resolve", upper |-> upper,
                    fallback |-> <<>>, edge |-> <<>>]
           c == With(b, more)
<1>2. /\ DOMAIN b = {"policy", "toolchain", "base"}
      /\ IsToolchain(b.toolchain) /\ IsFiniteSet(CaseIds(b.policy))
      /\ BaselineIntact(b.base) /\ Recorded(b.base) \in observed
  BY PreparedIsBased
<1>3. /\ DOMAIN c = Observer
      /\ c.policy = b.policy /\ c.toolchain = b.toolchain /\ c.base = b.base
      /\ c.at = "snapshot" /\ c.then = "resolve" /\ c.fallback = <<>> /\ c.edge = <<>>
  BY <1>2 DEF With, Observer, Begun
<1> HIDE DEF c
<1>4. Sound(c, observed)
  BY <1>2, <1>3 DEF Sound, Fields, FieldsAt, Observer, Begun, Observing, Based, Writing, Admitting
<1> QED
  BY <1>1, <1>4, Starting DEF c, StartObserve

\* So does verify-reviewed.
LEMMA StartVerifyKeeps ==
  ASSUME GraphInv, NEW p \in Procs, StartVerify(p)
  PROVE  GraphInv'
<1>0. PICK lane \in {"minimum", "current"} : \E b \in Prepared(lane, FALSE) :
        Starts(p, With(b, [at |-> "snapshot", then |-> "locked", lane |-> lane]))
  BY DEF StartVerify
<1>1. PICK b \in Prepared(lane, FALSE) :
        Starts(p, With(b, [at |-> "snapshot", then |-> "locked", lane |-> lane]))
  BY <1>0
<1> DEFINE more == [at |-> "snapshot", then |-> "locked", lane |-> lane]
           c == With(b, more)
<1>2. /\ DOMAIN b = {"policy", "toolchain", "base"}
      /\ IsToolchain(b.toolchain) /\ IsFiniteSet(CaseIds(b.policy))
      /\ BaselineIntact(b.base) /\ Recorded(b.base) \in observed
  BY PreparedIsBased
<1>3. /\ DOMAIN c = Begun \cup {"then", "lane"}
      /\ c.policy = b.policy /\ c.toolchain = b.toolchain /\ c.base = b.base
      /\ c.at = "snapshot" /\ c.then = "locked"
  BY <1>2 DEF With, Begun
<1> HIDE DEF c
<1>4. Sound(c, observed)
  BY <1>2, <1>3 DEF Sound, Fields, FieldsAt, Begun, Observing, Based, Writing, Admitting
<1> QED
  BY <1>1, <1>4, Starting DEF c, StartVerify

\* The inputs that were read are those of fixtures, and so are finite.
LEMMA InputsAreFinite ==
  ASSUME FilesInv, NEW policy, FixturesAgree(policy, repo.fixtures)
  PROVE  InputsOf(policy, ResolutionInputs(policy))
<1> DEFINE inputs == ResolutionInputs(policy)
<1>1. inputs = [id \in CaseIds(policy) |-> inputs[id]]
  BY DEF ResolutionInputs
<1>2. ASSUME NEW id \in CaseIds(policy)
      PROVE  IsFiniteSet(inputs[id].requires)
  <2>1. PICK k \in DOMAIN policy.cases : EntryNamed(policy, id) = policy.cases[k]
    <3>1. \E k \in DOMAIN policy.cases : policy.cases[k].id = id
      BY DEF CaseIds
    <3> QED
      BY <3>1 DEF EntryNamed
  <2>2. policy.cases[k].fixture \in DOMAIN repo.fixtures
    BY DEF FixturesAgree
  <2>3. inputs[id] = repo.fixtures[policy.cases[k].fixture]
    BY <2>1 DEF ResolutionInputs
  <2> QED
    BY <2>2, <2>3 DEF FilesInv, FiniteManifests
<1> QED
  BY <1>1, <1>2 DEF InputsOf

\* The captured inputs are those of the policy the command has read.
LEMMA CaptureKeeps ==
  ASSUME GraphInv, NEW p \in Procs, Capture(p)
  PROVE  GraphInv'
<1> DEFINE c == cmd[p]
           inputs == ResolutionInputs(c.policy)
           d == With([c EXCEPT !.at = c.then], [inputs |-> inputs])
           ok == repo.policy = c.policy /\ FixturesAgree(c.policy, repo.fixtures)
<1>1. GoIf(p, ok, d) /\ c.at = "snapshot" /\ UNCHANGED <<repo, graphVars, helperVars>>
  BY DEF Capture, At
<1>2. Sound(c, observed)
  BY DEF GraphInv, CmdInv
<1> HIDE DEF c
<1>3. ASSUME ok
      PROVE  Sound(d, observed)
  <2>1. InputsOf(c.policy, inputs)
    BY <1>3, InputsAreFinite DEF GraphInv
  <2>2. CASE c.then = "resolve" /\ DOMAIN c = Observer
    <3>1. /\ DOMAIN d = Observer \cup {"inputs"} /\ d.at = "resolve" /\ d.inputs = inputs
          /\ d.policy = c.policy /\ d.toolchain = c.toolchain /\ d.base = c.base
          /\ d.fallback = c.fallback /\ d.edge = c.edge
      BY <2>2 DEF With, Observer, Begun
    <3> HIDE DEF d, inputs
    <3>2. Fields(d)
      BY <3>1 DEF Fields, FieldsAt, Observer, Begun
    <3>3. Observing(d)
      BY <1>1, <1>2, <2>1, <2>2, <3>1 DEF Sound, Observing, Passes
    <3>4. Based(d, observed) /\ Writing(d, observed) /\ Admitting(d, observed)
      BY <1>2, <2>2, <3>1 DEF Sound, Based, Writing, Admitting, Observer, Begun
    <3> QED
      BY <3>2, <3>3, <3>4 DEF Sound
  <2>3. CASE c.then = "locked" /\ DOMAIN c = Begun \cup {"then", "lane"}
    <3>1. /\ DOMAIN d = Begun \cup {"then", "lane", "inputs"} /\ d.at = "locked"
          /\ d.base = c.base
      BY <2>3 DEF With, Begun
    <3> HIDE DEF d
    <3>2. Fields(d)
      BY <3>1 DEF Fields, FieldsAt, Begun
    <3>3. Observing(d) /\ Writing(d, observed) /\ Admitting(d, observed)
      BY <3>1 DEF Observing, Writing, Admitting
    <3>4. Based(d, observed)
      BY <1>2, <2>3, <3>1 DEF Sound, Based, Begun
    <3> QED
      BY <3>2, <3>3, <3>4 DEF Sound
  <2> QED
    BY <1>1, <1>2, <2>2, <2>3 DEF Sound, Fields
<1>4. CmdInv'
  BY <1>1, <1>3, GoesIf DEF GraphInv, graphVars
<1> QED
  BY <1>1, <1>4, OnlyCommands DEF GoIf, Go

\* What the invariant says of one command.
LEMMA SoundCommand ==
  ASSUME GraphInv, NEW p \in Procs
  PROVE  Sound(cmd[p], observed) /\ Fields(cmd[p]) /\ Observing(cmd[p])
  BY DEF GraphInv, CmdInv, Sound

\* A step of one command that writes no file of the graph.
LEMMA Moving ==
  ASSUME GraphInv, NEW p \in Procs, NEW c, Go(p, c), Sound(c, observed),
         UNCHANGED <<repo, graphVars, helperVars>>
  PROVE  GraphInv'
<1>1. CmdInv'
  BY Goes DEF GraphInv, graphVars
<1> QED
  BY <1>1, OnlyCommands DEF Go

\* The same, when the step may fail.
LEMMA MovingIf ==
  ASSUME GraphInv, NEW p \in Procs, NEW ok, NEW c, GoIf(p, ok, c), ok => Sound(c, observed),
         UNCHANGED <<repo, graphVars, helperVars>>
  PROVE  GraphInv'
<1>1. CmdInv'
  BY GoesIf DEF GraphInv, graphVars
<1> QED
  BY <1>1, OnlyCommands DEF Go, GoIf

\* The fallback passes agree.
LEMMA ResolvePassKeeps ==
  ASSUME GraphInv, NEW p \in Procs, ResolvePass(p)
  PROVE  GraphInv'
<1> DEFINE c == cmd[p]
<1>1. c.at = "resolve" /\ UNCHANGED <<repo, graphVars, helperVars>>
  BY DEF ResolvePass, At
<1>2. Sound(c, observed) /\ Fields(c) /\ Observing(c)
  BY SoundCommand
<1>3. CASE Go(p, Idle)
  BY <1>1, <1>3, IdleIsSound, Moving
<1>4. ASSUME NEW passes \in Extended(c.fallback, FreshPass(c, FALSE)),
             NEW at \in {"resolve", "edge", "classify"}, at = "classify" => ~c.upper,
             Go(p, [c EXCEPT !.fallback = passes, !.at = at])
      PROVE  GraphInv'
  <2> DEFINE d == [c EXCEPT !.fallback = passes, !.at = at]
  <2>1. passes # <<>> /\ Passes(passes, CaseIds(c.policy))
    BY <1>1, <1>2, ExtendedPasses DEF Observing
  <2> HIDE DEF c
  <2>2. DOMAIN c = Observer \cup {"inputs"}
    BY <1>1, <1>2 DEF Fields, FieldsAt
  <2>3. /\ DOMAIN d = Observer \cup {"inputs"} /\ d.at = at /\ d.fallback = passes
        /\ d.policy = c.policy /\ d.toolchain = c.toolchain /\ d.base = c.base
        /\ d.inputs = c.inputs /\ d.edge = c.edge /\ d.upper = c.upper
    BY <2>2 DEF Observer, Begun
  <2> HIDE DEF d
  <2>4. Fields(d)
    BY <2>3 DEF Fields, FieldsAt, Observer, Begun
  <2>5. Observing(d)
    BY <1>1, <1>2, <1>4, <2>1, <2>3 DEF Observing
  <2>6. Based(d, observed) /\ Writing(d, observed) /\ Admitting(d, observed)
    BY <1>2, <2>2, <2>3 DEF Sound, Based, Writing, Admitting, Observer, Begun
  <2> QED
    BY <1>1, <1>4, <2>4, <2>5, <2>6, Moving DEF Sound, d
<1>5. \/ Go(p, Idle)
      \/ \E passes \in Extended(c.fallback, FreshPass(c, FALSE)) :
           \E at \in {"resolve", "edge", "classify"} :
             (at = "classify" => ~c.upper) /\ Go(p, [c EXCEPT !.fallback = passes, !.at = at])
  <2> HIDE DEF Go
  <2> QED
    BY DEF ResolvePass
<1> QED
  BY <1>3, <1>4, <1>5

\* So do the passes at the upper edge.
LEMMA UpperEdgePassKeeps ==
  ASSUME GraphInv, NEW p \in Procs, UpperEdgePass(p)
  PROVE  GraphInv'
<1> DEFINE c == cmd[p]
<1>1. c.at = "edge" /\ UNCHANGED <<repo, graphVars, helperVars>>
  BY DEF UpperEdgePass, At
<1>2. Sound(c, observed) /\ Fields(c) /\ Observing(c)
  BY SoundCommand
<1>3. CASE Go(p, Idle)
  BY <1>1, <1>3, IdleIsSound, Moving
<1>4. ASSUME NEW passes \in Extended(c.edge, FreshPass(c, TRUE)), NEW at \in {"edge", "classify"},
             Go(p, [c EXCEPT !.edge = passes, !.at = at])
      PROVE  GraphInv'
  <2> DEFINE d == [c EXCEPT !.edge = passes, !.at = at]
  <2>1. passes # <<>> /\ Passes(passes, CaseIds(c.policy))
    BY <1>1, <1>2, ExtendedPasses DEF Observing
  <2> HIDE DEF c
  <2>2. DOMAIN c = Observer \cup {"inputs"}
    BY <1>1, <1>2 DEF Fields, FieldsAt
  <2>3. /\ DOMAIN d = Observer \cup {"inputs"} /\ d.at = at /\ d.edge = passes
        /\ d.policy = c.policy /\ d.toolchain = c.toolchain /\ d.base = c.base
        /\ d.inputs = c.inputs /\ d.fallback = c.fallback /\ d.upper = c.upper
    BY <2>2 DEF Observer, Begun
  <2> HIDE DEF d
  <2>4. Fields(d)
    BY <2>3 DEF Fields, FieldsAt, Observer, Begun
  <2>5. Observing(d)
    BY <1>1, <1>2, <2>1, <2>3 DEF Observing
  <2>6. Based(d, observed) /\ Writing(d, observed) /\ Admitting(d, observed)
    BY <1>2, <2>2, <2>3 DEF Sound, Based, Writing, Admitting, Observer, Begun
  <2> QED
    BY <1>1, <1>4, <2>4, <2>5, <2>6, Moving DEF Sound, d
<1>5. \/ Go(p, Idle)
      \/ \E passes \in Extended(c.edge, FreshPass(c, TRUE)) : \E at \in {"edge", "classify"} :
           Go(p, [c EXCEPT !.edge = passes, !.at = at])
  BY DEF UpperEdgePass
<1> QED
  BY <1>3, <1>4, <1>5

\* What is classified joins what has been observed.
LEMMA ClassifyKeeps ==
  ASSUME GraphInv, NEW p \in Procs, Classify(p)
  PROVE  GraphInv'
<1> DEFINE c == cmd[p]
           found == c.fallback[1]
           classification == ClassifyArtifacts(c.policy, c.inputs, c.base, found)
           d == With([c EXCEPT !.at = "write"],
                     [classification |-> classification, written |-> 0])
           seen == Seen(c.policy, c.toolchain, c.inputs, found)
<1>1. c.at = "classify" /\ UNCHANGED <<repo, registry, baseline, used>>
  BY DEF Classify, At, Go
<1>2. Sound(c, observed) /\ Fields(c) /\ Observing(c)
  BY SoundCommand
<1>3. CASE Go(p, Idle) /\ UNCHANGED <<observed, directory>>
  BY <1>1, <1>3, IdleIsSound, Goes, OnlyCommands DEF GraphInv, graphVars
<1>4. CASE /\ AllReadable(found) /\ Go(p, d)
           /\ observed' = observed \cup {seen} /\ directory' = <<>>
  <2>1. /\ InputsOf(c.policy, c.inputs) /\ IsToolchain(c.toolchain) /\ IsFiniteSet(CaseIds(c.policy))
        /\ Passes(c.fallback, CaseIds(c.policy)) /\ c.fallback # <<>>
        /\ Passes(c.edge, CaseIds(c.policy)) /\ (c.upper => c.edge # <<>>)
    BY <1>1, <1>2 DEF Observing
  <2>2. DOMAIN found = CaseIds(c.policy) /\ ArtifactFiles(found)
    BY <2>1 DEF Passes
  <2>3. \A id \in DOMAIN found : LockReadable(found[id].lock)
    BY <1>4 DEF AllReadable, Readable
  <2>4. DOMAIN c = Observer \cup {"inputs"}
    BY <1>1, <1>2 DEF Fields, FieldsAt
  <2> HIDE DEF c
  <2>5. /\ DOMAIN d = Observer \cup {"inputs", "classification", "written"} /\ d.at = "write"
        /\ d.policy = c.policy /\ d.toolchain = c.toolchain /\ d.base = c.base
        /\ d.inputs = c.inputs /\ d.fallback = c.fallback /\ d.edge = c.edge /\ d.upper = c.upper
        /\ d.classification = classification /\ d.written = 0
    <3> HIDE DEF classification
    <3> QED
      BY <2>4 DEF With, Observer, Begun
  <2>6. seen.artifacts = found /\ seen \in observed'
    BY <1>4 DEF Seen
  <2> HIDE DEF d, classification, found, seen
  <2>7. Len(CandidateFiles(d)) \in Nat \ {0, 1}
    <3>1. IsFiniteSet(DOMAIN d.fallback[1])
      BY <2>1, <2>2, <2>5 DEF found
    <3>2. d.upper => IsFiniteSet(DOMAIN d.edge[1])
      BY <2>1, <2>5 DEF Passes
    <3> QED
      BY <3>1, <3>2, CandidateIsListed
  <2>8. Fields(d)
    BY <2>5 DEF Fields, FieldsAt, Observer, Begun
  <2>9. Observing(d)
    BY <1>4, <2>1, <2>5, <2>7 DEF Observing, classification, found
  <2>10. Writing(d, observed') /\ Admitting(d, observed')
    BY <2>5, <2>6 DEF Writing, Admitting, seen, found
  <2>11. Based(d, observed')
    BY <1>2, <1>4, <2>4, <2>5 DEF Sound, Based, Observer, Begun
  <2>12. CmdInv'
    BY <1>4, <2>8, <2>9, <2>10, <2>11, Goes DEF Sound, GraphInv
  <2>13. ObservedInv'
    BY <1>4, <2>2, <2>3, <2>6 DEF GraphInv, ObservedInv
  <2>14. BaselineInv' /\ FilesInv'
    BY <1>1, <1>4 DEF GraphInv, BaselineInv, FilesInv
  <2>15. CandidatesInv'
    <3>1. DOMAIN directory' = {}
      BY <1>4
    <3>2. Candidate(directory', observed')
      BY <3>1 DEF Candidate
    <3> QED
      BY <3>2 DEF CandidatesInv
  <2> QED
    BY <2>12, <2>13, <2>14, <2>15 DEF GraphInv
<1>5. \/ Go(p, Idle) /\ UNCHANGED <<observed, directory>>
      \/ /\ AllReadable(found) /\ Go(p, d)
         /\ observed' = observed \cup {seen} /\ directory' = <<>>
  BY DEF Classify, Seen
<1> QED
  BY <1>3, <1>4, <1>5

\* The last file a candidate gets is the observation.
LEMMA WriteObservationKeeps ==
  ASSUME GraphInv, NEW p \in Procs, WriteObservation(p)
  PROVE  GraphInv'
<1> DEFINE c == cmd[p]
           files == CandidateFiles(c)
           k == c.written + 1
           d == [c EXCEPT !.written = k]
           file == files[k]
<1>1. /\ c.at = "write" /\ UNCHANGED <<repo, registry, baseline, observed, used>>
      /\ directory' = With([name \in {file.name} |-> file.content], directory)
      /\ Go(p, IF k = Len(files) THEN Idle ELSE d)
  BY DEF WriteObservation, At, Go
<1>2. Sound(c, observed) /\ Fields(c) /\ Observing(c)
  BY SoundCommand
<1>3. DOMAIN c = Observer \cup {"inputs", "classification", "written"}
  BY <1>1, <1>2 DEF Fields, FieldsAt
<1>4. /\ IsToolchain(c.toolchain) /\ IsFiniteSet(CaseIds(c.policy))
      /\ Passes(c.fallback, CaseIds(c.policy)) /\ Passes(c.edge, CaseIds(c.policy))
      /\ c.fallback # <<>> /\ (c.upper => c.edge # <<>>)
      /\ c.written \in 0 .. Len(files) - 1
  BY <1>1, <1>2 DEF Observing
<1> HIDE DEF c
<1>5. /\ Len(files) \in Nat /\ DOMAIN files = 1 .. Len(files)
      /\ \A n \in DOMAIN files : files[n].name = <<"observation">> => files[n].content = Observation(c)
  <2>1. IsFiniteSet(DOMAIN c.fallback[1]) /\ (c.upper => IsFiniteSet(DOMAIN c.edge[1]))
    BY <1>4 DEF Passes
  <2> QED
    BY <2>1, CandidateIsListed
<1>6. k \in DOMAIN files /\ (k # Len(files) => k \in 0 .. Len(files) - 1)
  BY <1>4, <1>5
<1>7. /\ DOMAIN d = Observer \cup {"inputs", "classification", "written"} /\ d.at = c.at
      /\ d.policy = c.policy /\ d.toolchain = c.toolchain /\ d.base = c.base
      /\ d.inputs = c.inputs /\ d.fallback = c.fallback /\ d.edge = c.edge /\ d.upper = c.upper
      /\ d.classification = c.classification /\ d.written = k
  <2> HIDE DEF k
  <2> QED
    BY <1>3 DEF Observer, Begun
<1>8. CandidateFiles(d) = files
  <2> HIDE DEF d
  <2>1. Observation(d) = Observation(c)
    BY <1>7 DEF Observation
  <2> QED
    BY <1>7, <2>1 DEF CandidateFiles
<1> HIDE DEF d, files
<1>9. k # Len(files) => Sound(d, observed)
  <2> SUFFICES ASSUME k # Len(files) PROVE Sound(d, observed)
    OBVIOUS
  <2>1. Fields(d)
    BY <1>1, <1>7 DEF Fields, FieldsAt, Observer, Begun
  <2>2. Observing(d)
    BY <1>1, <1>2, <1>6, <1>7, <1>8 DEF Observing
  <2>3. Based(d, observed) /\ Writing(d, observed) /\ Admitting(d, observed)
    BY <1>1, <1>2, <1>3, <1>7 DEF Sound, Based, Writing, Admitting, Observer, Begun
  <2> QED
    BY <2>1, <2>2, <2>3 DEF Sound
<1>10. CmdInv'
  BY <1>1, <1>9, IdleIsSound, Goes DEF GraphInv
<1>11. Candidate(directory', observed)
  <2> SUFFICES ASSUME <<"observation">> \in DOMAIN directory'
               PROVE  Of(directory'[<<"observation">>]) \in observed
    BY DEF Candidate
  <2> HIDE DEF k
  <2>1. CASE file.name = <<"observation">>
    <3>1. directory'[<<"observation">>] = Observation(c)
      BY <1>1, <1>5, <1>6, <2>1 DEF With, file
    <3>2. Of(Observation(c)) = Seen(c.policy, c.toolchain, c.inputs, c.fallback[1])
      BY DEF Of, Observation, Seen
    <3> QED
      BY <1>1, <1>2, <3>1, <3>2 DEF Sound, Writing
  <2>2. CASE file.name # <<"observation">>
    <3> HIDE DEF file
    <3>1. /\ <<"observation">> \in DOMAIN directory
          /\ directory'[<<"observation">>] = directory[<<"observation">>]
      BY <1>1, <2>2 DEF With
    <3> QED
      BY <3>1 DEF GraphInv, CandidatesInv, Candidate
  <2> QED
    BY <2>1, <2>2
<1>12. CandidatesInv'
  BY <1>1, <1>11 DEF GraphInv, CandidatesInv
<1>13. BaselineInv' /\ ObservedInv' /\ FilesInv'
  BY <1>1 DEF GraphInv, BaselineInv, ObservedInv, FilesInv
<1> QED
  BY <1>10, <1>12, <1>13 DEF GraphInv

-----------------------------------------------------------------------------
\* admit takes what lies in the directory.
LEMMA StartAdmitKeeps ==
  ASSUME GraphInv, NEW p \in Procs, StartAdmit(p)
  PROVE  GraphInv'
<1>1. PICK policy : Starts(p, [at |-> "integrity", policy |-> policy, candidate |-> directory])
  BY DEF StartAdmit
<1> DEFINE c == [at |-> "integrity", policy |-> policy, candidate |-> directory]
<1>2. Sound(c, observed)
  BY DEF Sound, Fields, FieldsAt, Observing, Based, Writing, Admitting, GraphInv, CandidatesInv
<1> QED
  BY <1>1, <1>2, Starting DEF StartAdmit

\* What is admitted is one observation, made with this policy and these inputs.
LEMMA VerifyCandidateKeeps ==
  ASSUME GraphInv, NEW p \in Procs, VerifyCandidate(p)
  PROVE  GraphInv'
<1> DEFINE c == cmd[p]
           inputs == ResolutionInputs(c.policy)
           ids == CaseIds(c.policy)
           observation == c.candidate[<<"observation">>]
           classification == c.candidate[<<"classification">>]
           tree == Tree(c.candidate, "fallback", ids)
           Frozen(r) == With([c EXCEPT !.at = "frozen"], With(r, [inputs |-> inputs]))
           ready == [base : CheckBaseline(c.policy, TRUE), toolchain : SelectedToolchains]
<1>1. c.at = "integrity" /\ UNCHANGED <<repo, graphVars, helperVars>>
  BY DEF VerifyCandidate, At
<1>2. Sound(c, observed) /\ Fields(c)
  BY SoundCommand
<1>3. CASE Go(p, Idle)
  BY <1>1, <1>3, IdleIsSound, Moving
<1>4. ASSUME CandidateInventory(c.candidate, ids), NEW r \in ready,
             ObservationIntegrity(c, inputs),
             ClassifyArtifacts(c.policy, inputs, r.base, tree) = classification,
             classification.admissible, r.toolchain = observation.toolchain,
             Go(p, Frozen(r))
      PROVE  GraphInv'
  <2> DEFINE d == Frozen(r)
  <2>1. DOMAIN c = {"at", "policy", "candidate"}
    BY <1>1, <1>2 DEF Fields, FieldsAt
  <2>2. DOMAIN r = {"base", "toolchain"} /\ r.base \in CheckBaseline(c.policy, TRUE)
          /\ IsToolchain(r.toolchain)
    BY ToolchainHasBoth
  <2>3. BaselineIntact(r.base) /\ Recorded(r.base) \in observed
    <3>1. r.base = baseline /\ BaselineIntact(baseline)
      BY <2>2 DEF CheckBaseline
    <3> QED
      BY <3>1, IntactIsReviewed DEF GraphInv
  <2>4. Of(observation) \in observed
    BY <1>1, <1>2, <1>4 DEF Sound, Admitting, Candidate, CandidateInventory
  <2>5. /\ observation.policy = c.policy /\ observation.inputs = inputs
        /\ observation.fallback = tree
    <3> HIDE DEF c
    <3> QED
      BY <1>4 DEF ObservationIntegrity, TreeIntact
  <2>6. Of(observation) = Seen(c.policy, r.toolchain, inputs, tree)
    BY <1>4, <2>5 DEF Of
  <2>7. inputs = [id \in ids |-> inputs[id]]
    BY DEF ResolutionInputs
  <2> HIDE DEF c, inputs, observation
  <2>8. /\ DOMAIN d = Begun \cup {"candidate", "inputs"} /\ d.at = "frozen"
        /\ d.policy = c.policy /\ d.toolchain = r.toolchain /\ d.base = r.base
        /\ d.inputs = inputs /\ d.candidate = c.candidate
    BY <2>1, <2>2 DEF With, Begun
  <2> HIDE DEF d
  <2>9. Fields(d)
    BY <2>8 DEF Fields, FieldsAt, Begun
  <2>10. Based(d, observed) /\ Writing(d, observed) /\ Observing(d)
    BY <2>3, <2>8 DEF Based, Writing, Observing
  <2>11. Admitting(d, observed)
    BY <1>4, <2>2, <2>4, <2>6, <2>7, <2>8 DEF Admitting
  <2> QED
    BY <1>1, <1>4, <2>9, <2>10, <2>11, Moving DEF Sound, d
<1>5. \/ Go(p, Idle)
      \/ /\ CandidateInventory(c.candidate, ids)
         /\ \E r \in ready :
              /\ ObservationIntegrity(c, inputs)
              /\ ClassifyArtifacts(c.policy, inputs, r.base, tree) = classification
              /\ classification.admissible /\ r.toolchain = observation.toolchain
              /\ Go(p, Frozen(r))
  <2> HIDE DEF Go
  <2> QED
    BY DEF VerifyCandidate
<1> QED
  BY <1>3, <1>4, <1>5

\* The frozen Cargo commands change nothing of the candidate.
LEMMA AdmitFrozenKeeps ==
  ASSUME GraphInv, NEW p \in Procs, AdmitFrozen(p)
  PROVE  GraphInv'
<1> DEFINE c == cmd[p]
           d == [c EXCEPT !.at = "publish"]
<1>1. c.at = "frozen" /\ UNCHANGED <<repo, graphVars, helperVars>>
  BY DEF AdmitFrozen, At
<1>2. Sound(c, observed) /\ Fields(c)
  BY SoundCommand
<1>3. DOMAIN c = Begun \cup {"candidate", "inputs"}
  BY <1>1, <1>2 DEF Fields, FieldsAt
<1>4. Go(p, Idle) \/ Go(p, d)
  BY DEF AdmitFrozen, GoIf
<1> HIDE DEF c
<1>5. /\ DOMAIN d = Begun \cup {"candidate", "inputs"} /\ d.at = "publish"
      /\ d.policy = c.policy /\ d.toolchain = c.toolchain /\ d.base = c.base
      /\ d.inputs = c.inputs /\ d.candidate = c.candidate
  BY <1>3 DEF Begun
<1> HIDE DEF d
<1>6. Fields(d)
  BY <1>5 DEF Fields, FieldsAt, Begun
<1>7. Based(d, observed) /\ Writing(d, observed) /\ Observing(d)
  BY <1>2, <1>3, <1>5 DEF Sound, Based, Writing, Observing, Begun
<1>8. Admitting(d, observed)
  BY <1>1, <1>2, <1>5 DEF Sound, Admitting
<1>9. Sound(d, observed)
  BY <1>6, <1>7, <1>8 DEF Sound
<1> QED
  BY <1>1, <1>4, <1>9, IdleIsSound, Moving

\* The manifest that is installed is of the observation that was admitted.
LEMMA PublishKeeps ==
  ASSUME GraphInv, NEW p \in Procs, Publish(p)
  PROVE  GraphInv'
<1> DEFINE c == cmd[p]
           tree == Tree(c.candidate, "fallback", CaseIds(c.policy))
           manifest == BuildBaselineManifest(c.policy, tree, c.toolchain, c.inputs)
<1>1. /\ c.at = "publish" /\ UNCHANGED <<repo, registry, directory, observed, used>>
      /\ Go(p, Idle)
      /\ baseline' = baseline \/ baseline' = Admitted(c)
  BY DEF Publish, At, Go
<1>2. Sound(c, observed)
  BY SoundCommand
<1>3. CmdInv'
  BY <1>1, IdleIsSound, Goes DEF GraphInv
<1>4. ObservedInv' /\ FilesInv' /\ CandidatesInv'
  BY <1>1 DEF GraphInv, ObservedInv, FilesInv, CandidatesInv
<1>5. CASE baseline' = baseline
  <2>1. BaselineInv'
    BY <1>1, <1>5 DEF GraphInv, BaselineInv
  <2> QED
    BY <1>3, <1>4, <2>1 DEF GraphInv
<1>6. CASE baseline' = Admitted(c)
  <2>1. baseline' = [manifest |-> manifest, artifacts |-> tree]
    BY <1>6 DEF Admitted
  <2>2. /\ IsToolchain(c.toolchain)
        /\ c.inputs = [id \in CaseIds(c.policy) |-> c.inputs[id]]
        /\ Seen(c.policy, c.toolchain, c.inputs, tree) \in observed
    BY <1>1, <1>2 DEF Sound, Admitting
  <2>3. TwoFiles(tree)
    <3>1. Seen(c.policy, c.toolchain, c.inputs, tree).artifacts = tree
      BY DEF Seen
    <3>2. ArtifactFiles(tree)
      BY <2>2, <3>1 DEF GraphInv, ObservedInv
    <3> QED
      BY <3>2 DEF ArtifactFiles, TwoFiles
  <2>4. DOMAIN tree = CaseIds(c.policy)
    BY DEF Tree
  <2> HIDE DEF c, tree
  <2>5. /\ manifest.policy = c.policy /\ manifest.rustc = c.toolchain.rustc
        /\ manifest.cargo = c.toolchain.cargo
        /\ DOMAIN manifest.cases = CaseIds(c.policy)
        /\ \A id \in CaseIds(c.policy) :
             /\ manifest.cases[id].input = c.inputs[id]
             /\ manifest.cases[id].lock = tree[id].lock
             /\ manifest.cases[id].metadata = tree[id].metadata
    BY DEF BuildBaselineManifest
  <2> HIDE DEF manifest
  <2>6. Reviewed(manifest).artifacts = tree
    BY <2>3, <2>4, <2>5 DEF Reviewed, TwoFiles
  <2>7. Recorded(Reviewed(manifest)) = Seen(c.policy, c.toolchain, c.inputs, tree)
    <3>1. Reviewed(manifest).manifest = manifest
      BY DEF Reviewed
    <3>2. [rustc |-> manifest.rustc, cargo |-> manifest.cargo] = c.toolchain
      BY <2>2, <2>5 DEF IsToolchain
    <3>3. [id \in DOMAIN manifest.cases |-> manifest.cases[id].input] = c.inputs
      BY <2>2, <2>5
    <3> QED
      BY <2>5, <2>6, <3>1, <3>2, <3>3 DEF Recorded, Seen
  <2>8. BaselineInv'
    BY <1>1, <2>1, <2>2, <2>3, <2>7 DEF BaselineInv
  <2> QED
    BY <1>3, <1>4, <2>8 DEF GraphInv
<1> QED
  BY <1>1, <1>5, <1>6

-----------------------------------------------------------------------------
\* A gate that has used the graph holds it, and no more.
LEMMA PassedIsSound ==
  ASSUME NEW b, BaselineIntact(b), Recorded(b) \in observed
  PROVE  Sound([at |-> "passed", base |-> b], observed)
  BY DEF Sound, Fields, FieldsAt, Observing, Based, Writing, Admitting

\* The gates work with the graph they have read.
LEMMA VerifyLockedKeeps ==
  ASSUME GraphInv, NEW p \in Procs, VerifyLocked(p)
  PROVE  GraphInv'
<1> DEFINE c == cmd[p]
<1>1. c.at = "locked" /\ UNCHANGED <<repo, graphVars, helperVars>>
  BY DEF VerifyLocked, At
<1>2. PICK ok : GoIf(p, ok, [at |-> "passed", base |-> c.base])
  BY DEF VerifyLocked
<1> HIDE DEF c
<1>0. Sound(c, observed) /\ Fields(c)
  BY SoundCommand DEF c
<1>3. "base" \in DOMAIN c /\ Based(c, observed)
  <2>1. FieldsAt(c.at, DOMAIN c)
    BY <1>0 DEF Fields
  <2>2. DOMAIN c = Begun \cup {"then", "lane", "inputs"}
    BY <1>1, <2>1 DEF FieldsAt
  <2> QED
    BY <1>0, <2>2 DEF Begun, Sound
<1>4. Sound([at |-> "passed", base |-> c.base], observed)
  BY <1>3, PassedIsSound DEF Based
<1> QED
  BY <1>1, <1>2, <1>4, MovingIf

\* And so does the run of a generated crate,
LEMMA StartGeneratedKeeps ==
  ASSUME GraphInv, NEW p \in Procs, StartGenerated(p)
  PROVE  GraphInv'
<1>1. PICK b \in CheckBaseline(repo.policy, FALSE), f \in DOMAIN repo.fixtures,
           id \in CaseIds(repo.policy) :
        Starts(p, [at |-> "generated", base |-> b, id |-> id, fixture |-> f])
  BY DEF StartGenerated
<1> DEFINE c == [at |-> "generated", base |-> b, id |-> id, fixture |-> f]
<1>2. BaselineIntact(b) /\ Recorded(b) \in observed
  BY IntactIsReviewed DEF CheckBaseline, GraphInv
<1>3. Sound(c, observed)
  BY <1>2 DEF Sound, Fields, FieldsAt, Observing, Based, Writing, Admitting
<1> QED
  BY <1>1, <1>3, Starting DEF StartGenerated

\* to its end.
LEMMA RunGeneratedKeeps ==
  ASSUME GraphInv, NEW p \in Procs, RunGenerated(p)
  PROVE  GraphInv'
<1> DEFINE c == cmd[p]
<1>1. c.at = "generated" /\ UNCHANGED <<repo, graphVars, helperVars>>
  BY DEF RunGenerated, At
<1>2. Go(p, Idle) \/ Go(p, [at |-> "passed", base |-> c.base])
  BY DEF RunGenerated
<1>3. "base" \in DOMAIN c /\ Based(c, observed)
  <2>1. Fields(c) /\ Based(c, observed)
    BY SoundCommand DEF Sound
  <2>2. DOMAIN c = {"at", "base", "id", "fixture"}
    BY <1>1, <2>1 DEF Fields, FieldsAt
  <2> QED
    BY <2>1, <2>2
<1>4. Sound([at |-> "passed", base |-> c.base], observed)
  BY <1>3, PassedIsSound DEF Based
<1> QED
  BY <1>1, <1>2, <1>4, IdleIsSound, Moving

\* A gate ends.
LEMMA GateEndsKeeps ==
  ASSUME GraphInv, NEW p \in Procs, GateEnds(p)
  PROVE  GraphInv'
  BY IdleIsSound, Moving DEF GateEnds

-----------------------------------------------------------------------------
(* The commands that do not touch the graph, and what is not a command.      *)
\* A check or a writer: its fields are all there is to it.
LEMMA FieldsSuffice ==
  ASSUME NEW c, NEW seen, Fields(c), "base" \notin DOMAIN c,
         c.at \in Checks \cup {"sync"}
  PROVE  Sound(c, seen)
<1>1. c.at \notin {"snapshot", "resolve", "edge", "classify", "write", "integrity", "frozen",
                   "publish"}
  BY DEF Checks, Helping, Building
<1> QED
  BY <1>1 DEF Sound, Observing, Based, Writing, Admitting

\* A command that writes files of the checkout and touches the others.
LEMMA Touching ==
  ASSUME GraphInv, NEW p \in Procs, NEW c, GoTouching(p, c), Sound(c, observed),
         UNCHANGED graphVars, FilesInv'
  PROVE  GraphInv'
<1>1. UNCHANGED <<registry, baseline, directory, observed>>
  BY DEF graphVars
<1>2. CmdInv'
  BY <1>1, OthersTouched DEF GraphInv
<1>3. BaselineInv' /\ ObservedInv' /\ CandidatesInv'
  BY <1>1 DEF GraphInv, BaselineInv, ObservedInv, CandidatesInv
<1> QED
  BY <1>2, <1>3 DEF GraphInv

\* The generated files are no part of the graph.
LEMMA SynchronisesKeeps ==
  ASSUME GraphInv, NEW p \in Procs, Synchronises(p)
  PROVE  GraphInv'
<1> DEFINE c == cmd[p]
<1>0. Sound(c, observed) /\ Fields(c)
  BY SoundCommand
<1>1. CASE StartSync(p)
  <2>1. PICK policy : Starts(p, [at |-> "sync", policy |-> policy, next |-> 1])
    BY <1>1 DEF StartSync
  <2>2. Sound([at |-> "sync", policy |-> policy, next |-> 1], observed)
    BY DEF Sound, Fields, FieldsAt, Observing, Based, Writing, Admitting
  <2> QED
    BY <1>1, <2>1, <2>2, Starting DEF StartSync
<1>2. CASE SyncFile(p)
  <2>1. c.at = "sync" /\ UNCHANGED <<graphVars, helperVars>>
    BY <1>2 DEF SyncFile, At
  <2>2. CASE Go(p, Idle) /\ UNCHANGED repo
    BY <2>1, <2>2, IdleIsSound, Moving
  <2>3. CASE \E file, content, d : /\ repo' = [repo EXCEPT !.files[file] = content]
                                   /\ GoTouching(p, d) /\ d \in {Idle, [c EXCEPT !.next = @ + 1]}
    <3>1. PICK file, content, d : /\ repo' = [repo EXCEPT !.files[file] = content]
                                  /\ GoTouching(p, d) /\ d \in {Idle, [c EXCEPT !.next = @ + 1]}
      BY <2>3
    <3>2. DOMAIN c = {"at", "policy", "next"}
      BY <1>0, <2>1 DEF Fields, FieldsAt
    <3>3. Sound([c EXCEPT !.next = @ + 1], observed)
      <4> DEFINE e == [c EXCEPT !.next = @ + 1]
      <4> HIDE DEF c
      <4>1. DOMAIN e = {"at", "policy", "next"} /\ e.at = "sync"
        BY <2>1, <3>2
      <4> HIDE DEF e
      <4>2. Fields(e)
        BY <4>1 DEF Fields, FieldsAt
      <4> QED
        BY <4>1, <4>2, FieldsSuffice DEF e
    <3>4. FilesInv'
      <4>1. "fixtures" \in DOMAIN repo' /\ repo'.fixtures = repo.fixtures
        BY <3>1 DEF GraphInv, FilesInv
      <4>2. used' = used
        BY <3>1 DEF GoTouching
      <4> QED
        BY <4>1, <4>2 DEF GraphInv, FilesInv
    <3> QED
      BY <2>1, <3>1, <3>3, <3>4, IdleIsSound, Touching
  <2>4. \/ Go(p, Idle) /\ UNCHANGED repo
        \/ \E file, content, d : /\ repo' = [repo EXCEPT !.files[file] = content]
                                 /\ GoTouching(p, d) /\ d \in {Idle, [c EXCEPT !.next = @ + 1]}
    <3> HIDE DEF Go, GoTouching
    <3> QED
      BY <1>2 DEF SyncFile
  <2> QED
    BY <2>2, <2>3, <2>4
<1>3. CASE StartConsumerCheck(p)
  <2>1. PICK policy : Starts(p, [at |-> "consumers", policy |-> policy, touched |-> {}])
    BY <1>3 DEF StartConsumerCheck
  <2>2. Sound([at |-> "consumers", policy |-> policy, touched |-> {}], observed)
    BY DEF Sound, Fields, FieldsAt, Observing, Based, Writing, Admitting, Checks, Helping, Building
  <2> QED
    BY <1>3, <2>1, <2>2, Starting DEF StartConsumerCheck
<1>4. CASE ConsumerCheck(p)
  <2> DEFINE d == [c EXCEPT !.at = "consumers checked"]
  <2>1. c.at = "consumers" /\ UNCHANGED <<repo, graphVars, helperVars>>
    BY <1>4 DEF ConsumerCheck, At
  <2>2. PICK ok : GoIf(p, ok, d)
    BY <1>4 DEF ConsumerCheck
  <2>3. DOMAIN c = {"at", "policy", "touched"}
    BY <1>0, <2>1 DEF Fields, FieldsAt
  <2>4. DOMAIN d = {"at", "policy", "touched"} /\ d.at = "consumers checked"
    <3> HIDE DEF c
    <3> QED
      BY <2>3
  <2> HIDE DEF d
  <2>5. Fields(d)
    BY <2>4 DEF Fields, FieldsAt, Checks, Helping, Building
  <2>6. Sound(d, observed)
    BY <2>4, <2>5, FieldsSuffice DEF Checks, Helping, Building
  <2> QED
    BY <2>1, <2>2, <2>6, MovingIf
<1> QED
  BY <1>1, <1>2, <1>3, <1>4 DEF Synchronises

\* What a step of the helper's build goes on with.
LEMMA WorksHolds ==
  ASSUME NEW c, NEW at, NEW held, DOMAIN held \cap Checker = {}
  PROVE  /\ Works(c, at, held).at = at
         /\ Works(c, at, held).check = c.check
         /\ Works(c, at, held).touched = c.touched
         /\ \A f \in DOMAIN held : Works(c, at, held)[f] = held[f]
<1> DEFINE base == [at |-> at, check |-> c.check, touched |-> c.touched]
<1>1. DOMAIN base = Checker
  BY DEF Checker
<1>2. Works(c, at, held) = With(base, held)
  BY DEF Works
<1> HIDE DEF base
<1>3. \A f \in Checker : Works(c, at, held)[f] = base[f]
  <2>1. \A f \in DOMAIN base : With(base, held)[f] = base[f]
    BY WithFields
  <2> QED
    BY <1>1, <1>2, <2>1
<1>4. \A f \in DOMAIN held : Works(c, at, held)[f] = held[f]
  <2>1. \A f \in DOMAIN held : f \in DOMAIN held \ DOMAIN base
    BY <1>1
  <2>2. \A f \in DOMAIN held \ DOMAIN base : With(base, held)[f] = held[f]
    BY WithFields
  <2> QED
    BY <1>2, <2>1, <2>2
<1> QED
  BY <1>3, <1>4 DEF Checker, base

LEMMA WorksFields ==
  ASSUME NEW c, NEW at, NEW held
  PROVE  DOMAIN Works(c, at, held) = Checker \cup DOMAIN held
<1> DEFINE base == [at |-> at, check |-> c.check, touched |-> c.touched]
<1>1. DOMAIN base = Checker
  BY DEF Checker
<1>2. Works(c, at, held) = With(base, held)
  BY DEF Works
<1> HIDE DEF base
<1> QED
  BY <1>1, <1>2, WithFields

\* Nor is the packaged helper.
LEMMA PackagesKeeps ==
  ASSUME GraphInv, NEW p \in Procs, Packages(p)
  PROVE  GraphInv'
<1> DEFINE c == cmd[p]
           recorded == Checker \cup {"built", "inventory", "provenance", "notices"}
<1>0. Sound(c, observed) /\ Fields(c)
  BY SoundCommand
<1>a. CASE Go(p, Idle) /\ UNCHANGED <<repo, graphVars>>
  BY <1>a, IdleIsSound, Goes, OnlyCommands DEF Go, GraphInv, graphVars
<1>b. ASSUME NEW d, Sound(d, observed), Go(p, d) \/ GoBuilding(p, d), UNCHANGED <<repo, graphVars>>
      PROVE  GraphInv'
  <2>1. CmdInv'
    BY <1>b, Goes, OthersStained DEF GraphInv, graphVars
  <2> QED
    BY <1>b, <2>1, OnlyCommands DEF Go, GoBuilding
<1>c. ASSUME NEW d, Sound(d, observed), GoTouching(p, d), UNCHANGED <<repo, graphVars>>
      PROVE  GraphInv'
  <2>1. FilesInv'
    BY <1>c DEF GraphInv, FilesInv, GoTouching
  <2> QED
    BY <1>c, <2>1, Touching
<1>w. ASSUME NEW at \in Helping, NEW held, DOMAIN held \cap Checker = {},
             FieldsAt(at, Checker \cup DOMAIN held)
      PROVE  Sound(Works(c, at, held), observed)
  <2> DEFINE d == Works(c, at, held)
  <2>1. DOMAIN d = Checker \cup DOMAIN held
    BY WorksFields
  <2>2. d.at = at
    BY <1>w, WorksHolds
  <2> HIDE DEF d
  <2>3. Fields(d) /\ d.at \in Checks /\ "base" \notin DOMAIN d
    BY <1>w, <2>1, <2>2 DEF Fields, FieldsAt, Helping, Building, Checks, Checker
  <2> QED
    BY <2>3, FieldsSuffice DEF d
<1>n. ASSUME NEW at \in {"haxe", "lock", "cargo", "read"}
      PROVE  Sound(Works(c, at, Nothing), observed)
  <2>1. DOMAIN Nothing = {}
    BY DEF Nothing
  <2>2. FieldsAt(at, Checker \cup {}) /\ at \in Helping
    BY DEF FieldsAt, Checker, Checks, Helping, Building
  <2> QED
    BY <2>1, <2>2, <1>w
<1>h. ASSUME NEW held,
             DOMAIN held \in {{"made"}, {"linked"}, {"built"}, {"built", "inventory"},
                              {"built", "inventory", "provenance", "notices"}}
      PROVE  /\ DOMAIN held = {"made"} => Sound(Works(c, "crate", held), observed)
             /\ DOMAIN held = {"linked"} => Sound(Works(c, "link", held), observed)
             /\ DOMAIN held = {"built"} => Sound(Works(c, "metadata", held), observed)
             /\ DOMAIN held = {"built", "inventory"} => Sound(Works(c, "record", held), observed)
             /\ DOMAIN held = {"built", "inventory", "provenance", "notices"} =>
                  \A at \in {"compare", "binary"} : Sound(Works(c, at, held), observed)
  <2>1. DOMAIN held \cap Checker = {}
    BY <1>h DEF Checker
  <2>2. /\ FieldsAt("crate", Checker \cup {"made"})
        /\ FieldsAt("link", Checker \cup {"linked"})
        /\ FieldsAt("metadata", Checker \cup {"built"})
        /\ FieldsAt("record", Checker \cup {"built", "inventory"})
        /\ \A at \in {"compare", "binary"} : FieldsAt(at, recorded)
    BY DEF FieldsAt, Checker, Checks, Helping, Building
  <2>3. {"crate", "link", "metadata", "record", "compare", "binary"} \subseteq Helping
    BY DEF Helping, Building
  <2> QED
    BY <2>1, <2>2, <2>3, <1>w
<1>1. CASE StartHelper(p)
  <2>1. PICK check \in BOOLEAN : Starts(p, [at |-> "empty", check |-> check, touched |-> {}])
    BY <1>1 DEF StartHelper
  <2>2. Sound([at |-> "empty", check |-> check, touched |-> {}], observed)
    BY DEF Sound, Fields, FieldsAt, Observing, Based, Writing, Admitting, Checks, Helping, Building, Checker
  <2> QED
    BY <1>1, <2>1, <2>2, Starting, OnlyCommands DEF StartHelper
<1>2. CASE HelperEmpty(p)
  BY <1>2, <1>b, <1>n DEF HelperEmpty
<1>3. CASE HaxeReads(p)
  <2> DEFINE held == [made |-> [code |-> repo.helper.code, graph |-> repo.helper.graph]]
  <2>1. DOMAIN held = {"made"}
    OBVIOUS
  <2>2. Go(p, Works(c, "crate", held)) /\ UNCHANGED <<repo, graphVars>>
    BY <1>3 DEF HaxeReads
  <2> HIDE DEF held
  <2> QED
    BY <2>1, <2>2, <1>b, <1>h
<1>4. CASE HaxeWrites(p)
  BY <1>4, <1>b, <1>n DEF HaxeWrites
<1>5. CASE CopyLock(p)
  <2>1. Go(p, Idle) \/ Go(p, Works(c, "cargo", Nothing))
    BY <1>5 DEF CopyLock, Removed
  <2> QED
    BY <1>5, <2>1, <1>a, <1>b, <1>n DEF CopyLock
<1>6. CASE CargoReads(p)
  <2>1. PICK linked : Go(p, Idle) \/ Go(p, Works(c, "link", [linked |-> linked]))
    BY <1>6 DEF CargoReads, GoIf
  <2>2. DOMAIN [linked |-> linked] = {"linked"}
    OBVIOUS
  <2> QED
    BY <1>6, <2>1, <2>2, <1>a, <1>b, <1>h DEF CargoReads
<1>7. CASE CargoLinks(p)
  <2>1. Go(p, Idle) \/ GoBuilding(p, Works(c, "read", Nothing))
    BY <1>7 DEF CargoLinks, Removed
  <2> QED
    BY <1>7, <2>1, <1>a, <1>b, <1>n DEF CargoLinks
<1>8. CASE ReadBinary(p)
  <2>1. PICK built : Go(p, Idle) \/ Go(p, Works(c, "metadata", [built |-> built]))
    BY <1>8 DEF ReadBinary, GoIf
  <2>2. DOMAIN [built |-> built] = {"built"}
    OBVIOUS
  <2> QED
    BY <1>8, <2>1, <2>2, <1>a, <1>b, <1>h DEF ReadBinary
<1>9. CASE HelperInventory(p)
  <2>1. \/ Go(p, Idle)
        \/ \E built, inventory : Go(p, Works(c, "record", [built |-> built, inventory |-> inventory]))
    <3> HIDE DEF Go
    <3> QED
      BY <1>9 DEF HelperInventory
  <2>2. ASSUME NEW built, NEW inventory
        PROVE  DOMAIN [built |-> built, inventory |-> inventory] = {"built", "inventory"}
    OBVIOUS
  <2>3. UNCHANGED <<repo, graphVars>>
    BY <1>9 DEF HelperInventory
  <2>4. CASE Go(p, Idle)
    BY <2>3, <2>4, <1>a
  <2>5. CASE \E built, inventory :
               Go(p, Works(c, "record", [built |-> built, inventory |-> inventory]))
    <3>1. PICK built, inventory :
                 Go(p, Works(c, "record", [built |-> built, inventory |-> inventory]))
      BY <2>5
    <3> DEFINE held == [built |-> built, inventory |-> inventory]
    <3>2. DOMAIN held = {"built", "inventory"}
      BY <2>2
    <3> HIDE DEF held
    <3>3. Sound(Works(c, "record", held), observed)
      BY <3>2, <1>h
    <3> QED
      BY <2>3, <3>1, <3>3, <1>b DEF held
  <2> QED
    BY <2>1, <2>4, <2>5
<1>10. CASE HelperRecord(p)
  <2> DEFINE held == [built |-> c.built, inventory |-> c.inventory,
                      provenance |-> Provenance(c.built), notices |-> ThirdPartyNotices(c.inventory)]
  <2>1. DOMAIN held = {"built", "inventory", "provenance", "notices"}
    OBVIOUS
  <2>2. PICK at \in {"compare", "binary"} : Go(p, Works(c, at, held)) /\ UNCHANGED <<repo, graphVars>>
    BY <1>10 DEF HelperRecord
  <2> HIDE DEF held
  <2> QED
    BY <2>1, <2>2, <1>b, <1>h
<1>d. ASSUME NEW at \in {"inventory", "provenance", "notices", "helper checked"}, DOMAIN c = recorded
      PROVE  Fields([c EXCEPT !.at = at]) /\ Sound([c EXCEPT !.at = at], observed)
  <2> DEFINE d == [c EXCEPT !.at = at]
  <2> HIDE DEF c
  <2>1. DOMAIN d = recorded /\ d.at = at
    BY <1>d DEF Checker
  <2> HIDE DEF d
  <2>2. Fields(d) /\ d.at \in Checks /\ "base" \notin DOMAIN d
    BY <2>1 DEF Fields, FieldsAt, Checks, Helping, Building, Checker
  <2> QED
    BY <2>2, FieldsSuffice DEF d
<1>11. CASE CopyBinary(p)
  <2>1. c.at = "binary" /\ UNCHANGED <<repo, graphVars>>
    BY <1>11 DEF CopyBinary, At
  <2>2. DOMAIN c = recorded
    BY <1>0, <2>1 DEF Fields, FieldsAt
  <2>3. Go(p, Idle) \/ GoTouching(p, [c EXCEPT !.at = "inventory"])
    BY <1>11 DEF CopyBinary
  <2> QED
    BY <2>1, <2>2, <2>3, <1>a, <1>c, <1>d
<1>12. CASE WriteRecord(p)
  <2>1. UNCHANGED <<repo, graphVars>>
    BY <1>12 DEF WriteRecord
  <2>2. PICK k \in DOMAIN RecordOrder :
          /\ c.at = RecordOrder[k]
          /\ GoTouching(p, IF k = 3 THEN Idle ELSE [c EXCEPT !.at = RecordOrder[k + 1]])
    BY <1>12 DEF WriteRecord, At
  <2>3. k \in {1, 2, 3} /\ RecordOrder[k] \in {"inventory", "provenance", "notices"}
    BY DEF RecordOrder
  <2>4. DOMAIN c = recorded
    BY <1>0, <2>2, <2>3 DEF Fields, FieldsAt
  <2>5. k # 3 => RecordOrder[k + 1] \in {"provenance", "notices"}
    BY <2>3 DEF RecordOrder
  <2> QED
    BY <2>1, <2>2, <2>4, <2>5, <1>c, <1>d, IdleIsSound
<1>13. CASE ComparePackage(p)
  <2>1. c.at = "compare" /\ UNCHANGED <<repo, graphVars, helperVars>>
    BY <1>13 DEF ComparePackage, At
  <2>2. PICK ok : GoIf(p, ok, [c EXCEPT !.at = "helper checked"])
    BY <1>13 DEF ComparePackage
  <2>3. DOMAIN c = recorded
    BY <1>0, <2>1 DEF Fields, FieldsAt
  <2> QED
    BY <2>1, <2>2, <2>3, <1>d, MovingIf
<1>14. CASE CheckEnds(p)
  BY <1>14, <1>a DEF CheckEnds
<1> QED
  BY <1>1, <1>2, <1>3, <1>4, <1>5, <1>6, <1>7, <1>8, <1>9, <1>10, <1>11, <1>12, <1>13,
     <1>14 DEF Packages

\* A command that dies leaves its files as they are.
LEMMA DiesKeeps ==
  ASSUME GraphInv, NEW p \in Procs, Dies(p)
  PROVE  GraphInv'
<1>1. /\ cmd' = [cmd EXCEPT ![p] = Idle] /\ UNCHANGED <<repo, graphVars>>
      /\ used' = [used EXCEPT !.deaths = @ + 1]
  BY DEF Dies
<1>2. UNCHANGED <<registry, baseline, directory, observed>>
  BY <1>1 DEF graphVars
<1>3. CmdInv'
  BY <1>1, <1>2, IdleIsSound, OneMoves DEF GraphInv
<1>4. BaselineInv' /\ ObservedInv' /\ CandidatesInv'
  BY <1>2 DEF GraphInv, BaselineInv, ObservedInv, CandidatesInv
<1>5. FilesInv'
  BY <1>1 DEF GraphInv, FilesInv
<1> QED
  BY <1>3, <1>4, <1>5 DEF GraphInv

\* People and the registry: what they may do to each part.
LEMMA EditedKeeps ==
  ASSUME GraphInv, Edited, UNCHANGED <<directory, observed>>, BaselineInv',
         "fixtures" \in DOMAIN repo', FiniteManifests(repo'.fixtures)
  PROVE  GraphInv'
<1>1. CmdInv'
  BY AllTouched DEF Edited, GraphInv
<1>2. ObservedInv' /\ CandidatesInv'
  BY DEF GraphInv, ObservedInv, CandidatesInv
<1>3. DOMAIN used' = DOMAIN used /\ used'.mix = used.mix
  BY DEF Edited, GraphInv, FilesInv
<1>4. FilesInv'
  BY <1>3 DEF GraphInv, FilesInv
<1> QED
  BY <1>1, <1>2, <1>4 DEF GraphInv

\* People and the registry only change the files they may change.
LEMMA PeopleKeep ==
  ASSUME GraphInv, EditFiles \/ EditLocator \/ RegistryMoves \/ AlterBaseline
  PROVE  GraphInv'
<1>0. "fixtures" \in DOMAIN repo /\ FiniteManifests(repo.fixtures)
  BY DEF GraphInv, FilesInv
<1>1. CASE EditFiles
  <2>1. Edited /\ UNCHANGED <<registry, baseline, directory, observed>>
    BY <1>1 DEF EditFiles, graphVars
  <2>2. PICK files \in used.mix.files : repo' = With(files, repo)
    BY <1>1 DEF EditFiles
  <2>3. "fixtures" \in DOMAIN files => FiniteManifests(files.fixtures)
    BY GraphAssumption DEF GraphInv, FilesInv
  <2>4. "fixtures" \in DOMAIN repo' /\ FiniteManifests(repo'.fixtures)
    BY <1>0, <2>2, <2>3 DEF With
  <2>5. BaselineInv'
    BY <2>1 DEF GraphInv, BaselineInv
  <2> QED
    BY <2>1, <2>4, <2>5, EditedKeeps
<1>2. CASE EditLocator
  <2>1. /\ Edited /\ UNCHANGED <<registry, baseline, directory, observed>>
        /\ repo' = [repo EXCEPT !.locator = package.binary]
    BY <1>2 DEF EditLocator, graphVars
  <2>2. "fixtures" \in DOMAIN repo' /\ FiniteManifests(repo'.fixtures)
    BY <1>0, <2>1
  <2>3. BaselineInv'
    BY <2>1 DEF GraphInv, BaselineInv
  <2> QED
    BY <2>1, <2>2, <2>3, EditedKeeps
<1>3. CASE RegistryMoves
  <2>1. Edited /\ UNCHANGED <<repo, baseline, directory, observed>>
    BY <1>3 DEF RegistryMoves
  <2>2. BaselineInv'
    BY <2>1 DEF GraphInv, BaselineInv
  <2> QED
    BY <1>0, <2>1, <2>2, EditedKeeps
<1>4. CASE AlterBaseline
  <2>1. Edited /\ UNCHANGED <<repo, registry, directory, observed>>
    BY <1>4 DEF AlterBaseline
  <2>2. PICK id \in DOMAIN baseline.artifacts :
          \E lock : baseline' = [baseline EXCEPT !.artifacts[id].lock = lock]
    BY <1>4 DEF AlterBaseline
  <2>3. PICK lock : baseline' = [baseline EXCEPT !.artifacts[id].lock = lock]
    BY <2>2
  <2>4. DOMAIN baseline = {"manifest", "artifacts"} /\ TwoFiles(baseline.artifacts)
    BY DEF GraphInv, BaselineInv
  <2>5. /\ DOMAIN baseline' = {"manifest", "artifacts"} /\ baseline'.manifest = baseline.manifest
        /\ baseline'.artifacts = [baseline.artifacts EXCEPT ![id].lock = lock]
    BY <2>3, <2>4
  <2>6. TwoFiles(baseline'.artifacts)
    <3> DEFINE old == baseline.artifacts  new == baseline'.artifacts
    <3>1. old = [x \in DOMAIN old |-> [lock |-> old[x].lock, metadata |-> old[x].metadata]]
      BY <2>4 DEF TwoFiles
    <3>2. new = [x \in DOMAIN old |-> IF x = id THEN [lock |-> lock, metadata |-> old[x].metadata]
                                      ELSE old[x]]
      BY <2>5, <3>1
    <3> HIDE DEF old, new
    <3> QED
      BY <3>1, <3>2 DEF TwoFiles, new
  <2>7. BaselineInv'
    BY <2>1, <2>5, <2>6 DEF GraphInv, BaselineInv
  <2> QED
    BY <1>0, <2>1, <2>7, EditedKeeps
<1> QED
  BY <1>1, <1>2, <1>3, <1>4

\* The first checkout has an observed graph and no command.
LEMMA GraphInvInit ==
  ASSUME UpkeepInit
  PROVE  GraphInv
<1>1. /\ repo \in FirstRepos /\ baseline = FirstBaseline
      /\ directory = <<>> /\ cmd = [p \in Procs |-> Idle]
      /\ observed = {Recorded(FirstBaseline)}
  BY DEF UpkeepInit, Init, Recorded
<1>2. PICK mix \in Mixes : used = [mix |-> mix, starts |-> 0, edits |-> 0, deaths |-> 0]
  BY DEF UpkeepInit, Init
<1>3. /\ DOMAIN baseline = {"manifest", "artifacts"} /\ TwoFiles(baseline.artifacts)
      /\ BaselineIntact(baseline) /\ ArtifactFiles(baseline.artifacts)
      /\ \A id \in DOMAIN baseline.artifacts : LockReadable(baseline.artifacts[id].lock)
  BY <1>1, GraphAssumption DEF ArtifactFiles, TwoFiles
<1>4. BaselineInv
  <2> DEFINE manifest == baseline.manifest
             reviewed == [id \in DOMAIN manifest.cases |->
                           [lock |-> manifest.cases[id].lock, metadata |-> manifest.cases[id].metadata]]
  <2>1. baseline.artifacts = reviewed
    BY <1>3 DEF BaselineIntact, TwoFiles
  <2>2. Recorded(Reviewed(manifest)) = Recorded(baseline)
    BY <2>1 DEF Recorded, Reviewed
  <2> QED
    BY <1>1, <1>3, <2>2 DEF BaselineInv
<1>5. ObservedInv
  <2>1. Recorded(baseline).artifacts = baseline.artifacts
    BY DEF Recorded
  <2> QED
    BY <1>1, <1>3, <2>1 DEF ObservedInv
<1>6. FilesInv
  <2>1. "fixtures" \in DOMAIN repo /\ FiniteManifests(repo.fixtures)
    BY <1>1, GraphAssumption
  <2>2. DOMAIN used = {"mix", "starts", "edits", "deaths"} /\ used.mix \in Mixes
    BY <1>2
  <2> QED
    BY <2>1, <2>2 DEF FilesInv
<1>7. CmdInv
  BY <1>1, IdleIsSound DEF CmdInv
<1>8. CandidatesInv
  <2>1. DOMAIN directory = {}
    BY <1>1
  <2> QED
    BY <1>1, <2>1 DEF CandidatesInv, Candidate
<1> QED
  BY <1>4, <1>5, <1>6, <1>7, <1>8 DEF GraphInv

\* Every step keeps the invariant of the reviewed graph.
LEMMA GraphInvNext ==
  ASSUME GraphInv, [Next]_upkeepVars
  PROVE  GraphInv'
<1>1. CASE UNCHANGED upkeepVars
  BY <1>1 DEF upkeepVars, graphVars, helperVars, GraphInv, BaselineInv, ObservedInv, FilesInv,
              CmdInv, CandidatesInv
<1>2. ASSUME NEW p \in Procs, Observes(p)
      PROVE  GraphInv'
  BY <1>2, StartObserveKeeps, CaptureKeeps, ResolvePassKeeps, UpperEdgePassKeeps, ClassifyKeeps,
     WriteObservationKeeps DEF Observes
<1>3. ASSUME NEW p \in Procs, Admits(p)
      PROVE  GraphInv'
  BY <1>3, StartAdmitKeeps, VerifyCandidateKeeps, AdmitFrozenKeeps, PublishKeeps DEF Admits
<1>4. ASSUME NEW p \in Procs, Gates(p)
      PROVE  GraphInv'
  BY <1>4, StartVerifyKeeps, VerifyLockedKeeps, StartGeneratedKeeps, RunGeneratedKeeps,
     GateEndsKeeps DEF Gates
<1> QED
  BY <1>1, <1>2, <1>3, <1>4, SynchronisesKeeps, PackagesKeeps, DiesKeeps, PeopleKeep DEF Next

\* The invariant of the reviewed graph: it holds in every state.
THEOREM GraphHolds == Spec => []GraphInv
<1>1. UpkeepInit => GraphInv
  BY GraphInvInit
<1>2. GraphInv /\ [Next]_upkeepVars => GraphInv'
  BY GraphInvNext
<1> QED
  BY <1>1, <1>2, PTL DEF Spec

-----------------------------------------------------------------------------
\* Whatever a command works with came whole from one observation
\* (checkBaseline, captureCandidateSnapshot, writeBaselineAtomically).
THEOREM InstalledObserved == Spec => []InstalledWasObserved
<1>1. GraphInv => InstalledWasObserved
  BY DEF GraphInv, CmdInv, Sound, Based, InstalledWasObserved
<1> QED
  BY <1>1, GraphHolds, PTL

\* What an observer is about to write names all the drift there is.
LEMMA WrittenDrift ==
  ASSUME GraphInv, NEW p \in Procs, At(p, "write")
  PROVE  LET c == cmd[p]
             found == c.fallback[1]
             changes == c.classification.changes
         IN /\ c.classification.relation = "match" =>
                 /\ found = c.base.artifacts
                 /\ Recorded(c.base).policy = c.policy /\ Recorded(c.base).inputs = c.inputs
            /\ \A id \in DOMAIN found \cup DOMAIN c.base.artifacts :
                 \A i \in Differing(LockIn(c.base.artifacts, id), LockIn(found, id)) :
                   Names(changes, id, i)
<1> DEFINE c == cmd[p]
           found == c.fallback[1]
           old == c.base.artifacts
<1>1. Sound(c, observed) /\ c.at = "write"
  BY SoundCommand DEF At
<1>2. /\ InputsOf(c.policy, c.inputs) /\ Passes(c.fallback, CaseIds(c.policy)) /\ c.fallback # <<>>
      /\ c.classification = ClassifyArtifacts(c.policy, c.inputs, c.base, found)
      /\ AllReadable(found)
  BY <1>1 DEF Sound, Observing
<1>3. "base" \in DOMAIN c
  BY <1>1 DEF Sound, Fields, FieldsAt, Observer, Begun
<1>4. BaselineIntact(c.base) /\ Recorded(c.base) \in observed
  BY <1>1, <1>3 DEF Sound, Based
<1>5. ArtifactFiles(old) /\ \A id \in DOMAIN old : LockReadable(old[id].lock)
  <2>1. Recorded(c.base).artifacts = old
    BY DEF Recorded
  <2> QED
    BY <1>4, <2>1 DEF GraphInv, ObservedInv
<1>6. DOMAIN found = CaseIds(c.policy) /\ ArtifactFiles(found)
  BY <1>2 DEF Passes
<1>7. DOMAIN old = DOMAIN c.base.manifest.cases
  BY <1>4 DEF BaselineIntact
<1>8. c.inputs = [id \in CaseIds(c.policy) |-> c.inputs[id]]
  BY <1>2 DEF InputsOf
<1> HIDE DEF c
<1>9. c.classification.relation = "match" =>
        /\ found = old
        /\ Recorded(c.base).policy = c.policy /\ Recorded(c.base).inputs = c.inputs
  BY <1>2, <1>5, <1>6, <1>7, <1>8, MatchIsEqual
<1>10. \A id \in DOMAIN found \cup DOMAIN old :
         \A i \in Differing(LockIn(old, id), LockIn(found, id)) :
           Names(c.classification.changes, id, i)
  BY <1>2, <1>5, <1>6, <1>7, DriftNamed
<1> QED
  BY <1>9, <1>10 DEF c

\* A written classification leaves nothing out (classifyArtifacts).
THEOREM DriftNamedInReports == Spec => []DriftIsNamed
<1>1. GraphInv => DriftIsNamed
  BY WrittenDrift DEF DriftIsNamed, Names, LockIn
<1> QED
  BY <1>1, GraphHolds, PTL

-----------------------------------------------------------------------------
KeptBy(b, b2) ==
  \A id \in DOMAIN b.manifest.cases \cap DOMAIN b2.manifest.cases :
    LET before == LockedIn(b.manifest, id)  after == LockedIn(b2.manifest, id)
    IN \A i \in DOMAIN before \cap DOMAIN after : before[i].checksum = after[i].checksum

\* Only an admission changes the manifest, and it has classified against it.
LEMMA PublishKeepsChecksums ==
  ASSUME GraphInv, NEW p \in Procs, Publish(p), baseline'.manifest # baseline.manifest
  PROVE  KeptBy(baseline, baseline')
<1> DEFINE c == cmd[p]
           tree == Tree(c.candidate, "fallback", CaseIds(c.policy))
           b == c.base
<1>1. /\ c.at = "publish" /\ baseline.manifest = b.manifest /\ baseline' = Admitted(c)
  BY DEF Publish, At
<1>2. Sound(c, observed)
  BY SoundCommand
<1>3. "base" \in DOMAIN c /\ BaselineIntact(b)
  <2>1. DOMAIN c = Begun \cup {"candidate", "inputs"}
    BY <1>1, <1>2 DEF Sound, Fields, FieldsAt
  <2> QED
    BY <1>2, <2>1 DEF Sound, Based, Begun
<1>4. ClassifyArtifacts(c.policy, c.inputs, b, tree).admissible
  BY <1>1, <1>2 DEF Sound, Admitting
<1>5. /\ DOMAIN baseline'.manifest.cases = CaseIds(c.policy)
      /\ \A id \in CaseIds(c.policy) : baseline'.manifest.cases[id].lock = tree[id].lock
  <2> HIDE DEF c, tree
  <2> QED
    BY <1>1 DEF Admitted, BuildBaselineManifest, tree
<1>6. \A id \in DOMAIN b.manifest.cases : b.manifest.cases[id].lock = b.artifacts[id].lock
  BY <1>3 DEF BaselineIntact
<1>7. \A id \in DOMAIN b.manifest.cases \cap CaseIds(c.policy) : SameChecksums(b.artifacts[id].lock, tree[id].lock)
  <2> DEFINE policy == c.policy  inputs == c.inputs
  <2>1. IsAdmissible(policy, inputs, b, tree)
    BY <1>4 DEF IsAdmissible
  <2> HIDE DEF c, tree, b, policy, inputs
  <2>2. \A id \in DOMAIN b.manifest.cases \cap CaseIds(policy) : SameChecksums(b.artifacts[id].lock, tree[id].lock)
    BY <2>1, AdmissibleKeepsAll
  <2> QED
    BY <2>2 DEF policy
<1> HIDE DEF c, tree, b
<1>8. ASSUME NEW id \in DOMAIN b.manifest.cases \cap DOMAIN baseline'.manifest.cases
      PROVE  /\ LockedIn(baseline.manifest, id) = ParseLock(b.artifacts[id].lock)
             /\ LockedIn(baseline'.manifest, id) = ParseLock(tree[id].lock)
             /\ SameChecksums(b.artifacts[id].lock, tree[id].lock)
  BY <1>1, <1>5, <1>6, <1>7 DEF LockedIn
<1>9. DOMAIN baseline.manifest.cases = DOMAIN b.manifest.cases
  BY <1>1
<1> QED
  BY <1>8, <1>9 DEF KeptBy, SameChecksums

\* Nothing else changes the manifest of the reviewed graph.
LEMMA ManifestStays ==
  ASSUME GraphInv, [Next]_upkeepVars
  PROVE  \/ baseline'.manifest = baseline.manifest
         \/ \E p \in Procs : Publish(p)
<1>1. CASE UNCHANGED upkeepVars
  BY <1>1 DEF upkeepVars, graphVars
<1>2. ASSUME NEW p \in Procs, Observes(p)
      PROVE  UNCHANGED baseline
  BY <1>2 DEF Observes, StartObserve, Capture, ResolvePass, UpperEdgePass, Classify,
              WriteObservation, graphVars
<1>3. ASSUME NEW p \in Procs, Admits(p)
      PROVE  UNCHANGED baseline \/ Publish(p)
  BY <1>3 DEF Admits, StartAdmit, VerifyCandidate, AdmitFrozen, graphVars
<1>4. ASSUME NEW p \in Procs, Gates(p)
      PROVE  UNCHANGED baseline
  BY <1>4 DEF Gates, StartVerify, VerifyLocked, StartGenerated, RunGenerated, GateEnds, graphVars
<1>5. ASSUME NEW p \in Procs, Synchronises(p) \/ Packages(p) \/ Dies(p)
      PROVE  UNCHANGED baseline
  BY <1>5 DEF Synchronises, StartSync, SyncFile, StartConsumerCheck, ConsumerCheck,
              Packages, StartHelper, HelperEmpty, HaxeReads, HaxeWrites, CopyLock, CargoReads,
              CargoLinks, ReadBinary, HelperInventory, HelperRecord, CopyBinary,
              WriteRecord, ComparePackage, CheckEnds, Dies, graphVars
<1>6. CASE EditFiles \/ EditLocator \/ RegistryMoves
  BY <1>6 DEF EditFiles, EditLocator, RegistryMoves, graphVars
<1>7. CASE AlterBaseline
  <2>1. \E id \in DOMAIN baseline.artifacts : \E lock :
          baseline' = [baseline EXCEPT !.artifacts[id].lock = lock]
    BY <1>7 DEF AlterBaseline
  <2> QED
    BY <2>1 DEF GraphInv, BaselineInv
<1> QED
  BY <1>1, <1>2, <1>3, <1>4, <1>5, <1>6, <1>7 DEF Next

\* A package that both graphs lock keeps its checksum under admission
\* (classifyCase, runAdmit).
THEOREM ChecksumsStay == Spec => ChecksumsKept
<1>1. GraphInv /\ [Next]_upkeepVars => [KeptBy(baseline, baseline')]_baseline
  <2> SUFFICES ASSUME GraphInv, [Next]_upkeepVars, baseline' # baseline
               PROVE  KeptBy(baseline, baseline')
    OBVIOUS
  <2>1. CASE baseline'.manifest = baseline.manifest
    BY <2>1 DEF KeptBy, LockedIn
  <2>2. CASE baseline'.manifest # baseline.manifest
    BY <2>2, ManifestStays, PublishKeepsChecksums
  <2> QED
    BY <2>1, <2>2
<1> QED
  BY <1>1, GraphHolds, PTL DEF Spec, ChecksumsKept, KeptBy

-----------------------------------------------------------------------------
(* The checks of files: what they have found out, as long as nobody wrote.   *)
ExactConsumers(files) ==
  \A f \in {"haxe", "toml", "docs"} : files.files[f] = Rendered(files.policy)[f]
BinaryOf(files) == [code |-> files.helper.code, channel |-> files.files.toml.channel]
SourcesOf(files) ==
  [helper |-> files.helper, policy |-> files.policy, haxe |-> files.files.haxe,
   toml |-> files.files.toml, locator |-> files.locator]
ExactHelper(files, packaged) ==
  /\ packaged.binary = BinaryOf(files) /\ files.locator = BinaryOf(files)
  /\ packaged.provenance = [binary |-> BinaryOf(files), sources |-> SourcesOf(files)]
  /\ {packaged.inventory} = DependencyInventory(files.helper.graph, files.helper.lock)
  /\ packaged.notices = ThirdPartyNotices(packaged.inventory)

\* What an undisturbed build finds in its directory, as far as it is there.
Current(build, files) ==
  /\ \/ build.code = Null /\ build.graph = Null
     \/ build.code = files.helper.code /\ build.graph = files.helper.graph
  /\ build.binary \in {Null, BinaryOf(files)}
Recording(c, files) ==
  /\ c.built = BinaryOf(files)
  /\ {c.inventory} = DependencyInventory(files.helper.graph, files.helper.lock)
  /\ c.provenance = [binary |-> c.built, sources |-> SourcesOf(files)]
  /\ c.notices = ThirdPartyNotices(c.inventory)
Untouched(c, files, packaged, build) ==
  /\ c.at = "consumers" => c.policy = files.policy
  /\ c.at = "consumers checked" => ExactConsumers(files)
  /\ c.at \in Building /\ c.check = TRUE => Current(build, files)
  /\ c.at = "crate" => c.made = [code |-> files.helper.code, graph |-> files.helper.graph]
  /\ c.at = "link" /\ c.check = TRUE => c.linked = BinaryOf(files)
  /\ c.at \in {"metadata", "record"} /\ c.check = TRUE => c.built = BinaryOf(files)
  /\ c.at = "record" /\ c.check = TRUE =>
       {c.inventory} = DependencyInventory(files.helper.graph, files.helper.lock)
  /\ c.at = "compare" => Recording(c, files)
  /\ c.at = "helper checked" => ExactHelper(files, packaged)
Checking(c, files, packaged, build) ==
  /\ c.at \in Helping => c.check \in BOOLEAN
  /\ c.at \in {"compare", "helper checked"} => c.check = TRUE
  /\ c.at \in Checks /\ c.touched = {} => Untouched(c, files, packaged, build)

OutInv ==
  /\ DOMAIN out = {"out", "out_verify"}
  /\ \A d \in {"out", "out_verify"} : DOMAIN out[d] = {"code", "graph", "lock", "binary"}
CheckInv == OutInv /\ \A p \in Procs : Checking(cmd[p], repo, package, out["out_verify"])

\* A command that checks no files has nothing to have found out.
LEMMA Elsewhere ==
  ASSUME NEW c, c.at \notin Checks, NEW files, NEW packaged, NEW build
  PROVE  Checking(c, files, packaged, build)
  BY DEF Checking, Checks, Helping, Building

\* Who has been touched has found out nothing.
LEMMA TouchedChecks ==
  ASSUME NEW c, NEW what, Fields(c), NEW files, NEW packaged, NEW build,
         Checking(c, files, packaged, build), NEW files2, NEW packaged2, NEW build2
  PROVE  Checking(Touched(c, what), files2, packaged2, build2)
<1>1. CASE c.at \notin Checks
  <2>1. Touched(c, what) = c
    BY <1>1 DEF Touched, Fields, FieldsAt
  <2> QED
    BY <1>1, <2>1, Elsewhere
<1>2. CASE c.at \in Checks
  <2> DEFINE t == Touched(c, what)
  <2>1. {"touched", "at"} \subseteq DOMAIN c /\ (c.at \in Helping => "check" \in DOMAIN c)
    BY <1>2 DEF Fields, FieldsAt, Checks, Helping, Building, Checker
  <2>2. t.touched # {} /\ t.at = c.at /\ (c.at \in Helping => t.check = c.check)
    BY <2>1 DEF Touched
  <2> HIDE DEF t
  <2>3. Checking(t, files2, packaged2, build2)
    BY <2>2 DEF Checking, Helping, Building
  <2> QED
    BY <2>3 DEF t
<1> QED
  BY <1>1, <1>2

-----------------------------------------------------------------------------
(* How the checks move.                                                      *)
LEMMA OneChecks ==
  ASSUME GraphInv, CheckInv, NEW p \in Procs, NEW c, cmd' = [cmd EXCEPT ![p] = c],
         UNCHANGED <<repo, package>>, OutInv',
         Checking(c, repo, package, out'["out_verify"]),
         Current(out["out_verify"], repo) => Current(out'["out_verify"], repo)
  PROVE  CheckInv'
<1> DEFINE build == out["out_verify"]  build2 == out'["out_verify"]
<1>1. ASSUME NEW q \in Procs
      PROVE  Checking(cmd'[q], repo, package, build2)
  <2>1. CASE q = p
    BY <2>1 DEF GraphInv, CmdInv
  <2>2. CASE q # p
    <3>1. cmd'[q] = cmd[q] /\ Checking(cmd[q], repo, package, build)
      BY <2>2 DEF GraphInv, CmdInv, CheckInv
    <3> DEFINE d == cmd[q]
    <3> HIDE DEF d, build, build2
    <3>2. Current(build, repo) => Current(build2, repo)
      BY DEF build, build2
    <3>3. Checking(d, repo, package, build2)
      BY <3>1, <3>2 DEF Checking, Untouched, d
    <3> QED
      BY <3>1, <3>3 DEF d
  <2> QED
    BY <2>1, <2>2
<1> QED
  BY <1>1 DEF CheckInv

\* A write into a build directory: that of a disturbed command disturbs the
\* others there, that of another leaves what the sources make.
LEMMA BuildingChecks ==
  ASSUME GraphInv, CheckInv, NEW p \in Procs, NEW c, GoBuilding(p, c),
         UNCHANGED <<repo, package>>, OutInv', cmd[p].check \in BOOLEAN,
         Checking(c, repo, package, out'["out_verify"]),
         cmd[p].check = FALSE => out'["out_verify"] = out["out_verify"],
         cmd[p].touched = {} /\ cmd[p].check = TRUE =>
           (Current(out["out_verify"], repo) => Current(out'["out_verify"], repo))
  PROVE  CheckInv'
<1> DEFINE build == out["out_verify"]  build2 == out'["out_verify"]
<1>1. ASSUME NEW q \in Procs
      PROVE  Checking(cmd'[q], repo, package, build2)
  <2>0. Fields(cmd[q]) /\ Checking(cmd[q], repo, package, build)
    BY SoundCommand DEF CheckInv
  <2>1. CASE q = p
    BY <2>1 DEF GoBuilding
  <2>2. CASE q # p /\ Stains(p, q)
    <3>1. cmd'[q] = Touched(cmd[q], "directory")
      BY <2>2 DEF GoBuilding
    <3> QED
      BY <2>0, <3>1, TouchedChecks
  <2>3. CASE q # p /\ ~Stains(p, q)
    <3> DEFINE d == cmd[q]
    <3>1. cmd'[q] = d
      BY <2>3 DEF GoBuilding
    <3>2. d.at \in Building => "check" \in DOMAIN d
      BY <2>0 DEF Fields, FieldsAt, Building, Checker
    <3>3. d.at \in Building /\ d.check = TRUE => (Current(build, repo) => Current(build2, repo))
      BY <2>3, <3>2 DEF Stains
    <3> HIDE DEF d, build, build2
    <3>4. Checking(d, repo, package, build2)
      BY <2>0, <3>3 DEF Checking, Untouched, d
    <3> QED
      BY <3>1, <3>4
  <2> QED
    BY <2>1, <2>2, <2>3
<1> QED
  BY <1>1 DEF CheckInv

\* A step of a command to a place that is no check.
LEMMA OneElsewhere ==
  ASSUME GraphInv, CheckInv, NEW p \in Procs, NEW c, c.at \notin Checks,
         cmd' = [cmd EXCEPT ![p] = c], UNCHANGED <<repo, package, out>>
  PROVE  CheckInv'
<1>1. Checking(c, repo, package, out'["out_verify"])
  BY Elsewhere
<1>2. OutInv'
  BY DEF CheckInv, OutInv
<1> QED
  BY <1>1, <1>2, OneChecks

\* A step that touches the other checks.
LEMMA OthersTouchedCheck ==
  ASSUME GraphInv, CheckInv, NEW p \in Procs, NEW c, GoTouching(p, c), UNCHANGED out,
         NEW files, NEW packaged, files = repo', packaged = package',
         Checking(c, files, packaged, out["out_verify"])
  PROVE  CheckInv'
<1>1. cmd' = [q \in Procs |-> IF q = p THEN c ELSE Touched(cmd[q], "files")]
  BY DEF GoTouching
<1>2. ASSUME NEW q \in Procs
      PROVE  Checking(cmd'[q], files, packaged, out["out_verify"])
  <2>1. Fields(cmd[q]) /\ Checking(cmd[q], repo, package, out["out_verify"])
    BY SoundCommand DEF CheckInv
  <2>2. Checking(Touched(cmd[q], "files"), files, packaged, out["out_verify"])
    BY <2>1, TouchedChecks
  <2> QED
    BY <1>1, <2>2
<1>3. OutInv'
  BY DEF CheckInv, OutInv
<1> QED
  BY <1>2, <1>3 DEF CheckInv

\* An edit touches all of them.
LEMMA AllTouchedCheck ==
  ASSUME GraphInv, CheckInv, cmd' = Disturbed, UNCHANGED <<package, out>>,
         NEW files, files = repo'
  PROVE  CheckInv'
<1>1. cmd' = [q \in Procs |-> Touched(cmd[q], "files")]
  BY DEF Disturbed
<1>2. ASSUME NEW q \in Procs
      PROVE  Checking(cmd'[q], files, package, out["out_verify"])
  <2>1. Fields(cmd[q]) /\ Checking(cmd[q], repo, package, out["out_verify"])
    BY SoundCommand DEF CheckInv
  <2>2. Checking(Touched(cmd[q], "files"), files, package, out["out_verify"])
    BY <2>1, TouchedChecks
  <2> QED
    BY <1>1, <2>2
<1>3. OutInv'
  BY DEF CheckInv, OutInv
<1> QED
  BY <1>2, <1>3 DEF CheckInv

\* A command ends or fails.
LEMMA GoesIdle ==
  ASSUME GraphInv, CheckInv, NEW p \in Procs, Go(p, Idle), UNCHANGED <<repo, package, out>>
  PROVE  CheckInv'
<1>1. Idle.at \notin Checks
  BY DEF Idle, Checks, Helping, Building
<1> QED
  BY <1>1, OneElsewhere DEF Go

\* The commands of the graph are no checks.
LEMMA ToElsewhere ==
  ASSUME GraphInv, CheckInv, NEW p \in Procs, NEW c, NEW at, at \notin Checks, c.at = at,
         Go(p, c) \/ Starts(p, c), UNCHANGED <<repo, package, out>>
  PROVE  CheckInv'
  BY OneElsewhere DEF Go, Starts

\* The same, when the step may fail.
LEMMA IfElsewhere ==
  ASSUME GraphInv, CheckInv, NEW p \in Procs, NEW ok, NEW c, c.at \notin Checks, GoIf(p, ok, c),
         UNCHANGED <<repo, package, out>>
  PROVE  CheckInv'
<1>1. Go(p, c) \/ Go(p, Idle)
  BY DEF GoIf
<1> QED
  BY <1>1, GoesIdle, ToElsewhere

\* Where a command is, when it gets more fields.
LEMMA WithAt ==
  ASSUME NEW c, NEW more
  PROVE  /\ "at" \in DOMAIN c => With(c, more).at = c.at
         /\ "at" \in DOMAIN more \ DOMAIN c => With(c, more).at = more.at
  BY DEF With

\* What a command has prepared does not say where it is.
LEMMA PreparedHasNoPlace ==
  ASSUME NEW lane, NEW allow, NEW c \in Prepared(lane, allow)
  PROVE  "at" \notin DOMAIN c
  BY DEF Prepared

\* The observers check no files,
LEMMA ObservesElsewhere ==
  ASSUME GraphInv, CheckInv, NEW p \in Procs, Observes(p)
  PROVE  CheckInv'
<1> DEFINE c == cmd[p]
<1>0. Fields(c) /\ "at" \in DOMAIN c
  BY SoundCommand DEF Fields, FieldsAt
<1>1. UNCHANGED <<repo, package, out>>
  BY DEF Observes, StartObserve, Capture, ResolvePass, UpperEdgePass, Classify, WriteObservation,
         helperVars
<1>2. CASE StartObserve(p)
  <2>1. PICK upper \in BOOLEAN : \E b \in Prepared("minimum", TRUE) :
          Starts(p, With(b, [at |-> "snapshot", then |-> "resolve", upper |-> upper,
                             fallback |-> <<>>, edge |-> <<>>]))
    BY <1>2 DEF StartObserve
  <2> DEFINE more == [at |-> "snapshot", then |-> "resolve", upper |-> upper,
                      fallback |-> <<>>, edge |-> <<>>]
  <2>2. PICK b \in Prepared("minimum", TRUE) : Starts(p, With(b, more))
    BY <2>1
  <2>3. "at" \in DOMAIN more \ DOMAIN b /\ more.at = "snapshot"
    BY PreparedHasNoPlace
  <2> HIDE DEF more
  <2>4. With(b, more).at = "snapshot"
    BY <2>3, WithAt
  <2> QED
    BY <1>1, <2>2, <2>4, ToElsewhere DEF Checks, Helping, Building
<1>3. CASE Capture(p)
  <2> DEFINE d == [c EXCEPT !.at = c.then]  more == [inputs |-> ResolutionInputs(c.policy)]
  <2>1. c.at = "snapshot" /\ \E ok : GoIf(p, ok, With(d, more))
    BY <1>3 DEF Capture, At
  <2>2. c.then \in {"resolve", "locked"}
    BY <1>0, <2>1 DEF Fields
  <2> HIDE DEF c
  <2>3. "at" \in DOMAIN d /\ d.at = c.then
    BY <1>0
  <2> HIDE DEF d, more
  <2>4. With(d, more).at = c.then
    BY <2>3, WithAt
  <2> QED
    BY <1>1, <2>1, <2>2, <2>4, IfElsewhere DEF Checks, Helping, Building
<1>4. CASE ResolvePass(p)
  <2>1. \/ Go(p, Idle)
        \/ \E passes : \E at \in {"resolve", "edge", "classify"} :
             Go(p, [c EXCEPT !.fallback = passes, !.at = at])
    <3> HIDE DEF Go
    <3> QED
      BY <1>4 DEF ResolvePass
  <2>2. ASSUME NEW passes, NEW at \in {"resolve", "edge", "classify"},
               Go(p, [c EXCEPT !.fallback = passes, !.at = at])
        PROVE  CheckInv'
    <3> HIDE DEF c
    <3> DEFINE d == [c EXCEPT !.fallback = passes, !.at = at]
    <3>1. d.at = at
      BY <1>0
    <3> HIDE DEF d
    <3> QED
      BY <1>1, <2>2, <3>1, ToElsewhere DEF Checks, Helping, Building, d
  <2> QED
    BY <1>1, <2>1, <2>2, GoesIdle
<1>5. CASE UpperEdgePass(p)
  <2>1. \/ Go(p, Idle)
        \/ \E passes : \E at \in {"edge", "classify"} :
             Go(p, [c EXCEPT !.edge = passes, !.at = at])
    <3> HIDE DEF Go
    <3> QED
      BY <1>5 DEF UpperEdgePass
  <2>2. ASSUME NEW passes, NEW at \in {"edge", "classify"},
               Go(p, [c EXCEPT !.edge = passes, !.at = at])
        PROVE  CheckInv'
    <3> HIDE DEF c
    <3> DEFINE d == [c EXCEPT !.edge = passes, !.at = at]
    <3>1. d.at = at
      BY <1>0
    <3> HIDE DEF d
    <3> QED
      BY <1>1, <2>2, <3>1, ToElsewhere DEF Checks, Helping, Building, d
  <2> QED
    BY <1>1, <2>1, <2>2, GoesIdle
<1>6. CASE Classify(p)
  <2> DEFINE d == [c EXCEPT !.at = "write"]
  <2>1. Go(p, Idle) \/ \E more : Go(p, With(d, more))
    <3> HIDE DEF Go
    <3> QED
      BY <1>6 DEF Classify
  <2> HIDE DEF c
  <2>2. "at" \in DOMAIN d /\ d.at = "write"
    BY <1>0
  <2> HIDE DEF d
  <2>3. \A more : With(d, more).at = "write"
    BY <2>2, WithAt
  <2> QED
    BY <1>1, <2>1, <2>3, GoesIdle, ToElsewhere DEF Checks, Helping, Building
<1>7. CASE WriteObservation(p)
  <2>1. c.at = "write" /\ (Go(p, Idle) \/ \E k : Go(p, [c EXCEPT !.written = k]))
    <3> HIDE DEF Go
    <3> QED
      BY <1>7 DEF WriteObservation, At
  <2>2. ASSUME NEW k, Go(p, [c EXCEPT !.written = k])
        PROVE  CheckInv'
    <3> HIDE DEF c
    <3> DEFINE d == [c EXCEPT !.written = k]
    <3>1. d.at = "write"
      BY <1>0, <2>1
    <3> HIDE DEF d
    <3> QED
      BY <1>1, <2>2, <3>1, ToElsewhere DEF Checks, Helping, Building, d
  <2> QED
    BY <1>1, <2>1, <2>2, GoesIdle
<1> QED
  BY <1>2, <1>3, <1>4, <1>5, <1>6, <1>7 DEF Observes

\* nor do the admissions,
LEMMA AdmitsElsewhere ==
  ASSUME GraphInv, CheckInv, NEW p \in Procs, Admits(p)
  PROVE  CheckInv'
<1> DEFINE c == cmd[p]
<1>0. "at" \in DOMAIN c
  BY SoundCommand DEF Fields, FieldsAt
<1>1. UNCHANGED <<repo, package, out>>
  BY DEF Admits, StartAdmit, VerifyCandidate, AdmitFrozen, Publish, helperVars
<1>2. CASE StartAdmit(p)
  <2>1. PICK policy, candidate : Starts(p, [at |-> "integrity", policy |-> policy, candidate |-> candidate])
    BY <1>2 DEF StartAdmit
  <2>2. [at |-> "integrity", policy |-> policy, candidate |-> candidate].at = "integrity"
    OBVIOUS
  <2> QED
    BY <1>1, <2>1, <2>2, ToElsewhere DEF Checks, Helping, Building
<1>3. CASE VerifyCandidate(p)
  <2> DEFINE d == [c EXCEPT !.at = "frozen"]
  <2>1. Go(p, Idle) \/ \E more : Go(p, With(d, more))
    <3> HIDE DEF Go
    <3> QED
      BY <1>3 DEF VerifyCandidate
  <2> HIDE DEF c
  <2>2. "at" \in DOMAIN d /\ d.at = "frozen"
    BY <1>0
  <2> HIDE DEF d
  <2>3. \A more : With(d, more).at = "frozen"
    BY <2>2, WithAt
  <2> QED
    BY <1>1, <2>1, <2>3, GoesIdle, ToElsewhere DEF Checks, Helping, Building
<1>4. CASE AdmitFrozen(p)
  <2>1. Go(p, Idle) \/ \E ok : GoIf(p, ok, [c EXCEPT !.at = "publish"])
    BY <1>4 DEF AdmitFrozen
  <2> HIDE DEF c
  <2> DEFINE d == [c EXCEPT !.at = "publish"]
  <2>2. d.at = "publish"
    BY <1>0
  <2> HIDE DEF d
  <2> QED
    BY <1>1, <2>1, <2>2, GoesIdle, IfElsewhere DEF Checks, Helping, Building, d
<1>5. CASE Publish(p)
  BY <1>1, <1>5, GoesIdle DEF Publish
<1> QED
  BY <1>2, <1>3, <1>4, <1>5 DEF Admits

\* nor the gates.
LEMMA GatesElsewhere ==
  ASSUME GraphInv, CheckInv, NEW p \in Procs, Gates(p)
  PROVE  CheckInv'
<1> DEFINE c == cmd[p]
<1>1. UNCHANGED <<repo, package, out>>
  BY DEF Gates, StartVerify, VerifyLocked, StartGenerated, RunGenerated, GateEnds, helperVars
<1>2. CASE StartVerify(p)
  <2>1. PICK lane \in {"minimum", "current"} : \E b \in Prepared(lane, FALSE) :
          Starts(p, With(b, [at |-> "snapshot", then |-> "locked", lane |-> lane]))
    BY <1>2 DEF StartVerify
  <2> DEFINE more == [at |-> "snapshot", then |-> "locked", lane |-> lane]
  <2>2. PICK b \in Prepared(lane, FALSE) : Starts(p, With(b, more))
    BY <2>1
  <2>3. "at" \in DOMAIN more \ DOMAIN b /\ more.at = "snapshot"
    BY PreparedHasNoPlace
  <2> HIDE DEF more
  <2>4. With(b, more).at = "snapshot"
    BY <2>3, WithAt
  <2> QED
    BY <1>1, <2>2, <2>4, ToElsewhere DEF Checks, Helping, Building
<1>3. ASSUME NEW b
      PROVE  [at |-> "passed", base |-> b].at = "passed"
  OBVIOUS
<1>4. CASE VerifyLocked(p)
  <2>1. \E ok : GoIf(p, ok, [at |-> "passed", base |-> c.base])
    BY <1>4 DEF VerifyLocked
  <2> QED
    BY <1>1, <1>3, <2>1, IfElsewhere DEF Checks, Helping, Building
<1>5. CASE StartGenerated(p)
  <2>1. PICK b, id, f : Starts(p, [at |-> "generated", base |-> b, id |-> id, fixture |-> f])
    BY <1>5 DEF StartGenerated
  <2>2. [at |-> "generated", base |-> b, id |-> id, fixture |-> f].at = "generated"
    OBVIOUS
  <2> QED
    BY <1>1, <2>1, <2>2, ToElsewhere DEF Checks, Helping, Building
<1>6. CASE RunGenerated(p)
  <2>1. Go(p, Idle) \/ Go(p, [at |-> "passed", base |-> c.base])
    BY <1>6 DEF RunGenerated
  <2> QED
    BY <1>1, <1>3, <2>1, GoesIdle, ToElsewhere DEF Checks, Helping, Building
<1>7. CASE GateEnds(p)
  BY <1>1, <1>7, GoesIdle DEF GateEnds
<1> QED
  BY <1>2, <1>4, <1>5, <1>6, <1>7 DEF Gates

\* An untouched check of the consumers has compared with the checkout's policy.
LEMMA SynchronisesChecks ==
  ASSUME GraphInv, CheckInv, NEW p \in Procs, Synchronises(p)
  PROVE  CheckInv'
<1> DEFINE c == cmd[p]
<1>0. Fields(c) /\ Checking(c, repo, package, out["out_verify"])
  BY SoundCommand DEF CheckInv
<1>1. UNCHANGED <<package, out>>
  BY DEF Synchronises, StartSync, SyncFile, StartConsumerCheck, ConsumerCheck, helperVars
<1>2. CASE StartSync(p)
  <2>1. PICK policy \in LoadPolicy : Starts(p, [at |-> "sync", policy |-> policy, next |-> 1])
    BY <1>2 DEF StartSync
  <2>2. [at |-> "sync", policy |-> policy, next |-> 1].at = "sync"
    OBVIOUS
  <2>3. UNCHANGED repo
    BY <1>2 DEF StartSync
  <2> QED
    BY <1>1, <2>1, <2>2, <2>3, ToElsewhere DEF Checks, Helping, Building
<1>3. CASE SyncFile(p)
  <2>1. \/ Go(p, Idle) /\ UNCHANGED repo
        \/ GoTouching(p, Idle)
        \/ GoTouching(p, [c EXCEPT !.next = @ + 1])
    BY <1>3 DEF SyncFile
  <2>2. c.at = "sync"
    BY <1>3 DEF SyncFile, At
  <2> DEFINE d == [c EXCEPT !.next = @ + 1]  files == repo'  packaged == package'
  <2> HIDE DEF c
  <2>3. d.at = "sync"
    BY <1>0, <2>2 DEF Fields, FieldsAt
  <2> HIDE DEF d
  <2>4. Idle.at \notin Checks /\ d.at \notin Checks
    BY <2>3 DEF Idle, Checks, Helping, Building
  <2> HIDE DEF files, packaged
  <2>5. /\ Checking(Idle, files, packaged, out["out_verify"])
        /\ Checking(d, files, packaged, out["out_verify"])
    BY <2>4, Elsewhere
  <2>6. CASE GoTouching(p, Idle)
    BY <1>1, <2>5, <2>6, OthersTouchedCheck DEF files, packaged
  <2>7. CASE GoTouching(p, d)
    BY <1>1, <2>5, <2>7, OthersTouchedCheck DEF files, packaged
  <2> QED
    BY <1>1, <2>1, <2>6, <2>7, GoesIdle DEF d
<1>4. CASE StartConsumerCheck(p)
  <2>1. PICK policy \in LoadPolicy :
          Starts(p, [at |-> "consumers", policy |-> policy, touched |-> {}])
    BY <1>4 DEF StartConsumerCheck
  <2> DEFINE d == [at |-> "consumers", policy |-> policy, touched |-> {}]
  <2>2. policy = repo.policy /\ UNCHANGED repo
    BY <1>4 DEF LoadPolicy, StartConsumerCheck
  <2>3. d.at = "consumers" /\ d.policy = policy
    OBVIOUS
  <2> HIDE DEF d
  <2>4. Checking(d, repo, package, out["out_verify"])
    BY <2>2, <2>3 DEF Checking, Untouched, Helping, Building
  <2>5. OutInv'
    BY <1>1 DEF CheckInv, OutInv
  <2> QED
    BY <1>1, <2>1, <2>2, <2>4, <2>5, OneChecks DEF Starts, d
<1>5. CASE ConsumerCheck(p)
  <2> DEFINE d == [c EXCEPT !.at = "consumers checked"]
  <2>1. /\ c.at = "consumers" /\ UNCHANGED repo
        /\ (CheckConsumers(repo, c.policy) /\ Go(p, d)) \/ Go(p, Idle)
    BY <1>5 DEF ConsumerCheck, At, GoIf
  <2> HIDE DEF c
  <2>2. d.at = "consumers checked" /\ d.touched = c.touched
    BY <1>0, <2>1 DEF Fields, FieldsAt
  <2> HIDE DEF d
  <2>3. CASE CheckConsumers(repo, c.policy) /\ Go(p, d)
    <3>1. c.touched = {} => c.policy = repo.policy
      BY <1>0, <2>1 DEF Checking, Untouched, Checks, Helping, Building
    <3>2. c.policy = repo.policy => ExactConsumers(repo)
      BY <2>3 DEF CheckConsumers, ExactConsumers, Rendered, ReplaceGeneratedDocs
    <3>3. Checking(d, repo, package, out["out_verify"])
      BY <2>2, <3>1, <3>2 DEF Checking, Untouched, Helping, Building
    <3>4. OutInv'
      BY <1>1 DEF CheckInv, OutInv
    <3> QED
      BY <1>1, <2>1, <2>3, <3>3, <3>4, OneChecks DEF Go
  <2> QED
    BY <1>1, <2>1, <2>3, GoesIdle
<1> QED
  BY <1>2, <1>3, <1>4, <1>5 DEF Synchronises

\* The inventory is determined by the graph and the lock.
LEMMA OneInventory ==
  ASSUME NEW graph, NEW lock, NEW inventory \in DependencyInventory(graph, lock)
  PROVE  {inventory} = DependencyInventory(graph, lock)
<1>1. \/ DependencyInventory(graph, lock) = {}
      \/ \E i : DependencyInventory(graph, lock) = {i}
  BY Zenon DEF DependencyInventory
<1> QED
  BY <1>1

\* An untouched check of the helper has built, recorded and compared what the
\* sources make, though builds share its directory (build.js).
LEMMA PackagesChecks ==
  ASSUME GraphInv, CheckInv, NEW p \in Procs, Packages(p)
  PROVE  CheckInv'
<1> DEFINE c == cmd[p]
           recorded == Checker \cup {"built", "inventory", "provenance", "notices"}
           build == out["out_verify"]  build2 == out'["out_verify"]
           made == [code |-> repo.helper.code, graph |-> repo.helper.graph]
<1>0. Fields(c) /\ Checking(c, repo, package, build) /\ OutInv
  BY SoundCommand DEF CheckInv
<1>1. UNCHANGED repo
  BY DEF Packages, StartHelper, HelperEmpty, HaxeReads, HaxeWrites, CopyLock, CargoReads, CargoLinks,
         ReadBinary, HelperInventory, HelperRecord, CopyBinary, WriteRecord, ComparePackage, CheckEnds
<1>f. /\ c.at \in Helping => c.check \in BOOLEAN
      /\ c.at \in Building /\ c.check = TRUE /\ c.touched = {} => Current(build, repo)
      /\ c.at = "crate" /\ c.touched = {} => c.made = made
      /\ c.at = "link" /\ c.check = TRUE /\ c.touched = {} => c.linked = BinaryOf(repo)
      /\ c.at \in {"metadata", "record"} /\ c.check = TRUE /\ c.touched = {} => c.built = BinaryOf(repo)
      /\ c.at = "record" /\ c.check = TRUE /\ c.touched = {} =>
           {c.inventory} = DependencyInventory(repo.helper.graph, repo.helper.lock)
  <2> HIDE DEF c, build
  <2> QED
    BY <1>0 DEF Checking, Untouched, Checks, Helping, Building
<1>r. c.check \in BOOLEAN =>
        /\ OutputRoot(c) \in {"out", "out_verify"}
        /\ c.check = TRUE <=> OutputRoot(c) = "out_verify"
  BY DEF OutputRoot
<1>i. CASE Go(p, Idle) /\ UNCHANGED <<package, out>>
  BY <1>1, <1>i, GoesIdle
\* The step leads to a place of which nothing more is known than of the directory.
<1>p. ASSUME NEW at \in {"haxe", "lock", "cargo", "read"}, NEW dir, c.at \in Helping,
             c.touched = {} /\ c.check = TRUE => Current(dir, repo)
      PROVE  Checking(Works(c, at, Nothing), repo, package, dir)
  <2> DEFINE d == Works(c, at, Nothing)
  <2>1. DOMAIN Nothing \cap Checker = {}
    BY DEF Nothing
  <2>2. d.at = at /\ d.check = c.check /\ d.touched = c.touched
    BY <2>1, WorksHolds
  <2> HIDE DEF d, c
  <2>3. Checking(d, repo, package, dir)
    BY <1>p, <1>f, <2>2 DEF Checking, Untouched, Building, Helping
  <2> QED
    BY <2>3 DEF d
<1>2. CASE StartHelper(p)
  <2>1. PICK check \in BOOLEAN : Starts(p, [at |-> "empty", check |-> check, touched |-> {}])
    BY <1>2 DEF StartHelper
  <2> DEFINE d == [at |-> "empty", check |-> check, touched |-> {}]
  <2>2. d.at = "empty" /\ d.check \in BOOLEAN
    OBVIOUS
  <2> HIDE DEF d
  <2>3. UNCHANGED <<package, out>>
    BY <1>2 DEF StartHelper, helperVars
  <2>4. Checking(d, repo, package, build)
    BY <2>2 DEF Checking, Untouched, Building
  <2>5. OutInv'
    BY <1>0, <2>3 DEF OutInv
  <2> QED
    BY <1>1, <2>1, <2>3, <2>4, <2>5, OneChecks DEF Starts, d
<1>3. CASE HelperEmpty(p)
  <2>1. /\ c.at = "empty" /\ UNCHANGED package /\ Go(p, Works(c, "haxe", Nothing))
        /\ out' = [out EXCEPT ![OutputRoot(c)] = NotBuilt]
    BY <1>3 DEF HelperEmpty, At
  <2>2. c.at \in Helping
    BY <2>1 DEF Helping, Building
  <2> HIDE DEF c
  <2>3. /\ OutInv'
        /\ c.check = TRUE => build2 = NotBuilt
        /\ c.check = FALSE => build2 = build
    BY <1>0, <1>f, <1>r, <2>1, <2>2 DEF OutInv, NotBuilt
  <2>4. Current(NotBuilt, repo)
    BY DEF Current, NotBuilt
  <2> HIDE DEF build, build2
  <2>5. Checking(Works(c, "haxe", Nothing), repo, package, build2)
    BY <1>p, <2>2, <2>3, <2>4
  <2>6. Current(build, repo) => Current(build2, repo)
    BY <1>f, <2>2, <2>3, <2>4
  <2> QED
    BY <1>1, <2>1, <2>3, <2>5, <2>6, OneChecks DEF Go, build, build2
<1>4. CASE HaxeReads(p)
  <2> DEFINE held == [made |-> made]  d == Works(c, "crate", held)
  <2>1. c.at = "haxe" /\ UNCHANGED <<package, out>> /\ Go(p, d)
    BY <1>4 DEF HaxeReads, At, helperVars
  <2>2. c.check \in BOOLEAN
    BY <1>f, <2>1 DEF Helping, Building
  <2>3. DOMAIN held \cap Checker = {} /\ "made" \in DOMAIN held /\ held.made = made
    BY DEF Checker
  <2> HIDE DEF held, c
  <2>4. d.at = "crate" /\ d.check = c.check /\ d.touched = c.touched /\ d.made = made
    BY <2>3, WorksHolds
  <2> HIDE DEF d, build
  <2>5. Checking(d, repo, package, build)
    BY <1>f, <2>1, <2>2, <2>4 DEF Checking, Untouched, Building
  <2>6. OutInv'
    BY <1>0, <2>1 DEF OutInv
  <2> QED
    BY <1>1, <2>1, <2>5, <2>6, OneChecks DEF Go, build
<1>5. CASE HaxeWrites(p)
  <2> DEFINE root == OutputRoot(c)
  <2>1. /\ c.at = "crate" /\ UNCHANGED package /\ GoBuilding(p, Works(c, "lock", Nothing))
        /\ out' = [out EXCEPT ![root] = [@ EXCEPT !.code = c.made.code, !.graph = c.made.graph]]
    BY <1>5 DEF HaxeWrites, At
  <2>2. c.at \in Helping /\ c.at \in Building
    BY <2>1 DEF Helping, Building
  <2> HIDE DEF c, root
  <2>3. c.check \in BOOLEAN /\ root \in {"out", "out_verify"} /\ (c.check = TRUE <=> root = "out_verify")
    BY <1>f, <1>r, <2>2 DEF root
  <2>4. /\ OutInv'
        /\ c.check = TRUE => /\ build2.code = c.made.code /\ build2.graph = c.made.graph
                             /\ build2.binary = build.binary
        /\ c.check = FALSE => build2 = build
    BY <1>0, <2>1, <2>3 DEF OutInv
  <2> HIDE DEF build, build2
  <2>5. c.touched = {} /\ c.check = TRUE => Current(build2, repo)
    BY <1>f, <2>1, <2>2, <2>4 DEF Current
  <2>6. Checking(Works(c, "lock", Nothing), repo, package, build2)
    BY <1>p, <2>2, <2>5
  <2> QED
    BY <1>1, <2>1, <2>3, <2>4, <2>5, <2>6, BuildingChecks DEF c, build, build2
<1>6. CASE CopyLock(p)
  <2>1. c.at = "lock" /\ UNCHANGED package
    BY <1>6 DEF CopyLock, At
  <2>2. CASE Removed(p)
    BY <2>1, <2>2, <1>i DEF Removed
  <2>3. CASE IntoDirectory(p, "lock", repo.helper.lock) /\ Go(p, Works(c, "cargo", Nothing))
    <3> DEFINE root == OutputRoot(c)
    <3>1. out' = [out EXCEPT ![root] = [@ EXCEPT !["lock"] = repo.helper.lock]]
      BY <2>3 DEF IntoDirectory
    <3>2. c.at \in Helping /\ c.at \in Building
      BY <2>1 DEF Helping, Building
    <3> HIDE DEF c
    <3>3. root \in {"out", "out_verify"}
      BY <1>f, <1>r, <3>2
    <3> HIDE DEF root
    <3>4. /\ OutInv'
          /\ build2.code = build.code /\ build2.graph = build.graph /\ build2.binary = build.binary
      BY <1>0, <3>1, <3>3 DEF OutInv
    <3> HIDE DEF build, build2
    <3>5. Current(build, repo) => Current(build2, repo)
      BY <3>4 DEF Current
    <3>6. Checking(Works(c, "cargo", Nothing), repo, package, build2)
      BY <1>f, <1>p, <3>2, <3>5
    <3> QED
      BY <1>1, <2>1, <2>3, <3>4, <3>5, <3>6, OneChecks DEF Go, build, build2
  <2> QED
    BY <1>6, <2>2, <2>3 DEF CopyLock
<1>7. CASE CargoReads(p)
  <2> DEFINE dir == out[OutputRoot(c)]
             linked == [code |-> dir.code, channel |-> repo.files.toml.channel]
             held == [linked |-> linked]  d == Works(c, "link", held)
  <2>1. /\ c.at = "cargo" /\ UNCHANGED <<package, out>>
        /\ (Complete(dir) /\ Go(p, d)) \/ Go(p, Idle)
    BY <1>7 DEF CargoReads, At, GoIf, helperVars
  <2>2. c.check \in BOOLEAN /\ c.at \in Building
    BY <1>f, <2>1 DEF Helping, Building
  <2>3. DOMAIN held \cap Checker = {} /\ "linked" \in DOMAIN held /\ held.linked = linked
    BY DEF Checker
  <2>4. c.check = TRUE => dir = build
    BY DEF OutputRoot
  <2> HIDE DEF held, c, build
  <2>5. d.at = "link" /\ d.check = c.check /\ d.touched = c.touched /\ d.linked = linked
    BY <2>3, WorksHolds
  <2> HIDE DEF d, dir
  <2>6. Complete(dir) /\ c.check = TRUE /\ c.touched = {} => linked = BinaryOf(repo)
    BY <1>f, <2>2, <2>4 DEF Complete, Current, BinaryOf
  <2> HIDE DEF linked
  <2>7. CASE Complete(dir) /\ Go(p, d)
    <3>1. Checking(d, repo, package, build)
      BY <1>f, <2>2, <2>5, <2>6, <2>7 DEF Checking, Untouched, Building
    <3>2. OutInv'
      BY <1>0, <2>1 DEF OutInv
    <3> QED
      BY <1>1, <2>1, <2>7, <3>1, <3>2, OneChecks DEF Go, build
  <2> QED
    BY <2>1, <2>7, <1>i
<1>8. CASE CargoLinks(p)
  <2>1. c.at = "link" /\ UNCHANGED package
    BY <1>8 DEF CargoLinks, At
  <2>2. CASE Removed(p)
    BY <2>1, <2>2, <1>i DEF Removed
  <2>3. CASE IntoDirectory(p, "binary", c.linked) /\ GoBuilding(p, Works(c, "read", Nothing))
    <3> DEFINE root == OutputRoot(c)
    <3>1. out' = [out EXCEPT ![root] = [@ EXCEPT !["binary"] = c.linked]]
      BY <2>3 DEF IntoDirectory
    <3>2. c.at \in Helping /\ c.at \in Building
      BY <2>1 DEF Helping, Building
    <3> HIDE DEF c, root
    <3>3. c.check \in BOOLEAN /\ root \in {"out", "out_verify"} /\ (c.check = TRUE <=> root = "out_verify")
      BY <1>f, <1>r, <3>2 DEF root
    <3>4. /\ OutInv'
          /\ c.check = TRUE => /\ build2.code = build.code /\ build2.graph = build.graph
                               /\ build2.binary = c.linked
          /\ c.check = FALSE => build2 = build
      BY <1>0, <3>1, <3>3 DEF OutInv
    <3> HIDE DEF build, build2
    <3>5. c.touched = {} /\ c.check = TRUE => Current(build2, repo)
      BY <1>f, <2>1, <3>2, <3>4 DEF Current
    <3>6. Checking(Works(c, "read", Nothing), repo, package, build2)
      BY <1>p, <3>2, <3>5
    <3> QED
      BY <1>1, <2>1, <2>3, <3>3, <3>4, <3>5, <3>6, BuildingChecks DEF c, build, build2
  <2> QED
    BY <1>8, <2>2, <2>3 DEF CargoLinks
<1>9. CASE ReadBinary(p)
  <2> DEFINE binary == out[OutputRoot(c)].binary
             held == [built |-> binary]  d == Works(c, "metadata", held)
  <2>1. /\ c.at = "read" /\ UNCHANGED <<package, out>>
        /\ (binary # Null /\ Go(p, d)) \/ Go(p, Idle)
    BY <1>9 DEF ReadBinary, At, GoIf, helperVars
  <2>2. c.check \in BOOLEAN /\ c.at \in Building
    BY <1>f, <2>1 DEF Helping, Building
  <2>3. DOMAIN held \cap Checker = {} /\ "built" \in DOMAIN held /\ held.built = binary
    BY DEF Checker
  <2>4. c.check = TRUE => binary = build.binary
    BY DEF OutputRoot
  <2> HIDE DEF held, c, build
  <2>5. d.at = "metadata" /\ d.check = c.check /\ d.touched = c.touched /\ d.built = binary
    BY <2>3, WorksHolds
  <2> HIDE DEF d, binary
  <2>6. binary # Null /\ c.check = TRUE /\ c.touched = {} => binary = BinaryOf(repo)
    BY <1>f, <2>2, <2>4 DEF Current
  <2>7. CASE binary # Null /\ Go(p, d)
    <3>1. Checking(d, repo, package, build)
      BY <1>f, <2>2, <2>5, <2>6, <2>7 DEF Checking, Untouched, Building
    <3>2. OutInv'
      BY <1>0, <2>1 DEF OutInv
    <3> QED
      BY <1>1, <2>1, <2>7, <3>1, <3>2, OneChecks DEF Go, build
  <2> QED
    BY <2>1, <2>7, <1>i
<1>10. CASE HelperInventory(p)
  <2> DEFINE dir == out[OutputRoot(c)]  lock == repo.helper.lock
             Next1(inventory) == Go(p, Works(c, "record", [built |-> c.built, inventory |-> inventory]))
  <2>1. c.at = "metadata" /\ UNCHANGED <<package, out>>
    BY <1>10 DEF HelperInventory, At, helperVars
  <2>2. \/ Go(p, Idle)
        \/ \E inventory : /\ Complete(dir) /\ inventory \in DependencyInventory(dir.graph, lock)
                          /\ Next1(inventory)
    <3> HIDE DEF Go
    <3> QED
      BY <1>10 DEF HelperInventory
  <2>3. ASSUME NEW inventory, Complete(dir), inventory \in DependencyInventory(dir.graph, lock),
               Next1(inventory)
        PROVE  CheckInv'
    <3> DEFINE held == [built |-> c.built, inventory |-> inventory]  d == Works(c, "record", held)
    <3>1. Go(p, d)
      BY <2>3
    <3>2. /\ DOMAIN held \cap Checker = {} /\ {"built", "inventory"} \subseteq DOMAIN held
          /\ held.built = c.built /\ held.inventory = inventory
      BY DEF Checker
    <3>3. c.check \in BOOLEAN /\ c.at \in Building
      BY <1>f, <2>1 DEF Helping, Building
    <3>4. c.check = TRUE => dir = build
      BY DEF OutputRoot
    <3>5. {inventory} = DependencyInventory(dir.graph, lock)
      BY <2>3, OneInventory
    <3> HIDE DEF held, c, build, dir
    <3>6. /\ d.at = "record" /\ d.check = c.check /\ d.touched = c.touched
          /\ d.built = c.built /\ d.inventory = inventory
      BY <3>2, WorksHolds
    <3> HIDE DEF d
    <3>7. c.check = TRUE /\ c.touched = {} =>
            {inventory} = DependencyInventory(repo.helper.graph, repo.helper.lock)
      BY <1>f, <2>3, <3>3, <3>4, <3>5 DEF Complete, Current
    <3>8. Checking(d, repo, package, build)
      BY <1>f, <2>1, <3>3, <3>6, <3>7 DEF Checking, Untouched, Building
    <3>9. OutInv'
      BY <1>0, <2>1 DEF OutInv
    <3> QED
      BY <1>1, <2>1, <3>1, <3>8, <3>9, OneChecks DEF Go, build
  <2> QED
    BY <2>1, <2>2, <2>3, <1>i
<1>11. CASE HelperRecord(p)
  <2> DEFINE provenance == Provenance(c.built)  notices == ThirdPartyNotices(c.inventory)
             held == [built |-> c.built, inventory |-> c.inventory, provenance |-> provenance,
                      notices |-> notices]
             at == IF c.check THEN "compare" ELSE "binary"
             d == Works(c, at, held)
  <2>1. c.at = "record" /\ UNCHANGED <<package, out>> /\ Go(p, d)
    BY <1>11 DEF HelperRecord, At, helperVars
  <2>2. c.check \in BOOLEAN
    BY <1>f, <2>1 DEF Helping, Building
  <2>3. /\ DOMAIN held \cap Checker = {}
        /\ {"built", "inventory", "provenance", "notices"} \subseteq DOMAIN held
        /\ held.built = c.built /\ held.inventory = c.inventory
        /\ held.provenance = provenance /\ held.notices = notices
    BY DEF Checker
  <2>4. provenance = [binary |-> c.built, sources |-> SourcesOf(repo)]
    BY DEF Provenance, SourceInputIdentity, SourcesOf
  <2>5. /\ at \in {"compare", "binary"}
        /\ at = "compare" => c.check = TRUE
    BY <2>2
  <2> HIDE DEF held, c, build, provenance, at
  <2>6. /\ d.at = at /\ d.check = c.check /\ d.touched = c.touched
        /\ d.built = c.built /\ d.inventory = c.inventory
        /\ d.provenance = provenance /\ d.notices = notices
    BY <2>3, WorksHolds
  <2> HIDE DEF d
  <2>7. at = "compare" /\ c.touched = {} => Recording(d, repo)
    BY <1>f, <2>1, <2>4, <2>5, <2>6 DEF Recording
  <2>8. Checking(d, repo, package, build)
    BY <2>2, <2>5, <2>6, <2>7 DEF Checking, Untouched, Building
  <2>9. OutInv'
    BY <1>0, <2>1 DEF OutInv
  <2> QED
    BY <1>1, <2>1, <2>8, <2>9, OneChecks DEF Go, build
<1>12. ASSUME NEW at \in {"inventory", "provenance", "notices"}, DOMAIN c = recorded,
             c.at \in Helping, NEW packaged
      PROVE  Checking([c EXCEPT !.at = at], repo, packaged, build)
  <2> DEFINE d == [c EXCEPT !.at = at]
  <2>1. c.check \in BOOLEAN
    BY <1>0, <1>12 DEF Checking
  <2> HIDE DEF c
  <2>2. d.at = at /\ d.check = c.check
    BY <1>12 DEF Checker
  <2> HIDE DEF d
  <2>3. Checking(d, repo, packaged, build)
    BY <2>1, <2>2 DEF Checking, Untouched, Building
  <2> QED
    BY <2>3 DEF d
<1>13. CASE CopyBinary(p)
  <2> DEFINE packaged == package'  files == repo'
  <2>1. c.at = "binary" /\ UNCHANGED out
    BY <1>13 DEF CopyBinary, At
  <2>2. DOMAIN c = recorded
    BY <1>0, <2>1 DEF Fields, FieldsAt
  <2>3. \/ Go(p, Idle) /\ UNCHANGED package
        \/ GoTouching(p, [c EXCEPT !.at = "inventory"])
    BY <1>13 DEF CopyBinary
  <2> HIDE DEF packaged, files
  <2>4. Checking([c EXCEPT !.at = "inventory"], files, packaged, build)
    BY <1>1, <1>12, <2>1, <2>2 DEF Helping, Building, files
  <2> QED
    BY <1>1, <2>1, <2>3, <2>4, GoesIdle, OthersTouchedCheck DEF packaged, files
<1>14. CASE WriteRecord(p)
  <2> DEFINE packaged == package'  files == repo'
  <2>1. PICK k \in DOMAIN RecordOrder :
          /\ c.at = RecordOrder[k]
          /\ GoTouching(p, IF k = 3 THEN Idle ELSE [c EXCEPT !.at = RecordOrder[k + 1]])
    BY <1>14 DEF WriteRecord, At
  <2>2. k \in {1, 2, 3} /\ RecordOrder[k] \in {"inventory", "provenance", "notices"}
    BY DEF RecordOrder
  <2>3. DOMAIN c = recorded /\ c.at \in Helping
    BY <1>0, <2>1, <2>2 DEF Fields, FieldsAt, Helping, Building
  <2>4. k # 3 => RecordOrder[k + 1] \in {"provenance", "notices"}
    BY <2>2 DEF RecordOrder
  <2>5. UNCHANGED out
    BY <1>14 DEF WriteRecord
  <2> HIDE DEF packaged, files
  <2>6. k # 3 => Checking([c EXCEPT !.at = RecordOrder[k + 1]], files, packaged, build)
    BY <1>1, <1>12, <2>3, <2>4 DEF files
  <2>7. Idle.at \notin Checks
    BY DEF Idle, Checks, Helping, Building
  <2>8. Checking(Idle, files, packaged, build)
    BY <2>7, Elsewhere
  <2> QED
    BY <2>1, <2>5, <2>6, <2>8, OthersTouchedCheck DEF packaged, files
<1>15. CASE ComparePackage(p)
  <2> DEFINE d == [c EXCEPT !.at = "helper checked"]
  <2>1. /\ c.at = "compare" /\ UNCHANGED <<package, out>>
        /\ (PackageAgrees(c) /\ Go(p, d)) \/ Go(p, Idle)
    BY <1>15 DEF ComparePackage, At, GoIf, helperVars
  <2>2. DOMAIN c = recorded /\ c.check = TRUE
    BY <1>0, <2>1 DEF Fields, FieldsAt, Checking
  <2> HIDE DEF c
  <2>3. d.at = "helper checked" /\ d.check = TRUE /\ d.touched = c.touched
    BY <2>2 DEF Checker
  <2> HIDE DEF d
  <2>4. CASE PackageAgrees(c) /\ Go(p, d)
    <3>1. c.touched = {} => Recording(c, repo)
      BY <1>0, <2>1 DEF Checking, Untouched, Checks, Helping, Building
    <3>2. Recording(c, repo) => ExactHelper(repo, package)
      BY <2>4 DEF Recording, PackageAgrees, ExactHelper
    <3>3. Checking(d, repo, package, build)
      BY <2>3, <3>1, <3>2 DEF Checking, Untouched, Building
    <3>4. OutInv'
      BY <1>0, <2>1 DEF OutInv
    <3> QED
      BY <1>1, <2>1, <2>4, <3>3, <3>4, OneChecks DEF Go
  <2> QED
    BY <1>1, <2>1, <2>4, GoesIdle
<1>16. CASE CheckEnds(p)
  BY <1>1, <1>16, GoesIdle DEF CheckEnds, helperVars
<1> QED
  BY <1>2, <1>3, <1>4, <1>5, <1>6, <1>7, <1>8, <1>9, <1>10, <1>11, <1>13, <1>14, <1>15,
     <1>16 DEF Packages

-----------------------------------------------------------------------------
\* Who dies ends, and an edit touches every check.
LEMMA PeopleAndDeathsCheck ==
  ASSUME GraphInv, CheckInv,
         \/ \E p \in Procs : Dies(p)
         \/ EditFiles \/ EditLocator \/ RegistryMoves \/ AlterBaseline
  PROVE  CheckInv'
<1>1. CASE \E p \in Procs : Dies(p)
  <2>1. Idle.at \notin Checks
    BY DEF Idle, Checks, Helping, Building
  <2> QED
    BY <1>1, <2>1, OneElsewhere DEF Dies, helperVars
<1>2. CASE EditFiles \/ EditLocator \/ RegistryMoves \/ AlterBaseline
  <2> DEFINE files == repo'
  <2>1. cmd' = Disturbed /\ UNCHANGED <<package, out>>
    BY <1>2 DEF EditFiles, EditLocator, RegistryMoves, AlterBaseline, Edited, helperVars
  <2> HIDE DEF files
  <2> QED
    BY <2>1, AllTouchedCheck DEF files
<1> QED
  BY <1>1, <1>2

\* The invariant of the checks holds in every state.
THEOREM ChecksHold == Spec => []CheckInv
<1>1. UpkeepInit => CheckInv
  <2> SUFFICES ASSUME UpkeepInit PROVE CheckInv
    OBVIOUS
  <2>1. /\ cmd = [p \in Procs |-> Idle]
        /\ out = [d \in {"out", "out_verify"} |-> NotBuilt]
    BY DEF UpkeepInit, Init, HelperInit
  <2>2. OutInv
    BY <2>1 DEF OutInv, NotBuilt
  <2>3. Idle.at \notin Checks
    BY DEF Idle, Checks, Helping, Building
  <2> QED
    BY <2>1, <2>2, <2>3, Elsewhere DEF CheckInv
<1>2. GraphInv /\ CheckInv /\ [Next]_upkeepVars => CheckInv'
  <2> SUFFICES ASSUME GraphInv, CheckInv, [Next]_upkeepVars PROVE CheckInv'
    OBVIOUS
  <2>1. CASE UNCHANGED upkeepVars
    BY <2>1 DEF upkeepVars, helperVars, CheckInv, OutInv
  <2> QED
    BY <2>1, ObservesElsewhere, AdmitsElsewhere, GatesElsewhere, SynchronisesChecks,
       PackagesChecks, PeopleAndDeathsCheck DEF Next
<1> QED
  BY <1>1, <1>2, GraphHolds, PTL DEF Spec

\* A check that passed while nobody wrote found the generated files or the
\* packaged helper exactly as the sources make them (checkConsumers, build.js).
THEOREM ChecksAreExact == Spec => []PassedCheckIsExact
<1>1. CheckInv => PassedCheckIsExact
  <2> SUFFICES ASSUME CheckInv, NEW p \in Procs
               PROVE  /\ cmd[p].at = "consumers checked" /\ cmd[p].touched = {} => ConsumersExact
                      /\ cmd[p].at = "helper checked" /\ cmd[p].touched = {} => HelperExact
    BY DEF PassedCheckIsExact
  <2> DEFINE c == cmd[p]
  <2>1. Checking(c, repo, package, out["out_verify"])
    BY DEF CheckInv
  <2>2. ExactConsumers(repo) => ConsumersExact
    BY DEF ExactConsumers, ConsumersExact
  <2>3. ExactHelper(repo, package) => HelperExact
    BY DEF ExactHelper, HelperExact, BinaryOf, SourcesOf, SourceInputIdentity
  <2> HIDE DEF c
  <2> SUFFICES /\ c.at = "consumers checked" /\ c.touched = {} => ConsumersExact
               /\ c.at = "helper checked" /\ c.touched = {} => HelperExact
    BY DEF c
  <2> QED
    BY <2>1, <2>2, <2>3 DEF Checking, Untouched, Checks, Helping, Building
<1> QED
  BY <1>1, ChecksHold, PTL
=============================================================================
