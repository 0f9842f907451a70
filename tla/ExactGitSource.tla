--------------------------- MODULE ExactGitSource ---------------------------
(* exact-git-source.js, reviewed-source.js and package-input-cleanliness.js: *)
(* what the release code asserts of the repository it runs from, and how it  *)
(* reads the files of a commit.  An object is named by its content, so that  *)
(* a store is sound where every object reads as its own name.                *)
EXTENDS Naturals, Sequences, FiniteSets, SequencesExt

CONSTANTS
  Commits,
  Objects,         \* blobs and whatever else a tree entry can name
  Tree,            \* the entries git ls-tree lists for a commit, in order
  ReleaseInputs,   \* files package-haxelib.sh or the release tools read
  Preloaded,       \* files node or a shell loads before the release runs
  Damaged,         \* what a damaged or missing object reads as
  NoTree, NoReceipt

TreeEntry == [file : Seq(STRING), type : STRING, mode : STRING, object : Objects]

ASSUME SourceAssumption ==
  /\ \A c \in Commits : Tree[c] \in Seq(TreeEntry)
  /\ Damaged \notin Objects

Entries(c) == {Tree[c][i] : i \in DOMAIN Tree[c]}
FilesIn(c) == {e.file : e \in Entries(c)}
EntryOf(c, f) == CHOOSE e \in Entries(c) : e.file = f

\* Also the rule for the names in an archive.
SafeName(file) ==
  file # <<>> /\ \A i \in DOMAIN file : file[i] \notin {"", ".", "..", "\\", "C:"}

Regular(e) == e.type = "blob" /\ e.mode \in {"100644", "100755"}
Executable(e) == e.mode = "100755"

-----------------------------------------------------------------------------
(* A tag is its name, the object it names and the commit it leads to: an     *)
(* annotated tag is an object of its own.                                    *)
Records(tags) ==
  {<<t.object, t.ref, "direct">> : t \in tags} \cup
  {<<t.commit, t.ref, "peeled">> : t \in {u \in tags : u.object # u.commit}}

Refs(records) == {r[2] : r \in records}

-----------------------------------------------------------------------------
(* The release repository: its object store, the administration of git, the  *)
(* index, the working tree, and files git does not track.  hidden are the    *)
(* files whose changes git status does not show.                             *)
Checkout(c) ==
  [f \in FilesIn(c) |->
    LET e == EntryOf(c, f) IN [bytes |-> e.object, executable |-> Executable(e)]]

\* [core] and [remote] as written by bootstrapRepository.
ReviewedConfig == "reviewed"

HistorySubstituted(r) == r.admin \cap {"commondir", "grafts", "shallow", "replace"} # {}
\* A read sees the store alone: no environment, replacement or grafted history.
ReadObject(r, e) == r.store[e.object]
ObjectIntact(r, e) == ReadObject(r, e) = e.object
ObjectsIntact(r, c) ==
  /\ ~HistorySubstituted(r) /\ "alternates" \notin r.admin
  /\ \A e \in Entries(c) : e.type = "blob" => ObjectIntact(r, e)

CommitEntriesSafe(c) ==
  /\ \A e \in Entries(c) : SafeName(e.file)
  /\ Cardinality(FilesIn(c)) = Len(Tree[c])

\* The files of a commit, read object by object; NoTree when anything is wrong.
Materialize(r, c) ==
  IF /\ ObjectsIntact(r, c) /\ CommitEntriesSafe(c)
     /\ \A e \in Entries(c) : Regular(e) /\ ObjectIntact(r, e)
  THEN [f \in FilesIn(c) |->
         LET e == EntryOf(c, f) IN [bytes |-> ReadObject(r, e), executable |-> Executable(e)]]
  ELSE NoTree

ReleaseInputModes(c) == \A e \in Entries(c) : e.file \in ReleaseInputs => Regular(e)

\* withReviewedSource: a fresh directory with the files of the commit.
ReviewedSource(r, c) == IF ReleaseInputModes(c) THEN Materialize(r, c) ELSE NoTree

\* The working tree has every file of the commit as the commit has it.
WorktreeMatches(r, c) ==
  /\ ObjectsIntact(r, c) /\ CommitEntriesSafe(c)
  /\ \A e \in Entries(c) :
       /\ Regular(e) /\ ObjectIntact(r, e)
       /\ e.file \in DOMAIN r.work
       /\ r.work[e.file] = [bytes |-> e.object, executable |-> Executable(e)]

IndexMatches(r, c) == r.index = Entries(c)

AdministrationMatches(r) ==
  /\ r.config = ReviewedConfig /\ r.receipt.config = r.config
  /\ r.hooks = {}
  /\ r.admin \cap {"commondir", "config.worktree", "grafts", "alternates",
                   "attributes", "shallow"} = {}

NoPreloadShadows(r) == r.untracked \cap Preloaded = {}

\* The tags are those of the bootstrap and, once it is pushed, the new one.
TagsMatch(r, c, remote, newTags) ==
  LET known == r.receipt.tags
      expected == known \cup {<<c, t, "direct">> : t \in newTags}
  IN /\ newTags \cap Refs(known) = {}
     /\ Records(remote) = expected /\ Records(r.tags) = expected

ExactBootstrap(r, c, remote, newTags) ==
  /\ r.receipt # NoReceipt /\ r.receipt.commit = c
  /\ AdministrationMatches(r) /\ ~HistorySubstituted(r)
  /\ TagsMatch(r, c, remote, newTags)
  /\ IndexMatches(r, c) /\ WorktreeMatches(r, c) /\ NoPreloadShadows(r)

\* git status as far as it can see (the hash of what lies in the working tree
\* against the one in the index, whatever the store holds), then what would
\* enter a package untracked.
TrackedTreeClean(r, c) ==
  /\ r.index = Entries(c)
  /\ \A e \in Entries(c) : e.file \notin r.hidden =>
       /\ e.file \in DOMAIN r.work /\ r.work[e.file].bytes = e.object
  /\ r.untracked \cap ReleaseInputs = {}
  /\ \A e \in r.index : e.file \in ReleaseInputs => e.mode \in {"100644", "100755"}

-----------------------------------------------------------------------------
EmptyRepository ==
  [store |-> [o \in Objects |-> o], admin |-> {}, index |-> {}, work |-> <<>>,
   hidden |-> {}, untracked |-> {}, config |-> "none", hooks |-> {}, tags |-> {},
   receipt |-> NoReceipt]

\* What bootstrapRepository makes of a clone whose objects can be trusted.
CanBootstrap(c) ==
  CommitEntriesSafe(c) /\ \A e \in Entries(c) : Regular(e)

Bootstrapped(c, remote) ==
  [EmptyRepository EXCEPT
    !.index = Entries(c), !.work = Checkout(c), !.config = ReviewedConfig,
    !.tags = remote,
    !.receipt = [commit |-> c, tags |-> Records(remote), config |-> ReviewedConfig]]

\* What a tool of the job may do to the repository it runs in.
Disturbed(r, c) ==
  LET some == CHOOSE f \in FilesIn(c) : f \in ReleaseInputs
      change == [r.work[some] EXCEPT !.bytes = Damaged]
  IN { [r EXCEPT !.work[some] = change, !.hidden = {some}],
       [r EXCEPT !.work[some].executable = ~@],
       [r EXCEPT !.store[EntryOf(c, some).object] = Damaged],
       [r EXCEPT !.admin = {"replace"}],
       [r EXCEPT !.index = @ \ {EntryOf(c, some)}],
       [r EXCEPT !.config = "other"],
       [r EXCEPT !.hooks = {"pre-push"}] }
     \cup {[r EXCEPT !.untracked = {f}] : f \in (ReleaseInputs \cup Preloaded) \ FilesIn(c)}
=============================================================================
