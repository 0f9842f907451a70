--------------------------- MODULE ReleaseLedger ---------------------------
(* What a reader of the releases page may rely on: a version is given to one *)
(* commit, for ever, and its published files are made from that commit, for  *)
(* ever.                                                                     *)
EXTENDS Naturals

CONSTANTS Commits, Contents(_, _)   \* what a package of a commit and version holds

VARIABLES
  tagOf,       \* the commit of each version
  published    \* what is published of each version

ledgerVars == <<tagOf, published>>

Extends(f, g) == \A v \in DOMAIN f : v \in DOMAIN g /\ g[v] = f[v]

Init == \A v \in DOMAIN published : v \in DOMAIN tagOf

TagVersion ==
  /\ Extends(tagOf, tagOf')
  /\ \E v \in DOMAIN tagOf' : DOMAIN tagOf' = DOMAIN tagOf \cup {v} /\ tagOf'[v] \in Commits
  /\ UNCHANGED published

Publish ==
  /\ Extends(published, published')
  /\ \E v \in DOMAIN tagOf :
       /\ DOMAIN published' = DOMAIN published \cup {v}
       /\ published'[v] = Contents(tagOf[v], v)
  /\ UNCHANGED tagOf

Next == TagVersion \/ Publish

Spec == Init /\ [][Next]_ledgerVars
=============================================================================
