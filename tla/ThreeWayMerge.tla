--------------------------- MODULE ThreeWayMerge ---------------------------
(***************************************************************************)
(* What bidirectional synchronization promises, said about whole trees and *)
(* without plans: the textbook three-way merge of two trees over a common  *)
(* base.  A tree is a function from existing paths to nodes; two nodes are *)
(* the same when both are directories or both are files of one content.    *)
(***************************************************************************)
EXTENDS Integers, Sequences

Same(tree, other, p) ==
  /\ p \in DOMAIN tree <=> p \in DOMAIN other
  /\ p \in DOMAIN tree =>
       /\ tree[p].type = other[p].type
       /\ tree[p].type = "file" => tree[p].content = other[p].content

SameTree(tree, other) == \A p \in DOMAIN tree \cup DOMAIN other : Same(tree, other, p)

\* Both sides changed p, differently.
ClashesAt(local, remote, base, p) ==
  ~Same(local, remote, p) /\ ~Same(local, base, p) /\ ~Same(remote, base, p)

\* The side whose version of p survives: the one that changed.
SurvivorAt(local, remote, base, p) == IF Same(local, base, p) THEN remote ELSE local

\* The root is an anchor: it is recreated and never removed.
Merged(local, remote, base) ==
  LET all == DOMAIN local \cup DOMAIN remote
      kept == {p \in all : p = <<>> \/ p \in DOMAIN SurvivorAt(local, remote, base, p)}
  IN  [p \in kept |->
         IF p = <<>> THEN IF p \in DOMAIN local THEN local[p] ELSE remote[p]
         ELSE SurvivorAt(local, remote, base, p)[p]]

IsBelow(p, directory) ==
  Len(p) > Len(directory) /\ SubSeq(p, 1, Len(directory)) = directory

\* Directory p of a tree goes when the tree becomes the merge.
RemovesDirectory(tree, merged, p) ==
  /\ p \in DOMAIN tree /\ tree[p].type = "directory"
  /\ p \in DOMAIN merged => merged[p].type # "directory"

ChangedBelow(tree, base, p) ==
  \E q \in DOMAIN tree \cup DOMAIN base : IsBelow(q, p) /\ ~Same(tree, base, q)

\* Merging removes directory p from one tree although that side changed,
\* added or removed something below p.
RemovesChangedDirectory(local, remote, base, p) ==
  \E tree \in {local, remote} :
    RemovesDirectory(tree, Merged(local, remote, base), p) /\ ChangedBelow(tree, base, p)

\* When a run must leave both trees alone.
Unmergeable(local, remote, base) ==
  \E p \in (DOMAIN local \cup DOMAIN remote) \ {<<>>} :
    ClashesAt(local, remote, base, p) \/ RemovesChangedDirectory(local, remote, base, p)
=============================================================================
