----------------------------- MODULE Batch_proofs -----------------------------
(***************************************************************************)
(* File commands, walks and archives lose nothing they were not asked to   *)
(* replace or remove, the statuses of a batch tell what its operations     *)
(* did, and tree and du show the tree: for every set of paths, every       *)
(* batch, every first tree and any number of edits by others, faults and   *)
(* repetitions.                                                            *)
(*                                                                         *)
(* The remote tree stays a tree, so what is missing has nothing below it   *)
(* and a transfer to a free path overwrites nothing.  The steps a command  *)
(* has still to make are steps of that command, each behind the one that   *)
(* decides about it: a removal behind the look at what is to be removed, a *)
(* commit behind the validation of what was fetched.  Where a command has  *)
(* come to, its steps left and what it has seen and changed belong to each *)
(* other; that is the story of each kind of command.  The steps a walk has *)
(* left cover disjoint parts of the tree, and what is found has none of it *)
(* left.                                                                   *)
(***************************************************************************)
EXTENDS Batch, FiniteSetTheorems, SequenceTheorems, WellFoundedInduction, TLAPS

\* The names of a command's steps.
NamesOf(op) ==
  CASE op = "mkdir" -> {"look", "make", "verify"}
    [] op = "touch" -> {"lookFile", "create", "check", "lookAgain"}
    [] op \in {"copy", "move"} -> {"resolve", "transfer"}
    [] op = "remove" -> {"stat", "delete"}
    [] op = "upload" -> {"put"}
    [] op = "tag" -> {"stat", "changeTag", "refresh"}
    [] op = "property" -> {"stat", "options", "proppatch"}
    [] op \in WalkOps -> {"root", "list", "peek", "visit"}
    [] op = "archive" ->
         {"lookLocal", "capabilities", "select", "list", "visit", "fetch", "validate", "commit"}

StepNames ==
  {"look", "make", "verify", "lookFile", "create", "check", "lookAgain", "resolve", "transfer",
   "stat", "delete", "put", "changeTag", "refresh", "options", "proppatch", "root", "list", "peek",
   "visit", "lookLocal", "capabilities", "select", "fetch", "validate", "commit"}

Steps ==
  (StepNames \X Seq(STRING)) \cup ({"visit"} \X Paths \X (Contents \cup {"dir"}))

Statuses == {"done", "failed", "partial", "canceled", "skipped", "planned"}

\* What lies in the remote tree is a tree, what runs is an operation of the
\* batch, and an operation has an outcome only when it makes no more steps.
Running ==
  /\ IsTree(tree) /\ edits \in Nat
  /\ batch \in Batches /\ call \in Operations /\ results \in Seq(Statuses)
  /\ todo # <<>> => outcome = "none"

\* A command makes steps of its own only.
OwnSteps ==
  /\ todo \in Seq(Steps)
  /\ \A i \in 1 .. Len(todo) : todo[i][1] \in NamesOf(call.op)

\* What was looked at may be removed, and what was fetched may be kept.
Removable == call.op = "remove" => call.recursive \/ seen[One("stat")] # "dir"
Fetched ==
  /\ seen[One("fetch")].whole \/ call.format = "tar"
  /\ Len(seen[One("fetch")].entries) <= MaxNumFiles

\* In a script the removal comes right after the look, the commit right after
\* the validation.
Guarded(steps) ==
  \A i \in 1 .. Len(steps) :
    /\ steps[i] = One("delete") => i = 1 \/ steps[i - 1] = One("stat")
    /\ steps[i] = One("commit") => i = 1 \/ steps[i - 1] = One("validate")

Decided ==
  /\ Guarded(todo)
  /\ At(One("delete")) => Removable
  /\ At(One("commit")) => Fetched

\* The inductive invariant.
IInv == Running /\ OwnSteps /\ Decided

-----------------------------------------------------------------------------
(* Paths *)

\* Every non-empty set of naturals has a least element.
LEMMA Least ==
  ASSUME NEW S, S \subseteq Nat, S # {}
  PROVE  \E n \in S : \A m \in S : n <= m
<1> DEFINE R == {ss \in Nat \X Nat : ss[1] < ss[2]}
<1>1. IsWellFoundedOn(R, Nat)
  <2>1. R = OpToRel(<, Nat)
    BY DEF OpToRel
  <2> QED
    BY <2>1, NatLessThanWellFounded
<1> HIDE DEF R
<1>2. PICK x \in S : \A y \in S : ~(<<y, x>> \in R)
  BY <1>1, WFMin
<1>3. \A y \in S : ~(y < x)
  BY <1>2 DEF R
<1> QED
  BY <1>3

LEMMA PathFacts ==
  ASSUME NEW p \in Paths
  PROVE  /\ p \in Seq(STRING) /\ Len(p) \in Nat /\ DOMAIN p = 1 .. Len(p)
         /\ p # <<>> <=> Len(p) # 0
<1>1. p \in Seq(STRING)
  BY FileCommandsAssumption
<1> QED
  BY <1>1, EmptySeq

\* Sequences that are cut and joined.
LEMMA CutFacts ==
  ASSUME NEW S, NEW s \in Seq(S), NEW n \in Nat, n <= Len(s)
  PROVE  /\ SubSeq(s, 1, n) \in Seq(S) /\ Len(SubSeq(s, 1, n)) = n
         /\ \A i \in 1 .. n : SubSeq(s, 1, n)[i] = s[i]
  OBVIOUS

LEMMA JoinFacts ==
  ASSUME NEW S, NEW s \in Seq(S), NEW t \in Seq(S)
  PROVE  /\ s \o t \in Seq(S) /\ Len(s \o t) = Len(s) + Len(t)
         /\ \A i \in 1 .. Len(s) + Len(t) :
              (s \o t)[i] = IF i <= Len(s) THEN s[i] ELSE t[i - Len(s)]
  BY ConcatProperties

\* The parent of a path.
LEMMA ParentFacts ==
  ASSUME NEW p \in Paths, p # <<>>
  PROVE  /\ Front(p) \in Paths /\ Len(Front(p)) = Len(p) - 1
         /\ \A i \in 1 .. Len(p) - 1 : Front(p)[i] = p[i]
<1>1. p \in Seq(STRING) /\ Len(p) \in Nat \ {0}
  BY PathFacts
<1>2. Front(p) \in Paths
  BY FileCommandsAssumption
<1>3. Len(p) - 1 \in Nat /\ Len(p) - 1 <= Len(p) /\ Front(p) = SubSeq(p, 1, Len(p) - 1)
  BY <1>1 DEF Front
<1>4. \A s \in Seq(STRING) : \A n \in Nat :
        n <= Len(s) => Len(SubSeq(s, 1, n)) = n /\ \A i \in 1 .. n : SubSeq(s, 1, n)[i] = s[i]
  BY CutFacts
<1>5. /\ Len(SubSeq(p, 1, Len(p) - 1)) = Len(p) - 1
      /\ \A i \in 1 .. Len(p) - 1 : SubSeq(p, 1, Len(p) - 1)[i] = p[i]
  <2> DEFINE n == Len(p) - 1
  <2>1. n \in Nat /\ n <= Len(p)
    BY <1>3
  <2> HIDE DEF n
  <2>2. Len(SubSeq(p, 1, n)) = n /\ \A i \in 1 .. n : SubSeq(p, 1, n)[i] = p[i]
    BY <1>1, <1>4, <2>1
  <2> QED
    BY <2>2 DEF n
<1> QED
  BY <1>2, <1>3, <1>5

\* A path lies below another when it begins with it.
LEMMA BelowMeans ==
  ASSUME NEW p \in Paths, NEW q \in Paths
  PROVE  q \in Below(p) <=> Len(p) <= Len(q) /\ \A i \in 1 .. Len(p) : q[i] = p[i]
<1>1. /\ p \in Seq(STRING) /\ q \in Seq(STRING) /\ Len(p) \in Nat /\ Len(q) \in Nat
      /\ DOMAIN p = 1 .. Len(p) /\ DOMAIN q = 1 .. Len(q)
  BY PathFacts
<1>2. q \in Below(p) <=> Len(p) <= Len(q) /\ SubSeq(p, 1, Len(p)) = SubSeq(q, 1, Len(p))
  BY DEF Below, IsPrefix
<1>3. ASSUME Len(p) <= Len(q)
      PROVE  /\ SubSeq(p, 1, Len(p)) = [i \in 1 .. Len(p) |-> p[i]]
             /\ SubSeq(q, 1, Len(p)) = [i \in 1 .. Len(p) |-> q[i]]
  BY <1>1, <1>3
<1>4. ASSUME Len(p) <= Len(q)
      PROVE  SubSeq(p, 1, Len(p)) = SubSeq(q, 1, Len(p)) <=> \A i \in 1 .. Len(p) : q[i] = p[i]
  <2> DEFINE f == [i \in 1 .. Len(p) |-> p[i]]
             g == [i \in 1 .. Len(p) |-> q[i]]
  <2>1. f = g <=> \A i \in 1 .. Len(p) : q[i] = p[i]
    <3>1. ASSUME f = g, NEW i \in 1 .. Len(p) PROVE q[i] = p[i]
      <4>1. f[i] = g[i]
        BY <3>1
      <4> QED
        BY <4>1
    <3> QED
      BY <3>1
  <2> QED
    BY <1>3, <1>4, <2>1
<1> QED
  BY <1>2, <1>4

LEMMA SamePath ==
  ASSUME NEW p \in Paths, NEW q \in Paths, Len(p) = Len(q), \A i \in 1 .. Len(p) : q[i] = p[i]
  PROVE  p = q
<1>1. p \in Seq(STRING) /\ q \in Seq(STRING)
  BY PathFacts
<1> QED
  BY <1>1

\* The parent of a path below another lies below it, unless it is the other.
LEMMA ParentBelow ==
  ASSUME NEW p \in Paths, NEW q \in Paths, q # <<>>
  PROVE  /\ Front(q) \in Below(p) => q \in Below(p)
         /\ q \in Below(p) /\ q # p => Front(q) \in Below(p)
         /\ q \in Below(q) /\ Front(q) \notin Below(q)
<1>1. /\ Len(p) \in Nat /\ Len(q) \in Nat \ {0}
  BY PathFacts
<1>2. /\ Front(q) \in Paths /\ Len(Front(q)) = Len(q) - 1
      /\ \A i \in 1 .. Len(q) - 1 : Front(q)[i] = q[i]
  BY ParentFacts
<1>3. ASSUME Front(q) \in Below(p) PROVE q \in Below(p)
  <2>1. Len(p) <= Len(q) - 1 /\ \A i \in 1 .. Len(p) : Front(q)[i] = p[i]
    BY <1>2, <1>3, BelowMeans
  <2>2. \A i \in 1 .. Len(p) : q[i] = p[i]
    BY <1>1, <1>2, <2>1
  <2> QED
    BY <1>1, <2>1, <2>2, BelowMeans
<1>4. ASSUME q \in Below(p), q # p PROVE Front(q) \in Below(p)
  <2>1. Len(p) <= Len(q) /\ \A i \in 1 .. Len(p) : q[i] = p[i]
    BY <1>4, BelowMeans
  <2>2. Len(p) # Len(q)
    BY <1>4, <2>1, SamePath
  <2>3. Len(p) <= Len(Front(q)) /\ \A i \in 1 .. Len(p) : Front(q)[i] = p[i]
    BY <1>1, <1>2, <2>1, <2>2
  <2> QED
    BY <1>2, <2>3, BelowMeans
<1>5. q \in Below(q) /\ Front(q) \notin Below(q)
  BY <1>1, <1>2, BelowMeans
<1> QED
  BY <1>3, <1>4, <1>5

\* Of two paths above a third one lies below the other.
LEMMA AboveOne ==
  ASSUME NEW p \in Paths, NEW q \in Paths, NEW r \in Paths, r \in Below(p), r \in Below(q)
  PROVE  q \in Below(p) \/ p \in Below(q)
<1>1. /\ Len(p) \in Nat /\ Len(q) \in Nat
      /\ \A i \in 1 .. Len(p) : r[i] = p[i]
      /\ \A i \in 1 .. Len(q) : r[i] = q[i]
  BY BelowMeans, PathFacts
<1>2. CASE Len(p) <= Len(q)
  <2>1. \A i \in 1 .. Len(p) : q[i] = p[i]
    BY <1>1, <1>2
  <2> QED
    BY <1>2, <2>1, BelowMeans
<1>3. CASE Len(q) <= Len(p)
  <2>1. \A i \in 1 .. Len(q) : p[i] = q[i]
    BY <1>1, <1>3
  <2> QED
    BY <1>3, <2>1, BelowMeans
<1> QED
  BY <1>1, <1>2, <1>3

-----------------------------------------------------------------------------
(* Trees *)

\* Nothing lies below what is missing.
LEMMA MissingBelow ==
  ASSUME IsTree(tree), NEW p \in Paths, Missing(p), NEW q \in Below(p)
  PROVE  Missing(q)
<1> DEFINE Bad == {r \in Below(p) : ~Missing(r)}
           Lengths == {Len(r) : r \in Bad}
<1> SUFFICES ASSUME Bad # {} PROVE FALSE
  OBVIOUS
<1>1. Below(p) \subseteq Paths
  BY DEF Below
<1>2. Lengths \subseteq Nat /\ Lengths # {}
  BY <1>1, PathFacts
<1>3. PICK n \in Lengths : \A m \in Lengths : n <= m
  <2> HIDE DEF Lengths
  <2> QED
    BY <1>2, Least
<1>4. PICK r \in Bad : Len(r) = n
  BY <1>3
<1>5. r \in Paths /\ r # p
  BY <1>1, <1>4
<1>6. r # <<>>
  <2>1. Len(p) <= Len(r) /\ Len(p) \in Nat /\ Len(r) \in Nat
    BY <1>4, <1>5, BelowMeans, PathFacts
  <2> QED
    BY <1>5, <2>1, PathFacts
<1>7. Front(r) \in Below(p) /\ tree[Front(r)] = "dir" /\ Front(r) \in Paths
      /\ Len(Front(r)) = Len(r) - 1 /\ Len(r) \in Nat
  BY <1>4, <1>5, <1>6, ParentBelow, ParentFacts, PathFacts DEF IsTree, Missing
<1>8. Front(r) \in Bad
  BY <1>7 DEF Missing
<1>9. n <= Len(r) - 1
  BY <1>3, <1>7, <1>8
<1> QED
  BY <1>4, <1>7, <1>9

\* A file or a directory is put where nothing is or a file.
LEMMA WithTree ==
  ASSUME IsTree(tree), NEW p \in Paths, ~IsDir(p), HasParent(p) \/ ~Missing(p),
         NEW what \in Contents \cup {"dir"}
  PROVE  IsTree(With(p, what)) /\ DOMAIN With(p, what) = Paths
         /\ \A q \in Paths : q # p => With(p, what)[q] = tree[q]
<1> DEFINE new == With(p, what)
<1>1. new = [tree EXCEPT ![p] = what] /\ tree \in [Paths -> Contents \cup {"dir", "none"}]
  BY DEF With, IsTree
<1>2. /\ new \in [Paths -> Contents \cup {"dir", "none"}]
      /\ new[p] = what /\ \A q \in Paths : q # p => new[q] = tree[q]
  BY <1>1
<1> HIDE DEF new
<1>3. ASSUME NEW q \in Paths \ {<<>>}, new[q] # "none"
      PROVE  new[Front(q)] = "dir"
  <2>1. Front(q) \in Paths /\ Front(q) # q
    <3>1. q \in Below(q) /\ Front(q) \notin Below(q)
      BY ParentBelow
    <3> QED
      BY <3>1, ParentFacts
  <2>2. CASE q = p
    BY <1>2, <2>1, <2>2 DEF HasParent, IsDir, Missing, IsTree
  <2>3. CASE q # p
    <3>1. tree[q] # "none" /\ tree[Front(q)] = "dir"
      BY <1>2, <1>3, <2>3 DEF IsTree
    <3>2. Front(q) # p
      BY <3>1 DEF IsDir
    <3> QED
      BY <1>2, <2>1, <3>1, <3>2
  <2> QED
    BY <2>2, <2>3
<1>4. IsTree(new) /\ DOMAIN new = Paths
  BY <1>2, <1>3 DEF IsTree
<1> QED
  BY <1>2, <1>4 DEF new

\* What is cut out goes with all that lies below.
LEMMA CutTree ==
  ASSUME IsTree(tree), NEW p \in Paths
  PROVE  IsTree(Cut(p)) /\ \A q \in Paths : q \notin Below(p) => Cut(p)[q] = tree[q]
<1> DEFINE new == Cut(p)
<1>1. /\ new = [q \in Paths |-> IF q \in Below(p) THEN "none" ELSE tree[q]]
      /\ tree \in [Paths -> Contents \cup {"dir", "none"}]
  BY DEF Cut, IsTree
<1>2. /\ new \in [Paths -> Contents \cup {"dir", "none"}]
      /\ \A q \in Paths : new[q] = IF q \in Below(p) THEN "none" ELSE tree[q]
  BY <1>1
<1> HIDE DEF new
<1>3. ASSUME NEW q \in Paths \ {<<>>}, new[q] # "none"
      PROVE  new[Front(q)] = "dir"
  <2>1. q \notin Below(p) /\ tree[q] # "none"
    BY <1>2, <1>3
  <2>2. Front(q) \notin Below(p) /\ Front(q) \in Paths
    BY <2>1, ParentBelow, ParentFacts
  <2> QED
    BY <1>2, <2>1, <2>2 DEF IsTree
<1> QED
  BY <1>2, <1>3 DEF IsTree, new

\* Where what lies at q under the target came from.
LEMMA MovedMeans ==
  ASSUME NEW from \in Paths, NEW to \in Paths, NEW q \in Below(to)
  PROVE  /\ Len(Moved(q, from, to)) = Len(from) + Len(q) - Len(to)
         /\ Moved(q, from, to) \in Seq(STRING)
         /\ \A i \in 1 .. Len(from) + Len(q) - Len(to) :
              Moved(q, from, to)[i] = IF i <= Len(from) THEN from[i] ELSE q[i - Len(from) + Len(to)]
<1>0. q \in Paths
  BY DEF Below
<1>1. /\ from \in Seq(STRING) /\ q \in Seq(STRING)
      /\ Len(from) \in Nat /\ Len(to) \in Nat /\ Len(q) \in Nat
  BY <1>0, PathFacts
<1>2. Len(to) <= Len(q)
  BY <1>0, BelowMeans
<1> DEFINE rest == SubSeq(q, Len(to) + 1, Len(q))
<1>3. /\ rest \in Seq(STRING) /\ Len(rest) = Len(q) - Len(to)
      /\ \A i \in 1 .. Len(q) - Len(to) : rest[i] = q[i + Len(to)]
  BY <1>1, <1>2
<1> HIDE DEF rest
<1>4. Moved(q, from, to) = from \o rest
  BY DEF Moved, rest
<1>5. /\ from \o rest \in Seq(STRING) /\ Len(from \o rest) = Len(from) + Len(rest)
      /\ \A i \in 1 .. Len(from) + Len(rest) :
           (from \o rest)[i] = IF i <= Len(from) THEN from[i] ELSE rest[i - Len(from)]
  <2>1. \A s \in Seq(STRING) : \A t \in Seq(STRING) :
          /\ s \o t \in Seq(STRING) /\ Len(s \o t) = Len(s) + Len(t)
          /\ \A i \in 1 .. Len(s) + Len(t) :
               (s \o t)[i] = IF i <= Len(s) THEN s[i] ELSE t[i - Len(s)]
    BY JoinFacts
  <2> QED
    BY <1>1, <1>3, <2>1
<1>6. \A i \in 1 .. Len(from) + Len(q) - Len(to) :
        i > Len(from) => /\ i - Len(from) \in 1 .. Len(q) - Len(to)
                         /\ (i - Len(from)) + Len(to) = i - Len(from) + Len(to)
  BY <1>1
<1>7. ASSUME NEW i \in 1 .. Len(from) + Len(q) - Len(to)
      PROVE  Moved(q, from, to)[i] = IF i <= Len(from) THEN from[i] ELSE q[i - Len(from) + Len(to)]
  <2>1. i \in 1 .. Len(from) + Len(rest)
    BY <1>1, <1>3
  <2>2. Moved(q, from, to)[i] = IF i <= Len(from) THEN from[i] ELSE rest[i - Len(from)]
    BY <1>4, <1>5, <2>1
  <2>3. ASSUME ~(i <= Len(from)) PROVE rest[i - Len(from)] = q[i - Len(from) + Len(to)]
    <3>1. i > Len(from)
      BY <1>1, <2>3
    <3>2. i - Len(from) \in 1 .. Len(q) - Len(to)
      BY <1>6, <3>1
    <3> QED
      BY <1>3, <3>2
  <2> QED
    BY <2>2, <2>3
<1> QED
  BY <1>1, <1>3, <1>4, <1>5, <1>7

\* The parent of what lies under the target came from the parent of where it lay.
LEMMA MovedParent ==
  ASSUME NEW from \in Paths, NEW to \in Paths, NEW q \in Below(to), q # to,
         Moved(q, from, to) \in Paths
  PROVE  /\ q # <<>> /\ Front(q) \in Below(to) /\ Moved(q, from, to) # <<>>
         /\ Moved(Front(q), from, to) = Front(Moved(q, from, to))
<1> DEFINE m == Moved(q, from, to)
<1>0. q \in Paths
  BY DEF Below
<1>1. Len(from) \in Nat /\ Len(to) \in Nat /\ Len(q) \in Nat /\ Len(to) <= Len(q)
  BY <1>0, BelowMeans, PathFacts
<1>2. Len(to) # Len(q)
  BY <1>0, BelowMeans, SamePath
<1>3. q # <<>>
  BY <1>0, <1>1, <1>2, PathFacts
<1>4. Front(q) \in Below(to) /\ Front(q) \in Paths
  BY <1>0, <1>3, ParentBelow, ParentFacts
<1>5. Len(m) = Len(from) + Len(q) - Len(to)
  BY MovedMeans
<1>6. Len(m) # 0
  BY <1>1, <1>2, <1>5
<1> HIDE DEF m
<1>7. m \in Paths /\ m # <<>>
  BY <1>6, PathFacts DEF m
<1>8. /\ Len(Front(q)) = Len(q) - 1 /\ \A i \in 1 .. Len(q) - 1 : Front(q)[i] = q[i]
      /\ Len(Front(m)) = Len(m) - 1 /\ \A i \in 1 .. Len(m) - 1 : Front(m)[i] = m[i]
      /\ Front(m) \in Paths
  BY <1>0, <1>3, <1>7, ParentFacts
<1> DEFINE n == Moved(Front(q), from, to)
<1>9. /\ Len(n) = Len(from) + (Len(q) - 1) - Len(to) /\ n \in Seq(STRING)
      /\ \A i \in 1 .. Len(from) + (Len(q) - 1) - Len(to) :
           n[i] = IF i <= Len(from) THEN from[i] ELSE Front(q)[i - Len(from) + Len(to)]
  <2> DEFINE up == Front(q)
  <2>1. up \in Below(to)
    BY <1>4
  <2> HIDE DEF up
  <2>2. /\ Len(Moved(up, from, to)) = Len(from) + Len(up) - Len(to)
        /\ Moved(up, from, to) \in Seq(STRING)
        /\ \A i \in 1 .. Len(from) + Len(up) - Len(to) :
             Moved(up, from, to)[i] = IF i <= Len(from) THEN from[i] ELSE up[i - Len(from) + Len(to)]
    BY <2>1, MovedMeans
  <2>3. Len(up) = Len(q) - 1
    BY <1>8 DEF up
  <2>4. n = Moved(up, from, to)
    BY DEF up, n
  <2> HIDE DEF n
  <2> QED
    BY <2>2, <2>3, <2>4 DEF up
<1>10. \A i \in 1 .. Len(from) + Len(q) - Len(to) :
         m[i] = IF i <= Len(from) THEN from[i] ELSE q[i - Len(from) + Len(to)]
  BY MovedMeans DEF m
<1> HIDE DEF n
<1>11. Len(n) = Len(Front(m))
  BY <1>1, <1>5, <1>8, <1>9 DEF m
<1>12. ASSUME NEW i \in 1 .. Len(n) PROVE n[i] = Front(m)[i]
  <2>1. /\ i \in 1 .. Len(from) + (Len(q) - 1) - Len(to)
        /\ i \in 1 .. Len(from) + Len(q) - Len(to)
        /\ i \in 1 .. Len(m) - 1
    BY <1>1, <1>2, <1>5, <1>9 DEF m
  <2>2. ~(i <= Len(from)) => i - Len(from) + Len(to) \in 1 .. Len(q) - 1
    BY <1>1, <2>1
  <2>3. Front(m)[i] = m[i]
    BY <1>8, <2>1
  <2>4. m[i] = IF i <= Len(from) THEN from[i] ELSE q[i - Len(from) + Len(to)]
    BY <1>10, <2>1
  <2>5. n[i] = IF i <= Len(from) THEN from[i] ELSE Front(q)[i - Len(from) + Len(to)]
    BY <1>9, <2>1
  <2> QED
    BY <1>8, <2>2, <2>3, <2>4, <2>5
<1>13. n = Front(m)
  <2>1. Front(m) \in Seq(STRING)
    BY <1>8, PathFacts
  <2> QED
    BY <1>9, <1>11, <1>12, <2>1
<1> QED
  BY <1>3, <1>4, <1>7, <1>13 DEF m, n

\* A copy, and a move, makes a tree of a tree and changes nothing but what lies
\* below the target and, for a move, below the source.
LEMMA TransferTree ==
  ASSUME IsTree(tree), NEW from \in Paths, NEW to \in Paths, HasParent(to),
         to \notin Below(from), from \notin Below(to), NEW moves \in BOOLEAN,
         NEW new, new = [q \in Paths |-> IF moves /\ q \in Below(from) THEN "none"
                                         ELSE Copied(from, to)[q]]
  PROVE  /\ IsTree(new)
         /\ \A q \in Paths : new[q] # tree[q] => q \in Below(to) \/ (moves /\ q \in Below(from))
<1>1. tree \in [Paths -> Contents \cup {"dir", "none"}]
  BY DEF IsTree
<1>2. ASSUME NEW q \in Paths
      PROVE  /\ moves /\ q \in Below(from) => new[q] = "none"
             /\ ~(moves /\ q \in Below(from)) /\ q \notin Below(to) => new[q] = tree[q]
             /\ ~(moves /\ q \in Below(from)) /\ q \in Below(to) =>
                  new[q] = IF Moved(q, from, to) \in Paths THEN tree[Moved(q, from, to)] ELSE "none"
  BY DEF Copied
<1>3. ASSUME NEW q \in Paths PROVE new[q] \in Contents \cup {"dir", "none"}
  BY <1>1, <1>2
<1>4. new \in [Paths -> Contents \cup {"dir", "none"}]
  BY <1>3
<1>5. ASSUME NEW q \in Below(to) PROVE q \notin Below(from)
  <2>1. q \in Paths
    BY DEF Below
  <2> QED
    BY <2>1, AboveOne
<1>6. ASSUME NEW q \in Paths \ {<<>>}, new[q] # "none"
      PROVE  new[Front(q)] = "dir"
  <2>1. Front(q) \in Paths /\ ~(moves /\ q \in Below(from))
    BY <1>2, <1>6, ParentFacts
  <2>2. CASE q \notin Below(to)
    <3>1. tree[q] # "none" /\ tree[Front(q)] = "dir"
      BY <1>2, <1>6, <2>1, <2>2 DEF IsTree
    <3>2. Front(q) \notin Below(to) /\ ~(moves /\ Front(q) \in Below(from))
      BY <2>1, <2>2, ParentBelow
    <3> QED
      BY <1>2, <2>1, <3>1, <3>2
  <2>3. CASE q = to
    <3>1. tree[Front(to)] = "dir"
      BY DEF HasParent, IsDir
    <3>2. Front(q) \notin Below(to) /\ ~(moves /\ Front(q) \in Below(from))
      BY <2>1, <2>3, ParentBelow
    <3> QED
      BY <1>2, <2>1, <2>3, <3>1, <3>2
  <2>4. CASE q \in Below(to) /\ q # to
    <3>1. Moved(q, from, to) \in Paths /\ tree[Moved(q, from, to)] # "none"
      BY <1>2, <1>6, <2>1, <2>4
    <3>2. /\ Front(q) \in Below(to) /\ Moved(q, from, to) # <<>>
          /\ Moved(Front(q), from, to) = Front(Moved(q, from, to))
      BY <2>4, <3>1, MovedParent
    <3>3. Front(Moved(q, from, to)) \in Paths /\ tree[Front(Moved(q, from, to))] = "dir"
      BY <3>1, <3>2, ParentFacts DEF IsTree
    <3>4. Front(q) \notin Below(from)
      BY <1>5, <3>2
    <3> QED
      BY <1>2, <2>1, <3>2, <3>3, <3>4
  <2> QED
    BY <2>2, <2>3, <2>4
<1> QED
  BY <1>2, <1>4, <1>6 DEF IsTree


-----------------------------------------------------------------------------
(* Operations and their steps *)

\* The operations there are, and what their options are.
LEMMA CallFacts ==
  ASSUME call \in Operations
  PROVE  /\ call.op \in FileOps \cup WalkOps \cup {"archive"}
         /\ call.op \in (FileOps \cup WalkOps) \ {"copy", "move"} => call.path \in Paths
         /\ call.op \in {"copy", "move"} => call.from \in Paths /\ call.to \in Paths
         /\ call.op = "upload" => call.content \in Contents
         /\ call.op = "archive" => call.paths \in Seq(Paths)
<1>1. IsOperation(call)
  BY BatchAssumption
<1>2. CASE call \in [op : {"mkdir"}, path : Paths, parents : BOOLEAN]
  BY <1>2 DEF FileOps, WalkOps
<1>3. CASE call \in [op : {"touch"}, path : Paths]
  BY <1>3 DEF FileOps, WalkOps
<1>4. CASE call \in [op : {"copy", "move"}, from : Paths, to : Paths, slash : BOOLEAN, overwrite : BOOLEAN]
  BY <1>4 DEF FileOps, WalkOps
<1>5. CASE call \in [op : {"remove"}, path : Paths, recursive : BOOLEAN]
  BY <1>5 DEF FileOps, WalkOps
<1>6. CASE call \in [op : {"upload"}, path : Paths, noClobber : BOOLEAN, content : Contents]
  BY <1>6 DEF FileOps, WalkOps
<1>7. CASE call \in [op : {"tag", "property"}, path : Paths, add : BOOLEAN]
  BY <1>7 DEF FileOps, WalkOps
<1>8. CASE call \in [op : WalkOps, path : Paths, maxDepth : Nat, maxEntries : Nat \ {0}]
  BY <1>8 DEF FileOps, WalkOps
<1>9. CASE call \in [op : {"archive"}, paths : Seq(Paths), overwrite : BOOLEAN,
                     format : {"zip", "tar"}, dry : BOOLEAN]
  BY <1>9 DEF FileOps, WalkOps
<1> QED
  BY <1>1, <1>2, <1>3, <1>4, <1>5, <1>6, <1>7, <1>8, <1>9 DEF IsOperation

\* Whose steps they are.
LEMMA Owners ==
  ASSUME NEW op \in FileOps \cup WalkOps \cup {"archive"}, NEW name \in NamesOf(op)
  PROVE  /\ name \in {"look", "make", "verify"} => op = "mkdir"
         /\ name \in {"lookFile", "create", "check", "lookAgain"} => op = "touch"
         /\ name \in {"resolve", "transfer"} => op \in {"copy", "move"}
         /\ name = "delete" => op = "remove"
         /\ name = "put" => op = "upload"
         /\ name = "root" => op \in WalkOps
         /\ name = "list" => op \in WalkOps \cup {"archive"}
         /\ name \in {"select", "commit", "validate"} => op = "archive"
<1>1. op \in FileOps \cup {"tree", "du", "archive"}
  BY DEF WalkOps
<1> QED
  BY <1>1 DEF NamesOf, WalkOps, FileOps

\* What an attempt may carry out and learn.
Carries == carried' \in {carried, Append(carried, Head(todo))}
Learns ==
  \/ seen' = seen
  \/ \E answer : /\ Learn(Head(todo), answer)
                 /\ Head(todo)[1] = "look" => answer = tree[Head(todo)[2]]

\* What a step does to those behind it: it may end the command or, in a touch, put a
\* look in their place; and it may call for more steps of the same command, but
\* never for a removal or a commit, nor between one of these and what decides about it.
Moves ==
  /\ todo # <<>> /\ UNCHANGED <<call, runs>>
  /\ IF todo' = <<>> THEN outcome' # "none" ELSE outcome' = outcome
  /\ Carries /\ Learns
  /\ \/ todo' = <<>>
     \/ todo' = todo /\ seen' = seen
     \/ todo' = Each(<<"lookAgain">>) /\ call.op = "touch"
     \/ \E more \in Seq(Steps) :
          /\ todo' = more \o Tail(todo)
          /\ \A i \in 1 .. Len(more) : more[i][1] \in NamesOf(call.op) \ {"delete", "commit"}
          /\ more # <<>> => Head(todo) # One("stat") /\ Head(todo) # One("validate")
          /\ Head(todo) = One("stat") => Removable'
          /\ Head(todo) = One("validate") => Fetched'

\* The steps that are left when the first one is done.
LEMMA RestFacts ==
  ASSUME NEW S, NEW s \in Seq(S), s # <<>>
  PROVE  /\ Tail(s) \in Seq(S) /\ Len(Tail(s)) = Len(s) - 1 /\ Len(s) \in Nat \ {0}
         /\ \A i \in 1 .. Len(s) - 1 : Tail(s)[i] = s[i + 1]
         /\ Head(s) = s[1]
         /\ <<>> \o Tail(s) = Tail(s) /\ <<>> \in Seq(S) /\ Len(<<>>) = 0
  OBVIOUS

\* The steps that are left, with others put in place of the first.
LEMMA Spliced ==
  ASSUME NEW S, NEW s \in Seq(S), s # <<>>, NEW more \in Seq(S), NEW new, new = more \o Tail(s)
  PROVE  /\ new \in Seq(S) /\ Len(new) = Len(more) + (Len(s) - 1)
         /\ \A i \in 1 .. Len(new) :
              \/ i <= Len(more) /\ i \in 1 .. Len(more) /\ new[i] = more[i]
              \/ /\ i > Len(more) /\ i - Len(more) + 1 \in 2 .. Len(s)
                 /\ new[i] = s[i - Len(more) + 1]
         /\ \A k \in 1 .. Len(more) : k \in 1 .. Len(new) /\ new[k] = more[k]
         /\ \A j \in 2 .. Len(s) :
              Len(more) + (j - 1) \in 1 .. Len(new) /\ new[Len(more) + (j - 1)] = s[j]
<1> DEFINE rest == Tail(s)
<1>1. /\ rest \in Seq(S) /\ Len(rest) = Len(s) - 1 /\ Len(s) \in Nat \ {0}
      /\ \A i \in 1 .. Len(s) - 1 : rest[i] = s[i + 1]
  BY RestFacts
<1> HIDE DEF rest
<1>2. /\ new \in Seq(S) /\ Len(new) = Len(more) + Len(rest)
      /\ \A i \in 1 .. Len(more) + Len(rest) :
           new[i] = IF i <= Len(more) THEN more[i] ELSE rest[i - Len(more)]
  BY <1>1, JoinFacts DEF rest
<1>3. Len(more) \in Nat /\ (Len(more) # 0 => more # <<>>)
  OBVIOUS
<1>4. ASSUME NEW i \in 1 .. Len(new)
      PROVE  \/ i <= Len(more) /\ i \in 1 .. Len(more) /\ new[i] = more[i]
             \/ /\ i > Len(more) /\ i - Len(more) + 1 \in 2 .. Len(s)
                /\ new[i] = s[i - Len(more) + 1]
  <2>1. CASE i <= Len(more)
    BY <1>1, <1>2, <1>3, <2>1
  <2>2. CASE ~(i <= Len(more))
    <3>1. i - Len(more) \in 1 .. Len(s) - 1 /\ i \in 1 .. Len(more) + Len(rest)
      BY <1>1, <1>2, <1>3, <2>2
    <3>2. new[i] = rest[i - Len(more)] /\ rest[i - Len(more)] = s[(i - Len(more)) + 1]
      BY <1>1, <1>2, <2>2, <3>1
    <3> QED
      BY <1>1, <1>3, <2>2, <3>1, <3>2
  <2> QED
    BY <2>1, <2>2
<1>5. ASSUME NEW k \in 1 .. Len(more) PROVE k \in 1 .. Len(new) /\ new[k] = more[k]
  <2>1. k \in 1 .. Len(more) + Len(rest) /\ k <= Len(more)
    BY <1>1, <1>3
  <2> QED
    BY <1>2, <2>1
<1>6. ASSUME NEW j \in 2 .. Len(s)
      PROVE  Len(more) + (j - 1) \in 1 .. Len(new) /\ new[Len(more) + (j - 1)] = s[j]
  <2>1. /\ Len(more) + (j - 1) \in 1 .. Len(more) + Len(rest) /\ ~(Len(more) + (j - 1) <= Len(more))
        /\ (Len(more) + (j - 1)) - Len(more) = j - 1 /\ j - 1 \in 1 .. Len(s) - 1 /\ (j - 1) + 1 = j
    BY <1>1, <1>3
  <2>2. new[Len(more) + (j - 1)] = rest[j - 1] /\ rest[j - 1] = s[j]
    BY <1>1, <1>2, <2>1
  <2> QED
    BY <1>2, <2>1, <2>2
<1> QED
  BY <1>1, <1>2, <1>4, <1>5, <1>6

LEMMA GuardedRest ==
  ASSUME NEW s \in Seq(Steps), s # <<>>, Guarded(s), NEW more \in Seq(Steps),
         \A i \in 1 .. Len(more) : more[i][1] \notin {"delete", "commit"},
         more # <<>> => s[1] # One("stat") /\ s[1] # One("validate"),
         NEW new, new = more \o Tail(s)
  PROVE  /\ new \in Seq(Steps) /\ Guarded(new)
         /\ \A i \in 1 .. Len(new) : \/ \E j \in 1 .. Len(more) : new[i] = more[j]
                                     \/ \E j \in 1 .. Len(s) : new[i] = s[j]
         /\ new # <<>> /\ Head(new) = One("delete") => s[1] = One("stat")
         /\ new # <<>> /\ Head(new) = One("commit") => s[1] = One("validate")
<1>1. Len(s) \in Nat \ {0}
  BY RestFacts
<1>2. new \in Seq(Steps) /\ Len(new) = Len(more) + (Len(s) - 1)
  BY Spliced
<1>3. Len(more) \in Nat /\ (Len(more) # 0 => more # <<>>)
  OBVIOUS
<1>4. \A i \in 1 .. Len(new) :
        \/ i <= Len(more) /\ i \in 1 .. Len(more) /\ new[i] = more[i]
        \/ /\ i > Len(more) /\ i - Len(more) + 1 \in 2 .. Len(s)
           /\ new[i] = s[i - Len(more) + 1]
  BY Spliced
<1>5. \A i \in 1 .. Len(more) : more[i] # One("delete") /\ more[i] # One("commit")
  BY DEF One
<1>6. ASSUME NEW i \in 1 .. Len(new),
             NEW name \in {"delete", "commit"}, NEW before \in {"stat", "validate"},
             name = "delete" => before = "stat", name = "commit" => before = "validate",
             new[i] = One(name)
      PROVE  IF i = 1 THEN s[1] = One(before) ELSE new[i - 1] = One(before)
  <2>1. /\ i > Len(more) /\ i - Len(more) + 1 \in 2 .. Len(s)
        /\ s[i - Len(more) + 1] = One(name)
    BY <1>4, <1>5, <1>6
  <2>2. i - Len(more) + 1 \in 1 .. Len(s) /\ i - Len(more) + 1 # 1
        /\ (i - Len(more) + 1) - 1 = i - Len(more) /\ i \in Nat
    BY <1>1, <1>3, <2>1
  <2>3. s[i - Len(more)] = One(before)
    BY <1>6, <2>1, <2>2 DEF Guarded
  <2>4. CASE i - Len(more) = 1
    <3>1. more = <<>>
      BY <1>6, <2>3, <2>4
    <3>2. i = 1
      BY <2>2, <2>4, <3>1
    <3> QED
      BY <2>3, <2>4, <3>2
  <2>5. CASE i - Len(more) # 1
    <3>1. /\ i # 1 /\ i - 1 \in 1 .. Len(new) /\ i - 1 > Len(more)
      BY <1>3, <2>1, <2>2, <2>5
    <3>3. (i - 1) - Len(more) + 1 = i - Len(more)
      BY <1>3, <2>2
    <3>2. new[i - 1] = s[(i - 1) - Len(more) + 1]
      BY <1>3, <1>4, <3>1
    <3> QED
      BY <2>3, <3>1, <3>2, <3>3
  <2> QED
    BY <2>4, <2>5
<1>7. Guarded(new)
  BY <1>6 DEF Guarded
<1>8. \A i \in 1 .. Len(new) : \/ \E j \in 1 .. Len(more) : new[i] = more[j]
                               \/ \E j \in 1 .. Len(s) : new[i] = s[j]
  <2>1. \A i \in 2 .. Len(s) : i \in 1 .. Len(s)
    BY <1>1
  <2> QED
    BY <1>4, <2>1
<1>9. new # <<>> => Head(new) = new[1] /\ 1 \in 1 .. Len(new)
  BY <1>2
<1> QED
  BY <1>2, <1>6, <1>7, <1>8, <1>9

LEMMA EachFacts ==
  ASSUME NEW names \in Seq(StepNames)
  PROVE  /\ Each(names) \in Seq(Steps) /\ Len(Each(names)) = Len(names)
         /\ \A i \in 1 .. Len(names) : Each(names)[i] = One(names[i])
<1>1. /\ Len(names) \in Nat /\ Each(names) = [n \in 1 .. Len(names) |-> One(names[n])]
  BY DEF Each
<1>2. ASSUME NEW i \in 1 .. Len(names) PROVE One(names[i]) \in Steps
  <2>1. names[i] \in StepNames /\ <<>> \in Seq(STRING)
    BY EmptySeq
  <2> QED
    BY <2>1 DEF One, Steps
<1> QED
  BY <1>1, <1>2

LEMMA MovesKeep ==
  ASSUME IInv, Moves
  PROVE  OwnSteps' /\ Decided' /\ (todo' # <<>> => outcome' = "none") /\ call' \in Operations
<1>1. /\ todo \in Seq(Steps) /\ todo # <<>> /\ call' = call /\ Guarded(todo)
      /\ \A i \in 1 .. Len(todo) : todo[i][1] \in NamesOf(call.op)
      /\ Head(todo) = todo[1] /\ outcome = "none" /\ call \in Operations
      /\ (todo' # <<>> => outcome' = outcome)
  BY RestFacts DEF IInv, OwnSteps, Decided, Moves, Running
<1>2. CASE todo' = <<>>
  BY <1>1, <1>2 DEF OwnSteps, Decided, Guarded, At
<1>3. CASE todo' = todo /\ seen' = seen
  BY <1>1, <1>3 DEF IInv, OwnSteps, Decided, Guarded, At, Removable, Fetched, One
<1>4. ASSUME NEW more \in Seq(Steps), todo' = more \o Tail(todo),
             \A i \in 1 .. Len(more) : more[i][1] \in NamesOf(call.op) \ {"delete", "commit"},
             more # <<>> => Head(todo) # One("stat") /\ Head(todo) # One("validate"),
             Head(todo) = One("stat") => Removable',
             Head(todo) = One("validate") => Fetched'
      PROVE  OwnSteps' /\ Decided'
  <2> DEFINE new == more \o Tail(todo)
  <2>0. todo' = new
    BY <1>4
  <2>1. /\ \A i \in 1 .. Len(more) : more[i][1] \notin {"delete", "commit"}
        /\ more # <<>> => todo[1] # One("stat") /\ todo[1] # One("validate")
    BY <1>1, <1>4
  <2> HIDE DEF new
  <2>2. /\ new \in Seq(Steps) /\ Guarded(new)
        /\ \A i \in 1 .. Len(new) : \/ \E j \in 1 .. Len(more) : new[i] = more[j]
                                    \/ \E j \in 1 .. Len(todo) : new[i] = todo[j]
        /\ new # <<>> /\ Head(new) = One("delete") => todo[1] = One("stat")
        /\ new # <<>> /\ Head(new) = One("commit") => todo[1] = One("validate")
    BY <1>1, <2>1, GuardedRest DEF new
  <2>3. \A i \in 1 .. Len(new) : new[i][1] \in NamesOf(call.op)
    BY <1>1, <1>4, <2>2
  <2>4. OwnSteps'
    BY <1>1, <2>0, <2>2, <2>3 DEF OwnSteps
  <2>5. Decided'
    BY <1>1, <1>4, <2>0, <2>2 DEF Decided, At, Guarded, One
  <2> QED
    BY <2>4, <2>5
<1>5. ASSUME todo' = Each(<<"lookAgain">>), call.op = "touch"
      PROVE  OwnSteps' /\ Decided'
  <2> DEFINE names == <<"lookAgain">>
             new == Each(names)
  <2>1. names \in Seq(StepNames) /\ Len(names) = 1 /\ names[1] = "lookAgain"
    BY DEF StepNames
  <2> HIDE DEF names
  <2>2. new \in Seq(Steps) /\ Len(new) = 1 /\ new[1] = One("lookAgain")
    BY <2>1, EachFacts
  <2>3. "lookAgain" \in NamesOf("touch")
    BY DEF NamesOf, WalkOps
  <2>4. todo' = new
    BY <1>5 DEF names
  <2> HIDE DEF new
  <2>5. OwnSteps'
    BY <1>1, <1>5, <2>2, <2>3, <2>4 DEF OwnSteps, One
  <2>6. Guarded(new) /\ Head(new) = new[1] /\ new[1] # One("delete") /\ new[1] # One("commit")
    BY <2>2 DEF Guarded, One
  <2>7. Decided'
    BY <2>4, <2>6 DEF Decided, Guarded, At, One
  <2> QED
    BY <2>5, <2>7
<1>6. OwnSteps' /\ Decided'
  BY <1>2, <1>3, <1>4, <1>5 DEF Moves
<1> QED
  BY <1>1, <1>6

\* What a step may call for.
Callable(more) ==
  /\ more \in Seq(Steps)
  /\ \A i \in 1 .. Len(more) : more[i][1] \in NamesOf(call.op) \ {"delete", "commit"}

LEMMA NothingCallable == Callable(<<>>)
  BY EmptySeq DEF Callable

\* The next step, and what it calls for.
LEMMA Continues ==
  ASSUME IInv, todo # <<>>, NEW more, Callable(more), Continue(more), Carries, Learns,
         more # <<>> => Head(todo) # One("stat") /\ Head(todo) # One("validate"),
         Head(todo) = One("stat") => Removable',
         Head(todo) = One("validate") => Fetched'
  PROVE  Moves
<1>1. todo \in Seq(Steps) /\ more \in Seq(Steps)
  BY DEF IInv, OwnSteps, Callable
<1>2. UNCHANGED <<call, runs>> /\ todo' = more \o Tail(todo)
      /\ outcome' = IF Len(todo) = 1 /\ more = <<>> THEN "done" ELSE outcome
  BY DEF Continue
<1>3. Len(todo) = 1 /\ more = <<>> <=> more \o Tail(todo) = <<>>
  <2> DEFINE rest == Tail(todo)
  <2>1. rest \in Seq(Steps) /\ Len(rest) = Len(todo) - 1 /\ Len(todo) \in Nat
    BY <1>1, RestFacts
  <2> HIDE DEF rest
  <2>2. Len(todo) = 1 <=> Len(rest) = 0
    BY <2>1
  <2>3. rest = <<>> <=> Len(rest) = 0
    BY <2>1, EmptySeq
  <2>4. more \o rest = <<>> <=> (more = <<>> /\ rest = <<>>)
    <3>1. Len(more) \in Nat /\ (more = <<>> <=> Len(more) = 0)
      BY <1>1, EmptySeq
    <3>2. more \o rest \in Seq(Steps) /\ Len(more \o rest) = Len(more) + Len(rest)
      BY <1>1, <2>1, JoinFacts
    <3> DEFINE both == more \o rest
    <3> HIDE DEF both
    <3>3. both = <<>> <=> Len(both) = 0
      BY <3>2, EmptySeq DEF both
    <3>4. Len(both) = 0 <=> (Len(more) = 0 /\ Len(rest) = 0)
      BY <2>1, <3>1, <3>2 DEF both
    <3> QED
      BY <2>3, <3>1, <3>3, <3>4 DEF both
  <2> QED
    BY <2>2, <2>3, <2>4 DEF rest
<1>4. IF todo' = <<>> THEN outcome' # "none" ELSE outcome' = outcome
  BY <1>2, <1>3
<1> QED
  BY <1>1, <1>2, <1>4 DEF Moves, Callable

\* An attempt that does not pass.
LEMMA Fails ==
  ASSUME todo # <<>>, NEW error, error # "none", Again(error) \/ Refused(error) \/ Fail(error), Carries
  PROVE  Moves
<1>1. seen' = seen /\ UNCHANGED <<call, runs>>
      /\ \/ todo' = <<>> /\ outcome' = error
         \/ todo' = todo /\ outcome' = outcome
  BY DEF Again, Refused, Fail
<1> QED
  BY <1>1 DEF Moves, Learns

\* A request that only reads.
LEMMA AsksThen ==
  ASSUME IInv, NEW step, NEW able, NEW answer, NEW more, Callable(more), NEW error, error # "none",
         AskThen(step, able, answer, more, error),
         more # <<>> => step # One("stat"), step # One("validate"),
         step[1] = "look" => answer = tree[step[2]],
         step = One("stat") => (able => (call.op = "remove" => call.recursive \/ answer # "dir"))
  PROVE  Moves
<1>1. todo # <<>> /\ Head(todo) = step
  BY DEF AskThen, At
<1>2. CASE able /\ Answered(step, answer, more) /\ UNCHANGED carried
  <2>1. Continue(more) /\ Learn(step, answer) /\ call' = call /\ able
    BY <1>2 DEF Answered, Continue
  <2>2. step \in DOMAIN seen' /\ seen'[step] = answer
    BY <2>1 DEF Learn
  <2>3. step = One("stat") => Removable'
    BY <2>1, <2>2 DEF Removable, One
  <2>4. Carries /\ Learns
    BY <1>1, <1>2, <2>1 DEF Carries, Learns
  <2> QED
    BY <1>1, <2>1, <2>3, <2>4, Continues
<1>3. CASE ~able /\ Refused(error)
  BY <1>1, <1>3, Fails DEF Refused, Carries
<1>4. CASE Again(error) /\ UNCHANGED <<carried, unsure>>
  BY <1>1, <1>4, Fails DEF Carries
<1> QED
  BY <1>2, <1>3, <1>4 DEF AskThen

LEMMA Asks ==
  ASSUME IInv, NEW step, NEW able, NEW answer, NEW error, error # "none",
         Ask(step, able, answer, error), step # One("validate"),
         step[1] = "look" => answer = tree[step[2]],
         step = One("stat") => (able => (call.op = "remove" => call.recursive \/ answer # "dir"))
  PROVE  Moves
  BY NothingCallable, AsksThen DEF Ask

\* A request that changes something.
Alters(step) ==
  /\ At(step) /\ step # One("stat") /\ step # One("validate") /\ step[1] # "look" /\ Carries
  /\ Answered(step, 0, <<>>) \/ Refused("failed") \/ Again("failed")

LEMMA AltersMoves == ASSUME IInv, NEW step, Alters(step) PROVE Moves
<1>1. todo # <<>> /\ Head(todo) = step
  BY DEF Alters, At
<1>2. CASE Answered(step, 0, <<>>)
  <2>1. Learns
    BY <1>1, <1>2 DEF Answered, Learns, Alters
  <2> QED
    BY <1>1, <1>2, <2>1, NothingCallable, Continues DEF Answered, Alters
<1>3. CASE Refused("failed") \/ Again("failed")
  BY <1>1, <1>3, Fails DEF Alters
<1> QED
  BY <1>2, <1>3 DEF Alters

\* A decision.
LEMMA Decides ==
  ASSUME IInv, NEW step, NEW good, NEW error, error # "none", Decide(step, good, error),
         step # One("stat"), step = One("validate") => (good => Fetched)
  PROVE  Moves
<1>1. todo # <<>> /\ Head(todo) = step
  BY DEF Decide, At
<1>2. CASE good
  <2>1. Continue(<<>>) /\ seen' = seen /\ call' = call /\ carried' = carried
    BY <1>2 DEF Decide, Proceed, Continue
  <2>2. step = One("validate") => Fetched'
    BY <1>2, <2>1 DEF Fetched, One
  <2>3. Carries /\ Learns
    BY <2>1 DEF Carries, Learns
  <2> QED
    BY <1>1, <2>1, <2>2, <2>3, NothingCallable, Continues
<1>3. CASE ~good
  <2>1. Refused(error)
    BY <1>3 DEF Decide
  <2> QED
    BY <1>1, <2>1, Fails DEF Refused, Carries
<1> QED
  BY <1>2, <1>3

\* Steps of different names are different.
LEMMA Unlike ==
  /\ \A x, y : <<x, y>> = One("stat") => x = "stat"
  /\ \A x, y : <<x, y>> = One("validate") => x = "validate"
  /\ \A x : One(x) = One("stat") => x = "stat"
  /\ \A x : One(x) = One("validate") => x = "validate"
  /\ \A p, c : <<"visit", p, c>> # One("stat") /\ <<"visit", p, c>> # One("validate")
  /\ \A x : One(x)[1] = x
  /\ \A x, y : <<x, y>>[1] = x /\ <<x, y>>[2] = y
  BY DEF One

-----------------------------------------------------------------------------
(* The file commands *)

\* A change of the tree, as a step and as a change.
LEMMA ChangesTree ==
  ASSUME IInv, NEW step, step # One("stat"), step # One("validate"), step[1] # "look",
         NEW able, NEW new, ChangeTree(step, able, new)
  PROVE  Moves /\ edits' = edits /\ At(step) /\ (UNCHANGED tree \/ (able /\ tree' = new))
<1>1. /\ Change(step, able, tree' = new /\ was' = was \cup Present(new), UNCHANGED <<tree, was>>, 0, "failed")
      /\ edits' = edits
  BY DEF ChangeTree
<1>2. Alters(step)
  BY <1>1 DEF Change, Alters, Carries, At, Refused
<1>3. At(step) /\ (UNCHANGED tree \/ (able /\ tree' = new))
  BY <1>1 DEF Change
<1> QED
  BY <1>1, <1>2, <1>3, AltersMoves

\* Every step of a file command moves on so, or is another client's.
Aside == UNCHANGED control

LEMMA FileMoves == ASSUME IInv, FileNext PROVE Moves \/ Aside
<1>1. CASE LookAtComponent
  <2>1. PICK p \in Paths : Ask(<<"look", p>>, ~IsFile(p), tree[p], "failed")
    BY <1>1 DEF LookAtComponent
  <2>2. <<"look", p>> # One("stat") /\ <<"look", p>> # One("validate")
    BY Unlike
  <2> QED
    BY <2>1, <2>2, Asks
<1>2. CASE SkipComponent
  <2>1. PICK p \in Paths : /\ At(<<"make", p>>) \/ At(<<"verify", p>>)
                           /\ Continue(<<>>) /\ UNCHANGED <<seen, carried>>
    BY <1>2 DEF SkipComponent, Proceed
  <2>2. todo # <<>> /\ Head(todo) \in {<<"make", p>>, <<"verify", p>>}
    BY <2>1 DEF At
  <2>3. Head(todo) # One("stat") /\ Head(todo) # One("validate")
    BY <2>2, Unlike
  <2> QED
    BY <2>1, <2>2, <2>3, NothingCallable, Continues DEF Carries, Learns
<1>3. CASE MakeCollection
  <2>1. PICK p \in Paths :
          /\ At(<<"make", p>>)
          /\ \/ ChangeTree(<<"make", p>>, Missing(p) /\ HasParent(p), With(p, "dir"))
             \/ Answered(<<"make", p>>, 0, <<>>) /\ carried' = carried
    BY <1>3 DEF MakeCollection
  <2>2. <<"make", p>> # One("stat") /\ <<"make", p>> # One("validate") /\ <<"make", p>>[1] # "look"
    BY Unlike
  <2>3. CASE ChangeTree(<<"make", p>>, Missing(p) /\ HasParent(p), With(p, "dir"))
    BY <2>2, <2>3, ChangesTree
  <2>4. CASE Answered(<<"make", p>>, 0, <<>>) /\ carried' = carried
    BY <2>1, <2>2, <2>4, AltersMoves DEF Alters, Carries
  <2> QED
    BY <2>1, <2>3, <2>4
<1>4. CASE VerifyComponent
  <2>1. PICK p \in Paths : Ask(<<"verify", p>>, IsDir(p), 0, "failed")
    BY <1>4 DEF VerifyComponent
  <2>2. <<"verify", p>> # One("stat") /\ <<"verify", p>> # One("validate")
    BY Unlike
  <2> QED
    BY <2>1, <2>2, Asks
<1>5. CASE LookAtFile
  BY <1>5, Unlike, Asks DEF LookAtFile
<1>6. CASE TouchExisting
  BY <1>6 DEF TouchExisting, Finish, At, Moves, Carries, Learns
<1>7. CASE CreateEmpty
  <2>1. One("create") # One("stat") /\ One("create") # One("validate") /\ One("create")[1] # "look"
    BY Unlike
  <2>2. CASE ChangeTree(One("create"), HasParent(call.path) /\ Missing(call.path), With(call.path, ""))
    BY <2>1, <2>2, ChangesTree
  <2>3. CASE At(One("create")) /\ todo' = Each(<<"lookAgain">>)
           /\ UNCHANGED <<call, seen, outcome, carried, runs>>
    <3>1. todo # <<>> /\ todo \in Seq(Steps) /\ todo[1][1] = "create" /\ 1 \in 1 .. Len(todo)
      BY <2>3, RestFacts DEF At, IInv, OwnSteps, One
    <3>2. "create" \in NamesOf(call.op) /\ call \in Operations
      BY <3>1 DEF IInv, OwnSteps, Running
    <3>3. call.op = "touch"
      BY <3>2, CallFacts, Owners
    <3>4. Each(<<"lookAgain">>) # <<>>
      BY DEF Each
    <3> QED
      BY <2>3, <3>1, <3>3, <3>4 DEF Moves, Carries, Learns
  <2> QED
    BY <1>7, <2>2, <2>3 DEF CreateEmpty
<1>8. CASE LookAgain
  BY <1>8, Unlike, Asks DEF LookAgain
<1>9. CASE VerifyTouched
  <2>1. Ask(One("check"), tree[call.path] = "", 0, "failed")
    BY <1>9 DEF VerifyTouched
  <2>2. One("check") # One("stat") /\ One("check") # One("validate") /\ One("check")[1] # "look"
    BY Unlike
  <2> QED
    BY <2>1, <2>2, Asks
<1>10. CASE Resolve
  BY <1>10, Unlike, Asks DEF Resolve
<1>11. CASE Transfer
  <2>1. One("transfer") # One("stat") /\ One("transfer") # One("validate") /\ One("transfer")[1] # "look"
    BY Unlike
  <2> QED
    BY <1>11, <2>1, ChangesTree DEF Transfer
<1>12. CASE StatPath
  <2>1. Ask(One("stat"), ~Missing(call.path) /\ (call.op = "remove" /\ IsDir(call.path) => call.recursive),
            tree[call.path], "failed")
    BY <1>12 DEF StatPath
  <2>2. One("stat") # One("validate") /\ One("stat")[1] # "look"
    BY Unlike
  <2>3. ~Missing(call.path) /\ (call.op = "remove" /\ IsDir(call.path) => call.recursive)
          => (call.op = "remove" => call.recursive \/ tree[call.path] # "dir")
    BY DEF IsDir
  <2> QED
    BY <2>1, <2>2, <2>3, Asks
<1>13. CASE Delete
  <2>1. One("delete") # One("stat") /\ One("delete") # One("validate") /\ One("delete")[1] # "look"
    BY Unlike
  <2> QED
    BY <1>13, <2>1, ChangesTree DEF Delete
<1>14. CASE Put
  <2>1. One("put") # One("stat") /\ One("put") # One("validate") /\ One("put")[1] # "look"
    BY Unlike
  <2> QED
    BY <1>14, <2>1, ChangesTree DEF Put
<1>15. CASE ChangeTag
  <2>1. One("changeTag") # One("stat") /\ One("changeTag") # One("validate") /\ One("changeTag")[1] # "look"
    BY Unlike
  <2>2. Alters(One("changeTag"))
    BY <1>15, <2>1 DEF ChangeTag, Change, Alters, Carries, At, Refused
  <2> QED
    BY <2>2, AltersMoves
<1>16. CASE Refresh
  BY <1>16, Unlike, Asks DEF Refresh
<1>17. CASE AskOptions
  BY <1>17, Unlike, Asks DEF AskOptions
<1>18. CASE PropPatch
  <2>1. One("proppatch") # One("stat") /\ One("proppatch") # One("validate") /\ One("proppatch")[1] # "look"
    BY Unlike
  <2>2. Alters(One("proppatch"))
    BY <1>18, <2>1 DEF PropPatch, Change, Alters, Carries, At, Refused
  <2> QED
    BY <2>2, AltersMoves
<1>19. CASE OtherEdits
  BY <1>19 DEF OtherEdits, Aside
<1> QED
  BY <1>1, <1>2, <1>3, <1>4, <1>5, <1>6, <1>7, <1>8, <1>9, <1>10, <1>11, <1>12, <1>13, <1>14,
     <1>15, <1>16, <1>17, <1>18, <1>19 DEF FileNext


-----------------------------------------------------------------------------
(* Walks and archives *)

\* Steps a listing, a walk or a selection calls for.
LEMMA CallsFor ==
  ASSUME call \in Operations, NEW p \in Paths
  PROVE  /\ "list" \in NamesOf(call.op) => Callable(List(p))
         /\ "peek" \in NamesOf(call.op) => Callable(Peek(p))
         /\ "visit" \in NamesOf(call.op) =>
              \A c \in Contents \cup {"dir"} : Callable(<<<<"visit", p, c>>>>)
<1>1. p \in Seq(STRING)
  BY PathFacts
<1>2. <<"list", p>> \in Steps /\ <<"peek", p>> \in Steps
  BY <1>1 DEF Steps, StepNames
<1>3. \A c \in Contents \cup {"dir"} : <<"visit", p, c>> \in Steps
  BY DEF Steps
<1>4. ASSUME NEW step \in Steps, step[1] \in NamesOf(call.op) \ {"delete", "commit"}
      PROVE  Callable(<<step>>)
  BY <1>4 DEF Callable
<1>5. "list" \in NamesOf(call.op) => Callable(List(p))
  BY <1>2, <1>4 DEF List
<1>6. "peek" \in NamesOf(call.op) => Callable(Peek(p))
  BY <1>2, <1>4 DEF Peek
<1>7. ASSUME "visit" \in NamesOf(call.op), NEW c \in Contents \cup {"dir"}
      PROVE  Callable(<<<<"visit", p, c>>>>)
  <2>1. <<"visit", p, c>>[1] = "visit"
    OBVIOUS
  <2> QED
    BY <1>3, <1>4, <1>7, <2>1
<1> QED
  BY <1>5, <1>6, <1>7

\* A finite set as a sequence.
LEMMA SetSequence ==
  ASSUME NEW S, IsFiniteSet(S)
  PROVE  /\ SetToSeq(S) \in Seq(S)
<1>1. Cardinality(S) \in Nat /\ ExistsBijection(1 .. Cardinality(S), S)
  BY FS_CardinalityType
<1>2. \E f \in [1 .. Cardinality(S) -> S] : IsInjective(f)
  BY <1>1 DEF ExistsBijection, Bijection, Injection
<1>3. SetToSeq(S) \in [1 .. Cardinality(S) -> S]
  BY <1>2 DEF SetToSeq
<1> QED
  BY <1>1, <1>3

\* The visits of a directory's children.
LEMMA VisitsCallable ==
  ASSUME IsTree(tree), NEW p \in Paths, "visit" \in NamesOf(call.op)
  PROVE  Callable(Visits(p))
<1> DEFINE V == {<<"visit", q, tree[q]>> : q \in Children(p)}
           f == [q \in Children(p) |-> <<"visit", q, tree[q]>>]
<1>1. Children(p) \subseteq Paths /\ IsFiniteSet(Paths)
  BY FileCommandsAssumption DEF Children
<1>2. IsFiniteSet(Children(p))
  BY <1>1, FS_Subset
<1>3. f \in Surjection(Children(p), V)
  BY DEF Surjection
<1>4. IsFiniteSet(V)
  <2> HIDE DEF V, f
  <2> QED
    BY <1>2, <1>3, FS_Surjection
<1>5. \A v \in V : v \in Steps /\ v[1] = "visit"
  <2>1. ASSUME NEW q \in Children(p) PROVE <<"visit", q, tree[q]>> \in Steps
    <3>1. q \in Paths /\ tree[q] \in Contents \cup {"dir"}
      BY DEF Children, IsTree, Missing
    <3> QED
      BY <3>1 DEF Steps
  <2> QED
    BY <2>1
<1>6. Visits(p) = SetToSeq(V)
  BY DEF Visits
<1> HIDE DEF V
<1>7. Visits(p) \in Seq(V)
  BY <1>4, <1>6, SetSequence
<1>8. Visits(p) \in Seq(Steps) /\ \A i \in 1 .. Len(Visits(p)) : Visits(p)[i][1] = "visit"
  BY <1>5, <1>7
<1> QED
  BY <1>8 DEF Callable

LEMMA Whose ==
  ASSUME IInv, NEW name, NEW step, todo # <<>>, Head(todo) = step, step[1] = name
  PROVE  name \in NamesOf(call.op) /\ call \in Operations
BY RestFacts DEF IInv, OwnSteps, Running

\* What those who walk may call for.
LEMMA Walkers ==
  ASSUME call \in Operations
  PROVE  /\ "root" \in NamesOf(call.op) => "list" \in NamesOf(call.op) /\ "peek" \in NamesOf(call.op)
         /\ "list" \in NamesOf(call.op) => "visit" \in NamesOf(call.op)
         /\ "select" \in NamesOf(call.op) => "list" \in NamesOf(call.op) /\ "visit" \in NamesOf(call.op)
         /\ call.op \in WalkOps => "list" \in NamesOf(call.op) /\ "peek" \in NamesOf(call.op)
         /\ call.op = "archive" => "list" \in NamesOf(call.op)
<1>1. call.op \in FileOps \cup WalkOps \cup {"archive"}
  BY CallFacts
<1>2. call.op \in WalkOps => /\ "list" \in NamesOf(call.op) /\ "peek" \in NamesOf(call.op)
                             /\ "visit" \in NamesOf(call.op)
  BY DEF NamesOf, WalkOps
<1>3. call.op = "archive" => "list" \in NamesOf(call.op) /\ "visit" \in NamesOf(call.op)
  BY DEF NamesOf, WalkOps
<1> QED
  BY <1>1, <1>2, <1>3, Owners


\* Every step of a walk or an archive moves on so, too.
LEMMA WalkMoves == ASSUME IInv, WalkNext PROVE Moves \/ Aside
<1>0. IsTree(tree) /\ call \in Operations /\ todo \in Seq(Steps)
  BY DEF IInv, Running, OwnSteps
<1>1. CASE WalkRoot
  <2> DEFINE what == tree[call.path]
             more == CASE what # "dir" -> <<>>
                       [] what = "dir" /\ call.maxDepth > 0 -> List(call.path)
                       [] OTHER -> IF call.op = "du" THEN Peek(call.path) ELSE <<>>
  <2>1. AskThen(One("root"), what # "none", what, more, "failed")
    BY <1>1 DEF WalkRoot
  <2>2. "root" \in NamesOf(call.op)
    BY <2>1, Whose DEF AskThen, At, One
  <2>3. call.path \in Paths
    BY <1>0, <2>2, CallFacts, Owners DEF FileOps, WalkOps
  <2>4. Callable(List(call.path)) /\ Callable(Peek(call.path))
    BY <1>0, <2>2, <2>3, CallsFor, Walkers
  <2>5. more \in {<<>>, List(call.path), Peek(call.path)}
    OBVIOUS
  <2> HIDE DEF what, more
  <2>6. Callable(more)
    BY <2>4, <2>5, NothingCallable
  <2>7. One("root") # One("stat") /\ One("root") # One("validate") /\ One("root")[1] # "look"
    BY Unlike
  <2> QED
    BY <2>1, <2>6, <2>7, AsksThen
<1>2. CASE ListDirectory
  <2>1. PICK p \in Paths : AskThen(<<"list", p>>, ~Missing(p), 0, Visits(p), "failed")
    BY <1>2 DEF ListDirectory
  <2>2. "list" \in NamesOf(call.op)
    BY <2>1, Whose DEF AskThen, At
  <2>3. Callable(Visits(p))
    BY <1>0, <2>2, VisitsCallable, Walkers
  <2>4. <<"list", p>> # One("stat") /\ <<"list", p>> # One("validate") /\ <<"list", p>>[1] # "look"
    BY Unlike
  <2> QED
    BY <2>1, <2>3, <2>4, AsksThen
<1>3. CASE VisitEntry
  <2> DEFINE After(p, c) == CASE c # "dir" -> <<>>
                              [] c = "dir" /\ Descends(p) -> List(p)
                              [] OTHER -> IF call.op = "du" THEN Peek(p) ELSE <<>>
  <2>1. PICK p \in Paths, c \in Contents \cup {"dir"} :
          /\ At(<<"visit", p, c>>)
          /\ Refused("failed") \/ (Continue(After(p, c)) /\ UNCHANGED <<seen, carried>>)
    BY <1>3 DEF VisitEntry
  <2>2. call.op \in WalkOps
    BY <1>3 DEF VisitEntry
  <2>3. Callable(List(p)) /\ Callable(Peek(p))
    BY <1>0, <2>2, CallsFor, Walkers
  <2>4. After(p, c) \in {<<>>, List(p), Peek(p)}
    OBVIOUS
  <2> HIDE DEF After
  <2>5. Callable(After(p, c))
    BY <2>3, <2>4, NothingCallable
  <2>6. todo # <<>> /\ Head(todo) # One("stat") /\ Head(todo) # One("validate")
    BY <2>1, Unlike DEF At
  <2> QED
    BY <2>1, <2>5, <2>6, Continues, Fails DEF Carries, Learns, Refused
<1>4. CASE PeekBelow
  <2>1. PICK p \in Paths : Ask(<<"peek", p>>, ~Missing(p), Children(p), "failed")
    BY <1>4 DEF PeekBelow
  <2>2. <<"peek", p>> # One("stat") /\ <<"peek", p>> # One("validate") /\ <<"peek", p>>[1] # "look"
    BY Unlike
  <2> QED
    BY <2>1, <2>2, Asks
<1>5. CASE LookAtDestination
  <2>1. Decide(One("lookLocal"), local = "none" \/ (local # "dir" /\ call.overwrite), "failed")
    BY <1>5 DEF LookAtDestination
  <2> QED
    BY <2>1, Unlike, Decides
<1>6. CASE AskCapabilities
  BY <1>6, Unlike, Asks DEF AskCapabilities
<1>7. CASE Select
  <2> DEFINE More(p) == IF p = <<>> THEN List(p) ELSE <<<<"visit", p, tree[p]>>>>
  <2>1. PICK p \in Paths :
          /\ At(<<"select", p>>)
          /\ \/ AskThen(<<"select", p>>, ~Missing(p), tree[p], More(p), "failed")
             \/ Refused("failed")
    BY <1>7 DEF Select
  <2>2. "select" \in NamesOf(call.op) /\ todo # <<>>
    BY <2>1, Whose DEF At
  <2>3. <<"select", p>> # One("stat") /\ <<"select", p>> # One("validate") /\ <<"select", p>>[1] # "look"
    BY Unlike
  <2>4. CASE Refused("failed")
    BY <2>2, <2>4, Fails DEF Refused, Carries
  <2>5. CASE Missing(p) /\ AskThen(<<"select", p>>, ~Missing(p), tree[p], More(p), "failed")
    <3>1. (Refused("failed") \/ Again("failed")) /\ carried' = carried
      BY <2>5 DEF AskThen, Refused
    <3> QED
      BY <2>2, <3>1, Fails DEF Carries
  <2>6. CASE ~Missing(p) /\ AskThen(<<"select", p>>, ~Missing(p), tree[p], More(p), "failed")
    <3>1. tree[p] \in Contents \cup {"dir"}
      BY <1>0, <2>6 DEF IsTree, Missing
    <3>2. Callable(List(p)) /\ Callable(<<<<"visit", p, tree[p]>>>>)
      BY <1>0, <2>2, <3>1, CallsFor, Walkers
    <3>3. Callable(More(p))
      BY <3>2
    <3> HIDE DEF More
    <3> QED
      BY <2>3, <2>6, <3>3, AsksThen
  <2> QED
    BY <2>1, <2>4, <2>5, <2>6
<1>8. CASE VisitArchived
  <2> DEFINE After(p, c) == IF c = "dir" THEN List(p) ELSE <<>>
  <2>1. PICK p \in Paths, c \in Contents \cup {"dir"} :
          /\ At(<<"visit", p, c>>)
          /\ Refused("failed") \/ (Continue(After(p, c)) /\ UNCHANGED <<seen, carried>>)
    BY <1>8 DEF VisitArchived
  <2>2. call.op = "archive"
    BY <1>8 DEF VisitArchived
  <2>3. Callable(After(p, c))
    BY <1>0, <2>2, CallsFor, Walkers, NothingCallable
  <2> HIDE DEF After
  <2>4. todo # <<>> /\ Head(todo) # One("stat") /\ Head(todo) # One("validate")
    BY <2>1, Unlike DEF At
  <2> QED
    BY <2>1, <2>3, <2>4, Continues, Fails DEF Carries, Learns, Refused
<1>9. CASE Fetch
  <2>1. One("fetch") # One("stat") /\ One("fetch") # One("validate") /\ One("fetch")[1] # "look"
    BY Unlike
  <2>2. CASE \E able, answer : Ask(One("fetch"), able, answer, "failed")
    BY <2>1, <2>2, Asks
  <2>3. CASE /\ \E answer : Learn(One("fetch"), answer)
             /\ Proceed /\ UNCHANGED carried
    <3>1. todo # <<>> /\ Head(todo) = One("fetch") /\ One("fetch")[1] # "look"
      BY <1>9, Unlike DEF Fetch, At
    <3>2. Carries /\ Learns
      BY <2>3, <3>1 DEF Carries, Learns
    <3> QED
      BY <2>1, <2>3, <3>1, <3>2, NothingCallable, Continues DEF Proceed
  <2> QED
    BY <1>9, <2>2, <2>3 DEF Fetch
<1>10. CASE Validate
  <2> DEFINE got == seen[One("fetch")]
  <2>1. PICK readable \in {got.whole, got.whole \/ call.format = "tar"} :
          Decide(One("validate"),
                 readable /\ Len(got.entries) <= MaxNumFiles /\ Bytes(got.entries) <= MaxSize, "failed")
    BY <1>10 DEF Validate
  <2>2. readable /\ Len(got.entries) <= MaxNumFiles /\ Bytes(got.entries) <= MaxSize => Fetched
    BY <2>1 DEF Fetched
  <2>3. One("validate") # One("stat")
    BY Unlike
  <2> HIDE DEF got
  <2> QED
    BY <2>1, <2>2, <2>3, Decides
<1>11. CASE Commit
  <2>1. Decide(One("commit"), local = "none" \/ (call.overwrite /\ local # "dir"), "failed")
    BY <1>11 DEF Commit
  <2> QED
    BY <2>1, Unlike, Decides
<1>12. CASE OtherLocal
  BY <1>12 DEF OtherLocal, Aside
<1> QED
  BY <1>1, <1>2, <1>3, <1>4, <1>5, <1>6, <1>7, <1>8, <1>9, <1>10, <1>11, <1>12 DEF WalkNext


-----------------------------------------------------------------------------
(* What becomes of the tree *)

TreeKept == IsTree(tree)' /\ edits' \in Nat /\ (edits' = edits => TreeAsAsked)

\* The tree as it was, or with something put where nothing was.
LEMMA TreeUntouched ==
  ASSUME IsTree(tree), edits \in Nat, edits' = edits, UNCHANGED tree
  PROVE  TreeKept
  BY DEF TreeKept, TreeAsAsked, IsTree

LEMMA TreeFilled ==
  ASSUME IsTree(tree), edits \in Nat, edits' = edits, NEW p \in Paths, Missing(p), HasParent(p),
         NEW what \in Contents \cup {"dir"}, tree' = With(p, what)
  PROVE  TreeKept
<1>1. ~IsDir(p)
  BY DEF Missing, IsDir
<1>2. IsTree(With(p, what)) /\ \A q \in Paths : q # p => With(p, what)[q] = tree[q]
  BY <1>1, WithTree
<1>3. IsTree(tree)'
  BY <1>2 DEF IsTree
<1>4. \A q \in Paths : tree[q] # "none" => tree'[q] = tree[q]
  BY <1>2 DEF Missing
<1> QED
  BY <1>3, <1>4 DEF TreeKept, TreeAsAsked

\* What others do.
LEMMA EditsKeep == ASSUME IsTree(tree), edits \in Nat, OtherEdits PROVE TreeKept
<1>1. edits' = edits + 1 /\ edits' \in Nat /\ edits' # edits
  BY DEF OtherEdits
<1>2. PICK p \in Paths \ {<<>>} :
        \/ Missing(p) /\ HasParent(p) /\ \E c \in Contents \cup {"dir"} : tree' = With(p, c)
        \/ tree' = Cut(p)
        \/ IsFile(p) /\ \E c \in Contents \ {tree[p]} : tree' = With(p, c)
  BY DEF OtherEdits
<1>3. CASE Missing(p) /\ HasParent(p) /\ \E c \in Contents \cup {"dir"} : tree' = With(p, c)
  <2>1. PICK c \in Contents \cup {"dir"} : tree' = With(p, c)
    BY <1>3
  <2>2. ~IsDir(p)
    BY <1>3 DEF Missing, IsDir
  <2>3. IsTree(With(p, c))
    BY <1>3, <2>2, WithTree
  <2>4. IsTree(tree)'
    BY <2>1, <2>3 DEF IsTree
  <2> QED
    BY <1>1, <2>4 DEF TreeKept, TreeAsAsked
<1>4. CASE tree' = Cut(p)
  <2>1. IsTree(Cut(p))
    BY CutTree
  <2>2. IsTree(tree)'
    BY <1>4, <2>1 DEF IsTree
  <2> QED
    BY <1>1, <2>2 DEF TreeKept, TreeAsAsked
<1>5. CASE IsFile(p) /\ \E c \in Contents \ {tree[p]} : tree' = With(p, c)
  <2>1. PICK c \in Contents \cup {"dir"} : tree' = With(p, c)
    BY <1>5
  <2>2. ~IsDir(p) /\ ~Missing(p)
    BY <1>5, FileCommandsAssumption DEF Missing, IsDir, IsFile
  <2>3. IsTree(With(p, c))
    BY <2>2, WithTree
  <2>4. IsTree(tree)'
    BY <2>1, <2>3 DEF IsTree
  <2> QED
    BY <1>1, <2>4 DEF TreeKept, TreeAsAsked
<1> QED
  BY <1>2, <1>3, <1>4, <1>5

\* mkdir and touch put something where nothing is.
LEMMA MakesKeep == ASSUME IInv, MakeCollection \/ CreateEmpty PROVE TreeKept
<1>0. IsTree(tree) /\ edits \in Nat /\ call \in Operations
  BY DEF IInv, Running
<1>1. CASE MakeCollection
  <2>1. PICK p \in Paths :
          /\ At(<<"make", p>>)
          /\ \/ ChangeTree(<<"make", p>>, Missing(p) /\ HasParent(p), With(p, "dir"))
             \/ UNCHANGED files
    BY <1>1 DEF MakeCollection
  <2>2. <<"make", p>> # One("stat") /\ <<"make", p>> # One("validate") /\ <<"make", p>>[1] # "look"
    BY Unlike
  <2>3. CASE ChangeTree(<<"make", p>>, Missing(p) /\ HasParent(p), With(p, "dir"))
    <3>1. /\ edits' = edits
          /\ UNCHANGED tree \/ (Missing(p) /\ HasParent(p) /\ tree' = With(p, "dir"))
      BY <2>2, <2>3, ChangesTree
    <3> QED
      BY <1>0, <3>1, TreeUntouched, TreeFilled
  <2>4. CASE UNCHANGED files
    BY <1>0, <2>4, TreeUntouched DEF files
  <2> QED
    BY <2>1, <2>3, <2>4
<1>2. CASE CreateEmpty
  <2>0. At(One("create"))
    BY <1>2 DEF CreateEmpty
  <2>1. "create" \in NamesOf(call.op)
    BY <2>0, Whose DEF At, One
  <2>2. call.path \in Paths
    BY <1>0, <2>1, CallFacts, Owners DEF FileOps
  <2>3. One("create") # One("stat") /\ One("create") # One("validate") /\ One("create")[1] # "look"
    BY Unlike
  <2>4. CASE ChangeTree(One("create"), HasParent(call.path) /\ Missing(call.path), With(call.path, ""))
    <3>1. /\ edits' = edits
          /\ UNCHANGED tree
             \/ (HasParent(call.path) /\ Missing(call.path) /\ tree' = With(call.path, ""))
      BY <2>3, <2>4, ChangesTree
    <3>2. "" \in Contents \cup {"dir"}
      BY FileCommandsAssumption
    <3> QED
      BY <1>0, <2>2, <3>1, <3>2, TreeUntouched, TreeFilled
  <2>5. CASE UNCHANGED files
    BY <1>0, <2>5, TreeUntouched DEF files
  <2> QED
    BY <1>2, <2>4, <2>5 DEF CreateEmpty
<1> QED
  BY <1>1, <1>2

\* A copy and a move replace only with leave.
LEMMA TransferKeeps == ASSUME IInv, Transfer PROVE TreeKept
<1> DEFINE to == seen[One("resolve")]
           from == call.from
           moves == (call.op = "move")
           new == [q \in Paths |-> IF moves /\ q \in Below(from) THEN "none"
                                   ELSE Copied(from, to)[q]]
           able == /\ ~Missing(from) /\ to \in Paths /\ HasParent(to)
                   /\ to \notin Below(from) /\ from \notin Below(to)
                   /\ call.overwrite \/ Missing(to)
<1>0. IsTree(tree) /\ edits \in Nat /\ call \in Operations
  BY DEF IInv, Running
<1>1. "transfer" \in NamesOf(call.op)
  BY Whose DEF Transfer, At, One
<1>2. call.op \in {"copy", "move"} /\ from \in Paths
  BY <1>0, <1>1, CallFacts, Owners
<1>3. ChangeTree(One("transfer"), able, new)
  BY DEF Transfer
<1>4. One("transfer") # One("stat") /\ One("transfer") # One("validate") /\ One("transfer")[1] # "look"
  BY Unlike
<1>5. edits' = edits /\ (UNCHANGED tree \/ (able /\ tree' = new))
  <2> HIDE DEF able, new
  <2> QED
    BY <1>3, <1>4, ChangesTree
<1>6. CASE UNCHANGED tree
  BY <1>0, <1>5, <1>6, TreeUntouched
<1>7. CASE able /\ tree' = new
  <2>1. /\ IsTree(new)
        /\ \A q \in Paths : new[q] # tree[q] => q \in Below(to) \/ (moves /\ q \in Below(from))
    <3>1. /\ to \in Paths /\ HasParent(to) /\ to \notin Below(from) /\ from \notin Below(to)
          /\ moves \in BOOLEAN
      BY <1>7
    <3> HIDE DEF to, from, moves
    <3> QED
      BY <1>0, <1>2, <3>1, TransferTree
  <2>2. ASSUME NEW q \in Paths, tree[q] # "none", tree'[q] # tree[q]
        PROVE  (moves /\ q \in Below(from)) \/ (call.overwrite /\ q \in Below(to))
    <3>1. q \in Below(to) \/ (moves /\ q \in Below(from))
      BY <1>7, <2>1, <2>2
    <3>2. q \in Below(to) /\ Missing(to) => FALSE
      <4>1. to \in Paths
        BY <1>7
      <4> HIDE DEF to
      <4> QED
        BY <1>0, <2>2, <4>1, MissingBelow DEF Missing
    <3> QED
      BY <1>7, <3>1, <3>2
  <2>3. IsTree(tree)'
    <3> HIDE DEF new
    <3> QED
      BY <1>7, <2>1 DEF IsTree
  <2>4. TreeAsAsked
    BY <1>2, <2>2 DEF TreeAsAsked
  <2> QED
    BY <1>0, <1>5, <2>3, <2>4 DEF TreeKept
<1> QED
  BY <1>5, <1>6, <1>7

\* A removal takes what was looked at.
LEMMA DeleteKeeps == ASSUME IInv, Delete PROVE TreeKept
<1>0. IsTree(tree) /\ edits \in Nat /\ call \in Operations
  BY DEF IInv, Running
<1>1. One("delete") # One("stat") /\ One("delete") # One("validate") /\ One("delete")[1] # "look"
  BY Unlike
<1>2. At(One("delete")) /\ edits' = edits /\ (UNCHANGED tree \/ tree' = Cut(call.path))
  BY <1>1, ChangesTree DEF Delete
<1>3. "delete" \in NamesOf(call.op)
  BY <1>2, Whose DEF At, One
<1>4. call.op = "remove" /\ call.path \in Paths
  BY <1>0, <1>3, CallFacts, Owners DEF FileOps
<1>5. call.recursive \/ seen[One("stat")] # "dir"
  BY <1>2, <1>4 DEF IInv, Decided, Removable
<1>6. CASE UNCHANGED tree
  BY <1>0, <1>2, <1>6, TreeUntouched
<1>7. CASE tree' = Cut(call.path)
  <2>1. /\ IsTree(Cut(call.path))
        /\ \A q \in Paths : q \notin Below(call.path) => Cut(call.path)[q] = tree[q]
    BY <1>0, <1>4, CutTree
  <2>2. IsTree(tree)'
    BY <1>7, <2>1 DEF IsTree
  <2>3. \A q \in Paths : tree'[q] # tree[q] => q \in Below(call.path)
    BY <1>7, <2>1
  <2>4. TreeAsAsked
    BY <1>4, <1>5, <2>3 DEF TreeAsAsked
  <2> QED
    BY <1>0, <1>2, <2>2, <2>4 DEF TreeKept
<1> QED
  BY <1>2, <1>6, <1>7

\* An upload replaces a file only with leave.
LEMMA PutKeeps == ASSUME IInv, Put PROVE TreeKept
<1> DEFINE p == call.path
           free == Missing(p) \/ (~call.noClobber /\ IsFile(p))
<1>0. IsTree(tree) /\ edits \in Nat /\ call \in Operations
  BY DEF IInv, Running
<1>1. One("put") # One("stat") /\ One("put") # One("validate") /\ One("put")[1] # "look"
  BY Unlike
<1>2. /\ At(One("put")) /\ edits' = edits
      /\ UNCHANGED tree \/ (HasParent(p) /\ free /\ tree' = With(p, call.content))
  BY <1>1, ChangesTree DEF Put
<1>3. "put" \in NamesOf(call.op)
  BY <1>2, Whose DEF At, One
<1>4. call.op = "upload" /\ p \in Paths /\ call.content \in Contents \cup {"dir"}
  BY <1>0, <1>3, CallFacts, Owners DEF FileOps
<1>5. CASE UNCHANGED tree
  BY <1>0, <1>2, <1>5, TreeUntouched
<1>6. CASE HasParent(p) /\ free /\ tree' = With(p, call.content)
  <2>1. ~IsDir(p)
    BY <1>6, FileCommandsAssumption DEF Missing, IsDir, IsFile
  <2>2. /\ IsTree(With(p, call.content))
        /\ \A q \in Paths : q # p => With(p, call.content)[q] = tree[q]
    BY <1>0, <1>4, <1>6, <2>1, WithTree
  <2>3. IsTree(tree)'
    BY <1>6, <2>2 DEF IsTree
  <2>4. \A q \in Paths : tree'[q] # tree[q] => q = p
    BY <1>6, <2>2
  <2>5. ASSUME NEW q \in Paths, tree[q] # "none", tree'[q] # tree[q]
        PROVE  q = p /\ ~call.noClobber /\ IsFile(q)
    BY <1>6, <2>4, <2>5 DEF Missing
  <2>6. TreeAsAsked
    BY <1>4, <2>5 DEF TreeAsAsked
  <2> QED
    BY <1>0, <1>2, <2>3, <2>6 DEF TreeKept
<1> QED
  BY <1>2, <1>5, <1>6

LEMMA FileKeeps == ASSUME IInv, FileNext PROVE TreeKept
<1>0. IsTree(tree) /\ edits \in Nat
  BY DEF IInv, Running
<1>1. CASE LookAtComponent \/ SkipComponent \/ VerifyComponent \/ LookAtFile \/ TouchExisting
           \/ LookAgain \/ VerifyTouched \/ Resolve \/ StatPath \/ Refresh \/ AskOptions
  <2>1. UNCHANGED files
    BY <1>1 DEF LookAtComponent, SkipComponent, VerifyComponent, LookAtFile, TouchExisting,
                LookAgain, VerifyTouched, Resolve, StatPath, Refresh, AskOptions
  <2> QED
    BY <1>0, <2>1, TreeUntouched DEF files
<1>2. CASE ChangeTag \/ PropPatch
  BY <1>0, <1>2, TreeUntouched DEF ChangeTag, PropPatch
<1> QED
  BY <1>0, <1>1, <1>2, EditsKeep, MakesKeep, TransferKeeps, DeleteKeeps, PutKeeps DEF FileNext

\* A walk takes nothing from the remote tree, an archive comes to its place only
\* when it was validated, and replaces only with leave.
LEMMA WalkKeeps == ASSUME IInv, WalkNext PROVE TreeKept /\ (edits' = edits => LocalAsAsked)
<1>0. IsTree(tree) /\ edits \in Nat
  BY DEF IInv, Running
<1>1. CASE OtherLocal
  <2>1. edits' = edits + 1 /\ tree' = tree
    BY <1>1 DEF OtherLocal
  <2>2. edits' \in Nat /\ edits' # edits
    BY <1>0, <2>1
  <2> QED
    BY <1>0, <2>1, <2>2 DEF TreeKept, TreeAsAsked, LocalAsAsked, IsTree
<1>2. CASE Commit
  <2>1. UNCHANGED files /\ At(One("commit"))
    BY <1>2 DEF Commit
  <2>2. Fetched
    BY <2>1 DEF IInv, Decided, At
  <2>3. local' # local => local = "none" \/ (call.overwrite /\ local # "dir")
    BY <1>2 DEF Commit
  <2> QED
    BY <1>0, <2>1, <2>2, <2>3, TreeUntouched DEF files, LocalAsAsked, Fetched
<1>3. CASE WalkRoot \/ ListDirectory \/ VisitEntry \/ PeekBelow \/ LookAtDestination
           \/ AskCapabilities \/ Select \/ VisitArchived \/ Fetch \/ Validate
  <2>1. UNCHANGED files /\ local' = local
    BY <1>3 DEF WalkRoot, ListDirectory, VisitEntry, PeekBelow, LookAtDestination,
                AskCapabilities, Select, VisitArchived, Fetch, Validate, walked
  <2> QED
    BY <1>0, <2>1, TreeUntouched DEF files, LocalAsAsked
<1> QED
  BY <1>1, <1>2, <1>3 DEF WalkNext


-----------------------------------------------------------------------------
(* The scripts *)

\* A script of the running command, in which a removal and a commit come after
\* what decides about them.
Proper(s) ==
  /\ s \in Seq(Steps)
  /\ \A i \in 1 .. Len(s) : s[i][1] \in NamesOf(call.op)
  /\ \A i \in 1 .. Len(s) :
       /\ s[i] = One("delete") => i > 1 /\ s[i - 1] = One("stat")
       /\ s[i] = One("commit") => i > 1 /\ s[i - 1] = One("validate")

LEMMA ProperEmpty == Proper(<<>>)
  BY EmptySeq DEF Proper

LEMMA ProperJoined == ASSUME NEW s, NEW t, Proper(s), Proper(t) PROVE Proper(s \o t)
<1>1. s \in Seq(Steps) /\ t \in Seq(Steps)
  BY DEF Proper
<1>2. /\ s \o t \in Seq(Steps) /\ Len(s \o t) = Len(s) + Len(t)
      /\ \A i \in 1 .. Len(s) + Len(t) : (s \o t)[i] = IF i <= Len(s) THEN s[i] ELSE t[i - Len(s)]
  BY <1>1, JoinFacts
<1>3. Len(s) \in Nat /\ Len(t) \in Nat
  BY <1>1
<1> DEFINE r == s \o t
<1> HIDE DEF r
<1>4. ASSUME NEW i \in 1 .. Len(r)
      PROVE  \/ i \in 1 .. Len(s) /\ r[i] = s[i]
             \/ i \notin 1 .. Len(s) /\ i - Len(s) \in 1 .. Len(t) /\ r[i] = t[i - Len(s)]
  BY <1>2, <1>3 DEF r
<1>5. \A i \in 1 .. Len(r) : r[i][1] \in NamesOf(call.op)
  BY <1>4 DEF Proper
<1> DEFINE Led(u, step, before) == \A j \in 1 .. Len(u) : u[j] = step => j > 1 /\ u[j - 1] = before
<1>6. ASSUME NEW i \in 1 .. Len(r), NEW step, NEW before, r[i] = step,
             Led(s, step, before), Led(t, step, before)
      PROVE  i > 1 /\ r[i - 1] = before
  <2>1. CASE i \in 1 .. Len(s) /\ r[i] = s[i]
    <3>1. i > 1 /\ s[i - 1] = before
      BY <1>6, <2>1 DEF Led
    <3>2. i - 1 \in 1 .. Len(s) /\ i - 1 \in 1 .. Len(r)
      BY <1>3, <2>1, <3>1
    <3> QED
      BY <1>4, <3>1, <3>2
  <2>2. CASE i \notin 1 .. Len(s) /\ i - Len(s) \in 1 .. Len(t) /\ r[i] = t[i - Len(s)]
    <3>1. i - Len(s) > 1 /\ t[(i - Len(s)) - 1] = before
      BY <1>6, <2>2 DEF Led
    <3>2. i - 1 \in 1 .. Len(r) /\ i - 1 \notin 1 .. Len(s) /\ i > 1
          /\ (i - 1) - Len(s) = (i - Len(s)) - 1
      BY <1>3, <2>2, <3>1
    <3> QED
      BY <1>4, <3>1, <3>2
  <2> QED
    BY <1>4, <2>1, <2>2
<1>7. ASSUME NEW i \in 1 .. Len(r)
      PROVE  /\ r[i] = One("delete") => i > 1 /\ r[i - 1] = One("stat")
             /\ r[i] = One("commit") => i > 1 /\ r[i - 1] = One("validate")
  <2>1. Led(s, One("delete"), One("stat")) /\ Led(t, One("delete"), One("stat"))
    BY DEF Proper, Led
  <2>2. Led(s, One("commit"), One("validate")) /\ Led(t, One("commit"), One("validate"))
    BY DEF Proper, Led
  <2> HIDE DEF Led
  <2>3. r[i] = One("delete") => i > 1 /\ r[i - 1] = One("stat")
    BY <1>6, <2>1
  <2>4. r[i] = One("commit") => i > 1 /\ r[i - 1] = One("validate")
    BY <1>6, <2>2
  <2> QED
    BY <2>3, <2>4
<1> QED
  BY <1>2, <1>5, <1>7 DEF Proper, r

\* Steps without a removal or a commit.
LEMMA ProperPlain ==
  ASSUME NEW s \in Seq(Steps),
         \A i \in 1 .. Len(s) : s[i][1] \in NamesOf(call.op) \ {"delete", "commit"}
  PROVE  Proper(s)
  BY DEF Proper, One

LEMMA ProperEach ==
  ASSUME NEW names \in Seq(StepNames),
         \A i \in 1 .. Len(names) :
           /\ names[i] \in NamesOf(call.op)
           /\ names[i] = "delete" => i > 1 /\ names[i - 1] = "stat"
           /\ names[i] = "commit" => i > 1 /\ names[i - 1] = "validate"
  PROVE  Proper(Each(names))
<1> DEFINE s == Each(names)
<1>1. /\ s \in Seq(Steps) /\ Len(s) = Len(names)
      /\ \A i \in 1 .. Len(names) : s[i] = One(names[i])
  BY EachFacts
<1> HIDE DEF s
<1>2. \A x : One(x)[1] = x
  BY DEF One
<1>3. \A i \in 1 .. Len(s) : s[i][1] \in NamesOf(call.op)
  BY <1>1, <1>2
<1>4. Len(names) \in Nat
  OBVIOUS
<1>5. ASSUME NEW i \in 1 .. Len(s)
      PROVE  /\ s[i] = One("delete") => i > 1 /\ s[i - 1] = One("stat")
             /\ s[i] = One("commit") => i > 1 /\ s[i - 1] = One("validate")
  <2>1. s[i] = One(names[i]) /\ (s[i] = One("delete") => names[i] = "delete")
        /\ (s[i] = One("commit") => names[i] = "commit")
    BY <1>1, <1>2
  <2>2. i > 1 => i - 1 \in 1 .. Len(names)
    BY <1>1, <1>4
  <2>3. i > 1 => s[i - 1] = One(names[i - 1])
    BY <1>1, <2>2
  <2> QED
    BY <1>1, <2>1, <2>3
<1> QED
  BY <1>1, <1>3, <1>5 DEF Proper, s

LEMMA ScriptProper == ASSUME call \in Operations PROVE Proper(Script)
<1>0. call.op \in FileOps \cup WalkOps \cup {"archive"}
  BY CallFacts
<1>1. CASE call.op = "mkdir" /\ ~call.parents
  <2>1. call.path \in Seq(STRING)
    BY <1>1, CallFacts, PathFacts DEF FileOps
  <2> DEFINE s == <<<<"make", call.path>>>>
  <2>2. s \in Seq(Steps) /\ Len(s) = 1 /\ s[1][1] = "make"
    BY <2>1 DEF Steps, StepNames
  <2>3. Script = s
    BY <1>1 DEF Script, FileScript, FileOps
  <2> HIDE DEF s
  <2>4. "make" \in NamesOf(call.op)
    BY <1>1 DEF NamesOf, WalkOps
  <2> QED
    BY <2>2, <2>3, <2>4, ProperPlain
<1>2. CASE call.op = "mkdir" /\ call.parents
  <2> DEFINE path == call.path
             name(i) == <<"look", "make", "verify">>[1 + ((i - 1) % 3)]
             part(i) == SubSeq(path, 1, 1 + ((i - 1) \div 3))
             s == [i \in 1 .. 3 * Len(path) |-> <<name(i), part(i)>>]
  <2>1. path \in Seq(STRING) /\ Len(path) \in Nat
    BY <1>2, CallFacts, PathFacts DEF FileOps
  <2>2. Script = s
    BY <1>2 DEF Script, FileScript, FileOps, ParentsScript
  <2>3. ASSUME NEW i \in 1 .. 3 * Len(path)
        PROVE  name(i) \in {"look", "make", "verify"} /\ part(i) \in Seq(STRING)
    <3> HIDE DEF path
    <3>1. 1 + ((i - 1) % 3) \in 1 .. 3
      BY <2>1
    <3>2. 1 + ((i - 1) \div 3) \in 0 .. Len(path)
      BY <2>1
    <3>3. \A n \in 1 .. 3 : <<"look", "make", "verify">>[n] \in {"look", "make", "verify"}
      OBVIOUS
    <3>4. \A q \in Seq(STRING) : \A n \in 0 .. Len(q) : SubSeq(q, 1, n) \in Seq(STRING)
      BY CutFacts
    <3> QED
      BY <2>1, <3>1, <3>2, <3>3, <3>4
  <2> HIDE DEF name, part
  <2>4. ASSUME NEW i \in 1 .. 3 * Len(path)
        PROVE  <<name(i), part(i)>> \in Steps
    BY <2>3 DEF Steps, StepNames
  <2>5. 3 * Len(path) \in Nat
    BY <2>1
  <2>6. s \in Seq(Steps) /\ Len(s) = 3 * Len(path)
    BY <2>4, <2>5
  <2>7. \A i \in 1 .. Len(s) : s[i][1] \in {"look", "make", "verify"}
    BY <2>3, <2>6
  <2> HIDE DEF s
  <2>8. {"look", "make", "verify"} = NamesOf(call.op) \ {"delete", "commit"}
    BY <1>2 DEF NamesOf, WalkOps
  <2> QED
    BY <2>2, <2>6, <2>7, <2>8, ProperPlain
<1>3. CASE call.op = "touch"
  <2> DEFINE names == <<"lookFile", "create", "check">>
  <2>1. names \in Seq(StepNames) /\ Len(names) = 3
        /\ \A i \in 1 .. 3 : names[i] \in {"lookFile", "create", "check"}
    BY DEF StepNames
  <2>2. Script = Each(names)
    BY <1>3 DEF Script, FileScript, FileOps
  <2> HIDE DEF names
  <2>4. \A name \in {"lookFile", "create", "check"} : name \in NamesOf(call.op)
    BY <1>3 DEF NamesOf, WalkOps
  <2> QED
    BY <2>1, <2>2, <2>4, ProperEach
<1>4. CASE call.op \in {"copy", "move"}
  <2> DEFINE names == <<"resolve", "transfer">>
  <2>1. names \in Seq(StepNames) /\ Len(names) = 2
        /\ \A i \in 1 .. 2 : names[i] \in {"resolve", "transfer"}
    BY DEF StepNames
  <2>2. Script = Each(names)
    BY <1>4 DEF Script, FileScript, FileOps
  <2> HIDE DEF names
  <2>4. \A name \in {"resolve", "transfer"} : name \in NamesOf(call.op)
    BY <1>4 DEF NamesOf, WalkOps
  <2> QED
    BY <2>1, <2>2, <2>4, ProperEach
<1>5. CASE call.op = "remove"
  <2> DEFINE names == <<"stat", "delete">>
  <2>1. names \in Seq(StepNames) /\ Len(names) = 2 /\ names[1] = "stat" /\ names[2] = "delete"
    BY DEF StepNames
  <2>2. Script = Each(names)
    BY <1>5 DEF Script, FileScript, FileOps
  <2> HIDE DEF names
  <2>3. \A i \in 1 .. 2 : i = 1 \/ i = 2
    OBVIOUS
  <2>4. \A name \in {"stat", "delete"} : name \in NamesOf(call.op)
    BY <1>5 DEF NamesOf, WalkOps
  <2> QED
    BY <2>1, <2>2, <2>3, <2>4, ProperEach
<1>6. CASE call.op = "upload"
  <2> DEFINE names == <<"put">>
  <2>1. names \in Seq(StepNames) /\ Len(names) = 1 /\ \A i \in 1 .. 1 : names[i] = "put"
    BY DEF StepNames
  <2>2. Script = Each(names)
    BY <1>6 DEF Script, FileScript, FileOps
  <2> HIDE DEF names
  <2>4. \A name \in {"put"} : name \in NamesOf(call.op)
    BY <1>6 DEF NamesOf, WalkOps
  <2> QED
    BY <2>1, <2>2, <2>4, ProperEach
<1>7. CASE call.op = "tag"
  <2> DEFINE names == <<"stat", "changeTag", "refresh">>
  <2>1. names \in Seq(StepNames) /\ Len(names) = 3
        /\ \A i \in 1 .. 3 : names[i] \in {"stat", "changeTag", "refresh"}
    BY DEF StepNames
  <2>2. Script = Each(names)
    BY <1>7 DEF Script, FileScript, FileOps
  <2> HIDE DEF names
  <2>4. \A name \in {"stat", "changeTag", "refresh"} : name \in NamesOf(call.op)
    BY <1>7 DEF NamesOf, WalkOps
  <2> QED
    BY <2>1, <2>2, <2>4, ProperEach
<1>8. CASE call.op = "property"
  <2> DEFINE names == <<"stat", "options", "proppatch">>
  <2>1. names \in Seq(StepNames) /\ Len(names) = 3
        /\ \A i \in 1 .. 3 : names[i] \in {"stat", "options", "proppatch"}
    BY DEF StepNames
  <2>2. Script = Each(names)
    BY <1>8 DEF Script, FileScript, FileOps
  <2> HIDE DEF names
  <2>4. \A name \in {"stat", "options", "proppatch"} : name \in NamesOf(call.op)
    BY <1>8 DEF NamesOf, WalkOps
  <2> QED
    BY <2>1, <2>2, <2>4, ProperEach
<1>9. CASE call.op \in WalkOps
  <2> DEFINE names == <<"root">>
  <2>1. names \in Seq(StepNames) /\ Len(names) = 1 /\ \A i \in 1 .. 1 : names[i] = "root"
    BY DEF StepNames
  <2>2. Script = Each(names)
    BY <1>9 DEF Script, WalkScript, FileOps, WalkOps
  <2> HIDE DEF names
  <2>3. "root" \in NamesOf(call.op)
    BY <1>9 DEF NamesOf, WalkOps
  <2> QED
    BY <2>1, <2>2, <2>3, ProperEach
<1>10. CASE call.op = "archive"
  <2> DEFINE first == <<"lookLocal", "capabilities">>
             selects == [n \in 1 .. Len(call.paths) |-> <<"select", call.paths[n]>>]
             last == <<"fetch", "validate", "commit">>
  <2>1. Script = (Each(first) \o selects) \o (IF call.dry THEN <<>> ELSE Each(last))
    BY <1>10 DEF Script, WalkScript, FileOps, WalkOps
  <2>2. Proper(Each(first))
    <3>1. first \in Seq(StepNames) /\ Len(first) = 2
          /\ \A i \in 1 .. 2 : first[i] \in {"lookLocal", "capabilities"}
      BY DEF StepNames
    <3> HIDE DEF first
    <3>2. "lookLocal" \in NamesOf(call.op) /\ "capabilities" \in NamesOf(call.op)
      BY <1>10 DEF NamesOf, WalkOps
    <3> QED
      BY <3>1, <3>2, ProperEach
  <2>3. Proper(selects)
    <3>1. call.paths \in Seq(Paths) /\ Len(call.paths) \in Nat
      BY <1>10, CallFacts
    <3>2. ASSUME NEW n \in 1 .. Len(call.paths) PROVE <<"select", call.paths[n]>> \in Steps
      <4>1. call.paths[n] \in Seq(STRING)
        BY <3>1, PathFacts
      <4> QED
        BY <4>1 DEF Steps, StepNames
    <3>3. selects \in Seq(Steps) /\ Len(selects) = Len(call.paths)
          /\ \A i \in 1 .. Len(call.paths) : selects[i][1] = "select"
      BY <3>1, <3>2
    <3> HIDE DEF selects
    <3>4. "select" \in NamesOf(call.op) \ {"delete", "commit"}
      BY <1>10 DEF NamesOf, WalkOps
    <3> QED
      BY <3>3, <3>4, ProperPlain
  <2>4. Proper(Each(last))
    <3>1. last \in Seq(StepNames) /\ Len(last) = 3
          /\ last[1] = "fetch" /\ last[2] = "validate" /\ last[3] = "commit"
      BY DEF StepNames
    <3> HIDE DEF last
    <3>2. "fetch" \in NamesOf(call.op) /\ "validate" \in NamesOf(call.op) /\ "commit" \in NamesOf(call.op)
      BY <1>10 DEF NamesOf, WalkOps
    <3>3. \A i \in 1 .. 3 : i = 1 \/ i = 2 \/ i = 3
      OBVIOUS
    <3> QED
      BY <3>1, <3>2, <3>3, ProperEach
  <2> HIDE DEF first, selects, last
  <2>5. Proper(IF call.dry THEN <<>> ELSE Each(last))
    BY <2>4, ProperEmpty
  <2>6. Proper(Each(first) \o selects)
    BY <2>2, <2>3, ProperJoined
  <2> QED
    BY <2>1, <2>5, <2>6, ProperJoined
<1> QED
  BY <1>0, <1>1, <1>2, <1>3, <1>4, <1>5, <1>6, <1>7, <1>8, <1>9, <1>10 DEF FileOps


-----------------------------------------------------------------------------
(* The invariant and the theorem *)

LEMMA InitInv == ASSUME BatchInit PROVE IInv
<1>1. batch.ops \in Seq(Operations) \ {<<>>}
  BY BatchAssumption DEF BatchInit
<1>2. call \in Operations
  <2>1. batch.ops[1] \in Operations
    BY <1>1
  <2> QED
    BY <2>1 DEF BatchInit
<1>3. IsTree(tree) /\ edits \in Nat /\ todo = <<>> /\ batch \in Batches
  BY BatchAssumption DEF BatchInit, FileInit, RequestsInit
<1>4. results \in Seq(Statuses) /\ todo \in Seq(Steps) /\ Len(todo) = 0
  BY <1>3, EmptySeq DEF BatchInit
<1> QED
  BY <1>2, <1>3, <1>4 DEF IInv, Running, OwnSteps, Decided, Guarded, At

LEMMA BeginKeeps == ASSUME IInv, Begin PROVE IInv'
<1>1. /\ IsTree(tree) /\ edits \in Nat /\ batch \in Batches /\ call \in Operations
      /\ results \in Seq(Statuses)
  BY DEF IInv, Running
<1>2. /\ todo' = Script /\ call' = call /\ outcome' = IF Script = <<>> THEN "done" ELSE "none"
      /\ UNCHANGED <<tree, edits, batch, results>>
  BY DEF Begin, Run
<1>3. Running'
  BY <1>1, <1>2 DEF Running, IsTree
<1> DEFINE s == Script
<1>4. Proper(s)
  BY <1>1, ScriptProper
<1> HIDE DEF s
<1>5. /\ s \in Seq(Steps) /\ \A i \in 1 .. Len(s) : s[i][1] \in NamesOf(call.op)
      /\ s # <<>> => 1 \in 1 .. Len(s) /\ Head(s) = s[1]
  BY <1>4, RestFacts DEF Proper
<1>6. Guarded(s) /\ (s # <<>> => Head(s) # One("delete") /\ Head(s) # One("commit"))
  <2>1. ~(1 > 1)
    OBVIOUS
  <2> QED
    BY <1>4, <1>5, <2>1 DEF Proper, Guarded
<1>7. todo' = s
  BY <1>2 DEF s
<1>8. OwnSteps'
  BY <1>2, <1>5, <1>7 DEF OwnSteps
<1>9. Decided'
  BY <1>6, <1>7 DEF Decided, Guarded, At, One
<1> QED
  BY <1>3, <1>8, <1>9 DEF IInv

\* A status is reported when no step is left.
LEMMA ReportKeeps ==
  ASSUME IInv, todo = <<>>, NEW status \in Statuses, Report(status)
  PROVE  IInv'
<1>1. /\ IsTree(tree) /\ edits \in Nat /\ batch \in Batches /\ call \in Operations
      /\ results \in Seq(Statuses)
  BY DEF IInv, Running
<1>2. /\ results' = Append(results, status) /\ todo' = <<>>
      /\ call' = IF Len(results') < Total THEN batch.ops[Len(results') + 1] ELSE call
      /\ UNCHANGED <<tree, edits, batch>>
  BY DEF Report, files
<1>3. batch.ops \in Seq(Operations)
  BY <1>1, BatchAssumption
<1>4. results' \in Seq(Statuses) /\ Len(results') \in Nat
  BY <1>1, <1>2
<1>5. Len(results') < Total => batch.ops[Len(results') + 1] \in Operations
  BY <1>3, <1>4 DEF Total
<1>6. call' \in Operations
  BY <1>1, <1>2, <1>5
<1>7. Running'
  BY <1>1, <1>2, <1>4, <1>6 DEF Running, IsTree
<1>8. todo' \in Seq(Steps) /\ Len(todo') = 0
  BY <1>2, EmptySeq
<1>9. OwnSteps' /\ Decided'
  BY <1>2, <1>8 DEF OwnSteps, Decided, Guarded, At
<1> QED
  BY <1>7, <1>9 DEF IInv

\* What a step does that only moves on.
LEMMA StepKeeps ==
  ASSUME IInv, Moves \/ Aside, IsTree(tree)', edits' \in Nat, UNCHANGED <<batch, results>>
  PROVE  IInv'
<1>1. batch \in Batches /\ results \in Seq(Statuses) /\ call \in Operations
  BY DEF IInv, Running
<1>2. CASE Moves
  <2>1. OwnSteps' /\ Decided' /\ (todo' # <<>> => outcome' = "none") /\ call' \in Operations
    BY <1>2, MovesKeep
  <2> QED
    BY <1>1, <2>1 DEF IInv, Running
<1>3. CASE Aside
  <2>1. UNCHANGED <<call, todo, seen, outcome>>
    BY <1>3 DEF Aside, control
  <2>2. Running'
    BY <1>1, <2>1 DEF IInv, Running
  <2>3. OwnSteps' /\ Decided'
    BY <2>1 DEF IInv, OwnSteps, Decided, Guarded, At, Removable, Fetched, One
  <2> QED
    BY <2>2, <2>3 DEF IInv
<1> QED
  BY <1>2, <1>3

LEMMA NextInv == ASSUME IInv, [BatchNext]_batchVars PROVE IInv'
<1>0. IsTree(tree) /\ edits \in Nat /\ (todo # <<>> => outcome = "none")
  BY DEF IInv, Running
<1>1. CASE Begin
  BY <1>1, BeginKeeps
<1>2. CASE Record
  <2>1. outcome \in Failed \cup {"done"} /\ Report(outcome)
    BY <1>2 DEF Record
  <2>2. outcome \in Statuses /\ outcome # "none"
    BY <2>1 DEF Failed, Statuses
  <2> QED
    BY <1>0, <2>1, <2>2, ReportKeeps
<1>3. CASE PassOver
  <2>1. "skipped" \in Statuses /\ "planned" \in Statuses
    BY DEF Statuses
  <2> QED
    BY <1>3, <2>1, ReportKeeps DEF PassOver, Waits
<1>4. CASE Interrupt \/ Killed
  <2>1. todo # <<>> /\ todo' = <<>> /\ outcome' # "none"
        /\ UNCHANGED <<call, runs, seen, carried, tree, edits, batch, results>>
    BY <1>4 DEF Interrupt, Killed, Fail, Die, files
  <2>2. Moves
    BY <2>1 DEF Moves, Carries, Learns
  <2>3. IsTree(tree)' /\ edits' \in Nat
    BY <1>0, <2>1 DEF IsTree
  <2> QED
    BY <2>1, <2>2, <2>3, StepKeeps
<1>5. CASE Over \/ UNCHANGED batchVars
  <2>1. UNCHANGED <<control, tree, edits, batch, results>>
    BY <1>5 DEF Over, batchVars, files
  <2>2. IsTree(tree)' /\ edits' \in Nat
    BY <1>0, <2>1 DEF IsTree
  <2> QED
    BY <2>1, <2>2, StepKeeps DEF Aside
<1>6. CASE FileNext /\ UNCHANGED <<walked, batch, results>>
  BY <1>6, FileMoves, FileKeeps, StepKeeps DEF TreeKept
<1>7. CASE WalkNext /\ UNCHANGED <<batch, results>>
  BY <1>7, WalkMoves, WalkKeeps, StepKeeps DEF TreeKept
<1> QED
  BY <1>1, <1>2, <1>3, <1>4, <1>5, <1>6, <1>7 DEF BatchNext

LEMMA Invariance == BatchSpec => []IInv
  BY InitInv, NextInv, PTL DEF BatchSpec

\* Nothing is lost that the running operation was not asked to replace or remove,
\* in the remote tree nor at an archive's destination, unless somebody else edits
\* them in that very step.
THEOREM NothingIsLost == BatchSpec => NothingLostUnasked
<1>1. IInv /\ [BatchNext]_batchVars => [edits' = edits => TreeAsAsked /\ LocalAsAsked]_batchVars
  <2> SUFFICES ASSUME IInv, BatchNext, edits' = edits
               PROVE  TreeAsAsked /\ LocalAsAsked
    OBVIOUS
  <2>1. CASE Begin \/ Record \/ PassOver \/ Interrupt \/ Killed \/ Over
    <3>1. UNCHANGED <<tree, local>>
      BY <2>1 DEF Begin, Record, PassOver, Report, Interrupt, Killed, Over, batchVars, files, walked
    <3> QED
      BY <3>1 DEF TreeAsAsked, LocalAsAsked
  <2>2. CASE FileNext /\ UNCHANGED <<walked, batch, results>>
    BY <2>2, FileKeeps DEF TreeKept, LocalAsAsked, walked
  <2>3. CASE WalkNext /\ UNCHANGED <<batch, results>>
    BY <2>3, WalkKeeps DEF TreeKept
  <2> QED
    BY <2>1, <2>2, <2>3 DEF BatchNext
<1> QED
  BY <1>1, Invariance, PTL DEF BatchSpec, NothingLostUnasked


-----------------------------------------------------------------------------
(* What the statuses say *)

\* The names of the steps that change something.
ChangeNames == {"make", "create", "transfer", "delete", "put", "changeTag", "proppatch"}

\* The operations that change one thing, and how.
LoneOps == {"copy", "move", "remove", "upload", "tag", "property"}
Key ==
  CASE call.op \in {"copy", "move"} -> "transfer"
    [] call.op = "remove" -> "delete"
    [] call.op = "upload" -> "put"
    [] call.op = "tag" -> "changeTag"
    [] call.op = "property" -> "proppatch"

\* Nothing was changed, or an answer got lost.
Clean == carried = <<>> \/ unsure

\* A command that runs is the next operation of the batch, one that has ended waits
\* to be recorded, and neither follows one that stopped the batch.
Busy == todo # <<>> \/ (outcome # "none" /\ Len(results) < Total)
Counted ==
  /\ runs \in Nat /\ carried \in Seq(Steps)
  /\ todo # <<>> => Len(results) < Total
  /\ Busy => ~Stopped
  /\ batch.dry => runs = 0 /\ carried = <<>> /\ todo = <<>> /\ outcome = "none"
  /\ runs = Cardinality({n \in 1 .. Len(results) : results[n] \notin {"skipped", "planned"}})
              + IF Busy THEN 1 ELSE 0
  /\ \A n \in 1 .. Len(results) :
       results[n] = "skipped" <=> \E m \in 1 .. n - 1 : StopsAfter(results[m])

\* What is there has been there, and so has a directory that was looked at.
Witnessed ==
  /\ Present(tree) \subseteq was
  /\ \A p \in Paths : Known(p) => <<p, "dir">> \in was

\* The one change comes last, or before the last look of a tag.
Behind == IF call.op = "tag" THEN 1 ELSE 0
LoneStory ==
  call.op \in LoneOps =>
    /\ todo # <<>> =>
         /\ \A i \in 1 .. Len(todo) : todo[i][1] \in ChangeNames <=> i = Len(todo) - Behind
         /\ call.op = "tag" => todo[Len(todo)] = One("refresh")
         /\ IF Len(todo) > Behind THEN Clean ELSE Carried(Key)
    /\ outcome = "done" => Carried(Key)
    /\ outcome = "failed" => Clean

\* mkdir makes its directory, or finds something there.
MakeStory ==
  call.op = "mkdir" /\ ~call.parents =>
    /\ todo # <<>> => todo = <<<<"make", call.path>>>> /\ Clean
    /\ outcome = "done" => \E c \in {"dir", "file"} : <<call.path, c>> \in was
    /\ outcome = "failed" => Clean

\* mkdir --parents has seen every component whose three steps are done.
Climbed == 3 * Len(call.path) - Len(todo)
ClimbStory ==
  call.op = "mkdir" /\ call.parents =>
    /\ todo # <<>> =>
         /\ Climbed \in Nat
         /\ \A i \in 1 .. Len(todo) : todo[i] = ParentsScript(call.path)[Climbed + i]
         /\ \A n \in 1 .. Len(call.path) :
              3 * n <= Climbed => <<SubSeq(call.path, 1, n), "dir">> \in was
    /\ outcome = "done" =>
         \A n \in 1 .. Len(call.path) : <<SubSeq(call.path, 1, n), "dir">> \in was

\* touch ends with a look at its file, unless there was one from the start.
TouchStory ==
  call.op = "touch" =>
    /\ todo # <<>> =>
         \/ todo = <<One("lookFile"), One("create"), One("check")>>
         \/ /\ todo = <<One("create"), One("check")>>
            /\ seen[One("lookFile")] # "none" => <<call.path, "file">> \in was
         \/ todo = <<One("check")>> \/ todo = <<One("lookAgain")>>
    /\ outcome = "done" => <<call.path, "file">> \in was

\* A walk and an archive change nothing in the remote tree.
WalkStory == call.op \in WalkOps \cup {"archive"} => carried = <<>> \/ (todo = <<>> /\ outcome = "none")

Stories == LoneStory /\ MakeStory /\ ClimbStory /\ TouchStory /\ WalkStory

\* The inductive invariant of what the statuses say.
HonestInv == IInv /\ Counted /\ Witnessed /\ Stories


\* What is there was witnessed, whoever changes it.
WasKept == (tree' = tree /\ was' = was) \/ was' = was \cup Present(tree')

LEMMA ChangeWas ==
  ASSUME NEW step, NEW able, NEW new, ChangeTree(step, able, new)
  PROVE  WasKept
  BY DEF ChangeTree, Change, WasKept

LEMMA FileWas == ASSUME FileNext PROVE WasKept
<1>1. CASE LookAtComponent \/ SkipComponent \/ VerifyComponent \/ LookAtFile \/ TouchExisting
           \/ LookAgain \/ VerifyTouched \/ Resolve \/ StatPath \/ Refresh \/ AskOptions
  <2>1. UNCHANGED files
    BY <1>1 DEF LookAtComponent, SkipComponent, VerifyComponent, LookAtFile, TouchExisting,
                LookAgain, VerifyTouched, Resolve, StatPath, Refresh, AskOptions
  <2> QED
    BY <2>1 DEF files, WasKept
<1>2. CASE ChangeTag \/ PropPatch
  BY <1>2 DEF ChangeTag, PropPatch, WasKept
<1>3. CASE MakeCollection
  <2>1. PICK p \in Paths :
          \/ ChangeTree(<<"make", p>>, Missing(p) /\ HasParent(p), With(p, "dir"))
          \/ UNCHANGED files
    BY <1>3 DEF MakeCollection
  <2> QED
    BY <2>1, ChangeWas DEF files, WasKept
<1>4. CASE CreateEmpty
  <2>1. \/ ChangeTree(One("create"), HasParent(call.path) /\ Missing(call.path), With(call.path, ""))
        \/ UNCHANGED files
    BY <1>4 DEF CreateEmpty
  <2> QED
    BY <2>1, ChangeWas DEF files, WasKept
<1>5. CASE Transfer
  BY <1>5, ChangeWas DEF Transfer
<1>6. CASE Delete
  BY <1>6, ChangeWas DEF Delete
<1>7. CASE Put
  BY <1>7, ChangeWas DEF Put
<1>8. CASE OtherEdits
  BY <1>8 DEF OtherEdits, WasKept
<1> QED
  BY <1>1, <1>2, <1>3, <1>4, <1>5, <1>6, <1>7, <1>8 DEF FileNext

LEMMA WasGrows == ASSUME WasKept, Witnessed PROVE was \subseteq was' /\ Present(tree') \subseteq was'
  BY DEF WasKept, Witnessed

LEMMA WitnessedKept ==
  ASSUME Witnessed, WasKept, Moves \/ Aside
  PROVE  Witnessed'
<1>1. was \subseteq was' /\ Present(tree)' \subseteq was'
  BY WasGrows DEF Present
<1>2. ASSUME NEW p \in Paths, Known(p)' PROVE <<p, "dir">> \in was'
  <2> DEFINE step == <<"look", p>>
  <2>1. CASE seen' = seen
    BY <1>1, <1>2, <2>1 DEF Known, Witnessed
  <2>2. CASE Learns /\ seen' # seen
    <3>1. PICK answer : /\ Learn(Head(todo), answer)
                        /\ Head(todo)[1] = "look" => answer = tree[Head(todo)[2]]
      BY <2>2 DEF Learns
    <3>2. step \in DOMAIN seen' /\ seen'[step] = "dir"
      BY <1>2 DEF Known
    <3>3. CASE Head(todo) = step
      <4>1. answer = tree[p] /\ seen'[step] = answer
        BY <3>1, <3>2, <3>3 DEF Learn
      <4>2. <<p, "dir">> \in Present(tree)
        BY <3>2, <4>1 DEF Present
      <4> QED
        BY <1>1, <4>2 DEF Witnessed
    <3>4. CASE Head(todo) # step
      <4>1. step \in DOMAIN seen /\ seen'[step] = seen[step]
        BY <3>1, <3>2, <3>4 DEF Learn
      <4>2. Known(p)
        BY <3>2, <4>1 DEF Known
      <4> QED
        BY <1>1, <4>2 DEF Witnessed
    <3> QED
      BY <3>3, <3>4
  <2> QED
    BY <2>1, <2>2 DEF Moves, Aside, control
<1> QED
  BY <1>1, <1>2 DEF Witnessed

-----------------------------------------------------------------------------
(* The summary *)

LEMMA CountedMoves ==
  ASSUME IInv, Counted, Moves, UNCHANGED <<batch, results>>
  PROVE  Counted'
<1>1. todo # <<>> /\ runs' = runs /\ Busy /\ Len(results) < Total /\ Total' = Total
  BY DEF Moves, Busy, Counted, Total
<1>2. Busy'
  BY <1>1 DEF Moves, Busy
<1>3. ~Stopped' /\ ~batch'.dry
  BY <1>1 DEF Counted, Stopped, StopsAfter
<1>4. carried' \in Seq(Steps)
  <2>1. todo \in Seq(Steps) /\ carried \in Seq(Steps)
    BY DEF IInv, OwnSteps, Counted
  <2>2. Head(todo) \in Steps
    BY <1>1, <2>1
  <2>3. carried' = carried \/ carried' = Append(carried, Head(todo))
    BY DEF Moves, Carries
  <2>4. Append(carried, Head(todo)) \in Seq(Steps)
    BY <2>1, <2>2
  <2> QED
    BY <2>1, <2>3, <2>4
<1>5. runs' = Cardinality({n \in 1 .. Len(results) : results[n] \notin {"skipped", "planned"}}) + 1
      /\ runs' \in Nat
  BY <1>1 DEF Counted
<1>6. \A n \in 1 .. Len(results) :
        results[n] = "skipped" <=> \E m \in 1 .. n - 1 : StopsAfter(results[m])
  BY DEF Counted
<1> QED
  BY <1>1, <1>2, <1>3, <1>4, <1>5, <1>6 DEF Counted, StopsAfter

LEMMA CountedSame ==
  ASSUME Counted, UNCHANGED <<todo, outcome, carried, runs, batch, results>>
  PROVE  Counted'
  BY DEF Counted, Busy, Stopped, StopsAfter, Total

LEMMA CountedBegin == ASSUME IInv, Counted, Begin PROVE Counted'
<1>1. /\ ~Busy /\ ~Stopped /\ ~batch.dry /\ Len(results) < Total
      /\ runs' = runs + 1 /\ carried' = <<>> /\ UNCHANGED <<batch, results>>
  BY DEF Begin, Run, Waits, Busy
<1>2. Busy' /\ (outcome' = "none" \/ outcome' = "done")
  BY <1>1 DEF Begin, Run, Busy, Total
<1>3. ~Stopped' /\ Total' = Total
  BY <1>1 DEF Stopped, StopsAfter, Total
<1>4. runs \in Nat
      /\ runs = Cardinality({n \in 1 .. Len(results) : results[n] \notin {"skipped", "planned"}}) + 0
  BY <1>1 DEF Counted
<1>5. Cardinality({n \in 1 .. Len(results) : results[n] \notin {"skipped", "planned"}}) \in Nat
  <2> DEFINE N == {n \in 1 .. Len(results) : results[n] \notin {"skipped", "planned"}}
  <2>1. Len(results) \in Nat
    BY DEF IInv, Running
  <2>2. IsFiniteSet(1 .. Len(results)) /\ N \subseteq 1 .. Len(results)
    BY <2>1, FS_Interval
  <2>3. IsFiniteSet(N)
    BY <2>2, FS_Subset
  <2> QED
    BY <2>3, FS_CardinalityType
<1>6. carried' \in Seq(Steps)
  BY <1>1, EmptySeq
<1>7. \A n \in 1 .. Len(results) :
        results[n] = "skipped" <=> \E m \in 1 .. n - 1 : StopsAfter(results[m])
  BY DEF Counted
<1>8. runs' \in Nat
      /\ runs' = Cardinality({n \in 1 .. Len(results) : results[n] \notin {"skipped", "planned"}}) + 1
  BY <1>1, <1>4, <1>5
<1> QED
  BY <1>1, <1>2, <1>3, <1>6, <1>7, <1>8 DEF Counted, StopsAfter

\* One status more.
LEMMA CountedReport ==
  ASSUME IInv, Counted, todo = <<>>, Len(results) < Total, NEW status \in Statuses, Report(status),
         status = "skipped" <=> Stopped,
         status \in {"skipped", "planned"} <=> ~Busy,
         status = "planned" => outcome = "none",
         ~Busy => outcome = "none",
         status # "planned" /\ status # "skipped" => ~batch.dry
  PROVE  Counted'
<1> DEFINE N == {n \in 1 .. Len(results) : results[n] \notin {"skipped", "planned"}}
           new == Append(results, status)
           M == {n \in 1 .. Len(new) : new[n] \notin {"skipped", "planned"}}
<1>1. /\ results \in Seq(Statuses) /\ Len(results) \in Nat /\ Total \in Nat
  <2>1. batch.ops \in Seq(Operations)
    BY BatchAssumption DEF IInv, Running
  <2> QED
    BY <2>1 DEF IInv, Running, Total
<1>2. /\ new \in Seq(Statuses) /\ Len(new) = Len(results) + 1 /\ new[Len(results) + 1] = status
      /\ \A n \in 1 .. Len(results) : new[n] = results[n]
  BY <1>1
<1>3. /\ results' = new /\ todo' = <<>> /\ UNCHANGED <<runs, carried, batch>>
      /\ outcome' = IF Len(new) < Total THEN "none" ELSE outcome
  BY DEF Report
<1> HIDE DEF new
<1>4. ~Busy' /\ Total' = Total
  BY <1>1, <1>2, <1>3 DEF Busy, Total
<1>5. IsFiniteSet(N) /\ Cardinality(N) \in Nat /\ Len(results) + 1 \notin N
  <2>1. IsFiniteSet(1 .. Len(results)) /\ N \subseteq 1 .. Len(results)
    BY <1>1, FS_Interval
  <2>2. IsFiniteSet(N)
    BY <2>1, FS_Subset
  <2> QED
    BY <1>1, <2>1, <2>2, FS_CardinalityType
<1>6. M = IF status \in {"skipped", "planned"} THEN N ELSE N \cup {Len(results) + 1}
  <2>1. \A n : n \in 1 .. Len(new) <=> n \in 1 .. Len(results) \/ n = Len(results) + 1
    BY <1>1, <1>2
  <2>2. Len(results) + 1 \notin 1 .. Len(results)
    BY <1>1
  <2> QED
    BY <1>2, <2>1, <2>2
<1>7. Cardinality(M) = IF status \in {"skipped", "planned"} THEN Cardinality(N) ELSE Cardinality(N) + 1
  <2> HIDE DEF N, M
  <2>1. Cardinality(N \cup {Len(results) + 1}) = Cardinality(N) + 1
    BY <1>5, FS_AddElement
  <2> QED
    BY <1>6, <2>1
<1>8. runs \in Nat /\ runs = Cardinality(N) + IF Busy THEN 1 ELSE 0
  BY DEF Counted
<1>9. runs = Cardinality(M)
  <2> HIDE DEF N, M
  <2> QED
    BY <1>5, <1>7, <1>8
<1>10. ASSUME NEW n \in 1 .. Len(new)
       PROVE  new[n] = "skipped" <=> \E m \in 1 .. n - 1 : StopsAfter(new[m])
  <2>1. CASE n \in 1 .. Len(results)
    <3>1. \A m \in 1 .. n - 1 : new[m] = results[m]
      BY <1>1, <1>2, <2>1
    <3>2. results[n] = "skipped" <=> \E m \in 1 .. n - 1 : StopsAfter(results[m])
      BY <2>1 DEF Counted
    <3> QED
      BY <1>2, <2>1, <3>1, <3>2
  <2>2. CASE n = Len(results) + 1
    <3>1. n - 1 = Len(results)
      BY <1>1, <2>2
    <3>2. \A m \in 1 .. n - 1 : new[m] = results[m]
      BY <1>2, <3>1
    <3> QED
      BY <1>2, <2>2, <3>1, <3>2 DEF Stopped
  <2> QED
    BY <1>1, <1>2, <2>1, <2>2
<1>11. batch.dry => runs = 0 /\ carried = <<>> /\ outcome = "none"
  BY DEF Counted
<1>12. outcome' = "none" \/ outcome' = outcome
  BY <1>3
<1> HIDE DEF M, N
<1>13. runs' = Cardinality(M) + IF Busy' THEN 1 ELSE 0
  BY <1>3, <1>4, <1>5, <1>8, <1>9
<1>14. carried' \in Seq(Steps)
  BY <1>3 DEF Counted
<1> QED
  BY <1>3, <1>4, <1>8, <1>10, <1>11, <1>12, <1>13, <1>14 DEF Counted, StopsAfter, M


-----------------------------------------------------------------------------
(* The operations that change one thing *)

Passed ==
  /\ todo' = Tail(todo) /\ unsure' = unsure
  /\ outcome' = IF Len(todo) = 1 THEN "done" ELSE outcome
Missed(error) ==
  /\ seen' = seen
  /\ (todo' = <<>> /\ outcome' = error) \/ (todo' = todo /\ outcome' = outcome)

\* What an attempt of a request that reads, and of one that changes something, does.
Read(step, able, answer, error) ==
  /\ At(step) /\ call' = call /\ carried' = carried
  /\ \/ Passed /\ able /\ Learn(step, answer)
     \/ Missed(error) /\ unsure' = unsure
Wrote(step) ==
  /\ At(step) /\ call' = call
  /\ \/ Passed /\ carried' = Append(carried, step)
     \/ Missed("failed") /\ UNCHANGED <<carried, unsure>>
     \/ Missed("failed") /\ carried' = Append(carried, step) /\ unsure' = TRUE

LEMMA AskReads ==
  ASSUME IInv, NEW step, NEW able, NEW answer, NEW error, Ask(step, able, answer, error)
  PROVE  Read(step, able, answer, error)
<1>1. todo # <<>> /\ At(step)
  BY DEF Ask, AskThen, At
<1>2. <<>> \o Tail(todo) = Tail(todo)
  BY <1>1, RestFacts DEF IInv, OwnSteps
<1>3. CASE able /\ Answered(step, answer, <<>>) /\ UNCHANGED carried
  BY <1>1, <1>2, <1>3 DEF Answered, Continue, Passed, Read
<1>4. CASE ~able /\ Refused(error)
  BY <1>1, <1>4 DEF Refused, Fail, Missed, Read
<1>5. CASE Again(error) /\ UNCHANGED <<carried, unsure>>
  BY <1>1, <1>5 DEF Again, Fail, Missed, Read
<1> QED
  BY <1>3, <1>4, <1>5 DEF Ask, AskThen

\* The same for a request that changes something.
Altering(step) ==
  /\ At(step)
  /\ \/ carried' = Append(carried, step) /\ Answered(step, 0, <<>>)
     \/ carried' = Append(carried, step) /\ unsure' = TRUE /\ Again("failed")
     \/ Refused("failed")
     \/ Again("failed") /\ UNCHANGED <<carried, unsure>>

LEMMA ChangeWrites == ASSUME IInv, NEW step, Altering(step) PROVE Wrote(step)
<1>1. todo # <<>> /\ At(step)
  BY DEF Altering, At
<1>2. <<>> \o Tail(todo) = Tail(todo)
  BY <1>1, RestFacts DEF IInv, OwnSteps
<1>3. CASE carried' = Append(carried, step) /\ Answered(step, 0, <<>>)
  BY <1>1, <1>2, <1>3 DEF Answered, Continue, Passed, Wrote
<1>4. CASE carried' = Append(carried, step) /\ unsure' = TRUE /\ Again("failed")
  BY <1>1, <1>4 DEF Again, Fail, Missed, Wrote
<1>5. CASE Refused("failed")
  BY <1>1, <1>5 DEF Refused, Fail, Missed, Wrote
<1>6. CASE Again("failed") /\ UNCHANGED <<carried, unsure>>
  BY <1>1, <1>6 DEF Again, Fail, Missed, Wrote
<1> QED
  BY <1>3, <1>4, <1>5, <1>6 DEF Altering

LEMMA TreeWrites ==
  ASSUME IInv, NEW step, NEW able, NEW new, ChangeTree(step, able, new)
  PROVE  Wrote(step)
<1>1. Altering(step)
  BY DEF ChangeTree, Change, Altering
<1> QED
  BY <1>1, ChangeWrites

\* An attempt of an operation that changes one thing.
Attempt ==
  /\ todo # <<>>
  /\ \/ /\ Head(todo)[1] \notin ChangeNames
        /\ \E able, answer :
             Read(Head(todo), able, answer, IF Head(todo)[1] = "refresh" THEN "partial" ELSE "failed")
     \/ Head(todo)[1] \in ChangeNames /\ Wrote(Head(todo))

LEMMA Reads ==
  ASSUME IInv, NEW step, NEW able, NEW answer, NEW error, Ask(step, able, answer, error),
         step[1] \notin ChangeNames, error = IF step[1] = "refresh" THEN "partial" ELSE "failed"
  PROVE  Attempt
<1>1. Read(step, able, answer, error) /\ todo # <<>> /\ Head(todo) = step
  BY AskReads DEF Ask, AskThen, At
<1> QED
  BY <1>1 DEF Attempt

LEMMA Writes == ASSUME IInv, NEW step, Wrote(step), step[1] \in ChangeNames PROVE Attempt
  BY DEF Wrote, At, Attempt

\* Which operation a step is of.
LEMMA HeadOf ==
  ASSUME IInv, NEW step, At(step)
  PROVE  /\ todo # <<>> /\ Head(todo) = step /\ todo[1] = step /\ 1 \in 1 .. Len(todo)
         /\ step[1] \in NamesOf(call.op) /\ call \in Operations
         /\ call.op \in FileOps \cup WalkOps \cup {"archive"}
<1>1. todo # <<>> /\ Head(todo) = step /\ todo \in Seq(Steps) /\ call \in Operations
  BY DEF At, IInv, OwnSteps, Running
<1>2. todo[1] = step /\ 1 \in 1 .. Len(todo)
  BY <1>1, RestFacts
<1> QED
  BY <1>1, <1>2, CallFacts DEF IInv, OwnSteps

LEMMA NotLone ==
  ASSUME IInv, call.op \in LoneOps, NEW step, At(step)
  PROVE  step[1] \notin {"look", "make", "verify", "lookFile", "create", "check", "lookAgain"}
<1>1. step[1] \in NamesOf(call.op) /\ call.op \in FileOps \cup WalkOps \cup {"archive"}
  BY HeadOf
<1>2. call.op # "mkdir" /\ call.op # "touch"
  BY DEF LoneOps
<1> QED
  BY <1>1, <1>2, Owners

LEMMA LoneAttempts == ASSUME IInv, call.op \in LoneOps, FileNext PROVE Attempt \/ Aside
<1>1. ASSUME LookAtComponent \/ SkipComponent \/ MakeCollection \/ VerifyComponent PROVE FALSE
  <2>1. \E p \in Paths : At(<<"look", p>>) \/ At(<<"make", p>>) \/ At(<<"verify", p>>)
    BY <1>1 DEF LookAtComponent, SkipComponent, MakeCollection, VerifyComponent, Ask, AskThen
  <2>2. PICK step : At(step) /\ step[1] \in {"look", "make", "verify"}
    BY <2>1, Unlike
  <2> QED
    BY <2>2, NotLone
<1>2. ASSUME LookAtFile \/ TouchExisting \/ CreateEmpty \/ LookAgain \/ VerifyTouched PROVE FALSE
  <2>1. At(One("lookFile")) \/ At(One("create")) \/ At(One("lookAgain")) \/ At(One("check"))
    BY <1>2 DEF LookAtFile, TouchExisting, CreateEmpty, LookAgain, VerifyTouched, Ask, AskThen
  <2>2. PICK step : At(step) /\ step[1] \in {"lookFile", "create", "lookAgain", "check"}
    BY <2>1, Unlike
  <2> QED
    BY <2>2, NotLone
<1>3. CASE Resolve
  BY <1>3, Unlike, Reads DEF Resolve, ChangeNames
<1>4. CASE StatPath
  BY <1>4, Unlike, Reads DEF StatPath, ChangeNames
<1>5. CASE Refresh
  BY <1>5, Unlike, Reads DEF Refresh, ChangeNames
<1>6. CASE AskOptions
  BY <1>6, Unlike, Reads DEF AskOptions, ChangeNames
<1>7. CASE Transfer
  BY <1>7, Unlike, TreeWrites, Writes DEF Transfer, ChangeNames
<1>8. CASE Delete
  BY <1>8, Unlike, TreeWrites, Writes DEF Delete, ChangeNames
<1>9. CASE Put
  BY <1>9, Unlike, TreeWrites, Writes DEF Put, ChangeNames
<1>10. CASE ChangeTag
  <2>1. Altering(One("changeTag"))
    BY <1>10 DEF ChangeTag, Change, Altering
  <2> QED
    BY <2>1, Unlike, ChangeWrites, Writes DEF ChangeNames
<1>11. CASE PropPatch
  <2>1. Altering(One("proppatch"))
    BY <1>11 DEF PropPatch, Change, Altering
  <2> QED
    BY <2>1, Unlike, ChangeWrites, Writes DEF ChangeNames
<1>12. CASE OtherEdits
  BY <1>12 DEF OtherEdits, Aside
<1> QED
  BY <1>1, <1>2, <1>3, <1>4, <1>5, <1>6, <1>7, <1>8, <1>9, <1>10, <1>11, <1>12 DEF FileNext

LEMMA KeyFacts ==
  ASSUME call.op \in LoneOps, NEW name \in NamesOf(call.op), name \in ChangeNames
  PROVE  name = Key
  BY DEF LoneOps, NamesOf, WalkOps, ChangeNames, Key

LEMMA CarriedGrows ==
  ASSUME carried \in Seq(Steps), NEW step, carried' = Append(carried, step)
  PROVE  \E i \in 1 .. Len(carried') : carried'[i][1] = step[1]
<1>1. Len(carried') = Len(carried) + 1 /\ carried'[Len(carried) + 1] = step /\ Len(carried) \in Nat
  OBVIOUS
<1>2. Len(carried) + 1 \in 1 .. Len(carried')
  BY <1>1
<1> QED
  BY <1>1, <1>2

LEMMA LoneKept ==
  ASSUME IInv, Counted, LoneStory, call.op \in LoneOps, Attempt
  PROVE  LoneStory'
<1> DEFINE B == Behind
           L == Len(todo)
<1>1. /\ todo \in Seq(Steps) /\ todo # <<>> /\ carried \in Seq(Steps)
      /\ L \in Nat \ {0} /\ Head(todo) = todo[1] /\ 1 \in 1 .. L
      /\ todo[1][1] \in NamesOf(call.op)
      /\ outcome = "none" /\ call' = call
  BY RestFacts DEF IInv, Running, OwnSteps, Counted, Attempt, Read, Wrote
<1>2. B \in {0, 1} /\ (call.op = "tag" <=> B = 1)
  BY DEF Behind
<1>3. /\ \A i \in 1 .. L : todo[i][1] \in ChangeNames <=> i = L - B
      /\ call.op = "tag" => todo[L] = One("refresh")
      /\ IF L > B THEN Clean ELSE Carried(Key)
  BY <1>1 DEF LoneStory
<1>4. Behind' = B /\ Key' = Key /\ LoneOps' = LoneOps
  BY <1>1 DEF Behind, Key
<1>5. todo[1][1] \in ChangeNames <=> L = B + 1
  <2>1. todo[1][1] \in ChangeNames <=> 1 = L - B
    BY <1>1, <1>3
  <2> HIDE DEF B, L
  <2> QED
    BY <1>1, <1>2, <2>1
<1>6. ~(L > B) => L = 1 /\ B = 1
  <2> HIDE DEF B, L
  <2> QED
    BY <1>1, <1>2
<1>7. CASE Passed /\ carried' = IF todo[1][1] \in ChangeNames THEN Append(carried, todo[1]) ELSE carried
  <2>1. todo' = Tail(todo) /\ unsure' = unsure /\ outcome' = IF L = 1 THEN "done" ELSE outcome
    BY <1>7 DEF Passed
  <2>2. /\ Len(todo') = L - 1 /\ \A i \in 1 .. L - 1 : todo'[i] = todo[i + 1]
    BY <1>1, <2>1, RestFacts
  <2>3. IF L - 1 > B THEN Clean' ELSE Carried(Key)'
    <3>1. CASE L = B + 1
      <4>1. carried' = Append(carried, todo[1]) /\ todo[1][1] = Key
        BY <1>1, <1>5, <1>7, <3>1, KeyFacts
      <4>2. \E i \in 1 .. Len(carried') : carried'[i][1] = Key
        BY <1>1, <4>1, CarriedGrows
      <4>3. Carried(Key)'
        BY <1>4, <4>2 DEF Carried
      <4>4. ~(L - 1 > B)
        BY <1>2, <3>1
      <4> QED
        BY <4>3, <4>4
    <3>2. CASE L # B + 1
      <4>1. carried' = carried
        BY <1>5, <1>7, <3>2
      <4>2. L > B => L - 1 > B
        BY <1>1, <1>2, <3>2
      <4>3. L - 1 > B => L > B
        BY <1>1, <1>2
      <4>4. Clean => Clean'
        BY <2>1, <4>1 DEF Clean
      <4>5. Carried(Key) => Carried(Key)'
        BY <1>4, <4>1 DEF Carried
      <4> QED
        BY <1>3, <4>2, <4>3, <4>4, <4>5
    <3> QED
      BY <3>1, <3>2
  <2>4. \A i \in 1 .. L - 1 : todo'[i][1] \in ChangeNames <=> i = (L - 1) - B
    <3>1. \A i \in 1 .. L - 1 : i + 1 \in 1 .. L /\ (i + 1 = L - B <=> i = (L - 1) - B)
      BY <1>1, <1>2
    <3> QED
      BY <1>3, <2>2, <3>1
  <2>5. todo' # <<>> /\ call.op = "tag" => todo'[L - 1] = One("refresh")
    <3>1. todo' # <<>> => L - 1 \in 1 .. L - 1
      BY <1>1, <2>1, <2>2
    <3>2. (L - 1) + 1 = L
      BY <1>1
    <3> QED
      BY <1>3, <2>2, <3>1, <3>2
  <2>6. outcome' = "done" => Carried(Key)'
    <3>1. outcome' = "done" => ~(L - 1 > B)
      BY <1>1, <1>2, <2>1
    <3> QED
      BY <2>3, <3>1
  <2>7. outcome' # "failed"
    BY <1>1, <2>1
  <2> QED
    BY <1>1, <1>4, <2>2, <2>3, <2>4, <2>5, <2>6, <2>7 DEF LoneStory
<1>8. CASE /\ Missed(IF todo[1][1] = "refresh" THEN "partial" ELSE "failed")
           /\ \/ UNCHANGED <<carried, unsure>>
              \/ todo[1][1] \in ChangeNames /\ unsure' = TRUE
  <2>1. L > B => Clean'
    BY <1>3, <1>8 DEF Clean
  <2>2. ~(L > B) => (Carried(Key) => Carried(Key)')
    <3>1. ~(L > B) => carried' = carried
      BY <1>2, <1>5, <1>6, <1>8
    <3> QED
      BY <1>4, <3>1 DEF Carried
  <2>3. ~(L > B) => todo[1][1] = "refresh"
    BY <1>2, <1>3, <1>6 DEF One
  <2>4. CASE todo' = <<>> /\ outcome' = IF todo[1][1] = "refresh" THEN "partial" ELSE "failed"
    BY <2>1, <2>3, <2>4 DEF LoneStory
  <2>5. CASE todo' = todo /\ outcome' = outcome
    <3>1. outcome' = "none" /\ Len(todo') = L
      BY <1>1, <2>5
    <3> QED
      BY <1>1, <1>3, <1>4, <2>1, <2>2, <2>5, <3>1 DEF LoneStory
  <2> QED
    BY <1>8, <2>4, <2>5 DEF Missed
<1>9. CASE todo[1][1] \notin ChangeNames /\ Attempt
  <2>1. PICK able, answer :
          Read(todo[1], able, answer, IF todo[1][1] = "refresh" THEN "partial" ELSE "failed")
    BY <1>1, <1>9 DEF Attempt
  <2> QED
    BY <1>7, <1>8, <1>9, <2>1 DEF Read
<1>10. CASE todo[1][1] \in ChangeNames /\ Attempt
  <2>1. Wrote(todo[1]) /\ todo[1][1] # "refresh"
    BY <1>1, <1>10 DEF Attempt, ChangeNames
  <2> QED
    BY <1>7, <1>8, <1>10, <2>1 DEF Wrote
<1> QED
  BY <1>9, <1>10


-----------------------------------------------------------------------------
(* mkdir and touch *)

LEMMA HeadTail ==
  ASSUME NEW x, NEW y, NEW z
  PROVE  /\ Head(<<x>>) = x /\ Tail(<<x>>) = <<>> /\ Len(<<x>>) = 1 /\ <<x>> # <<>>
         /\ Head(<<x, y>>) = x /\ Tail(<<x, y>>) = <<y>> /\ Len(<<x, y>>) = 2 /\ <<x, y>> # <<>>
         /\ Head(<<x, y, z>>) = x /\ Tail(<<x, y, z>>) = <<y, z>> /\ Len(<<x, y, z>>) = 3
         /\ <<x, y, z>> # <<>>
  OBVIOUS

\* What is there was.
LEMMA Seen ==
  ASSUME Witnessed, NEW p \in Paths, ~Missing(p)
  PROVE  \E c \in {"dir", "file"} : /\ <<p, c>> \in was /\ (IsDir(p) => c = "dir")
                                    /\ (~IsDir(p) => c = "file")
<1> DEFINE c == IF tree[p] = "dir" THEN "dir" ELSE "file"
<1>1. <<p, c>> \in Present(tree)
  BY DEF Present, Missing
<1>2. <<p, c>> \in was /\ c \in {"dir", "file"}
  BY <1>1 DEF Witnessed
<1> QED
  BY <1>2 DEF IsDir

\* mkdir of one directory.
LEMMA MakeKept ==
  ASSUME IInv, Counted, Witnessed, Witnessed', was \subseteq was', MakeStory,
         call.op = "mkdir", ~call.parents, FileNext
  PROVE  MakeStory'
<1>0. /\ call.path \in Paths /\ call.op \in FileOps /\ IsTree(tree) /\ call \in Operations
  BY CallFacts DEF IInv, Running, FileOps
<1>1. CASE OtherEdits
  <2>1. UNCHANGED <<call, todo, outcome, carried, unsure>>
    BY <1>1 DEF OtherEdits, control
  <2> QED
    BY <2>1 DEF MakeStory, Clean
<1>2. CASE MakeCollection \/ SkipComponent
  <2> DEFINE step == <<"make", call.path>>
  <2>1. todo # <<>>
    BY <1>2 DEF MakeCollection, SkipComponent, At
  <2>2. todo = <<step>> /\ Clean /\ outcome = "none"
    BY <2>1 DEF MakeStory, IInv, Running
  <2>3. Head(todo) = step /\ Tail(todo) = <<>> /\ Len(todo) = 1 /\ <<>> \o Tail(todo) = <<>>
    <3>1. todo \in Seq(Steps)
      BY DEF IInv, OwnSteps
    <3>2. <<>> \o Tail(todo) = Tail(todo)
      BY <2>1, <3>1, RestFacts
    <3> QED
      BY <2>2, <3>2, HeadTail
  <2>4. ASSUME NEW p, At(<<"make", p>>) \/ At(<<"verify", p>>)
        PROVE  p = call.path /\ At(<<"make", p>>)
    BY <2>3, <2>4 DEF At
  <2> DEFINE Found == \E c \in {"dir", "file"} : <<call.path, c>> \in was'
  <2>5. CASE todo' = <<>> /\ call' = call /\ Found /\ outcome' = "done"
    BY <2>5 DEF MakeStory
  <2>6. CASE SkipComponent
    <3>1. PICK p \in Paths : /\ At(<<"make", p>>) \/ At(<<"verify", p>>)
                             /\ Known(p) /\ Continue(<<>>)
      BY <2>6 DEF SkipComponent, Proceed
    <3>2. p = call.path
      BY <2>4, <3>1
    <3>3. <<call.path, "dir">> \in was'
      BY <3>1, <3>2 DEF Witnessed
    <3> QED
      BY <2>3, <2>5, <3>1, <3>3 DEF Continue
  <2>7. CASE MakeCollection
    <3>1. PICK p \in Paths :
            /\ At(<<"make", p>>)
            /\ \/ ChangeTree(<<"make", p>>, Missing(p) /\ HasParent(p), With(p, "dir"))
               \/ ~Missing(p) /\ Answered(<<"make", p>>, 0, <<>>)
      BY <2>7 DEF MakeCollection
    <3>2. p = call.path /\ At(step)
      BY <2>4, <3>1
    <3>3. CASE ~Missing(p) /\ Answered(<<"make", p>>, 0, <<>>)
      <4>1. Found
        BY <3>2, <3>3, Seen
      <4> QED
        BY <2>3, <2>5, <3>3, <4>1 DEF Answered, Continue
    <3>4. CASE ChangeTree(step, Missing(p) /\ HasParent(p), With(p, "dir"))
      <4>1. Wrote(step)
        BY <3>4, TreeWrites
      <4>2. CASE Missed("failed")
        <5>1. Clean' /\ call' = call
          BY <2>2, <4>1, <4>2, <2>3 DEF Wrote, Clean, Missed, Passed
        <5> QED
          BY <2>2, <4>2, <5>1 DEF Missed, MakeStory
      <4>3. CASE Passed /\ ~Missed("failed")
        <5>1. Answered(step, 0, <<>>) /\ tree' = With(p, "dir")
          BY <3>4, <4>3, <2>3 DEF ChangeTree, Change, Refused, Again, Fail, Missed
        <5>2. tree'[p] = "dir"
          BY <1>0, <3>2, <5>1 DEF With, IsTree
        <5>3. <<p, "dir">> \in Present(tree)'
          BY <5>2 DEF Present
        <5>4. Found
          BY <3>2, <5>3 DEF Witnessed
        <5> QED
          BY <2>3, <2>5, <5>1, <5>4 DEF Answered, Continue
      <4> QED
        BY <4>1, <4>2, <4>3 DEF Wrote
    <3> QED
      BY <3>1, <3>2, <3>3, <3>4
  <2> QED
    BY <1>2, <2>6, <2>7
<1>3. ASSUME NEW step, At(step), step[1] # "make" PROVE FALSE
  <2>1. todo # <<>> /\ todo[1] = step
    BY <1>3, HeadOf
  <2> QED
    BY <1>3, <2>1 DEF MakeStory
<1>4. ASSUME LookAtComponent \/ VerifyComponent \/ LookAtFile \/ TouchExisting \/ CreateEmpty \/ LookAgain
             \/ VerifyTouched \/ Resolve \/ Transfer \/ StatPath \/ Delete \/ Put \/ ChangeTag
             \/ Refresh \/ AskOptions \/ PropPatch
      PROVE  FALSE
  <2>1. CASE LookAtComponent \/ VerifyComponent
    <3>1. \E p \in Paths : At(<<"look", p>>) \/ At(<<"verify", p>>)
      BY <2>1 DEF LookAtComponent, VerifyComponent, Ask, AskThen
    <3> QED
      BY <1>3, <3>1, Unlike
  <2>2. CASE LookAtFile \/ TouchExisting \/ CreateEmpty \/ LookAgain \/ VerifyTouched
    <3>1. At(One("lookFile")) \/ At(One("create")) \/ At(One("lookAgain")) \/ At(One("check"))
      BY <2>2 DEF LookAtFile, TouchExisting, CreateEmpty, LookAgain, VerifyTouched, Ask, AskThen
    <3> QED
      BY <1>3, <3>1, Unlike
  <2>3. CASE Resolve \/ Transfer \/ StatPath \/ Delete \/ Put \/ ChangeTag \/ Refresh
             \/ AskOptions \/ PropPatch
    <3>1. \/ At(One("resolve")) \/ At(One("transfer")) \/ At(One("stat")) \/ At(One("delete"))
          \/ At(One("put")) \/ At(One("changeTag")) \/ At(One("refresh")) \/ At(One("options"))
          \/ At(One("proppatch"))
      BY <2>3 DEF Resolve, Transfer, StatPath, Delete, Put, ChangeTag, Refresh, AskOptions,
                  PropPatch, ChangeTree, Change, Ask, AskThen
    <3> QED
      BY <1>3, <3>1, Unlike
  <2> QED
    BY <1>4, <2>1, <2>2, <2>3
<1> QED
  BY <1>1, <1>2, <1>4 DEF FileNext

\* One step of mkdir --parents: a component whose verification passes is a directory.
Climbs ==
  /\ todo # <<>> /\ call' = call
  /\ \/ /\ todo' = Tail(todo) /\ outcome' = IF Len(todo) = 1 THEN "done" ELSE outcome
        /\ Head(todo)[1] = "verify" => <<Head(todo)[2], "dir">> \in was'
     \/ todo' = <<>> /\ outcome' = "failed"
     \/ todo' = todo /\ outcome' = outcome

LEMMA MissedClimb == ASSUME todo # <<>>, call' = call, Missed("failed") PROVE Climbs
  BY DEF Missed, Climbs

LEMMA ClimbMoves ==
  ASSUME IInv, Witnessed, was \subseteq was', call.op = "mkdir", FileNext
  PROVE  Climbs \/ Aside
<1>1. CASE LookAtComponent
  <2>1. PICK p \in Paths : Ask(<<"look", p>>, ~IsFile(p), tree[p], "failed")
    BY <1>1 DEF LookAtComponent
  <2>2. Read(<<"look", p>>, ~IsFile(p), tree[p], "failed")
    BY <2>1, AskReads
  <2>3. todo # <<>> /\ Head(todo)[1] # "verify" /\ call' = call
    BY <2>2 DEF Read, At
  <2> QED
    BY <2>2, <2>3, MissedClimb DEF Read, Passed, Climbs
<1>2. CASE SkipComponent
  <2>1. PICK p \in Paths : /\ At(<<"make", p>>) \/ At(<<"verify", p>>)
                           /\ Known(p) /\ Continue(<<>>)
    BY <1>2 DEF SkipComponent, Proceed
  <2>2. todo # <<>> /\ todo \in Seq(Steps) /\ Head(todo)[2] = p
    BY <2>1 DEF At, IInv, OwnSteps
  <2>3. <<>> \o Tail(todo) = Tail(todo)
    BY <2>2, RestFacts
  <2>4. <<p, "dir">> \in was'
    BY <2>1 DEF Witnessed
  <2> QED
    BY <2>1, <2>2, <2>3, <2>4 DEF Continue, Climbs
<1>3. CASE MakeCollection
  <2>1. PICK p \in Paths :
          /\ At(<<"make", p>>)
          /\ \/ ChangeTree(<<"make", p>>, Missing(p) /\ HasParent(p), With(p, "dir"))
             \/ Answered(<<"make", p>>, 0, <<>>)
    BY <1>3 DEF MakeCollection
  <2>2. todo # <<>> /\ todo \in Seq(Steps) /\ Head(todo)[1] # "verify"
    BY <2>1 DEF At, IInv, OwnSteps
  <2>3. <<>> \o Tail(todo) = Tail(todo)
    BY <2>2, RestFacts
  <2>4. CASE Answered(<<"make", p>>, 0, <<>>)
    BY <2>2, <2>3, <2>4 DEF Answered, Continue, Climbs
  <2>5. CASE ChangeTree(<<"make", p>>, Missing(p) /\ HasParent(p), With(p, "dir"))
    <3>1. Wrote(<<"make", p>>)
      BY <2>5, TreeWrites
    <3> QED
      BY <2>2, <3>1, MissedClimb DEF Wrote, Passed, Climbs
  <2> QED
    BY <2>1, <2>4, <2>5
<1>4. CASE VerifyComponent
  <2>1. PICK p \in Paths : Ask(<<"verify", p>>, IsDir(p), 0, "failed")
    BY <1>4 DEF VerifyComponent
  <2>2. Read(<<"verify", p>>, IsDir(p), 0, "failed")
    BY <2>1, AskReads
  <2>3. todo # <<>> /\ Head(todo)[2] = p /\ call' = call
    BY <2>2 DEF Read, At
  <2>4. ASSUME IsDir(p) PROVE <<p, "dir">> \in was'
    <3>1. ~Missing(p)
      BY <2>4 DEF IsDir, Missing
    <3> QED
      BY <2>4, <3>1, Seen
  <2> QED
    BY <2>2, <2>3, <2>4, MissedClimb DEF Read, Passed, Climbs
<1>5. ASSUME NEW step, At(step), step[1] \notin {"look", "make", "verify"} PROVE FALSE
  <2>1. step[1] \in NamesOf(call.op)
    BY <1>5, HeadOf
  <2> QED
    BY <1>5, <2>1 DEF NamesOf, WalkOps
<1>6. CASE LookAtFile \/ TouchExisting \/ CreateEmpty \/ LookAgain \/ VerifyTouched
  <2>1. At(One("lookFile")) \/ At(One("create")) \/ At(One("lookAgain")) \/ At(One("check"))
    BY <1>6 DEF LookAtFile, TouchExisting, CreateEmpty, LookAgain, VerifyTouched, Ask, AskThen
  <2> QED
    BY <1>5, <2>1, Unlike
<1>7. CASE Resolve \/ Transfer \/ StatPath \/ Delete \/ Put \/ ChangeTag \/ Refresh
           \/ AskOptions \/ PropPatch
  <2>1. \/ At(One("resolve")) \/ At(One("transfer")) \/ At(One("stat")) \/ At(One("delete"))
        \/ At(One("put")) \/ At(One("changeTag")) \/ At(One("refresh")) \/ At(One("options"))
        \/ At(One("proppatch"))
    BY <1>7 DEF Resolve, Transfer, StatPath, Delete, Put, ChangeTag, Refresh, AskOptions,
                PropPatch, ChangeTree, Change, Ask, AskThen
  <2> QED
    BY <1>5, <2>1, Unlike
<1>8. CASE OtherEdits
  BY <1>8 DEF OtherEdits, Aside
<1> QED
  BY <1>1, <1>2, <1>3, <1>4, <1>6, <1>7, <1>8 DEF FileNext

\* The last of the three steps of a component is its verification.
LEMMA VerifiesThird ==
  ASSUME NEW path \in Seq(STRING), NEW n \in 1 .. Len(path)
  PROVE  ParentsScript(path)[3 * n] = <<"verify", SubSeq(path, 1, n)>>
<1>1. Len(path) \in Nat
  OBVIOUS
<1> DEFINE k == 3 * n
<1>2. /\ k \in 1 .. 3 * Len(path)
      /\ (k - 1) % 3 = 2 /\ (k - 1) \div 3 = n - 1
  <2>1. k - 1 = 3 * (n - 1) + 2 /\ n - 1 \in Nat
    BY <1>1
  <2> QED
    BY <1>1, <2>1
<1> HIDE DEF k
<1>3. ParentsScript(path)[k] =
        <<<<"look", "make", "verify">>[1 + ((k - 1) % 3)], SubSeq(path, 1, 1 + ((k - 1) \div 3))>>
  BY <1>2 DEF ParentsScript
<1>4. 1 + (n - 1) = n /\ 1 + 2 = 3
  BY <1>1
<1> QED
  BY <1>2, <1>3, <1>4 DEF k

LEMMA ClimbKept ==
  ASSUME IInv, was \subseteq was', ClimbStory, call.op = "mkdir", call.parents, Climbs
  PROVE  ClimbStory'
<1> DEFINE path == call.path
           L == Len(todo)
           C == 3 * Len(path) - L
           S == ParentsScript(path)
           Made(n) == <<SubSeq(path, 1, n), "dir">>
<1>1. /\ path \in Seq(STRING) /\ Len(path) \in Nat
      /\ todo \in Seq(Steps) /\ todo # <<>> /\ L \in Nat \ {0} /\ Head(todo) = todo[1]
      /\ Len(Tail(todo)) = L - 1 /\ \A i \in 1 .. L - 1 : Tail(todo)[i] = todo[i + 1]
      /\ outcome = "none" /\ call' = call
  BY CallFacts, PathFacts, RestFacts DEF IInv, Running, OwnSteps, Climbs, FileOps
<1>2. /\ C \in Nat /\ \A i \in 1 .. L : todo[i] = S[C + i]
      /\ \A n \in 1 .. Len(path) : 3 * n <= C => Made(n) \in was
  BY <1>1 DEF ClimbStory, Climbed
<1>3. C \in Nat /\ L \in Nat \ {0}
  BY <1>1, <1>2
<1>4. CASE todo' = <<>> /\ outcome' = "failed"
  BY <1>4 DEF ClimbStory
<1>5. CASE todo' = todo /\ outcome' = outcome
  BY <1>1, <1>2, <1>5 DEF ClimbStory, Climbed
<1>6. CASE /\ todo' = Tail(todo) /\ outcome' = IF L = 1 THEN "done" ELSE outcome
           /\ todo[1][1] = "verify" => <<todo[1][2], "dir">> \in was'
  <2>1. C' = C + 1 /\ C + 1 \in Nat /\ Len(todo') = L - 1
    BY <1>1, <1>2, <1>6
  <2>2. ASSUME NEW i \in 1 .. L - 1 PROVE todo'[i] = S[(C + 1) + i]
    <3>1. i + 1 \in 1 .. L /\ C + (i + 1) = (C + 1) + i
      <4> HIDE DEF C, L
      <4> QED
        BY <1>3
    <3> QED
      BY <1>1, <1>2, <1>6, <3>1
  <2>3. ASSUME NEW n \in 1 .. Len(path), 3 * n <= C + 1 PROVE Made(n) \in was'
    <3>1. CASE 3 * n <= C
      BY <1>2, <3>1
    <3>2. CASE ~(3 * n <= C)
      <4>1. 3 * n = C + 1 /\ 1 \in 1 .. L
        <5> HIDE DEF C, L
        <5> QED
          BY <1>3, <2>3, <3>2
      <4>2. todo[1] = S[C + 1]
        BY <1>2, <4>1
      <4>3. S[3 * n] = <<"verify", SubSeq(path, 1, n)>>
        BY <1>1, VerifiesThird
      <4>4. todo[1] = <<"verify", SubSeq(path, 1, n)>>
        BY <4>1, <4>2, <4>3
      <4> QED
        BY <1>6, <4>4
    <3> QED
      BY <3>1, <3>2
  <2>4. ASSUME outcome' = "done", NEW n \in 1 .. Len(path) PROVE Made(n) \in was'
    <3>1. L = 1
      BY <1>1, <1>6, <2>4
    <3>2. C = 3 * Len(path) - 1 /\ 3 * n <= 3 * Len(path)
      BY <1>1, <3>1
    <3>3. 3 * n <= C + 1
      <4> HIDE DEF C, path
      <4> QED
        BY <1>1, <3>2
    <3> QED
      BY <2>3, <3>3
  <2> QED
    BY <1>1, <2>1, <2>2, <2>3, <2>4 DEF ClimbStory, Climbed
<1> QED
  BY <1>1, <1>4, <1>5, <1>6 DEF Climbs

\* The steps of a touch, from each of them on.
LEMMA TouchSteps ==
  ASSUME IInv, TouchStory, call.op = "touch", todo # <<>>
  PROVE  /\ At(One("lookFile")) => todo = <<One("lookFile"), One("create"), One("check")>>
         /\ At(One("create")) =>
              /\ todo = <<One("create"), One("check")>>
              /\ seen[One("lookFile")] # "none" => <<call.path, "file">> \in was
         /\ At(One("check")) => todo = <<One("check")>>
         /\ At(One("lookAgain")) => todo = <<One("lookAgain")>>
         /\ outcome = "none"
<1>1. \A x, y : One(x) = One(y) => x = y
  BY DEF One
<1>2. \/ todo = <<One("lookFile"), One("create"), One("check")>> /\ Head(todo) = One("lookFile")
      \/ /\ todo = <<One("create"), One("check")>> /\ Head(todo) = One("create")
         /\ seen[One("lookFile")] # "none" => <<call.path, "file">> \in was
      \/ todo = <<One("check")>> /\ Head(todo) = One("check")
      \/ todo = <<One("lookAgain")>> /\ Head(todo) = One("lookAgain")
  BY HeadTail DEF TouchStory
<1>3. outcome = "none"
  BY DEF IInv, Running
<1> QED
  BY <1>1, <1>2, <1>3 DEF At

LEMMA TouchMissed ==
  ASSUME IInv, TouchStory, was \subseteq was', todo # <<>>, call' = call, Missed("failed")
  PROVE  TouchStory'
<1>1. outcome = "none"
  BY DEF IInv, Running
<1> QED
  BY <1>1 DEF TouchStory, Missed

LEMMA TouchKept ==
  ASSUME IInv, Witnessed, was \subseteq was', TouchStory, call.op = "touch", FileNext
  PROVE  TouchStory'
<1>1. /\ call.path \in Paths /\ IsTree(tree)
      /\ tree[call.path] \in Contents \cup {"dir", "none"}
      /\ "dir" \notin Contents /\ "none" \notin Contents /\ "" \in Contents
  <2>1. call.path \in Paths /\ IsTree(tree)
    BY CallFacts DEF IInv, Running, FileOps
  <2> QED
    BY <2>1, FileCommandsAssumption DEF IsTree
<1>2. ASSUME tree[call.path] \in Contents PROVE <<call.path, "file">> \in was'
  <2>1. ~Missing(call.path) /\ ~IsDir(call.path)
    BY <1>1, <1>2 DEF Missing, IsDir
  <2> QED
    BY <1>1, <2>1, Seen
<1>3. CASE LookAtFile
  <2>1. Read(One("lookFile"), ~IsDir(call.path), tree[call.path], "failed")
    BY <1>3, AskReads DEF LookAtFile
  <2>2. todo # <<>> /\ At(One("lookFile")) /\ call' = call
    BY <2>1 DEF Read, At
  <2>3. todo = <<One("lookFile"), One("create"), One("check")>> /\ outcome = "none"
    BY <2>2, TouchSteps
  <2>4. CASE Missed("failed")
    BY <2>2, <2>4, TouchMissed
  <2>5. CASE Passed /\ ~IsDir(call.path) /\ Learn(One("lookFile"), tree[call.path])
    <3>1. todo' = <<One("create"), One("check")>> /\ outcome' = "none"
      BY <2>3, <2>5, HeadTail DEF Passed
    <3>2. seen'[One("lookFile")] = tree[call.path]
      BY <2>5 DEF Learn
    <3>3. tree[call.path] # "none" => tree[call.path] \in Contents
      BY <1>1, <2>5 DEF IsDir
    <3> QED
      BY <1>2, <2>2, <3>1, <3>2, <3>3 DEF TouchStory
  <2> QED
    BY <2>1, <2>4, <2>5 DEF Read
<1>4. CASE TouchExisting
  <2>1. /\ todo # <<>> /\ At(One("create")) /\ seen[One("lookFile")] # "none"
        /\ todo' = <<>> /\ outcome' = "done" /\ call' = call
    BY <1>4 DEF TouchExisting, Finish, At
  <2>2. <<call.path, "file">> \in was'
    BY <2>1, TouchSteps
  <2> QED
    BY <2>1, <2>2 DEF TouchStory
<1>5. CASE CreateEmpty
  <2>1. todo # <<>> /\ At(One("create"))
    BY <1>5 DEF CreateEmpty, At
  <2>2. todo = <<One("create"), One("check")>> /\ outcome = "none"
    BY <2>1, TouchSteps
  <2>3. CASE todo' = Each(<<"lookAgain">>) /\ UNCHANGED <<call, outcome>>
    <3>1. Each(<<"lookAgain">>) = <<One("lookAgain")>>
      BY DEF Each
    <3> QED
      BY <2>2, <2>3, <3>1, HeadTail DEF TouchStory
  <2>4. CASE ChangeTree(One("create"), HasParent(call.path) /\ Missing(call.path), With(call.path, ""))
    <3>1. Wrote(One("create"))
      BY <2>4, TreeWrites
    <3>2. call' = call
      BY <3>1 DEF Wrote
    <3>3. CASE Missed("failed")
      BY <2>1, <3>2, <3>3, TouchMissed
    <3>4. CASE Passed
      <4>1. todo' = <<One("check")>> /\ outcome' = "none"
        BY <2>2, <3>4, HeadTail DEF Passed
      <4> QED
        BY <3>2, <4>1 DEF TouchStory
    <3> QED
      BY <3>1, <3>3, <3>4 DEF Wrote
  <2> QED
    BY <1>5, <2>3, <2>4 DEF CreateEmpty
<1>6. ASSUME NEW name \in {"check", "lookAgain"}, NEW able, able => tree[call.path] \in Contents,
             Ask(One(name), able, 0, "failed")
      PROVE  TouchStory'
  <2>1. Read(One(name), able, 0, "failed")
    BY <1>6, AskReads
  <2>2. todo # <<>> /\ At(One(name)) /\ call' = call
    BY <2>1 DEF Read, At
  <2>3. todo = <<One(name)>>
    BY <2>2, TouchSteps
  <2>4. CASE Missed("failed")
    BY <2>2, <2>4, TouchMissed
  <2>5. CASE Passed /\ able
    <3>1. todo' = <<>>
      BY <2>3, <2>5, HeadTail DEF Passed
    <3> QED
      BY <1>2, <1>6, <2>2, <2>5, <3>1 DEF TouchStory
  <2> QED
    BY <2>1, <2>4, <2>5 DEF Read
<1>7. CASE LookAgain
  <2>1. Ask(One("lookAgain"), IsFile(call.path), 0, "failed")
    BY <1>7 DEF LookAgain
  <2> QED
    BY <1>6, <2>1 DEF IsFile
<1>8. CASE VerifyTouched
  <2>1. Ask(One("check"), tree[call.path] = "", 0, "failed")
    BY <1>8 DEF VerifyTouched
  <2> QED
    BY <1>1, <1>6, <2>1
<1>9. ASSUME NEW step, At(step), step[1] \notin {"lookFile", "create", "check", "lookAgain"}
      PROVE  FALSE
  <2>1. step[1] \in NamesOf(call.op)
    BY <1>9, HeadOf
  <2> QED
    BY <1>9, <2>1 DEF NamesOf, WalkOps
<1>10. CASE LookAtComponent \/ SkipComponent \/ MakeCollection \/ VerifyComponent
  <2>1. \E p \in Paths : At(<<"look", p>>) \/ At(<<"make", p>>) \/ At(<<"verify", p>>)
    BY <1>10 DEF LookAtComponent, SkipComponent, MakeCollection, VerifyComponent, Ask, AskThen
  <2> QED
    BY <1>9, <2>1, Unlike
<1>11. CASE Resolve \/ Transfer \/ StatPath \/ Delete \/ Put \/ ChangeTag \/ Refresh
            \/ AskOptions \/ PropPatch
  <2>1. \/ At(One("resolve")) \/ At(One("transfer")) \/ At(One("stat")) \/ At(One("delete"))
        \/ At(One("put")) \/ At(One("changeTag")) \/ At(One("refresh")) \/ At(One("options"))
        \/ At(One("proppatch"))
    BY <1>11 DEF Resolve, Transfer, StatPath, Delete, Put, ChangeTag, Refresh, AskOptions,
                PropPatch, ChangeTree, Change, Ask, AskThen
  <2> QED
    BY <1>9, <2>1, Unlike
<1>12. CASE OtherEdits
  <2>1. UNCHANGED <<call, todo, outcome, seen>>
    BY <1>12 DEF OtherEdits, control
  <2> QED
    BY <2>1 DEF TouchStory
<1> QED
  BY <1>3, <1>4, <1>5, <1>7, <1>8, <1>10, <1>11, <1>12 DEF FileNext

-----------------------------------------------------------------------------
(* Every step *)

\* Walks, archives and the file commands have no step in common.
WalkNames ==
  {"root", "list", "peek", "visit", "lookLocal", "capabilities", "select", "fetch", "validate",
   "commit"}

LEMMA WalksApart ==
  ASSUME call \in Operations, NEW name \in NamesOf(call.op)
  PROVE  name \in WalkNames <=> call.op \in WalkOps \cup {"archive"}
<1>1. call.op \in FileOps \cup {"tree", "du", "archive"}
  BY CallFacts DEF WalkOps
<1> QED
  BY <1>1 DEF NamesOf, WalkOps, FileOps, WalkNames

\* A step that is a walk's or an archive's, and one that is not.
LEMMA WalkSteps ==
  ASSUME IInv, NEW step, At(step)
  PROVE  step[1] \in WalkNames <=> call.op \in WalkOps \cup {"archive"}
  BY HeadOf, WalksApart

LEMMA WalksOnlyLook ==
  ASSUME IInv, WalkNext
  PROVE  /\ call.op \in WalkOps \cup {"archive"} /\ todo # <<>>
         /\ call' = call /\ carried' = carried
<1>1. ASSUME NEW step, step[1] \in WalkNames, NEW able, NEW answer, NEW more, NEW error,
             AskThen(step, able, answer, more, error)
      PROVE  /\ call.op \in WalkOps \cup {"archive"} /\ todo # <<>>
             /\ call' = call /\ carried' = carried
  BY <1>1, WalkSteps DEF AskThen, Answered, Continue, Refused, Fail, Again, At
<1>2. ASSUME NEW step, step[1] \in WalkNames, NEW good, NEW error, Decide(step, good, error)
      PROVE  /\ call.op \in WalkOps \cup {"archive"} /\ todo # <<>>
             /\ call' = call /\ carried' = carried
  BY <1>2, WalkSteps DEF Decide, Proceed, Continue, Refused, Fail, At
<1>3. \A x, y : <<x, y>>[1] = x /\ One(x)[1] = x
  BY DEF One
<1>4. CASE WalkRoot
  <2>1. \E able, answer, more : AskThen(One("root"), able, answer, more, "failed")
    BY <1>4 DEF WalkRoot
  <2>2. One("root")[1] \in WalkNames
    BY <1>3 DEF WalkNames
  <2> QED
    BY <1>1, <2>1, <2>2
<1>5. CASE ListDirectory
  <2>1. PICK p \in Paths : AskThen(<<"list", p>>, ~Missing(p), 0, Visits(p), "failed")
    BY <1>5 DEF ListDirectory
  <2>2. <<"list", p>>[1] \in WalkNames
    BY <1>3 DEF WalkNames
  <2> QED
    BY <1>1, <2>1, <2>2
<1>6. CASE VisitEntry \/ VisitArchived
  BY <1>6 DEF VisitEntry, VisitArchived, Refused, Fail, Continue, At
<1>7. CASE PeekBelow
  <2>1. PICK p \in Paths : AskThen(<<"peek", p>>, ~Missing(p), Children(p), <<>>, "failed")
    BY <1>7 DEF PeekBelow, Ask
  <2>2. <<"peek", p>>[1] \in WalkNames
    BY <1>3 DEF WalkNames
  <2> QED
    BY <1>1, <2>1, <2>2
<1>8. CASE LookAtDestination
  <2>1. \E good : Decide(One("lookLocal"), good, "failed")
    BY <1>8 DEF LookAtDestination
  <2>2. One("lookLocal")[1] \in WalkNames
    BY <1>3 DEF WalkNames
  <2> QED
    BY <1>2, <2>1, <2>2
<1>9. CASE AskCapabilities
  <2>1. \E offered : AskThen(One("capabilities"), offered, 0, <<>>, "failed")
    BY <1>9 DEF AskCapabilities, Ask
  <2>2. One("capabilities")[1] \in WalkNames
    BY <1>3 DEF WalkNames
  <2> QED
    BY <1>1, <2>1, <2>2
<1>10. CASE Select
  <2>1. PICK p \in Paths :
          /\ At(<<"select", p>>)
          /\ \/ \E more : AskThen(<<"select", p>>, ~Missing(p), tree[p], more, "failed")
             \/ Refused("failed")
    BY <1>10 DEF Select
  <2>2. <<"select", p>>[1] \in WalkNames
    BY <1>3 DEF WalkNames
  <2>3. CASE Refused("failed")
    BY <2>1, <2>2, <2>3, WalkSteps DEF Refused, Fail, At
  <2> QED
    BY <1>1, <2>1, <2>2, <2>3
<1>11. CASE Fetch
  <2>1. At(One("fetch"))
    BY <1>11 DEF Fetch
  <2>2. One("fetch")[1] \in WalkNames
    BY <1>3 DEF WalkNames
  <2>3. CASE \E able, answer : AskThen(One("fetch"), able, answer, <<>>, "failed")
    BY <1>1, <2>2, <2>3
  <2>4. CASE Proceed /\ UNCHANGED carried
    BY <2>1, <2>2, <2>4, WalkSteps DEF Proceed, Continue, At
  <2> QED
    BY <1>11, <2>3, <2>4 DEF Fetch, Ask
<1>12. CASE Validate
  <2>1. \E good : Decide(One("validate"), good, "failed")
    BY <1>12 DEF Validate
  <2>2. One("validate")[1] \in WalkNames
    BY <1>3 DEF WalkNames
  <2> QED
    BY <1>2, <2>1, <2>2
<1>13. CASE Commit
  <2>1. \E good : Decide(One("commit"), good, "failed")
    BY <1>13 DEF Commit
  <2>2. One("commit")[1] \in WalkNames
    BY <1>3 DEF WalkNames
  <2> QED
    BY <1>2, <2>1, <2>2
<1>14. CASE OtherLocal
  BY <1>14 DEF OtherLocal, control
<1> QED
  BY <1>4, <1>5, <1>6, <1>7, <1>8, <1>9, <1>10, <1>11, <1>12, <1>13, <1>14 DEF WalkNext

\* While a walk or an archive runs, the actions of the file commands are none but
\* other clients' edits.
LEMMA FilesWait ==
  ASSUME IInv, call.op \in WalkOps \cup {"archive"}, FileNext
  PROVE  OtherEdits /\ todo # <<>> /\ call' = call /\ carried' = carried
<1>1. ASSUME NEW step, At(step), step[1] \notin WalkNames PROVE FALSE
  BY <1>1, WalkSteps
<1>2. CASE OtherEdits
  BY <1>2 DEF OtherEdits, control
<1>3. CASE LookAtComponent \/ SkipComponent \/ MakeCollection \/ VerifyComponent
  <2>1. PICK p \in Paths : At(<<"look", p>>) \/ At(<<"make", p>>) \/ At(<<"verify", p>>)
    BY <1>3 DEF LookAtComponent, SkipComponent, MakeCollection, VerifyComponent, Ask, AskThen
  <2>2. /\ <<"look", p>>[1] \notin WalkNames /\ <<"make", p>>[1] \notin WalkNames
        /\ <<"verify", p>>[1] \notin WalkNames
    BY DEF WalkNames
  <2> QED
    BY <1>1, <2>1, <2>2
<1>4. ASSUME LookAtFile \/ TouchExisting \/ CreateEmpty \/ LookAgain \/ VerifyTouched
             \/ Resolve \/ Transfer \/ StatPath \/ Delete \/ Put \/ ChangeTag \/ Refresh
             \/ AskOptions \/ PropPatch
      PROVE  FALSE
  <2>1. PICK name \in {"lookFile", "create", "lookAgain", "check", "resolve", "transfer", "stat",
                       "delete", "put", "changeTag", "refresh", "options", "proppatch"} :
          At(One(name))
    <3>1. CASE LookAtFile \/ TouchExisting \/ CreateEmpty \/ LookAgain \/ VerifyTouched
      BY <3>1 DEF LookAtFile, TouchExisting, CreateEmpty, LookAgain, VerifyTouched, Ask, AskThen
    <3>2. CASE Resolve \/ Transfer \/ StatPath \/ Delete \/ Put \/ ChangeTag \/ Refresh
               \/ AskOptions \/ PropPatch
      BY <3>2 DEF Resolve, Transfer, StatPath, Delete, Put, ChangeTag, Refresh, AskOptions,
                  PropPatch, ChangeTree, Change, Ask, AskThen
    <3> QED
      BY <1>4, <3>1, <3>2
  <2>2. One(name)[1] \notin WalkNames
    BY DEF One, WalkNames
  <2> QED
    BY <1>1, <2>1, <2>2
<1> QED
  BY <1>2, <1>3, <1>4 DEF FileNext

LEMMA OthersVacuous ==
  ASSUME call.op \in WalkOps \cup {"archive"}, todo # <<>>, call' = call, carried' = carried,
         WalkStory
  PROVE  Stories'
<1>1. call'.op = call.op /\ call.op \in {"tree", "du", "archive"} /\ carried' = <<>>
  BY DEF WalkOps, WalkStory
<1> QED
  BY <1>1 DEF Stories, LoneStory, LoneOps, MakeStory, ClimbStory, TouchStory, WalkStory

LEMMA StoriesNext ==
  ASSUME IInv, Counted, Witnessed, Witnessed', Stories, FileNext \/ WalkNext
  PROVE  Stories'
<1>1. CASE WalkNext
  BY <1>1, WalksOnlyLook, OthersVacuous DEF Stories
<1>2. CASE FileNext /\ call.op \in WalkOps \cup {"archive"}
  BY <1>2, FilesWait, OthersVacuous DEF Stories
<1>3. CASE FileNext /\ call.op \notin WalkOps \cup {"archive"}
  <2>1. call.op \in FileOps /\ call' = call /\ was \subseteq was'
    <3>1. Moves \/ Aside
      BY <1>3, FileMoves
    <3>2. was \subseteq was'
      BY <1>3, FileWas, WasGrows
    <3>3. call.op \in FileOps
      BY <1>3, CallFacts DEF IInv, Running
    <3> QED
      BY <3>1, <3>2, <3>3 DEF Moves, Aside, control
  <2>2. WalkStory'
    BY <1>3, <2>1 DEF WalkStory
  <2>3. CASE call.op \in LoneOps
    <3>1. LoneStory'
      <4>1. CASE Attempt
        BY <2>3, <4>1, LoneKept DEF Stories
      <4>2. CASE Aside
        <5>1. UNCHANGED <<call, todo, outcome, carried, unsure>>
          BY <4>2 DEF Aside, control
        <5> QED
          BY <5>1 DEF Stories, LoneStory, Behind, Key, Clean, Carried
      <4> QED
        BY <1>3, <2>3, <4>1, <4>2, LoneAttempts
    <3>2. MakeStory' /\ ClimbStory' /\ TouchStory'
      BY <2>1, <2>3 DEF LoneOps, MakeStory, ClimbStory, TouchStory
    <3> QED
      BY <2>2, <3>1, <3>2 DEF Stories
  <2>4. CASE call.op = "mkdir" /\ ~call.parents
    <3>1. MakeStory'
      BY <1>3, <2>1, <2>4, MakeKept DEF Stories
    <3>2. LoneStory' /\ ClimbStory' /\ TouchStory'
      BY <2>1, <2>4 DEF LoneOps, LoneStory, ClimbStory, TouchStory
    <3> QED
      BY <2>2, <3>1, <3>2 DEF Stories
  <2>5. CASE call.op = "mkdir" /\ call.parents
    <3>1. ClimbStory'
      <4>1. CASE Climbs
        BY <2>1, <2>5, <4>1, ClimbKept DEF Stories
      <4>2. CASE Aside
        <5>1. UNCHANGED <<call, todo, outcome>>
          BY <4>2 DEF Aside, control
        <5> QED
          BY <2>1, <5>1 DEF Stories, ClimbStory, Climbed
      <4> QED
        BY <1>3, <2>1, <2>5, <4>1, <4>2, ClimbMoves
    <3>2. LoneStory' /\ MakeStory' /\ TouchStory'
      BY <2>1, <2>5 DEF LoneOps, LoneStory, MakeStory, TouchStory
    <3> QED
      BY <2>2, <3>1, <3>2 DEF Stories
  <2>6. CASE call.op = "touch"
    <3>1. TouchStory'
      BY <1>3, <2>1, <2>6, TouchKept DEF Stories
    <3>2. LoneStory' /\ MakeStory' /\ ClimbStory'
      BY <2>1, <2>6 DEF LoneOps, LoneStory, MakeStory, ClimbStory
    <3> QED
      BY <2>2, <3>1, <3>2 DEF Stories
  <2> QED
    BY <2>1, <2>3, <2>4, <2>5, <2>6 DEF FileOps, LoneOps
<1> QED
  BY <1>1, <1>2, <1>3

\* A command begins.
LEMMA LoneBegins ==
  ASSUME Begin, NEW names \in Seq(StepNames), Script = Each(names), names # <<>>,
         Len(names) > Behind,
         \A i \in 1 .. Len(names) : names[i] \in ChangeNames <=> i = Len(names) - Behind,
         call.op = "tag" => names[Len(names)] = "refresh"
  PROVE  LoneStory'
<1> DEFINE s == Each(names)
<1>1. /\ Len(s) = Len(names) /\ \A i \in 1 .. Len(names) : s[i] = One(names[i])
      /\ Len(names) \in 1 .. Len(names)
  BY EachFacts
<1> HIDE DEF s
<1>2. \A x : One(x)[1] = x
  BY DEF One
<1>3. todo' = s /\ call' = call /\ carried' = <<>>
  BY DEF Begin, Run, s
<1>4. outcome' = "none"
  <2>1. Script # <<>>
    BY <1>1 DEF s
  <2> QED
    BY <2>1 DEF Begin, Run
<1>5. \A i \in 1 .. Len(s) : s[i][1] \in ChangeNames <=> i = Len(s) - Behind
  BY <1>1, <1>2
<1>6. call.op = "tag" => s[Len(s)] = One("refresh")
  BY <1>1
<1>7. Behind' = Behind /\ Clean'
  BY <1>3 DEF Behind, Clean
<1>8. Len(s) > Behind
  BY <1>1
<1> QED
  BY <1>3, <1>4, <1>5, <1>6, <1>7, <1>8 DEF LoneStory

LEMMA LoneBegin == ASSUME IInv, Begin PROVE LoneStory'
<1>0. call' = call
  BY DEF Begin, Run
<1>1. CASE call.op \notin LoneOps
  BY <1>0, <1>1 DEF LoneStory
<1>2. CASE call.op \in {"copy", "move"}
  <2> DEFINE names == <<"resolve", "transfer">>
  <2>1. names \in Seq(StepNames) /\ names # <<>> /\ Len(names) = 2 /\ Script = Each(names)
    BY <1>2 DEF StepNames, Script, FileScript, FileOps
  <2>2. Behind = 0 /\ call.op # "tag"
    BY <1>2 DEF Behind
  <2>3. \A i \in 1 .. 2 : names[i] \in ChangeNames <=> i = 2 - 0
    BY DEF ChangeNames
  <2> HIDE DEF names
  <2>4. Len(names) > Behind
    BY <2>1, <2>2
  <2> QED
    BY <2>1, <2>2, <2>3, <2>4, LoneBegins
<1>3. CASE call.op = "remove"
  <2> DEFINE names == <<"stat", "delete">>
  <2>1. names \in Seq(StepNames) /\ names # <<>> /\ Len(names) = 2 /\ Script = Each(names)
    BY <1>3 DEF StepNames, Script, FileScript, FileOps
  <2>2. Behind = 0 /\ call.op # "tag"
    BY <1>3 DEF Behind
  <2>3. \A i \in 1 .. 2 : names[i] \in ChangeNames <=> i = 2 - 0
    BY DEF ChangeNames
  <2> HIDE DEF names
  <2>4. Len(names) > Behind
    BY <2>1, <2>2
  <2> QED
    BY <2>1, <2>2, <2>3, <2>4, LoneBegins
<1>4. CASE call.op = "upload"
  <2> DEFINE names == <<"put">>
  <2>1. names \in Seq(StepNames) /\ names # <<>> /\ Len(names) = 1 /\ Script = Each(names)
    BY <1>4 DEF StepNames, Script, FileScript, FileOps
  <2>2. Behind = 0 /\ call.op # "tag"
    BY <1>4 DEF Behind
  <2>3. \A i \in 1 .. 1 : names[i] \in ChangeNames <=> i = 1 - 0
    BY DEF ChangeNames
  <2> HIDE DEF names
  <2>4. Len(names) > Behind
    BY <2>1, <2>2
  <2> QED
    BY <2>1, <2>2, <2>3, <2>4, LoneBegins
<1>5. CASE call.op = "tag"
  <2> DEFINE names == <<"stat", "changeTag", "refresh">>
  <2>1. names \in Seq(StepNames) /\ names # <<>> /\ Len(names) = 3 /\ Script = Each(names)
    BY <1>5 DEF StepNames, Script, FileScript, FileOps
  <2>2. Behind = 1 /\ names[3] = "refresh"
    BY <1>5 DEF Behind
  <2>3. \A i \in 1 .. 3 : names[i] \in ChangeNames <=> i = 3 - 1
    BY DEF ChangeNames
  <2> HIDE DEF names
  <2>4. Len(names) > Behind
    BY <2>1, <2>2
  <2> QED
    BY <2>1, <2>2, <2>3, <2>4, LoneBegins
<1>6. CASE call.op = "property"
  <2> DEFINE names == <<"stat", "options", "proppatch">>
  <2>1. names \in Seq(StepNames) /\ names # <<>> /\ Len(names) = 3 /\ Script = Each(names)
    BY <1>6 DEF StepNames, Script, FileScript, FileOps
  <2>2. Behind = 0 /\ call.op # "tag"
    BY <1>6 DEF Behind
  <2>3. \A i \in 1 .. 3 : names[i] \in ChangeNames <=> i = 3 - 0
    BY DEF ChangeNames
  <2> HIDE DEF names
  <2>4. Len(names) > Behind
    BY <2>1, <2>2
  <2> QED
    BY <2>1, <2>2, <2>3, <2>4, LoneBegins
<1> QED
  BY <1>1, <1>2, <1>3, <1>4, <1>5, <1>6 DEF LoneOps

LEMMA StoriesBegin == ASSUME IInv, Begin PROVE Stories' /\ Witnessed'
<1>1. /\ todo' = Script /\ call' = call /\ carried' = <<>> /\ seen' = <<>>
      /\ outcome' = IF Script = <<>> THEN "done" ELSE "none"
      /\ was' = Present(tree) /\ tree' = tree
  BY DEF Begin, Run
<1>2. Witnessed'
  <2>1. DOMAIN seen' = {}
    BY <1>1
  <2>2. \A p \in Paths : ~Known(p)'
    BY <2>1 DEF Known
  <2> QED
    BY <1>1, <2>2 DEF Witnessed, Present
<1>3. MakeStory'
  <2> SUFFICES ASSUME call.op = "mkdir", ~call.parents PROVE MakeStory'
    BY <1>1 DEF MakeStory
  <2>1. Script = <<<<"make", call.path>>>>
    BY DEF Script, FileScript, FileOps
  <2>2. todo' = <<<<"make", call.path>>>> /\ outcome' = "none"
    BY <1>1, <2>1, HeadTail
  <2> QED
    BY <1>1, <2>2 DEF MakeStory, Clean
<1>4. ClimbStory'
  <2> SUFFICES ASSUME call.op = "mkdir", call.parents PROVE ClimbStory'
    BY <1>1 DEF ClimbStory
  <2> DEFINE s == ParentsScript(call.path)
             n == 3 * Len(call.path)
  <2>1. Script = s
    BY DEF Script, FileScript, FileOps
  <2>2. call.path \in Seq(STRING) /\ Len(call.path) \in Nat
    BY CallFacts, PathFacts DEF IInv, Running, FileOps
  <2>3. n \in Nat /\ (n = 0 => Len(call.path) = 0)
    BY <2>2
  <2>4. Len(s) = n /\ (s = <<>> => n = 0)
    <3>1. s = [i \in 1 .. n |-> s[i]]
      BY DEF ParentsScript
    <3> HIDE DEF s, n
    <3>2. Len(s) = n
      BY <2>3, <3>1
    <3> QED
      BY <3>2
  <2>5. call' = call /\ todo' = s
    BY <1>1, <2>1
  <2> HIDE DEF s
  <2>6. Climbed' = 0
    <3>1. Climbed' = n - n
      BY <2>4, <2>5 DEF Climbed
    <3> HIDE DEF n
    <3> QED
      BY <2>3, <3>1
  <2>7. \A i \in 1 .. Len(s) : s[i] = s[0 + i]
    OBVIOUS
  <2>8. \A i \in 1 .. Len(call.path) : ~(3 * i <= 0)
    BY <2>2
  <2>9. outcome' = "done" => Len(call.path) = 0
    BY <1>1, <2>1, <2>3, <2>4
  <2>10. outcome' = "done" => \A i \in 1 .. Len(call.path) : FALSE
    BY <2>9
  <2> QED
    BY <2>5, <2>6, <2>7, <2>8, <2>10 DEF ClimbStory, s
<1>5. TouchStory'
  <2> SUFFICES ASSUME call.op = "touch" PROVE TouchStory'
    BY <1>1 DEF TouchStory
  <2>1. Script = <<One("lookFile"), One("create"), One("check")>>
    BY DEF Script, FileScript, FileOps, Each
  <2>2. todo' = <<One("lookFile"), One("create"), One("check")>> /\ outcome' = "none"
    BY <1>1, <2>1, HeadTail
  <2> QED
    BY <2>2 DEF TouchStory
<1>6. WalkStory'
  BY <1>1 DEF WalkStory
<1> QED
  BY <1>2, <1>3, <1>4, <1>5, <1>6, LoneBegin DEF Stories

\* A status is reported: the next operation waits, or nothing has changed.
LEMMA StoriesReport ==
  ASSUME Stories, Witnessed, todo = <<>>, NEW status, Report(status)
  PROVE  Stories' /\ Witnessed'
<1>1. /\ todo' = <<>> /\ UNCHANGED <<seen, carried, unsure, tree, was>>
      /\ outcome' = "none" \/ UNCHANGED <<call, outcome>>
  BY DEF Report, files
<1>2. Witnessed'
  BY <1>1 DEF Witnessed, Known, Present
<1>3. CASE outcome' = "none"
  <2>1. LoneStory' /\ MakeStory'
    BY <1>1, <1>3 DEF LoneStory, MakeStory
  <2>2. ClimbStory' /\ TouchStory'
    BY <1>1, <1>3 DEF ClimbStory, TouchStory
  <2> QED
    BY <1>1, <1>2, <1>3, <2>1, <2>2 DEF Stories, WalkStory
<1>4. CASE UNCHANGED <<call, outcome>>
  <2>1. LoneStory'
    BY <1>1, <1>4 DEF Stories, LoneStory, Carried, Key, Clean
  <2>2. MakeStory' /\ WalkStory'
    BY <1>1, <1>4 DEF Stories, MakeStory, Clean, WalkStory
  <2>3. ClimbStory' /\ TouchStory'
    BY <1>1, <1>4 DEF Stories, ClimbStory, TouchStory
  <2> QED
    BY <1>2, <2>1, <2>2, <2>3 DEF Stories
<1> QED
  BY <1>1, <1>2, <1>3, <1>4

LEMMA HonestInit == ASSUME BatchInit PROVE HonestInv
<1>1. /\ todo = <<>> /\ outcome = "none" /\ seen = <<>> /\ carried = <<>> /\ runs = 0
      /\ results = <<>> /\ was = Present(tree)
  BY DEF BatchInit, RequestsInit, FileInit
<1>2. ~Busy /\ Len(results) = 0
  BY <1>1 DEF Busy
<1>3. Cardinality({n \in 1 .. Len(results) : results[n] \notin {"skipped", "planned"}}) = 0
  <2>1. {n \in 1 .. Len(results) : results[n] \notin {"skipped", "planned"}} = {}
    BY <1>2
  <2> QED
    BY <2>1, FS_EmptySet
<1>4. Counted
  <2>1. carried \in Seq(Steps)
    BY <1>1, EmptySeq
  <2>2. \A n \in 1 .. Len(results) : FALSE
    BY <1>2
  <2> QED
    BY <1>1, <1>2, <1>3, <2>1, <2>2 DEF Counted
<1>5. Witnessed
  <2>1. DOMAIN seen = {}
    BY <1>1
  <2> QED
    BY <1>1, <2>1 DEF Witnessed, Known
<1>6. Stories
  BY <1>1 DEF Stories, LoneStory, MakeStory, ClimbStory, TouchStory, WalkStory
<1> QED
  BY <1>4, <1>5, <1>6, InitInv DEF HonestInv

LEMMA HonestNext == ASSUME HonestInv, [BatchNext]_batchVars PROVE HonestInv'
<1>0. IInv /\ Counted /\ Witnessed /\ Stories /\ IInv'
  BY NextInv DEF HonestInv
<1>1. CASE Begin
  BY <1>0, <1>1, CountedBegin, StoriesBegin DEF HonestInv
<1>2. CASE Record
  <2>1. outcome \in Failed \cup {"done"} /\ Report(outcome) /\ Len(results) < Total
    BY <1>2 DEF Record
  <2>2. /\ outcome \in Statuses /\ outcome # "none" /\ outcome # "skipped" /\ outcome # "planned"
    BY <2>1 DEF Failed, Statuses
  <2>3. todo = <<>> /\ Busy /\ ~Stopped /\ ~batch.dry
    BY <1>0, <2>1, <2>2 DEF IInv, Running, Busy, Counted
  <2>4. Counted'
    BY <1>0, <2>1, <2>2, <2>3, CountedReport
  <2>5. Stories' /\ Witnessed'
    BY <1>0, <2>1, <2>3, StoriesReport
  <2> QED
    BY <1>0, <2>4, <2>5 DEF HonestInv
<1>3. CASE PassOver
  <2>1. todo = <<>> /\ outcome = "none" /\ Len(results) < Total /\ ~Busy
    BY <1>3 DEF PassOver, Waits, Busy
  <2>2. CASE Stopped /\ Report("skipped")
    <3>1. "skipped" \in Statuses
      BY DEF Statuses
    <3>2. Counted'
      BY <1>0, <2>1, <2>2, <3>1, CountedReport
    <3>3. Stories' /\ Witnessed'
      BY <1>0, <2>1, <2>2, StoriesReport
    <3> QED
      BY <1>0, <3>2, <3>3 DEF HonestInv
  <2>3. CASE ~Stopped /\ Report("planned")
    <3>1. "planned" \in Statuses
      BY DEF Statuses
    <3>2. Counted'
      BY <1>0, <2>1, <2>3, <3>1, CountedReport
    <3>3. Stories' /\ Witnessed'
      BY <1>0, <2>1, <2>3, StoriesReport
    <3> QED
      BY <1>0, <3>2, <3>3 DEF HonestInv
  <2> QED
    BY <1>3, <2>2, <2>3 DEF PassOver
<1>4. CASE Interrupt \/ Killed
  <2>1. todo # <<>> /\ todo' = <<>> /\ outcome' \in {"canceled", "died"}
        /\ UNCHANGED <<call, runs, seen, carried, tree, was, batch, results>>
    BY <1>4 DEF Interrupt, Killed, Fail, Die, files
  <2>2. Moves
    BY <2>1 DEF Moves, Carries, Learns
  <2>3. Counted'
    BY <1>0, <2>1, <2>2, CountedMoves
  <2>4. Witnessed'
    BY <1>0, <2>1 DEF Witnessed, Known, Present
  <2>5. WalkStory'
    BY <1>0, <2>1 DEF Stories, WalkStory
  <2>6. LoneStory' /\ MakeStory' /\ ClimbStory' /\ TouchStory'
    BY <2>1 DEF LoneStory, MakeStory, ClimbStory, TouchStory
  <2> QED
    BY <1>0, <2>3, <2>4, <2>5, <2>6 DEF HonestInv, Stories
<1>5. CASE Over \/ UNCHANGED batchVars
  <2>1. UNCHANGED <<control, tree, was, batch, results>>
    BY <1>5 DEF Over, batchVars, files
  <2>2. Counted'
    BY <1>0, <2>1, CountedSame DEF control
  <2>3. Witnessed'
    BY <1>0, <2>1 DEF control, Witnessed, Known, Present
  <2>4. LoneStory' /\ MakeStory'
    BY <1>0, <2>1 DEF control, Stories, LoneStory, MakeStory, Carried, Key, Clean, Behind
  <2>5. ClimbStory' /\ TouchStory' /\ WalkStory'
    BY <1>0, <2>1 DEF control, Stories, ClimbStory, Climbed, TouchStory, WalkStory
  <2> QED
    BY <1>0, <2>2, <2>3, <2>4, <2>5 DEF HonestInv, Stories
<1>6. ASSUME FileNext \/ WalkNext, UNCHANGED <<batch, results>> PROVE HonestInv'
  <2>1. Moves \/ Aside
    BY <1>0, <1>6, FileMoves, WalkMoves
  <2>2. WasKept
    <3>1. WalkNext => UNCHANGED <<tree, was>>
      BY DEF WalkNext, WalkRoot, ListDirectory, VisitEntry, PeekBelow, LookAtDestination,
             AskCapabilities, Select, VisitArchived, Fetch, Validate, Commit, OtherLocal, files
    <3> QED
      BY <1>6, <3>1, FileWas DEF WasKept
  <2>3. Witnessed'
    BY <1>0, <2>1, <2>2, WitnessedKept
  <2>4. Counted'
    <3>1. CASE Aside
      BY <1>0, <1>6, <3>1, CountedSame DEF Aside, control
    <3> QED
      BY <1>0, <1>6, <2>1, <3>1, CountedMoves
  <2>5. Stories'
    BY <1>0, <1>6, <2>3, StoriesNext
  <2> QED
    BY <1>0, <2>3, <2>4, <2>5 DEF HonestInv
<1> QED
  BY <1>1, <1>2, <1>3, <1>4, <1>5, <1>6 DEF BatchNext

LEMMA HonestInvariance == BatchSpec => []HonestInv
  BY HonestInit, HonestNext, PTL DEF BatchSpec

\* A status tells what its operation did: success that it found or made what it
\* promises, failure that it changed nothing unless an answer was lost; a batch stops
\* when it should, and each operation that was begun is counted once.
THEOREM StatusesAreHonest == BatchSpec => []BatchIsHonest
<1>1. ASSUME HonestInv PROVE BatchIsHonest
  <2>0. /\ Counted /\ LoneStory /\ MakeStory /\ ClimbStory /\ TouchStory /\ WalkStory
        /\ call.op \in FileOps \cup WalkOps \cup {"archive"}
        /\ todo # <<>> => outcome = "none"
    BY <1>1, CallFacts DEF HonestInv, Stories, IInv, Running
  <2>1. outcome = "done" => Promised
    <3> SUFFICES ASSUME outcome = "done" PROVE Promised
      OBVIOUS
    <3>1. CASE call.op \in LoneOps
      <4>1. Carried(Key)
        BY <2>0, <3>1 DEF LoneStory
      <4> QED
        BY <3>1, <4>1 DEF Promised, LoneOps, Key
    <3>2. CASE call.op = "mkdir"
      BY <2>0, <3>2 DEF Promised, MakeStory, ClimbStory
    <3>3. CASE call.op = "touch"
      BY <2>0, <3>3 DEF Promised, TouchStory
    <3>4. CASE call.op \in WalkOps \cup {"archive"}
      BY <3>4 DEF Promised, WalkOps
    <3> QED
      BY <2>0, <3>1, <3>2, <3>3, <3>4 DEF FileOps, LoneOps
  <2>2. ASSUME outcome = "failed", ~unsure, carried # <<>>
        PROVE  call.op = "touch" \/ (call.op = "mkdir" /\ call.parents)
    <3>1. ~Clean
      BY <2>2 DEF Clean
    <3>2. call.op \notin LoneOps
      BY <2>0, <2>2, <3>1 DEF LoneStory
    <3>3. ~(call.op = "mkdir" /\ ~call.parents)
      BY <2>0, <2>2, <3>1 DEF MakeStory
    <3>4. call.op \notin WalkOps \cup {"archive"}
      BY <2>0, <2>2 DEF WalkStory
    <3> QED
      BY <2>0, <3>2, <3>3, <3>4 DEF FileOps, LoneOps
  <2>3. \A status : StopsAfter(status) <=>
                      status = "canceled" \/ (status \in Failed /\ ~batch.continue)
    BY DEF StopsAfter, Failed
  <2>4. \A n \in 1 .. Len(results) :
          results[n] = "skipped" <=>
            \E m \in 1 .. n - 1 :
              results[m] = "canceled" \/ (results[m] \in Failed /\ ~batch.continue)
    BY <2>0, <2>3 DEF Counted
  <2>5. batch.dry => runs = 0 /\ carried = <<>>
    BY <2>0 DEF Counted
  <2>6. runs = Cardinality({n \in 1 .. Len(results) : results[n] \notin {"skipped", "planned"}})
                 + IF todo # <<>> \/ (outcome # "none" /\ Len(results) < Total) THEN 1 ELSE 0
    BY <2>0 DEF Counted, Busy
  <2> QED
    BY <2>1, <2>2, <2>4, <2>5, <2>6 DEF BatchIsHonest
<1> QED
  BY <1>1, HonestInvariance, PTL


-----------------------------------------------------------------------------
(* What tree and du show *)

\* What a step has still to find: a visit its path and all below, the others what
\* lies below theirs; the first one everything.
Cover(step) ==
  CASE step[1] = "root" -> Below(call.path)
    [] step[1] = "visit" -> Below(step[2])
    [] OTHER -> Below(step[2]) \ {step[2]}

WasThere(p) == \E c \in {"dir", "file"} : <<p, c>> \in was

\* Where the steps of a walk are: a directory above the greatest depth is listed, one
\* at it only looked into, and what is visited was there; the first step is alone.
Amid(step) ==
  \/ /\ step = <<"list", step[2]>>
     /\ step[2] \in Below(call.path) /\ Depth(step[2]) < call.maxDepth
  \/ /\ step = <<"peek", step[2]>> /\ call.op = "du"
     /\ step[2] \in Below(call.path) /\ Depth(step[2]) >= call.maxDepth
  \/ /\ step = <<"visit", step[2], step[3]>>
     /\ step[2] \in Paths /\ Within(step[2]) /\ WasThere(step[2])
     /\ edits = 0 => tree[step[2]] = step[3] /\ step[3] # "none"
Placed(step) ==
  \/ step = One("root") /\ Len(todo) = 1 /\ found = <<>> /\ step \notin DOMAIN seen
  \/ Amid(step)

\* What was shown: every path once, and none that is still to come.
Shown ==
  /\ found \in Seq(Paths \X (Contents \cup {"dir"}))
  /\ Cardinality(PathsOf(found)) = Len(found) /\ Len(found) <= call.maxEntries
  /\ \A p \in PathsOf(found) : Within(p) /\ WasThere(p) /\ (edits = 0 => ~Missing(p))
Apart ==
  /\ \A i, j \in 1 .. Len(todo) : i # j => Cover(todo[i]) \cap Cover(todo[j]) = {}
  /\ \A i \in 1 .. Len(todo) : Cover(todo[i]) \cap PathsOf(found) = {}

\* When nobody changes the tree, what is there is found, to come or too deep, and du
\* has noted that something is.
Accounted(p) ==
  \/ p \in PathsOf(found)
  \/ \E i \in 1 .. Len(todo) : p \in Cover(todo[i])
  \/ ~Within(p) /\ (call.op = "du" => deeper)
TooDeep == \E p \in Below(call.path) : ~Missing(p) /\ ~Within(p)
Complete ==
  edits = 0 =>
    /\ \A p \in Below(call.path) : ~Missing(p) => Accounted(p)
    /\ deeper => TooDeep

\* What holds while a walk goes on and when it is done.
Walking == (\A i \in 1 .. Len(todo) : Placed(todo[i])) /\ Shown /\ Apart /\ Complete
WalkTold == call.op \in WalkOps /\ (todo # <<>> \/ outcome = "done") => Walking

LEMMA WalkCall ==
  ASSUME call \in Operations, call.op \in WalkOps
  PROVE  call.path \in Paths /\ call.maxDepth \in Nat /\ call.maxEntries \in Nat \ {0}
<1>1. IsOperation(call)
  BY BatchAssumption
<1>2. call \in [op : WalkOps, path : Paths, maxDepth : Nat, maxEntries : Nat \ {0}]
  BY <1>1 DEF IsOperation, WalkOps
<1> QED
  BY <1>2

\* Every element of a finite set occurs once in its sequence.
LEMMA OnceEach ==
  ASSUME NEW S, IsFiniteSet(S)
  PROVE  /\ SetToSeq(S) \in Seq(S)
         /\ \A i, j \in 1 .. Len(SetToSeq(S)) : SetToSeq(S)[i] = SetToSeq(S)[j] => i = j
         /\ \A s \in S : \E i \in 1 .. Len(SetToSeq(S)) : SetToSeq(S)[i] = s
<1> DEFINE D == 1 .. Cardinality(S)
           f == SetToSeq(S)
<1>1. Cardinality(S) \in Nat /\ ExistsBijection(D, S)
  BY FS_CardinalityType
<1>2. \E g \in [D -> S] : IsInjective(g)
  BY <1>1 DEF ExistsBijection, Bijection, Injection
<1>3. f \in [D -> S] /\ IsInjective(f)
  BY <1>2 DEF SetToSeq
<1>4. IsFiniteSet(D) /\ Cardinality(D) = Cardinality(S)
  BY <1>1, FS_Interval
<1> HIDE DEF f
<1>5. f \in Seq(S) /\ Len(f) = Cardinality(S) /\ DOMAIN f = D
  BY <1>1, <1>3
<1>6. f \in Injection(D, S)
  BY <1>3 DEF Injection
<1>7. f \in Surjection(D, S)
  <2> HIDE DEF D
  <2> QED
    BY <1>4, <1>6, FS_Injection
<1>8. \A s \in S : \E i \in D : f[i] = s
  BY <1>7 DEF Surjection
<1>9. \A i, j \in D : f[i] = f[j] => i = j
  BY <1>3, <1>5 DEF IsInjective
<1> QED
  BY <1>5, <1>8, <1>9 DEF f

\* A directory's child lies below it, one name deeper, and apart from its siblings.
LEMMA ChildFacts ==
  ASSUME NEW p \in Paths, NEW q \in Children(p)
  PROVE  /\ q \in Paths /\ ~Missing(q) /\ Len(q) = Len(p) + 1
         /\ q \in Below(p) /\ q # p /\ Below(q) \subseteq Below(p) \ {p}
<1>1. q \in Paths /\ q # <<>> /\ Front(q) = p /\ ~Missing(q)
  BY DEF Children
<1>2. Len(p) = Len(q) - 1 /\ Len(q) \in Nat \ {0}
  BY <1>1, ParentFacts, PathFacts
<1>3. p \in Below(p) /\ q \in Below(p)
  <2>1. p \in Below(p)
    BY BelowMeans, PathFacts
  <2> QED
    BY <1>1, <2>1, ParentBelow
<1>4. ASSUME NEW r \in Below(q) PROVE r \in Below(p) /\ r # p
  <2>1. r \in Paths
    BY DEF Below
  <2>2. Len(r) \in Nat /\ Len(p) \in Nat
    BY <2>1, PathFacts
  <2>3. Len(q) <= Len(r) /\ \A i \in 1 .. Len(q) : r[i] = q[i]
    BY <1>1, <1>4, <2>1, BelowMeans
  <2>4. Len(p) <= Len(q) /\ \A i \in 1 .. Len(p) : q[i] = p[i]
    BY <1>1, <1>3, BelowMeans
  <2>5. \A i \in 1 .. Len(p) : r[i] = p[i]
    BY <1>2, <2>2, <2>3, <2>4
  <2>6. Len(p) <= Len(r) /\ Len(r) # Len(p)
    BY <1>2, <2>2, <2>3
  <2> QED
    BY <2>1, <2>5, <2>6, BelowMeans
<1> QED
  BY <1>1, <1>2, <1>3, <1>4

LEMMA ChildrenApart ==
  ASSUME NEW p \in Paths, NEW q \in Children(p), NEW r \in Children(p), q # r
  PROVE  Below(q) \cap Below(r) = {}
<1>1. /\ q \in Paths /\ r \in Paths /\ Len(q) = Len(r) /\ Len(q) \in Nat
  BY ChildFacts, PathFacts
<1>2. ASSUME NEW x \in Below(q) \cap Below(r) PROVE FALSE
  <2>1. x \in Paths
    BY DEF Below
  <2>2. r \in Below(q) \/ q \in Below(r)
    BY <1>1, <1>2, <2>1, AboveOne
  <2>3. \A i \in 1 .. Len(q) : r[i] = q[i]
    BY <1>1, <2>2, BelowMeans
  <2> QED
    BY <1>1, <2>3, SamePath
<1> QED
  BY <1>2

\* What lies below a path, lies below one of its children.
LEMMA ChildAbove ==
  ASSUME IsTree(tree), NEW p \in Paths, NEW q \in Below(p), q # p, ~Missing(q)
  PROVE  \E r \in Children(p) : q \in Below(r)
<1> DEFINE Between == {r \in Below(p) \ {p} : q \in Below(r) /\ ~Missing(r)}
           Lengths == {Len(r) : r \in Between}
<1>1. q \in Paths /\ Below(p) \subseteq Paths
  BY DEF Below
<1>2. q \in Below(q)
  BY <1>1, BelowMeans, PathFacts
<1>3. q \in Between
  BY <1>2
<1>4. Lengths \subseteq Nat /\ Lengths # {}
  BY <1>1, <1>3, PathFacts
<1> HIDE DEF Lengths
<1>5. PICK n \in Lengths : \A m \in Lengths : n <= m
  BY <1>4, Least
<1>6. PICK r \in Between : n = Len(r)
  BY <1>5 DEF Lengths
<1>7. /\ r \in Paths /\ r \in Below(p) /\ r # p /\ q \in Below(r) /\ ~Missing(r)
  BY <1>1, <1>6
<1>8. r # <<>>
  <2>1. Len(p) <= Len(r)
    BY <1>7, BelowMeans
  <2>2. Len(p) \in Nat /\ Len(r) \in Nat /\ (p # <<>> <=> Len(p) # 0) /\ (r # <<>> <=> Len(r) # 0)
    BY <1>7, PathFacts
  <2> QED
    BY <1>7, <2>1, <2>2
<1>9. /\ Front(r) \in Paths /\ Front(r) \in Below(p) /\ Len(Front(r)) = Len(r) - 1
      /\ Len(r) \in Nat
  BY <1>7, <1>8, ParentFacts, ParentBelow, PathFacts
<1>10. CASE Front(r) = p
  <2>1. r \in Children(p)
    BY <1>7, <1>8, <1>10 DEF Children
  <2> QED
    BY <1>7, <2>1
<1>11. CASE Front(r) # p
  <2>1. tree[Front(r)] = "dir"
    BY <1>7, <1>8 DEF IsTree, Missing
  <2>2. ~Missing(Front(r))
    BY <2>1 DEF Missing
  <2>3. q \in Below(Front(r))
    <3>1. /\ Len(r) <= Len(q) /\ \A i \in 1 .. Len(r) : q[i] = r[i]
      BY <1>1, <1>7, BelowMeans
    <3>2. \A i \in 1 .. Len(r) - 1 : Front(r)[i] = r[i]
      BY <1>7, <1>8, ParentFacts
    <3>3. Len(q) \in Nat
      BY <1>1, PathFacts
    <3>4. Len(Front(r)) <= Len(q) /\ \A i \in 1 .. Len(Front(r)) : q[i] = Front(r)[i]
      BY <1>9, <3>1, <3>2, <3>3
    <3> QED
      BY <1>1, <1>9, <3>4, BelowMeans
  <2>4. Len(Front(r)) \in Lengths
    BY <1>9, <1>11, <2>2, <2>3 DEF Lengths
  <2>5. Len(r) <= Len(r) - 1
    BY <1>5, <1>6, <1>9, <2>4
  <2> QED
    BY <1>9, <2>5
<1> QED
  BY <1>10, <1>11

\* A file has nothing below it.
LEMMA FileAlone ==
  ASSUME IsTree(tree), NEW p \in Paths, ~IsDir(p), NEW q \in Below(p), q # p
  PROVE  Missing(q)
<1> SUFFICES ASSUME ~Missing(q) PROVE FALSE
  OBVIOUS
<1>1. PICK r \in Children(p) : q \in Below(r)
  BY ChildAbove
<1>2. r \in Paths /\ r # <<>> /\ Front(r) = p /\ ~Missing(r)
  BY <1>1 DEF Children
<1> QED
  BY <1>2 DEF IsTree, Missing, IsDir


\* What a step makes way for: steps that cover what it covered and do not overlap,
\* but for what is shown, missing or too deep.
Gives(more) ==
  /\ PathsOf(found) \subseteq PathsOf(found')
  /\ PathsOf(found') \subseteq PathsOf(found) \cup Cover(todo[1])
  /\ \A k \in 1 .. Len(more) :
       /\ Amid(more[k])
       /\ Cover(more[k]) \subseteq Cover(todo[1]) /\ Cover(more[k]) \cap PathsOf(found') = {}
  /\ \A k, l \in 1 .. Len(more) : k # l => Cover(more[k]) \cap Cover(more[l]) = {}
  /\ edits = 0 =>
       /\ \A p \in Cover(todo[1]) :
            ~Missing(p) => \/ p \in PathsOf(found')
                           \/ \E k \in 1 .. Len(more) : p \in Cover(more[k])
                           \/ ~Within(p) /\ (call.op = "du" => deeper')
       /\ deeper => deeper'
       /\ deeper' => TooDeep

LEMMA Replaced ==
  ASSUME Walking, call.op \in WalkOps, todo \in Seq(Steps), todo # <<>>,
         NEW more \in Seq(Steps), todo' = more \o Tail(todo),
         UNCHANGED <<call, tree, was, edits>>, Shown', Gives(more)
  PROVE  Walking'
<1> USE DEF Gives
<1> DEFINE L == Len(more)
           At2(i) == i - L + 1
<1>1. /\ Len(todo) \in Nat \ {0} /\ 1 \in 1 .. Len(todo) /\ L \in Nat
      /\ todo' \in Seq(Steps) /\ Len(todo') \in Nat
  <2>1. todo' \in Seq(Steps)
    BY Spliced
  <2> QED
    BY <2>1, RestFacts
<1>2. \A i \in 1 .. Len(todo') :
        \/ i \in 1 .. L /\ todo'[i] = more[i]
        \/ i > L /\ At2(i) \in 2 .. Len(todo) /\ todo'[i] = todo[At2(i)]
  BY Spliced
<1>3. /\ \A k \in 1 .. L : k \in 1 .. Len(todo') /\ todo'[k] = more[k]
      /\ \A j \in 2 .. Len(todo) : \E i \in 1 .. Len(todo') : todo'[i] = todo[j]
  <2>1. \A k \in 1 .. L : k \in 1 .. Len(todo') /\ todo'[k] = more[k]
    BY Spliced
  <2>2. \A j \in 2 .. Len(todo) : L + (j - 1) \in 1 .. Len(todo') /\ todo'[L + (j - 1)] = todo[j]
    BY Spliced
  <2> QED
    BY <2>1, <2>2
<1>4. \A j \in 2 .. Len(todo) : j \in 1 .. Len(todo) /\ j # 1
  BY <1>1
<1>5. \A step : Cover(step)' = Cover(step)
  BY DEF Cover
<1>6. \A i \in 1 .. Len(todo') : Amid(todo'[i])
  <2>1. ASSUME NEW j \in 2 .. Len(todo) PROVE Amid(todo[j])
    <3>1. Len(todo) # 1
      BY <1>1
    <3> QED
      BY <1>4, <3>1 DEF Walking, Placed
  <2> QED
    BY <1>2, <2>1
<1>7. (\A i \in 1 .. Len(todo) : Placed(todo[i]))'
  BY <1>6 DEF Placed, Amid, Depth, Within, WasThere
<1>8. ASSUME NEW i \in 1 .. Len(todo'), NEW j \in 1 .. Len(todo'), i # j
      PROVE  Cover(todo'[i]) \cap Cover(todo'[j]) = {}
  <2>1. \A k \in 1 .. L, n \in 2 .. Len(todo) : Cover(more[k]) \cap Cover(todo[n]) = {}
    <3>1. \A n \in 2 .. Len(todo) : Cover(todo[1]) \cap Cover(todo[n]) = {}
      BY <1>1, <1>4 DEF Walking, Apart
    <3> QED
      BY <3>1
  <2>2. i > L /\ j > L => At2(i) # At2(j)
    BY <1>1, <1>8
  <2>3. \A m, n \in 2 .. Len(todo) : m # n => Cover(todo[m]) \cap Cover(todo[n]) = {}
    BY <1>4 DEF Walking, Apart
  <2>4. CASE i \in 1 .. L /\ todo'[i] = more[i]
    BY <1>2, <1>8, <2>1, <2>4
  <2>5. CASE i > L /\ At2(i) \in 2 .. Len(todo) /\ todo'[i] = todo[At2(i)]
    <3>1. CASE j \in 1 .. L /\ todo'[j] = more[j]
      BY <2>1, <2>5, <3>1
    <3>2. CASE j > L /\ At2(j) \in 2 .. Len(todo) /\ todo'[j] = todo[At2(j)]
      BY <2>2, <2>3, <2>5, <3>2
    <3> QED
      BY <1>2, <3>1, <3>2
  <2> QED
    BY <1>2, <2>4, <2>5
<1>9. ASSUME NEW i \in 1 .. Len(todo')
      PROVE  Cover(todo'[i]) \cap PathsOf(found') = {}
  <2>1. \A n \in 2 .. Len(todo) : Cover(todo[n]) \cap PathsOf(found') = {}
    <3>1. \A n \in 2 .. Len(todo) : /\ Cover(todo[1]) \cap Cover(todo[n]) = {}
                                    /\ Cover(todo[n]) \cap PathsOf(found) = {}
      BY <1>1, <1>4 DEF Walking, Apart
    <3> QED
      BY <3>1
  <2> QED
    BY <1>2, <2>1
<1>10. Apart'
  BY <1>5, <1>8, <1>9 DEF Apart, PathsOf
<1>11. ASSUME edits = 0 PROVE Complete'
  <2>1. ASSUME NEW p \in Below(call.path), ~Missing(p)
        PROVE  \/ p \in PathsOf(found')
               \/ \E i \in 1 .. Len(todo') : p \in Cover(todo'[i])
               \/ ~Within(p) /\ (call.op = "du" => deeper')
    <3>1. Accounted(p)
      BY <1>11, <2>1 DEF Walking, Complete
    <3>2. CASE p \in PathsOf(found)
      BY <3>2
    <3>3. CASE \E i \in 1 .. Len(todo) : p \in Cover(todo[i])
      <4>1. PICK n \in 1 .. Len(todo) : p \in Cover(todo[n])
        BY <3>3
      <4>2. CASE n = 1
        <5>1. \A k \in 1 .. L : p \in Cover(more[k]) => p \in Cover(todo'[k])
          BY <1>3
        <5> QED
          BY <1>3, <1>11, <2>1, <4>1, <4>2, <5>1
      <4>3. CASE n # 1
        <5>1. n \in 2 .. Len(todo)
          BY <1>1, <4>3
        <5> QED
          BY <1>3, <4>1, <5>1
      <4> QED
        BY <4>2, <4>3
    <3>4. CASE ~Within(p) /\ (call.op = "du" => deeper)
      BY <1>11, <3>4
    <3> QED
      BY <3>1, <3>2, <3>3, <3>4 DEF Accounted
  <2>2. \A p \in Below(call.path) : ~Missing(p) => Accounted(p)'
    BY <1>5, <2>1 DEF Accounted, PathsOf, Within, Depth
  <2>3. deeper' => TooDeep'
    BY <1>11 DEF TooDeep, Missing, Within, Depth
  <2> QED
    BY <2>2, <2>3 DEF Complete, Missing
<1>12. Complete'
  BY <1>11 DEF Complete
<1> QED
  BY <1>7, <1>10, <1>12 DEF Walking


LEMMA BelowChain ==
  ASSUME NEW p \in Paths, NEW q \in Below(p), NEW r \in Below(q)
  PROVE  r \in Below(p) /\ Len(p) <= Len(q)
<1>1. /\ q \in Paths /\ r \in Paths /\ Len(p) \in Nat /\ Len(q) \in Nat /\ Len(r) \in Nat
  BY PathFacts DEF Below
<1>2. Len(p) <= Len(q) /\ \A i \in 1 .. Len(p) : q[i] = p[i]
  BY <1>1, BelowMeans
<1>3. Len(q) <= Len(r) /\ \A i \in 1 .. Len(q) : r[i] = q[i]
  BY <1>1, BelowMeans
<1>4. \A i \in 1 .. Len(p) : r[i] = p[i]
  BY <1>1, <1>2, <1>3
<1> QED
  BY <1>1, <1>2, <1>3, <1>4, BelowMeans

\* Whatever lies below a path, lies deeper.
LEMMA DeeperBelow ==
  ASSUME NEW p \in Paths, NEW q \in Below(p), q # p
  PROVE  Len(p) < Len(q) /\ Len(p) \in Nat /\ Len(q) \in Nat
<1>1. q \in Paths /\ Len(p) \in Nat /\ Len(q) \in Nat
  BY PathFacts DEF Below
<1>2. Len(p) <= Len(q) /\ \A i \in 1 .. Len(p) : q[i] = p[i]
  BY <1>1, BelowMeans
<1>3. Len(p) # Len(q)
  BY <1>1, <1>2, SamePath
<1> QED
  BY <1>1, <1>2, <1>3

\* Nothing moves on, while others may change the tree.
LEMMA StaysWalking ==
  ASSUME Walking, UNCHANGED <<call, todo, seen, found>>, was \subseteq was',
         edits' # 0 \/ UNCHANGED <<tree, edits>>,
         edits' = 0 => (deeper => deeper') /\ (deeper' => TooDeep)
  PROVE  Walking'
<1>1. edits' = 0 => edits = 0 /\ tree' = tree
  OBVIOUS
<1>2. (\A i \in 1 .. Len(todo) : Placed(todo[i]))'
  <2>1. \A p : Within(p)' = Within(p) /\ Depth(p)' = Depth(p) /\ (WasThere(p) => WasThere(p)')
    BY DEF Within, Depth, WasThere
  <2>2. \A step : Amid(step) => Amid(step)'
    BY <1>1, <2>1 DEF Amid
  <2>3. \A i \in 1 .. Len(todo) : Placed(todo[i])
    BY DEF Walking
  <2> QED
    BY <2>2, <2>3 DEF Placed
<1>3. Shown'
  BY <1>1 DEF Walking, Shown, PathsOf, Within, Depth, WasThere, Missing
<1>6. \A step : Cover(step)' = Cover(step)
  BY DEF Cover
<1>7. Apart /\ PathsOf(found)' = PathsOf(found)
  BY DEF Walking, PathsOf
<1>4. Apart'
  <2>1. /\ \A i, j \in 1 .. Len(todo) : i # j => Cover(todo'[i]) \cap Cover(todo'[j]) = {}
        /\ \A i \in 1 .. Len(todo) : Cover(todo'[i]) \cap PathsOf(found) = {}
    BY <1>7 DEF Apart
  <2> QED
    BY <1>6, <1>7, <2>1 DEF Apart
<1>5. ASSUME edits' = 0 PROVE Complete'
  <2>1. /\ \A p \in Below(call.path) : ~Missing(p) => Accounted(p)
        /\ \A p : Missing(p)' = Missing(p)
        /\ TooDeep' = TooDeep
    BY <1>1, <1>5 DEF Walking, Complete, Missing, TooDeep, Within, Depth
  <2>2. ASSUME NEW p \in Below(call.path), ~Missing(p) PROVE Accounted(p)'
    BY <1>5, <2>1, <2>2 DEF Accounted, Cover, Within, Depth, PathsOf
  <2> QED
    BY <1>5, <2>1, <2>2 DEF Complete
<1> QED
  BY <1>2, <1>3, <1>4, <1>5 DEF Walking, Complete

\* One entry more is shown.
LEMMA Enters ==
  ASSUME Shown, NEW p \in Paths, NEW c \in Contents \cup {"dir"},
         found' = Append(found, <<p, c>>), p \notin PathsOf(found), Within(p), WasThere(p),
         edits = 0 => ~Missing(p), call.maxEntries \in Nat, Len(found) < call.maxEntries,
         UNCHANGED <<call, tree, was, edits>>
  PROVE  Shown' /\ PathsOf(found') = PathsOf(found) \cup {p}
<1> DEFINE E == Paths \X (Contents \cup {"dir"})
           F == PathsOf(found)
           n == Len(found)
<1>1. /\ found \in Seq(E) /\ n \in Nat /\ found' \in Seq(E) /\ Len(found') = n + 1
      /\ \A i \in 1 .. n : found'[i] = found[i]
      /\ found'[n + 1] = <<p, c>>
  BY DEF Shown
<1>2. PathsOf(found') = F \cup {p}
  <2>1. \A i : i \in 1 .. n + 1 <=> i \in 1 .. n \/ i = n + 1
    BY <1>1
  <2>2. found'[n + 1][1] = p
    BY <1>1
  <2> HIDE DEF n, E
  <2> QED
    BY <1>1, <2>1, <2>2 DEF PathsOf, n
<1>3. IsFiniteSet(F)
  <2>1. F \subseteq Paths /\ IsFiniteSet(Paths)
    BY FileCommandsAssumption DEF Shown, Within, Below
  <2> QED
    BY <2>1, FS_Subset
<1>4. Cardinality(F) = n
  BY DEF Shown
<1>5. Cardinality(F \cup {p}) = n + 1
  <2> HIDE DEF F, n
  <2> QED
    BY <1>3, <1>4, FS_AddElement DEF F
<1>6. \A q \in F \cup {p} : Within(q) /\ WasThere(q) /\ (edits = 0 => ~Missing(q))
  BY DEF Shown
<1>7. \A q \in F \cup {p} : Within(q)' /\ WasThere(q)' /\ (edits' = 0 => ~Missing(q)')
  BY <1>6 DEF Within, Depth, WasThere, Missing
<1>8. Len(found') <= call'.maxEntries
  <2> HIDE DEF n
  <2> QED
    BY <1>1 DEF n
<1>9. Cardinality(PathsOf(found')) = Len(found')
  BY <1>1, <1>2, <1>5
<1> QED
  BY <1>1, <1>2, <1>7, <1>8, <1>9 DEF Shown, PathsOf


\* What is shown takes the place of its visit, and what lies below it is still to come.
LEMMA Opens ==
  ASSUME Walking, call \in Operations, call.op \in WalkOps, IsTree(tree),
         todo \in Seq(Steps), todo # <<>>,
         NEW p \in Paths, NEW c \in Contents \cup {"dir"}, NEW more,
         more = CASE c # "dir" -> <<>>
                  [] c = "dir" /\ Depth(p) < call.maxDepth -> List(p)
                  [] OTHER -> IF call.op = "du" THEN Peek(p) ELSE <<>>,
         Within(p), WasThere(p), edits = 0 => tree[p] = c, Cover(todo[1]) = Below(p),
         Len(found) < call.maxEntries,
         todo' = more \o Tail(todo), found' = Append(found, <<p, c>>),
         UNCHANGED <<call, tree, was, edits, deeper>>
  PROVE  Walking'
<1> DEFINE left == Below(p) \ {p}
<1>0. /\ call.path \in Paths /\ call.maxDepth \in Nat /\ call.maxEntries \in Nat \ {0}
      /\ Shown /\ Apart /\ Complete /\ 1 \in 1 .. Len(todo)
  BY WalkCall, RestFacts DEF Walking
<1>1. p \in Below(p) /\ Len(p) \in Nat /\ Len(call.path) \in Nat
  BY <1>0, BelowMeans, PathFacts
<1>2. p \notin PathsOf(found)
  BY <1>0, <1>1 DEF Apart
<1>3. edits = 0 => ~Missing(p) /\ (IsDir(p) <=> c = "dir")
  BY FileCommandsAssumption DEF Missing, IsDir
<1>4. Shown' /\ PathsOf(found') = PathsOf(found) \cup {p}
  BY <1>0, <1>2, <1>3, Enters
<1>5. "list" \in NamesOf(call.op) /\ "peek" \in NamesOf(call.op)
  BY Walkers
<1>6. List(p) \in Seq(Steps) /\ Peek(p) \in Seq(Steps) /\ <<>> \in Seq(Steps)
  BY <1>5, CallsFor, NothingCallable DEF Callable
<1>7. /\ Len(List(p)) = 1 /\ List(p)[1] = <<"list", p>>
      /\ Len(Peek(p)) = 1 /\ Peek(p)[1] = <<"peek", p>> /\ Len(<<>>) = 0
  BY DEF List, Peek
<1>8. Cover(<<"list", p>>) = left /\ Cover(<<"peek", p>>) = left
  BY DEF Cover
<1>9. \/ more = <<>> /\ (c = "dir" => call.op # "du" /\ ~(Depth(p) < call.maxDepth))
      \/ more = List(p) /\ Depth(p) < call.maxDepth
      \/ more = Peek(p) /\ call.op = "du" /\ ~(Depth(p) < call.maxDepth)
  <2> HIDE DEF left
  <2> QED
    BY DEF Within
<1>10. ~(Depth(p) < call.maxDepth) => Depth(p) >= call.maxDepth
  BY <1>0, <1>1 DEF Depth
<1>11. p \in Below(call.path)
  BY DEF Within
<1>12. /\ more \in Seq(Steps) /\ Len(more) \in {0, 1}
       /\ \A k \in 1 .. Len(more) : k = 1 /\ Amid(more[k]) /\ Cover(more[k]) = left
  <2>1. CASE more = <<>>
    BY <1>6, <1>7, <2>1
  <2>2. CASE more = List(p) /\ Depth(p) < call.maxDepth
    <3>1. Amid(<<"list", p>>)
      BY <1>11, <2>2 DEF Amid
    <3>2. more \in Seq(Steps) /\ Len(more) = 1 /\ more[1] = <<"list", p>>
      BY <1>6, <1>7, <2>2
    <3>3. \A k \in 1 .. Len(more) : k = 1
      BY <3>2
    <3> QED
      BY <1>8, <3>1, <3>2, <3>3
  <2>3. CASE more = Peek(p) /\ call.op = "du" /\ ~(Depth(p) < call.maxDepth)
    <3>1. Amid(<<"peek", p>>)
      BY <1>10, <1>11, <2>3 DEF Amid
    <3>2. more \in Seq(Steps) /\ Len(more) = 1 /\ more[1] = <<"peek", p>>
      BY <1>6, <1>7, <2>3
    <3>3. \A k \in 1 .. Len(more) : k = 1
      BY <3>2
    <3> QED
      BY <1>8, <3>1, <3>2, <3>3
  <2> QED
    BY <1>9, <2>1, <2>2, <2>3
<1>13. ASSUME edits = 0, NEW q \in Below(p), ~Missing(q)
       PROVE  \/ q \in PathsOf(found')
              \/ \E k \in 1 .. Len(more) : q \in Cover(more[k])
              \/ ~Within(q) /\ (call.op = "du" => deeper')
  <2>1. CASE q = p
    BY <1>4, <2>1
  <2>2. CASE q # p
    <3>1. c = "dir"
      BY <1>3, <1>13, <2>2, FileAlone
    <3>2. CASE more = <<>>
      <4>1. call.op # "du" /\ Depth(p) >= call.maxDepth
        <5>1. Len(List(p)) # Len(<<>>) /\ Len(Peek(p)) # Len(<<>>)
          BY <1>7
        <5> QED
          BY <1>9, <1>10, <3>1, <3>2, <5>1
      <4>2. Len(p) < Len(q) /\ Len(q) \in Nat
        BY <2>2, DeeperBelow
      <4>3. ~(Depth(q) <= call.maxDepth)
        BY <1>0, <1>1, <4>1, <4>2 DEF Depth
      <4> QED
        BY <4>1, <4>3 DEF Within
    <3>3. CASE more # <<>>
      <4>1. 1 \in 1 .. Len(more)
        BY <1>12, <3>3
      <4> QED
        BY <1>12, <2>2, <4>1
    <3> QED
      BY <3>2, <3>3
  <2> QED
    BY <2>1, <2>2
<1>14. \A k \in 1 .. Len(more) : /\ Amid(more[k]) /\ Cover(more[k]) \subseteq Cover(todo[1])
                                 /\ Cover(more[k]) \cap PathsOf(found') = {}
  <2>1. left \cap PathsOf(found) = {} /\ left \subseteq Cover(todo[1]) /\ p \notin left
    BY <1>0 DEF Apart
  <2> HIDE DEF left
  <2> QED
    BY <1>4, <1>12, <2>1
<1>15. \A k, l \in 1 .. Len(more) : k # l => Cover(more[k]) \cap Cover(more[l]) = {}
  BY <1>12
<1>16. edits = 0 => (deeper => deeper') /\ (deeper' => TooDeep)
  BY <1>0 DEF Complete
<1>17. /\ PathsOf(found) \subseteq PathsOf(found')
       /\ PathsOf(found') \subseteq PathsOf(found) \cup Cover(todo[1])
  BY <1>1, <1>4
<1> HIDE DEF left
<1>18. edits = 0 =>
         /\ \A q \in Cover(todo[1]) :
              ~Missing(q) => \/ q \in PathsOf(found')
                             \/ \E k \in 1 .. Len(more) : q \in Cover(more[k])
                             \/ ~Within(q) /\ (call.op = "du" => deeper')
         /\ deeper => deeper'
         /\ deeper' => TooDeep
  BY <1>13, <1>16
<1>19. more \in Seq(Steps) /\ Shown' /\ UNCHANGED <<call, tree, was, edits>>
  BY <1>4, <1>12
<1>20. Gives(more)
  BY <1>14, <1>15, <1>17, <1>18 DEF Gives
<1> QED
  BY <1>19, <1>20, Replaced


\* What a request that only reads may come to.
LEMMA Asked ==
  ASSUME NEW step, NEW able, NEW answer, NEW more, AskThen(step, able, answer, more, "failed")
  PROVE  /\ At(step) /\ call' = call
         /\ \/ able /\ todo' = more \o Tail(todo) /\ Learn(step, answer)
            \/ todo' = <<>> /\ outcome' = "failed" /\ seen' = seen
            \/ todo' = todo /\ seen' = seen
<1>1. CASE able /\ Answered(step, answer, more) /\ UNCHANGED carried
  BY <1>1 DEF AskThen, Answered, Continue
<1>2. CASE ~able /\ Refused("failed")
  BY <1>2 DEF AskThen, Refused, Fail
<1>3. CASE Again("failed") /\ UNCHANGED <<carried, unsure>>
  BY <1>3 DEF AskThen, Again, Fail
<1> QED
  BY <1>1, <1>2, <1>3 DEF AskThen

LEMMA LearnsIt == ASSUME NEW step, NEW answer, Learn(step, answer) PROVE step \in DOMAIN seen'
  BY DEF Learn

\* The step a walk is at.
LEMMA WalksAt ==
  ASSUME IInv, call.op \in WalkOps, WalkTold, NEW step, At(step)
  PROVE  /\ step[1] \in {"root", "list", "peek", "visit"}
         /\ Walking /\ Placed(step) /\ todo # <<>> /\ todo[1] = step /\ 1 \in 1 .. Len(todo)
         /\ call \in Operations /\ todo \in Seq(Steps) /\ IsTree(tree) /\ edits \in Nat
         /\ outcome = "none"
<1>1. /\ todo # <<>> /\ todo[1] = step /\ 1 \in 1 .. Len(todo) /\ step[1] \in NamesOf(call.op)
  BY HeadOf
<1>2. call.op \in {"tree", "du"}
  BY DEF WalkOps
<1>3. NamesOf(call.op) = {"root", "list", "peek", "visit"}
  BY <1>2 DEF NamesOf, WalkOps
<1> QED
  BY <1>1, <1>3 DEF WalkTold, Walking, IInv, Running, OwnSteps

\* Nothing is told of a walk that has failed.
LEMMA FailedWalk == ASSUME todo' = <<>>, outcome' = "failed" PROVE WalkTold'
  BY DEF WalkTold

LEMMA RootKeeps ==
  ASSUME IInv, Witnessed, WalkTold, call.op \in WalkOps, WalkRoot
  PROVE  WalkTold'
<1> DEFINE what == tree[call.path]
           more == CASE what # "dir" -> <<>>
                     [] what = "dir" /\ call.maxDepth > 0 -> List(call.path)
                     [] OTHER -> IF call.op = "du" THEN Peek(call.path) ELSE <<>>
<1>1. /\ AskThen(One("root"), what # "none", what, more, "failed")
      /\ found' = IF One("root") \in DOMAIN seen' THEN <<<<call.path, what>>>> ELSE found
      /\ UNCHANGED <<deeper, tree, was, edits>>
  BY DEF WalkRoot, files
<1>2. /\ call.path \in Paths /\ call.maxDepth \in Nat /\ call.maxEntries \in Nat \ {0}
      /\ Len(call.path) \in Nat
  BY WalkCall, PathFacts DEF IInv, Running
<1> HIDE DEF more
<1>3. /\ At(One("root")) /\ call' = call
      /\ \/ what # "none" /\ todo' = more \o Tail(todo) /\ Learn(One("root"), what)
         \/ todo' = <<>> /\ outcome' = "failed" /\ seen' = seen
         \/ todo' = todo /\ seen' = seen
  <2> HIDE DEF what
  <2> QED
    BY <1>1, Asked
<1>4. /\ Walking /\ Placed(One("root")) /\ todo # <<>> /\ todo[1] = One("root")
      /\ call \in Operations /\ todo \in Seq(Steps) /\ IsTree(tree)
  BY <1>3, WalksAt
<1>5. One("root")[1] = "root"
  BY DEF One
<1>6. found = <<>> /\ One("root") \notin DOMAIN seen
  BY <1>4, <1>5 DEF Placed, Amid
<1>7. CASE what # "none" /\ todo' = more \o Tail(todo) /\ Learn(One("root"), what)
  <2>1. found' = Append(found, <<call.path, what>>)
    BY <1>1, <1>6, <1>7, LearnsIt
  <2>2. call.path \in Below(call.path) /\ Depth(call.path) = 0
    BY <1>2, BelowMeans DEF Depth
  <2>3. Within(call.path)
    BY <1>2, <2>2 DEF Within
  <2>4. WasThere(call.path)
    BY <1>2, <1>7, Seen DEF WasThere, Missing
  <2>5. what \in Contents \cup {"dir"}
    BY <1>2, <1>4, <1>7 DEF IsTree
  <2>6. Cover(todo[1]) = Below(call.path)
    BY <1>4, <1>5 DEF Cover
  <2>7. Len(found) < call.maxEntries
    BY <1>2, <1>6
  <2>8. more = CASE what # "dir" -> <<>>
                 [] what = "dir" /\ Depth(call.path) < call.maxDepth -> List(call.path)
                 [] OTHER -> IF call.op = "du" THEN Peek(call.path) ELSE <<>>
    <3>1. call.maxDepth > 0 <=> Depth(call.path) < call.maxDepth
      BY <1>2, <2>2
    <3> HIDE DEF what
    <3> QED
      BY <3>1 DEF more
  <2>9. edits = 0 => tree[call.path] = what
    OBVIOUS
  <2> HIDE DEF what
  <2>10. Walking'
    BY <1>1, <1>2, <1>3, <1>4, <1>7, <2>1, <2>3, <2>4, <2>5, <2>6, <2>7, <2>8, <2>9, Opens
  <2> QED
    BY <2>10 DEF WalkTold
<1>8. CASE todo' = <<>> /\ outcome' = "failed"
  BY <1>8, FailedWalk
<1>9. CASE todo' = todo /\ seen' = seen
  <2>1. found' = found
    BY <1>1, <1>6, <1>9
  <2>2. edits' = 0 => (deeper => deeper') /\ (deeper' => TooDeep)
    BY <1>1, <1>4 DEF Walking, Complete
  <2>3. Walking'
    BY <1>1, <1>3, <1>4, <1>9, <2>1, <2>2, StaysWalking
  <2> QED
    BY <2>3 DEF WalkTold
<1> QED
  BY <1>3, <1>7, <1>8, <1>9

\* The visits of a directory's children, one for each.
LEMMA VisitsFacts ==
  ASSUME IsTree(tree), NEW p \in Paths
  PROVE  /\ \A k \in 1 .. Len(Visits(p)) : \E q \in Children(p) : Visits(p)[k] = <<"visit", q, tree[q]>>
         /\ \A k, l \in 1 .. Len(Visits(p)) : Visits(p)[k] = Visits(p)[l] => k = l
         /\ \A q \in Children(p) : \E k \in 1 .. Len(Visits(p)) : Visits(p)[k] = <<"visit", q, tree[q]>>
<1> DEFINE V == {<<"visit", q, tree[q]>> : q \in Children(p)}
           f == [q \in Children(p) |-> <<"visit", q, tree[q]>>]
<1>1. Children(p) \subseteq Paths /\ IsFiniteSet(Paths)
  BY FileCommandsAssumption DEF Children
<1>2. IsFiniteSet(Children(p))
  BY <1>1, FS_Subset
<1>3. f \in Surjection(Children(p), V)
  BY DEF Surjection
<1>4. IsFiniteSet(V)
  <2> HIDE DEF V, f
  <2> QED
    BY <1>2, <1>3, FS_Surjection
<1>5. Visits(p) = SetToSeq(V)
  BY DEF Visits
<1>6. /\ \A v \in V : \E q \in Children(p) : v = <<"visit", q, tree[q]>>
      /\ \A q \in Children(p) : <<"visit", q, tree[q]>> \in V
  OBVIOUS
<1> HIDE DEF V
<1>7. /\ Visits(p) \in Seq(V)
      /\ \A k, l \in 1 .. Len(Visits(p)) : Visits(p)[k] = Visits(p)[l] => k = l
      /\ \A v \in V : \E k \in 1 .. Len(Visits(p)) : Visits(p)[k] = v
  BY <1>4, <1>5, OnceEach
<1>8. \A k \in 1 .. Len(Visits(p)) : Visits(p)[k] \in V
  BY <1>7
<1> QED
  BY <1>6, <1>7, <1>8


LEMMA ListKeeps ==
  ASSUME IInv, Witnessed, WalkTold, call.op \in WalkOps, ListDirectory
  PROVE  WalkTold'
<1>1. PICK p \in Paths : AskThen(<<"list", p>>, ~Missing(p), 0, Visits(p), "failed")
  BY DEF ListDirectory
<1>2. UNCHANGED <<found, deeper, tree, was, edits>>
  BY DEF ListDirectory, walked, files
<1>3. PICK more : more = Visits(p)
  OBVIOUS
<1>4. /\ At(<<"list", p>>) /\ call' = call
      /\ \/ ~Missing(p) /\ todo' = more \o Tail(todo)
         \/ todo' = <<>> /\ outcome' = "failed"
         \/ todo' = todo /\ seen' = seen
  BY <1>1, <1>3, Asked
<1>5. /\ Walking /\ Placed(<<"list", p>>) /\ todo # <<>> /\ todo[1] = <<"list", p>>
      /\ call \in Operations /\ todo \in Seq(Steps) /\ IsTree(tree) /\ 1 \in 1 .. Len(todo)
  BY <1>4, WalksAt
<1>6. /\ call.path \in Paths /\ call.maxDepth \in Nat /\ Len(call.path) \in Nat /\ Len(p) \in Nat
      /\ Shown /\ Apart /\ Complete
  BY <1>5, WalkCall, PathFacts DEF Walking
<1>7. p \in Below(call.path) /\ Depth(p) < call.maxDepth
  BY <1>5 DEF Placed, Amid, One
<1>8. Cover(todo[1]) = Below(p) \ {p}
  BY <1>5 DEF Cover
<1>9. edits = 0 => (deeper => deeper') /\ (deeper' => TooDeep)
  BY <1>2, <1>6 DEF Complete
<1>10. CASE ~Missing(p) /\ todo' = more \o Tail(todo)
  <2>1. /\ \A k \in 1 .. Len(more) : \E q \in Children(p) : more[k] = <<"visit", q, tree[q]>>
        /\ \A k, l \in 1 .. Len(more) : more[k] = more[l] => k = l
        /\ \A q \in Children(p) : \E k \in 1 .. Len(more) : more[k] = <<"visit", q, tree[q]>>
    BY <1>3, <1>5, VisitsFacts
  <2>2. more \in Seq(Steps)
    <3>1. "visit" \in NamesOf(call.op)
      BY <1>5, Walkers
    <3> QED
      BY <1>3, <1>5, <3>1, VisitsCallable DEF Callable
  <2>3. \A q, c : Cover(<<"visit", q, c>>) = Below(q)
    BY DEF Cover
  <2>4. ASSUME NEW q \in Children(p)
        PROVE  Amid(<<"visit", q, tree[q]>>) /\ Below(q) \subseteq Below(p) \ {p}
    <3>1. /\ q \in Paths /\ ~Missing(q) /\ Len(q) = Len(p) + 1
          /\ q \in Below(p) /\ Below(q) \subseteq Below(p) \ {p}
      BY ChildFacts
    <3>2. q \in Below(call.path)
      BY <1>6, <1>7, <3>1, BelowChain
    <3>3. Depth(q) <= call.maxDepth
      <4>1. Len(p) - Len(call.path) < call.maxDepth
        BY <1>7 DEF Depth
      <4>2. \A a, b, c \in Nat : a - b < c => (a + 1) - b <= c
        OBVIOUS
      <4>3. (Len(p) + 1) - Len(call.path) <= call.maxDepth
        BY <1>6, <4>1, <4>2
      <4> QED
        BY <3>1, <4>3 DEF Depth
    <3>4. WasThere(q)
      BY <3>1, Seen DEF WasThere
    <3> QED
      BY <3>1, <3>2, <3>3, <3>4 DEF Amid, Within, Missing
  <2>5. /\ PathsOf(found') = PathsOf(found)
        /\ Cover(todo[1]) \cap PathsOf(found) = {}
    BY <1>2, <1>5, <1>6 DEF Apart
  <2>6. ASSUME NEW k \in 1 .. Len(more)
        PROVE  /\ Amid(more[k]) /\ Cover(more[k]) \subseteq Cover(todo[1])
               /\ Cover(more[k]) \cap PathsOf(found') = {}
    <3>1. PICK q \in Children(p) : more[k] = <<"visit", q, tree[q]>>
      BY <2>1
    <3>2. Cover(more[k]) = Below(q)
      BY <2>3, <3>1
    <3> QED
      BY <1>8, <2>4, <2>5, <3>1, <3>2
  <2>7. ASSUME NEW k \in 1 .. Len(more), NEW l \in 1 .. Len(more), k # l
        PROVE  Cover(more[k]) \cap Cover(more[l]) = {}
    <3>1. PICK q \in Children(p) : more[k] = <<"visit", q, tree[q]>>
      BY <2>1
    <3>2. PICK r \in Children(p) : more[l] = <<"visit", r, tree[r]>>
      BY <2>1
    <3>3. q # r
      BY <2>1, <2>7, <3>1, <3>2
    <3>4. Below(q) \cap Below(r) = {}
      BY <3>3, ChildrenApart
    <3> QED
      BY <2>3, <3>1, <3>2, <3>4
  <2>8. ASSUME NEW q \in Cover(todo[1]), ~Missing(q)
        PROVE  \E k \in 1 .. Len(more) : q \in Cover(more[k])
    <3>1. q \in Below(p) /\ q # p
      BY <1>8, <2>8
    <3>2. PICK r \in Children(p) : q \in Below(r)
      BY <1>5, <2>8, <3>1, ChildAbove
    <3>3. PICK k \in 1 .. Len(more) : more[k] = <<"visit", r, tree[r]>>
      BY <2>1
    <3> QED
      BY <2>3, <3>2, <3>3
  <2>9. Shown'
    BY <1>2, <1>4, <1>6 DEF Shown, PathsOf, Within, Depth, WasThere, Missing
  <2>10. edits = 0 =>
           /\ \A q \in Cover(todo[1]) :
                ~Missing(q) => \/ q \in PathsOf(found')
                               \/ \E k \in 1 .. Len(more) : q \in Cover(more[k])
                               \/ ~Within(q) /\ (call.op = "du" => deeper')
           /\ deeper => deeper'
           /\ deeper' => TooDeep
    BY <1>9, <2>8
  <2>11. /\ PathsOf(found) \subseteq PathsOf(found')
         /\ PathsOf(found') \subseteq PathsOf(found) \cup Cover(todo[1])
    BY <2>5
  <2>12. Gives(more)
    BY <2>6, <2>7, <2>10, <2>11 DEF Gives
  <2>13. Walking'
    BY <1>2, <1>4, <1>5, <1>10, <2>2, <2>9, <2>12, Replaced
  <2> QED
    BY <2>13 DEF WalkTold
<1>11. CASE todo' = <<>> /\ outcome' = "failed"
  BY <1>11, FailedWalk
<1>12. CASE todo' = todo /\ seen' = seen
  <2>1. Walking'
    BY <1>2, <1>4, <1>5, <1>9, <1>12, StaysWalking
  <2> QED
    BY <2>1 DEF WalkTold
<1> QED
  BY <1>4, <1>10, <1>11, <1>12

LEMMA VisitKeeps ==
  ASSUME IInv, Witnessed, WalkTold, call.op \in WalkOps, VisitEntry
  PROVE  WalkTold'
<1>1. PICK p \in Paths, c \in Contents \cup {"dir"} :
        /\ At(<<"visit", p, c>>)
        /\ IF Len(found) >= call.maxEntries
           THEN Refused("failed") /\ UNCHANGED found
           ELSE /\ found' = Append(found, <<p, c>>)
                /\ Continue(CASE c # "dir" -> <<>>
                              [] c = "dir" /\ Descends(p) -> List(p)
                              [] OTHER -> IF call.op = "du" THEN Peek(p) ELSE <<>>)
                /\ UNCHANGED <<seen, carried, unsure, faults>>
  BY DEF VisitEntry
<1>2. UNCHANGED <<deeper, tree, was, edits>>
  BY DEF VisitEntry, files
<1>3. /\ Walking /\ Placed(<<"visit", p, c>>) /\ todo # <<>> /\ todo[1] = <<"visit", p, c>>
      /\ call \in Operations /\ todo \in Seq(Steps) /\ IsTree(tree)
  BY <1>1, WalksAt
<1>4. call.maxEntries \in Nat /\ Len(found) \in Nat
  BY <1>3, WalkCall DEF Walking, Shown
<1>5. CASE Len(found) >= call.maxEntries
  BY <1>1, <1>5, FailedWalk DEF Refused, Fail
<1>6. CASE ~(Len(found) >= call.maxEntries)
  <2>1. PICK more :
          more = CASE c # "dir" -> <<>>
                   [] c = "dir" /\ Depth(p) < call.maxDepth -> List(p)
                   [] OTHER -> IF call.op = "du" THEN Peek(p) ELSE <<>>
    OBVIOUS
  <2>2. Continue(more) /\ found' = Append(found, <<p, c>>)
    BY <1>1, <1>6, <2>1 DEF Descends
  <2>3. todo' = more \o Tail(todo) /\ call' = call
    BY <2>2 DEF Continue
  <2>4. Within(p) /\ WasThere(p) /\ (edits = 0 => tree[p] = c)
    BY <1>3 DEF Placed, Amid, One
  <2>5. Cover(todo[1]) = Below(p)
    BY <1>3 DEF Cover
  <2>6. Len(found) < call.maxEntries
    BY <1>4, <1>6
  <2>7. Walking'
    BY <1>2, <1>3, <2>1, <2>2, <2>3, <2>4, <2>5, <2>6, Opens
  <2> QED
    BY <2>7 DEF WalkTold
<1> QED
  BY <1>5, <1>6

LEMMA PeekKeeps ==
  ASSUME IInv, Witnessed, WalkTold, call.op \in WalkOps, PeekBelow
  PROVE  WalkTold'
<1>1. PICK p \in Paths :
        /\ AskThen(<<"peek", p>>, ~Missing(p), Children(p), <<>>, "failed")
        /\ deeper' = (deeper \/ (<<"peek", p>> \in DOMAIN seen' /\ Children(p) # {}))
  BY DEF PeekBelow, Ask
<1>2. UNCHANGED <<found, tree, was, edits>>
  BY DEF PeekBelow, files
<1>3. /\ At(<<"peek", p>>) /\ call' = call
      /\ \/ todo' = <<>> \o Tail(todo) /\ Learn(<<"peek", p>>, Children(p))
         \/ todo' = <<>> /\ outcome' = "failed"
         \/ todo' = todo /\ seen' = seen
  BY <1>1, Asked
<1>4. /\ Walking /\ Placed(<<"peek", p>>) /\ todo # <<>> /\ todo[1] = <<"peek", p>>
      /\ call \in Operations /\ todo \in Seq(Steps) /\ IsTree(tree) /\ 1 \in 1 .. Len(todo)
  BY <1>3, WalksAt
<1>5. /\ call.path \in Paths /\ call.maxDepth \in Nat /\ Len(call.path) \in Nat /\ Len(p) \in Nat
      /\ Shown /\ Apart /\ Complete
  BY <1>4, WalkCall, PathFacts DEF Walking
<1>6. call.op = "du" /\ p \in Below(call.path) /\ Depth(p) >= call.maxDepth
  BY <1>4 DEF Placed, Amid, One
<1>7. Cover(todo[1]) = Below(p) \ {p}
  BY <1>4 DEF Cover
<1>8. ASSUME NEW q \in Below(p), q # p PROVE q \in Below(call.path) /\ ~Within(q)
  <2>1. q \in Below(call.path)
    BY <1>5, <1>6, BelowChain
  <2>2. Len(p) < Len(q) /\ Len(q) \in Nat
    BY <1>8, DeeperBelow
  <2>3. ~(Depth(q) <= call.maxDepth)
    BY <1>5, <1>6, <2>2 DEF Depth
  <2> QED
    BY <2>1, <2>3 DEF Within
<1>9. Children(p) # {} => TooDeep
  <2>1. ASSUME NEW q \in Children(p) PROVE TooDeep
    <3>1. q \in Below(p) /\ q # p /\ ~Missing(q)
      BY ChildFacts
    <3> QED
      BY <1>8, <3>1 DEF TooDeep
  <2> QED
    BY <2>1
<1>10. edits = 0 => (deeper => deeper') /\ (deeper' => TooDeep)
  <2>1. deeper' => deeper \/ Children(p) # {}
    BY <1>1
  <2>2. deeper => deeper'
    BY <1>1
  <2> QED
    BY <1>5, <1>9, <2>1, <2>2 DEF Complete
<1>11. CASE todo' = <<>> \o Tail(todo) /\ Learn(<<"peek", p>>, Children(p))
  <2>1. Children(p) # {} => deeper'
    BY <1>1, <1>11, LearnsIt
  <2>2. PICK more : more = <<>>
    OBVIOUS
  <2>3. more \in Seq(Steps) /\ Len(more) = 0 /\ todo' = more \o Tail(todo)
    BY <1>11, <2>2, NothingCallable DEF Callable
  <2>4. \A k \in 1 .. Len(more) : FALSE
    BY <2>3
  <2>5. Shown'
    BY <1>2, <1>3, <1>5 DEF Shown, PathsOf, Within, Depth, WasThere, Missing
  <2>6. ASSUME NEW q \in Cover(todo[1]), ~Missing(q) PROVE ~Within(q) /\ deeper'
    <3>1. q \in Below(p) /\ q # p
      BY <1>7, <2>6
    <3>2. Children(p) # {}
      BY <1>4, <2>6, <3>1, ChildAbove
    <3> QED
      BY <1>8, <2>1, <3>1, <3>2
  <2>7. edits = 0 =>
          /\ \A q \in Cover(todo[1]) :
               ~Missing(q) => \/ q \in PathsOf(found')
                              \/ \E k \in 1 .. Len(more) : q \in Cover(more[k])
                              \/ ~Within(q) /\ (call.op = "du" => deeper')
          /\ deeper => deeper'
          /\ deeper' => TooDeep
    BY <1>10, <2>6
  <2>8. PathsOf(found') = PathsOf(found)
    BY <1>2
  <2>9. Gives(more)
    BY <2>4, <2>7, <2>8 DEF Gives
  <2>10. Walking'
    BY <1>2, <1>3, <1>4, <2>3, <2>5, <2>9, Replaced
  <2> QED
    BY <2>10 DEF WalkTold
<1>12. CASE todo' = <<>> /\ outcome' = "failed"
  BY <1>12, FailedWalk
<1>13. CASE todo' = todo /\ seen' = seen
  <2>1. Walking'
    BY <1>2, <1>3, <1>4, <1>10, <1>13, StaysWalking
  <2> QED
    BY <2>1 DEF WalkTold
<1> QED
  BY <1>3, <1>11, <1>12, <1>13


\* Others change the tree.
LEMMA EditsTold ==
  ASSUME IInv, Witnessed, WalkTold, call.op \in WalkOps, OtherEdits, UNCHANGED walked
  PROVE  WalkTold'
<1>1. /\ UNCHANGED <<call, todo, seen, found>> /\ todo # <<>>
      /\ edits' = edits + 1 /\ edits \in Nat
  BY DEF OtherEdits, control, walked, IInv, Running
<1>2. WasKept
  BY DEF OtherEdits, WasKept
<1>3. was \subseteq was'
  BY <1>2, WasGrows
<1>4. edits' # 0
  BY <1>1
<1>5. Walking'
  BY <1>1, <1>3, <1>4, StaysWalking DEF WalkTold
<1> QED
  BY <1>5 DEF WalkTold

\* The rest of WalkNext belongs to archives.
LEMMA ArchivesOnly ==
  ASSUME IInv, call.op \in WalkOps, WalkTold, WalkNext
  PROVE  WalkRoot \/ ListDirectory \/ VisitEntry \/ PeekBelow
<1>1. ASSUME NEW step, At(step), step[1] \notin {"root", "list", "peek", "visit"} PROVE FALSE
  BY <1>1, WalksAt
<1>2. ASSUME LookAtDestination \/ AskCapabilities \/ Fetch \/ Validate \/ Commit PROVE FALSE
  <2>1. PICK name \in {"lookLocal", "capabilities", "fetch", "validate", "commit"} : At(One(name))
    BY <1>2 DEF LookAtDestination, AskCapabilities, Fetch, Validate, Commit, Decide, Ask, AskThen
  <2>2. One(name)[1] \notin {"root", "list", "peek", "visit"}
    BY DEF One
  <2> QED
    BY <1>1, <2>1, <2>2
<1>3. ASSUME Select PROVE FALSE
  <2>1. PICK p \in Paths : At(<<"select", p>>)
    BY <1>3 DEF Select
  <2>2. <<"select", p>>[1] \notin {"root", "list", "peek", "visit"}
    OBVIOUS
  <2> QED
    BY <1>1, <2>1, <2>2
<1>4. ~VisitArchived /\ ~OtherLocal
  BY DEF VisitArchived, OtherLocal, WalkOps
<1> QED
  BY <1>2, <1>3, <1>4 DEF WalkNext

LEMMA WalkBegins == ASSUME IInv, Begin PROVE WalkTold'
<1>1. /\ todo' = Script /\ call' = call /\ seen' = <<>> /\ found' = <<>> /\ deeper' = FALSE
      /\ call \in Operations
  BY DEF Begin, Run, IInv, Running
<1>2. CASE call.op \notin WalkOps
  BY <1>1, <1>2 DEF WalkTold
<1>3. CASE call.op \in WalkOps
  <2>1. /\ call.path \in Paths /\ call.maxDepth \in Nat /\ call.maxEntries \in Nat \ {0}
    BY <1>1, <1>3, WalkCall
  <2>2. Script = <<One("root")>>
    BY <1>3 DEF Script, FileOps, WalkOps, WalkScript, Each
  <2>3. Len(todo') = 1 /\ todo'[1] = One("root") /\ \A i \in 1 .. Len(todo') : i = 1
    BY <1>1, <2>2
  <2>4. One("root") \notin DOMAIN seen'
    BY <1>1
  <2>5. (\A i \in 1 .. Len(todo) : Placed(todo[i]))'
    BY <1>1, <2>3, <2>4 DEF Placed
  <2>6. PathsOf(found') = {} /\ Len(found') = 0
    BY <1>1 DEF PathsOf
  <2>7. Shown'
    <3>1. found' \in Seq(Paths \X (Contents \cup {"dir"}))
      BY <1>1, EmptySeq
    <3>2. Cardinality(PathsOf(found')) = Len(found')
      BY <2>6, FS_EmptySet
    <3>3. Len(found') <= call'.maxEntries
      BY <1>1, <2>1, <2>6
    <3> QED
      BY <2>6, <3>1, <3>2, <3>3 DEF Shown, PathsOf
  <2>8. Apart'
    BY <2>3, <2>6 DEF Apart, PathsOf
  <2>9. Complete'
    <3>1. Cover(One("root"))' = Below(call.path)
      BY <1>1 DEF Cover, One
    <3>2. (\A p \in Below(call.path) : Accounted(p))'
      BY <1>1, <2>3, <3>1 DEF Accounted
    <3> QED
      BY <1>1, <3>2 DEF Complete
  <2> QED
    BY <2>5, <2>7, <2>8, <2>9 DEF WalkTold, Walking
<1> QED
  BY <1>2, <1>3

LEMMA WalkTells ==
  ASSUME HonestInv, WalkTold, [BatchNext]_batchVars
  PROVE  WalkTold'
<1>0. IInv /\ Witnessed
  BY DEF HonestInv
<1>1. CASE Begin
  BY <1>0, <1>1, WalkBegins
<1>2. CASE Record \/ PassOver
  <2>1. /\ UNCHANGED <<todo, seen, tree, was, edits, found, deeper>>
        /\ todo = <<>>
        /\ outcome' = "none" \/ UNCHANGED <<call, outcome>>
    BY <1>0, <1>2 DEF Record, PassOver, Report, Waits, files, walked, Failed, IInv, Running
  <2>2. CASE outcome' = "none"
    BY <2>1, <2>2 DEF WalkTold
  <2>3. CASE UNCHANGED <<call, outcome>>
    <3>1. Walking => Walking'
      BY <2>1, <2>3, StaysWalking DEF Walking, Complete
    <3> QED
      BY <2>1, <2>3, <3>1 DEF WalkTold
  <2> QED
    BY <2>1, <2>2, <2>3
<1>3. CASE Interrupt \/ Killed
  BY <1>3 DEF Interrupt, Killed, Fail, Die, WalkTold
<1>4. CASE Over \/ UNCHANGED batchVars
  <2>1. UNCHANGED <<call, todo, seen, outcome, tree, was, edits, found, deeper>>
    BY <1>4 DEF Over, batchVars, control, files, walked
  <2>2. Walking => Walking'
    BY <2>1, StaysWalking DEF Walking, Complete
  <2> QED
    BY <2>1, <2>2 DEF WalkTold
<1>5. CASE (FileNext \/ WalkNext) /\ call.op \notin WalkOps
  <2>1. call' = call
    BY <1>0, <1>5, FileMoves, WalkMoves DEF Moves, Aside, control
  <2> QED
    BY <1>5, <2>1 DEF WalkTold
<1>6. CASE FileNext /\ UNCHANGED <<walked, batch, results>> /\ call.op \in WalkOps
  BY <1>0, <1>6, FilesWait, EditsTold
<1>7. CASE WalkNext /\ call.op \in WalkOps
  BY <1>0, <1>7, ArchivesOnly, RootKeeps, ListKeeps, VisitKeeps, PeekKeeps
<1> QED
  BY <1>1, <1>2, <1>3, <1>4, <1>5, <1>6, <1>7 DEF BatchNext

LEMMA WalkTellsInvariance == BatchSpec => [](HonestInv /\ WalkTold)
<1>1. BatchInit => HonestInv /\ WalkTold
  BY HonestInit DEF BatchInit, RequestsInit, WalkTold
<1>2. HonestInv /\ WalkTold /\ [BatchNext]_batchVars => (HonestInv /\ WalkTold)'
  BY HonestNext, WalkTells
<1> QED
  BY <1>1, <1>2, PTL DEF BatchSpec

\* tree and du show what is there: no path twice, nothing beyond the depth or the
\* limit, nothing that never was, and all of it when nobody else changes the tree.
THEOREM WalksShowTheTree == BatchSpec => []WalkIsTree
<1>1. ASSUME HonestInv, WalkTold PROVE WalkIsTree
  <2> SUFFICES ASSUME call.op \in WalkOps, outcome = "done" PROVE WalkIsTree
    BY DEF WalkIsTree
  <2>1. Shown /\ Complete /\ todo = <<>> /\ call.path \in Paths
    BY <1>1, WalkCall DEF WalkTold, Walking, HonestInv, IInv, Running
  <2>2. \A i \in 1 .. Len(todo) : FALSE
    BY <2>1
  <2>3. PathsOf(found) \subseteq Paths
    BY <2>1 DEF Shown, Within, Below
  <2>4. Below(call.path) \subseteq Paths
    BY DEF Below
  <2>5. ASSUME edits = 0
        PROVE  /\ PathsOf(found) = {p \in Paths : ~Missing(p) /\ Within(p)}
               /\ call.op = "du" =>
                    (deeper <=> \E p \in Below(call.path) : ~Missing(p) /\ ~Within(p))
    <3>1. ASSUME NEW p \in Below(call.path), ~Missing(p)
          PROVE  p \in PathsOf(found) \/ (~Within(p) /\ (call.op = "du" => deeper))
      BY <2>1, <2>2, <2>5, <3>1 DEF Complete, Accounted
    <3>2. \A p \in PathsOf(found) : ~Missing(p) /\ Within(p)
      BY <2>1, <2>5 DEF Shown
    <3>3. \A p : Within(p) => p \in Below(call.path)
      BY DEF Within
    <3>4. deeper => TooDeep
      BY <2>1, <2>5 DEF Complete
    <3>5. PathsOf(found) = {p \in Paths : ~Missing(p) /\ Within(p)}
      BY <2>3, <3>1, <3>2, <3>3
    <3>6. call.op = "du" =>
            (deeper <=> \E p \in Below(call.path) : ~Missing(p) /\ ~Within(p))
      BY <3>1, <3>2, <3>4 DEF TooDeep
    <3> QED
      BY <3>5, <3>6
  <2>6. \A p \in PathsOf(found) : Within(p) /\ \E c \in {"dir", "file"} : <<p, c>> \in was
    BY <2>1 DEF Shown, WasThere
  <2> QED
    BY <2>1, <2>5, <2>6 DEF WalkIsTree, Shown
<1> QED
  BY <1>1, WalkTellsInvariance, PTL
=============================================================================
