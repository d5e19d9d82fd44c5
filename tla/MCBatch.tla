------------------------------- MODULE MCBatch -------------------------------
(* Instances of Batch: single operations with their options, and batches of   *)
(* up to three, on a few trees of two levels.                                 *)
EXTENDS Batch

a == <<"a">>
b == <<"b">>
aa == <<"a", "a">>
ab == <<"a", "b">>
MCPaths == {<<>>, a, b, aa, ab}

MCTree(ofA, ofB, ofAA, ofAB) ==
  <<>> :> "dir" @@ a :> ofA @@ b :> ofB @@ aa :> ofAA @@ ab :> ofAB
MCTrees ==
  {MCTree("none", "none", "none", "none"), MCTree("x", "none", "none", "none"),
   MCTree("dir", "none", "none", "none"), MCTree("x", "dir", "none", "none"),
   MCTree("dir", "x", "y", "none"), MCTree("dir", "none", "dir", "y")}

Single(op) == [ops |-> <<op>>, continue |-> FALSE, dry |-> FALSE]

Mkdir(path, parents) == [op |-> "mkdir", path |-> path, parents |-> parents]
Touch(path) == [op |-> "touch", path |-> path]
Copy(op, from, to, slash, overwrite) ==
  [op |-> op, from |-> from, to |-> to, slash |-> slash, overwrite |-> overwrite]
Rm(path, recursive) == [op |-> "remove", path |-> path, recursive |-> recursive]
Upload(path, noClobber) ==
  [op |-> "upload", path |-> path, noClobber |-> noClobber, content |-> "y"]
WalkOf(op, path, depth, entries) ==
  [op |-> op, path |-> path, maxDepth |-> depth, maxEntries |-> entries]
Archive(paths, overwrite, format, dry) ==
  [op |-> "archive", paths |-> paths, overwrite |-> overwrite, format |-> format, dry |-> dry]

FileCommandsOfMC ==
  {Mkdir(a, FALSE), Mkdir(aa, FALSE), Mkdir(a, TRUE), Mkdir(aa, TRUE), Touch(a), Touch(aa)}
  \cup {Copy(op, a, b, slash, overwrite) :
          op \in {"copy", "move"}, slash \in BOOLEAN, overwrite \in BOOLEAN}
  \cup {Copy("move", b, a, FALSE, FALSE), Copy("copy", aa, b, FALSE, TRUE)}
  \cup {Rm(a, recursive) : recursive \in BOOLEAN}
  \cup {Upload(a, noClobber) : noClobber \in BOOLEAN}
  \cup {[op |-> op, path |-> b, add |-> add] : op \in {"tag", "property"}, add \in BOOLEAN}

WalksOfMC ==
  {WalkOf(op, path, depth, entries) :
     op \in WalkOps, path \in {<<>>, a}, depth \in 0 .. 2, entries \in {2, 5}}
  \cup {Archive(paths, overwrite, format, FALSE) :
          paths \in {<<<<>>>>, <<a>>, <<a, b>>}, overwrite \in BOOLEAN, format \in {"zip", "tar"}}
  \cup {Archive(<<a, b>>, TRUE, "zip", TRUE)}

BatchesOfMC ==
  {[ops |-> ops, continue |-> continue, dry |-> dry] :
     ops \in {<<Mkdir(a, FALSE), Upload(aa, TRUE), Copy("move", a, b, FALSE, FALSE)>>,
              <<Upload(a, FALSE), Rm(a, FALSE), Touch(a)>>},
     continue \in BOOLEAN, dry \in BOOLEAN}

MCOperations == FileCommandsOfMC \cup WalksOfMC \cup {Upload(aa, TRUE)}
MCBatches == {Single(op) : op \in FileCommandsOfMC \cup WalksOfMC} \cup BatchesOfMC
=============================================================================
