--------------------------- MODULE SyncInstances ---------------------------
(***************************************************************************)
(* Instances of SyncExecution: a directory d with one name d/f in it, and  *)
(* the names e and g beside it; files hold content 1 or 2.                 *)
(***************************************************************************)
EXTENDS SyncExecution

d == <<1>>
f == <<1, 1>>
e == <<2>>
g == <<3>>

\* A tree is chosen as what lies at d, d/f, e and g: 0 is nothing, 9 a directory.
Chosen(atD, atF, atE, atG) ==
  LET at == (d :> atD) @@ (f :> atF) @@ (e :> atE) @@ (g :> atG)
      node(c) == IF c = 9 THEN Directory
                 ELSE [type |-> "file", content |-> c, etag |-> c, modified |-> 0]
  IN  [p \in {Root} \cup {q \in {d, f, e, g} : at[q] # 0} |->
         IF p = Root THEN Directory ELSE node(at[p])]

\* Where one file name e lies beside d, and where there are two, e and g.
AllTrees ==
  {Chosen(atD, 0, atE, 0) : atD \in {0, 1, 2}, atE \in {0, 1, 2, 9}}
    \cup {Chosen(9, atF, atE, 0) : atF \in {0, 1, 2}, atE \in {0, 1, 2, 9}}
TwoFileTrees == {Chosen(0, 0, atE, atG) : atE \in {0, 1, 2}, atG \in {0, 1, 2}}
OneFileTrees == {Chosen(0, 0, atE, 0) : atE \in {0, 1, 2}}
FileTrees ==
  TwoFileTrees
    \cup {Chosen(9, atF, atE, atG) : atF \in {0, 1}, atE \in {0, 1}, atG \in {0, 1}}

NoTree == <<>>   \* the root itself is missing
\* the root is a file
FileTree == (Root :> [type |-> "file", content |-> 1, etag |-> 1, modified |-> 0])

OnLocal(tree) == [p \in DOMAIN tree |-> [tree[p] EXCEPT !.etag = 0]]
SavedState(tree) ==
  NewState([p \in DOMAIN tree |-> LocalEntry(OnLocal(tree)[p])],
           [p \in DOMAIN tree |-> RemoteEntry(tree[p])])

States(trees) ==
  [local : {OnLocal(t) : t \in trees \cup {NoTree, FileTree}}, remote : trees \cup {NoTree, FileTree},
   baseline : {NoState} \cup {SavedState(t) : t \in trees}]
AllStates == States(AllTrees) \cup States(FileTrees)

\* States whose plans delete, move, replace, create and transfer both ways.
FewTrees == {Chosen(9, 1, 0, 0), Chosen(9, 2, 1, 0), Chosen(0, 0, 1, 0), Chosen(2, 0, 9, 0), Chosen(9, 0, 2, 0)}
FewStates ==
  [local : {OnLocal(t) : t \in FewTrees}, remote : FewTrees,
   baseline : {NoState} \cup {SavedState(t) : t \in FewTrees}]

\* One tree on which both sides and the baseline agree.
FullTree == Chosen(9, 1, 2, 0)
OneState == {[local |-> OnLocal(FullTree), remote |-> FullTree, baseline |-> SavedState(FullTree)]}

\* A new local file whose modification time is far from that of its upload.
NewFileState ==
  {[local |-> With(OnLocal(Chosen(9, 0, 0, 0)), e,
                   [type |-> "file", content |-> 1, etag |-> 0, modified |-> 1]),
    remote |-> Chosen(9, 0, 0, 0), baseline |-> NoState]}

\* A second spelling of e, on the other side.
h == <<4>>
SpellingState ==
  {[local |-> OnLocal(Chosen(0, 0, 1, 0)), baseline |-> NoState,
    remote |-> With(Chosen(0, 0, 0, 0), h, [type |-> "file", content |-> 2, etag |-> 2, modified |-> 0])]}
Spellings == {{e, h}}

\* A file to be sent beside one that is not selected, to a root without either.
SelectedState ==
  {[local |-> OnLocal(Chosen(0, 0, 1, 1)), remote |-> Chosen(0, 0, 0, 0), baseline |-> NoState]}
OnlyE == {e}

\* A second name below d.
Hidden == <<1, 2>>

\* The baseline of a pull has the remote entries as its source.
Swapped(state) ==
  [state EXCEPT !.entries =
     [p \in DOMAIN @ |-> [source |-> @[p].destination, destination |-> @[p].source]]]
OfPull(states) == {[state EXCEPT !.baseline = Swapped(@)] : state \in states}

-----------------------------------------------------------------------------

Request(direction, prefer, delete, overwrite) ==
  [direction |-> direction, prefer |-> prefer, delete |-> delete, overwrite |-> overwrite]
Abort == Request("bidirectional", "", FALSE, FALSE)
KeepBoth(prefer) == Request("bidirectional", prefer, FALSE, FALSE)
OneWay(direction) ==
  {Request(direction, "", delete, overwrite) : delete \in BOOLEAN, overwrite \in BOOLEAN}

Given(states, made, maxEdits, maxFaults, maxRuns) ==
  {[local |-> state.local, remote |-> state.remote, baseline |-> state.baseline,
    requests |-> made, edits |-> maxEdits, faults |-> maxFaults, runs |-> maxRuns] : state \in states}

NoPaths == {}
SomePaths == {Root, d, f, Hidden}
=============================================================================
