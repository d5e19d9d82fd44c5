----------------------------- MODULE FileCommands -----------------------------
(***************************************************************************)
(* mkdir, touch, cp, mv, rm, upload and the metadata commands, on a remote *)
(* tree that other clients change between any two requests.  A path is a   *)
(* sequence of names; a file is known by its content, which stands for its *)
(* resource ID as well.  webdav repeats a request as httpapi does, so the  *)
(* commands are series of the same requests.  How a file is uploaded is    *)
(* the subject of Upload; here it is one request.                          *)
(***************************************************************************)
EXTENDS Requests, SequencesExt

CONSTANTS
  Paths,           \* remote paths, the root << >> included
  Contents,        \* of files
  MaxEdits         \* bound on what others do

ASSUME FileCommandsAssumption ==
  /\ Paths \subseteq Seq(STRING) /\ IsFiniteSet(Paths)
  /\ <<>> \in Paths /\ \A p \in Paths \ {<<>>} : Front(p) \in Paths
  /\ "dir" \notin Contents /\ "none" \notin Contents /\ "" \in Contents
  /\ MaxEdits \in Nat

VARIABLES
  tree,            \* what lies at a path: a content, "dir" or "none"
  tagged,          \* the files that carry the tag
  marked,          \* the paths whose property is set
  was,             \* history: what was there since the command began: path and type
  edits            \* used-up bound

files == <<tree, tagged, marked, was, edits>>

Below(p) == {q \in Paths : IsPrefix(p, q)}
IsDir(p) == tree[p] = "dir"
IsFile(p) == tree[p] \in Contents
Missing(p) == tree[p] = "none"
HasParent(p) == p # <<>> /\ IsDir(Front(p))

Present(t) ==
  {<<p, IF t[p] = "dir" THEN "dir" ELSE "file">> : p \in {q \in Paths : t[q] # "none"}}

\* Trees after a request.
With(p, what) == [tree EXCEPT ![p] = what]
Cut(p) == [q \in Paths |-> IF q \in Below(p) THEN "none" ELSE tree[q]]
Moved(q, from, to) == from \o SubSeq(q, Len(to) + 1, Len(q))
Copied(from, to) ==
  [q \in Paths |->
     IF q \notin Below(to) THEN tree[q]
     ELSE IF Moved(q, from, to) \in Paths THEN tree[Moved(q, from, to)] ELSE "none"]

\* What a tree is: every file and directory but the root lies in a directory.
IsTree(t) ==
  /\ t \in [Paths -> Contents \cup {"dir", "none"}]
  /\ \A p \in Paths \ {<<>>} : t[p] # "none" => t[Front(p)] = "dir"

-----------------------------------------------------------------------------
(* What the commands ask, in order *)

\* A step is a name and a path, where there are several of one name.
One(name) == <<name, <<>>>>
Each(names) == [n \in 1 .. Len(names) |-> One(names[n])]

\* ensureDirectoryPath: three steps for every component.
ParentsScript(path) ==
  [i \in 1 .. 3 * Len(path) |->
     <<<<"look", "make", "verify">>[1 + ((i - 1) % 3)], SubSeq(path, 1, 1 + ((i - 1) \div 3))>>]

FileScript ==
  CASE call.op = "mkdir" /\ ~call.parents -> <<<<"make", call.path>>>>
    [] call.op = "mkdir" /\ call.parents -> ParentsScript(call.path)
    [] call.op = "touch" -> Each(<<"lookFile", "create", "check">>)
    [] call.op \in {"copy", "move"} -> Each(<<"resolve", "transfer">>)
    [] call.op = "remove" -> Each(<<"stat", "delete">>)
    [] call.op = "upload" -> Each(<<"put">>)
    [] call.op = "tag" -> Each(<<"stat", "changeTag", "refresh">>)
    [] call.op = "property" -> Each(<<"stat", "options", "proppatch">>)

FileOps == {"mkdir", "touch", "copy", "move", "remove", "upload", "tag", "property"}

-----------------------------------------------------------------------------
(* mkdir *)

\* A change of the tree by one request.
ChangeTree(step, able, new) ==
  /\ Change(step, able, tree' = new /\ was' = was \cup Present(new),
            UNCHANGED <<tree, was>>, 0, "failed")
  /\ UNCHANGED <<tagged, marked, edits>>

\* An error but 404 ends the command; so does a component that is a file.
LookAtComponent ==
  /\ \E p \in Paths : Ask(<<"look", p>>, ~IsFile(p), tree[p], "failed")
  /\ UNCHANGED files

Known(p) == <<"look", p>> \in DOMAIN seen /\ seen[<<"look", p>>] = "dir"

\* What is there already is neither made nor looked at again.
SkipComponent ==
  /\ \E p \in Paths :
       (At(<<"make", p>>) \/ At(<<"verify", p>>)) /\ Known(p)
         /\ Proceed /\ UNCHANGED <<seen, carried, unsure, faults>>
  /\ UNCHANGED files

\* MKCOL; 405, for what is there, counts as success.
MakeCollection ==
  \E p \in Paths :
    /\ At(<<"make", p>>) /\ ~Known(p)
    /\ \/ ChangeTree(<<"make", p>>, Missing(p) /\ HasParent(p), With(p, "dir"))
       \/ ~Missing(p) /\ Answered(<<"make", p>>, 0, <<>>) /\ UNCHANGED <<carried, files>>

\* Mutant of VerifyComponent: what is there is not looked at.
VerifyNothing ==
  /\ \E p \in Paths :
       At(<<"verify", p>>) /\ ~Known(p) /\ Ask(<<"verify", p>>, ~Missing(p), 0, "failed")
  /\ UNCHANGED files

VerifyComponent ==
  /\ \E p \in Paths :
       At(<<"verify", p>>) /\ ~Known(p) /\ Ask(<<"verify", p>>, IsDir(p), 0, "failed")
  /\ UNCHANGED files

-----------------------------------------------------------------------------
(* touch *)

LookAtFile ==
  /\ Ask(One("lookFile"), ~IsDir(call.path), tree[call.path], "failed")
  /\ UNCHANGED files

\* A file that is there stays as it is.
TouchExisting ==
  /\ At(One("create")) /\ seen[One("lookFile")] # "none"
  /\ Finish
  /\ UNCHANGED files

\* Mutant of CreateEmpty: a plain PUT.
PutEmpty ==
  /\ At(One("create")) /\ seen[One("lookFile")] = "none"
  /\ ChangeTree(One("create"), HasParent(call.path) /\ ~IsDir(call.path), With(call.path, ""))

\* A no-clobber upload of nothing.  When it finds something there, it may be what
\* an attempt whose answer was lost has made; touch looks again.
CreateEmpty ==
  /\ At(One("create")) /\ seen[One("lookFile")] = "none"
  /\ \/ ChangeTree(One("create"), HasParent(call.path) /\ Missing(call.path), With(call.path, ""))
     \/ /\ ~Missing(call.path)
        /\ todo' = Each(<<"lookAgain">>) /\ attempt' = 0
        /\ UNCHANGED <<call, seen, outcome, carried, unsure, faults, runs, files>>

LookAgain ==
  /\ Ask(One("lookAgain"), IsFile(call.path), 0, "failed")
  /\ UNCHANGED files

VerifyTouched ==
  /\ At(One("check"))
  /\ Ask(One("check"), tree[call.path] = "", 0, "failed")
  /\ UNCHANGED files

-----------------------------------------------------------------------------
(* cp, mv, rm and upload *)

\* resolveCopyMoveDestination: into a directory, or to the path itself, which a
\* trailing slash forbids.
Resolve ==
  /\ At(One("resolve"))
  /\ LET into == Append(call.to, Last(call.from))
     IN Ask(One("resolve"), IsDir(call.to) \/ ~call.slash, IF IsDir(call.to) THEN into ELSE call.to,
            "failed")
  /\ UNCHANGED files

\* A server refuses what would leave the tree, or put a directory into itself.
Transfer ==
  /\ At(One("transfer"))
  /\ LET to == seen[One("resolve")]
         new == Copied(call.from, to)
     IN ChangeTree(One("transfer"),
          /\ ~Missing(call.from) /\ to \in Paths /\ HasParent(to)
          /\ to \notin Below(call.from) /\ call.from \notin Below(to)
          /\ call.overwrite \/ Missing(to),
          [q \in Paths |-> IF call.op = "move" /\ q \in Below(call.from) THEN "none" ELSE new[q]])

StatPath ==
  /\ At(One("stat"))
  /\ Ask(One("stat"), ~Missing(call.path) /\ (call.op = "remove" /\ IsDir(call.path) => call.recursive),
         tree[call.path], "failed")
  /\ UNCHANGED files

Delete == ChangeTree(One("delete"), ~Missing(call.path), Cut(call.path))

Put ==
  /\ At(One("put"))
  /\ LET free == Missing(call.path) \/ (~call.noClobber /\ IsFile(call.path))
     IN ChangeTree(One("put"), HasParent(call.path) /\ free, With(call.path, call.content))

-----------------------------------------------------------------------------
(* Metadata *)

\* A tag belongs to the resource that was found, a property to the path.
ChangeTag ==
  /\ At(One("changeTag"))
  /\ LET file == seen[One("stat")]
     IN Change(One("changeTag"), file \in Contents /\ \E p \in Paths : tree[p] = file,
               tagged' = IF call.add THEN tagged \cup {file} ELSE tagged \ {file},
               UNCHANGED tagged, 0, "failed")
  /\ UNCHANGED <<tree, marked, was, edits>>

Refresh ==
  /\ Ask(One("refresh"), ~Missing(call.path), tree[call.path], "partial")
  /\ UNCHANGED files

\* requirePropertyWrites.
AskOptions ==
  /\ \E writable \in BOOLEAN : Ask(One("options"), writable, 0, "failed")
  /\ UNCHANGED files

PropPatch ==
  /\ At(One("proppatch"))
  /\ Change(One("proppatch"), ~Missing(call.path),
            marked' = IF call.add THEN marked \cup {call.path} ELSE marked \ {call.path},
            UNCHANGED marked, 0, "failed")
  /\ UNCHANGED <<tree, tagged, was, edits>>

-----------------------------------------------------------------------------
(* What other clients do meanwhile *)

OtherEdits ==
  /\ todo # <<>> /\ edits < MaxEdits /\ edits' = edits + 1
  /\ \E p \in Paths \ {<<>>} :
       \/ Missing(p) /\ HasParent(p) /\ \E c \in Contents \cup {"dir"} : tree' = With(p, c)
       \/ ~Missing(p) /\ tree' = Cut(p)
       \/ IsFile(p) /\ \E c \in Contents \ {tree[p]} : tree' = With(p, c)
  /\ was' = was \cup Present(tree')
  /\ UNCHANGED <<tagged, marked, control>>

-----------------------------------------------------------------------------

FileInit(trees) ==
  /\ tree \in trees
  /\ tagged = {} /\ marked = {} /\ was = Present(tree) /\ edits = 0

FileNext ==
  \/ LookAtComponent \/ SkipComponent \/ MakeCollection \/ VerifyComponent
  \/ LookAtFile \/ TouchExisting \/ CreateEmpty \/ LookAgain \/ VerifyTouched
  \/ Resolve \/ Transfer \/ StatPath \/ Delete \/ Put
  \/ ChangeTag \/ Refresh \/ AskOptions \/ PropPatch
  \/ OtherEdits
=============================================================================
