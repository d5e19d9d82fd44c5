-------------------------------- MODULE Walks --------------------------------
(***************************************************************************)
(* Commands that walk a remote tree, one PROPFIND per directory: tree and  *)
(* du down to a depth, and the preflight of an archive, which the server   *)
(* packs later and the command validates before it becomes a local file.   *)
(* Others go on changing the tree.  A listing pushes the visits of its     *)
(* children on the steps still to make: the walk is depth-first.           *)
(***************************************************************************)
EXTENDS FileCommands

CONSTANTS MaxNumFiles, MaxSize   \* limits the archive service advertises

ASSUME WalksAssumption == MaxNumFiles \in Nat \ {0} /\ MaxSize \in Nat \ {0}

VARIABLES
  found,           \* the entries in the order of the walk: path and content
  deeper,          \* du has seen something below its depth
  local            \* the archive's destination: "none", "dir", "old" or the "archive"

walked == <<found, deeper, local>>

WalkOps == {"tree", "du"}

WalkScript ==
  CASE call.op \in WalkOps -> Each(<<"root">>)
    [] call.op = "archive" ->
         Each(<<"lookLocal", "capabilities">>)
           \o [n \in 1 .. Len(call.paths) |-> <<"select", call.paths[n]>>]
           \o (IF call.dry THEN <<>> ELSE Each(<<"fetch", "validate", "commit">>))

Depth(p) == Len(p) - Len(call.path)
Children(p) == {q \in Paths \ {<<>>} : Front(q) = p /\ ~Missing(q)}
Visits(p) == SetToSeq({<<"visit", q, tree[q]>> : q \in Children(p)})
List(p) == <<<<"list", p>>>>
Peek(p) == <<<<"peek", p>>>>

-----------------------------------------------------------------------------
(* tree and du *)

\* The root is the first entry; the limit is first looked at for a child.
WalkRoot ==
  /\ At(One("root"))
  /\ LET what == tree[call.path]
         more == CASE what # "dir" -> <<>>
                   [] what = "dir" /\ call.maxDepth > 0 -> List(call.path)
                   [] OTHER -> IF call.op = "du" THEN Peek(call.path) ELSE <<>>
     IN /\ AskThen(One("root"), what # "none", what, more, "failed")
        /\ found' = IF One("root") \in DOMAIN seen' THEN <<<<call.path, what>>>> ELSE found
  /\ UNCHANGED <<deeper, local, files>>

\* A file that took the place of a directory is listed as an empty one.
ListDirectory ==
  /\ \E p \in Paths : AskThen(<<"list", p>>, ~Missing(p), 0, Visits(p), "failed")
  /\ UNCHANGED <<walked, files>>

\* Mutant of Descends: directories at the greatest depth are listed too.
DescendsTooFar(p) == Depth(p) <= call.maxDepth

Descends(p) == Depth(p) < call.maxDepth

\* What becomes of a child: counted, then listed, or looked into by du.
VisitEntry ==
  /\ call.op \in WalkOps
  /\ \E p \in Paths, c \in Contents \cup {"dir"} :
       /\ At(<<"visit", p, c>>)
       /\ IF Len(found) >= call.maxEntries
          THEN Refused("failed") /\ UNCHANGED found
          ELSE /\ found' = Append(found, <<p, c>>)
               /\ Continue(CASE c # "dir" -> <<>>
                             [] c = "dir" /\ Descends(p) -> List(p)
                             [] OTHER -> IF call.op = "du" THEN Peek(p) ELSE <<>>)
               /\ UNCHANGED <<seen, carried, unsure, faults>>
  /\ UNCHANGED <<deeper, local, files>>

PeekBelow ==
  /\ \E p \in Paths :
       /\ Ask(<<"peek", p>>, ~Missing(p), Children(p), "failed")
       /\ deeper' = (deeper \/ (<<"peek", p>> \in DOMAIN seen' /\ Children(p) # {}))
  /\ UNCHANGED <<found, local, files>>

-----------------------------------------------------------------------------
(* archive download *)

Size(c) == IF c \in {"", "dir"} THEN 0 ELSE 1
Bytes(entries) == FoldLeft(LAMBDA sum, entry : sum + Size(entry[2]), 0, entries)

\* validateArchiveDestination.
LookAtDestination ==
  /\ Decide(One("lookLocal"), local = "none" \/ (local # "dir" /\ call.overwrite), "failed")
  /\ UNCHANGED <<walked, files>>

AskCapabilities ==
  /\ \E offered \in BOOLEAN : Ask(One("capabilities"), offered, 0, "failed")
  /\ UNCHANGED <<walked, files>>

\* A resource that was moved may be selected twice, which is an error.  "/" is
\* listed, but is no entry.
Select ==
  /\ \E p \in Paths :
       /\ At(<<"select", p>>)
       /\ LET more == IF p = <<>> THEN List(p) ELSE <<<<"visit", p, tree[p]>>>>
          IN \/ AskThen(<<"select", p>>, ~Missing(p), tree[p], more, "failed")
             \/ /\ \E step \in DOMAIN seen : step[1] = "select" /\ seen[step] = tree[p]
                /\ Refused("failed")
  /\ UNCHANGED <<walked, files>>

\* scanArchiveItem.
VisitArchived ==
  /\ call.op = "archive"
  /\ \E p \in Paths, c \in Contents \cup {"dir"} :
       /\ At(<<"visit", p, c>>)
       /\ found' = Append(found, <<p, c>>)
       /\ IF Len(found') > MaxNumFiles \/ Bytes(found') > MaxSize
          THEN Refused("failed")
          ELSE /\ Continue(IF c = "dir" THEN List(p) ELSE <<>>)
               /\ UNCHANGED <<seen, carried, unsure, faults>>
  /\ UNCHANGED <<deeper, local, files>>

\* What the server packs is what lies below the selection now.
Packed ==
  SetToSeq({<<p, tree[p]>> : p \in {q \in Paths \ {<<>>} :
              ~Missing(q) /\ \E n \in 1 .. Len(call.paths) : q \in Below(call.paths[n])}})

\* Into a temporary file.  A stream that ends early is an error of the transport
\* or goes unnoticed here.
Fetch ==
  /\ At(One("fetch"))
  /\ LET able == \A n \in 1 .. Len(call.paths) : ~Missing(call.paths[n])
     IN \/ Ask(One("fetch"), able, [whole |-> TRUE, entries |-> Packed], "failed")
        \/ /\ able /\ Fault
           /\ Learn(One("fetch"), [whole |-> FALSE, entries |-> Packed])
           /\ Proceed /\ UNCHANGED <<carried, unsure>>
  /\ UNCHANGED <<walked, files>>

\* ValidateFile: the limits again, and an archive that can be read to its end.
\* A ZIP ends with its directory; a TAR may end after any entry (archive/tar).
Validate ==
  /\ LET got == seen[One("fetch")]
     IN /\ At(One("validate"))
        /\ \E readable \in {got.whole, got.whole \/ call.format = "tar"} :
             Decide(One("validate"),
                    readable /\ Len(got.entries) <= MaxNumFiles /\ Bytes(got.entries) <= MaxSize,
                    "failed")
  /\ UNCHANGED <<walked, files>>

\* Mutant of Commit: a rename, whatever the options say.
CommitReplacing ==
  /\ At(One("commit"))
  /\ Decide(One("commit"), local # "dir", "failed")
  /\ local' = IF local # "dir" THEN "archive" ELSE local
  /\ UNCHANGED <<found, deeper, files>>

\* CommitFile: a rename, or a hard link, which fails when something is there.
Commit ==
  /\ At(One("commit"))
  /\ LET free == local = "none" \/ (call.overwrite /\ local # "dir")
     IN /\ Decide(One("commit"), free, "failed")
        /\ local' = IF free THEN "archive" ELSE local
  /\ UNCHANGED <<found, deeper, files>>

\* Another program makes or removes the destination.
OtherLocal ==
  /\ call.op = "archive" /\ todo # <<>> /\ edits < MaxEdits /\ edits' = edits + 1
  /\ local' \in {"none", "dir", "old"} \ {local}
  /\ UNCHANGED <<tree, tagged, marked, was, found, deeper, control>>

-----------------------------------------------------------------------------

WalkInit == found = <<>> /\ deeper = FALSE /\ local \in {"none", "dir", "old"}

WalkNext ==
  \/ WalkRoot \/ ListDirectory \/ VisitEntry \/ PeekBelow
  \/ LookAtDestination \/ AskCapabilities \/ Select \/ VisitArchived
  \/ Fetch \/ Validate \/ Commit \/ OtherLocal
=============================================================================
