-------------------------------- MODULE Batch --------------------------------
(***************************************************************************)
(* ocis batch: operations one after the other through one client, and what *)
(* the summary says of them.  A command that is not part of a batch is a   *)
(* batch of one.  The user may interrupt it, and the process may die.      *)
(***************************************************************************)
EXTENDS Walks

CONSTANTS
  Operations,      \* the commands in use, with their options
  Batches,         \* [ops |-> operations, continue |-> --continue-on-error, dry |-> --dry-run]
  FirstTrees       \* initial remote trees

IsOperation(c) ==
  \/ c \in [op : {"mkdir"}, path : Paths, parents : BOOLEAN]
  \/ c \in [op : {"touch"}, path : Paths]
  \/ c \in [op : {"copy", "move"}, from : Paths, to : Paths, slash : BOOLEAN, overwrite : BOOLEAN]
  \/ c \in [op : {"remove"}, path : Paths, recursive : BOOLEAN]
  \/ c \in [op : {"upload"}, path : Paths, noClobber : BOOLEAN, content : Contents]
  \/ c \in [op : {"tag", "property"}, path : Paths, add : BOOLEAN]
  \/ c \in [op : WalkOps, path : Paths, maxDepth : Nat, maxEntries : Nat \ {0}]
  \/ c \in [op : {"archive"}, paths : Seq(Paths), overwrite : BOOLEAN, format : {"zip", "tar"},
            dry : BOOLEAN]

ASSUME BatchAssumption ==
  /\ \A c \in Operations : IsOperation(c)
  /\ Batches \subseteq [ops : Seq(Operations) \ {<<>>}, continue : BOOLEAN, dry : BOOLEAN]
  /\ \A t \in FirstTrees : IsTree(t)

VARIABLES
  batch,           \* the one that runs
  results          \* BatchSummary.Results: the status of each operation so far

batchVars == <<control, files, walked, batch, results>>

Script == IF call.op \in FileOps THEN FileScript ELSE WalkScript
Total == Len(batch.ops)

\* firstFailure, and whether the loop goes on after it.
Failed == {"failed", "partial", "canceled"}

\* Mutant of StopsAfter: an interrupt is a failure like any other.
StopsAfterFailure(status) == status \in Failed /\ ~batch.continue

StopsAfter(status) == status \in Failed /\ (~batch.continue \/ status = "canceled")
Stopped == \E n \in 1 .. Len(results) : StopsAfter(results[n])

-----------------------------------------------------------------------------

BatchInit ==
  /\ batch \in Batches /\ results = <<>>
  /\ RequestsInit /\ call = batch.ops[1]
  /\ FileInit(FirstTrees)
  /\ WalkInit /\ (call.op = "archive" \/ local = "none")

Waits == todo = <<>> /\ outcome = "none" /\ Len(results) < Total

Begin ==
  /\ Waits /\ ~batch.dry /\ ~Stopped
  /\ Run(Script)
  /\ was' = Present(tree) /\ found' = <<>> /\ deeper' = FALSE
  /\ UNCHANGED <<tree, tagged, marked, edits, local, batch, results>>

\* The operation's line of the summary; the next one's turn.
Report(status) ==
  /\ results' = Append(results, status)
  /\ call' = IF Len(results') < Total THEN batch.ops[Len(results') + 1] ELSE call
  /\ outcome' = IF Len(results') < Total THEN "none" ELSE outcome
  /\ UNCHANGED <<todo, attempt, seen, carried, unsure, faults, runs, files, walked, batch>>

Record == outcome \in Failed \cup {"done"} /\ Len(results) < Total /\ Report(outcome)

PassOver ==
  /\ Waits
  /\ \/ Stopped /\ Report("skipped")
     \/ ~Stopped /\ batch.dry /\ Report("planned")

\* The context is cancelled; the request that is under way is not answered.
Interrupt ==
  /\ todo # <<>> /\ Fault
  /\ Fail("canceled") /\ UNCHANGED <<carried, unsure, files, walked, batch, results>>

Killed == Die /\ UNCHANGED <<files, walked, batch, results>>

\* The summary is complete, or was never written.
Over ==
  /\ todo = <<>> /\ (Len(results) = Total \/ outcome = "died")
  /\ UNCHANGED batchVars

BatchNext ==
  \/ Begin \/ Record \/ PassOver \/ Interrupt \/ Killed \/ Over
  \/ FileNext /\ UNCHANGED <<walked, batch, results>>
  \/ WalkNext /\ UNCHANGED <<batch, results>>

BatchSpec == BatchInit /\ [][BatchNext]_batchVars

-----------------------------------------------------------------------------
(* Properties *)

Carried(step) == \E i \in 1 .. Len(carried) : carried[i][1] = step

\* What an operation that ended well has found or done.
Promised ==
  CASE call.op = "mkdir" /\ call.parents ->
         \A n \in 1 .. Len(call.path) : <<SubSeq(call.path, 1, n), "dir">> \in was
    [] call.op = "mkdir" /\ ~call.parents -> \E c \in {"dir", "file"} : <<call.path, c>> \in was
    [] call.op = "touch" -> <<call.path, "file">> \in was
    [] call.op \in {"copy", "move"} -> Carried("transfer")
    [] call.op = "remove" -> Carried("delete")
    [] call.op = "upload" -> Carried("put")
    [] call.op = "tag" -> Carried("changeTag")
    [] call.op = "property" -> Carried("proppatch")
    [] OTHER -> TRUE

\* The status of an operation tells what it did: one that succeeded has found or
\* made what it promises, one that failed has changed nothing unless the answer
\* to a change was lost (mkdir --parents keeps the parents it made, touch the
\* file that was changed before it looked again), and one that
\* was skipped or planned was never begun.  The batch stops at the first failure
\* unless it is to go on, and always after an interrupt.
BatchIsHonest ==
  /\ outcome = "done" => Promised
  /\ outcome = "failed" /\ ~unsure /\ carried # <<>> =>
       call.op = "touch" \/ (call.op = "mkdir" /\ call.parents)
  /\ \A n \in 1 .. Len(results) :
       results[n] = "skipped" <=>
         \E m \in 1 .. n - 1 :
           results[m] = "canceled" \/ (results[m] \in Failed /\ ~batch.continue)
  /\ batch.dry => runs = 0 /\ carried = <<>>
  /\ runs = Cardinality({n \in 1 .. Len(results) : results[n] \notin {"skipped", "planned"}})
              + IF todo # <<>> \/ (outcome # "none" /\ Len(results) < Total) THEN 1 ELSE 0

\* What the running operation may take from the remote tree, and when a step
\* may put an archive in its place.
TreeAsAsked ==
  \A p \in Paths :
    tree[p] # "none" /\ tree'[p] # tree[p] =>
      CASE call.op = "remove" ->
             p \in Below(call.path) /\ (call.recursive \/ seen[One("stat")] # "dir")
        [] call.op = "move" ->
             \/ p \in Below(call.from)
             \/ call.overwrite /\ p \in Below(seen[One("resolve")])
        [] call.op = "copy" -> call.overwrite /\ p \in Below(seen[One("resolve")])
        [] call.op = "upload" -> p = call.path /\ ~call.noClobber /\ IsFile(p)
        [] OTHER -> FALSE

LocalAsAsked ==
  local' # local =>
    /\ local # "none" => call.overwrite /\ local # "dir"
    /\ seen[One("fetch")].whole \/ call.format = "tar"
    /\ Len(seen[One("fetch")].entries) <= MaxNumFiles

\* Nothing is lost that the operation was not asked to replace or remove, in the
\* remote tree nor at an archive's destination: a touch replaces nothing, an
\* upload, a copy and a move only with leave, and a directory is removed only
\* recursively unless it took the place of a file after the command had looked.
NothingLostUnasked == [][edits' = edits => TreeAsAsked /\ LocalAsAsked]_batchVars

Within(p) == p \in Below(call.path) /\ Depth(p) <= call.maxDepth
PathsOf(entries) == {entries[n][1] : n \in 1 .. Len(entries)}

\* tree and du show the tree: no path twice, nothing beyond the depth, not more
\* than the limit, nothing that was never there, and, when nobody changes the
\* tree, everything that is there; du says whether it has left something out.
WalkIsTree ==
  call.op \in WalkOps /\ outcome = "done" =>
    /\ Cardinality(PathsOf(found)) = Len(found)
    /\ Len(found) <= call.maxEntries
    /\ \A p \in PathsOf(found) : Within(p) /\ \E c \in {"dir", "file"} : <<p, c>> \in was
    /\ edits = 0 =>
         /\ PathsOf(found) = {p \in Paths : ~Missing(p) /\ Within(p)}
         /\ call.op = "du" =>
              (deeper <=> \E p \in Below(call.path) : ~Missing(p) /\ ~Within(p))
=============================================================================
