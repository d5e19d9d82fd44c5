---------------------------- MODULE TransferPool ----------------------------
(***************************************************************************)
(* Recursive uploads and downloads: the source tree is walked, its         *)
(* directories are made on the other side on the way, and its files are    *)
(* handed to a pool of workers over an unbuffered channel.  The first      *)
(* failure cancels the context of the pool.  The transfers themselves do   *)
(* not look at that context (transferRemote passes client.Context()), so a *)
(* failure stops the sender only, and the select of the sender may choose  *)
(* a waiting worker although the context is done.                          *)
(*                                                                         *)
(* Uploads and downloads of single files are atomic here; the modules      *)
(* Upload and Download are about what happens inside.  A node of the tree  *)
(* is a number in the order of the walk, 0 is its root.  The user may      *)
(* interrupt the command or kill it, and repeat it.                        *)
(* The operators marked "Mutant of" are used by no action.                 *)
(***************************************************************************)
EXTENDS Integers, FiniteSets

CONSTANTS
  Count,           \* the number of nodes below the root
  Dirs,            \* those that are directories
  Parent,          \* the directory each is in
  Size,            \* the sizes the walk has found
  Concurrency,     \* options.Concurrency
  Calls,           \* the requests in use, see Requests
  MaxFaults        \* bound on failures, interruptions and deaths

\* What is below the root, in the order of the walk.
Nodes == 1 .. Count
Files == Nodes \ Dirs

\* matching: the destination of a download has the name of its source.
Requests == [operation : {"upload", "download"}, noClobber : BOOLEAN, matching : BOOLEAN]
Places == {"itself", "inside"}

ASSUME TransferAssumption ==
  /\ Count \in Nat
  /\ Dirs \subseteq Nodes
  /\ \A n \in Nodes : Parent[n] \in Dirs \cup {0} /\ Parent[n] < n
  /\ Size \in [Nodes -> Nat]
  /\ Concurrency \in Nat /\ MaxFaults \in Nat
  /\ Calls \subseteq Requests

\* runTasks starts at least one worker and no more than there are tasks.
Workers == {w \in 1 .. Concurrency : w <= Cardinality(Files)} \cup {1}

VARIABLES
  destination,               \* what there is at the two places a tree may go to
  pc, request, landing,      \* the command, and the place it transfers to
  next,                      \* the next node of the walk
  taken,                     \* the tasks handed to workers
  worker, task,              \* what each worker does, with which file
  failure,                   \* the content of the channel failures, 0 for none
  stopped, interrupted,      \* the contexts of the pool and of the command are done
  reported, completedBytes, completedFiles,     \* progress
  outcome, faults

command == <<request, landing>>
contexts == <<stopped, interrupted>>
pool == <<taken, worker, task, failure, contexts>>
progress == <<reported, completedBytes, completedFiles>>
vars == <<destination, pc, command, next, pool, progress, outcome, faults>>

Fault == faults < MaxFaults /\ faults' = faults + 1

Done == stopped \/ interrupted

\* What the pool and the progress are before the first task.
Idle ==
  /\ taken' = {} /\ failure' = 0
  /\ worker' = [w \in Workers |-> "exited"] /\ task' = [w \in Workers |-> 0]
  /\ stopped' = FALSE /\ interrupted' = FALSE
  /\ reported' = [f \in Files |-> 0] /\ completedBytes' = 0 /\ completedFiles' = 0

\* The command returns and with it the process ends.
End(result) ==
  /\ pc' = "idle" /\ outcome' = result
  /\ next' = 0 /\ Idle
  /\ UNCHANGED command

-----------------------------------------------------------------------------
(* The walk *)

\* directoryDestination: an existing directory of another name is a parent.
Landing(r) ==
  IF r.operation = "download" /\ 0 \in destination["itself"] /\ ~r.matching
  THEN "inside" ELSE "itself"

Start ==
  /\ pc = "idle"
  /\ request' \in Calls
  /\ landing' = Landing(request')
  /\ pc' = "walk" /\ outcome' = "none"
  /\ UNCHANGED <<destination, next, pool, progress, faults>>

Add(node) == destination' = [destination EXCEPT ![landing] = @ \cup {node}]

\* Mutant of MakeDirectory: a directory that exists is an error.
MakeNewDirectory ==
  /\ pc = "walk" /\ next \in Dirs \cup {0} /\ ~interrupted
  /\ IF next \in destination[landing]
     THEN End("failed") /\ UNCHANGED destination
     ELSE /\ Add(next) /\ next' = next + 1
          /\ UNCHANGED <<pc, command, pool, progress, outcome>>
  /\ UNCHANGED faults

\* Mkdir or os.MkdirAll, which accept a directory that exists.
MakeDirectory ==
  /\ pc = "walk" /\ next \in Dirs \cup {0} /\ ~interrupted
  /\ Add(next) /\ next' = next + 1
  /\ UNCHANGED <<pc, command, pool, progress, outcome, faults>>

\* Only the walk of an upload looks at the context for each file.
CollectFile ==
  /\ pc = "walk" /\ next \in Files
  /\ interrupted => request.operation = "download"
  /\ next' = next + 1
  /\ UNCHANGED <<destination, pc, command, pool, progress, outcome, faults>>

\* Mutant of WalkFails: the walk goes on behind a directory it could not make.
WalkFailsSilently ==
  /\ pc = "walk" /\ next \in Nodes \cup {0}
  /\ (interrupted /\ UNCHANGED faults) \/ Fault
  /\ next' = next + 1
  /\ UNCHANGED <<destination, pc, command, pool, progress, outcome>>

\* Mkdir, List or Stat fails, or the context is done; a local directory may
\* have been made before.
WalkFails ==
  /\ pc = "walk" /\ next \in Nodes \cup {0}
  /\ (interrupted /\ UNCHANGED faults) \/ Fault
  /\ (Add(next) /\ next \in Dirs \cup {0}) \/ UNCHANGED destination
  /\ End("failed")

\* runTasks, which has nothing to do for a tree without files.
RunTasks ==
  /\ pc = "walk" /\ next \notin Nodes \cup {0}
  /\ IF Files = {}
     THEN End("done")
     ELSE /\ pc' = "send"
          /\ worker' = [w \in Workers |-> "receive"]
          /\ UNCHANGED <<command, next, taken, task, failure, contexts, progress, outcome>>
  /\ UNCHANGED <<destination, faults>>

-----------------------------------------------------------------------------
(* The sender *)

Remaining == Files \ taken

\* A waiting worker takes the next task, be the context done or not.
Hand(w) ==
  /\ pc = "send" /\ worker[w] = "receive"
  /\ \E f \in Remaining :
       /\ \A g \in Remaining : f <= g
       /\ taken' = taken \cup {f} /\ task' = [task EXCEPT ![w] = f]
  /\ worker' = [worker EXCEPT ![w] = "run"]
  /\ UNCHANGED <<destination, pc, command, next, failure, contexts, progress, outcome, faults>>

\* The loop ends, and the queue is closed.
StopSending ==
  /\ pc = "send" /\ (Remaining = {} \/ Done)
  /\ pc' = "wait"
  /\ UNCHANGED <<destination, command, next, pool, progress, outcome, faults>>

\* Mutant of Result: the context is not asked.
ResultUnasked == IF failure # 0 THEN "failed" ELSE "done"

Result == IF failure # 0 THEN "failed" ELSE IF Done THEN "canceled" ELSE "done"

\* wait.Wait(), then the first failure or the state of the context.
Return ==
  /\ pc = "wait" /\ \A w \in Workers : worker[w] = "exited"
  /\ End(Result)
  /\ UNCHANGED <<destination, faults>>

-----------------------------------------------------------------------------
(* A worker *)

Set(w, label) == worker' = [worker EXCEPT ![w] = label]

\* The queue is closed.
Leave(w) ==
  /\ pc = "wait" /\ worker[w] = "receive"
  /\ Set(w, "exited")
  /\ UNCHANGED <<destination, pc, command, next, taken, task, failure, contexts, progress,
                 outcome, faults>>

\* Mutant of Report: what was reported before is not taken back.
ReportAgain(f, bytes) ==
  /\ completedBytes' = completedBytes + bytes
  /\ reported' = [reported EXCEPT ![f] = bytes]

\* A retried transfer reports smaller numbers again.
Report(f, bytes) ==
  /\ completedBytes' = (completedBytes + bytes) - reported[f]
  /\ reported' = [reported EXCEPT ![f] = bytes]

\* A file may have got another size since the walk.
Progress(w) ==
  /\ worker[w] = "run"
  /\ \E bytes \in 0 .. Size[task[w]] + 1 : Report(task[w], bytes)
  /\ UNCHANGED <<destination, pc, command, next, pool, completedFiles, outcome, faults>>

\* The file is there: nobody else makes one, so nothing but a call before can
\* be in the way of one that may not overwrite.
Transfer(w) ==
  /\ worker[w] = "run"
  /\ request.noClobber => task[w] \notin destination[landing]
  /\ Add(task[w]) /\ Set(w, "report")
  /\ UNCHANGED <<pc, command, next, taken, task, failure, contexts, progress, outcome, faults>>

Complete(w) ==
  /\ worker[w] = "report"
  /\ Report(task[w], Size[task[w]])
  /\ completedFiles' = completedFiles + 1
  /\ Set(w, "receive")
  /\ UNCHANGED <<destination, pc, command, next, taken, task, failure, contexts, outcome, faults>>

\* The transfer fails, with or without effect: by itself, because the user has
\* interrupted it, or because of what is there.
Break(w) ==
  /\ worker[w] = "run"
  /\ \/ /\ (interrupted /\ UNCHANGED faults) \/ Fault
        /\ Add(task[w]) \/ UNCHANGED destination
     \/ request.noClobber /\ task[w] \in destination[landing] /\ UNCHANGED <<destination, faults>>
  /\ Set(w, "post")
  /\ UNCHANGED <<pc, command, next, taken, task, failure, contexts, progress, outcome>>

\* Mutant of Post: the worker tries its task again.
PostNothing(w) ==
  /\ worker[w] = "post"
  /\ Set(w, "run")
  /\ UNCHANGED <<destination, pc, command, next, taken, task, failure, contexts, progress,
                 outcome, faults>>

\* The channel has room for one failure; others are dropped.
Post(w) ==
  /\ worker[w] = "post"
  /\ IF failure = 0
     THEN failure' = task[w] /\ Set(w, "cancel")
     ELSE Set(w, "exited") /\ UNCHANGED failure
  /\ UNCHANGED <<destination, pc, command, next, taken, task, contexts, progress, outcome, faults>>

Cancel(w) ==
  /\ worker[w] = "cancel"
  /\ stopped' = TRUE
  /\ Set(w, "exited")
  /\ UNCHANGED <<destination, pc, command, next, taken, task, failure, interrupted, progress,
                 outcome, faults>>

-----------------------------------------------------------------------------
(* The user *)

Interrupt ==
  /\ pc # "idle" /\ ~interrupted /\ Fault
  /\ interrupted' = TRUE
  /\ UNCHANGED <<destination, pc, command, next, taken, worker, task, failure, stopped, progress,
                 outcome>>

Kill ==
  /\ pc # "idle" /\ Fault
  /\ End("killed")
  /\ UNCHANGED destination

-----------------------------------------------------------------------------

Init ==
  /\ destination \in [Places -> {{}}]
  /\ pc = "idle" /\ request \in Calls /\ landing = "itself"
  /\ next = 0 /\ taken = {} /\ failure = 0
  /\ worker = [w \in Workers |-> "exited"] /\ task = [w \in Workers |-> 0]
  /\ stopped = FALSE /\ interrupted = FALSE
  /\ reported = [f \in Files |-> 0] /\ completedBytes = 0 /\ completedFiles = 0
  /\ outcome = "none" /\ faults = 0

WalkStep == MakeDirectory \/ CollectFile \/ RunTasks
SenderStep == (\E w \in Workers : Hand(w)) \/ StopSending \/ Return
WorkerStep(w) == Leave(w) \/ Transfer(w) \/ Complete(w) \/ Break(w) \/ Post(w) \/ Cancel(w)

Next ==
  \/ Start \/ WalkStep \/ WalkFails \/ SenderStep
  \/ \E w \in Workers : WorkerStep(w) \/ Progress(w)
  \/ Interrupt \/ Kill

Spec == Init /\ [][Next]_vars

\* The goroutines run, every transfer ends, and the user repeats the command.
FairSpec ==
  /\ Spec
  /\ WF_vars(WalkStep) /\ WF_vars(WalkFails /\ interrupted) /\ WF_vars(SenderStep)
  /\ \A w \in Workers : WF_vars(WorkerStep(w))
  /\ WF_vars(Start)

-----------------------------------------------------------------------------
(* Properties *)

Active == {"run", "report", "post", "cancel"}

TypeOK ==
  /\ destination \in [Places -> SUBSET (Nodes \cup {0})]
  /\ pc \in {"idle", "walk", "send", "wait"} /\ request \in Requests /\ landing \in Places
  /\ next \in Nat /\ taken \subseteq Files /\ failure \in Files \cup {0}
  /\ worker \in [Workers -> Active \cup {"receive", "exited"}]
  /\ task \in [Workers -> Files \cup {0}]
  /\ stopped \in BOOLEAN /\ interrupted \in BOOLEAN
  /\ reported \in [Files -> Nat] /\ completedBytes \in Int /\ completedFiles \in Nat
  /\ outcome \in {"none", "done", "failed", "canceled", "killed"}
  /\ faults \in 0 .. MaxFaults

\* The sizes of the first files added up.
SumTo(sizes) ==
  LET sum[n \in 0 .. Count] ==
        IF n = 0 THEN 0 ELSE sum[n - 1] + (IF n \in Files THEN sizes[n] ELSE 0)
  IN sum

Total(sizes) == SumTo(sizes)[Count]

\* Whatever the workers report in whatever order, the bytes shown are those of
\* the files, and in the end of a success all bytes and files are shown.
ProgressAddsUp ==
  /\ completedBytes = Total(reported)
  /\ pc = "wait" /\ Result = "done" /\ (\A w \in Workers : worker[w] = "exited") =>
       completedFiles = Cardinality(Files) /\ completedBytes = Total(Size)

\* No file is put where its directory has not been made.
ParentsFirst ==
  \A p \in Places : \A n \in Nodes : n \in destination[p] => Parent[n] \in destination[p]

\* A command that succeeds has made and transferred all of the tree; one that
\* says it was canceled was, and one that fails in the pool knows a failure.
AnswerIsTrue ==
  [][pc # "idle" /\ pc' = "idle" =>
       /\ outcome' = "done" => Nodes \cup {0} \subseteq destination[landing]
       /\ outcome' = "canceled" => interrupted
       /\ outcome' = "failed" => pc = "walk" \/ failure # 0]_vars

\* The sender, the workers and the channels never wait for each other for good.
CommandReturns == pc # "idle" ~> pc = "idle"

\* Repeating a command that may overwrite succeeds again and again.
RepeatSucceeds == []<>(pc = "walk" /\ ~request.noClobber) => []<>(outcome = "done")
=============================================================================
