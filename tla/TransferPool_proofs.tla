------------------------ MODULE TransferPool_proofs -------------------------
(***************************************************************************)
(* A recursive transfer tells the truth about its outcome and never puts a *)
(* file where there is no directory, for every tree, every number of       *)
(* workers and every interleaving of them with failures and interruptions. *)
(* The progress shown is that of the files, which takes sums over all of   *)
(* them.  The termination stays with TLC.                                  *)
(***************************************************************************)
EXTENDS TransferPool, FiniteSetTheorems, WellFoundedInduction, TLAPS

\* The directories before node n have been made.
Made(n) == \A d \in Dirs \cup {0} : d < n => d \in destination[landing]

\* The walk is ahead of the pool, and the pool of its return.
WalkMatchesPc ==
  /\ pc = "walk" => next <= Count + 1 /\ Made(next) /\ taken = {} /\ failure = 0 /\ ~stopped
  /\ pc \in {"send", "wait"} => Made(Count + 1)
  /\ pc = "wait" => Remaining = {} \/ Done
  /\ pc = "idle" => next = 0 /\ taken = {} /\ failure = 0 /\ ~stopped /\ ~interrupted

\* A worker that is not done has a task, and a pool.
WorkersHaveTasks ==
  \A w \in Workers :
    /\ worker[w] # "exited" => pc \in {"send", "wait"}
    /\ worker[w] \in Active => task[w] \in taken
    /\ worker[w] = "cancel" => failure # 0

\* No task gets lost: it is done, or a worker has it, or the failure of some
\* task is known.
NoTaskLost ==
  \A f \in taken :
    \/ f \in destination[landing] \/ failure # 0
    \/ \E w \in Workers : task[w] = f /\ worker[w] \in {"run", "post"}

\* Only a failure stops the pool.
StoppedByFailure == stopped => failure # 0

\* The inductive invariant.
IInv ==
  /\ TypeOK /\ ParentsFirst
  /\ WalkMatchesPc /\ WorkersHaveTasks /\ NoTaskLost /\ StoppedByFailure

-----------------------------------------------------------------------------

LEMMA FaultTypes ==
  ASSUME TypeOK, Fault
  PROVE  faults' \in 0 .. MaxFaults
  BY TransferAssumption DEF Fault, TypeOK

\* What is added keeps the types and all that was there.
LEMMA AddEffect ==
  ASSUME TypeOK, NEW node \in Nodes \cup {0}, Add(node)
  PROVE  /\ destination' \in [Places -> SUBSET (Nodes \cup {0})]
         /\ \A p \in Places : destination[p] \subseteq destination'[p]
         /\ \A p \in Places : destination'[p] \subseteq destination[p] \cup {node}
         /\ \A p \in Places : p # landing => destination'[p] = destination[p]
         /\ node \in destination'[landing]
  BY DEF TypeOK, Add

\* A command that has ended satisfies everything.
LEMMA EndHolds ==
  ASSUME IInv, End("done") \/ End("failed") \/ End("canceled") \/ End("killed"),
         destination' \in [Places -> SUBSET (Nodes \cup {0})], ParentsFirst',
         faults' \in 0 .. MaxFaults
  PROVE  IInv'
<1> USE DEF End, Idle, command
<1>1. TypeOK'
  <2>1. outcome' \in {"none", "done", "failed", "canceled", "killed"} /\ pc' = "idle"
    OBVIOUS
  <2>2. /\ worker' \in [Workers -> Active \cup {"receive", "exited"}]
        /\ task' \in [Workers -> Files \cup {0}]
    OBVIOUS
  <2>3. stopped' \in BOOLEAN /\ interrupted' \in BOOLEAN
    BY Zenon
  <2>4. reported' \in [Files -> Nat] /\ completedBytes' \in Int /\ completedFiles' \in Nat
    OBVIOUS
  <2>5. request' \in Requests /\ landing' \in Places /\ next' \in Nat
        /\ taken' \subseteq Files /\ failure' \in Files \cup {0}
    BY DEF IInv, TypeOK
  <2> QED
    BY <2>1, <2>2, <2>3, <2>4, <2>5 DEF TypeOK
<1>2. WalkMatchesPc' /\ WorkersHaveTasks'
  BY DEF WalkMatchesPc, WorkersHaveTasks, Active
<1>3. NoTaskLost' /\ StoppedByFailure'
  BY DEF NoTaskLost, StoppedByFailure
<1> QED
  BY <1>1, <1>2, <1>3 DEF IInv

\* A file is put beside its directory once the walk is over.
LEMMA AddFile ==
  ASSUME IInv, NEW f \in Files, Add(f), pc \in {"send", "wait"}
  PROVE  ParentsFirst'
<1>1. Parent[f] \in destination[landing]
  <2>1. Parent[f] \in Dirs \cup {0} /\ Parent[f] < f /\ f \in 1 .. Count
    BY TransferAssumption DEF Files, Nodes
  <2>2. Parent[f] \in Nat /\ Count \in Nat
    <3>1. Count \in Nat /\ Dirs \subseteq 1 .. Count
      BY TransferAssumption DEF Nodes
    <3>2. CASE Parent[f] = 0
      BY <3>1, <3>2
    <3>3. CASE Parent[f] \in Dirs
      <4>1. Parent[f] \in 1 .. Count
        BY <3>1, <3>3
      <4> QED
        BY <3>1, <4>1
    <3> QED
      BY <2>1, <3>2, <3>3
  <2>3. Parent[f] < Count + 1
    BY <2>1, <2>2
  <2> QED
    BY <2>1, <2>3 DEF IInv, WalkMatchesPc, Made
<1>2. \A p \in Places, n \in Nodes :
        n \in destination'[p] => n \in destination[p] \/ (n = f /\ p = landing)
  BY AddEffect DEF IInv, Files
<1>3. \A p \in Places : destination[p] \subseteq destination'[p]
  BY AddEffect DEF IInv, Files
<1> QED
  BY <1>1, <1>2, <1>3 DEF IInv, ParentsFirst

\* A directory is put into its directory during the walk.
LEMMA AddDirectory ==
  ASSUME IInv, pc = "walk", next \in Dirs \cup {0}, Add(next)
  PROVE  ParentsFirst'
<1>0. next \in Nodes \cup {0} /\ next \in Nat
  BY TransferAssumption DEF Nodes
<1>1. next \in Nodes => Parent[next] \in destination[landing]
  <2> HAVE next \in Nodes
  <2>1. Parent[next] \in Dirs \cup {0} /\ Parent[next] < next
    BY TransferAssumption
  <2> QED
    BY <2>1 DEF IInv, WalkMatchesPc, Made
<1>2. \A p \in Places, n \in Nodes :
        n \in destination'[p] => n \in destination[p] \/ (n = next /\ p = landing)
  BY <1>0, AddEffect DEF IInv
<1>3. \A p \in Places : destination[p] \subseteq destination'[p]
  BY <1>0, AddEffect DEF IInv
<1> QED
  BY <1>1, <1>2, <1>3 DEF IInv, ParentsFirst

LEMMA InitInv == Init => IInv
<1> SUFFICES ASSUME Init PROVE IInv
  OBVIOUS
<1>1. TypeOK
  <2>1. destination \in [Places -> SUBSET (Nodes \cup {0})] /\ landing \in Places
    BY DEF Init, Places
  <2>2. request \in Requests /\ faults \in 0 .. MaxFaults
    BY TransferAssumption DEF Init
  <2>3. /\ worker \in [Workers -> Active \cup {"receive", "exited"}]
        /\ task \in [Workers -> Files \cup {0}]
    BY DEF Init
  <2>4. stopped \in BOOLEAN /\ interrupted \in BOOLEAN /\ reported \in [Files -> Nat]
    BY DEF Init
  <2> QED
    BY <2>1, <2>2, <2>3, <2>4 DEF Init, TypeOK
<1>2. ParentsFirst
  BY DEF Init, ParentsFirst
<1>3. WalkMatchesPc /\ WorkersHaveTasks
  BY DEF Init, WalkMatchesPc, WorkersHaveTasks, Active
<1>4. NoTaskLost /\ StoppedByFailure
  BY DEF Init, NoTaskLost, StoppedByFailure
<1> QED
  BY <1>1, <1>2, <1>3, <1>4 DEF IInv

\* A step of the walk that does not end the command.
LEMMA WalkNext ==
  ASSUME IInv, Start \/ MakeDirectory \/ CollectFile
  PROVE  IInv'
<1>0. TypeOK /\ ParentsFirst /\ WalkMatchesPc /\ WorkersHaveTasks /\ NoTaskLost /\ StoppedByFailure
  BY DEF IInv
<1> USE DEF pool, progress, contexts, command
<1>1. CASE Start
  <2>1. TypeOK'
    <3>1. request' \in Requests /\ landing' \in Places
      BY <1>1, TransferAssumption DEF Start, Landing, Places
    <3> QED
      BY <1>0, <1>1, <3>1 DEF Start, TypeOK
  <2>2. WalkMatchesPc'
    BY <1>0, <1>1, TransferAssumption DEF Start, WalkMatchesPc, Made, Nodes
  <2>3. ParentsFirst' /\ WorkersHaveTasks' /\ NoTaskLost' /\ StoppedByFailure'
    BY <1>0, <1>1 DEF Start, ParentsFirst, WalkMatchesPc, WorkersHaveTasks, NoTaskLost,
       StoppedByFailure
  <2> QED
    BY <2>1, <2>2, <2>3 DEF IInv
<1>2. CASE MakeDirectory
  <2>0. pc = "walk" /\ pc' = "walk" /\ next \in Nodes \cup {0} /\ next \in Nat /\ next' = next + 1
        /\ next <= Count /\ Add(next)
    BY <1>2, TransferAssumption DEF MakeDirectory, Nodes
  <2>1. TypeOK'
    BY <1>0, <1>2, <2>0, AddEffect DEF MakeDirectory, TypeOK
  <2>2. ParentsFirst'
    BY <1>2, AddDirectory DEF MakeDirectory
  <2>3. WalkMatchesPc'
    <3>1. Made(next)'
      <4> SUFFICES ASSUME NEW d \in Dirs \cup {0}, d < next + 1 PROVE d \in destination'[landing]
        BY <1>2, <2>0 DEF MakeDirectory, Made
      <4>1. d \in Nat
        BY TransferAssumption DEF Nodes
      <4>2. d < next \/ d = next
        BY <2>0, <4>1
      <4>3. landing \in Places
        BY <1>0 DEF TypeOK
      <4> QED
        BY <1>0, <2>0, <4>2, <4>3, AddEffect DEF WalkMatchesPc, Made
    <3> QED
      BY <1>0, <1>2, <2>0, <3>1, TransferAssumption DEF MakeDirectory, WalkMatchesPc
  <2>4. WorkersHaveTasks' /\ NoTaskLost' /\ StoppedByFailure'
    BY <1>0, <1>2, <2>0 DEF MakeDirectory, WalkMatchesPc, WorkersHaveTasks, NoTaskLost,
       StoppedByFailure
  <2> QED
    BY <2>1, <2>2, <2>3, <2>4 DEF IInv
<1>3. CASE CollectFile
  <2>0. pc = "walk" /\ pc' = "walk" /\ next \in Nat /\ next \notin Dirs \cup {0}
        /\ next' = next + 1 /\ next <= Count
    BY <1>3, TransferAssumption DEF CollectFile, Files, Nodes
  <2>1. TypeOK'
    BY <1>0, <1>3, <2>0 DEF CollectFile, TypeOK
  <2>2. WalkMatchesPc'
    <3>1. \A d \in Dirs \cup {0} : d < next + 1 => d < next
      BY <2>0, TransferAssumption DEF Nodes
    <3>2. Made(next)'
      BY <1>0, <1>3, <2>0, <3>1 DEF CollectFile, WalkMatchesPc, Made
    <3> QED
      BY <1>0, <1>3, <2>0, <3>2, TransferAssumption DEF CollectFile, WalkMatchesPc
  <2>3. ParentsFirst' /\ WorkersHaveTasks' /\ NoTaskLost' /\ StoppedByFailure'
    BY <1>0, <1>3, <2>0 DEF CollectFile, ParentsFirst, WorkersHaveTasks, NoTaskLost,
       StoppedByFailure
  <2> QED
    BY <2>1, <2>2, <2>3 DEF IInv
<1> QED
  BY <1>1, <1>2, <1>3

\* The steps that end the command.
LEMMA EndNext ==
  ASSUME IInv, WalkFails \/ Return \/ Kill \/ (RunTasks /\ Files = {})
  PROVE  IInv'
<1>1. End("done") \/ End("failed") \/ End("canceled") \/ End("killed")
  BY DEF WalkFails, Return, Result, Kill, RunTasks
<1>2. faults' \in 0 .. MaxFaults
  BY FaultTypes DEF WalkFails, Return, Kill, RunTasks, IInv, TypeOK
<1>3. CASE UNCHANGED destination
  BY <1>1, <1>2, <1>3, EndHolds DEF IInv, TypeOK, ParentsFirst
<1>4. CASE ~UNCHANGED destination
  <2>1. pc = "walk" /\ next \in Dirs \cup {0} /\ next \in Nodes \cup {0} /\ Add(next)
    BY <1>4 DEF WalkFails, Return, Kill, RunTasks
  <2>2. ParentsFirst' /\ destination' \in [Places -> SUBSET (Nodes \cup {0})]
    BY <2>1, AddDirectory, AddEffect DEF IInv
  <2> QED
    BY <1>1, <1>2, <2>2, EndHolds
<1> QED
  BY <1>3, <1>4

\* The steps of the sender and of the user that go on.
LEMMA SenderNext ==
  ASSUME IInv, (RunTasks /\ Files # {}) \/ (\E w \in Workers : Hand(w)) \/ StopSending \/ Interrupt
  PROVE  IInv'
<1>0. TypeOK /\ ParentsFirst /\ WalkMatchesPc /\ WorkersHaveTasks /\ NoTaskLost /\ StoppedByFailure
  BY DEF IInv
<1> USE DEF pool, progress, contexts, command
<1>1. CASE RunTasks /\ Files # {}
  <2>1. TypeOK'
    BY <1>0, <1>1 DEF RunTasks, TypeOK
  <2>2. pc = "walk" /\ next = Count + 1
    BY <1>0, <1>1, TransferAssumption DEF RunTasks, WalkMatchesPc, TypeOK, Nodes
  <2>3. WalkMatchesPc' /\ WorkersHaveTasks' /\ NoTaskLost' /\ StoppedByFailure' /\ ParentsFirst'
    BY <1>0, <1>1, <2>2 DEF RunTasks, WalkMatchesPc, Made, WorkersHaveTasks, NoTaskLost,
       StoppedByFailure, ParentsFirst, Active
  <2> QED
    BY <2>1, <2>3 DEF IInv
<1>2. CASE \E w \in Workers : Hand(w)
  <2>1. PICK w \in Workers, f \in Remaining :
          /\ pc = "send" /\ worker[w] = "receive"
          /\ taken' = taken \cup {f} /\ task' = [task EXCEPT ![w] = f]
          /\ worker' = [worker EXCEPT ![w] = "run"]
          /\ UNCHANGED <<destination, pc, command, next, failure, contexts, progress, outcome,
                         faults>>
    BY <1>2 DEF Hand
  <2>2. f \in Files
    BY <2>1 DEF Remaining
  <2>3. TypeOK'
    BY <1>0, <2>1, <2>2 DEF TypeOK, Active
  <2>4. WalkMatchesPc' /\ ParentsFirst' /\ StoppedByFailure'
    BY <1>0, <2>1 DEF WalkMatchesPc, Made, ParentsFirst, StoppedByFailure
  <2>5. WorkersHaveTasks'
    BY <1>0, <2>1 DEF WorkersHaveTasks, Active, TypeOK
  <2>6. NoTaskLost'
    <3> SUFFICES ASSUME NEW g \in taken \cup {f}
                 PROVE  \/ g \in destination[landing] \/ failure # 0
                        \/ \E v \in Workers : task'[v] = g /\ worker'[v] \in {"run", "post"}
      BY <2>1 DEF NoTaskLost
    <3>1. CASE g = f
      BY <1>0, <2>1, <3>1 DEF TypeOK
    <3>2. CASE g \in taken
      BY <1>0, <2>1, <3>2 DEF NoTaskLost, TypeOK
    <3> QED
      BY <3>1, <3>2
  <2> QED
    BY <2>3, <2>4, <2>5, <2>6 DEF IInv
<1>3. CASE StopSending
  BY <1>0, <1>3 DEF StopSending, IInv, TypeOK, ParentsFirst, WalkMatchesPc, Made, Remaining, Done,
     WorkersHaveTasks, NoTaskLost, StoppedByFailure
<1>4. CASE Interrupt
  <2>1. faults' \in 0 .. MaxFaults
    BY <1>0, <1>4, FaultTypes DEF Interrupt
  <2> QED
    BY <1>0, <1>4, <2>1 DEF Interrupt, IInv, TypeOK, ParentsFirst, WalkMatchesPc, Made, Remaining,
       Done, WorkersHaveTasks, NoTaskLost, StoppedByFailure
<1> QED
  BY <1>1, <1>2, <1>3, <1>4

\* A report is of bytes.
LEMMA ReportTypes ==
  ASSUME TypeOK, NEW f \in Files, NEW bytes \in Nat, Report(f, bytes)
  PROVE  reported' \in [Files -> Nat] /\ completedBytes' \in Int
  BY DEF Report, TypeOK

\* Only the types speak of the progress, the outcome and the faults.
LEMMA Unmoved ==
  ASSUME IInv, TypeOK', UNCHANGED <<destination, pc, command, next, pool>>
  PROVE  IInv'
  BY DEF command, pool, contexts, IInv, ParentsFirst, WalkMatchesPc, Made, Remaining, Done,
     WorkersHaveTasks, NoTaskLost, StoppedByFailure

\* The steps of a worker.
LEMMA WorkerNext ==
  ASSUME IInv, NEW w \in Workers, WorkerStep(w) \/ Progress(w)
  PROVE  IInv'
<1>0. TypeOK /\ ParentsFirst /\ WalkMatchesPc /\ WorkersHaveTasks /\ NoTaskLost /\ StoppedByFailure
  BY DEF IInv
<1>1. worker[w] \in Active => task[w] \in taken /\ task[w] \in Files /\ pc \in {"send", "wait"}
  BY <1>0 DEF WorkersHaveTasks, TypeOK, Active
<1> USE DEF pool, progress, contexts, command
<1>2. CASE Leave(w)
  BY <1>0, <1>2 DEF Leave, Set, IInv, TypeOK, ParentsFirst, WalkMatchesPc, Made, Remaining, Done,
     WorkersHaveTasks, NoTaskLost, StoppedByFailure, Active
<1>3. CASE Progress(w)
  <2>1. PICK bytes \in 0 .. Size[task[w]] + 1 : Report(task[w], bytes)
    BY <1>3 DEF Progress
  <2>2. TypeOK'
    BY <1>0, <1>1, <1>3, <2>1, ReportTypes DEF Progress, TypeOK, Active
  <2> QED
    BY <1>0, <1>3, <2>2, Unmoved DEF Progress, IInv
<1>4. CASE Transfer(w)
  <2>0. task[w] \in Nodes \cup {0} /\ pc \in {"send", "wait"} /\ Add(task[w]) /\ landing \in Places
    BY <1>0, <1>1, <1>4 DEF Transfer, Active, Files, TypeOK
  <2>1. TypeOK'
    BY <1>0, <1>4, <2>0, AddEffect DEF Transfer, Set, TypeOK, Active
  <2>2. ParentsFirst'
    BY <1>1, <1>4, AddFile DEF Transfer, Active
  <2>3. WalkMatchesPc' /\ StoppedByFailure'
    BY <1>0, <1>4, <2>0, AddEffect DEF Transfer, WalkMatchesPc, Made, Remaining, Done,
       StoppedByFailure
  <2>4. WorkersHaveTasks'
    BY <1>0, <1>1, <1>4 DEF Transfer, Set, WorkersHaveTasks, Active, TypeOK
  <2>5. NoTaskLost'
    <3> SUFFICES ASSUME NEW f \in taken, f \notin destination'[landing], failure = 0
                 PROVE  \E v \in Workers : task[v] = f /\ worker'[v] \in {"run", "post"}
      BY <1>4 DEF Transfer, NoTaskLost
    <3>1. PICK v \in Workers : task[v] = f /\ worker[v] \in {"run", "post"}
      BY <1>0, <2>0, AddEffect DEF NoTaskLost
    <3>2. v # w
      BY <2>0, <3>1, <1>0, AddEffect
    <3> QED
      BY <1>0, <1>4, <3>1, <3>2 DEF Transfer, Set, TypeOK
  <2> QED
    BY <2>1, <2>2, <2>3, <2>4, <2>5 DEF IInv
<1>5. CASE Complete(w)
  <2>1. TypeOK'
    <3>1. Size[task[w]] \in Nat
      BY <1>1, <1>5, TransferAssumption DEF Complete, Active, Files
    <3> QED
      BY <1>0, <1>1, <1>5, <3>1, ReportTypes DEF Complete, Set, TypeOK, Active
  <2>2. ParentsFirst' /\ WalkMatchesPc' /\ StoppedByFailure'
    BY <1>0, <1>5 DEF Complete, ParentsFirst, WalkMatchesPc, Made, Remaining, Done,
       StoppedByFailure
  <2>3. WorkersHaveTasks'
    BY <1>0, <1>1, <1>5 DEF Complete, Set, WorkersHaveTasks, Active, TypeOK
  <2>4. NoTaskLost'
    BY <1>0, <1>5 DEF Complete, Set, NoTaskLost, TypeOK
  <2> QED
    BY <2>1, <2>2, <2>3, <2>4 DEF IInv
<1>6. CASE Break(w)
  <2>0. task[w] \in Nodes \cup {0} /\ pc \in {"send", "wait"} /\ landing \in Places
        /\ task[w] \in Files /\ faults' \in 0 .. MaxFaults
        /\ (Add(task[w]) \/ UNCHANGED destination)
    BY <1>0, <1>1, <1>6, FaultTypes DEF Break, Active, Files, TypeOK
  <2>1. /\ destination' \in [Places -> SUBSET (Nodes \cup {0})] /\ ParentsFirst'
        /\ \A p \in Places : destination[p] \subseteq destination'[p]
    <3>1. CASE Add(task[w])
      BY <1>0, <2>0, <3>1, AddEffect, AddFile
    <3>2. CASE UNCHANGED destination
      BY <1>0, <3>2 DEF TypeOK, ParentsFirst
    <3> QED
      BY <2>0, <3>1, <3>2
  <2>2. TypeOK'
    BY <1>0, <1>6, <2>0, <2>1 DEF Break, Set, TypeOK, Active
  <2>3. WalkMatchesPc' /\ StoppedByFailure'
    BY <1>0, <1>6, <2>0, <2>1 DEF Break, WalkMatchesPc, Made, Remaining, Done, StoppedByFailure
  <2>4. WorkersHaveTasks'
    BY <1>0, <1>1, <1>6 DEF Break, Set, WorkersHaveTasks, Active, TypeOK
  <2>5. NoTaskLost'
    BY <1>0, <1>6, <2>0, <2>1 DEF Break, Set, NoTaskLost, TypeOK
  <2> QED
    BY <2>1, <2>2, <2>3, <2>4, <2>5 DEF IInv
<1>7. CASE Post(w)
  <2>0. task[w] \in Files /\ worker[w] = "post"
    BY <1>1, <1>7 DEF Post, Active
  <2>1. TypeOK'
    BY <1>0, <1>7, <2>0 DEF Post, Set, TypeOK, Active
  <2>2. task[w] # 0
    BY <2>0, TransferAssumption DEF Files, Nodes
  <2>3. failure' # 0
    BY <1>7, <2>2 DEF Post
  <2>4. ParentsFirst' /\ WalkMatchesPc' /\ StoppedByFailure' /\ NoTaskLost'
    BY <1>0, <1>1, <1>7, <2>0, <2>3 DEF Post, ParentsFirst, WalkMatchesPc, Made, Remaining, Done,
       StoppedByFailure, NoTaskLost, Active
  <2>5. WorkersHaveTasks'
    BY <1>0, <1>1, <1>7, <2>0, <2>3 DEF Post, Set, WorkersHaveTasks, Active, TypeOK
  <2> QED
    BY <2>1, <2>4, <2>5 DEF IInv
<1>8. CASE Cancel(w)
  <2>0. failure # 0 /\ worker[w] = "cancel"
    BY <1>0, <1>8 DEF Cancel, WorkersHaveTasks
  <2>1. TypeOK'
    BY <1>0, <1>8 DEF Cancel, Set, TypeOK, Active
  <2>2. ParentsFirst' /\ WalkMatchesPc' /\ StoppedByFailure' /\ NoTaskLost'
    BY <1>0, <1>1, <1>8, <2>0 DEF Cancel, ParentsFirst, WalkMatchesPc, Made, Remaining, Done,
       StoppedByFailure, NoTaskLost, Active
  <2>3. WorkersHaveTasks'
    BY <1>0, <1>1, <1>8, <2>0 DEF Cancel, Set, WorkersHaveTasks, Active, TypeOK
  <2> QED
    BY <2>1, <2>2, <2>3 DEF IInv
<1> QED
  BY <1>2, <1>3, <1>4, <1>5, <1>6, <1>7, <1>8 DEF WorkerStep

\* Every step preserves the inductive invariant.
LEMMA NextInv == IInv /\ [Next]_vars => IInv'
<1> SUFFICES ASSUME IInv, [Next]_vars PROVE IInv'
  OBVIOUS
<1>1. CASE UNCHANGED vars
  BY <1>1, Unmoved DEF vars, command, contexts, pool, progress, IInv, TypeOK
<1>2. CASE Next
  BY <1>2, WalkNext, EndNext, SenderNext, WorkerNext DEF Next, WalkStep, SenderStep
<1> QED
  BY <1>1, <1>2

\* The inductive invariant holds throughout.
THEOREM Invariance == Spec => []IInv
  BY InitInv, NextInv, PTL DEF Spec

\* The state stays well typed.
THEOREM TypeCorrect == Spec => []TypeOK
  BY Invariance, PTL DEF IInv

\* No file is ever put where its directory has not been made.
THEOREM DirectoriesFirst == Spec => []ParentsFirst
  BY Invariance, PTL DEF IInv

\* The outcome a recursive transfer reports is true: a success is of the whole
\* tree, a cancellation was asked for, a failure is of some task.
THEOREM TruthfulAnswer == Spec => AnswerIsTrue
<1>1. IInv /\ [Next]_vars =>
        [pc # "idle" /\ pc' = "idle" =>
           /\ outcome' = "done" => Nodes \cup {0} \subseteq destination[landing]
           /\ outcome' = "canceled" => interrupted
           /\ outcome' = "failed" => pc = "walk" \/ failure # 0]_vars
  <2> SUFFICES ASSUME IInv, Next, pc # "idle", pc' = "idle"
               PROVE  /\ outcome' = "done" => Nodes \cup {0} \subseteq destination[landing]
                      /\ outcome' = "canceled" => interrupted
                      /\ outcome' = "failed" => pc = "walk" \/ failure # 0
    OBVIOUS
  <2>1. WalkFails \/ RunTasks \/ Return \/ Kill
    BY DEF Next, Start, WalkStep, MakeDirectory, CollectFile, SenderStep, Hand, StopSending,
       WorkerStep, Leave, Transfer, Complete, Break, Post, Cancel, Progress, Interrupt
  <2>2. \A n \in Nodes \cup {0} : n < Count + 1
    BY TransferAssumption DEF Nodes
  <2>3. CASE WalkFails \/ Kill
    BY <2>3 DEF WalkFails, Kill, End
  <2>4. CASE RunTasks
    <3>1. End("done") /\ Files = {} /\ pc = "walk" /\ next = Count + 1
      BY <2>4, TransferAssumption DEF RunTasks, IInv, WalkMatchesPc, TypeOK, Nodes
    <3>2. Nodes \subseteq Dirs
      BY <3>1 DEF Files
    <3> QED
      BY <2>2, <3>1, <3>2 DEF End, IInv, WalkMatchesPc, Made
  <2>5. CASE Return
    <3>1. pc = "wait" /\ outcome' = Result /\ \A w \in Workers : worker[w] = "exited"
      BY <2>5 DEF Return, End
    <3>2. outcome' = "done" => failure = 0 /\ Remaining = {}
      BY <3>1 DEF Result, Done, IInv, WalkMatchesPc
    <3>3. failure = 0 => taken \subseteq destination[landing]
      BY <3>1 DEF IInv, NoTaskLost
    <3>4. Dirs \cup {0} \subseteq destination[landing]
      <4>1. Dirs \subseteq Nodes
        BY TransferAssumption
      <4> QED
        BY <2>2, <3>1, <4>1 DEF IInv, WalkMatchesPc, Made
    <3>5. outcome' = "done" => Nodes \cup {0} \subseteq destination[landing]
      BY <3>2, <3>3, <3>4 DEF Remaining, Files
    <3> QED
      BY <3>1, <3>5 DEF Result, Done, IInv, StoppedByFailure
  <2> QED
    BY <2>1, <2>3, <2>4, <2>5
<1> QED
  BY <1>1, Invariance, PTL DEF Spec, AnswerIsTrue

-----------------------------------------------------------------------------
(* The progress adds up *)

\* Every non-empty set of naturals has a least element.
LEMMA Least ==
  ASSUME NEW S, S \subseteq Nat, S # {}
  PROVE  \E n \in S : \A m \in S : n <= m
<1> DEFINE R == {ss \in Nat \X Nat : ss[1] < ss[2]}
<1>1. IsWellFoundedOn(R, Nat)
  <2>1. R = OpToRel(<, Nat)
    BY DEF OpToRel
  <2> QED
    BY <2>1, NatLessThanWellFounded
<1> HIDE DEF R
<1>2. PICK x \in S : \A y \in S : ~(<<y, x>> \in R)
  BY <1>1, WFMin
<1>3. \A y \in S : ~(y < x)
  BY <1>2 DEF R
<1> QED
  BY <1>3

\* The sums satisfy their recursion.
LEMMA SumSteps ==
  ASSUME NEW sizes
  PROVE  /\ SumTo(sizes)[0] = 0
         /\ \A n \in 1 .. Count :
              SumTo(sizes)[n] = SumTo(sizes)[n - 1] + (IF n \in Files THEN sizes[n] ELSE 0)
<1> DEFINE Step(s, n) == IF n = 0 THEN 0 ELSE s[n - 1] + (IF n \in Files THEN sizes[n] ELSE 0)
           UpTo(s, k) == s = [n \in 0 .. k |-> Step(s, n)]
           Open == {k \in 0 .. Count : \A s : ~UpTo(s, k)}
<1>0. Count \in Nat
  BY TransferAssumption
<1>1. Open = {}
  <2> SUFFICES ASSUME Open # {} PROVE FALSE
    OBVIOUS
  <2>1. PICK k \in Open : \A m \in Open : k <= m
    <3>1. Open \subseteq Nat
      BY <1>0
    <3> HIDE DEF Open
    <3> QED
      BY <3>1, Least
  <2>2. CASE k = 0
    <3>1. UpTo([n \in 0 .. 0 |-> 0], 0)
      OBVIOUS
    <3> QED
      BY <2>1, <2>2, <3>1
  <2>3. CASE k # 0
    <3>1. k - 1 \in 0 .. Count /\ k \in 1 .. Count /\ ~(k <= k - 1)
      BY <1>0, <2>1, <2>3
    <3>2. PICK s : UpTo(s, k - 1)
      BY <2>1, <3>1
    <3> DEFINE t == [n \in 0 .. k |-> Step(s, n)]
    <3>3. \A n \in 0 .. k - 1 : t[n] = s[n]
      BY <3>1, <3>2
    <3>4. \A n \in 0 .. k : n = 0 \/ n - 1 \in 0 .. k - 1
      BY <3>1
    <3>5. \A n \in 0 .. k : Step(t, n) = Step(s, n)
      <4> HIDE DEF t
      <4> QED
        BY <3>3, <3>4
    <3>6. t = [n \in 0 .. k |-> Step(t, n)]
      <4>1. t = [n \in 0 .. k |-> Step(s, n)]
        OBVIOUS
      <4> HIDE DEF t, Step
      <4> QED
        BY <3>5, <4>1
    <3> QED
      BY <2>1, <3>6
  <2> QED
    BY <2>2, <2>3
<1>2. PICK s : UpTo(s, Count)
  BY <1>0, <1>1
<1>3. SumTo(sizes) = [n \in 0 .. Count |-> Step(SumTo(sizes), n)]
  <2>1. SumTo(sizes) = CHOOSE s_1 : UpTo(s_1, Count)
    BY DEF SumTo
  <2> HIDE DEF UpTo
  <2>2. UpTo(SumTo(sizes), Count)
    BY <1>2, <2>1
  <2> QED
    BY <2>2 DEF UpTo
<1> QED
  BY <1>0, <1>3

\* A sum of numbers is a number.
LEMMA SumTypes ==
  ASSUME NEW sizes \in [Files -> Int]
  PROVE  \A n \in 0 .. Count : SumTo(sizes)[n] \in Int
<1> DEFINE Bad == {n \in 0 .. Count : SumTo(sizes)[n] \notin Int}
<1>0. Count \in Nat
  BY TransferAssumption
<1> SUFFICES ASSUME Bad # {} PROVE FALSE
  OBVIOUS
<1>1. PICK n \in Bad : \A m \in Bad : n <= m
  <2>1. Bad \subseteq Nat
    BY <1>0
  <2> HIDE DEF Bad
  <2> QED
    BY <2>1, Least
<1>2. n # 0
  BY <1>1, SumSteps
<1>3. n \in 1 .. Count /\ n - 1 \in 0 .. Count /\ ~(n <= n - 1)
  BY <1>0, <1>1, <1>2
<1>4. SumTo(sizes)[n - 1] \in Int
  BY <1>1, <1>3
<1>5. SumTo(sizes)[n] = SumTo(sizes)[n - 1] + (IF n \in Files THEN sizes[n] ELSE 0)
  BY <1>3, SumSteps
<1> QED
  BY <1>1, <1>4, <1>5

\* Changing one size changes the total by the difference.
LEMMA TotalChanges ==
  ASSUME NEW sizes \in [Files -> Int], NEW f \in Files, NEW bytes \in Int
  PROVE  Total([sizes EXCEPT ![f] = bytes]) = (Total(sizes) + bytes) - sizes[f]
<1> DEFINE other == [sizes EXCEPT ![f] = bytes]
           Moved(n) == IF f <= n THEN bytes - sizes[f] ELSE 0
           Bad == {n \in 0 .. Count : SumTo(other)[n] # SumTo(sizes)[n] + Moved(n)}
<1>0. Count \in Nat /\ f \in 1 .. Count /\ other \in [Files -> Int]
  BY TransferAssumption DEF Files, Nodes
<1>1. Bad = {}
  <2> SUFFICES ASSUME Bad # {} PROVE FALSE
    OBVIOUS
  <2>1. PICK n \in Bad : \A m \in Bad : n <= m
    <3>1. Bad \subseteq Nat
      BY <1>0
    <3> HIDE DEF Bad
    <3> QED
      BY <3>1, Least
  <2>2. n # 0
    <3>1. SumTo(other)[0] = 0 /\ SumTo(sizes)[0] = 0
      BY SumSteps
    <3> QED
      BY <1>0, <2>1, <3>1
  <2>3. n \in 1 .. Count /\ n - 1 \in 0 .. Count /\ ~(n <= n - 1)
    BY <1>0, <2>1, <2>2
  <2>4. SumTo(other)[n - 1] = SumTo(sizes)[n - 1] + Moved(n - 1)
    BY <2>1, <2>3
  <2>5. /\ SumTo(sizes)[n] = SumTo(sizes)[n - 1] + (IF n \in Files THEN sizes[n] ELSE 0)
        /\ SumTo(other)[n] = SumTo(other)[n - 1] + (IF n \in Files THEN other[n] ELSE 0)
    BY <2>3, SumSteps
  <2>6. SumTo(sizes)[n - 1] \in Int
    BY <2>3, SumTypes
  <2>7. /\ n \in Files => sizes[n] \in Int
        /\ other[f] = bytes /\ \A g \in Files : g # f => other[g] = sizes[g]
        /\ sizes[f] \in Int
    OBVIOUS
  <2>8. SumTo(other)[n] = SumTo(sizes)[n] + Moved(n)
    <3> HIDE DEF other
    <3>1. CASE n = f
      BY <1>0, <2>3, <2>4, <2>5, <2>6, <2>7, <3>1
    <3>2. CASE n # f
      <4>1. Moved(n) = Moved(n - 1) /\ Moved(n) \in Int
        BY <1>0, <2>3, <2>7, <3>2
      <4>2. n \in Files => other[n] = sizes[n]
        BY <2>7, <3>2
      <4> HIDE DEF Moved
      <4> QED
        BY <2>4, <2>5, <2>6, <2>7, <4>1, <4>2
    <3> QED
      BY <3>1, <3>2
  <2> QED
    BY <2>1, <2>8
<1>2. SumTo(other)[Count] = SumTo(sizes)[Count] + Moved(Count)
  <2>1. Count \in 0 .. Count
    BY <1>0
  <2>2. \A n \in 0 .. Count : SumTo(other)[n] = SumTo(sizes)[n] + Moved(n)
    BY <1>1
  <2> HIDE DEF other, Moved, Bad
  <2> QED
    BY <2>1, <2>2
<1>3. SumTo(sizes)[Count] \in Int /\ sizes[f] \in Int /\ Moved(Count) = bytes - sizes[f]
  BY <1>0, SumTypes
<1> HIDE DEF Moved
<1> QED
  BY <1>2, <1>3 DEF Total

\* The total is that of the files.
LEMMA TotalOfSame ==
  ASSUME NEW sizes, NEW others, \A f \in Files : sizes[f] = others[f]
  PROVE  Total(sizes) = Total(others)
<1> DEFINE Bad == {n \in 0 .. Count : SumTo(sizes)[n] # SumTo(others)[n]}
<1>0. Count \in Nat
  BY TransferAssumption
<1>1. Bad = {}
  <2> SUFFICES ASSUME Bad # {} PROVE FALSE
    OBVIOUS
  <2>1. PICK n \in Bad : \A m \in Bad : n <= m
    <3>1. Bad \subseteq Nat
      BY <1>0
    <3> HIDE DEF Bad
    <3> QED
      BY <3>1, Least
  <2>2. n # 0
    BY <2>1, SumSteps
  <2>3. n \in 1 .. Count /\ n - 1 \in 0 .. Count /\ ~(n <= n - 1)
    BY <1>0, <2>1, <2>2
  <2>4. SumTo(sizes)[n - 1] = SumTo(others)[n - 1]
    BY <2>1, <2>3
  <2>5. /\ SumTo(sizes)[n] = SumTo(sizes)[n - 1] + (IF n \in Files THEN sizes[n] ELSE 0)
        /\ SumTo(others)[n] = SumTo(others)[n - 1] + (IF n \in Files THEN others[n] ELSE 0)
    BY <2>3, SumSteps
  <2> QED
    BY <2>1, <2>4, <2>5
<1> QED
  BY <1>0, <1>1 DEF Total

\* Nothing adds up to nothing.
LEMMA TotalOfNothing == Total([f \in Files |-> 0]) = 0
<1> DEFINE zero == [f \in Files |-> 0]
           Bad == {n \in 0 .. Count : SumTo(zero)[n] # 0}
<1>0. Count \in Nat
  BY TransferAssumption
<1>1. Bad = {}
  <2> SUFFICES ASSUME Bad # {} PROVE FALSE
    OBVIOUS
  <2>1. PICK n \in Bad : \A m \in Bad : n <= m
    <3>1. Bad \subseteq Nat
      BY <1>0
    <3> HIDE DEF Bad
    <3> QED
      BY <3>1, Least
  <2>2. n # 0
    BY <2>1, SumSteps
  <2>3. n \in 1 .. Count /\ n - 1 \in 0 .. Count /\ ~(n <= n - 1)
    BY <1>0, <2>1, <2>2
  <2>4. SumTo(zero)[n - 1] = 0
    BY <2>1, <2>3
  <2>5. SumTo(zero)[n] = SumTo(zero)[n - 1] + (IF n \in Files THEN zero[n] ELSE 0)
    <3> HIDE DEF zero
    <3> QED
      BY <2>3, SumSteps
  <2> QED
    BY <2>1, <2>4, <2>5
<1> QED
  BY <1>0, <1>1 DEF Total

\* The files a worker has to do with.
Busy == {task[w] : w \in {v \in Workers : worker[v] \in Active}}
Finished == taken \ Busy

\* No two workers have to do with one file.
OneEach ==
  \A v, w \in Workers : worker[v] \in Active /\ worker[w] \in Active /\ task[v] = task[w] => v = w

\* As long as no failure is known, what was taken and is in nobody's hands is
\* counted and has been reported in full.
Counted ==
  failure = 0 =>
    /\ completedFiles = Cardinality(Finished)
    /\ \A f \in Finished : reported[f] = Size[f]

\* What the sum of the reports takes, on top of the invariant of the transfer.
AddsInv == completedBytes = Total(reported) /\ OneEach /\ Counted

LEMMA FilesFinite == IsFiniteSet(Files) /\ \A S \in SUBSET Files : IsFiniteSet(S)
<1>1. IsFiniteSet(Nodes)
  BY TransferAssumption, FS_Interval DEF Nodes
<1>2. \A S \in SUBSET Nodes : IsFiniteSet(S)
  BY <1>1, FS_Subset
<1> QED
  BY <1>2 DEF Files

\* A report moves the sum as it moves what it reports.
LEMMA ReportAdds ==
  ASSUME TypeOK, completedBytes = Total(reported), NEW f \in Files, NEW bytes \in Nat,
         Report(f, bytes)
  PROVE  /\ completedBytes' = Total(reported')
         /\ reported'[f] = bytes /\ \A g \in Files : g # f => reported'[g] = reported[g]
<1>1. reported \in [Files -> Int] /\ bytes \in Int
  BY DEF TypeOK
<1>2. Total([reported EXCEPT ![f] = bytes]) = (Total(reported) + bytes) - reported[f]
  BY <1>1, TotalChanges
<1> QED
  BY <1>1, <1>2 DEF Report

LEMMA AddsInit == Init => AddsInv
<1> SUFFICES ASSUME Init PROVE AddsInv
  OBVIOUS
<1>1. Finished = {} /\ OneEach
  BY DEF Init, Finished, OneEach, Active
<1>2. Cardinality({}) = 0
  BY FS_EmptySet
<1> QED
  BY <1>1, <1>2, TotalOfNothing DEF Init, AddsInv, Counted

\* A step that leaves the pool and the progress alone.
LEMMA AddsUnmoved ==
  ASSUME AddsInv, UNCHANGED <<taken, worker, task, failure, progress>>
  PROVE  AddsInv'
  BY DEF AddsInv, OneEach, Counted, Finished, Busy, progress

\* An ended command has nothing to count.
LEMMA AddsEnd ==
  ASSUME NEW result, End(result)
  PROVE  AddsInv'
<1>1. Finished' = {} /\ OneEach'
  BY DEF End, Idle, Finished, OneEach, Active
<1>2. Cardinality({}) = 0
  BY FS_EmptySet
<1> QED
  BY <1>1, <1>2, TotalOfNothing DEF End, Idle, AddsInv, Counted

\* A step of a worker within its task, and one behind a failure.
LEMMA AddsWithin ==
  ASSUME IInv, AddsInv, NEW w \in Workers, NEW label \in Active,
         worker[w] \in Active, Set(w, label), failure' = failure \/ failure' # 0,
         UNCHANGED <<taken, task, progress>>
  PROVE  AddsInv'
<1>1. \A v \in Workers : worker'[v] \in Active <=> worker[v] \in Active
  BY DEF Set, IInv, TypeOK
<1>2. Busy' = Busy /\ OneEach'
  BY <1>1 DEF Busy, AddsInv, OneEach
<1> QED
  BY <1>2 DEF AddsInv, Counted, Finished, progress

LEMMA AddsBehind ==
  ASSUME IInv, AddsInv, NEW w \in Workers, Set(w, "exited"), failure' # 0,
         UNCHANGED <<taken, task, progress>>
  PROVE  AddsInv'
<1>1. \A v \in Workers : worker'[v] \in Active => worker[v] \in Active
  BY DEF Set, IInv, TypeOK, Active
<1>2. OneEach'
  BY <1>1 DEF AddsInv, OneEach
<1> QED
  BY <1>2 DEF AddsInv, Counted, progress

\* The steps of the sender.
LEMMA AddsSender ==
  ASSUME IInv, AddsInv, (RunTasks /\ Files # {}) \/ (\E w \in Workers : Hand(w))
  PROVE  AddsInv'
<1>1. CASE RunTasks /\ Files # {}
  <2>1. /\ pc = "walk" /\ \A w \in Workers : worker'[w] = "receive"
        /\ UNCHANGED <<taken, task, failure, progress>>
    BY <1>1 DEF RunTasks
  <2>2. \A w \in Workers : worker[w] = "exited"
    BY <2>1 DEF IInv, WorkersHaveTasks
  <2>3. Busy = {} /\ Busy' = {} /\ OneEach'
    BY <2>1, <2>2 DEF Busy, OneEach, Active
  <2> QED
    BY <2>1, <2>3 DEF AddsInv, Counted, Finished, progress
<1>2. CASE \E w \in Workers : Hand(w)
  <2>1. PICK w \in Workers, f \in Remaining :
          /\ worker[w] = "receive"
          /\ taken' = taken \cup {f} /\ task' = [task EXCEPT ![w] = f]
          /\ worker' = [worker EXCEPT ![w] = "run"]
          /\ UNCHANGED <<failure, progress>>
    BY <1>2 DEF Hand
  <2>2. /\ worker'[w] \in Active /\ worker[w] \notin Active /\ task'[w] = f
        /\ \A v \in Workers : v # w => worker'[v] = worker[v] /\ task'[v] = task[v]
    BY <2>1 DEF IInv, TypeOK, Active
  <2>3. f \notin taken /\ \A v \in Workers : worker[v] \in Active => task[v] \in taken
    BY <2>1 DEF Remaining, IInv, WorkersHaveTasks
  <2>4. OneEach'
    BY <2>2, <2>3 DEF AddsInv, OneEach
  <2>5. Finished' = Finished
    <3>1. Busy' = Busy \cup {f}
      BY <2>2 DEF Busy
    <3>2. f \notin taken
      BY <2>3
    <3> QED
      BY <2>1, <3>1, <3>2 DEF Finished
  <2> QED
    BY <2>1, <2>4, <2>5 DEF AddsInv, Counted, progress
<1> QED
  BY <1>1, <1>2

\* A file done moves from its worker to the ones that are finished.
LEMMA AddsComplete ==
  ASSUME IInv, AddsInv, NEW w \in Workers, Complete(w)
  PROVE  AddsInv'
<1>0. TypeOK
  BY DEF IInv
<1> DEFINE file == task[w]
<1>1. worker[w] \in Active /\ file \in taken /\ file \in Files /\ Size[file] \in Nat
  <2>1. worker[w] \in Active /\ file \in taken
    BY DEF Complete, Active, IInv, WorkersHaveTasks
  <2> QED
    BY <1>0, <2>1, TransferAssumption DEF TypeOK, Files
<1>2. /\ completedBytes' = Total(reported')
      /\ reported'[file] = Size[file] /\ \A g \in Files : g # file => reported'[g] = reported[g]
  BY <1>0, <1>1, ReportAdds DEF Complete, AddsInv
<1>3. /\ worker'[w] \notin Active
      /\ \A v \in Workers : v # w => worker'[v] = worker[v]
      /\ UNCHANGED <<task, taken, failure>> /\ completedFiles' = completedFiles + 1
  BY <1>0 DEF Complete, Set, TypeOK, Active
<1>4. OneEach'
  BY <1>3 DEF AddsInv, OneEach
<1>5. Busy' = Busy \ {file} /\ file \in Busy
  <2>1. \A v \in Workers : v # w /\ worker[v] \in Active => task[v] # file
    BY <1>1 DEF AddsInv, OneEach
  <2> QED
    BY <1>1, <1>3, <2>1 DEF Busy
<1>6. Finished' = Finished \cup {file} /\ file \notin Finished
  BY <1>1, <1>3, <1>5 DEF Finished
<1>7. Finished \subseteq Files /\ IsFiniteSet(Finished)
  BY <1>0, FilesFinite DEF TypeOK, Finished
<1>8. Cardinality(Finished') = Cardinality(Finished) + 1
  BY <1>6, <1>7, FS_AddElement
<1>9. Counted'
  <2> SUFFICES ASSUME failure = 0
               PROVE  /\ completedFiles' = Cardinality(Finished')
                      /\ \A f \in Finished' : reported'[f] = Size[f]
    BY <1>3 DEF Counted
  <2>1. completedFiles = Cardinality(Finished) /\ \A f \in Finished : reported[f] = Size[f]
    BY DEF AddsInv, Counted
  <2>2. completedFiles' = Cardinality(Finished')
    BY <1>3, <1>8, <2>1
  <2>3. \A f \in Finished' : reported'[f] = Size[f]
    BY <1>2, <1>6, <1>7, <2>1
  <2> QED
    BY <2>2, <2>3
<1> QED
  BY <1>2, <1>4, <1>9 DEF AddsInv

\* The steps of a worker.
LEMMA AddsWorker ==
  ASSUME IInv, AddsInv, NEW w \in Workers, WorkerStep(w) \/ Progress(w)
  PROVE  AddsInv'
<1>0. TypeOK
  BY DEF IInv
<1>1. worker[w] \in Active => task[w] \in taken /\ task[w] \in Files /\ task[w] # 0
  BY TransferAssumption DEF IInv, WorkersHaveTasks, TypeOK, Files, Nodes
<1> USE DEF pool, contexts
<1>2. CASE Leave(w)
  <2>1. worker[w] = "receive" /\ Set(w, "exited") /\ UNCHANGED <<taken, task, failure, progress>>
    BY <1>2 DEF Leave
  <2>2. \A v \in Workers : worker'[v] \in Active <=> worker[v] \in Active
    BY <1>0, <2>1 DEF Set, TypeOK, Active
  <2>3. Busy' = Busy /\ OneEach'
    BY <2>1, <2>2 DEF Busy, AddsInv, OneEach
  <2> QED
    BY <2>1, <2>3 DEF AddsInv, Counted, Finished, progress
<1>3. CASE Progress(w)
  <2>1. PICK bytes \in 0 .. Size[task[w]] + 1 : Report(task[w], bytes)
    BY <1>3 DEF Progress
  <2>2. bytes \in Nat /\ task[w] \in Files /\ task[w] \in Busy
    BY <1>1, <1>3, <2>1 DEF Progress, Active, Busy
  <2>3. /\ completedBytes' = Total(reported')
        /\ \A g \in Files : g # task[w] => reported'[g] = reported[g]
    BY <1>0, <2>1, <2>2, ReportAdds DEF AddsInv
  <2>4. UNCHANGED <<taken, worker, task, failure, completedFiles>>
    BY <1>3 DEF Progress
  <2>5. Finished' = Finished /\ OneEach'
    BY <2>4 DEF Finished, Busy, AddsInv, OneEach
  <2>6. \A f \in Finished : f \in Files /\ f # task[w]
    BY <1>0, <2>2 DEF Finished, TypeOK
  <2>7. Counted'
    BY <2>3, <2>4, <2>5, <2>6 DEF AddsInv, Counted
  <2> QED
    BY <2>3, <2>5, <2>7 DEF AddsInv
<1>4. CASE Transfer(w)
  BY <1>4, AddsWithin DEF Transfer, Active
<1>5. CASE Complete(w)
  BY <1>5, AddsComplete
<1>6. CASE Break(w)
  BY <1>6, AddsWithin DEF Break, Active
<1>7. CASE Post(w)
  <2>1. worker[w] \in Active /\ task[w] # 0 /\ UNCHANGED <<taken, task, progress>>
    BY <1>1, <1>7 DEF Post, Active
  <2>2. CASE failure = 0
    BY <1>7, <2>1, <2>2, AddsWithin DEF Post, Active
  <2>3. CASE failure # 0
    BY <1>7, <2>1, <2>3, AddsBehind DEF Post
  <2> QED
    BY <2>2, <2>3
<1>8. CASE Cancel(w)
  <2>1. failure # 0 /\ failure' = failure /\ Set(w, "exited") /\ UNCHANGED <<taken, task, progress>>
    BY <1>8 DEF Cancel, IInv, WorkersHaveTasks
  <2> QED
    BY <2>1, AddsBehind
<1> QED
  BY <1>2, <1>3, <1>4, <1>5, <1>6, <1>7, <1>8 DEF WorkerStep

LEMMA AddsNext == IInv /\ AddsInv /\ [Next]_vars => AddsInv'
<1> SUFFICES ASSUME IInv, AddsInv, [Next]_vars PROVE AddsInv'
  OBVIOUS
<1> USE DEF pool, contexts
<1>1. CASE UNCHANGED vars
  BY <1>1, AddsUnmoved DEF vars
<1>2. CASE Start \/ MakeDirectory \/ CollectFile \/ StopSending \/ Interrupt
  BY <1>2, AddsUnmoved DEF Start, MakeDirectory, CollectFile, StopSending, Interrupt
<1>3. CASE WalkFails \/ Return \/ Kill \/ (RunTasks /\ Files = {})
  BY <1>3, AddsEnd DEF WalkFails, Return, Kill, RunTasks
<1>4. CASE (RunTasks /\ Files # {}) \/ (\E w \in Workers : Hand(w))
  BY <1>4, AddsSender
<1>5. CASE \E w \in Workers : WorkerStep(w) \/ Progress(w)
  BY <1>5, AddsWorker
<1> QED
  BY <1>1, <1>2, <1>3, <1>4, <1>5 DEF Next, WalkStep, SenderStep

\* The bytes shown are at any time those of the reports, in whatever order the
\* workers report, again or less than before; when a command is about to
\* succeed, all files and all bytes are shown.
THEOREM ProgressIsTrue == Spec => []ProgressAddsUp
<1>1. IInv /\ AddsInv => ProgressAddsUp
  <2> SUFFICES ASSUME IInv, AddsInv, pc = "wait", Result = "done",
                      \A w \in Workers : worker[w] = "exited"
               PROVE  completedFiles = Cardinality(Files) /\ completedBytes = Total(Size)
    BY DEF AddsInv, ProgressAddsUp
  <2>1. failure = 0 /\ Remaining = {}
    BY DEF Result, Done, IInv, WalkMatchesPc
  <2>2. Finished = Files
    BY <2>1 DEF Finished, Busy, Active, Remaining, IInv, TypeOK
  <2>3. completedFiles = Cardinality(Files) /\ \A f \in Files : reported[f] = Size[f]
    BY <2>1, <2>2 DEF AddsInv, Counted
  <2>4. Total(reported) = Total(Size)
    BY <2>3, TotalOfSame
  <2> QED
    BY <2>3, <2>4 DEF AddsInv
<1> QED
  BY <1>1, InitInv, NextInv, AddsInit, AddsNext, PTL DEF Spec
=============================================================================
