------------------------- MODULE BidirectionalSync -------------------------
(***************************************************************************)
(* `ocis sync bidirectional`: one run loads the baseline, scans both       *)
(* trees, plans, journals, applies the plan action by action, scans again  *)
(* and only then advances the baseline.  SyncExecution has the state and   *)
(* the steps it shares with the one-way commands.                          *)
(***************************************************************************)
EXTENDS SyncExecution

(* Planning *)

prefer == request.prefer

OriginalPlan == BuildBidirectional(seenLocal, seenRemote, previous)

\* Two spellings of one name refuse the run before any journal is written.
RefuseIdentity ==
  /\ pc = "plan"
  /\ PathIdentityCollision(Filter(seenLocal), Filter(seenRemote))
  /\ End("refused")
  /\ UNCHANGED <<local, remote, disk, clock, bounds, history>>

\* An unresolved conflict, or one keep-both cannot resolve: report it.
ReportConflict ==
  /\ pc = "plan"
  /\ ~PathIdentityCollision(Filter(seenLocal), Filter(seenRemote))
  /\ LET original == OriginalPlan
     IN  /\ HasConflict(original)
         /\ prefer = "" \/ ~KeepsAll(original, prefer, seenLocal, seenRemote)
         /\ journal' = Journal("conflict", original, <<>>, <<>>)
  /\ End("conflict")
  /\ UNCHANGED <<local, remote, baseline, clock, bounds, history>>

AcceptPlan ==
  /\ pc = "plan"
  /\ ~PathIdentityCollision(Filter(seenLocal), Filter(seenRemote))
  /\ LET original == OriginalPlan
     IN  /\ \/ ~HasConflict(original)
            \/ prefer # "" /\ KeepsAll(original, prefer, seenLocal, seenRemote)
         /\ plan' = ResolveConflicts(original, prefer)
  /\ journal' = Journal("running", plan', <<>>, <<>>)
  /\ pc' = "next"
  /\ UNCHANGED <<local, remote, baseline, outcome, clock, bounds, history,
                 request, previous, seenLocal, seenRemote, step, fetched>>

-----------------------------------------------------------------------------
(* The journal of the actions *)

SourceVerified(a) ==
  \/ a.kind = "copy"
  \/ SideIs(Opposite(a.target), IF a.kind = "move" THEN a.path ELSE SourcePath(a), a.source)

\* Mutant of BeginAction: nothing is recorded until the action is completed.
BeginUnrecorded ==
  /\ pc = "next"
  /\ step <= Len(plan) /\ Current.kind # "skip"
  /\ SourceVerified(Current)
  /\ Goto("verify")
  /\ UNCHANGED <<local, remote, disk, outcome, clock, bounds, history>>

\* Verify the source, then record the action as pending before touching anything.
BeginAction ==
  /\ pc = "next"
  /\ step <= Len(plan) /\ Current.kind # "skip"
  /\ SourceVerified(Current)
  /\ journal' = [journal EXCEPT !.current = <<Current>>]
  /\ Goto("verify")
  /\ UNCHANGED <<local, remote, baseline, outcome, clock, bounds, history>>

SourceChanged ==
  /\ pc = "next"
  /\ step <= Len(plan) /\ Current.kind # "skip"
  /\ ~SourceVerified(Current)
  /\ EndWithJournal("failed")
  /\ UNCHANGED <<local, remote, baseline, clock, bounds, history>>

RecordCompleted ==
  /\ pc = "record"
  /\ journal' = [journal EXCEPT !.completed = Append(@, Current), !.current = <<>>]
  /\ step' = step + 1
  /\ pc' = "next"
  /\ UNCHANGED <<local, remote, baseline, outcome, clock, bounds, history,
                 request, previous, seenLocal, seenRemote, plan, fetched>>

-----------------------------------------------------------------------------
(* The new baseline *)

\* Mutant of SnapshotsConverge: the second scan compares names only.
SamePaths(left, right) == DOMAIN left = DOMAIN right

SnapshotsConverge(left, right) ==
  /\ DOMAIN left = DOMAIN right
  /\ \A p \in DOMAIN left : Converged(left[p], right[p])

SaveBaseline ==
  /\ pc = "compare"
  /\ RootsUsable(seenLocal, seenRemote)
  /\ SnapshotsConverge(Filter(seenLocal), Filter(seenRemote))
  /\ baseline' = NewState(Filter(seenLocal), Filter(seenRemote))
  /\ Goto("finish")
  /\ UNCHANGED <<local, remote, journal, outcome, clock, bounds, history>>

NotConverged ==
  /\ pc = "compare"
  /\ RootsUsable(seenLocal, seenRemote) => ~SnapshotsConverge(Filter(seenLocal), Filter(seenRemote))
  /\ EndWithJournal("failed")
  /\ UNCHANGED <<local, remote, baseline, clock, bounds, history>>

RemoveJournal ==
  /\ pc = "finish"
  /\ journal' = NoJournal
  /\ End("applied")
  /\ UNCHANGED <<local, remote, baseline, clock, bounds, history>>

-----------------------------------------------------------------------------
PlanStep == RefuseIdentity \/ ReportConflict \/ AcceptPlan

WorkStep ==
  \/ ExecutionStep
  \/ BeginAction \/ SourceChanged \/ RecordCompleted
  \/ SaveBaseline \/ NotConverged \/ RemoveJournal

Next == Start \/ PlanStep \/ WorkStep \/ Environment \/ NoMoreRuns

RecordsAgreement(state) ==
  \A p \in DOMAIN state.entries :
    Converged(state.entries[p].source, state.entries[p].destination)

\* A baseline found on disk is one that an earlier run has saved.
BidirectionalInit == Init /\ RecordsAgreement(baseline)

Spec == BidirectionalInit /\ [][Next]_vars

\* A run goes on: every request has a timeout.  Planning is fair in terms of pc
\* alone, since exactly one of the PlanSteps is always enabled there.
FairSpec ==
  /\ Spec
  /\ WF_vars(WorkStep)
  /\ WF_pc(pc = "plan" /\ pc' \in {"idle", "next"})

\* The user in addition runs the command again and again.
RetryingSpec == FairSpec /\ WF_vars(Start)

-----------------------------------------------------------------------------
(* Properties *)

Merge == INSTANCE ThreeWayMerge

\* The common ancestor a saved baseline describes; none is an empty one.
BaseTree(state) ==
  [p \in DOMAIN state.entries |->
     [type |-> state.entries[p].source.type, content |-> state.entries[p].source.checksum]]

\* What a scan saw, after the filters, as a tree; with checksums it is all there is.
SeenTree(seen) ==
  [p \in DOMAIN Filter(seen) |-> [type |-> seen[p].type, content |-> seen[p].checksum]]
SeenUnmergeable ==
  Merge!Unmergeable(SeenTree(seenLocal), SeenTree(seenRemote), BaseTree(previous))

OriginMerge == Merge!Merged(origin.local, origin.remote, BaseTree(origin.baseline))
OriginUnmergeable == Merge!Unmergeable(origin.local, origin.remote, BaseTree(origin.baseline))

\* An attempt that reports success has made both trees the three-way merge of
\* what it first found, and the new baseline is that merge, no matter where
\* earlier runs of it were interrupted.
AppliedIsMerge ==
  QuietEnd /\ outcome = "applied" /\ prefer = "" =>
    /\ Merge!SameTree(Clean(local), Clean(OriginMerge))
    /\ Merge!SameTree(local, remote)
    /\ baseline.found /\ Merge!SameTree(local, BaseTree(baseline))

\* A run stops for a conflict exactly when no merge exists of the trees it has seen,
\* whatever the order and number of changes, and goes on otherwise.  The exception:
\* include patterns leave the root out as soon as nothing in it matches, and where
\* both sides have lost what they had the planner takes their roots for missing.
ConflictIffUnmergeable ==
  [][/\ pc = "plan" /\ prefer = ""
     /\ pc' = "next" \/ outcome' = "conflict"
     /\ Root \in DOMAIN Filter(seenLocal) \cup DOMAIN Filter(seenRemote)
     => (outcome' = "conflict" <=> SeenUnmergeable)]_vars

\* An interrupted run left the two steps of a replacement, or the removals of a
\* directory and of what was below it, half done.
HalfReplaced ==
  \E p \in DOMAIN baseline.entries : \E tree \in {local, remote} :
    /\ p \in DOMAIN tree /\ tree[p].type # baseline.entries[p].source.type
    /\ p \notin DOMAIN local \cap DOMAIN remote
HalfRemoved ==
  \E p, q \in DOMAIN baseline.entries :
    /\ IsDescendant(q, p) /\ q \notin DOMAIN local \cup DOMAIN remote
    /\ baseline.entries[p].source.type = "directory"
    /\ TypeAt(local, p) # TypeAt(remote, p)

\* Running again after an interruption reports a conflict that the trees did not
\* have before only if the interruption left one of these two halves.
RetryConflictsOnlyHalfDone ==
  QuietEnd /\ outcome = "conflict" /\ prefer = "" =>
    OriginUnmergeable \/ HalfReplaced \/ HalfRemoved

\* A file move out of a directory that the same plan removes or replaces earlier.
MovesOutOfRemoved(actions) ==
  \E i, j \in DOMAIN actions :
    /\ i < j /\ DestroysDirectory(actions[i]) /\ actions[j].kind = "move"
    /\ actions[i].target = actions[j].target
    /\ IsDescendant(actions[j].from, actions[i].path)

\* A remote version is set aside to prefer the local one.
SetsRemoteAside(actions) == \E a \in ToSet(actions) : a.kind = "copy" /\ a.target = "remote"

\* A run that nothing interferes with and that goes on to work succeeds, but for a
\* file moved out of a removed directory and for a remote version set aside.
MergeableSucceeds ==
  QuietEnd /\ interference = {} /\ outcome = "failed" =>
    MovesOutOfRemoved(plan) \/ SetsRemoteAside(plan)

\* The same without the exception of removed directories.
ConflictFreePlanSucceeds == QuietEnd /\ interference = {} => outcome # "failed"

ClashesAt(p) == Merge!ClashesAt(origin.local, origin.remote, BaseTree(origin.baseline), p)
FileClashes ==
  {p \in DOMAIN origin.local \cap DOMAIN origin.remote :
     /\ p # Root /\ ClashesAt(p)
     /\ origin.local[p].type = "file" /\ origin.remote[p].type = "file"}

\* Where both sides changed a file the preferred version stays at its path, the
\* other survives beside it on both sides, and everything else is merged as usual.
BothSurvive ==
  QuietEnd /\ interference = {} /\ prefer # "" /\ outcome = "applied" =>
    LET winner == IF prefer = "local" THEN origin.local ELSE origin.remote
        loser == IF prefer = "local" THEN origin.remote ELSE origin.local
    IN  /\ Merge!SameTree(local, remote)
        /\ \A p \in FileClashes :
             /\ Merge!Same(local, winner, p)
             /\ \E q \in DOMAIN local \ {p} :
                  Front(q) = Front(p) /\ local[q].content = loser[p].content
        /\ \A p \in (DOMAIN origin.local \cup DOMAIN origin.remote) \ FileClashes :
             Merge!Same(local, OriginMerge, p)

OnlyFilesClash ==
  \A p \in (DOMAIN origin.local \cup DOMAIN origin.remote) \ {Root} :
    /\ ClashesAt(p) => p \in FileClashes
    /\ ~Merge!RemovesChangedDirectory(origin.local, origin.remote, BaseTree(origin.baseline), p)

\* However a run with keep-both ends, the two versions are still somewhere.
NeitherIsLost ==
  QuietEnd /\ prefer # "" =>
    \A p \in FileClashes :
      {origin.local[p].content, origin.remote[p].content} \subseteq Contents(local) \cup Contents(remote)

\* What consists of clashes of two files is resolved, and what is accepted is carried out.
KeepBothSucceeds ==
  QuietEnd /\ interference = {} /\ prefer # "" /\ OnlyFilesClash =>
    outcome \in {"applied", "refused"} \/ MovesOutOfRemoved(plan)

\* keep-both keeps both.  Whichever side is preferred, a run that says it succeeded has both
\* versions on both sides, and one that was refused, failed or died, with those that repeat
\* it, has left both somewhere.  Preferring remote, it resolves every plan whose conflicts are
\* clashes of two files and carries it out.  Preferring local, it does not: see KeepBothLocal.
KeepBothPreserves == BothSurvive /\ NeitherIsLost /\ (prefer = "remote" => KeepBothSucceeds)

\* Every action that changed a tree in this run is completed or pending in the
\* journal on disk, at every instant a crash may strike, and none is completed
\* there that was not carried out.
JournalNamesMutations ==
  pc \in Working =>
    /\ touched \subseteq ToSet(journal.completed) \cup ToSet(journal.current)
    /\ ToSet(journal.completed) \subseteq touched

\* A run that succeeded leaves nothing to do: the baseline it saved describes both trees, so
\* that another run would skip every path, unless somebody has edited a tree since the last
\* action was verified.
NothingLeftToDo ==
  pc = "idle" /\ outcome = "applied" /\ ~raced =>
    \A a \in ToSet(BuildBidirectional(LocalScan, RemoteScan, baseline)) : a.kind = "skip"

\* A version that the two sides never agreed on is destroyed only where no guard can
\* be.  On the remote side that is as part of a directory: a single file is guarded
\* by If-Match up to the very request that changes it.  On the local side the guard
\* ends when the destination has been verified: a file edited before that survives,
\* unless it lies in a directory that goes.
LossOnlyUnguarded ==
  \A loss \in lost : DestroysDirectory(loss.action) \/ (loss.side = "local" /\ loss.raced)

\* Trees that agreed and have not changed since are no conflict.
AgreedTreesDoNotConflict ==
  QuietEnd /\ interference = {} /\ outcome = "conflict" =>
    ~ /\ Merge!SameTree(origin.local, BaseTree(origin.baseline))
      /\ Merge!SameTree(origin.local, origin.remote)

\* A journal disappears only by explicit removal or after the baseline advanced.
JournalOutlivesFailure ==
  [][journal # NoJournal /\ journal' = NoJournal =>
       (pc = "finish" /\ baseline.found) \/ (pc = "idle" /\ faults' = faults - 1)]_vars

\* A run that failed or died does not fail forever: running it again, with two
\* more runs within the bound, ends in success or in a conflict to resolve.
RetriesSettle ==
  outcome \in {"failed", "canceled", "crashed"} /\ runs >= 2
    ~> outcome \in {"applied", "conflict", "refused"}
=============================================================================
