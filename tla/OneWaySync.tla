----------------------------- MODULE OneWaySync -----------------------------
(***************************************************************************)
(* `ocis sync push` and `ocis sync pull`: one run loads the baseline,      *)
(* scans both trees, plans, applies the plan and saves what a second scan  *)
(* finds as the new baseline.  There is no journal, the source of an       *)
(* action is not verified again, and the two trees of the second scan are  *)
(* not compared.  SyncExecution has the state and the steps it shares with *)
(* the bidirectional command.                                              *)
(***************************************************************************)
EXTENDS SyncExecution

Source(onLocal, onRemote) == IF request.direction = "push" THEN onLocal ELSE onRemote
Destination(onLocal, onRemote) == IF request.direction = "push" THEN onRemote ELSE onLocal
TargetSide == Destination("local", "remote")

OneWayPlan(onLocal, onRemote, state) ==
  Build(Source(onLocal, onRemote), Destination(onLocal, onRemote), state, request)

-----------------------------------------------------------------------------

\* Conflicts are reported before anything is changed.
RefuseConflicts ==
  /\ pc = "plan"
  /\ HasConflict(OneWayPlan(seenLocal, seenRemote, previous))
  /\ End("conflict")
  /\ UNCHANGED <<local, remote, disk, clock, bounds, history>>

AcceptOneWayPlan ==
  /\ pc = "plan"
  /\ LET actions == OneWayPlan(seenLocal, seenRemote, previous)
     IN  /\ ~HasConflict(actions)
         /\ plan' = [i \in DOMAIN actions |-> [actions[i] EXCEPT !.target = TargetSide]]
  /\ pc' = "next"
  /\ UNCHANGED <<local, remote, disk, outcome, clock, bounds, history,
                 request, previous, seenLocal, seenRemote, step, fetched>>

TakeAction ==
  /\ pc = "next"
  /\ step <= Len(plan) /\ Current.kind # "skip"
  /\ Goto("verify")
  /\ UNCHANGED <<local, remote, disk, outcome, clock, bounds, history>>

ActionDone ==
  /\ pc = "record"
  /\ step' = step + 1
  /\ pc' = "next"
  /\ UNCHANGED <<local, remote, disk, outcome, clock, bounds, history,
                 request, previous, seenLocal, seenRemote, plan, fetched>>

\* Whatever the second scan found becomes the baseline.
SaveState ==
  /\ pc = "compare"
  /\ RootsUsable(seenLocal, seenRemote)
  /\ baseline' = NewState(Filter(Source(seenLocal, seenRemote)), Filter(Destination(seenLocal, seenRemote)))
  /\ End("applied")
  /\ UNCHANGED <<local, remote, journal, clock, bounds, history>>

SourceGone ==
  /\ pc = "compare"
  /\ ~RootsUsable(seenLocal, seenRemote)
  /\ End("failed")
  /\ UNCHANGED <<local, remote, disk, clock, bounds, history>>

-----------------------------------------------------------------------------

OneWayPlanStep == RefuseConflicts \/ AcceptOneWayPlan

OneWayWorkStep ==
  \/ ExecutionStep
  \/ TakeAction \/ ActionDone
  \/ SaveState \/ SourceGone

OneWayNext == Start \/ OneWayPlanStep \/ OneWayWorkStep \/ Environment \/ NoMoreRuns

\* A baseline belongs to one binding, and that to one direction.
OneWayInit ==
  /\ Init
  /\ \E direction \in {"push", "pull"} : \A r \in requests : r.direction = direction

OneWaySpec == OneWayInit /\ [][OneWayNext]_vars

-----------------------------------------------------------------------------
(* Properties *)

Trees == INSTANCE ThreeWayMerge

\* A run that nothing interferes with and that plans no conflict succeeds; and an
\* attempt that reports success, interrupted or not, has made the destination
\* the source: everything in the source is there, and what only the destination
\* had is gone with --delete and untouched without.
SuccessMirrors ==
  QuietEnd =>
    LET source == Source(local, remote)
        destination == Destination(local, remote)
        before == Clean(Destination(origin.local, origin.remote))
    IN  /\ interference = {} => outcome # "failed"
        /\ outcome = "applied" =>
             /\ \A p \in DOMAIN source : Trees!Same(Clean(destination), Clean(source), p)
             /\ IF request.delete THEN DOMAIN destination \subseteq DOMAIN source
                ELSE \A p \in DOMAIN before \ DOMAIN source : Trees!Same(destination, before, p)

\* Running again after an interruption, with the same options, reports no
\* conflict that the trees did not have before.
RetryAddsNoConflict ==
  QuietEnd /\ outcome = "conflict" =>
    HasConflict(OneWayPlan([p \in DOMAIN origin.local |-> LocalEntry(origin.local[p])],
                           [p \in DOMAIN origin.remote |-> RemoteEntry(origin.remote[p])],
                           origin.baseline))

\* A push or pull mirrors its source, at once or when it is repeated.
OneWayMirrors == SuccessMirrors /\ RetryAddsNoConflict

\* A file version of the destination that the baseline does not know is destroyed
\* only on request: with --overwrite or, where the source has nothing, with
\* --delete.  The exceptions are what lies in a directory that goes as a whole,
\* and a local file written after the destination was verified.
ConsentedLossOnly ==
  \A loss \in lost :
    \/ loss.known
    \/ request.overwrite
    \/ request.delete /\ loss.action.kind = "delete"
    \/ DestroysDirectory(loss.action)
    \/ loss.side = "local" /\ loss.raced
=============================================================================
