---------------------------- MODULE Sync_proofs ----------------------------
(***************************************************************************)
(* Sync runs, for every pair of trees, every filter, every baseline and    *)
(* any number of edits, faults and runs.                                   *)
(*                                                                         *)
(* Bidirectional runs.  First the recovery journal and the saved baseline: *)
(* the journal names what was done to the trees and outlives every         *)
(* unfinished run, and the baseline describes trees that agreed.           *)
(*                                                                         *)
(* Then what a run may destroy: of the file versions that the two sides    *)
(* never agreed on, only those that lie in a directory that goes, and      *)
(* local files edited after they were verified.  The argument has four     *)
(* parts.  The trees stay trees, so that a file has nothing below it.  An  *)
(* ETag once seen never stands for another content, so that a request with *)
(* If-Match finds what was scanned.  The planner removes or overwrites a   *)
(* file only where it still matches the record of the two sides'           *)
(* agreement, through the protection of changed subtrees, the detection of *)
(* moves and the sorting of the plan.  And between the verification of a   *)
(* local destination and its mutation only an edit can change it.          *)
(*                                                                         *)
(* Two conditions are necessary.  Checksums: without them a changed file   *)
(* of the same size can match its record.  No keep-both: the version it    *)
(* overwrites was never agreed on, and the copy it sets aside first can be *)
(* removed by the user before the original is overwritten.                 *)
(*                                                                         *)
(* Then where a run stops for a conflict: exactly where the trees it has   *)
(* seen have no three-way merge.  What the planner decides at each path is *)
(* what the merge says of it, the protection of changed subtrees adds the  *)
(* conflicts of whole directories, and neither moves nor sorting change    *)
(* any.                                                                    *)
(*                                                                         *)
(* Pushes and pulls.  The planner asks for consent unless the destination  *)
(* still has the version of the baseline; from there the same facts about  *)
(* trees, ETags and verified destinations carry over.  That a run writes   *)
(* to its destination alone needs no checksums.                            *)
(***************************************************************************)
EXTENDS BidirectionalSync, OneWaySync, FiniteSetTheorems, SequenceTheorems, WellFoundedInduction, TLAPS

\* Between the record of an action as pending and its record as completed.
InAction == {"verify", "replace", "mutate", "commit", "record"}

\* A run that applies a plan has a journal of its own that is still running.
JournalRuns ==
  pc \in Working =>
    journal \in [status : {"running"}, plan : {journal.plan},
                 completed : Seq(touched), current : {journal.current}]

\* What the journal says about the current action.
JournalCurrent ==
  /\ pc \in {"scan", "plan"} => touched = {}
  /\ pc \in InAction =>
       /\ journal.current = <<Current>>
       /\ touched \subseteq ToSet(journal.completed) \cup {Current}
  /\ pc \in Working \ InAction => touched \subseteq ToSet(journal.completed)
  /\ pc = "record" => Current \in touched

\* The journal is removed after the baseline was written.
FinishedAfterBaseline == pc = "finish" => baseline.found

\* The saved baseline describes trees that agreed.
BaselineConverged == RecordsAgreement(baseline)

\* The inductive invariant.
JournalInv == JournalRuns /\ JournalCurrent /\ FinishedAfterBaseline /\ BaselineConverged

-----------------------------------------------------------------------------

\* Appending an element adds it to the set of elements.
LEMMA AppendSet ==
  ASSUME NEW S, NEW s \in Seq(S), NEW x \in S
  PROVE  Append(s, x) \in Seq(S) /\ ToSet(Append(s, x)) = ToSet(s) \cup {x}
<1> DEFINE t == Append(s, x)
<1>1. t \in Seq(S) /\ Len(t) = Len(s) + 1 /\ t[Len(t)] = x
  OBVIOUS
<1>2. \A i \in 1 .. Len(s) : t[i] = s[i]
  OBVIOUS
<1>3. DOMAIN s = 1 .. Len(s) /\ DOMAIN t = 1 .. (Len(s) + 1)
  BY <1>1
<1>4. ToSet(t) \subseteq ToSet(s) \cup {x}
  BY <1>1, <1>2, <1>3 DEF ToSet
<1>5. ToSet(s) \cup {x} \subseteq ToSet(t)
  BY <1>1, <1>2, <1>3 DEF ToSet
<1> QED
  BY <1>1, <1>4, <1>5

\* A sequence over a set is one over a larger set, and has its elements there.
LEMMA WiderSet ==
  ASSUME NEW S, NEW T, S \subseteq T, NEW s \in Seq(S)
  PROVE  s \in Seq(T) /\ ToSet(s) \subseteq S
  BY DEF ToSet

\* Snapshots that converge make a baseline whose two sides agree.
LEMMA NewStateConverged ==
  ASSUME NEW left, NEW right, SnapshotsConverge(left, right),
         NEW p \in DOMAIN NewState(left, right).entries
  PROVE  Converged(NewState(left, right).entries[p].source,
                   NewState(left, right).entries[p].destination)
  BY DEF SnapshotsConverge, NewState, EntryAt

LEMMA JournalInit == BidirectionalInit => JournalInv
  BY DEF BidirectionalInit, Init, JournalInv, JournalRuns, JournalCurrent, FinishedAfterBaseline, BaselineConverged, RecordsAgreement,
      Working, InAction

\* A mutation of the current action keeps the invariant wherever the run goes on
\* with that action.
LEMMA JournalMutation ==
  ASSUME JournalInv, pc \in {"replace", "mutate", "commit"}, touched' = touched \cup {Current},
         pc' \in {"mutate", "commit", "record", "idle"}, UNCHANGED <<baseline, journal, plan, step>>
  PROVE  JournalInv'
<1>1. pc \in Working /\ pc \in InAction
  BY DEF Working, InAction
<1>2. journal.completed \in Seq(touched')
  BY <1>1, WiderSet DEF JournalInv, JournalRuns
<1>3. JournalRuns'
  BY <1>1, <1>2 DEF JournalInv, JournalRuns
<1>4. JournalCurrent'
  BY <1>1 DEF JournalInv, JournalCurrent, Current, InAction, Working
<1>5. FinishedAfterBaseline' /\ BaselineConverged'
  BY DEF JournalInv, FinishedAfterBaseline, BaselineConverged, RecordsAgreement
<1> QED
  BY <1>3, <1>4, <1>5 DEF JournalInv

\* The end of a run keeps the invariant, whatever becomes of the journal.
LEMMA JournalEnd ==
  ASSUME JournalInv, pc' = "idle", UNCHANGED baseline
  PROVE  JournalInv'
  BY DEF JournalInv, JournalRuns, JournalCurrent, FinishedAfterBaseline, BaselineConverged, RecordsAgreement,
         Working, InAction

\* A step that moves on without touching the trees, the journal and the current
\* action keeps the invariant.
LEMMA JournalProgress ==
  ASSUME JournalInv, UNCHANGED <<baseline, journal, touched>>,
         \/ pc' = pc
         \/ pc = "verify" /\ pc' \in {"replace", "mutate"}
         \/ pc = "next" /\ pc' = "post-scan"
         \/ pc = "post-scan" /\ pc' = "compare",
         pc \in InAction => UNCHANGED <<plan, step>>
  PROVE  JournalInv'
  BY DEF JournalInv, JournalRuns, JournalCurrent, FinishedAfterBaseline, BaselineConverged, RecordsAgreement,
         Working, InAction, Current

\* Every step preserves the invariant.
LEMMA JournalNext == JournalInv /\ [Next]_vars => JournalInv'
<1> SUFFICES ASSUME JournalInv, [Next]_vars PROVE JournalInv'
  OBVIOUS
<1> USE DEF Goto, End, disk, run, history, bounds
<1>1. CASE Start
  <2>1. pc' = "scan" /\ touched' = {} /\ UNCHANGED baseline
    BY <1>1 DEF Start, StartHistory
  <2> QED
    BY <2>1 DEF JournalInv, JournalRuns, JournalCurrent, FinishedAfterBaseline, BaselineConverged, RecordsAgreement,
                Working, InAction
<1>2. CASE Scan
  <2>1. pc = "scan" /\ pc' \in {"plan", "idle"} /\ UNCHANGED <<touched, baseline>>
    BY <1>2 DEF Scan
  <2> QED
    BY <2>1 DEF JournalInv, JournalRuns, JournalCurrent, FinishedAfterBaseline, BaselineConverged, RecordsAgreement,
                Working, InAction
<1>3. CASE RefuseIdentity \/ ReportConflict
  BY <1>3, JournalEnd DEF RefuseIdentity, ReportConflict
<1>4. CASE AcceptPlan
  <2>1. /\ pc = "plan" /\ pc' = "next" /\ UNCHANGED <<touched, baseline>>
        /\ journal' = Journal("running", plan', <<>>, <<>>)
    BY <1>4 DEF AcceptPlan
  <2>2. touched = {}
    BY <2>1 DEF JournalInv, JournalCurrent
  <2>3. JournalRuns'
    BY <2>1 DEF JournalRuns, Journal
  <2> QED
    BY <2>1, <2>2, <2>3
    DEF JournalInv, JournalCurrent, FinishedAfterBaseline, BaselineConverged, RecordsAgreement, Working, InAction
<1>5. CASE SkipAction \/ VerifyDestination \/ PostScanFirst \/ PostScanSecond
  <2>1. CASE SkipAction
    BY <2>1, JournalProgress DEF SkipAction, InAction
  <2>2. CASE VerifyDestination
    BY <2>2, JournalProgress DEF VerifyDestination
  <2>3. CASE PostScanFirst
    BY <2>3, JournalProgress DEF PostScanFirst
  <2>4. CASE PostScanSecond
    BY <2>4, JournalProgress DEF PostScanSecond
  <2> QED
    BY <1>5, <2>1, <2>2, <2>3, <2>4
<1>6. CASE BeginAction
  <2>1. /\ pc = "next" /\ pc' = "verify" /\ UNCHANGED <<touched, baseline, plan, step>>
        /\ journal' = [journal EXCEPT !.current = <<Current>>]
    BY <1>6 DEF BeginAction
  <2>2. /\ journal'.completed = journal.completed /\ journal'.current = <<Current>>
        /\ JournalRuns'
    BY <2>1 DEF JournalInv, JournalRuns, Working
  <2> QED
    BY <2>1, <2>2
    DEF JournalInv, JournalCurrent, FinishedAfterBaseline, BaselineConverged, RecordsAgreement, Working, InAction, Current
<1>7. CASE SourceChanged \/ DestinationChanged \/ OperationRefused \/ NotConverged
  BY <1>7, JournalEnd DEF SourceChanged, DestinationChanged, OperationRefused, NotConverged,
     EndWithJournal
<1>8. CASE RemoveReplaced \/ Apply \/ Fetch \/ Commit
  <2>1. CASE RemoveReplaced
    BY <2>1, JournalMutation DEF RemoveReplaced, Mutate
  <2>2. CASE Apply
    BY <2>2, JournalMutation DEF Apply, Mutate
  <2>3. CASE Fetch
    BY <2>3, JournalMutation DEF Fetch, Mutate
  <2>4. CASE Commit
    BY <2>4, JournalMutation DEF Commit, Mutate
  <2> QED
    BY <1>8, <2>1, <2>2, <2>3, <2>4
<1>9. CASE RecordCompleted
  <2>1. /\ pc = "record" /\ pc' = "next" /\ UNCHANGED <<touched, baseline>>
        /\ journal' = [journal EXCEPT !.completed = Append(@, Current), !.current = <<>>]
    BY <1>9 DEF RecordCompleted
  <2>2. /\ journal.completed \in Seq(touched) /\ Current \in touched
        /\ touched \subseteq ToSet(journal.completed) \cup {Current}
    BY <2>1 DEF JournalInv, JournalRuns, JournalCurrent, Working, InAction
  <2>3. /\ Append(journal.completed, Current) \in Seq(touched)
        /\ touched \subseteq ToSet(Append(journal.completed, Current))
    BY <2>2, AppendSet
  <2>4. journal'.completed = Append(journal.completed, Current) /\ JournalRuns'
    BY <2>1, <2>3 DEF JournalInv, JournalRuns, Working
  <2> QED
    BY <2>1, <2>3, <2>4
    DEF JournalInv, JournalCurrent, FinishedAfterBaseline, BaselineConverged, RecordsAgreement, Working, InAction
<1>10. CASE SaveBaseline
  <2> DEFINE left == Filter(seenLocal)
             right == Filter(seenRemote)
  <2>1. /\ pc = "compare" /\ pc' = "finish" /\ UNCHANGED <<journal, touched>>
        /\ SnapshotsConverge(left, right) /\ baseline' = NewState(left, right)
    BY <1>10 DEF SaveBaseline
  <2>2. BaselineConverged'
    BY <2>1, NewStateConverged DEF BaselineConverged, RecordsAgreement
  <2>3. baseline'.found
    BY <2>1 DEF NewState
  <2> QED
    BY <2>1, <2>2, <2>3
    DEF JournalInv, JournalRuns, JournalCurrent, FinishedAfterBaseline, Working, InAction
<1>11. CASE RemoveJournal
  BY <1>11, JournalEnd DEF RemoveJournal
<1>12. CASE EditLocal \/ EditRemote
  BY <1>12, JournalProgress DEF EditLocal, EditRemote, Edit
<1>13. CASE OperationFails("failed") \/ OperationFails("canceled") \/ Crash
            \/ CrashDuringUpload \/ CrashDuringCopy \/ CrashDuringRemove
  BY <1>13, JournalEnd
  DEF OperationFails, Crash, CrashDuringUpload, CrashDuringCopy, CrashDuringRemove, EndWithJournal
<1>14. CASE RemoveRecovery \/ RemoveState
  <2>1. pc = "idle" /\ pc' = "idle"
    BY <1>14 DEF RemoveRecovery, RemoveState
  <2>2. baseline' \in {baseline, NoState}
    BY <1>14 DEF RemoveRecovery, RemoveState
  <2>3. BaselineConverged'
    BY <2>2 DEF JournalInv, BaselineConverged, RecordsAgreement, NoState
  <2> QED
    BY <2>1, <2>3
    DEF JournalInv, JournalRuns, JournalCurrent, FinishedAfterBaseline, Working, InAction
<1>15. CASE NoMoreRuns \/ UNCHANGED vars
  BY <1>15, JournalProgress DEF NoMoreRuns, vars
<1> QED
  BY <1>1, <1>2, <1>3, <1>4, <1>5, <1>6, <1>7, <1>8, <1>9, <1>10, <1>11, <1>12, <1>13, <1>14, <1>15
  DEF Next, PlanStep, WorkStep, ExecutionStep, Environment

\* The inductive invariant holds throughout.
THEOREM Invariance == Spec => []JournalInv
  BY JournalInit, JournalNext, PTL DEF Spec

\* The journal on disk names exactly the actions that changed a tree.
THEOREM JournalNamed == Spec => []JournalNamesMutations
<1>1. JournalInv => JournalNamesMutations
  <2> SUFFICES ASSUME JournalInv, pc \in Working PROVE JournalNamesMutations
    BY DEF JournalNamesMutations
  <2>1. ToSet(journal.completed) \subseteq touched
    BY WiderSet DEF JournalInv, JournalRuns
  <2>2. touched \subseteq ToSet(journal.completed) \cup ToSet(journal.current)
    <3>1. CASE pc \in InAction
      BY <3>1 DEF JournalInv, JournalCurrent, ToSet
    <3>2. CASE pc \notin InAction
      BY <3>2 DEF JournalInv, JournalCurrent
    <3> QED
      BY <3>1, <3>2
  <2> QED
    BY <2>1, <2>2 DEF JournalNamesMutations
<1> QED
  BY <1>1, Invariance, PTL

\* The saved baseline describes trees that agreed.
THEOREM BaselineAgreed == Spec => []BaselineConverged
  BY Invariance, PTL DEF JournalInv

\* While a run applies its plan, no step but the last makes its journal vanish.
LEMMA JournalStays ==
  ASSUME JournalInv, Next, journal # NoJournal, journal' = NoJournal
  PROVE  (pc = "finish" /\ baseline.found) \/ (pc = "idle" /\ faults' = faults - 1)
<1> USE DEF Goto, End, disk, run, history, bounds
<1>1. CASE RemoveJournal
  <2>1. pc = "finish"
    BY <1>1 DEF RemoveJournal
  <2> QED
    BY <2>1 DEF JournalInv, FinishedAfterBaseline
<1>2. CASE RemoveRecovery
  BY <1>2 DEF RemoveRecovery, Fault
<1>3. CASE BeginAction \/ RecordCompleted
  <2>1. pc \in Working /\ journal.status = "running"
    BY <1>3 DEF BeginAction, RecordCompleted, Working, JournalInv, JournalRuns
  <2>2. journal'.status = "running"
    BY <1>3, <2>1 DEF BeginAction, RecordCompleted, JournalInv, JournalRuns
  <2> QED
    BY <2>2 DEF NoJournal
<1>4. CASE ReportConflict \/ AcceptPlan
  <2>1. \/ journal' = Journal("conflict", OriginalPlan, <<>>, <<>>)
        \/ journal' = Journal("running", plan', <<>>, <<>>)
    BY <1>4 DEF ReportConflict, AcceptPlan
  <2>2. journal'.status \in {"conflict", "running"}
    BY <2>1 DEF Journal
  <2> QED
    BY <2>2 DEF NoJournal
<1>5. CASE SourceChanged \/ DestinationChanged \/ OperationRefused \/ NotConverged
           \/ OperationFails("failed") \/ OperationFails("canceled")
  <2>1. pc \in Working
    BY <1>5 DEF SourceChanged, DestinationChanged, OperationRefused, NotConverged,
       OperationFails, Working
  <2>2. \E status \in {"failed", "canceled"} : EndWithJournal(status)
    BY <1>5 DEF SourceChanged, DestinationChanged, OperationRefused, NotConverged, OperationFails
  <2>3. journal'.status \in {"failed", "canceled"}
    BY <2>1, <2>2 DEF EndWithJournal, JournalInv, JournalRuns
  <2> QED
    BY <2>3 DEF NoJournal
<1>6. CASE UNCHANGED journal
  BY <1>6
<1> QED
  <2>1. RemoveJournal \/ RemoveRecovery \/ BeginAction \/ RecordCompleted \/ ReportConflict
        \/ AcceptPlan \/ SourceChanged \/ DestinationChanged \/ OperationRefused \/ NotConverged
        \/ OperationFails("failed") \/ OperationFails("canceled") \/ UNCHANGED journal
    BY DEF Next, PlanStep, WorkStep, ExecutionStep, Environment, Start, Scan, RefuseIdentity,
       SkipAction, VerifyDestination, RemoveReplaced, Apply, Fetch, Commit, PostScanFirst,
       PostScanSecond, SaveBaseline, Edit, EditLocal, EditRemote, Crash, CrashDuringUpload,
       CrashDuringCopy, CrashDuringRemove, RemoveState, NoMoreRuns, vars
  <2> QED
    BY <2>1, <1>1, <1>2, <1>3, <1>4, <1>5, <1>6

\* A journal disappears only by explicit removal or after the baseline advanced.
THEOREM JournalOutlives == Spec => JournalOutlivesFailure
<1>1. JournalInv /\ [Next]_vars =>
        [journal # NoJournal /\ journal' = NoJournal =>
           (pc = "finish" /\ baseline.found) \/ (pc = "idle" /\ faults' = faults - 1)]_vars
  BY JournalStays
<1> QED
  BY <1>1, Invariance, PTL DEF Spec, JournalOutlivesFailure

-----------------------------------------------------------------------------
(* Paths *)

\* Every non-empty set of naturals has a least element.
LEMMA Least ==
  ASSUME NEW S, S \subseteq Nat, S # {}
  PROVE  \E n \in S : \A m \in S : n <= m
<1> DEFINE R == {ss \in Nat \X Nat : ss[1] < ss[2]}
<1>1. IsWellFoundedOn(R, Nat)
  <2>1. R = OpToRel(<, Nat)
    BY DEF OpToRel
  <2> QED
    BY <2>1, NatLessThanWellFounded
<1> HIDE DEF R
<1>2. PICK x \in S : \A y \in S : ~(<<y, x>> \in R)
  BY <1>1, WFMin
<1>3. \A y \in S : ~(y < x)
  BY <1>2 DEF R
<1> QED
  BY <1>3

LEMMA PathFacts ==
  ASSUME NEW p \in Paths
  PROVE  /\ Len(p) \in Nat /\ DOMAIN p = 1 .. Len(p) /\ \A i \in 1 .. Len(p) : p[i] \in Names
         /\ p # Root <=> Len(p) # 0
  BY DEF Paths, Root

\* Two paths are one when their names are.
LEMMA SamePath ==
  ASSUME NEW p \in Paths, NEW q \in Paths, Len(p) = Len(q), \A i \in 1 .. Len(p) : p[i] = q[i]
  PROVE  p = q
  BY SeqEqual DEF Paths

\* The beginning of a path.
LEMMA Beginning ==
  ASSUME NEW p \in Paths, NEW n \in 0 .. Len(p)
  PROVE  /\ SubSeq(p, 1, n) \in Paths /\ Len(SubSeq(p, 1, n)) = n
         /\ \A i \in 1 .. n : SubSeq(p, 1, n)[i] = p[i]
<1>1. Len(p) \in Nat /\ n \in Nat
  BY PathFacts
<1>2. \A i \in 1 .. n : p[i] \in Names
  BY <1>1, PathFacts
<1>3. /\ SubSeq(p, 1, n) \in Seq(Names)
      /\ Len(SubSeq(p, 1, n)) = IF 1 <= n THEN n - 1 + 1 ELSE 0
      /\ \A i \in 1 .. n - 1 + 1 : SubSeq(p, 1, n)[i] = p[1 + i - 1]
  BY <1>1, <1>2, SubSeqProperties
<1> QED
  BY <1>1, <1>3 DEF Paths

LEMMA BelowMeans ==
  ASSUME NEW p \in Paths, NEW q \in Paths
  PROVE  IsDescendant(p, q) <=> Len(q) < Len(p) /\ \A i \in 1 .. Len(q) : p[i] = q[i]
<1>0. Len(p) \in Nat /\ Len(q) \in Nat
  BY PathFacts
<1>1. SubSeq(q, 1, Len(q)) = q
  BY SubSeqFull DEF Paths
<1>2. ASSUME IsDescendant(p, q)
      PROVE  Len(q) < Len(p) /\ \A i \in 1 .. Len(q) : p[i] = q[i]
  <2>1. Len(q) <= Len(p) /\ q = SubSeq(p, 1, Len(q)) /\ p # q
    BY <1>1, <1>2 DEF IsDescendant, IsStrictPrefix, IsPrefix
  <2>2. \A i \in 1 .. Len(q) : p[i] = q[i]
    BY <1>0, <2>1, Beginning
  <2>3. Len(q) # Len(p)
    BY <2>1, <2>2, SamePath
  <2> QED
    BY <1>0, <2>1, <2>2, <2>3
<1>3. ASSUME Len(q) < Len(p), \A i \in 1 .. Len(q) : p[i] = q[i]
      PROVE  IsDescendant(p, q)
  <2>1. Len(q) \in 0 .. Len(p)
    BY <1>0, <1>3
  <2>2. SubSeq(p, 1, Len(q)) = q
    <3>1. /\ SubSeq(p, 1, Len(q)) \in Paths /\ Len(SubSeq(p, 1, Len(q))) = Len(q)
          /\ \A i \in 1 .. Len(q) : SubSeq(p, 1, Len(q))[i] = p[i]
      BY <2>1, Beginning
    <3> QED
      BY <1>3, <3>1, SamePath
  <2> QED
    BY <1>0, <1>1, <1>3, <2>2 DEF IsDescendant, IsStrictPrefix, IsPrefix
<1> QED
  BY <1>2, <1>3

LEMMA BelowIsOrder ==
  ASSUME NEW p \in Paths, NEW q \in Paths, NEW r \in Paths
  PROVE  /\ ~IsDescendant(p, p)
         /\ IsDescendant(p, q) /\ IsDescendant(q, r) => IsDescendant(p, r)
         /\ IsDescendant(p, Root) <=> p # Root
<1>0. Len(p) \in Nat /\ Len(q) \in Nat /\ Len(r) \in Nat /\ Root \in Paths /\ Len(Root) = 0
  BY PathFacts, EmptySeq DEF Root, Paths
<1>1. ~IsDescendant(p, p)
  BY <1>0, BelowMeans
<1>2. IsDescendant(p, q) /\ IsDescendant(q, r) => IsDescendant(p, r)
  <2> SUFFICES ASSUME IsDescendant(p, q), IsDescendant(q, r) PROVE IsDescendant(p, r)
    OBVIOUS
  <2>1. Len(q) < Len(p) /\ \A i \in 1 .. Len(q) : p[i] = q[i]
    BY BelowMeans
  <2>2. Len(r) < Len(q) /\ \A i \in 1 .. Len(r) : q[i] = r[i]
    BY BelowMeans
  <2>3. Len(r) < Len(p) /\ \A i \in 1 .. Len(r) : p[i] = r[i]
    BY <1>0, <2>1, <2>2
  <2> QED
    BY <2>3, BelowMeans
<1>3. IsDescendant(p, Root) <=> p # Root
  BY <1>0, PathFacts, BelowMeans
<1> QED
  BY <1>1, <1>2, <1>3

\* Ancestors has the path itself, and what it lies in.
LEMMA AncestorsMeans ==
  ASSUME NEW p \in Paths
  PROVE  Ancestors(p) = {q \in Paths : q = p \/ IsDescendant(p, q)}
<1>0. Len(p) \in Nat
  BY PathFacts
<1>1. ASSUME NEW n \in 0 .. Len(p)
      PROVE  SubSeq(p, 1, n) \in Paths /\ (SubSeq(p, 1, n) = p \/ IsDescendant(p, SubSeq(p, 1, n)))
  <2>1. /\ SubSeq(p, 1, n) \in Paths /\ Len(SubSeq(p, 1, n)) = n
        /\ \A i \in 1 .. n : SubSeq(p, 1, n)[i] = p[i]
    BY <1>1, Beginning
  <2>2. CASE n = Len(p)
    BY <1>0, <2>1, <2>2, SamePath
  <2>3. CASE n < Len(p)
    BY <2>1, <2>3, BelowMeans
  <2> QED
    BY <1>0, <2>1, <2>2, <2>3
<1>2. ASSUME NEW q \in Paths, q = p \/ IsDescendant(p, q)
      PROVE  \E n \in 0 .. Len(p) : q = SubSeq(p, 1, n)
  <2>1. Len(q) \in 0 .. Len(p) /\ \A i \in 1 .. Len(q) : p[i] = q[i]
    BY <1>0, <1>2, PathFacts, BelowMeans
  <2>2. /\ SubSeq(p, 1, Len(q)) \in Paths /\ Len(SubSeq(p, 1, Len(q))) = Len(q)
        /\ \A i \in 1 .. Len(q) : SubSeq(p, 1, Len(q))[i] = p[i]
    BY <2>1, Beginning
  <2>3. q = SubSeq(p, 1, Len(q))
    BY <2>1, <2>2, SamePath
  <2> QED
    BY <2>1, <2>3
<1> QED
  BY <1>1, <1>2 DEF Ancestors

LEMMA AncestorsFinite ==
  ASSUME NEW p \in Paths
  PROVE  IsFiniteSet(Ancestors(p))
<1>0. Len(p) \in Nat
  BY PathFacts
<1> DEFINE at == [n \in 0 .. Len(p) |-> SubSeq(p, 1, n)]
<1>1. at \in Surjection(0 .. Len(p), Ancestors(p))
  BY DEF Surjection, Ancestors
<1>2. IsFiniteSet(0 .. Len(p))
  BY <1>0, FS_Interval
<1> HIDE DEF at
<1> QED
  BY <1>1, <1>2, FS_Surjection

\* A path lies in its Front, and in what that lies in.
LEMMA FrontMeans ==
  ASSUME NEW p \in Paths, p # Root
  PROVE  /\ Front(p) \in Paths
         /\ \A q \in Paths : IsDescendant(p, q) <=> q = Front(p) \/ IsDescendant(Front(p), q)
<1>0. Len(p) \in Nat \ {0}
  BY PathFacts
<1>1. Len(p) - 1 \in 0 .. Len(p)
  BY <1>0
<1>2. /\ Front(p) \in Paths /\ Len(Front(p)) = Len(p) - 1
      /\ \A i \in 1 .. Len(p) - 1 : Front(p)[i] = p[i]
  BY <1>1, Beginning DEF Front
<1>3. ASSUME NEW q \in Paths, IsDescendant(p, q), q # Front(p)
      PROVE  IsDescendant(Front(p), q)
  <2>1. Len(q) < Len(p) /\ \A i \in 1 .. Len(q) : p[i] = q[i]
    BY <1>3, BelowMeans
  <2>2. Len(q) \in Nat
    BY PathFacts
  <2>3. Len(q) # Len(p) - 1
    <3> SUFFICES ASSUME Len(q) = Len(p) - 1 PROVE FALSE
      OBVIOUS
    <3>1. \A i \in 1 .. Len(q) : Front(p)[i] = q[i]
      BY <1>2, <2>1
    <3>2. Front(p) = q
      BY <1>2, <3>1, SamePath
    <3> QED
      BY <1>3, <3>2
  <2>4. Len(q) < Len(Front(p)) /\ \A i \in 1 .. Len(q) : Front(p)[i] = q[i]
    BY <1>0, <1>2, <2>1, <2>2, <2>3
  <2> QED
    BY <1>2, <2>4, BelowMeans
<1>4. ASSUME NEW q \in Paths, q = Front(p) \/ IsDescendant(Front(p), q)
      PROVE  IsDescendant(p, q)
  <2>1. IsDescendant(p, Front(p))
    BY <1>0, <1>2, BelowMeans
  <2> QED
    BY <1>2, <1>4, <2>1, BelowIsOrder
<1> QED
  BY <1>2, <1>3, <1>4

\* A sibling has another name in the same directory.
LEMMA SiblingMeans ==
  ASSUME NEW p \in Paths, p # Root, NEW tag \in Nat
  PROVE  /\ Sibling(p, tag) \in Paths /\ Sibling(p, tag) # Root /\ Sibling(p, tag) # p
         /\ Front(Sibling(p, tag)) = Front(p)
         /\ Len(Sibling(p, tag)) = Len(p)
         /\ Sibling(p, tag)[Len(p)] = p[Len(p)] * 10000 + tag
<1>0. Len(p) \in Nat \ {0} /\ Len(p) \in 1 .. Len(p)
  BY PathFacts
<1> DEFINE name == p[Len(p)] * 10000 + tag
<1>1. p[Len(p)] \in Names
  BY <1>0, PathFacts
<1>2. name \in Names /\ name # p[Len(p)]
  BY <1>1 DEF Names
<1> HIDE DEF name
<1>3. Sibling(p, tag) = [p EXCEPT ![Len(p)] = name]
  BY DEF Sibling, name
<1>4. /\ Sibling(p, tag) \in Paths /\ Len(Sibling(p, tag)) = Len(p)
      /\ \A j \in 1 .. Len(p) : Sibling(p, tag)[j] = IF j = Len(p) THEN name ELSE p[j]
  BY <1>0, <1>2, <1>3, ExceptSeq DEF Paths
<1>5. Sibling(p, tag)[Len(p)] = name
  BY <1>0, <1>4
<1>6. Sibling(p, tag) # Root
  BY <1>0, <1>4, PathFacts
<1>7. Front(Sibling(p, tag)) = Front(p)
  <2>1. Len(p) - 1 \in 0 .. Len(p)
    BY <1>0
  <2>2. /\ Front(p) \in Paths /\ Len(Front(p)) = Len(p) - 1
        /\ \A i \in 1 .. Len(p) - 1 : Front(p)[i] = p[i]
    BY <2>1, Beginning DEF Front
  <2>3. /\ Front(Sibling(p, tag)) \in Paths /\ Len(Front(Sibling(p, tag))) = Len(p) - 1
        /\ \A i \in 1 .. Len(p) - 1 : Front(Sibling(p, tag))[i] = Sibling(p, tag)[i]
    BY <1>4, <2>1, Beginning DEF Front
  <2>4. \A i \in 1 .. Len(p) - 1 : Sibling(p, tag)[i] = p[i]
    BY <1>0, <1>4
  <2> QED
    BY <2>2, <2>3, <2>4, SamePath
<1> QED
  BY <1>2, <1>4, <1>5, <1>6, <1>7 DEF name

\* A name in a directory.
LEMMA AppendMeans ==
  ASSUME NEW p \in Paths, NEW name \in Names
  PROVE  /\ Append(p, name) \in Paths /\ Append(p, name) # Root
         /\ Front(Append(p, name)) = p
         /\ Len(Append(p, name)) = Len(p) + 1
<1> DEFINE q == Append(p, name)
<1>0. Len(p) \in Nat
  BY PathFacts
<1>1. /\ q \in Paths /\ Len(q) = Len(p) + 1
      /\ \A i \in 1 .. Len(p) : q[i] = p[i]
  BY AppendProperties DEF Paths
<1> HIDE DEF q
<1>2. q # Root
  BY <1>0, <1>1, PathFacts
<1>3. Front(q) = p
  <2>1. Len(q) - 1 \in 0 .. Len(q) /\ Len(q) - 1 = Len(p)
    BY <1>0, <1>1
  <2>2. /\ Front(q) \in Paths /\ Len(Front(q)) = Len(p)
        /\ \A i \in 1 .. Len(p) : Front(q)[i] = q[i]
    BY <1>1, <2>1, Beginning DEF Front
  <2> QED
    BY <1>1, <2>2, SamePath
<1> QED
  BY <1>1, <1>2, <1>3 DEF q

LEMMA RootIsPath == Root \in Paths /\ Ancestors(Root) = {Root}
<1>1. Root \in Paths
  BY EmptySeq DEF Root, Paths
<1>2. Ancestors(Root) = {q \in Paths : q = Root \/ IsDescendant(Root, q)}
  BY <1>1, AncestorsMeans
<1>3. \A q \in Paths : ~IsDescendant(Root, q)
  <2> TAKE q \in Paths
  <2>1. Len(Root) = 0 /\ Len(q) \in Nat
    BY <1>1, PathFacts
  <2> QED
    BY <1>1, <2>1, BelowMeans
<1> QED
  BY <1>1, <1>2, <1>3

-----------------------------------------------------------------------------
(* Trees *)

LEMMA TreeMeans ==
  ASSUME NEW tree
  PROVE  IsTree(tree) <=>
           /\ DOMAIN tree \subseteq Paths /\ IsFiniteSet(DOMAIN tree)
           /\ \A p \in DOMAIN tree : IsNode(tree[p])
           /\ \A p \in DOMAIN tree, q \in Paths :
                IsDescendant(p, q) => q \in DOMAIN tree /\ tree[q].type = "directory"
<1>1. \A p \in Paths : Ancestors(p) \ {p} = {q \in Paths : IsDescendant(p, q)}
  <2> TAKE p \in Paths
  <2>1. Ancestors(p) = {q \in Paths : q = p \/ IsDescendant(p, q)}
    BY AncestorsMeans
  <2>2. ~IsDescendant(p, p)
    BY BelowIsOrder
  <2> QED
    BY <2>1, <2>2
<1> QED
  BY <1>1 DEF IsTree

\* Below a file there is nothing.
LEMMA NothingBelow ==
  ASSUME NEW tree, IsTree(tree), NEW p \in Paths, TypeAt(tree, p) # "directory",
         NEW q \in DOMAIN tree
  PROVE  ~IsDescendant(q, p)
  BY TreeMeans DEF TypeAt

\* What there is, is a file or a directory.
LEMMA TypesAre ==
  ASSUME NEW tree, IsTree(tree), NEW p
  PROVE  /\ TypeAt(tree, p) \in {"", "file", "directory"}
         /\ TypeAt(tree, p) = "" <=> p \notin DOMAIN tree
         /\ p \in DOMAIN tree => tree[p].type = TypeAt(tree, p) /\ IsNode(tree[p]) /\ p \in Paths
<1>1. p \in DOMAIN tree => p \in Paths /\ IsNode(tree[p]) /\ tree[p].type \in {"file", "directory"}
  BY TreeMeans DEF IsNode, Kinds
<1> QED
  BY <1>1 DEF TypeAt

LEMMA WithoutIsTree ==
  ASSUME NEW tree, IsTree(tree), NEW p \in Paths
  PROVE  IsTree(Without(tree, p))
<1> DEFINE after == Without(tree, p)
<1>1. /\ DOMAIN after = {r \in DOMAIN tree : r # p /\ ~IsDescendant(r, p)}
      /\ \A q \in DOMAIN after : after[q] = tree[q]
  BY DEF Without
<1>2. /\ DOMAIN tree \subseteq Paths /\ IsFiniteSet(DOMAIN tree)
      /\ \A q \in DOMAIN tree : IsNode(tree[q])
      /\ \A q \in DOMAIN tree, r \in Paths :
           IsDescendant(q, r) => r \in DOMAIN tree /\ tree[r].type = "directory"
  BY TreeMeans
<1> HIDE DEF after
<1>3. DOMAIN after \subseteq Paths /\ IsFiniteSet(DOMAIN after)
  BY <1>1, <1>2, FS_Subset
<1>4. \A q \in DOMAIN after : IsNode(after[q])
  BY <1>1, <1>2
<1>5. ASSUME NEW q \in DOMAIN after, NEW r \in Paths, IsDescendant(q, r)
      PROVE  r \in DOMAIN after /\ after[r].type = "directory"
  <2>1. q \in DOMAIN tree /\ q \in Paths /\ r \in DOMAIN tree /\ tree[r].type = "directory"
    BY <1>1, <1>2, <1>5
  <2>2. r # p /\ ~IsDescendant(r, p)
    BY <1>1, <1>5, <2>1, BelowIsOrder
  <2> QED
    BY <1>1, <2>1, <2>2
<1>6. IsTree(after)
  BY <1>3, <1>4, <1>5, TreeMeans
<1> QED
  BY <1>6 DEF after

LEMMA WithIsTree ==
  ASSUME NEW tree, IsTree(tree), NEW p \in Paths, NEW node, IsNode(node),
         ParentExists(tree, p), TypeAt(tree, p) = "directory" => node.type = "directory"
  PROVE  IsTree(With(tree, p, node))
<1> DEFINE after == With(tree, p, node)
<1>1. /\ DOMAIN after = DOMAIN tree \cup {p}
      /\ \A q \in DOMAIN after : after[q] = IF q = p THEN node ELSE tree[q]
  BY DEF With
<1>2. /\ DOMAIN tree \subseteq Paths /\ IsFiniteSet(DOMAIN tree)
      /\ \A q \in DOMAIN tree : IsNode(tree[q])
      /\ \A q \in DOMAIN tree, r \in Paths :
           IsDescendant(q, r) => r \in DOMAIN tree /\ tree[r].type = "directory"
  BY TreeMeans
<1> HIDE DEF after
<1>3. DOMAIN after \subseteq Paths /\ IsFiniteSet(DOMAIN after)
  BY <1>1, <1>2, FS_AddElement
<1>4. \A q \in DOMAIN after : IsNode(after[q])
  BY <1>1, <1>2
<1>5. ASSUME NEW q \in DOMAIN after, NEW r \in Paths, IsDescendant(q, r)
      PROVE  r \in DOMAIN after /\ after[r].type = "directory"
  <2>1. CASE q = p
    <3>1. p # Root /\ r # p
      BY <1>5, <2>1, RootIsPath, BelowIsOrder
    <3>2. Front(p) \in DOMAIN tree /\ tree[Front(p)].type = "directory"
      BY <3>1 DEF ParentExists, TypeAt
    <3>3. r = Front(p) \/ IsDescendant(Front(p), r)
      BY <1>5, <2>1, <3>1, FrontMeans
    <3>4. r \in DOMAIN tree /\ tree[r].type = "directory"
      BY <1>2, <3>2, <3>3
    <3> QED
      BY <1>1, <3>1, <3>4
  <2>2. CASE q # p
    <3>1. r \in DOMAIN tree /\ tree[r].type = "directory"
      BY <1>1, <1>2, <1>5, <2>2
    <3>2. r = p => node.type = "directory"
      BY <3>1 DEF TypeAt
    <3> QED
      BY <1>1, <3>1, <3>2
  <2> QED
    BY <2>1, <2>2
<1>6. IsTree(after)
  BY <1>3, <1>4, <1>5, TreeMeans
<1> QED
  BY <1>6 DEF after

LEMMA DirectoryIsNode == IsNode(Directory) /\ Directory.type = "directory" /\ Directory.etag = 0
  BY DEF IsNode, Directory, Kinds

\* MkdirAll makes what is missing, and leaves the rest.
LEMMA MkdirAllIsTree ==
  ASSUME NEW tree, IsTree(tree), NEW p \in Paths, CanMkdirAll(tree, p)
  PROVE  LET after == WithDirectories(tree, p)
         IN  /\ IsTree(after) /\ TypeAt(after, p) = "directory"
             /\ DOMAIN after = DOMAIN tree \cup Ancestors(p)
             /\ \A q \in DOMAIN tree : after[q] = tree[q]
             /\ \A q \in DOMAIN after \ DOMAIN tree : after[q] = Directory
<1> DEFINE after == WithDirectories(tree, p)
<1>0. Ancestors(p) = {q \in Paths : q = p \/ IsDescendant(p, q)}
  BY AncestorsMeans
<1>1. /\ DOMAIN after = DOMAIN tree \cup Ancestors(p)
      /\ \A q \in DOMAIN after : after[q] = IF q \in DOMAIN tree THEN tree[q] ELSE Directory
  BY DEF WithDirectories
<1>2. /\ DOMAIN tree \subseteq Paths /\ IsFiniteSet(DOMAIN tree)
      /\ \A q \in DOMAIN tree : IsNode(tree[q])
      /\ \A q \in DOMAIN tree, r \in Paths :
           IsDescendant(q, r) => r \in DOMAIN tree /\ tree[r].type = "directory"
  BY TreeMeans
<1> HIDE DEF after
<1>3. DOMAIN after \subseteq Paths /\ IsFiniteSet(DOMAIN after)
  <2>1. IsFiniteSet(DOMAIN tree \cup Ancestors(p))
    BY <1>2, AncestorsFinite, FS_Union
  <2> QED
    BY <1>0, <1>1, <1>2, <2>1
<1>4. \A q \in DOMAIN after : IsNode(after[q])
  BY <1>1, <1>2, DirectoryIsNode
<1>5. \A q \in Ancestors(p) : q \in DOMAIN after /\ after[q].type = "directory"
  <2> TAKE q \in Ancestors(p)
  <2>1. CASE q \in DOMAIN tree
    BY <1>1, <2>1, TypesAre DEF CanMkdirAll
  <2>2. CASE q \notin DOMAIN tree
    BY <1>1, <2>2, DirectoryIsNode
  <2> QED
    BY <2>1, <2>2
<1>6. ASSUME NEW q \in DOMAIN after, NEW r \in Paths, IsDescendant(q, r)
      PROVE  r \in DOMAIN after /\ after[r].type = "directory"
  <2>1. CASE q \in DOMAIN tree
    BY <1>1, <1>2, <1>6, <2>1
  <2>2. CASE q \notin DOMAIN tree
    <3>1. q \in Paths /\ (q = p \/ IsDescendant(p, q))
      BY <1>0, <1>1, <2>2
    <3>2. IsDescendant(p, r)
      BY <1>6, <3>1, BelowIsOrder
    <3> QED
      BY <1>0, <1>5, <3>2
  <2> QED
    BY <2>1, <2>2
<1>7. IsTree(after)
  BY <1>3, <1>4, <1>6, TreeMeans
<1>8. TypeAt(after, p) = "directory"
  BY <1>0, <1>5 DEF TypeAt
<1> QED
  BY <1>1, <1>7, <1>8 DEF after

\* A file or a directory is put where its directory has been made.
LEMMA PutIsTree ==
  ASSUME NEW tree, IsTree(tree), NEW p \in Paths, NEW node, IsNode(node), p # Root,
         CanMkdirAll(tree, Front(p)), TypeAt(tree, p) # "directory"
  PROVE  IsTree(With(WithDirectories(tree, Front(p)), p, node))
<1> DEFINE made == WithDirectories(tree, Front(p))
<1>1. Front(p) \in Paths /\ \A q \in Paths : IsDescendant(p, q) <=> q = Front(p) \/ IsDescendant(Front(p), q)
  BY FrontMeans
<1>2. /\ IsTree(made) /\ TypeAt(made, Front(p)) = "directory"
      /\ DOMAIN made = DOMAIN tree \cup Ancestors(Front(p))
      /\ \A q \in DOMAIN tree : made[q] = tree[q]
  BY <1>1, MkdirAllIsTree
<1>3. p \notin Ancestors(Front(p))
  <2>1. Ancestors(Front(p)) = {q \in Paths : q = Front(p) \/ IsDescendant(Front(p), q)}
    BY <1>1, AncestorsMeans
  <2>2. ~IsDescendant(p, p)
    BY BelowIsOrder
  <2> QED
    BY <1>1, <2>1, <2>2
<1> HIDE DEF made
<1>4. TypeAt(made, p) # "directory"
  BY <1>2, <1>3 DEF TypeAt
<1>5. IsTree(With(made, p, node))
  BY <1>2, <1>4, WithIsTree DEF ParentExists
<1> QED
  BY <1>5 DEF made

\* What users and other clients do leaves a tree.
LEMMA EditedIsTree ==
  ASSUME NEW tree, IsTree(tree), NEW file, IsNode(file), NEW after \in Edited(tree, file)
  PROVE  IsTree(after)
<1>0. EditPaths \subseteq Paths
  BY BoundsAssumption
<1>1. \/ \E p \in EditPaths :
           after = With(tree, p, file) /\ ParentExists(tree, p) /\ TypeAt(tree, p) # "directory"
      \/ \E p \in EditPaths \ DOMAIN tree : after = With(tree, p, Directory) /\ ParentExists(tree, p)
      \/ \E p \in EditPaths : after = Without(tree, p)
      \/ \E p, q \in EditPaths :
           /\ after = Without(With(tree, q, tree[p]), p)
           /\ TypeAt(tree, p) = "file" /\ q \notin DOMAIN tree /\ ParentExists(tree, q)
  BY DEF Edited
<1>2. ASSUME NEW p \in EditPaths, after = With(tree, p, file), ParentExists(tree, p),
             TypeAt(tree, p) # "directory"
      PROVE  IsTree(after)
  BY <1>0, <1>2, WithIsTree
<1>3. ASSUME NEW p \in EditPaths \ DOMAIN tree, after = With(tree, p, Directory), ParentExists(tree, p)
      PROVE  IsTree(after)
  BY <1>0, <1>3, WithIsTree, DirectoryIsNode
<1>4. ASSUME NEW p \in EditPaths, after = Without(tree, p)
      PROVE  IsTree(after)
  BY <1>0, <1>4, WithoutIsTree
<1>5. ASSUME NEW p \in EditPaths, NEW q \in EditPaths, after = Without(With(tree, q, tree[p]), p),
             TypeAt(tree, p) = "file", q \notin DOMAIN tree, ParentExists(tree, q)
      PROVE  IsTree(after)
  <2>1. p \in DOMAIN tree /\ IsNode(tree[p]) /\ TypeAt(tree, q) = ""
    BY <1>5, TypesAre
  <2>2. IsTree(With(tree, q, tree[p]))
    BY <1>0, <1>5, <2>1, WithIsTree
  <2> QED
    BY <1>0, <1>5, <2>2, WithoutIsTree
<1> QED
  BY <1>1, <1>2, <1>3, <1>4, <1>5

-----------------------------------------------------------------------------
(* ETags *)

\* A step gives at most one new node to a tree, with the ETag of the time.
Evolved(before, after, tick) ==
  \E fresh :
    /\ fresh.etag = tick
    /\ \A p \in DOMAIN after :
         \/ \E q \in DOMAIN before : after[p] = before[q]
         \/ after[p] = fresh
         \/ after[p] = Directory

ETagsBefore(tree, tick) ==
  /\ ETagsIdentify(tree)
  /\ \A p \in DOMAIN tree : tree[p].etag < tick

\* An entry that was seen stands for the only content its ETag will ever have.
Remembered(entry, tree, tick) ==
  entry.type = "file" =>
    /\ entry.etag # 0 /\ entry.etag < tick
    /\ \A q \in DOMAIN tree :
         tree[q].etag = entry.etag =>
           tree[q].type = "file" /\ (entry.checksum # 0 => tree[q].content = entry.checksum)

LEMMA EvolvedKeeps ==
  ASSUME NEW tick \in Nat \ {0}, NEW before, NEW after, IsTree(before), IsTree(after),
         Evolved(before, after, tick), ETagsBefore(before, tick)
  PROVE  /\ ETagsBefore(after, tick + 1)
         /\ \A entry \in Entries :
              Remembered(entry, before, tick) => Remembered(entry, after, tick + 1)
<1>1. PICK fresh :
        /\ fresh.etag = tick
        /\ \A p \in DOMAIN after :
             (\E q \in DOMAIN before : after[p] = before[q]) \/ after[p] = fresh
             \/ after[p] = Directory
  BY DEF Evolved
<1>2. \A q \in DOMAIN before : before[q].etag \in Nat /\ before[q].etag < tick
  BY TypesAre DEF ETagsBefore, IsNode
<1>3. \A p \in DOMAIN after : after[p].etag \in Nat /\ after[p].etag < tick + 1
  BY <1>1, <1>2, DirectoryIsNode
<1>4. ETagsIdentify(after)
  <2> SUFFICES ASSUME NEW p \in DOMAIN after, after[p].type = "file"
               PROVE  /\ after[p].etag # 0
                      /\ \A q \in DOMAIN after :
                           after[q].etag = after[p].etag =>
                             after[q].type = "file" /\ after[q].content = after[p].content
    BY DEF ETagsIdentify
  <2>1. CASE after[p] = fresh
    <3>1. after[p].etag = tick /\ tick # 0
      BY <1>1, <2>1
    <3>2. \A q \in DOMAIN after : after[q].etag = tick => after[q] = fresh
      BY <1>1, <1>2, DirectoryIsNode
    <3> QED
      BY <2>1, <3>1, <3>2
  <2>2. CASE \E r \in DOMAIN before : after[p] = before[r]
    <3>1. PICK r \in DOMAIN before : after[p] = before[r]
      BY <2>2
    <3>2. /\ before[r].type = "file" /\ before[r].etag # 0 /\ before[r].etag # tick
          /\ \A q \in DOMAIN before : before[q].etag = before[r].etag =>
               before[q].type = "file" /\ before[q].content = before[r].content
      BY <1>2, <3>1 DEF ETagsBefore, ETagsIdentify
    <3>3. ASSUME NEW q \in DOMAIN after, after[q].etag = before[r].etag
          PROVE  \E s \in DOMAIN before : after[q] = before[s]
      BY <1>1, <3>2, <3>3, DirectoryIsNode
    <3> QED
      BY <3>1, <3>2, <3>3
  <2> QED
    BY <1>1, <2>1, <2>2, DirectoryIsNode
<1>5. ASSUME NEW entry \in Entries, Remembered(entry, before, tick), entry.type = "file"
      PROVE  Remembered(entry, after, tick + 1)
  <2>1. /\ entry.etag \in Nat /\ entry.etag # 0 /\ entry.etag < tick
        /\ \A q \in DOMAIN before : before[q].etag = entry.etag =>
             before[q].type = "file" /\ (entry.checksum # 0 => before[q].content = entry.checksum)
    BY <1>5 DEF Remembered, Entries
  <2>2. ASSUME NEW q \in DOMAIN after, after[q].etag = entry.etag
        PROVE  \E s \in DOMAIN before : after[q] = before[s]
    BY <1>1, <2>1, <2>2, DirectoryIsNode
  <2>3. \A q \in DOMAIN after : after[q].etag = entry.etag =>
          after[q].type = "file" /\ (entry.checksum # 0 => after[q].content = entry.checksum)
    BY <2>1, <2>2
  <2>4. entry.etag < tick + 1
    BY <2>1
  <2> QED
    BY <2>1, <2>3, <2>4 DEF Remembered
<1>6. \A entry \in Entries : Remembered(entry, before, tick) => Remembered(entry, after, tick + 1)
  BY <1>5 DEF Remembered
<1> QED
  BY <1>3, <1>4, <1>6 DEF ETagsBefore

\* Of an entry that a guarded request names, the file is there.
LEMMA GuardFinds ==
  ASSUME NEW entry, entry.type = "file", Remembered(entry, remote, clock), NEW p, ETagHolds(p, entry)
  PROVE  /\ p \in DOMAIN remote /\ remote[p].type = "file"
         /\ entry.checksum # 0 => remote[p].content = entry.checksum
  BY DEF ETagHolds, Remembered

LEMMA WithoutEvolves ==
  ASSUME NEW tree, NEW p, NEW tick
  PROVE  Evolved(tree, Without(tree, p), tick)
<1>1. \A q \in DOMAIN Without(tree, p) : q \in DOMAIN tree /\ Without(tree, p)[q] = tree[q]
  BY DEF Without
<1>2. [etag |-> tick].etag = tick
  OBVIOUS
<1> QED
  BY <1>1, <1>2 DEF Evolved

LEMMA SameEvolves ==
  ASSUME NEW tree, NEW tick
  PROVE  Evolved(tree, tree, tick)
<1>1. [etag |-> tick].etag = tick
  OBVIOUS
<1> QED
  BY <1>1 DEF Evolved

LEMMA WithEvolves ==
  ASSUME NEW tree, NEW p, NEW node, NEW tick,
         node.etag = tick \/ node = Directory \/ \E q \in DOMAIN tree : node = tree[q]
  PROVE  /\ Evolved(tree, With(tree, p, node), tick)
         /\ \A r : Evolved(tree, Without(With(tree, p, node), r), tick)
<1>1. \A q \in DOMAIN With(tree, p, node) :
        With(tree, p, node)[q] = node \/ (q \in DOMAIN tree /\ With(tree, p, node)[q] = tree[q])
  BY DEF With
<1>2. \A r : \A q \in DOMAIN Without(With(tree, p, node), r) :
        q \in DOMAIN With(tree, p, node) /\ Without(With(tree, p, node), r)[q] = With(tree, p, node)[q]
  BY DEF Without
<1>3. PICK fresh : fresh.etag = tick /\ (fresh = node \/ node = Directory \/ \E q \in DOMAIN tree : node = tree[q])
  <2>1. [etag |-> tick].etag = tick
    OBVIOUS
  <2> QED
    BY <2>1
<1>4. \A q \in DOMAIN With(tree, p, node) :
        LET new == With(tree, p, node)[q]
        IN  (\E r \in DOMAIN tree : new = tree[r]) \/ new = fresh \/ new = Directory
  BY <1>1, <1>3
<1>5. Evolved(tree, With(tree, p, node), tick)
  BY <1>3, <1>4 DEF Evolved
<1>6. \A r : Evolved(tree, Without(With(tree, p, node), r), tick)
  BY <1>2, <1>3, <1>4 DEF Evolved
<1> QED
  BY <1>5, <1>6

-----------------------------------------------------------------------------
(* What a step makes of the trees *)

Targets == {"", "local", "remote"}
ActionKinds == {"skip", "conflict", "delete", "create-directory", "transfer", "move", "copy"}

\* An action as plans have them.
IsAction(a) ==
  /\ a \in [kind : ActionKinds, path : Paths, from : Paths, target : Targets, replace : BOOLEAN,
            source : Entries, destination : Entries]
  /\ a.kind \in {"transfer", "copy", "move"} => a.path # Root

TreesInv ==
  /\ clock \in Nat \ {0}
  /\ IsTree(local) /\ IsTree(remote) /\ ETagsBefore(remote, clock)

LEMMA FilesAreNodes ==
  ASSUME clock \in Nat, NEW content \in Names
  PROVE  /\ IsNode(File(content)) /\ File(content).type = "file" /\ File(content).etag = clock
         /\ File(content).content = content
         /\ IsNode(LocalFile(content)) /\ LocalFile(content).type = "file"
         /\ LocalFile(content).content = content
  BY BoundsAssumption DEF IsNode, File, LocalFile, Now, Names, Kinds

LEMMA PartIsContent ==
  ASSUME NEW content \in Names
  PROVE  PartialContent(content) \in Names
  BY DEF PartialContent, Names

LEMMA LocalResultsAreTrees ==
  ASSUME TreesInv, NEW a, IsAction(a), NEW after \in LocalResults(a)
  PROVE  IsTree(after)
<1>0. /\ clock \in Nat /\ IsTree(local) /\ a.path \in Paths /\ a.from \in Paths
      /\ a.kind \in {"transfer", "copy", "move"} => a.path # Root
  BY DEF TreesInv, IsAction
<1>1. CASE a.kind = "delete"
  BY <1>0, <1>1, WithoutIsTree DEF LocalResults
<1>2. CASE a.kind = "create-directory"
  <2>1. CanMkdirAll(local, a.path) /\ after = WithDirectories(local, a.path)
    BY <1>2 DEF LocalResults
  <2> QED
    BY <1>0, <2>1, MkdirAllIsTree
<1>3. CASE a.kind = "copy"
  <2>1. /\ TypeAt(local, a.from) = "file" /\ CanMkdirAll(local, Front(a.path)) /\ a.path \notin DOMAIN local
        /\ after = With(WithDirectories(local, Front(a.path)), a.path, LocalFile(local[a.from].content))
    BY <1>3 DEF LocalResults
  <2>2. local[a.from].content \in Names
    BY <1>0, <2>1, TypesAre DEF IsNode, Names
  <2>3. TypeAt(local, a.path) # "directory"
    BY <1>0, <2>1, TypesAre
  <2> QED
    BY <1>0, <1>3, <2>1, <2>2, <2>3, FilesAreNodes, PutIsTree
<1>4. CASE a.kind = "move"
  <2>1. /\ a.from \in DOMAIN local /\ CanMkdirAll(local, Front(a.path))
        /\ TypeAt(local, a.path) # "directory"
        /\ after = Without(With(WithDirectories(local, Front(a.path)), a.path, local[a.from]), a.from)
    BY <1>4 DEF LocalResults
  <2>2. IsNode(local[a.from])
    BY <1>0, <2>1, TypesAre
  <2>3. IsTree(With(WithDirectories(local, Front(a.path)), a.path, local[a.from]))
    BY <1>0, <1>4, <2>1, <2>2, PutIsTree
  <2> QED
    BY <1>0, <2>1, <2>3, WithoutIsTree
<1> QED
  BY <1>1, <1>2, <1>3, <1>4 DEF LocalResults

LEMMA RemoteResultsAreTrees ==
  ASSUME TreesInv, NEW a, IsAction(a), NEW after \in RemoteResults(a)
  PROVE  IsTree(after) /\ Evolved(remote, after, clock)
<1>0. /\ clock \in Nat /\ IsTree(local) /\ IsTree(remote) /\ a.path \in Paths /\ a.from \in Paths
      /\ a.kind \in {"transfer", "copy", "move"} => a.path # Root
  BY DEF TreesInv, IsAction
<1>1. CASE a.kind = "delete"
  <2>1. after = Without(remote, a.path)
    BY <1>1 DEF RemoteResults
  <2> QED
    BY <1>0, <2>1, WithoutIsTree, WithoutEvolves
<1>2. CASE a.kind = "create-directory"
  <2>1. \/ after = remote
        \/ ParentExists(remote, a.path) /\ after = With(remote, a.path, Directory)
    BY <1>2 DEF RemoteResults
  <2>2. CASE after = remote
    BY <1>0, <2>2, SameEvolves
  <2>3. CASE ParentExists(remote, a.path) /\ after = With(remote, a.path, Directory)
    BY <1>0, <2>3, WithIsTree, DirectoryIsNode, WithEvolves
  <2> QED
    BY <2>1, <2>2, <2>3
<1>3. CASE a.kind = "transfer"
  <2>1. /\ TypeAt(local, SourcePath(a)) = "file" /\ ParentExists(remote, a.path)
        /\ TypeAt(remote, a.path) # "directory"
        /\ after = With(remote, a.path, File(local[SourcePath(a)].content))
    BY <1>3 DEF RemoteResults
  <2>2. local[SourcePath(a)].content \in Names
    BY <1>0, <2>1, TypesAre DEF IsNode, Names
  <2> DEFINE node == File(local[SourcePath(a)].content)
  <2>3. IsNode(node) /\ node.etag = clock
    BY <1>0, <2>2, FilesAreNodes
  <2> HIDE DEF node
  <2>4. after = With(remote, a.path, node)
    BY <2>1 DEF node
  <2> QED
    BY <1>0, <2>1, <2>3, <2>4, WithIsTree, WithEvolves
<1>4. CASE a.kind \in {"move", "copy"}
  <2> DEFINE node == [remote[a.from] EXCEPT !.etag = clock]
  <2>1. /\ a.from \in DOMAIN remote /\ a.path \notin DOMAIN remote /\ ParentExists(remote, a.path)
        /\ after = With(remote, a.path, node) \/ after = Without(With(remote, a.path, node), a.from)
    BY <1>4 DEF RemoteResults
  <2>2. IsNode(node) /\ node.etag = clock
    <3>1. IsNode(remote[a.from])
      BY <1>0, <2>1, TypesAre
    <3> QED
      BY <1>0, <3>1 DEF IsNode
  <2> HIDE DEF node
  <2>3. TypeAt(remote, a.path) # "directory"
    BY <1>0, <2>1, TypesAre
  <2>4. IsTree(With(remote, a.path, node))
    BY <1>0, <2>1, <2>2, <2>3, WithIsTree
  <2> QED
    BY <1>0, <2>1, <2>2, <2>4, WithoutIsTree, WithEvolves
<1> QED
  BY <1>1, <1>2, <1>3, <1>4 DEF RemoteResults

\* A download goes to its path, or below it where there is a directory.
LEMMA DownloadTargetMeans ==
  ASSUME IsTree(local), NEW a, IsAction(a), IsDownload(a)
  PROVE  /\ DownloadTarget(a) \in Paths \ {Root}
         /\ TypeAt(local, a.path) # "directory" => DownloadTarget(a) = a.path
         /\ TypeAt(local, a.path) = "directory" => Front(DownloadTarget(a)) = a.path
<1>1. a.path \in Paths /\ a.path # Root /\ a.from \in Paths
  BY DEF IsAction, IsDownload
<1>2. SourcePath(a) \in Paths /\ SourcePath(a) # Root
  BY <1>1 DEF SourcePath
<1>3. Last(SourcePath(a)) \in Names
  <2>1. Len(SourcePath(a)) \in 1 .. Len(SourcePath(a))
    BY <1>2, PathFacts
  <2> QED
    BY <1>2, <2>1, PathFacts DEF Last
<1>4. /\ Append(a.path, Last(SourcePath(a))) \in Paths \ {Root}
      /\ Front(Append(a.path, Last(SourcePath(a)))) = a.path
  BY <1>1, <1>3, AppendMeans
<1> QED
  BY <1>1, <1>4 DEF DownloadTarget

LEMMA PartPathMeans ==
  ASSUME NEW p \in Paths \ {Root}
  PROVE  /\ PartPath(p) \in Paths \ {Root} /\ Front(PartPath(p)) = Front(p) /\ PartPath(p) # p
         /\ IsArtifact(PartPath(p))
<1>1. /\ PartPath(p) \in Paths /\ PartPath(p) # Root /\ PartPath(p) # p
      /\ Front(PartPath(p)) = Front(p) /\ Len(PartPath(p)) = Len(p)
      /\ PartPath(p)[Len(p)] = p[Len(p)] * 10000 + 1
  BY SiblingMeans DEF PartPath
<1>2. p[Len(p)] \in Names
  BY PathFacts
<1>3. p[Len(p)] * 10000 + 1 >= 10000 /\ (p[Len(p)] * 10000 + 1) % 10000 < 1000
  BY <1>2 DEF Names
<1> QED
  BY <1>1, <1>3 DEF IsArtifact

\* What a fetch makes of the local tree, and that it leaves what there was.
LEMMA FetchIsTree ==
  ASSUME IsTree(local), NEW a, IsAction(a), IsDownload(a), FetchAccepted(a),
         NEW node, IsNode(node)
  PROVE  LET after == With(WithDirectories(local, Front(a.path)), PartPath(DownloadTarget(a)), node)
         IN  /\ IsTree(after)
             /\ \A q \in DOMAIN local : q # PartPath(DownloadTarget(a)) => q \in DOMAIN after /\ after[q] = local[q]
             /\ a.path \in DOMAIN after => a.path \in DOMAIN local \/ a.path = PartPath(DownloadTarget(a))
<1> DEFINE made == WithDirectories(local, Front(a.path))
           part == PartPath(DownloadTarget(a))
           after == With(made, part, node)
<1>0. a.path \in Paths /\ a.path # Root
  BY DEF IsAction, IsDownload
<1>1. /\ Front(a.path) \in Paths /\ IsDescendant(a.path, Front(a.path))
      /\ Ancestors(Front(a.path)) = {q \in Paths : q = Front(a.path) \/ IsDescendant(Front(a.path), q)}
  BY <1>0, FrontMeans, AncestorsMeans
<1>2. /\ IsTree(made) /\ TypeAt(made, Front(a.path)) = "directory"
      /\ DOMAIN made = DOMAIN local \cup Ancestors(Front(a.path))
      /\ \A q \in DOMAIN local : made[q] = local[q]
  BY <1>1, MkdirAllIsTree DEF FetchAccepted
<1>3. part \in Paths \ {Root} /\ Front(part) = Front(DownloadTarget(a)) /\ TypeAt(local, part) # "directory"
  BY DownloadTargetMeans, PartPathMeans DEF FetchAccepted
<1>4. Front(part) = Front(a.path) \/ (Front(part) = a.path /\ TypeAt(local, a.path) = "directory")
  BY <1>3, DownloadTargetMeans
<1>5. a.path \notin Ancestors(Front(a.path))
  BY <1>0, <1>1, BelowIsOrder
<1>6. part \notin Ancestors(Front(a.path))
  <2> SUFFICES ASSUME part \in Ancestors(Front(a.path)) PROVE FALSE
    OBVIOUS
  <2>1. IsDescendant(part, Front(a.path))
    <3>1. IsDescendant(part, Front(part))
      BY <1>3, FrontMeans
    <3>2. Front(part) \in Paths
      BY <1>3, FrontMeans
    <3> QED
      BY <1>0, <1>1, <1>3, <1>4, <3>1, <3>2, BelowIsOrder
  <2> QED
    BY <1>1, <1>3, <2>1, BelowIsOrder
<1> HIDE DEF made, part
<1>7. ParentExists(made, part)
  <2>1. CASE Front(part) = Front(a.path)
    BY <1>2, <2>1 DEF ParentExists
  <2>2. CASE Front(part) = a.path /\ TypeAt(local, a.path) = "directory"
    <3>1. a.path \in DOMAIN local /\ local[a.path].type = "directory"
      BY <2>2, TypesAre
    <3> QED
      BY <1>2, <2>2, <3>1 DEF ParentExists, TypeAt
  <2> QED
    BY <1>4, <2>1, <2>2
<1>8. TypeAt(made, part) # "directory"
  BY <1>2, <1>3, <1>6 DEF TypeAt
<1>9. IsTree(after)
  BY <1>2, <1>3, <1>7, <1>8, WithIsTree
<1>10. \A q \in DOMAIN local : q # part => q \in DOMAIN after /\ after[q] = local[q]
  BY <1>2 DEF With
<1>11. a.path \in DOMAIN after => a.path \in DOMAIN local \/ a.path = part
  BY <1>2, <1>5 DEF With
<1> QED
  BY <1>9, <1>10, <1>11 DEF after, made, part

\* What a commit makes of it.
LEMMA CommitIsTree ==
  ASSUME IsTree(local), NEW a, CommitAccepted(a), fetched.target \in Paths \ {Root},
         NEW node, IsNode(node)
  PROVE  IsTree(Without(With(local, fetched.target, node), PartPath(fetched.target)))
<1>1. /\ PartPath(fetched.target) \in Paths \ {Root}
      /\ Front(PartPath(fetched.target)) = Front(fetched.target)
  BY PartPathMeans
<1>2. PartPath(fetched.target) \in DOMAIN local
  BY TypesAre DEF CommitAccepted
<1>3. Front(fetched.target) \in DOMAIN local /\ local[Front(fetched.target)].type = "directory"
  <2>1. /\ Front(PartPath(fetched.target)) \in Paths
        /\ IsDescendant(PartPath(fetched.target), Front(PartPath(fetched.target)))
    BY <1>1, FrontMeans
  <2> QED
    BY <1>1, <1>2, <2>1, TreeMeans
<1>4. ParentExists(local, fetched.target)
  BY <1>3 DEF ParentExists, TypeAt
<1>5. IsTree(With(local, fetched.target, node))
  BY <1>4, WithIsTree DEF CommitAccepted
<1> QED
  BY <1>1, <1>5, WithoutIsTree

\* The step at hand is an action, and a download has a target.
StepTyped ==
  /\ pc \in InAction => IsAction(Current)
  /\ pc = "commit" =>
       IsDownload(Current) /\ fetched.target \in Paths \ {Root} /\ fetched.content \in Names

TreesStay == UNCHANGED <<local, remote, clock>>
TreesMove ==
  /\ clock' = clock + 1
  /\ IsTree(local') /\ IsTree(remote') /\ Evolved(remote, remote', clock)

LEMMA RemoveReplacedMoves ==
  ASSUME TreesInv, StepTyped, RemoveReplaced
  PROVE  TreesMove
<1>1. Current.path \in Paths
  BY DEF StepTyped, InAction, IsAction, RemoveReplaced
<1>2. /\ clock' = clock + 1
      /\ \/ local' = Without(local, Current.path) /\ remote' = remote
         \/ local' = local /\ remote' = Without(remote, Current.path)
  BY DEF RemoveReplaced, Mutate
<1> QED
  BY <1>1, <1>2, WithoutIsTree, WithoutEvolves, SameEvolves DEF TreesMove, TreesInv

LEMMA ApplyMoves ==
  ASSUME TreesInv, StepTyped, Apply
  PROVE  TreesMove
<1>1. IsAction(Current)
  BY DEF StepTyped, InAction, Apply
<1>2. /\ clock' = clock + 1
      /\ \/ local' \in LocalResults(Current) /\ remote' = remote
         \/ local' = local /\ remote' \in RemoteResults(Current)
  BY DEF Apply, Mutate
<1>3. CASE local' \in LocalResults(Current) /\ remote' = remote
  BY <1>1, <1>2, <1>3, LocalResultsAreTrees, SameEvolves DEF TreesMove, TreesInv
<1>4. CASE local' = local /\ remote' \in RemoteResults(Current)
  BY <1>1, <1>2, <1>4, RemoteResultsAreTrees DEF TreesMove, TreesInv
<1> QED
  BY <1>2, <1>3, <1>4

\* A download reads a file that is there.
LEMMA FetchReads ==
  ASSUME NEW a, IsTree(remote), FetchAccepted(a)
  PROVE  remote[SourcePath(a)].content \in Names
<1>1. TypeAt(remote, SourcePath(a)) = "file"
  BY DEF FetchAccepted
<1>2. IsNode(remote[SourcePath(a)]) /\ remote[SourcePath(a)].type = "file"
  BY <1>1, TypesAre
<1> QED
  BY <1>2 DEF IsNode, Names

LEMMA FetchMoves ==
  ASSUME TreesInv, StepTyped, Fetch
  PROVE  /\ TreesMove
         /\ fetched'.target \in Paths \ {Root} /\ fetched'.content \in Names
<1>0. IsTree(local) /\ IsTree(remote) /\ clock \in Nat
  BY DEF TreesInv
<1>1. IsAction(Current) /\ IsDownload(Current) /\ FetchAccepted(Current)
  BY DEF StepTyped, InAction, Fetch
<1> DEFINE got == remote[SourcePath(Current)]
           node == LocalFile(PartialContent(got.content))
<1>2. /\ clock' = clock + 1 /\ remote' = remote
      /\ local' = With(WithDirectories(local, Front(Current.path)),
                       PartPath(DownloadTarget(Current)), node)
      /\ fetched'.target = DownloadTarget(Current) /\ fetched'.content = got.content
  BY DEF Fetch, Mutate
<1>3. got.content \in Names
  BY <1>0, <1>1, FetchReads
<1>4. PartialContent(got.content) \in Names
  BY <1>3 DEF PartialContent, Names
<1>5. IsNode(node)
  BY <1>0, <1>4, FilesAreNodes
<1> HIDE DEF node, got
<1>6. IsTree(local')
  BY <1>0, <1>1, <1>2, <1>5, FetchIsTree
<1>7. fetched'.target \in Paths \ {Root}
  BY <1>0, <1>1, <1>2, DownloadTargetMeans
<1> QED
  BY <1>0, <1>2, <1>3, <1>6, <1>7, SameEvolves DEF TreesMove

LEMMA CommitMoves ==
  ASSUME TreesInv, StepTyped, Commit
  PROVE  TreesMove
<1>0. IsTree(local) /\ IsTree(remote) /\ clock \in Nat
  BY DEF TreesInv
<1>1. /\ CommitAccepted(Current) /\ fetched.target \in Paths \ {Root} /\ fetched.content \in Names
  BY DEF StepTyped, Commit
<1>2. /\ clock' = clock + 1 /\ remote' = remote
      /\ local' = Without(With(local, fetched.target, LocalFile(fetched.content)), PartPath(fetched.target))
  BY DEF Commit, Mutate
<1>3. IsTree(local')
  BY <1>0, <1>1, <1>2, CommitIsTree, FilesAreNodes
<1> QED
  BY <1>0, <1>2, <1>3, SameEvolves DEF TreesMove

\* What a dead upload leaves is new and beside its target.
LEMMA CrashDuringUploadMoves ==
  ASSUME TreesInv, StepTyped, CrashDuringUpload
  PROVE  TreesMove
<1>0. IsTree(local) /\ IsTree(remote) /\ clock \in Nat
  BY DEF TreesInv
<1>1. Current.path \in Paths \ {Root}
  BY DEF StepTyped, InAction, IsAction, CrashDuringUpload
<1> DEFINE temp == UploadTempPath(Current.path)
           node == File(local[SourcePath(Current)].content)
<1>2. /\ clock' = clock + 1 /\ local' = local /\ remote' = With(remote, temp, node)
      /\ temp \notin DOMAIN remote
      /\ TypeAt(local, SourcePath(Current)) = "file" /\ ParentExists(remote, Current.path)
  BY DEF CrashDuringUpload, Mutate
<1>3. temp \in Paths /\ temp # Root /\ Front(temp) = Front(Current.path)
  BY <1>0, <1>1, SiblingMeans DEF UploadTempPath
<1>4. ParentExists(remote, temp)
  BY <1>1, <1>2, <1>3 DEF ParentExists
<1>5. local[SourcePath(Current)].content \in Names
  BY <1>0, <1>2, TypesAre DEF IsNode, Names
<1>6. IsNode(node) /\ node.etag = clock
  BY <1>0, <1>5, FilesAreNodes
<1> HIDE DEF node, temp
<1>7. IsTree(remote')
  BY <1>0, <1>2, <1>3, <1>4, <1>6, TypesAre, WithIsTree
<1> QED
  BY <1>0, <1>2, <1>6, <1>7, WithEvolves DEF TreesMove

\* So is what a dead copy leaves, beside the original.
LEMMA CrashDuringCopyMoves ==
  ASSUME TreesInv, StepTyped, CrashDuringCopy
  PROVE  TreesMove
<1>0. IsTree(local) /\ IsTree(remote) /\ clock \in Nat
  BY DEF TreesInv
<1>1. IsAction(Current) /\ Current.kind = "copy"
  BY DEF StepTyped, InAction, CrashDuringCopy
<1>2. Current.path \in Paths /\ Current.path # Root /\ Current.from \in Paths
  BY <1>1 DEF IsAction
<1> DEFINE temp == CopyTempPath(Current.from)
           there == WithDirectories(local, Front(Current.path))
           content == local[Current.from].content
<1>3. /\ clock' = clock + 1 /\ remote' = remote
      /\ TypeAt(local, Current.from) = "file" /\ CanMkdirAll(local, Front(Current.path))
      /\ \E written \in {PartialContent(content), content} :
         \E tree \in {there} \cup LocalResults(Current) :
           temp \notin DOMAIN tree /\ local' = With(tree, temp, LocalFile(written))
  BY DEF CrashDuringCopy, Mutate
<1> HIDE DEF temp, there, content
<1>4. PICK written \in {PartialContent(content), content} :
        \E tree \in {there} \cup LocalResults(Current) :
          temp \notin DOMAIN tree /\ local' = With(tree, temp, LocalFile(written))
  BY <1>3
<1>5. PICK tree \in {there} \cup LocalResults(Current) :
        temp \notin DOMAIN tree /\ local' = With(tree, temp, LocalFile(written))
  BY <1>4
<1>6. IsNode(LocalFile(written))
  <2>1. IsNode(local[Current.from]) /\ local[Current.from].type = "file"
    BY <1>0, <1>3, TypesAre
  <2>2. content \in Names
    BY <2>1 DEF IsNode, Names, content
  <2> QED
    BY <1>0, <2>2, PartIsContent, FilesAreNodes
<1>7. Front(Current.path) \in Paths
  BY <1>2, FrontMeans
<1>8. /\ IsTree(there) /\ DOMAIN local \subseteq DOMAIN there
      /\ \A q \in DOMAIN local : there[q] = local[q]
  <2>1. LET after == WithDirectories(local, Front(Current.path))
        IN  /\ IsTree(after) /\ DOMAIN after = DOMAIN local \cup Ancestors(Front(Current.path))
            /\ \A q \in DOMAIN local : after[q] = local[q]
    BY <1>0, <1>3, <1>7, MkdirAllIsTree
  <2> QED
    BY <2>1 DEF there
<1>9. IsTree(tree)
  BY <1>1, <1>8, LocalResultsAreTrees
<1>10. \A q \in DOMAIN local : q \in DOMAIN tree /\ tree[q] = local[q]
  <2>1. CASE tree = there
    BY <1>8, <2>1
  <2>2. CASE tree \in LocalResults(Current)
    <3>1. /\ Current.path \notin DOMAIN local
          /\ tree = With(there, Current.path, LocalFile(content))
      BY <1>1, <2>2 DEF LocalResults, there, content
    <3> QED
      BY <1>8, <3>1 DEF With
  <2> QED
    BY <2>1, <2>2
<1>11. Current.from \in DOMAIN tree /\ TypeAt(tree, Current.from) = "file"
  BY <1>0, <1>3, <1>10, TypesAre DEF TypeAt
<1>12. Current.from # Root
  <2> SUFFICES ASSUME Current.from = Root PROVE FALSE
    OBVIOUS
  <2>1. temp = Root
    BY EmptySeq DEF temp, CopyTempPath, Sibling, Root
  <2> QED
    BY <1>5, <1>11, <2>1
<1>13. temp \in Paths /\ temp # Root /\ Front(temp) = Front(Current.from)
  BY <1>0, <1>2, <1>12, SiblingMeans DEF temp, CopyTempPath
<1>14. ParentExists(tree, temp)
  <2>1. Front(Current.from) \in Paths /\ IsDescendant(Current.from, Front(Current.from))
    BY <1>2, <1>12, FrontMeans
  <2> QED
    BY <1>9, <1>11, <1>13, <2>1, TreeMeans DEF ParentExists, TypeAt
<1>15. IsTree(local')
  BY <1>5, <1>6, <1>9, <1>13, <1>14, TypesAre, WithIsTree
<1> QED
  BY <1>0, <1>3, <1>15, SameEvolves DEF TreesMove

LEMMA CrashDuringRemoveMoves ==
  ASSUME TreesInv, CrashDuringRemove
  PROVE  TreesMove
<1>1. PICK p \in DOMAIN local :
        clock' = clock + 1 /\ remote' = remote /\ local' = Without(local, p)
  BY DEF CrashDuringRemove, Mutate
<1>2. p \in Paths
  BY TypesAre DEF TreesInv
<1> QED
  BY <1>1, <1>2, WithoutIsTree, SameEvolves DEF TreesMove, TreesInv

LEMMA EditMoves ==
  ASSUME TreesInv, EditLocal \/ EditRemote
  PROVE  TreesMove
<1>0. IsTree(local) /\ IsTree(remote) /\ clock \in Names /\ clock \in Nat
  BY DEF TreesInv, Names
<1>1. CASE EditLocal
  <2>1. clock' = clock + 1 /\ remote' = remote /\ local' \in Edited(local, LocalFile(clock))
    BY <1>1 DEF EditLocal, Edit
  <2>2. IsTree(local')
    BY <1>0, <2>1, FilesAreNodes, EditedIsTree
  <2> QED
    BY <1>0, <2>1, <2>2, SameEvolves DEF TreesMove
<1>2. CASE EditRemote
  <2>1. clock' = clock + 1 /\ local' = local /\ remote' \in Edited(remote, File(clock))
    BY <1>2 DEF EditRemote, Edit
  <2>2. IsTree(remote') /\ File(clock).etag = clock
    BY <1>0, <2>1, FilesAreNodes, EditedIsTree
  <2>3. Evolved(remote, remote', clock)
    <3>1. \/ \E p \in EditPaths : remote' = With(remote, p, File(clock))
          \/ \E p \in EditPaths : remote' = With(remote, p, Directory)
          \/ \E p \in EditPaths : remote' = Without(remote, p)
          \/ \E p, q \in EditPaths :
               p \in DOMAIN remote /\ remote' = Without(With(remote, q, remote[p]), p)
      BY <1>0, <2>1, TypesAre DEF Edited, TypeAt
    <3> QED
      BY <2>2, <3>1, WithEvolves, WithoutEvolves
  <2> QED
    BY <1>0, <2>1, <2>2, <2>3 DEF TreesMove
<1> QED
  BY <1>1, <1>2

-----------------------------------------------------------------------------
(* The order of a plan *)

LEMMA PathLessIsOrder ==
  ASSUME NEW p \in Paths, NEW q \in Paths, NEW r \in Paths
  PROVE  /\ ~PathLess(p, p)
         /\ PathLess(p, q) /\ PathLess(q, r) => PathLess(p, r)
         /\ p # q => PathLess(p, q) \/ PathLess(q, p)
<1>0. /\ Len(p) \in Nat /\ Len(q) \in Nat /\ Len(r) \in Nat
      /\ \A i \in 1 .. Len(p) : p[i] \in Nat
      /\ \A i \in 1 .. Len(q) : q[i] \in Nat
      /\ \A i \in 1 .. Len(r) : r[i] \in Nat
  BY PathFacts DEF Names
<1>1. ~PathLess(p, p)
  BY <1>0 DEF PathLess
<1>2. PathLess(p, q) /\ PathLess(q, r) => PathLess(p, r)
  <2> SUFFICES ASSUME PathLess(p, q), PathLess(q, r) PROVE PathLess(p, r)
    OBVIOUS
  <2>1. PICK i \in 1 .. Len(q) :
          /\ \A j \in 1 .. (i - 1) : j <= Len(p) /\ p[j] = q[j]
          /\ i > Len(p) \/ p[i] < q[i]
    BY DEF PathLess
  <2>2. PICK k \in 1 .. Len(r) :
          /\ \A j \in 1 .. (k - 1) : j <= Len(q) /\ q[j] = r[j]
          /\ k > Len(q) \/ q[k] < r[k]
    BY DEF PathLess
  <2>3. CASE i < k
    <3>1. i \in 1 .. Len(r) /\ i \in 1 .. (k - 1)
      BY <1>0, <2>3
    <3>2. \A j \in 1 .. (i - 1) : j <= Len(p) /\ p[j] = r[j]
      BY <1>0, <2>1, <2>2, <2>3
    <3>3. i > Len(p) \/ p[i] < r[i]
      BY <2>1, <2>2, <3>1
    <3> QED
      BY <3>1, <3>2, <3>3 DEF PathLess
  <2>4. CASE i = k
    <3>1. \A j \in 1 .. (k - 1) : j <= Len(p) /\ p[j] = r[j]
      BY <2>1, <2>2, <2>4
    <3>2. q[k] < r[k] /\ q[k] \in Nat /\ r[k] \in Nat
      BY <1>0, <2>1, <2>2, <2>4
    <3>3. k > Len(p) \/ p[k] < r[k]
      BY <1>0, <2>1, <2>4, <3>2
    <3> QED
      BY <3>1, <3>3 DEF PathLess
  <2>5. CASE k < i
    <3>1. k \in 1 .. (i - 1) /\ k \in 1 .. Len(q)
      BY <1>0, <2>5
    <3>2. \A j \in 1 .. (k - 1) : j <= Len(p) /\ p[j] = r[j]
      BY <1>0, <2>1, <2>2, <2>5
    <3>3. q[k] < r[k] /\ p[k] = q[k]
      BY <1>0, <2>1, <2>2, <3>1
    <3> QED
      BY <3>2, <3>3 DEF PathLess
  <2> QED
    BY <2>3, <2>4, <2>5
<1>3. p # q => PathLess(p, q) \/ PathLess(q, p)
  <2> SUFFICES ASSUME p # q PROVE PathLess(p, q) \/ PathLess(q, p)
    OBVIOUS
  <2> DEFINE Differ == {i \in Nat \ {0} : i > Len(p) \/ i > Len(q) \/ p[i] # q[i]}
  <2>1. Differ \subseteq Nat /\ Len(p) + 1 \in Differ
    BY <1>0
  <2>2. PICK i \in Differ : \A j \in Differ : i <= j
    <3> HIDE DEF Differ
    <3> QED
      BY <2>1, Least
  <2>3. i \in Nat \ {0}
    BY <2>2
  <2>4. \A j \in 1 .. (i - 1) : j <= Len(p) /\ j <= Len(q) /\ p[j] = q[j]
    <3> TAKE j \in 1 .. (i - 1)
    <3>1. j \in Nat \ {0} /\ ~(i <= j)
      BY <2>3
    <3>2. j \notin Differ
      BY <2>2, <3>1
    <3> QED
      BY <1>0, <3>1, <3>2
  <2>5. CASE i > Len(p) /\ i > Len(q)
    <3>1. Len(p) = i - 1 /\ Len(q) = i - 1
      <4>1. i - 1 <= Len(p) /\ i - 1 <= Len(q)
        <5>1. CASE i = 1
          BY <1>0, <5>1
        <5>2. CASE i # 1
          <6>1. i - 1 \in 1 .. (i - 1)
            BY <2>3, <5>2
          <6> QED
            BY <2>4, <6>1
        <5> QED
          BY <5>1, <5>2
      <4> QED
        BY <1>0, <2>3, <2>5, <4>1
    <3>2. p = q
      BY <2>4, <3>1, SamePath
    <3> QED
      BY <3>2
  <2>6. CASE i > Len(p) /\ i <= Len(q)
    <3>1. i \in 1 .. Len(q)
      BY <1>0, <2>3, <2>6
    <3> QED
      BY <2>4, <2>6, <3>1 DEF PathLess
  <2>7. CASE i > Len(q) /\ i <= Len(p)
    <3>1. i \in 1 .. Len(p)
      BY <1>0, <2>3, <2>7
    <3> QED
      BY <2>4, <2>7, <3>1 DEF PathLess
  <2>8. CASE i <= Len(p) /\ i <= Len(q)
    <3>1. i \in 1 .. Len(p) /\ i \in 1 .. Len(q)
      BY <1>0, <2>3, <2>8
    <3>2. p[i] # q[i] /\ p[i] \in Nat /\ q[i] \in Nat
      BY <1>0, <2>2, <2>8, <3>1
    <3>3. p[i] < q[i] \/ q[i] < p[i]
      BY <3>2
    <3> QED
      BY <2>4, <3>1, <3>3 DEF PathLess
  <2> QED
    BY <1>0, <2>3, <2>5, <2>6, <2>7, <2>8
<1> QED
  BY <1>1, <1>2, <1>3

LEMMA RankFacts ==
  ASSUME NEW a, a.path \in Paths
  PROVE  /\ ActionRank(a) \in 0 .. 4 /\ (ActionRank(a) = 1 <=> a.kind = "delete")
         /\ PathDepth(a.path) \in Int
<1>1. PathDepth(a.path) \in Int
  BY PathFacts DEF PathDepth
<1>2. ActionRank(a) \in 0 .. 4 /\ (ActionRank(a) = 1 <=> a.kind = "delete")
  BY DEF ActionRank
<1> QED
  BY <1>1, <1>2

LEMMA BeforeIsOrder ==
  ASSUME NEW a, NEW b, NEW c, a.path \in Paths, b.path \in Paths, c.path \in Paths
  PROVE  /\ ~ActionBefore(a, a)
         /\ ActionBefore(a, b) /\ ActionBefore(b, c) => ActionBefore(a, c)
         /\ a.path # b.path => ActionBefore(a, b) \/ ActionBefore(b, a)
<1>1. /\ ActionRank(a) \in Int /\ ActionRank(b) \in Int /\ ActionRank(c) \in Int
      /\ PathDepth(a.path) \in Int /\ PathDepth(b.path) \in Int /\ PathDepth(c.path) \in Int
      /\ ActionRank(a) = ActionRank(b) => (a.kind = "delete" <=> b.kind = "delete")
      /\ ActionRank(b) = ActionRank(c) => (b.kind = "delete" <=> c.kind = "delete")
  BY RankFacts
<1>2. ~ActionBefore(a, a)
  BY PathLessIsOrder DEF ActionBefore
<1>3. ActionBefore(a, b) /\ ActionBefore(b, c) => ActionBefore(a, c)
  <2>1. PathLess(a.path, b.path) /\ PathLess(b.path, c.path) => PathLess(a.path, c.path)
    BY PathLessIsOrder
  <2> QED
    BY <1>1, <2>1 DEF ActionBefore
<1>4. a.path # b.path => ActionBefore(a, b) \/ ActionBefore(b, a)
  <2>1. a.path # b.path => PathLess(a.path, b.path) \/ PathLess(b.path, a.path)
    BY PathLessIsOrder
  <2> QED
    BY <1>1, <2>1 DEF ActionBefore
<1> QED
  BY <1>2, <1>3, <1>4

\* The plan has the actions and nothing else.
LEMMA SortKeeps ==
  ASSUME NEW actions, IsFiniteSet(DOMAIN actions), DOMAIN actions \subseteq Paths,
         \A p \in DOMAIN actions : actions[p].path = p
  PROVE  /\ Cardinality(DOMAIN actions) \in Nat
         /\ DOMAIN SortActions(actions) = 1 .. Cardinality(DOMAIN actions)
         /\ SortActions(actions) = [i \in 1 .. Cardinality(DOMAIN actions) |-> SortActions(actions)[i]]
         /\ \A i \in DOMAIN SortActions(actions) :
              \E p \in DOMAIN actions : SortActions(actions)[i] = actions[p]
         /\ \A p \in DOMAIN actions :
              \E i \in DOMAIN SortActions(actions) : SortActions(actions)[i] = actions[p]
<1> DEFINE D == DOMAIN actions
           n == Cardinality(D)
           Earlier(p) == {q \in D : ActionBefore(actions[q], actions[p])}
           position == [p \in D |-> 1 + Cardinality(Earlier(p))]
<1>1. n \in Nat
  BY FS_CardinalityType
<1>2. \A p \in D : IsFiniteSet(Earlier(p)) /\ Cardinality(Earlier(p)) \in Nat
  <2> TAKE p \in D
  <2>1. Earlier(p) \in SUBSET D
    OBVIOUS
  <2> HIDE DEF Earlier
  <2>2. IsFiniteSet(Earlier(p))
    BY <2>1, FS_Subset
  <2> QED
    BY <2>2, FS_CardinalityType
<1>3. \A p \in D : Cardinality(Earlier(p)) < n
  <2> TAKE p \in D
  <2>1. ~ActionBefore(actions[p], actions[p])
    BY BeforeIsOrder
  <2>2. Earlier(p) \subseteq D \ {p}
    BY <2>1
  <2>3. IsFiniteSet(D \ {p}) /\ Cardinality(D \ {p}) = n - 1
    BY FS_RemoveElement
  <2> HIDE DEF Earlier
  <2>4. Cardinality(Earlier(p)) <= n - 1
    BY <2>2, <2>3, FS_Subset
  <2> QED
    BY <1>1, <1>2, <2>4
<1>4. ASSUME NEW p \in D, NEW q \in D, ActionBefore(actions[p], actions[q])
      PROVE  Cardinality(Earlier(p)) < Cardinality(Earlier(q))
  <2>1. ~ActionBefore(actions[p], actions[p])
    BY BeforeIsOrder
  <2>2. p \in Earlier(q)
    BY <1>4
  <2>3. Earlier(p) \subseteq Earlier(q) \ {p}
    <3> SUFFICES ASSUME NEW r \in D, ActionBefore(actions[r], actions[p])
                 PROVE  ActionBefore(actions[r], actions[q]) /\ r # p
      OBVIOUS
    <3>1. actions[p].path \in Paths /\ actions[q].path \in Paths /\ actions[r].path \in Paths
      OBVIOUS
    <3> QED
      BY <1>4, <2>1, <3>1, BeforeIsOrder
  <2> HIDE DEF Earlier
  <2>4. IsFiniteSet(Earlier(q) \ {p}) /\ Cardinality(Earlier(q) \ {p}) = Cardinality(Earlier(q)) - 1
    BY <1>2, <2>2, FS_RemoveElement
  <2>5. Cardinality(Earlier(p)) <= Cardinality(Earlier(q)) - 1
    BY <2>3, <2>4, FS_Subset
  <2> QED
    BY <1>2, <2>5
<1>5. position \in Injection(D, 1 .. n)
  <2>1. position \in [D -> 1 .. n]
    <3> HIDE DEF Earlier, n
    <3> QED
      BY <1>1, <1>2, <1>3
  <2>2. ASSUME NEW p \in D, NEW q \in D, position[p] = position[q], p # q
        PROVE  FALSE
    <3>1. ActionBefore(actions[p], actions[q]) \/ ActionBefore(actions[q], actions[p])
      BY <2>2, BeforeIsOrder
    <3>2. Cardinality(Earlier(p)) # Cardinality(Earlier(q))
      <4> HIDE DEF Earlier
      <4> QED
        BY <1>2, <1>4, <3>1
    <3>3. position[p] = 1 + Cardinality(Earlier(p)) /\ position[q] = 1 + Cardinality(Earlier(q))
      OBVIOUS
    <3>4. Cardinality(Earlier(p)) \in Nat /\ Cardinality(Earlier(q)) \in Nat
      BY <1>2
    <3>5. 1 + Cardinality(Earlier(p)) = 1 + Cardinality(Earlier(q))
      BY <2>2, <3>3
    <3> HIDE DEF position, Earlier
    <3> QED
      BY <3>2, <3>4, <3>5
  <2> HIDE DEF position, n
  <2> QED
    BY <2>1, <2>2 DEF Injection, IsInjective
<1>6. position \in Surjection(D, 1 .. n)
  <2>1. IsFiniteSet(1 .. n) /\ Cardinality(1 .. n) = n
    <3> HIDE DEF n
    <3>1. IsFiniteSet(1 .. n) /\ Cardinality(1 .. n) = IF 1 > n THEN 0 ELSE n - 1 + 1
      BY <1>1, FS_Interval
    <3> QED
      BY <1>1, <3>1
  <2>2. Cardinality(D) = Cardinality(1 .. n) <=> position \in Surjection(D, 1 .. n)
    <3> HIDE DEF position, n
    <3> QED
      BY <1>5, <2>1, FS_Injection
  <2> QED
    BY <2>1, <2>2
<1>7. SortActions(actions) = [i \in 1 .. n |-> actions[CHOOSE p \in D : 1 + Cardinality(Earlier(p)) = i]]
  BY DEF SortActions
<1>8. \A i \in 1 .. n : (CHOOSE p \in D : 1 + Cardinality(Earlier(p)) = i) \in D
  <2> TAKE i \in 1 .. n
  <2>1. \E p \in D : position[p] = i
    <3> HIDE DEF position, n
    <3> QED
      BY <1>6 DEF Surjection
  <2>2. \E p \in D : 1 + Cardinality(Earlier(p)) = i
    BY <2>1
  <2> HIDE DEF Earlier
  <2> QED
    BY <2>2
<1>9. ASSUME NEW p \in D
      PROVE  /\ position[p] \in 1 .. n
             /\ (CHOOSE q \in D : 1 + Cardinality(Earlier(q)) = position[p]) = p
  <2>1. position \in [D -> 1 .. n] /\ \A q \in D : position[q] = position[p] => q = p
    <3> HIDE DEF position, n
    <3> QED
      BY <1>5 DEF Injection, IsInjective
  <2>2. \A q \in D : position[q] = 1 + Cardinality(Earlier(q))
    OBVIOUS
  <2> HIDE DEF position, Earlier, n
  <2>3. \E q \in D : 1 + Cardinality(Earlier(q)) = position[p]
    BY <2>2
  <2> QED
    BY <2>1, <2>2, <2>3
<1> HIDE DEF Earlier
<1>10. \A p \in D : \E i \in 1 .. n : SortActions(actions)[i] = actions[p]
  <2> TAKE p \in D
  <2> HIDE DEF position
  <2>1. SortActions(actions)[position[p]] = actions[p] /\ position[p] \in 1 .. n
    BY <1>7, <1>9
  <2> QED
    BY <2>1
<1> HIDE DEF position
<1> QED
  BY <1>1, <1>7, <1>8, <1>10

-----------------------------------------------------------------------------
(* What the planner plans *)

\* What a scan finds.
IsSnapshot(seen) ==
  /\ DOMAIN seen \subseteq Paths /\ IsFiniteSet(DOMAIN seen)
  /\ \A p \in DOMAIN seen : IsEntry(seen[p]) /\ seen[p].type \in Kinds

\* A baseline of trees that agreed.
IsAgreed(state) ==
  /\ IsBaseline(state)
  /\ \A p \in DOMAIN state.entries : Converged(state.entries[p].source, state.entries[p].destination)

\* The baseline has the version that an action found at its path.
Agreed(a) ==
  a.destination.checksum # 0 /\ RecordAt(previous, a.path).source.checksum = a.destination.checksum

\* What is planned to go is a directory, or a version that the two sides had
\* agreed on.
Guarded(a) ==
  /\ a.kind \in {"delete", "create-directory", "transfer", "move"} /\ a.target \in {"local", "remote"}
  /\ a.replace => Present(a.destination) /\ a.kind \in {"create-directory", "transfer"}
  /\ a.kind = "delete" => ~Present(a.source) /\ Present(a.destination)
  /\ a.kind = "transfer" /\ Present(a.destination) =>
       a.destination.type = IF a.replace THEN "directory" ELSE "file"
  /\ a.kind = "move" => a.destination.type = "file"
  /\ (a.kind \in {"delete", "transfer"} \/ a.replace) /\ a.destination.type = "file" => Agreed(a)

\* An action on the remote side names what was seen there.
NamesSeen(a) ==
  a.target = "remote" =>
    a.destination = NoEntry \/ \E p \in DOMAIN seenRemote : a.destination = seenRemote[p]

LEMMA NoEntryIsEntry == IsEntry(NoEntry) /\ ~Present(NoEntry) /\ NoEntry.type = ""
  BY DEF IsEntry, Entries, NoEntry, Present, Kinds

LEMMA FilterKeeps ==
  ASSUME NEW seen, IsSnapshot(seen)
  PROVE  IsSnapshot(Filter(seen)) /\ \A p \in DOMAIN Filter(seen) : p \in DOMAIN seen /\ Filter(seen)[p] = seen[p]
<1>1. /\ DOMAIN Filter(seen) \subseteq DOMAIN seen
      /\ \A p \in DOMAIN Filter(seen) : Filter(seen)[p] = seen[p]
  BY DEF Filter
<1>2. IsFiniteSet(DOMAIN Filter(seen))
  BY <1>1, FS_Subset DEF IsSnapshot
<1> QED
  BY <1>1, <1>2 DEF IsSnapshot

LEMMA EntryAtMeans ==
  ASSUME NEW seen, IsSnapshot(seen), NEW p
  PROVE  /\ IsEntry(EntryAt(seen, p)) /\ (Present(EntryAt(seen, p)) <=> p \in DOMAIN seen)
         /\ p \in DOMAIN seen => EntryAt(seen, p) = seen[p]
         /\ p \notin DOMAIN seen => EntryAt(seen, p) = NoEntry
<1>1. \A entry : entry.type \in Kinds => Present(entry)
  BY DEF Kinds, Present
<1> QED
  BY <1>1, NoEntryIsEntry DEF IsSnapshot, EntryAt

\* A file that matches its record is the one both sides had agreed on.
LEMMA MatchMeans ==
  ASSUME RemoteChecksums, NEW state, IsAgreed(state), NEW p, HasRecord(state, p),
         NEW entry, IsEntry(entry), entry.type = "file", NEW side,
         MatchesBaseline(entry, BaselineOf(RecordAt(state, p), side))
  PROVE  entry.checksum # 0 /\ RecordAt(state, p).source.checksum = entry.checksum
<1> DEFINE record == state.entries[p]
<1>1. p \in DOMAIN state.entries /\ RecordAt(state, p) = record
  BY DEF HasRecord, RecordAt
<1>2. IsEntry(record.source) /\ IsEntry(record.destination) /\ Converged(record.source, record.destination)
  BY <1>1 DEF IsAgreed, IsBaseline
<1> HIDE DEF record
<1>3. entry.checksum # 0 /\ Present(entry)
  BY DEF IsEntry, Present
<1>4. Equal(entry, BaselineOf(record, side))
  BY <1>1, <1>3 DEF MatchesBaseline
<1>5. CASE side = "local"
  <2>1. BaselineOf(record, side) = record.source
    BY <1>5 DEF BaselineOf
  <2>2. record.source.type = "file" /\ record.source.checksum # 0
    BY <1>2, <1>4, <2>1 DEF Equal, IsEntry
  <2> QED
    BY <1>1, <1>3, <1>4, <2>1, <2>2 DEF Equal, SameContent
<1>6. CASE side # "local"
  <2>1. BaselineOf(record, side) = record.destination
    BY <1>6 DEF BaselineOf
  <2>2. record.destination.type = "file" /\ record.destination.checksum # 0
    BY <1>2, <1>4, <2>1 DEF Equal, IsEntry
  <2>3. record.source.type = "file" /\ record.source.checksum # 0
    BY <1>2, <2>2 DEF Converged, IsEntry
  <2>4. record.source.checksum = record.destination.checksum
    BY <1>2, <2>2, <2>3 DEF Converged, SameContent
  <2> QED
    BY <1>1, <1>3, <1>4, <2>1, <2>2, <2>4 DEF Equal, SameContent
<1> QED
  BY <1>5, <1>6

\* An action as the first pass of the planner makes it.
IsPlanned(p, a) ==
  /\ IsAction(a) /\ a.path = p
  /\ a.kind \in {"skip", "conflict"} \/ Guarded(a)
  /\ a.kind \in {"skip", "conflict", "delete", "create-directory", "transfer"}

LEMMA PropagateIsPlanned ==
  ASSUME RemoteChecksums, IsAgreed(previous), NEW p \in Paths \ {Root},
         NEW source, IsEntry(source), NEW destination, IsEntry(destination),
         NEW changedSide \in {"local", "remote"},
         Present(source) \/ Present(destination),
         IF HasRecord(previous, p)
         THEN MatchesBaseline(destination, BaselineOf(RecordAt(previous, p), Opposite(changedSide)))
         ELSE ~Present(destination)
  PROVE  LET a == Propagate(p, changedSide, source, destination)
         IN  IsPlanned(p, a) /\ a.target = Opposite(changedSide) /\ a.destination = destination
<1> DEFINE target == Opposite(changedSide)
<1>1. target \in {"local", "remote"}
  BY DEF Opposite
<1>2. Root \in Paths
  BY RootIsPath
<1>3. destination.type = "file" =>
        destination.checksum # 0 /\ RecordAt(previous, p).source.checksum = destination.checksum
  BY MatchMeans DEF Present
<1>4. /\ source \in Entries /\ destination \in Entries
      /\ source.type \in {"", "file", "directory"} /\ destination.type \in {"", "file", "directory"}
  BY DEF IsEntry, Entries, Kinds
<1> HIDE DEF target
<1>5. CASE ~Present(source)
  <2> DEFINE a == Action("delete", p, target, source, destination, FALSE)
  <2>1. Propagate(p, changedSide, source, destination) = a
    BY <1>5 DEF Propagate, target
  <2>2. IsAction(a)
    BY <1>1, <1>2, <1>4 DEF IsAction, Action, ActionKinds, Targets
  <2>3. Guarded(a)
    BY <1>1, <1>3, <1>5 DEF Guarded, Agreed, Action
  <2> QED
    BY <2>1, <2>2, <2>3 DEF IsPlanned, Action, target
<1>6. CASE Present(source)
  <2> DEFINE replace == Present(destination) /\ source.type # destination.type
             a == Action(CopyKind(source), p, target, source, destination, replace)
  <2>1. Propagate(p, changedSide, source, destination) = a
    BY <1>6 DEF Propagate, target
  <2>2. CopyKind(source) \in {"create-directory", "transfer"} /\ (CopyKind(source) = "transfer" => source.type = "file")
    BY <1>4, <1>6 DEF CopyKind, Present
  <2>3. replace \in BOOLEAN
    OBVIOUS
  <2>4. IsAction(a)
    <3> HIDE DEF replace
    <3> QED
      BY <1>1, <1>2, <1>4, <2>2, <2>3 DEF IsAction, Action, ActionKinds, Targets
  <2>5. Guarded(a)
    <3>1. a.kind \in {"create-directory", "transfer"} /\ a.target \in {"local", "remote"}
      BY <1>1, <2>2 DEF Action
    <3>2. a.replace => Present(a.destination)
      BY DEF Action
    <3>3. a.kind = "transfer" /\ Present(a.destination) =>
            a.destination.type = IF a.replace THEN "directory" ELSE "file"
      BY <1>4, <2>2 DEF Action, Present
    <3>4. a.destination.type = "file" => Agreed(a)
      BY <1>3 DEF Agreed, Action
    <3> HIDE DEF a
    <3> QED
      BY <3>1, <3>2, <3>3, <3>4 DEF Guarded
  <2> QED
    BY <2>1, <2>2, <2>4, <2>5 DEF IsPlanned, Action, target
<1> QED
  BY <1>5, <1>6

LEMMA PathIsPlanned ==
  ASSUME RemoteChecksums, IsAgreed(previous), NEW p \in Paths,
         NEW onLocal, IsEntry(onLocal), NEW onRemote, IsEntry(onRemote)
  PROVE  LET a == PlanBidirectionalPath(p, onLocal, onRemote, previous)
         IN  IsPlanned(p, a) /\ (a.target = "remote" => a.destination = onRemote)
<1> DEFINE a == PlanBidirectionalPath(p, onLocal, onRemote, previous)
<1>0. onLocal \in Entries /\ onRemote \in Entries /\ Root \in Paths
  BY RootIsPath DEF IsEntry
<1>1. \A kind \in {"skip", "conflict"} :
        LET b == Action(kind, p, "", onLocal, onRemote, FALSE) IN IsPlanned(p, b) /\ b.target # "remote"
  BY <1>0 DEF IsPlanned, IsAction, Action, ActionKinds, Targets
<1>2. CASE p = Root
  <2>1. \/ \E kind \in {"skip", "conflict"} : a = Action(kind, p, "", onLocal, onRemote, FALSE)
        \/ a = Action("create-directory", Root, "remote", onLocal, onRemote, FALSE)
        \/ a = Action("create-directory", Root, "local", onRemote, onLocal, FALSE)
    <3>1. a = PlanBidirectionalRoot(onLocal, onRemote)
      BY <1>2 DEF PlanBidirectionalPath
    <3> DEFINE kind == IF onLocal.type = "directory" /\ onRemote.type = "directory"
                       THEN "skip" ELSE "conflict"
    <3>2. kind \in {"skip", "conflict"}
      OBVIOUS
    <3>3. CASE Present(onLocal) /\ Present(onRemote)
      <4>1. a = Action(kind, p, "", onLocal, onRemote, FALSE)
        BY <1>2, <3>1, <3>3 DEF PlanBidirectionalRoot
      <4> HIDE DEF a, kind
      <4> QED
        BY <3>2, <4>1
    <3>4. CASE Present(onLocal) /\ ~Present(onRemote)
      BY <3>1, <3>4 DEF PlanBidirectionalRoot
    <3>5. CASE ~Present(onLocal) /\ Present(onRemote)
      BY <3>1, <3>5 DEF PlanBidirectionalRoot
    <3>6. CASE ~Present(onLocal) /\ ~Present(onRemote)
      BY <1>2, <3>1, <3>6 DEF PlanBidirectionalRoot
    <3> HIDE DEF a
    <3> QED
      BY <3>3, <3>4, <3>5, <3>6
  <2>2. CASE a = Action("create-directory", Root, "remote", onLocal, onRemote, FALSE)
    BY <1>0, <1>2, <2>2 DEF IsPlanned, IsAction, Guarded, Action, ActionKinds, Targets
  <2>3. CASE a = Action("create-directory", Root, "local", onRemote, onLocal, FALSE)
    BY <1>0, <1>2, <2>3 DEF IsPlanned, IsAction, Guarded, Action, ActionKinds, Targets
  <2> QED
    BY <1>1, <2>1, <2>2, <2>3
<1>3. CASE p # Root /\ EntriesMatch(onLocal, onRemote)
  <2>1. a = Action("skip", p, "", onLocal, onRemote, FALSE)
    BY <1>3 DEF PlanBidirectionalPath
  <2> QED
    BY <1>1, <2>1
<1>4. CASE p # Root /\ ~EntriesMatch(onLocal, onRemote)
  <2>0. Present(onLocal) \/ Present(onRemote)
    BY <1>4 DEF EntriesMatch
  <2> DEFINE known == HasRecord(previous, p)
             record == RecordAt(previous, p)
             localChanged == IF known THEN ~MatchesBaseline(onLocal, record.source) ELSE Present(onLocal)
             remoteChanged == IF known THEN ~MatchesBaseline(onRemote, record.destination) ELSE Present(onRemote)
  <2>1. a = IF localChanged = remoteChanged THEN Action("conflict", p, "", onLocal, onRemote, FALSE)
            ELSE IF localChanged THEN Propagate(p, "local", onLocal, onRemote)
            ELSE Propagate(p, "remote", onRemote, onLocal)
    BY <1>4 DEF PlanBidirectionalPath
  <2>2. /\ Opposite("local") = "remote" /\ Opposite("remote") = "local"
        /\ BaselineOf(record, "remote") = record.destination /\ BaselineOf(record, "local") = record.source
    BY DEF Opposite, BaselineOf
  <2>3. localChanged \in BOOLEAN /\ remoteChanged \in BOOLEAN
    BY DEF MatchesBaseline, Present
  <2>4. CASE localChanged = remoteChanged
    BY <1>1, <2>1, <2>4
  <2>5. CASE localChanged /\ ~remoteChanged
    <3>1. a = Propagate(p, "local", onLocal, onRemote)
      BY <2>1, <2>5
    <3>2. IF known THEN MatchesBaseline(onRemote, BaselineOf(record, Opposite("local"))) ELSE ~Present(onRemote)
      BY <2>2, <2>5
    <3> HIDE DEF a
    <3> QED
      BY <1>4, <2>0, <2>2, <3>1, <3>2, PropagateIsPlanned DEF a
  <2>6. CASE ~localChanged /\ remoteChanged
    <3>1. a = Propagate(p, "remote", onRemote, onLocal)
      BY <2>1, <2>6
    <3>2. IF known THEN MatchesBaseline(onLocal, BaselineOf(record, Opposite("remote"))) ELSE ~Present(onLocal)
      BY <2>2, <2>6
    <3> HIDE DEF a
    <3> QED
      BY <1>4, <2>0, <2>2, <3>1, <3>2, PropagateIsPlanned DEF a
  <2> QED
    BY <2>3, <2>4, <2>5, <2>6
<1> QED
  BY <1>2, <1>3, <1>4

\* A directory whose subtree changed is protected by doing nothing to it.
LEMMA ProtectKeeps ==
  ASSUME NEW actions, \A p \in DOMAIN actions : IsPlanned(p, actions[p]),
         NEW onLocal, NEW onRemote, NEW state
  PROVE  LET after == ProtectChangedSubtrees(actions, onLocal, onRemote, state)
         IN  /\ DOMAIN after = DOMAIN actions
             /\ \A p \in DOMAIN actions :
                  IsPlanned(p, after[p]) /\ (after[p] = actions[p] \/ after[p].target = "")
<1> DEFINE after == ProtectChangedSubtrees(actions, onLocal, onRemote, state)
           as(a, kind) == [a EXCEPT !.kind = kind, !.target = "", !.replace = FALSE]
<1>1. CASE ~state.found
  <2>1. after = actions
    BY <1>1 DEF ProtectChangedSubtrees
  <2> HIDE DEF after
  <2> QED
    BY <2>1 DEF after
<1>2. CASE state.found
  <2>1. PICK parents :
          after = [p \in DOMAIN actions |->
             CASE p \in parents -> as(actions[p], "conflict")
               [] /\ p \notin parents
                  /\ actions[p].kind # "conflict"
                  /\ \E parent \in parents : IsDescendant(p, parent) -> as(actions[p], "skip")
               [] OTHER -> actions[p]]
    BY <1>2 DEF ProtectChangedSubtrees
  <2>2. \A p \in DOMAIN actions :
          after[p] \in {as(actions[p], "conflict"), as(actions[p], "skip"), actions[p]}
    BY <2>1
  <2>3. DOMAIN after = DOMAIN actions
    BY <2>1
  <2>4. ASSUME NEW p \in DOMAIN actions, NEW kind \in {"conflict", "skip"}
        PROVE  IsPlanned(p, as(actions[p], kind)) /\ as(actions[p], kind).target = ""
    <3>1. IsPlanned(p, actions[p])
      OBVIOUS
    <3> DEFINE a == actions[p]
    <3> HIDE DEF a
    <3>2. IsPlanned(p, a)
      BY <3>1 DEF a
    <3>3. IsPlanned(p, as(a, kind)) /\ as(a, kind).target = ""
      BY <3>2 DEF IsPlanned, IsAction, ActionKinds, Targets
    <3> QED
      BY <3>3 DEF a
  <2> HIDE DEF as, after
  <2> QED
    BY <2>2, <2>3, <2>4 DEF after
<1> QED
  BY <1>1, <1>2

\* A move takes the place of a deletion and an addition of one file.
LEMMA MovesKeep ==
  ASSUME NEW actions, DOMAIN actions \subseteq Paths, NEW state,
         \A p \in DOMAIN actions : IsPlanned(p, actions[p]) /\ NamesSeen(actions[p])
  PROVE  LET after == DetectMoves(actions, state)
         IN  /\ DOMAIN after = DOMAIN actions
             /\ \A p \in DOMAIN actions :
                  /\ IsAction(after[p]) /\ after[p].path = p
                  /\ after[p].kind \in {"skip", "conflict"} \/ Guarded(after[p])
                  /\ NamesSeen(after[p])
<1> DEFINE after == DetectMoves(actions, state)
           moves == DetectedMoves(actions, state)
           from(p) == CHOOSE q \in DOMAIN actions : <<q, p>> \in moves
<1>1. \A m \in moves : \E target \in {"local", "remote"} :
        /\ m = <<m[1], m[2]>> /\ m[1] \in DOMAIN actions /\ m[2] \in DOMAIN actions
        /\ actions[m[1]].target = target /\ actions[m[1]].kind = "delete"
        /\ ActionType(actions[m[1]]) = "file"
        /\ actions[m[2]].target = target /\ actions[m[2]].kind = "transfer"
        /\ ~Present(actions[m[2]].destination)
  BY DEF DetectedMoves
<1> HIDE DEF moves
<1>2. after = [p \in DOMAIN actions |->
        CASE \E m \in moves : m[2] = p ->
               [actions[p] EXCEPT !.kind = "move", !.from = from(p),
                                  !.destination = actions[from(p)].destination]
          [] \E m \in moves : m[1] = p -> [actions[p] EXCEPT !.kind = "skip", !.target = ""]
          [] OTHER -> actions[p]]
  BY DEF DetectMoves, moves
<1>3. DOMAIN after = DOMAIN actions
  BY <1>2
<1> HIDE DEF after
<1>4. ASSUME NEW p \in DOMAIN actions, \E m \in moves : m[2] = p
      PROVE  /\ IsAction(after[p]) /\ after[p].path = p
             /\ Guarded(after[p]) /\ NamesSeen(after[p])
  <2>1. PICK m \in moves : m[2] = p
    BY <1>4
  <2>2. <<m[1], p>> \in moves /\ m[1] \in DOMAIN actions
    BY <1>1, <2>1
  <2>3. <<from(p), p>> \in moves /\ from(p) \in DOMAIN actions
    BY <2>2
  <2> DEFINE q == from(p)
  <2> HIDE DEF q
  <2>4. <<q, p>> \in moves /\ q \in DOMAIN actions
    BY <2>3 DEF q
  <2>5. /\ actions[q].kind = "delete" /\ ActionType(actions[q]) = "file"
        /\ actions[q].target = actions[p].target
        /\ actions[p].kind = "transfer" /\ ~Present(actions[p].destination)
    BY <1>1, <2>4
  <2>6. ~ \E n \in moves : n[1] = p
    BY <1>1, <2>5
  <2>7. after[p] = [actions[p] EXCEPT !.kind = "move", !.from = q, !.destination = actions[q].destination]
    BY <1>2, <1>4, <2>6 DEF q
  <2> DEFINE a == actions[p]
             b == actions[q]
  <2>8. /\ IsPlanned(p, a) /\ IsPlanned(q, b) /\ NamesSeen(b) /\ q \in Paths
    BY <2>4
  <2> HIDE DEF a, b
  <2>9. /\ b.kind = "delete" /\ ActionType(b) = "file" /\ b.target = a.target
        /\ a.kind = "transfer" /\ ~Present(a.destination)
        /\ after[p] = [a EXCEPT !.kind = "move", !.from = q, !.destination = b.destination]
    BY <2>5, <2>7 DEF a, b
  <2>10. b.destination.type = "file" /\ b.destination \in Entries
    BY <2>8, <2>9 DEF IsPlanned, IsAction, Guarded, ActionType
  <2>11. ~a.replace
    BY <2>8, <2>9 DEF IsPlanned, Guarded
  <2>12. IsAction(after[p]) /\ after[p].path = p
    BY <2>8, <2>9, <2>10 DEF IsPlanned, IsAction, ActionKinds
  <2>13. after[p].kind = "move" /\ after[p].target = a.target /\ after[p].replace = a.replace
         /\ after[p].destination = b.destination
    BY <2>8, <2>9 DEF IsPlanned, IsAction
  <2>14. a.target \in {"local", "remote"}
    BY <2>8, <2>9 DEF IsPlanned, Guarded
  <2>15. Guarded(after[p])
    BY <2>10, <2>11, <2>13, <2>14 DEF Guarded
  <2>16. NamesSeen(after[p])
    BY <2>8, <2>9, <2>13 DEF NamesSeen
  <2> QED
    BY <2>12, <2>15, <2>16
<1>5. ASSUME NEW p \in DOMAIN actions, ~ \E m \in moves : m[2] = p
      PROVE  /\ IsAction(after[p]) /\ after[p].path = p
             /\ after[p].kind \in {"skip", "conflict"} \/ Guarded(after[p])
             /\ NamesSeen(after[p])
  <2>1. after[p] = actions[p] \/ after[p] = [actions[p] EXCEPT !.kind = "skip", !.target = ""]
    BY <1>2, <1>5
  <2> DEFINE a == actions[p]
  <2>2. IsPlanned(p, a) /\ NamesSeen(a)
    OBVIOUS
  <2> HIDE DEF a
  <2>3. after[p] = a \/ after[p] = [a EXCEPT !.kind = "skip", !.target = ""]
    BY <2>1 DEF a
  <2>4. CASE after[p] = a
    BY <2>2, <2>4 DEF IsPlanned
  <2>5. CASE after[p] = [a EXCEPT !.kind = "skip", !.target = ""]
    <3>1. /\ after[p].kind = "skip" /\ after[p].target = "" /\ after[p].path = a.path
          /\ after[p].from = a.from /\ after[p].source = a.source
          /\ after[p].destination = a.destination /\ after[p].replace = a.replace
      BY <2>2, <2>5 DEF IsPlanned, IsAction
    <3>2. IsAction(after[p]) /\ after[p].path = p
      BY <2>2, <2>5 DEF IsPlanned, IsAction, ActionKinds, Targets
    <3>3. NamesSeen(after[p])
      BY <3>1 DEF NamesSeen
    <3> QED
      BY <3>1, <3>2, <3>3
  <2> QED
    BY <2>3, <2>4, <2>5
<1>6. /\ DOMAIN after = DOMAIN actions
      /\ \A p \in DOMAIN actions :
           /\ IsAction(after[p]) /\ after[p].path = p
           /\ after[p].kind \in {"skip", "conflict"} \/ Guarded(after[p])
           /\ NamesSeen(after[p])
  BY <1>3, <1>4, <1>5
<1> QED
  BY <1>6 DEF after

\* An action of the planner, before conflicts are resolved.
IsSafe(a) ==
  IsAction(a) /\ (a.kind \in {"skip", "conflict"} \/ Guarded(a)) /\ NamesSeen(a)

\* Whatever was seen, no action of the plan destroys a file that the two sides had not agreed on.
LEMMA PlanIsSafe ==
  ASSUME RemoteChecksums, IsSnapshot(seenLocal), IsSnapshot(seenRemote), IsAgreed(previous)
  PROVE  /\ \E n \in Nat : OriginalPlan = [i \in 1 .. n |-> OriginalPlan[i]]
         /\ \A i \in DOMAIN OriginalPlan : IsSafe(OriginalPlan[i])
<1> DEFINE onLocal == Filter(seenLocal)
           onRemote == Filter(seenRemote)
           paths == DOMAIN onLocal \cup DOMAIN onRemote \cup DOMAIN previous.entries
           planned == [p \in paths |->
             PlanBidirectionalPath(p, EntryAt(onLocal, p), EntryAt(onRemote, p), previous)]
           protected == ProtectChangedSubtrees(planned, onLocal, onRemote, previous)
           detected == DetectMoves(protected, previous)
<1>1. /\ IsSnapshot(onLocal) /\ IsSnapshot(onRemote)
      /\ \A p \in DOMAIN onRemote : p \in DOMAIN seenRemote /\ onRemote[p] = seenRemote[p]
  BY FilterKeeps
<1> HIDE DEF onLocal, onRemote
<1>2. paths \subseteq Paths /\ IsFiniteSet(paths)
  <2>1. IsFiniteSet(DOMAIN onLocal \cup DOMAIN onRemote)
    BY <1>1, FS_Union DEF IsSnapshot
  <2> QED
    BY <1>1, <2>1, FS_Union DEF IsSnapshot, IsAgreed, IsBaseline
<1>3. DOMAIN planned = paths
  OBVIOUS
<1>4. ASSUME NEW p \in paths
      PROVE  IsPlanned(p, planned[p]) /\ NamesSeen(planned[p])
  <2>1. IsEntry(EntryAt(onLocal, p)) /\ IsEntry(EntryAt(onRemote, p))
    BY <1>1, EntryAtMeans
  <2>2. p \in Paths
    BY <1>2
  <2> DEFINE a == PlanBidirectionalPath(p, EntryAt(onLocal, p), EntryAt(onRemote, p), previous)
  <2>3. IsPlanned(p, a) /\ (a.target = "remote" => a.destination = EntryAt(onRemote, p))
    BY <2>1, <2>2, PathIsPlanned
  <2>4. planned[p] = a
    OBVIOUS
  <2> HIDE DEF a
  <2>5. EntryAt(onRemote, p) = NoEntry \/ \E q \in DOMAIN seenRemote : EntryAt(onRemote, p) = seenRemote[q]
    BY <1>1, EntryAtMeans
  <2> QED
    BY <2>3, <2>4, <2>5 DEF NamesSeen
<1> HIDE DEF planned, paths
<1>5. /\ DOMAIN protected = paths
      /\ \A p \in paths : IsPlanned(p, protected[p]) /\ NamesSeen(protected[p])
  <2>1. /\ DOMAIN protected = DOMAIN planned
        /\ \A p \in DOMAIN planned :
             IsPlanned(p, protected[p]) /\ (protected[p] = planned[p] \/ protected[p].target = "")
    BY <1>3, <1>4, ProtectKeeps
  <2> HIDE DEF protected
  <2> QED
    BY <1>3, <1>4, <2>1 DEF NamesSeen
<1> HIDE DEF protected
<1>6. /\ DOMAIN detected = paths
      /\ \A p \in paths :
           /\ IsAction(detected[p]) /\ detected[p].path = p
           /\ detected[p].kind \in {"skip", "conflict"} \/ Guarded(detected[p])
           /\ NamesSeen(detected[p])
  BY <1>2, <1>5, MovesKeep
<1> HIDE DEF detected
<1>7. OriginalPlan = SortActions(detected)
  BY DEF OriginalPlan, BuildBidirectional, onLocal, onRemote, paths, planned, protected, detected
<1>8. /\ Cardinality(paths) \in Nat
      /\ SortActions(detected) = [i \in 1 .. Cardinality(paths) |-> SortActions(detected)[i]]
      /\ \A i \in DOMAIN SortActions(detected) :
           \E p \in paths : SortActions(detected)[i] = detected[p]
  BY <1>2, <1>6, SortKeeps
<1> QED
  BY <1>6, <1>7, <1>8 DEF IsSafe

-----------------------------------------------------------------------------
(* keep-both *)

\* Sequences laid end to end have the elements of the sequences.
LEMMA FlattenKeeps ==
  ASSUME NEW S, NEW n \in Nat, NEW seqs, seqs = [i \in 1 .. n |-> seqs[i]],
         \A i \in 1 .. n : seqs[i] \in Seq(S)
  PROVE  FlattenSeq(seqs) \in Seq(S)
<1>0. seqs \in Seq(Seq(S)) /\ Len(seqs) = n
  <2>1. seqs \in [1 .. n -> Seq(S)]
    OBVIOUS
  <2> QED
    BY <2>1
<1>1. CASE n = 0
  <2>1. FlattenSeq(seqs) = seqs
    BY <1>0, <1>1 DEF FlattenSeq
  <2>2. seqs = <<>>
    BY <1>0, <1>1, EmptySeq
  <2> QED
    BY <2>1, <2>2, EmptySeq
<1>2. CASE n # 0
  <2> DEFINE Step(f, i) == IF i = 1 THEN seqs[i] ELSE f[i - 1] \o seqs[i]
             UpTo(f, k) == f = [i \in 1 .. k |-> Step(f, i)]
             Open == {k \in Nat \ {0} : k <= n /\ \A f : ~UpTo(f, k)}
             flatten == CHOOSE f : f = [i \in 1 .. Len(seqs) |-> Step(f, i)]
  <2>1. FlattenSeq(seqs) = flatten[n]
    BY <1>0, <1>2 DEF FlattenSeq
  <2>2. Open = {}
    <3> SUFFICES ASSUME Open # {} PROVE FALSE
      OBVIOUS
    <3>1. PICK k \in Open : \A m \in Open : k <= m
      <4>1. Open \subseteq Nat
        OBVIOUS
      <4> HIDE DEF Open
      <4> QED
        BY <4>1, Least
    <3>2. CASE k = 1
      <4> DEFINE f == [i \in 1 .. 1 |-> seqs[1]]
      <4>1. f = [i \in 1 .. 1 |-> Step(f, i)]
        OBVIOUS
      <4> HIDE DEF f
      <4> QED
        BY <3>1, <3>2, <4>1
    <3>3. CASE k # 1
      <4>1. k - 1 \in Nat \ {0} /\ k - 1 <= n /\ ~(k <= k - 1) /\ k \in 1 .. n
        BY <3>1, <3>3
      <4>2. PICK f : UpTo(f, k - 1)
        <5>1. k - 1 \notin Open
          <6> HIDE DEF Open
          <6> QED
            BY <3>1, <4>1
        <5> HIDE DEF UpTo
        <5> QED
          BY <4>1, <5>1
      <4> DEFINE g == [i \in 1 .. k |-> Step(f, i)]
      <4>3. \A i \in 1 .. k - 1 : g[i] = f[i]
        <5>1. \A i \in 1 .. k - 1 : i \in 1 .. k
          BY <4>1
        <5>2. \A i \in 1 .. k - 1 : f[i] = Step(f, i)
          <6> HIDE DEF Step, g
          <6> QED
            BY <4>2
        <5>3. \A i \in 1 .. k : g[i] = Step(f, i)
          <6> HIDE DEF Step
          <6> QED
            OBVIOUS
        <5> HIDE DEF Step, g
        <5> QED
          BY <5>1, <5>2, <5>3
      <4>4. \A i \in 1 .. k : i = 1 \/ i - 1 \in 1 .. k - 1
        BY <4>1
      <4>5. g = [i \in 1 .. k |-> Step(f, i)]
        OBVIOUS
      <4> HIDE DEF g
      <4>6. \A i \in 1 .. k : Step(g, i) = Step(f, i)
        BY <4>3, <4>4
      <4> HIDE DEF Step
      <4>7. g = [i \in 1 .. k |-> Step(g, i)]
        BY <4>5, <4>6
      <4> QED
        BY <3>1, <4>7
    <3> QED
      BY <3>2, <3>3
  <2>3. \E f : UpTo(f, n)
    <3>1. n \in Nat \ {0} /\ n <= n /\ n \notin Open
      <4> HIDE DEF Open
      <4> QED
        BY <1>2, <2>2
    <3> HIDE DEF UpTo
    <3> QED
      BY <3>1
  <2>4. UpTo(flatten, n)
    BY <1>0, <2>3
  <2>5. ASSUME NEW f, UpTo(f, n)
        PROVE  f[n] \in Seq(S)
    <3> DEFINE Bad == {k \in 1 .. n : f[k] \notin Seq(S)}
    <3> SUFFICES ASSUME Bad # {} PROVE FALSE
      BY <1>2
    <3>1. PICK k \in Bad : \A m \in Bad : k <= m
      <4>1. Bad \subseteq Nat
        OBVIOUS
      <4> HIDE DEF Bad
      <4> QED
        BY <4>1, Least
    <3>2. k \in 1 .. n /\ f[k] = Step(f, k) /\ seqs[k] \in Seq(S)
      BY <2>5, <3>1
    <3>3. CASE k = 1
      BY <3>1, <3>2, <3>3
    <3>4. CASE k # 1
      <4>1. k - 1 \in 1 .. n /\ ~(k <= k - 1)
        BY <3>2, <3>4
      <4>2. f[k - 1] \in Seq(S)
        BY <3>1, <4>1
      <4>3. f[k - 1] \o seqs[k] \in Seq(S)
        BY <3>2, <4>2, ConcatProperties
      <4> QED
        BY <3>1, <3>2, <3>4, <4>3
    <3> QED
      BY <3>3, <3>4
  <2> HIDE DEF flatten, UpTo
  <2> QED
    BY <2>1, <2>4, <2>5
<1> QED
  BY <1>1, <1>2

Actions ==
  {a \in [kind : ActionKinds, path : Paths, from : Paths, target : Targets, replace : BOOLEAN,
          source : Entries, destination : Entries] : IsAction(a)}

LEMMA ElementsAre ==
  ASSUME NEW S, NEW s \in Seq(S), NEW i \in DOMAIN s
  PROVE  s[i] \in S
<1>1. DOMAIN s = 1 .. Len(s)
  OBVIOUS
<1> QED
  BY <1>1, ElementOfSeq

LEMMA ActionsMean == \A a : IsAction(a) <=> a \in Actions
  BY DEF Actions, IsAction

\* What keep-both does instead of a conflict are actions too.
LEMMA KeepBothIsTyped ==
  ASSUME NEW a, IsAction(a), NEW side \in {"local", "remote"}, NEW onLocal, NEW onRemote,
         KeepBothPossible(a, side, onLocal, onRemote)
  PROVE  KeepBothActions(a, side) \in Seq(Actions)
<1>1. a.path \in Paths \ {Root} /\ a.source \in Entries /\ a.destination \in Entries /\ Root \in Paths
  BY RootIsPath DEF IsAction, KeepBothPossible
<1> DEFINE copy == KeepBothPath(a, side)
<1>2. ASSUME NEW of \in {"local", "remote"}, NEW entry \in Entries
      PROVE  ConflictCopyPath(a.path, of, entry) \in Paths \ {Root}
  <2> DEFINE tag == 1000 + (IF of = "local" THEN 0 ELSE 4000) +
                      (IF entry.checksum # 0 THEN entry.checksum
                       ELSE IF entry.etag # 0 THEN 1000 + entry.etag
                       ELSE 2000 + entry.size)
  <2>1. entry.checksum \in Nat /\ entry.etag \in Nat /\ entry.size \in Nat
    BY DEF Entries
  <2>2. tag \in Nat
    BY <2>1
  <2>3. ConflictCopyPath(a.path, of, entry) = Sibling(a.path, tag)
    BY DEF ConflictCopyPath
  <2> HIDE DEF tag
  <2> QED
    BY <1>1, <2>2, <2>3, SiblingMeans
<1>3. copy \in Paths \ {Root}
  BY <1>1, <1>2 DEF KeepBothPath
<1>4. NoEntry \in Entries
  BY NoEntryIsEntry DEF IsEntry
<1> HIDE DEF copy
<1>5. ASSUME NEW kind \in ActionKinds, NEW from \in Paths, NEW p \in Paths \ {Root},
             NEW target \in Targets, NEW source \in Entries, NEW destination \in Entries
      PROVE  [Action(kind, p, target, source, destination, FALSE) EXCEPT !.from = from] \in Actions
  BY <1>1, <1>5 DEF Actions, IsAction, Action
<1>6. Opposite(side) \in Targets /\ side \in Targets
  BY DEF Opposite, Targets
<1> DEFINE step1 == [Action("copy", copy, Opposite(side),
                       IF side = "local" THEN a.destination ELSE a.source, NoEntry, FALSE)
                     EXCEPT !.from = a.path]
           step2 == [Action("transfer", copy, side,
                       IF side = "local" THEN a.destination ELSE a.source, NoEntry, FALSE)
                     EXCEPT !.from = copy]
           step3 == [Action("transfer", a.path, Opposite(side),
                       IF side = "local" THEN a.source ELSE a.destination,
                       IF side = "local" THEN a.destination ELSE a.source, FALSE)
                     EXCEPT !.from = Root]
<1>7. KeepBothActions(a, side) = <<step1, step2, step3>>
  BY DEF KeepBothActions, copy
<1>8. step1 \in Actions /\ step2 \in Actions /\ step3 \in Actions
  <2>1. "copy" \in ActionKinds /\ "transfer" \in ActionKinds
    BY DEF ActionKinds
  <2>2. /\ (IF side = "local" THEN a.destination ELSE a.source) \in Entries
        /\ (IF side = "local" THEN a.source ELSE a.destination) \in Entries
    BY <1>1
  <2> QED
    BY <1>1, <1>3, <1>4, <1>5, <1>6, <2>1, <2>2
<1> HIDE DEF step1, step2, step3
<1> QED
  BY <1>7, <1>8

\* What an accepted plan is made of.
LEMMA AcceptedPlan ==
  ASSUME RemoteChecksums, IsSnapshot(seenLocal), IsSnapshot(seenRemote), IsAgreed(previous),
         IsRequest(request), AcceptPlan
  PROVE  /\ plan' \in Seq(Actions)
         /\ prefer = "" => \A i \in DOMAIN plan' :
              plan'[i].kind = "skip" \/ (Guarded(plan'[i]) /\ NamesSeen(plan'[i]))
<1> DEFINE original == OriginalPlan
<1>1. PICK n \in Nat : original = [i \in 1 .. n |-> original[i]]
  BY PlanIsSafe
<1>2. \A i \in 1 .. n : IsSafe(original[i])
  BY <1>1, PlanIsSafe
<1>3. /\ plan' = ResolveConflicts(original, prefer)
      /\ ~HasConflict(original) \/ (prefer # "" /\ KeepsAll(original, prefer, seenLocal, seenRemote))
  BY DEF AcceptPlan
<1> HIDE DEF original
<1>4. CASE prefer = ""
  <2>1. plan' = original /\ ~HasConflict(original)
    BY <1>3, <1>4 DEF ResolveConflicts
  <2>2. \A i \in 1 .. n : original[i] \in Actions
    BY <1>2, ActionsMean DEF IsSafe
  <2>3. original \in [1 .. n -> Actions]
    BY <1>1, <2>2
  <2>4. DOMAIN original = 1 .. n
    BY <2>3
  <2>5. \A i \in 1 .. n : original[i].kind = "skip" \/ (Guarded(original[i]) /\ NamesSeen(original[i]))
    BY <1>2, <2>1, <2>4 DEF IsSafe, HasConflict
  <2>6. original \in Seq(Actions)
    BY <2>3
  <2> QED
    BY <1>4, <2>1, <2>4, <2>5, <2>6
<1>5. CASE prefer # ""
  <2> DEFINE part(i) == IF original[i].kind = "conflict" THEN KeepBothActions(original[i], prefer)
                        ELSE <<original[i]>>
             parts == [i \in DOMAIN original |-> part(i)]
  <2>1. plan' = FlattenSeq(parts)
    BY <1>3, <1>5 DEF ResolveConflicts
  <2>2. DOMAIN original = 1 .. n
    BY <1>1
  <2>3. prefer \in {"local", "remote"}
    BY <1>5 DEF IsRequest, prefer
  <2>4. ASSUME NEW i \in 1 .. n
        PROVE  part(i) \in Seq(Actions)
    <3>1. IsAction(original[i]) /\ original[i] \in Actions
      BY <1>2, ActionsMean DEF IsSafe
    <3>2. CASE original[i].kind = "conflict"
      <4>1. KeepBothPossible(original[i], prefer, seenLocal, seenRemote)
        BY <1>3, <2>2, <3>2 DEF HasConflict, KeepsAll
      <4> QED
        BY <2>3, <3>1, <3>2, <4>1, KeepBothIsTyped
    <3>3. CASE original[i].kind # "conflict"
      BY <3>1, <3>3
    <3> QED
      BY <3>2, <3>3
  <2>5. parts = [i \in 1 .. n |-> parts[i]] /\ \A i \in 1 .. n : parts[i] = part(i)
    BY <2>2
  <2> HIDE DEF parts, part
  <2>6. FlattenSeq(parts) \in Seq(Actions)
    BY <2>4, <2>5, FlattenKeeps
  <2> QED
    BY <1>5, <2>1, <2>6
<1> QED
  BY <1>4, <1>5

-----------------------------------------------------------------------------
(* What a run remembers *)

SeenInv ==
  /\ IsSnapshot(seenLocal) /\ IsSnapshot(seenRemote)
  /\ \A p \in DOMAIN seenRemote : Remembered(seenRemote[p], remote, clock)
RecordsInv == IsAgreed(baseline) /\ IsAgreed(previous)
RequestInv == IsRequest(request) /\ \A r \in requests : IsRequest(r)

\* A scan of a tree is a snapshot, and finds ETags that will keep their meaning.
LEMMA ScansMean ==
  ASSUME NEW onLocal, NEW onRemote, NEW tick,
         IsTree(onLocal), IsTree(onRemote), ETagsBefore(onRemote, tick)
  PROVE  LET localScan == [p \in DOMAIN onLocal |-> LocalEntry(onLocal[p])]
             remoteScan == [p \in DOMAIN onRemote |-> RemoteEntry(onRemote[p])]
         IN  /\ IsSnapshot(localScan) /\ IsSnapshot(remoteScan)
             /\ \A p \in DOMAIN remoteScan : Remembered(remoteScan[p], onRemote, tick)
<1> DEFINE localScan == [p \in DOMAIN onLocal |-> LocalEntry(onLocal[p])]
           remoteScan == [p \in DOMAIN onRemote |-> RemoteEntry(onRemote[p])]
<1>0. SizeClasses \in Nat \ {0}
  BY BoundsAssumption
<1>1. ASSUME NEW node, IsNode(node)
      PROVE  /\ IsEntry(LocalEntry(node)) /\ LocalEntry(node).type = node.type
             /\ IsEntry(RemoteEntry(node)) /\ RemoteEntry(node).type = node.type
             /\ RemoteEntry(node).etag = node.etag /\ RemoteEntry(node).checksum \in {0, node.content}
             /\ node.type \in Kinds
  <2>1. /\ node.type \in Kinds /\ node.content \in Nat /\ node.etag \in Nat /\ node.modified \in Nat
        /\ node.type = "file" => node.content # 0
    BY <1>1 DEF IsNode
  <2>2. Size(node.content) \in Nat
    BY <1>0, <2>1 DEF Size
  <2> DEFINE size == IF node.type = "file" THEN Size(node.content) ELSE 0
  <2>3. size \in Nat
    BY <2>2
  <2> HIDE DEF size
  <2>4. LocalEntry(node) = [type |-> node.type, size |-> size, modified |-> node.modified,
                            etag |-> 0, checksum |-> node.content]
    BY DEF LocalEntry, size
  <2>5. node.type \in Kinds \cup {""}
    BY <2>1
  <2> DEFINE asLocal == LocalEntry(node)
             asRemote == RemoteEntry(node)
  <2> HIDE DEF asLocal, asRemote
  <2>6. IsEntry(asLocal) /\ asLocal.type = node.type
    <3>1. asLocal = [type |-> node.type, size |-> size, modified |-> node.modified,
                     etag |-> 0, checksum |-> node.content]
      BY <2>4 DEF asLocal
    <3> QED
      BY <2>1, <2>3, <2>5, <3>1 DEF IsEntry, Entries
  <2> DEFINE checksum == IF RemoteChecksums THEN node.content ELSE 0
  <2>7. asRemote = [asLocal EXCEPT !.etag = node.etag, !.checksum = checksum]
    BY DEF RemoteEntry, asLocal, asRemote
  <2>9. checksum \in {0, node.content} /\ checksum \in Nat /\ (RemoteChecksums => checksum = node.content)
    BY <2>1
  <2> HIDE DEF checksum
  <2>8. /\ IsEntry(asRemote) /\ asRemote.type = node.type
        /\ asRemote.etag = node.etag /\ asRemote.checksum \in {0, node.content}
    BY <2>1, <2>6, <2>7, <2>9 DEF IsEntry, Entries
  <2> QED
    BY <2>1, <2>6, <2>8 DEF asLocal, asRemote
<1>2. /\ DOMAIN onLocal \subseteq Paths /\ IsFiniteSet(DOMAIN onLocal) /\ \A p \in DOMAIN onLocal : IsNode(onLocal[p])
      /\ DOMAIN onRemote \subseteq Paths /\ IsFiniteSet(DOMAIN onRemote) /\ \A p \in DOMAIN onRemote : IsNode(onRemote[p])
  BY TreeMeans
<1>3. DOMAIN localScan = DOMAIN onLocal /\ \A p \in DOMAIN onLocal : localScan[p] = LocalEntry(onLocal[p])
  OBVIOUS
<1>4. DOMAIN remoteScan = DOMAIN onRemote /\ \A p \in DOMAIN onRemote : remoteScan[p] = RemoteEntry(onRemote[p])
  OBVIOUS
<1> HIDE DEF localScan, remoteScan
<1>5. IsSnapshot(localScan)
  BY <1>1, <1>2, <1>3 DEF IsSnapshot
<1>6. IsSnapshot(remoteScan)
  BY <1>1, <1>2, <1>4 DEF IsSnapshot
<1>7. ASSUME NEW p \in DOMAIN remoteScan
      PROVE  Remembered(remoteScan[p], onRemote, tick)
  <2>1. /\ p \in DOMAIN onRemote /\ IsNode(onRemote[p]) /\ remoteScan[p] = RemoteEntry(onRemote[p])
    BY <1>2, <1>4
  <2>2. /\ remoteScan[p].type = onRemote[p].type /\ remoteScan[p].etag = onRemote[p].etag
        /\ remoteScan[p].checksum \in {0, onRemote[p].content}
    BY <1>1, <2>1
  <2> QED
    BY <1>0, <2>1, <2>2 DEF Remembered, ETagsBefore, ETagsIdentify
<1> QED
  BY <1>5, <1>6, <1>7 DEF localScan, remoteScan

LEMMA ScansSee ==
  ASSUME TreesInv
  PROVE  /\ IsSnapshot(LocalScan) /\ IsSnapshot(RemoteScan)
         /\ \A p \in DOMAIN RemoteScan : Remembered(RemoteScan[p], remote, clock)
  BY ScansMean DEF TreesInv, LocalScan, RemoteScan

\* What a walk finds of a changing tree, it found at one time or the other.
LEMMA GlimpseMeans ==
  ASSUME NEW before, NEW after, IsSnapshot(before), IsSnapshot(after),
         NEW seen \in Glimpses(before, after)
  PROVE  /\ IsSnapshot(seen)
         /\ \A p \in DOMAIN seen :
              \/ p \in DOMAIN before /\ seen[p] = before[p]
              \/ p \in DOMAIN after /\ seen[p] = after[p]
         /\ Root \in DOMAIN seen <=> Root \in DOMAIN before
         /\ Root \in DOMAIN seen => seen[Root] = before[Root]
<1> DEFINE paths == DOMAIN before \cup DOMAIN after
           changed == {p \in paths \ {Root} : EntryAt(before, p) # EntryAt(after, p)}
<1>1. PICK late \in SUBSET changed :
        seen = [p \in {q \in paths :
                         \A r \in Ancestors(q) :
                           /\ r \in DOMAIN (IF r \in late THEN after ELSE before)
                           /\ r # q => (IF r \in late THEN after ELSE before)[r].type = "directory"} |->
                  (IF p \in late THEN after ELSE before)[p]]
  BY DEF Glimpses
<1>2. paths \subseteq Paths /\ IsFiniteSet(paths)
  BY FS_Union DEF IsSnapshot
<1>3. \A p \in Paths : p \in Ancestors(p)
  BY AncestorsMeans
<1>4. Root \notin late
  BY <1>1
<1> HIDE DEF changed
<1>5. \A p \in DOMAIN seen :
        /\ p \in paths /\ p \in DOMAIN (IF p \in late THEN after ELSE before)
        /\ seen[p] = (IF p \in late THEN after ELSE before)[p]
  BY <1>1, <1>2, <1>3
<1>6. \A p \in DOMAIN seen :
        \/ p \in DOMAIN before /\ seen[p] = before[p]
        \/ p \in DOMAIN after /\ seen[p] = after[p]
  BY <1>5
<1>7. DOMAIN seen \subseteq Paths /\ IsFiniteSet(DOMAIN seen)
  BY <1>2, <1>5, FS_Subset
<1>8. IsSnapshot(seen)
  BY <1>6, <1>7 DEF IsSnapshot
<1>9. Root \in DOMAIN seen <=> Root \in DOMAIN before
  BY <1>1, <1>4, RootIsPath
<1>10. Root \in DOMAIN seen => seen[Root] = before[Root]
  BY <1>4, <1>5
<1> QED
  BY <1>6, <1>8, <1>9, <1>10

LEMMA NothingIsSeen ==
  /\ IsSnapshot(<<>>) /\ DOMAIN <<>> = {} /\ IsAgreed(NoState)
<1>1. DOMAIN <<>> = {} /\ IsFiniteSet({})
  BY FS_EmptySet
<1> QED
  BY <1>1 DEF IsSnapshot, IsAgreed, IsBaseline, NoState

\* Snapshots that converge make a baseline of trees that agreed.
LEMMA NewStateIsAgreed ==
  ASSUME NEW left, NEW right, IsSnapshot(left), IsSnapshot(right), SnapshotsConverge(left, right)
  PROVE  IsAgreed(NewState(left, right))
<1> DEFINE state == NewState(left, right)
<1>1. /\ state.found
      /\ DOMAIN state.entries = DOMAIN left /\ DOMAIN left = DOMAIN right
      /\ \A p \in DOMAIN left : state.entries[p].source = left[p] /\ state.entries[p].destination = right[p]
  BY DEF NewState, SnapshotsConverge, EntryAt
<1> HIDE DEF state
<1>2. IsBaseline(state)
  BY <1>1 DEF IsBaseline, IsSnapshot
<1>3. IsAgreed(state)
  BY <1>1, <1>2 DEF IsAgreed, SnapshotsConverge
<1> QED
  BY <1>3 DEF state

-----------------------------------------------------------------------------
(* The invariant *)

\* In a run that aborts on conflicts, what the plan still does is guarded.
PlanInv ==
  /\ plan \in Seq(Actions)
  /\ prefer = "" => \A i \in DOMAIN plan :
       \/ plan[i].kind = "skip"
       \/ /\ Guarded(plan[i])
          /\ plan[i].target = "remote" => Remembered(plan[i].destination, remote, clock)

StepInv ==
  /\ step \in Nat \ {0}
  /\ pc \in InAction => step \in DOMAIN plan /\ Current.kind # "skip"
  /\ pc = "replace" => Current.replace
  /\ pc = "commit" =>
       IsDownload(Current) /\ fetched.target \in Paths \ {Root} /\ fetched.content \in Names

TypeInv == TreesInv /\ SeenInv /\ RecordsInv /\ RequestInv /\ PlanInv /\ StepInv

\* What an action puts at stake at its path.
AtStake(a) == a.kind \in {"delete", "transfer"} \/ a.replace

\* Until somebody edits a tree, the current action finds locally what was verified.
Verified ==
  /\ prefer = "" /\ ~raced /\ pc \in {"replace", "mutate", "commit"}
  /\ Current.target = "local" /\ ~DestroysDirectory(Current)
  => /\ AtStake(Current) /\ Current.path \in DOMAIN local =>
          /\ local[Current.path].type = "file"
          /\ local[Current.path].content = RecordAt(previous, Current.path).source.checksum
     /\ Current.kind = "move" =>
          Current.path \notin DOMAIN local /\ TypeAt(local, Current.from) = "file"
     /\ pc = "commit" => fetched.target = Current.path

LossInv == TypeInv /\ Verified /\ (prefer = "" => LossOnlyUnguarded)

LEMMA CurrentIsAction ==
  ASSUME TypeInv
  PROVE  /\ StepTyped
         /\ prefer = "" /\ pc \in InAction =>
              /\ Guarded(Current)
              /\ Current.target = "remote" => Remembered(Current.destination, remote, clock)
<1>1. pc \in InAction => step \in DOMAIN plan /\ Current \in Actions /\ Current.kind # "skip"
  BY ElementsAre DEF TypeInv, PlanInv, StepInv, Current
<1>2. StepTyped
  BY <1>1, ActionsMean DEF StepTyped, TypeInv, StepInv
<1> QED
  BY <1>1, <1>2 DEF TypeInv, PlanInv, Current

\* What an ETag stands for stays true of a remote tree that moves on.
LEMMA MovedRemembers ==
  ASSUME TreesInv, TreesMove \/ TreesStay
  PROVE  /\ TreesInv'
         /\ \A entry \in Entries : Remembered(entry, remote, clock) => Remembered(entry, remote', clock')
<1>1. CASE TreesStay
  BY <1>1 DEF TreesStay, TreesInv
<1>2. CASE TreesMove
  <2>1. clock \in Nat \ {0} /\ IsTree(local') /\ IsTree(remote') /\ Evolved(remote, remote', clock)
        /\ clock' = clock + 1 /\ IsTree(remote) /\ ETagsBefore(remote, clock)
    BY <1>2 DEF TreesMove, TreesInv
  <2>2. /\ ETagsBefore(remote', clock + 1)
        /\ \A entry \in Entries : Remembered(entry, remote, clock) => Remembered(entry, remote', clock + 1)
    BY <2>1, EvolvedKeeps
  <2> QED
    BY <2>1, <2>2 DEF TreesInv
<1> QED
  BY <1>1, <1>2

\* So does what a run has planned.
LEMMA MovedKeepsPlan ==
  ASSUME TypeInv, TreesMove \/ TreesStay, UNCHANGED <<request, requests, previous, plan>>
  PROVE  TreesInv' /\ IsAgreed(previous)' /\ RequestInv' /\ PlanInv'
<1>1. TreesInv /\ RecordsInv /\ RequestInv /\ PlanInv
  BY DEF TypeInv
<1>2. /\ TreesInv'
      /\ \A entry \in Entries : Remembered(entry, remote, clock) => Remembered(entry, remote', clock')
  BY <1>1, MovedRemembers
<1>3. PlanInv'
  <2>1. \A i \in DOMAIN plan : plan[i].destination \in Entries
    <3>1. \A i \in DOMAIN plan : plan[i] \in Actions
      BY <1>1, ElementsAre DEF PlanInv
    <3> QED
      BY <3>1 DEF Actions
  <2>2. plan \in Seq(Actions) /\ plan' = plan /\ previous' = previous /\ prefer' = prefer
    BY <1>1 DEF PlanInv, prefer
  <2>3. ASSUME NEW i \in DOMAIN plan, Guarded(plan[i])
        PROVE  Guarded(plan[i])'
    BY <2>2, <2>3 DEF Guarded, Agreed
  <2>4. ASSUME prefer = "", NEW i \in DOMAIN plan, plan[i].kind # "skip"
        PROVE  /\ Guarded(plan[i])'
               /\ plan[i].target = "remote" => Remembered(plan[i].destination, remote', clock')
    <3>1. Guarded(plan[i]) /\ (plan[i].target = "remote" => Remembered(plan[i].destination, remote, clock))
      BY <1>1, <2>4 DEF PlanInv
    <3> QED
      BY <1>2, <2>1, <2>3, <3>1
  <2> QED
    BY <2>2, <2>4 DEF PlanInv
<1>4. IsAgreed(previous)' /\ RequestInv'
  BY <1>1 DEF RecordsInv, RequestInv
<1> QED
  BY <1>2, <1>3, <1>4

\* And what it has seen.
LEMMA MovedKeeps ==
  ASSUME TypeInv, TreesMove \/ TreesStay,
         UNCHANGED <<request, requests, previous, seenLocal, seenRemote, plan>>
  PROVE  TreesInv' /\ SeenInv' /\ IsAgreed(previous)' /\ RequestInv' /\ PlanInv'
<1>1. TreesInv /\ SeenInv
  BY DEF TypeInv
<1>2. \A entry \in Entries : Remembered(entry, remote, clock) => Remembered(entry, remote', clock')
  BY <1>1, MovedRemembers
<1>3. \A p \in DOMAIN seenRemote : seenRemote[p] \in Entries
  BY <1>1 DEF SeenInv, IsSnapshot, IsEntry
<1>4. SeenInv'
  BY <1>1, <1>2, <1>3 DEF SeenInv
<1> QED
  BY <1>4, MovedKeepsPlan

\* A walk that an edit overtakes sees what there was or what there is.
LEMMA EditSees ==
  ASSUME TreesInv, SeenInv, EditLocal \/ EditRemote
  PROVE  /\ SeenInv'
         /\ Root \in DOMAIN seenLocal' <=> Root \in DOMAIN seenLocal
         /\ Root \in DOMAIN seenLocal' => seenLocal'[Root] = seenLocal[Root]
         /\ Root \in DOMAIN seenRemote' <=> Root \in DOMAIN seenRemote
         /\ Root \in DOMAIN seenRemote' => seenRemote'[Root] = seenRemote[Root]
<1>1. /\ TreesInv'
      /\ \A entry \in Entries : Remembered(entry, remote, clock) => Remembered(entry, remote', clock')
  BY EditMoves, MovedRemembers
<1>2. /\ IsSnapshot(LocalScan') /\ IsSnapshot(RemoteScan')
      /\ \A p \in DOMAIN RemoteScan' : Remembered(RemoteScan'[p], remote', clock')
  BY <1>1, ScansMean DEF TreesInv, LocalScan, RemoteScan
<1>3. IsSnapshot(seenLocal) /\ IsSnapshot(seenRemote)
  BY DEF SeenInv
<1>4. /\ seenLocal' = seenLocal \/ seenLocal' \in Glimpses(seenLocal, LocalScan')
      /\ seenRemote' = seenRemote \/ seenRemote' \in Glimpses(seenRemote, RemoteScan')
  BY DEF EditLocal, EditRemote
<1>5. /\ IsSnapshot(seenLocal') /\ IsSnapshot(seenRemote')
      /\ Root \in DOMAIN seenLocal' <=> Root \in DOMAIN seenLocal
      /\ Root \in DOMAIN seenLocal' => seenLocal'[Root] = seenLocal[Root]
      /\ Root \in DOMAIN seenRemote' <=> Root \in DOMAIN seenRemote
      /\ Root \in DOMAIN seenRemote' => seenRemote'[Root] = seenRemote[Root]
  BY <1>2, <1>3, <1>4, GlimpseMeans
<1>6. \A p \in DOMAIN seenRemote' :
        \/ p \in DOMAIN seenRemote /\ seenRemote'[p] = seenRemote[p]
        \/ p \in DOMAIN RemoteScan' /\ seenRemote'[p] = RemoteScan'[p]
  BY <1>2, <1>3, <1>4, GlimpseMeans
<1>7. \A p \in DOMAIN seenRemote : seenRemote[p] \in Entries /\ Remembered(seenRemote[p], remote, clock)
  BY DEF SeenInv, IsSnapshot, IsEntry
<1>8. \A p \in DOMAIN seenRemote' : Remembered(seenRemote'[p], remote', clock')
  BY <1>1, <1>2, <1>6, <1>7
<1> QED
  BY <1>5, <1>8 DEF SeenInv

-----------------------------------------------------------------------------
(* What a mutation destroys *)

\* Every file of a tree survives somewhere, or the two sides had agreed on it.
Saved(before, after) ==
  \A q \in DOMAIN before :
    before[q].type = "file" /\ ~IsArtifact(q) =>
      \/ before[q].content \in Contents(after)
      \/ RecordAt(previous, q).source.checksum = before[q].content

LEMMA KeptIsSaved ==
  ASSUME NEW before, NEW after,
         \A q \in DOMAIN before :
           \/ q \in DOMAIN after /\ after[q] = before[q]
           \/ before[q].type # "file" \/ IsArtifact(q)
           \/ before[q].content \in Contents(after)
           \/ RecordAt(previous, q).source.checksum = before[q].content
  PROVE  Saved(before, after)
<1>1. ASSUME NEW q \in DOMAIN after, after[q].type = "file"
      PROVE  after[q].content \in Contents(after)
  BY <1>1 DEF Contents
<1> QED
  BY <1>1 DEF Saved

\* Removing a path with nothing below it destroys what is there.
LEMMA WithoutSaves ==
  ASSUME NEW tree, IsTree(tree), NEW p \in Paths, TypeAt(tree, p) # "directory",
         p \in DOMAIN tree => RecordAt(previous, p).source.checksum = tree[p].content
  PROVE  Saved(tree, Without(tree, p))
<1>1. \A q \in DOMAIN tree : q = p \/ (q \in DOMAIN Without(tree, p) /\ Without(tree, p)[q] = tree[q])
  BY NothingBelow DEF Without
<1> QED
  BY <1>1, KeptIsSaved

\* Writing a path destroys what is there.
LEMMA WithSaves ==
  ASSUME NEW tree, NEW p, NEW node,
         p \in DOMAIN tree =>
           tree[p].type # "file" \/ RecordAt(previous, p).source.checksum = tree[p].content
  PROVE  Saved(tree, With(tree, p, node))
<1>1. \A q \in DOMAIN tree : q = p \/ (q \in DOMAIN With(tree, p, node) /\ With(tree, p, node)[q] = tree[q])
  BY DEF With
<1> QED
  BY <1>1, KeptIsSaved

\* A file moved to a free place outside itself is still there.
LEMMA MoveSaves ==
  ASSUME NEW tree, IsTree(tree), NEW made, NEW from \in DOMAIN tree, NEW p \in Paths, NEW node,
         \A q \in DOMAIN tree : q \in DOMAIN made /\ made[q] = tree[q],
         tree[from].type = "file", p \notin DOMAIN tree, ~IsDescendant(p, from),
         node.type = "file", node.content = tree[from].content
  PROVE  Saved(tree, Without(With(made, p, node), from))
<1> DEFINE after == Without(With(made, p, node), from)
<1>1. /\ DOMAIN after = {q \in DOMAIN made \cup {p} : q # from /\ ~IsDescendant(q, from)}
      /\ \A q \in DOMAIN after : after[q] = IF q = p THEN node ELSE made[q]
  BY DEF Without, With
<1>2. from \in Paths /\ TypeAt(tree, from) # "directory"
  BY TypesAre DEF TypeAt
<1> HIDE DEF after
<1>3. p \in DOMAIN after /\ after[p] = node
  BY <1>1
<1>4. tree[from].content \in Contents(after)
  BY <1>3 DEF Contents
<1>5. \A q \in DOMAIN tree : q = from \/ (q \in DOMAIN after /\ after[q] = tree[q])
  BY <1>1, <1>2, NothingBelow
<1>6. Saved(tree, after)
  BY <1>4, <1>5, KeptIsSaved
<1> QED
  BY <1>6 DEF after

\* A mutation that saves the files, unless no guard can be, loses only what no
\* guard protects.
LEMMA MutationLoses ==
  ASSUME LossOnlyUnguarded,
         lost' = lost \cup Destroyed("local", local, local') \cup Destroyed("remote", remote, remote'),
         DestroysDirectory(Current) \/ raced \/ Saved(local, local'),
         DestroysDirectory(Current) \/ Saved(remote, remote')
  PROVE  LossOnlyUnguarded'
<1>1. ASSUME NEW side, NEW before, NEW after, NEW loss \in Destroyed(side, before, after)
      PROVE  /\ loss.action = Current /\ loss.raced = raced /\ loss.side = side
             /\ ~Saved(before, after)
  BY <1>1 DEF Destroyed, Saved
<1>2. \A loss \in lost' :
        loss \in lost \/ loss \in Destroyed("local", local, local') \/ loss \in Destroyed("remote", remote, remote')
  OBVIOUS
<1>3. \A loss \in lost' : DestroysDirectory(loss.action) \/ (loss.side = "local" /\ loss.raced)
  BY <1>1, <1>2 DEF LossOnlyUnguarded
<1> QED
  BY <1>3 DEF LossOnlyUnguarded

LEMMA SameSaves ==
  ASSUME NEW tree
  PROVE  Saved(tree, tree)
  BY KeptIsSaved

\* What a guarded action that removes no directory does to the remote tree.
LEMMA RemoteIsSaved ==
  ASSUME TreesInv, NEW a, IsAction(a), Guarded(a), a.target = "remote", ~DestroysDirectory(a),
         Remembered(a.destination, remote, clock)
  PROVE  /\ a.replace /\ RemoveAccepted(a) => Saved(remote, Without(remote, a.path))
         /\ \A after \in RemoteResults(a) : Saved(remote, after)
<1>0. IsTree(remote) /\ a.path \in Paths /\ a.from \in Paths
  BY DEF TreesInv, IsAction
<1>1. a.destination.type \in {"", "file", "directory"}
  BY DEF IsAction, Entries, Kinds
<1>2. ASSUME a.destination.type = "file", AtStake(a), ETagHolds(a.path, a.destination)
      PROVE  /\ a.path \in DOMAIN remote /\ remote[a.path].type = "file"
             /\ RecordAt(previous, a.path).source.checksum = remote[a.path].content
  <2>1. Agreed(a)
    BY <1>2 DEF Guarded, AtStake
  <2>2. a.path \in DOMAIN remote /\ remote[a.path].type = "file" /\ remote[a.path].content = a.destination.checksum
    BY <1>2, <2>1, GuardFinds DEF Agreed
  <2> QED
    BY <2>1, <2>2 DEF Agreed
<1>3. ASSUME AtStake(a), RemoveAccepted(a), a.kind = "delete" \/ a.replace
      PROVE  Saved(remote, Without(remote, a.path))
  <2>1. a.path \in DOMAIN remote /\ ETagHolds(a.path, a.destination)
    BY <1>3 DEF RemoveAccepted
  <2>2. a.destination.type = "file"
    BY <1>1, <1>3 DEF Guarded, DestroysDirectory, ActionType, Present
  <2>3. TypeAt(remote, a.path) # "directory"
    BY <1>2, <1>3, <2>1, <2>2 DEF TypeAt
  <2> QED
    BY <1>0, <1>2, <1>3, <2>1, <2>2, <2>3, WithoutSaves
<1>4. ASSUME NEW after \in RemoteResults(a)
      PROVE  Saved(remote, after)
  <2>1. CASE a.kind = "delete"
    <3>1. RemoveAccepted(a) /\ after = Without(remote, a.path)
      BY <1>4, <2>1 DEF RemoteResults
    <3> QED
      BY <1>3, <2>1, <3>1 DEF AtStake
  <2>2. CASE a.kind = "create-directory"
    <3>1. after = remote \/ (a.path \notin DOMAIN remote /\ after = With(remote, a.path, Directory))
      BY <1>4, <2>2 DEF RemoteResults
    <3> QED
      BY <3>1, SameSaves, WithSaves
  <2>3. CASE a.kind = "transfer"
    <3>1. PICK node :
            /\ after = With(remote, a.path, node)
            /\ ~Present(a.destination) => a.path \notin DOMAIN remote
            /\ ETagHolds(a.path, a.destination)
      BY <1>4, <2>3 DEF RemoteResults
    <3>2. a.path \in DOMAIN remote => a.destination.type = "file"
      BY <1>1, <2>3, <3>1 DEF Guarded, DestroysDirectory, Present
    <3> QED
      BY <1>2, <2>3, <3>1, <3>2, WithSaves DEF AtStake
  <2>4. CASE a.kind = "move"
    <3> DEFINE node == [remote[a.from] EXCEPT !.etag = clock]
    <3>1. /\ a.from \in DOMAIN remote /\ a.path \notin DOMAIN remote /\ ParentExists(remote, a.path)
          /\ ETagHolds(a.from, a.destination)
          /\ after = Without(With(remote, a.path, node), a.from)
      BY <1>4, <2>4 DEF RemoteResults
    <3>2. remote[a.from].type = "file"
      BY <2>4, <3>1, GuardFinds DEF Guarded
    <3>3. node.type = "file" /\ node.content = remote[a.from].content
      <4>1. IsNode(remote[a.from])
        BY <1>0, <3>1, TypesAre
      <4> QED
        BY <3>2, <4>1 DEF IsNode
    <3>4. ~IsDescendant(a.path, a.from)
      <4> SUFFICES ASSUME IsDescendant(a.path, a.from) PROVE FALSE
        OBVIOUS
      <4>1. a.path # Root
        BY <2>4 DEF IsAction
      <4>2. a.from = Front(a.path) \/ IsDescendant(Front(a.path), a.from)
        BY <1>0, <4>1, FrontMeans
      <4>3. TypeAt(remote, Front(a.path)) = "directory" /\ Front(a.path) \in DOMAIN remote
        BY <3>1, <4>1 DEF ParentExists, TypeAt
      <4>4. TypeAt(remote, a.from) = "file"
        BY <3>1, <3>2 DEF TypeAt
      <4> QED
        BY <1>0, <4>2, <4>3, <4>4, NothingBelow
    <3> HIDE DEF node
    <3> QED
      BY <1>0, <3>1, <3>2, <3>3, <3>4, MoveSaves
  <2> QED
    BY <2>1, <2>2, <2>3, <2>4 DEF Guarded
<1> QED
  BY <1>3, <1>4 DEF AtStake

\* Where a guarded action that removes no directory finds what was verified.
FindsVerified(a) ==
  /\ AtStake(a) /\ a.path \in DOMAIN local =>
       /\ local[a.path].type = "file"
       /\ local[a.path].content = RecordAt(previous, a.path).source.checksum
  /\ a.kind = "move" => a.path \notin DOMAIN local /\ TypeAt(local, a.from) = "file"

\* What such an action does to the local tree.
LEMMA LocalIsSaved ==
  ASSUME TreesInv, NEW a, IsAction(a), Guarded(a), FindsVerified(a)
  PROVE  /\ AtStake(a) => TypeAt(local, a.path) # "directory"
         /\ AtStake(a) => Saved(local, Without(local, a.path))
         /\ \A after \in LocalResults(a) : Saved(local, after)
<1>0. IsTree(local) /\ a.path \in Paths /\ a.from \in Paths
  BY DEF TreesInv, IsAction
<1>1. AtStake(a) => TypeAt(local, a.path) # "directory"
  BY DEF FindsVerified, TypeAt
<1>2. AtStake(a) => Saved(local, Without(local, a.path))
  BY <1>0, <1>1, WithoutSaves DEF FindsVerified
<1>3. ASSUME NEW after \in LocalResults(a)
      PROVE  Saved(local, after)
  <2>1. CASE a.kind = "delete"
    <3>1. after = Without(local, a.path)
      BY <1>3, <2>1 DEF LocalResults
    <3> QED
      BY <1>2, <2>1, <3>1 DEF AtStake
  <2>2. CASE a.kind = "create-directory"
    <3>1. after = WithDirectories(local, a.path)
      BY <1>3, <2>2 DEF LocalResults
    <3>2. \A q \in DOMAIN local : q \in DOMAIN after /\ after[q] = local[q]
      BY <3>1 DEF WithDirectories
    <3> QED
      BY <3>2, KeptIsSaved
  <2>3. CASE a.kind = "move"
    <3> DEFINE made == WithDirectories(local, Front(a.path))
    <3>1. /\ a.from \in DOMAIN local /\ CanMkdirAll(local, Front(a.path))
          /\ after = Without(With(made, a.path, local[a.from]), a.from)
      BY <1>3, <2>3 DEF LocalResults
    <3>2. \A q \in DOMAIN local : q \in DOMAIN made /\ made[q] = local[q]
      BY DEF WithDirectories
    <3>3. /\ a.path \notin DOMAIN local /\ TypeAt(local, a.from) = "file"
          /\ local[a.from].type = "file"
      BY <2>3, <3>1 DEF FindsVerified, TypeAt
    <3>4. ~IsDescendant(a.path, a.from)
      <4> SUFFICES ASSUME IsDescendant(a.path, a.from) PROVE FALSE
        OBVIOUS
      <4>1. a.path # Root
        BY <2>3 DEF IsAction
      <4>2. Front(a.path) \in Paths /\ (a.from = Front(a.path) \/ IsDescendant(Front(a.path), a.from))
        BY <1>0, <4>1, FrontMeans
      <4>3. Ancestors(Front(a.path)) = {q \in Paths : q = Front(a.path) \/ IsDescendant(Front(a.path), q)}
        BY <4>2, AncestorsMeans
      <4>4. a.from \in Ancestors(Front(a.path))
        BY <1>0, <4>2, <4>3
      <4> QED
        BY <3>1, <3>3, <4>4 DEF CanMkdirAll
    <3> HIDE DEF made
    <3> QED
      BY <1>0, <3>1, <3>2, <3>3, <3>4, MoveSaves
  <2>4. a.kind # "transfer"
    BY <1>3 DEF LocalResults
  <2> QED
    BY <2>1, <2>2, <2>3, <2>4 DEF Guarded
<1> QED
  BY <1>1, <1>2, <1>3

\* A fetch writes nothing but its own part.
LEMMA FetchIsSaved ==
  ASSUME IsTree(local), NEW a, IsAction(a), IsDownload(a), FetchAccepted(a), NEW node, IsNode(node)
  PROVE  Saved(local, With(WithDirectories(local, Front(a.path)), PartPath(DownloadTarget(a)), node))
<1> DEFINE part == PartPath(DownloadTarget(a))
           after == With(WithDirectories(local, Front(a.path)), part, node)
<1>1. IsArtifact(part)
  <2>1. DownloadTarget(a) \in Paths \ {Root}
    BY DownloadTargetMeans
  <2> QED
    BY <2>1, PartPathMeans
<1>2. \A q \in DOMAIN local : q # part => q \in DOMAIN after /\ after[q] = local[q]
  BY FetchIsTree
<1> HIDE DEF after, part
<1>3. Saved(local, after)
  BY <1>1, <1>2, KeptIsSaved
<1> QED
  BY <1>3 DEF after, part

\* A commit writes its target and takes its part away.
LEMMA CommitIsSaved ==
  ASSUME IsTree(local), NEW a, CommitAccepted(a), fetched.target \in Paths \ {Root}, NEW node,
         fetched.target \in DOMAIN local =>
           local[fetched.target].content = RecordAt(previous, fetched.target).source.checksum
  PROVE  Saved(local, Without(With(local, fetched.target, node), PartPath(fetched.target)))
<1> DEFINE part == PartPath(fetched.target)
           after == Without(With(local, fetched.target, node), part)
<1>1. part \in Paths /\ IsArtifact(part)
  BY PartPathMeans
<1>2. TypeAt(local, part) # "directory"
  BY DEF CommitAccepted
<1> HIDE DEF part
<1>3. \A q \in DOMAIN local :
        q = part \/ q = fetched.target \/ (q \in DOMAIN after /\ after[q] = local[q])
  BY <1>1, <1>2, NothingBelow DEF Without, With
<1> HIDE DEF after
<1>4. Saved(local, after)
  BY <1>1, <1>3, KeptIsSaved
<1> QED
  BY <1>4 DEF after, part

\* What a file system entry that matches an expectation has in common with it.
LEMMA LocalIsMeans ==
  ASSUME IsTree(local), NEW p \in DOMAIN local, NEW expected, LocalIs(p, expected)
  PROVE  /\ Present(expected) /\ expected.type = local[p].type
         /\ expected.type = "file" /\ expected.checksum # 0 => expected.checksum = local[p].content
<1>1. local[p].type \in Kinds /\ (local[p].type = "file" => local[p].content # 0)
  <2>1. IsNode(local[p])
    BY TypesAre
  <2> QED
    BY <2>1 DEF IsNode
<1>2. LocalEntry(local[p]).type = local[p].type /\ LocalEntry(local[p]).checksum = local[p].content
  BY DEF LocalEntry
<1>3. Equal(LocalEntry(local[p]), expected)
  BY <1>1, <1>2 DEF LocalIs, EntriesMatch, Present, Kinds
<1> QED
  BY <1>1, <1>2, <1>3 DEF Equal, SameContent

\* A fetch leaves alone what it is going to replace.
LEMMA FetchKeepsTarget ==
  ASSUME TreesInv, StepTyped, Fetch, TypeAt(local, Current.path) # "directory"
  PROVE  /\ fetched'.target = Current.path
         /\ Current.path \in DOMAIN local' =>
              Current.path \in DOMAIN local /\ local'[Current.path] = local[Current.path]
<1>1. /\ IsTree(local) /\ IsTree(remote) /\ clock \in Nat
      /\ IsAction(Current) /\ IsDownload(Current) /\ FetchAccepted(Current)
  BY DEF TreesInv, StepTyped, InAction, Fetch
<1>2. DownloadTarget(Current) = Current.path /\ fetched'.target = Current.path
  BY <1>1, DownloadTargetMeans DEF Fetch
<1>3. PartPath(DownloadTarget(Current)) # Current.path
  <2>1. Current.path \in Paths \ {Root}
    BY <1>1 DEF IsAction, IsDownload
  <2> QED
    BY <1>2, <2>1, PartPathMeans
<1> DEFINE node == LocalFile(PartialContent(remote[SourcePath(Current)].content))
<1>4. IsNode(node)
  <2>1. remote[SourcePath(Current)].content \in Names
    BY <1>1, FetchReads
  <2>2. PartialContent(remote[SourcePath(Current)].content) \in Names
    BY <2>1, PartIsContent
  <2> QED
    BY <1>1, <2>2, FilesAreNodes
<1>5. local' = With(WithDirectories(local, Front(Current.path)), PartPath(DownloadTarget(Current)), node)
  BY DEF Fetch, Mutate
<1> HIDE DEF node
<1>6. Current.path \in DOMAIN local' => Current.path \in DOMAIN local /\ local'[Current.path] = local[Current.path]
  BY <1>1, <1>3, <1>4, <1>5, FetchIsTree
<1> QED
  BY <1>2, <1>6

\* What the current action finds on the local side, in a state of the invariant.
LEMMA LocallyVerified ==
  ASSUME LossInv, prefer = "", pc \in {"replace", "mutate", "commit"}, Current.target = "local",
         ~DestroysDirectory(Current), ~raced
  PROVE  FindsVerified(Current)
  BY DEF LossInv, Verified, FindsVerified

-----------------------------------------------------------------------------
(* What each mutation loses *)

LEMMA RemoveReplacedLoses ==
  ASSUME LossInv, prefer = "", RemoveReplaced
  PROVE  LossOnlyUnguarded'
<1>0. pc = "replace" /\ pc \in InAction /\ pc \in {"replace", "mutate", "commit"}
  BY DEF RemoveReplaced, InAction
<1>1. /\ TypeInv /\ LossOnlyUnguarded /\ TreesInv /\ Current.replace /\ IsAction(Current)
      /\ Guarded(Current) /\ Current.target \in {"local", "remote"} /\ AtStake(Current)
      /\ Current.target = "remote" => Remembered(Current.destination, remote, clock)
  BY <1>0, CurrentIsAction DEF LossInv, TypeInv, StepInv, StepTyped, Guarded, AtStake
<1>2. /\ lost' = lost \cup Destroyed("local", local, local') \cup Destroyed("remote", remote, remote')
      /\ RemoveAccepted(Current)
      /\ IF Current.target = "local"
         THEN local' = Without(local, Current.path) /\ remote' = remote
         ELSE local' = local /\ remote' = Without(remote, Current.path)
  BY DEF RemoveReplaced, Mutate
<1>3. CASE Current.target = "local"
  <2>1. DestroysDirectory(Current) \/ raced \/ Saved(local, local')
    BY <1>0, <1>1, <1>2, <1>3, LocallyVerified, LocalIsSaved
  <2>2. Saved(remote, remote')
    BY <1>2, <1>3, SameSaves
  <2> QED
    BY <1>1, <1>2, <2>1, <2>2, MutationLoses
<1>4. CASE Current.target = "remote"
  <2>1. Saved(local, local')
    BY <1>2, <1>4, SameSaves
  <2>2. DestroysDirectory(Current) \/ Saved(remote, remote')
    BY <1>1, <1>2, <1>4, RemoteIsSaved
  <2> QED
    BY <1>1, <1>2, <2>1, <2>2, MutationLoses
<1> QED
  BY <1>1, <1>3, <1>4

LEMMA ApplyLoses ==
  ASSUME LossInv, prefer = "", Apply
  PROVE  LossOnlyUnguarded'
<1>0. pc = "mutate" /\ pc \in InAction /\ pc \in {"replace", "mutate", "commit"}
  BY DEF Apply, InAction
<1>1. /\ TypeInv /\ LossOnlyUnguarded /\ TreesInv /\ IsAction(Current)
      /\ Guarded(Current) /\ Current.target \in {"local", "remote"}
      /\ Current.target = "remote" => Remembered(Current.destination, remote, clock)
  BY <1>0, CurrentIsAction DEF LossInv, TypeInv, StepTyped, Guarded
<1>2. /\ lost' = lost \cup Destroyed("local", local, local') \cup Destroyed("remote", remote, remote')
      /\ IF Current.target = "local"
         THEN local' \in LocalResults(Current) /\ remote' = remote
         ELSE local' = local /\ remote' \in RemoteResults(Current)
  BY DEF Apply, Mutate
<1>3. CASE Current.target = "local"
  <2>1. DestroysDirectory(Current) \/ raced \/ Saved(local, local')
    BY <1>0, <1>1, <1>2, <1>3, LocallyVerified, LocalIsSaved
  <2>2. Saved(remote, remote')
    BY <1>2, <1>3, SameSaves
  <2> QED
    BY <1>1, <1>2, <2>1, <2>2, MutationLoses
<1>4. CASE Current.target = "remote"
  <2>1. Saved(local, local')
    BY <1>2, <1>4, SameSaves
  <2>2. DestroysDirectory(Current) \/ Saved(remote, remote')
    BY <1>1, <1>2, <1>4, RemoteIsSaved
  <2> QED
    BY <1>1, <1>2, <2>1, <2>2, MutationLoses
<1> QED
  BY <1>1, <1>3, <1>4

LEMMA FetchSaves ==
  ASSUME TreesInv, StepTyped, Fetch
  PROVE  Saved(local, local') /\ Saved(remote, remote')
<1>1. /\ IsTree(local) /\ IsTree(remote) /\ clock \in Nat
      /\ IsAction(Current) /\ IsDownload(Current) /\ FetchAccepted(Current)
  BY DEF TreesInv, StepTyped, InAction, Fetch
<1> DEFINE got == remote[SourcePath(Current)]
           node == LocalFile(PartialContent(got.content))
<1>2. /\ remote' = remote
      /\ local' = With(WithDirectories(local, Front(Current.path)), PartPath(DownloadTarget(Current)), node)
  BY DEF Fetch, Mutate
<1>3. got.content \in Names
  BY <1>1, FetchReads
<1>4. PartialContent(got.content) \in Names
  BY <1>3 DEF PartialContent, Names
<1>5. IsNode(node)
  BY <1>1, <1>4, FilesAreNodes
<1> HIDE DEF node, got
<1> QED
  BY <1>1, <1>2, <1>5, FetchIsSaved, SameSaves

LEMMA FetchLoses ==
  ASSUME LossInv, Fetch, LossOnlyUnguarded
  PROVE  LossOnlyUnguarded'
<1>1. Saved(local, local') /\ Saved(remote, remote')
  BY CurrentIsAction, FetchSaves DEF LossInv, TypeInv
<1>2. lost' = lost \cup Destroyed("local", local, local') \cup Destroyed("remote", remote, remote')
  BY DEF Fetch, Mutate
<1> QED
  BY <1>1, <1>2, MutationLoses

LEMMA CommitLoses ==
  ASSUME LossInv, prefer = "", Commit
  PROVE  LossOnlyUnguarded'
<1>0. pc = "commit" /\ pc \in InAction /\ pc \in {"replace", "mutate", "commit"}
  BY DEF Commit, InAction
<1>1. /\ TypeInv /\ LossOnlyUnguarded /\ IsTree(local) /\ IsDownload(Current) /\ CommitAccepted(Current)
      /\ fetched.target \in Paths \ {Root}
  BY <1>0, CurrentIsAction DEF LossInv, TypeInv, TreesInv, StepTyped, Commit
<1>2. /\ remote' = remote
      /\ local' = Without(With(local, fetched.target, LocalFile(fetched.content)), PartPath(fetched.target))
      /\ lost' = lost \cup Destroyed("local", local, local') \cup Destroyed("remote", remote, remote')
  BY DEF Commit, Mutate
<1>3. ASSUME ~DestroysDirectory(Current), ~raced
      PROVE  fetched.target \in DOMAIN local =>
               local[fetched.target].content = RecordAt(previous, fetched.target).source.checksum
  BY <1>0, <1>1, <1>3 DEF LossInv, Verified, AtStake, IsDownload
<1>4. DestroysDirectory(Current) \/ raced \/ Saved(local, local')
  BY <1>1, <1>2, <1>3, CommitIsSaved
<1>5. Saved(remote, remote')
  BY <1>2, SameSaves
<1> QED
  BY <1>1, <1>2, <1>4, <1>5, MutationLoses

LEMMA CrashDuringUploadSaves ==
  ASSUME CrashDuringUpload
  PROVE  Saved(local, local') /\ Saved(remote, remote')
<1>1. PICK node :
        /\ local' = local /\ remote' = With(remote, UploadTempPath(Current.path), node)
        /\ UploadTempPath(Current.path) \notin DOMAIN remote
  BY DEF CrashDuringUpload, Mutate
<1> QED
  BY <1>1, SameSaves, WithSaves

LEMMA CrashDuringUploadLoses ==
  ASSUME CrashDuringUpload, LossOnlyUnguarded
  PROVE  LossOnlyUnguarded'
<1>1. lost' = lost \cup Destroyed("local", local, local') \cup Destroyed("remote", remote, remote')
  BY DEF CrashDuringUpload, Mutate
<1> QED
  BY <1>1, CrashDuringUploadSaves, MutationLoses

\* A file has nothing below it that a dying removal could take first.
LEMMA CrashDuringRemoveLoses ==
  ASSUME LossInv, prefer = "", CrashDuringRemove
  PROVE  LossOnlyUnguarded'
<1>0. pc \in InAction /\ pc \in {"replace", "mutate", "commit"} /\ Current.target = "local"
  BY DEF CrashDuringRemove, InAction
<1>1. /\ TypeInv /\ LossOnlyUnguarded /\ TreesInv /\ IsTree(local) /\ IsAction(Current)
      /\ Guarded(Current) /\ AtStake(Current) /\ Current.path \in Paths
  BY <1>0, CurrentIsAction
  DEF LossInv, TypeInv, TreesInv, StepInv, StepTyped, IsAction, AtStake, CrashDuringRemove
<1>2. PICK p \in DOMAIN local :
        /\ IsDescendant(p, Current.path) /\ remote' = remote /\ local' = Without(local, p)
        /\ lost' = lost \cup Destroyed("local", local, local') \cup Destroyed("remote", remote, remote')
  BY DEF CrashDuringRemove, Mutate
<1>3. DestroysDirectory(Current) \/ raced
  <2> SUFFICES ASSUME ~DestroysDirectory(Current), ~raced PROVE FALSE
    OBVIOUS
  <2>1. TypeAt(local, Current.path) # "directory"
    BY <1>0, <1>1, LocallyVerified, LocalIsSaved
  <2> QED
    BY <1>1, <1>2, <2>1, NothingBelow
<1>4. Saved(remote, remote')
  BY <1>2, SameSaves
<1> QED
  BY <1>1, <1>2, <1>3, <1>4, MutationLoses

-----------------------------------------------------------------------------
(* The steps *)

LEMMA InitInv == BidirectionalInit => LossInv
<1> SUFFICES ASSUME BidirectionalInit PROVE LossInv
  OBVIOUS
<1>1. PICK start \in Starts :
        local = start.local /\ remote = start.remote /\ baseline = start.baseline /\ requests = start.requests
  BY DEF BidirectionalInit, Init
<1>2. IsStart(start)
  BY BoundsAssumption
<1>3. /\ clock = FirstClock /\ pc = "idle" /\ request = (CHOOSE r \in requests : TRUE) /\ previous = NoState
      /\ seenLocal = <<>> /\ seenRemote = <<>> /\ plan = <<>> /\ step = 1 /\ lost = {}
  BY DEF BidirectionalInit, Init
<1>4. TreesInv
  BY <1>1, <1>2, <1>3 DEF TreesInv, IsStart, ETagsBefore, FirstClock
<1>5. SeenInv
  BY <1>3, NothingIsSeen DEF SeenInv
<1>6. RecordsInv
  BY <1>1, <1>2, <1>3, NothingIsSeen DEF RecordsInv, IsAgreed, IsStart, BidirectionalInit, RecordsAgreement
<1>7. RequestInv
  BY <1>1, <1>2, <1>3 DEF RequestInv, IsStart
<1>8. PlanInv
  BY <1>3, EmptySeq DEF PlanInv
<1>9. StepInv /\ Verified /\ LossOnlyUnguarded
  BY <1>3 DEF StepInv, InAction, Verified, LossOnlyUnguarded
<1> QED
  BY <1>4, <1>5, <1>6, <1>7, <1>8, <1>9 DEF LossInv, TypeInv

\* A new run knows the baseline and what it has scanned.
LEMMA StartInv == ASSUME LossInv, Start PROVE LossInv'
<1>1. /\ TreesStay /\ request' \in requests /\ requests' = requests /\ previous' = baseline
      /\ baseline' = baseline /\ pc' = "scan" /\ plan' = <<>> /\ step' = 1 /\ lost' = {}
      /\ seenLocal' \in {<<>>, LocalScan} /\ seenRemote' \in {<<>>, RemoteScan}
  BY DEF Start, StartHistory, TreesStay, disk
<1>2. TreesInv /\ RecordsInv /\ RequestInv
  BY DEF LossInv, TypeInv
<1>3. TreesInv'
  BY <1>1, <1>2 DEF TreesInv, TreesStay
<1>4. SeenInv'
  <2>1. /\ IsSnapshot(seenLocal') /\ IsSnapshot(seenRemote')
        /\ \A p \in DOMAIN seenRemote' : Remembered(seenRemote'[p], remote, clock)
    BY <1>1, <1>2, ScansSee, NothingIsSeen
  <2> QED
    BY <1>1, <2>1 DEF SeenInv, TreesStay
<1>5. RecordsInv' /\ RequestInv'
  BY <1>1, <1>2 DEF RecordsInv, RequestInv
<1>6. PlanInv'
  BY <1>1, EmptySeq DEF PlanInv
<1>7. StepInv' /\ Verified' /\ LossOnlyUnguarded'
  BY <1>1 DEF StepInv, InAction, Verified, LossOnlyUnguarded
<1> QED
  BY <1>3, <1>4, <1>5, <1>6, <1>7 DEF LossInv, TypeInv

\* A run that ends without touching the trees.
Ends ==
  /\ TreesStay
  /\ UNCHANGED <<request, requests, previous, seenLocal, seenRemote, plan, step, fetched, raced, lost>>
  /\ pc' = "idle" /\ baseline' \in {baseline, NoState}

LEMMA EndsInv == ASSUME LossInv, Ends PROVE LossInv'
<1>1. TreesInv' /\ SeenInv' /\ IsAgreed(previous)' /\ RequestInv' /\ PlanInv'
  BY MovedKeeps DEF LossInv, Ends
<1>2. RecordsInv'
  BY <1>1, NothingIsSeen DEF RecordsInv, LossInv, TypeInv, Ends
<1>3. StepInv' /\ Verified'
  BY DEF LossInv, TypeInv, StepInv, Ends, InAction, Verified
<1>4. prefer' = "" => LossOnlyUnguarded'
  BY DEF LossInv, Ends, prefer, LossOnlyUnguarded
<1> QED
  BY <1>1, <1>2, <1>3, <1>4 DEF LossInv, TypeInv

\* A run that looks at the trees between its actions.
Looks ==
  /\ TreesStay
  /\ UNCHANGED <<request, requests, previous, baseline, plan, step, fetched, raced, lost>>
  /\ pc' \notin InAction
  /\ seenLocal' \in {seenLocal, LocalScan} /\ seenRemote' \in {seenRemote, RemoteScan}

LEMMA LooksInv == ASSUME LossInv, Looks PROVE LossInv'
<1>1. TreesInv /\ SeenInv /\ RecordsInv /\ RequestInv /\ PlanInv /\ StepInv
  BY DEF LossInv, TypeInv
<1>2. TreesInv' /\ RecordsInv' /\ RequestInv' /\ PlanInv'
  BY <1>1 DEF Looks, TreesStay, TreesInv, RecordsInv, RequestInv, PlanInv, Guarded, Agreed, prefer
<1>3. SeenInv'
  <2>1. /\ IsSnapshot(seenLocal') /\ IsSnapshot(seenRemote')
        /\ \A p \in DOMAIN seenRemote' : Remembered(seenRemote'[p], remote, clock)
    BY <1>1, ScansSee DEF Looks, SeenInv
  <2> QED
    BY <2>1 DEF SeenInv, Looks, TreesStay
<1>4. StepInv' /\ Verified'
  BY <1>1 DEF StepInv, Looks, InAction, Verified
<1>5. prefer' = "" => LossOnlyUnguarded'
  BY DEF LossInv, Looks, prefer, LossOnlyUnguarded
<1> QED
  BY <1>2, <1>3, <1>4, <1>5 DEF LossInv, TypeInv

\* A run that goes on to another action, or to the verification of this one.
GoesOn ==
  /\ TreesStay
  /\ UNCHANGED <<request, requests, previous, seenLocal, seenRemote, plan, fetched, raced, lost>>
  /\ IsAgreed(baseline')
  /\ \/ pc' \notin InAction /\ step' \in {step, step + 1}
     \/ pc' = "verify" /\ step' = step /\ step \in DOMAIN plan /\ Current.kind # "skip"

LEMMA GoesOnInv == ASSUME LossInv, GoesOn PROVE LossInv'
<1>1. TreesInv' /\ SeenInv' /\ IsAgreed(previous)' /\ RequestInv' /\ PlanInv'
  BY MovedKeeps DEF LossInv, GoesOn
<1>2. RecordsInv'
  BY <1>1 DEF RecordsInv, GoesOn
<1>3. StepInv'
  <2>1. step' \in Nat \ {0}
    <3>1. step \in Nat \ {0}
      BY DEF LossInv, TypeInv, StepInv
    <3>2. step' = step \/ step' = step + 1
      BY DEF GoesOn
    <3> QED
      BY <3>1, <3>2
  <2>2. pc' # "replace" /\ pc' # "commit"
    BY DEF GoesOn, InAction
  <2>3. pc' \in InAction => step' \in DOMAIN plan' /\ Current'.kind # "skip"
    BY DEF GoesOn, Current
  <2> QED
    BY <2>1, <2>2, <2>3 DEF StepInv, InAction
<1>4. Verified'
  BY DEF GoesOn, Verified, InAction
<1>5. prefer' = "" => LossOnlyUnguarded'
  BY DEF LossInv, GoesOn, prefer, LossOnlyUnguarded
<1> QED
  BY <1>1, <1>2, <1>3, <1>4, <1>5 DEF LossInv, TypeInv

LEMMA AcceptInv == ASSUME RemoteChecksums, LossInv, AcceptPlan PROVE LossInv'
<1>1. TreesInv /\ SeenInv /\ RecordsInv /\ RequestInv /\ PlanInv /\ StepInv
  BY DEF LossInv, TypeInv
<1>2. /\ TreesStay /\ pc' = "next"
      /\ UNCHANGED <<request, requests, previous, baseline, seenLocal, seenRemote, step, fetched, raced, lost>>
  BY DEF AcceptPlan, TreesStay, bounds, history
<1>3. TreesInv' /\ SeenInv' /\ RecordsInv' /\ RequestInv'
  BY <1>1, <1>2 DEF TreesStay, TreesInv, SeenInv, RecordsInv, RequestInv
<1>4. PlanInv'
  <2>1. /\ plan' \in Seq(Actions)
        /\ prefer = "" => \A i \in DOMAIN plan' :
             plan'[i].kind = "skip" \/ (Guarded(plan'[i]) /\ NamesSeen(plan'[i]))
    BY <1>1, AcceptedPlan DEF SeenInv, RecordsInv, RequestInv
  <2>2. ASSUME NEW a, NamesSeen(a), a.target = "remote"
        PROVE  Remembered(a.destination, remote, clock)
    BY <1>1, <2>2, NoEntryIsEntry DEF NamesSeen, SeenInv, Remembered
  <2>3. prefer = "" => \A i \in DOMAIN plan' :
             \/ plan'[i].kind = "skip"
             \/ /\ Guarded(plan'[i])
                /\ plan'[i].target = "remote" => Remembered(plan'[i].destination, remote, clock)
    BY <2>1, <2>2
  <2> QED
    BY <1>2, <2>1, <2>3 DEF PlanInv, Guarded, Agreed, TreesStay, prefer
<1>5. StepInv' /\ Verified'
  BY <1>1, <1>2 DEF StepInv, InAction, Verified
<1>6. prefer' = "" => LossOnlyUnguarded'
  BY <1>2 DEF LossInv, prefer, LossOnlyUnguarded
<1> QED
  BY <1>3, <1>4, <1>5, <1>6 DEF LossInv, TypeInv

\* What the verification of the destination finds.
LEMMA VerifyInv == ASSUME RemoteChecksums, LossInv, VerifyDestination PROVE LossInv'
<1>1. TreesInv /\ TypeInv /\ SeenInv /\ RecordsInv /\ RequestInv /\ PlanInv /\ StepInv
  BY DEF LossInv, TypeInv
<1>2. /\ TreesStay /\ pc = "verify" /\ pc' = (IF Current.replace THEN "replace" ELSE "mutate")
      /\ DestinationVerified(Current)
      /\ UNCHANGED <<local, request, requests, previous, baseline, seenLocal, seenRemote, plan, step, fetched, lost>>
  BY DEF VerifyDestination, Goto, TreesStay, bounds, disk
<1>3. TreesInv' /\ SeenInv' /\ IsAgreed(previous)' /\ RequestInv' /\ PlanInv'
  BY <1>1, <1>2, MovedKeeps
<1>4. RecordsInv'
  BY <1>1, <1>2 DEF RecordsInv
<1>5. StepInv'
  BY <1>1, <1>2 DEF StepInv, InAction, Current
<1>6. ASSUME prefer = "", Current.target = "local", ~DestroysDirectory(Current)
      PROVE  FindsVerified(Current)
  <2> DEFINE a == Current
  <2>0. /\ IsAction(a) /\ Guarded(a) /\ IsTree(local)
        /\ DestinationVerified(a) /\ a.target = "local" /\ ~DestroysDirectory(a)
    BY <1>1, <1>2, <1>6, CurrentIsAction DEF InAction, StepTyped, TreesInv
  <2> HIDE DEF a
  <2>1. a.destination.type \in {"", "file", "directory"}
    BY <2>0 DEF IsAction, Entries, Kinds
  <2>2. ASSUME NEW p \in DOMAIN local, NEW expected, LocalIs(p, expected)
        PROVE  /\ Present(expected) /\ expected.type = local[p].type
               /\ expected.type = "file" /\ expected.checksum # 0 => expected.checksum = local[p].content
    BY <2>0, <2>2, LocalIsMeans
  <2>3. AtStake(a) /\ a.path \in DOMAIN local =>
          local[a.path].type = "file" /\ local[a.path].content = RecordAt(previous, a.path).source.checksum
    <3> SUFFICES ASSUME AtStake(a), a.path \in DOMAIN local
                 PROVE  /\ local[a.path].type = "file"
                        /\ local[a.path].content = RecordAt(previous, a.path).source.checksum
      OBVIOUS
    <3>1. a.kind \in {"delete", "transfer", "create-directory"}
      BY <2>0 DEF Guarded, AtStake
    <3>2. LocalIs(a.path, a.destination)
      BY <2>0, <3>1 DEF DestinationVerified, SideIs
    <3>3. Present(a.destination) /\ a.destination.type = local[a.path].type
      BY <2>2, <3>2
    <3>4. a.destination.type = "file"
      BY <2>0, <2>1, <3>1, <3>3 DEF Guarded, AtStake, DestroysDirectory, ActionType, Present
    <3>5. Agreed(a)
      BY <2>0, <3>4 DEF Guarded, AtStake
    <3> QED
      BY <2>2, <3>2, <3>3, <3>4, <3>5 DEF Agreed
  <2>4. a.kind = "move" => a.path \notin DOMAIN local /\ TypeAt(local, a.from) = "file"
    <3> SUFFICES ASSUME a.kind = "move" PROVE a.path \notin DOMAIN local /\ TypeAt(local, a.from) = "file"
      OBVIOUS
    <3>1. LocalIs(a.from, a.destination) /\ LocalIs(a.path, NoEntry) /\ a.destination.type = "file"
      BY <2>0 DEF DestinationVerified, SideIs, Guarded
    <3>2. a.path \notin DOMAIN local
      BY <2>2, <3>1, NoEntryIsEntry
    <3>3. a.from \in DOMAIN local
      BY <3>1, NoEntryIsEntry DEF LocalIs, EntriesMatch, Present
    <3>4. local[a.from].type = "file"
      BY <2>2, <3>1, <3>3
    <3> QED
      BY <3>2, <3>3, <3>4 DEF TypeAt
  <2> QED
    BY <2>3, <2>4 DEF FindsVerified, a
<1>7. Verified'
  <2>1. /\ Current' = Current /\ prefer' = prefer /\ local' = local /\ previous' = previous
        /\ pc' # "commit"
    BY <1>2 DEF Current, prefer
  <2> QED
    BY <1>6, <2>1 DEF Verified, FindsVerified, AtStake, DestroysDirectory, ActionType, RecordAt, HasRecord, TypeAt
<1>8. prefer' = "" => LossOnlyUnguarded'
  BY <1>2 DEF LossInv, prefer, LossOnlyUnguarded
<1> QED
  BY <1>3, <1>4, <1>5, <1>7, <1>8 DEF LossInv, TypeInv

\* Between the steps of a mutation nothing but the trees changes.
MutationFrame ==
  /\ TreesMove
  /\ UNCHANGED <<request, requests, previous, baseline, seenLocal, seenRemote, plan, step>>

LEMMA RemoveReplacedInv == ASSUME LossInv, RemoveReplaced PROVE LossInv'
<1>1. TypeInv /\ TreesInv /\ RecordsInv /\ StepInv
  BY DEF LossInv, TypeInv
<1>2. /\ pc = "replace" /\ pc' = "mutate"
      /\ UNCHANGED <<request, requests, previous, baseline, seenLocal, seenRemote, plan, step, raced>>
  BY DEF RemoveReplaced, Goto, disk, bounds
<1>3. TreesMove
  BY <1>1, CurrentIsAction, RemoveReplacedMoves
<1>4. TreesInv' /\ SeenInv' /\ IsAgreed(previous)' /\ RequestInv' /\ PlanInv' /\ RecordsInv'
  BY <1>1, <1>2, <1>3, MovedKeeps DEF RecordsInv
<1>5. StepInv'
  BY <1>1, <1>2 DEF StepInv, InAction, Current
<1>6. Verified'
  <2>1. Current' = Current /\ prefer' = prefer /\ previous' = previous /\ pc' # "commit"
    BY <1>2 DEF Current, prefer
  <2>2. prefer = "" => Current.kind # "move"
    BY <1>1, <1>2, CurrentIsAction DEF StepInv, InAction, Guarded
  <2>3. Current.target = "local" => Current.path \notin DOMAIN local'
    BY DEF RemoveReplaced, Mutate, Without
  <2> QED
    BY <2>1, <2>2, <2>3 DEF Verified, AtStake
<1>7. prefer' = "" => LossOnlyUnguarded'
  BY <1>2, RemoveReplacedLoses DEF prefer
<1> QED
  BY <1>4, <1>5, <1>6, <1>7 DEF LossInv, TypeInv

LEMMA ApplyInv == ASSUME LossInv, Apply PROVE LossInv'
<1>1. TypeInv /\ TreesInv /\ RecordsInv /\ StepInv
  BY DEF LossInv, TypeInv
<1>2. /\ pc = "mutate" /\ pc' = "record"
      /\ UNCHANGED <<request, requests, previous, baseline, seenLocal, seenRemote, plan, step, raced>>
  BY DEF Apply, Goto, disk, bounds
<1>3. TreesMove
  BY <1>1, CurrentIsAction, ApplyMoves
<1>4. TreesInv' /\ SeenInv' /\ IsAgreed(previous)' /\ RequestInv' /\ PlanInv' /\ RecordsInv'
  BY <1>1, <1>2, <1>3, MovedKeeps DEF RecordsInv
<1>5. StepInv' /\ Verified'
  BY <1>1, <1>2 DEF StepInv, InAction, Current, Verified
<1>6. prefer' = "" => LossOnlyUnguarded'
  BY <1>2, ApplyLoses DEF prefer
<1> QED
  BY <1>4, <1>5, <1>6 DEF LossInv, TypeInv

LEMMA FetchInv == ASSUME LossInv, Fetch PROVE LossInv'
<1>1. TypeInv /\ TreesInv /\ RecordsInv /\ StepInv /\ StepTyped
  BY CurrentIsAction DEF LossInv, TypeInv
<1>2. /\ pc = "mutate" /\ pc' = "commit" /\ IsDownload(Current) /\ FetchAccepted(Current) /\ IsAction(Current)
      /\ UNCHANGED <<request, requests, previous, baseline, seenLocal, seenRemote, plan, step, raced>>
  BY <1>1 DEF Fetch, disk, bounds, StepTyped, InAction
<1>3. TreesMove /\ fetched'.target \in Paths \ {Root} /\ fetched'.content \in Names
  BY <1>1, FetchMoves
<1>4. TreesInv' /\ SeenInv' /\ IsAgreed(previous)' /\ RequestInv' /\ PlanInv' /\ RecordsInv'
  BY <1>1, <1>2, <1>3, MovedKeeps DEF RecordsInv
<1>5. StepInv'
  BY <1>1, <1>2, <1>3 DEF StepInv, InAction, Current, IsDownload
<1>6. Verified'
  <2>1. Current' = Current /\ prefer' = prefer /\ previous' = previous
    BY <1>2 DEF Current, prefer
  <2> SUFFICES ASSUME prefer = "", ~raced, ~DestroysDirectory(Current)
               PROVE  /\ AtStake(Current) /\ Current.path \in DOMAIN local' =>
                           /\ local'[Current.path].type = "file"
                           /\ local'[Current.path].content = RecordAt(previous, Current.path).source.checksum
                      /\ Current.kind # "move"
                      /\ fetched'.target = Current.path
    BY <1>2, <2>1 DEF Verified, AtStake, DestroysDirectory, ActionType, RecordAt, HasRecord
  <2>2. /\ AtStake(Current) /\ Current.kind # "move" /\ Current.target = "local"
    BY <1>2 DEF IsDownload, AtStake
  <2>3. FindsVerified(Current)
    BY <1>2, <2>2, LocallyVerified
  <2>4. TypeAt(local, Current.path) # "directory"
    BY <2>2, <2>3 DEF FindsVerified, TypeAt
  <2>5. /\ fetched'.target = Current.path
        /\ Current.path \in DOMAIN local' => Current.path \in DOMAIN local /\ local'[Current.path] = local[Current.path]
    BY <1>1, <2>4, FetchKeepsTarget
  <2> QED
    BY <2>2, <2>3, <2>5 DEF FindsVerified
<1>7. prefer' = "" => LossOnlyUnguarded'
  BY <1>2, FetchLoses DEF prefer, LossInv
<1> QED
  BY <1>4, <1>5, <1>6, <1>7 DEF LossInv, TypeInv

LEMMA CommitInv == ASSUME LossInv, Commit PROVE LossInv'
<1>1. TypeInv /\ TreesInv /\ RecordsInv /\ StepInv
  BY DEF LossInv, TypeInv
<1>2. /\ pc = "commit" /\ pc' = "record"
      /\ UNCHANGED <<request, requests, previous, baseline, seenLocal, seenRemote, plan, step, raced>>
  BY DEF Commit, Goto, disk, bounds
<1>3. TreesMove
  BY <1>1, CurrentIsAction, CommitMoves
<1>4. TreesInv' /\ SeenInv' /\ IsAgreed(previous)' /\ RequestInv' /\ PlanInv' /\ RecordsInv'
  BY <1>1, <1>2, <1>3, MovedKeeps DEF RecordsInv
<1>5. StepInv' /\ Verified'
  BY <1>1, <1>2 DEF StepInv, InAction, Current, Verified
<1>6. prefer' = "" => LossOnlyUnguarded'
  BY <1>2, CommitLoses DEF prefer
<1> QED
  BY <1>4, <1>5, <1>6 DEF LossInv, TypeInv

LEMMA CrashInv ==
  ASSUME LossInv, CrashDuringUpload \/ CrashDuringCopy \/ CrashDuringRemove
  PROVE  LossInv'
<1>1. TypeInv /\ TreesInv /\ RecordsInv /\ StepInv
  BY DEF LossInv, TypeInv
<1>2. /\ pc' = "idle"
      /\ UNCHANGED <<request, requests, previous, baseline, seenLocal, seenRemote, plan, step, raced>>
  BY DEF CrashDuringUpload, CrashDuringCopy, CrashDuringRemove, End, disk
<1>3. TreesMove
  BY <1>1, CurrentIsAction, CrashDuringUploadMoves, CrashDuringCopyMoves, CrashDuringRemoveMoves
<1>4. TreesInv' /\ SeenInv' /\ IsAgreed(previous)' /\ RequestInv' /\ PlanInv' /\ RecordsInv'
  BY <1>1, <1>2, <1>3, MovedKeeps DEF RecordsInv
<1>5. StepInv' /\ Verified'
  BY <1>1, <1>2 DEF StepInv, InAction, Verified
<1>6. CrashDuringCopy => prefer # ""
  BY <1>1, CurrentIsAction DEF CrashDuringCopy, InAction, Guarded
<1>7. prefer' = "" => LossOnlyUnguarded'
  BY <1>2, <1>6, CrashDuringUploadLoses, CrashDuringRemoveLoses DEF prefer, LossInv
<1> QED
  BY <1>4, <1>5, <1>7 DEF LossInv, TypeInv

\* An edit ends the guard of the current action.
LEMMA EditInv == ASSUME LossInv, EditLocal \/ EditRemote PROVE LossInv'
<1>1. TypeInv /\ TreesInv /\ RecordsInv /\ StepInv
  BY DEF LossInv, TypeInv
<1>2. /\ pc' = pc /\ raced' = TRUE
      /\ UNCHANGED <<request, requests, previous, baseline, plan, step, fetched, lost>>
  BY DEF EditLocal, EditRemote, Edit, disk
<1>3. TreesMove
  BY <1>1, EditMoves
<1>4. TreesInv' /\ SeenInv' /\ IsAgreed(previous)' /\ RequestInv' /\ PlanInv' /\ RecordsInv'
  BY <1>1, <1>2, <1>3, EditSees, MovedKeepsPlan DEF RecordsInv, TypeInv
<1>5. StepInv' /\ Verified'
  BY <1>1, <1>2 DEF StepInv, InAction, Current, Verified, IsDownload
<1>6. prefer' = "" => LossOnlyUnguarded'
  BY <1>2 DEF prefer, LossInv, LossOnlyUnguarded
<1> QED
  BY <1>4, <1>5, <1>6 DEF LossInv, TypeInv

LEMMA NextInv == ASSUME RemoteChecksums PROVE LossInv /\ [Next]_vars => LossInv'
<1> SUFFICES ASSUME LossInv, [Next]_vars PROVE LossInv'
  OBVIOUS
<1>0. StepInv /\ RecordsInv /\ SeenInv
  BY DEF LossInv, TypeInv
<1>1. CASE Start
  BY <1>1, StartInv
<1>2. CASE AcceptPlan
  BY <1>2, AcceptInv
<1>3. CASE RefuseIdentity \/ ReportConflict
  <2>1. Ends
    BY <1>3 DEF RefuseIdentity, ReportConflict, End, Ends, TreesStay, disk, bounds, history
  <2> QED
    BY <2>1, EndsInv
<1>4. CASE DestinationChanged \/ OperationRefused \/ SourceChanged \/ NotConverged \/ RemoveJournal
  <2>1. Ends
    BY <1>4 DEF DestinationChanged, OperationRefused, SourceChanged, NotConverged, RemoveJournal,
                EndWithJournal, End, Ends, TreesStay, bounds, history
  <2> QED
    BY <2>1, EndsInv
<1>5. CASE OperationFails("failed") \/ OperationFails("canceled") \/ Crash
  <2>1. Ends
    BY <1>5 DEF OperationFails, Crash, EndWithJournal, End, Ends, TreesStay, disk
  <2> QED
    BY <2>1, EndsInv
<1>6. CASE RemoveRecovery \/ RemoveState
  <2>1. Ends
    BY <1>6 DEF RemoveRecovery, RemoveState, Ends, TreesStay, run, history
  <2> QED
    BY <2>1, EndsInv
<1>7. CASE Scan \/ PostScanFirst \/ PostScanSecond
  <2>1. pc' \notin InAction
    BY <1>7 DEF Scan, PostScanFirst, PostScanSecond, InAction
  <2>2. seenLocal' \in {seenLocal, LocalScan} /\ seenRemote' \in {seenRemote, RemoteScan}
    BY <1>7 DEF Scan, PostScanFirst, PostScanSecond, ScanSecond
  <2>3. /\ TreesStay
        /\ UNCHANGED <<request, requests, previous, baseline, plan, step, fetched, raced, lost>>
    BY <1>7 DEF Scan, PostScanFirst, PostScanSecond, TreesStay, disk, bounds, history
  <2>4. Looks
    BY <2>1, <2>2, <2>3 DEF Looks
  <2> QED
    BY <2>4, LooksInv
<1>8. CASE SkipAction \/ RecordCompleted
  <2>1. /\ TreesStay /\ pc' = "next" /\ step' = step + 1
        /\ UNCHANGED <<request, requests, previous, baseline, seenLocal, seenRemote, plan, fetched, raced, lost>>
    BY <1>8 DEF SkipAction, RecordCompleted, TreesStay, disk, bounds, history
  <2>2. GoesOn
    BY <1>0, <2>1 DEF GoesOn, InAction, RecordsInv
  <2> QED
    BY <2>2, GoesOnInv
<1>9. CASE BeginAction
  <2>1. /\ TreesStay /\ pc' = "verify" /\ step' = step /\ step <= Len(plan) /\ Current.kind # "skip"
        /\ UNCHANGED <<request, requests, previous, baseline, seenLocal, seenRemote, plan, fetched, raced, lost>>
    BY <1>9 DEF BeginAction, Goto, TreesStay, bounds, history
  <2>2. step \in DOMAIN plan
    <3>1. plan \in Seq(Actions)
      BY DEF LossInv, TypeInv, PlanInv
    <3>2. DOMAIN plan = 1 .. Len(plan) /\ Len(plan) \in Nat
      BY <3>1
    <3> QED
      BY <1>0, <2>1, <3>2 DEF StepInv
  <2>3. GoesOn
    BY <1>0, <2>1, <2>2 DEF GoesOn, RecordsInv
  <2> QED
    BY <2>3, GoesOnInv
<1>10. CASE SaveBaseline
  <2>1. /\ TreesStay /\ pc' = "finish" /\ step' = step
        /\ SnapshotsConverge(Filter(seenLocal), Filter(seenRemote))
        /\ baseline' = NewState(Filter(seenLocal), Filter(seenRemote))
        /\ UNCHANGED <<request, requests, previous, seenLocal, seenRemote, plan, fetched, raced, lost>>
    BY <1>10 DEF SaveBaseline, Goto, TreesStay, bounds, history
  <2>2. IsAgreed(baseline')
    BY <1>0, <2>1, FilterKeeps, NewStateIsAgreed DEF SeenInv
  <2>3. GoesOn
    BY <2>1, <2>2 DEF GoesOn, InAction
  <2> QED
    BY <2>3, GoesOnInv
<1>11. CASE VerifyDestination
  BY <1>11, VerifyInv
<1>12. CASE RemoveReplaced \/ Apply \/ Fetch \/ Commit
  BY <1>12, RemoveReplacedInv, ApplyInv, FetchInv, CommitInv
<1>13. CASE CrashDuringUpload \/ CrashDuringCopy \/ CrashDuringRemove
  BY <1>13, CrashInv
<1>14. CASE EditLocal \/ EditRemote
  BY <1>14, EditInv
<1>15. CASE UNCHANGED vars
  <2>1. UNCHANGED <<local, remote, baseline, run, clock, requests, raced, lost>>
    BY <1>15 DEF vars, disk, bounds, history
  <2>2. TreesInv' /\ SeenInv' /\ RecordsInv' /\ RequestInv' /\ PlanInv'
    BY <2>1 DEF LossInv, TypeInv, TreesInv, SeenInv, RecordsInv, RequestInv, PlanInv, Guarded, Agreed, run, prefer
  <2>3. StepInv' /\ Verified'
    <3>1. /\ pc' = pc /\ step' = step /\ plan' = plan /\ fetched' = fetched /\ local' = local
          /\ raced' = raced /\ previous' = previous /\ request' = request
      BY <2>1 DEF run
    <3>2. StepInv /\ Verified
      BY DEF LossInv, TypeInv
    <3>3. Current' = Current /\ prefer' = prefer
      BY <3>1 DEF Current, prefer
    <3>4. StepInv'
      BY <3>1, <3>2, <3>3 DEF StepInv
    <3>5. Verified'
      BY <3>1, <3>2, <3>3 DEF Verified
    <3> QED
      BY <3>4, <3>5
  <2>4. prefer' = "" => LossOnlyUnguarded'
    BY <2>1 DEF LossInv, LossOnlyUnguarded, run, prefer
  <2> QED
    BY <2>2, <2>3, <2>4 DEF LossInv, TypeInv
<1> QED
  BY <1>1, <1>2, <1>3, <1>4, <1>5, <1>6, <1>7, <1>8, <1>9, <1>10, <1>11, <1>12, <1>13, <1>14, <1>15
  DEF Next, PlanStep, WorkStep, ExecutionStep, Environment, NoMoreRuns

\* Whatever users, other clients and crashes do, and however many runs follow each
\* other: a run that aborts on conflicts destroys a version that the two sides never
\* agreed on only as part of a directory, or in a local file edited after it was
\* verified.
THEOREM LossIsUnguarded ==
  ASSUME RemoteChecksums
  PROVE  Spec => [](prefer = "" => LossOnlyUnguarded)
<1>1. BidirectionalInit => LossInv
  BY InitInv
<1>2. LossInv /\ [Next]_vars => LossInv'
  BY NextInv
<1>3. LossInv => (prefer = "" => LossOnlyUnguarded)
  BY DEF LossInv
<1> QED
  BY <1>1, <1>2, <1>3, PTL DEF Spec
-----------------------------------------------------------------------------
(* Plans and the three-way merge *)

\* With checksums, entries are equal where types and contents are.
LEMMA EqualMeans ==
  ASSUME RemoteChecksums, NEW entry, NEW other, IsEntry(entry), IsEntry(other), Present(entry), Present(other)
  PROVE  Equal(entry, other) <=>
           entry.type = other.type /\ (entry.type = "file" => entry.checksum = other.checksum)
<1>1. entry.type \in {"file", "directory"} /\ other.type \in {"file", "directory"}
  BY DEF IsEntry, Entries, Kinds, Present
<1>2. entry.type = "file" => entry.checksum # 0
  BY DEF IsEntry
<1>3. other.type = "file" => other.checksum # 0
  BY DEF IsEntry
<1> QED
  BY <1>1, <1>2, <1>3 DEF Equal, SameContent

\* Entries that match are nodes that are the same.
LEMMA SeenSame ==
  ASSUME RemoteChecksums, IsSnapshot(Filter(seenLocal)), IsSnapshot(Filter(seenRemote)), NEW p
  PROVE  Merge!Same(SeenTree(seenLocal), SeenTree(seenRemote), p) <=>
           EntriesMatch(EntryAt(Filter(seenLocal), p), EntryAt(Filter(seenRemote), p))
<1> DEFINE l == EntryAt(Filter(seenLocal), p)
           r == EntryAt(Filter(seenRemote), p)
<1>1. /\ IsEntry(l) /\ (Present(l) <=> p \in DOMAIN SeenTree(seenLocal))
      /\ p \in DOMAIN SeenTree(seenLocal) =>
           SeenTree(seenLocal)[p].type = l.type /\ SeenTree(seenLocal)[p].content = l.checksum
  BY EntryAtMeans DEF SeenTree, Filter
<1>2. /\ IsEntry(r) /\ (Present(r) <=> p \in DOMAIN SeenTree(seenRemote))
      /\ p \in DOMAIN SeenTree(seenRemote) =>
           SeenTree(seenRemote)[p].type = r.type /\ SeenTree(seenRemote)[p].content = r.checksum
  BY EntryAtMeans DEF SeenTree, Filter
<1> HIDE DEF l, r
<1>3. Present(l) /\ Present(r) =>
        (Equal(l, r) <=> l.type = r.type /\ (l.type = "file" => l.checksum = r.checksum))
  BY <1>1, <1>2, EqualMeans
<1> QED
  BY <1>1, <1>2, <1>3 DEF Merge!Same, EntriesMatch, l, r

\* An entry that matches its record is the same as the recorded node, and an entry
\* without a record is the same if it is missing.
LEMMA BaseSame ==
  ASSUME RemoteChecksums, NEW seen, IsSnapshot(Filter(seen)), IsAgreed(previous),
         NEW p, NEW side \in {"local", "remote"}
  PROVE  Merge!Same(SeenTree(seen), BaseTree(previous), p) <=>
           MatchesBaseline(EntryAt(Filter(seen), p), BaselineOf(RecordAt(previous, p), side))
<1> DEFINE entry == EntryAt(Filter(seen), p)
           recorded == BaselineOf(RecordAt(previous, p), side)
           base == BaseTree(previous)
<1>1. /\ IsEntry(entry) /\ (Present(entry) <=> p \in DOMAIN SeenTree(seen))
      /\ p \in DOMAIN SeenTree(seen) =>
           SeenTree(seen)[p].type = entry.type /\ SeenTree(seen)[p].content = entry.checksum
  BY EntryAtMeans DEF SeenTree, Filter
<1>2. /\ IsEntry(recorded) /\ (Present(recorded) <=> p \in DOMAIN base)
      /\ p \in DOMAIN base => base[p].type = recorded.type
      /\ p \in DOMAIN base /\ recorded.type = "file" => base[p].content = recorded.checksum
  <2>1. CASE p \in DOMAIN previous.entries
    <3> DEFINE record == previous.entries[p]
    <3>1. IsEntry(record.source) /\ IsEntry(record.destination) /\ Converged(record.source, record.destination)
      BY <2>1 DEF IsAgreed, IsBaseline
    <3>2. RecordAt(previous, p) = record
      BY <2>1 DEF RecordAt, HasRecord, IsAgreed, IsBaseline
    <3>3. p \in DOMAIN base /\ base[p].type = record.source.type /\ base[p].content = record.source.checksum
      BY <2>1 DEF BaseTree
    <3> HIDE DEF record, base
    <3>4. /\ Present(record.source) /\ Present(record.destination)
          /\ record.source.type = record.destination.type
          /\ record.source.type = "file" => record.source.checksum = record.destination.checksum
      <4>1. record.source.type \in {"file", "directory"}
        BY <3>1 DEF IsEntry, Entries, Kinds, Converged, Present
      <4>2. record.source.type = "file" => record.source.checksum # 0 /\ record.destination.checksum # 0
        BY <3>1 DEF IsEntry, Converged
      <4> QED
        BY <3>1, <4>1, <4>2 DEF Converged, SameContent
    <3> QED
      BY <3>1, <3>2, <3>3, <3>4 DEF BaselineOf
  <2>2. CASE p \notin DOMAIN previous.entries
    <3>1. recorded = NoEntry
      BY <2>2 DEF RecordAt, HasRecord, NoRecord, BaselineOf
    <3>2. p \notin DOMAIN base
      BY <2>2 DEF BaseTree
    <3> QED
      BY <3>1, <3>2, NoEntryIsEntry
  <2> QED
    BY <2>1, <2>2
<1> HIDE DEF entry, recorded, base
<1>3. Present(entry) /\ Present(recorded) =>
        (Equal(entry, recorded) <=>
           entry.type = recorded.type /\ (entry.type = "file" => entry.checksum = recorded.checksum))
  BY <1>1, <1>2, EqualMeans
<1> QED
  BY <1>1, <1>2, <1>3 DEF Merge!Same, MatchesBaseline, entry, recorded, base

\* Being the same is transitive.
LEMMA SameChains ==
  ASSUME NEW left, NEW right, NEW base, NEW p, Merge!Same(left, base, p), Merge!Same(right, base, p)
  PROVE  Merge!Same(left, right, p)
  BY DEF Merge!Same

\* What the planner makes of a path: nothing where the two sides are the same, a
\* conflict where they clash, and otherwise it carries the change to the other side.
LEMMA PathMeans ==
  ASSUME RemoteChecksums, IsSnapshot(Filter(seenLocal)), IsSnapshot(Filter(seenRemote)),
         IsAgreed(previous), NEW p, p # Root
  PROVE  LET onLocal == EntryAt(Filter(seenLocal), p)
             onRemote == EntryAt(Filter(seenRemote), p)
             a == PlanBidirectionalPath(p, onLocal, onRemote, previous)
             agree == Merge!Same(SeenTree(seenLocal), SeenTree(seenRemote), p)
             localKept == Merge!Same(SeenTree(seenLocal), BaseTree(previous), p)
             remoteKept == Merge!Same(SeenTree(seenRemote), BaseTree(previous), p)
         IN  /\ agree => a = Action("skip", p, "", onLocal, onRemote, FALSE)
             /\ ~agree /\ ~localKept /\ ~remoteKept => a = Action("conflict", p, "", onLocal, onRemote, FALSE)
             /\ ~agree /\ ~localKept /\ remoteKept => a = Propagate(p, "local", onLocal, onRemote)
             /\ ~agree /\ localKept => ~remoteKept /\ a = Propagate(p, "remote", onRemote, onLocal)
<1> DEFINE onLocal == EntryAt(Filter(seenLocal), p)
           onRemote == EntryAt(Filter(seenRemote), p)
           known == HasRecord(previous, p)
           record == RecordAt(previous, p)
           localChanged == IF known THEN ~MatchesBaseline(onLocal, record.source) ELSE Present(onLocal)
           remoteChanged == IF known THEN ~MatchesBaseline(onRemote, record.destination) ELSE Present(onRemote)
           a == PlanBidirectionalPath(p, onLocal, onRemote, previous)
           agree == Merge!Same(SeenTree(seenLocal), SeenTree(seenRemote), p)
           localKept == Merge!Same(SeenTree(seenLocal), BaseTree(previous), p)
           remoteKept == Merge!Same(SeenTree(seenRemote), BaseTree(previous), p)
<1>1. agree <=> EntriesMatch(onLocal, onRemote)
  BY SeenSame
<1>2. /\ localKept <=> MatchesBaseline(onLocal, BaselineOf(record, "local"))
      /\ remoteKept <=> MatchesBaseline(onRemote, BaselineOf(record, "remote"))
  BY BaseSame
<1>3. BaselineOf(record, "local") = record.source /\ BaselineOf(record, "remote") = record.destination
  BY DEF BaselineOf
<1>4. ~known => record.source = NoEntry /\ record.destination = NoEntry
  BY DEF RecordAt, NoRecord
<1>5. localKept /\ remoteKept => agree
  BY SameChains
<1> HIDE DEF known, record, agree, localKept, remoteKept
<1>6. (localChanged <=> ~localKept) /\ (remoteChanged <=> ~remoteKept)
  BY <1>2, <1>3, <1>4, NoEntryIsEntry DEF MatchesBaseline
<1>7. localChanged \in BOOLEAN /\ remoteChanged \in BOOLEAN
  BY DEF MatchesBaseline, Present
<1>8. agree => a = Action("skip", p, "", onLocal, onRemote, FALSE)
  BY <1>1 DEF PlanBidirectionalPath
<1>9. ~agree =>
        a = IF localChanged = remoteChanged THEN Action("conflict", p, "", onLocal, onRemote, FALSE)
            ELSE IF localChanged THEN Propagate(p, "local", onLocal, onRemote)
            ELSE Propagate(p, "remote", onRemote, onLocal)
  BY <1>1 DEF PlanBidirectionalPath, known, record
<1> HIDE DEF a, localChanged, remoteChanged
<1>10. (localChanged = remoteChanged) <=> (localKept <=> remoteKept)
  BY <1>6, <1>7
<1> QED
  BY <1>5, <1>6, <1>8, <1>9, <1>10 DEF a, onLocal, onRemote, agree, localKept, remoteKept

LEMMA PropagateMeans ==
  ASSUME NEW p, NEW source, IsEntry(source), NEW destination, IsEntry(destination),
         NEW side \in {"local", "remote"}
  PROVE  LET a == Propagate(p, side, source, destination)
         IN  /\ a.kind \in {"delete", "create-directory", "transfer"} /\ a.target = Opposite(side)
             /\ DestroysDirectory(a) <=> destination.type = "directory" /\ source.type # "directory"
<1> DEFINE a == Propagate(p, side, source, destination)
<1>1. source.type \in {"", "file", "directory"} /\ destination.type \in {"", "file", "directory"}
  BY DEF IsEntry, Entries, Kinds
<1>2. CASE ~Present(source)
  <2>1. a = Action("delete", p, Opposite(side), source, destination, FALSE)
    BY <1>2 DEF Propagate
  <2>2. /\ a.kind = "delete" /\ a.target = Opposite(side) /\ ~a.replace
        /\ a.source = source /\ a.destination = destination
    BY <2>1 DEF Action
  <2> HIDE DEF a
  <2>3. DestroysDirectory(a) <=> destination.type = "directory"
    BY <1>2, <2>2 DEF DestroysDirectory, ActionType
  <2> QED
    BY <1>2, <2>2, <2>3 DEF a, Present
<1>3. CASE Present(source)
  <2> DEFINE replace == Present(destination) /\ source.type # destination.type
  <2>1. a = Action(CopyKind(source), p, Opposite(side), source, destination, replace)
    BY <1>3 DEF Propagate
  <2>2. /\ a.kind = CopyKind(source) /\ a.target = Opposite(side) /\ a.replace = replace
        /\ a.source = source /\ a.destination = destination
    BY <2>1 DEF Action
  <2> HIDE DEF a
  <2>3. a.kind \in {"create-directory", "transfer"}
    BY <2>2 DEF CopyKind
  <2>4. DestroysDirectory(a) <=> replace /\ destination.type = "directory"
    BY <2>2, <2>3 DEF DestroysDirectory
  <2> QED
    BY <2>2, <2>3, <2>4 DEF a, Present
<1> QED
  BY <1>2, <1>3

LEMMA MergedMeans ==
  ASSUME NEW onLocal, NEW onRemote, NEW base, NEW p, p # Root
  PROVE  LET merged == Merge!Merged(onLocal, onRemote, base)
             survivor == IF Merge!Same(onLocal, base, p) THEN onRemote ELSE onLocal
         IN  /\ p \in DOMAIN merged <=> p \in DOMAIN survivor
             /\ p \in DOMAIN merged => merged[p] = survivor[p]
  BY DEF Merge!Merged, Merge!SurvivorAt, Root

\* The types of what was seen.
LEMMA SeenType ==
  ASSUME NEW seen, IsSnapshot(Filter(seen)), NEW p
  PROVE  p \in DOMAIN SeenTree(seen) /\ SeenTree(seen)[p].type = "directory" <=>
           EntryAt(Filter(seen), p).type = "directory"
<1>1. Present(EntryAt(Filter(seen), p)) <=> p \in DOMAIN Filter(seen)
  BY EntryAtMeans
<1> QED
  BY <1>1 DEF SeenTree, EntryAt, Present, Filter

\* A conflict of one path is a clash.
LEMMA PathConflicts ==
  ASSUME RemoteChecksums, IsSnapshot(Filter(seenLocal)), IsSnapshot(Filter(seenRemote)),
         IsAgreed(previous), NEW p, p # Root
  PROVE  PlanBidirectionalPath(p, EntryAt(Filter(seenLocal), p), EntryAt(Filter(seenRemote), p),
                               previous).kind = "conflict"
           <=> Merge!ClashesAt(SeenTree(seenLocal), SeenTree(seenRemote), BaseTree(previous), p)
<1> DEFINE onLocal == EntryAt(Filter(seenLocal), p)
           onRemote == EntryAt(Filter(seenRemote), p)
           a == PlanBidirectionalPath(p, onLocal, onRemote, previous)
           agree == Merge!Same(SeenTree(seenLocal), SeenTree(seenRemote), p)
           localKept == Merge!Same(SeenTree(seenLocal), BaseTree(previous), p)
           remoteKept == Merge!Same(SeenTree(seenRemote), BaseTree(previous), p)
<1>1. /\ agree => a = Action("skip", p, "", onLocal, onRemote, FALSE)
      /\ ~agree /\ ~localKept /\ ~remoteKept => a = Action("conflict", p, "", onLocal, onRemote, FALSE)
      /\ ~agree /\ ~localKept /\ remoteKept => a = Propagate(p, "local", onLocal, onRemote)
      /\ ~agree /\ localKept => ~remoteKept /\ a = Propagate(p, "remote", onRemote, onLocal)
  BY PathMeans
<1>2. IsEntry(onLocal) /\ IsEntry(onRemote)
  BY EntryAtMeans
<1>3. Merge!ClashesAt(SeenTree(seenLocal), SeenTree(seenRemote), BaseTree(previous), p)
        <=> ~agree /\ ~localKept /\ ~remoteKept
  BY DEF Merge!ClashesAt
<1> HIDE DEF onLocal, onRemote, a, agree, localKept, remoteKept
<1>4. /\ Action("skip", p, "", onLocal, onRemote, FALSE).kind = "skip"
      /\ Action("conflict", p, "", onLocal, onRemote, FALSE).kind = "conflict"
  BY DEF Action
<1>5. /\ Propagate(p, "local", onLocal, onRemote).kind # "conflict"
      /\ Propagate(p, "remote", onRemote, onLocal).kind # "conflict"
  BY <1>2, PropagateMeans
<1> QED
  BY <1>1, <1>3, <1>4, <1>5 DEF a, onLocal, onRemote

\* Where nothing clashes, the planner removes the directories that the merge has not.
LEMMA PathDestroys ==
  ASSUME RemoteChecksums, IsSnapshot(Filter(seenLocal)), IsSnapshot(Filter(seenRemote)),
         IsAgreed(previous), NEW p, p # Root,
         ~Merge!ClashesAt(SeenTree(seenLocal), SeenTree(seenRemote), BaseTree(previous), p)
  PROVE  LET a == PlanBidirectionalPath(p, EntryAt(Filter(seenLocal), p), EntryAt(Filter(seenRemote), p),
                                        previous)
             merged == Merge!Merged(SeenTree(seenLocal), SeenTree(seenRemote), BaseTree(previous))
         IN  /\ DestroysDirectory(a) /\ a.target = "local"
                  <=> Merge!RemovesDirectory(SeenTree(seenLocal), merged, p)
             /\ DestroysDirectory(a) /\ a.target = "remote"
                  <=> Merge!RemovesDirectory(SeenTree(seenRemote), merged, p)
             /\ DestroysDirectory(a) => a.target \in {"local", "remote"}
<1> DEFINE onLocal == EntryAt(Filter(seenLocal), p)
           onRemote == EntryAt(Filter(seenRemote), p)
           a == PlanBidirectionalPath(p, onLocal, onRemote, previous)
           left == SeenTree(seenLocal)
           right == SeenTree(seenRemote)
           base == BaseTree(previous)
           merged == Merge!Merged(left, right, base)
           agree == Merge!Same(left, right, p)
           localKept == Merge!Same(left, base, p)
           remoteKept == Merge!Same(right, base, p)
<1>1. /\ agree => a = Action("skip", p, "", onLocal, onRemote, FALSE)
      /\ ~agree /\ ~localKept /\ remoteKept => a = Propagate(p, "local", onLocal, onRemote)
      /\ ~agree /\ localKept => ~remoteKept /\ a = Propagate(p, "remote", onRemote, onLocal)
      /\ ~agree /\ ~localKept => remoteKept
  BY PathMeans DEF Merge!ClashesAt
<1>2. IsEntry(onLocal) /\ IsEntry(onRemote)
  BY EntryAtMeans
<1>3. /\ p \in DOMAIN left /\ left[p].type = "directory" <=> onLocal.type = "directory"
      /\ p \in DOMAIN right /\ right[p].type = "directory" <=> onRemote.type = "directory"
  BY SeenType
<1>4. /\ localKept => (p \in DOMAIN merged <=> p \in DOMAIN right) /\ (p \in DOMAIN merged => merged[p] = right[p])
      /\ ~localKept => (p \in DOMAIN merged <=> p \in DOMAIN left) /\ (p \in DOMAIN merged => merged[p] = left[p])
  BY MergedMeans
<1>5. agree => (onLocal.type = "directory" <=> onRemote.type = "directory")
  BY <1>3 DEF Merge!Same
<1> HIDE DEF onLocal, onRemote, a, left, right, base, merged, agree, localKept, remoteKept
<1>6. /\ Merge!RemovesDirectory(left, merged, p) <=>
           localKept /\ onLocal.type = "directory" /\ onRemote.type # "directory"
      /\ Merge!RemovesDirectory(right, merged, p) <=>
           ~localKept /\ onRemote.type = "directory" /\ onLocal.type # "directory"
  BY <1>3, <1>4 DEF Merge!RemovesDirectory
<1>7. CASE agree
  <2> DEFINE skip == Action("skip", p, "", onLocal, onRemote, FALSE)
  <2>0. skip.kind = "skip" /\ ~skip.replace
    BY DEF Action
  <2> HIDE DEF skip
  <2>9. a = skip
    BY <1>1, <1>7 DEF skip
  <2>1. ~DestroysDirectory(a)
    BY <2>0, <2>9 DEF DestroysDirectory
  <2> QED
    BY <1>5, <1>6, <1>7, <2>1 DEF a, onLocal, onRemote, left, right, base, merged
<1>8. CASE ~agree /\ ~localKept
  <2>0. a = Propagate(p, "local", onLocal, onRemote)
    BY <1>1, <1>8
  <2>1. /\ a.target = Opposite("local")
        /\ DestroysDirectory(a) <=> onRemote.type = "directory" /\ onLocal.type # "directory"
    BY <1>2, <2>0, PropagateMeans
  <2>2. a.target = "remote"
    BY <2>1 DEF Opposite
  <2> QED
    BY <1>6, <1>8, <2>1, <2>2 DEF a, onLocal, onRemote, left, right, base, merged
<1>9. CASE ~agree /\ localKept
  <2>0. a = Propagate(p, "remote", onRemote, onLocal)
    BY <1>1, <1>9
  <2>1. /\ a.target = Opposite("remote")
        /\ DestroysDirectory(a) <=> onLocal.type = "directory" /\ onRemote.type # "directory"
    BY <1>2, <2>0, PropagateMeans
  <2>2. a.target = "local"
    BY <2>1 DEF Opposite
  <2> QED
    BY <1>6, <1>9, <2>1, <2>2 DEF a, onLocal, onRemote, left, right, base, merged
<1> QED
  BY <1>7, <1>8, <1>9

LEMMA RootMeans ==
  ASSUME IsSnapshot(Filter(seenLocal)), IsSnapshot(Filter(seenRemote)),
         RootsUsable(seenLocal, seenRemote),
         Root \in DOMAIN Filter(seenLocal) \cup DOMAIN Filter(seenRemote)
  PROVE  LET a == PlanBidirectionalPath(Root, EntryAt(Filter(seenLocal), Root),
                                        EntryAt(Filter(seenRemote), Root), previous)
         IN  a.kind # "conflict" /\ ~DestroysDirectory(a)
<1> DEFINE onLocal == EntryAt(Filter(seenLocal), Root)
           onRemote == EntryAt(Filter(seenRemote), Root)
           a == PlanBidirectionalPath(Root, onLocal, onRemote, previous)
<1>1. /\ Root \in DOMAIN Filter(seenLocal) => onLocal.type = "directory"
      /\ Root \in DOMAIN Filter(seenRemote) => onRemote.type = "directory"
  BY EntryAtMeans DEF RootsUsable, Filter
<1>2. /\ Present(onLocal) <=> Root \in DOMAIN Filter(seenLocal)
      /\ Present(onRemote) <=> Root \in DOMAIN Filter(seenRemote)
  BY EntryAtMeans
<1>3. a = PlanBidirectionalRoot(onLocal, onRemote)
  BY DEF PlanBidirectionalPath
<1> HIDE DEF onLocal, onRemote, a
<1>4. \/ a = Action("skip", Root, "", onLocal, onRemote, FALSE)
      \/ a = Action("create-directory", Root, "remote", onLocal, onRemote, FALSE)
      \/ a = Action("create-directory", Root, "local", onRemote, onLocal, FALSE)
  <2>1. CASE Present(onLocal) /\ Present(onRemote)
    BY <1>1, <1>2, <1>3, <2>1 DEF PlanBidirectionalRoot
  <2>2. CASE Present(onLocal) /\ ~Present(onRemote)
    BY <1>3, <2>2 DEF PlanBidirectionalRoot
  <2>3. CASE ~Present(onLocal) /\ Present(onRemote)
    BY <1>3, <2>3 DEF PlanBidirectionalRoot
  <2> QED
    BY <1>2, <2>1, <2>2, <2>3
<1>5. \A kind \in {"skip", "create-directory"} : \A target, entry, other :
        LET b == Action(kind, Root, target, entry, other, FALSE)
        IN  b.kind # "conflict" /\ b.kind # "delete" /\ ~b.replace
  BY DEF Action
<1>6. a.kind # "conflict" /\ a.kind # "delete" /\ ~a.replace
  BY <1>4, <1>5
<1>7. ~DestroysDirectory(a)
  BY <1>6 DEF DestroysDirectory
<1> QED
  BY <1>6, <1>7 DEF a, onLocal, onRemote

LEMMA BelowIsDescendant ==
  ASSUME NEW p \in Paths, NEW q \in Paths
  PROVE  IsDescendant(q, p) <=> Merge!IsBelow(q, p)
<1>0. Len(p) \in Nat /\ Len(q) \in Nat
  BY PathFacts
<1>1. IsDescendant(q, p) <=> Len(p) < Len(q) /\ \A i \in 1 .. Len(p) : q[i] = p[i]
  BY BelowMeans
<1>2. ASSUME Len(p) < Len(q)
      PROVE  SubSeq(q, 1, Len(p)) = p <=> \A i \in 1 .. Len(p) : q[i] = p[i]
  <2>1. Len(p) \in 0 .. Len(q)
    BY <1>0, <1>2
  <2>2. /\ SubSeq(q, 1, Len(p)) \in Paths /\ Len(SubSeq(q, 1, Len(p))) = Len(p)
        /\ \A i \in 1 .. Len(p) : SubSeq(q, 1, Len(p))[i] = q[i]
    BY <2>1, Beginning
  <2> QED
    BY <2>2, SamePath
<1> QED
  BY <1>0, <1>1, <1>2 DEF Merge!IsBelow

LEMMA SubtreeMeans ==
  ASSUME RemoteChecksums, NEW seen, IsSnapshot(Filter(seen)), IsAgreed(previous),
         NEW p \in Paths, NEW side \in {"local", "remote"}
  PROVE  SubtreeChanged(p, Filter(seen), previous, side)
           <=> Merge!ChangedBelow(SeenTree(seen), BaseTree(previous), p)
<1>1. DOMAIN SeenTree(seen) = DOMAIN Filter(seen) /\ DOMAIN BaseTree(previous) = DOMAIN previous.entries
  BY DEF SeenTree, BaseTree
<1>2. DOMAIN Filter(seen) \subseteq Paths /\ DOMAIN previous.entries \subseteq Paths
  BY DEF IsSnapshot, IsAgreed, IsBaseline
<1>3. \A q : MatchesBaseline(EntryAt(Filter(seen), q), BaselineOf(RecordAt(previous, q), side))
               <=> Merge!Same(SeenTree(seen), BaseTree(previous), q)
  BY BaseSame
<1>4. \A q \in DOMAIN Filter(seen) \cup DOMAIN previous.entries : IsDescendant(q, p) <=> Merge!IsBelow(q, p)
  BY <1>2, BelowIsDescendant
<1> QED
  BY <1>1, <1>3, <1>4 DEF SubtreeChanged, Merge!ChangedBelow

\* Without a baseline a removal of one side cannot be told from an addition of the
\* other, so a merge without clashes removes nothing.
LEMMA WithoutBase ==
  ASSUME NEW onLocal, NEW onRemote, NEW base, DOMAIN base = {}, NEW p, p # Root,
         ~Merge!ClashesAt(onLocal, onRemote, base, p)
  PROVE  ~Merge!RemovesChangedDirectory(onLocal, onRemote, base, p)
<1> DEFINE merged == Merge!Merged(onLocal, onRemote, base)
<1>1. /\ Merge!Same(onLocal, base, p) <=> p \notin DOMAIN onLocal
      /\ Merge!Same(onRemote, base, p) <=> p \notin DOMAIN onRemote
  BY DEF Merge!Same
<1>2. /\ p \notin DOMAIN onLocal => (p \in DOMAIN merged <=> p \in DOMAIN onRemote) /\ (p \in DOMAIN merged => merged[p] = onRemote[p])
      /\ p \in DOMAIN onLocal => (p \in DOMAIN merged <=> p \in DOMAIN onLocal) /\ (p \in DOMAIN merged => merged[p] = onLocal[p])
  BY <1>1, MergedMeans
<1>3. p \in DOMAIN onLocal /\ p \in DOMAIN onRemote => onLocal[p].type = onRemote[p].type
  BY <1>1 DEF Merge!ClashesAt, Merge!Same
<1> HIDE DEF merged
<1>4. ~Merge!RemovesDirectory(onLocal, merged, p) /\ ~Merge!RemovesDirectory(onRemote, merged, p)
  BY <1>2, <1>3 DEF Merge!RemovesDirectory
<1> QED
  BY <1>4 DEF Merge!RemovesChangedDirectory, merged

\* Protecting changed subtrees adds a conflict for each directory to protect and
\* takes none away.
LEMMA ProtectConflicts ==
  ASSUME NEW actions, \A p \in DOMAIN actions : IsAction(actions[p]),
         NEW onLocal, NEW onRemote, NEW state
  PROVE  LET after == ProtectChangedSubtrees(actions, onLocal, onRemote, state)
         IN  (\E p \in DOMAIN after : after[p].kind = "conflict") <=>
               \E p \in DOMAIN actions :
                 \/ actions[p].kind = "conflict"
                 \/ /\ state.found /\ DestroysDirectory(actions[p])
                    /\ SubtreeChanged(p, IF actions[p].target = "local" THEN onLocal ELSE onRemote,
                                      state, actions[p].target)
<1> DEFINE after == ProtectChangedSubtrees(actions, onLocal, onRemote, state)
           parents == {p \in DOMAIN actions :
                         /\ DestroysDirectory(actions[p])
                         /\ SubtreeChanged(p, IF actions[p].target = "local" THEN onLocal ELSE onRemote,
                                           state, actions[p].target)}
           as(a, kind) == [a EXCEPT !.kind = kind, !.target = "", !.replace = FALSE]
<1>1. CASE ~state.found
  <2>1. after = actions
    BY <1>1 DEF ProtectChangedSubtrees
  <2> HIDE DEF after
  <2> QED
    BY <1>1, <2>1 DEF after
<1>2. CASE state.found
  <2>1. after = [p \in DOMAIN actions |->
          CASE p \in parents -> as(actions[p], "conflict")
            [] /\ p \notin parents
               /\ actions[p].kind # "conflict"
               /\ \E parent \in parents : IsDescendant(p, parent) -> as(actions[p], "skip")
            [] OTHER -> actions[p]]
    BY <1>2 DEF ProtectChangedSubtrees
  <2>2. \A a : IsAction(a) => as(a, "conflict").kind = "conflict" /\ as(a, "skip").kind = "skip"
    BY DEF IsAction
  <2>3. \A p \in DOMAIN actions : p \in parents <=>
          /\ DestroysDirectory(actions[p])
          /\ SubtreeChanged(p, IF actions[p].target = "local" THEN onLocal ELSE onRemote,
                            state, actions[p].target)
    OBVIOUS
  <2> HIDE DEF parents, as, after
  <2>4. ASSUME NEW p \in DOMAIN actions
        PROVE  after[p].kind = "conflict" <=> p \in parents \/ actions[p].kind = "conflict"
    <3>1. CASE p \in parents
      <4>1. after[p] = as(actions[p], "conflict")
        BY <2>1, <3>1
      <4> QED
        BY <2>2, <3>1, <4>1
    <3>2. CASE p \notin parents /\ actions[p].kind = "conflict"
      <4>1. after[p] = actions[p]
        BY <2>1, <3>2
      <4> QED
        BY <3>2, <4>1
    <3>3. CASE p \notin parents /\ actions[p].kind # "conflict"
      <4>1. after[p] \in {as(actions[p], "skip"), actions[p]}
        BY <2>1, <3>3
      <4> QED
        BY <2>2, <3>3, <4>1
    <3> QED
      BY <3>1, <3>2, <3>3
  <2>5. DOMAIN after = DOMAIN actions
    BY <2>1
  <2> QED
    BY <1>2, <2>3, <2>4, <2>5 DEF after
<1> QED
  BY <1>1, <1>2

\* Moves take the place of deletions and transfers.
LEMMA MovesConflict ==
  ASSUME NEW actions, \A p \in DOMAIN actions : IsAction(actions[p]), NEW state
  PROVE  LET after == DetectMoves(actions, state)
         IN  /\ DOMAIN after = DOMAIN actions
             /\ \A p \in DOMAIN actions :
                  /\ after[p].kind = "conflict" <=> actions[p].kind = "conflict"
                  /\ after[p].path = actions[p].path
<1> DEFINE after == DetectMoves(actions, state)
           moves == DetectedMoves(actions, state)
           from(p) == CHOOSE q \in DOMAIN actions : <<q, p>> \in moves
<1>1. \A m \in moves : actions[m[1]].kind = "delete" /\ actions[m[2]].kind = "transfer"
  BY DEF DetectedMoves
<1> HIDE DEF moves
<1>2. after = [p \in DOMAIN actions |->
        CASE \E m \in moves : m[2] = p ->
               [actions[p] EXCEPT !.kind = "move", !.from = from(p),
                                  !.destination = actions[from(p)].destination]
          [] \E m \in moves : m[1] = p -> [actions[p] EXCEPT !.kind = "skip", !.target = ""]
          [] OTHER -> actions[p]]
  BY DEF DetectMoves, moves
<1>3. DOMAIN after = DOMAIN actions
  BY <1>2
<1> HIDE DEF after
<1>4. ASSUME NEW p \in DOMAIN actions
      PROVE  /\ after[p].kind = "conflict" <=> actions[p].kind = "conflict"
             /\ after[p].path = actions[p].path
  <2>1. CASE \E m \in moves : m[2] = p
    <3>1. actions[p].kind = "transfer" /\ ~ \E m \in moves : m[1] = p
      BY <1>1, <2>1
    <3>2. after[p] = [actions[p] EXCEPT !.kind = "move", !.from = from(p),
                                        !.destination = actions[from(p)].destination]
      BY <1>2, <2>1, <3>1
    <3> HIDE DEF from
    <3>3. after[p].kind = "move" /\ after[p].path = actions[p].path
      BY <3>2 DEF IsAction
    <3> QED
      BY <3>1, <3>3
  <2>2. CASE ~(\E m \in moves : m[2] = p) /\ \E m \in moves : m[1] = p
    <3>1. actions[p].kind = "delete"
      BY <1>1, <2>2
    <3>2. after[p] = [actions[p] EXCEPT !.kind = "skip", !.target = ""]
      BY <1>2, <2>2
    <3>3. after[p].kind = "skip" /\ after[p].path = actions[p].path
      BY <3>2 DEF IsAction
    <3> QED
      BY <3>1, <3>3
  <2>3. CASE ~(\E m \in moves : m[2] = p) /\ ~ \E m \in moves : m[1] = p
    BY <1>2, <2>3
  <2> QED
    BY <2>1, <2>2, <2>3
<1> QED
  BY <1>3, <1>4 DEF after

\* The planner stops exactly where no merge exists.
LEMMA ConflictMeans ==
  ASSUME RemoteChecksums, IsSnapshot(seenLocal), IsSnapshot(seenRemote), IsAgreed(previous),
         RootsUsable(seenLocal, seenRemote),
         Root \in DOMAIN Filter(seenLocal) \cup DOMAIN Filter(seenRemote)
  PROVE  HasConflict(OriginalPlan) <=> SeenUnmergeable
<1> DEFINE onLocal == Filter(seenLocal)
           onRemote == Filter(seenRemote)
           paths == DOMAIN onLocal \cup DOMAIN onRemote \cup DOMAIN previous.entries
           planned == [p \in paths |->
             PlanBidirectionalPath(p, EntryAt(onLocal, p), EntryAt(onRemote, p), previous)]
           protected == ProtectChangedSubtrees(planned, onLocal, onRemote, previous)
           detected == DetectMoves(protected, previous)
           left == SeenTree(seenLocal)
           right == SeenTree(seenRemote)
           base == BaseTree(previous)
           merged == Merge!Merged(left, right, base)
           clash(p) == Merge!ClashesAt(left, right, base, p)
           guarded(p) ==
             /\ previous.found /\ DestroysDirectory(planned[p])
             /\ SubtreeChanged(p, IF planned[p].target = "local" THEN onLocal ELSE onRemote,
                               previous, planned[p].target)
<1>1. IsSnapshot(onLocal) /\ IsSnapshot(onRemote)
  BY FilterKeeps
<1>2. paths \subseteq Paths /\ IsFiniteSet(paths)
  <2> HIDE DEF onLocal, onRemote
  <2>1. IsFiniteSet(DOMAIN onLocal \cup DOMAIN onRemote)
    BY <1>1, FS_Union DEF IsSnapshot
  <2> QED
    BY <1>1, <2>1, FS_Union DEF IsSnapshot, IsAgreed, IsBaseline
<1>3. DOMAIN left = DOMAIN onLocal /\ DOMAIN right = DOMAIN onRemote /\ DOMAIN base = DOMAIN previous.entries
  BY DEF SeenTree, BaseTree
<1>4. ASSUME NEW p \in paths
      PROVE  IsPlanned(p, planned[p])
  <2>1. IsEntry(EntryAt(onLocal, p)) /\ IsEntry(EntryAt(onRemote, p)) /\ p \in Paths
    BY <1>1, <1>2, EntryAtMeans
  <2> QED
    BY <2>1, PathIsPlanned
<1>5. ASSUME NEW p \in paths \ {Root}
      PROVE  /\ planned[p].kind = "conflict" <=> clash(p)
             /\ ~clash(p) =>
                  /\ DestroysDirectory(planned[p]) /\ planned[p].target = "local"
                       <=> Merge!RemovesDirectory(left, merged, p)
                  /\ DestroysDirectory(planned[p]) /\ planned[p].target = "remote"
                       <=> Merge!RemovesDirectory(right, merged, p)
                  /\ DestroysDirectory(planned[p]) => planned[p].target \in {"local", "remote"}
  BY <1>1, PathConflicts, PathDestroys
<1>6. planned[Root].kind # "conflict" /\ ~DestroysDirectory(planned[Root]) /\ Root \in paths
  BY <1>1, RootMeans
<1>7. ASSUME NEW p \in Paths
      PROVE  /\ SubtreeChanged(p, onLocal, previous, "local") <=> Merge!ChangedBelow(left, base, p)
             /\ SubtreeChanged(p, onRemote, previous, "remote") <=> Merge!ChangedBelow(right, base, p)
  BY <1>1, SubtreeMeans
<1>8. ASSUME NEW p \in paths \ {Root}, ~clash(p)
      PROVE  guarded(p) <=> previous.found /\ Merge!RemovesChangedDirectory(left, right, base, p)
  <2>1. p \in Paths
    BY <1>2
  <2>2. Merge!RemovesChangedDirectory(left, right, base, p) <=>
          \/ Merge!RemovesDirectory(left, merged, p) /\ Merge!ChangedBelow(left, base, p)
          \/ Merge!RemovesDirectory(right, merged, p) /\ Merge!ChangedBelow(right, base, p)
    BY DEF Merge!RemovesChangedDirectory
  <2> DEFINE a == planned[p]
  <2>3. guarded(p) <=> /\ previous.found /\ DestroysDirectory(a)
                       /\ SubtreeChanged(p, IF a.target = "local" THEN onLocal ELSE onRemote, previous, a.target)
    OBVIOUS
  <2>4. /\ DestroysDirectory(a) /\ a.target = "local" <=> Merge!RemovesDirectory(left, merged, p)
        /\ DestroysDirectory(a) /\ a.target = "remote" <=> Merge!RemovesDirectory(right, merged, p)
        /\ DestroysDirectory(a) => a.target \in {"local", "remote"}
    BY <1>5, <1>8
  <2> HIDE DEF a, planned, guarded, clash, left, right, base, merged, onLocal, onRemote, paths
  <2> QED
    BY <1>7, <2>1, <2>2, <2>3, <2>4
<1>9. ASSUME NEW p, p # Root, ~clash(p), Merge!RemovesChangedDirectory(left, right, base, p)
      PROVE  previous.found
  <2> SUFFICES ASSUME ~previous.found PROVE FALSE
    OBVIOUS
  <2>1. DOMAIN base = {}
    BY <1>3 DEF IsAgreed, IsBaseline
  <2> HIDE DEF left, right, base
  <2> QED
    BY <1>9, <2>1, WithoutBase
<1>10. HasConflict(OriginalPlan) <=> \E p \in paths : planned[p].kind = "conflict" \/ guarded(p)
  <2>1. OriginalPlan = SortActions(detected)
    BY DEF OriginalPlan, BuildBidirectional
  <2>2. DOMAIN planned = paths /\ \A p \in paths : IsAction(planned[p]) /\ IsPlanned(p, planned[p])
    BY <1>4 DEF IsPlanned
  <2> HIDE DEF planned, paths
  <2>3. (\E p \in DOMAIN protected : protected[p].kind = "conflict") <=>
          \E p \in paths : planned[p].kind = "conflict" \/ guarded(p)
    BY <2>2, ProtectConflicts
  <2>4. DOMAIN protected = DOMAIN planned /\ \A p \in DOMAIN planned : IsPlanned(p, protected[p])
    BY <2>2, ProtectKeeps
  <2> HIDE DEF protected, guarded
  <2>5. DOMAIN protected = paths /\ \A p \in paths : IsAction(protected[p]) /\ IsPlanned(p, protected[p])
    BY <2>2, <2>4 DEF IsPlanned
  <2>6. /\ DOMAIN detected = paths
        /\ \A p \in paths :
             /\ detected[p].kind = "conflict" <=> protected[p].kind = "conflict"
             /\ detected[p].path = protected[p].path
    BY <2>5, MovesConflict
  <2>7. \A p \in paths : detected[p].path = p
    BY <2>5, <2>6 DEF IsPlanned
  <2> HIDE DEF detected
  <2>8. /\ \A i \in DOMAIN SortActions(detected) : \E p \in paths : SortActions(detected)[i] = detected[p]
        /\ \A p \in paths : \E i \in DOMAIN SortActions(detected) : SortActions(detected)[i] = detected[p]
    BY <1>2, <2>6, <2>7, SortKeeps DEF paths
  <2> QED
    BY <2>1, <2>3, <2>5, <2>6, <2>8 DEF HasConflict
<1>11. ASSUME NEW p, clash(p) \/ Merge!RemovesChangedDirectory(left, right, base, p)
       PROVE  p \in DOMAIN left \cup DOMAIN right
  <2> HIDE DEF left, right, base, merged
  <2>1. CASE clash(p)
    BY <2>1 DEF Merge!ClashesAt, Merge!Same
  <2>2. CASE Merge!RemovesChangedDirectory(left, right, base, p)
    BY <2>2 DEF Merge!RemovesChangedDirectory, Merge!RemovesDirectory
  <2> QED
    BY <1>11, <2>1, <2>2
<1>12. SeenUnmergeable <=> \E p \in (DOMAIN left \cup DOMAIN right) \ {Root} :
                            clash(p) \/ Merge!RemovesChangedDirectory(left, right, base, p)
  BY DEF SeenUnmergeable, Merge!Unmergeable, Root
<1>13. ~guarded(Root) /\ DOMAIN left \cup DOMAIN right \subseteq paths
  BY <1>3, <1>6
<1>14. \A p \in paths \ {Root} : planned[p].kind = "conflict" <=> clash(p)
  BY <1>5
<1> HIDE DEF onLocal, onRemote, paths, planned, protected, detected, left, right, base, merged, clash, guarded
<1>15. ASSUME NEW p \in paths, planned[p].kind = "conflict" \/ guarded(p)
       PROVE  /\ p \in (DOMAIN left \cup DOMAIN right) \ {Root}
              /\ clash(p) \/ Merge!RemovesChangedDirectory(left, right, base, p)
  BY <1>6, <1>8, <1>11, <1>13, <1>14, <1>15
<1>16. ASSUME NEW p \in (DOMAIN left \cup DOMAIN right) \ {Root},
              clash(p) \/ Merge!RemovesChangedDirectory(left, right, base, p)
       PROVE  p \in paths /\ (planned[p].kind = "conflict" \/ guarded(p))
  BY <1>8, <1>9, <1>13, <1>14, <1>16
<1> QED
  BY <1>10, <1>12, <1>15, <1>16

-----------------------------------------------------------------------------
(* Stopping for a conflict *)

\* Nothing is planned for a root that is a file.
RootsInv == pc = "plan" => RootsUsable(seenLocal, seenRemote)

\* A run that plans has two usable roots and has not ended.
PlanningInv ==
  /\ pc \in {"scan", "plan"} => outcome = "none"
  /\ RootsInv

LEMMA PlanningKept == TreesInv /\ SeenInv /\ PlanningInv /\ [Next]_vars => PlanningInv'
<1> SUFFICES ASSUME TreesInv, SeenInv, PlanningInv, [Next]_vars PROVE PlanningInv'
  OBVIOUS
<1>1. CASE Start
  BY <1>1 DEF Start, PlanningInv, RootsInv
<1>2. CASE Scan
  <2>1. pc = "scan" /\ request' = request
    BY <1>2 DEF Scan
  <2>2. \/ RootsUsable(seenLocal', seenRemote') /\ pc' = "plan" /\ outcome' = outcome
        \/ pc' = "idle"
    BY <1>2 DEF Scan
  <2>3. pc' = "plan" => RootsUsable(seenLocal, seenRemote)'
    BY <2>1, <2>2 DEF RootsUsable
  <2> QED
    BY <2>1, <2>2, <2>3 DEF PlanningInv, RootsInv
<1>3. CASE pc' \notin {"scan", "plan"}
  BY <1>3 DEF PlanningInv, RootsInv
<1>4. CASE UNCHANGED <<run, outcome>>
  <2>1. /\ pc' = pc /\ outcome' = outcome
        /\ request' = request /\ seenLocal' = seenLocal /\ seenRemote' = seenRemote
    BY <1>4 DEF run
  <2>2. RootsUsable(seenLocal, seenRemote)' <=> RootsUsable(seenLocal, seenRemote)
    BY <2>1 DEF RootsUsable
  <2> QED
    BY <2>1, <2>2 DEF PlanningInv, RootsInv
<1>5. CASE EditLocal \/ EditRemote
  <2>1. pc' = pc /\ outcome' = outcome /\ request' = request
    BY <1>5 DEF EditLocal, EditRemote, Edit
  <2>2. /\ Root \in DOMAIN seenLocal' <=> Root \in DOMAIN seenLocal
        /\ Root \in DOMAIN seenLocal' => seenLocal'[Root] = seenLocal[Root]
        /\ Root \in DOMAIN seenRemote' <=> Root \in DOMAIN seenRemote
        /\ Root \in DOMAIN seenRemote' => seenRemote'[Root] = seenRemote[Root]
    BY <1>5, EditSees
  <2>3. RootsUsable(seenLocal, seenRemote) => RootsUsable(seenLocal, seenRemote)'
    BY <2>1, <2>2 DEF RootsUsable
  <2> QED
    BY <2>1, <2>3 DEF PlanningInv, RootsInv
<1>6. Next => Start \/ Scan \/ EditLocal \/ EditRemote \/ pc' \notin {"scan", "plan"} \/ UNCHANGED <<run, outcome>>
  <2>1. PlanStep => pc' \notin {"scan", "plan"}
    BY DEF PlanStep, RefuseIdentity, ReportConflict, AcceptPlan, End
  <2>2. ExecutionStep => Scan \/ pc' \notin {"scan", "plan"}
    BY DEF ExecutionStep, SkipAction, VerifyDestination, DestinationChanged, RemoveReplaced, Apply,
           Fetch, Commit, OperationRefused, PostScanFirst, PostScanSecond, Goto, EndWithJournal, End
  <2>3. BeginAction \/ SourceChanged \/ RecordCompleted \/ SaveBaseline \/ NotConverged \/ RemoveJournal
          => pc' \notin {"scan", "plan"}
    BY DEF BeginAction, SourceChanged, RecordCompleted, SaveBaseline, NotConverged, RemoveJournal,
           Goto, EndWithJournal, End
  <2>4. Environment => EditLocal \/ EditRemote \/ pc' \notin {"scan", "plan"} \/ UNCHANGED <<run, outcome>>
    BY DEF Environment, OperationFails, Crash, CrashDuringUpload, CrashDuringCopy,
           CrashDuringRemove, RemoveRecovery, RemoveState, EndWithJournal, End
  <2>5. NoMoreRuns => UNCHANGED <<run, outcome>>
    BY DEF NoMoreRuns, vars
  <2> QED
    BY <2>1, <2>2, <2>3, <2>4, <2>5 DEF Next, WorkStep
<1>7. UNCHANGED vars => UNCHANGED <<run, outcome>>
  BY DEF vars
<1> QED
  BY <1>1, <1>2, <1>3, <1>4, <1>5, <1>6, <1>7

\* What a run does when it has planned depends on its plan alone.
LEMMA StopsForConflict ==
  ASSUME PlanningInv, Next, pc = "plan", prefer = "", pc' = "next" \/ outcome' = "conflict"
  PROVE  outcome' = "conflict" <=> HasConflict(OriginalPlan)
<1>0. outcome = "none"
  BY DEF PlanningInv
<1>1. CASE ReportConflict
  BY <1>1 DEF ReportConflict, End
<1>2. CASE AcceptPlan
  BY <1>0, <1>2 DEF AcceptPlan
<1>3. ReportConflict \/ AcceptPlan
  <2>1. ~RefuseIdentity /\ ~Start /\ ~NoMoreRuns
    BY DEF RefuseIdentity, Start, NoMoreRuns, End
  <2>2. ~ExecutionStep
    BY DEF ExecutionStep, Scan, SkipAction, VerifyDestination, DestinationChanged, RemoveReplaced,
           Apply, Fetch, Commit, OperationRefused, PostScanFirst, PostScanSecond
  <2>3. ~WorkStep
    BY <2>2 DEF WorkStep, BeginAction, SourceChanged, RecordCompleted, SaveBaseline, NotConverged,
                RemoveJournal
  <2>4. ~Environment
    BY <1>0 DEF Environment, EditLocal, EditRemote, Edit, OperationFails, Working, Crash,
                CrashDuringUpload, CrashDuringCopy, CrashDuringRemove, RemoveRecovery, RemoveState, End
  <2> QED
    BY <2>1, <2>3, <2>4 DEF Next, PlanStep
<1> QED
  BY <1>1, <1>2, <1>3

LEMMA PlanningStops ==
  ASSUME RemoteChecksums, LossInv, PlanningInv, Next, pc = "plan", prefer = "",
         pc' = "next" \/ outcome' = "conflict",
         Root \in DOMAIN Filter(seenLocal) \cup DOMAIN Filter(seenRemote)
  PROVE  outcome' = "conflict" <=> SeenUnmergeable
<1>1. /\ IsSnapshot(seenLocal) /\ IsSnapshot(seenRemote) /\ IsAgreed(previous)
      /\ RootsUsable(seenLocal, seenRemote)
  BY DEF LossInv, TypeInv, SeenInv, RecordsInv, PlanningInv, RootsInv
<1> QED
  BY <1>1, StopsForConflict, ConflictMeans

\* With checksums, a run stops for a conflict exactly when the trees it has seen have no
\* merge with the last baseline: when both sides changed one path differently, or one side
\* removes or replaces a directory in which the other has changed something.  The planner
\* (`BuildBidirectional`) finds this out path by path, protects changed subtrees afterwards,
\* detects moves and sorts; no number or order of changes makes it miss a conflict or
\* invent one.
THEOREM StopsIffUnmergeable ==
  ASSUME RemoteChecksums
  PROVE  Spec => ConflictIffUnmergeable
<1>1. BidirectionalInit => LossInv /\ PlanningInv
  BY InitInv DEF BidirectionalInit, Init, PlanningInv, RootsInv
<1>2. LossInv /\ PlanningInv /\ [Next]_vars => LossInv' /\ PlanningInv'
  BY NextInv, PlanningKept DEF LossInv, TypeInv
<1>3. LossInv /\ PlanningInv /\ [Next]_vars =>
        [/\ pc = "plan" /\ prefer = ""
         /\ pc' = "next" \/ outcome' = "conflict"
         /\ Root \in DOMAIN Filter(seenLocal) \cup DOMAIN Filter(seenRemote)
         => (outcome' = "conflict" <=> SeenUnmergeable)]_vars
  BY PlanningStops
<1> QED
  BY <1>1, <1>2, <1>3, PTL DEF Spec, ConflictIffUnmergeable

-----------------------------------------------------------------------------
(* What a finished run leaves *)

\* Between two trees that agree, and have agreed, every path is skipped.
LEMMA NothingToPlan ==
  ASSUME RemoteChecksums, NEW onLocal, NEW onRemote, NEW state,
         IsSnapshot(onLocal), IsSnapshot(onRemote),
         SnapshotsConverge(Filter(onLocal), Filter(onRemote)),
         Root \in DOMAIN onLocal => onLocal[Root].type = "directory",
         Root \in DOMAIN onRemote => onRemote[Root].type = "directory",
         state = NoState \/ state = NewState(Filter(onLocal), Filter(onRemote))
  PROVE  \A a \in ToSet(BuildBidirectional(onLocal, onRemote, state)) : a.kind = "skip"
<1> DEFINE l == Filter(onLocal)
           r == Filter(onRemote)
           paths == DOMAIN l \cup DOMAIN r \cup DOMAIN state.entries
           planned == [p \in paths |-> PlanBidirectionalPath(p, EntryAt(l, p), EntryAt(r, p), state)]
           protected == ProtectChangedSubtrees(planned, l, r, state)
           detected == DetectMoves(protected, state)
<1>1. /\ IsSnapshot(l) /\ \A p \in DOMAIN l : p \in DOMAIN onLocal /\ l[p] = onLocal[p]
      /\ IsSnapshot(r) /\ \A p \in DOMAIN r : p \in DOMAIN onRemote /\ r[p] = onRemote[p]
  BY FilterKeeps
<1>2. DOMAIN l = DOMAIN r /\ \A p \in DOMAIN l : Converged(l[p], r[p])
  BY DEF SnapshotsConverge
<1>3. DOMAIN state.entries \subseteq DOMAIN l
  <2>1. DOMAIN NoState.entries = {}
    BY NothingIsSeen DEF NoState
  <2>2. DOMAIN NewState(l, r).entries = DOMAIN l \cup DOMAIN r
    BY DEF NewState
  <2> HIDE DEF l, r
  <2> QED
    BY <1>2, <2>1, <2>2 DEF l, r
<1>4. paths = DOMAIN l /\ DOMAIN planned = DOMAIN l
  BY <1>2, <1>3
<1> HIDE DEF l, r
<1>5. ASSUME NEW p \in DOMAIN l
      PROVE  planned[p].kind = "skip" /\ ~planned[p].replace /\ planned[p].path = p
  <2>1. /\ EntryAt(l, p) = l[p] /\ EntryAt(r, p) = r[p]
        /\ IsEntry(l[p]) /\ Present(l[p]) /\ IsEntry(r[p]) /\ Present(r[p])
    BY <1>1, <1>2, EntryAtMeans
  <2>2. planned[p] = PlanBidirectionalPath(p, l[p], r[p], state)
    BY <1>4, <2>1
  <2> HIDE DEF planned
  <2>3. planned[p] = Action("skip", p, "", l[p], r[p], FALSE)
    <3>1. CASE p = Root
      <4>1. l[Root].type = "directory" /\ r[Root].type = "directory"
        BY <1>1, <1>2, <3>1 DEF l, r
      <4> QED
        BY <2>1, <2>2, <3>1, <4>1 DEF PlanBidirectionalPath, PlanBidirectionalRoot
    <3>2. CASE p # Root
      <4>1. Equal(l[p], r[p])
        <5>1. Converged(l[p], r[p])
          BY <1>2
        <5>2. l[p].type = "file" => l[p].checksum # 0 /\ r[p].checksum # 0
          BY <2>1, <5>1 DEF Converged, IsEntry
        <5>3. l[p].type \in {"file", "directory"}
          BY <2>1 DEF IsEntry, Entries, Kinds, Present
        <5> QED
          BY <5>1, <5>2, <5>3 DEF Converged, Equal, SameContent
      <4> QED
        BY <2>1, <2>2, <3>2, <4>1 DEF PlanBidirectionalPath, EntriesMatch
    <3> QED
      BY <3>1, <3>2
  <2> DEFINE skip == Action("skip", p, "", l[p], r[p], FALSE)
  <2>4. skip.kind = "skip" /\ skip.replace = FALSE /\ skip.path = p
    BY DEF Action
  <2> HIDE DEF skip
  <2>5. planned[p] = skip
    BY <2>3 DEF skip
  <2> QED
    BY <2>4, <2>5
<1> HIDE DEF planned, paths
<1>6. \A p \in DOMAIN planned : ~DestroysDirectory(planned[p])
  BY <1>4, <1>5 DEF DestroysDirectory
<1>7. DOMAIN protected = DOMAIN planned /\ \A p \in DOMAIN planned : protected[p] = planned[p]
  BY <1>6 DEF ProtectChangedSubtrees
<1> HIDE DEF protected
<1>8. DetectedMoves(protected, state) = {}
  BY <1>4, <1>5, <1>7 DEF DetectedMoves
<1>9. DOMAIN detected = DOMAIN protected /\ \A p \in DOMAIN protected : detected[p] = protected[p]
  BY <1>8 DEF DetectMoves
<1>10. BuildBidirectional(onLocal, onRemote, state) = SortActions(detected)
  BY DEF BuildBidirectional, detected, protected, planned, paths, l, r
<1> HIDE DEF detected
<1>11. /\ IsFiniteSet(DOMAIN detected) /\ DOMAIN detected \subseteq Paths
       /\ \A p \in DOMAIN detected : detected[p].path = p /\ detected[p].kind = "skip"
  BY <1>1, <1>4, <1>5, <1>7, <1>9 DEF IsSnapshot
<1>12. \A i \in DOMAIN SortActions(detected) :
         \E p \in DOMAIN detected : SortActions(detected)[i] = detected[p]
  BY <1>11, SortKeeps
<1>13. \A i \in DOMAIN SortActions(detected) : SortActions(detected)[i].kind = "skip"
  BY <1>11, <1>12
<1> QED
  BY <1>10, <1>13 DEF ToSet

\* Two trees that agree, and a baseline that says so or is gone.
Settled ==
  /\ SnapshotsConverge(Filter(LocalScan), Filter(RemoteScan))
  /\ Root \in DOMAIN LocalScan => LocalScan[Root].type = "directory"
  /\ Root \in DOMAIN RemoteScan => RemoteScan[Root].type = "directory"
  /\ baseline = NoState \/ baseline = NewState(Filter(LocalScan), Filter(RemoteScan))

\* As long as nobody edits a tree, the second scan has seen what is there, and what
\* was saved of it still holds.
RestInv ==
  /\ pc = "post-scan" /\ ~raced =>
       IF request.direction = "pull" THEN seenRemote = RemoteScan ELSE seenLocal = LocalScan
  /\ pc = "compare" /\ ~raced => seenLocal = LocalScan /\ seenRemote = RemoteScan
  /\ (pc = "finish" \/ (pc = "idle" /\ outcome = "applied")) /\ ~raced => Settled

LEMMA RestInit == BidirectionalInit => RestInv
  BY DEF BidirectionalInit, Init, RestInv

LEMMA RestNext == RestInv /\ [Next]_vars => RestInv'
<1> SUFFICES ASSUME RestInv, [Next]_vars PROVE RestInv'
  OBVIOUS
<1> USE DEF Goto, End, disk, run, history, bounds
<1>1. CASE PostScanFirst
  BY <1>1 DEF PostScanFirst, RestInv, LocalScan, RemoteScan
<1>2. CASE PostScanSecond
  BY <1>2 DEF PostScanSecond, ScanSecond, RestInv, LocalScan, RemoteScan
<1>3. CASE SaveBaseline
  <2>1. /\ pc = "compare" /\ pc' = "finish" /\ UNCHANGED <<local, remote, raced>>
        /\ RootsUsable(seenLocal, seenRemote)
        /\ SnapshotsConverge(Filter(seenLocal), Filter(seenRemote))
        /\ baseline' = NewState(Filter(seenLocal), Filter(seenRemote))
    BY <1>3 DEF SaveBaseline
  <2>2. LocalScan' = LocalScan /\ RemoteScan' = RemoteScan
    BY <2>1 DEF LocalScan, RemoteScan
  <2>3. CASE raced
    BY <2>1, <2>3 DEF RestInv
  <2>4. CASE ~raced
    <3>1. seenLocal = LocalScan /\ seenRemote = RemoteScan
      BY <2>1, <2>4 DEF RestInv
    <3>2. Settled'
      BY <2>1, <2>2, <3>1 DEF Settled, RootsUsable
    <3> QED
      BY <2>1, <3>2 DEF RestInv
  <2> QED
    BY <2>3, <2>4
<1>4. CASE UNCHANGED <<local, remote, raced>> /\ baseline' \in {baseline, NoState}
           /\ (pc = "finish" \/ (pc = "idle" /\ outcome = "applied")) /\ pc' = "idle"
  <2>1. LocalScan' = LocalScan /\ RemoteScan' = RemoteScan
    BY <1>4 DEF LocalScan, RemoteScan
  <2>2. Settled => Settled'
    BY <1>4, <2>1 DEF Settled
  <2> QED
    BY <1>4, <2>2 DEF RestInv
<1>5. CASE UNCHANGED <<local, remote, raced, baseline, pc, outcome, request, seenLocal, seenRemote>>
  <2>1. LocalScan' = LocalScan /\ RemoteScan' = RemoteScan
    BY <1>5 DEF LocalScan, RemoteScan
  <2>2. Settled' <=> Settled
    BY <1>5, <2>1 DEF Settled
  <2> QED
    BY <1>5, <2>1, <2>2 DEF RestInv
<1>6. CASE raced' = TRUE
  BY <1>6 DEF RestInv
<1>7. CASE /\ pc' \notin {"post-scan", "compare", "finish"}
           /\ pc' = "idle" => outcome' # "applied"
  BY <1>7 DEF RestInv
<1>8. CASE Start \/ PlanStep
  <2>1. /\ pc' \notin {"post-scan", "compare", "finish"}
        /\ pc' = "idle" => outcome' # "applied"
    BY <1>8 DEF Start, PlanStep, RefuseIdentity, ReportConflict, AcceptPlan
  <2> QED
    BY <1>7, <2>1
<1>9. CASE Scan \/ SkipAction \/ VerifyDestination \/ DestinationChanged
           \/ RemoveReplaced \/ Apply \/ Fetch \/ Commit \/ OperationRefused
           \/ BeginAction \/ SourceChanged \/ RecordCompleted \/ NotConverged
  <2>1. /\ pc' \notin {"post-scan", "compare", "finish"}
        /\ pc' = "idle" => outcome' # "applied"
    BY <1>9 DEF Scan, SkipAction, VerifyDestination, DestinationChanged, RemoveReplaced, Apply, Fetch,
                Commit, OperationRefused, BeginAction, SourceChanged, RecordCompleted, NotConverged,
                EndWithJournal
  <2> QED
    BY <1>7, <2>1
<1>10. CASE RemoveJournal
  BY <1>4, <1>10 DEF RemoveJournal
<1>11. CASE EditLocal \/ EditRemote
  BY <1>6, <1>11 DEF EditLocal, EditRemote, Edit
<1>12. CASE OperationFails("failed") \/ OperationFails("canceled") \/ Crash
            \/ CrashDuringUpload \/ CrashDuringCopy \/ CrashDuringRemove
  <2>1. pc' = "idle" /\ outcome' \in {"failed", "canceled", "crashed"}
    BY <1>12 DEF OperationFails, Crash, CrashDuringUpload, CrashDuringCopy, CrashDuringRemove,
                 EndWithJournal
  <2> QED
    BY <1>7, <2>1
<1>13. CASE RemoveRecovery \/ RemoveState
  <2>1. /\ UNCHANGED <<local, remote, raced, pc, outcome>> /\ pc = "idle"
        /\ baseline' \in {baseline, NoState}
    BY <1>13 DEF RemoveRecovery, RemoveState
  <2>2. CASE outcome = "applied"
    BY <1>4, <2>1, <2>2
  <2>3. CASE outcome # "applied"
    BY <1>7, <2>1, <2>3
  <2> QED
    BY <2>2, <2>3
<1>14. CASE NoMoreRuns \/ UNCHANGED vars
  BY <1>5, <1>14 DEF NoMoreRuns, vars
<1> QED
  BY <1>1, <1>2, <1>3, <1>8, <1>9, <1>10, <1>11, <1>12, <1>13, <1>14
  DEF Next, WorkStep, ExecutionStep, Environment

LEMMA RestMeans == ASSUME RemoteChecksums, TreesInv, RestInv PROVE NothingLeftToDo
<1> SUFFICES ASSUME pc = "idle", outcome = "applied", ~raced
             PROVE  \A a \in ToSet(BuildBidirectional(LocalScan, RemoteScan, baseline)) : a.kind = "skip"
  BY DEF NothingLeftToDo
<1>1. Settled
  BY DEF RestInv
<1>2. IsSnapshot(LocalScan) /\ IsSnapshot(RemoteScan)
  BY ScansSee
<1> QED
  BY <1>1, <1>2, NothingToPlan DEF Settled

\* With checksums, a run that succeeded leaves nothing to do: between its end and the
\* next edit the planner skips every path, with the baseline it saved and also without,
\* although the run verified and scanned one side after the other.
THEOREM NothingIsLeft ==
  ASSUME RemoteChecksums
  PROVE  Spec => []NothingLeftToDo
<1>1. BidirectionalInit => LossInv /\ RestInv
  BY InitInv, RestInit
<1>2. LossInv /\ RestInv /\ [Next]_vars => LossInv' /\ RestInv'
  BY NextInv, RestNext
<1>3. LossInv /\ RestInv => NothingLeftToDo
  BY RestMeans DEF LossInv, TypeInv
<1> QED
  BY <1>1, <1>2, <1>3, PTL DEF Spec

-----------------------------------------------------------------------------
(* One-way runs: what a plan may destroy *)

\* What the request allows to go, and what goes with a directory.
Consented(a) ==
  \/ request.overwrite
  \/ request.delete /\ a.kind = "delete"
  \/ DestroysDirectory(a)

\* As far as checksums tell, the baseline has the version found at the destination.
KnownVersion(a) ==
  RemoteChecksums =>
    /\ a.destination.checksum # 0
    /\ RecordAt(previous, a.path).destination.checksum = a.destination.checksum

\* Without consent an action creates, or updates a file whose version is known.
Mirrors(a) ==
  /\ a.kind \in {"delete", "create-directory", "transfer"} /\ a.target = TargetSide
  /\ \/ Consented(a)
     \/ /\ a.kind # "delete" /\ ~a.replace
        /\ a.kind = "transfer" /\ Present(a.destination) =>
             a.destination.type = "file" /\ KnownVersion(a)

\* A destination that matches its record is the version that the record has.
LEMMA RecordMeans ==
  ASSUME RemoteChecksums, IsBaseline(previous), NEW p, HasRecord(previous, p),
         NEW entry, IsEntry(entry), entry.type = "file",
         Equal(entry, RecordAt(previous, p).destination)
  PROVE  entry.checksum # 0 /\ RecordAt(previous, p).destination.checksum = entry.checksum
<1> DEFINE recorded == previous.entries[p].destination
<1>1. RecordAt(previous, p).destination = recorded /\ IsEntry(recorded)
  BY DEF HasRecord, RecordAt, IsBaseline
<1> HIDE DEF recorded
<1>2. recorded.type = "file" /\ recorded.checksum # 0 /\ entry.checksum # 0
  BY <1>1 DEF Equal, IsEntry
<1> QED
  BY <1>1, <1>2 DEF Equal, SameContent

\* The kinds of action that one path can be planned for.
LEMMA PlanKindMeans ==
  ASSUME IsBaseline(previous), NEW p,
         NEW source, IsEntry(source), NEW destination, IsEntry(destination),
         Present(source) \/ Present(destination)
  PROVE  LET kind == PlanKind(source, destination, previous, p, request)
         IN  /\ kind \in {"skip", "conflict", "delete", "create-directory", "transfer"}
             /\ kind = "delete" => request.delete /\ ~Present(source)
             /\ kind \in {"create-directory", "transfer"} =>
                  /\ Present(source)
                  /\ kind = "transfer" => source.type = "file"
                  /\ Present(destination) /\ ~request.overwrite =>
                       /\ source.type = destination.type /\ destination.type = "file"
                       /\ RemoteChecksums =>
                            /\ destination.checksum # 0
                            /\ RecordAt(previous, p).destination.checksum = destination.checksum
<1> DEFINE baseline_ == RecordAt(previous, p)
           guarded(kind) == IF request.overwrite THEN kind ELSE "conflict"
           sourceChanged == ~Equal(source, baseline_.source)
           destinationChanged == ~Equal(destination, baseline_.destination)
           result == PlanKind(source, destination, previous, p, request)
<1>1. source.type \in {"", "file", "directory"} /\ destination.type \in {"", "file", "directory"}
  BY DEF IsEntry, Entries, Kinds
<1>0. Equal(source, destination) => Present(source) /\ Present(destination)
  BY DEF Equal
<1>2. Present(source) => CopyKind(source) \in {"create-directory", "transfer"}
                         /\ (CopyKind(source) = "transfer" => source.type = "file")
  BY <1>1 DEF CopyKind, Present
<1>3. CASE ~Present(destination)
  <2>1. result = IF Present(baseline_.destination) THEN guarded(CopyKind(source)) ELSE CopyKind(source)
    BY <1>0, <1>3 DEF PlanKind
  <2>2. result \in {CopyKind(source), "conflict"}
    BY <2>1
  <2> HIDE DEF result
  <2> QED
    BY <1>2, <1>3, <2>2 DEF result
<1>4. CASE Present(destination) /\ ~Present(source)
  <2>1. result = IF ~request.delete THEN "skip"
                 ELSE IF HasRecord(previous, p) /\ destinationChanged THEN guarded("delete")
                 ELSE "delete"
    BY <1>0, <1>4 DEF PlanKind
  <2>2. result \in {"skip", "conflict"} \/ (result = "delete" /\ request.delete)
    BY <2>1
  <2> HIDE DEF result
  <2> QED
    BY <1>4, <2>2 DEF result
<1>5. CASE Present(destination) /\ Present(source) /\ Equal(source, destination)
  <2>1. result = "skip"
    BY <1>5 DEF PlanKind
  <2> QED
    BY <2>1
<1>6. CASE Present(destination) /\ Present(source) /\ ~Equal(source, destination)
           /\ source.type # destination.type
  <2>1. result = IF source.type = "file" /\ ~request.delete THEN "conflict" ELSE guarded(CopyKind(source))
    BY <1>6 DEF PlanKind
  <2>2. result = "conflict" \/ (result = CopyKind(source) /\ request.overwrite)
    BY <2>1
  <2> HIDE DEF result
  <2> QED
    BY <1>2, <1>6, <2>2 DEF result
<1>7. CASE Present(destination) /\ Present(source) /\ ~Equal(source, destination)
           /\ source.type = destination.type
  <2>1. result = IF HasRecord(previous, p) /\ sourceChanged /\ ~destinationChanged
                 THEN "transfer" ELSE guarded("transfer")
    BY <1>7 DEF PlanKind
  <2>2. \/ result = "conflict"
        \/ result = "transfer" /\ (request.overwrite \/ (HasRecord(previous, p) /\ Equal(destination, baseline_.destination)))
    BY <2>1
  <2>3. source.type = "file" /\ destination.type = "file"
    BY <1>1, <1>7 DEF Equal, Present
  <2>4. RemoteChecksums /\ HasRecord(previous, p) /\ Equal(destination, baseline_.destination) =>
          destination.checksum # 0 /\ baseline_.destination.checksum = destination.checksum
    BY <2>3, RecordMeans
  <2> HIDE DEF result, baseline_
  <2>5. CASE result = "conflict"
    BY <2>5 DEF result
  <2>6. CASE result = "transfer" /\ (request.overwrite \/ (HasRecord(previous, p) /\ Equal(destination, baseline_.destination)))
    BY <1>7, <2>3, <2>4, <2>6 DEF result, baseline_
  <2> QED
    BY <2>2, <2>5, <2>6
<1> QED
  BY <1>3, <1>4, <1>5, <1>6, <1>7

\* The action of one path, as an accepted plan has it.
LEMMA MirrorAction ==
  ASSUME IsBaseline(previous), NEW p \in Paths,
         NEW source, IsEntry(source), NEW destination, IsEntry(destination),
         Present(source) \/ Present(destination), p = Root => source.type # "file"
  PROVE  LET planned == PlanPath(source, destination, previous, p, request)
             a == [planned EXCEPT !.target = TargetSide]
         IN  /\ planned.path = p
             /\ IsAction(a) /\ a.target = TargetSide /\ a.destination = destination
             /\ a.kind \in {"skip", "conflict"} \/ Mirrors(a)
             /\ a.kind = planned.kind
<1> DEFINE kind == PlanKind(source, destination, previous, p, request)
           replace == /\ Present(source) /\ Present(destination) /\ source.type # destination.type
                      /\ kind # "conflict"
           planned == Action(kind, p, "", source, destination, replace)
           a == [planned EXCEPT !.target = TargetSide]
<1>1. /\ kind \in {"skip", "conflict", "delete", "create-directory", "transfer"}
      /\ kind = "delete" => request.delete /\ ~Present(source)
      /\ kind \in {"create-directory", "transfer"} =>
           /\ Present(source)
           /\ kind = "transfer" => source.type = "file"
           /\ Present(destination) /\ ~request.overwrite =>
                /\ source.type = destination.type /\ destination.type = "file"
                /\ RemoteChecksums =>
                     /\ destination.checksum # 0
                     /\ RecordAt(previous, p).destination.checksum = destination.checksum
  BY PlanKindMeans
<1>2. PlanPath(source, destination, previous, p, request) = planned
  BY DEF PlanPath
<1>3. source \in Entries /\ destination \in Entries /\ Root \in Paths
  BY RootIsPath DEF IsEntry
<1>4. TargetSide \in {"local", "remote"}
  BY DEF TargetSide, Destination
<1>5. replace \in BOOLEAN
  BY DEF Present
<1> HIDE DEF kind
<1>6. replace => Present(source) /\ Present(destination) /\ source.type # destination.type
  OBVIOUS
<1> HIDE DEF replace
<1>7. /\ planned.kind = kind /\ planned.path = p /\ planned.replace = replace
      /\ planned.source = source /\ planned.destination = destination
      /\ IsAction(planned)
  BY <1>1, <1>3, <1>5 DEF Action, IsAction, ActionKinds, Targets
<1> HIDE DEF planned
<1>8. /\ a.kind = kind /\ a.path = p /\ a.replace = replace /\ a.target = TargetSide
      /\ a.source = source /\ a.destination = destination
  BY <1>7 DEF IsAction
<1>9. IsAction(a)
  BY <1>4, <1>7 DEF IsAction, Targets
<1> HIDE DEF a
<1>10. ASSUME a.kind \notin {"skip", "conflict"} PROVE Mirrors(a)
  <2>1. CASE kind = "delete"
    BY <1>1, <1>8, <2>1 DEF Mirrors, Consented
  <2>2. CASE kind \in {"create-directory", "transfer"} /\ ~request.overwrite
    BY <1>1, <1>6, <1>8, <2>2 DEF Mirrors, KnownVersion
  <2>3. CASE kind \in {"create-directory", "transfer"} /\ request.overwrite
    BY <1>8, <2>3 DEF Mirrors, Consented
  <2> QED
    BY <1>1, <1>8, <1>10, <2>1, <2>2, <2>3
<1> QED
  BY <1>2, <1>7, <1>8, <1>9, <1>10 DEF planned, a
\* What an accepted plan is made of.
LEMMA MirrorPlan ==
  ASSUME IsSnapshot(seenLocal), IsSnapshot(seenRemote), IsBaseline(previous),
         RootsUsable(seenLocal, seenRemote), AcceptOneWayPlan
  PROVE  /\ plan' \in Seq(Actions)
         /\ \A i \in DOMAIN plan' :
              /\ plan'[i].target = TargetSide /\ NamesSeen(plan'[i])
              /\ plan'[i].kind = "skip" \/ Mirrors(plan'[i])
<1> DEFINE seenSource == Source(seenLocal, seenRemote)
           seenDestination == Destination(seenLocal, seenRemote)
           source == Filter(seenSource)
           destination == Filter(seenDestination)
           paths == DOMAIN source \cup DOMAIN destination
           planned == [p \in paths |->
             PlanPath(EntryAt(source, p), EntryAt(destination, p), previous, p, request)]
           mirrored(a) == [a EXCEPT !.target = TargetSide]
<1>1. /\ seenSource \in {seenLocal, seenRemote} /\ seenDestination \in {seenLocal, seenRemote}
      /\ TargetSide = "remote" => seenDestination = seenRemote
  BY DEF Source, Destination, TargetSide
<1>2. /\ IsSnapshot(seenSource) /\ IsSnapshot(seenDestination)
      /\ Root \in DOMAIN seenSource => seenSource[Root].type = "directory"
  BY <1>1 DEF RootsUsable
<1> HIDE DEF seenSource, seenDestination
<1>3. /\ IsSnapshot(source) /\ IsSnapshot(destination)
      /\ \A p \in DOMAIN source : p \in DOMAIN seenSource /\ source[p] = seenSource[p]
      /\ \A p \in DOMAIN destination : p \in DOMAIN seenDestination /\ destination[p] = seenDestination[p]
  BY <1>2, FilterKeeps
<1> HIDE DEF source, destination
<1>4. paths \subseteq Paths /\ IsFiniteSet(paths)
  BY <1>3, FS_Union DEF IsSnapshot
<1>5. ASSUME NEW p \in paths
      PROVE  /\ planned[p].path = p
             /\ IsAction(mirrored(planned[p])) /\ mirrored(planned[p]).target = TargetSide
             /\ mirrored(planned[p]).kind \in {"skip", "conflict"} \/ Mirrors(mirrored(planned[p]))
             /\ mirrored(planned[p]).kind = planned[p].kind
             /\ NamesSeen(mirrored(planned[p]))
  <2> DEFINE from == EntryAt(source, p)
             to == EntryAt(destination, p)
             a == mirrored(planned[p])
  <2>1. /\ IsEntry(from) /\ IsEntry(to) /\ (Present(from) \/ Present(to))
        /\ p \in Paths
    BY <1>3, <1>4, EntryAtMeans
  <2>2. p = Root => from.type # "file"
    BY <1>2, <1>3, NoEntryIsEntry DEF EntryAt
  <2>3. to = NoEntry \/ \E q \in DOMAIN seenDestination : to = seenDestination[q]
    BY <1>3 DEF EntryAt
  <2>4. planned[p] = PlanPath(from, to, previous, p, request)
    OBVIOUS
  <2> HIDE DEF from, to, planned
  <2>5. /\ planned[p].path = p
        /\ IsAction(a) /\ a.target = TargetSide /\ a.destination = to
        /\ a.kind \in {"skip", "conflict"} \/ Mirrors(a)
        /\ a.kind = planned[p].kind
    BY <2>1, <2>2, <2>4, MirrorAction
  <2> HIDE DEF a
  <2>6. NamesSeen(a)
    BY <1>1, <2>3, <2>5 DEF NamesSeen
  <2> QED
    BY <2>5, <2>6 DEF a
<1>6. DOMAIN planned = paths
  OBVIOUS
<1> HIDE DEF planned, paths
<1> DEFINE sorted == SortActions(planned)
<1>7. /\ Cardinality(paths) \in Nat
      /\ DOMAIN sorted = 1 .. Cardinality(paths)
      /\ \A i \in DOMAIN sorted : \E p \in paths : sorted[i] = planned[p]
  <2>1. /\ IsFiniteSet(DOMAIN planned) /\ DOMAIN planned \subseteq Paths
        /\ \A p \in DOMAIN planned : planned[p].path = p
    BY <1>4, <1>5, <1>6
  <2>2. /\ Cardinality(DOMAIN planned) \in Nat
        /\ DOMAIN sorted = 1 .. Cardinality(DOMAIN planned)
        /\ \A i \in DOMAIN sorted : \E p \in DOMAIN planned : sorted[i] = planned[p]
    BY <2>1, SortKeeps
  <2> HIDE DEF sorted
  <2> QED
    BY <1>6, <2>2
<1>8. OneWayPlan(seenLocal, seenRemote, previous) = sorted
  BY DEF OneWayPlan, Build, seenSource, seenDestination, source, destination, paths, planned
<1> HIDE DEF sorted
<1>9. ~HasConflict(sorted) /\ plan' = [i \in DOMAIN sorted |-> mirrored(sorted[i])]
  BY <1>8 DEF AcceptOneWayPlan
<1> HIDE DEF mirrored
<1>10. ASSUME NEW i \in DOMAIN sorted
       PROVE  /\ mirrored(sorted[i]) \in Actions /\ mirrored(sorted[i]).target = TargetSide
              /\ NamesSeen(mirrored(sorted[i]))
              /\ mirrored(sorted[i]).kind = "skip" \/ Mirrors(mirrored(sorted[i]))
  <2>1. PICK p \in paths : sorted[i] = planned[p]
    BY <1>7
  <2>2. sorted[i].kind # "conflict"
    BY <1>9 DEF HasConflict
  <2> QED
    BY <1>5, <2>1, <2>2, ActionsMean
<1>11. plan' \in Seq(Actions)
  <2>1. plan' = [i \in 1 .. Cardinality(paths) |-> mirrored(sorted[i])]
    BY <1>7, <1>9
  <2>2. \A i \in 1 .. Cardinality(paths) : mirrored(sorted[i]) \in Actions
    BY <1>7, <1>10
  <2> DEFINE n == Cardinality(paths)
             taken == [i \in 1 .. n |-> mirrored(sorted[i])]
  <2>3. n \in Nat
    BY <1>7
  <2> HIDE DEF n
  <2>4. taken \in [1 .. n -> Actions]
    BY <2>2 DEF n
  <2>5. taken \in Seq(Actions)
    BY <2>3, <2>4
  <2> QED
    BY <2>1, <2>5 DEF n
<1> QED
  BY <1>9, <1>10, <1>11
-----------------------------------------------------------------------------
(* One-way runs: the invariant *)

\* What a plan in progress may do, and what the server was seen to have there.
MirrorPlanInv ==
  /\ plan \in Seq(Actions)
  /\ \A i \in DOMAIN plan :
       /\ plan[i].target = TargetSide
       /\ \/ plan[i].kind = "skip"
          \/ /\ Mirrors(plan[i])
             /\ plan[i].target = "remote" => Remembered(plan[i].destination, remote, clock)

MirrorTypeInv ==
  /\ TreesInv /\ SeenInv /\ IsBaseline(baseline) /\ IsBaseline(previous)
  /\ RootsInv /\ MirrorPlanInv /\ StepInv

\* Where a transfer finds the version that the baseline knows, or nothing.
FindsKnown(a) ==
  a.kind = "transfer" /\ a.path \in DOMAIN local =>
    local[a.path].type = "file" /\ local[a.path].content = RecordAt(previous, a.path).destination.checksum

\* Until somebody edits a tree, the current action finds locally what was verified.
MirrorVerified ==
  /\ RemoteChecksums /\ ~raced /\ pc \in {"mutate", "commit"}
  /\ Current.target = "local" /\ ~Consented(Current)
  => FindsKnown(Current) /\ (pc = "commit" => fetched.target = Current.path)

\* The losses are by consent where the server reports checksums.
MirrorInv == MirrorTypeInv /\ MirrorVerified /\ (RemoteChecksums => ConsentedLossOnly)

LEMMA CurrentMirrors ==
  ASSUME MirrorTypeInv
  PROVE  /\ StepTyped
         /\ pc \in InAction =>
              /\ Current.target = TargetSide /\ Mirrors(Current)
              /\ Current.target = "remote" => Remembered(Current.destination, remote, clock)
<1>1. pc \in InAction => step \in DOMAIN plan /\ Current \in Actions /\ Current.kind # "skip"
  BY ElementsAre DEF MirrorTypeInv, MirrorPlanInv, StepInv, Current
<1>2. StepTyped
  BY <1>1, ActionsMean DEF StepTyped, MirrorTypeInv, StepInv
<1> QED
  BY <1>1, <1>2 DEF MirrorTypeInv, MirrorPlanInv, Current

\* What a run has planned stays true while it goes on.
LEMMA MirrorKeptPlan ==
  ASSUME MirrorTypeInv, TreesMove \/ TreesStay, UNCHANGED <<request, previous, plan>>
  PROVE  TreesInv' /\ IsBaseline(previous)' /\ MirrorPlanInv'
<1>1. TreesInv /\ IsBaseline(previous) /\ MirrorPlanInv
  BY DEF MirrorTypeInv
<1>2. /\ TreesInv'
      /\ \A entry \in Entries : Remembered(entry, remote, clock) => Remembered(entry, remote', clock')
  BY <1>1, MovedRemembers
<1>3. MirrorPlanInv'
  <2>1. \A i \in DOMAIN plan : plan[i].destination \in Entries
    <3>1. \A i \in DOMAIN plan : plan[i] \in Actions
      BY <1>1, ElementsAre DEF MirrorPlanInv
    <3> QED
      BY <3>1 DEF Actions
  <2>2. plan' = plan /\ TargetSide' = TargetSide /\ (\A a : Mirrors(a)' = Mirrors(a))
    BY DEF TargetSide, Destination, Mirrors, Consented, KnownVersion
  <2> QED
    BY <1>1, <1>2, <2>1, <2>2 DEF MirrorPlanInv
<1>4. IsBaseline(previous)'
  BY <1>1
<1> QED
  BY <1>2, <1>3, <1>4

\* And what it has seen.
LEMMA MirrorKept ==
  ASSUME MirrorTypeInv, TreesMove \/ TreesStay,
         UNCHANGED <<request, previous, seenLocal, seenRemote, plan>>
  PROVE  TreesInv' /\ SeenInv' /\ IsBaseline(previous)' /\ MirrorPlanInv'
<1>1. TreesInv /\ SeenInv
  BY DEF MirrorTypeInv
<1>2. \A entry \in Entries : Remembered(entry, remote, clock) => Remembered(entry, remote', clock')
  BY <1>1, MovedRemembers
<1>3. \A p \in DOMAIN seenRemote : seenRemote[p] \in Entries
  BY <1>1 DEF SeenInv, IsSnapshot, IsEntry
<1>4. SeenInv'
  BY <1>1, <1>2, <1>3 DEF SeenInv
<1> QED
  BY <1>4, MirrorKeptPlan

-----------------------------------------------------------------------------
(* One-way runs: what a mutation destroys *)

\* Every file of a tree survives somewhere, or the baseline has its version.
Spared(before, after) ==
  \A q \in DOMAIN before :
    before[q].type = "file" /\ ~IsArtifact(q) =>
      \/ before[q].content \in Contents(after)
      \/ RecordAt(previous, q).source.checksum = before[q].content
      \/ RecordAt(previous, q).destination.checksum = before[q].content

LEMMA SavedIsSpared ==
  ASSUME NEW before, NEW after, Saved(before, after)
  PROVE  Spared(before, after)
  BY DEF Saved, Spared

LEMMA KeptIsSpared ==
  ASSUME NEW before, NEW after,
         \A q \in DOMAIN before :
           \/ q \in DOMAIN after /\ after[q] = before[q]
           \/ IsArtifact(q)
           \/ RecordAt(previous, q).destination.checksum = before[q].content
  PROVE  Spared(before, after)
<1>1. ASSUME NEW q \in DOMAIN after, after[q].type = "file"
      PROVE  after[q].content \in Contents(after)
  BY <1>1 DEF Contents
<1> QED
  BY <1>1 DEF Spared

\* A mutation that spares the versions nobody knows loses only by consent.
LEMMA MirrorLoses ==
  ASSUME ConsentedLossOnly, UNCHANGED request,
         lost' = lost \cup Destroyed("local", local, local') \cup Destroyed("remote", remote, remote'),
         Consented(Current) \/ raced \/ Spared(local, local'),
         Consented(Current) \/ Spared(remote, remote')
  PROVE  ConsentedLossOnly'
<1>1. ASSUME NEW side, NEW before, NEW after, NEW loss \in Destroyed(side, before, after)
      PROVE  /\ loss.action = Current /\ loss.raced = raced /\ loss.side = side
             /\ loss.known \/ ~Spared(before, after)
  <2>1. PICK q \in DOMAIN before :
          /\ loss = [side |-> side, path |-> q, action |-> Current, raced |-> raced,
                     known |-> RecordAt(previous, q).destination.checksum = before[q].content]
          /\ before[q].type = "file" /\ ~IsArtifact(q) /\ before[q].content \notin Contents(after)
          /\ RecordAt(previous, q).source.checksum # before[q].content
    BY <1>1 DEF Destroyed
  <2>2. RecordAt(previous, q).destination.checksum # before[q].content => ~Spared(before, after)
    BY <2>1 DEF Spared
  <2> QED
    BY <2>1, <2>2
<1>2. \A loss \in lost' :
        loss \in lost \/ loss \in Destroyed("local", local, local') \/ loss \in Destroyed("remote", remote, remote')
  OBVIOUS
<1>3. ASSUME NEW loss \in lost'
      PROVE  \/ loss.known
             \/ request.overwrite
             \/ request.delete /\ loss.action.kind = "delete"
             \/ DestroysDirectory(loss.action)
             \/ loss.side = "local" /\ loss.raced
  <2>1. CASE loss \in lost
    BY <2>1 DEF ConsentedLossOnly
  <2>2. CASE loss \in Destroyed("local", local, local')
    BY <1>1, <2>2 DEF Consented
  <2>3. CASE loss \in Destroyed("remote", remote, remote')
    BY <1>1, <2>3 DEF Consented
  <2> QED
    BY <1>2, <2>1, <2>2, <2>3
<1> QED
  BY <1>3 DEF ConsentedLossOnly

\* What a mirroring action does to the remote tree.
LEMMA RemoteIsSpared ==
  ASSUME RemoteChecksums,
         TreesInv, NEW a, IsAction(a), Mirrors(a), ~Consented(a), a.target = "remote",
         Remembered(a.destination, remote, clock), NEW after \in RemoteResults(a)
  PROVE  Spared(remote, after)
<1>1. CASE a.kind = "create-directory"
  <2>1. after = remote \/ (a.path \notin DOMAIN remote /\ after = With(remote, a.path, Directory))
    BY <1>1 DEF RemoteResults
  <2> QED
    BY <2>1, SameSaves, WithSaves, SavedIsSpared
<1>2. CASE a.kind = "transfer"
  <2>1. PICK node :
          /\ after = With(remote, a.path, node)
          /\ ~Present(a.destination) => a.path \notin DOMAIN remote
          /\ ETagHolds(a.path, a.destination)
    BY <1>2 DEF RemoteResults
  <2>2. a.path \in DOMAIN remote => RecordAt(previous, a.path).destination.checksum = remote[a.path].content
    BY <1>2, <2>1, GuardFinds DEF Mirrors, KnownVersion
  <2>3. \A q \in DOMAIN remote : q = a.path \/ (q \in DOMAIN after /\ after[q] = remote[q])
    BY <2>1 DEF With
  <2> QED
    BY <2>2, <2>3, KeptIsSpared
<1> QED
  BY <1>1, <1>2 DEF Mirrors

\* What it does to the local tree, apart from downloads.
LEMMA LocalIsSpared ==
  ASSUME NEW a, Mirrors(a), ~Consented(a), NEW after \in LocalResults(a)
  PROVE  Spared(local, after)
<1>1. a.kind = "create-directory"
  BY DEF Mirrors, LocalResults
<1>2. after = WithDirectories(local, a.path)
  BY <1>1 DEF LocalResults
<1>3. \A q \in DOMAIN local : q \in DOMAIN after /\ after[q] = local[q]
  BY <1>2 DEF WithDirectories
<1> QED
  BY <1>3, KeptIsSpared

\* A commit writes its target and takes its part away.
LEMMA CommitIsSpared ==
  ASSUME IsTree(local), NEW a, CommitAccepted(a), fetched.target \in Paths \ {Root}, NEW node,
         fetched.target \in DOMAIN local =>
           local[fetched.target].content = RecordAt(previous, fetched.target).destination.checksum
  PROVE  Spared(local, Without(With(local, fetched.target, node), PartPath(fetched.target)))
<1> DEFINE part == PartPath(fetched.target)
           after == Without(With(local, fetched.target, node), part)
<1>1. part \in Paths /\ IsArtifact(part)
  BY PartPathMeans
<1>2. TypeAt(local, part) # "directory"
  BY DEF CommitAccepted
<1> HIDE DEF part
<1>3. \A q \in DOMAIN local :
        q = part \/ q = fetched.target \/ (q \in DOMAIN after /\ after[q] = local[q])
  BY <1>1, <1>2, NothingBelow DEF Without, With
<1> HIDE DEF after
<1>4. Spared(local, after)
  BY <1>1, <1>3, KeptIsSpared
<1> QED
  BY <1>4 DEF after, part
-----------------------------------------------------------------------------
(* One-way runs: the steps *)

\* A step that neither plans nor scans keeps what the run knows.
LEMMA MirrorTyped ==
  ASSUME MirrorTypeInv, TreesMove \/ TreesStay,
         UNCHANGED <<request, previous, seenLocal, seenRemote, plan>>,
         IsBaseline(baseline'), pc' = "plan" => pc = "plan", StepInv'
  PROVE  MirrorTypeInv'
<1>1. TreesInv' /\ SeenInv' /\ IsBaseline(previous)' /\ MirrorPlanInv'
  BY MirrorKept
<1>2. RootsInv'
  BY DEF RootsInv, RootsUsable, MirrorTypeInv
<1>3. IsBaseline(baseline)'
  BY DEF IsBaseline, IsEntry, Entries
<1> QED
  BY <1>1, <1>2, <1>3 DEF MirrorTypeInv

LEMMA MirrorInit == OneWayInit => MirrorInv
<1> SUFFICES ASSUME OneWayInit PROVE MirrorInv
  OBVIOUS
<1>1. PICK start \in Starts :
        local = start.local /\ remote = start.remote /\ baseline = start.baseline
  BY DEF OneWayInit, Init
<1>2. IsStart(start)
  BY BoundsAssumption
<1>3. /\ clock = FirstClock /\ pc = "idle" /\ previous = NoState
      /\ seenLocal = <<>> /\ seenRemote = <<>> /\ plan = <<>> /\ step = 1 /\ lost = {}
  BY DEF OneWayInit, Init
<1>4. TreesInv
  BY <1>1, <1>2, <1>3 DEF TreesInv, IsStart, ETagsBefore, FirstClock
<1>5. SeenInv
  BY <1>3, NothingIsSeen DEF SeenInv
<1>6. IsBaseline(baseline) /\ IsBaseline(previous)
  BY <1>1, <1>2, <1>3, NothingIsSeen DEF IsAgreed, IsStart
<1>7. MirrorPlanInv
  BY <1>3, EmptySeq DEF MirrorPlanInv
<1>8. RootsInv /\ StepInv /\ MirrorVerified /\ ConsentedLossOnly
  BY <1>3 DEF RootsInv, StepInv, InAction, MirrorVerified, ConsentedLossOnly
<1> QED
  BY <1>4, <1>5, <1>6, <1>7, <1>8 DEF MirrorInv, MirrorTypeInv

LEMMA MirrorStart == ASSUME MirrorInv, Start PROVE MirrorInv'
<1>1. /\ TreesStay /\ previous' = baseline
      /\ baseline' = baseline /\ pc' = "scan" /\ plan' = <<>> /\ step' = 1 /\ lost' = {}
      /\ seenLocal' \in {<<>>, LocalScan} /\ seenRemote' \in {<<>>, RemoteScan}
  BY DEF Start, StartHistory, TreesStay, disk
<1>2. TreesInv /\ IsBaseline(baseline)
  BY DEF MirrorInv, MirrorTypeInv
<1>3. TreesInv'
  BY <1>1, <1>2 DEF TreesInv, TreesStay
<1>4. SeenInv'
  <2>1. /\ IsSnapshot(seenLocal') /\ IsSnapshot(seenRemote')
        /\ \A p \in DOMAIN seenRemote' : Remembered(seenRemote'[p], remote, clock)
    BY <1>1, <1>2, ScansSee, NothingIsSeen
  <2> QED
    BY <1>1, <2>1 DEF SeenInv, TreesStay
<1>5. IsBaseline(baseline)' /\ IsBaseline(previous)'
  BY <1>1, <1>2
<1>6. MirrorPlanInv'
  BY <1>1, EmptySeq DEF MirrorPlanInv
<1>7. RootsInv' /\ StepInv' /\ MirrorVerified' /\ ConsentedLossOnly'
  BY <1>1 DEF RootsInv, StepInv, InAction, MirrorVerified, ConsentedLossOnly
<1> QED
  BY <1>3, <1>4, <1>5, <1>6, <1>7 DEF MirrorInv, MirrorTypeInv

\* A one-way run that ends without touching the trees, with or without a new baseline.
MirrorEnding ==
  /\ TreesStay
  /\ UNCHANGED <<request, previous, seenLocal, seenRemote, plan, step, fetched, raced, lost>>
  /\ pc' = "idle" /\ IsBaseline(baseline')

LEMMA MirrorEnds == ASSUME MirrorInv, MirrorEnding PROVE MirrorInv'
<1>1. StepInv' /\ MirrorVerified'
  BY DEF MirrorInv, MirrorTypeInv, StepInv, MirrorEnding, InAction, MirrorVerified
<1>2. MirrorTypeInv'
  BY <1>1, MirrorTyped DEF MirrorInv, MirrorEnding
<1>3. RemoteChecksums => ConsentedLossOnly'
  BY DEF MirrorInv, MirrorEnding, ConsentedLossOnly
<1> QED
  BY <1>1, <1>2, <1>3 DEF MirrorInv

\* What a scan finds becomes a plan only if the roots can be used.
MirrorLooking ==
  /\ TreesStay
  /\ UNCHANGED <<request, previous, baseline, plan, step, fetched, raced, lost>>
  /\ pc' \notin InAction
  /\ pc' = "plan" => RootsUsable(seenLocal', seenRemote')
  /\ seenLocal' \in {seenLocal, LocalScan} /\ seenRemote' \in {seenRemote, RemoteScan}

LEMMA MirrorLooks == ASSUME MirrorInv, MirrorLooking PROVE MirrorInv'
<1>1. TreesInv /\ SeenInv /\ IsBaseline(baseline) /\ IsBaseline(previous) /\ MirrorPlanInv /\ StepInv
  BY DEF MirrorInv, MirrorTypeInv
<1>2. TreesInv'
  BY <1>1 DEF MirrorLooking, TreesStay, TreesInv
<1>3. IsBaseline(baseline)' /\ IsBaseline(previous)'
  BY <1>1 DEF MirrorLooking
<1>4. MirrorPlanInv'
  <2>1. plan' = plan /\ TargetSide' = TargetSide /\ (\A a : Mirrors(a)' = Mirrors(a))
    BY DEF MirrorLooking, TargetSide, Destination, Mirrors, Consented, KnownVersion
  <2>2. remote' = remote /\ clock' = clock
    BY DEF MirrorLooking, TreesStay
  <2> QED
    BY <1>1, <2>1, <2>2 DEF MirrorPlanInv
<1>5. SeenInv'
  <2>1. /\ IsSnapshot(seenLocal') /\ IsSnapshot(seenRemote')
        /\ \A p \in DOMAIN seenRemote' : Remembered(seenRemote'[p], remote, clock)
    BY <1>1, ScansSee DEF MirrorLooking, SeenInv
  <2> QED
    BY <2>1 DEF SeenInv, MirrorLooking, TreesStay
<1>6. StepInv' /\ MirrorVerified'
  BY <1>1 DEF StepInv, MirrorLooking, InAction, MirrorVerified
<1>7. RootsInv'
  BY DEF RootsInv, MirrorLooking, RootsUsable
<1>8. RemoteChecksums => ConsentedLossOnly'
  BY DEF MirrorInv, MirrorLooking, ConsentedLossOnly
<1> QED
  BY <1>2, <1>3, <1>4, <1>5, <1>6, <1>7, <1>8 DEF MirrorInv, MirrorTypeInv

\* A one-way run that goes on to another action, or to the verification of this one.
MirrorGoing ==
  /\ TreesStay
  /\ UNCHANGED <<request, previous, baseline, seenLocal, seenRemote, plan, fetched, raced, lost>>
  /\ \/ pc' = "next" /\ step' \in {step, step + 1}
     \/ pc' = "verify" /\ step' = step /\ step \in DOMAIN plan /\ Current.kind # "skip"

LEMMA MirrorGoesOn == ASSUME MirrorInv, MirrorGoing PROVE MirrorInv'
<1>1. StepInv'
  <2>1. step' \in Nat \ {0}
    <3>1. step \in Nat \ {0}
      BY DEF MirrorInv, MirrorTypeInv, StepInv
    <3>2. step' = step \/ step' = step + 1
      BY DEF MirrorGoing
    <3> QED
      BY <3>1, <3>2
  <2>2. pc' # "replace" /\ pc' # "commit"
    BY DEF MirrorGoing
  <2>3. pc' \in InAction => step' \in DOMAIN plan' /\ Current'.kind # "skip"
    BY DEF MirrorGoing, Current, InAction
  <2> QED
    BY <2>1, <2>2, <2>3 DEF StepInv, InAction
<1>2. pc' # "plan" /\ IsBaseline(baseline')
  BY DEF MirrorGoing, MirrorInv, MirrorTypeInv
<1>3. MirrorTypeInv'
  BY <1>1, <1>2, MirrorTyped DEF MirrorInv, MirrorGoing
<1>4. MirrorVerified' /\ (RemoteChecksums => ConsentedLossOnly')
  BY DEF MirrorInv, MirrorGoing, MirrorVerified, ConsentedLossOnly
<1> QED
  BY <1>3, <1>4 DEF MirrorInv

LEMMA MirrorAccepts == ASSUME MirrorInv, AcceptOneWayPlan PROVE MirrorInv'
<1>1. /\ TreesInv /\ SeenInv /\ IsBaseline(baseline) /\ IsBaseline(previous) /\ StepInv
      /\ RootsUsable(seenLocal, seenRemote)
  BY DEF MirrorInv, MirrorTypeInv, RootsInv, AcceptOneWayPlan
<1>2. /\ TreesStay /\ pc' = "next"
      /\ UNCHANGED <<request, previous, baseline, seenLocal, seenRemote, step, fetched, raced, lost>>
  BY DEF AcceptOneWayPlan, TreesStay, disk, history
<1>3. TreesInv' /\ SeenInv' /\ IsBaseline(baseline)' /\ IsBaseline(previous)'
  BY <1>1, <1>2 DEF TreesStay, TreesInv, SeenInv
<1>4. MirrorPlanInv'
  <2>1. /\ plan' \in Seq(Actions)
        /\ \A i \in DOMAIN plan' :
             /\ plan'[i].target = TargetSide /\ NamesSeen(plan'[i])
             /\ plan'[i].kind = "skip" \/ Mirrors(plan'[i])
    BY <1>1, MirrorPlan DEF SeenInv
  <2>2. ASSUME NEW a, NamesSeen(a), a.target = "remote"
        PROVE  Remembered(a.destination, remote, clock)
    BY <1>1, <2>2, NoEntryIsEntry DEF NamesSeen, SeenInv, Remembered
  <2>3. \A i \in DOMAIN plan' :
          plan'[i].target = "remote" => Remembered(plan'[i].destination, remote, clock)
    BY <2>1, <2>2
  <2>4. TargetSide' = TargetSide /\ (\A a : Mirrors(a)' = Mirrors(a))
    BY <1>2 DEF TargetSide, Destination, Mirrors, Consented, KnownVersion
  <2>5. remote' = remote /\ clock' = clock
    BY <1>2 DEF TreesStay
  <2> QED
    BY <2>1, <2>3, <2>4, <2>5 DEF MirrorPlanInv
<1>5. RootsInv' /\ StepInv' /\ MirrorVerified'
  BY <1>1, <1>2 DEF RootsInv, StepInv, InAction, MirrorVerified
<1>6. RemoteChecksums => ConsentedLossOnly'
  BY <1>2 DEF MirrorInv, ConsentedLossOnly
<1> QED
  BY <1>3, <1>4, <1>5, <1>6 DEF MirrorInv, MirrorTypeInv
\* The verification of the destination finds the version that is known, or nothing.
LEMMA MirrorVerifies == ASSUME MirrorInv, VerifyDestination PROVE MirrorInv'
<1>1. TreesInv /\ MirrorTypeInv /\ StepInv /\ IsTree(local)
  BY DEF MirrorInv, MirrorTypeInv, TreesInv
<1>2. /\ TreesStay /\ pc = "verify" /\ pc' = (IF Current.replace THEN "replace" ELSE "mutate")
      /\ DestinationVerified(Current)
      /\ UNCHANGED <<local, request, previous, baseline, seenLocal, seenRemote, plan, step, fetched, lost>>
  BY DEF VerifyDestination, Goto, TreesStay, disk
<1>3. StepInv'
  BY <1>1, <1>2 DEF StepInv, InAction, Current
<1>4. MirrorTypeInv'
  <2>1. IsBaseline(baseline') /\ pc' # "plan"
    BY <1>1, <1>2 DEF MirrorTypeInv
  <2> QED
    BY <1>1, <1>2, <1>3, <2>1, MirrorTyped
<1>5. ASSUME RemoteChecksums, Current.target = "local", ~Consented(Current)
      PROVE  FindsKnown(Current)
  <2> DEFINE a == Current
  <2>0. Mirrors(a) /\ DestinationVerified(a) /\ a.target = "local" /\ ~Consented(a)
    BY <1>1, <1>2, <1>5, CurrentMirrors DEF InAction
  <2> HIDE DEF a
  <2> SUFFICES ASSUME a.kind = "transfer", a.path \in DOMAIN local
               PROVE  /\ local[a.path].type = "file"
                      /\ local[a.path].content = RecordAt(previous, a.path).destination.checksum
    BY DEF FindsKnown, a
  <2>1. LocalIs(a.path, a.destination)
    BY <2>0 DEF DestinationVerified, SideIs
  <2>2. /\ Present(a.destination) /\ a.destination.type = local[a.path].type
        /\ a.destination.type = "file" /\ a.destination.checksum # 0 =>
             a.destination.checksum = local[a.path].content
    BY <1>1, <2>1, LocalIsMeans
  <2>3. a.destination.type = "file" /\ KnownVersion(a)
    BY <2>0, <2>2 DEF Mirrors
  <2> QED
    BY <1>5, <2>2, <2>3 DEF KnownVersion
<1>6. MirrorVerified'
  <2>1. /\ Current' = Current /\ local' = local /\ previous' = previous /\ request' = request
        /\ pc' # "commit"
    BY <1>2 DEF Current
  <2> QED
    BY <1>5, <2>1
    DEF MirrorVerified, FindsKnown, Consented, DestroysDirectory, ActionType, RecordAt, HasRecord
<1>7. RemoteChecksums => ConsentedLossOnly'
  BY <1>2 DEF MirrorInv, ConsentedLossOnly
<1> QED
  BY <1>4, <1>6, <1>7 DEF MirrorInv

\* What is removed to be replaced is removed by consent.
LEMMA MirrorRemoves == ASSUME MirrorInv, RemoveReplaced PROVE MirrorInv'
<1>1. MirrorTypeInv /\ TreesInv /\ StepInv /\ StepTyped /\ (RemoteChecksums => ConsentedLossOnly)
  BY CurrentMirrors DEF MirrorInv, MirrorTypeInv
<1>2. /\ pc = "replace" /\ pc' = "mutate"
      /\ UNCHANGED <<request, previous, baseline, seenLocal, seenRemote, plan, step, raced>>
      /\ lost' = lost \cup Destroyed("local", local, local') \cup Destroyed("remote", remote, remote')
  BY DEF RemoveReplaced, Goto, Mutate, disk
<1>3. Consented(Current)
  BY <1>1, <1>2, CurrentMirrors DEF InAction, StepInv, Mirrors
<1>4. StepInv'
  BY <1>1, <1>2 DEF StepInv, InAction, Current
<1>5. MirrorTypeInv'
  <2>1. TreesMove
    BY <1>1, RemoveReplacedMoves
  <2>2. IsBaseline(baseline') /\ pc' # "plan"
    BY <1>1, <1>2 DEF MirrorTypeInv
  <2> QED
    BY <1>1, <1>2, <1>4, <2>1, <2>2, MirrorTyped
<1>6. MirrorVerified'
  <2>1. Current' = Current /\ request' = request
    BY <1>2 DEF Current
  <2> QED
    BY <1>3, <2>1 DEF MirrorVerified, Consented, DestroysDirectory, ActionType
<1>7. RemoteChecksums => ConsentedLossOnly'
  BY <1>1, <1>2, <1>3, MirrorLoses
<1> QED
  BY <1>5, <1>6, <1>7 DEF MirrorInv

LEMMA MirrorApplies == ASSUME MirrorInv, Apply PROVE MirrorInv'
<1>1. MirrorTypeInv /\ TreesInv /\ StepInv /\ StepTyped /\ (RemoteChecksums => ConsentedLossOnly)
  BY CurrentMirrors DEF MirrorInv, MirrorTypeInv
<1>2. /\ pc = "mutate" /\ pc' = "record"
      /\ UNCHANGED <<request, previous, baseline, seenLocal, seenRemote, plan, step, raced>>
      /\ lost' = lost \cup Destroyed("local", local, local') \cup Destroyed("remote", remote, remote')
      /\ IF Current.target = "local"
         THEN local' \in LocalResults(Current) /\ remote' = remote
         ELSE local' = local /\ remote' \in RemoteResults(Current)
  BY DEF Apply, Goto, Mutate, disk
<1>3. /\ IsAction(Current) /\ Mirrors(Current) /\ Current.target \in {"local", "remote"}
      /\ Current.target = "remote" => Remembered(Current.destination, remote, clock)
  BY <1>1, <1>2, CurrentMirrors DEF InAction, StepTyped, TargetSide, Destination
<1>4. StepInv'
  BY <1>1, <1>2 DEF StepInv, InAction, Current
<1>5. MirrorTypeInv'
  <2>1. TreesMove
    BY <1>1, ApplyMoves
  <2>2. IsBaseline(baseline') /\ pc' # "plan"
    BY <1>1, <1>2 DEF MirrorTypeInv
  <2> QED
    BY <1>1, <1>2, <1>4, <2>1, <2>2, MirrorTyped
<1>6. MirrorVerified'
  BY <1>2 DEF MirrorVerified
<1>7. CASE Consented(Current)
  <2>1. RemoteChecksums => ConsentedLossOnly'
    BY <1>1, <1>2, <1>7, MirrorLoses
  <2> QED
    BY <1>5, <1>6, <2>1 DEF MirrorInv
<1>8. CASE ~Consented(Current)
  <2>1. Spared(local, local')
    <3>1. CASE Current.target = "local"
      BY <1>2, <1>3, <1>8, <3>1, LocalIsSpared
    <3>2. CASE Current.target = "remote"
      BY <1>2, <3>2, SameSaves, SavedIsSpared
    <3> QED
      BY <1>3, <3>1, <3>2
  <2>2. RemoteChecksums => Spared(remote, remote')
    <3>1. CASE Current.target = "local"
      BY <1>2, <3>1, SameSaves, SavedIsSpared
    <3>2. CASE Current.target = "remote"
      BY <1>1, <1>2, <1>3, <1>8, <3>2, RemoteIsSpared
    <3> QED
      BY <1>3, <3>1, <3>2
  <2>3. RemoteChecksums => ConsentedLossOnly'
    BY <1>1, <1>2, <2>1, <2>2, MirrorLoses
  <2> QED
    BY <1>5, <1>6, <2>3 DEF MirrorInv
<1> QED
  BY <1>7, <1>8

\* A fetch keeps the version that it is going to replace, and so does its part.
LEMMA MirrorFetches == ASSUME MirrorInv, Fetch PROVE MirrorInv'
<1>1. MirrorTypeInv /\ TreesInv /\ StepInv /\ StepTyped /\ (RemoteChecksums => ConsentedLossOnly)
  BY CurrentMirrors DEF MirrorInv, MirrorTypeInv
<1>2. /\ pc = "mutate" /\ pc' = "commit" /\ IsDownload(Current)
      /\ UNCHANGED <<request, previous, baseline, seenLocal, seenRemote, plan, step, raced>>
      /\ lost' = lost \cup Destroyed("local", local, local') \cup Destroyed("remote", remote, remote')
  BY DEF Fetch, Mutate, disk
<1>3. TreesMove /\ fetched'.target \in Paths \ {Root} /\ fetched'.content \in Names
  BY <1>1, FetchMoves
<1>4. StepInv'
  BY <1>1, <1>2, <1>3 DEF StepInv, InAction, Current, IsDownload
<1>5. MirrorTypeInv'
  <2>1. IsBaseline(baseline') /\ pc' # "plan"
    BY <1>1, <1>2 DEF MirrorTypeInv
  <2> QED
    BY <1>1, <1>2, <1>3, <1>4, <2>1, MirrorTyped
<1>6. MirrorVerified'
  <2>1. Current' = Current /\ request' = request /\ previous' = previous
    BY <1>2 DEF Current
  <2> SUFFICES ASSUME RemoteChecksums, ~raced, ~Consented(Current)
               PROVE  /\ Current.path \in DOMAIN local' =>
                           /\ local'[Current.path].type = "file"
                           /\ local'[Current.path].content = RecordAt(previous, Current.path).destination.checksum
                      /\ fetched'.target = Current.path
    BY <1>2, <2>1
    DEF MirrorVerified, FindsKnown, Consented, DestroysDirectory, ActionType, RecordAt, HasRecord
  <2>2. FindsKnown(Current) /\ Current.kind = "transfer"
    BY <1>2 DEF MirrorInv, MirrorVerified, IsDownload
  <2>3. TypeAt(local, Current.path) # "directory"
    BY <2>2 DEF FindsKnown, TypeAt
  <2>4. /\ fetched'.target = Current.path
        /\ Current.path \in DOMAIN local' => Current.path \in DOMAIN local /\ local'[Current.path] = local[Current.path]
    BY <1>1, <2>3, FetchKeepsTarget
  <2> QED
    BY <2>2, <2>4 DEF FindsKnown
<1>7. RemoteChecksums => ConsentedLossOnly'
  BY <1>1, <1>2, FetchSaves, SavedIsSpared, MirrorLoses
<1> QED
  BY <1>5, <1>6, <1>7 DEF MirrorInv

LEMMA MirrorCommits == ASSUME MirrorInv, Commit PROVE MirrorInv'
<1>1. MirrorTypeInv /\ TreesInv /\ IsTree(local) /\ StepInv /\ StepTyped /\ (RemoteChecksums => ConsentedLossOnly)
  BY CurrentMirrors DEF MirrorInv, MirrorTypeInv, TreesInv
<1>2. /\ pc = "commit" /\ pc' = "record" /\ CommitAccepted(Current)
      /\ UNCHANGED <<request, previous, baseline, seenLocal, seenRemote, plan, step, raced>>
      /\ remote' = remote
      /\ local' = Without(With(local, fetched.target, LocalFile(fetched.content)), PartPath(fetched.target))
      /\ lost' = lost \cup Destroyed("local", local, local') \cup Destroyed("remote", remote, remote')
  BY DEF Commit, Goto, Mutate, disk
<1>3. StepInv'
  BY <1>1, <1>2 DEF StepInv, InAction, Current
<1>4. MirrorTypeInv'
  <2>1. TreesMove
    BY <1>1, CommitMoves
  <2>2. IsBaseline(baseline') /\ pc' # "plan"
    BY <1>1, <1>2 DEF MirrorTypeInv
  <2> QED
    BY <1>1, <1>2, <1>3, <2>1, <2>2, MirrorTyped
<1>5. MirrorVerified'
  BY <1>2 DEF MirrorVerified
<1>6. fetched.target \in Paths \ {Root} /\ IsDownload(Current)
  BY <1>1, <1>2 DEF StepTyped
<1>7. ASSUME RemoteChecksums, ~Consented(Current), ~raced
      PROVE  fetched.target \in DOMAIN local =>
               local[fetched.target].content = RecordAt(previous, fetched.target).destination.checksum
  BY <1>2, <1>6, <1>7 DEF MirrorInv, MirrorVerified, FindsKnown, IsDownload
<1>8. RemoteChecksums => Consented(Current) \/ raced \/ Spared(local, local')
  BY <1>1, <1>2, <1>6, <1>7, CommitIsSpared
<1>9. RemoteChecksums => ConsentedLossOnly'
  BY <1>1, <1>2, <1>8, SameSaves, SavedIsSpared, MirrorLoses
<1> QED
  BY <1>4, <1>5, <1>9 DEF MirrorInv

\* A one-way run makes no copies.
LEMMA MirrorsDoNotCopy == MirrorTypeInv => ~CrashDuringCopy
  BY CurrentMirrors DEF CrashDuringCopy, InAction, Mirrors

LEMMA MirrorCrashes == ASSUME MirrorInv, CrashDuringUpload \/ CrashDuringRemove PROVE MirrorInv'
<1>1. MirrorTypeInv /\ TreesInv /\ StepInv /\ StepTyped /\ (RemoteChecksums => ConsentedLossOnly)
  BY CurrentMirrors DEF MirrorInv, MirrorTypeInv
<1>2. /\ pc' = "idle"
      /\ UNCHANGED <<request, previous, baseline, seenLocal, seenRemote, plan, step, raced>>
      /\ lost' = lost \cup Destroyed("local", local, local') \cup Destroyed("remote", remote, remote')
  BY DEF CrashDuringUpload, CrashDuringRemove, End, Mutate, disk
<1>3. StepInv' /\ MirrorVerified'
  BY <1>1, <1>2 DEF StepInv, InAction, MirrorVerified
<1>4. MirrorTypeInv'
  <2>1. TreesMove
    BY <1>1, CrashDuringUploadMoves, CrashDuringRemoveMoves
  <2>2. IsBaseline(baseline') /\ pc' # "plan"
    BY <1>1, <1>2 DEF MirrorTypeInv
  <2> QED
    BY <1>1, <1>2, <1>3, <2>1, <2>2, MirrorTyped
<1>5. CASE CrashDuringUpload
  <2>1. RemoteChecksums => ConsentedLossOnly'
    BY <1>1, <1>2, <1>5, CrashDuringUploadSaves, SavedIsSpared, MirrorLoses
  <2> QED
    BY <1>3, <1>4, <2>1 DEF MirrorInv
<1>6. CASE CrashDuringRemove
  <2>1. Consented(Current)
    BY <1>1, <1>6, CurrentMirrors DEF CrashDuringRemove, InAction, StepInv, Mirrors
  <2>2. RemoteChecksums => ConsentedLossOnly'
    BY <1>1, <1>2, <2>1, MirrorLoses
  <2> QED
    BY <1>3, <1>4, <2>2 DEF MirrorInv
<1> QED
  BY <1>5, <1>6

\* An edit ends the guard of the current action.
LEMMA MirrorEdits == ASSUME MirrorInv, EditLocal \/ EditRemote PROVE MirrorInv'
<1>1. MirrorTypeInv /\ TreesInv /\ SeenInv /\ StepInv
  BY DEF MirrorInv, MirrorTypeInv
<1>2. /\ pc' = pc /\ raced' = TRUE
      /\ UNCHANGED <<request, previous, baseline, plan, step, fetched, lost>>
  BY DEF EditLocal, EditRemote, Edit, disk
<1>3. StepInv' /\ MirrorVerified'
  BY <1>1, <1>2 DEF StepInv, InAction, Current, MirrorVerified, IsDownload
<1>4. MirrorTypeInv'
  <2>1. TreesInv' /\ IsBaseline(previous)' /\ MirrorPlanInv'
    BY <1>1, <1>2, EditMoves, MirrorKeptPlan
  <2>2. /\ SeenInv'
        /\ Root \in DOMAIN seenLocal' <=> Root \in DOMAIN seenLocal
        /\ Root \in DOMAIN seenLocal' => seenLocal'[Root] = seenLocal[Root]
        /\ Root \in DOMAIN seenRemote' <=> Root \in DOMAIN seenRemote
        /\ Root \in DOMAIN seenRemote' => seenRemote'[Root] = seenRemote[Root]
    BY <1>1, EditSees
  <2>3. RootsUsable(seenLocal, seenRemote) => RootsUsable(seenLocal, seenRemote)'
    BY <1>2, <2>2 DEF RootsUsable
  <2>4. RootsInv'
    BY <1>1, <1>2, <2>3 DEF MirrorTypeInv, RootsInv
  <2>5. IsBaseline(baseline)'
    BY <1>1, <1>2 DEF MirrorTypeInv
  <2> QED
    BY <1>3, <2>1, <2>2, <2>4, <2>5 DEF MirrorTypeInv
<1>5. RemoteChecksums => ConsentedLossOnly'
  BY <1>2 DEF MirrorInv, ConsentedLossOnly
<1> QED
  BY <1>3, <1>4, <1>5 DEF MirrorInv

\* What a second scan finds can be saved.
LEMMA NewStateIsBaseline ==
  ASSUME NEW source, NEW destination, IsSnapshot(source), IsSnapshot(destination)
  PROVE  IsBaseline(NewState(source, destination))
<1> DEFINE state == NewState(source, destination)
<1>1. /\ state.found
      /\ DOMAIN state.entries = DOMAIN source \cup DOMAIN destination
      /\ \A p \in DOMAIN state.entries :
           /\ state.entries[p].source = EntryAt(source, p)
           /\ state.entries[p].destination = EntryAt(destination, p)
  BY DEF NewState
<1> HIDE DEF state
<1>2. DOMAIN state.entries \subseteq Paths /\ IsFiniteSet(DOMAIN state.entries)
  BY <1>1, FS_Union DEF IsSnapshot
<1>3. IsBaseline(state)
  BY <1>1, <1>2, EntryAtMeans DEF IsBaseline
<1> QED
  BY <1>3 DEF state

LEMMA MirrorNext == MirrorInv /\ [OneWayNext]_vars => MirrorInv'
<1> SUFFICES ASSUME MirrorInv, [OneWayNext]_vars PROVE MirrorInv'
  OBVIOUS
<1>0. StepInv /\ SeenInv /\ IsBaseline(baseline) /\ plan \in Seq(Actions)
  BY DEF MirrorInv, MirrorTypeInv, MirrorPlanInv
<1>1. CASE Start
  BY <1>1, MirrorStart
<1>2. CASE AcceptOneWayPlan
  BY <1>2, MirrorAccepts
<1>3. CASE RefuseConflicts \/ SourceGone \/ DestinationChanged \/ OperationRefused
           \/ OperationFails("failed") \/ OperationFails("canceled") \/ Crash
  <2>1. /\ TreesStay /\ pc' = "idle" /\ baseline' = baseline
        /\ UNCHANGED <<request, previous, seenLocal, seenRemote, plan, step, fetched, raced, lost>>
    BY <1>3 DEF RefuseConflicts, SourceGone, DestinationChanged, OperationRefused, OperationFails, Crash,
                EndWithJournal, End, TreesStay, disk, history
  <2> QED
    BY <1>0, <2>1, MirrorEnds DEF MirrorEnding
<1>4. CASE RemoveRecovery \/ RemoveState
  <2>1. /\ TreesStay /\ pc' = "idle" /\ baseline' \in {baseline, NoState}
        /\ UNCHANGED <<request, previous, seenLocal, seenRemote, plan, step, fetched, raced, lost>>
    BY <1>4 DEF RemoveRecovery, RemoveState, TreesStay, run, history
  <2>2. IsBaseline(baseline')
    BY <1>0, <2>1, NothingIsSeen DEF IsAgreed
  <2> QED
    BY <2>1, <2>2, MirrorEnds DEF MirrorEnding
<1>5. CASE SaveState
  <2>1. /\ TreesStay /\ pc' = "idle"
        /\ UNCHANGED <<request, previous, seenLocal, seenRemote, plan, step, fetched, raced, lost>>
        /\ baseline' = NewState(Filter(Source(seenLocal, seenRemote)), Filter(Destination(seenLocal, seenRemote)))
    BY <1>5 DEF SaveState, End, TreesStay, history
  <2>2. IsSnapshot(Source(seenLocal, seenRemote)) /\ IsSnapshot(Destination(seenLocal, seenRemote))
    BY <1>0 DEF SeenInv, Source, Destination
  <2>3. IsBaseline(baseline')
    BY <2>1, <2>2, FilterKeeps, NewStateIsBaseline
  <2> QED
    BY <2>1, <2>3, MirrorEnds DEF MirrorEnding
<1>6. CASE Scan \/ PostScanFirst \/ PostScanSecond
  <2>1. pc' \notin InAction /\ (pc' = "plan" => RootsUsable(seenLocal', seenRemote'))
    BY <1>6 DEF Scan, PostScanFirst, PostScanSecond, InAction
  <2>2. seenLocal' \in {seenLocal, LocalScan} /\ seenRemote' \in {seenRemote, RemoteScan}
    BY <1>6 DEF Scan, PostScanFirst, PostScanSecond, ScanSecond
  <2>3. /\ TreesStay
        /\ UNCHANGED <<request, previous, baseline, plan, step, fetched, raced, lost>>
    BY <1>6 DEF Scan, PostScanFirst, PostScanSecond, TreesStay, disk, history
  <2> QED
    BY <2>1, <2>2, <2>3, MirrorLooks DEF MirrorLooking
<1>7. CASE SkipAction \/ ActionDone
  <2>1. /\ TreesStay /\ pc' = "next" /\ step' = step + 1
        /\ UNCHANGED <<request, previous, baseline, seenLocal, seenRemote, plan, fetched, raced, lost>>
    BY <1>7 DEF SkipAction, ActionDone, TreesStay, disk, history
  <2> QED
    BY <2>1, MirrorGoesOn DEF MirrorGoing
<1>8. CASE TakeAction
  <2>1. /\ TreesStay /\ pc' = "verify" /\ step' = step /\ step <= Len(plan) /\ Current.kind # "skip"
        /\ UNCHANGED <<request, previous, baseline, seenLocal, seenRemote, plan, fetched, raced, lost>>
    BY <1>8 DEF TakeAction, Goto, TreesStay, disk, history
  <2>2. step \in DOMAIN plan
    <3>1. DOMAIN plan = 1 .. Len(plan) /\ Len(plan) \in Nat
      BY <1>0
    <3> QED
      BY <1>0, <2>1, <3>1 DEF StepInv
  <2> QED
    BY <2>1, <2>2, MirrorGoesOn DEF MirrorGoing
<1>9. CASE VerifyDestination
  BY <1>9, MirrorVerifies
<1>10. CASE RemoveReplaced \/ Apply \/ Fetch \/ Commit
  BY <1>10, MirrorRemoves, MirrorApplies, MirrorFetches, MirrorCommits
<1>11. CASE CrashDuringUpload \/ CrashDuringRemove
  BY <1>11, MirrorCrashes
<1>12. CASE EditLocal \/ EditRemote
  BY <1>12, MirrorEdits
<1>13. CASE UNCHANGED vars
  <2>1. /\ TreesStay
        /\ UNCHANGED <<request, previous, baseline, seenLocal, seenRemote, plan, lost>>
        /\ pc' = pc /\ step' = step /\ fetched' = fetched /\ raced' = raced
        /\ local' = local /\ Current' = Current
    BY <1>13 DEF vars, disk, history, run, TreesStay, Current
  <2>2. StepInv'
    BY <1>0, <2>1 DEF StepInv
  <2>3. MirrorTypeInv'
    <3>1. MirrorTypeInv /\ IsBaseline(baseline') /\ (pc' = "plan" => pc = "plan")
      BY <1>0, <2>1 DEF MirrorInv
    <3> QED
      BY <2>1, <2>2, <3>1, MirrorTyped
  <2>4. MirrorVerified'
    BY <2>1 DEF MirrorInv, MirrorVerified, FindsKnown, Consented, DestroysDirectory, ActionType, RecordAt, HasRecord
  <2>5. RemoteChecksums => ConsentedLossOnly'
    BY <2>1 DEF MirrorInv, ConsentedLossOnly
  <2> QED
    BY <2>3, <2>4, <2>5 DEF MirrorInv
<1> QED
  BY <1>1, <1>2, <1>3, <1>4, <1>5, <1>6, <1>7, <1>8, <1>9, <1>10, <1>11, <1>12, <1>13, MirrorsDoNotCopy
  DEF MirrorInv, OneWayNext, OneWayPlanStep, OneWayWorkStep, ExecutionStep, Environment, NoMoreRuns

LEMMA MirrorInvariance == OneWaySpec => []MirrorInv
<1>1. OneWayInit => MirrorInv
  BY MirrorInit
<1>2. MirrorInv /\ [OneWayNext]_vars => MirrorInv'
  BY MirrorNext
<1> QED
  BY <1>1, <1>2, PTL DEF OneWaySpec

\* Whatever users, other clients and crashes do, a push or pull destroys a version of
\* its destination that the baseline does not know only with --overwrite, where
\* --delete removes it, as part of a directory, or in a local file edited after it
\* was verified.
THEOREM LossIsConsented ==
  ASSUME RemoteChecksums
  PROVE  OneWaySpec => []ConsentedLossOnly
<1>1. MirrorInv => ConsentedLossOnly
  BY DEF MirrorInv
<1> QED
  BY <1>1, MirrorInvariance, PTL

\* Only users and other clients change the side that a push or pull reads, with or
\* without checksums: no action of the run writes to it, and what a fault or a crash
\* leaves half done or behind is at the destination.
THEOREM SourceIsRead ==
  OneWaySpec => [][~(EditLocal \/ EditRemote) => Source(local', remote') = Source(local, remote)]_vars
<1>1. MirrorInv /\ [OneWayNext]_vars =>
        [~(EditLocal \/ EditRemote) => Source(local', remote') = Source(local, remote)]_vars
  <2> SUFFICES ASSUME MirrorInv, OneWayNext, ~(EditLocal \/ EditRemote)
               PROVE  Source(local', remote') = Source(local, remote)
    OBVIOUS
  <2>0. MirrorTypeInv /\ StepTyped
    BY CurrentMirrors DEF MirrorInv
  <2>1. CASE RemoveReplaced \/ Apply \/ Fetch \/ Commit \/ CrashDuringUpload \/ CrashDuringRemove
    <3>1. pc \in InAction
      BY <2>1 DEF RemoveReplaced, Apply, Fetch, Commit, CrashDuringUpload, CrashDuringRemove, InAction
    <3>2. Current.target = TargetSide
      BY <2>0, <3>1, CurrentMirrors
    <3>3. /\ Current.target = "local" => remote' = remote
          /\ Current.target # "local" => local' = local
      <4>1. CASE RemoveReplaced \/ Apply
        BY <4>1 DEF RemoveReplaced, Apply, Mutate
      <4>2. CASE Fetch \/ Commit
        <5>1. Current.target = "local" /\ remote' = remote
          BY <2>0, <4>2 DEF Fetch, Commit, Mutate, StepTyped, IsDownload
        <5> QED
          BY <5>1
      <4>3. CASE CrashDuringUpload
        <5>1. Current.target = "remote" /\ local' = local
          BY <4>3 DEF CrashDuringUpload, Mutate
        <5> QED
          BY <5>1
      <4>4. CASE CrashDuringRemove
        <5>1. Current.target = "local" /\ remote' = remote
          BY <4>4 DEF CrashDuringRemove, Mutate
        <5> QED
          BY <5>1
      <4> QED
        BY <2>1, <4>1, <4>2, <4>3, <4>4
    <3> QED
      BY <3>2, <3>3 DEF Source, TargetSide, Destination
  <2>2. CASE Start \/ RefuseConflicts \/ AcceptOneWayPlan \/ TakeAction \/ ActionDone \/ SaveState \/ SourceGone
    BY <2>2 DEF Start, RefuseConflicts, AcceptOneWayPlan, TakeAction, ActionDone, SaveState, SourceGone, Source
  <2>3. CASE Scan \/ SkipAction \/ VerifyDestination \/ DestinationChanged \/ OperationRefused
             \/ PostScanFirst \/ PostScanSecond
    BY <2>3 DEF Scan, SkipAction, VerifyDestination, DestinationChanged, OperationRefused,
                PostScanFirst, PostScanSecond, Source
  <2>4. CASE OperationFails("failed") \/ OperationFails("canceled") \/ Crash \/ RemoveRecovery \/ RemoveState
             \/ UNCHANGED vars
    BY <2>4 DEF OperationFails, Crash, RemoveRecovery, RemoveState, vars, Source
  <2> QED
    BY <2>0, <2>1, <2>2, <2>3, <2>4, MirrorsDoNotCopy
    DEF OneWayNext, OneWayPlanStep, OneWayWorkStep, ExecutionStep, Environment, NoMoreRuns
<1> QED
  BY <1>1, MirrorInvariance, PTL DEF OneWaySpec
=============================================================================
