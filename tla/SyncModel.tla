----------------------------- MODULE SyncModel -----------------------------
(***************************************************************************)
(* The pure planning model of internal/sync: fingerprints, filters, the    *)
(* one-way planner (Build) and the three-way planner (BuildBidirectional). *)
(* There is no state here; the execution modules apply these plans.        *)
(*                                                                         *)
(* Data abstraction.  A relative path is the sequence of its name          *)
(* components, a name is a natural number, and the root "" is the empty    *)
(* sequence.  Checksums, ETags and modification times are naturals with 0  *)
(* for the empty string.  Glob patterns are given by the sets of paths     *)
(* they match.                                                             *)
(***************************************************************************)
EXTENDS Integers, Sequences, FiniteSets, SequencesExt

CONSTANTS
  UseIncludes,   \* whether the request names include patterns at all
  IncludeMatch,  \* the paths that some include pattern matches
  ExcludeMatch,  \* the paths that some exclude pattern matches
  CaseVariants   \* sets of spellings equal after case and Unicode folding

ASSUME FilterAssumption == UseIncludes \in BOOLEAN

-----------------------------------------------------------------------------
(* Paths *)

Root == <<>>
IsDescendant(p, parent) == IsStrictPrefix(parent, p)
Ancestors(p) == {SubSeq(p, 1, i) : i \in 0 .. Len(p)}
PathDepth(p) == IF p = Root THEN 0 ELSE Len(p) - 1

\* The order of sort.Strings on paths of one depth.
PathLess(p, q) ==
  \E i \in 1 .. Len(q) :
    /\ \A j \in 1 .. (i - 1) : j <= Len(p) /\ p[j] = q[j]
    /\ i > Len(p) \/ p[i] < q[i]

-----------------------------------------------------------------------------
(* Fingerprints *)

NoEntry == [type |-> "", size |-> 0, modified |-> 0, etag |-> 0, checksum |-> 0]
Present(e) == e.type # ""
EntryAt(snapshot, p) == IF p \in DOMAIN snapshot THEN snapshot[p] ELSE NoEntry

\* Times are seconds; an empty time is equivalent to nothing.
TimestampsEquivalent(a, b) ==
  /\ a # 0 /\ b # 0
  /\ a - b <= 2 /\ b - a <= 2

\* Checksums decide when both sides have one, then ETags, then the fallback.
SameContent(e, other, fallback) ==
  IF e.checksum # 0 /\ other.checksum # 0 THEN e.checksum = other.checksum
  ELSE IF e.etag # 0 /\ other.etag # 0 THEN e.etag = other.etag
  ELSE fallback

\* Mutant of Equal: sizes are compared instead of contents.
EqualBySize(e, other) ==
  Present(e) /\ Present(other) /\ e.type = other.type /\ e.size = other.size

Equal(e, other) ==
  /\ Present(e) /\ Present(other) /\ e.type = other.type
  /\ \/ e.type = "directory"
     \/ SameContent(e, other,
          e.size = other.size /\ TimestampsEquivalent(e.modified, other.modified))

Converged(e, other) ==
  /\ Present(e) /\ Present(other) /\ e.type = other.type
  /\ e.type = "directory" \/ SameContent(e, other, e.size = other.size)

MatchesBaseline(current, baseline) ==
  /\ Present(current) <=> Present(baseline)
  /\ Present(current) => Equal(current, baseline)

\* Mutant of EntriesMatch: two missing entries are taken for different.
EntriesMatchPresentOnly(left, right) == Present(left) /\ Present(right) /\ Equal(left, right)

EntriesMatch(left, right) ==
  /\ Present(left) <=> Present(right)
  /\ Present(left) => Equal(left, right)

-----------------------------------------------------------------------------
(* Filters and saved baselines *)

Selected(snapshot, p) ==
  \/ ~UseIncludes
  \/ \E q \in DOMAIN snapshot \cap IncludeMatch : p \in Ancestors(q)
Excluded(p) == Ancestors(p) \cap ExcludeMatch # {}

Filter(snapshot) ==
  [p \in {q \in DOMAIN snapshot : Selected(snapshot, q) /\ ~Excluded(q)} |-> snapshot[p]]

\* Two different spellings of one file name, in either tree.
PathIdentityCollision(left, right) ==
  \E spellings \in CaseVariants :
    Cardinality(spellings \cap (DOMAIN left \cup DOMAIN right)) > 1

\* A baseline maps paths to records; found is false when none is saved.
NoState == [found |-> FALSE, entries |-> <<>>]
NoRecord == [source |-> NoEntry, destination |-> NoEntry]

NewState(source, destination) ==
  [found |-> TRUE,
   entries |-> [p \in DOMAIN source \cup DOMAIN destination |->
                  [source |-> EntryAt(source, p),
                   destination |-> EntryAt(destination, p)]]]

HasRecord(previous, p) == previous.found /\ p \in DOMAIN previous.entries
RecordAt(previous, p) == IF HasRecord(previous, p) THEN previous.entries[p] ELSE NoRecord

-----------------------------------------------------------------------------
(* Actions and their order *)

Action(kind, p, target, source, destination, replace) ==
  [kind |-> kind, path |-> p, from |-> Root, target |-> target, replace |-> replace,
   source |-> source, destination |-> destination]

ActionType(a) == IF Present(a.source) THEN a.source.type ELSE a.destination.type

\* Mutant of ActionRank: files before the directories they go into.
ActionRankFilesFirst(a) ==
  CASE a.kind = "conflict" -> 0
    [] a.kind = "delete" -> 1
    [] a.kind \in {"transfer", "move", "copy"} -> 2
    [] OTHER -> 3

ActionRank(a) ==
  CASE a.kind = "conflict" -> 0
    [] a.kind = "delete" -> 1
    [] a.kind = "create-directory" -> 2
    [] a.kind \in {"transfer", "move", "copy"} -> 3
    [] OTHER -> 4

\* Deletions run deepest first, everything else shallowest first.
ActionBefore(a, b) ==
  IF ActionRank(a) # ActionRank(b) THEN ActionRank(a) < ActionRank(b)
  ELSE IF PathDepth(a.path) # PathDepth(b.path)
       THEN (PathDepth(a.path) < PathDepth(b.path)) # (a.kind = "delete")
  ELSE PathLess(a.path, b.path)

\* The ordered plan of a function from paths to actions.
SortActions(actions) ==
  LET position(p) == 1 + Cardinality({q \in DOMAIN actions :
                                        ActionBefore(actions[q], actions[p])})
  IN  [i \in 1 .. Cardinality(DOMAIN actions) |->
         actions[CHOOSE p \in DOMAIN actions : position(p) = i]]

HasConflict(plan) == \E i \in DOMAIN plan : plan[i].kind = "conflict"

-----------------------------------------------------------------------------
(* The one-way planner.  options = [delete, overwrite]. *)

CopyKind(source) == IF source.type = "directory" THEN "create-directory" ELSE "transfer"

PlanKind(source, destination, previous, p, options) ==
  LET baseline == RecordAt(previous, p)
      guarded(kind) == IF options.overwrite THEN kind ELSE "conflict"
      sourceChanged == ~Equal(source, baseline.source)
      destinationChanged == ~Equal(destination, baseline.destination)
  IN CASE ~Present(destination) ->
            IF Present(baseline.destination) THEN guarded(CopyKind(source)) ELSE CopyKind(source)
       [] ~Present(source) ->
            IF ~options.delete THEN "skip"
            ELSE IF HasRecord(previous, p) /\ destinationChanged THEN guarded("delete")
            ELSE "delete"
       [] Equal(source, destination) -> "skip"
       [] OTHER ->
            IF source.type # destination.type
            THEN IF source.type = "file" /\ ~options.delete THEN "conflict"
                 ELSE guarded(CopyKind(source))
            ELSE IF HasRecord(previous, p) /\ sourceChanged /\ ~destinationChanged
                 THEN "transfer" ELSE guarded("transfer")

PlanPath(source, destination, previous, p, options) ==
  LET kind == PlanKind(source, destination, previous, p, options)
  IN  Action(kind, p, "", source, destination,
        /\ Present(source) /\ Present(destination) /\ source.type # destination.type
        /\ kind # "conflict")

Build(source, destination, previous, options) ==
  LET s == Filter(source)
      d == Filter(destination)
  IN  SortActions([p \in DOMAIN s \cup DOMAIN d |->
        PlanPath(EntryAt(s, p), EntryAt(d, p), previous, p, options)])

-----------------------------------------------------------------------------
(* The three-way planner.  Records hold local in source, remote in destination. *)

Opposite(side) == IF side = "local" THEN "remote" ELSE "local"
BaselineOf(record, side) == IF side = "local" THEN record.source ELSE record.destination

\* Mutant of Propagate: the side that did not change overwrites the one that did.
PropagateBackwards(p, changedSide, source, destination) ==
  IF ~Present(destination) THEN Action("delete", p, changedSide, destination, source, FALSE)
  ELSE Action(CopyKind(destination), p, changedSide, destination, source,
         Present(source) /\ source.type # destination.type)

Propagate(p, changedSide, source, destination) ==
  LET target == Opposite(changedSide)
  IN  IF ~Present(source) THEN Action("delete", p, target, source, destination, FALSE)
      ELSE Action(CopyKind(source), p, target, source, destination,
             Present(destination) /\ source.type # destination.type)

PlanBidirectionalRoot(local, remote) ==
  CASE Present(local) /\ Present(remote) ->
         Action(IF local.type = "directory" /\ remote.type = "directory" THEN "skip" ELSE "conflict",
                Root, "", local, remote, FALSE)
    [] Present(local) /\ ~Present(remote) -> Action("create-directory", Root, "remote", local, remote, FALSE)
    [] Present(remote) /\ ~Present(local) -> Action("create-directory", Root, "local", remote, local, FALSE)
    [] OTHER -> Action("conflict", Root, "", local, remote, FALSE)

PlanBidirectionalPath(p, local, remote, previous) ==
  LET known == HasRecord(previous, p)
      record == RecordAt(previous, p)
      localChanged == IF known THEN ~MatchesBaseline(local, record.source) ELSE Present(local)
      remoteChanged == IF known THEN ~MatchesBaseline(remote, record.destination) ELSE Present(remote)
  IN CASE p = Root -> PlanBidirectionalRoot(local, remote)
       [] p # Root /\ EntriesMatch(local, remote) -> Action("skip", p, "", local, remote, FALSE)
       [] p # Root /\ ~EntriesMatch(local, remote) ->
            IF localChanged = remoteChanged THEN Action("conflict", p, "", local, remote, FALSE)
            ELSE IF localChanged THEN Propagate(p, "local", local, remote)
            ELSE Propagate(p, "remote", remote, local)

\* Whether anything below directory p on one side differs from the baseline.
SubtreeChanged(p, snapshot, previous, side) ==
  \E q \in DOMAIN snapshot \cup DOMAIN previous.entries :
    /\ IsDescendant(q, p)
    /\ ~MatchesBaseline(EntryAt(snapshot, q), BaselineOf(RecordAt(previous, q), side))

DestroysDirectory(a) ==
  \/ a.kind = "delete" /\ ActionType(a) = "directory"
  \/ a.replace /\ a.destination.type = "directory"

\* Mutant of ProtectChangedSubtrees: directories are removed whatever happened below them.
ProtectNothing(actions, local, remote, previous) == actions

\* Conflict instead of removing a directory whose subtree changed on its side.
ProtectChangedSubtrees(actions, local, remote, previous) ==
  LET snapshotOf(side) == IF side = "local" THEN local ELSE remote
      parents == {p \in DOMAIN actions :
                    /\ DestroysDirectory(actions[p])
                    /\ SubtreeChanged(p, snapshotOf(actions[p].target), previous, actions[p].target)}
      as(a, kind) == [a EXCEPT !.kind = kind, !.target = "", !.replace = FALSE]
  IN IF ~previous.found THEN actions
     ELSE [p \in DOMAIN actions |->
             CASE p \in parents -> as(actions[p], "conflict")
               [] /\ p \notin parents
                  /\ actions[p].kind # "conflict"
                  /\ \E parent \in parents : IsDescendant(p, parent) -> as(actions[p], "skip")
               [] OTHER -> actions[p]]

\* Pairs <<from, to>>: a deleted and an added file of one target side whose
\* fingerprints match each other and nothing else.
DetectedMoves(actions, previous) ==
  LET fingerprint(p) == BaselineOf(RecordAt(previous, p), Opposite(actions[p].target))
      onTarget(target, kind) == {p \in DOMAIN actions :
        actions[p].target = target /\ actions[p].kind = kind /\ ActionType(actions[p]) = "file"}
      removed(target) == {p \in onTarget(target, "delete") : Present(fingerprint(p))}
      added(target) == {p \in onTarget(target, "transfer") : ~Present(actions[p].destination)}
      unique(m, target) ==
        /\ Equal(actions[m[2]].source, fingerprint(m[1]))
        /\ \A r \in removed(target) \ {m[1]} : ~Equal(actions[m[2]].source, fingerprint(r))
        /\ \A q \in added(target) \ {m[2]} : ~Equal(actions[q].source, fingerprint(m[1]))
  IN IF ~previous.found THEN {}
     ELSE UNION {{m \in removed(target) \X added(target) : unique(m, target)} :
                   target \in {"local", "remote"}}

DetectMoves(actions, previous) ==
  LET moves == DetectedMoves(actions, previous)
      from(p) == CHOOSE q \in DOMAIN actions : <<q, p>> \in moves
  IN [p \in DOMAIN actions |->
        CASE \E m \in moves : m[2] = p ->
               [actions[p] EXCEPT !.kind = "move", !.from = from(p),
                                  !.destination = actions[from(p)].destination]
          [] \E m \in moves : m[1] = p -> [actions[p] EXCEPT !.kind = "skip", !.target = ""]
          [] OTHER -> actions[p]]

BuildBidirectional(localSnapshot, remoteSnapshot, previous) ==
  LET local == Filter(localSnapshot)
      remote == Filter(remoteSnapshot)
      paths == DOMAIN local \cup DOMAIN remote \cup DOMAIN previous.entries
      planned == [p \in paths |->
        PlanBidirectionalPath(p, EntryAt(local, p), EntryAt(remote, p), previous)]
  IN  SortActions(DetectMoves(
        ProtectChangedSubtrees(planned, local, remote, previous), previous))

-----------------------------------------------------------------------------
(* keep-both resolution.  prefer is "" (abort), "local" or "remote". *)

\* Mutant of ConflictCopyPath: the copy is given the name of the original.
SameNameCopy(p, side, entry) == p

\* A sibling name that depends on the losing side and fingerprint only.
Sibling(p, tag) == [p EXCEPT ![Len(p)] = @ * 10000 + tag]
ConflictCopyPath(p, side, entry) ==
  Sibling(p, 1000 + (IF side = "local" THEN 0 ELSE 4000) +
    (IF entry.checksum # 0 THEN entry.checksum
     ELSE IF entry.etag # 0 THEN 1000 + entry.etag
     ELSE 2000 + entry.size))

KeepBothPath(a, prefer) ==
  IF prefer = "local" THEN ConflictCopyPath(a.path, "remote", a.destination)
  ELSE ConflictCopyPath(a.path, "local", a.source)

KeepBothPossible(a, prefer, local, remote) ==
  /\ a.path # Root /\ a.source.type = "file" /\ a.destination.type = "file"
  /\ LET copy == KeepBothPath(a, prefer)
     IN  /\ copy \notin DOMAIN local \cup DOMAIN remote
         /\ copy \in DOMAIN Filter(copy :> [NoEntry EXCEPT !.type = "file"])

\* Mutant of KeepBothActions: the winner is installed without keeping the loser.
WinnerOnly(a, prefer) ==
  << Action("transfer", a.path, Opposite(prefer),
       IF prefer = "local" THEN a.source ELSE a.destination,
       IF prefer = "local" THEN a.destination ELSE a.source, FALSE) >>

\* Copy the losing version aside, bring the copy over, install the winner.
KeepBothActions(a, prefer) ==
  LET copy == KeepBothPath(a, prefer)
      losingSide == Opposite(prefer)
      losing == IF prefer = "local" THEN a.destination ELSE a.source
      winning == IF prefer = "local" THEN a.source ELSE a.destination
      step(kind, from, p, target, source, destination) ==
        [Action(kind, p, target, source, destination, FALSE) EXCEPT !.from = from]
  IN << step("copy", a.path, copy, losingSide, losing, NoEntry),
        step("transfer", copy, copy, prefer, losing, NoEntry),
        step("transfer", Root, a.path, losingSide, winning, losing) >>

KeepsAll(plan, prefer, local, remote) ==
  \A i \in DOMAIN plan :
    plan[i].kind = "conflict" => KeepBothPossible(plan[i], prefer, local, remote)

ResolveConflicts(plan, prefer) ==
  IF prefer = "" THEN plan
  ELSE FlattenSeq([i \in DOMAIN plan |->
         IF plan[i].kind = "conflict" THEN KeepBothActions(plan[i], prefer) ELSE <<plan[i]>>])
=============================================================================
