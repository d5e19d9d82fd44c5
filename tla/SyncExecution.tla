--------------------------- MODULE SyncExecution ---------------------------
(***************************************************************************)
(* What `ocis sync push`, `pull` and `bidirectional` have in common: the   *)
(* two trees, their scans, the application of one planned action, and      *)
(* everything that may happen between two steps of a run.                  *)
(*                                                                         *)
(* A step is one system call or request whose effect others can observe:   *)
(* an action is verified, recorded, applied and recorded as completed in   *)
(* separate steps.  Between any two steps the user edits the local tree,   *)
(* other clients edit the remote tree, an operation fails, the run is      *)
(* canceled or the process dies.  A scan of one side begins with one step  *)
(* and ends with the next; it sees any part of what is edited meanwhile.   *)
(* Runs of one binding do not overlap here.                                *)
(*                                                                         *)
(* The remote server is external: it grants a request carrying If-Match    *)
(* only for that ETag, refuses to write below a missing collection, and    *)
(* gives every write and every copy a new ETag.                            *)
(*                                                                         *)
(* The operators marked "Mutant of" are used by no action: each stands for *)
(* a bug that a property of the project excludes.                          *)
(***************************************************************************)
EXTENDS SyncModel

CONSTANTS
  Starts,           \* initial trees and baselines, and what may happen then: see IsStart
  EditPaths,        \* paths that users and other clients edit
  RemoteChecksums,  \* whether the server reports SHA1 checksums
  SizeClasses       \* contents have one of this many sizes

\* The first content and ETag that users, clients and runs give out.
FirstClock == 100

\* What validateSyncRequest accepts; prefer is "" without --conflict-strategy=keep-both.
IsRequest(r) ==
  /\ r \in [direction : {"push", "pull", "bidirectional"}, prefer : {"", "local", "remote"},
            delete : BOOLEAN, overwrite : BOOLEAN]
  /\ IF r.direction = "bidirectional" THEN ~r.delete /\ ~r.overwrite ELSE r.prefer = ""

Names == Nat \ {0}
Paths == Seq(Names)
Kinds == {"file", "directory"}

IsNode(node) ==
  /\ node \in [type : Kinds, content : Nat, etag : Nat, modified : Nat]
  /\ node.type = "file" => node.content # 0

\* Every node of a tree lies in a directory.
IsTree(tree) ==
  /\ DOMAIN tree \subseteq Paths /\ IsFiniteSet(DOMAIN tree)
  /\ \A p \in DOMAIN tree :
       /\ IsNode(tree[p])
       /\ \A q \in Ancestors(p) \ {p} : q \in DOMAIN tree /\ tree[q].type = "directory"

\* An ETag is of one content.
ETagsIdentify(tree) ==
  \A p \in DOMAIN tree :
    tree[p].type = "file" =>
      /\ tree[p].etag # 0
      /\ \A q \in DOMAIN tree :
           tree[q].etag = tree[p].etag => tree[q].type = "file" /\ tree[q].content = tree[p].content

\* What is recorded of a file, where checksums are known, has a checksum.
Entries == [type : Kinds \cup {""}, size : Nat, modified : Nat, etag : Nat, checksum : Nat]
IsEntry(entry) == entry \in Entries /\ (RemoteChecksums /\ entry.type = "file" => entry.checksum # 0)
IsBaseline(state) ==
  /\ DOMAIN state.entries \subseteq Paths /\ IsFiniteSet(DOMAIN state.entries)
  /\ ~state.found => DOMAIN state.entries = {}
  /\ \A p \in DOMAIN state.entries :
       IsEntry(state.entries[p].source) /\ IsEntry(state.entries[p].destination)

\* A start has two trees and a baseline, as servers, users and earlier runs leave
\* them, the requests that are made, and bounds on edits, faults and runs.
IsStart(start) ==
  /\ IsTree(start.local) /\ IsTree(start.remote) /\ ETagsIdentify(start.remote)
  /\ \A p \in DOMAIN start.remote : start.remote[p].etag < FirstClock
  /\ IsBaseline(start.baseline)
  /\ start.requests # {} /\ \A r \in start.requests : IsRequest(r)
  /\ start.edits \in Nat /\ start.faults \in Nat /\ start.runs \in Nat

ASSUME BoundsAssumption ==
  /\ RemoteChecksums \in BOOLEAN
  /\ SizeClasses \in Nat \ {0}
  /\ EditPaths \subseteq Paths
  /\ \A start \in Starts : IsStart(start)

VARIABLES
  local, remote,   \* the trees: functions from existing paths to nodes
  baseline,        \* the saved state of the binding
  journal,         \* the saved recovery journal of the binding
  pc, request, previous, seenLocal, seenRemote, plan, step, fetched,  \* the run
  outcome,         \* how the last run ended
  clock,           \* source of fresh contents and ETags
  requests,        \* the requests the user makes; never changes
  edits, faults, runs,  \* bounds: how many of each may still happen
  \* History, read by no action:
  origin,          \* trees and baseline before the first run of this attempt
  interference,    \* what else happened since then
  raced,           \* a tree was edited since the current action was verified
  touched,         \* actions of this run that changed a tree
  lost             \* file versions this run destroyed that the two sides never agreed on

run == <<pc, request, previous, seenLocal, seenRemote, plan, step, fetched>>
disk == <<baseline, journal>>
bounds == <<requests, edits, faults, runs>>
history == <<origin, interference, raced, touched, lost>>
vars == <<local, remote, disk, run, outcome, clock, bounds, history>>

-----------------------------------------------------------------------------
(* Trees *)

Directory == [type |-> "directory", content |-> 0, etag |-> 0, modified |-> 0]

\* Timestamps are compared only when a checksum is missing; ticks are 3s apart.
Now == IF RemoteChecksums THEN 0 ELSE 3 * clock
File(content) == [type |-> "file", content |-> content, etag |-> clock, modified |-> Now]
LocalFile(content) == [File(content) EXCEPT !.etag = 0]

Without(tree, p) == [q \in {r \in DOMAIN tree : r # p /\ ~IsDescendant(r, p)} |-> tree[q]]
With(tree, p, node) ==
  [q \in DOMAIN tree \cup {p} |-> IF q = p THEN node ELSE tree[q]]
WithDirectories(tree, p) ==
  [q \in DOMAIN tree \cup Ancestors(p) |-> IF q \in DOMAIN tree THEN tree[q] ELSE Directory]

TypeAt(tree, p) == IF p \in DOMAIN tree THEN tree[p].type ELSE ""
ParentExists(tree, p) == p = Root \/ TypeAt(tree, Front(p)) = "directory"
CanMkdirAll(tree, p) == \A q \in Ancestors(p) : TypeAt(tree, q) # "file"

Size(content) == 1 + (content % SizeClasses)
\* The fingerprint one side reports for a node.
LocalEntry(node) ==
  [type |-> node.type, size |-> IF node.type = "file" THEN Size(node.content) ELSE 0,
   modified |-> node.modified, etag |-> 0, checksum |-> node.content]
RemoteEntry(node) ==
  [LocalEntry(node) EXCEPT !.etag = node.etag,
     !.checksum = IF RemoteChecksums THEN node.content ELSE 0]

LocalScan == [p \in DOMAIN local |-> LocalEntry(local[p])]
RemoteScan == [p \in DOMAIN remote |-> RemoteEntry(remote[p])]

\* What a walk finds while the tree changes from what one scan would see to what another
\* would: the paths in `late` it reads after the change, the others before, and it gets to
\* a path only through directories.  The root has been read when the walk begins.
Glimpses(before, after) ==
  LET paths == DOMAIN before \cup DOMAIN after
      changed == {p \in paths \ {Root} : EntryAt(before, p) # EntryAt(after, p)}
      Glimpse(late) ==
        LET at(p) == IF p \in late THEN after ELSE before
            reached(p) ==
              \A q \in Ancestors(p) :
                q \in DOMAIN at(q) /\ (q # p => at(q)[q].type = "directory")
        IN  [p \in {q \in paths : reached(q)} |-> at(p)[p]]
  IN  {Glimpse(late) : late \in SUBSET changed}

\* Mutant of PartPath: a download writes its target in place.
PartPathInPlace(p) == p

\* Names the transfers and copies leave beside their target: X.part, .X.<random>.part,
\* .ocis-sync-copy-<random>
PartPath(p) == Sibling(p, 1)
UploadTempPath(p) == Sibling(p, 10 + clock)
CopyTempPath(p) == Sibling(p, 10 + clock)
PartialContent(content) == 500 + content
IsArtifact(p) == p # Root /\ p[Len(p)] >= 10000 /\ p[Len(p)] % 10000 < 1000

-----------------------------------------------------------------------------
(* The journal and the ends of a run *)

NoJournal == [status |-> "none"]
Journal(status, actions, completed, current) ==
  [status |-> status, plan |-> actions, completed |-> completed, current |-> current]

End(result) ==
  /\ pc' = "idle"
  /\ outcome' = result
  /\ UNCHANGED <<request, previous, seenLocal, seenRemote, plan, step, fetched>>

\* Mutant of EndWithJournal: a run that ends early takes its journal along.
EndWithoutJournal(status) == journal' = NoJournal /\ End(status)

\* updateSyncRecovery: the journal, if the run has one, stays with a status.
EndWithJournal(status) ==
  /\ journal' = IF journal = NoJournal THEN NoJournal ELSE [journal EXCEPT !.status = status]
  /\ End(status)

Goto(label) ==
  /\ pc' = label
  /\ UNCHANGED <<request, previous, seenLocal, seenRemote, plan, step, fetched>>

-----------------------------------------------------------------------------
(* Start of a run: load the baseline and scan both trees, the source first.  The step *)
(* that begins to scan a side sets what it sees; see Glimpses for edits until it ends. *)

Nothing == [target |-> Root, content |-> 0]

\* A run after an interrupted one belongs to the same attempt, unless a tree
\* was edited in between or something else is requested.
StartHistory ==
  /\ IF /\ outcome \in {"failed", "canceled", "crashed"}
        /\ "edit" \notin interference /\ request' = request
     THEN UNCHANGED <<origin, interference>>
     ELSE /\ origin' = [local |-> local, remote |-> remote, baseline |-> baseline]
          /\ interference' = {}
  /\ raced' = FALSE
  /\ touched' = {} /\ lost' = {}

Start ==
  /\ pc = "idle"
  /\ runs > 0
  /\ request' \in requests
  /\ previous' = baseline
  /\ seenLocal' = IF request'.direction = "pull" THEN <<>> ELSE LocalScan
  /\ seenRemote' = IF request'.direction = "pull" THEN RemoteScan ELSE <<>>
  /\ pc' = "scan"
  /\ plan' = <<>> /\ step' = 1 /\ fetched' = Nothing
  /\ outcome' = "none"
  /\ runs' = runs - 1
  /\ StartHistory
  /\ UNCHANGED <<local, remote, disk, clock, requests, edits, faults>>

\* The source of a one-way run has to exist, one of both sides otherwise, and
\* what exists has to be a directory.
RootsUsable(seenOnLocal, seenOnRemote) ==
  /\ CASE request.direction = "push" -> Root \in DOMAIN seenOnLocal
       [] request.direction = "pull" -> Root \in DOMAIN seenOnRemote
       [] OTHER -> Root \in DOMAIN seenOnLocal \cup DOMAIN seenOnRemote
  /\ \A seen \in {seenOnLocal, seenOnRemote} :
       Root \in DOMAIN seen => seen[Root].type = "directory"

ScanSecond ==
  IF request.direction = "pull" THEN seenLocal' = LocalScan /\ UNCHANGED seenRemote
  ELSE seenRemote' = RemoteScan /\ UNCHANGED seenLocal

Scan ==
  /\ pc = "scan"
  /\ ScanSecond
  /\ IF RootsUsable(seenLocal', seenRemote') THEN pc' = "plan" /\ UNCHANGED outcome
     ELSE pc' = "idle" /\ outcome' = "refused"
  /\ UNCHANGED <<local, remote, disk, clock, bounds, history,
                 request, previous, plan, step, fetched>>

-----------------------------------------------------------------------------
(* Applying the plan *)

Current == plan[step]
SourcePath(a) == IF a.from # Root THEN a.from ELSE a.path

LocalIs(p, expected) ==
  LET actual == IF p \in DOMAIN local THEN LocalEntry(local[p]) ELSE NoEntry
  IN  EntriesMatch(actual, expected)
RemoteIs(p, expected) ==
  LET actual == IF p \in DOMAIN remote THEN RemoteEntry(remote[p]) ELSE NoEntry
  IN  EntriesMatch(actual, expected)
SideIs(side, p, expected) ==
  IF side = "local" THEN LocalIs(p, expected) ELSE RemoteIs(p, expected)

\* Mutant of DestinationVerified: only remote destinations are verified.
RemoteDestinationVerified(a) ==
  a.target = "remote" /\ a.kind \notin {"move", "copy"} => RemoteIs(a.path, a.destination)

DestinationVerified(a) ==
  CASE a.kind = "move" -> SideIs(a.target, a.from, a.destination) /\ SideIs(a.target, a.path, NoEntry)
    [] a.kind = "copy" -> SideIs(a.target, a.from, a.source) /\ SideIs(a.target, a.path, a.destination)
    [] OTHER -> SideIs(a.target, a.path, a.destination)

SkipAction ==
  /\ pc = "next"
  /\ step <= Len(plan) /\ Current.kind = "skip"
  /\ step' = step + 1
  /\ UNCHANGED <<local, remote, disk, outcome, clock, bounds, history,
                 pc, request, previous, seenLocal, seenRemote, plan, fetched>>

VerifyDestination ==
  /\ pc = "verify"
  /\ DestinationVerified(Current)
  /\ Goto(IF Current.replace THEN "replace" ELSE "mutate")
  /\ raced' = FALSE
  /\ UNCHANGED <<local, remote, disk, outcome, clock, bounds, origin, interference, touched, lost>>

DestinationChanged ==
  /\ pc = "verify"
  /\ ~DestinationVerified(Current)
  /\ EndWithJournal("failed")
  /\ UNCHANGED <<local, remote, baseline, clock, bounds, history>>

\* Mutant of ETagHolds: requests carry no If-Match.
AnyETag(p, expected) == expected.type = "file" => p \in DOMAIN remote

\* If-Match protects files only: syncExpectedETag is empty for a directory.
ETagHolds(p, expected) ==
  expected.type = "file" => p \in DOMAIN remote /\ remote[p].etag = expected.etag

\* File versions that leave a tree for good although the source of the baseline
\* did not have them there, and whether its destination had.
Contents(tree) == {tree[p].content : p \in {q \in DOMAIN tree : tree[q].type = "file"}}
Destroyed(side, before, after) ==
  {[side |-> side, path |-> p, action |-> Current, raced |-> raced,
    known |-> RecordAt(previous, p).destination.checksum = before[p].content] :
     p \in {q \in DOMAIN before :
       /\ before[q].type = "file" /\ ~IsArtifact(q)
       /\ before[q].content \notin Contents(after)
       /\ RecordAt(previous, q).source.checksum # before[q].content}}

\* Effect of one mutation of the current action on both trees.
Mutate(local2, remote2) ==
  /\ local' = local2 /\ remote' = remote2
  /\ clock' = clock + 1
  /\ touched' = touched \cup {Current}
  /\ lost' = lost \cup Destroyed("local", local, local2) \cup Destroyed("remote", remote, remote2)

RemoveAccepted(a) ==
  a.target = "local" \/ (a.path \in DOMAIN remote /\ ETagHolds(a.path, a.destination))

RemoveReplaced ==
  /\ pc = "replace"
  /\ RemoveAccepted(Current)
  /\ IF Current.target = "local"
     THEN Mutate(Without(local, Current.path), remote)
     ELSE Mutate(local, Without(remote, Current.path))
  /\ Goto("mutate")
  /\ UNCHANGED <<disk, outcome, bounds, origin, interference, raced>>

\* What the local file system and the server do for the current action:
\* the set of resulting <<local, remote>>, empty when the operation is refused.
LocalResults(a) ==
  CASE a.kind = "delete" -> {Without(local, a.path)}
    [] a.kind = "create-directory" ->
         IF CanMkdirAll(local, a.path) THEN {WithDirectories(local, a.path)} ELSE {}
    [] a.kind = "copy" ->
         IF /\ TypeAt(local, a.from) = "file" /\ CanMkdirAll(local, Front(a.path))
            /\ a.path \notin DOMAIN local
         THEN {With(WithDirectories(local, Front(a.path)), a.path, LocalFile(local[a.from].content))}
         ELSE {}
    [] a.kind = "move" ->
         IF /\ a.from \in DOMAIN local /\ CanMkdirAll(local, Front(a.path))
            /\ TypeAt(local, a.path) # "directory"
         THEN {Without(With(WithDirectories(local, Front(a.path)), a.path, local[a.from]), a.from)}
         ELSE {}
    [] OTHER -> {}

RemoteResults(a) ==
  CASE a.kind = "delete" ->
         IF RemoveAccepted(a) THEN {Without(remote, a.path)} ELSE {}
    [] a.kind = "create-directory" ->
         IF a.path \in DOMAIN remote THEN {remote}
         ELSE IF ParentExists(remote, a.path) THEN {With(remote, a.path, Directory)} ELSE {}
    [] a.kind = "transfer" ->
         IF /\ TypeAt(local, SourcePath(a)) = "file" /\ ParentExists(remote, a.path)
            /\ TypeAt(remote, a.path) # "directory"
            /\ ~Present(a.destination) => a.path \notin DOMAIN remote
            /\ ETagHolds(a.path, a.destination)
         THEN {With(remote, a.path, File(local[SourcePath(a)].content))}
         ELSE {}
    [] a.kind \in {"move", "copy"} ->
         IF /\ a.from \in DOMAIN remote /\ a.path \notin DOMAIN remote
            /\ ParentExists(remote, a.path)
            /\ ETagHolds(a.from, IF a.kind = "move" THEN a.destination ELSE a.source)
         THEN LET copied == With(remote, a.path, [remote[a.from] EXCEPT !.etag = clock])
              IN  {IF a.kind = "move" THEN Without(copied, a.from) ELSE copied}
         ELSE {}
    [] OTHER -> {}

IsDownload(a) == a.kind = "transfer" /\ a.target = "local"

Apply ==
  /\ pc = "mutate"
  /\ ~IsDownload(Current)
  /\ IF Current.target = "local"
     THEN \E tree \in LocalResults(Current) : Mutate(tree, remote)
     ELSE \E tree \in RemoteResults(Current) : Mutate(local, tree)
  /\ Goto("record")
  /\ UNCHANGED <<disk, outcome, bounds, origin, interference, raced>>

\* os.Stat sends a download into an existing directory under its own name.
DownloadTarget(a) ==
  IF TypeAt(local, a.path) = "directory"
  THEN Append(a.path, Last(SourcePath(a))) ELSE a.path

\* Mutant of FetchAccepted: a partial download in the way is an error instead of a start.
FetchAcceptedOnce(a) ==
  /\ CanMkdirAll(local, Front(a.path))
  /\ PartPath(DownloadTarget(a)) \notin DOMAIN local
  /\ TypeAt(remote, SourcePath(a)) = "file"
  /\ ETagHolds(SourcePath(a), a.source)

\* MkdirAll, the no-clobber check, then GET with If-Match into X.part.
FetchAccepted(a) ==
  /\ CanMkdirAll(local, Front(a.path))
  /\ ~Present(a.destination) => DownloadTarget(a) \notin DOMAIN local
  /\ TypeAt(local, PartPath(DownloadTarget(a))) # "directory"
  /\ TypeAt(remote, SourcePath(a)) = "file"
  /\ ETagHolds(SourcePath(a), a.source)

Fetch ==
  /\ pc = "mutate" /\ IsDownload(Current)
  /\ FetchAccepted(Current)
  /\ LET got == remote[SourcePath(Current)]
     IN  /\ Mutate(With(WithDirectories(local, Front(Current.path)),
                        PartPath(DownloadTarget(Current)),
                        LocalFile(PartialContent(got.content))), remote)
         /\ fetched' = [target |-> DownloadTarget(Current), content |-> got.content]
  /\ pc' = "commit"
  /\ UNCHANGED <<disk, outcome, bounds, origin, interference, raced,
                 request, previous, seenLocal, seenRemote, plan, step>>

\* The verifying Stat, then the rename of X.part over whatever is there now.
CommitAccepted(a) ==
  /\ TypeAt(remote, SourcePath(a)) = "file"
  /\ ETagHolds(SourcePath(a), a.source)
  /\ TypeAt(local, fetched.target) # "directory"
  /\ TypeAt(local, PartPath(fetched.target)) = "file"

Commit ==
  /\ pc = "commit"
  /\ CommitAccepted(Current)
  /\ Mutate(Without(With(local, fetched.target, LocalFile(fetched.content)),
                    PartPath(fetched.target)), remote)
  /\ Goto("record")
  /\ UNCHANGED <<disk, outcome, bounds, origin, interference, raced>>

OperationRefused ==
  /\ \/ pc = "replace" /\ ~RemoveAccepted(Current)
     \/ /\ pc = "mutate" /\ ~IsDownload(Current)
        /\ {} = IF Current.target = "local" THEN LocalResults(Current) ELSE RemoteResults(Current)
     \/ pc = "mutate" /\ IsDownload(Current) /\ ~FetchAccepted(Current)
     \/ pc = "commit" /\ ~CommitAccepted(Current)
  /\ EndWithJournal("failed")
  /\ UNCHANGED <<local, remote, baseline, clock, bounds, history>>

-----------------------------------------------------------------------------
(* The second scan *)

PostScanFirst ==
  /\ pc = "next" /\ step > Len(plan)
  /\ IF request.direction = "pull" THEN seenRemote' = RemoteScan /\ UNCHANGED seenLocal
     ELSE seenLocal' = LocalScan /\ UNCHANGED seenRemote
  /\ pc' = "post-scan"
  /\ UNCHANGED <<local, remote, disk, outcome, clock, bounds, history,
                 request, previous, plan, step, fetched>>

PostScanSecond ==
  /\ pc = "post-scan"
  /\ ScanSecond
  /\ pc' = "compare"
  /\ UNCHANGED <<local, remote, disk, outcome, clock, bounds, history,
                 request, previous, plan, step, fetched>>

-----------------------------------------------------------------------------
(* Faults *)

Working == {"next", "verify", "replace", "mutate", "commit", "record",
            "post-scan", "compare", "finish"}

Fault ==
  /\ faults > 0
  /\ faults' = faults - 1

\* A request, a read or a journal write fails, or Ctrl-C cancels the context,
\* once the journal exists.
OperationFails(status) ==
  /\ pc \in Working \ {"finish"}
  /\ Fault
  /\ interference' = interference \cup {"fault"}
  /\ EndWithJournal(status)
  /\ UNCHANGED <<local, remote, baseline, clock, requests, edits, runs, origin, raced, touched, lost>>

\* The process dies, or fails where it writes no journal: before the first one
\* and while removing the last one.
Crash ==
  /\ pc # "idle"
  /\ Fault
  /\ interference' = interference \cup {"fault"}
  /\ End("crashed")
  /\ UNCHANGED <<local, remote, disk, clock, requests, edits, runs, origin, raced, touched, lost>>

\* It dies during an upload that must not clobber: the randomly named
\* temporary upload stays.
CrashDuringUpload ==
  /\ pc = "mutate"
  /\ Current.kind = "transfer" /\ Current.target = "remote" /\ ~Present(Current.destination)
  /\ TypeAt(local, SourcePath(Current)) = "file" /\ ParentExists(remote, Current.path)
  /\ UploadTempPath(Current.path) \notin DOMAIN remote
  /\ Fault
  /\ interference' = interference \cup {"fault"}
  /\ Mutate(local, With(remote, UploadTempPath(Current.path), File(local[SourcePath(Current)].content)))
  /\ End("crashed")
  /\ UNCHANGED <<disk, requests, edits, runs, origin, raced>>

\* It dies while it copies a local version aside: the temporary stays, with a part of
\* the contents, with all, or beside the copy that was linked to it.
CrashDuringCopy ==
  /\ pc = "mutate"
  /\ Current.kind = "copy" /\ Current.target = "local"
  /\ TypeAt(local, Current.from) = "file" /\ CanMkdirAll(local, Front(Current.path))
  /\ Fault
  /\ interference' = interference \cup {"fault"}
  /\ LET content == local[Current.from].content
         temporary == CopyTempPath(Current.from)
         there == WithDirectories(local, Front(Current.path))
     IN  \E written \in {PartialContent(content), content} :
         \E tree \in {there} \cup (IF written = content THEN LocalResults(Current) ELSE {}) :
           /\ temporary \notin DOMAIN tree
           /\ Mutate(With(tree, temporary, LocalFile(written)), remote)
  /\ End("crashed")
  /\ UNCHANGED <<disk, requests, edits, runs, origin, raced>>

\* It dies inside os.RemoveAll, which removes children one by one.
CrashDuringRemove ==
  /\ \/ pc = "replace"
     \/ pc = "mutate" /\ Current.kind = "delete"
  /\ Current.target = "local"
  /\ Fault
  /\ interference' = interference \cup {"fault"}
  /\ \E p \in {q \in DOMAIN local : IsDescendant(q, Current.path)} : Mutate(Without(local, p), remote)
  /\ End("crashed")
  /\ UNCHANGED <<disk, requests, edits, runs, origin, raced>>

-----------------------------------------------------------------------------
(* The user, other clients, and the state and recovery commands *)

Edit ==
  /\ edits > 0
  /\ edits' = edits - 1
  /\ interference' = interference \cup {"edit"}
  /\ raced' = TRUE
  /\ clock' = clock + 1
  /\ UNCHANGED <<disk, pc, request, previous, plan, step, fetched,
                 outcome, requests, faults, runs, origin, touched, lost>>

\* Whether a side is being scanned.
Scanning(side) ==
  pc \in IF (side = "remote") = (request.direction = "pull")
         THEN {"scan", "post-scan"} ELSE {"plan", "compare"}

\* Trees reachable from tree by writing, creating, deleting or renaming; the root
\* may go and come back, as a directory or a file.
Edited(tree, file) ==
  {With(tree, p, file) :
       p \in {q \in EditPaths : ParentExists(tree, q) /\ TypeAt(tree, q) # "directory"}}
  \cup {With(tree, p, Directory) : p \in {q \in EditPaths \ DOMAIN tree : ParentExists(tree, q)}}
  \cup {Without(tree, p) : p \in EditPaths \cap DOMAIN tree}
  \cup {Without(With(tree, m[2], tree[m[1]]), m[1]) :
          m \in {r \in EditPaths \X EditPaths :
                   /\ TypeAt(tree, r[1]) = "file" /\ r[2] \notin DOMAIN tree
                   /\ ParentExists(tree, r[2])}}

EditLocal ==
  /\ Edit
  /\ local' \in Edited(local, LocalFile(clock))
  /\ seenLocal' \in IF Scanning("local") THEN Glimpses(seenLocal, LocalScan') ELSE {seenLocal}
  /\ UNCHANGED <<remote, seenRemote>>

EditRemote ==
  /\ Edit
  /\ remote' \in Edited(remote, File(clock))
  /\ seenRemote' \in IF Scanning("remote") THEN Glimpses(seenRemote, RemoteScan') ELSE {seenRemote}
  /\ UNCHANGED <<local, seenLocal>>

\* `sync recovery remove` and `sync state remove` between runs.
RemoveRecovery ==
  /\ pc = "idle" /\ journal # NoJournal
  /\ Fault
  /\ journal' = NoJournal
  /\ UNCHANGED <<local, remote, baseline, run, outcome, clock, requests, edits, runs, history>>

RemoveState ==
  /\ pc = "idle" /\ baseline.found
  /\ Fault
  /\ baseline' = NoState
  /\ interference' = interference \cup {"edit"}
  /\ UNCHANGED <<local, remote, journal, run, outcome, clock, requests, edits, runs, origin, raced, touched, lost>>

-----------------------------------------------------------------------------
Init ==
  /\ \E start \in Starts :
       /\ local = start.local /\ remote = start.remote /\ baseline = start.baseline
       /\ requests = start.requests
       /\ edits = start.edits /\ faults = start.faults /\ runs = start.runs
  /\ journal = NoJournal
  /\ pc = "idle" /\ request = CHOOSE r \in requests : TRUE
  /\ previous = NoState
  /\ seenLocal = <<>> /\ seenRemote = <<>> /\ plan = <<>> /\ step = 1 /\ fetched = Nothing
  /\ outcome = "none"
  /\ clock = FirstClock
  /\ origin = [local |-> local, remote |-> remote, baseline |-> baseline]
  /\ interference = {} /\ raced = FALSE
  /\ touched = {} /\ lost = {}

\* The steps of applySyncPlan and of the scans around it.
ExecutionStep ==
  \/ Scan \/ SkipAction
  \/ VerifyDestination \/ DestinationChanged
  \/ RemoveReplaced \/ Apply \/ Fetch \/ Commit \/ OperationRefused
  \/ PostScanFirst \/ PostScanSecond

Environment ==
  \/ EditLocal \/ EditRemote
  \/ OperationFails("failed") \/ OperationFails("canceled")
  \/ Crash \/ CrashDuringUpload \/ CrashDuringCopy \/ CrashDuringRemove
  \/ RemoveRecovery \/ RemoveState

\* The bound on runs is used up; any other state without a step is a stuck run.
NoMoreRuns == pc = "idle" /\ runs = 0 /\ UNCHANGED vars

-----------------------------------------------------------------------------
(* Vocabulary of the properties *)

\* A tree without the names that dead transfers left.
Clean(tree) == [p \in {q \in DOMAIN tree : ~IsArtifact(q)} |-> tree[p]]

\* An attempt ended that began without such names, and no tree was edited while it lasted.
QuietEnd ==
  /\ pc = "idle" /\ outcome # "none" /\ "edit" \notin interference
  /\ origin.local = Clean(origin.local) /\ origin.remote = Clean(origin.remote)

=============================================================================
