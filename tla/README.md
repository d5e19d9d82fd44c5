# Verification of ocis-cli

TLA+ models of `ocis`, the command line client of ownCloud Infinite Scale, with
the TLC runs that check them on small instances and the TLAPS proofs of what
holds for all of them.  Paths of source files are relative to the repository;
`PROJECT.json` has the exact lines behind every definition.

```
cd tla
tlc -workers 2 -config BidirectionalRuns.cfg MCBidirectionalSync     # a run
tlapm Download_proofs.tla                                    # a proof
```

## 1. The system

`ocis` is one process per command.  It keeps no daemon; what survives a command
is on disk, in the keyring and on the server, and several commands may run at
once.  Whatever is hard about it comes from four sources: commands die or are
interrupted between any two steps; the server is changed by other clients
between any two requests; requests and answers get lost and are retried; and
within one command a pool of goroutines shares channels.

### Components

| component (source) | state it keeps | operations | interacts with |
|---|---|---|---|
| Sync planner (`internal/sync`) | none: pure functions | compare fingerprints, filter, one-way plan, three-way plan, protection of changed subtrees, moves, keep-both, order | called by the sync commands |
| Sync execution (`internal/app/sync/service.go`) | the two trees (local disk, remote Space) | scan, verify preconditions, transfer, copy, move, mkdir, delete; scan again | planner, WebDAV client, baseline store |
| Bidirectional runs (`internal/app/sync/bidirectional.go`, `conflict.go`) | recovery journal, baseline | load, scan, plan, journal, apply, compare, save, drop the journal | the same, and the journal store |
| Sync state, recovery, jobs (`state.go`, `recovery.go`, `job.go`) | the files of the three stores | list, show, export, remove, retry, add/run/remove a job | runs of the above |
| WebDAV downloads (`internal/webdav/client.go`) | `X.part`, `X.part.etag`, the destination | fetch, resume, verify, rename | server, retry transport |
| WebDAV and TUS uploads (`client.go`, `tus.go`, `credentials/upload_session.go`) | saved upload session, temporary remote file | PUT, PUT If-Match, PUT+MOVE without overwrite, TUS create/append/finish, verify | server, keyring |
| WebDAV metadata and mutations (`client.go`, `properties.go`) | none | PROPFIND, MKCOL, COPY, MOVE, DELETE with preconditions | server |
| Recursive transfers (`internal/transfer`) | queue, failures and progress channels, counters | walk, make directories, hand out files, transfer, sum progress, cancel | uploads, downloads |
| Retries (`internal/retry`, `internal/httpapi`) | attempt counter | repeat a request, POST too, after transport errors, 429 and 5xx | below every client |
| Profiles, configuration, secrets (`internal/app/runtime.go`, `identity.go`, `internal/config`, `internal/credentials`) | `config.json`, keyring items per profile | load, save, select, replace, remove | every command |
| Authentication (`internal/auth`, `auth_service.go`, `auth_setup_service.go`) | tokens | login by browser or password, refresh, logout, client registration | configuration, identity provider |
| Space selection (`space_service.go`) | the default Space of a profile | use, unset, resolve | configuration, Graph API |
| Spaces, users, groups, roles (`internal/app/spaces`, `admin`) | the default Space, which disabling clears | step-up guard, resolve names to IDs, protect the own account, write over the Graph API | server, configuration |
| Shares and public links (`internal/app/share`, `internal/sharing`) | none locally | check capabilities, resolve role and recipient, create, update in up to three requests, remove, answer | server |
| Filesystem commands (`internal/app/filesystem`) | none locally | mkdir --parents, touch, cp, mv, rm, put, tags and properties, tree and du | WebDAV, Graph |
| Batches (`filesystem/batch.go`) | the results so far | list of operations with stop, continue, dry-run and interrupt rules | filesystem commands, recursive transfers |
| Archives (`internal/app/archive`, `internal/archiver`) | a temporary and a destination file | preflight, download, validate, commit | server |
| Trash and versions (`trash_service.go`, `version_service.go`) | a destination file | resolve, restore, purge, download | WebDAV |
| Event watching (`event_service.go`, `internal/eventstream`) | the event under way, attempt counter, server delay, deadline | stream, decode, reconnect, stop | server |
| Notifications, activities, search, federation | none | single requests | server |
| Graph and HTTP clients | none | encode, send, decode, page | server |
| Commands, output, errors, logging | none | parse, render, classify | all |
| Build and release tools (`tools/`) | - | not part of the program | - |

### What is hard, and what makes each part correct

`PROJECT.json` lists every hazard at its line.  By part:

* **Planning.**  The kinds of change of two sides meet along paths that lie
  inside each other.  Correct means: the plan is the three-way merge where there
  is one, and a conflict exactly where there is none.
* **Applying a plan.**  The plan is older than the trees it is applied to, each
  action is several mutations, and the process may die between any two.  Correct
  means: no version is destroyed that the plan did not know; the journal names
  what was touched; a baseline is saved only for trees that agree; running again
  repairs.
* **Downloads and uploads.**  The file changes while it is transferred, in
  pieces, by calls that die.  Correct means: what is installed is one whole
  version; preconditions hold at the request that writes; repeating succeeds.
* **Recursive transfers.**  A sender, workers, a collector and a context race to
  end.  Correct means: nobody waits for ever, directories come before files, and
  the answer is true.
* **Profiles and secrets.**  Commands load and save everything without a lock,
  item by item, with network calls in between.  Correct means: the secrets of a
  profile are those of its identity, its default Space belongs to that identity,
  and what was saved is what is loaded.
* **Remote commands of several requests** (links, shares, administration, trash,
  versions).  Other clients and administrators act between any two requests, a
  request is repeated although it was carried out, and the command dies between
  two.  Correct means: what is reported was done, a half-done command leaves a
  state the user was told of, a link is never more open than before or after, and
  guards hold at the request that acts.
* **Filesystem commands, batches, archives.**  What was looked at is replaced
  before it is changed, a tree changes while it is walked, an archive is packed
  after it was measured.  Correct means: nothing is overwritten or removed
  unasked, the summary is what was done, and a walk lists a tree that was there.
* **Event watching.**  Connections break between any two lines; events, server
  delays, retries, a deadline and the user compete to decide what happens next.
  Correct means: only whole events are shown, each once and in order, the reason
  for ending is true, and a watch ends when it should.

## 2. The models

```
ThreeWayMerge (abstract)          AtomicFetch (abstract)
      ^ held against                    ^ INSTANCE ... WITH
SyncModel -> SyncExecution           Download      Upload      TransferPool      Accounts
               /      \                 |            |              |               |
 BidirectionalSync  OneWaySync   Download_proofs  Upload_proofs  TransferPool_proofs  Accounts_proofs
                \    /
              Sync_proofs

Requests --+-- Sharing ---------+
           |   (and Directory)  |
           +-- Administration --+-- RemoteCommands -- RemoteCommands_proofs
           +-- Recovery --------+
           +-- FileCommands -- Walks -- Batch -- Batch_proofs          Events -- Events_proofs

MC* and SyncInstances give the constants their values for TLC.
```

### SyncModel and ThreeWayMerge

`SyncModel` has the operators of `internal/sync`: `Equal`, `Converged`,
`Filter`, `Build`, `BuildBidirectional`, `ProtectChangedSubtrees`,
`DetectMoves`, `KeepBothActions`, `SortActions`.  A path is the sequence of its
names, a name a number; checksums, ETags and times are numbers with 0 for
"absent".  Names are not put together from characters: the conflict copy of
`ConflictCopyPath` is a sibling that depends on side and fingerprint only, which
is all `conflict.go:145` does.  Globs are given by the sets they match.

`ThreeWayMerge` is the specification: a merge of whole trees over a base,
without plans, actions or fingerprints, and the definition of trees that cannot
be merged.  `BidirectionalSync` is checked against it.

### SyncExecution, BidirectionalSync, OneWaySync

State: `local`, `remote` (trees of nodes with content, ETag and time), `baseline`
and `journal` (the two files), and the run in progress: `request`, `previous`
(the baseline it loaded), `seenLocal`/`seenRemote` (its scans), `plan`, `step`,
`fetched` and `pc`.  `lost`, `touched`, `origin` and `interference` are history:
versions destroyed, actions that mutated something, the trees a series of runs
began with and what disturbed it.

A scan takes time: the walk of one side begins with the step that sets what it
sees and ends with the next step of the run, and an edit in between is seen in
any part (`Glimpses`: each changed path is read before or after the edit, and
reached through directories only).  So a plan may be made of a tree that never
was, and so may a baseline.

| code | actions |
|---|---|
| `runLocked`, load of the baseline, the two scans | `Start`, `ScanLocal`, `ScanRemote` and their errors |
| plan, path identity, conflict report, keep-both | `RefuseIdentity`, `ReportConflict`, `AcceptPlan`; one way `RefuseConflicts`, `AcceptOneWayPlan` |
| recovery journal around an action (`bidirectional.go:190-240`) | `BeginAction`, `SourceChanged`, `RecordCompleted` |
| preconditions and mutations (`service.go:440-680`) | one action per file system call or request of `ExecutionStep`; `RemoveAll` removes children one by one |
| second scan, comparison, saving | `SaveBaseline`, `NotConverged`, `RemoveJournal`; `SaveState`, `SourceGone` |
| what is not the run | `Environment`: edits of either tree, failing requests, cancellation, death, removal of journal or baseline by the recovery commands |

A download into the tree is one action here, because `Download` shows that it
may be: it implements `AtomicFetch`.  The part files an interrupted transfer
leaves in the tree are kept, since the next scan sees them; so are the temporary
of an upload and that of a local copy (`CrashDuringUpload`, `CrashDuringCopy`).

### AtomicFetch and Download

`AtomicFetch` promises what callers rely on: a download leaves its destination
alone or replaces it, at one instant, by a version the server had during the
call.  `Download` is `downloadWithOptions` with `prepareResume`, `performDownload`,
verification and rename: one action per request, file system call and chunk of
the body.  It has `AtomicFetch` as an instance (`Fetch == INSTANCE AtomicFetch
WITH ...`), with the remote version, the version at the start of the call and the
destination as its variables; the run checks `FetchSpec`, the proofs show it for
all constants.  Servers come in kinds (with and without ETags, honouring `If-Range`
or not), calls with every combination of options; the file is replaced on the
server at any time; faults are lost connections, cancellation and death.

### Upload

`Upload` is `Upload`, `uploadNoClobber`, `put`, `verify`, `uploadTUS` and the
session store.  State: the versions of the local file (`source`), the saved
`session`, the server's file, temporary file and uploads, and the call in
progress.  A request may be lost before or after the server carried it out, and
is repeated up to `Retries` times.  Another client writes the file.

### TransferPool

`TransferPool` is `internal/transfer`: the walk, the sender on the unbuffered
queue, `Concurrency` workers, the failures channel with one place, the progress
channel and the context that the first failure cancels.  Tasks are numbered in
the order of the walk, `Parent` says which directory each lies in.

### Accounts

`Accounts` is what survives a command: `config` (the configuration file) and
`keyring` (for every profile four items and the marker that `Set` removes first
and writes last).  Every process has its own copies, `store` and `secrets`, since
a command loads all profiles, works, and saves all profiles.  `tokens` and `live`
are the identity provider's: the account of each token, and which refresh tokens
are not spent.  A default Space is represented by the account whose credentials
found it, so that `config[f].space` can be compared with the recorded `owner`.

| code | actions |
|---|---|
| `loadStore`, `selectProfile` | `Begin`, `LoadSecret`, `LoadFails`, `UnknownProfile` |
| `saveStore`, `credentials.Set` and `Delete`, `config.Save` | `RemoveMarker`, `WriteItem`, `WriteMarker` for one profile after the other in any order (a map), `SaveConfig` |
| `runServer` | `ServerAdd`, `ServerUse`, `ServerRemove` |
| `runAuthLogin`, `oidcLogin`, `runAuthLogout`, `setupOIDCClient` | `BasicLogin`, `OIDCLogin`, `Logout`, `Setup` |
| `newClientWithOptions` | `NotAuthenticated`, `Connect`, `Refresh` (with and without rotation), `RefreshRejected`, `RefreshLost` |
| `runSpace`, `unsetDefaultSpace`, `selectSpace` | `SpaceUse`, `SpaceUnset`, `ClearStaleSpace`, `Answered` |
| death, refusals of servers and of the keyring | `Die`, possible at every step |

`begun`, `overlapped` and `spoiled` are history: the secret each save began to
write, the processes that ran beside another, and which of three things the
design does not protect from has happened: saves of overlapping commands
(`raced`), a death while saving or a lost answer to a refresh (`died`), a Space
chosen with a token from `OCIS_ACCESS_TOKEN` (`foreign`).  Each property names
those it excepts; `SpaceOwned` excepts none.

### Requests

`Requests` is what all commands of several requests share, `httpapi.Client.Do`
included.  A command is the sequence of steps it has still to make (`todo`); a
step is a request or a decision, and what the answers said is in `seen`, by step.
`Ask` is a request that reads, `Change` one that changes something: it may be
carried out and answered, carried out with the answer lost, refused, or lost
before it arrives; an attempt without an answer is repeated up to `Retries`
times, a POST like any other.  `Die` is the death of the process between any two
steps.  `carried` (the changing steps the server carried out, in order) and
`unsure` (the answer to one was lost) are history, and what a command says of
itself is judged by them.

### Sharing, Administration, Recovery and RemoteCommands

Each module gives a script to every command of its part, in the order of the
code, with an action per step and the actions of the others who use the server.

| code | script | others |
|---|---|---|
| `createPublicLink`, `updatePublicLink` (`share/service.go:849`), revoking | capabilities, the request; read twice, set the password, PATCH, remove the password, read twice again | edit any field of the link, withdraw it |
| `addDirectShare`, `addFederatedShare`, `updateDirectShare`, `removeShare`, `respondToReceivedShare` | capabilities, stat, roles, recipient, invite; find the share, role, PATCH | put something else at the path, rename people |
| users, groups, roles (`internal/app/admin`) | step-up guard, lookups, own account, options, the change | rename, delete, change groups, age the session |
| Spaces (`internal/app/spaces`) | guard for `admin`, lookup, change; disabling also clears the default Space | rename, disable |
| trash and versions | list, change; stat, list versions, copy or download, measure, replace | delete, restore, move, save, write the destination |

`Directory` has how a selector resolves to one user, role or recipient.
`RemoteCommands` composes the three: the user starts one command, and may start
it again after it ended.  Properties: `AnswerIsHonest` (what a command says is
what `carried` says), `LinkStaysAsAsked` (no field changes unasked, and a link
is never open with part of a change), `SelfKept`, and `OnlyNamedIsLost`.

### FileCommands, Walks and Batch

`FileCommands` has `mkdir` with and without `--parents`, `touch`, `cp`, `mv`, `rm`,
one-file uploads, tags and properties over a remote tree.  `Walks` adds `tree` and
`du`, one PROPFIND per directory whose children are pushed on the steps to make,
and the archive commands: preflight, capabilities, download to a temporary file,
validation, commit.  `Batch` runs a list of operations: `Begin`, `Record`,
`PassOver` for what is skipped or planned, `Interrupt`, `Killed`.  A command
outside a batch is a batch of one.  Others change the tree and the destination
between any two steps.

### Events

`Events` is `runEventWatch` with `eventstream.Client.Watch` and its decoder.  The
wire is a sequence of lines; an event is a `data` line and the blank line that
hands it over, and a connection may break behind any line.

| code | actions |
|---|---|
| option checks, capability check | `Start`, `Check` |
| one connection, `decode` line by line, the handler | `Connect`, `Read` (with `Handle`), `EndOfStream`, `StreamCanceled` |
| attempt counter, server delay, `retry.Wait` | `Disconnected`, `Wait` |
| `--max-wait` and Ctrl-C | `Expire`, `Interrupt` |
| the server | `Publish`, `AskDelay`, `Break` |
| no code: the history is cut | `Forget` |

`torn` (events cut off by a break), `fruitless` (connections without an event
since the last one) and `heard` are history.  `MaxEvents` bounds the events that are
remembered, not those that are published: once nothing of them is on the wire or
under way, `Forget` drops them and numbers the next ones anew.  So there are
behaviours with events for ever, one for each connection that breaks, say.

## 3. The runs

| run | what it checks | instance |
|---|---|---|
| BidirectionalRuns | an undisturbed run makes both trees their three-way merge; it stops for a conflict exactly when there is none; what it plans succeeds (with two named exceptions); keep-both, preferring either side, has both versions on both sides if it succeeds and loses neither if it does not; interrupted and repeated, success still means the merge; the journal names every mutation at every instant; which versions can be destroyed while both trees are edited; a run that succeeded leaves nothing to do; when a journal goes; repeated runs settle | every pair of trees over `d`, `d/f`, `e` and over `e`, `g` with two contents, with a root that is missing or a file, and every baseline of such a tree or none, once and undisturbed; the family over `e`, `g` with one fault in two runs; five trees on each side with five baselines with one fault in four runs, and, with those over one file, with keep-both either way and one fault in two runs; one agreed tree with two edits, and with an edit and a fault, in two runs |
| OneWayRuns | pushes and pulls mirror the source, succeed when planned, destroy only what was asked for, and can be repeated | the trees of BidirectionalRuns for push; fewer for pull, with faults and with edits; all four combinations of `--delete` and `--overwrite` |
| DownloadSafe | nothing is spliced or mislabelled; expected ETags; refinement of `AtomicFetch`; repeating completes | three versions of 2, 3 and 2 chunks, one retry, three kinds of server, nine kinds of call, three faults |
| Uploads | a session belongs to its file; one version is installed; guards; success, verification, temporaries; repeating completes | three versions of 2, 3 and 2 bytes, one retry, seven kinds of call, one write by another client, three faults |
| Transfers | parents first, progress adds up, the answer is true, everything returns, repeating succeeds | a directory with one file and two files beside it, two workers, three kinds of call, two faults |
| AccountsSafe | a default Space belongs to the account of its profile; no mixture of two secrets and no marker without items; secrets match the identity; stored refresh tokens are good; what was saved is loaded; logout and removal erase | two profiles, three accounts (one with a password, one in `OCIS_ACCESS_TOKEN`), three tokens; any two commands after each other with one death, from nothing and from two profiles; any two at once on one profile; a third command after two that overlapped |
| RemoteCommands | what a command reports is what was done; a link is never open for longer or wider than asked; the own account is kept; only the named item is lost | every command with its options; links 1 and a direct share, three accounts, three groups, four Spaces, two files with two contents and one old version; two runs, two faults, one retry, one act of another client or administrator (two on files) |
| FileCommands | the summary is what was done; a walk lists the tree; nothing is overwritten or removed unasked | five paths on two levels, six first trees, every command with its options alone and two batches of three with all flags; two faults, one retry, two edits by others |
| Events | only whole events of the types asked for, once and in order; true reasons for ending; a watch ends unless events keep coming or a stream stays open | three types (one ends the session), requests with and without `--once`, `--max-wait` and types, and the refused ones; two retries, two events remembered at a time, three lines on the wire |
| SyncDirectoryRename, DownloadComplete416, KeepBothLocal | three disagreements of the code with its documentation, section 6 | parts of the above |

**Why the bounds are enough.**  The planner decides path by path and looks at
other paths only as ancestors, descendants and partners of a move: a directory, a
name in it and two names beside it have all of these relations.  Two contents
tell equal from different, three (baseline, left, right) occur with a missing
file.  Two edits are enough to change a file before and after it is verified,
one fault per run is enough to interrupt at every step, and one more run than
faults to see the repair.  Three versions are a file, its replacement, and one of
the size of the first; two and three chunks give prefixes that are empty, proper,
complete and longer than the other version.  Two workers are enough for every
race of the pool, since its channels serve one worker at a time; a third file
keeps the sender waiting while both are busy.  Two profiles are the one a command
is about and one it saves along; of the accounts one is signed in, one replaces
it, one has a password; a command that dies and one after it show what a save
that was cut off leaves, and two at once are the only way commands interfere.  A command of several
requests is judged by the requests of one run and what a run before it left: two
runs, and one act of another between any two requests, are an answer that is
stale when it is used (the six share IDs are more than two runs give away); two faults are an answer lost and its repetition refused,
or a death and an answer lost.  Two edits of a tree replace a file by a directory
or the reverse; three runs are the three operations of a batch.  Two events at a time tell
order from repetition; three lines hold an event and the beginning of the next;
two retries let an event reset a count that is not at its end.

**Fairness.**  A command goes on: every step of a run is weakly fair, since
requests have timeouts and file system calls return.  Faults and edits are not
fair and are bounded; a run that is repeated is repeated by the user
(`RetryingSpec`, and the call actions of `Download`, `Upload` and
`TransferPool`), which the liveness properties say in their names.  Planning is
fair as a change of `pc` (`WF_pc`), because TLC then need not evaluate a plan to
find out whether the action is enabled; exactly one of the plan steps always is.
In `TransferPool` every goroutine is fair by itself: the Go scheduler runs
every goroutine that can run.  In
`Events` the command is fair as a whole (it reads what arrives and goes on) and so
is its timer; nothing is asked of server, network and user, so a server that says
nothing for ever, one that breaks every connection, one that publishes without end
and one that does both are all among the behaviours.  The last two keep a watch
going, because an event starts the count of reconnections again, and so does a
stream that stays open; `WatchEnds` says that nothing else does, and with
`--max-wait` not even these.  `RemoteCommands` and `Batch` have no liveness
property and no fairness: their scripts get shorter with every step, but for the
repetitions, which are counted.

Deadlock is checked in every run: a model that has no more commands stutters in an
action that says so (`Rest`, `NoMoreRuns`, `Over`, `Ended`), and any other state
without a successor would be a command that sits on a step it can neither make,
repeat nor give up.

## 4. The proofs

tlapm proves, for every value of the constants that satisfies the named
assumptions:

| module | theorems | inductive invariant |
|---|---|---|
| `Download_proofs` | `TypeCorrect`, `LabelSafe`, `NoSplice`, `ExpectedDelivered`, `Refinement` | `TypeOK`, `LabelDescribesPart`, `DeliveredWhole`, and: what an attempt has fetched belongs to the version it was answered with (`GotIsCurrent`), the open part file is in the state its `pc` says (`PartMatchesPc`), and an expected ETag was compared (`GotIsExpected`) |
| `Sync_proofs` | `JournalNamed`, `NothingIsLeft`, `JournalOutlives`, `LossIsUnguarded`, `StopsIffUnmergeable`; `LossIsConsented`, `SourceIsRead` | the journal on disk is that of the run in progress (`JournalRuns`), its pending action is the current one (`JournalCurrent`), the run finishes after saving (`FinishedAfterBaseline`), and the baseline records only what converged (`BaselineConverged`). `RestInv`: while the second scans are compared and after a success, what was seen is what is there unless somebody edited, and the baseline is of it (`Settled`). `LossInv`: the trees are trees whose ETags identify contents (`TreesInv`), an ETag of a scan stands for its content or for nothing (`SeenInv`), records are of agreements (`RecordsInv`), a plan in progress removes and overwrites only what its record names (`PlanInv`), the local file of the current action is the one that was verified until somebody edits the trees (`Verified`), and `LossOnlyUnguarded`. `PlanningInv`: a run that plans has not ended and its roots are usable (`RootsInv`). `MirrorInv` says it of one-way runs: trees and records as before (`MirrorTypeInv`), and a plan in progress that touches the destination only, by consent or where the version is the baseline's (`MirrorPlanInv`); while it is made the roots are usable (`RootsInv`); the destination of the current action is the one that was verified (`MirrorVerified`), and `ConsentedLossOnly` |
| `Upload_proofs` | `TypeCorrect`, `SessionSafe`, `NoMixture`, `NoClobber`, `VerifiedPut`, `DeliveredOnSuccess`, `NoTemporaryLeft` | `TypeOK`, `SessionBelongsToSource`, every version in use is one the file had (`SourcesArePast`), the session in memory is the one the step assumes (`SessionMatchesPc`), and the guards of the two kinds of PUT hold where they are relied on (`GuardHolds`, `PutHolds`); a call has sent no more than the server holds, and that no more than the size announced (`TransferAdvances`), so that a complete session has been installed (`CompleteIsDelivered`) |
| `TransferPool_proofs` | `TypeCorrect`, `DirectoriesFirst`, `TruthfulAnswer`, `ProgressIsTrue` | `TypeOK`, `ParentsFirst`, what the walk has made (`WalkMatchesPc`), busy workers have tasks (`WorkersHaveTasks`), a task that has been handed out is done, in progress or failed (`NoTaskLost`), and a stopped pool has a failure or a cancelled context (`StoppedByFailure`); the bytes shown are the sum over the files (`ProgressAddsUp`) |
| `Accounts_proofs` | `TypeCorrect`, `SpaceOwnership`, `MarkersStandForWholeSecrets`, `SavesAreLoaded`, `LogoutIsComplete`, `StoredTokensLive`, `SecretsMatch`, `SpacesSeen` | `TypeOK`, running commands are commands (`Commanded`), every item is of an account or an issued token (`SecretsKnown`); every copy of the configuration is owned, also those in memory (`OwnedEverywhere`); a process not noted as overlapping is the only one (`AloneUnlessNoted`), and where a save is under way there is no marker and the items before the next one are written (`Midway`); a process that runs alone finds in the keyring the items and the finished profiles it wrote (`Kept`), and a logout is saving a client secret only, a removal nothing (`Erasing`); no refresh token is anywhere, on disk or in memory, for two profiles (`TokensApart`); and as long as no commands overlapped or died in a save: a stored token is live or its replacement is being saved (`StoredLive`), configuration and keyring match while nobody saves (`DiskMatches`), what a process that runs alone has in memory matches, is live and is that of the file (`MemoryMatches`, `MemoryLive`, `MemoryFresh`), and what it does not save is not in the keyring (`NothingElse`); the Spaces on disk and in the memory of such a process were seen by their owners (`SeenInv`) |
| `Events_proofs` | `TypeCorrect`, `HonestWatch` | `TypeOK`; a blank line follows the data of an event and nothing else, and only a broken connection ends behind data (`Framed`); what is under way was published and comes after all that was shown (`UnderWay`); an event that was cut off has no blank line coming (`TornApart`); the counter counts the connections without an event since the last one (`Counting`); a request that runs was accepted, and only a deadline that was asked for passes (`Asked`); and the two halves of `WatchIsHonest` |
| `RemoteCommands_proofs` | `SelfIsKept`, `AnswersAreHonest`, `NamedOnlyIsLost`, `LinkIsAsAsked` | `SelfKept`, and of the steps a command has still to make (`Ordered`): one that takes something from an account comes after the comparison with the own account, the comparison after the lookup, no lookup after the comparison, and once compared, the account found is not the own one; what is left is the end of the script, whose steps come in the order of their ranks (`Follow`, `Within`); the changes behind were carried out and, unless an answer got lost, are all that was (`Honest`); a Space that is being disabled is known or still to be looked up (`Cleared`); a file about to be replaced was received and measured (`Stored`, `Meant`); no two shares have one ID (`Registered`), and link 1 differs from what others made of it in what was asked, with the password set before and removed after the rest (`Linked`) |
| `Batch_proofs` | `NothingIsLost`, `StatusesAreHonest`, `WalksShowTheTree` | the remote tree is a tree and an operation with steps left has no outcome yet (`Running`); the steps left are the running command's own (`OwnSteps`); a removal comes right after the look at what is removed and a commit right after the validation of what was fetched, and what was seen then allows them (`Decided`). `HonestInv`: an operation that runs or waits to be recorded is counted and follows none that stopped the batch (`Counted`); what is there, and every directory that was looked at, is in the history of what was there (`Witnessed`); and for each kind of command what its steps left, what it has seen and what it has changed have to do with each other (`Stories`). `WalkTold`: the steps a walk has left cover disjoint parts of the tree, none of it found (`Apart`); what is found was there and lies within depth and limit (`Shown`); and, while nobody edits, what is there is found, to come or too deep (`Complete`) |

In each case the invariant alone is not inductive: that a label describes its
part file, for example, depends on what the attempt in progress will write next,
so the strengthening says for every `pc` what is known of the open file.  That
nobody disables the own account depends on the order of the steps that are left,
so `Ordered` speaks about all of them and is shown of every script first
(`ScriptSafe`).  That a profile's secrets are those of its account is false in
the middle of a save, when half of them are written: the invariant of `Accounts`
then says what the process that saves has in memory, that it is alone, and that
whatever it leaves out is not in the keyring; and since a refresh spends a token
on the server, that nobody else has the same one (`TokensApart`).  The other three theorems of `RemoteCommands` rest on one fact
about all scripts (`ScriptWithin`: each is a sequence of steps in increasing
rank, so no step occurs twice) and one about all actions (`Attempt`: a step is
passed, passed after a change that was carried out, or ends the command), from
which each invariant follows per kind of step and not per command.

That file commands lose nothing rests on a fact about trees: a path that is
missing has nothing below it (`MissingBelow`), so what is put there replaces
nothing; every request, and every edit by others, leaves a tree a tree
(`WithTree`, `CutTree`, `TransferTree`).  The rest is about the steps: listings
push visits of children on the steps still to make, so `MovesKeep` is shown for
any number of steps that are neither a removal nor a commit.  That statuses are
honest takes a story of each kind of command.  One that changes one thing has
carried it out exactly when the step for it is behind (`LoneStory`); `mkdir
--parents` has seen every component whose third step is behind (`ClimbStory`);
touch ends with a look at its file or found one at the start (`TouchStory`); and
walks and archives change nothing (`WalkStory`).

That tree and du show the tree needs no induction over its depth: each step left
covers a part of the tree (`Cover`), a visit its path and all below, a listing or a
look inside what lies below.  A step gives way to what it shows and to steps that
cover the rest of its part without overlap (`Gives`, `Replaced`): children are apart
from each other (`ChildrenApart`) and everything below a directory lies below one of
them (`ChildAbove`).  When no step is left, all is accounted for.

That bidirectional runs destroy no version the two sides never agreed on, but in
the two ways that are named, takes four steps.  The trees stay trees, so a file
has nothing below it.  An ETag that was seen never stands for another content,
so a request with `If-Match` finds what was scanned.  The planner removes or
overwrites a file only where it matches the record of the last agreement; this
is shown of `BuildBidirectional` and carried through `ProtectChangedSubtrees`,
`DetectMoves` and `SortActions` (`PlanIsSafe`, `AcceptedPlan`).  And between the
verification of a local destination and its mutation only an edit can change
it, which `LossOnlyUnguarded` excepts.  The theorem has two conditions, and both
are needed: with checksums (`RemoteChecksums`), because without them a file that
changed within two seconds to contents of the same size still matches its record;
and without keep-both (`prefer = ""`), because the version it overwrites was
never agreed on, and a user can remove the copy that was set aside before the
original is overwritten.  For runs with keep-both the property stays with TLC.

That one-way runs destroy nothing on the destination but by consent rests on the
same facts about trees, ETags and verification, which are shown of `SyncExecution`
and not of one kind of run.  What differs is the planner: a one-way plan may remove
or overwrite a version nobody recorded, if the user said so, and otherwise only
one that still matches the baseline (`MirrorPlan`); that no action of it works
on the source follows from the plan alone, so `SourceIsRead` needs no checksums.

That a run stops for a conflict exactly when its trees have no merge
(`StopsIffUnmergeable`) compares the planner, which decides path by path and then
corrects itself, with `ThreeWayMerge`, which speaks of whole trees.  First what
`PlanBidirectionalPath` decides at a path: a conflict exactly where both sides
changed it differently, and the removal or replacement of a directory exactly
where the merge has no directory (`PathConflicts`, `PathDestroys`).  Then
`SubtreeChanged` is "something below differs from the base" (`SubtreeMeans`); the
protection makes conflicts of just those removals (`ProtectConflicts`), moves turn
no action into or out of a conflict (`MovesConflict`), and the sorted plan has the
same actions (`SortKeeps`).  A run without a baseline is a case of its own: there
the planner protects nothing, and nothing needs protection, as every path of one
side is in the merge (`WithoutBase`).  Checksums are a condition again.  So is a
root on one side: include patterns that match nothing leave the root out, and the
planner then reports that both roots are missing (section 6).

That a run which succeeded leaves nothing to do (`NothingIsLeft`) has two halves.
A planner given two trees that converge and a baseline made of them, or none, skips
every path, and then neither the protection of subtrees nor the search for moves nor
the sorting makes anything else of it (`NothingToPlan`).  And what the run compared
is what is there: each side was scanned at another time, but an edit that the scan
did not see came after the last action was verified, which the property excepts
(`RestInv`).  Checksums are a condition, as section 6 shows.

Two of the proofs are inductions over naturals: the sum in `ProgressAddsUp` and
the concatenation of the parts of a plan.  No theorem of the library states
induction without an operator parameter, so both take the least number for which
the claim fails (`Least`, from the well-foundedness of `<`) and look at the one
before it.

The action properties follow from the invariant in one step;
`Refinement` maps Download's steps to a fetch or a stutter.

What is proved needs no run any more, where runs are scarce: the type
invariants, the statements `LabelDescribesPart`, `DeliveredWhole`,
`SessionBelongsToSource`, `VerifiedIsCurrent`, and what
`MarkersStandForWholeSecrets` says are proved and not checked again.  The sync
models and those of the remote and file commands state no type invariant.

Assumptions: `DownloadAssumption`, `UploadAssumption`, `TransferAssumption`,
`AccountsAssumption`, `EventsAssumption` and `RequestsAssumption` give the
constants their types (positive sizes and bounds, a parent walked before its
children); `StartsAssumption` says that the configuration and the secrets found
at the start have them too and that the Spaces in them are owned, and
`IdentityAssumption`, which only the last three theorems of the accounts use,
that they were saved by commands that neither overlapped nor died and have a
refresh token of their own for each profile, which is what those theorems show
of every later save;
`BoundsAssumption`, `FilterAssumption` the same for sync;
for the trees and baselines found at a start `BoundsAssumption` also says that
every node lies in a directory and every file has contents,
that two remote files with one ETag have the same contents and that the server has
not yet given out the ETags to come, that the entries of a baseline have values of
their types (with a checksum where the server gives them), and that users edit
paths;
Two assumptions are part of the initial predicates, because they hold for one kind
of run: `BidirectionalInit` says that a baseline found at the start was saved by an
earlier run (`BaselineConverged`), which `BaselineAgreed` then shows of every later one, and `OneWayInit`
that the request has a direction.
`AdministrationAssumption` says that the command is one of those there are and
that the account running it exists and is enabled when it starts;
`FamiliesAssumption` that no command belongs to two families;
`SharingAssumption` and `RecoveryAssumption` give calls their fields, the shares
found at the start different IDs, and name a file in every call that restores or
removes one.  `FileCommandsAssumption` says that the paths are a finite set of
sequences of names with the parents of each, and that contents are not confused
with directories; `WalksAssumption` that the limits of an archive are positive;
`BatchAssumption` that operations have the fields of their kind, that a walk may
show at least one entry (`tree` and `du` refuse a smaller `--max-entries`), that a
batch has operations, and that the first trees are trees.  TLC evaluates all of them in the runs.

Left to TLC: everything with fairness (`DownloadCompletes`, `UploadCompletes`,
`CommandReturns`, `RepeatSucceeds`, `RetriesSettle`, `WatchEnds`), ENABLED, the
agreement of whole bidirectional runs and their retries with `ThreeWayMerge`
(`AppliedIsMerge`, `MergeableSucceeds`, `RetryConflictsOnlyHalfDone`) and of one-way runs with their source
(`OneWayMirrors`), which say what all actions of a plan make of a tree together,
an induction over trees; and `KeepBothPreserves`.

## 5. What is not modelled, and why

* **Abstracted in what is modelled.**  `--dry-run` of a sync stops before the
  first mutation; `--max-entries` refuses before planning; corrupt state files
  refuse to load.  Path identity is checked by bidirectional runs only, as in the
  code.  The body of a PUT is read at one instant,
  and so are size, time and checksum of one file in a scan; a file that goes while a
  scan reads it is an error of the scan, a fault.  A server finishes a complete
  upload atomically.  Fingerprints neither collide nor return to an earlier
  value.  The processes die; the machine does not, so unflushed writes are not
  lost.  The sidecar `X.part.etag` of a download is not put into the trees of the
  sync models, the part file is.
* **Two runs of one binding at once** are outside the models: nothing is
  promised for them and no lock is taken.
* **Retries** wait; how long does not matter here.  How often is part of
  `Download`, `Upload`, `Requests` and `Events`.
* **In the remote and file commands**: what a listing skips because a server
  reports no properties for it; the pages of a listing; which transfer a batch
  uses for a file (that is `Download` and `Upload`) or a directory (`TransferPool`);
  activities of several resources.
* **In Events**: the two limits on the size of a line and of an event, which end a
  connection like any error; a `retry:` line that no event follows, which the
  decoder keeps to itself.
* **Notifications, activities, search, federation**: one request and its answer,
  nothing is kept; `Requests` is what could be said of them.
* **Clients, output, errors, listing commands, tools**: pure I/O and formatting.
* **In Accounts**: which profile is current (it only chooses one), `--client-id`
  for an existing profile, an identity provider that issues no refresh token,
  reading the items of one profile one after the other, and what happens between
  opening the browser and the answer of the token endpoint.
* **Sync jobs**: one more file that commands load, change and save without a
  lock; two at once lose one of the two changes.

## 6. Where code and documentation disagree

Checked, one run each:

1. *SyncDirectoryRename.*  README.md:858-859 promises moves instead of deletion
   and transfer, but the plan order puts deletions first
   (`internal/sync/model.go:524`): a file renamed out of a directory that was
   deleted too goes with the directory, and the move then fails.
2. *DownloadComplete416.*  A part file that is complete asks for a range behind
   its end, is refused, and is kept (`internal/webdav/client.go:442`).

3. *KeepBothLocal.*  `keep-both` preferring local copies the remote file aside and
   then downloads the copy with the ETag of the original
   (`internal/app/sync/conflict.go:66`).  A server whose ETags belong to a file and
   not to its contents, as the models assume and oCIS does, gives the copy another
   one, so the download is refused and the run fails, with both versions kept but
   not where README.md:848-850 says.  The test of this case
   (`internal/app/sync_service_test.go:477-546`) passes because its server derives
   ETags from the contents.  The failure is the second exception in
   `MergeableSucceeds`; `KeepBothPreserves` says what holds all the same.

Found by a run that differs from `BidirectionalRuns` in a line or two of the
configuration, which excludes this case from `Starts`:

4. Without server checksums the two sides of a file that was just transferred
   differ in time, so the next run reports a conflict
   (`internal/sync/bidirectional.go:306`).  `RemoteChecksums = FALSE` and
   `Starts <- NewFileStarts` with `AgreedTreesDoNotConflict` shows it.

Found by the proof that runs stop exactly where there is no merge, and by a run
that differs from `OneWayRuns` in its configuration:

5. With `--include`, the filter drops every directory with nothing selected in it,
   the root included (`internal/sync/model.go:387-407`).  A run to a destination
   that exists and has nothing selected yet therefore plans to create it, and the
   precondition refuses because it exists (`internal/app/sync/service.go:683-715`);
   README.md:718-726 shows such a push.  `UseIncludes = TRUE`, `IncludeMatch <-
   OnlyE` and `Starts <- SelectedStarts` with `OneWayMirrors` shows it.
6. For the same reason a bidirectional run whose sides have both lost the last
   selected file reports the conflict that both roots are missing
   (`internal/sync/bidirectional.go:379`), though both exist: the exception in
   `ConflictIffUnmergeable`.

Visible as exceptions in passing properties: a directory that is removed takes
what appeared or was excluded below it (`DestroysDirectory` in
`LossOnlyUnguarded` and `ConsentedLossOnly`); part files of interrupted transfers
are synchronised as files (`Clean`); a one-way baseline records whatever the
second scan finds (`loss.known`); a local file written between its verification
and the rename is lost (`loss.raced`), which ARCHITECTURE.md admits.

Met while modelling and outside the properties: a server or proxy that breaks every
connection after one event keeps a watch going for ever, since an event resets the
count of attempts (`internal/app/event_service.go:150-152`), while README.md:1305-1306
speaks of a bounded `--retries` policy for disconnects; where a tree holds both `X`
and the `X.part` of a dead transfer, a run that downloads both may fail, because
transferring the one uses the name of the other (`Clean` excepts it).  A resumable upload of a file
that grows sends the size it had; the transfers in progress of a pool ignore the
cancellation of its context; a `--no-clobber` recursive transfer that failed half
way cannot be repeated; a first recursive download that was interrupted is
repeated into the directory it made.  A plain `ocis mkdir` on an existing file
reports that it was created, because 405 is taken for success
(`internal/webdav/client.go:643`).  A TAR that ends between two entries passes
`ValidateFile`, which is said to detect truncated streams
(`internal/archiver/validate.go`).  Events published while a watch is not
connected are lost, and `--max-wait` starts after the capability request; both
are as documented (README.md:1284-1312).

Of the profiles, and excepted by name in the properties of `Accounts`: commands
that overlap while they save can leave a marker without items (one removes a
profile, the other saves it as it was), and then every command, login and logout
included, fails in `loadStore` (`LoadFails`), while AUTHENTICATION.md:375-376
says that missing credentials require a new login.  A login that dies between keyring
and configuration leaves the secrets of one account beside the identity of
another.  A save that dies before the marker leaves items nobody reads, and the
next save of any command deletes them.  `space use` with `OCIS_ACCESS_TOKEN`
records a Space of that account as the choice of the profile's.

## 7. The plan

Done: synchronization, downloads, uploads, recursive transfers, profiles and
accounts, the remote commands of several requests, filesystem commands, walks,
batches and archives, event watching; the theorems of section 4.

Left, in this order:

1. **Proofs over what is modelled.**  That a plan without conflicts, carried out
   undisturbed, makes both trees the merge (`AppliedIsMerge`), and with it
   `KeepBothPreserves`: an induction over the plan.
2. **Callback**: the local server of a login, its channel with one place, and the
   three ways to stop waiting.
3. **Jobs**: the store of sync jobs, with overlapping commands.
