------------------------------- MODULE Upload -------------------------------
(***************************************************************************)
(* Client.UploadWithOptions: one local file is put on the server by a      *)
(* plain PUT, by a PUT with If-Match, by a PUT to a temporary name and a   *)
(* MOVE that may not overwrite, or by a resumable TUS upload whose address *)
(* is kept in the credential service between calls.                        *)
(*                                                                         *)
(* A byte is the version of the local file it was read from, 0 when        *)
(* another client wrote it, so a mixed file is a sequence with two values. *)
(* Version v has Size[v] bytes; a version stands for its path, size and    *)
(* modification time too, which are all that uploadSourceFingerprint sees. *)
(* A TUS chunk is one byte.  The server is external: it obeys If-Match and *)
(* Overwrite, and installs a TUS upload when its last byte arrives.  Each  *)
(* step is one request or one access to the credential service; requests   *)
(* and answers may get lost and the process may die between any two steps. *)
(* The operators marked "Mutant of" are used by no action.                 *)
(***************************************************************************)
EXTENDS Naturals, Sequences

CONSTANTS
  MaxVersion,      \* bound: the local file is edited up to this version
  Size,            \* bytes of each version
  Retries,         \* client.config.Retries
  Calls,           \* the TransferOptions in use, see Options
  OtherSizes,      \* sizes of what other clients write
  MaxOthers,       \* bound on writes and deletions by other clients
  MaxFaults        \* bound on lost messages, errors, deaths and expirations

Versions == 1 .. MaxVersion
\* guarded: the caller passes the ETag of the file it has seen as ExpectedETag.
Options == [noClobber : BOOLEAN, guarded : BOOLEAN, tus : BOOLEAN, verify : BOOLEAN]

ASSUME UploadAssumption ==
  /\ MaxVersion \in Nat \ {0}
  /\ Size \in [Versions -> Nat]
  /\ Retries \in Nat /\ MaxOthers \in Nat /\ MaxFaults \in Nat
  /\ Calls \subseteq Options
  /\ OtherSizes \subseteq Nat

VARIABLES
  local,                    \* the version the local file has
  remote, temporary,        \* the destination and its .ocis-cli-X.part
  upload,                   \* the TUS upload on the server
  session,                  \* the saved UploadSession: its source, 0 for none
  pc, options, expected, info, opened, offset, attempt, putETag,  \* the call
  outcome,                  \* how the last call ended
  installs, delivered,      \* history: writes to remote by this call; the last one
  others, faults            \* used-up bounds

server == <<remote, temporary, upload>>
call == <<options, expected, info, opened, offset, attempt, putETag>>
history == <<installs, delivered>>
vars == <<local, server, session, pc, call, outcome, history, others, faults>>

Missing == [etag |-> 0, bytes |-> <<>>]
NoUpload == [exists |-> FALSE, expired |-> FALSE, size |-> 0, bytes |-> <<>>]
Whole(v) == [i \in 1 .. Size[v] |-> v]

\* Mutant of UsesTUS: the expected ETag is not looked at.
UsesTUSAlways(o, etag, v) == ~o.noClobber /\ o.tus /\ Size[v] > 0

\* Only an unconditional upload of a non-empty file is resumable.
UsesTUS(o, etag, v) == ~o.noClobber /\ o.tus /\ etag = 0 /\ Size[v] > 0

\* The call returns and its variables are gone.
Returned ==
  /\ expected' = 0 /\ info' = 1 /\ opened' = 1
  /\ offset' = 0 /\ attempt' = 0 /\ putETag' = 0
  /\ UNCHANGED options

End(result) == pc' = "idle" /\ outcome' = result /\ Returned

Goto(label) ==
  /\ pc' = label
  /\ UNCHANGED <<call, outcome>>

\* The next attempt of the same request, or the error that ends it.
Again ==
  \/ /\ attempt < Retries /\ attempt' = attempt + 1
     /\ UNCHANGED <<pc, outcome, options, expected, info, opened, offset, putETag>>
  \/ End("failed")

Lost == faults < MaxFaults /\ faults' = faults + 1

\* The server gives every write an ETag that nobody knows yet.
NewETag == CHOOSE e \in 1 .. 5 : e \notin {remote.etag, temporary.etag, expected, putETag}

Install(bytes) ==
  /\ remote' = [etag |-> NewETag, bytes |-> bytes]
  /\ installs' = installs + 1 /\ delivered' = bytes

-----------------------------------------------------------------------------

Start ==
  /\ pc = "idle"
  /\ options' \in Calls
  /\ options'.guarded => remote # Missing
  /\ expected' = IF options'.guarded THEN remote.etag ELSE 0
  /\ info' = local /\ opened' = 1
  /\ offset' = 0 /\ attempt' = 0 /\ putETag' = 0
  /\ pc' = IF UsesTUS(options', expected', local) THEN "load" ELSE "put"
  /\ temporary' = Missing
  /\ outcome' = "none"
  /\ installs' = 0
  /\ UNCHANGED <<local, remote, upload, session, delivered, others, faults>>

-----------------------------------------------------------------------------
(* PUT, to the destination or to a temporary name *)

Target == IF options.noClobber THEN temporary ELSE remote

Accepted == expected # 0 => Target.etag = expected

\* The body is read anew in each attempt, the length was fixed before the first.
Body == [i \in 1 .. Size[info] |-> local]
LengthHolds == Size[info] = 0 \/ Size[local] = Size[info]

Store(bytes) ==
  IF options.noClobber
  THEN /\ temporary' = [etag |-> NewETag, bytes |-> bytes]
       /\ UNCHANGED <<remote, history>>
  ELSE Install(bytes) /\ UNCHANGED temporary

\* uploadDirect succeeds.
Uploaded ==
  IF options.noClobber
  THEN /\ pc' = "move" /\ attempt' = 0
       /\ UNCHANGED <<options, expected, info, opened, offset, putETag, outcome>>
  ELSE End("done")

PutAnswered ==
  /\ pc = "put" /\ Accepted /\ LengthHolds
  /\ Store(Body)
  /\ IF options.verify
     THEN /\ pc' = "verify" /\ putETag' = NewETag
          /\ UNCHANGED <<attempt, options, expected, info, opened, offset, outcome>>
     ELSE Uploaded
  /\ UNCHANGED <<local, upload, session, others, faults>>

\* 412: also when an earlier attempt whose answer got lost has replaced the file.
PutRefused ==
  /\ pc = "put" /\ ~Accepted
  /\ End("failed")
  /\ UNCHANGED <<local, server, session, history, others, faults>>

\* No answer; the server may have stored the announced number of bytes.
PutUnanswered ==
  /\ pc = "put"
  /\ \/ Accepted /\ Size[local] >= Size[info] /\ Store(Body)
     \/ UNCHANGED <<remote, temporary, history>>
  /\ Again
  /\ UNCHANGED <<local, upload, session, others>>

PutBroken == Lost /\ PutUnanswered
\* The file has another length than the request announced.
PutCut == ~LengthHolds /\ UNCHANGED faults /\ PutUnanswered

\* A second Stat; a TUS upload has no ETag to compare.
Verified ==
  /\ Target # Missing /\ Len(Target.bytes) = Size[info]
  /\ putETag # 0 => Target.etag = putETag

Verify ==
  /\ pc = "verify" /\ Verified
  /\ Uploaded
  /\ UNCHANGED <<local, server, session, history, others, faults>>

NotVerified ==
  /\ pc = "verify" /\ ~Verified
  /\ End("failed")
  /\ UNCHANGED <<local, server, session, history, others, faults>>

-----------------------------------------------------------------------------
(* uploadWithoutClobber: the MOVE and the removal of the temporary file *)

Movable == temporary # Missing /\ remote = Missing

MoveAnswered ==
  /\ pc = "move" /\ Movable
  /\ Install(temporary.bytes) /\ temporary' = Missing
  /\ End("done")
  /\ UNCHANGED <<local, upload, session, others, faults>>

\* Mutant of MoveRefused: the temporary file is forgotten.
MoveRefusedForgets ==
  /\ pc = "move" /\ ~Movable
  /\ End("failed")
  /\ UNCHANGED <<local, server, session, history, others, faults>>

\* 412 or, when an attempt whose answer got lost has moved the file, 404.
MoveRefused ==
  /\ pc = "move" /\ ~Movable
  /\ Goto("cleanup")
  /\ UNCHANGED <<local, server, session, history, others, faults>>

MoveBroken ==
  /\ pc = "move" /\ Lost
  /\ \/ Movable /\ Install(temporary.bytes) /\ temporary' = Missing
     \/ UNCHANGED <<remote, temporary, history>>
  /\ \/ /\ attempt < Retries /\ attempt' = attempt + 1
        /\ UNCHANGED <<pc, outcome, options, expected, info, opened, offset, putETag>>
     \/ Goto("cleanup")
  /\ UNCHANGED <<local, upload, session, others>>

Cleanup ==
  /\ pc = "cleanup"
  /\ temporary' = Missing
  /\ End("failed")
  /\ UNCHANGED <<local, remote, upload, session, history, others, faults>>

-----------------------------------------------------------------------------
(* uploadTUS *)

\* Mutant of Usable: the fingerprint is not compared.
UsableByTime == session # 0 /\ ~upload.expired

Usable == session # 0 /\ session = info /\ ~upload.expired
Resumable == Usable /\ upload.exists /\ upload.size = Size[info]

\* Mutant of Discard: a session the server has forgotten is an error.
DiscardStaleOnly ==
  /\ pc = "load" /\ ~Resumable
  /\ IF Usable THEN End("failed") /\ UNCHANGED session ELSE session' = 0 /\ Goto("create")
  /\ UNCHANGED <<local, server, history, others, faults>>

\* No session, or one that is expired, of another source or unknown to the server.
Discard ==
  /\ pc = "load" /\ ~Resumable
  /\ session' = 0
  /\ Goto("create")
  /\ UNCHANGED <<local, server, history, others, faults>>

Resume ==
  /\ pc = "load" /\ Resumable
  /\ offset' = Len(upload.bytes)
  /\ pc' = "open"
  /\ UNCHANGED <<local, server, session, options, expected, info, opened, attempt, putETag,
                 outcome, history, others, faults>>

Create ==
  /\ pc = "create"
  /\ upload' = [exists |-> TRUE, expired |-> FALSE, size |-> Size[info], bytes |-> <<>>]
  /\ Goto("save")
  /\ UNCHANGED <<local, remote, temporary, session, history, others, faults>>

Save ==
  /\ pc = "save"
  /\ session' = info
  /\ Goto("open")
  /\ UNCHANGED <<local, server, history, others, faults>>

Open ==
  /\ pc = "open"
  /\ opened' = local
  /\ pc' = "send"
  /\ UNCHANGED <<local, server, session, options, expected, info, offset, attempt, putETag,
                 outcome, history, others, faults>>

HasMore == offset < Size[info] /\ offset < Size[opened]

\* The server appends the byte; the last one installs the file.
Receive ==
  /\ upload.exists /\ Len(upload.bytes) = offset
  /\ upload' = [upload EXCEPT !.bytes = Append(@, opened)]
  /\ IF offset + 1 = upload.size
     THEN Install(Append(upload.bytes, opened))
     ELSE UNCHANGED <<remote, history>>

Send ==
  /\ pc = "send" /\ HasMore
  /\ Receive
  /\ offset' = offset + 1
  /\ UNCHANGED <<local, temporary, session, pc, options, expected, info, opened, attempt, putETag,
                 outcome, others, faults>>

SendBroken ==
  /\ pc = "send" /\ HasMore /\ Lost
  /\ Receive \/ UNCHANGED <<remote, upload, history>>
  /\ Goto("broken")
  /\ UNCHANGED <<local, temporary, session, others>>

\* The server knows the upload no more, or the file has become too short.
SendRefused ==
  /\ pc = "send" /\ offset < Size[info]
  /\ ~upload.exists \/ offset >= Size[opened]
  /\ Goto("rejected")
  /\ UNCHANGED <<local, server, session, history, others, faults>>

\* Mutant of SaveProgress: the fingerprint is taken anew.
SaveProgressAnew ==
  /\ pc \in {"broken", "rejected"}
  /\ session' = local
  /\ IF pc = "broken" /\ attempt < Retries
     THEN /\ attempt' = attempt + 1 /\ pc' = "refresh"
          /\ UNCHANGED <<options, expected, info, opened, offset, putETag, outcome>>
     ELSE End("failed")
  /\ UNCHANGED <<local, server, history, others, faults>>

\* saveTUSSession after an error, and whether to go on.
SaveProgress ==
  /\ pc \in {"broken", "rejected"}
  /\ session' = info
  /\ IF pc = "broken" /\ attempt < Retries
     THEN /\ attempt' = attempt + 1 /\ pc' = "refresh"
          /\ UNCHANGED <<options, expected, info, opened, offset, putETag, outcome>>
     ELSE End("failed")
  /\ UNCHANGED <<local, server, history, others, faults>>

\* Mutant of Refresh: the lost byte is counted as sent.
RefreshGuesses ==
  /\ pc = "refresh"
  /\ IF upload.exists
     THEN /\ offset' = offset + 1 /\ pc' = "send"
          /\ UNCHANGED <<options, expected, info, opened, attempt, putETag, outcome>>
     ELSE End("failed")
  /\ UNCHANGED <<local, server, session, history, others, faults>>

Refresh ==
  /\ pc = "refresh"
  /\ IF upload.exists
     THEN /\ offset' = Len(upload.bytes) /\ pc' = "send"
          /\ UNCHANGED <<options, expected, info, opened, attempt, putETag, outcome>>
     ELSE End("failed")
  /\ UNCHANGED <<local, server, session, history, others, faults>>

Finish ==
  /\ pc = "send" /\ offset = Size[info]
  /\ session' = 0
  /\ IF options.verify THEN Goto("verify") ELSE End("done")
  /\ UNCHANGED <<local, server, history, others, faults>>

-----------------------------------------------------------------------------
(* Faults, the user and other clients *)

\* A request, the credential service or a local read fails, the user cancels,
\* or the process dies.
Fail ==
  /\ pc # "idle" /\ Lost
  /\ End("failed")
  /\ UNCHANGED <<local, server, session, history, others>>

\* An open file follows an edit in place and keeps its bytes otherwise.
Edit ==
  /\ local < MaxVersion
  /\ local' = local + 1
  /\ opened' \in IF pc \in {"send", "broken", "refresh"} THEN {opened, local'} ELSE {opened}
  /\ UNCHANGED <<server, session, pc, options, expected, info, offset, attempt, putETag, outcome,
                 history, others, faults>>

OtherClient ==
  /\ others < MaxOthers /\ others' = others + 1
  /\ remote' \in {Missing} \cup
       {[etag |-> NewETag, bytes |-> [i \in 1 .. n |-> 0]] : n \in OtherSizes}
  /\ UNCHANGED <<local, temporary, upload, session, pc, call, outcome, history, faults>>

\* The time of an upload passes; the server may drop it sooner or later.
Expire ==
  /\ upload.exists /\ Lost
  /\ \/ upload' = [upload EXCEPT !.expired = TRUE]
     \/ upload' = [upload EXCEPT !.exists = FALSE]
  /\ UNCHANGED <<local, remote, temporary, session, pc, call, outcome, history, others>>

-----------------------------------------------------------------------------

Init ==
  /\ local = 1
  /\ remote \in {Missing} \cup {[etag |-> 1, bytes |-> [i \in 1 .. n |-> 0]] : n \in OtherSizes}
  /\ temporary = Missing /\ upload = NoUpload /\ session = 0
  /\ pc = "idle" /\ options \in Calls
  /\ expected = 0 /\ info = 1 /\ opened = 1 /\ offset = 0 /\ attempt = 0 /\ putETag = 0
  /\ outcome = "none"
  /\ installs = 0 /\ delivered = <<>>
  /\ others = 0 /\ faults = 0

Step ==
  \/ PutAnswered \/ PutRefused \/ PutCut \/ Verify \/ NotVerified
  \/ MoveAnswered \/ MoveRefused \/ Cleanup
  \/ Discard \/ Resume \/ Create \/ Save \/ Open
  \/ Send \/ SendRefused \/ SaveProgress \/ Refresh \/ Finish

Next ==
  \/ Start \/ Step
  \/ PutBroken \/ MoveBroken \/ SendBroken \/ Fail
  \/ Edit \/ OtherClient \/ Expire

Spec == Init /\ [][Next]_vars

\* The call proceeds (every wait is bounded) and the user repeats it.
FairSpec == Spec /\ WF_vars(Step) /\ WF_vars(Start)

-----------------------------------------------------------------------------
(* Properties *)

Bytes == Versions \cup {0}
Files == [etag : Nat, bytes : Seq(Bytes)]
Labels == {"idle", "put", "verify", "move", "cleanup", "load", "create", "save", "open", "send",
           "broken", "rejected", "refresh"}

TypeOK ==
  /\ local \in Versions /\ info \in Versions /\ opened \in Versions
  /\ remote \in Files /\ temporary \in Files
  /\ upload \in [exists : BOOLEAN, expired : BOOLEAN, size : Nat, bytes : Seq(Versions)]
  /\ session \in Versions \cup {0}
  /\ pc \in Labels /\ options \in Options
  /\ expected \in Nat /\ offset \in Nat /\ attempt \in 0 .. Retries /\ putETag \in Nat
  /\ outcome \in {"none", "done", "failed"}
  /\ installs \in Nat /\ delivered \in Seq(Bytes)
  /\ others \in 0 .. MaxOthers /\ faults \in 0 .. MaxFaults

Installing == installs' > installs
\* info = local says that the file has not been edited during the call.
Succeeding == outcome' = "done" /\ outcome # "done"

\* A saved session is of use for the file it was made from only: what the
\* server holds under its address is of the version the fingerprint names,
\* unless the file has been edited since and the fingerprint holds no more.
SessionBelongsToSource ==
  session = local /\ upload.exists =>
    \A i \in 1 .. Len(upload.bytes) : upload.bytes[i] = local

\* Whatever calls before it were interrupted, edited under their feet or
\* resumed, a call installs the whole file unless the file changes meanwhile.
InstalledWhole == [][Installing /\ info = local => delivered' = Whole(info)]_vars

\* No upload that was to create a file or to replace a certain version
\* overwrites anything else, and a retry never writes a second time.
GuardedInstall ==
  [][Installing =>
       /\ options.noClobber => remote = Missing
       /\ expected # 0 => remote.etag = expected
       /\ options.noClobber \/ expected # 0 => installs = 0]_vars

\* Success means that the file has been installed: by this call, or by an
\* earlier one that was interrupted after the last byte of a resumable upload.
SuccessDelivers ==
  [][Succeeding /\ info = local =>
       /\ delivered = Whole(info) \/ delivered' = Whole(info)
       /\ installs' = 0 => pc \in {"send", "verify"} /\ Len(upload.bytes) = Size[info]]_vars

\* With verification, a plain or conditional PUT succeeds only while the
\* server still has what was put.
VerifiedIsCurrent ==
  [][Succeeding /\ options.verify /\ putETag # 0 /\ ~options.noClobber /\ info = local =>
       remote.bytes = Whole(info)]_vars

\* A call that ends without a fault in its last step leaves no temporary file,
\* but where the PUT to it fails.
TemporariesRemoved ==
  [][pc # "idle" /\ pc' = "idle" /\ temporary' # Missing =>
       faults' # faults \/ pc \in {"put", "verify"}]_vars

\* Repeating an unconditional upload succeeds again and again, whatever the
\* interrupted calls left in the credential service and on the server.
UploadCompletes ==
  []<>(pc # "idle" /\ ~options.noClobber /\ ~options.guarded) => []<>(outcome = "done")
=============================================================================
