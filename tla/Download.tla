------------------------------ MODULE Download ------------------------------
(***************************************************************************)
(* Client.DownloadWithOptions: a resumable atomic download of one remote   *)
(* file.  Bytes arrive in X.part; the sidecar X.part.etag names the entity *)
(* they came from; X.part is renamed over X at the end.                    *)
(*                                                                         *)
(* A byte is the version of the remote file it came from, so a file is the *)
(* sequence of its bytes' versions and a splice is a sequence that mixes   *)
(* two.  Version v has Size[v] bytes and the ETag v; 0 is the empty ETag.  *)
(* The server is external: it answers If-Match as RFC 9110 says and may or *)
(* may not send ETags and ignore a Range whose If-Range does not hold.     *)
(* Each step is one system call or one request, and the process may die    *)
(* before each.  The operators marked "Mutant of" are used by no action:   *)
(* each stands for a bug that a property of this module excludes.          *)
(***************************************************************************)
EXTENDS Naturals, Sequences

CONSTANTS
  MaxVersion,      \* bound: the remote file is replaced up to this version
  Size,            \* bytes of each version
  Servers,         \* which of "ETag" and "If-Range" the server supports
  Retries,         \* client.config.Retries
  Calls,           \* the TransferOptions in use, see Options
  MaxFaults        \* bound on these faults

Versions == 1 .. MaxVersion
\* expected is the ETag the caller asks for with If-Match, 0 for none.
Options == [resume : BOOLEAN, verify : BOOLEAN, noClobber : BOOLEAN, expected : Versions \cup {0}]

ASSUME DownloadAssumption ==
  /\ MaxVersion \in Nat \ {0}
  /\ Size \in [Versions -> Nat \ {0}]
  /\ Servers \subseteq SUBSET {"ETag", "If-Range"}
  /\ Retries \in Nat /\ MaxFaults \in Nat
  /\ Calls \subseteq Options

VARIABLES
  server,           \* what the server supports; never changes
  version,          \* the entity the server has
  hasPart, part,    \* X.part
  sidecar,          \* X.part.etag; 0 when it is missing or empty
  target,           \* X; <<>> when it is missing
  pc, options, attempt, offset, validator, got,  \* the call in progress
  outcome,          \* how the last call ended
  started,          \* history: the server's entity when the call started
  faults            \* used-up bound

files == <<hasPart, part, sidecar, target>>
call == <<options, attempt, offset, validator, got>>
vars == <<server, version, files, pc, call, outcome, started, faults>>

ETag(v) == IF "ETag" \in server THEN v ELSE 0
Whole(v) == [i \in 1 .. Size[v] |-> v]

Goto(label) == pc' = label /\ UNCHANGED <<call, outcome, started, faults, server, version>>
End(result) ==
  /\ pc' = "idle" /\ outcome' = result
  /\ UNCHANGED <<call, started, server, version>>

-----------------------------------------------------------------------------

Start ==
  /\ pc = "idle"
  /\ options' \in Calls
  /\ options'.noClobber => target = <<>>
  /\ pc' = IF options'.resume THEN "examine" ELSE "drop-part"
  /\ attempt' = 0 /\ offset' = 0 /\ validator' = 0 /\ got' = version
  /\ started' = version
  /\ outcome' = "none"
  /\ UNCHANGED <<server, version, files, faults>>

\* discardPartial: first X.part, then its sidecar.
DropPart ==
  /\ pc = "drop-part"
  /\ hasPart' = FALSE /\ part' = <<>>
  /\ Goto("drop-sidecar")
  /\ UNCHANGED <<sidecar, target>>

DropSidecar ==
  /\ pc = "drop-sidecar"
  /\ sidecar' = 0
  /\ Goto("request")
  /\ UNCHANGED <<hasPart, part, target>>

\* Mutant of Examine: an unlabelled prefix is refused instead of discarded.
ExamineRefusesUnlabelled ==
  /\ pc = "examine"
  /\ IF options.resume /\ hasPart /\ sidecar = 0
     THEN End("failed") /\ UNCHANGED <<files, faults>>
     ELSE /\ offset' = IF options.resume /\ hasPart THEN Len(part) ELSE 0
          /\ validator' = IF options.resume /\ hasPart THEN sidecar ELSE 0
          /\ pc' = "request"
          /\ UNCHANGED <<server, version, files, options, attempt, got, outcome, started, faults>>

\* The top of an attempt: reuse a labelled prefix, discard an unlabelled one.
Examine ==
  /\ pc = "examine"
  /\ LET reuse == options.resume /\ hasPart /\ sidecar # 0
     IN  /\ offset' = IF reuse THEN Len(part) ELSE 0
         /\ validator' = IF reuse THEN sidecar ELSE 0
  /\ pc' = IF options.resume /\ hasPart /\ sidecar = 0 THEN "drop-part" ELSE "request"
  /\ UNCHANGED <<server, version, files, options, attempt, got, outcome, started, faults>>

-----------------------------------------------------------------------------
(* The request and its answers *)

\* Mutant of Matches: the request carries no If-Match.
MatchesAnything == TRUE

Matches == options.expected # 0 => options.expected = ETag(version)
InRange == offset > 0 /\ (validator = ETag(version) \/ "If-Range" \notin server)

\* 412: the file is not the one the caller asked for.
PreconditionFails ==
  /\ pc = "request" /\ ~Matches
  /\ End("failed")
  /\ UNCHANGED <<files, faults>>

\* 416: nothing of the entity lies behind the retained prefix.
Unsatisfiable ==
  /\ pc = "request" /\ Matches /\ InRange /\ offset >= Size[version]
  /\ End("failed")
  /\ UNCHANGED <<files, faults>>

\* Mutant of Partial: the ETag of a 206 is not compared with the validator.
PartialOfAnyEntity ==
  /\ pc = "request" /\ Matches /\ InRange /\ offset < Size[version]
  /\ got' = version
  /\ pc' = "copy"
  /\ UNCHANGED <<server, version, files, options, attempt, offset, validator, outcome, started, faults>>

\* 206: continue the prefix, unless the server names another entity.
Partial ==
  /\ pc = "request" /\ Matches /\ InRange /\ offset < Size[version]
  /\ validator = ETag(version)
  /\ got' = version
  /\ pc' = "copy"
  /\ UNCHANGED <<server, version, files, options, attempt, offset, validator, outcome, started, faults>>

OtherEntity ==
  /\ pc = "request" /\ Matches /\ InRange /\ offset < Size[version]
  /\ validator # ETag(version)
  /\ End("failed")
  /\ UNCHANGED <<files, faults>>

\* 200: start over.
FromStart ==
  /\ pc = "request" /\ Matches /\ ~InRange
  /\ got' = version
  /\ pc' = "drop-label"
  /\ UNCHANGED <<server, version, files, options, attempt, offset, validator, outcome, started, faults>>

-----------------------------------------------------------------------------
(* The body *)

\* Mutant of DropLabel: the new label is published before the old bytes go.
DropLabelPublishesNew ==
  /\ pc = "drop-label"
  /\ sidecar' = ETag(got)
  /\ Goto("truncate")
  /\ UNCHANGED <<hasPart, part, target>>

\* The old label goes before the old bytes, the new one comes after them.
DropLabel ==
  /\ pc = "drop-label"
  /\ sidecar' = 0
  /\ Goto("truncate")
  /\ UNCHANGED <<hasPart, part, target>>

Truncate ==
  /\ pc = "truncate"
  /\ hasPart' = TRUE /\ part' = <<>>
  /\ Goto("label")
  /\ UNCHANGED <<sidecar, target>>

\* Mutant of Label: the label is asked for anew instead of taken from the answer.
LabelOfCurrentEntity ==
  /\ pc = "label"
  /\ sidecar' = ETag(version)
  /\ Goto("copy")
  /\ UNCHANGED <<hasPart, part, target>>

Label ==
  /\ pc = "label"
  /\ sidecar' = ETag(got)
  /\ Goto("copy")
  /\ UNCHANGED <<hasPart, part, target>>

\* One more byte; after the last one the body is complete.
Copy ==
  /\ pc = "copy"
  /\ part' = Append(part, got)
  /\ Goto(IF Len(part) + 1 < Size[got] THEN "copy"
          ELSE IF options.verify THEN "verify" ELSE "tidy")
  /\ UNCHANGED <<hasPart, sidecar, target>>

\* A second Stat: size and ETag must still be those of the received bytes.
Confirmed == Len(part) = Size[version] /\ ETag(got) = ETag(version)

Verify ==
  /\ pc = "verify" /\ Confirmed
  /\ Goto("tidy")
  /\ UNCHANGED files

NotConfirmed ==
  /\ pc = "verify" /\ ~Confirmed
  /\ End("failed")
  /\ UNCHANGED <<files, faults>>

\* Failing to remove the sidecar is only logged.
Tidy ==
  /\ pc = "tidy"
  /\ \/ sidecar' = 0 /\ UNCHANGED faults
     \/ faults < MaxFaults /\ faults' = faults + 1 /\ UNCHANGED sidecar
  /\ pc' = "rename"
  /\ UNCHANGED <<server, version, hasPart, part, target, call, outcome, started>>

Rename ==
  /\ pc = "rename"
  /\ target' = part
  /\ hasPart' = FALSE /\ part' = <<>>
  /\ End("done")
  /\ UNCHANGED <<sidecar, faults>>

-----------------------------------------------------------------------------
(* Faults and other clients *)

Fault ==
  /\ pc # "idle"
  /\ faults < MaxFaults
  /\ faults' = faults + 1
  /\ UNCHANGED files

\* A broken connection, or a status that may be retried.
Retry ==
  /\ Fault
  /\ pc \in {"request", "copy"} /\ attempt < Retries
  /\ attempt' = attempt + 1
  /\ pc' = "examine"
  /\ UNCHANGED <<server, version, options, offset, validator, got, outcome, started>>

\* A system call or the last attempt fails, or the process dies.
Fail == Fault /\ End("failed")

Replace ==
  /\ version < MaxVersion
  /\ version' = version + 1
  /\ UNCHANGED <<server, files, pc, call, outcome, started, faults>>

-----------------------------------------------------------------------------

Init ==
  /\ server \in Servers /\ version = 1
  /\ hasPart = FALSE /\ part = <<>> /\ sidecar = 0 /\ target = <<>>
  /\ pc = "idle" /\ options \in Calls
  /\ attempt = 0 /\ offset = 0 /\ validator = 0 /\ got = 1
  /\ outcome = "none" /\ started = 1 /\ faults = 0

Step ==
  \/ DropPart \/ DropSidecar \/ Examine
  \/ PreconditionFails \/ Unsatisfiable \/ Partial \/ OtherEntity \/ FromStart
  \/ DropLabel \/ Truncate \/ Label \/ Copy
  \/ Verify \/ NotConfirmed \/ Tidy \/ Rename

Next == Start \/ Step \/ Retry \/ Fail \/ Replace

Spec == Init /\ [][Next]_vars

\* The call proceeds (every wait is bounded) and the user repeats it.
FairSpec == Spec /\ WF_vars(Step) /\ WF_vars(Start)

-----------------------------------------------------------------------------
(* Properties *)

Labels == {"idle", "drop-part", "drop-sidecar", "examine", "request", "drop-label",
           "truncate", "label", "copy", "verify", "tidy", "rename"}

TypeOK ==
  /\ server \in Servers
  /\ version \in Versions /\ started \in Versions /\ got \in Versions
  /\ hasPart \in BOOLEAN
  /\ part \in Seq(Versions) /\ target \in Seq(Versions)
  /\ sidecar \in Versions \cup {0} /\ validator \in Versions \cup {0}
  /\ pc \in Labels
  /\ options \in Options
  /\ attempt \in 0 .. Retries /\ offset \in Nat /\ faults \in 0 .. MaxFaults
  /\ outcome \in {"none", "done", "failed"}

\* A prefix of version v: all its bytes are v's, and not more than v has.
IsPrefixOf(bytes, v) ==
  /\ Len(bytes) <= Size[v]
  /\ \A i \in 1 .. Len(bytes) : bytes[i] = v

\* The sidecar never describes bytes it did not come with, at any instant at
\* which the process may die.
LabelDescribesPart == hasPart /\ sidecar # 0 => IsPrefixOf(part, sidecar)

\* A download that names an ETag, as every sync download does, installs that very version or nothing.
DeliveredAsExpected ==
  [][target' # target /\ options.expected # 0 /\ "ETag" \in server =>
       target' = Whole(options.expected)]_vars

\* The destination is one whole version of the remote file, never a splice.
DeliveredWhole == target # <<>> => \E v \in Versions : target = Whole(v)

\* A download is an atomic fetch.
Fetch ==
  INSTANCE AtomicFetch
    WITH Whole <- Whole, version <- version, started <- started, target <- target
FetchSpec == Fetch!Spec

\* The retained prefix lets no resumed request succeed: it has all bytes of the
\* entity, or it is of another one and the server grants its ranges all the same.
PrefixUnusable ==
  /\ hasPart /\ sidecar # 0
  /\ IF sidecar = ETag(version) THEN Len(part) >= Size[version] ELSE "If-Range" \notin server

\* Repeating a download succeeds eventually, whatever interrupted calls left in
\* X.part and its sidecar, but for an unusable prefix.
DownloadCompletes ==
  []<>(pc # "idle" /\ options.resume /\ options.expected = 0)
    => <>(outcome = "done" \/ PrefixUnusable)

\* The same without the exception.
ResumeCompletes == <>(outcome = "done")
=============================================================================
