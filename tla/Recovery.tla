------------------------------ MODULE Recovery ------------------------------
(***************************************************************************)
(* The trash and version commands: getting back what was deleted or        *)
(* changed, and destroying it for good.  A resource keeps its ID when it   *)
(* is deleted and restored; a version is known by its content.  The server *)
(* is external.                                                            *)
(***************************************************************************)
EXTENDS Requests, FiniteSets

CONSTANTS
  RecoveryCalls,   \* the commands in use, see RecoveryScript
  Resources,       \* IDs of files
  Paths, Contents, \* where files lie, and what they hold
  MaxOthers        \* bound on what others do

ASSUME RecoveryAssumption ==
  /\ {"none", "part"} \cap Contents = {}
  /\ \A c \in RecoveryCalls :
       /\ c.op \in {"trashRestore", "trashRemove", "trashEmpty", "versionRestore", "versionDownload"}
       /\ c.op \in {"trashRestore", "trashRemove"} => c.id \in Resources
  /\ MaxOthers \in Nat

VARIABLES
  state,           \* of a resource: "live", in the "bin" or "gone"
  place,           \* the path it has, or had when it was deleted
  content,         \* what it holds
  versions,        \* what it held before
  local,           \* the local destination: content, "part" of it, or "none"
  appeared,        \* history: another program made it since the command looked
  others           \* used-up bound

recovery == <<state, place, content, versions, local, appeared, others>>

InState(s) == {r \in Resources : state[r] = s}
LivingAt(path) == {r \in InState("live") : place[r] = path}

-----------------------------------------------------------------------------
(* What the commands ask, in order *)

TrashScript(change) == <<"listTrash">> \o (IF call.dry THEN <<>> ELSE <<change>>)

VersionScript ==
  <<"statFile", "listVersions", "version">>
    \o (CASE call.dry -> <<>>
          [] ~call.dry /\ call.op = "versionRestore" -> <<"copyVersion">>
          [] OTHER -> (IF call.noClobber THEN <<"lookLocal">> ELSE <<>>)
                        \o <<"getVersion", "receive", "replaceLocal">>)

RecoveryScript ==
  CASE call.op = "trashRestore" -> TrashScript("restoreItem")
    [] call.op = "trashRemove" -> TrashScript("removeItem")
    [] call.op = "trashEmpty" -> TrashScript("emptyTrash")
    [] OTHER -> VersionScript

RecoveryChanges == {"restoreItem", "removeItem", "emptyTrash", "copyVersion"}

-----------------------------------------------------------------------------
(* The trash *)

\* One item is found by its ID; to empty the trash its items are counted.
ListTrash ==
  /\ Ask("listTrash", call.op # "trashEmpty" => state[call.id] = "bin",
         [items |-> InState("bin"), path |-> IF call.op = "trashEmpty" THEN 0 ELSE place[call.id]],
         "failed")
  /\ UNCHANGED recovery

\* A MOVE to the original path that may replace what lies there, or not.
MoveBack(mayReplace) ==
  /\ At("restoreItem")
  /\ LET path == seen["listTrash"].path
         there == LivingAt(path)
     IN Change("restoreItem", state[call.id] = "bin" /\ (mayReplace \/ there = {}),
               /\ place' = [place EXCEPT ![call.id] = path]
               /\ state' = [r \in Resources |->
                              CASE r = call.id -> "live"
                                [] r \in there -> "gone"
                                [] OTHER -> state[r]],
               UNCHANGED <<state, place>>, 0, "failed")
  /\ UNCHANGED <<content, versions, local, appeared, others>>

\* Mutant of RestoreItem: the header Overwrite is always T.
RestoreItemOver == MoveBack(TRUE)

RestoreItem == MoveBack(call.overwrite)

RemoveItem ==
  /\ Change("removeItem", state[call.id] = "bin", state' = [state EXCEPT ![call.id] = "gone"],
            UNCHANGED state, 0, "failed")
  /\ UNCHANGED <<place, content, versions, local, appeared, others>>

\* Nothing was listed: nothing is asked.
AlreadyEmpty ==
  /\ At("emptyTrash") /\ seen["listTrash"].items = {}
  /\ Finish
  /\ UNCHANGED recovery

\* One request for the whole trash, what came into it meanwhile included.
EmptyTrash ==
  /\ At("emptyTrash") /\ seen["listTrash"].items # {}
  /\ Change("emptyTrash", TRUE,
            state' = [r \in Resources |-> IF state[r] = "bin" THEN "gone" ELSE state[r]],
            UNCHANGED state, 0, "failed")
  /\ UNCHANGED <<place, content, versions, local, appeared, others>>

-----------------------------------------------------------------------------
(* Versions *)

\* The path becomes a resource ID; the rest goes by the ID.
StatFile ==
  /\ LET there == LivingAt(call.path)
     IN Ask("statFile", there # {}, IF there = {} THEN 0 ELSE CHOOSE r \in there : TRUE, "failed")
  /\ UNCHANGED recovery

ListVersions ==
  /\ At("listVersions")
  /\ LET r == seen["statFile"] IN Ask("listVersions", state[r] = "live", versions[r], "failed")
  /\ UNCHANGED recovery

ResolveVersion ==
  /\ At("version")
  /\ Decide("version", call.version \in seen["listVersions"], "failed")
  /\ UNCHANGED recovery

HasVersion(r) == state[r] = "live" /\ call.version \in versions[r]

CopyVersion ==
  /\ At("copyVersion")
  /\ LET r == seen["statFile"]
     IN Change("copyVersion", HasVersion(r),
               /\ content' = [content EXCEPT ![r] = call.version]
               /\ versions' = [versions EXCEPT ![r] = @ \cup {content[r]}],
               UNCHANGED <<content, versions>>, 0, "failed")
  /\ UNCHANGED <<state, place, local, appeared, others>>

\* os.Stat for --no-clobber, before the request.
LookLocal ==
  /\ Decide("lookLocal", local = "none", "failed")
  /\ appeared' = FALSE
  /\ UNCHANGED <<state, place, content, versions, local, others>>

GetVersion ==
  /\ At("getVersion")
  /\ Ask("getVersion", HasVersion(seen["statFile"]), call.version, "failed")
  /\ UNCHANGED recovery

\* Mutant of Receive: a stream that ends early is not measured.
ReceiveUnverified ==
  /\ At("receive")
  /\ \/ Learn("receive", seen["getVersion"]) /\ Proceed /\ UNCHANGED <<carried, unsure, faults>>
     \/ Fault /\ Learn("receive", "part") /\ Proceed /\ UNCHANGED <<carried, unsure>>
  /\ UNCHANGED recovery

\* The temporary file: a stream that ends early is an error when the transport
\* or, with --verify, the listed size tells.
Receive ==
  /\ At("receive")
  /\ \/ Learn("receive", seen["getVersion"]) /\ Proceed /\ UNCHANGED <<carried, unsure, faults>>
     \/ /\ Fault
        /\ \/ Fail("failed")
           \/ ~call.verify /\ Learn("receive", "part") /\ Proceed
        /\ UNCHANGED <<carried, unsure>>
  /\ UNCHANGED recovery

\* ReplaceFile does not look again.
ReplaceLocal ==
  /\ At("replaceLocal")
  /\ local' = seen["receive"]
  /\ Proceed /\ UNCHANGED <<seen, carried, unsure, faults>>
  /\ UNCHANGED <<state, place, content, versions, appeared, others>>

-----------------------------------------------------------------------------
(* What others do meanwhile *)

\* Only what the command is about changes: it reads nothing else.
OthersAct(ops) ==
  /\ call.op \in ops
  /\ others < MaxOthers /\ others' = others + 1 /\ UNCHANGED control

TrashOps == {"trashRestore", "trashRemove", "trashEmpty"}
VersionOps == {"versionRestore", "versionDownload"}

Discard ==
  /\ OthersAct(TrashOps \cup VersionOps)
  /\ \E r \in InState("live") : state' = [state EXCEPT ![r] = "bin"]
  /\ UNCHANGED <<place, content, versions, local, appeared>>

Reinstate ==
  /\ OthersAct(TrashOps)
  /\ \E r \in InState("bin") : LivingAt(place[r]) = {} /\ state' = [state EXCEPT ![r] = "live"]
  /\ UNCHANGED <<place, content, versions, local, appeared>>

MoveFile ==
  /\ OthersAct(TrashOps \cup VersionOps)
  /\ \E r \in InState("live"), path \in Paths :
       LivingAt(path) = {} /\ place' = [place EXCEPT ![r] = path]
  /\ UNCHANGED <<state, content, versions, local, appeared>>

SaveFile ==
  /\ OthersAct(VersionOps)
  /\ \E r \in InState("live"), c \in Contents :
       /\ content' = [content EXCEPT ![r] = c]
       /\ versions' = [versions EXCEPT ![r] = @ \cup {content[r]}]
  /\ UNCHANGED <<state, place, local, appeared>>

SaveLocal ==
  /\ OthersAct({"versionDownload"})
  /\ local' \in Contents /\ appeared' = TRUE
  /\ UNCHANGED <<state, place, content, versions>>

-----------------------------------------------------------------------------

\* Any two of the files may have had one path, one after the other.
RecoveryInit ==
  /\ state \in [Resources -> {"live", "bin"}]
  /\ place \in [Resources -> Paths]
  /\ \A path \in Paths : Cardinality(LivingAt(path)) <= 1
  /\ \E c, old \in Contents :
       /\ c # old
       /\ content = [r \in Resources |-> c] /\ versions = [r \in Resources |-> {old}]
  /\ local \in {"none"} \cup Contents
  /\ appeared = FALSE /\ others = 0

RecoveryNext ==
  \/ ListTrash \/ RestoreItem \/ RemoveItem \/ AlreadyEmpty \/ EmptyTrash
  \/ StatFile \/ ListVersions \/ ResolveVersion \/ CopyVersion
  \/ LookLocal \/ GetVersion \/ Receive \/ ReplaceLocal
  \/ Discard \/ Reinstate \/ MoveFile \/ SaveFile \/ SaveLocal
=============================================================================
