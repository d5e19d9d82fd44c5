---------------------------- MODULE RemoteCommands ----------------------------
(***************************************************************************)
(* The commands that are a series of requests, one run at a time: the user *)
(* may start the same command again after it ended, failed or was killed.  *)
(* Other clients and administrators act between any two requests on what   *)
(* the command is about.                                                   *)
(***************************************************************************)
EXTENDS Sharing, Administration, Recovery

commandVars == <<control, sharing, administration, recovery>>

\* The family of a command.
ShareOps == {c.op : c \in ShareCalls}
AdminOps == {c.op : c \in AdminCalls}
RecoveryOps == {c.op : c \in RecoveryCalls}

ASSUME FamiliesAssumption ==
  /\ ShareOps \cap AdminOps = {} /\ ShareOps \cap RecoveryOps = {}
  /\ AdminOps \cap RecoveryOps = {}

Script ==
  CASE call.op \in ShareOps -> ShareScript
    [] call.op \in AdminOps -> AdminScript
    [] call.op \in RecoveryOps -> RecoveryScript

Changes == ShareChanges \cup AdminChanges \cup RecoveryChanges

\* What a command does not look at has one of its initial states.
ShareAside ==
  /\ call.op \in New \cup {"linkUpdate"} \/ policy = {}
  /\ call.op = "linkUpdate" \/ theirs.password = 0
AdminAside == call.op = "spaceDisable" \/ default = 0
RecoveryAside ==
  /\ call.op \in RecoveryOps \/ InState("live") = {}
  /\ call.op = "versionDownload" \/ local = "none"

CommandInit ==
  /\ RequestsInit
  /\ call \in ShareCalls \cup AdminCalls \cup RecoveryCalls
  /\ ShareInit /\ ShareAside
  /\ AdminInit /\ AdminAside
  /\ RecoveryInit /\ RecoveryAside

Start == Run(Script) /\ UNCHANGED <<sharing, administration, recovery>>
Killed == Die /\ UNCHANGED <<sharing, administration, recovery>>

\* The user does not repeat the command again.
Rest == todo = <<>> /\ runs = MaxRuns /\ UNCHANGED commandVars

CommandNext ==
  \/ Start \/ Killed \/ Rest
  \/ call.op \in ShareOps /\ ShareNext /\ UNCHANGED <<administration, recovery>>
  \/ call.op \in AdminOps /\ AdminNext /\ UNCHANGED <<sharing, recovery>>
  \/ call.op \in RecoveryOps /\ RecoveryNext /\ UNCHANGED <<sharing, administration>>

CommandSpec == CommandInit /\ [][CommandNext]_commandVars

-----------------------------------------------------------------------------
(* Properties *)

Times(step) == Cardinality({i \in 1 .. Len(carried) : carried[i] = step})

\* How a command ends tells what it did.  When it ends well, every change it is
\* made of was carried out.  When it says that it failed, none was, unless the
\* answer to one got lost; an error after the first of several changes says that
\* it is a partial one.  A change is carried out twice only when its first
\* answer was lost.  A Space that was disabled is not the default Space any longer.
AnswerIsHonest ==
  /\ outcome = "done" =>
       \A i \in 1 .. Len(Script) : Script[i] \in Changes \ {"emptyTrash"} => Times(Script[i]) > 0
  /\ outcome = "failed" /\ ~unsure => carried = <<>>
  /\ ~unsure => \A step \in Changes : Times(step) <= 1
  /\ outcome = "done" /\ call.op = "spaceDisable" /\ ~call.dry => default # seen["drive"]

\* share link update changes the selected properties only, the others stay as they
\* were or as another client has made them; and a protected link never stays open
\* with part of the change: a password is set before anything else of the link
\* changes, and taken away after everything else has.  Between the requests, after
\* an error and after a crash too.
LinkStaysAsAsked ==
  IsLink(1) =>
    LET link == Share(1).link
        updated == call.op = "linkUpdate"
    IN /\ \A f \in Fields : link[f] # theirs[f] => updated /\ f \in call.fields
       /\ updated /\ link.password = 0 =>
            \/ call.password = "keep"
            \/ call.password = "set" /\ \A f \in call.fields : link[f] # 2
            \/ call.password = "remove"
                 /\ (theirs.password = 0 \/ \A f \in call.fields : link[f] # 1)

\* The administrator's commands neither delete nor disable the account that runs
\* them and take no role from it, whatever names other administrators assign
\* meanwhile.
SelfKept ==
  /\ user[Self].there /\ user[Self].enabled
  /\ \/ user[Self].roles = FirstUsers[Self].roles
     \/ call.op = "role" /\ call.grant

\* What a command does to files is what it was asked to: nothing alive makes room
\* for a restored file unless --overwrite is given, only the named item or the
\* whole trash is destroyed, a version comes back to the file the path meant,
\* and a local file is replaced by the whole version when it is verified and,
\* with --no-clobber, only if it was not there when the command looked.
OnlyNamedIsLost ==
  [][others' = others =>
       \A r \in Resources :
         /\ state[r] = "live" /\ state'[r] # "live" =>
              call.op = "trashRestore" /\ call.overwrite /\ place[r] = place'[call.id]
         /\ state[r] = "bin" /\ state'[r] = "gone" =>
              \/ call.op = "trashEmpty"
              \/ call.op = "trashRemove" /\ r = call.id
         /\ content'[r] # content[r] =>
              call.op = "versionRestore" /\ content'[r] = call.version /\ r = seen["statFile"]
         /\ local' # local =>
              /\ call.verify => local' = call.version
              /\ call.noClobber => local = "none" \/ appeared
    ]_commandVars
=============================================================================
