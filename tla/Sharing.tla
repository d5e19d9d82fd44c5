------------------------------ MODULE Sharing -------------------------------
(***************************************************************************)
(* The share commands: public links, direct and federated shares, and the  *)
(* answers to received ones.  The server is external: it keeps shares by   *)
(* an ID of its own, advertises roles per resource and searches people.    *)
(*                                                                         *)
(* A property of a link has the value 1 it was found with, 2 the command   *)
(* asks for, or 3 another client has given it; a password may also be 0,   *)
(* none.  One path is shared; what lies there may be replaced.             *)
(***************************************************************************)
EXTENDS Requests, Directory

CONSTANTS
  ShareCalls,      \* the share commands in use, see ShareScript
  Policies,        \* what the server forbids: sets of Restrictions
  Items,           \* resources: numbers
  Roles,           \* the roles each of them advertises, by display name
  People,          \* users, groups and remote users: numbers
  KindOf,          \* which of the three a person is
  MaxShares,       \* bound on share IDs
  MaxEdits         \* bound on what others do

Restrictions == {"links", "shares", "groups", "federation", "noPassword", "expiry"}
Kinds == {"user", "group", "federated"}
Fields == {"name", "access", "expiry"}
NoLink == [f \in Fields \cup {"password"} |-> 0]

ASSUME SharingAssumption ==
  /\ Policies \subseteq SUBSET Restrictions
  /\ KindOf \in [People -> Kinds]
  /\ People \subseteq Nat \ {0}
  /\ \A c \in ShareCalls :
       /\ c.op \in {"linkCreate", "linkUpdate", "linkRevoke", "shareAdd", "shareUpdate",
                    "shareRemove", "respond"}
       /\ c.op = "linkUpdate" =>
            c.fields \subseteq Fields /\ c.password \in {"keep", "set", "remove"}
  /\ MaxShares \in Nat /\ MaxEdits \in Nat

VARIABLES
  policy,          \* what this server forbids
  shares,          \* outgoing shares
  lying,           \* the resource at the path
  known,           \* how a person answers to the name asked for
  received,        \* the state of a received share
  theirs,          \* history: the fields of link 1 but for this command
  edits            \* used-up bound

sharing == <<policy, shares, lying, known, received, theirs, edits>>

Share(id) == CHOOSE s \in shares : s.id = id
Exists(id) == \E s \in shares : s.id = id
IsLink(id) == \E s \in shares : s.id = id /\ s.kind = "link"
NewIDs == {id \in 1 .. MaxShares : \A s \in shares : s.id < id}
NewID == CHOOSE id \in NewIDs : TRUE
Update(id, record) == (shares \ {Share(id)}) \cup {record}

-----------------------------------------------------------------------------
(* What the commands ask, in order *)

\* Mutant of LinkChanges: the password comes first, removed or set.
LinkChangesPasswordFirst ==
  (CASE call.password = "set" -> <<"setPassword">>
     [] call.password = "remove" -> <<"removePassword">>
     [] OTHER -> <<>>)
    \o (IF call.fields # {} THEN <<"patchLink">> ELSE <<>>)

\* The properties asked for change in one PATCH; a password is set before it
\* and removed after it.
LinkChanges ==
  (IF call.password = "set" THEN <<"setPassword">> ELSE <<>>)
    \o (IF call.fields # {} THEN <<"patchLink">> ELSE <<>>)
    \o (IF call.password = "remove" THEN <<"removePassword">> ELSE <<>>)

CreateScript == IF call.dry THEN <<>> ELSE <<"capabilities", "createLink">>
LinkScript ==
  <<"getLink", "getPermission">>
    \o (IF call.dry THEN <<>> ELSE LinkChanges \o <<"reloadLink", "reloadPermission">>)
RevokeScript == IF call.dry THEN <<>> ELSE <<"remove">>
AddScript ==
  <<"capabilities", "stat", "roles">>
    \o (IF call.byID THEN <<>> ELSE <<"recipient">>)
    \o (IF call.dry THEN <<>> ELSE <<"invite">>)
RoleScript == <<"listOutgoing", "roles">> \o (IF call.dry THEN <<>> ELSE <<"patchRole">>)
RemoveScript == <<"listOutgoing">> \o (IF call.dry THEN <<>> ELSE <<"remove">>)
RespondScript == <<"listReceived">> \o (IF call.dry THEN <<>> ELSE <<"respond">>)

ShareScript ==
  CASE call.op = "linkCreate" -> CreateScript
    [] call.op = "linkUpdate" -> LinkScript
    [] call.op = "linkRevoke" -> RevokeScript
    [] call.op = "shareAdd" -> AddScript
    [] call.op = "shareUpdate" -> RoleScript
    [] call.op = "shareRemove" -> RemoveScript
    [] call.op = "respond" -> RespondScript

ShareChanges ==
  {"createLink", "setPassword", "patchLink", "removePassword", "invite", "patchRole",
   "remove", "respond"}

-----------------------------------------------------------------------------
(* Public links *)

\* What the capabilities say against the call.
Forbidden ==
  CASE call.op = "linkCreate" ->
         {"links", "shares"}
           \cup (IF call.password THEN {} ELSE {"noPassword"})
           \cup (IF call.expiry THEN {"expiry"} ELSE {})
    [] call.kind = "federated" -> {"federation"}
    [] call.kind = "group" -> {"shares", "groups"}
    [] OTHER -> {"shares"}

Capabilities ==
  /\ Ask("capabilities", policy \cap Forbidden = {}, policy, "failed")
  /\ UNCHANGED sharing

NewShare(kind, item, person, role, link) ==
  shares' = shares \cup
    {[id |-> NewID, kind |-> kind, item |-> item, person |-> person, role |-> role, link |-> link]}

AskedLink ==
  [f \in Fields \cup {"password"} |->
     CASE f = "password" /\ ~call.password -> 0
       [] f = "expiry" /\ ~call.expiry -> 0
       [] OTHER -> 2]

CreateLink ==
  /\ NewIDs # {}
  /\ Change("createLink", TRUE,
            NewShare("link", lying, 0, 0, AskedLink), UNCHANGED shares, NewID, "failed")
  /\ UNCHANGED <<policy, lying, known, received, theirs, edits>>

\* loadPublicLink: two requests; only what the first permission said is used.
Load(step) ==
  /\ Ask(step, IsLink(call.id),
         IF step = "getPermission" /\ IsLink(call.id) THEN Share(call.id).link ELSE NoLink,
         IF step \in {"reloadLink", "reloadPermission"} THEN "partial" ELSE "failed")
  /\ UNCHANGED sharing

LoadLink == \E step \in {"getLink", "getPermission", "reloadLink", "reloadPermission"} : Load(step)

\* Mutant of LinkError: an error is reported as it came.
LinkErrorPlain == "failed"

\* The error says so when a change before this one was made.
LinkError ==
  IF \/ Head(todo) = "patchLink" /\ call.password = "set"
     \/ Head(todo) = "removePassword" /\ call.fields # {}
  THEN "partial" ELSE "failed"

\* A request that changes some fields of the link.
ChangeLink(step, fields, value, allowed) ==
  /\ At(step)
  /\ LET old == Share(call.id)
         new == [old EXCEPT !.link = [f \in DOMAIN @ |-> IF f \in fields THEN value[f] ELSE @[f]]]
     IN Change(step, IsLink(call.id) /\ allowed, shares' = Update(call.id, new),
               UNCHANGED shares, 0, LinkError)
  /\ UNCHANGED <<policy, lying, known, received, theirs, edits>>

SetPassword == ChangeLink("setPassword", {"password"}, [password |-> 2], TRUE)

RemovePassword ==
  ChangeLink("removePassword", {"password"}, [password |-> 0], "noPassword" \notin policy)

\* Mutant of PatchLink: the fields not asked for are sent as they were loaded.
PatchWholeLink ==
  ChangeLink("patchLink", Fields,
             [f \in Fields |-> IF f \in call.fields THEN 2 ELSE seen["getPermission"][f]], TRUE)

PatchLink == ChangeLink("patchLink", call.fields, [f \in call.fields |-> 2], TRUE)

-----------------------------------------------------------------------------
(* Direct and federated shares *)

Stat ==
  /\ Ask("stat", TRUE, lying, "failed")
  /\ UNCHANGED sharing

SharedItem == IF call.op = "shareAdd" THEN seen["stat"] ELSE seen["listOutgoing"].item

AskRoles ==
  /\ At("roles")
  /\ LET role == ResolveDirectRole(Roles[SharedItem], call.role)
     IN Ask("roles", role # 0, role, "failed")
  /\ UNCHANGED sharing

AskRecipient ==
  /\ At("recipient")
  /\ LET answers == {p \in People : KindOf[p] = call.kind /\ known[p] # "no"}
         person == SelectRecipient(answers, {p \in answers : known[p] = "exact"})
     IN Ask("recipient", person # 0, person, "failed")
  /\ UNCHANGED sharing

Invite ==
  /\ At("invite") /\ NewIDs # {}
  /\ LET person == IF call.byID THEN call.person ELSE seen["recipient"]
         item == seen["stat"]
     IN Change("invite",
               person \in People /\ ~\E s \in shares : s.item = item /\ s.person = person,
               NewShare(call.kind, item, person, seen["roles"], NoLink),
               UNCHANGED shares, 0, "failed")
  /\ UNCHANGED <<policy, lying, known, received, theirs, edits>>

\* resolveOutgoingShare: a role is changed of a direct share only.
ListOutgoing ==
  /\ Ask("listOutgoing",
         Exists(call.id) /\ (call.op = "shareUpdate" => ~IsLink(call.id)),
         IF Exists(call.id) THEN Share(call.id) ELSE NoLink, "failed")
  /\ UNCHANGED sharing

PatchRole ==
  /\ At("patchRole")
  /\ LET new == [Share(call.id) EXCEPT !.role = seen["roles"]]
     IN Change("patchRole", Exists(call.id), shares' = Update(call.id, new),
               UNCHANGED shares, 0, "failed")
  /\ UNCHANGED <<policy, lying, known, received, theirs, edits>>

\* RevokeLink or RemoveItemPermission, by the kind of share.
Remove ==
  /\ Change("remove",
            Exists(call.id) /\ (call.op = "linkRevoke" => IsLink(call.id)),
            shares' = shares \ {Share(call.id)}, UNCHANGED shares, 0, "failed")
  /\ UNCHANGED <<policy, lying, known, received, theirs, edits>>

-----------------------------------------------------------------------------
(* Received shares *)

ListReceived ==
  /\ Ask("listReceived", received # "gone", received, "failed")
  /\ UNCHANGED sharing

Respond ==
  /\ Change("respond", received # "gone",
            received' = IF call.accept THEN "accepted" ELSE "declined",
            UNCHANGED received, 0, "failed")
  /\ UNCHANGED <<policy, shares, lying, known, theirs, edits>>

-----------------------------------------------------------------------------
(* What other clients do meanwhile *)

\* Only what the command is about changes: it reads nothing else.
Edit(ops) ==
  /\ call.op \in ops
  /\ edits < MaxEdits /\ edits' = edits + 1 /\ UNCHANGED control

Existing == {"linkUpdate", "linkRevoke", "shareUpdate", "shareRemove"}
New == {"linkCreate", "shareAdd"}

EditLink ==
  /\ Edit(Existing)
  /\ \E f \in Fields \cup {"password"} :
       /\ IsLink(1)
       /\ shares' = Update(1, [Share(1) EXCEPT !.link[f] = 3])
       /\ theirs' = [theirs EXCEPT ![f] = 3]
  /\ UNCHANGED <<policy, lying, known, received>>

WithdrawShare ==
  /\ \/ Edit(Existing) /\ Exists(call.id) /\ shares' = shares \ {Share(call.id)}
        /\ UNCHANGED received
     \/ Edit({"respond"}) /\ received' = "gone" /\ UNCHANGED shares
  /\ UNCHANGED <<policy, lying, known, theirs>>

ReplaceItem ==
  /\ Edit(New)
  /\ lying' \in Items
  /\ UNCHANGED <<policy, shares, known, received, theirs>>

RenamePerson ==
  /\ Edit(New)
  /\ \E p \in People, answer \in {"exact", "similar", "no"} : known' = [known EXCEPT ![p] = answer]
  /\ UNCHANGED <<policy, shares, lying, received, theirs>>

-----------------------------------------------------------------------------

\* Link 1 and, to a first person, the direct share 2.
ShareInit ==
  /\ policy \in Policies
  /\ lying \in Items /\ \A i \in Items : lying <= i
  /\ \E password \in {0, 1}, p \in People :
       /\ theirs = [f \in Fields \cup {"password"} |-> IF f = "password" THEN password ELSE 1]
       /\ \A q \in People : p <= q
       /\ shares =
            {[id |-> 1, kind |-> "link", item |-> lying, person |-> 0, role |-> 0, link |-> theirs],
             [id |-> 2, kind |-> KindOf[p], item |-> lying, person |-> p, role |-> 0,
              link |-> NoLink]}
       /\ known = [q \in People |-> IF p = q THEN "exact" ELSE "similar"]
  /\ received = "pending"
  /\ edits = 0

ShareNext ==
  \/ Capabilities \/ CreateLink \/ LoadLink \/ SetPassword \/ PatchLink \/ RemovePassword
  \/ Stat \/ AskRoles \/ AskRecipient \/ Invite \/ ListOutgoing \/ PatchRole \/ Remove
  \/ ListReceived \/ Respond
  \/ EditLink \/ WithdrawShare \/ ReplaceItem \/ RenamePerson
=============================================================================
