--------------------------- MODULE Administration ---------------------------
(***************************************************************************)
(* The commands that administer users, groups, roles and Spaces.  What the *)
(* user typed is a name or a stable ID; it is resolved to the ID first,    *)
(* and every change is addressed by ID.  The account that runs the command *)
(* is Self.                                                                *)
(*                                                                         *)
(* IDs and names are numbers; names with the same tens resemble each       *)
(* other.  Names of users and of groups are unique, those of Spaces are    *)
(* not.  The server is external.  Other administrators rename, disable and *)
(* delete, but they leave Self its account and its roles.                  *)
(***************************************************************************)
EXTENDS Requests, Directory

CONSTANTS
  AdminCalls,      \* the commands in use, see AdminScript
  Users,           \* IDs of accounts
  Self,            \* the one that runs the command
  Groups,          \* IDs of groups
  Drives,          \* IDs of Spaces
  Names,           \* of users, of groups and of Spaces
  AppRoles,        \* administrative roles: [id, name]
  SpaceRoles,      \* the roles Spaces advertise
  FirstUsers, FirstGroups, FirstDrives,      \* what there is at the beginning
  ReadOnly,        \* user fields the server does not let anyone change
  MaxChanges       \* bound on what other administrators do

ASSUME AdministrationAssumption ==
  /\ Self \in Users /\ FirstUsers[Self].there /\ FirstUsers[Self].enabled
  /\ DOMAIN FirstUsers = Users
  /\ DOMAIN FirstUsers[Self] = {"there", "name", "enabled", "fields", "roles"}
  /\ \A c \in AdminCalls :
       /\ c.op \in {"userCreate", "userUpdate", "userState", "userDelete", "role",
                    "groupCreate", "groupUpdate", "groupDelete", "membership",
                    "spaceCreate", "spaceUpdate", "spaceDisable", "spaceRestore",
                    "spaceDelete", "memberAdd", "memberUpdate", "memberRemove"}
       /\ c.op = "userState" => c.enable \in BOOLEAN
  /\ MaxChanges \in Nat

VARIABLES
  user,            \* accounts: [there, name, enabled, fields, roles]
  group,           \* groups: [there, name, readOnly, members]
  drive,           \* Spaces: [there, disabled, project, name, fields, members]
  default,         \* the default Space in the configuration, 0 for none
  mfa,             \* the server accepts the session as step-up authenticated
  changes          \* used-up bound

administration == <<user, group, drive, default, mfa, changes>>

FindUser(selector) == OnlyOne({u \in Users : user[u].there /\ selector \in {u, user[u].name}})
FindGroup(selector) == OnlyOne({g \in Groups : group[g].there /\ selector \in {g, group[g].name}})
\* Resolve: an ID, a name or an alias that fits one of the listed Spaces only.
FindDrive(selector) ==
  OnlyOne({d \in Drives : drive[d].there /\ ~drive[d].disabled /\ selector \in {d, drive[d].name}})

-----------------------------------------------------------------------------
(* What the commands ask, in order *)

Unless(dry, step) == IF dry THEN <<>> ELSE <<step>>

UserCreateScript == <<"guard", "options">> \o Unless(call.dry, "createUser")
UserUpdateScript == <<"guard", "user", "options">> \o Unless(call.dry, "updateUser")
UserStateScript ==
  <<"guard", "user">> \o Unless(call.enable, "self") \o <<"options">>
    \o Unless(call.dry, "setState")
UserDeleteScript == <<"guard", "user", "self", "options">> \o Unless(call.dry, "deleteUser")
AppRoleScript ==
  <<"guard", "applications", "user", "assignments">>
    \o (IF call.grant THEN <<"pickRole">> ELSE <<"self", "pickAssignment">>)
    \o Unless(call.dry, IF call.grant THEN "grantRole" ELSE "revokeRole")
GroupCreateScript == <<"guard">> \o Unless(call.dry, "createGroup")
GroupUpdateScript == <<"guard", "group">> \o Unless(call.dry, "updateGroup")
GroupDeleteScript == <<"guard", "group">> \o Unless(call.dry, "deleteGroup")
MembershipScript == <<"guard", "group", "user">> \o Unless(call.dry, "changeMembership")

\* The admin space commands prove step-up authentication first.
Guarded(script) == IF call.admin THEN <<"guard">> \o script ELSE script

SpaceCreateScript == Guarded(Unless(call.dry, "createDrive"))
SpaceUpdateScript == Guarded(<<"drive">> \o Unless(call.dry, "updateDrive"))
SpaceDisableScript ==
  Guarded(<<"drive">> \o (IF call.dry THEN <<>> ELSE <<"disableDrive", "clearDefault">>))
SpaceRestoreScript == Guarded(Unless(call.dry, "restoreDrive"))
SpaceDeleteScript == Guarded(Unless(call.dry, "purgeDrive"))
MemberAddScript ==
  Guarded(<<"drive", "spaceRole">> \o Unless(call.byID, "member") \o Unless(call.dry, "addMember"))
MemberUpdateScript == Guarded(<<"drive", "spaceRole">> \o Unless(call.dry, "updateMember"))
MemberRemoveScript == Guarded(<<"drive">> \o Unless(call.dry, "removeMember"))

AdminScript ==
  CASE call.op = "userCreate" -> UserCreateScript
    [] call.op = "userUpdate" -> UserUpdateScript
    [] call.op = "userState" -> UserStateScript
    [] call.op = "userDelete" -> UserDeleteScript
    [] call.op = "role" -> AppRoleScript
    [] call.op = "groupCreate" -> GroupCreateScript
    [] call.op = "groupUpdate" -> GroupUpdateScript
    [] call.op = "groupDelete" -> GroupDeleteScript
    [] call.op = "membership" -> MembershipScript
    [] call.op = "spaceCreate" -> SpaceCreateScript
    [] call.op = "spaceUpdate" -> SpaceUpdateScript
    [] call.op = "spaceDisable" -> SpaceDisableScript
    [] call.op = "spaceRestore" -> SpaceRestoreScript
    [] call.op = "spaceDelete" -> SpaceDeleteScript
    [] call.op = "memberAdd" -> MemberAddScript
    [] call.op = "memberUpdate" -> MemberUpdateScript
    [] call.op = "memberRemove" -> MemberRemoveScript

AdminChanges ==
  {"createUser", "updateUser", "setState", "deleteUser", "grantRole", "revokeRole",
   "createGroup", "updateGroup", "deleteGroup", "changeMembership",
   "createDrive", "updateDrive", "disableDrive", "restoreDrive", "purgeDrive",
   "addMember", "updateMember", "removeMember"}

-----------------------------------------------------------------------------
(* Guards and lookups *)

\* The guarded inventory answers only a step-up authenticated administrator.
Guard ==
  /\ Ask("guard", mfa, TRUE, "failed")
  /\ UNCHANGED administration

\* The fields a command would write.
Written ==
  CASE call.op = "userUpdate" -> call.fields
    [] call.op = "userState" -> {"enabled"}
    [] call.op = "userCreate" -> {"create"}
    [] call.op = "userDelete" -> {"delete"}

\* adminCapabilities: without an answer the command goes on.
Options ==
  /\ At("options")
  /\ \/ Ask("options", Written \cap ReadOnly = {}, TRUE, "failed")
     \/ Fault /\ Proceed /\ UNCHANGED <<seen, carried, unsure>>
  /\ UNCHANGED administration

LookUpUser ==
  /\ Ask("user", FindUser(call.user) # 0, FindUser(call.user), "failed")
  /\ UNCHANGED administration

\* Mutant of RejectSelf: what was typed is compared.
RejectSelfByName ==
  /\ Ask("self", call.user # user[Self].name, Self, "failed")
  /\ UNCHANGED administration

\* rejectSelfTarget compares stable IDs.
RejectSelf ==
  /\ At("self")
  /\ Ask("self", seen["user"] # Self, Self, "failed")
  /\ UNCHANGED administration

LookUpGroup ==
  /\ LET g == FindGroup(call.group)
     IN Ask("group", g # 0 /\ ~group[g].readOnly, g, "failed")
  /\ UNCHANGED administration

LookUpDrive ==
  /\ LET d == FindDrive(call.space)
     IN Ask("drive", d # 0 /\ drive[d].project, d, "failed")
  /\ UNCHANGED administration

-----------------------------------------------------------------------------
(* Users and their roles *)

\* A change of one account, addressed by its ID.
ChangeUser(step, id, able, record) ==
  /\ Change(step, id # 0 /\ able, user' = [user EXCEPT ![id] = record], UNCHANGED user,
            id, "failed")
  /\ UNCHANGED <<group, drive, default, mfa, changes>>

NameFree(name) == \A u \in Users : user[u].there => user[u].name # name
FreeUser == OnlyOne({u \in Users : ~user[u].there /\ \A v \in Users : ~user[v].there => u <= v})

CreateUser ==
  ChangeUser("createUser", FreeUser, NameFree(call.name),
             [there |-> TRUE, name |-> call.name, enabled |-> ~call.disabled,
              fields |-> {}, roles |-> {}])

UpdateUser ==
  /\ At("updateUser")
  /\ LET id == seen["user"]
     IN ChangeUser("updateUser", id, user[id].there /\ call.fields \cap ReadOnly = {},
                   [user[id] EXCEPT !.fields = @ \cup call.fields])

SetState ==
  /\ At("setState")
  /\ LET id == seen["user"]
     IN ChangeUser("setState", id, user[id].there, [user[id] EXCEPT !.enabled = call.enable])

DeleteUser ==
  /\ At("deleteUser")
  /\ LET id == seen["user"]
     IN ChangeUser("deleteUser", id, user[id].there,
                   [user[id] EXCEPT !.there = FALSE, !.roles = {}])

\* ListApplications: the roles are those of the configuration.
Applications ==
  /\ Ask("applications", TRUE, AppRoles, "failed")
  /\ UNCHANGED administration

Assignments ==
  /\ At("assignments")
  /\ LET id == seen["user"] IN Ask("assignments", user[id].there, user[id].roles, "failed")
  /\ UNCHANGED administration

Chosen(roles) == OnlyOne({r.id : r \in {x \in roles : call.role \in {x.id, x.name}}})

\* ResolveAdvertisedRole and ResolveRoleAssignment: one fit, or an error.
PickRole ==
  /\ Decide("pickRole", Chosen(AppRoles) # 0, "failed")
  /\ UNCHANGED administration

PickAssignment ==
  /\ At("pickAssignment")
  /\ Decide("pickAssignment", Chosen({r \in AppRoles : r.id \in seen["assignments"]}) # 0, "failed")
  /\ UNCHANGED administration

\* A new role may replace the old one.
GrantRole ==
  /\ At("grantRole")
  /\ LET id == seen["user"]
     IN \E old \in {user[id].roles, {}} :
          ChangeUser("grantRole", id, user[id].there,
                     [user[id] EXCEPT !.roles = old \cup {Chosen(AppRoles)}])

RevokeRole ==
  /\ At("revokeRole")
  /\ LET id == seen["user"]
         role == Chosen({r \in AppRoles : r.id \in seen["assignments"]})
     IN ChangeUser("revokeRole", id, user[id].there /\ role \in user[id].roles,
                   [user[id] EXCEPT !.roles = @ \ {role}])

-----------------------------------------------------------------------------
(* Groups *)

ChangeGroup(step, id, able, record) ==
  /\ Change(step, id # 0 /\ able, group' = [group EXCEPT ![id] = record], UNCHANGED group,
            id, "failed")
  /\ UNCHANGED <<user, drive, default, mfa, changes>>

GroupNameFree(name) == \A g \in Groups : group[g].there => group[g].name # name
FreeGroup == OnlyOne({g \in Groups : ~group[g].there /\ \A h \in Groups : ~group[h].there => g <= h})

CreateGroup ==
  ChangeGroup("createGroup", FreeGroup, GroupNameFree(call.name),
              [there |-> TRUE, name |-> call.name, readOnly |-> FALSE, members |-> {}])

UpdateGroup ==
  /\ At("updateGroup")
  /\ LET id == seen["group"]
     IN ChangeGroup("updateGroup", id, group[id].there /\ GroupNameFree(call.name),
                    [group[id] EXCEPT !.name = call.name])

DeleteGroup ==
  /\ At("deleteGroup")
  /\ LET id == seen["group"]
     IN ChangeGroup("deleteGroup", id, group[id].there,
                    [group[id] EXCEPT !.there = FALSE, !.members = {}])

ChangeMembership ==
  /\ At("changeMembership")
  /\ LET id == seen["group"]
         u == seen["user"]
     IN ChangeGroup("changeMembership", id,
                    group[id].there /\ user[u].there /\ (call.remove <=> u \in group[id].members),
                    [group[id] EXCEPT !.members = IF call.remove THEN @ \ {u} ELSE @ \cup {u}])

-----------------------------------------------------------------------------
(* Spaces *)

ChangeDrive(step, id, able, record) ==
  /\ Change(step, id # 0 /\ able, drive' = [drive EXCEPT ![id] = record], UNCHANGED drive,
            id, "failed")
  /\ UNCHANGED <<user, group, default, mfa, changes>>

FreeDrive == OnlyOne({d \in Drives : ~drive[d].there /\ \A e \in Drives : ~drive[e].there => d <= e})

\* Two Spaces may have one name.
CreateDrive ==
  ChangeDrive("createDrive", FreeDrive, TRUE,
              [there |-> TRUE, disabled |-> FALSE, project |-> TRUE, name |-> call.name,
               fields |-> {}, members |-> {}])

Usable(id) == drive[id].there /\ ~drive[id].disabled

UpdateDrive ==
  /\ At("updateDrive")
  /\ LET id == seen["drive"]
     IN ChangeDrive("updateDrive", id, Usable(id), [drive[id] EXCEPT !.fields = @ \cup call.fields])

\* Disabling a Space once more is accepted.
DisableDrive ==
  /\ At("disableDrive")
  /\ LET id == seen["drive"]
     IN ChangeDrive("disableDrive", id, drive[id].there, [drive[id] EXCEPT !.disabled = TRUE])

\* Mutant of ClearDefault: it compares what was typed.
ClearDefaultByName ==
  /\ At("clearDefault")
  /\ default' = IF default = call.space THEN 0 ELSE default
  /\ Proceed /\ UNCHANGED <<seen, carried, unsure, faults>>
  /\ UNCHANGED <<user, group, drive, mfa, changes>>

\* ClearDefaultSpace; an error says that the Space was disabled.
ClearDefault ==
  /\ At("clearDefault")
  /\ \/ /\ default' = IF default = seen["drive"] THEN 0 ELSE default
        /\ Proceed /\ UNCHANGED <<seen, carried, unsure, faults>>
     \/ /\ default = seen["drive"] /\ UNCHANGED default
        /\ Fault /\ Fail("partial") /\ UNCHANGED <<carried, unsure>>
  /\ UNCHANGED <<user, group, drive, mfa, changes>>

\* Restoring and purging take the ID as it was typed.
RestoreDrive ==
  LET id == call.space
  IN ChangeDrive("restoreDrive", id, drive[id].there, [drive[id] EXCEPT !.disabled = FALSE])

\* The server purges disabled Spaces only.
PurgeDrive ==
  LET id == call.space
  IN ChangeDrive("purgeDrive", id, drive[id].there /\ drive[id].disabled,
                 [drive[id] EXCEPT !.there = FALSE, !.members = {}])

SpaceRole ==
  /\ LET role == ResolveSpaceRole(SpaceRoles, call.role)
     IN Ask("spaceRole", role # 0, role, "failed")
  /\ UNCHANGED administration

LookUpMember ==
  /\ LET answers == {u \in Users : user[u].there /\ user[u].name \div 10 = call.member \div 10}
         person == SelectRecipient(answers, {u \in answers : user[u].name = call.member})
     IN Ask("member", person # 0, person, "failed")
  /\ UNCHANGED administration

\* A permission is known by the member it is for.
AddMember ==
  /\ At("addMember")
  /\ LET id == seen["drive"]
         person == IF call.byID THEN call.member ELSE seen["member"]
     IN ChangeDrive("addMember", id,
                    Usable(id) /\ user[person].there /\ ~\E m \in drive[id].members : m[1] = person,
                    [drive[id] EXCEPT !.members = @ \cup {<<person, seen["spaceRole"]>>}])

Has(id, person) == Usable(id) /\ \E m \in drive[id].members : m[1] = person
Others(id, person) == {m \in drive[id].members : m[1] # person}

UpdateMember ==
  /\ At("updateMember")
  /\ LET id == seen["drive"]
     IN ChangeDrive("updateMember", id, Has(id, call.member),
                    [drive[id] EXCEPT !.members =
                       Others(id, call.member) \cup {<<call.member, seen["spaceRole"]>>}])

RemoveMember ==
  /\ At("removeMember")
  /\ LET id == seen["drive"]
     IN ChangeDrive("removeMember", id, Has(id, call.member),
                    [drive[id] EXCEPT !.members = Others(id, call.member)])

-----------------------------------------------------------------------------
(* Other administrators *)

\* Only what the command names or searches changes: it reads nothing else.
Meanwhile(fields) ==
  /\ fields \cap DOMAIN call # {}
  /\ changes < MaxChanges /\ changes' = changes + 1 /\ UNCHANGED control

RenameUser ==
  /\ Meanwhile({"user", "member"})
  /\ \E u \in Users, n \in Names :
       user[u].there /\ NameFree(n) /\ user' = [user EXCEPT ![u].name = n]
  /\ UNCHANGED <<group, drive, default, mfa>>

LoseUser ==
  /\ Meanwhile({"user", "member"})
  /\ \E u \in Users \ {Self} : user[u].there /\ user' = [user EXCEPT ![u].there = FALSE, ![u].roles = {}]
  /\ UNCHANGED <<group, drive, default, mfa>>

AlterGroup ==
  /\ Meanwhile({"group"})
  /\ \E g \in Groups :
       /\ group[g].there
       /\ \/ group' = [group EXCEPT ![g].there = FALSE, ![g].members = {}]
          \/ \E n \in Names : GroupNameFree(n) /\ group' = [group EXCEPT ![g].name = n]
  /\ UNCHANGED <<user, drive, default, mfa>>

AlterDrive ==
  /\ Meanwhile({"space"})
  /\ \E d \in Drives :
       /\ Usable(d) /\ drive[d].project
       /\ \/ drive' = [drive EXCEPT ![d].disabled = TRUE]
          \/ \E n \in Names \ {drive[d].name} : drive' = [drive EXCEPT ![d].name = n]
  /\ UNCHANGED <<user, group, default, mfa>>

\* The step-up authentication expires.
SessionAges ==
  /\ Meanwhile({"op"})
  /\ mfa /\ mfa' = FALSE
  /\ UNCHANGED <<user, group, drive, default>>

-----------------------------------------------------------------------------

AdminInit ==
  /\ user = FirstUsers /\ group = FirstGroups /\ drive = FirstDrives
  /\ default \in {0} \cup {d \in Drives : drive[d].project /\ Usable(d)}
  /\ mfa = TRUE /\ changes = 0

AdminNext ==
  \/ Guard \/ Options \/ LookUpUser \/ RejectSelf \/ LookUpGroup \/ LookUpDrive
  \/ CreateUser \/ UpdateUser \/ SetState \/ DeleteUser
  \/ Applications \/ Assignments \/ PickRole \/ PickAssignment \/ GrantRole \/ RevokeRole
  \/ CreateGroup \/ UpdateGroup \/ DeleteGroup \/ ChangeMembership
  \/ CreateDrive \/ UpdateDrive \/ DisableDrive \/ ClearDefault \/ RestoreDrive \/ PurgeDrive
  \/ SpaceRole \/ LookUpMember \/ AddMember \/ UpdateMember \/ RemoveMember
  \/ RenameUser \/ LoseUser \/ AlterGroup \/ AlterDrive \/ SessionAges
=============================================================================
