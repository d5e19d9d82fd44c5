-------------------------- MODULE MCRemoteCommands --------------------------
(* Instances of RemoteCommands: every command with its options, on a few      *)
(* shares, accounts, groups, Spaces and files.                                *)
EXTENDS RemoteCommands, TLC

Dry(records) == {[dry |-> dry] @@ r : r \in records, dry \in BOOLEAN}
Role(text, alias) == [text |-> text, alias |-> alias]

MCShareCalls ==
  Dry(  {[op |-> "linkCreate", kind |-> "link", password |-> p, expiry |-> e] : p, e \in BOOLEAN}
   \cup {[op |-> "linkRevoke", id |-> id] : id \in {1, 2}}
   \cup {[op |-> "shareAdd", kind |-> "user", byID |-> FALSE, person |-> 0, role |-> Role(0, "editor")],
         [op |-> "shareAdd", kind |-> "user", byID |-> TRUE, person |-> 2, role |-> Role(51, "")],
         [op |-> "shareAdd", kind |-> "group", byID |-> FALSE, person |-> 0, role |-> Role(0, "viewer")],
         [op |-> "shareAdd", kind |-> "federated", byID |-> FALSE, person |-> 0, role |-> Role(2, "")]}
   \cup {[op |-> "shareUpdate", id |-> id, role |-> Role(0, "viewer")] : id \in {1, 2}}
   \cup {[op |-> "shareRemove", id |-> id] : id \in {1, 2}}
   \cup {[op |-> "respond", accept |-> a] : a \in BOOLEAN})
  \cup
  {[op |-> "linkUpdate", dry |-> FALSE, id |-> 1, fields |-> x[1], password |-> x[2]] :
     x \in {<<{"access"}, "keep">>, <<{"access"}, "set">>, <<{"name", "expiry"}, "remove">>,
            <<{}, "set">>, <<{}, "remove">>}}
  \cup {[op |-> "linkUpdate", dry |-> TRUE, id |-> 1, fields |-> {"name"}, password |-> "set"]}

MCPolicies == {{}, {"noPassword", "expiry", "groups", "federation"}}

ShareRole(id, alias, plain) == [id |-> id, name |-> 50 + id, alias |-> alias, plain |-> plain]
Viewer == ShareRole(1, "viewer", TRUE)
MCRoles == <<<<Viewer, ShareRole(2, "editor", FALSE), ShareRole(3, "editor", TRUE)>>, <<Viewer>>>>
MCKindOf == <<"user", "user", "group", "federated">>

MCAdminCalls ==
  Dry(  {[op |-> "userCreate", name |-> 33, disabled |-> TRUE],
         [op |-> "userUpdate", user |-> 22, fields |-> {"mail"}],
         [op |-> "userUpdate", user |-> 22, fields |-> {"name"}],
         [op |-> "groupCreate", name |-> 61], [op |-> "groupUpdate", group |-> 61, name |-> 62],
         [op |-> "groupDelete", group |-> 61], [op |-> "groupDelete", group |-> 63]}
   \cup {[op |-> "membership", group |-> 1, user |-> 22, remove |-> r] : r \in BOOLEAN}
   \cup {[op |-> "spaceCreate", admin |-> a, name |-> 71] : a \in BOOLEAN}
   \cup {[op |-> "spaceUpdate", admin |-> FALSE, space |-> 71, fields |-> {"quota"}]}
   \cup {[op |-> "spaceDisable", admin |-> a, space |-> s] : a \in BOOLEAN, s \in {2, 71}}
   \cup {[op |-> op, admin |-> a, space |-> 3] :
           op \in {"spaceRestore", "spaceDelete"}, a \in BOOLEAN}
   \cup {[op |-> "memberAdd", admin |-> FALSE, space |-> 2, role |-> Role(0, alias),
          byID |-> id, member |-> IF id THEN 2 ELSE 22] : id \in BOOLEAN, alias \in {"editor", "viewer"}}
   \cup {[op |-> "memberUpdate", admin |-> FALSE, space |-> 2, role |-> Role(53, ""), member |-> 1]}
   \cup {[op |-> "memberRemove", admin |-> TRUE, space |-> 2, member |-> 1]})
  \cup
  {[op |-> "userState", dry |-> FALSE, user |-> u, enable |-> e] : u \in {1, 11, 22}, e \in BOOLEAN}
  \cup {[op |-> "userDelete", dry |-> FALSE, user |-> u] : u \in {1, 11, 22, 71}}
  \cup {[op |-> "role", dry |-> FALSE, grant |-> g, user |-> u, role |-> r] :
          g \in BOOLEAN, u \in {11, 22}, r \in {1, 82}}

Account(name, there, roles) ==
  [there |-> there, name |-> name, enabled |-> TRUE, fields |-> {}, roles |-> roles]
MCUsers == <<Account(11, TRUE, {1}), Account(22, TRUE, {1, 2}), Account(0, FALSE, {})>>
Group(name, there, readOnly) ==
  [there |-> there, name |-> name, readOnly |-> readOnly, members |-> {}]
MCGroups == <<Group(61, TRUE, FALSE), Group(63, TRUE, TRUE), Group(0, FALSE, FALSE)>>
Drive(name, there, project) ==
  [there |-> there, disabled |-> FALSE, project |-> project, name |-> name, fields |-> {},
   members |-> {<<1, 3>>}]
MCDrives == <<Drive(70, TRUE, FALSE), Drive(71, TRUE, TRUE), Drive(72, TRUE, TRUE),
              Drive(0, FALSE, TRUE)>>
MCNames == {22, 71}
MCAppRoles == {[id |-> 1, name |-> 81], [id |-> 2, name |-> 82]}
MCSpaceRoles == MCRoles[1]

MCRecoveryCalls ==
  Dry(  {[op |-> "trashRestore", id |-> 1, overwrite |-> o] : o \in BOOLEAN}
   \cup {[op |-> "trashRemove", id |-> 1], [op |-> "trashEmpty"]}
   \cup {[op |-> "versionRestore", path |-> "p", version |-> "a"]})
  \cup {[op |-> "versionDownload", dry |-> FALSE, path |-> "p", version |-> "a",
         noClobber |-> n, verify |-> v] : n, v \in BOOLEAN}
=============================================================================
