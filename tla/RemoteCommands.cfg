\* Every command of several requests, repeated, beside another client.
CONSTANTS
  Retries = 1
  MaxFaults = 2
  MaxRuns = 2
  ShareCalls <- MCShareCalls
  Policies <- MCPolicies
  Items = {1, 2}
  Roles <- MCRoles
  People = {1, 2, 3, 4}
  KindOf <- MCKindOf
  MaxShares = 6
  MaxEdits = 1
  AdminCalls <- MCAdminCalls
  Users = {1, 2, 3}
  Self = 1
  Groups = {1, 2, 3}
  Drives = {1, 2, 3, 4}
  Names <- MCNames
  AppRoles <- MCAppRoles
  SpaceRoles <- MCSpaceRoles
  FirstUsers <- MCUsers
  FirstGroups <- MCGroups
  FirstDrives <- MCDrives
  ReadOnly = {"name"}
  MaxChanges = 1
  RecoveryCalls <- MCRecoveryCalls
  Resources = {1, 2}
  Paths = {"p", "q"}
  Contents = {"a", "b"}
  MaxOthers = 2
SPECIFICATION CommandSpec
INVARIANTS AnswerIsHonest LinkStaysAsAsked SelfKept
PROPERTIES OnlyNamedIsLost
