\* Commands on two profiles, alone and two at a time, with deaths anywhere.
CONSTANTS
  home = home
  work = work
  p1 = p1
  p2 = p2
  NoProfile = NoProfile
  Profiles <- AllProfiles
  Processes <- AllProcesses
  Accounts = {1, 2, 3}
  BasicAccounts = {3}
  EnvAccounts = {2}
  Starts <- AllStarts
  MaxTokens = 3
SPECIFICATION Spec
INVARIANTS SpaceOwned SecretsMatchIdentity SpaceSeenByOwner StoredTokenLive
PROPERTIES SavedIsLoaded LogoutErases
