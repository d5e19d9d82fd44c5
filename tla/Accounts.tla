------------------------------ MODULE Accounts ------------------------------
(***************************************************************************)
(* Profiles, their secrets and their accounts.  Every command of `ocis` is *)
(* a process that loads the configuration file and then the keyring items  *)
(* of each profile, works, and, if it has changed anything, writes all of  *)
(* it back: first the keyring, item by item, then the configuration file,  *)
(* which alone is replaced at one instant.  There are no locks.            *)
(*                                                                         *)
(* Data abstraction.  An account (a positive number) stands for an issuer  *)
(* and subject or, for the BasicAccounts, a server and user name; 0 is     *)
(* none.  A password is the number of its account, a token is numbered as  *)
(* it is issued, a client secret is 0 or 1.  A default Space is            *)
(* represented by the account whose credentials found it on the server.    *)
(* Which profile is current only selects a profile, so commands choose     *)
(* theirs.  Get reads the items of one profile at one instant.  A login    *)
(* brings an access and a refresh token (it asks for offline_access).      *)
(***************************************************************************)
EXTENDS Integers, Sequences, FiniteSets

CONSTANTS
  Profiles,       \* names of profiles
  NoProfile,      \* none of them
  Accounts,       \* accounts on the servers
  BasicAccounts,  \* those used with a password
  EnvAccounts,    \* those whose token OCIS_ACCESS_TOKEN may hold
  Processes,      \* commands that may run at the same time
  Starts,         \* what a behaviour begins with
  MaxTokens       \* bounds the tokens issued

Range0(S) == S \cup {0}

ASSUME AccountsAssumption ==
  /\ NoProfile \notin Profiles
  /\ Accounts \subseteq Nat \ {0}
  /\ BasicAccounts \subseteq Accounts /\ EnvAccounts \subseteq Accounts
  /\ MaxTokens \in Nat

VARIABLES
  config,      \* config.json: what it says of each profile
  keyring,     \* the keyring: marker and items of each profile
  tokens,      \* the accounts of the tokens issued so far
  live,        \* refresh tokens that are not spent
  pc,          \* what each process is doing
  command,     \* and for which command
  store,       \* its copy of the configuration
  secrets,     \* and of the secrets
  todo,        \* profiles it has yet to read or write
  writing,     \* the profile whose items it is writing
  item,        \* and the next of these items
  agenda,      \* bounds the commands of each process: what kinds they may be of
  faults,      \* bounds deaths and failures
  begun,       \* history: the secret of which Set last began, per profile
  overlapped,  \* history: processes whose command ran beside another
  spoiled      \* history: what has happened that the keyring is not safe from

disk == <<config, keyring, begun>>
server == <<tokens, live>>
memory == <<store, secrets>>
progress == <<todo, writing, item>>
vars == <<disk, server, memory, progress, pc, command, agenda, faults, overlapped, spoiled>>

-----------------------------------------------------------------------------
(* Profiles and secrets *)

Password == 1
ClientSecret == 2
AccessToken == 3
RefreshToken == 4
Fields == 1 .. 4   \* in the order they are written

Empty == <<0, 0, 0, 0>>
Settings == [known : BOOLEAN, account : Range0(Accounts), space : Range0(Accounts), owner : Range0(Accounts)]
NoSettings == [known |-> FALSE, account |-> 0, space |-> 0, owner |-> 0]
NewSettings == [NoSettings EXCEPT !.known = TRUE]
Secrets == [Fields -> Nat]

\* The owner of a default Space is the account of its profile.
Owned(settings) == settings.space # 0 => settings.owner = settings.account

\* A password is that of an account, and tokens have been issued.
KnownItems(secret, issued) ==
  /\ secret[Password] \in Range0(Accounts)
  /\ secret[AccessToken] \in 0 .. Len(issued)
  /\ secret[RefreshToken] \in 0 .. Len(issued)

CommandKinds == {"login", "logout", "setup", "add", "use-server", "remove", "unset", "use", "request"}

\* What is found at the start was saved by earlier commands.
ASSUME StartsAssumption ==
  \A start \in Starts :
    /\ start.config \in [Profiles -> Settings]
    /\ \A f \in Profiles : Owned(start.config[f])
    /\ start.secrets \in [Profiles -> Secrets]
    /\ start.tokens \in Seq(Accounts)
    /\ \A f \in Profiles : KnownItems(start.secrets[f], start.tokens)
    /\ start.agenda \in [Processes -> Seq(SUBSET CommandKinds)] /\ start.faults \in Nat

\* The password and the tokens of a secret are those of the account, if there is one.
Belongs(secret, account, issued) ==
  /\ secret[Password] \in IF account \in BasicAccounts THEN {0, account} ELSE {0}
  /\ \A t \in {AccessToken, RefreshToken} :
       secret[t] # 0 => account # 0 /\ account \notin BasicAccounts /\ issued[secret[t]] = account

\* And these commands neither overlapped nor died, and each login brought tokens
\* of its own: what they saved is what they meant to save.
ASSUME IdentityAssumption ==
  \A start \in Starts : \A f \in Profiles :
    /\ IF start.config[f].known
       THEN Belongs(start.secrets[f], start.config[f].account, start.tokens)
       ELSE start.secrets[f] = Empty
    /\ start.config[f].space \in {0, start.config[f].owner}
    /\ \A g \in Profiles \ {f} :
         start.secrets[f][RefreshToken] # 0 => start.secrets[f][RefreshToken] # start.secrets[g][RefreshToken]

Known(settings) == {f \in Profiles : settings[f].known}

\* What Get returns, unless it fails; no marker is no credentials.
Incomplete(f) == keyring[f].marker /\ keyring[f].items = Empty
Stored(f) == IF keyring[f].marker THEN keyring[f].items ELSE Empty

Command ==
  [kind : CommandKinds, profile : Profiles, account : Range0(Accounts),
   fresh : BOOLEAN, secret : {0, 1}, env : Range0(EnvAccounts)]

\* Only login, setup and add, and requests, have the options they have.
Commands ==
  {c \in Command :
     /\ c.kind = "login" <=> c.account # 0
     /\ c.fresh => c.kind = "login"
     /\ c.secret = 1 => c.fresh \/ c.kind \in {"setup", "add"}
     /\ c.env # 0 => c.kind \in {"use", "request"}}

NoCommand == [kind |-> "none", profile |-> NoProfile, account |-> 0, fresh |-> FALSE, secret |-> 0, env |-> 0]

Init ==
  \E start \in Starts :
    /\ config = start.config
    /\ keyring = [f \in Profiles |-> [marker |-> start.secrets[f] # Empty, items |-> start.secrets[f]]]
    /\ begun = start.secrets
    /\ tokens = start.tokens /\ live = 1 .. Len(start.tokens)
    /\ agenda = start.agenda
    /\ faults = start.faults
    /\ pc = [p \in Processes |-> "idle"]
    /\ command = [p \in Processes |-> NoCommand]
    /\ store = [p \in Processes |-> [f \in Profiles |-> NoSettings]]
    /\ secrets = [p \in Processes |-> [f \in Profiles |-> Empty]]
    /\ todo = [p \in Processes |-> {}]
    /\ writing = [p \in Processes |-> NoProfile]
    /\ item = [p \in Processes |-> 0]
    /\ overlapped = {}
    /\ spoiled = {}

-----------------------------------------------------------------------------
(* Loading.  Profile(p) is the profile the command is about. *)

Profile(p) == command[p].profile
Mine(p) == store[p][Profile(p)]
MySecret(p) == secrets[p][Profile(p)]
Running == {p \in Processes : pc[p] # "idle"}

\* The process ends and forgets everything.
End(p) ==
  /\ pc' = [pc EXCEPT ![p] = "idle"]
  /\ command' = [command EXCEPT ![p] = NoCommand]
  /\ store' = [store EXCEPT ![p] = [f \in Profiles |-> NoSettings]]
  /\ secrets' = [secrets EXCEPT ![p] = [f \in Profiles |-> Empty]]
  /\ todo' = [todo EXCEPT ![p] = {}]
  /\ writing' = [writing EXCEPT ![p] = NoProfile]
  /\ item' = [item EXCEPT ![p] = 0]

\* A command reads the configuration file.
Begin(p) ==
  /\ pc[p] = "idle" /\ agenda[p] # <<>>
  /\ \E c \in Commands :
       c.kind \in Head(agenda[p]) /\ command' = [command EXCEPT ![p] = c]
  /\ pc' = [pc EXCEPT ![p] = "load"]
  /\ store' = [store EXCEPT ![p] = config]
  /\ todo' = [todo EXCEPT ![p] = Known(config)]
  /\ agenda' = [agenda EXCEPT ![p] = Tail(@)]
  /\ overlapped' = IF Running = {} THEN overlapped \ {p} ELSE overlapped \cup Running \cup {p}
  /\ UNCHANGED <<disk, server, secrets, writing, item, faults, spoiled>>

LoadSecret(p, f) ==
  /\ pc[p] = "load" /\ f \in todo[p]
  /\ ~Incomplete(f)
  /\ secrets' = [secrets EXCEPT ![p][f] = Stored(f)]
  /\ todo' = [todo EXCEPT ![p] = @ \ {f}]
  /\ UNCHANGED <<disk, server, store, writing, item, pc, command, agenda, faults, overlapped, spoiled>>

\* A marker without any item fails every command.
LoadFails(p, f) ==
  /\ pc[p] = "load" /\ f \in todo[p]
  /\ Incomplete(f)
  /\ End(p)
  /\ UNCHANGED <<disk, server, agenda, faults, overlapped, spoiled>>

Loaded(p, kind) == pc[p] = "load" /\ todo[p] = {} /\ command[p].kind = kind

\* Commands about an unknown profile fail, except those that create it.
UnknownProfile(p) ==
  /\ pc[p] = "load" /\ todo[p] = {}
  /\ ~Mine(p).known /\ command[p].kind # "add" /\ ~command[p].fresh
  /\ End(p)
  /\ UNCHANGED <<disk, server, agenda, faults, overlapped, spoiled>>

-----------------------------------------------------------------------------
(* Saving *)

\* Change one profile in memory and begin to save all of them.
StartSave(p, stage, settings, secret) ==
  /\ store' = [store EXCEPT ![p][Profile(p)] = settings]
  /\ secrets' = [secrets EXCEPT ![p][Profile(p)] = secret]
  /\ todo' = [todo EXCEPT ![p] = Known(store[p]) \cup {Profile(p)}]
  /\ pc' = [pc EXCEPT ![p] = stage]
  /\ UNCHANGED <<disk, writing, item, command, agenda, faults, overlapped>>

Saving == {"refreshed", "save"}
NoteRace(p) == spoiled' = IF p \in overlapped THEN spoiled \cup {"raced"} ELSE spoiled

\* Set and Delete begin by removing the marker.  A removed profile comes first.
RemoveMarker(p, f) ==
  /\ pc[p] \in Saving /\ writing[p] = NoProfile /\ f \in todo[p]
  /\ command[p].kind = "remove" /\ Profile(p) \in todo[p] => f = Profile(p)
  /\ keyring' = [keyring EXCEPT ![f].marker = FALSE]
  /\ begun' = [begun EXCEPT ![f] = secrets[p][f]]
  /\ writing' = [writing EXCEPT ![p] = f]
  /\ item' = [item EXCEPT ![p] = 1]
  /\ todo' = [todo EXCEPT ![p] = @ \ {f}]
  /\ NoteRace(p)
  /\ UNCHANGED <<config, server, memory, pc, command, agenda, faults, overlapped>>

\* Mutant of WriteItem: items are set, but none is deleted.
SetItemsOnly(p) ==
  /\ pc[p] \in Saving /\ item[p] \in Fields
  /\ LET value == secrets[p][writing[p]][item[p]]
     IN  keyring' = IF value = 0 THEN keyring ELSE [keyring EXCEPT ![writing[p]].items[item[p]] = value]
  /\ item' = [item EXCEPT ![p] = @ + 1]
  /\ NoteRace(p)
  /\ UNCHANGED <<config, begun, server, memory, todo, writing, pc, command, agenda, faults, overlapped>>

\* Then every item is set or, when it is empty, deleted.
WriteItem(p) ==
  /\ pc[p] \in Saving /\ item[p] \in Fields
  /\ keyring' = [keyring EXCEPT ![writing[p]].items[item[p]] = secrets[p][writing[p]][item[p]]]
  /\ item' = [item EXCEPT ![p] = @ + 1]
  /\ NoteRace(p)
  /\ UNCHANGED <<config, begun, server, memory, todo, writing, pc, command, agenda, faults, overlapped>>

\* Set ends by writing the marker; Delete, the Set of nothing, leaves it as it is.
WriteMarker(p) ==
  /\ pc[p] \in Saving /\ item[p] = 5
  /\ keyring' = [keyring EXCEPT ![writing[p]].marker = @ \/ secrets[p][writing[p]] # Empty]
  /\ writing' = [writing EXCEPT ![p] = NoProfile]
  /\ item' = [item EXCEPT ![p] = 0]
  /\ NoteRace(p)
  /\ UNCHANGED <<config, begun, server, memory, todo, pc, command, agenda, faults, overlapped>>

Saved(p) == pc[p] \in Saving /\ writing[p] = NoProfile /\ todo[p] = {}

\* At last the configuration file is replaced.
SaveConfig(p) ==
  /\ Saved(p)
  /\ config' = store[p]
  /\ IF pc[p] = "refreshed"
     THEN pc' = [pc EXCEPT ![p] = "act"] /\ UNCHANGED <<memory, progress, command>>
     ELSE End(p)
  /\ NoteRace(p)
  /\ UNCHANGED <<keyring, begun, server, agenda, faults, overlapped>>

SaveStep(p) ==
  \/ \E f \in Profiles : RemoveMarker(p, f)
  \/ WriteItem(p) \/ WriteMarker(p) \/ SaveConfig(p)

-----------------------------------------------------------------------------
(* Commands that need no server: they change one profile and save. *)

ClearAccount(settings) == [settings EXCEPT !.account = 0, !.space = 0, !.owner = 0]
\* Mutant of ClearSecret: the refresh token is forgotten, but not deleted.
KeepRefreshToken(secret, clientSecret) == <<0, clientSecret, 0, secret[RefreshToken]>>
ClearSecret(secret, clientSecret) == <<0, clientSecret, 0, 0>>

Logout(p) ==
  /\ Loaded(p, "logout") /\ Mine(p).known
  /\ StartSave(p, "save", ClearAccount(Mine(p)), ClearSecret(MySecret(p), MySecret(p)[ClientSecret]))
  /\ UNCHANGED <<server, spoiled>>

\* The identity provider registers a client, with or without a secret.
Setup(p) ==
  /\ Loaded(p, "setup") /\ Mine(p).known
  /\ StartSave(p, "save", ClearAccount(Mine(p)), ClearSecret(MySecret(p), command[p].secret))
  /\ UNCHANGED <<server, spoiled>>

ServerAdd(p) ==
  /\ Loaded(p, "add")
  /\ StartSave(p, "save", NewSettings, ClearSecret(Empty, command[p].secret))
  /\ UNCHANGED <<server, spoiled>>

ServerUse(p) ==
  /\ Loaded(p, "use-server") /\ Mine(p).known
  /\ StartSave(p, "save", Mine(p), MySecret(p))
  /\ UNCHANGED <<server, spoiled>>

ServerRemove(p) ==
  /\ Loaded(p, "remove") /\ Mine(p).known
  /\ StartSave(p, "save", NoSettings, Empty)
  /\ UNCHANGED <<server, spoiled>>

SpaceUnset(p) ==
  /\ Loaded(p, "unset") /\ Mine(p).known
  /\ StartSave(p, "save", [Mine(p) EXCEPT !.space = 0, !.owner = 0], MySecret(p))
  /\ UNCHANGED <<server, spoiled>>

LocalStep(p) ==
  Logout(p) \/ Setup(p) \/ ServerAdd(p) \/ ServerUse(p) \/ ServerRemove(p) \/ SpaceUnset(p)

-----------------------------------------------------------------------------
(* Signing in *)

\* Mutants of ClearSpaceAfterIdentityChange: the Space is kept, or taken over.
KeepSpace(settings) == settings
AdoptSpace(settings) ==
  IF settings.space = 0 THEN settings ELSE [settings EXCEPT !.owner = settings.account]

\* A Space chosen as another account is forgotten.
ClearSpaceAfterIdentityChange(settings) ==
  IF settings.space = 0 \/ settings.account = 0 \/ settings.owner # settings.account
  THEN [settings EXCEPT !.space = 0, !.owner = 0]
  ELSE settings

\* With --server the profile is made anew; otherwise it keeps its client (there
\* is no --client-id here).
LoginBase(p) == IF command[p].fresh THEN NewSettings ELSE Mine(p)
LoginClient(p) == IF command[p].fresh THEN command[p].secret ELSE MySecret(p)[ClientSecret]
SignedIn(p) == ClearSpaceAfterIdentityChange([LoginBase(p) EXCEPT !.account = command[p].account])

\* Mutant of BasicLogin: the tokens of an earlier login stay beside the password.
BasicLoginKeepsTokens(p) ==
  /\ Loaded(p, "login") /\ LoginBase(p).known
  /\ command[p].account \in BasicAccounts
  /\ StartSave(p, "save", SignedIn(p), [MySecret(p) EXCEPT ![Password] = command[p].account])
  /\ UNCHANGED <<server, spoiled>>

BasicLogin(p) ==
  /\ Loaded(p, "login") /\ LoginBase(p).known
  /\ command[p].account \in BasicAccounts
  /\ StartSave(p, "save", SignedIn(p), <<command[p].account, LoginClient(p), 0, 0>>)
  /\ UNCHANGED <<server, spoiled>>

Issue(account) == tokens' = Append(tokens, account)
NewToken == Len(tokens) + 1

\* The browser, the exchange of the code for tokens and the user's identity.
OIDCLogin(p) ==
  /\ Loaded(p, "login") /\ LoginBase(p).known
  /\ command[p].account \notin BasicAccounts /\ NewToken <= MaxTokens
  /\ Issue(command[p].account) /\ live' = live \cup {NewToken}
  /\ StartSave(p, "save", SignedIn(p), <<0, LoginClient(p), NewToken, NewToken>>)
  /\ UNCHANGED spoiled

-----------------------------------------------------------------------------
(* Commands that talk to the server *)

IsRequest(p) == pc[p] = "load" /\ todo[p] = {} /\ command[p].kind \in {"use", "request"} /\ Mine(p).known

UsesPassword(p) == Mine(p).account \in BasicAccounts
HasCredentials(p) ==
  \/ command[p].env # 0
  \/ UsesPassword(p) /\ MySecret(p)[Password] # 0
  \/ ~UsesPassword(p) /\ (MySecret(p)[AccessToken] # 0 \/ MySecret(p)[RefreshToken] # 0)

NotAuthenticated(p) ==
  /\ IsRequest(p) /\ ~HasCredentials(p)
  /\ End(p)
  /\ UNCHANGED <<disk, server, agenda, faults, overlapped, spoiled>>

\* The access token is not about to expire, or nothing could renew it.
Connect(p) ==
  /\ IsRequest(p) /\ HasCredentials(p)
  /\ pc' = [pc EXCEPT ![p] = "act"]
  /\ UNCHANGED <<disk, server, memory, progress, command, agenda, faults, overlapped, spoiled>>

CanRefresh(p) ==
  /\ IsRequest(p) /\ command[p].env = 0 /\ ~UsesPassword(p)
  /\ MySecret(p)[RefreshToken] # 0

\* Mutant of Refresh: of the answer only the access token is saved.
RefreshDropsRotated(p) ==
  /\ CanRefresh(p) /\ MySecret(p)[RefreshToken] \in live /\ NewToken <= MaxTokens
  /\ Issue(tokens[MySecret(p)[RefreshToken]])
  /\ live' \in {live, (live \ {MySecret(p)[RefreshToken]}) \cup {NewToken}}
  /\ StartSave(p, "refreshed", Mine(p), [MySecret(p) EXCEPT ![AccessToken] = NewToken])
  /\ UNCHANGED spoiled

\* The server spends a token it rotates; what it answers is saved before use.
Refresh(p) ==
  /\ CanRefresh(p) /\ MySecret(p)[RefreshToken] \in live /\ NewToken <= MaxTokens
  /\ Issue(tokens[MySecret(p)[RefreshToken]])
  /\ \/ /\ live' = (live \ {MySecret(p)[RefreshToken]}) \cup {NewToken}
        /\ StartSave(p, "refreshed", Mine(p),
             [MySecret(p) EXCEPT ![AccessToken] = NewToken, ![RefreshToken] = NewToken])
     \/ /\ live' = live
        /\ StartSave(p, "refreshed", Mine(p), [MySecret(p) EXCEPT ![AccessToken] = NewToken])
  /\ UNCHANGED spoiled

RefreshRejected(p) ==
  /\ CanRefresh(p) /\ MySecret(p)[RefreshToken] \notin live
  /\ End(p)
  /\ UNCHANGED <<disk, server, agenda, faults, overlapped, spoiled>>

\* The token is spent, but the answer does not arrive.
RefreshLost(p) ==
  /\ CanRefresh(p) /\ MySecret(p)[RefreshToken] \in live /\ faults > 0
  /\ live' = live \ {MySecret(p)[RefreshToken]}
  /\ faults' = faults - 1
  /\ spoiled' = spoiled \cup {"died"}
  /\ End(p)
  /\ UNCHANGED <<disk, tokens, agenda, overlapped>>

\* The account whose credentials a request carries; without any it is refused.
ActsAs(p) ==
  IF command[p].env # 0 THEN command[p].env
  ELSE IF UsesPassword(p) THEN MySecret(p)[Password]
  ELSE IF MySecret(p)[AccessToken] # 0 THEN tokens[MySecret(p)[AccessToken]]
  ELSE 0

CanAct(p, kind) == pc[p] = "act" /\ command[p].kind = kind /\ ActsAs(p) # 0

\* A Space of the list the server sent becomes the default of the profile.
SpaceUse(p) ==
  /\ CanAct(p, "use")
  /\ StartSave(p, "save", [Mine(p) EXCEPT !.space = ActsAs(p), !.owner = Mine(p).account], MySecret(p))
  /\ spoiled' = IF command[p].env = 0 THEN spoiled ELSE spoiled \cup {"foreign"}
  /\ UNCHANGED server

Answered(p) ==
  /\ CanAct(p, "request")
  /\ End(p)
  /\ UNCHANGED <<disk, server, agenda, faults, overlapped, spoiled>>

\* The default Space is not in the list: forget it and fail.
ClearStaleSpace(p) ==
  /\ CanAct(p, "request") /\ Mine(p).space # 0
  /\ StartSave(p, "save", [Mine(p) EXCEPT !.space = 0, !.owner = 0], MySecret(p))
  /\ UNCHANGED <<server, spoiled>>

RemoteStep(p) ==
  \/ BasicLogin(p) \/ OIDCLogin(p)
  \/ NotAuthenticated(p) \/ Connect(p) \/ Refresh(p) \/ RefreshRejected(p) \/ RefreshLost(p)
  \/ SpaceUse(p) \/ Answered(p) \/ ClearStaleSpace(p)

\* A command dies, is refused by a server, or by the keyring.
Die(p) ==
  /\ pc[p] # "idle" /\ faults > 0
  /\ faults' = faults - 1
  /\ spoiled' = IF pc[p] \in Saving THEN spoiled \cup {"died"} ELSE spoiled
  /\ End(p)
  /\ UNCHANGED <<disk, server, agenda, overlapped>>

\* No commands are left within the bounds.
Rest ==
  /\ Running = {}
  /\ UNCHANGED vars

ProcessStep(p) ==
  \/ Begin(p)
  \/ \E f \in Profiles : LoadSecret(p, f) \/ LoadFails(p, f)
  \/ UnknownProfile(p) \/ LocalStep(p) \/ RemoteStep(p) \/ SaveStep(p)
  \/ Die(p)

Next == Rest \/ \E p \in Processes : ProcessStep(p)

Spec == Init /\ [][Next]_vars

-----------------------------------------------------------------------------
(* Properties *)

ProcessStates == {"idle", "load", "act"} \cup Saving

\* The types of the state.
TypeOK ==
  /\ config \in [Profiles -> Settings]
  /\ keyring \in [Profiles -> [marker : BOOLEAN, items : Secrets]]
  /\ tokens \in Seq(Accounts) /\ live \subseteq 1 .. Len(tokens)
  /\ pc \in [Processes -> ProcessStates]
  /\ command \in [Processes -> Commands \cup {NoCommand}]
  /\ store \in [Processes -> [Profiles -> Settings]]
  /\ secrets \in [Processes -> [Profiles -> Secrets]]
  /\ todo \in [Processes -> SUBSET Profiles]
  /\ writing \in [Processes -> Profiles \cup {NoProfile}]
  /\ item \in [Processes -> 0 .. 5]
  /\ agenda \in [Processes -> Seq(SUBSET CommandKinds)] /\ faults \in Nat
  /\ begun \in [Profiles -> Secrets]
  /\ overlapped \subseteq Processes /\ spoiled \subseteq {"raced", "died", "foreign"}

\* A default Space belongs to the account the profile is signed in with, also
\* when commands overwrite each other's configuration: sync state and requests
\* rely on it without asking again.
SpaceOwned ==
  \A f \in Profiles : Owned(config[f])

\* While commands do not overlap, the marker stands only beside the whole of the
\* secret that was saved last, wherever a save was cut off: no mixture of two
\* secrets is taken for one, and no marker without items locks the user out.
MarkerMeansWhole ==
  "raced" \notin spoiled =>
    \A f \in Profiles : keyring[f].marker =>
      keyring[f].items = begun[f] /\ keyring[f].items # Empty

NobodySaves == \A p \in Processes : pc[p] \notin Saving

OfAccount(secret, account) == Belongs(secret, account, tokens)

\* Without overlaps and deaths while saving, the secrets of a profile are those
\* of the account it says, and no secrets are kept for a profile that is gone.
SecretsMatchIdentity ==
  spoiled \cap {"raced", "died"} = {} /\ NobodySaves =>
    \A f \in Profiles :
      IF config[f].known THEN OfAccount(keyring[f].items, config[f].account)
      ELSE keyring[f] = [marker |-> FALSE, items |-> Empty]

\* And then the default Space of a profile is one its account has seen.
SpaceSeenByOwner ==
  spoiled = {} => \A f \in Profiles : config[f].space \in {0, config[f].owner}

\* The refresh token in the keyring is good for another refresh, except while
\* the tokens that replace it are being saved.
StoredTokenLive ==
  spoiled \cap {"raced", "died"} = {} =>
    \A f \in Profiles :
      Stored(f)[RefreshToken] \in live \cup {0}
        \/ \E p \in Processes : pc[p] = "refreshed" /\ Profile(p) = f

\* What a command that ran alone has saved is what the next command loads, of
\* every profile and whatever earlier deaths agenda behind.
SavedIsLoaded ==
  [][\A p \in Processes : SaveConfig(p) /\ p \notin overlapped =>
       \A f \in Profiles : store[p][f].known => Stored(f) = secrets[p][f]]_vars

\* A successful logout leaves no password or token of the profile in any item,
\* a removal no client secret either, also where an earlier save was cut off.
LogoutErases ==
  [][\A p \in Processes : SaveConfig(p) /\ p \notin overlapped =>
       LET items == keyring[Profile(p)].items
       IN  /\ command[p].kind = "logout" => items = <<0, items[ClientSecret], 0, 0>>
           /\ command[p].kind = "remove" => items = Empty]_vars
=============================================================================
