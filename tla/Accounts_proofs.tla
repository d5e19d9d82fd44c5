-------------------------- MODULE Accounts_proofs --------------------------
(***************************************************************************)
(* Whatever commands run, overlap and die: a default Space belongs to the  *)
(* account of its profile; and as long as commands do not overlap, the     *)
(* keyring never presents a mixture of two secrets.  When they do not die  *)
(* while they save either, the secrets of a profile are those of its       *)
(* account, its refresh token is live, and its Space was seen by the       *)
(* account.  For every number of profiles, accounts, processes, tokens and *)
(* faults.                                                                 *)
(***************************************************************************)
EXTENDS Accounts, TLAPS

LEMMA EmptyType == Empty \in Secrets
  BY DEF Empty, Secrets, Fields

LEMMA SecretType ==
  ASSUME NEW a \in Nat, NEW b \in Nat, NEW c \in Nat, NEW d \in Nat
  PROVE  <<a, b, c, d>> \in Secrets
  BY DEF Secrets, Fields

LEMMA SettingsType == NoSettings \in Settings /\ NewSettings \in Settings
  BY DEF NoSettings, NewSettings, Settings, Range0

\* What ending a process leaves.
LEMMA EndType ==
  ASSUME TypeOK, NEW p \in Processes, End(p)
  PROVE  /\ pc' \in [Processes -> ProcessStates]
         /\ command' \in [Processes -> Commands \cup {NoCommand}]
         /\ store' \in [Processes -> [Profiles -> Settings]]
         /\ secrets' \in [Processes -> [Profiles -> Secrets]]
         /\ todo' \in [Processes -> SUBSET Profiles]
         /\ writing' \in [Processes -> Profiles \cup {NoProfile}]
         /\ item' \in [Processes -> 0 .. 5]
<1>1. pc' \in [Processes -> ProcessStates]
  BY DEF TypeOK, End, ProcessStates
<1>2. command' \in [Processes -> Commands \cup {NoCommand}]
  BY DEF TypeOK, End
<1>3. store' \in [Processes -> [Profiles -> Settings]]
  BY SettingsType DEF TypeOK, End
<1>4. secrets' \in [Processes -> [Profiles -> Secrets]]
  BY EmptyType DEF TypeOK, End
<1>5. todo' \in [Processes -> SUBSET Profiles] /\ writing' \in [Processes -> Profiles \cup {NoProfile}]
  BY DEF TypeOK, End
<1>6. item' \in [Processes -> 0 .. 5]
  BY DEF TypeOK, End
<1> QED
  BY <1>1, <1>2, <1>3, <1>4, <1>5, <1>6

\* A running process runs a command, and that is about a profile.
Running1(p) == pc[p] # "idle" => command[p] \in Commands
Commanded == \A p \in Processes : Running1(p)

LEMMA ProfileType ==
  ASSUME TypeOK, Commanded, NEW p \in Processes, pc[p] # "idle"
  PROVE  /\ Profile(p) \in Profiles
         /\ Mine(p) \in Settings /\ MySecret(p) \in Secrets
         /\ command[p].account \in Range0(Accounts) /\ command[p].secret \in {0, 1}
         /\ command[p].env \in Range0(EnvAccounts)
  BY DEF TypeOK, Commanded, Running1, Commands, Command, Profile, Mine, MySecret

\* What beginning to save leaves.
LEMMA StartSaveType ==
  ASSUME TypeOK, NEW p \in Processes, Profile(p) \in Profiles, NEW stage \in Saving,
         NEW settings \in Settings, NEW secret \in Secrets,
         StartSave(p, stage, settings, secret)
  PROVE  /\ pc' \in [Processes -> ProcessStates]
         /\ command' \in [Processes -> Commands \cup {NoCommand}]
         /\ store' \in [Processes -> [Profiles -> Settings]]
         /\ secrets' \in [Processes -> [Profiles -> Secrets]]
         /\ todo' \in [Processes -> SUBSET Profiles]
         /\ UNCHANGED <<disk, writing, item, command, agenda, faults, overlapped>>
<1>1. pc' \in [Processes -> ProcessStates]
  BY DEF TypeOK, StartSave, ProcessStates
<1>2. command' \in [Processes -> Commands \cup {NoCommand}]
  BY DEF TypeOK, StartSave
<1>3. store' \in [Processes -> [Profiles -> Settings]]
  BY DEF TypeOK, StartSave
<1>4. secrets' \in [Processes -> [Profiles -> Secrets]]
  BY DEF TypeOK, StartSave
<1>5. todo' \in [Processes -> SUBSET Profiles]
  BY DEF TypeOK, StartSave, Known
<1> QED
  BY <1>1, <1>2, <1>3, <1>4, <1>5 DEF StartSave

\* Every item anywhere is that of an account or a token.
SecretsKnown ==
  \A f \in Profiles :
    /\ KnownItems(keyring[f].items, tokens)
    /\ \A p \in Processes : KnownItems(secrets[p][f], tokens)

TypeInv == TypeOK /\ Commanded /\ SecretsKnown

LEMMA InitType == Init => TypeInv
<1> SUFFICES ASSUME Init PROVE TypeInv
  OBVIOUS
<1>1. PICK start \in Starts :
        /\ config = start.config
        /\ keyring = [f \in Profiles |-> [marker |-> start.secrets[f] # Empty, items |-> start.secrets[f]]]
        /\ begun = start.secrets
        /\ tokens = start.tokens /\ live = 1 .. Len(start.tokens)
        /\ agenda = start.agenda
        /\ faults = start.faults
  BY DEF Init
<1>2. /\ start.config \in [Profiles -> Settings] /\ start.secrets \in [Profiles -> Secrets]
      /\ start.tokens \in Seq(Accounts) /\ start.agenda \in [Processes -> Seq(SUBSET CommandKinds)] /\ start.faults \in Nat
      /\ \A f \in Profiles : KnownItems(start.secrets[f], start.tokens)
  BY StartsAssumption
<1>3. keyring \in [Profiles -> [marker : BOOLEAN, items : Secrets]]
  <2>1. \A f \in Profiles : (start.secrets[f] # Empty) \in BOOLEAN /\ start.secrets[f] \in Secrets
    BY <1>2
  <2> QED
    BY <1>1, <2>1
<1>4. config \in [Profiles -> Settings] /\ begun \in [Profiles -> Secrets]
  BY <1>1, <1>2
<1>5. tokens \in Seq(Accounts) /\ live \subseteq 1 .. Len(tokens)
  BY <1>1, <1>2
<1>6. agenda \in [Processes -> Seq(SUBSET CommandKinds)] /\ faults \in Nat
  BY <1>1, <1>2
<1>7. pc \in [Processes -> ProcessStates] /\ command \in [Processes -> Commands \cup {NoCommand}]
  BY DEF Init, ProcessStates
<1>8. store \in [Processes -> [Profiles -> Settings]]
  BY SettingsType DEF Init
<1>9. secrets \in [Processes -> [Profiles -> Secrets]]
  BY EmptyType DEF Init
<1>10. todo \in [Processes -> SUBSET Profiles] /\ writing \in [Processes -> Profiles \cup {NoProfile}]
  BY DEF Init
<1>11. item \in [Processes -> 0 .. 5] /\ overlapped \subseteq Processes /\ spoiled \subseteq {"raced", "died", "foreign"}
  BY DEF Init
<1>12. TypeOK
  BY <1>3, <1>4, <1>5, <1>6, <1>7, <1>8, <1>9, <1>10, <1>11 DEF TypeOK
<1>13. SecretsKnown
  <2>1. KnownItems(Empty, tokens)
    BY <1>5 DEF KnownItems, Empty, Password, AccessToken, RefreshToken, Range0
  <2>2. \A f \in Profiles : KnownItems(keyring[f].items, tokens)
    BY <1>1, <1>2
  <2> QED
    BY <2>1, <2>2 DEF SecretsKnown, Init
<1>14. Commanded
  BY DEF Init, Commanded, Running1
<1> QED
  BY <1>12, <1>13, <1>14 DEF TypeInv

\* Items stay known when more tokens are issued.
LEMMA KnownLonger ==
  ASSUME NEW secret, NEW issued \in Seq(Accounts), NEW more \in Seq(Accounts),
         Len(issued) <= Len(more), KnownItems(secret, issued)
  PROVE  KnownItems(secret, more)
  BY DEF KnownItems

\* A mixture of known items is known.
LEMMA KnownMixture ==
  ASSUME NEW a \in Secrets, NEW b \in Secrets, NEW i \in Fields, NEW issued \in Seq(Accounts),
         KnownItems(a, issued), KnownItems(b, issued)
  PROVE  KnownItems([a EXCEPT ![i] = b[i]], issued)
  BY DEF KnownItems, Secrets, Fields, Password, AccessToken, RefreshToken

TokensGrow == tokens' \in Seq(Accounts) /\ Len(tokens) <= Len(tokens')

LEMMA SameTokens == ASSUME TypeOK, UNCHANGED server PROVE TokensGrow
  BY DEF TypeOK, TokensGrow, server

LEMMA IssueGrows == 
  ASSUME TypeOK, NEW a \in Accounts, Issue(a) 
  PROVE  /\ TokensGrow /\ Len(tokens') = Len(tokens) + 1
         /\ NewToken \in Nat /\ NewToken # 0 /\ NewToken = Len(tokens')
  BY DEF TypeOK, TokensGrow, Issue, NewToken

\* Ending a process keeps what else is known.
LEMMA EndKeeps ==
  ASSUME TypeInv, NEW p \in Processes, End(p), keyring' = keyring, TokensGrow
  PROVE  Commanded' /\ SecretsKnown'
<1>1. \A q \in Processes \ {p} :
        /\ pc'[q] = pc[q] /\ command'[q] = command[q]
        /\ store'[q] = store[q] /\ secrets'[q] = secrets[q]
  BY DEF End, TypeInv, TypeOK
<1>2. pc'[p] = "idle" /\ secrets'[p] = [f \in Profiles |-> Empty]
  BY DEF End, TypeInv, TypeOK
<1>3. Commanded'
  BY <1>1, <1>2 DEF TypeInv, Commanded, Running1
<1>4. SecretsKnown'
  <2>1. KnownItems(Empty, tokens')
    BY DEF KnownItems, Empty, Password, AccessToken, RefreshToken, Range0, TokensGrow
  <2>2. \A f \in Profiles : KnownItems(keyring[f].items, tokens')
    BY KnownLonger DEF TypeInv, TypeOK, SecretsKnown, TokensGrow
  <2>3. \A f \in Profiles : \A q \in Processes : KnownItems(secrets[q][f], tokens')
    BY KnownLonger DEF TypeInv, TypeOK, SecretsKnown, TokensGrow
  <2> QED
    BY <1>1, <1>2, <2>1, <2>2, <2>3 DEF SecretsKnown
<1> QED
  BY <1>3, <1>4

\* So does beginning to save known items.
LEMMA StartSaveKeeps ==
  ASSUME TypeInv, NEW p \in Processes, pc[p] # "idle", NEW stage \in Saving,
         NEW settings \in Settings, NEW secret \in Secrets,
         StartSave(p, stage, settings, secret), TokensGrow, KnownItems(secret, tokens')
  PROVE  Commanded' /\ SecretsKnown'
<1>0. Profile(p) \in Profiles
  BY ProfileType DEF TypeInv
<1>1. \A q \in Processes \ {p} :
        /\ pc'[q] = pc[q] /\ store'[q] = store[q] /\ secrets'[q] = secrets[q]
  BY DEF StartSave, TypeInv, TypeOK
<1>2. /\ pc'[p] = stage /\ secrets'[p] = [secrets[p] EXCEPT ![Profile(p)] = secret]
      /\ store'[p] = [store[p] EXCEPT ![Profile(p)] = settings]
      /\ command' = command /\ keyring' = keyring
  BY DEF StartSave, TypeInv, TypeOK, disk
<1>3. Commanded'
  BY <1>1, <1>2 DEF TypeInv, Commanded, Running1
<1>4. SecretsKnown'
  <2>1. \A f \in Profiles : KnownItems(keyring[f].items, tokens')
    BY KnownLonger DEF TypeInv, TypeOK, SecretsKnown, TokensGrow
  <2>2. \A f \in Profiles : \A q \in Processes : KnownItems(secrets[q][f], tokens')
    BY KnownLonger DEF TypeInv, TypeOK, SecretsKnown, TokensGrow
  <2>3. \A f \in Profiles : KnownItems(secrets'[p][f], tokens')
    BY <1>2, <2>2 DEF TypeInv, TypeOK
  <2> QED
    BY <1>1, <1>2, <2>1, <2>2, <2>3 DEF SecretsKnown
<1> QED
  BY <1>3, <1>4

\* Actions that end a process and leave disk and budgets.
LEMMA EndStep ==
  ASSUME TypeInv, NEW p \in Processes, End(p),
         UNCHANGED <<disk, tokens, agenda, overlapped>>, live' \subseteq live,
         faults' \in Nat, spoiled' \subseteq {"raced", "died", "foreign"}
  PROVE  TypeInv'
<1>1. TokensGrow
  BY DEF TokensGrow, TypeInv, TypeOK
<1>2. Commanded' /\ SecretsKnown'
  BY <1>1, EndKeeps DEF disk
<1>3. TypeOK'
  BY EndType DEF TypeInv, TypeOK, disk
<1> QED
  BY <1>2, <1>3 DEF TypeInv

\* Actions that begin to save something known.
LEMMA StartSaveStep ==
  ASSUME TypeInv, NEW p \in Processes, pc[p] # "idle", NEW stage \in Saving,
         NEW settings \in Settings, NEW secret \in Secrets,
         StartSave(p, stage, settings, secret), TokensGrow, KnownItems(secret, tokens'),
         live' \subseteq 1 .. Len(tokens'), spoiled' \subseteq {"raced", "died", "foreign"}
  PROVE  TypeInv'
<1>1. Profile(p) \in Profiles
  BY ProfileType DEF TypeInv
<1>2. Commanded' /\ SecretsKnown'
  BY StartSaveKeeps
<1>3. TypeOK'
  BY <1>1, StartSaveType DEF TypeInv, TypeOK, disk, TokensGrow
<1> QED
  BY <1>2, <1>3 DEF TypeInv

LEMMA LoadingType ==
  ASSUME TypeInv, NEW p \in Processes, NEW f \in Profiles,
         Begin(p) \/ LoadSecret(p, f) \/ LoadFails(p, f) \/ UnknownProfile(p)
  PROVE  TypeInv'
<1>1. CASE Begin(p)
  <2> USE <1>1 DEF Begin
  <2>1. PICK c \in Commands : command' = [command EXCEPT ![p] = c]
    OBVIOUS
  <2>2. command' \in [Processes -> Commands \cup {NoCommand}]
    BY <2>1 DEF TypeInv, TypeOK
  <2>3. pc' \in [Processes -> ProcessStates] /\ todo' \in [Processes -> SUBSET Profiles]
    BY DEF TypeInv, TypeOK, ProcessStates, Known
  <2>4. store' \in [Processes -> [Profiles -> Settings]]
    BY DEF TypeInv, TypeOK
  <2>5. agenda' \in [Processes -> Seq(SUBSET CommandKinds)]
    BY DEF TypeInv, TypeOK
  <2>6. overlapped' \subseteq Processes
    BY DEF TypeInv, TypeOK, Running
  <2>7. TypeOK'
    BY <2>2, <2>3, <2>4, <2>5, <2>6 DEF TypeInv, TypeOK, disk, server
  <2>8. Commanded'
    BY <2>1 DEF TypeInv, TypeOK, Commanded, Running1
  <2>9. SecretsKnown'
    BY DEF TypeInv, SecretsKnown, disk, server
  <2> QED
    BY <2>7, <2>8, <2>9 DEF TypeInv
<1>2. CASE LoadSecret(p, f)
  <2> USE <1>2 DEF LoadSecret
  <2>1. Stored(f) \in Secrets /\ KnownItems(Stored(f), tokens)
    <3>1. keyring[f].items \in Secrets /\ KnownItems(keyring[f].items, tokens)
      BY DEF TypeInv, TypeOK, SecretsKnown
    <3>2. KnownItems(Empty, tokens)
      BY DEF KnownItems, Empty, Password, AccessToken, RefreshToken, Range0, TypeInv, TypeOK
    <3> QED
      BY <3>1, <3>2, EmptyType DEF Stored
  <2>2. secrets' \in [Processes -> [Profiles -> Secrets]] /\ todo' \in [Processes -> SUBSET Profiles]
    BY <2>1 DEF TypeInv, TypeOK
  <2>3. TypeOK'
    BY <2>2 DEF TypeInv, TypeOK, disk, server
  <2>4. Commanded'
    BY DEF TypeInv, Commanded, Running1
  <2>5. \A q \in Processes, g \in Profiles :
          secrets'[q][g] = IF q = p /\ g = f THEN Stored(f) ELSE secrets[q][g]
    BY DEF TypeInv, TypeOK
  <2>6. SecretsKnown'
    BY <2>1, <2>5 DEF TypeInv, SecretsKnown, disk, server
  <2> QED
    BY <2>3, <2>4, <2>6 DEF TypeInv
<1>3. CASE LoadFails(p, f) \/ UnknownProfile(p)
  <2>1. End(p) /\ UNCHANGED <<disk, server, agenda, faults, overlapped, spoiled>>
    BY <1>3 DEF LoadFails, UnknownProfile
  <2> QED
    BY <2>1, EndStep DEF TypeInv, TypeOK, server
<1> QED
  BY <1>1, <1>2, <1>3

LEMMA SavingType ==
  ASSUME TypeInv, NEW p \in Processes, SaveStep(p)
  PROVE  TypeInv'
<1>0. spoiled' \subseteq {"raced", "died", "foreign"}
  BY DEF SaveStep, RemoveMarker, WriteItem, WriteMarker, SaveConfig, NoteRace, TypeInv, TypeOK
<1>1. ASSUME NEW f \in Profiles, RemoveMarker(p, f) PROVE TypeInv'
  <2> USE <1>1 DEF RemoveMarker
  <2>1. keyring' \in [Profiles -> [marker : BOOLEAN, items : Secrets]]
    BY DEF TypeInv, TypeOK
  <2>2. begun' \in [Profiles -> Secrets]
    BY DEF TypeInv, TypeOK
  <2>3. todo' \in [Processes -> SUBSET Profiles] /\ writing' \in [Processes -> Profiles \cup {NoProfile}]
    BY DEF TypeInv, TypeOK
  <2>4. item' \in [Processes -> 0 .. 5]
    BY DEF TypeInv, TypeOK
  <2>5. TypeOK'
    BY <1>0, <2>1, <2>2, <2>3, <2>4 DEF TypeInv, TypeOK, server, memory
  <2>6. \A g \in Profiles : keyring'[g].items = keyring[g].items
    BY DEF TypeInv, TypeOK
  <2>7. SecretsKnown'
    BY <2>6 DEF TypeInv, SecretsKnown, server, memory
  <2>8. Commanded'
    BY DEF TypeInv, Commanded, Running1, memory
  <2> QED
    BY <2>5, <2>7, <2>8 DEF TypeInv
<1>2. CASE WriteItem(p)
  <2> USE <1>2 DEF WriteItem
  <2>1. CASE writing[p] \in Profiles
    <3> DEFINE f == writing[p]
               i == item[p]
    <3>1. secrets[p][f] \in Secrets /\ i \in Fields /\ keyring[f].items \in Secrets
      BY <2>1 DEF TypeInv, TypeOK
    <3>2. keyring' = [keyring EXCEPT ![f].items = [@ EXCEPT ![i] = secrets[p][f][i]]]
      OBVIOUS
    <3>3. [keyring[f].items EXCEPT ![i] = secrets[p][f][i]] \in Secrets
      BY <3>1 DEF Secrets
    <3>4. keyring' \in [Profiles -> [marker : BOOLEAN, items : Secrets]]
      <4> DEFINE new == [keyring[f] EXCEPT !.items = [keyring[f].items EXCEPT ![i] = secrets[p][f][i]]]
      <4>1. keyring[f] \in [marker : BOOLEAN, items : Secrets]
        BY <2>1 DEF TypeInv, TypeOK
      <4>2. new \in [marker : BOOLEAN, items : Secrets]
        BY <3>3, <4>1
      <4>3. keyring' = [keyring EXCEPT ![f] = new]
        BY <3>2
      <4> QED
        BY <4>2, <4>3 DEF TypeInv, TypeOK
    <3>5. item' \in [Processes -> 0 .. 5]
      BY DEF TypeInv, TypeOK, Fields
    <3>6. TypeOK'
      BY <1>0, <3>4, <3>5 DEF TypeInv, TypeOK, server, memory
    <3>7. \A g \in Profiles : keyring'[g].items =
            IF g = f THEN [keyring[f].items EXCEPT ![i] = secrets[p][f][i]] ELSE keyring[g].items
      BY <2>1, <3>2 DEF TypeInv, TypeOK
    <3>8. KnownItems([keyring[f].items EXCEPT ![i] = secrets[p][f][i]], tokens)
      BY <2>1, <3>1, KnownMixture DEF TypeInv, TypeOK, SecretsKnown
    <3>9. SecretsKnown'
      BY <3>7, <3>8 DEF TypeInv, SecretsKnown, server, memory
    <3>10. Commanded'
      BY DEF TypeInv, Commanded, Running1, memory
    <3> QED
      BY <3>6, <3>9, <3>10 DEF TypeInv
  <2>2. CASE writing[p] \notin Profiles
    <3>1. keyring' = keyring
      BY <2>2 DEF TypeInv, TypeOK
    <3>2. item' \in [Processes -> 0 .. 5]
      BY DEF TypeInv, TypeOK, Fields
    <3>3. TypeOK'
      BY <1>0, <3>1, <3>2 DEF TypeInv, TypeOK, server, memory
    <3>4. Commanded' /\ SecretsKnown'
      BY <3>1 DEF TypeInv, Commanded, Running1,
                  Profile, memory, SecretsKnown, server
    <3> QED
      BY <3>3, <3>4 DEF TypeInv
  <2> QED
    BY <2>1, <2>2
<1>3. CASE WriteMarker(p)
  <2> USE <1>3 DEF WriteMarker
  <2>1. (keyring[writing[p]].marker \/ secrets[p][writing[p]] # Empty) \in BOOLEAN
    OBVIOUS
  <2>2. keyring' \in [Profiles -> [marker : BOOLEAN, items : Secrets]]
    <3>1. \A k \in [marker : BOOLEAN, items : Secrets], b \in BOOLEAN :
            [k EXCEPT !.marker = b] \in [marker : BOOLEAN, items : Secrets]
      OBVIOUS
    <3> QED
      BY <2>1, <3>1 DEF TypeInv, TypeOK
  <2>3. item' \in [Processes -> 0 .. 5] /\ writing' \in [Processes -> Profiles \cup {NoProfile}]
    BY DEF TypeInv, TypeOK
  <2>4. TypeOK'
    BY <1>0, <2>2, <2>3 DEF TypeInv, TypeOK, server, memory
  <2>5. \A g \in Profiles : keyring'[g].items = keyring[g].items
    BY DEF TypeInv, TypeOK
  <2>6. SecretsKnown'
    BY <2>5 DEF TypeInv, SecretsKnown, server, memory
  <2>7. Commanded'
    BY DEF TypeInv, Commanded, Running1, memory
  <2> QED
    BY <2>4, <2>6, <2>7 DEF TypeInv
<1>4. CASE SaveConfig(p)
  <2> USE <1>4 DEF SaveConfig
  <2>1. config' \in [Profiles -> Settings]
    BY DEF TypeInv, TypeOK
  <2>2. CASE pc[p] = "refreshed"
    <3>1. pc' \in [Processes -> ProcessStates]
      BY <2>2 DEF TypeInv, TypeOK, ProcessStates
    <3>2. TypeOK'
      BY <1>0, <2>1, <2>2, <3>1 DEF TypeInv, TypeOK, server, memory, progress
    <3>3. Commanded' /\ SecretsKnown'
      BY <2>2 DEF TypeInv, TypeOK, Commanded, Running1, SecretsKnown, server, memory
    <3> QED
      BY <3>2, <3>3 DEF TypeInv
  <2>3. CASE pc[p] # "refreshed"
    <3>1. End(p)
      BY <2>3
    <3>2. TokensGrow
      BY SameTokens DEF TypeInv
    <3>3. Commanded' /\ SecretsKnown'
      BY <3>1, <3>2, EndKeeps
    <3>4. TypeOK'
      BY <1>0, <2>1, <3>1, EndType DEF TypeInv, TypeOK, server
    <3> QED
      BY <3>3, <3>4 DEF TypeInv
  <2> QED
    BY <2>2, <2>3
<1> QED
  BY <1>1, <1>2, <1>3, <1>4 DEF SaveStep

LEMMA ClearedType ==
  ASSUME NEW settings \in Settings, NEW secret, NEW c \in Nat, NEW issued \in Seq(Accounts)
  PROVE  /\ ClearAccount(settings) \in Settings
         /\ [settings EXCEPT !.space = 0, !.owner = 0] \in Settings
         /\ ClearSpaceAfterIdentityChange(settings) \in Settings
         /\ ClearSecret(secret, c) \in Secrets /\ KnownItems(ClearSecret(secret, c), issued)
<1>1. ClearAccount(settings) \in Settings /\ [settings EXCEPT !.space = 0, !.owner = 0] \in Settings
  BY DEF ClearAccount, Settings, Range0
<1>2. ClearSpaceAfterIdentityChange(settings) \in Settings
  BY <1>1 DEF ClearSpaceAfterIdentityChange
<1>3. ClearSecret(secret, c) \in Secrets
  BY SecretType DEF ClearSecret
<1>4. KnownItems(ClearSecret(secret, c), issued)
  BY DEF ClearSecret, KnownItems, Password, AccessToken, RefreshToken, Range0
<1> QED
  BY <1>1, <1>2, <1>3, <1>4

\* What is known of the profile of a loaded command.
LEMMA LoadedType ==
  ASSUME TypeInv, NEW p \in Processes, pc[p] # "idle"
  PROVE  /\ Mine(p) \in Settings /\ MySecret(p) \in Secrets
         /\ MySecret(p)[ClientSecret] \in Nat /\ command[p].secret \in Nat
         /\ KnownItems(MySecret(p), tokens)
         /\ command[p].account \in Range0(Accounts) /\ command[p].env \in Range0(Accounts)
         /\ Range0(Accounts) \subseteq Nat
<1>1. /\ Profile(p) \in Profiles
      /\ Mine(p) \in Settings /\ MySecret(p) \in Secrets
      /\ command[p].account \in Range0(Accounts) /\ command[p].secret \in {0, 1}
      /\ command[p].env \in Range0(EnvAccounts)
  BY ProfileType DEF TypeInv
<1>2. MySecret(p)[ClientSecret] \in Nat
  BY <1>1 DEF Secrets, Fields, ClientSecret
<1>3. KnownItems(MySecret(p), tokens)
  BY <1>1 DEF TypeInv, SecretsKnown, MySecret
<1>4. Range0(Accounts) \subseteq Nat /\ Range0(EnvAccounts) \subseteq Range0(Accounts)
  BY AccountsAssumption DEF Range0
<1>5. command[p].secret \in Nat
  BY <1>1
<1> QED
  BY <1>1, <1>2, <1>3, <1>4, <1>5

LEMMA LocalType ==
  ASSUME TypeInv, NEW p \in Processes, LocalStep(p)
  PROVE  TypeInv'
<1>1. pc[p] # "idle" /\ UNCHANGED <<server, spoiled>>
  BY DEF LocalStep, Logout, Setup, ServerAdd, ServerUse, ServerRemove, SpaceUnset, Loaded
<1>2. TokensGrow /\ tokens' = tokens /\ live' \subseteq 1 .. Len(tokens')
      /\ spoiled' \subseteq {"raced", "died", "foreign"} /\ tokens \in Seq(Accounts)
  BY <1>1, SameTokens DEF server, TypeInv, TypeOK
<1>3. "save" \in Saving
  BY DEF Saving
<1>4. PICK settings \in Settings, secret \in Secrets :
        StartSave(p, "save", settings, secret) /\ KnownItems(secret, tokens)
  <2>1. CASE Logout(p)
    BY <1>1, <1>2, <2>1, LoadedType, ClearedType DEF Logout
  <2>2. CASE Setup(p)
    <3>1. Mine(p) \in Settings /\ command[p].secret \in Nat
      BY <1>1, LoadedType
    <3>2. /\ ClearAccount(Mine(p)) \in Settings
          /\ ClearSecret(MySecret(p), command[p].secret) \in Secrets
          /\ KnownItems(ClearSecret(MySecret(p), command[p].secret), tokens)
      BY <1>2, <3>1, ClearedType
    <3> QED
      BY <2>2, <3>2 DEF Setup
  <2>3. CASE ServerAdd(p)
    <3>1. command[p].secret \in Nat
      BY <1>1, LoadedType
    <3>2. ClearSecret(Empty, command[p].secret) \in Secrets /\ KnownItems(ClearSecret(Empty, command[p].secret), tokens)
      BY <1>2, <3>1, SettingsType, ClearedType
    <3> QED
      BY <2>3, <3>2, SettingsType DEF ServerAdd
  <2>4. CASE ServerUse(p)
    BY <1>1, <1>2, <2>4, LoadedType DEF ServerUse
  <2>5. CASE ServerRemove(p)
    <3>1. KnownItems(Empty, tokens)
      BY <1>2 DEF KnownItems, Empty, Password, AccessToken, RefreshToken, Range0
    <3> QED
      BY <2>5, <3>1, SettingsType, EmptyType DEF ServerRemove
  <2>6. CASE SpaceUnset(p)
    BY <1>1, <1>2, <2>6, LoadedType, ClearedType DEF SpaceUnset
  <2> QED
    BY <2>1, <2>2, <2>3, <2>4, <2>5, <2>6 DEF LocalStep
<1> QED
  BY <1>1, <1>2, <1>3, <1>4, StartSaveStep

LEMMA OneMore == ASSUME NEW n \in Nat, NEW S \in SUBSET (1 .. n) PROVE S \cup {n + 1} \subseteq 1 .. (n + 1)
  OBVIOUS

LEMMA SignedInType ==
  ASSUME TypeInv, NEW p \in Processes, pc[p] # "idle"
  PROVE  SignedIn(p) \in Settings /\ LoginClient(p) \in Nat
<1>1. LoginBase(p) \in Settings
  BY LoadedType, SettingsType DEF LoginBase
<1>2. [LoginBase(p) EXCEPT !.account = command[p].account] \in Settings
  BY <1>1, LoadedType DEF Settings
<1>3. SignedIn(p) \in Settings
  BY <1>2, ClearedType DEF SignedIn, TypeInv, TypeOK
<1>4. LoginClient(p) \in Nat
  BY LoadedType DEF LoginClient
<1> QED
  BY <1>3, <1>4

LEMMA LoginType ==
  ASSUME TypeInv, NEW p \in Processes, BasicLogin(p) \/ OIDCLogin(p)
  PROVE  TypeInv'
<1>1. pc[p] # "idle" /\ SignedIn(p) \in Settings /\ LoginClient(p) \in Nat
  BY SignedInType DEF BasicLogin, OIDCLogin, Loaded
<1>2. "save" \in Saving
  BY DEF Saving
<1>3. CASE BasicLogin(p)
  <2> DEFINE secret == <<command[p].account, LoginClient(p), 0, 0>>
  <2>1. UNCHANGED <<server, spoiled>> /\ StartSave(p, "save", SignedIn(p), secret)
    BY <1>3 DEF BasicLogin
  <2>2. TokensGrow /\ live' \subseteq 1 .. Len(tokens') /\ spoiled' \subseteq {"raced", "died", "foreign"}
    BY <2>1, SameTokens DEF TypeInv, TypeOK, server
  <2>3. secret \in Secrets
    BY <1>1, LoadedType, SecretType
  <2>4. KnownItems(secret, tokens')
    BY <1>1, <2>2, LoadedType DEF KnownItems, Password, AccessToken, RefreshToken, TokensGrow
  <2> HIDE DEF secret
  <2> QED
    BY <1>1, <1>2, <2>1, <2>2, <2>3, <2>4, StartSaveStep
<1>4. CASE OIDCLogin(p)
  <2> DEFINE secret == <<0, LoginClient(p), NewToken, NewToken>>
  <2>0. command[p].account \in Accounts
    <3>1. command[p] \in Commands /\ command[p].kind = "login"
      BY <1>1, <1>4 DEF OIDCLogin, Loaded, TypeInv, Commanded, Running1
    <3> QED
      BY <3>1 DEF Commands, Command, Range0
  <2>1. /\ Issue(command[p].account) /\ live' = live \cup {NewToken}
        /\ StartSave(p, "save", SignedIn(p), secret) /\ UNCHANGED spoiled
    BY <1>4 DEF OIDCLogin
  <2>2. /\ TokensGrow /\ Len(tokens') = Len(tokens) + 1
        /\ NewToken \in Nat /\ NewToken # 0 /\ NewToken = Len(tokens')
    BY <2>0, <2>1, IssueGrows DEF TypeInv
  <2>3. live' \subseteq 1 .. Len(tokens') /\ spoiled' \subseteq {"raced", "died", "foreign"}
    <3>1. live \subseteq 1 .. Len(tokens) /\ Len(tokens) \in Nat /\ spoiled \subseteq {"raced", "died", "foreign"}
      BY DEF TypeInv, TypeOK
    <3>2. live' = live \cup {Len(tokens) + 1} /\ spoiled' = spoiled
      BY <2>1, <2>2
    <3>3. live' \subseteq 1 .. (Len(tokens) + 1)
      BY <3>1, <3>2, OneMore
    <3> QED
      BY <2>2, <3>1, <3>2, <3>3
  <2>4. secret \in Secrets
    BY <1>1, <2>2, SecretType
  <2>5. KnownItems(secret, tokens')
    BY <2>2 DEF KnownItems, Password, AccessToken, RefreshToken, Range0
  <2> HIDE DEF secret
  <2> QED
    BY <1>1, <1>2, <2>1, <2>2, <2>3, <2>4, <2>5, StartSaveStep
<1> QED
  BY <1>3, <1>4

LEMMA RefreshType ==
  ASSUME TypeInv, NEW p \in Processes, Refresh(p)
  PROVE  TypeInv'
<1> DEFINE old == MySecret(p)[RefreshToken]
           rotated == [MySecret(p) EXCEPT ![AccessToken] = NewToken, ![RefreshToken] = NewToken]
           kept == [MySecret(p) EXCEPT ![AccessToken] = NewToken]
<1>1. /\ pc[p] # "idle" /\ CanRefresh(p) /\ old \in live /\ Issue(tokens[old]) /\ UNCHANGED spoiled
      /\ \/ live' = (live \ {old}) \cup {NewToken} /\ StartSave(p, "refreshed", Mine(p), rotated)
         \/ live' = live /\ StartSave(p, "refreshed", Mine(p), kept)
  BY DEF Refresh, CanRefresh, IsRequest
<1>2. /\ Mine(p) \in Settings /\ MySecret(p) \in Secrets /\ KnownItems(MySecret(p), tokens)
  BY <1>1, LoadedType
<1>3. tokens[old] \in Accounts
  <2>1. tokens \in Seq(Accounts) /\ live \subseteq 1 .. Len(tokens)
    BY DEF TypeInv, TypeOK
  <2>2. old \in 1 .. Len(tokens)
    BY <1>1, <2>1
  <2> HIDE DEF old
  <2> QED
    BY <2>1, <2>2
<1>4. /\ TokensGrow /\ Len(tokens') = Len(tokens) + 1
      /\ NewToken \in Nat /\ NewToken # 0 /\ NewToken = Len(tokens')
  BY <1>1, <1>3, IssueGrows DEF TypeInv
<1>5. rotated \in Secrets /\ kept \in Secrets
  BY <1>2, <1>4 DEF Secrets, Fields, AccessToken, RefreshToken
<1>6. KnownItems(MySecret(p), tokens')
  BY <1>2, <1>4, KnownLonger DEF TypeInv, TypeOK, TokensGrow
<1>7. KnownItems(rotated, tokens') /\ KnownItems(kept, tokens')
  BY <1>2, <1>4, <1>6 DEF KnownItems, Secrets, Fields, Password, AccessToken, RefreshToken
<1>8. live' \subseteq 1 .. Len(tokens')
  <2>1. live \subseteq 1 .. Len(tokens) /\ Len(tokens) \in Nat
    BY DEF TypeInv, TypeOK
  <2>2. live' \subseteq live \cup {Len(tokens) + 1}
    BY <1>1, <1>4
  <2>3. live \cup {Len(tokens) + 1} \subseteq 1 .. (Len(tokens) + 1)
    BY <2>1, OneMore
  <2> QED
    BY <1>4, <2>2, <2>3
<1>9. spoiled' \subseteq {"raced", "died", "foreign"} /\ "refreshed" \in Saving
  BY <1>1 DEF TypeInv, TypeOK, Saving
<1> HIDE DEF rotated, kept
<1> QED
  BY <1>1, <1>2, <1>4, <1>5, <1>7, <1>8, <1>9, StartSaveStep

\* A request goes out as some account.
LEMMA ActsAsType ==
  ASSUME TypeInv, NEW p \in Processes, pc[p] = "act"
  PROVE  ActsAs(p) \in Range0(Accounts)
<1>1. /\ KnownItems(MySecret(p), tokens) /\ command[p].env \in Range0(Accounts)
      /\ tokens \in Seq(Accounts)
  BY LoadedType DEF TypeInv, TypeOK
<1>2. \A t \in 1 .. Len(tokens) : tokens[t] \in Range0(Accounts)
  BY <1>1 DEF Range0
<1> QED
  BY <1>1, <1>2 DEF ActsAs, KnownItems, Range0

LEMMA RequestType ==
  ASSUME TypeInv, NEW p \in Processes, RemoteStep(p) \/ Die(p)
  PROVE  TypeInv'
<1>1. CASE BasicLogin(p) \/ OIDCLogin(p)
  BY <1>1, LoginType
<1>2. CASE NotAuthenticated(p) \/ RefreshRejected(p) \/ Answered(p)
  <2>1. End(p) /\ UNCHANGED <<disk, server, agenda, faults, overlapped, spoiled>>
    BY <1>2 DEF NotAuthenticated, RefreshRejected, Answered
  <2> QED
    BY <2>1, EndStep DEF TypeInv, TypeOK, server
<1>3. CASE Connect(p)
  <2> USE <1>3 DEF Connect
  <2>1. pc' \in [Processes -> ProcessStates]
    BY DEF TypeInv, TypeOK, ProcessStates
  <2>2. TypeOK'
    BY <2>1 DEF TypeInv, TypeOK, disk, server, memory, progress
  <2>3. Commanded' /\ SecretsKnown'
    BY DEF TypeInv, TypeOK, Commanded, Running1, IsRequest, SecretsKnown, disk, server, memory
  <2> QED
    BY <2>2, <2>3 DEF TypeInv
<1>4. CASE Refresh(p)
  BY <1>4, RefreshType
<1>5. CASE RefreshLost(p) \/ Die(p)
  <2>1. /\ End(p) /\ UNCHANGED <<disk, tokens, agenda, overlapped>> /\ live' \subseteq live
        /\ faults > 0 /\ faults' = faults - 1
    BY <1>5 DEF RefreshLost, Die, server
  <2>2. faults' \in Nat
    BY <2>1 DEF TypeInv, TypeOK
  <2>3. spoiled' \in {spoiled, spoiled \cup {"died"}}
    BY <1>5 DEF RefreshLost, Die
  <2>4. spoiled' \subseteq {"raced", "died", "foreign"}
    BY <2>3 DEF TypeInv, TypeOK
  <2> QED
    BY <2>1, <2>2, <2>4, EndStep
<1>6. CASE SpaceUse(p)
  <2> DEFINE settings == [Mine(p) EXCEPT !.space = ActsAs(p), !.owner = Mine(p).account]
  <2>1. /\ pc[p] = "act" /\ StartSave(p, "save", settings, MySecret(p)) /\ UNCHANGED server
        /\ spoiled' \in {spoiled, spoiled \cup {"foreign"}}
    BY <1>6 DEF SpaceUse, CanAct
  <2>2. TokensGrow /\ tokens' = tokens /\ live' \subseteq 1 .. Len(tokens')
        /\ spoiled' \subseteq {"raced", "died", "foreign"}
    BY <2>1, SameTokens DEF server, TypeInv, TypeOK
  <2>3. pc[p] # "idle" /\ "save" \in Saving
    BY <2>1 DEF Saving
  <2>4. Mine(p) \in Settings /\ MySecret(p) \in Secrets /\ KnownItems(MySecret(p), tokens')
    BY <2>2, <2>3, LoadedType
  <2>5. settings \in Settings
    BY <2>1, <2>4, ActsAsType DEF Settings
  <2> HIDE DEF settings
  <2> QED
    BY <2>1, <2>2, <2>3, <2>4, <2>5, StartSaveStep
<1>7. CASE ClearStaleSpace(p)
  <2> DEFINE settings == [Mine(p) EXCEPT !.space = 0, !.owner = 0]
  <2>1. pc[p] = "act" /\ StartSave(p, "save", settings, MySecret(p)) /\ UNCHANGED <<server, spoiled>>
    BY <1>7 DEF ClearStaleSpace, CanAct
  <2>2. TokensGrow /\ tokens' = tokens /\ live' \subseteq 1 .. Len(tokens')
        /\ spoiled' \subseteq {"raced", "died", "foreign"}
    BY <2>1, SameTokens DEF server, TypeInv, TypeOK
  <2>3. pc[p] # "idle" /\ "save" \in Saving
    BY <2>1 DEF Saving
  <2>4. settings \in Settings /\ MySecret(p) \in Secrets /\ KnownItems(MySecret(p), tokens')
    BY <2>2, <2>3, LoadedType, ClearedType DEF TypeInv, TypeOK
  <2> HIDE DEF settings
  <2> QED
    BY <2>1, <2>2, <2>3, <2>4, StartSaveStep
<1> QED
  BY <1>1, <1>2, <1>3, <1>4, <1>5, <1>6, <1>7 DEF RemoteStep

LEMMA NextType == TypeInv /\ [Next]_vars => TypeInv'
<1> SUFFICES ASSUME TypeInv, [Next]_vars PROVE TypeInv'
  OBVIOUS
<1>1. ASSUME NEW p \in Processes, ProcessStep(p) PROVE TypeInv'
  <2>1. CASE Begin(p) \/ UnknownProfile(p) \/ \E f \in Profiles : LoadSecret(p, f) \/ LoadFails(p, f)
    <3>1. CASE Profiles = {}
      BY <2>1, <3>1, ProfileType DEF Begin, UnknownProfile, Commands, Command, TypeInv, Commanded, Running1
    <3>2. CASE Profiles # {}
      BY <2>1, <3>2, LoadingType
    <3> QED
      BY <3>1, <3>2
  <2>2. CASE LocalStep(p)
    BY <2>2, LocalType
  <2>3. CASE RemoteStep(p) \/ Die(p)
    BY <2>3, RequestType
  <2>4. CASE SaveStep(p)
    BY <2>4, SavingType
  <2> QED
    BY <1>1, <2>1, <2>2, <2>3, <2>4 DEF ProcessStep
<1>2. CASE UNCHANGED vars
  BY <1>2 DEF vars, disk, server, memory, progress, TypeInv, TypeOK, Commanded, Running1, SecretsKnown
<1> QED
  BY <1>1, <1>2 DEF Next, Rest

\* Whatever commands do, the state is well typed.
THEOREM TypeCorrect == Spec => []TypeOK
<1>1. Spec => []TypeInv
  BY InitType, NextType, PTL DEF Spec
<1>2. TypeInv => TypeOK
  BY DEF TypeInv
<1> QED
  BY <1>1, <1>2, PTL

-----------------------------------------------------------------------------
(* The owner of a default Space.  Every copy of the configuration keeps it, *)
(* so it does not matter which copy is written last.                        *)

OwnedEverywhere ==
  /\ SpaceOwned
  /\ \A p \in Processes, f \in Profiles : Owned(store[p][f])

\* Actions that end a process without writing the configuration.
LEMMA EndOwned ==
  ASSUME TypeInv, OwnedEverywhere, NEW p \in Processes, End(p), config' \in {config, store[p]}
  PROVE  OwnedEverywhere'
<1>1. store' = [store EXCEPT ![p] = [f \in Profiles |-> NoSettings]] /\ store \in [Processes -> [Profiles -> Settings]]
  BY DEF End, TypeInv, TypeOK
<1>2. Owned(NoSettings)
  BY DEF Owned, NoSettings
<1>3. \A q \in Processes, f \in Profiles : Owned(store'[q][f])
  BY <1>1, <1>2 DEF OwnedEverywhere
<1>4. \A f \in Profiles : Owned(config'[f])
  BY DEF OwnedEverywhere, SpaceOwned
<1> QED
  BY <1>3, <1>4 DEF OwnedEverywhere, SpaceOwned

\* Actions that begin to save owned settings.
LEMMA StartSaveOwned ==
  ASSUME TypeInv, OwnedEverywhere, NEW p \in Processes, NEW stage, NEW settings, NEW secret,
         StartSave(p, stage, settings, secret), Owned(settings)
  PROVE  OwnedEverywhere'
<1>1. /\ store' = [store EXCEPT ![p][Profile(p)] = settings] /\ config' = config
      /\ store \in [Processes -> [Profiles -> Settings]]
  BY DEF StartSave, disk, TypeInv, TypeOK
<1>2. \A q \in Processes, f \in Profiles : Owned(store'[q][f])
  BY <1>1 DEF OwnedEverywhere
<1> QED
  BY <1>1, <1>2 DEF OwnedEverywhere, SpaceOwned

LEMMA ClearedOwned ==
  ASSUME NEW settings \in Settings
  PROVE  /\ Owned(ClearAccount(settings))
         /\ Owned([settings EXCEPT !.space = 0, !.owner = 0])
         /\ Owned(ClearSpaceAfterIdentityChange(settings))
  BY DEF Settings, Range0, Owned, ClearAccount, ClearSpaceAfterIdentityChange

\* A command changes the settings of its profile to owned ones.
LEMMA CommandOwned ==
  ASSUME TypeInv, OwnedEverywhere, NEW p \in Processes, LocalStep(p) \/ RemoteStep(p)
  PROVE  OwnedEverywhere'
<1>1. pc[p] # "idle"
  BY DEF LocalStep, Logout, Setup, ServerAdd, ServerUse, ServerRemove, SpaceUnset, Loaded,
         RemoteStep, BasicLogin, OIDCLogin, NotAuthenticated, Connect, Refresh, RefreshRejected,
         RefreshLost, CanRefresh, IsRequest, SpaceUse, Answered, ClearStaleSpace, CanAct
<1>2. Mine(p) \in Settings /\ Owned(Mine(p))
  BY <1>1, ProfileType DEF TypeInv, OwnedEverywhere, Mine
<1>3. Owned(NoSettings) /\ Owned(NewSettings)
  BY DEF Owned, NoSettings, NewSettings
<1>4. CASE LocalStep(p)
  <2>1. PICK settings, secret : StartSave(p, "save", settings, secret) /\ Owned(settings)
    BY <1>2, <1>3, <1>4, ClearedOwned
       DEF LocalStep, Logout, Setup, ServerAdd, ServerUse, ServerRemove, SpaceUnset
  <2> QED
    BY <2>1, StartSaveOwned
<1>5. CASE BasicLogin(p) \/ OIDCLogin(p)
  <2>1. Owned(SignedIn(p))
    <3>1. [LoginBase(p) EXCEPT !.account = command[p].account] \in Settings
      BY <1>1, LoadedType, SettingsType DEF LoginBase, Settings
    <3> QED
      BY <3>1, ClearedOwned DEF SignedIn
  <2>2. PICK secret : StartSave(p, "save", SignedIn(p), secret)
    BY <1>5 DEF BasicLogin, OIDCLogin
  <2> QED
    BY <2>1, <2>2, StartSaveOwned
<1>6. CASE Refresh(p)
  <2>1. PICK secret : StartSave(p, "refreshed", Mine(p), secret)
    BY <1>6 DEF Refresh
  <2> QED
    BY <1>2, <2>1, StartSaveOwned
<1>7. CASE SpaceUse(p)
  <2>1. Owned([Mine(p) EXCEPT !.space = ActsAs(p), !.owner = Mine(p).account])
    BY <1>2 DEF Owned, Settings
  <2> QED
    BY <1>7, <2>1, StartSaveOwned DEF SpaceUse
<1>8. CASE ClearStaleSpace(p)
  BY <1>2, <1>8, ClearedOwned, StartSaveOwned DEF ClearStaleSpace
<1>9. CASE Connect(p)
  BY <1>9 DEF Connect, disk, memory, OwnedEverywhere, SpaceOwned
<1>10. CASE NotAuthenticated(p) \/ RefreshRejected(p) \/ Answered(p) \/ RefreshLost(p)
  <2>1. End(p) /\ config' = config
    BY <1>10 DEF NotAuthenticated, RefreshRejected, Answered, RefreshLost, disk
  <2> QED
    BY <2>1, EndOwned
<1> QED
  BY <1>4, <1>5, <1>6, <1>7, <1>8, <1>9, <1>10 DEF RemoteStep

\* Loading takes the configuration over, saving puts it back.
LEMMA LoadSaveOwned ==
  ASSUME TypeInv, OwnedEverywhere, NEW p \in Processes,
         \/ Begin(p) \/ UnknownProfile(p) \/ SaveStep(p) \/ Die(p)
         \/ \E f \in Profiles : LoadSecret(p, f) \/ LoadFails(p, f)
  PROVE  OwnedEverywhere'
<1>1. CASE Begin(p)
  <2>1. store' = [store EXCEPT ![p] = config] /\ config' = config
    BY <1>1 DEF Begin, disk
  <2> QED
    BY <2>1 DEF OwnedEverywhere, SpaceOwned, TypeInv, TypeOK
<1>2. CASE UnknownProfile(p) \/ Die(p) \/ \E f \in Profiles : LoadFails(p, f)
  <2>1. End(p) /\ config' = config
    BY <1>2 DEF UnknownProfile, Die, LoadFails, disk
  <2> QED
    BY <2>1, EndOwned
<1>3. CASE SaveConfig(p)
  <2>1. CASE pc[p] = "refreshed"
    <3>1. config' = store[p] /\ store' = store
      BY <1>3, <2>1 DEF SaveConfig, memory
    <3> QED
      BY <3>1 DEF OwnedEverywhere, SpaceOwned
  <2>2. CASE pc[p] # "refreshed"
    BY <1>3, <2>2, EndOwned DEF SaveConfig
  <2> QED
    BY <2>1, <2>2
<1>4. CASE \/ WriteItem(p) \/ WriteMarker(p)
           \/ \E f \in Profiles : RemoveMarker(p, f) \/ LoadSecret(p, f)
  <2>1. config' = config /\ store' = store
    BY <1>4 DEF WriteItem, WriteMarker, RemoveMarker, LoadSecret, disk, memory
  <2> QED
    BY <2>1 DEF OwnedEverywhere, SpaceOwned
<1> QED
  BY <1>1, <1>2, <1>3, <1>4 DEF SaveStep

\* However commands overlap and die, and whichever of them writes the
\* configuration last, a default Space is recorded for the account that the
\* profile is signed in with.
THEOREM SpaceOwnership == Spec => []SpaceOwned
<1>1. Init => OwnedEverywhere
  <2> SUFFICES ASSUME Init PROVE OwnedEverywhere
    OBVIOUS
  <2>1. SpaceOwned
    BY StartsAssumption DEF Init, SpaceOwned
  <2>2. \A p \in Processes, f \in Profiles : store[p][f] = NoSettings
    BY DEF Init
  <2> QED
    BY <2>1, <2>2 DEF OwnedEverywhere, Owned, NoSettings
<1>2. TypeInv /\ OwnedEverywhere /\ [Next]_vars => OwnedEverywhere'
  <2> SUFFICES ASSUME TypeInv, OwnedEverywhere, [Next]_vars PROVE OwnedEverywhere'
    OBVIOUS
  <2>1. ASSUME NEW p \in Processes, ProcessStep(p) PROVE OwnedEverywhere'
    BY <2>1, CommandOwned, LoadSaveOwned DEF ProcessStep
  <2>2. CASE UNCHANGED vars
    BY <2>2 DEF vars, disk, memory, OwnedEverywhere, SpaceOwned
  <2> QED
    BY <2>1, <2>2 DEF Next, Rest
<1>3. Spec => [](TypeInv /\ OwnedEverywhere)
  BY InitType, NextType, <1>1, <1>2, PTL DEF Spec
<1>4. OwnedEverywhere => SpaceOwned
  BY DEF OwnedEverywhere
<1> QED
  BY <1>3, <1>4, PTL

-----------------------------------------------------------------------------
(* Saving.  A process that has not been noted as overlapping is the only    *)
(* one, so what it has written so far stays as it wrote it.                 *)

Tidy ==
  \A p \in Processes :
    /\ item[p] = 0 <=> writing[p] = NoProfile
    /\ writing[p] # NoProfile => pc[p] \in Saving

AloneUnlessNoted ==
  \A p \in Processes :
    pc[p] # "idle" /\ p \notin overlapped => \A q \in Processes \ {p} : pc[q] = "idle"

WholeMarkers ==
  \A f \in Profiles : keyring[f].marker => keyring[f].items = begun[f] /\ keyring[f].items # Empty

\* Where a save is under way there is no marker, and the first items are written.
Midway ==
  \A p \in Processes : \A f \in Profiles :
    writing[p] = f =>
      /\ ~keyring[f].marker /\ begun[f] = secrets[p][f]
      /\ \A i \in Fields : i < item[p] => keyring[f].items[i] = begun[f][i]

SaveInv == Tidy /\ AloneUnlessNoted /\ ("raced" \notin spoiled => WholeMarkers /\ Midway)

LEMMA InitSave == Init => SaveInv
<1> SUFFICES ASSUME Init PROVE SaveInv
  OBVIOUS
<1>1. Tidy /\ AloneUnlessNoted
  BY DEF Init, Tidy, AloneUnlessNoted
<1>2. WholeMarkers
  <2>1. PICK start \in Starts :
          /\ keyring = [f \in Profiles |-> [marker |-> start.secrets[f] # Empty, items |-> start.secrets[f]]]
          /\ begun = start.secrets
    BY DEF Init
  <2>2. \A f \in Profiles :
          keyring[f].marker = (start.secrets[f] # Empty) /\ keyring[f].items = start.secrets[f]
    BY <2>1, Zenon
  <2> QED
    BY <2>1, <2>2 DEF WholeMarkers
<1>3. Midway
  BY AccountsAssumption DEF Init, Midway
<1> QED
  BY <1>1, <1>2, <1>3 DEF SaveInv

\* Steps of a process that is not writing, or ends.
LEMMA ApartKeeps ==
  ASSUME TypeInv, SaveInv, NEW p \in Processes, pc[p] # "idle",
         UNCHANGED <<keyring, begun, overlapped>>, spoiled \subseteq spoiled',
         writing'[p] = NoProfile, item'[p] = 0,
         \A q \in Processes \ {p} :
           pc'[q] = pc[q] /\ secrets'[q] = secrets[q] /\ writing'[q] = writing[q] /\ item'[q] = item[q]
  PROVE  SaveInv'
<1>1. Tidy'
  BY DEF SaveInv, Tidy
<1>2. AloneUnlessNoted'
  BY DEF SaveInv, AloneUnlessNoted
<1>3. ASSUME "raced" \notin spoiled' PROVE WholeMarkers' /\ Midway'
  <2>1. WholeMarkers /\ Midway
    BY <1>3 DEF SaveInv
  <2>2. WholeMarkers'
    BY <2>1 DEF WholeMarkers
  <2>3. Midway'
    BY <2>1, AccountsAssumption DEF Midway
  <2> QED
    BY <2>2, <2>3
<1> QED
  BY <1>1, <1>2, <1>3 DEF SaveInv

LEMMA EndSaves ==
  ASSUME TypeInv, SaveInv, NEW p \in Processes, pc[p] # "idle", End(p),
         UNCHANGED <<keyring, begun, overlapped>>, spoiled \subseteq spoiled'
  PROVE  SaveInv'
<1>1. writing'[p] = NoProfile /\ item'[p] = 0
  BY DEF End, TypeInv, TypeOK
<1>2. \A q \in Processes \ {p} :
        pc'[q] = pc[q] /\ secrets'[q] = secrets[q] /\ writing'[q] = writing[q] /\ item'[q] = item[q]
  BY DEF End, TypeInv, TypeOK
<1> QED
  BY <1>1, <1>2, ApartKeeps

LEMMA NotWriting ==
  ASSUME SaveInv, NEW p \in Processes, pc[p] \notin Saving
  PROVE  writing[p] = NoProfile /\ item[p] = 0
  BY DEF SaveInv, Tidy

LEMMA StartSaveSaves ==
  ASSUME TypeInv, SaveInv, NEW p \in Processes, pc[p] \notin Saving, pc[p] # "idle",
         NEW stage, NEW settings, NEW secret, StartSave(p, stage, settings, secret), spoiled \subseteq spoiled'
  PROVE  SaveInv'
<1>1. writing'[p] = NoProfile /\ item'[p] = 0
  BY NotWriting DEF StartSave
<1>2. \A q \in Processes \ {p} :
        pc'[q] = pc[q] /\ secrets'[q] = secrets[q] /\ writing'[q] = writing[q] /\ item'[q] = item[q]
  BY DEF StartSave, TypeInv, TypeOK
<1>3. UNCHANGED <<keyring, begun, overlapped>>
  BY DEF StartSave, disk
<1> QED
  BY <1>1, <1>2, <1>3, ApartKeeps

LEMMA CommandSaves ==
  ASSUME TypeInv, SaveInv, NEW p \in Processes, LocalStep(p) \/ RemoteStep(p) \/ UnknownProfile(p) \/ Die(p)
  PROVE  SaveInv'
<1>1. CASE \/ LocalStep(p) \/ BasicLogin(p) \/ OIDCLogin(p) \/ Refresh(p) \/ SpaceUse(p) \/ ClearStaleSpace(p)
  <2>1. PICK stage, settings, secret : StartSave(p, stage, settings, secret)
    BY <1>1 DEF LocalStep, Logout, Setup, ServerAdd, ServerUse, ServerRemove, SpaceUnset,
                BasicLogin, OIDCLogin, Refresh, SpaceUse, ClearStaleSpace
  <2>2. pc[p] \in {"load", "act"}
    BY <1>1 DEF LocalStep, Logout, Setup, ServerAdd, ServerUse, ServerRemove, SpaceUnset, Loaded,
                BasicLogin, OIDCLogin, Refresh, CanRefresh, IsRequest, SpaceUse, ClearStaleSpace, CanAct
  <2>3. spoiled \subseteq spoiled'
    BY <1>1 DEF LocalStep, Logout, Setup, ServerAdd, ServerUse, ServerRemove, SpaceUnset,
                BasicLogin, OIDCLogin, Refresh, SpaceUse, ClearStaleSpace
  <2> QED
    BY <2>1, <2>2, <2>3, StartSaveSaves DEF Saving
<1>2. CASE UnknownProfile(p) \/ NotAuthenticated(p) \/ RefreshRejected(p) \/ RefreshLost(p) \/ Answered(p) \/ Die(p)
  <2>1. End(p) /\ UNCHANGED <<keyring, begun, overlapped>> /\ pc[p] # "idle"
    BY <1>2 DEF UnknownProfile, NotAuthenticated, RefreshRejected, RefreshLost, Answered, Die,
                CanRefresh, IsRequest, CanAct, disk
  <2>2. spoiled \subseteq spoiled'
    BY <1>2 DEF UnknownProfile, NotAuthenticated, RefreshRejected, RefreshLost, Answered, Die
  <2> QED
    BY <2>1, <2>2, EndSaves
<1>3. CASE Connect(p)
  <2> USE <1>3 DEF Connect, IsRequest
  <2>1. writing'[p] = NoProfile /\ item'[p] = 0
    BY NotWriting DEF progress, Saving
  <2>2. \A q \in Processes \ {p} :
          pc'[q] = pc[q] /\ secrets'[q] = secrets[q] /\ writing'[q] = writing[q] /\ item'[q] = item[q]
    BY DEF TypeInv, TypeOK, memory, progress
  <2>3. UNCHANGED <<keyring, begun, overlapped>> /\ spoiled \subseteq spoiled'
    BY DEF disk
  <2> QED
    BY <2>1, <2>2, <2>3, ApartKeeps
<1> QED
  BY <1>1, <1>2, <1>3 DEF RemoteStep

LEMMA LoadSaves ==
  ASSUME TypeInv, SaveInv, NEW p \in Processes,
         Begin(p) \/ \E f \in Profiles : LoadSecret(p, f) \/ LoadFails(p, f)
  PROVE  SaveInv'
<1>1. CASE Begin(p)
  <2> USE <1>1 DEF Begin
  <2>1. writing[p] = NoProfile /\ item[p] = 0
    BY NotWriting DEF Saving
  <2>2. \A q \in Processes \ {p} : pc'[q] = pc[q]
    BY DEF TypeInv, TypeOK
  <2>3. Tidy'
    BY <2>1, <2>2 DEF SaveInv, Tidy
  <2>4. AloneUnlessNoted'
    BY <2>2 DEF SaveInv, AloneUnlessNoted, Running
  <2>5. UNCHANGED <<keyring, begun, secrets, writing, item, spoiled>>
    BY DEF disk
  <2>6. "raced" \notin spoiled' => WholeMarkers' /\ Midway'
    BY <2>5 DEF SaveInv, WholeMarkers, Midway
  <2> QED
    BY <2>3, <2>4, <2>6 DEF SaveInv
<1>2. ASSUME NEW f \in Profiles, LoadSecret(p, f) PROVE SaveInv'
  <2> USE <1>2 DEF LoadSecret
  <2>1. writing'[p] = NoProfile /\ item'[p] = 0
    BY NotWriting DEF Saving
  <2>2. \A q \in Processes \ {p} :
          pc'[q] = pc[q] /\ secrets'[q] = secrets[q] /\ writing'[q] = writing[q] /\ item'[q] = item[q]
    BY DEF TypeInv, TypeOK
  <2>3. UNCHANGED <<keyring, begun, overlapped>> /\ spoiled \subseteq spoiled'
    BY DEF disk
  <2> QED
    BY <2>1, <2>2, <2>3, ApartKeeps
<1>3. ASSUME NEW f \in Profiles, LoadFails(p, f) PROVE SaveInv'
  BY <1>3, EndSaves DEF LoadFails, disk
<1> QED
  BY <1>1, <1>2, <1>3

LEMMA SaveStepSaves ==
  ASSUME TypeInv, SaveInv, NEW p \in Processes, SaveStep(p)
  PROVE  SaveInv'
<1>0. /\ pc[p] # "idle" /\ spoiled \subseteq spoiled' /\ overlapped' = overlapped
      /\ p \in overlapped => "raced" \in spoiled'
  BY DEF SaveStep, RemoveMarker, WriteItem, WriteMarker, SaveConfig, Saved, NoteRace, Saving
\* A process that nobody overlaps finds no other save under way.
<1>1. ASSUME "raced" \notin spoiled'
      PROVE  /\ WholeMarkers /\ Midway
             /\ \A q \in Processes \ {p} : writing[q] = NoProfile
  <2>1. \A q \in Processes \ {p} : pc[q] = "idle"
    BY <1>0, <1>1 DEF SaveInv, AloneUnlessNoted
  <2> QED
    BY <1>0, <1>1, <2>1 DEF SaveInv, Tidy, Saving
<1>2. ASSUME NEW f \in Profiles, RemoveMarker(p, f) PROVE SaveInv'
  <2> USE <1>2 DEF RemoveMarker
  <2>1. Tidy'
    BY AccountsAssumption DEF SaveInv, Tidy, TypeInv, TypeOK
  <2>2. AloneUnlessNoted'
    BY <1>0 DEF SaveInv, AloneUnlessNoted
  <2>3. ASSUME "raced" \notin spoiled' PROVE WholeMarkers' /\ Midway'
    <3>1. /\ keyring'[f].marker = FALSE /\ begun'[f] = secrets[p][f] /\ writing'[p] = f /\ item'[p] = 1
          /\ \A q \in Processes \ {p} : writing'[q] = NoProfile
          /\ \A g \in Profiles \ {f} : keyring'[g] = keyring[g] /\ begun'[g] = begun[g]
      BY <1>1, <2>3 DEF TypeInv, TypeOK
    <3>2. WholeMarkers'
      BY <1>1, <2>3, <3>1 DEF WholeMarkers
    <3>3. \A i \in Fields : ~(i < 1)
      BY DEF Fields
    <3>4. Midway'
      BY <3>1, <3>3, AccountsAssumption DEF Midway, memory
    <3> QED
      BY <3>2, <3>4
  <2> QED
    BY <2>1, <2>2, <2>3 DEF SaveInv
<1>3. CASE WriteItem(p)
  <2> USE <1>3 DEF WriteItem
  <2> DEFINE f == writing[p]
             i == item[p]
  <2>0. i \in Fields /\ i # 0 /\ f \in Profiles /\ item' = [item EXCEPT ![p] = i + 1] /\ writing' = writing
    BY DEF Fields, SaveInv, Tidy, TypeInv, TypeOK
  <2>1. Tidy'
    BY <2>0 DEF SaveInv, Tidy, TypeInv, TypeOK, Fields
  <2>2. AloneUnlessNoted'
    BY <1>0 DEF SaveInv, AloneUnlessNoted
  <2>3. ASSUME "raced" \notin spoiled' PROVE WholeMarkers' /\ Midway'
    <3>1. /\ ~keyring[f].marker /\ begun[f] = secrets[p][f]
          /\ \A j \in Fields : j < i => keyring[f].items[j] = begun[f][j]
      BY <1>1, <2>0, <2>3 DEF Midway
    <3>2. /\ keyring' = [keyring EXCEPT ![f].items[i] = secrets[p][f][i]]
          /\ keyring[f] \in [marker : BOOLEAN, items : Secrets]
          /\ keyring \in [Profiles -> [marker : BOOLEAN, items : Secrets]]
      BY <2>0 DEF TypeInv, TypeOK
    <3>3. /\ keyring'[f].marker = keyring[f].marker
          /\ keyring'[f].items = [keyring[f].items EXCEPT ![i] = secrets[p][f][i]]
          /\ \A g \in Profiles \ {f} : keyring'[g] = keyring[g]
      BY <2>0, <3>2
    <3>4. WholeMarkers'
      BY <1>1, <2>0, <2>3, <3>1, <3>3 DEF WholeMarkers
    <3>5. \A j \in Fields : j < i + 1 => keyring'[f].items[j] = begun[f][j]
      BY <2>0, <3>1, <3>2, <3>3 DEF Fields, Secrets
    <3>6. item'[p] = i + 1 /\ writing'[p] = f /\ \A q \in Processes \ {p} : writing'[q] = NoProfile
      BY <1>1, <2>0, <2>3 DEF TypeInv, TypeOK
    <3>7. begun' = begun /\ secrets' = secrets
      BY DEF memory
    <3> HIDE DEF f, i
    <3>8. Midway'
      BY <2>0, <3>1, <3>3, <3>5, <3>6, <3>7, AccountsAssumption DEF Midway
    <3> QED
      BY <3>4, <3>8
  <2> QED
    BY <2>1, <2>2, <2>3 DEF SaveInv
<1>4. CASE WriteMarker(p)
  <2> USE <1>4 DEF WriteMarker
  <2> DEFINE f == writing[p]
  <2>0. f \in Profiles
    BY DEF SaveInv, Tidy, TypeInv, TypeOK
  <2>1. Tidy'
    BY DEF SaveInv, Tidy, TypeInv, TypeOK
  <2>2. AloneUnlessNoted'
    BY <1>0 DEF SaveInv, AloneUnlessNoted
  <2>3. ASSUME "raced" \notin spoiled' PROVE WholeMarkers' /\ Midway'
    <3>1. /\ ~keyring[f].marker /\ begun[f] = secrets[p][f]
          /\ \A j \in Fields : j < item[p] => keyring[f].items[j] = begun[f][j]
      BY <1>1, <2>0, <2>3 DEF Midway
    <3>2. keyring[f].items \in Secrets /\ begun[f] \in Secrets
      BY <2>0 DEF TypeInv, TypeOK
    <3>3. keyring[f].items = begun[f]
      <4>1. \A j \in Fields : keyring[f].items[j] = begun[f][j]
        BY <3>1 DEF Fields
      <4> QED
        BY <3>2, <4>1 DEF Secrets
    <3>4. /\ keyring'[f].items = keyring[f].items /\ keyring'[f].marker = (begun[f] # Empty)
          /\ \A g \in Profiles \ {f} : keyring'[g] = keyring[g]
      BY <2>0, <3>1 DEF TypeInv, TypeOK
    <3>5. WholeMarkers'
      <4>1. \A g \in Profiles \ {f} :
              keyring[g].marker => keyring[g].items = begun[g] /\ keyring[g].items # Empty
        BY <1>1, <2>3 DEF WholeMarkers
      <4>2. begun' = begun
        OBVIOUS
      <4>3. keyring'[f].marker => keyring'[f].items = begun'[f] /\ keyring'[f].items # Empty
        BY <3>3, <3>4, <4>2
      <4>4. \A g \in Profiles \ {f} :
              keyring'[g].marker => keyring'[g].items = begun'[g] /\ keyring'[g].items # Empty
        BY <3>4, <4>1, <4>2
      <4> HIDE DEF WriteMarker, f
      <4> QED
        BY <4>3, <4>4 DEF WholeMarkers
    <3>6. \A q \in Processes : writing'[q] = NoProfile
      BY <1>1, <2>3 DEF TypeInv, TypeOK
    <3>7. Midway'
      BY <3>6, AccountsAssumption DEF Midway
    <3> QED
      BY <3>5, <3>7
  <2> QED
    BY <2>1, <2>2, <2>3 DEF SaveInv
<1>5. CASE SaveConfig(p)
  <2>0. Saved(p) /\ UNCHANGED <<keyring, begun, overlapped>>
    BY <1>5 DEF SaveConfig
  <2>1. CASE pc[p] = "refreshed"
    <3>1. pc' = [pc EXCEPT ![p] = "act"] /\ UNCHANGED <<memory, progress>>
      BY <1>5, <2>1 DEF SaveConfig
    <3>2. writing'[p] = NoProfile /\ item'[p] = 0
      BY <2>0, <3>1 DEF Saved, progress, SaveInv, Tidy
    <3>3. \A q \in Processes \ {p} :
            pc'[q] = pc[q] /\ secrets'[q] = secrets[q] /\ writing'[q] = writing[q] /\ item'[q] = item[q]
      BY <3>1 DEF TypeInv, TypeOK, memory, progress
    <3> QED
      BY <1>0, <2>0, <3>2, <3>3, ApartKeeps
  <2>2. CASE pc[p] # "refreshed"
    <3>1. End(p)
      BY <1>5, <2>2 DEF SaveConfig
    <3> QED
      BY <1>0, <2>0, <3>1, EndSaves
  <2> QED
    BY <2>1, <2>2
<1> QED
  BY <1>2, <1>3, <1>4, <1>5 DEF SaveStep

LEMMA NextSave == TypeInv /\ SaveInv /\ [Next]_vars => SaveInv'
<1> SUFFICES ASSUME TypeInv, SaveInv, [Next]_vars PROVE SaveInv'
  OBVIOUS
<1>1. ASSUME NEW p \in Processes, ProcessStep(p) PROVE SaveInv'
  BY <1>1, CommandSaves, LoadSaves, SaveStepSaves DEF ProcessStep
<1>2. CASE UNCHANGED vars
  BY <1>2 DEF vars, disk, memory, progress, SaveInv, Tidy, AloneUnlessNoted, WholeMarkers, Midway
<1> QED
  BY <1>1, <1>2 DEF Next, Rest

\* As long as commands do not overlap, a marker stands only beside the whole
\* secret that was saved last, wherever the saves before it were cut off.
THEOREM MarkersStandForWholeSecrets == Spec => []MarkerMeansWhole
<1>1. Spec => [](TypeInv /\ SaveInv)
  BY InitType, InitSave, NextType, NextSave, PTL DEF Spec
<1>2. SaveInv => MarkerMeansWhole
  BY DEF SaveInv, WholeMarkers, MarkerMeansWhole
<1> QED
  BY <1>1, <1>2, PTL

-----------------------------------------------------------------------------
(* What has been saved.  A process that runs alone finds in the keyring     *)
(* what it wrote there, and it writes what its command is about.            *)

\* The items before the next one are written, and profiles that are done are whole.
Kept(p) ==
  pc[p] # "idle" /\ p \notin overlapped =>
    \A f \in Profiles :
      /\ writing[p] = f =>
           /\ ~keyring[f].marker
           /\ \A i \in Fields : i < item[p] => keyring[f].items[i] = secrets[p][f][i]
      /\ /\ pc[p] \in Saving /\ (store[p][f].known \/ f = Profile(p))
         /\ f \notin todo[p] /\ f # writing[p]
         => keyring[f].items = secrets[p][f] /\ keyring[f].marker = (secrets[p][f] # Empty)

\* Only commands that talk to a server act on it, or refresh a token.
Remote(p) == pc[p] \in {"act", "refreshed"} => command[p].kind \in {"use", "request"}

\* A logout is saving a client secret only, a removal nothing.
Erasing(p) ==
  pc[p] \in Saving =>
    /\ command[p].kind = "logout" => MySecret(p) = <<0, MySecret(p)[ClientSecret], 0, 0>>
    /\ command[p].kind = "remove" => MySecret(p) = Empty

SavedInv == \A p \in Processes : Kept(p) /\ Remote(p) /\ Erasing(p)

\* A step of a process matters only to itself.
LEMMA OwnStep ==
  ASSUME SaveInv, SavedInv, NEW p \in Processes, pc[p] # "idle", overlapped' = overlapped,
         \A q \in Processes \ {p} :
           pc'[q] = pc[q] /\ command'[q] = command[q] /\ secrets'[q] = secrets[q],
         Kept(p)', Remote(p)', Erasing(p)'
  PROVE  SavedInv'
<1> SUFFICES ASSUME NEW q \in Processes \ {p} PROVE Kept(q)' /\ Remote(q)' /\ Erasing(q)'
  BY DEF SavedInv
<1>1. Kept(q)'
  <2>1. pc[q] # "idle" => q \in overlapped
    BY DEF SaveInv, AloneUnlessNoted
  <2> QED
    BY <2>1 DEF Kept
<1>2. Remote(q)' /\ Erasing(q)'
  BY DEF SavedInv, Remote, Erasing, MySecret, Profile
<1> QED
  BY <1>1, <1>2

LEMMA EndSaved ==
  ASSUME TypeInv, SaveInv, SavedInv, NEW p \in Processes, pc[p] # "idle", End(p), overlapped' = overlapped
  PROVE  SavedInv'
<1>1. pc'[p] = "idle"
  BY DEF End, TypeInv, TypeOK
<1>2. \A q \in Processes \ {p} :
        pc'[q] = pc[q] /\ command'[q] = command[q] /\ secrets'[q] = secrets[q]
  BY DEF End, TypeInv, TypeOK
<1>3. Kept(p)' /\ Remote(p)' /\ Erasing(p)'
  BY <1>1 DEF Kept, Remote, Erasing, Saving
<1> QED
  BY <1>1, <1>2, <1>3, OwnStep

\* A save begins with all profiles to do.
LEMMA StartSaveSaved ==
  ASSUME TypeInv, SaveInv, SavedInv, NEW p \in Processes, pc[p] \notin Saving, pc[p] # "idle",
         NEW stage \in Saving, NEW settings, NEW secret, StartSave(p, stage, settings, secret),
         stage = "refreshed" => command[p].kind \in {"use", "request"},
         command[p].kind = "logout" => secret = <<0, secret[ClientSecret], 0, 0>>,
         command[p].kind = "remove" => secret = Empty
  PROVE  SavedInv'
<1>1. \A q \in Processes \ {p} :
        pc'[q] = pc[q] /\ command'[q] = command[q] /\ secrets'[q] = secrets[q]
  BY DEF StartSave, TypeInv, TypeOK
<1>2. /\ pc'[p] = stage /\ command' = command /\ writing'[p] = NoProfile
      /\ todo'[p] = Known(store[p]) \cup {Profile(p)}
      /\ overlapped' = overlapped
  BY NotWriting DEF StartSave, TypeInv, TypeOK
<1>3. Profile(p) \in Profiles /\ store'[p] = [store[p] EXCEPT ![Profile(p)] = settings]
      /\ MySecret(p)' = secret
  BY ProfileType DEF StartSave, TypeInv, TypeOK, MySecret, Profile
<1>4. \A f \in Profiles : store'[p][f].known \/ f = Profile(p) => f \in todo'[p]
  BY <1>2, <1>3 DEF Known, TypeInv, TypeOK
<1>5. Kept(p)'
  BY <1>2, <1>4, AccountsAssumption DEF Kept, Profile
<1>6. Remote(p)' /\ Erasing(p)'
  BY <1>2, <1>3 DEF Remote, Erasing, Saving
<1> QED
  BY <1>1, <1>2, <1>5, <1>6, OwnStep

LEMMA CommandSaved ==
  ASSUME TypeInv, SaveInv, SavedInv, NEW p \in Processes,
         LocalStep(p) \/ RemoteStep(p) \/ UnknownProfile(p) \/ Die(p)
  PROVE  SavedInv'
<1>0. "save" \in Saving /\ "refreshed" \in Saving /\ "load" \notin Saving /\ "act" \notin Saving
  BY DEF Saving
<1>1. CASE Logout(p)
  <2>1. /\ pc[p] = "load" /\ command[p].kind = "logout"
        /\ StartSave(p, "save", ClearAccount(Mine(p)), ClearSecret(MySecret(p), MySecret(p)[ClientSecret]))
    BY <1>1 DEF Logout, Loaded
  <2>2. ClearSecret(MySecret(p), MySecret(p)[ClientSecret])
          = <<0, ClearSecret(MySecret(p), MySecret(p)[ClientSecret])[ClientSecret], 0, 0>>
    BY DEF ClearSecret, ClientSecret
  <2> QED
    BY <1>0, <2>1, <2>2, StartSaveSaved
<1>2. CASE ServerRemove(p)
  <2>1. pc[p] = "load" /\ command[p].kind = "remove" /\ StartSave(p, "save", NoSettings, Empty)
    BY <1>2 DEF ServerRemove, Loaded
  <2> QED
    BY <1>0, <2>1, StartSaveSaved
<1>3. CASE \/ Setup(p) \/ ServerAdd(p) \/ ServerUse(p) \/ SpaceUnset(p) \/ BasicLogin(p) \/ OIDCLogin(p)
           \/ SpaceUse(p) \/ ClearStaleSpace(p)
  <2>1. PICK settings, secret : StartSave(p, "save", settings, secret)
    BY <1>3 DEF Setup, ServerAdd, ServerUse, SpaceUnset, BasicLogin, OIDCLogin, SpaceUse, ClearStaleSpace
  <2>2. pc[p] \in {"load", "act"} /\ command[p].kind \notin {"logout", "remove"}
    BY <1>3 DEF Setup, ServerAdd, ServerUse, SpaceUnset, BasicLogin, OIDCLogin, SpaceUse, ClearStaleSpace,
                Loaded, CanAct
  <2> QED
    BY <1>0, <2>1, <2>2, StartSaveSaved
<1>4. CASE Refresh(p)
  <2>1. PICK secret : StartSave(p, "refreshed", Mine(p), secret)
    BY <1>4 DEF Refresh
  <2>2. pc[p] = "load" /\ command[p].kind \in {"use", "request"}
    BY <1>4 DEF Refresh, CanRefresh, IsRequest
  <2> QED
    BY <1>0, <2>1, <2>2, StartSaveSaved
<1>5. CASE Connect(p)
  <2> USE <1>5 DEF Connect, IsRequest
  <2>1. pc'[p] = "act" /\ command' = command /\ overlapped' = overlapped /\ secrets' = secrets
    BY DEF TypeInv, TypeOK, memory
  <2>2. \A q \in Processes \ {p} : pc'[q] = pc[q]
    BY DEF TypeInv, TypeOK
  <2>3. writing'[p] = NoProfile
    BY <1>0, NotWriting DEF progress
  <2>4. Kept(p)'
    BY <1>0, <2>1, <2>3, AccountsAssumption DEF Kept
  <2>5. Remote(p)' /\ Erasing(p)'
    BY <1>0, <2>1 DEF Remote, Erasing
  <2> QED
    BY <2>1, <2>2, <2>4, <2>5, OwnStep
<1>6. CASE UnknownProfile(p) \/ NotAuthenticated(p) \/ RefreshRejected(p) \/ RefreshLost(p) \/ Answered(p) \/ Die(p)
  <2>1. End(p) /\ overlapped' = overlapped /\ pc[p] # "idle"
    BY <1>6 DEF UnknownProfile, NotAuthenticated, RefreshRejected, RefreshLost, Answered, Die,
                CanRefresh, IsRequest, CanAct
  <2> QED
    BY <2>1, EndSaved
<1> QED
  BY <1>1, <1>2, <1>3, <1>4, <1>5, <1>6 DEF LocalStep, RemoteStep

LEMMA LoadSaved ==
  ASSUME TypeInv, SaveInv, SavedInv, NEW p \in Processes,
         Begin(p) \/ \E f \in Profiles : LoadSecret(p, f) \/ LoadFails(p, f)
  PROVE  SavedInv'
<1>0. "load" \notin Saving /\ "load" \notin {"act", "refreshed"}
  BY DEF Saving
<1>1. CASE Begin(p)
  <2> USE <1>1 DEF Begin
  <2>1. \A q \in Processes \ {p} : pc'[q] = pc[q] /\ command'[q] = command[q] /\ secrets'[q] = secrets[q]
    BY DEF TypeInv, TypeOK
  <2>2. \A q \in Processes \ {p} : pc'[q] # "idle" => q \in overlapped'
    BY <2>1 DEF Running
  <2>3. pc'[p] = "load" /\ writing'[p] = NoProfile
    BY NotWriting DEF TypeInv, TypeOK, Saving
  <2>4. Kept(p)' /\ Remote(p)' /\ Erasing(p)'
    BY <1>0, <2>3, AccountsAssumption DEF Kept, Remote, Erasing
  <2>5. \A q \in Processes \ {p} : Kept(q)' /\ Remote(q)' /\ Erasing(q)'
    BY <2>1, <2>2 DEF SavedInv, Kept, Remote, Erasing, MySecret, Profile
  <2> QED
    BY <2>4, <2>5 DEF SavedInv
<1>2. ASSUME NEW f \in Profiles, LoadSecret(p, f) PROVE SavedInv'
  <2> USE <1>2 DEF LoadSecret
  <2>1. \A q \in Processes \ {p} : pc'[q] = pc[q] /\ command'[q] = command[q] /\ secrets'[q] = secrets[q]
    BY DEF TypeInv, TypeOK
  <2>2. pc'[p] = "load" /\ writing'[p] = NoProfile
    BY <1>0, NotWriting
  <2>3. Kept(p)' /\ Remote(p)' /\ Erasing(p)'
    BY <1>0, <2>2, AccountsAssumption DEF Kept, Remote, Erasing
  <2> QED
    BY <2>1, <2>3, OwnStep
<1>3. ASSUME NEW f \in Profiles, LoadFails(p, f) PROVE SavedInv'
  BY <1>3, EndSaved DEF LoadFails
<1> QED
  BY <1>1, <1>2, <1>3

LEMMA SaveStepSaved ==
  ASSUME TypeInv, SaveInv, SavedInv, NEW p \in Processes, SaveStep(p)
  PROVE  SavedInv'
<1>0. pc[p] # "idle" /\ overlapped' = overlapped /\ pc[p] \in Saving
  BY DEF SaveStep, RemoveMarker, WriteItem, WriteMarker, SaveConfig, Saved, Saving
<1>1. ASSUME UNCHANGED <<memory, pc, command>>, Kept(p)' PROVE SavedInv'
  <2>1. Remote(p)' /\ Erasing(p)'
    BY <1>1 DEF SavedInv, Remote, Erasing, MySecret, Profile, memory
  <2>2. \A q \in Processes \ {p} : pc'[q] = pc[q] /\ command'[q] = command[q] /\ secrets'[q] = secrets[q]
    BY <1>1 DEF memory
  <2> QED
    BY <1>0, <1>1, <2>1, <2>2, OwnStep
<1>2. ASSUME NEW f \in Profiles, RemoveMarker(p, f) PROVE SavedInv'
  <2> USE <1>2 DEF RemoveMarker
  <2>1. /\ writing[p] = NoProfile /\ writing'[p] = f /\ item'[p] = 1 /\ todo'[p] = todo[p] \ {f}
        /\ ~keyring'[f].marker /\ \A g \in Profiles \ {f} : keyring'[g] = keyring[g]
    BY DEF TypeInv, TypeOK
  <2>2. UNCHANGED <<store, secrets, pc, command>>
    BY DEF memory
  <2>3. \A i \in Fields : ~(i < 1)
    BY DEF Fields
  <2>4. ASSUME p \notin overlapped, NEW g \in Profiles \ {f},
               pc[p] \in Saving, store[p][g].known \/ g = Profile(p), g \notin todo'[p]
        PROVE  keyring'[g].items = secrets[p][g] /\ keyring'[g].marker = (secrets[p][g] # Empty)
    <3>1. g \notin todo[p] /\ g # writing[p]
      BY <2>1, <2>4, AccountsAssumption
    <3>2. keyring[g].items = secrets[p][g] /\ keyring[g].marker = (secrets[p][g] # Empty)
      BY <1>0, <2>4, <3>1 DEF SavedInv, Kept
    <3> QED
      BY <2>1, <3>2
  <2> HIDE <1>2 DEF RemoveMarker
  <2>5. Profile(p)' = Profile(p)
    BY <2>2 DEF Profile
  <2>6. Kept(p)'
    BY <1>0, <2>1, <2>2, <2>3, <2>4, <2>5 DEF Kept
  <2> QED
    BY <1>1, <1>2, <2>2, <2>6 DEF RemoveMarker
<1>3. CASE WriteItem(p)
  <2> USE <1>3 DEF WriteItem
  <2> DEFINE f == writing[p]
             i == item[p]
  <2>0. i \in Fields /\ f \in Profiles /\ item'[p] = i + 1 /\ writing' = writing
    BY DEF Fields, SaveInv, Tidy, TypeInv, TypeOK
  <2>1. /\ keyring' = [keyring EXCEPT ![f].items[i] = secrets[p][f][i]]
        /\ keyring[f].items \in Secrets
        /\ keyring \in [Profiles -> [marker : BOOLEAN, items : Secrets]]
    BY <2>0 DEF TypeInv, TypeOK
  <2>2. /\ keyring'[f].items = [keyring[f].items EXCEPT ![i] = secrets[p][f][i]]
        /\ keyring'[f].marker = keyring[f].marker
        /\ \A g \in Profiles \ {f} : keyring'[g] = keyring[g]
    BY <2>0, <2>1
  <2>3. UNCHANGED <<store, secrets, pc, command, todo>>
    BY DEF memory
  <2>4. ASSUME p \notin overlapped
        PROVE  ~keyring'[f].marker /\ \A j \in Fields : j < i + 1 => keyring'[f].items[j] = secrets[p][f][j]
    <3>1. ~keyring[f].marker /\ \A j \in Fields : j < i => keyring[f].items[j] = secrets[p][f][j]
      BY <1>0, <2>0, <2>4 DEF SavedInv, Kept
    <3> QED
      BY <2>0, <2>1, <2>2, <3>1 DEF Fields, Secrets
  <2> HIDE DEF f, i
  <2>5. f = writing[p]
    BY DEF f
  <2>6. Kept(p)'
    BY <1>0, <2>0, <2>2, <2>3, <2>4, <2>5 DEF SavedInv, Kept, Profile
  <2> QED
    BY <1>1, <2>6
<1>4. CASE WriteMarker(p)
  <2> USE <1>4 DEF WriteMarker
  <2> DEFINE f == writing[p]
  <2>0. f \in Profiles /\ writing'[p] = NoProfile
    BY DEF SaveInv, Tidy, TypeInv, TypeOK
  <2>1. /\ keyring'[f].items = keyring[f].items
        /\ keyring'[f].marker = (keyring[f].marker \/ secrets[p][f] # Empty)
        /\ \A g \in Profiles \ {f} : keyring'[g] = keyring[g]
    BY <2>0 DEF TypeInv, TypeOK
  <2>2. UNCHANGED <<store, secrets, pc, command, todo>>
    BY DEF memory
  <2>3. ASSUME p \notin overlapped PROVE ~keyring[f].marker /\ keyring[f].items = secrets[p][f]
    <3>1. ~keyring[f].marker /\ \A j \in Fields : keyring[f].items[j] = secrets[p][f][j]
      BY <1>0, <2>0, <2>3 DEF SavedInv, Kept, Fields
    <3>2. keyring[f].items \in Secrets /\ secrets[p][f] \in Secrets
      BY <2>0 DEF TypeInv, TypeOK
    <3> QED
      BY <3>1, <3>2 DEF Secrets
  <2> HIDE DEF f
  <2>4. f = writing[p]
    BY DEF f
  <2>5. Kept(p)'
    BY <1>0, <2>0, <2>1, <2>2, <2>3, <2>4, AccountsAssumption DEF SavedInv, Kept, Profile
  <2> QED
    BY <1>1, <2>5
<1>5. CASE SaveConfig(p)
  <2>1. CASE pc[p] = "refreshed"
    <3>1. pc' = [pc EXCEPT ![p] = "act"] /\ UNCHANGED <<memory, progress, command>> /\ writing[p] = NoProfile
      BY <1>5, <2>1 DEF SaveConfig, Saved
    <3>2. /\ pc'[p] = "act" /\ writing'[p] = NoProfile
          /\ \A q \in Processes \ {p} : pc'[q] = pc[q] /\ command'[q] = command[q] /\ secrets'[q] = secrets[q]
      BY <3>1 DEF TypeInv, TypeOK, memory, progress
    <3>3. Kept(p)' /\ Erasing(p)'
      BY <3>2, AccountsAssumption DEF Kept, Erasing, Saving
    <3>4. Remote(p)'
      BY <2>1, <3>1 DEF SavedInv, Remote
    <3> QED
      BY <1>0, <3>2, <3>3, <3>4, OwnStep
  <2>2. CASE pc[p] # "refreshed"
    BY <1>0, <1>5, <2>2, EndSaved DEF SaveConfig
  <2> QED
    BY <2>1, <2>2
<1> QED
  BY <1>2, <1>3, <1>4, <1>5 DEF SaveStep

LEMMA SavedInvariance == Spec => [](TypeInv /\ SaveInv /\ SavedInv)
<1>1. Init => SavedInv
  BY DEF Init, SavedInv, Kept, Remote, Erasing, Saving
<1>2. TypeInv /\ SaveInv /\ [Next]_vars => SaveInv'
  BY NextSave
<1>3. TypeInv /\ SaveInv /\ SavedInv /\ [Next]_vars => SavedInv'
  <2> SUFFICES ASSUME TypeInv, SaveInv, SavedInv, [Next]_vars PROVE SavedInv'
    OBVIOUS
  <2>1. ASSUME NEW p \in Processes, ProcessStep(p) PROVE SavedInv'
    BY <2>1, CommandSaved, LoadSaved, SaveStepSaved DEF ProcessStep
  <2>2. CASE UNCHANGED vars
    BY <2>2 DEF vars, disk, memory, progress, SavedInv, Kept, Remote, Erasing, MySecret, Profile
  <2> QED
    BY <2>1, <2>2 DEF Next, Rest
<1> QED
  BY InitType, InitSave, NextType, <1>1, <1>2, <1>3, PTL DEF Spec

\* When a command that ran alone has saved, the keyring holds what it had in memory.
LEMMA WrittenWhole ==
  ASSUME SavedInv, NEW p \in Processes, SaveConfig(p), p \notin overlapped,
         NEW f \in Profiles, store[p][f].known \/ f = Profile(p)
  PROVE  keyring[f].items = secrets[p][f] /\ keyring[f].marker = (secrets[p][f] # Empty)
<1>1. pc[p] \in Saving /\ pc[p] # "idle" /\ writing[p] = NoProfile /\ todo[p] = {}
  BY DEF SaveConfig, Saved, Saving
<1>2. Kept(p)
  BY DEF SavedInv
<1> QED
  BY <1>1, <1>2, AccountsAssumption DEF Kept

\* What a command that ran alone has saved is what the next command loads, of
\* every profile and whatever earlier deaths or races left behind.
THEOREM SavesAreLoaded == Spec => SavedIsLoaded
<1>1. SavedInv =>
        \A p \in Processes : SaveConfig(p) /\ p \notin overlapped =>
          \A f \in Profiles : store[p][f].known => Stored(f) = secrets[p][f]
  BY WrittenWhole DEF Stored
<1>2. SavedInv /\ [Next]_vars =>
        [\A p \in Processes : SaveConfig(p) /\ p \notin overlapped =>
          \A f \in Profiles : store[p][f].known => Stored(f) = secrets[p][f]]_vars
  BY <1>1
<1> QED
  BY <1>2, SavedInvariance, PTL DEF Spec, SavedIsLoaded

\* A logout that succeeds leaves nothing of the account in any item, a removal
\* nothing at all, whatever was cut off before.
THEOREM LogoutIsComplete == Spec => LogoutErases
<1> DEFINE Complete ==
      \A p \in Processes : SaveConfig(p) /\ p \notin overlapped =>
        LET items == keyring[Profile(p)].items
        IN  /\ command[p].kind = "logout" => items = <<0, items[ClientSecret], 0, 0>>
            /\ command[p].kind = "remove" => items = Empty
<1>1. TypeInv /\ SavedInv => Complete
  <2> SUFFICES ASSUME TypeInv, SavedInv, NEW p \in Processes, SaveConfig(p), p \notin overlapped
               PROVE  LET items == keyring[Profile(p)].items
                      IN  /\ command[p].kind = "logout" => items = <<0, items[ClientSecret], 0, 0>>
                          /\ command[p].kind = "remove" => items = Empty
    OBVIOUS
  <2>1. pc[p] \in Saving /\ pc[p] # "idle"
    BY DEF SaveConfig, Saved, Saving
  <2>2. Profile(p) \in Profiles
    BY <2>1, ProfileType DEF TypeInv
  <2>3. keyring[Profile(p)].items = MySecret(p)
    BY <2>2, WrittenWhole DEF MySecret
  <2>4. Erasing(p)
    BY DEF SavedInv
  <2> QED
    BY <2>1, <2>3, <2>4 DEF Erasing
<1>2. TypeInv /\ SavedInv /\ [Next]_vars => [Complete]_vars
  BY <1>1
<1> QED
  BY <1>2, SavedInvariance, PTL DEF Spec, LogoutErases

-----------------------------------------------------------------------------
(* Secrets and identities.  A process that runs alone has the configuration *)
(* and the secrets of one moment in memory, and they belong together; so    *)
(* does what it has written, once all of it is written.                     *)

Unspoiled == spoiled \cap {"raced", "died"} = {}
Lone(p) == pc[p] # "idle" /\ p \notin overlapped

\* A process that does not run holds no secrets.
Forgotten == \A p \in Processes : pc[p] = "idle" => \A f \in Profiles : secrets[p][f] = Empty

\* The refresh token t is stored or in memory for the profile f.
Has(f, t) ==
  \/ keyring[f].items[RefreshToken] = t
  \/ \E p \in Processes : secrets[p][f][RefreshToken] = t

\* No two profiles have one refresh token.
TokensApart == \A f, g \in Profiles : \A t \in Nat \ {0} : Has(f, t) /\ Has(g, t) => f = g

\* A process is about to replace the token of the profile f.
Replacing(f) == \E p \in Processes : pc[p] = "refreshed" /\ Profile(p) = f

StoredLive == \A f \in Profiles : Stored(f)[RefreshToken] \in live \cup {0} \/ Replacing(f)

Matching(settings, secret, issued) ==
  IF settings.known THEN Belongs(secret, settings.account, issued) ELSE secret = Empty

DiskMatches ==
  NobodySaves =>
    \A f \in Profiles :
      Matching(config[f], keyring[f].items, tokens) /\ (~config[f].known => ~keyring[f].marker)

\* What a process that runs alone has in memory.
MemoryLive(p) == \A f \in Profiles : secrets[p][f][RefreshToken] \in live \cup {0}
MemoryMatches(p) == \A f \in Profiles : Matching(store[p][f], secrets[p][f], tokens)
MemoryFresh(p) == pc[p] \in {"load", "act"} => store[p] = config

\* What it does not save is not there.
NothingElse(p) ==
  pc[p] \in Saving =>
    \A f \in Profiles : ~store[p][f].known /\ f # Profile(p) =>
      /\ f \notin todo[p] /\ f # writing[p]
      /\ ~keyring[f].marker /\ keyring[f].items = Empty

LoneRight(p) ==
  Lone(p) => MemoryLive(p) /\ MemoryMatches(p) /\ MemoryFresh(p) /\ NothingElse(p)

Good == StoredLive /\ DiskMatches /\ \A p \in Processes : LoneRight(p)

MatchInv == Forgotten /\ TokensApart /\ (Unspoiled => Good)

\* A default Space is one its owner has seen.
Seen(settings) == settings.space \in {0, settings.owner}

SeenInv ==
  spoiled = {} =>
    \A f \in Profiles :
      Seen(config[f]) /\ \A p \in Processes : Lone(p) => Seen(store[p][f])

\* A client secret is anybody's.
LEMMA ClearBelongs ==
  ASSUME NEW client, NEW account, NEW issued
  PROVE  Belongs(<<0, client, 0, 0>>, account, issued) /\ Belongs(Empty, account, issued)
  BY DEF Belongs, Empty, Password, AccessToken, RefreshToken

\* Tokens stay those of their accounts when more are issued.
LEMMA BelongsLonger ==
  ASSUME NEW secret, NEW account, NEW issued, NEW more, KnownItems(secret, issued),
         \A t \in 1 .. Len(issued) : more[t] = issued[t],
         Len(issued) \in Nat, Belongs(secret, account, issued)
  PROVE  Belongs(secret, account, more)
<1>1. ASSUME NEW t \in {AccessToken, RefreshToken}, secret[t] # 0
      PROVE  account # 0 /\ account \notin BasicAccounts /\ more[secret[t]] = account
  <2>1. secret[t] \in 1 .. Len(issued)
    BY <1>1 DEF KnownItems
  <2> QED
    BY <1>1, <2>1 DEF Belongs
<1> QED
  BY <1>1 DEF Belongs

LEMMA MatchingLonger ==
  ASSUME NEW settings, NEW secret, NEW issued, NEW more, KnownItems(secret, issued),
         \A t \in 1 .. Len(issued) : more[t] = issued[t],
         Len(issued) \in Nat, Matching(settings, secret, issued)
  PROVE  Matching(settings, secret, more)
  BY BelongsLonger DEF Matching

\* A process that runs alone is the only one.
LEMMA LoneAlone ==
  ASSUME SaveInv, NEW p \in Processes, Lone(p)
  PROVE  \A q \in Processes \ {p} : pc[q] = "idle"
  BY DEF SaveInv, AloneUnlessNoted, Lone

\* Beside a process that takes a step, no other runs alone.
LEMMA OthersNoted ==
  ASSUME SaveInv, NEW p \in Processes, pc[p] # "idle", overlapped' = overlapped,
         NEW q \in Processes \ {p}, pc'[q] = pc[q]
  PROVE  ~Lone(q)'
  BY DEF SaveInv, AloneUnlessNoted, Lone

-----------------------------------------------------------------------------
(* The shapes of steps *)

\* The steps that begin to save.
Starting(p) ==
  \E settings, secret :
    /\ StartSave(p, "save", settings, secret) \/ StartSave(p, "refreshed", settings, secret)
    /\ \/ tokens' = tokens /\ secret[RefreshToken] \in {0, MySecret(p)[RefreshToken]}
       \/ \E account \in Accounts :
            Issue(account) /\ secret[RefreshToken] \in {MySecret(p)[RefreshToken], NewToken}

\* The steps that leave all secrets alone.
Quiet(p) ==
  /\ secrets' = secrets /\ keyring' = keyring
  /\ pc'[p] # "idle" /\ \A q \in Processes \ {p} : pc'[q] = pc[q]

Loading(p) ==
  \E f \in Profiles :
    pc[p] # "idle" /\ pc' = pc /\ keyring' = keyring /\ secrets' = [secrets EXCEPT ![p][f] = Stored(f)]

LEMMA Shapes ==
  ASSUME TypeInv, NEW p \in Processes, ProcessStep(p)
  PROVE  \/ End(p) /\ keyring' = keyring
         \/ Starting(p) /\ pc[p] # "idle"
         \/ Quiet(p)
         \/ Loading(p)
         \/ (\E f \in Profiles : RemoveMarker(p, f)) \/ WriteItem(p) \/ WriteMarker(p)
<1>1. CASE Begin(p) \/ Connect(p)
  <2>1. secrets' = secrets /\ keyring' = keyring
    BY <1>1 DEF Begin, Connect, memory, disk
  <2>2. pc' = [pc EXCEPT ![p] = "load"] \/ pc' = [pc EXCEPT ![p] = "act"]
    BY <1>1 DEF Begin, Connect
  <2>3. pc'[p] # "idle" /\ \A q \in Processes \ {p} : pc'[q] = pc[q]
    BY <2>2 DEF TypeInv, TypeOK
  <2> QED
    BY <2>1, <2>3 DEF Quiet
<1>2. CASE \/ UnknownProfile(p) \/ NotAuthenticated(p) \/ RefreshRejected(p) \/ RefreshLost(p)
           \/ Answered(p) \/ Die(p) \/ \E f \in Profiles : LoadFails(p, f)
  BY <1>2 DEF UnknownProfile, NotAuthenticated, RefreshRejected, RefreshLost, Answered, Die, LoadFails, disk
<1>3. CASE \E f \in Profiles : LoadSecret(p, f)
  BY <1>3 DEF LoadSecret, Loading, disk
<1>4. CASE SaveConfig(p)
  <2>1. keyring' = keyring /\ Saved(p)
    BY <1>4 DEF SaveConfig
  <2>2. CASE pc[p] = "refreshed"
    <3>1. pc' = [pc EXCEPT ![p] = "act"] /\ secrets' = secrets
      BY <1>4, <2>2 DEF SaveConfig, memory
    <3>2. pc'[p] # "idle" /\ \A q \in Processes \ {p} : pc'[q] = pc[q]
      BY <3>1 DEF TypeInv, TypeOK
    <3> QED
      BY <2>1, <3>1, <3>2 DEF Quiet
  <2>3. CASE pc[p] # "refreshed"
    BY <1>4, <2>1, <2>3 DEF SaveConfig
  <2> QED
    BY <2>2, <2>3
<1>5. CASE LocalStep(p)
  <2>1. pc[p] # "idle" /\ tokens' = tokens
    BY <1>5 DEF LocalStep, Logout, Setup, ServerAdd, ServerUse, ServerRemove, SpaceUnset, Loaded, server
  <2>2. \A client : ClearSecret(MySecret(p), client)[RefreshToken] = 0
                    /\ ClearSecret(Empty, client)[RefreshToken] = 0
    BY DEF ClearSecret, RefreshToken
  <2>3. Empty[RefreshToken] = 0
    BY DEF Empty, RefreshToken
  <2>4. \E settings, secret :
          StartSave(p, "save", settings, secret) /\ secret[RefreshToken] \in {0, MySecret(p)[RefreshToken]}
    BY <1>5, <2>2, <2>3 DEF LocalStep, Logout, Setup, ServerAdd, ServerUse, ServerRemove, SpaceUnset
  <2> QED
    BY <2>1, <2>4 DEF Starting
<1>6. CASE BasicLogin(p) \/ SpaceUse(p) \/ ClearStaleSpace(p)
  <2>1. pc[p] # "idle" /\ tokens' = tokens
    BY <1>6 DEF BasicLogin, SpaceUse, ClearStaleSpace, Loaded, CanAct, server
  <2>2. <<command[p].account, LoginClient(p), 0, 0>>[RefreshToken] = 0
    BY DEF RefreshToken
  <2>3. \E settings, secret :
          StartSave(p, "save", settings, secret) /\ secret[RefreshToken] \in {0, MySecret(p)[RefreshToken]}
    BY <1>6, <2>2 DEF BasicLogin, SpaceUse, ClearStaleSpace
  <2> QED
    BY <2>1, <2>3 DEF Starting
<1>7. CASE OIDCLogin(p)
  <2>1. /\ pc[p] # "idle" /\ Issue(command[p].account)
        /\ StartSave(p, "save", SignedIn(p), <<0, LoginClient(p), NewToken, NewToken>>)
    BY <1>7 DEF OIDCLogin, Loaded
  <2>2. command[p].account \in Accounts
    <3>1. command[p] \in Commands /\ command[p].kind = "login"
      BY <1>7, <2>1 DEF OIDCLogin, Loaded, TypeInv, Commanded, Running1
    <3> QED
      BY <3>1 DEF Commands, Command, Range0
  <2>3. <<0, LoginClient(p), NewToken, NewToken>>[RefreshToken] = NewToken
    BY DEF RefreshToken
  <2> QED
    BY <2>1, <2>2, <2>3 DEF Starting
<1>8. CASE Refresh(p)
  <2> DEFINE old == MySecret(p)[RefreshToken]
             rotated == [MySecret(p) EXCEPT ![AccessToken] = NewToken, ![RefreshToken] = NewToken]
             kept == [MySecret(p) EXCEPT ![AccessToken] = NewToken]
  <2>1. /\ pc[p] # "idle" /\ old \in live /\ Issue(tokens[old])
        /\ StartSave(p, "refreshed", Mine(p), rotated) \/ StartSave(p, "refreshed", Mine(p), kept)
    BY <1>8 DEF Refresh, CanRefresh, IsRequest
  <2>2. MySecret(p) \in Secrets
    BY <2>1, LoadedType
  <2>3. rotated[RefreshToken] = NewToken /\ kept[RefreshToken] = old
    BY <2>2 DEF Secrets, Fields, AccessToken, RefreshToken
  <2>4. tokens[old] \in Accounts
    <3>1. tokens \in Seq(Accounts) /\ live \subseteq 1 .. Len(tokens)
      BY DEF TypeInv, TypeOK
    <3> HIDE DEF old
    <3> QED
      BY <2>1, <3>1
  <2> HIDE DEF rotated, kept
  <2> QED
    BY <2>1, <2>3, <2>4 DEF Starting
<1> QED
  BY <1>1, <1>2, <1>3, <1>4, <1>5, <1>6, <1>7, <1>8 DEF ProcessStep, RemoteStep, SaveStep

-----------------------------------------------------------------------------
(* Every profile has refresh tokens of its own *)

LEMMA HasIssued ==
  ASSUME TypeInv, NEW f \in Profiles, NEW t, Has(f, t)
  PROVE  t \in 0 .. Len(tokens)
  BY DEF TypeInv, SecretsKnown, KnownItems, Has

LEMMA MineHas ==
  ASSUME NEW p \in Processes PROVE Has(Profile(p), MySecret(p)[RefreshToken])
  BY DEF Has, MySecret

\* A step gives a profile no token of another one.
LEMMA HasStep ==
  ASSUME TypeInv, SaveInv, NEW p \in Processes, ProcessStep(p), NEW f \in Profiles, NEW t, Has(f, t)'
  PROVE  t = 0 \/ Has(f, t) \/ (t = Len(tokens) + 1 /\ f = Profile(p))
<1> USE DEF TypeInv, TypeOK
<1>1. CASE End(p) /\ keyring' = keyring
  <2>1. \A q \in Processes \ {p} : secrets'[q] = secrets[q]
    BY <1>1 DEF End
  <2>2. secrets'[p][f] = Empty
    BY <1>1 DEF End
  <2>3. Empty[RefreshToken] = 0
    BY DEF Empty, RefreshToken
  <2> QED
    BY <1>1, <2>1, <2>2, <2>3 DEF Has
<1>2. CASE Starting(p) /\ pc[p] # "idle"
  <2>1. PICK settings, secret, stage :
          /\ StartSave(p, stage, settings, secret)
          /\ \/ secret[RefreshToken] \in {0, MySecret(p)[RefreshToken]}
             \/ secret[RefreshToken] = NewToken
    BY <1>2 DEF Starting
  <2>2. Profile(p) \in Profiles
    BY <1>2, ProfileType
  <2>3. \A q \in Processes, g \in Profiles :
          secrets'[q][g] = IF q = p /\ g = Profile(p) THEN secret ELSE secrets[q][g]
    BY <2>1, <2>2 DEF StartSave
  <2>4. keyring' = keyring
    BY <2>1 DEF StartSave, disk
  <2>5. CASE keyring[f].items[RefreshToken] = t \/ \E q \in Processes : secrets[q][f][RefreshToken] = t
    BY <2>5 DEF Has
  <2>6. CASE f = Profile(p) /\ t = secret[RefreshToken]
    BY <2>1, <2>6, MineHas DEF NewToken
  <2> QED
    BY <2>3, <2>4, <2>5, <2>6 DEF Has
<1>3. CASE Quiet(p)
  BY <1>3 DEF Quiet, Has
<1>4. CASE Loading(p)
  <2>1. PICK g \in Profiles : keyring' = keyring /\ secrets' = [secrets EXCEPT ![p][g] = Stored(g)]
    BY <1>4 DEF Loading
  <2>2. \A q \in Processes, h \in Profiles :
          secrets'[q][h] = IF q = p /\ h = g THEN Stored(g) ELSE secrets[q][h]
    BY <2>1
  <2>3. Stored(f)[RefreshToken] \in {0, keyring[f].items[RefreshToken]}
    BY DEF Stored, Empty, RefreshToken
  <2> QED
    BY <2>1, <2>2, <2>3 DEF Has
<1>5. ASSUME NEW g \in Profiles, RemoveMarker(p, g) PROVE Has(f, t)
  <2>1. secrets' = secrets /\ keyring'[f].items = keyring[f].items
    BY <1>5 DEF RemoveMarker, memory
  <2> QED
    BY <2>1 DEF Has
<1>6. CASE WriteItem(p)
  <2> DEFINE g == writing[p]
             i == item[p]
  <2>1. g \in Profiles /\ i \in Fields
    BY <1>6 DEF WriteItem, SaveInv, Tidy, Fields
  <2>2. keyring' = [keyring EXCEPT ![g].items[i] = secrets[p][g][i]] /\ secrets' = secrets
    BY <1>6 DEF WriteItem, memory
  <2>3. keyring'[f].items = IF f = g THEN [keyring[f].items EXCEPT ![i] = secrets[p][g][i]] ELSE keyring[f].items
    <3>1. keyring \in [Profiles -> [marker : BOOLEAN, items : Secrets]]
      OBVIOUS
    <3>2. CASE f = g
      BY <2>1, <2>2, <3>1, <3>2
    <3>3. CASE f # g
      BY <2>1, <2>2, <3>1, <3>3
    <3> QED
      BY <3>2, <3>3
  <2>4. keyring[f].items \in [Fields -> Nat]
    BY DEF Secrets
  <2> HIDE DEF g, i
  <2>5. keyring'[f].items[RefreshToken] \in {keyring[f].items[RefreshToken], secrets[p][f][RefreshToken]}
    BY <2>3, <2>4 DEF RefreshToken, Fields
  <2> QED
    BY <2>2, <2>5 DEF Has
<1>7. CASE WriteMarker(p)
  <2>1. secrets' = secrets /\ keyring'[f].items = keyring[f].items
    BY <1>7 DEF WriteMarker, memory
  <2> QED
    BY <2>1 DEF Has
<1> QED
  BY <1>1, <1>2, <1>3, <1>4, <1>5, <1>6, <1>7, Shapes

LEMMA ApartStep ==
  ASSUME TypeInv, SaveInv, TokensApart, NEW p \in Processes, ProcessStep(p) PROVE TokensApart'
<1> SUFFICES ASSUME NEW f \in Profiles, NEW g \in Profiles, NEW t \in Nat \ {0}, Has(f, t)', Has(g, t)'
             PROVE  f = g
  BY DEF TokensApart
<1>1. Has(f, t) \/ (t = Len(tokens) + 1 /\ f = Profile(p))
  BY HasStep
<1>2. Has(g, t) \/ (t = Len(tokens) + 1 /\ g = Profile(p))
  BY HasStep
<1>3. CASE t = Len(tokens) + 1
  <2>1. Len(tokens) \in Nat
    BY DEF TypeInv, TypeOK
  <2>2. t \notin 0 .. Len(tokens)
    BY <1>3, <2>1
  <2> QED
    BY <1>1, <1>2, <2>2, HasIssued
<1>4. CASE t # Len(tokens) + 1
  BY <1>1, <1>2, <1>4 DEF TokensApart
<1> QED
  BY <1>3, <1>4

LEMMA ForgottenStep ==
  ASSUME TypeInv, Forgotten, NEW p \in Processes, ProcessStep(p) PROVE Forgotten'
<1> SUFFICES ASSUME NEW q \in Processes, pc'[q] = "idle", NEW f \in Profiles
             PROVE  secrets'[q][f] = Empty
  BY DEF Forgotten
<1>0. pc[q] = "idle" => secrets[q][f] = Empty
  BY DEF Forgotten
<1>1. CASE End(p)
  <2>1. q # p => secrets'[q] = secrets[q] /\ pc'[q] = pc[q]
    BY <1>1 DEF End, TypeInv, TypeOK
  <2>2. secrets'[p][f] = Empty
    BY <1>1 DEF End, TypeInv, TypeOK
  <2> QED
    BY <1>0, <2>1, <2>2
<1>2. CASE Starting(p) /\ pc[p] # "idle"
  <2>1. PICK settings, secret :
          StartSave(p, "save", settings, secret) \/ StartSave(p, "refreshed", settings, secret)
    BY <1>2 DEF Starting
  <2>2. q # p => secrets'[q] = secrets[q] /\ pc'[q] = pc[q]
    BY <2>1 DEF StartSave, TypeInv, TypeOK
  <2>3. pc'[p] # "idle"
    BY <2>1 DEF StartSave, TypeInv, TypeOK
  <2> QED
    BY <1>0, <2>2, <2>3
<1>3. CASE Quiet(p)
  BY <1>0, <1>3 DEF Quiet
<1>4. CASE Loading(p)
  <2>1. q # p => secrets'[q] = secrets[q]
    BY <1>4 DEF Loading, TypeInv, TypeOK
  <2>2. pc' = pc /\ pc[p] # "idle"
    BY <1>4 DEF Loading
  <2> QED
    BY <1>0, <2>1, <2>2
<1>5. CASE (\E g \in Profiles : RemoveMarker(p, g)) \/ WriteItem(p) \/ WriteMarker(p)
  BY <1>0, <1>5 DEF RemoveMarker, WriteItem, WriteMarker, memory
<1> QED
  BY <1>1, <1>2, <1>3, <1>4, <1>5, Shapes

-----------------------------------------------------------------------------
(* Steps that save nothing *)

\* A step matters to the process that takes it.
LEMMA OwnRight ==
  ASSUME SaveInv, NEW p \in Processes, pc[p] # "idle", overlapped' = overlapped,
         \A q \in Processes \ {p} : pc'[q] = pc[q],
         StoredLive', DiskMatches', LoneRight(p)'
  PROVE  Good'
<1>1. ASSUME NEW q \in Processes \ {p} PROVE ~Lone(q)'
  BY OthersNoted
<1>2. \A q \in Processes \ {p} : LoneRight(q)'
  BY <1>1 DEF LoneRight
<1> QED
  BY <1>2 DEF Good

LEMMA NotReplaced ==
  ASSUME SaveInv, NEW p \in Processes, Lone(p), NEW f, Replacing(f)
  PROVE  pc[p] = "refreshed" /\ Profile(p) = f
  BY LoneAlone DEF Replacing

LEMMA ReplacingStays ==
  ASSUME NEW p \in Processes, pc[p] # "refreshed",
         \A q \in Processes \ {p} : pc'[q] = pc[q] /\ command'[q] = command[q],
         NEW f, Replacing(f)
  PROVE  Replacing(f)'
  BY DEF Replacing, Profile

\* What is stored stays stored.
LEMMA StoredSame ==
  ASSUME StoredLive, keyring' = keyring, live' = live, NEW p \in Processes, pc[p] # "refreshed",
         \A q \in Processes \ {p} : pc'[q] = pc[q] /\ command'[q] = command[q]
  PROVE  StoredLive'
<1>1. \A f \in Profiles : Stored(f)' = Stored(f)
  BY DEF Stored
<1>2. \A f \in Profiles : Replacing(f) => Replacing(f)'
  BY ReplacingStays
<1> QED
  BY <1>1, <1>2 DEF StoredLive

LEMMA DiskSame ==
  ASSUME DiskMatches, UNCHANGED <<config, keyring, tokens>>, NEW p \in Processes, pc[p] \notin Saving,
         \A q \in Processes \ {p} : pc'[q] = pc[q]
  PROVE  DiskMatches'
<1>1. NobodySaves' => NobodySaves
  BY DEF NobodySaves
<1> QED
  BY <1>1 DEF DiskMatches

LEMMA EndRight ==
  ASSUME TypeInv, SaveInv, Good, NEW p \in Processes, pc[p] \notin Saving, pc[p] # "idle", End(p),
         UNCHANGED <<disk, server, overlapped>>
  PROVE  Good'
<1>1. \A q \in Processes \ {p} : pc'[q] = pc[q] /\ command'[q] = command[q]
  BY DEF End, TypeInv, TypeOK
<1>2. pc'[p] = "idle"
  BY DEF End, TypeInv, TypeOK
<1>3. LoneRight(p)'
  BY <1>2 DEF LoneRight, Lone
<1>4. pc[p] # "refreshed"
  BY DEF Saving
<1>5. StoredLive'
  BY <1>1, <1>4, StoredSame DEF Good, disk, server
<1>6. DiskMatches'
  BY <1>1, DiskSame DEF Good, disk, server
<1> QED
  BY <1>1, <1>3, <1>5, <1>6, OwnRight

LEMMA BeginRight ==
  ASSUME TypeInv, SaveInv, Forgotten, Good, NEW p \in Processes, Begin(p)
  PROVE  Good'
<1>1. /\ \A q \in Processes \ {p} : pc'[q] = pc[q] /\ command'[q] = command[q]
      /\ pc'[p] = "load" /\ pc[p] = "idle"
  BY DEF Begin, TypeInv, TypeOK
<1>2. /\ UNCHANGED <<disk, server, secrets>> /\ store'[p] = config
      /\ overlapped' = IF Running = {} THEN overlapped \ {p} ELSE overlapped \cup Running \cup {p}
  BY DEF Begin, TypeInv, TypeOK
<1>3. StoredLive'
  <2>1. pc[p] # "refreshed"
    BY <1>1
  <2> QED
    BY <1>1, <1>2, <2>1, StoredSame DEF Good, disk, server
<1>4. DiskMatches'
  <2>1. pc[p] \notin Saving
    BY <1>1 DEF Saving
  <2> QED
    BY <1>1, <1>2, <2>1, DiskSame DEF Good, disk, server
<1>5. ASSUME NEW q \in Processes \ {p} PROVE LoneRight(q)'
  <2>1. pc[q] # "idle" => q \in Running
    BY DEF Running
  <2>2. ~Lone(q)'
    BY <1>1, <1>2, <2>1 DEF Lone
  <2> QED
    BY <2>2 DEF LoneRight
<1>6. LoneRight(p)'
  <2>1. \A f \in Profiles : secrets'[p][f] = Empty
    BY <1>1, <1>2 DEF Forgotten
  <2>2. Empty[RefreshToken] = 0
    BY DEF Empty, RefreshToken
  <2>3. MemoryLive(p)'
    BY <2>1, <2>2 DEF MemoryLive
  <2>4. \A settings : Matching(settings, Empty, tokens')
    BY ClearBelongs DEF Matching
  <2>5. MemoryMatches(p)'
    BY <2>1, <2>4 DEF MemoryMatches
  <2>6. MemoryFresh(p)' /\ NothingElse(p)'
    BY <1>1, <1>2 DEF MemoryFresh, NothingElse, Saving, disk
  <2> QED
    BY <2>3, <2>5, <2>6 DEF LoneRight
<1> QED
  BY <1>3, <1>4, <1>5, <1>6 DEF Good

\* What is loaded is what matches the configuration that was read.
LEMMA LoadRight ==
  ASSUME TypeInv, SaveInv, Good, NEW p \in Processes, NEW f \in Profiles, LoadSecret(p, f)
  PROVE  Good'
<1>1. /\ pc[p] = "load" /\ secrets' = [secrets EXCEPT ![p][f] = Stored(f)]
      /\ UNCHANGED <<disk, server, store, writing, pc, command, overlapped>>
  BY DEF LoadSecret
<1>2. StoredLive'
  BY <1>1, StoredSame DEF Good, disk, server
<1>3. DiskMatches'
  BY <1>1, DiskSame DEF Good, disk, server, Saving
<1>4. ASSUME Lone(p) PROVE MemoryLive(p)' /\ MemoryMatches(p)'
  <2>0. \A g \in Profiles : secrets'[p][g] = IF g = f THEN Stored(f) ELSE secrets[p][g]
    BY <1>1 DEF TypeInv, TypeOK
  <2>1. MemoryLive(p) /\ MemoryMatches(p) /\ MemoryFresh(p)
    BY <1>4 DEF Good, LoneRight
  <2>2. Stored(f)[RefreshToken] \in live \cup {0}
    BY <1>1, <1>4, NotReplaced DEF Good, StoredLive
  <2>3. Matching(store[p][f], Stored(f), tokens)
    <3>1. NobodySaves
      BY <1>1, <1>4, LoneAlone DEF NobodySaves, Saving
    <3>2. Matching(store[p][f], keyring[f].items, tokens) /\ (~store[p][f].known => ~keyring[f].marker)
      BY <1>1, <2>1, <3>1 DEF Good, DiskMatches, MemoryFresh
    <3>3. Matching(store[p][f], Empty, tokens)
      BY ClearBelongs DEF Matching
    <3> QED
      BY <3>2, <3>3 DEF Stored
  <2>4. live' = live /\ tokens' = tokens /\ store' = store
    BY <1>1 DEF server
  <2>5. MemoryLive(p)'
    BY <2>0, <2>1, <2>2, <2>4 DEF MemoryLive
  <2>6. MemoryMatches(p)'
    BY <2>0, <2>1, <2>3, <2>4 DEF MemoryMatches
  <2> QED
    BY <2>5, <2>6
<1>5. LoneRight(p)'
  <2> SUFFICES ASSUME Lone(p)' PROVE MemoryFresh(p)' /\ NothingElse(p)'
    BY <1>1, <1>4 DEF LoneRight, Lone
  <2>1. MemoryFresh(p)
    BY <1>1 DEF Good, LoneRight, Lone
  <2> QED
    BY <1>1, <2>1 DEF MemoryFresh, NothingElse, Saving, disk
<1> QED
  BY <1>1, <1>2, <1>3, <1>5, OwnRight

LEMMA ConnectRight ==
  ASSUME TypeInv, SaveInv, Good, NEW p \in Processes, Connect(p)
  PROVE  Good'
<1>1. /\ pc[p] = "load" /\ pc'[p] = "act" /\ \A q \in Processes \ {p} : pc'[q] = pc[q]
      /\ UNCHANGED <<disk, server, store, secrets, command, overlapped>>
  BY DEF Connect, IsRequest, TypeInv, TypeOK, memory
<1>2. StoredLive'
  <2>1. \A q \in Processes \ {p} : command'[q] = command[q]
    BY <1>1
  <2> QED
    BY <1>1, <2>1, StoredSame DEF Good, disk, server
<1>3. DiskMatches'
  BY <1>1, DiskSame DEF Good, disk, server, Saving
<1>4. LoneRight(p)'
  <2> SUFFICES ASSUME Lone(p)' PROVE MemoryLive(p)' /\ MemoryMatches(p)' /\ MemoryFresh(p)' /\ NothingElse(p)'
    BY DEF LoneRight
  <2>1. MemoryLive(p) /\ MemoryMatches(p) /\ MemoryFresh(p)
    BY <1>1 DEF Good, LoneRight, Lone
  <2>2. MemoryLive(p)' /\ MemoryMatches(p)'
    BY <1>1, <2>1 DEF MemoryLive, MemoryMatches, server
  <2>3. MemoryFresh(p)' /\ NothingElse(p)'
    BY <1>1, <2>1 DEF MemoryFresh, NothingElse, Saving, disk
  <2> QED
    BY <2>2, <2>3
<1>5. pc[p] # "idle" /\ overlapped' = overlapped
  BY <1>1
<1> QED
  BY <1>1, <1>2, <1>3, <1>4, <1>5, OwnRight

-----------------------------------------------------------------------------
(* Steps that begin to save                                                 *)

\* What the server does meanwhile: it issues tokens, and may replace the one of the profile.
Serving(p, stage) ==
  /\ Len(tokens) <= Len(tokens') /\ \A t \in 1 .. Len(tokens) : tokens'[t] = tokens[t]
  /\ \A t \in live : t \notin live' => t = MySecret(p)[RefreshToken] /\ stage = "refreshed"

\* The tokens that are not replaced stay live.
LEMMA OthersLive ==
  ASSUME TypeInv, TokensApart, NEW p \in Processes, Profile(p) \in Profiles, NEW stage, Serving(p, stage),
         NEW f \in Profiles, f # Profile(p), NEW t \in live \cup {0}, Has(f, t)
  PROVE  t \in live' \cup {0}
<1>1. CASE t \in live /\ t \notin live'
  <2>1. t = MySecret(p)[RefreshToken]
    BY <1>1 DEF Serving
  <2>2. t \in Nat \ {0}
    BY <1>1 DEF TypeInv, TypeOK
  <2>3. Has(Profile(p), t)
    BY <2>1, MineHas
  <2> QED
    BY <2>2, <2>3 DEF TokensApart
<1> QED
  BY <1>1

LEMMA StartRight ==
  ASSUME TypeInv, SaveInv, TokensApart, Good, NEW p \in Processes, pc[p] \in {"load", "act"},
         NEW stage \in Saving, NEW settings \in Settings, NEW secret,
         StartSave(p, stage, settings, secret), Serving(p, stage),
         Lone(p) => secret[RefreshToken] \in live' \cup {0} /\ Matching(settings, secret, tokens')
  PROVE  Good'
<1>0. Profile(p) \in Profiles /\ pc[p] # "idle" /\ pc[p] \notin Saving
  BY ProfileType DEF TypeInv, Saving
<1>1. /\ \A q \in Processes \ {p} : pc'[q] = pc[q]
      /\ pc'[p] = stage /\ command' = command /\ keyring' = keyring /\ config' = config
      /\ overlapped' = overlapped /\ writing' = writing
      /\ todo'[p] = Known(store[p]) \cup {Profile(p)}
  BY DEF StartSave, TypeInv, TypeOK, disk
<1>2. /\ \A g \in Profiles : store'[p][g] = IF g = Profile(p) THEN settings ELSE store[p][g]
      /\ \A g \in Profiles : secrets'[p][g] = IF g = Profile(p) THEN secret ELSE secrets[p][g]
  BY <1>0 DEF StartSave, TypeInv, TypeOK
<1>3. DiskMatches'
  BY <1>1 DEF DiskMatches, NobodySaves
<1>4. StoredLive'
  <2> SUFFICES ASSUME NEW g \in Profiles, ~Replacing(g)' PROVE Stored(g)'[RefreshToken] \in live' \cup {0}
    BY DEF StoredLive
  <2> DEFINE t == Stored(g)[RefreshToken]
  <2>1. Stored(g)' = Stored(g)
    BY <1>1 DEF Stored
  <2>2. ~Replacing(g)
    BY <1>0, <1>1, ReplacingStays DEF Saving
  <2>3. t \in live \cup {0}
    BY <2>2 DEF Good, StoredLive
  <2>4. t # 0 => Has(g, t)
    BY DEF Stored, Has, Empty, RefreshToken
  <2> HIDE DEF t
  <2>5. ASSUME t \in live, t \notin live' PROVE FALSE
    <3>1. stage = "refreshed"
      BY <2>5 DEF Serving
    <3>2. g # Profile(p)
      BY <1>1, <3>1 DEF Replacing, Profile
    <3>3. t # 0
      BY <2>5 DEF TypeInv, TypeOK
    <3> QED
      BY <1>0, <2>3, <2>4, <2>5, <3>2, <3>3, OthersLive
  <2>6. t \in live' \cup {0}
    BY <2>3, <2>5
  <2> QED
    BY <2>1, <2>6 DEF t
<1>5. LoneRight(p)'
  <2> SUFFICES ASSUME Lone(p)' PROVE MemoryLive(p)' /\ MemoryMatches(p)' /\ MemoryFresh(p)' /\ NothingElse(p)'
    BY DEF LoneRight
  <2>1. Lone(p)
    BY <1>0, <1>1 DEF Lone
  <2>2. MemoryLive(p) /\ MemoryMatches(p) /\ store[p] = config
    BY <2>1 DEF Good, LoneRight, MemoryFresh
  <2>3. secret[RefreshToken] \in live' \cup {0} /\ Matching(settings, secret, tokens')
    BY <2>1
  <2>4. MemoryLive(p)'
    <3>1. ASSUME NEW g \in Profiles, g # Profile(p)
          PROVE  secrets[p][g][RefreshToken] \in live' \cup {0}
      <4>1. secrets[p][g][RefreshToken] \in live \cup {0} /\ Has(g, secrets[p][g][RefreshToken])
        BY <2>2 DEF MemoryLive, Has
      <4> QED
        BY <1>0, <3>1, <4>1, OthersLive
    <3> QED
      BY <1>2, <2>3, <3>1 DEF MemoryLive
  <2>5. MemoryMatches(p)'
    <3>1. ASSUME NEW g \in Profiles PROVE Matching(store[p][g], secrets[p][g], tokens')
      <4>1. KnownItems(secrets[p][g], tokens) /\ Len(tokens) \in Nat
        BY DEF TypeInv, TypeOK, SecretsKnown
      <4>2. Matching(store[p][g], secrets[p][g], tokens)
        BY <2>2 DEF MemoryMatches
      <4>3. \A t \in 1 .. Len(tokens) : tokens'[t] = tokens[t]
        BY DEF Serving
      <4> QED
        BY <4>1, <4>2, <4>3, MatchingLonger
    <3> QED
      BY <1>2, <2>3, <3>1 DEF MemoryMatches
  <2>6. MemoryFresh(p)'
    BY <1>1 DEF MemoryFresh, Saving
  <2>7. NothingElse(p)'
    <3> SUFFICES ASSUME NEW g \in Profiles, ~store'[p][g].known, g # Profile(p)
                 PROVE  /\ g \notin todo'[p] /\ g # writing'[p]
                        /\ ~keyring'[g].marker /\ keyring'[g].items = Empty
      BY <1>1 DEF NothingElse, Profile
    <3>1. ~config[g].known /\ ~store[p][g].known
      BY <1>2, <2>2
    <3>2. g \notin todo'[p]
      BY <1>1, <3>1 DEF Known
    <3>3. g # writing'[p]
      BY <1>0, <1>1, NotWriting, AccountsAssumption
    <3>4. NobodySaves
      BY <1>0, <2>1, LoneAlone DEF NobodySaves, Saving
    <3>5. ~keyring[g].marker /\ keyring[g].items = Empty
      BY <3>1, <3>4 DEF Good, DiskMatches, Matching
    <3> QED
      BY <1>1, <3>2, <3>3, <3>5
  <2> QED
    BY <2>4, <2>5, <2>6, <2>7
<1> QED
  BY <1>0, <1>1, <1>3, <1>4, <1>5, OwnRight

\* While the server does nothing.
LEMMA NothingServed ==
  ASSUME TypeInv, NEW p, NEW stage, UNCHANGED server PROVE Serving(p, stage)
  BY DEF Serving, server, TypeInv, TypeOK

\* What the process has in memory of its profile matches.
LEMMA MineMatches ==
  ASSUME TypeInv, Good, NEW p \in Processes, Lone(p)
  PROVE  /\ Matching(Mine(p), MySecret(p), tokens)
         /\ MySecret(p)[RefreshToken] \in live \cup {0}
<1>1. Profile(p) \in Profiles
  BY ProfileType DEF TypeInv, Lone
<1>2. MemoryMatches(p) /\ MemoryLive(p)
  BY DEF Good, LoneRight
<1> QED
  BY <1>1, <1>2 DEF MemoryMatches, MemoryLive, Mine, MySecret

\* Commands that need no server keep the identity, or forget it with its secrets.
LEMMA LocalRight ==
  ASSUME TypeInv, SaveInv, TokensApart, Good, NEW p \in Processes, LocalStep(p)
  PROVE  Good'
<1>1. pc[p] = "load" /\ pc[p] # "idle" /\ UNCHANGED server
  BY DEF LocalStep, Logout, Setup, ServerAdd, ServerUse, ServerRemove, SpaceUnset, Loaded
<1>2. Serving(p, "save") /\ "save" \in Saving /\ tokens' = tokens /\ live' = live
  BY <1>1, NothingServed DEF Saving, server
<1>3. Mine(p) \in Settings
  BY <1>1, LoadedType
<1>4. \A settings, client :
        /\ Matching(settings, Empty, tokens) /\ Empty[RefreshToken] = 0
        /\ settings.known => Matching(settings, <<0, client, 0, 0>>, tokens)
        /\ <<0, client, 0, 0>>[RefreshToken] = 0
  BY ClearBelongs DEF Matching, Empty, RefreshToken
<1>5. CASE Logout(p) \/ Setup(p)
  <2>1. PICK client : StartSave(p, "save", ClearAccount(Mine(p)), ClearSecret(MySecret(p), client))
    BY <1>5 DEF Logout, Setup
  <2>2. ClearAccount(Mine(p)) \in Settings /\ ClearAccount(Mine(p)).known
    BY <1>3, <1>5 DEF Logout, Setup, ClearAccount, Settings, Range0
  <2>3. ClearSecret(MySecret(p), client) = <<0, client, 0, 0>>
    BY DEF ClearSecret
  <2> DEFINE settings == ClearAccount(Mine(p))
             secret == ClearSecret(MySecret(p), client)
  <2>4. secret[RefreshToken] \in live' \cup {0} /\ Matching(settings, secret, tokens')
    BY <1>2, <1>4, <2>2, <2>3
  <2> HIDE DEF settings, secret
  <2> QED
    BY <1>1, <1>2, <2>1, <2>2, <2>4, StartRight DEF settings, secret
<1>6. CASE ServerAdd(p)
  <2> DEFINE secret == ClearSecret(Empty, command[p].secret)
  <2>1. StartSave(p, "save", NewSettings, secret)
    BY <1>6 DEF ServerAdd
  <2>2. secret = <<0, command[p].secret, 0, 0>> /\ NewSettings.known
    BY DEF ClearSecret, NewSettings, NoSettings
  <2>3. secret[RefreshToken] \in live' \cup {0} /\ Matching(NewSettings, secret, tokens')
    BY <1>2, <1>4, <2>2
  <2> HIDE DEF secret
  <2> QED
    BY <1>1, <1>2, <2>1, <2>3, SettingsType, StartRight
<1>7. CASE ServerUse(p)
  <2>1. StartSave(p, "save", Mine(p), MySecret(p))
    BY <1>7 DEF ServerUse
  <2> QED
    BY <1>1, <1>2, <1>3, <2>1, MineMatches, StartRight
<1>8. CASE ServerRemove(p)
  <2>1. StartSave(p, "save", NoSettings, Empty)
    BY <1>8 DEF ServerRemove
  <2>2. Empty[RefreshToken] \in live' \cup {0} /\ Matching(NoSettings, Empty, tokens')
    BY <1>2, <1>4
  <2> QED
    BY <1>1, <1>2, <2>1, <2>2, SettingsType, StartRight
<1>9. CASE SpaceUnset(p)
  <2> DEFINE settings == [Mine(p) EXCEPT !.space = 0, !.owner = 0]
  <2>1. StartSave(p, "save", settings, MySecret(p))
    BY <1>9 DEF SpaceUnset
  <2>2. settings \in Settings /\ settings.known = Mine(p).known /\ settings.account = Mine(p).account
    BY <1>3 DEF Settings, Range0
  <2> HIDE DEF settings
  <2>3. Matching(Mine(p), MySecret(p), tokens) => Matching(settings, MySecret(p), tokens)
    BY <2>2 DEF Matching
  <2> QED
    BY <1>1, <1>2, <2>1, <2>2, <2>3, MineMatches, StartRight
<1> QED
  BY <1>5, <1>6, <1>7, <1>8, <1>9 DEF LocalStep

LEMMA Issued ==
  ASSUME TypeInv, NEW a \in Accounts, Issue(a)
  PROVE  /\ Len(tokens) \in Nat /\ Len(tokens') = Len(tokens) + 1 /\ NewToken = Len(tokens) + 1
         /\ \A t \in 1 .. Len(tokens) : tokens'[t] = tokens[t]
         /\ tokens'[NewToken] = a
<1>1. tokens \in Seq(Accounts) /\ Len(tokens) \in Nat
  BY DEF TypeInv, TypeOK
<1> QED
  BY <1>1 DEF Issue, NewToken

\* The account a command signs in.
LEMMA SignedInMatches ==
  ASSUME TypeInv, NEW p \in Processes, pc[p] # "idle", LoginBase(p).known
  PROVE  SignedIn(p) \in Settings /\ SignedIn(p).known /\ SignedIn(p).account = command[p].account
<1> DEFINE base == [LoginBase(p) EXCEPT !.account = command[p].account]
<1>1. LoginBase(p) \in Settings /\ command[p].account \in Range0(Accounts)
  BY LoadedType, SettingsType DEF LoginBase
<1>2. base \in Settings /\ base.known /\ base.account = command[p].account
  BY <1>1 DEF Settings
<1> HIDE DEF base
<1>3. LET settings == ClearSpaceAfterIdentityChange(base)
      IN  settings \in Settings /\ settings.known /\ settings.account = base.account
  BY <1>2 DEF ClearSpaceAfterIdentityChange, Settings, Range0
<1> QED
  BY <1>2, <1>3 DEF SignedIn, base

\* A login brings all there is of its account, and nothing of another one.
LEMMA LoginRight ==
  ASSUME TypeInv, SaveInv, TokensApart, Good, NEW p \in Processes, BasicLogin(p) \/ OIDCLogin(p)
  PROVE  Good'
<1>1. pc[p] = "load" /\ pc[p] # "idle" /\ LoginBase(p).known /\ command[p].kind = "login"
  BY DEF BasicLogin, OIDCLogin, Loaded
<1>2. SignedIn(p) \in Settings /\ SignedIn(p).known /\ SignedIn(p).account = command[p].account
  BY <1>1, SignedInMatches
<1>3. "save" \in Saving
  BY DEF Saving
<1>4. command[p].account \in Accounts /\ command[p].account # 0
  <2>1. command[p] \in Commands
    BY <1>1 DEF TypeInv, Commanded, Running1
  <2>2. command[p].account # 0 /\ command[p].account \in Range0(Accounts)
    BY <1>1, <2>1 DEF Commands, Command
  <2> QED
    BY <2>2 DEF Range0
<1>5. CASE BasicLogin(p)
  <2> DEFINE secret == <<command[p].account, LoginClient(p), 0, 0>>
  <2>1. StartSave(p, "save", SignedIn(p), secret) /\ UNCHANGED server /\ command[p].account \in BasicAccounts
    BY <1>5 DEF BasicLogin
  <2>2. Serving(p, "save")
    BY <2>1, NothingServed
  <2>3. secret[RefreshToken] = 0
    BY DEF RefreshToken
  <2>4. Belongs(secret, command[p].account, tokens')
    BY <2>1 DEF Belongs, Password, AccessToken, RefreshToken
  <2>5. Matching(SignedIn(p), secret, tokens')
    BY <1>2, <2>4 DEF Matching
  <2> HIDE DEF secret
  <2> QED
    BY <1>1, <1>2, <1>3, <2>1, <2>2, <2>3, <2>5, StartRight
<1>6. CASE OIDCLogin(p)
  <2> DEFINE secret == <<0, LoginClient(p), NewToken, NewToken>>
  <2>1. /\ StartSave(p, "save", SignedIn(p), secret) /\ command[p].account \notin BasicAccounts
        /\ Issue(command[p].account) /\ live' = live \cup {NewToken}
    BY <1>6 DEF OIDCLogin
  <2>2. /\ Len(tokens) \in Nat /\ Len(tokens') = Len(tokens) + 1
        /\ \A t \in 1 .. Len(tokens) : tokens'[t] = tokens[t]
        /\ tokens'[NewToken] = command[p].account
    BY <1>4, <2>1, Issued
  <2>3. Serving(p, "save")
    BY <2>1, <2>2 DEF Serving
  <2>4. secret[RefreshToken] \in live'
    BY <2>1 DEF RefreshToken
  <2>5. Belongs(secret, command[p].account, tokens')
    BY <1>4, <2>1, <2>2 DEF Belongs, Password, AccessToken, RefreshToken
  <2>6. Matching(SignedIn(p), secret, tokens')
    BY <1>2, <2>5 DEF Matching
  <2> HIDE DEF secret
  <2> QED
    BY <1>1, <1>2, <1>3, <2>1, <2>3, <2>4, <2>6, StartRight
<1> QED
  BY <1>5, <1>6

\* The tokens of an answer are those of the account that asked.
LEMMA RefreshRight ==
  ASSUME TypeInv, SaveInv, TokensApart, Good, NEW p \in Processes, Refresh(p)
  PROVE  Good'
<1> DEFINE old == MySecret(p)[RefreshToken]
           rotated == [MySecret(p) EXCEPT ![AccessToken] = NewToken, ![RefreshToken] = NewToken]
           kept == [MySecret(p) EXCEPT ![AccessToken] = NewToken]
<1>1. /\ pc[p] = "load" /\ pc[p] # "idle" /\ old \in live /\ old # 0 /\ Issue(tokens[old])
      /\ ~UsesPassword(p) /\ Mine(p).known
      /\ \/ live' = (live \ {old}) \cup {NewToken} /\ StartSave(p, "refreshed", Mine(p), rotated)
         \/ live' = live /\ StartSave(p, "refreshed", Mine(p), kept)
  BY DEF Refresh, CanRefresh, IsRequest
<1>2. Mine(p) \in Settings /\ MySecret(p) \in Secrets /\ "refreshed" \in Saving
      /\ KnownItems(MySecret(p), tokens)
  BY <1>1, LoadedType DEF Saving
<1>3. old \in 1 .. Len(tokens) /\ tokens[old] \in Accounts
  <2>1. tokens \in Seq(Accounts) /\ live \subseteq 1 .. Len(tokens)
    BY DEF TypeInv, TypeOK
  <2> HIDE DEF old
  <2> QED
    BY <1>1, <2>1
<1>4. /\ Len(tokens) \in Nat /\ Len(tokens') = Len(tokens) + 1
      /\ \A t \in 1 .. Len(tokens) : tokens'[t] = tokens[t]
      /\ tokens'[NewToken] = tokens[old]
  BY <1>1, <1>3, Issued
<1>5. Serving(p, "refreshed")
  BY <1>1, <1>4 DEF Serving
<1>6. /\ rotated[Password] = MySecret(p)[Password] /\ kept[Password] = MySecret(p)[Password]
      /\ rotated[AccessToken] = NewToken /\ kept[AccessToken] = NewToken
      /\ rotated[RefreshToken] = NewToken /\ kept[RefreshToken] = old
  BY <1>2 DEF Secrets, Fields, Password, AccessToken, RefreshToken
<1>7. ASSUME Lone(p) PROVE Matching(Mine(p), rotated, tokens') /\ Matching(Mine(p), kept, tokens')
  <2> DEFINE account == Mine(p).account
  <2>1. Belongs(MySecret(p), account, tokens)
    BY <1>1, <1>7, MineMatches DEF Matching
  <2>2. /\ MySecret(p)[Password] \in IF account \in BasicAccounts THEN {0, account} ELSE {0}
        /\ account # 0 /\ account \notin BasicAccounts /\ tokens[old] = account
    BY <1>1, <2>1 DEF Belongs
  <2>3. tokens'[old] = account /\ tokens'[NewToken] = account
    BY <1>3, <1>4, <2>2
  <2> HIDE DEF account, rotated, kept, old
  <2>4. Belongs(rotated, account, tokens')
    BY <1>6, <2>2, <2>3 DEF Belongs
  <2>5. Belongs(kept, account, tokens')
    BY <1>6, <2>2, <2>3 DEF Belongs
  <2> QED
    BY <1>1, <2>4, <2>5 DEF Matching, account
<1>8. CASE live' = (live \ {old}) \cup {NewToken} /\ StartSave(p, "refreshed", Mine(p), rotated)
  <2>1. rotated[RefreshToken] \in live'
    BY <1>6, <1>8
  <2> HIDE DEF rotated, kept, old
  <2> QED
    BY <1>1, <1>2, <1>5, <1>7, <1>8, <2>1, StartRight
<1>9. CASE live' = live /\ StartSave(p, "refreshed", Mine(p), kept)
  <2>1. kept[RefreshToken] \in live'
    BY <1>1, <1>6, <1>9
  <2> HIDE DEF rotated, kept, old
  <2> QED
    BY <1>1, <1>2, <1>5, <1>7, <1>9, <2>1, StartRight
<1> QED
  BY <1>1, <1>8, <1>9

\* The other commands that talk to the server keep the identity and its secrets.
LEMMA RemoteRight ==
  ASSUME TypeInv, SaveInv, TokensApart, Good, NEW p \in Processes, RemoteStep(p), Unspoiled'
  PROVE  Good'
<1>1. CASE NotAuthenticated(p) \/ RefreshRejected(p) \/ Answered(p)
  <2>1. End(p) /\ UNCHANGED <<disk, server, overlapped>> /\ pc[p] \in {"load", "act"}
    BY <1>1 DEF NotAuthenticated, RefreshRejected, Answered, IsRequest, CanRefresh, CanAct
  <2> QED
    BY <2>1, EndRight DEF Saving
<1>2. CASE RefreshLost(p)
  BY <1>2 DEF RefreshLost, Unspoiled
<1>3. CASE SpaceUse(p) \/ ClearStaleSpace(p)
  <2>1. pc[p] = "act" /\ UNCHANGED server
    BY <1>3 DEF SpaceUse, ClearStaleSpace, CanAct
  <2>2. Serving(p, "save") /\ "save" \in Saving /\ tokens' = tokens /\ live' = live
    BY <2>1, NothingServed DEF Saving, server
  <2>3. Mine(p) \in Settings
    BY <2>1, LoadedType
  <2>4. ActsAs(p) \in Range0(Accounts)
    BY <2>1, ActsAsType
  <2>5. PICK space \in Range0(Accounts), owner \in Range0(Accounts) :
          StartSave(p, "save", [Mine(p) EXCEPT !.space = space, !.owner = owner], MySecret(p))
    BY <1>3, <2>3, <2>4 DEF SpaceUse, ClearStaleSpace, Settings, Range0
  <2> DEFINE settings == [Mine(p) EXCEPT !.space = space, !.owner = owner]
  <2>6. settings \in Settings /\ settings.known = Mine(p).known /\ settings.account = Mine(p).account
    BY <2>3 DEF Settings
  <2> HIDE DEF settings
  <2>7. Matching(Mine(p), MySecret(p), tokens) => Matching(settings, MySecret(p), tokens)
    BY <2>6 DEF Matching
  <2>8. pc[p] # "idle"
    BY <2>1
  <2>9. Lone(p) => MySecret(p)[RefreshToken] \in live' \cup {0} /\ Matching(settings, MySecret(p), tokens')
    BY <2>2, <2>7, <2>8, MineMatches
  <2> QED
    BY <2>1, <2>2, <2>5, <2>6, <2>9, StartRight DEF settings
<1> QED
  BY <1>1, <1>2, <1>3, LoginRight, RefreshRight, ConnectRight DEF RemoteStep

-----------------------------------------------------------------------------
(* Steps of a save                                                          *)

\* Whoever writes and spoils nothing runs alone.
LEMMA WriterLone ==
  ASSUME NEW p \in Processes, SaveStep(p), "raced" \notin spoiled'
  PROVE  Lone(p) /\ pc[p] \in Saving
  BY DEF SaveStep, RemoveMarker, WriteItem, WriteMarker, SaveConfig, Saved, NoteRace, Lone, Saving

LEMMA RacedSpoils == Unspoiled => "raced" \notin spoiled
  BY DEF Unspoiled

\* Until the configuration is replaced, only the keyring matters.
LEMMA WriteRight ==
  ASSUME SaveInv, Good, NEW p \in Processes, Lone(p), pc[p] \in Saving,
         UNCHANGED <<config, server, memory, pc, command, overlapped>>,
         StoredLive', NothingElse(p)'
  PROVE  Good'
<1>1. DiskMatches'
  BY DEF DiskMatches, NobodySaves
<1>2. MemoryLive(p) /\ MemoryMatches(p)
  BY DEF Good, LoneRight
<1>3. MemoryLive(p)' /\ MemoryMatches(p)'
  BY <1>2 DEF MemoryLive, MemoryMatches, server, memory
<1>4. MemoryFresh(p)'
  BY DEF MemoryFresh, Saving
<1>5. LoneRight(p)'
  BY <1>3, <1>4 DEF LoneRight
<1>6. pc[p] # "idle"
  BY DEF Lone
<1> QED
  BY <1>1, <1>5, <1>6, OwnRight

\* The keyring of one profile changes, and what it stores is good.
LEMMA OneStored ==
  ASSUME StoredLive, live' = live, pc' = pc, command' = command, NEW f \in Profiles,
         \A g \in Profiles \ {f} : keyring'[g] = keyring[g],
         Stored(f)'[RefreshToken] \in live \cup {0}
  PROVE  StoredLive'
<1> SUFFICES ASSUME NEW g \in Profiles PROVE Stored(g)'[RefreshToken] \in live' \cup {0} \/ Replacing(g)'
  BY DEF StoredLive
<1>1. CASE g = f
  BY <1>1
<1>2. CASE g # f
  <2>1. Stored(g)' = Stored(g)
    BY <1>2 DEF Stored
  <2>2. Replacing(g) => Replacing(g)'
    BY DEF Replacing, Profile
  <2> QED
    BY <2>1, <2>2 DEF StoredLive
<1> QED
  BY <1>1, <1>2

LEMMA EmptyLive == Empty[RefreshToken] = 0
  BY DEF Empty, RefreshToken

LEMMA WritingRight ==
  ASSUME TypeInv, SaveInv, Good, NEW p \in Processes, "raced" \notin spoiled, "raced" \notin spoiled',
         (\E f \in Profiles : RemoveMarker(p, f)) \/ WriteItem(p) \/ WriteMarker(p)
  PROVE  Good'
<1>1. Lone(p) /\ pc[p] \in Saving
  BY WriterLone DEF SaveStep
<1>2. UNCHANGED <<config, server, memory, pc, command, overlapped>>
  BY DEF RemoveMarker, WriteItem, WriteMarker
<1>3. NothingElse(p)
  BY <1>1 DEF Good, LoneRight
<1>4. Midway
  BY DEF SaveInv
<1>5. ASSUME NEW f \in Profiles, RemoveMarker(p, f) PROVE Good'
  <2>1. /\ f \in todo[p] /\ todo'[p] = todo[p] \ {f} /\ writing'[p] = f
        /\ ~keyring'[f].marker /\ \A g \in Profiles \ {f} : keyring'[g] = keyring[g]
    BY <1>5 DEF RemoveMarker, TypeInv, TypeOK
  <2>2. StoredLive'
    <3>1. Stored(f)'[RefreshToken] = 0
      BY <2>1, EmptyLive DEF Stored
    <3> QED
      BY <1>2, <2>1, <3>1, OneStored DEF Good, server
  <2>3. NothingElse(p)'
    BY <1>1, <1>2, <1>3, <2>1 DEF NothingElse, Profile, memory
  <2> QED
    BY <1>1, <1>2, <2>2, <2>3, WriteRight
<1>6. CASE WriteItem(p)
  <2>0. PICK f \in Profiles, i \in Fields : f = writing[p] /\ i = item[p]
    BY <1>6 DEF WriteItem, SaveInv, Tidy, TypeInv, TypeOK, Fields
  <2>1. keyring' = [keyring EXCEPT ![f].items[i] = secrets[p][f][i]] /\ writing' = writing /\ todo' = todo
    BY <1>6, <2>0 DEF WriteItem
  <2>2. ~keyring[f].marker
    BY <1>4, <2>0 DEF Midway
  <2>3. /\ keyring'[f].marker = keyring[f].marker
        /\ \A g \in Profiles \ {f} : keyring'[g] = keyring[g]
    BY <2>0, <2>1 DEF TypeInv, TypeOK
  <2>4. StoredLive'
    <3>1. Stored(f)'[RefreshToken] = 0
      BY <2>2, <2>3, EmptyLive DEF Stored
    <3> QED
      BY <1>2, <2>0, <2>3, <3>1, OneStored DEF Good, server
  <2>5. NothingElse(p)'
    BY <1>1, <1>2, <1>3, <2>0, <2>1, <2>3 DEF NothingElse, Profile, memory
  <2> QED
    BY <1>1, <1>2, <2>4, <2>5, WriteRight
<1>7. CASE WriteMarker(p)
  <2>0. PICK f \in Profiles : f = writing[p] /\ item[p] = 5
    BY <1>7 DEF WriteMarker, SaveInv, Tidy, TypeInv, TypeOK
  <2>1. /\ writing'[p] = NoProfile /\ todo' = todo
        /\ \A g \in Profiles \ {f} : keyring'[g] = keyring[g]
        /\ keyring'[f].items = keyring[f].items
    BY <1>7, <2>0 DEF WriteMarker, TypeInv, TypeOK
  <2>2. keyring[f].items = secrets[p][f]
    <3>1. begun[f] = secrets[p][f] /\ \A i \in Fields : i < 5 => keyring[f].items[i] = begun[f][i]
      BY <1>4, <2>0 DEF Midway
    <3>2. \A i \in Fields : keyring[f].items[i] = secrets[p][f][i]
      BY <3>1 DEF Fields
    <3>3. keyring[f].items \in Secrets /\ secrets[p][f] \in Secrets
      BY <2>0 DEF TypeInv, TypeOK
    <3> QED
      BY <3>2, <3>3 DEF Secrets
  <2>3. StoredLive'
    <3>1. secrets[p][f][RefreshToken] \in live \cup {0}
      BY <1>1, <2>0 DEF Good, LoneRight, MemoryLive
    <3>2. Stored(f)'[RefreshToken] \in live \cup {0}
      BY <2>1, <2>2, <3>1, EmptyLive DEF Stored
    <3> QED
      BY <1>2, <2>0, <2>1, <3>2, OneStored DEF Good, server
  <2>4. NothingElse(p)'
    <3> SUFFICES ASSUME NEW g \in Profiles, ~store'[p][g].known, g # Profile(p)'
                 PROVE  /\ g \notin todo'[p] /\ g # writing'[p]
                        /\ ~keyring'[g].marker /\ keyring'[g].items = Empty
      BY DEF NothingElse
    <3>1. /\ g \notin todo[p] /\ g # f /\ ~keyring[g].marker /\ keyring[g].items = Empty
      BY <1>1, <1>2, <1>3, <2>0 DEF NothingElse, Profile, memory
    <3> QED
      BY <2>1, <3>1, AccountsAssumption
  <2> QED
    BY <1>1, <1>2, <2>3, <2>4, WriteRight
<1> QED
  BY <1>5, <1>6, <1>7

\* When the configuration is replaced, the whole keyring is what was in memory.
LEMMA ConfigRight ==
  ASSUME TypeInv, SaveInv, SavedInv, Good, NEW p \in Processes, SaveConfig(p), "raced" \notin spoiled'
  PROVE  Good'
<1>1. Lone(p) /\ pc[p] \in Saving /\ pc[p] # "idle" /\ p \notin overlapped
  BY WriterLone DEF SaveStep, Lone
<1>2. /\ config' = store[p] /\ UNCHANGED <<keyring, server, overlapped>>
      /\ \/ pc[p] = "refreshed" /\ pc' = [pc EXCEPT ![p] = "act"] /\ UNCHANGED <<memory, progress, command>>
         \/ pc[p] # "refreshed" /\ End(p)
  BY DEF SaveConfig
<1>3. /\ \A q \in Processes \ {p} : pc'[q] = pc[q] /\ command'[q] = command[q]
      /\ pc'[p] \in {"idle", "act"}
  BY <1>2 DEF End, TypeInv, TypeOK
<1>4. MemoryLive(p) /\ MemoryMatches(p) /\ NothingElse(p)
  BY <1>1 DEF Good, LoneRight
<1>5. ASSUME NEW f \in Profiles, store[p][f].known \/ f = Profile(p)
      PROVE  /\ keyring[f].items = secrets[p][f] /\ keyring[f].marker = (secrets[p][f] # Empty)
             /\ Matching(store[p][f], keyring[f].items, tokens)
             /\ ~store[p][f].known => ~keyring[f].marker
             /\ Stored(f)[RefreshToken] \in live \cup {0}
  <2>1. keyring[f].items = secrets[p][f] /\ keyring[f].marker = (secrets[p][f] # Empty)
    BY <1>1, <1>5, WrittenWhole
  <2>2. Matching(store[p][f], secrets[p][f], tokens) /\ secrets[p][f][RefreshToken] \in live \cup {0}
    BY <1>4 DEF MemoryMatches, MemoryLive
  <2>3. ~store[p][f].known => ~keyring[f].marker
    BY <2>1, <2>2 DEF Matching
  <2> QED
    BY <2>1, <2>2, <2>3, EmptyLive DEF Stored
<1>6. DiskMatches'
  <2>1. ASSUME NEW f \in Profiles
        PROVE  Matching(store[p][f], keyring[f].items, tokens) /\ (~store[p][f].known => ~keyring[f].marker)
    <3>1. CASE store[p][f].known \/ f = Profile(p)
      BY <1>5, <3>1
    <3>2. CASE ~store[p][f].known /\ f # Profile(p)
      <4>1. ~keyring[f].marker /\ keyring[f].items = Empty
        BY <1>1, <1>4, <3>2 DEF NothingElse
      <4> QED
        BY <3>2, <4>1 DEF Matching
    <3> QED
      BY <3>1, <3>2
  <2> QED
    BY <1>2, <2>1 DEF DiskMatches, server
<1>7. StoredLive'
  <2> SUFFICES ASSUME NEW f \in Profiles PROVE Stored(f)'[RefreshToken] \in live' \cup {0}
    BY DEF StoredLive
  <2>1. Stored(f)' = Stored(f) /\ live' = live
    BY <1>2 DEF Stored, server
  <2>2. CASE f = Profile(p)
    BY <1>5, <2>1, <2>2
  <2>3. CASE f # Profile(p)
    <3>1. ~Replacing(f)
      BY <1>1, <2>3, NotReplaced
    <3> QED
      BY <2>1, <3>1 DEF Good, StoredLive
  <2> QED
    BY <2>2, <2>3
<1>8. LoneRight(p)'
  <2>1. CASE pc[p] = "refreshed"
    <3>1. /\ pc'[p] = "act" /\ UNCHANGED <<store, secrets, command>>
      BY <1>2, <2>1 DEF TypeInv, TypeOK, memory
    <3>2. MemoryLive(p)' /\ MemoryMatches(p)'
      BY <1>2, <1>4, <3>1 DEF MemoryLive, MemoryMatches, server
    <3>3. MemoryFresh(p)' /\ NothingElse(p)'
      BY <1>2, <3>1 DEF MemoryFresh, NothingElse, Saving
    <3> QED
      BY <3>2, <3>3 DEF LoneRight
  <2>2. CASE pc[p] # "refreshed"
    <3>1. pc'[p] = "idle"
      BY <1>2, <2>2 DEF End, TypeInv, TypeOK
    <3> QED
      BY <3>1 DEF LoneRight, Lone
  <2> QED
    BY <2>1, <2>2
<1>9. \A q \in Processes \ {p} : pc'[q] = pc[q]
  BY <1>3
<1> QED
  BY <1>1, <1>2, <1>6, <1>7, <1>8, <1>9, OwnRight

-----------------------------------------------------------------------------
(* All steps                                                                *)

LEMMA NeverUnspoiled ==
  ASSUME NEW p \in Processes, ProcessStep(p) PROVE spoiled \subseteq spoiled'
<1>1. CASE Begin(p) \/ UnknownProfile(p) \/ Die(p) \/ \E f \in Profiles : LoadSecret(p, f) \/ LoadFails(p, f)
  BY <1>1 DEF Begin, UnknownProfile, Die, LoadSecret, LoadFails
<1>2. CASE LocalStep(p)
  BY <1>2 DEF LocalStep, Logout, Setup, ServerAdd, ServerUse, ServerRemove, SpaceUnset
<1>3. CASE RemoteStep(p)
  BY <1>3 DEF RemoteStep, BasicLogin, OIDCLogin, NotAuthenticated, Connect, Refresh, RefreshRejected,
              RefreshLost, SpaceUse, Answered, ClearStaleSpace
<1>4. CASE SaveStep(p)
  BY <1>4 DEF SaveStep, RemoveMarker, WriteItem, WriteMarker, SaveConfig, NoteRace
<1> QED
  BY <1>1, <1>2, <1>3, <1>4 DEF ProcessStep

LEMMA GoodStep ==
  ASSUME TypeInv, SaveInv, SavedInv, MatchInv, NEW p \in Processes, ProcessStep(p), Unspoiled'
  PROVE  Good'
<1>1. "raced" \notin spoiled /\ "raced" \notin spoiled' /\ Unspoiled
  BY NeverUnspoiled DEF Unspoiled
<1>2. Forgotten /\ TokensApart /\ Good
  BY <1>1 DEF MatchInv
<1>3. CASE UnknownProfile(p) \/ Die(p) \/ \E f \in Profiles : LoadFails(p, f)
  <2>1. End(p) /\ UNCHANGED <<disk, server, overlapped>> /\ pc[p] # "idle" /\ pc[p] \notin Saving
    BY <1>3 DEF UnknownProfile, Die, LoadFails, Saving, Unspoiled
  <2> QED
    BY <1>2, <2>1, EndRight
<1>4. CASE Begin(p) \/ \E f \in Profiles : LoadSecret(p, f)
  BY <1>2, <1>4, BeginRight, LoadRight
<1>5. CASE LocalStep(p) \/ RemoteStep(p)
  BY <1>2, <1>5, LocalRight, RemoteRight
<1>6. CASE SaveStep(p)
  BY <1>1, <1>2, <1>6, WritingRight, ConfigRight DEF SaveStep
<1> QED
  BY <1>3, <1>4, <1>5, <1>6 DEF ProcessStep

LEMMA NextMatch == TypeInv /\ SaveInv /\ SavedInv /\ MatchInv /\ [Next]_vars => MatchInv'
<1> SUFFICES ASSUME TypeInv, SaveInv, SavedInv, MatchInv, [Next]_vars PROVE MatchInv'
  OBVIOUS
<1>1. ASSUME NEW p \in Processes, ProcessStep(p) PROVE MatchInv'
  <2>1. Forgotten' /\ TokensApart'
    BY <1>1, ApartStep, ForgottenStep DEF MatchInv
  <2>2. Unspoiled' => Good'
    BY <1>1, GoodStep
  <2> QED
    BY <2>1, <2>2 DEF MatchInv
<1>2. CASE UNCHANGED vars
  <2>1. UNCHANGED <<config, keyring, tokens, live, store, secrets, pc, command, todo, writing, overlapped, spoiled>>
    BY <1>2 DEF vars, disk, server, memory, progress
  <2>2. /\ Forgotten' <=> Forgotten
        /\ Unspoiled' <=> Unspoiled
        /\ DiskMatches' <=> DiskMatches
    BY <2>1 DEF Forgotten, Unspoiled, DiskMatches, NobodySaves
  <2>3. TokensApart' <=> TokensApart
    BY <2>1 DEF TokensApart, Has
  <2>4. StoredLive' <=> StoredLive
    BY <2>1 DEF StoredLive, Stored, Replacing, Profile
  <2>5. ASSUME NEW p \in Processes PROVE LoneRight(p)' <=> LoneRight(p)
    BY <2>1 DEF LoneRight, Lone, MemoryLive, MemoryMatches, MemoryFresh, NothingElse, Profile
  <2> QED
    BY <2>2, <2>3, <2>4, <2>5 DEF MatchInv, Good
<1> QED
  BY <1>1, <1>2 DEF Next, Rest

LEMMA InitMatch == Init => MatchInv
<1> SUFFICES ASSUME Init PROVE MatchInv
  OBVIOUS
<1>1. PICK start \in Starts :
        /\ config = start.config
        /\ keyring = [f \in Profiles |-> [marker |-> start.secrets[f] # Empty, items |-> start.secrets[f]]]
        /\ tokens = start.tokens /\ live = 1 .. Len(start.tokens)
  BY DEF Init
<1>2. /\ pc = [p \in Processes |-> "idle"]
      /\ secrets = [p \in Processes |-> [f \in Profiles |-> Empty]]
  BY DEF Init
<1>3. \A f \in Profiles :
        keyring[f].marker = (start.secrets[f] # Empty) /\ keyring[f].items = start.secrets[f]
  BY <1>1, Zenon
<1>4. \A p \in Processes : pc[p] = "idle" /\ \A f \in Profiles : secrets[p][f] = Empty
  BY <1>2
<1>5. Empty[RefreshToken] = 0
  BY DEF Empty, RefreshToken
<1>6. Forgotten
  BY <1>4 DEF Forgotten
<1>7. TokensApart
  <2>1. ASSUME NEW f \in Profiles, NEW t \in Nat \ {0}, Has(f, t) PROVE start.secrets[f][RefreshToken] = t
    BY <1>3, <1>4, <1>5, <2>1 DEF Has
  <2>2. \A f \in Profiles : \A g \in Profiles \ {f} :
          start.secrets[f][RefreshToken] # 0 => start.secrets[f][RefreshToken] # start.secrets[g][RefreshToken]
    BY IdentityAssumption
  <2> QED
    BY <2>1, <2>2 DEF TokensApart
<1>8. StoredLive
  <2>1. \A f \in Profiles : start.secrets[f][RefreshToken] \in 0 .. Len(start.tokens)
    BY StartsAssumption DEF KnownItems
  <2>2. Len(start.tokens) \in Nat
    BY StartsAssumption
  <2>3. \A f \in Profiles : Stored(f)[RefreshToken] \in {0, start.secrets[f][RefreshToken]}
    BY <1>3, <1>5 DEF Stored
  <2> QED
    BY <1>1, <2>1, <2>2, <2>3 DEF StoredLive
<1>9. DiskMatches
  <2>1. ASSUME NEW f \in Profiles
        PROVE  IF start.config[f].known
               THEN Belongs(start.secrets[f], start.config[f].account, start.tokens)
               ELSE start.secrets[f] = Empty
    BY IdentityAssumption
  <2> QED
    BY <1>1, <1>3, <2>1 DEF DiskMatches, Matching
<1>10. \A p \in Processes : LoneRight(p)
  BY <1>4 DEF LoneRight, Lone
<1> QED
  BY <1>6, <1>7, <1>8, <1>9, <1>10 DEF MatchInv, Good

LEMMA MatchInvariance == Spec => [](TypeInv /\ SaveInv /\ MatchInv)
<1>1. TypeInv /\ SaveInv /\ SavedInv /\ MatchInv /\ [Next]_vars => MatchInv'
  BY NextMatch
<1> QED
  BY InitMatch, SavedInvariance, <1>1, PTL DEF Spec

\* Commands that neither overlap nor die keep the refresh token in the keyring
\* good: a token that the server has spent is replaced in the same command, and
\* no command saves an older one that it has loaded before.
THEOREM StoredTokensLive == Spec => []StoredTokenLive
<1>1. MatchInv => StoredTokenLive
  BY DEF MatchInv, Unspoiled, Good, StoredLive, Replacing, StoredTokenLive
<1> QED
  BY <1>1, MatchInvariance, PTL

\* And the keyring then holds, for every profile, no password or token but those
\* of the account that the configuration says, whichever commands changed the
\* account or refreshed the tokens, and nothing at all for a profile that is gone.
THEOREM SecretsMatch == Spec => []SecretsMatchIdentity
<1>1. TypeInv /\ MatchInv => SecretsMatchIdentity
  <2> SUFFICES ASSUME TypeInv, MatchInv, Unspoiled, NobodySaves, NEW f \in Profiles
               PROVE  IF config[f].known THEN OfAccount(keyring[f].items, config[f].account)
                      ELSE keyring[f] = [marker |-> FALSE, items |-> Empty]
    BY DEF SecretsMatchIdentity, Unspoiled
  <2>1. Matching(config[f], keyring[f].items, tokens) /\ (~config[f].known => ~keyring[f].marker)
    BY DEF MatchInv, Good, DiskMatches
  <2>2. keyring[f] \in [marker : BOOLEAN, items : Secrets]
    BY DEF TypeInv, TypeOK
  <2> QED
    BY <2>1, <2>2 DEF Matching, OfAccount
<1> QED
  BY <1>1, MatchInvariance, PTL

-----------------------------------------------------------------------------
(* Default Spaces are those their owners have seen                          *)

\* The process that takes a step, and the configuration, have only such Spaces.
LEMMA SeenKept ==
  ASSUME TypeInv, SaveInv, SeenInv, NEW p \in Processes, pc[p] # "idle", overlapped' = overlapped,
         \A q \in Processes \ {p} : pc'[q] = pc[q],
         spoiled' = {} /\ spoiled = {} =>
           \A f \in Profiles : Seen(config'[f]) /\ (pc'[p] # "idle" /\ Lone(p) => Seen(store'[p][f])),
         spoiled \subseteq spoiled'
  PROVE  SeenInv'
<1> SUFFICES ASSUME spoiled' = {}, NEW f \in Profiles, NEW q \in Processes
             PROVE  Seen(config'[f]) /\ (Lone(q)' => Seen(store'[q][f]))
  BY DEF SeenInv, Seen
<1>1. spoiled = {}
  OBVIOUS
<1>2. CASE q = p
  BY <1>1, <1>2 DEF Lone
<1>3. CASE q # p
  BY <1>1, <1>3, OthersNoted
<1> QED
  BY <1>2, <1>3

LEMMA SeenStart ==
  ASSUME TypeInv, SaveInv, SeenInv, NEW p \in Processes, pc[p] # "idle", spoiled \subseteq spoiled',
         NEW stage, NEW settings, NEW secret, StartSave(p, stage, settings, secret),
         spoiled' = {} /\ spoiled = {} /\ Lone(p) => Seen(settings)
  PROVE  SeenInv'
<1>1. Profile(p) \in Profiles
  BY ProfileType DEF TypeInv
<1>2. /\ \A q \in Processes \ {p} : pc'[q] = pc[q]
      /\ \A f \in Profiles : store'[p][f] = IF f = Profile(p) THEN settings ELSE store[p][f]
      /\ config' = config /\ overlapped' = overlapped
  BY <1>1 DEF StartSave, disk, TypeInv, TypeOK
<1>3. spoiled = {} => \A f \in Profiles : Seen(config[f]) /\ (Lone(p) => Seen(store[p][f]))
  BY DEF SeenInv
<1> QED
  BY <1>2, <1>3, SeenKept

LEMMA MineSeen ==
  ASSUME TypeInv, SeenInv, NEW p \in Processes, pc[p] # "idle"
  PROVE  spoiled = {} /\ Lone(p) => Seen(Mine(p))
<1>1. Profile(p) \in Profiles
  BY ProfileType DEF TypeInv
<1> QED
  BY <1>1 DEF SeenInv, Mine

\* A request without a foreign token acts as the account of its profile.
LEMMA ActsAsOwner ==
  ASSUME TypeInv, Good, NEW p \in Processes, Lone(p), command[p].env = 0, ActsAs(p) # 0
  PROVE  ActsAs(p) = Mine(p).account
<1>1. Matching(Mine(p), MySecret(p), tokens)
  BY MineMatches
<1>2. Mine(p).known
  <2>1. Empty[Password] = 0 /\ Empty[AccessToken] = 0
    BY DEF Empty, Password, AccessToken
  <2> QED
    BY <1>1, <2>1 DEF Matching, ActsAs
<1>3. Belongs(MySecret(p), Mine(p).account, tokens)
  BY <1>1, <1>2 DEF Matching
<1> QED
  BY <1>3 DEF Belongs, ActsAs, UsesPassword

LEMMA SeenCommand ==
  ASSUME TypeInv, SaveInv, MatchInv, SeenInv, NEW p \in Processes, LocalStep(p) \/ RemoteStep(p)
  PROVE  SeenInv'
<1>0. spoiled \subseteq spoiled'
  BY NeverUnspoiled DEF ProcessStep
<1>1. pc[p] # "idle"
  BY DEF LocalStep, Logout, Setup, ServerAdd, ServerUse, ServerRemove, SpaceUnset, Loaded,
         RemoteStep, BasicLogin, OIDCLogin, NotAuthenticated, Connect, Refresh, RefreshRejected,
         RefreshLost, CanRefresh, IsRequest, SpaceUse, Answered, ClearStaleSpace, CanAct
<1>2. Mine(p) \in Settings
  BY <1>1, LoadedType
<1>3. spoiled = {} /\ Lone(p) => Seen(Mine(p))
  BY <1>1, MineSeen
<1>4. \A account \in Range0(Accounts) :
        Seen(NewSettings) /\ Seen([NewSettings EXCEPT !.account = account])
        /\ Seen(ClearSpaceAfterIdentityChange([NewSettings EXCEPT !.account = account]))
  BY DEF Seen, NewSettings, NoSettings, ClearSpaceAfterIdentityChange
<1>5. /\ Seen(NoSettings) /\ Seen(NewSettings) /\ Seen(ClearAccount(Mine(p)))
      /\ Seen([Mine(p) EXCEPT !.space = 0, !.owner = 0])
  BY <1>2 DEF Seen, NoSettings, NewSettings, ClearAccount, Settings
<1>6. CASE Logout(p) \/ Setup(p) \/ ServerAdd(p) \/ ServerUse(p) \/ ServerRemove(p) \/ SpaceUnset(p) \/ ClearStaleSpace(p)
  <2>1. PICK settings, secret :
          StartSave(p, "save", settings, secret) /\ (settings = Mine(p) \/ Seen(settings))
    BY <1>5, <1>6 DEF Logout, Setup, ServerAdd, ServerUse, ServerRemove, SpaceUnset, ClearStaleSpace
  <2> QED
    BY <1>0, <1>1, <1>3, <2>1, SeenStart
<1>7. CASE BasicLogin(p) \/ OIDCLogin(p)
  <2>1. PICK secret : StartSave(p, "save", SignedIn(p), secret)
    BY <1>7 DEF BasicLogin, OIDCLogin
  <2>2. spoiled = {} /\ Lone(p) => Seen(SignedIn(p))
    <3>1. command[p].account \in Range0(Accounts)
      BY <1>1, LoadedType
    <3>2. spoiled = {} /\ Lone(p) => Seen(LoginBase(p)) /\ LoginBase(p) \in Settings
      BY <1>2, <1>3, <1>5, SettingsType DEF LoginBase
    <3> QED
      BY <3>1, <3>2 DEF Seen, SignedIn, ClearSpaceAfterIdentityChange, Settings
  <2> QED
    BY <1>0, <1>1, <2>1, <2>2, SeenStart
<1>8. CASE Refresh(p)
  <2>1. PICK secret : StartSave(p, "refreshed", Mine(p), secret)
    BY <1>8 DEF Refresh
  <2> QED
    BY <1>0, <1>1, <1>3, <2>1, SeenStart
<1>9. CASE SpaceUse(p)
  <2> DEFINE settings == [Mine(p) EXCEPT !.space = ActsAs(p), !.owner = Mine(p).account]
  <2>1. /\ StartSave(p, "save", settings, MySecret(p)) /\ ActsAs(p) # 0
        /\ spoiled' = IF command[p].env = 0 THEN spoiled ELSE spoiled \cup {"foreign"}
    BY <1>9 DEF SpaceUse, CanAct
  <2>2. ASSUME spoiled' = {}, spoiled = {}, Lone(p) PROVE Seen(settings)
    <3>1. command[p].env = 0 /\ Good
      BY <2>1, <2>2 DEF MatchInv, Unspoiled
    <3>2. ActsAs(p) = Mine(p).account
      BY <2>1, <2>2, <3>1, ActsAsOwner
    <3> QED
      BY <1>2, <3>2 DEF Seen, Settings
  <2> HIDE DEF settings
  <2> QED
    BY <1>0, <1>1, <2>1, <2>2, SeenStart
<1>10. CASE NotAuthenticated(p) \/ RefreshRejected(p) \/ RefreshLost(p) \/ Answered(p) \/ Connect(p)
  <2>1. UNCHANGED <<config, overlapped>> /\ (End(p) \/ (store' = store /\ pc' = [pc EXCEPT ![p] = "act"]))
    BY <1>10 DEF NotAuthenticated, RefreshRejected, RefreshLost, Answered, Connect, disk, memory
  <2>2. \A q \in Processes \ {p} : pc'[q] = pc[q]
    BY <2>1 DEF End, TypeInv, TypeOK
  <2>3. pc'[p] # "idle" => store'[p] = store[p]
    BY <2>1 DEF End, TypeInv, TypeOK
  <2>4. spoiled = {} => \A f \in Profiles : Seen(config[f]) /\ (Lone(p) => Seen(store[p][f]))
    BY DEF SeenInv
  <2> QED
    BY <1>0, <1>1, <2>1, <2>2, <2>3, <2>4, SeenKept
<1> QED
  BY <1>6, <1>7, <1>8, <1>9, <1>10 DEF LocalStep, RemoteStep

LEMMA SeenBegin ==
  ASSUME TypeInv, SaveInv, SeenInv, NEW p \in Processes, Begin(p) PROVE SeenInv'
<1>1. /\ \A q \in Processes \ {p} : pc'[q] = pc[q] /\ store'[q] = store[q]
      /\ store'[p] = config /\ config' = config /\ spoiled' = spoiled
      /\ overlapped' = IF Running = {} THEN overlapped \ {p} ELSE overlapped \cup Running \cup {p}
  BY DEF Begin, disk, TypeInv, TypeOK
<1> SUFFICES ASSUME spoiled = {}, NEW f \in Profiles, NEW q \in Processes, Lone(q)'
             PROVE  Seen(store'[q][f])
  BY <1>1 DEF SeenInv, Seen
<1>2. CASE q = p
  BY <1>1, <1>2 DEF SeenInv
<1>3. CASE q # p
  <2>1. pc[q] # "idle" /\ q \notin overlapped'
    BY <1>1, <1>3 DEF Lone
  <2> QED
    BY <1>1, <2>1 DEF Running
<1> QED
  BY <1>2, <1>3

LEMMA SeenSave ==
  ASSUME TypeInv, SaveInv, SeenInv, NEW p \in Processes,
         \/ UnknownProfile(p) \/ SaveStep(p) \/ Die(p)
         \/ \E f \in Profiles : LoadSecret(p, f) \/ LoadFails(p, f)
  PROVE  SeenInv'
<1>0. spoiled \subseteq spoiled'
  BY NeverUnspoiled DEF ProcessStep
<1>1. pc[p] # "idle" /\ overlapped' = overlapped
  BY DEF UnknownProfile, SaveStep, RemoveMarker, WriteItem, WriteMarker, SaveConfig, Saved, Saving, Die,
         LoadSecret, LoadFails
<1>2. /\ \A q \in Processes \ {p} : pc'[q] = pc[q]
      /\ pc'[p] # "idle" => store'[p] = store[p]
  <2>1. End(p) \/ (store' = store /\ (pc' = pc \/ pc' = [pc EXCEPT ![p] = "act"]))
    BY DEF UnknownProfile, SaveStep, RemoveMarker, WriteItem, WriteMarker, SaveConfig, Die,
           LoadSecret, LoadFails, memory
  <2> QED
    BY <2>1 DEF End, TypeInv, TypeOK
<1>3. spoiled = {} => \A f \in Profiles : Seen(config[f]) /\ (Lone(p) => Seen(store[p][f]))
  BY DEF SeenInv
<1>4. config' = config \/ (config' = store[p] /\ SaveStep(p))
  BY DEF UnknownProfile, SaveStep, RemoveMarker, WriteItem, WriteMarker, SaveConfig, Die,
         LoadSecret, LoadFails, disk
<1>5. SaveStep(p) /\ spoiled' = {} => Lone(p)
  BY WriterLone
<1> QED
  BY <1>0, <1>1, <1>2, <1>3, <1>4, <1>5, SeenKept

\* When moreover no command has acted with a token from the environment, the
\* default Space of a profile is one that was found with the credentials of the
\* account it is recorded for.
THEOREM SpacesSeen == Spec => []SpaceSeenByOwner
<1>1. Init => SeenInv
  <2> SUFFICES ASSUME Init PROVE SeenInv
    OBVIOUS
  <2>1. \A f \in Profiles : config[f].space \in {0, config[f].owner}
    BY IdentityAssumption DEF Init
  <2>2. \A p \in Processes : ~Lone(p)
    BY DEF Init, Lone
  <2> QED
    BY <2>1, <2>2 DEF SeenInv, Seen
<1>2. TypeInv /\ SaveInv /\ MatchInv /\ SeenInv /\ [Next]_vars => SeenInv'
  <2> SUFFICES ASSUME TypeInv, SaveInv, MatchInv, SeenInv, [Next]_vars PROVE SeenInv'
    OBVIOUS
  <2>1. ASSUME NEW p \in Processes, ProcessStep(p) PROVE SeenInv'
    BY <2>1, SeenBegin, SeenCommand, SeenSave DEF ProcessStep
  <2>2. CASE UNCHANGED vars
    BY <2>2 DEF vars, disk, memory, SeenInv, Lone
  <2> QED
    BY <2>1, <2>2 DEF Next, Rest
<1>3. Spec => []SeenInv
  BY <1>1, <1>2, MatchInvariance, PTL DEF Spec
<1>4. SeenInv => SpaceSeenByOwner
  BY DEF SeenInv, Seen, SpaceSeenByOwner
<1> QED
  BY <1>3, <1>4, PTL
=============================================================================
