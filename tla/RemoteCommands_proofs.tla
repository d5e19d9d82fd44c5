------------------------ MODULE RemoteCommands_proofs ------------------------
(***************************************************************************)
(* What the commands of several requests promise, for all accounts, names, *)
(* shares, files, roles and calls, however requests are repeated and others *)
(* change the server meanwhile: the account that runs a command is kept;   *)
(* a file disappears only if the command named it and the answer is true;  *)
(* and a link's password, expiration and role are as was asked.            *)
(***************************************************************************)
EXTENDS RemoteCommands, SequenceTheorems, FiniteSetTheorems, TLAPS

Steps ==
  {"guard", "options", "user", "group", "drive", "applications", "assignments", "pickRole",
   "createUser", "updateUser", "createGroup", "updateGroup", "deleteGroup",
   "changeMembership", "createDrive", "updateDrive", "disableDrive", "clearDefault",
   "restoreDrive", "purgeDrive", "spaceRole", "member", "addMember", "updateMember",
   "removeMember", "self", "pickAssignment", "setState", "deleteUser", "revokeRole",
   "grantRole"}

\* The steps that would take something from the account they are for.
Hurts(step) ==
  step \in {"deleteUser", "revokeRole"} \/ (step = "setState" /\ ~call.enable)

Granting == call.op = "role" /\ call.grant

\* The command has compared the account with its own.
Checked == "self" \in DOMAIN seen

\* The order of the steps: the account is looked up, compared, and changed.
Ordered ==
  /\ todo \in Seq(Steps)
  /\ \A i \in 1 .. Len(todo) :
       /\ Hurts(todo[i]) => Checked \/ \E j \in 1 .. i : todo[j] = "self"
       /\ todo[i] = "self" => "user" \in DOMAIN seen \/ \E j \in 1 .. i : todo[j] = "user"
       /\ todo[i] = "self" => \A j \in 1 .. Len(todo) : i < j => todo[j] # "user"
       /\ todo[i] = "grantRole" => Granting
  /\ Checked =>
       /\ "user" \in DOMAIN seen /\ seen["user"] # Self
       /\ \A i \in 1 .. Len(todo) : todo[i] # "user"

\* What is known of the accounts.
Accounted ==
  /\ DOMAIN user = Users
  /\ DOMAIN user[Self] = {"there", "name", "enabled", "fields", "roles"}

\* The inductive invariant.
SelfInv ==
  /\ Accounted /\ SelfKept
  /\ call \in ShareCalls \cup AdminCalls \cup RecoveryCalls
  /\ call.op \in AdminOps => Ordered

-----------------------------------------------------------------------------
(* Scripts *)

\* What a script must be, to be begun with nothing known.
Safe(s) ==
  /\ s \in Seq(Steps)
  /\ \A i \in 1 .. Len(s) :
       /\ Hurts(s[i]) => \E j \in 1 .. i : s[j] = "self"
       /\ s[i] = "self" => \E j \in 1 .. i : s[j] = "user"
       /\ s[i] = "self" => \A j \in 1 .. Len(s) : i < j => s[j] # "user"
       /\ s[i] = "grantRole" => Granting

Holds(s, step) == \E i \in 1 .. Len(s) : s[i] = step

\* Steps that need no comparison, and steps that may come after it.
Plain == {step \in Steps : step # "self" /\ ~Hurts(step) /\ (step = "grantRole" => Granting)}
Late == {step \in Steps : step # "user" /\ (step = "grantRole" => Granting)}

\* A script of plain steps is safe.
LEMMA PlainSafe == ASSUME NEW s \in Seq(Plain) PROVE Safe(s)
<1>1. \A i \in 1 .. Len(s) : s[i] \in Plain
  BY ElementOfSeq
<1>2. s \in Seq(Steps)
  BY DEF Plain
<1> QED
  BY <1>1, <1>2 DEF Safe, Plain

\* The elements of two scripts after each other.
LEMMA Joined ==
  ASSUME NEW a \in Seq(Steps), NEW b \in Seq(Steps)
  PROVE  /\ a \o b \in Seq(Steps) /\ Len(a) \in Nat /\ Len(b) \in Nat
         /\ Len(a \o b) = Len(a) + Len(b)
         /\ \A i \in 1 .. Len(a) : (a \o b)[i] = a[i] /\ i \in 1 .. Len(a \o b)
         /\ \A i \in Len(a) + 1 .. Len(a \o b) :
              i - Len(a) \in 1 .. Len(b) /\ (a \o b)[i] = b[i - Len(a)]
<1>1. Len(a) \in Nat /\ Len(b) \in Nat
  BY LenProperties
<1>2. /\ a \o b \in Seq(Steps) /\ Len(a \o b) = Len(a) + Len(b)
      /\ \A i \in 1 .. Len(a) + Len(b) :
           (a \o b)[i] = IF i <= Len(a) THEN a[i] ELSE b[i - Len(a)]
  BY ConcatProperties
<1>3. ASSUME NEW i \in 1 .. Len(a)
      PROVE  (a \o b)[i] = a[i] /\ i \in 1 .. Len(a \o b)
  <2>1. i <= Len(a) /\ i \in 1 .. Len(a) + Len(b)
    BY <1>1
  <2> QED
    BY <1>2, <2>1
<1>4. ASSUME NEW i \in Len(a) + 1 .. Len(a \o b)
      PROVE  i - Len(a) \in 1 .. Len(b) /\ (a \o b)[i] = b[i - Len(a)]
  <2>1. i \in 1 .. Len(a) + Len(b) /\ ~(i <= Len(a)) /\ i - Len(a) \in 1 .. Len(b)
    BY <1>1, <1>2
  <2> QED
    BY <1>2, <2>1
<1> QED
  BY <1>1, <1>2, <1>3, <1>4

\* The account is looked up, then compared, and not looked up again.
LEMMA Compares ==
  ASSUME NEW a \in Seq(Plain), Holds(a, "user"), NEW b \in Seq(Late), b # <<>>, b[1] = "self"
  PROVE  Safe(a \o b) /\ Holds(a \o b, "self")
<1> DEFINE s == a \o b
<1>1. a \in Seq(Steps) /\ b \in Seq(Steps)
  BY DEF Plain, Late
<1>2. /\ s \in Seq(Steps) /\ Len(a) \in Nat /\ Len(b) \in Nat
      /\ Len(s) = Len(a) + Len(b)
      /\ \A i \in 1 .. Len(a) : s[i] = a[i] /\ i \in 1 .. Len(s)
      /\ \A i \in Len(a) + 1 .. Len(s) : i - Len(a) \in 1 .. Len(b) /\ s[i] = b[i - Len(a)]
  BY <1>1, Joined
<1>3. \A i \in 1 .. Len(a) : a[i] \in Plain
  BY ElementOfSeq
<1>4. \A i \in 1 .. Len(b) : b[i] \in Late
  BY ElementOfSeq
<1> HIDE DEF s
<1>5. Len(a) + 1 \in Len(a) + 1 .. Len(s) /\ s[Len(a) + 1] = "self"
  <2>1. Len(b) > 0
    BY EmptySeq
  <2>2. Len(a) + 1 \in Len(a) + 1 .. Len(s) /\ (Len(a) + 1) - Len(a) = 1
    BY <1>2, <2>1
  <2> QED
    BY <1>2, <2>2
<1>6. PICK u \in 1 .. Len(a) : a[u] = "user"
  BY DEF Holds
<1>7. s[u] = "user" /\ \A i \in Len(a) + 1 .. Len(s) : u \in 1 .. i /\ Len(a) + 1 \in 1 .. i
  <2>1. \A i \in Len(a) + 1 .. Len(s) : u \in 1 .. i /\ Len(a) + 1 \in 1 .. i
    BY <1>2
  <2> QED
    BY <1>2, <1>6, <2>1
<1>8. \A i \in 1 .. Len(s) : i \in 1 .. Len(a) \/ i \in Len(a) + 1 .. Len(s)
  BY <1>2
<1>9. ASSUME NEW i \in 1 .. Len(s)
      PROVE  /\ Hurts(s[i]) => \E j \in 1 .. i : s[j] = "self"
             /\ s[i] = "self" => \E j \in 1 .. i : s[j] = "user"
             /\ s[i] = "self" => \A j \in 1 .. Len(s) : i < j => s[j] # "user"
             /\ s[i] = "grantRole" => Granting
  <2>1. CASE i \in 1 .. Len(a)
    <3>1. s[i] \in Plain
      BY <1>2, <1>3, <2>1
    <3> QED
      BY <3>1 DEF Plain
  <2>2. CASE i \in Len(a) + 1 .. Len(s)
    <3>1. s[i] \in Late
      BY <1>2, <1>4, <2>2
    <3>2. (\E j \in 1 .. i : s[j] = "self") /\ (\E j \in 1 .. i : s[j] = "user")
      BY <1>5, <1>7, <2>2
    <3>3. ASSUME NEW j \in 1 .. Len(s), i < j PROVE s[j] # "user"
      <4>1. j \in Len(a) + 1 .. Len(s)
        BY <1>2, <2>2, <3>3
      <4>2. s[j] \in Late
        BY <1>2, <1>4, <4>1
      <4> QED
        BY <4>2 DEF Late
    <3> QED
      BY <3>1, <3>2, <3>3 DEF Late
  <2> QED
    BY <1>8, <2>1, <2>2
<1>10. Safe(s)
  BY <1>2, <1>9 DEF Safe
<1>11. Len(a) + 1 \in 1 .. Len(s)
  BY <1>2, <1>5
<1>12. Holds(s, "self")
  BY <1>5, <1>11 DEF Holds
<1> QED
  BY <1>10, <1>12 DEF s

\* After the comparison anything may follow but another lookup.
LEMMA Follows ==
  ASSUME NEW s, Safe(s), Holds(s, "self"), NEW b \in Seq(Late)
  PROVE  Safe(s \o b) /\ Holds(s \o b, "self")
<1> DEFINE r == s \o b
<1>1. s \in Seq(Steps) /\ b \in Seq(Steps)
  BY DEF Safe, Late
<1>2. /\ r \in Seq(Steps) /\ Len(s) \in Nat /\ Len(b) \in Nat
      /\ Len(r) = Len(s) + Len(b)
      /\ \A i \in 1 .. Len(s) : r[i] = s[i] /\ i \in 1 .. Len(r)
      /\ \A i \in Len(s) + 1 .. Len(r) : i - Len(s) \in 1 .. Len(b) /\ r[i] = b[i - Len(s)]
  BY <1>1, Joined
<1>3. \A i \in 1 .. Len(b) : b[i] \in Late
  BY ElementOfSeq
<1> HIDE DEF r
<1>4. \A i \in 1 .. Len(r) : i \in 1 .. Len(s) \/ i \in Len(s) + 1 .. Len(r)
  BY <1>2
<1>5. \A i \in Len(s) + 1 .. Len(r) : r[i] \in Late
  BY <1>2, <1>3
<1>6. PICK c \in 1 .. Len(s) : s[c] = "self"
  BY DEF Holds
<1>7. PICK u \in 1 .. c : s[u] = "user"
  BY <1>6 DEF Safe
<1>8. u \in 1 .. Len(s) /\ r[c] = "self" /\ r[u] = "user"
  <2>1. u \in 1 .. Len(s)
    BY <1>2, <1>6, <1>7
  <2> QED
    BY <1>2, <1>6, <1>7, <2>1
<1>9. ASSUME NEW i \in 1 .. Len(r)
      PROVE  /\ Hurts(r[i]) => \E j \in 1 .. i : r[j] = "self"
             /\ r[i] = "self" => \E j \in 1 .. i : r[j] = "user"
             /\ r[i] = "self" => \A j \in 1 .. Len(r) : i < j => r[j] # "user"
             /\ r[i] = "grantRole" => Granting
  <2>1. CASE i \in 1 .. Len(s)
    <3>1. r[i] = s[i] /\ \A j \in 1 .. i : j \in 1 .. Len(s)
      BY <1>2, <2>1
    <3>2. \A j \in 1 .. i : r[j] = s[j]
      BY <1>2, <3>1
    <3>3. ASSUME r[i] = "self", NEW j \in 1 .. Len(r), i < j PROVE r[j] # "user"
      <4>1. CASE j \in 1 .. Len(s)
        BY <1>2, <2>1, <3>1, <3>3, <4>1 DEF Safe
      <4>2. CASE j \in Len(s) + 1 .. Len(r)
        BY <1>5, <4>2 DEF Late
      <4> QED
        BY <1>4, <4>1, <4>2
    <3>4. /\ Hurts(s[i]) => \E j \in 1 .. i : s[j] = "self"
          /\ s[i] = "self" => \E j \in 1 .. i : s[j] = "user"
          /\ s[i] = "grantRole" => Granting
      BY <2>1 DEF Safe
    <3> QED
      BY <3>1, <3>2, <3>3, <3>4
  <2>2. CASE i \in Len(s) + 1 .. Len(r)
    <3>1. c \in 1 .. i /\ u \in 1 .. i
      BY <1>2, <1>6, <1>8, <2>2
    <3>2. ASSUME NEW j \in 1 .. Len(r), i < j PROVE r[j] # "user"
      <4>1. j \in Len(s) + 1 .. Len(r)
        BY <1>2, <2>2, <3>2
      <4> QED
        BY <1>5, <4>1 DEF Late
    <3> QED
      BY <1>5, <1>8, <2>2, <3>1, <3>2 DEF Late
  <2> QED
    BY <1>4, <2>1, <2>2
<1>10. Safe(r)
  BY <1>2, <1>9 DEF Safe
<1>11. Holds(r, "self")
  BY <1>2, <1>6, <1>8 DEF Holds
<1> QED
  BY <1>10, <1>11 DEF r

\* Scripts of plain steps, one after the other.
LEMMA PlainJoined ==
  ASSUME NEW a \in Seq(Plain), NEW b \in Seq(Plain) PROVE a \o b \in Seq(Plain)
  BY ConcatProperties

\* The steps that are plain whatever the call.
LEMMA PlainSteps ==
  /\ {"guard", "options", "user", "group", "drive", "applications", "assignments", "pickRole",
      "createUser", "updateUser", "createGroup", "updateGroup", "deleteGroup",
      "changeMembership", "createDrive", "updateDrive", "disableDrive", "clearDefault",
      "restoreDrive", "purgeDrive", "spaceRole", "member", "addMember", "updateMember",
      "removeMember"} \subseteq Plain
  /\ {"self", "options", "pickAssignment", "setState", "deleteUser", "revokeRole"} \subseteq Late
<1>1. ASSUME NEW step \in Steps,
             step \notin {"self", "deleteUser", "revokeRole", "setState", "grantRole"}
      PROVE  step \in Plain
  BY <1>1 DEF Plain, Hurts
<1>2. ASSUME NEW step \in Steps, step \notin {"user", "grantRole"}
      PROVE  step \in Late
  BY <1>2 DEF Late
<1> USE DEF Steps
<1> QED
  BY <1>1, <1>2

\* What a dry run leaves out.
LEMMA PlainUnless ==
  ASSUME NEW dry, NEW step \in Plain PROVE Unless(dry, step) \in Seq(Plain)
  BY DEF Unless

LEMMA LateUnless ==
  ASSUME NEW dry, NEW step \in Late PROVE Unless(dry, step) \in Seq(Late)
  BY DEF Unless

\* A command that proves step-up authentication first.
LEMMA PlainGuarded ==
  ASSUME NEW s \in Seq(Plain) PROVE Guarded(s) \in Seq(Plain)
<1>1. <<"guard">> \in Seq(Plain)
  BY PlainSteps
<1>2. <<"guard">> \o s \in Seq(Plain)
  BY <1>1, PlainJoined
<1> QED
  BY <1>2 DEF Guarded

\* Most scripts have plain steps only.
LEMMA PlainScripts ==
  /\ UserCreateScript \in Seq(Plain) /\ UserUpdateScript \in Seq(Plain)
  /\ GroupCreateScript \in Seq(Plain) /\ GroupUpdateScript \in Seq(Plain)
  /\ GroupDeleteScript \in Seq(Plain) /\ MembershipScript \in Seq(Plain)
  /\ SpaceCreateScript \in Seq(Plain) /\ SpaceUpdateScript \in Seq(Plain)
  /\ SpaceDisableScript \in Seq(Plain) /\ SpaceRestoreScript \in Seq(Plain)
  /\ SpaceDeleteScript \in Seq(Plain) /\ MemberAddScript \in Seq(Plain)
  /\ MemberUpdateScript \in Seq(Plain) /\ MemberRemoveScript \in Seq(Plain)
<1>1. /\ <<"guard">> \in Seq(Plain) /\ <<"drive">> \in Seq(Plain)
      /\ <<"guard", "options">> \in Seq(Plain) /\ <<"guard", "user", "options">> \in Seq(Plain)
      /\ <<"guard", "group">> \in Seq(Plain) /\ <<"guard", "group", "user">> \in Seq(Plain)
      /\ <<"drive", "spaceRole">> \in Seq(Plain)
      /\ <<"disableDrive", "clearDefault">> \in Seq(Plain) /\ <<>> \in Seq(Plain)
  BY PlainSteps
<1>2. \A step \in {"createUser", "updateUser", "createGroup", "updateGroup", "deleteGroup",
                   "changeMembership", "createDrive", "updateDrive", "restoreDrive",
                   "purgeDrive", "addMember", "updateMember", "removeMember", "member"} :
        \A dry : Unless(dry, step) \in Seq(Plain)
  BY PlainSteps, PlainUnless
<1>3. UserCreateScript \in Seq(Plain) /\ UserUpdateScript \in Seq(Plain)
  BY <1>1, <1>2, PlainJoined DEF UserCreateScript, UserUpdateScript
<1>4. GroupCreateScript \in Seq(Plain) /\ GroupUpdateScript \in Seq(Plain)
  BY <1>1, <1>2, PlainJoined DEF GroupCreateScript, GroupUpdateScript
<1>5. GroupDeleteScript \in Seq(Plain) /\ MembershipScript \in Seq(Plain)
  BY <1>1, <1>2, PlainJoined DEF GroupDeleteScript, MembershipScript
<1>6. SpaceCreateScript \in Seq(Plain) /\ SpaceRestoreScript \in Seq(Plain)
      /\ SpaceDeleteScript \in Seq(Plain)
  BY <1>2, PlainGuarded DEF SpaceCreateScript, SpaceRestoreScript, SpaceDeleteScript
<1>7. SpaceUpdateScript \in Seq(Plain) /\ MemberRemoveScript \in Seq(Plain)
  BY <1>1, <1>2, PlainJoined, PlainGuarded DEF SpaceUpdateScript, MemberRemoveScript
<1>8. SpaceDisableScript \in Seq(Plain)
  <2>1. (IF call.dry THEN <<>> ELSE <<"disableDrive", "clearDefault">>) \in Seq(Plain)
    BY <1>1
  <2> QED
    BY <1>1, <2>1, PlainJoined, PlainGuarded DEF SpaceDisableScript
<1>9. MemberAddScript \in Seq(Plain) /\ MemberUpdateScript \in Seq(Plain)
  <2>1. <<"drive", "spaceRole">> \o Unless(call.byID, "member") \in Seq(Plain)
    BY <1>1, <1>2, PlainJoined
  <2> QED
    BY <1>1, <1>2, <2>1, PlainJoined, PlainGuarded DEF MemberAddScript, MemberUpdateScript
<1> QED
  BY <1>3, <1>4, <1>5, <1>6, <1>7, <1>8, <1>9

\* Disabling compares the accounts, enabling harms nobody.
LEMMA StateScriptSafe == Safe(UserStateScript)
<1>1. <<"guard", "user">> \in Seq(Plain) /\ Holds(<<"guard", "user">>, "user")
  <2>1. <<"guard", "user">>[2] = "user" /\ 2 \in 1 .. Len(<<"guard", "user">>)
    OBVIOUS
  <2> QED
    BY <2>1, PlainSteps DEF Holds
<1>2. CASE call.enable
  <2>1. "setState" \in Plain
    BY <1>2 DEF Plain, Hurts, Steps
  <2>2. /\ Unless(call.enable, "self") \in Seq(Plain) /\ <<"options">> \in Seq(Plain)
        /\ Unless(call.dry, "setState") \in Seq(Plain)
    BY <1>2, <2>1, PlainSteps DEF Unless
  <2>3. UserStateScript \in Seq(Plain)
    <3>1. <<"guard", "user">> \o Unless(call.enable, "self") \in Seq(Plain)
      BY <1>1, <2>2, PlainJoined
    <3>2. <<"guard", "user">> \o Unless(call.enable, "self") \o <<"options">> \in Seq(Plain)
      BY <2>2, <3>1, PlainJoined
    <3> QED
      BY <2>2, <3>2, PlainJoined DEF UserStateScript
  <2> QED
    BY <2>3, PlainSafe
<1>3. CASE ~call.enable
  <2>1. Unless(call.enable, "self") = <<"self">>
    BY <1>3 DEF Unless
  <2>2. <<"self">> \in Seq(Late) /\ <<"options">> \in Seq(Late)
        /\ Unless(call.dry, "setState") \in Seq(Late)
    BY PlainSteps, LateUnless
  <2> DEFINE a == <<"guard", "user">> \o <<"self">>
             b == a \o <<"options">>
  <2>3. <<"self">> # <<>> /\ <<"self">>[1] = "self"
    OBVIOUS
  <2>4. Safe(a) /\ Holds(a, "self")
    BY <1>1, <2>2, <2>3, Compares
  <2>5. Safe(b) /\ Holds(b, "self")
    BY <2>2, <2>4, Follows
  <2>6. Safe(b \o Unless(call.dry, "setState"))
    BY <2>2, <2>5, Follows
  <2> QED
    BY <2>1, <2>6 DEF UserStateScript
<1> QED
  BY <1>2, <1>3

LEMMA DeleteScriptSafe == Safe(UserDeleteScript)
<1> DEFINE a == <<"guard", "user", "self", "options">>
<1>1. a \in Seq(Steps) /\ Len(a) = 4
      /\ a[1] = "guard" /\ a[2] = "user" /\ a[3] = "self" /\ a[4] = "options"
  <2>1. a \in Seq(Steps)
    BY DEF Steps
  <2>2. Len(a) = 4 /\ a[1] = "guard" /\ a[2] = "user" /\ a[3] = "self" /\ a[4] = "options"
    OBVIOUS
  <2> QED
    BY <2>1, <2>2
<1> HIDE DEF a
<1>2. Safe(a) /\ Holds(a, "self")
  <2>1. \A i \in 1 .. Len(a) : i \in {1, 2, 3, 4}
    BY <1>1
  <2>2. 2 \in 1 .. 3 /\ 3 \in 1 .. Len(a)
    BY <1>1
  <2>3. \A i \in 1 .. Len(a) : a[i] \in {"guard", "user", "self", "options"}
    BY <1>1, <2>1
  <2>4. \A i \in 1 .. Len(a) : a[i] = "self" => i = 3
    BY <1>1, <2>1
  <2>5. \A j \in 1 .. Len(a) : 3 < j => a[j] = "options"
    BY <1>1, <2>1
  <2> QED
    BY <1>1, <2>2, <2>3, <2>4, <2>5 DEF Safe, Hurts, Holds
<1>3. Unless(call.dry, "deleteUser") \in Seq(Late)
  BY PlainSteps, LateUnless
<1> QED
  BY <1>2, <1>3, Follows DEF UserDeleteScript, a

\* Revoking compares the accounts, granting says that it grants.
LEMMA RoleScriptSafe == ASSUME call.op = "role" PROVE Safe(AppRoleScript)
<1> DEFINE a == <<"guard", "applications", "user", "assignments">>
<1>1. a \in Seq(Plain) /\ Holds(a, "user")
  <2>1. a[3] = "user" /\ 3 \in 1 .. Len(a)
    OBVIOUS
  <2> QED
    BY <2>1, PlainSteps DEF Holds
<1> HIDE DEF a
<1>2. CASE call.grant
  <2>1. "grantRole" \in Plain /\ "pickRole" \in Plain
    BY <1>2 DEF Plain, Hurts, Granting, Steps
  <2>2. <<"pickRole">> \in Seq(Plain) /\ Unless(call.dry, "grantRole") \in Seq(Plain)
    BY <2>1, PlainUnless
  <2>3. a \o <<"pickRole">> \o Unless(call.dry, "grantRole") \in Seq(Plain)
    BY <1>1, <2>2, PlainJoined
  <2> QED
    BY <1>2, <2>3, PlainSafe DEF AppRoleScript, a
<1>3. CASE ~call.grant
  <2>1. <<"self", "pickAssignment">> \in Seq(Late) /\ Unless(call.dry, "revokeRole") \in Seq(Late)
    BY PlainSteps, LateUnless
  <2>2. <<"self", "pickAssignment">> # <<>> /\ <<"self", "pickAssignment">>[1] = "self"
    OBVIOUS
  <2>3. Safe(a \o <<"self", "pickAssignment">>) /\ Holds(a \o <<"self", "pickAssignment">>, "self")
    BY <1>1, <2>1, <2>2, Compares
  <2>4. Safe(a \o <<"self", "pickAssignment">> \o Unless(call.dry, "revokeRole"))
    BY <2>1, <2>3, Follows
  <2> QED
    BY <1>3, <2>4 DEF AppRoleScript, a
<1> QED
  BY <1>2, <1>3

\* Whatever the call, its script looks the account up, compares it, and changes it.
LEMMA ScriptSafe ==
  ASSUME call \in ShareCalls \cup AdminCalls \cup RecoveryCalls, call.op \in AdminOps
  PROVE  Safe(Script)
<1>1. Script = AdminScript
  <2>1. call.op \notin ShareOps /\ call.op \notin RecoveryOps
    BY FamiliesAssumption
  <2> QED
    BY <2>1 DEF Script
<1>2. call.op \in {"userCreate", "userUpdate", "userState", "userDelete", "role",
                   "groupCreate", "groupUpdate", "groupDelete", "membership",
                   "spaceCreate", "spaceUpdate", "spaceDisable", "spaceRestore",
                   "spaceDelete", "memberAdd", "memberUpdate", "memberRemove"}
  BY AdministrationAssumption DEF AdminOps
<1>3. CASE call.op \in {"userCreate", "userUpdate", "groupCreate", "groupUpdate", "groupDelete",
                        "membership"}
  <2>1. AdminScript \in Seq(Plain)
    BY <1>3, PlainScripts DEF AdminScript
  <2> QED
    BY <1>1, <2>1, PlainSafe
<1>4. CASE call.op \in {"spaceCreate", "spaceUpdate", "spaceDisable", "spaceRestore",
                        "spaceDelete", "memberAdd", "memberUpdate", "memberRemove"}
  <2>1. AdminScript \in Seq(Plain)
    BY <1>4, PlainScripts DEF AdminScript
  <2> QED
    BY <1>1, <2>1, PlainSafe
<1>5. CASE call.op = "userState"
  BY <1>1, <1>5, StateScriptSafe DEF AdminScript
<1>6. CASE call.op = "userDelete"
  BY <1>1, <1>6, DeleteScriptSafe DEF AdminScript
<1>7. CASE call.op = "role"
  BY <1>1, <1>7, RoleScriptSafe DEF AdminScript
<1> QED
  BY <1>2, <1>3, <1>4, <1>5, <1>6, <1>7

-----------------------------------------------------------------------------
(* Steps *)

\* What an attempt at a step does to the command.
Shift(step) ==
  /\ todo # <<>> /\ Head(todo) = step /\ call' = call
  /\ \/ todo' \in {<<>>, todo} /\ seen' = seen
     \/ /\ todo' = Tail(todo)
        /\ DOMAIN seen \subseteq DOMAIN seen' /\ DOMAIN seen' \subseteq DOMAIN seen \cup {step}
        /\ step \in {"user", "self"} => step \in DOMAIN seen'
        /\ \A s \in DOMAIN seen : s # step => seen'[s] = seen[s]

\* The steps that are left after the first.
LEMMA Rests ==
  ASSUME Ordered, todo # <<>>
  PROVE  /\ Len(todo) \in Nat /\ Len(todo) > 0 /\ Head(todo) = todo[1]
         /\ Tail(todo) \in Seq(Steps) /\ Len(Tail(todo)) = Len(todo) - 1
         /\ \A i \in 1 .. Len(todo) - 1 : Tail(todo)[i] = todo[i + 1]
         /\ <<>> \o Tail(todo) = Tail(todo)
<1>1. todo \in Seq(Steps)
  BY DEF Ordered
<1>2. /\ Tail(todo) \in Seq(Steps) /\ Len(Tail(todo)) = Len(todo) - 1
      /\ \A i \in 1 .. Len(Tail(todo)) : Tail(todo)[i] = todo[i + 1]
  BY <1>1, HeadTailProperties
<1>3. Len(todo) \in Nat \ {0} /\ Head(todo) = todo[1]
  BY <1>1, EmptySeq
<1>4. <<>> \o Tail(todo) = Tail(todo)
  BY <1>2, ConcatEmptySeq
<1> QED
  BY <1>2, <1>3, <1>4

\* A step other than the comparison keeps the order.
LEMMA ShiftOrdered ==
  ASSUME Ordered, NEW step, Shift(step),
         step = "self" /\ Checked' => Checked \/ seen["user"] # Self
  PROVE  Ordered'
<1>1. call' = call /\ todo # <<>> /\ Head(todo) = step
  BY DEF Shift
<1>2. CASE todo' \in {<<>>, todo} /\ seen' = seen
  <2>1. CASE todo' = todo
    BY <1>1, <1>2, <2>1 DEF Ordered, Checked, Hurts, Granting
  <2>2. CASE todo' = <<>>
    <3>1. todo' \in Seq(Steps) /\ \A i \in 1 .. Len(todo') : FALSE
      BY <2>2, EmptySeq
    <3>2. Checked' => "user" \in DOMAIN seen' /\ seen'["user"] # Self
      BY <1>2 DEF Ordered, Checked
    <3> QED
      BY <3>1, <3>2 DEF Ordered
  <2> QED
    BY <1>2, <2>1, <2>2
<1>3. CASE /\ todo' = Tail(todo)
           /\ DOMAIN seen \subseteq DOMAIN seen' /\ DOMAIN seen' \subseteq DOMAIN seen \cup {step}
           /\ step \in {"user", "self"} => step \in DOMAIN seen'
           /\ \A s \in DOMAIN seen : s # step => seen'[s] = seen[s]
  <2> DEFINE L == Len(todo)
  <2>1. /\ L \in Nat /\ L > 0 /\ todo[1] = step
        /\ todo' \in Seq(Steps) /\ Len(todo') = L - 1
        /\ \A i \in 1 .. L - 1 : todo'[i] = todo[i + 1]
    BY <1>1, <1>3, Rests
  <2>2. \A i \in 1 .. L :
          /\ Hurts(todo[i]) => Checked \/ \E j \in 1 .. i : todo[j] = "self"
          /\ todo[i] = "self" => "user" \in DOMAIN seen \/ \E j \in 1 .. i : todo[j] = "user"
          /\ todo[i] = "self" => \A j \in 1 .. L : i < j => todo[j] # "user"
          /\ todo[i] = "grantRole" => Granting
    BY DEF Ordered
  <2>3. Checked => /\ "user" \in DOMAIN seen /\ seen["user"] # Self
                   /\ \A i \in 1 .. L : todo[i] # "user"
    BY DEF Ordered
  <2> HIDE DEF L
  <2>4. \A i \in 1 .. L - 1 : i + 1 \in 1 .. L /\ 1 < i + 1
    BY <2>1
  <2>5. 1 \in 1 .. L /\ \A j \in 1 .. 1 : j = 1
    BY <2>1
  <2>6. step = "self" => "user" \in DOMAIN seen
    BY <2>1, <2>2, <2>5
  <2>7. step = "self" => \A i \in 1 .. L - 1 : todo[i + 1] # "user"
    BY <2>1, <2>2, <2>4, <2>5
  <2>8. Checked' => /\ "user" \in DOMAIN seen' /\ seen'["user"] # Self
                    /\ \A i \in 1 .. L - 1 : todo'[i] # "user"
    <3>1. CASE step = "self"
      <4>1. "user" \in DOMAIN seen /\ seen["user"] # Self /\ "user" # step
        BY <1>3, <2>3, <2>6, <3>1 DEF Checked
      <4>2. "user" \in DOMAIN seen' /\ seen'["user"] = seen["user"]
        BY <1>3, <4>1
      <4> QED
        BY <2>1, <2>7, <3>1, <4>1, <4>2
    <3>2. CASE step # "self"
      <4>1. Checked' => Checked
        BY <1>3, <3>2 DEF Checked
      <4>2. Checked => step # "user"
        BY <2>1, <2>3, <2>5
      <4>3. Checked => "user" \in DOMAIN seen' /\ seen'["user"] = seen["user"]
        BY <1>3, <2>3, <4>2
      <4>4. Checked => \A i \in 1 .. L - 1 : todo'[i] # "user"
        BY <2>1, <2>3, <2>4
      <4> QED
        BY <2>3, <4>1, <4>3, <4>4
    <3> QED
      BY <3>1, <3>2
  <2>9. Checked => Checked'
    BY <1>3 DEF Checked
  <2>10. ASSUME NEW i \in 1 .. L - 1
         PROVE  /\ Hurts(todo[i + 1]) => Checked' \/ \E j \in 1 .. i : todo'[j] = "self"
                /\ todo'[i] = "self" =>
                     "user" \in DOMAIN seen' \/ \E j \in 1 .. i : todo'[j] = "user"
                /\ todo'[i] = "self" => \A j \in 1 .. L - 1 : i < j => todo'[j] # "user"
                /\ todo'[i] = "grantRole" => Granting
    <3>1. i + 1 \in 1 .. L /\ todo'[i] = todo[i + 1]
      BY <2>1, <2>4
    <3>2. \A j \in 1 .. i + 1 : j = 1 \/ (j - 1 \in 1 .. i /\ todo'[j - 1] = todo[j])
      <4>1. \A j \in 1 .. i + 1 : j # 1 =>
              /\ j - 1 \in 1 .. i /\ j - 1 \in 1 .. L - 1 /\ (j - 1) + 1 = j
        BY <2>1
      <4> QED
        BY <2>1, <4>1
    <3>3. Hurts(todo[i + 1]) => Checked' \/ \E j \in 1 .. i : todo'[j] = "self"
      <4>1. Hurts(todo[i + 1]) => Checked \/ \E j \in 1 .. i + 1 : todo[j] = "self"
        BY <2>2, <3>1
      <4>2. todo[1] = "self" => Checked'
        BY <1>3, <2>1 DEF Checked
      <4> QED
        BY <2>9, <3>2, <4>1, <4>2
    <3>4. todo'[i] = "self" => "user" \in DOMAIN seen' \/ \E j \in 1 .. i : todo'[j] = "user"
      <4>1. todo[i + 1] = "self" =>
              "user" \in DOMAIN seen \/ \E j \in 1 .. i + 1 : todo[j] = "user"
        BY <2>2, <3>1
      <4>2. todo[1] = "user" => "user" \in DOMAIN seen'
        BY <1>3, <2>1
      <4>3. "user" \in DOMAIN seen => "user" \in DOMAIN seen'
        BY <1>3
      <4>4. (\E j \in 1 .. i + 1 : todo[j] = "user") =>
              todo[1] = "user" \/ \E j \in 1 .. i : todo'[j] = "user"
        BY <3>2
      <4> QED
        BY <3>1, <4>1, <4>2, <4>3, <4>4
    <3>5. ASSUME todo'[i] = "self", NEW j \in 1 .. L - 1, i < j PROVE todo'[j] # "user"
      <4>1. j + 1 \in 1 .. L /\ i + 1 < j + 1 /\ todo'[j] = todo[j + 1]
        BY <2>1, <2>4, <3>5
      <4> QED
        BY <2>2, <3>1, <3>5, <4>1
    <3>6. todo'[i] = "grantRole" => Granting
      BY <2>2, <3>1
    <3> QED
      BY <3>3, <3>4, <3>5, <3>6
  <2>11. \A i \in 1 .. L - 1 :
           /\ \/ todo'[i] \in {"deleteUser", "revokeRole"}
              \/ todo'[i] = "setState" /\ ~call'.enable
              => Checked' \/ \E j \in 1 .. i : todo'[j] = "self"
           /\ todo'[i] = "self" =>
                "user" \in DOMAIN seen' \/ \E j \in 1 .. i : todo'[j] = "user"
           /\ todo'[i] = "self" => \A j \in 1 .. L - 1 : i < j => todo'[j] # "user"
           /\ todo'[i] = "grantRole" => call'.op = "role" /\ call'.grant
    BY <1>1, <2>1, <2>10 DEF Hurts, Granting
  <2> QED
    BY <2>1, <2>8, <2>11 DEF Ordered, Hurts, Granting
<1> QED
  BY <1>2, <1>3 DEF Shift

\* A request that only reads, and a decision.
LEMMA Asking ==
  ASSUME Ordered, NEW step, NEW able, NEW answer, NEW error, Ask(step, able, answer, error)
  PROVE  Shift(step)
<1>1. todo # <<>> /\ Head(todo) = step
  BY DEF Ask, AskThen, At
<1>2. <<>> \o Tail(todo) = Tail(todo)
  BY <1>1, Rests
<1> QED
  BY <1>1, <1>2 DEF Ask, AskThen, At, Answered, Learn, Continue, Refused, Fail, Again, Shift

\* A decision learns nothing.
LEMMA Deciding ==
  ASSUME Ordered, NEW step, step \notin {"user", "self"}, NEW good, NEW error,
         Decide(step, good, error)
  PROVE  Shift(step)
<1>1. todo # <<>> /\ Head(todo) = step
  BY DEF Decide, At
<1>2. <<>> \o Tail(todo) = Tail(todo)
  BY <1>1, Rests
<1> QED
  BY <1>1, <1>2 DEF Decide, At, Proceed, Continue, Refused, Fail, Shift

\* A change of an account, a group or a Space.
LEMMA ChangingUser ==
  ASSUME Ordered, NEW step, NEW id, NEW able, NEW record, ChangeUser(step, id, able, record)
  PROVE  Shift(step) /\ (user' = user \/ (id # 0 /\ able /\ user' = [user EXCEPT ![id] = record]))
<1>1. todo # <<>> /\ Head(todo) = step
  BY DEF ChangeUser, Change, At
<1>2. <<>> \o Tail(todo) = Tail(todo)
  BY <1>1, Rests
<1>3. Shift(step)
  BY <1>1, <1>2 DEF ChangeUser, Change, At, Answered, Learn, Continue, Refused, Fail, Again, Shift
<1>4. user' = user \/ (id # 0 /\ able /\ user' = [user EXCEPT ![id] = record])
  BY DEF ChangeUser, Change
<1> QED
  BY <1>3, <1>4

LEMMA ChangingGroup ==
  ASSUME Ordered, NEW step, NEW id, NEW able, NEW record, ChangeGroup(step, id, able, record)
  PROVE  Shift(step) /\ user' = user
<1>1. todo # <<>> /\ Head(todo) = step
  BY DEF ChangeGroup, Change, At
<1>2. <<>> \o Tail(todo) = Tail(todo)
  BY <1>1, Rests
<1>3. Shift(step)
  BY <1>1, <1>2 DEF ChangeGroup, Change, At, Answered, Learn, Continue, Refused, Fail, Again, Shift
<1> QED
  BY <1>3 DEF ChangeGroup

LEMMA ChangingDrive ==
  ASSUME Ordered, NEW step, NEW id, NEW able, NEW record, ChangeDrive(step, id, able, record)
  PROVE  Shift(step) /\ user' = user
<1>1. todo # <<>> /\ Head(todo) = step
  BY DEF ChangeDrive, Change, At
<1>2. <<>> \o Tail(todo) = Tail(todo)
  BY <1>1, Rests
<1>3. Shift(step)
  BY <1>1, <1>2 DEF ChangeDrive, Change, At, Answered, Learn, Continue, Refused, Fail, Again, Shift
<1> QED
  BY <1>3 DEF ChangeDrive

\* What a step does to the order and to the account that runs the command.
Kept == call' = call /\ Ordered' /\ Accounted' /\ SelfKept'

\* A step that changes no account.
LEMMA AsideKept ==
  ASSUME Ordered, Accounted, SelfKept, NEW step, Shift(step), user' = user,
         step = "self" /\ Checked' => Checked \/ seen["user"] # Self
  PROVE  Kept
<1>1. Ordered'
  BY ShiftOrdered
<1>2. call' = call
  BY DEF Shift
<1> QED
  BY <1>1, <1>2 DEF Kept, Accounted, SelfKept

\* The lookups.
LEMMA LookUpsKept ==
  ASSUME Ordered, Accounted, SelfKept,
         \/ Guard \/ LookUpUser \/ LookUpGroup \/ LookUpDrive
         \/ Applications \/ Assignments \/ SpaceRole \/ LookUpMember
  PROVE  Kept
<1>1. CASE Guard
  <2>1. Shift("guard") /\ user' = user
    BY <1>1, Asking DEF Guard, administration
  <2> QED
    BY <2>1, AsideKept
<1>2. CASE LookUpUser
  <2>1. Shift("user") /\ user' = user
    BY <1>2, Asking DEF LookUpUser, administration
  <2> QED
    BY <2>1, AsideKept
<1>3. CASE LookUpGroup
  <2>1. Shift("group") /\ user' = user
    BY <1>3, Asking DEF LookUpGroup, administration
  <2> QED
    BY <2>1, AsideKept
<1>4. CASE LookUpDrive
  <2>1. Shift("drive") /\ user' = user
    BY <1>4, Asking DEF LookUpDrive, administration
  <2> QED
    BY <2>1, AsideKept
<1>5. CASE Applications
  <2>1. Shift("applications") /\ user' = user
    BY <1>5, Asking DEF Applications, administration
  <2> QED
    BY <2>1, AsideKept
<1>6. CASE Assignments
  <2>1. Shift("assignments") /\ user' = user
    BY <1>6, Asking DEF Assignments, administration
  <2> QED
    BY <2>1, AsideKept
<1>7. CASE SpaceRole
  <2>1. Shift("spaceRole") /\ user' = user
    BY <1>7, Asking DEF SpaceRole, administration
  <2> QED
    BY <2>1, AsideKept
<1>8. CASE LookUpMember
  <2>1. Shift("member") /\ user' = user
    BY <1>8, Asking DEF LookUpMember, administration
  <2> QED
    BY <2>1, AsideKept
<1> QED
  BY <1>1, <1>2, <1>3, <1>4, <1>5, <1>6, <1>7, <1>8

\* The decisions.
LEMMA DecisionsKept ==
  ASSUME Ordered, Accounted, SelfKept, Options \/ RejectSelf \/ PickRole \/ PickAssignment \/ ClearDefault
  PROVE  Kept
<1>1. CASE Options
  <2>1. Shift("options")
    <3>1. CASE Ask("options", Written \cap ReadOnly = {}, TRUE, "failed")
      BY <3>1, Asking
    <3>2. CASE Fault /\ Proceed /\ UNCHANGED <<seen, carried, unsure>>
      <4>1. todo # <<>> /\ Head(todo) = "options"
        BY <1>1 DEF Options, At
      <4>2. <<>> \o Tail(todo) = Tail(todo)
        BY <4>1, Rests
      <4> QED
        BY <3>2, <4>1, <4>2 DEF Proceed, Continue, Shift
    <3> QED
      BY <1>1, <3>1, <3>2 DEF Options
  <2> QED
    BY <1>1, <2>1, AsideKept DEF Options, administration
<1>2. CASE RejectSelf
  <2>1. Shift("self") /\ user' = user
    BY <1>2, Asking DEF RejectSelf, administration
  <2>2. Checked' => Checked \/ seen["user"] # Self
    BY <1>2 DEF RejectSelf, Ask, AskThen, Refused, Fail, Again, Checked
  <2> QED
    BY <2>1, <2>2, AsideKept
<1>3. CASE PickRole
  <2>1. Shift("pickRole") /\ user' = user
    BY <1>3, Deciding DEF PickRole, administration
  <2> QED
    BY <2>1, AsideKept
<1>4. CASE PickAssignment
  <2>1. Shift("pickAssignment") /\ user' = user
    BY <1>4, Deciding DEF PickAssignment, administration
  <2> QED
    BY <2>1, AsideKept
<1>5. CASE ClearDefault
  <2>1. todo # <<>> /\ Head(todo) = "clearDefault" /\ user' = user
    BY <1>5 DEF ClearDefault, At
  <2>2. <<>> \o Tail(todo) = Tail(todo)
    BY <2>1, Rests
  <2>3. Shift("clearDefault")
    BY <1>5, <2>1, <2>2 DEF ClearDefault, Proceed, Continue, Fail, Shift
  <2> QED
    BY <2>1, <2>3, AsideKept
<1> QED
  BY <1>1, <1>2, <1>3, <1>4, <1>5

\* Changes of groups and Spaces.
LEMMA OthersKept ==
  ASSUME Ordered, Accounted, SelfKept,
         \/ CreateGroup \/ UpdateGroup \/ DeleteGroup \/ ChangeMembership
         \/ CreateDrive \/ UpdateDrive \/ DisableDrive \/ RestoreDrive \/ PurgeDrive
         \/ AddMember \/ UpdateMember \/ RemoveMember
  PROVE  Kept
<1>1. CASE CreateGroup
  <2>1. Shift("createGroup") /\ user' = user
    BY <1>1, ChangingGroup DEF CreateGroup
  <2> QED
    BY <2>1, AsideKept
<1>2. CASE UpdateGroup
  <2>1. Shift("updateGroup") /\ user' = user
    BY <1>2, ChangingGroup DEF UpdateGroup
  <2> QED
    BY <2>1, AsideKept
<1>3. CASE DeleteGroup
  <2>1. Shift("deleteGroup") /\ user' = user
    BY <1>3, ChangingGroup DEF DeleteGroup
  <2> QED
    BY <2>1, AsideKept
<1>4. CASE ChangeMembership
  <2>1. Shift("changeMembership") /\ user' = user
    BY <1>4, ChangingGroup DEF ChangeMembership
  <2> QED
    BY <2>1, AsideKept
<1>5. CASE CreateDrive
  <2>1. Shift("createDrive") /\ user' = user
    BY <1>5, ChangingDrive DEF CreateDrive
  <2> QED
    BY <2>1, AsideKept
<1>6. CASE UpdateDrive
  <2>1. Shift("updateDrive") /\ user' = user
    BY <1>6, ChangingDrive DEF UpdateDrive
  <2> QED
    BY <2>1, AsideKept
<1>7. CASE DisableDrive
  <2>1. Shift("disableDrive") /\ user' = user
    BY <1>7, ChangingDrive DEF DisableDrive
  <2> QED
    BY <2>1, AsideKept
<1>8. CASE RestoreDrive
  <2>1. Shift("restoreDrive") /\ user' = user
    BY <1>8, ChangingDrive DEF RestoreDrive
  <2> QED
    BY <2>1, AsideKept
<1>9. CASE PurgeDrive
  <2>1. Shift("purgeDrive") /\ user' = user
    BY <1>9, ChangingDrive DEF PurgeDrive
  <2> QED
    BY <2>1, AsideKept
<1>10. CASE AddMember
  <2>1. Shift("addMember") /\ user' = user
    BY <1>10, ChangingDrive DEF AddMember
  <2> QED
    BY <2>1, AsideKept
<1>11. CASE UpdateMember
  <2>1. Shift("updateMember") /\ user' = user
    BY <1>11, ChangingDrive DEF UpdateMember
  <2> QED
    BY <2>1, AsideKept
<1>12. CASE RemoveMember
  <2>1. Shift("removeMember") /\ user' = user
    BY <1>12, ChangingDrive DEF RemoveMember
  <2> QED
    BY <2>1, AsideKept
<1> QED
  BY <1>1, <1>2, <1>3, <1>4, <1>5, <1>6, <1>7, <1>8, <1>9, <1>10, <1>11, <1>12

\* A change of an account that leaves Self what it must keep.
LEMMA RecordKept ==
  ASSUME Ordered, Accounted, SelfKept, NEW step, step # "self", Shift(step),
         NEW id, NEW record, user' = [user EXCEPT ![id] = record],
         id = Self =>
           /\ DOMAIN record = DOMAIN user[Self] /\ record.there /\ record.enabled
           /\ record.roles = user[Self].roles \/ Granting
  PROVE  Kept
<1>1. Ordered' /\ call' = call
  BY ShiftOrdered DEF Shift
<1>2. Self \in DOMAIN user /\ DOMAIN user = Users
  BY AdministrationAssumption DEF Accounted
<1>3. DOMAIN user' = Users /\ user'[Self] = IF id = Self THEN record ELSE user[Self]
  BY <1>2
<1> QED
  BY <1>1, <1>3 DEF Kept, Accounted, SelfKept, Granting

\* Changes of accounts: the one of Self is disabled, deleted or loses a role only after
\* the comparison, which would have ended the command.
LEMMA AccountsKept ==
  ASSUME Ordered, Accounted, SelfKept,
         CreateUser \/ UpdateUser \/ SetState \/ DeleteUser \/ GrantRole \/ RevokeRole
  PROVE  Kept
<1> DEFINE id == seen["user"]
<1>1. ASSUME todo # <<>>, Hurts(Head(todo)) PROVE id # Self
  <2>1. 1 \in 1 .. Len(todo) /\ Head(todo) = todo[1] /\ \A j \in 1 .. 1 : j = 1
    BY <1>1, Rests
  <2>2. Checked \/ todo[1] = "self"
    BY <1>1, <2>1 DEF Ordered
  <2>3. todo[1] # "self"
    BY <1>1, <2>1 DEF Hurts
  <2> QED
    BY <2>2, <2>3 DEF Ordered
<1>2. ASSUME todo # <<>>, Head(todo) = "grantRole" PROVE Granting
  <2>1. 1 \in 1 .. Len(todo) /\ Head(todo) = todo[1]
    BY <1>2, Rests
  <2> QED
    BY <1>2, <2>1 DEF Ordered
<1>3. /\ Self \in Users /\ DOMAIN user[Self] = {"there", "name", "enabled", "fields", "roles"}
      /\ user[Self].there /\ user[Self].enabled
  BY AdministrationAssumption DEF Accounted, SelfKept
<1>4. CASE CreateUser
  <2> DEFINE record == [there |-> TRUE, name |-> call.name, enabled |-> ~call.disabled,
                        fields |-> {}, roles |-> {}]
  <2>1. /\ Shift("createUser")
        /\ user' = user \/ (FreeUser # 0 /\ user' = [user EXCEPT ![FreeUser] = record])
    BY <1>4, ChangingUser DEF CreateUser
  <2>2. FreeUser # 0 => FreeUser # Self
    <3> DEFINE free == {u \in Users : ~user[u].there /\ \A v \in Users : ~user[v].there => u <= v}
    <3>1. Cardinality(free) = 1 => free # {}
      BY FS_EmptySet
    <3>2. (CHOOSE u \in free : TRUE) # Self \/ free = {}
      BY <1>3
    <3> QED
      BY <3>1, <3>2 DEF FreeUser, OnlyOne
  <2> QED
    BY <2>1, <2>2, AsideKept, RecordKept
<1>5. CASE UpdateUser
  <2> DEFINE record == [user[id] EXCEPT !.fields = @ \cup call.fields]
  <2>1. Shift("updateUser") /\ (user' = user \/ user' = [user EXCEPT ![id] = record])
    BY <1>5, ChangingUser DEF UpdateUser
  <2>2. id = Self => /\ DOMAIN record = DOMAIN user[Self] /\ record.there /\ record.enabled
                     /\ record.roles = user[Self].roles
    BY <1>3
  <2> QED
    BY <2>1, <2>2, AsideKept, RecordKept
<1>6. CASE SetState
  <2> DEFINE record == [user[id] EXCEPT !.enabled = call.enable]
  <2>1. Shift("setState") /\ (user' = user \/ user' = [user EXCEPT ![id] = record])
    BY <1>6, ChangingUser DEF SetState
  <2>2. id = Self => call.enable
    BY <1>1, <2>1 DEF Shift, Hurts
  <2>3. id = Self => /\ DOMAIN record = DOMAIN user[Self] /\ record.there /\ record.enabled
                     /\ record.roles = user[Self].roles
    BY <1>3, <2>2
  <2> QED
    BY <2>1, <2>3, AsideKept, RecordKept
<1>7. CASE DeleteUser
  <2> DEFINE record == [user[id] EXCEPT !.there = FALSE, !.roles = {}]
  <2>1. Shift("deleteUser") /\ (user' = user \/ user' = [user EXCEPT ![id] = record])
    BY <1>7, ChangingUser DEF DeleteUser
  <2>2. id # Self
    BY <1>1, <2>1 DEF Shift, Hurts
  <2> QED
    BY <2>1, <2>2, AsideKept, RecordKept
<1>8. CASE GrantRole
  <2>1. PICK old \in {user[id].roles, {}} :
          ChangeUser("grantRole", id, user[id].there,
                     [user[id] EXCEPT !.roles = old \cup {Chosen(AppRoles)}])
    BY <1>8 DEF GrantRole
  <2> DEFINE record == [user[id] EXCEPT !.roles = old \cup {Chosen(AppRoles)}]
  <2>2. Shift("grantRole") /\ (user' = user \/ user' = [user EXCEPT ![id] = record])
    BY <2>1, ChangingUser
  <2>3. Granting
    BY <1>2, <2>2 DEF Shift
  <2>4. id = Self => DOMAIN record = DOMAIN user[Self] /\ record.there /\ record.enabled
    BY <1>3
  <2> QED
    BY <2>2, <2>3, <2>4, AsideKept, RecordKept
<1>9. CASE RevokeRole
  <2> DEFINE role == Chosen({r \in AppRoles : r.id \in seen["assignments"]})
             record == [user[id] EXCEPT !.roles = @ \ {role}]
  <2>1. Shift("revokeRole") /\ (user' = user \/ user' = [user EXCEPT ![id] = record])
    BY <1>9, ChangingUser DEF RevokeRole
  <2>2. id # Self
    BY <1>1, <2>1 DEF Shift, Hurts
  <2> QED
    BY <2>1, <2>2, AsideKept, RecordKept
<1> QED
  BY <1>4, <1>5, <1>6, <1>7, <1>8, <1>9

\* Other administrators change names, groups and Spaces, and delete accounts but this one.
LEMMA MeanwhileKept ==
  ASSUME Ordered, Accounted, SelfKept,
         RenameUser \/ LoseUser \/ AlterGroup \/ AlterDrive \/ SessionAges
  PROVE  Kept
<1>1. todo' = todo /\ seen' = seen /\ call' = call
  BY DEF RenameUser, LoseUser, AlterGroup, AlterDrive, SessionAges, Meanwhile, control
<1>2. Ordered'
  BY <1>1 DEF Ordered, Checked, Hurts, Granting
<1>3. Self \in Users /\ DOMAIN user = Users
      /\ DOMAIN user[Self] = {"there", "name", "enabled", "fields", "roles"}
  BY AdministrationAssumption DEF Accounted
<1>4. /\ DOMAIN user' = Users /\ DOMAIN user'[Self] = DOMAIN user[Self]
      /\ user'[Self].there = user[Self].there /\ user'[Self].enabled = user[Self].enabled
      /\ user'[Self].roles = user[Self].roles
  <2>1. CASE RenameUser
    <3>1. PICK u \in Users, n \in Names : user' = [user EXCEPT ![u].name = n]
      BY <2>1 DEF RenameUser
    <3> QED
      BY <1>3, <3>1
  <2>2. CASE LoseUser
    <3>1. PICK u \in Users \ {Self} : user' = [user EXCEPT ![u].there = FALSE, ![u].roles = {}]
      BY <2>2 DEF LoseUser
    <3> QED
      BY <1>3, <3>1
  <2>3. CASE AlterGroup \/ AlterDrive \/ SessionAges
    <3>1. user' = user
      BY <2>3 DEF AlterGroup, AlterDrive, SessionAges
    <3> QED
      BY <1>3, <3>1
  <2> QED
    BY <2>1, <2>2, <2>3
<1> QED
  BY <1>1, <1>2, <1>3, <1>4 DEF Kept, Accounted, SelfKept

\* Every step of these commands.
LEMMA AdminKept == ASSUME Ordered, Accounted, SelfKept, AdminNext PROVE Kept
<1>1. CASE Guard \/ LookUpUser \/ LookUpGroup \/ LookUpDrive
           \/ Applications \/ Assignments \/ SpaceRole \/ LookUpMember
  BY <1>1, LookUpsKept
<1>2. CASE Options \/ RejectSelf \/ PickRole \/ PickAssignment \/ ClearDefault
  BY <1>2, DecisionsKept
<1>3. CASE CreateGroup \/ UpdateGroup \/ DeleteGroup \/ ChangeMembership
           \/ CreateDrive \/ UpdateDrive \/ DisableDrive \/ RestoreDrive \/ PurgeDrive
           \/ AddMember \/ UpdateMember \/ RemoveMember
  BY <1>3, OthersKept
<1>4. CASE CreateUser \/ UpdateUser \/ SetState \/ DeleteUser \/ GrantRole \/ RevokeRole
  BY <1>4, AccountsKept
<1>5. CASE RenameUser \/ LoseUser \/ AlterGroup \/ AlterDrive \/ SessionAges
  BY <1>5, MeanwhileKept
<1> QED
  BY <1>1, <1>2, <1>3, <1>4, <1>5 DEF AdminNext

\* The share commands stay the command they are.
LEMMA SharesSame == ASSUME ShareNext PROVE call' = call
<1>1. CASE Capabilities \/ Stat \/ AskRoles \/ AskRecipient \/ ListOutgoing \/ ListReceived
  BY <1>1 DEF Capabilities, Stat, AskRoles, AskRecipient, ListOutgoing, ListReceived, Ask, AskThen, Answered, Continue, Refused, Fail, Again
<1>2. CASE LoadLink
  BY <1>2 DEF LoadLink, Load, Ask, AskThen, Answered, Continue, Refused, Fail, Again
<1>3. CASE CreateLink \/ Respond
  BY <1>3 DEF CreateLink, Respond, Change, Answered, Continue, Refused, Fail, Again
<1>4. CASE Invite
  BY <1>4 DEF Invite, Change, Answered, Continue, Refused, Fail, Again
<1>5. CASE PatchRole
  BY <1>5 DEF PatchRole, Change, Answered, Continue, Refused, Fail, Again
<1>6. CASE Remove
  BY <1>6 DEF Remove, Change, Answered, Continue, Refused, Fail, Again
<1>7. CASE SetPassword \/ PatchLink \/ RemovePassword
  BY <1>7 DEF SetPassword, PatchLink, RemovePassword, ChangeLink, Change, Answered, Continue, Refused, Fail, Again
<1>8. CASE EditLink \/ WithdrawShare \/ ReplaceItem \/ RenamePerson
  BY <1>8 DEF EditLink, WithdrawShare, ReplaceItem, RenamePerson, Edit, control
<1> QED
  BY <1>1, <1>2, <1>3, <1>4, <1>5, <1>6, <1>7, <1>8 DEF ShareNext

\* So do the commands of trash and versions.
LEMMA RecoverySame == ASSUME RecoveryNext PROVE call' = call
<1>1. CASE ListTrash \/ StatFile \/ ListVersions \/ GetVersion
  BY <1>1 DEF ListTrash, StatFile, ListVersions, GetVersion, Ask, AskThen, Answered, Continue, Refused, Fail, Again
<1>2. CASE RestoreItem
  BY <1>2 DEF RestoreItem, MoveBack, Change, Answered, Continue, Refused, Fail, Again
<1>3. CASE RemoveItem
  BY <1>3 DEF RemoveItem, Change, Answered, Continue, Refused, Fail, Again
<1>4. CASE EmptyTrash
  BY <1>4 DEF EmptyTrash, Change, Answered, Continue, Refused, Fail, Again
<1>5. CASE CopyVersion
  BY <1>5 DEF CopyVersion, Change, Answered, Continue, Refused, Fail, Again
<1>6. CASE AlreadyEmpty
  BY <1>6 DEF AlreadyEmpty, Finish
<1>7. CASE ResolveVersion \/ LookLocal
  BY <1>7 DEF ResolveVersion, LookLocal, Decide, Proceed, Continue, Refused, Fail
<1>8. CASE Receive \/ ReplaceLocal
  BY <1>8 DEF Receive, ReplaceLocal, Proceed, Continue, Fail
<1>9. CASE Discard \/ Reinstate \/ MoveFile \/ SaveFile \/ SaveLocal
  BY <1>9 DEF Discard, Reinstate, MoveFile, SaveFile, SaveLocal, OthersAct, control
<1> QED
  BY <1>1, <1>2, <1>3, <1>4, <1>5, <1>6, <1>7, <1>8, <1>9 DEF RecoveryNext

\* At the beginning the accounts are those of the assumption, and nothing runs.
LEMMA InitInvariant == ASSUME CommandInit PROVE SelfInv
<1>1. user = FirstUsers /\ todo = <<>> /\ seen = <<>>
      /\ call \in ShareCalls \cup AdminCalls \cup RecoveryCalls
  BY DEF CommandInit, RequestsInit, AdminInit
<1>2. Accounted /\ SelfKept
  BY <1>1, AdministrationAssumption DEF Accounted, SelfKept
<1>3. Ordered
  <2>1. todo \in Seq(Steps) /\ \A i \in 1 .. Len(todo) : FALSE
    BY <1>1, EmptySeq
  <2>2. "self" \notin DOMAIN seen
    BY <1>1
  <2> QED
    BY <2>1, <2>2 DEF Ordered, Checked
<1> QED
  BY <1>1, <1>2, <1>3 DEF SelfInv

\* Starting a command forgets what the run before it has seen: it compares again.
LEMMA StartInvariant == ASSUME SelfInv, Start PROVE SelfInv'
<1>1. todo' = Script /\ seen' = <<>> /\ call' = call /\ user' = user
  BY DEF Start, Run, administration
<1>2. Accounted' /\ SelfKept'
  BY <1>1 DEF SelfInv, Accounted, SelfKept
<1>3. ASSUME call.op \in AdminOps PROVE Ordered'
  <2>1. Safe(Script)
    BY <1>3, ScriptSafe DEF SelfInv
  <2>2. "self" \notin DOMAIN seen'
    BY <1>1
  <2> HIDE DEF Script
  <2> QED
    BY <1>1, <2>1, <2>2 DEF Ordered, Safe, Checked, Hurts, Granting
<1> QED
  BY <1>1, <1>2, <1>3 DEF SelfInv

\* A step that leaves accounts and command alone and is of another family, a death,
\* or no step.
LEMMA StillInvariant ==
  ASSUME SelfInv, call' = call, user' = user,
         \/ call.op \notin AdminOps
         \/ todo' \in {<<>>, todo} /\ seen' = seen
  PROVE  SelfInv'
<1>1. Accounted' /\ SelfKept'
  BY DEF SelfInv, Accounted, SelfKept
<1>2. ASSUME call.op \in AdminOps PROVE Ordered'
  <2>1. CASE todo' = todo
    BY <1>2, <2>1 DEF SelfInv, Ordered, Checked, Hurts, Granting
  <2>2. CASE todo' = <<>>
    <3>1. todo' \in Seq(Steps) /\ \A i \in 1 .. Len(todo') : FALSE
      BY <2>2, EmptySeq
    <3>2. Checked' => "user" \in DOMAIN seen' /\ seen'["user"] # Self
      BY <1>2 DEF SelfInv, Ordered, Checked
    <3> QED
      BY <3>1, <3>2 DEF Ordered
  <2> QED
    BY <1>2, <2>1, <2>2
<1> QED
  BY <1>1, <1>2 DEF SelfInv

\* The invariant holds in every state.
LEMMA Invariance == CommandSpec => []SelfInv
<1>1. ASSUME SelfInv, [CommandNext]_commandVars PROVE SelfInv'
  <2>1. CASE Start
    BY <1>1, <2>1, StartInvariant
  <2>2. CASE Killed
    <3>1. call' = call /\ user' = user /\ todo' = <<>> /\ seen' = seen
      BY <2>2 DEF Killed, Die, administration
    <3> QED
      BY <1>1, <3>1, StillInvariant
  <2>3. CASE Rest \/ UNCHANGED commandVars
    <3>1. call' = call /\ user' = user /\ todo' = todo /\ seen' = seen
      BY <2>3 DEF Rest, commandVars, control, administration
    <3> QED
      BY <1>1, <3>1, StillInvariant
  <2>4. CASE call.op \in ShareOps /\ ShareNext /\ UNCHANGED <<administration, recovery>>
    <3>1. call' = call /\ user' = user
      BY <2>4, SharesSame DEF administration
    <3>2. call.op \notin AdminOps
      BY <2>4, FamiliesAssumption
    <3> QED
      BY <1>1, <3>1, <3>2, StillInvariant
  <2>5. CASE call.op \in AdminOps /\ AdminNext /\ UNCHANGED <<sharing, recovery>>
    <3>1. Kept
      BY <1>1, <2>5, AdminKept DEF SelfInv
    <3> QED
      BY <1>1, <3>1 DEF SelfInv, Kept
  <2>6. CASE call.op \in RecoveryOps /\ RecoveryNext /\ UNCHANGED <<sharing, administration>>
    <3>1. call' = call /\ user' = user
      BY <2>6, RecoverySame DEF administration
    <3>2. call.op \notin AdminOps
      BY <2>6, FamiliesAssumption
    <3> QED
      BY <1>1, <3>1, <3>2, StillInvariant
  <2> QED
    BY <1>1, <2>1, <2>2, <2>3, <2>4, <2>5, <2>6 DEF CommandNext
<1> QED
  BY InitInvariant, <1>1, PTL DEF CommandSpec

\* The administrator's commands neither delete nor disable the account that runs them and
\* take no role from it (rejectSelfTarget), for all accounts, names, roles and commands.
THEOREM SelfIsKept == CommandSpec => []SelfKept
<1>1. SelfInv => SelfKept
  BY DEF SelfInv
<1> QED
  BY Invariance, <1>1, PTL

-----------------------------------------------------------------------------
(* The order of the steps in every script: what is looked up or decided comes *)
(* first, by level; then the changes of a link; then any other change.        *)

Level1 == {"guard", "capabilities", "getLink", "listOutgoing", "listReceived", "listTrash", "statFile"}
Level2 == {"getPermission", "stat", "applications", "group", "drive", "listVersions"}
Level3 == {"roles", "user", "spaceRole", "version"}
Level4 == {"recipient", "assignments", "member", "lookLocal"}
Level5 == {"self", "pickRole", "getVersion"}
Level6 == {"options", "pickAssignment", "receive"}
LinkSteps == {"setPassword", "patchLink", "removePassword", "reloadLink", "reloadPermission"}
Single == Changes \ LinkSteps

Rank(step) ==
  CASE step \in Level1 -> 1
    [] step \in Level2 -> 2
    [] step \in Level3 -> 3
    [] step \in Level4 -> 4
    [] step \in Level5 -> 5
    [] step \in Level6 -> 6
    [] step = "replaceLocal" -> 7
    [] step = "setPassword" -> 31
    [] step = "patchLink" -> 32
    [] step = "removePassword" -> 33
    [] step = "reloadLink" -> 34
    [] step = "reloadPermission" -> 35
    [] step \in Single -> 36
    [] step = "clearDefault" -> 37

AllSteps ==
  Level1 \cup Level2 \cup Level3 \cup Level4 \cup Level5 \cup Level6 \cup LinkSteps \cup Single
    \cup {"replaceLocal", "clearDefault"}

\* The steps that belong to one command only, and what it was asked for.
Fitting(step) ==
  /\ step \in LinkSteps => call.op = "linkUpdate"
  /\ step = "setPassword" => call.password = "set"
  /\ step = "patchLink" => call.fields # {}
  /\ step = "removePassword" => call.password = "remove"
  /\ step = "restoreItem" => call.op = "trashRestore"
  /\ step = "removeItem" => call.op = "trashRemove"
  /\ step = "emptyTrash" => call.op = "trashEmpty"
  /\ step = "copyVersion" => call.op = "versionRestore"
  /\ step \in {"lookLocal", "getVersion", "receive", "replaceLocal"} => call.op = "versionDownload"
  /\ step \in {"disableDrive", "clearDefault"} => call.op = "spaceDisable"
  /\ step \in {"createLink", "invite"} => call.op \in New
  /\ step = "remove" => call.op \notin New

\* Steps between two levels, in order.
Within(s, low, high) ==
  /\ s \in Seq(AllSteps)
  /\ \A i \in 1 .. Len(s) : low <= Rank(s[i]) /\ Rank(s[i]) <= high /\ Fitting(s[i])
  /\ \A i, j \in 1 .. Len(s) : i < j => Rank(s[i]) < Rank(s[j])

\* The levels of the steps.
LEMMA Ranks ==
  /\ \A step \in Level1 : Rank(step) = 1
  /\ \A step \in Level2 : Rank(step) = 2
  /\ \A step \in Level3 : Rank(step) = 3
  /\ \A step \in Level4 : Rank(step) = 4
  /\ \A step \in Level5 : Rank(step) = 5
  /\ \A step \in Level6 : Rank(step) = 6
  /\ Rank("replaceLocal") = 7 /\ Rank("setPassword") = 31 /\ Rank("patchLink") = 32
  /\ Rank("removePassword") = 33 /\ Rank("reloadLink") = 34 /\ Rank("reloadPermission") = 35
  /\ \A step \in Single : Rank(step) = 36
  /\ Rank("clearDefault") = 37
<1> USE DEF Level1, Level2, Level3, Level4, Level5, Level6, LinkSteps, Single,
            Changes, ShareChanges, AdminChanges, RecoveryChanges
<1>1. /\ \A step \in Level1 : Rank(step) = 1
      /\ \A step \in Level2 : Rank(step) = 2
      /\ \A step \in Level3 : Rank(step) = 3
  BY DEF Rank
<1>2. /\ \A step \in Level4 : Rank(step) = 4
      /\ \A step \in Level5 : Rank(step) = 5
      /\ \A step \in Level6 : Rank(step) = 6
  BY DEF Rank
<1>3. /\ Rank("replaceLocal") = 7 /\ Rank("setPassword") = 31 /\ Rank("patchLink") = 32
      /\ Rank("removePassword") = 33 /\ Rank("reloadLink") = 34 /\ Rank("reloadPermission") = 35
      /\ Rank("clearDefault") = 37
  BY DEF Rank
<1>4. \A step \in Single : Rank(step) = 36
  BY DEF Rank
<1> QED
  BY <1>1, <1>2, <1>3, <1>4

LEMMA RankType == \A step \in AllSteps : Rank(step) \in Nat
  BY Ranks DEF AllSteps, LinkSteps

\* A step that says nothing about the command.
Free ==
  AllSteps \ (LinkSteps \cup {"restoreItem", "removeItem", "emptyTrash", "copyVersion",
    "lookLocal", "getVersion", "receive", "replaceLocal", "disableDrive", "clearDefault",
    "createLink", "invite", "remove"})

LEMMA FreeFits == \A step \in Free : Fitting(step)
  BY DEF Free, Fitting, LinkSteps

\* No step, one step, steps after steps.
LEMMA WithinNone == ASSUME NEW low \in Nat, NEW high \in Nat PROVE Within(<<>>, low, high)
<1>1. <<>> \in Seq(AllSteps) /\ Len(<<>>) = 0
  BY EmptySeq
<1> QED
  BY <1>1 DEF Within

LEMMA WithinOne ==
  ASSUME NEW step \in AllSteps, Fitting(step)
  PROVE  Within(<<step>>, Rank(step), Rank(step))
<1>1. Rank(step) \in Nat
  BY RankType
<1>2. <<step>> \in Seq(AllSteps) /\ Len(<<step>>) = 1 /\ <<step>>[1] = step
  OBVIOUS
<1>3. \A i \in 1 .. 1 : i = 1
  OBVIOUS
<1> DEFINE s == <<step>>
<1>4. s \in Seq(AllSteps) /\ Len(s) = 1 /\ \A i \in 1 .. 1 : s[i] = step
  BY <1>2, <1>3
<1> HIDE DEF s
<1>5. Within(s, Rank(step), Rank(step))
  BY <1>1, <1>3, <1>4 DEF Within
<1> QED
  BY <1>5 DEF s

LEMMA WithinJoined ==
  ASSUME NEW a, NEW b, NEW la \in Nat, NEW ha \in Nat, NEW lb \in Nat, NEW hb \in Nat,
         Within(a, la, ha), Within(b, lb, hb), la <= ha, ha < lb, lb <= hb
  PROVE  Within(a \o b, la, hb)
<1> DEFINE s == a \o b
<1>1. a \in Seq(AllSteps) /\ b \in Seq(AllSteps)
  BY DEF Within
<1>2. Len(a) \in Nat /\ Len(b) \in Nat
  BY <1>1, LenProperties
<1>3. /\ s \in Seq(AllSteps) /\ Len(s) = Len(a) + Len(b)
      /\ \A i \in 1 .. Len(a) + Len(b) : s[i] = IF i <= Len(a) THEN a[i] ELSE b[i - Len(a)]
  BY <1>1, ConcatProperties
<1> HIDE DEF s
<1>4. \A i \in 1 .. Len(s) :
        \/ i \in 1 .. Len(a) /\ s[i] = a[i]
        \/ i > Len(a) /\ i - Len(a) \in 1 .. Len(b) /\ s[i] = b[i - Len(a)]
  BY <1>2, <1>3
<1>5. \A i \in 1 .. Len(s) : s[i] \in AllSteps
  BY <1>3, ElementOfSeq
<1>6. /\ \A i \in 1 .. Len(a) : la <= Rank(a[i]) /\ Rank(a[i]) <= ha /\ Fitting(a[i])
      /\ \A i \in 1 .. Len(b) : lb <= Rank(b[i]) /\ Rank(b[i]) <= hb /\ Fitting(b[i])
  BY DEF Within
<1>7. /\ \A i, j \in 1 .. Len(a) : i < j => Rank(a[i]) < Rank(a[j])
      /\ \A i, j \in 1 .. Len(b) : i < j => Rank(b[i]) < Rank(b[j])
  BY DEF Within
<1>8. \A i \in 1 .. Len(s) : Rank(s[i]) \in Nat
  BY <1>5, RankType
<1>9. \A i \in 1 .. Len(s) : Fitting(s[i])
  BY <1>4, <1>6
<1>10. \A i \in 1 .. Len(s) : la <= Rank(s[i]) /\ Rank(s[i]) <= hb
  BY <1>4, <1>6, <1>8
<1>11. ASSUME NEW i \in 1 .. Len(s), NEW j \in 1 .. Len(s), i < j
       PROVE  Rank(s[i]) < Rank(s[j])
  <2>1. CASE j \in 1 .. Len(a) /\ s[j] = a[j]
    <3>1. i \in 1 .. Len(a) /\ s[i] = a[i]
      BY <1>2, <1>4, <1>11, <2>1
    <3> QED
      BY <1>7, <1>11, <2>1, <3>1
  <2>2. CASE j > Len(a) /\ j - Len(a) \in 1 .. Len(b) /\ s[j] = b[j - Len(a)]
    <3>1. CASE i \in 1 .. Len(a) /\ s[i] = a[i]
      <4>1. Rank(s[i]) <= ha /\ lb <= Rank(s[j])
        BY <1>6, <2>2, <3>1
      <4> QED
        BY <1>8, <4>1
    <3>2. CASE i > Len(a) /\ i - Len(a) \in 1 .. Len(b) /\ s[i] = b[i - Len(a)]
      <4>1. i - Len(a) < j - Len(a)
        BY <1>2, <1>11
      <4> QED
        BY <1>7, <2>2, <3>2, <4>1
    <3> QED
      BY <1>4, <3>1, <3>2
  <2> QED
    BY <1>4, <2>1, <2>2
<1> QED
  BY <1>3, <1>9, <1>10, <1>11 DEF Within, s

\* Wider levels.
LEMMA WithinWider ==
  ASSUME NEW s, NEW la \in Nat, NEW ha \in Nat, NEW lb \in Nat, NEW hb \in Nat,
         Within(s, la, ha), lb <= la, ha <= hb
  PROVE  Within(s, lb, hb)
<1>1. \A i \in 1 .. Len(s) : s[i] \in AllSteps
  BY ElementOfSeq DEF Within
<1>2. \A i \in 1 .. Len(s) : Rank(s[i]) \in Nat
  BY <1>1, RankType
<1> QED
  BY <1>2 DEF Within

\* Two, three and four steps.
LEMMA WithinTwo ==
  ASSUME NEW a \in AllSteps, Fitting(a),
         NEW b \in AllSteps, Fitting(b),
         Rank(a) < Rank(b)
  PROVE  Within(<<a, b>>, Rank(a), Rank(b))
<1> DEFINE s == <<a, b>>
<1>1. Rank(a) \in Nat /\ Rank(b) \in Nat
  BY RankType
<1>2. s \in Seq(AllSteps) /\ Len(s) = 2
      /\ s[1] = a /\ s[2] = b
  OBVIOUS
<1>3. \A i \in 1 .. 2 : i \in {1, 2}
  OBVIOUS
<1> HIDE DEF s
<1>4. \A i \in 1 .. Len(s) : Rank(a) <= Rank(s[i]) /\ Rank(s[i]) <= Rank(b) /\ Fitting(s[i])
  BY <1>1, <1>2, <1>3
<1>5. \A i, j \in 1 .. Len(s) : i < j => Rank(s[i]) < Rank(s[j])
  BY <1>1, <1>2, <1>3
<1>6. Within(s, Rank(a), Rank(b))
  BY <1>2, <1>4, <1>5 DEF Within
<1> QED
  BY <1>6 DEF s

LEMMA WithinThree ==
  ASSUME NEW a \in AllSteps, Fitting(a),
         NEW b \in AllSteps, Fitting(b),
         NEW c \in AllSteps, Fitting(c),
         Rank(a) < Rank(b), Rank(b) < Rank(c)
  PROVE  Within(<<a, b, c>>, Rank(a), Rank(c))
<1> DEFINE s == <<a, b, c>>
<1>1. Rank(a) \in Nat /\ Rank(b) \in Nat /\ Rank(c) \in Nat
  BY RankType
<1>2. s \in Seq(AllSteps) /\ Len(s) = 3
      /\ s[1] = a /\ s[2] = b /\ s[3] = c
  OBVIOUS
<1>3. \A i \in 1 .. 3 : i \in {1, 2, 3}
  OBVIOUS
<1> HIDE DEF s
<1>4. \A i \in 1 .. Len(s) : Rank(a) <= Rank(s[i]) /\ Rank(s[i]) <= Rank(c) /\ Fitting(s[i])
  BY <1>1, <1>2, <1>3
<1>5. \A i, j \in 1 .. Len(s) : i < j => Rank(s[i]) < Rank(s[j])
  BY <1>1, <1>2, <1>3
<1>6. Within(s, Rank(a), Rank(c))
  BY <1>2, <1>4, <1>5 DEF Within
<1> QED
  BY <1>6 DEF s

LEMMA WithinFour ==
  ASSUME NEW a \in AllSteps, Fitting(a),
         NEW b \in AllSteps, Fitting(b),
         NEW c \in AllSteps, Fitting(c),
         NEW d \in AllSteps, Fitting(d),
         Rank(a) < Rank(b), Rank(b) < Rank(c), Rank(c) < Rank(d)
  PROVE  Within(<<a, b, c, d>>, Rank(a), Rank(d))
<1> DEFINE s == <<a, b, c, d>>
<1>1. Rank(a) \in Nat /\ Rank(b) \in Nat /\ Rank(c) \in Nat /\ Rank(d) \in Nat
  BY RankType
<1>2. s \in Seq(AllSteps) /\ Len(s) = 4
      /\ s[1] = a /\ s[2] = b /\ s[3] = c /\ s[4] = d
  OBVIOUS
<1>3. \A i \in 1 .. 4 : i \in {1, 2, 3, 4}
  OBVIOUS
<1> HIDE DEF s
<1>4. \A i \in 1 .. Len(s) : Rank(a) <= Rank(s[i]) /\ Rank(s[i]) <= Rank(d) /\ Fitting(s[i])
  BY <1>1, <1>2, <1>3
<1>5. \A i, j \in 1 .. Len(s) : i < j => Rank(s[i]) < Rank(s[j])
  BY <1>1, <1>2, <1>3
<1>6. Within(s, Rank(a), Rank(d))
  BY <1>2, <1>4, <1>5 DEF Within
<1> QED
  BY <1>6 DEF s

\* A step that is left out when a condition holds.
LEMMA WithinUnless ==
  ASSUME NEW without, NEW step \in AllSteps, ~without => Fitting(step)
  PROVE  Within(IF without THEN <<>> ELSE <<step>>, Rank(step), Rank(step))
<1>1. CASE without
  BY <1>1, RankType, WithinNone
<1>2. CASE ~without
  BY <1>2, WithinOne
<1> QED
  BY <1>1, <1>2

\* The step-up guard comes first.
LEMMA WithinGuarded ==
  ASSUME NEW s, NEW high \in Nat, Within(s, 2, high), high >= 2
  PROVE  Within(Guarded(s), 1, high)
<1>1. Within(<<"guard">>, 1, 1)
  <2>1. "guard" \in AllSteps /\ Rank("guard") = 1 /\ "guard" \in Free
    BY Ranks DEF AllSteps, Level1, Free, LinkSteps
  <2> QED
    BY <2>1, WithinOne, FreeFits
<1>2. Within(<<"guard">> \o s, 1, high)
  BY <1>1, WithinJoined
<1>3. Within(s, 1, high)
  BY WithinWider
<1> QED
  BY <1>2, <1>3 DEF Guarded

\* The steps whose place says all about them.
LEMMA Placed ==
  /\ \A step \in {"guard", "capabilities", "getLink", "listOutgoing", "listReceived",
                "listTrash", "statFile"} :
       step \in AllSteps /\ Rank(step) = 1 /\ Fitting(step)
  /\ \A step \in {"getPermission", "stat", "applications", "group", "drive", "listVersions"} :
       step \in AllSteps /\ Rank(step) = 2 /\ Fitting(step)
  /\ \A step \in {"roles", "user", "spaceRole", "version"} :
       step \in AllSteps /\ Rank(step) = 3 /\ Fitting(step)
  /\ \A step \in {"recipient", "assignments", "member"} :
       step \in AllSteps /\ Rank(step) = 4 /\ Fitting(step)
  /\ \A step \in {"self", "pickRole"} :
       step \in AllSteps /\ Rank(step) = 5 /\ Fitting(step)
  /\ \A step \in {"options", "pickAssignment"} :
       step \in AllSteps /\ Rank(step) = 6 /\ Fitting(step)
  /\ \A step \in {"patchRole", "respond", "createUser",
                "updateUser", "setState", "deleteUser", "grantRole",
                "revokeRole", "createGroup", "updateGroup", "deleteGroup",
                "changeMembership", "createDrive", "updateDrive",
                "restoreDrive", "purgeDrive", "addMember", "updateMember",
                "removeMember"} :
       step \in AllSteps /\ Rank(step) = 36 /\ Fitting(step)
<1> USE FreeFits, Ranks DEF AllSteps, Free, LinkSteps
<1>1. \A step \in {"guard", "capabilities", "getLink", "listOutgoing", "listReceived",
                "listTrash", "statFile"} :
        step \in AllSteps /\ Rank(step) = 1 /\ Fitting(step)
  BY DEF Level1
<1>2. \A step \in {"getPermission", "stat", "applications", "group", "drive", "listVersions"} :
        step \in AllSteps /\ Rank(step) = 2 /\ Fitting(step)
  BY DEF Level2
<1>3. \A step \in {"roles", "user", "spaceRole", "version"} :
        step \in AllSteps /\ Rank(step) = 3 /\ Fitting(step)
  BY DEF Level3
<1>4. \A step \in {"recipient", "assignments", "member"} :
        step \in AllSteps /\ Rank(step) = 4 /\ Fitting(step)
  BY DEF Level4
<1>5. \A step \in {"self", "pickRole"} :
        step \in AllSteps /\ Rank(step) = 5 /\ Fitting(step)
  BY DEF Level5
<1>6. \A step \in {"options", "pickAssignment"} :
        step \in AllSteps /\ Rank(step) = 6 /\ Fitting(step)
  BY DEF Level6
<1>7. \A step \in {"patchRole", "respond", "createUser",
                "updateUser", "setState", "deleteUser", "grantRole",
                "revokeRole", "createGroup", "updateGroup", "deleteGroup",
                "changeMembership", "createDrive", "updateDrive",
                "restoreDrive", "purgeDrive", "addMember", "updateMember",
                "removeMember"} :
        step \in AllSteps /\ Rank(step) = 36 /\ Fitting(step)
  <2>1. {"patchRole", "respond", "createUser",
                "updateUser", "setState", "deleteUser", "grantRole",
                "revokeRole", "createGroup", "updateGroup", "deleteGroup",
                "changeMembership", "createDrive", "updateDrive",
                "restoreDrive", "purgeDrive", "addMember", "updateMember",
                "removeMember"}
          \subseteq Single
    BY DEF Single, Changes, ShareChanges, AdminChanges, RecoveryChanges
  <2> QED
    BY <2>1
<1> QED
  BY <1>1, <1>2, <1>3, <1>4, <1>5, <1>6, <1>7

\* The steps that say what the command is.
LEMMA PlacedBy ==
  /\ \A step \in LinkSteps : step \in AllSteps
  /\ \A step \in {"restoreItem", "removeItem", "emptyTrash", "copyVersion", "disableDrive", "createLink",
                  "invite", "remove"} :
       step \in AllSteps /\ Rank(step) = 36 /\ step \notin LinkSteps
  /\ "lookLocal" \in AllSteps /\ Rank("lookLocal") = 4 /\ "getVersion" \in AllSteps /\ Rank("getVersion") = 5
  /\ "receive" \in AllSteps /\ Rank("receive") = 6 /\ "replaceLocal" \in AllSteps
  /\ "clearDefault" \in AllSteps
<1>1. {"restoreItem", "removeItem", "emptyTrash", "copyVersion", "disableDrive", "createLink",
       "invite", "remove"} \subseteq Single
  BY DEF Single, Changes, ShareChanges, AdminChanges, RecoveryChanges, LinkSteps
<1> QED
  BY <1>1, Ranks DEF AllSteps, LinkSteps, Level4, Level5, Level6

\* The script of an update of a link.
LEMMA LinkWithin == ASSUME call.op = "linkUpdate" PROVE Within(LinkScript, 1, 35)
<1>1. \A step \in LinkSteps : (step \in {"reloadLink", "reloadPermission"} => Fitting(step))
  BY DEF Fitting, LinkSteps
<1>2. /\ "setPassword" \in LinkSteps /\ "patchLink" \in LinkSteps /\ "removePassword" \in LinkSteps
      /\ "reloadLink" \in LinkSteps /\ "reloadPermission" \in LinkSteps
  BY DEF LinkSteps
<1>3. /\ call.password = "set" => Fitting("setPassword")
      /\ call.fields # {} => Fitting("patchLink")
      /\ call.password = "remove" => Fitting("removePassword")
  BY DEF Fitting, LinkSteps
<1> DEFINE set == IF call.password = "set" THEN <<"setPassword">> ELSE <<>>
           patch == IF call.fields # {} THEN <<"patchLink">> ELSE <<>>
           remove == IF call.password = "remove" THEN <<"removePassword">> ELSE <<>>
<1>4. Within(set, 31, 31)
  BY <1>2, <1>3, Ranks, PlacedBy, WithinOne, WithinNone
<1>5. Within(patch, 32, 32)
  BY <1>2, <1>3, Ranks, PlacedBy, WithinOne, WithinNone
<1>6. Within(remove, 33, 33)
  BY <1>2, <1>3, Ranks, PlacedBy, WithinOne, WithinNone
<1>7. LinkChanges = set \o patch \o remove
  BY DEF LinkChanges
<1> HIDE DEF set, patch, remove
<1>8. Within(LinkChanges, 31, 33)
  <2>1. Within(set \o patch, 31, 32)
    BY <1>4, <1>5, WithinJoined
  <2> QED
    BY <1>6, <1>7, <2>1, WithinJoined
<1>9. Within(<<"reloadLink", "reloadPermission">>, 34, 35)
  BY <1>1, <1>2, Ranks, PlacedBy, WithinTwo
<1>10. Within(LinkChanges \o <<"reloadLink", "reloadPermission">>, 31, 35)
  BY <1>8, <1>9, WithinJoined
<1>11. Within(IF call.dry THEN <<>> ELSE LinkChanges \o <<"reloadLink", "reloadPermission">>, 31, 35)
  BY <1>10, WithinNone
<1>12. Within(<<"getLink", "getPermission">>, 1, 2)
  BY Placed, WithinTwo
<1> QED
  BY <1>11, <1>12, WithinJoined DEF LinkScript

\* Every script is in order, and has steps of its own command only.
LEMMA ShareWithin == ASSUME call \in ShareCalls PROVE Within(ShareScript, 1, 37)
<1>1. ASSUME call.op = "linkCreate" PROVE Within(CreateScript, 1, 37)
  <2>0. Fitting("createLink")
    BY <1>1 DEF Fitting, LinkSteps, New
  <2>1. Within(<<"capabilities", "createLink">>, 1, 36)
    BY <2>0, Placed, PlacedBy, WithinTwo
  <2>2. Within(<<"capabilities", "createLink">>, 1, 37) /\ Within(<<>>, 1, 37)
    BY <2>1, WithinWider, WithinNone
  <2> QED
    BY <2>2 DEF CreateScript
<1>2. ASSUME call.op = "linkUpdate" PROVE Within(LinkScript, 1, 37)
  BY <1>2, LinkWithin, WithinWider
<1>3. ASSUME call.op = "linkRevoke" PROVE Within(RevokeScript, 1, 37)
  <2>0. Fitting("remove")
    BY <1>3 DEF Fitting, LinkSteps, New
  <2>1. Within(RevokeScript, 36, 36)
    BY <2>0, PlacedBy, WithinUnless DEF RevokeScript
  <2> QED
    BY <2>1, WithinWider
<1>4. ASSUME call.op = "shareAdd" PROVE Within(AddScript, 1, 37)
  <2>0. Fitting("invite")
    BY <1>4 DEF Fitting, LinkSteps, New
  <2>1. Within(<<"capabilities", "stat", "roles">>, 1, 3)
    BY Placed, WithinThree
  <2>2. Within(IF call.byID THEN <<>> ELSE <<"recipient">>, 4, 4)
    BY Placed, WithinUnless
  <2>3. Within(IF call.dry THEN <<>> ELSE <<"invite">>, 36, 36)
    BY <2>0, PlacedBy, WithinUnless
  <2>4. Within(<<"capabilities", "stat", "roles">> \o (IF call.byID THEN <<>> ELSE <<"recipient">>), 1, 4)
    BY <2>1, <2>2, WithinJoined
  <2>5. Within(AddScript, 1, 36)
    BY <2>3, <2>4, WithinJoined DEF AddScript
  <2> QED
    BY <2>5, WithinWider
<1>5. Within(RoleScript, 1, 37)
  <2>1. Within(<<"listOutgoing", "roles">>, 1, 3)
    BY Placed, WithinTwo
  <2>2. Within(IF call.dry THEN <<>> ELSE <<"patchRole">>, 36, 36)
    BY Placed, WithinUnless
  <2>3. Within(RoleScript, 1, 36)
    BY <2>1, <2>2, WithinJoined DEF RoleScript
  <2> QED
    BY <2>3, WithinWider
<1>6. ASSUME call.op = "shareRemove" PROVE Within(RemoveScript, 1, 37)
  <2>0. Fitting("remove")
    BY <1>6 DEF Fitting, LinkSteps, New
  <2>1. Within(<<"listOutgoing">>, 1, 1)
    BY Placed, WithinOne
  <2>2. Within(IF call.dry THEN <<>> ELSE <<"remove">>, 36, 36)
    BY <2>0, PlacedBy, WithinUnless
  <2>3. Within(RemoveScript, 1, 36)
    BY <2>1, <2>2, WithinJoined DEF RemoveScript
  <2> QED
    BY <2>3, WithinWider
<1>7. Within(RespondScript, 1, 37)
  <2>1. Within(<<"listReceived">>, 1, 1)
    BY Placed, WithinOne
  <2>2. Within(IF call.dry THEN <<>> ELSE <<"respond">>, 36, 36)
    BY Placed, WithinUnless
  <2>3. Within(RespondScript, 1, 36)
    BY <2>1, <2>2, WithinJoined DEF RespondScript
  <2> QED
    BY <2>3, WithinWider
<1>8. call.op \in {"linkCreate", "linkUpdate", "linkRevoke", "shareAdd", "shareUpdate",
                   "shareRemove", "respond"}
  BY SharingAssumption
<1> QED
  BY <1>1, <1>2, <1>3, <1>4, <1>5, <1>6, <1>7, <1>8 DEF ShareScript

LEMMA RecoveryWithin == ASSUME call \in RecoveryCalls PROVE Within(RecoveryScript, 1, 37)
<1>1. ASSUME NEW change \in AllSteps, Rank(change) = 36, Fitting(change)
      PROVE  Within(TrashScript(change), 1, 37)
  <2>1. Within(<<"listTrash">>, 1, 1)
    BY Placed, WithinOne
  <2>2. Within(IF call.dry THEN <<>> ELSE <<change>>, 36, 36)
    BY <1>1, WithinUnless
  <2>3. Within(TrashScript(change), 1, 36)
    BY <2>1, <2>2, WithinJoined DEF TrashScript
  <2> QED
    BY <2>3, WithinWider
<1>2. /\ call.op = "trashRestore" => Fitting("restoreItem")
      /\ call.op = "trashRemove" => Fitting("removeItem")
      /\ call.op = "trashEmpty" => Fitting("emptyTrash")
      /\ call.op = "versionRestore" => Fitting("copyVersion")
  BY PlacedBy DEF Fitting
<1>3. ASSUME call.op \in {"versionRestore", "versionDownload"} PROVE Within(VersionScript, 1, 37)
  <2>1. Within(<<"statFile", "listVersions", "version">>, 1, 3)
    BY Placed, WithinThree
  <2>2. call.op = "versionRestore" => Within(<<"copyVersion">>, 36, 36)
    BY <1>2, PlacedBy, WithinOne
  <2>3. call.op = "versionDownload" =>
          Fitting("lookLocal") /\ Fitting("getVersion") /\ Fitting("receive") /\ Fitting("replaceLocal")
    BY DEF Fitting, LinkSteps
  <2>4. call.op = "versionDownload" =>
          Within(IF call.noClobber THEN <<"lookLocal">> ELSE <<>>, 4, 4)
    BY <2>3, PlacedBy, WithinOne, WithinNone
  <2>5. call.op = "versionDownload" => Within(<<"getVersion", "receive", "replaceLocal">>, 5, 7)
    BY <2>3, PlacedBy, Ranks, WithinThree
  <2>6. call.op = "versionDownload" =>
          Within((IF call.noClobber THEN <<"lookLocal">> ELSE <<>>)
                   \o <<"getVersion", "receive", "replaceLocal">>, 4, 37)
    <3>1. ASSUME call.op = "versionDownload"
          PROVE  Within((IF call.noClobber THEN <<"lookLocal">> ELSE <<>>)
                          \o <<"getVersion", "receive", "replaceLocal">>, 4, 7)
      BY <2>4, <2>5, <3>1, WithinJoined
    <3> QED
      BY <3>1, WithinWider
  <2> DEFINE rest == CASE call.dry -> <<>>
                       [] ~call.dry /\ call.op = "versionRestore" -> <<"copyVersion">>
                       [] OTHER -> (IF call.noClobber THEN <<"lookLocal">> ELSE <<>>)
                                     \o <<"getVersion", "receive", "replaceLocal">>
  <2>7. Within(rest, 4, 37)
    <3>1. CASE call.dry
      BY <3>1, WithinNone
    <3>2. CASE ~call.dry /\ call.op = "versionRestore"
      BY <2>2, <3>2, WithinWider
    <3>3. CASE ~call.dry /\ call.op = "versionDownload"
      BY <2>6, <3>3
    <3> QED
      BY <1>3, <3>1, <3>2, <3>3
  <2>8. VersionScript = <<"statFile", "listVersions", "version">> \o rest
    BY DEF VersionScript
  <2> HIDE DEF rest
  <2> QED
    BY <2>1, <2>7, <2>8, WithinJoined
<1>4. call.op \in {"trashRestore", "trashRemove", "trashEmpty", "versionRestore", "versionDownload"}
  BY RecoveryAssumption
<1> QED
  BY <1>1, <1>2, <1>3, <1>4, PlacedBy DEF RecoveryScript

LEMMA AdminWithin == ASSUME call \in AdminCalls PROVE Within(AdminScript, 1, 37)
<1>1. Within(UserCreateScript, 1, 37)
  <2>1. Within(Unless(call.dry, "createUser"), 36, 36)
    BY Placed, WithinUnless DEF Unless
  <2>2. Within(<<"guard", "options">>, 1, 6)
    BY Placed, WithinTwo
  <2>3. Within(UserCreateScript, 1, 36)
    BY <2>1, <2>2, WithinJoined DEF UserCreateScript
  <2> QED
    BY <2>3, WithinWider
<1>2. Within(UserUpdateScript, 1, 37)
  <2>1. Within(Unless(call.dry, "updateUser"), 36, 36)
    BY Placed, WithinUnless DEF Unless
  <2>2. Within(<<"guard", "user", "options">>, 1, 6)
    BY Placed, WithinThree
  <2>3. Within(UserUpdateScript, 1, 36)
    BY <2>1, <2>2, WithinJoined DEF UserUpdateScript
  <2> QED
    BY <2>3, WithinWider
<1>3. Within(UserDeleteScript, 1, 37)
  <2>1. Within(Unless(call.dry, "deleteUser"), 36, 36)
    BY Placed, WithinUnless DEF Unless
  <2>2. Within(<<"guard", "user", "self", "options">>, 1, 6)
    <3>1. /\ "guard" \in AllSteps /\ Rank("guard") = 1 /\ Fitting("guard")
          /\ "user" \in AllSteps /\ Rank("user") = 3 /\ Fitting("user")
          /\ "self" \in AllSteps /\ Rank("self") = 5 /\ Fitting("self")
          /\ "options" \in AllSteps /\ Rank("options") = 6 /\ Fitting("options")
      BY Placed
    <3> QED
      BY <3>1, WithinFour
  <2>3. Within(UserDeleteScript, 1, 36)
    BY <2>1, <2>2, WithinJoined DEF UserDeleteScript
  <2> QED
    BY <2>3, WithinWider
<1>4. Within(GroupCreateScript, 1, 37)
  <2>1. Within(Unless(call.dry, "createGroup"), 36, 36)
    BY Placed, WithinUnless DEF Unless
  <2>2. Within(<<"guard">>, 1, 1)
    BY Placed, WithinOne
  <2>3. Within(GroupCreateScript, 1, 36)
    BY <2>1, <2>2, WithinJoined DEF GroupCreateScript
  <2> QED
    BY <2>3, WithinWider
<1>5. Within(GroupUpdateScript, 1, 37)
  <2>1. Within(Unless(call.dry, "updateGroup"), 36, 36)
    BY Placed, WithinUnless DEF Unless
  <2>2. Within(<<"guard", "group">>, 1, 2)
    BY Placed, WithinTwo
  <2>3. Within(GroupUpdateScript, 1, 36)
    BY <2>1, <2>2, WithinJoined DEF GroupUpdateScript
  <2> QED
    BY <2>3, WithinWider
<1>6. Within(GroupDeleteScript, 1, 37)
  <2>1. Within(Unless(call.dry, "deleteGroup"), 36, 36)
    BY Placed, WithinUnless DEF Unless
  <2>2. Within(<<"guard", "group">>, 1, 2)
    BY Placed, WithinTwo
  <2>3. Within(GroupDeleteScript, 1, 36)
    BY <2>1, <2>2, WithinJoined DEF GroupDeleteScript
  <2> QED
    BY <2>3, WithinWider
<1>7. Within(MembershipScript, 1, 37)
  <2>1. Within(Unless(call.dry, "changeMembership"), 36, 36)
    BY Placed, WithinUnless DEF Unless
  <2>2. Within(<<"guard", "group", "user">>, 1, 3)
    BY Placed, WithinThree
  <2>3. Within(MembershipScript, 1, 36)
    BY <2>1, <2>2, WithinJoined DEF MembershipScript
  <2> QED
    BY <2>3, WithinWider
<1>8. Within(SpaceCreateScript, 1, 37)
  <2>1. Within(Unless(call.dry, "createDrive"), 36, 36)
    BY Placed, WithinUnless DEF Unless
  <2>2. Within(Unless(call.dry, "createDrive"), 2, 36)
    BY <2>1, WithinWider
  <2>3. Within(SpaceCreateScript, 1, 36)
    BY <2>2, WithinGuarded DEF SpaceCreateScript
  <2> QED
    BY <2>3, WithinWider
<1>9. Within(SpaceRestoreScript, 1, 37)
  <2>1. Within(Unless(call.dry, "restoreDrive"), 36, 36)
    BY Placed, WithinUnless DEF Unless
  <2>2. Within(Unless(call.dry, "restoreDrive"), 2, 36)
    BY <2>1, WithinWider
  <2>3. Within(SpaceRestoreScript, 1, 36)
    BY <2>2, WithinGuarded DEF SpaceRestoreScript
  <2> QED
    BY <2>3, WithinWider
<1>10. Within(SpaceDeleteScript, 1, 37)
  <2>1. Within(Unless(call.dry, "purgeDrive"), 36, 36)
    BY Placed, WithinUnless DEF Unless
  <2>2. Within(Unless(call.dry, "purgeDrive"), 2, 36)
    BY <2>1, WithinWider
  <2>3. Within(SpaceDeleteScript, 1, 36)
    BY <2>2, WithinGuarded DEF SpaceDeleteScript
  <2> QED
    BY <2>3, WithinWider
<1>11. Within(SpaceUpdateScript, 1, 37)
  <2>1. Within(Unless(call.dry, "updateDrive"), 36, 36)
    BY Placed, WithinUnless DEF Unless
  <2>2. Within(<<"drive">>, 2, 2)
    BY Placed, WithinOne
  <2>3. Within(<<"drive">> \o Unless(call.dry, "updateDrive"), 2, 36)
    BY <2>1, <2>2, WithinJoined
  <2>4. Within(SpaceUpdateScript, 1, 36)
    BY <2>3, WithinGuarded DEF SpaceUpdateScript
  <2> QED
    BY <2>4, WithinWider
<1>12. Within(MemberRemoveScript, 1, 37)
  <2>1. Within(Unless(call.dry, "removeMember"), 36, 36)
    BY Placed, WithinUnless DEF Unless
  <2>2. Within(<<"drive">>, 2, 2)
    BY Placed, WithinOne
  <2>3. Within(<<"drive">> \o Unless(call.dry, "removeMember"), 2, 36)
    BY <2>1, <2>2, WithinJoined
  <2>4. Within(MemberRemoveScript, 1, 36)
    BY <2>3, WithinGuarded DEF MemberRemoveScript
  <2> QED
    BY <2>4, WithinWider
<1>13. Within(MemberUpdateScript, 1, 37)
  <2>1. Within(Unless(call.dry, "updateMember"), 36, 36)
    BY Placed, WithinUnless DEF Unless
  <2>2. Within(<<"drive", "spaceRole">>, 2, 3)
    BY Placed, WithinTwo
  <2>3. Within(<<"drive", "spaceRole">> \o Unless(call.dry, "updateMember"), 2, 36)
    BY <2>1, <2>2, WithinJoined
  <2>4. Within(MemberUpdateScript, 1, 36)
    BY <2>3, WithinGuarded DEF MemberUpdateScript
  <2> QED
    BY <2>4, WithinWider
<1>14. Within(UserStateScript, 1, 37)
  <2>1. Within(<<"guard", "user">>, 1, 3)
    BY Placed, WithinTwo
  <2>2. Within(Unless(call.enable, "self"), 5, 5)
    BY Placed, WithinUnless DEF Unless
  <2>3. Within(<<"options">>, 6, 6)
    BY Placed, WithinOne
  <2>4. Within(Unless(call.dry, "setState"), 36, 36)
    BY Placed, WithinUnless DEF Unless
  <2>5. Within(<<"guard", "user">> \o Unless(call.enable, "self"), 1, 5)
    BY <2>1, <2>2, WithinJoined
  <2>6. Within(<<"guard", "user">> \o Unless(call.enable, "self") \o <<"options">>, 1, 6)
    BY <2>3, <2>5, WithinJoined
  <2>7. Within(UserStateScript, 1, 36)
    BY <2>4, <2>6, WithinJoined DEF UserStateScript
  <2> QED
    BY <2>7, WithinWider
<1>15. Within(AppRoleScript, 1, 37)
  <2>1. Within(<<"guard", "applications", "user", "assignments">>, 1, 4)
    <3>1. /\ "guard" \in AllSteps /\ Rank("guard") = 1 /\ Fitting("guard")
          /\ "applications" \in AllSteps /\ Rank("applications") = 2 /\ Fitting("applications")
          /\ "user" \in AllSteps /\ Rank("user") = 3 /\ Fitting("user")
          /\ "assignments" \in AllSteps /\ Rank("assignments") = 4 /\ Fitting("assignments")
      BY Placed
    <3> QED
      BY <3>1, WithinFour
  <2>2. Within(<<"pickRole">>, 5, 6)
    <3>1. Within(<<"pickRole">>, 5, 5)
      BY Placed, WithinOne
    <3> QED
      BY <3>1, WithinWider
  <2>3. Within(<<"self", "pickAssignment">>, 5, 6)
    BY Placed, WithinTwo
  <2>4. Within(Unless(call.dry, IF call.grant THEN "grantRole" ELSE "revokeRole"), 36, 36)
    <3>1. Within(Unless(call.dry, "grantRole"), 36, 36) /\ Within(Unless(call.dry, "revokeRole"), 36, 36)
      BY Placed, WithinUnless DEF Unless
    <3> QED
      BY <3>1
  <2>5. Within(IF call.grant THEN <<"pickRole">> ELSE <<"self", "pickAssignment">>, 5, 6)
    BY <2>2, <2>3
  <2>6. Within(<<"guard", "applications", "user", "assignments">>
                 \o (IF call.grant THEN <<"pickRole">> ELSE <<"self", "pickAssignment">>), 1, 6)
    BY <2>1, <2>5, WithinJoined
  <2>7. Within(AppRoleScript, 1, 36)
    BY <2>4, <2>6, WithinJoined DEF AppRoleScript
  <2> QED
    BY <2>7, WithinWider
<1>16. Within(MemberAddScript, 1, 37)
  <2>1. Within(<<"drive", "spaceRole">>, 2, 3)
    BY Placed, WithinTwo
  <2>2. Within(Unless(call.byID, "member"), 4, 4)
    BY Placed, WithinUnless DEF Unless
  <2>3. Within(Unless(call.dry, "addMember"), 36, 36)
    BY Placed, WithinUnless DEF Unless
  <2>4. Within(<<"drive", "spaceRole">> \o Unless(call.byID, "member"), 2, 4)
    BY <2>1, <2>2, WithinJoined
  <2>5. Within(<<"drive", "spaceRole">> \o Unless(call.byID, "member")
                 \o Unless(call.dry, "addMember"), 2, 36)
    BY <2>3, <2>4, WithinJoined
  <2>6. Within(MemberAddScript, 1, 36)
    BY <2>5, WithinGuarded DEF MemberAddScript
  <2> QED
    BY <2>6, WithinWider
<1>17. ASSUME call.op = "spaceDisable" PROVE Within(SpaceDisableScript, 1, 37)
  <2>1. Within(<<"drive">>, 2, 2)
    BY Placed, WithinOne
  <2>2. Fitting("disableDrive") /\ Fitting("clearDefault")
    BY <1>17 DEF Fitting, LinkSteps
  <2>3. Within(<<"disableDrive", "clearDefault">>, 36, 37)
    BY <2>2, PlacedBy, Ranks, WithinTwo
  <2>4. Within(IF call.dry THEN <<>> ELSE <<"disableDrive", "clearDefault">>, 36, 37)
    BY <2>3, WithinNone
  <2>5. Within(<<"drive">> \o (IF call.dry THEN <<>> ELSE <<"disableDrive", "clearDefault">>), 2, 37)
    BY <2>1, <2>4, WithinJoined
  <2> QED
    BY <2>5, WithinGuarded DEF SpaceDisableScript
<1>18. call.op \in {"userCreate", "userUpdate", "userState", "userDelete", "role",
                   "groupCreate", "groupUpdate", "groupDelete", "membership",
                   "spaceCreate", "spaceUpdate", "spaceDisable", "spaceRestore",
                   "spaceDelete", "memberAdd", "memberUpdate", "memberRemove"}
  BY AdministrationAssumption
<1>19. CASE call.op \in {"userCreate", "userUpdate", "userState", "userDelete", "role",
                         "groupCreate", "groupUpdate", "groupDelete", "membership"}
  BY <1>1, <1>2, <1>3, <1>4, <1>5, <1>6, <1>7, <1>14, <1>15, <1>19 DEF AdminScript
<1>20. CASE call.op \in {"spaceCreate", "spaceUpdate", "spaceDisable", "spaceRestore",
                         "spaceDelete", "memberAdd", "memberUpdate", "memberRemove"}
  BY <1>8, <1>9, <1>10, <1>11, <1>12, <1>13, <1>16, <1>17, <1>20 DEF AdminScript
<1> QED
  BY <1>18, <1>19, <1>20

\* The script of the call, whatever its family.
LEMMA ScriptWithin ==
  ASSUME call \in ShareCalls \cup AdminCalls \cup RecoveryCalls
  PROVE  Within(Script, 1, 37)
<1>1. /\ call \in ShareCalls => call.op \in ShareOps
      /\ call \in AdminCalls => call.op \in AdminOps
      /\ call \in RecoveryCalls => call.op \in RecoveryOps
  BY DEF ShareOps, AdminOps, RecoveryOps
<1>2. CASE call \in ShareCalls
  <2>1. Script = ShareScript
    BY <1>1, <1>2, FamiliesAssumption DEF Script
  <2> QED
    BY <1>2, <2>1, ShareWithin
<1>3. CASE call \in AdminCalls
  <2>1. Script = AdminScript
    BY <1>1, <1>3, FamiliesAssumption DEF Script
  <2> QED
    BY <1>3, <2>1, AdminWithin
<1>4. CASE call \in RecoveryCalls
  <2>1. Script = RecoveryScript
    BY <1>1, <1>4, FamiliesAssumption DEF Script
  <2> QED
    BY <1>4, <2>1, RecoveryWithin
<1> QED
  BY <1>2, <1>3, <1>4

-----------------------------------------------------------------------------
(* What a command has still to do is the end of its script.                   *)

Calls == ShareCalls \cup AdminCalls \cup RecoveryCalls

\* How many steps the command has behind it.
Behind == Len(Script) - Len(todo)

Follow ==
  /\ call \in Calls
  /\ todo # <<>> =>
       /\ todo \in Seq(AllSteps) /\ Len(todo) \in 1 .. Len(Script)
       /\ \A i \in 1 .. Len(todo) : todo[i] = Script[Behind + i]

\* What Within says of the script of the call.
LEMMA Scripts ==
  ASSUME call \in Calls
  PROVE  /\ Script \in Seq(AllSteps) /\ Len(Script) \in Nat
         /\ \A i \in 1 .. Len(Script) :
              Script[i] \in AllSteps /\ Fitting(Script[i]) /\ Rank(Script[i]) \in Nat
         /\ \A i, j \in 1 .. Len(Script) : i < j => Rank(Script[i]) < Rank(Script[j])
<1> DEFINE s == Script
<1>1. Within(s, 1, 37)
  BY ScriptWithin DEF Calls
<1> HIDE DEF s
<1>2. s \in Seq(AllSteps) /\ Len(s) \in Nat
  BY <1>1, LenProperties DEF Within
<1>3. \A i \in 1 .. Len(s) : s[i] \in AllSteps
  BY <1>2, ElementOfSeq
<1>4. \A i \in 1 .. Len(s) : Rank(s[i]) \in Nat
  BY <1>3, RankType
<1>5. /\ \A i \in 1 .. Len(s) : Fitting(s[i])
      /\ \A i, j \in 1 .. Len(s) : i < j => Rank(s[i]) < Rank(s[j])
  BY <1>1 DEF Within
<1>6. /\ s \in Seq(AllSteps) /\ Len(s) \in Nat
      /\ \A i \in 1 .. Len(s) : s[i] \in AllSteps /\ Fitting(s[i]) /\ Rank(s[i]) \in Nat
      /\ \A i, j \in 1 .. Len(s) : i < j => Rank(s[i]) < Rank(s[j])
  BY <1>2, <1>3, <1>4, <1>5
<1> QED
  BY <1>6 DEF s

\* No step is made twice.
LEMMA ScriptOnce ==
  ASSUME call \in Calls, NEW i \in 1 .. Len(Script), NEW j \in 1 .. Len(Script),
         Script[i] = Script[j] \/ Rank(Script[i]) = Rank(Script[j])
  PROVE  i = j
<1> DEFINE s == Script
<1>1. /\ Len(s) \in Nat /\ \A k \in 1 .. Len(s) : Rank(s[k]) \in Nat
      /\ \A k, l \in 1 .. Len(s) : k < l => Rank(s[k]) < Rank(s[l])
  BY Scripts
<1>2. i \in 1 .. Len(s) /\ j \in 1 .. Len(s) /\ Rank(s[i]) = Rank(s[j])
  OBVIOUS
<1> HIDE DEF s
<1>3. ~(i < j) /\ ~(j < i)
  BY <1>1, <1>2
<1> QED
  BY <1>1, <1>2, <1>3

\* The script is the call's.
LEMMA ScriptSame == ASSUME call' = call PROVE Script' = Script
<1>1. ShareScript' = ShareScript
  BY DEF ShareScript, CreateScript, LinkScript, LinkChanges, RevokeScript, AddScript, RoleScript,
         RemoveScript, RespondScript
<1>2. AdminScript' = AdminScript
  BY DEF AdminScript, UserCreateScript, UserUpdateScript, UserStateScript, UserDeleteScript,
         AppRoleScript, GroupCreateScript, GroupUpdateScript, GroupDeleteScript, MembershipScript,
         SpaceCreateScript, SpaceUpdateScript, SpaceDisableScript, SpaceRestoreScript,
         SpaceDeleteScript, MemberAddScript, MemberUpdateScript, MemberRemoveScript, Guarded
<1>3. RecoveryScript' = RecoveryScript
  BY DEF RecoveryScript, TrashScript, VersionScript
<1> QED
  BY <1>1, <1>2, <1>3 DEF Script

\* The step that is under way is one of the script, and what comes after it follows it.
LEMMA UnderWay ==
  ASSUME Follow, todo # <<>>
  PROVE  /\ Len(todo) \in Nat \ {0} /\ Len(Script) \in Nat
         /\ Behind \in Nat /\ Behind + 1 \in 1 .. Len(Script)
         /\ Head(todo) = Script[Behind + 1] /\ Head(todo) = todo[1]
         /\ Head(todo) \in AllSteps /\ Fitting(Head(todo))
         /\ Tail(todo) \in Seq(AllSteps) /\ Len(Tail(todo)) = Len(todo) - 1
         /\ \A i \in 1 .. Len(todo) - 1 : Tail(todo)[i] = todo[i + 1]
         /\ <<>> \o Tail(todo) = Tail(todo)
         /\ Tail(todo) = <<>> <=> Len(todo) = 1
<1>1. todo \in Seq(AllSteps) /\ Len(todo) \in 1 .. Len(Script) /\ call \in Calls
  BY DEF Follow
<1>2. /\ Tail(todo) \in Seq(AllSteps) /\ Len(Tail(todo)) = Len(todo) - 1
      /\ \A i \in 1 .. Len(Tail(todo)) : Tail(todo)[i] = todo[i + 1]
  BY <1>1, HeadTailProperties
<1>3. Len(todo) \in Nat \ {0} /\ Head(todo) = todo[1]
  BY <1>1, EmptySeq
<1>4. <<>> \o Tail(todo) = Tail(todo)
  BY <1>2, ConcatEmptySeq
<1>5. Len(Script) \in Nat
  BY <1>1, Scripts
<1>6. Behind \in Nat /\ Behind + 1 \in 1 .. Len(Script)
  <2> DEFINE n == Len(Script)
  <2>1. n \in Nat /\ Len(todo) \in 1 .. n
    BY <1>1, <1>5
  <2> HIDE DEF n
  <2>2. n - Len(todo) \in Nat /\ n - Len(todo) + 1 \in 1 .. n
    BY <2>1
  <2> QED
    BY <2>2 DEF Behind, n
<1>7. todo[1] = Script[Behind + 1]
  <2>1. 1 \in 1 .. Len(todo)
    BY <1>3
  <2> QED
    BY <2>1 DEF Follow
<1>8. Script[Behind + 1] \in AllSteps /\ Fitting(Script[Behind + 1])
  BY <1>1, <1>6, Scripts
<1>9. Tail(todo) = <<>> <=> Len(todo) = 1
  BY <1>2, <1>3, EmptySeq
<1> QED
  BY <1>2, <1>3, <1>4, <1>5, <1>6, <1>7, <1>8, <1>9

\* The next step.
LEMMA FollowTail ==
  ASSUME Follow, todo # <<>>, call' = call, todo' = Tail(todo)
  PROVE  Follow' /\ Script' = Script /\ Behind' = Behind + 1
<1>1. Script' = Script /\ call' \in Calls
  BY ScriptSame DEF Follow
<1> DEFINE s == Script
           n == Len(todo)
<1>2. /\ n \in Nat \ {0} /\ Len(s) \in Nat /\ Len(todo') = n - 1
      /\ todo' \in Seq(AllSteps) /\ (todo' = <<>> <=> n = 1)
      /\ \A i \in 1 .. n - 1 : todo'[i] = todo[i + 1]
  BY UnderWay
<1>3. n \in 1 .. Len(s) /\ \A i \in 1 .. n : todo[i] = s[Len(s) - n + i]
  BY DEF Follow, Behind
<1> HIDE DEF s, n
<1>4. todo' # <<>> => n - 1 \in 1 .. Len(s)
  BY <1>2, <1>3
<1>5. ASSUME NEW i \in 1 .. n - 1 PROVE todo'[i] = s[Len(s) - (n - 1) + i]
  <2>1. i + 1 \in 1 .. n /\ Len(s) - n + (i + 1) = Len(s) - (n - 1) + i
    BY <1>2
  <2> QED
    BY <1>2, <1>3, <2>1
<1>6. Behind' = Len(s) - (n - 1)
  BY <1>1, <1>2 DEF Behind, s
<1>7. Len(s) - (n - 1) = Len(s) - n + 1
  BY <1>2
<1>8. Follow'
  BY <1>1, <1>2, <1>4, <1>5, <1>6 DEF Follow, s
<1> QED
  BY <1>1, <1>6, <1>7, <1>8 DEF Behind, s, n

\* A step that leaves the command where it is or ends it.
LEMMA FollowStays ==
  ASSUME Follow, call' = call, todo' \in {<<>>, todo}
  PROVE  Follow' /\ Script' = Script /\ (todo' = todo => Behind' = Behind)
<1>1. Script' = Script /\ call' \in Calls
  BY ScriptSame DEF Follow
<1>2. todo' = todo => Behind' = Behind
  BY <1>1 DEF Behind
<1>3. Follow'
  BY <1>1, <1>2 DEF Follow
<1> QED
  BY <1>1, <1>2, <1>3

-----------------------------------------------------------------------------
(* What an attempt at a step does to the command, its history and what it     *)
(* knows, whatever the command.                                               *)

\* What an error after this step says.
Error(step) ==
  IF \/ step \in {"reloadLink", "reloadPermission", "clearDefault"}
     \/ step = "patchLink" /\ call.password = "set"
     \/ step = "removePassword" /\ call.fields # {}
  THEN "partial" ELSE "failed"

\* What the command knows after the lookups that later steps rely on.
Teaches ==
  /\ Head(todo) = "drive" => "drive" \in DOMAIN seen' /\ seen'["drive"] # 0
  /\ Head(todo) = "getVersion" =>
       "getVersion" \in DOMAIN seen' /\ seen'["getVersion"] = call.version
  /\ Head(todo) = "receive" =>
       "receive" \in DOMAIN seen' /\ (call.verify => seen'["receive"] = seen["getVersion"])
  /\ Head(todo) = "lookLocal" => local = "none"
  /\ Head(todo) = "clearDefault" =>
       default' = IF default = seen["drive"] THEN 0 ELSE default
  /\ \A s \in DOMAIN seen : s # Head(todo) => s \in DOMAIN seen' /\ seen'[s] = seen[s]

Passed ==
  /\ todo' = Tail(todo)
  /\ outcome' = IF Len(todo) = 1 THEN "done" ELSE outcome
  /\ unsure' = unsure
  /\ carried' = IF Head(todo) \in Changes THEN Append(carried, Head(todo)) ELSE carried
  /\ Teaches

NotPassed ==
  /\ \/ todo' = todo /\ outcome' = outcome
     \/ todo' = <<>> /\ outcome' = Error(Head(todo))
  /\ seen' = seen
  /\ \/ carried' = carried /\ unsure' = unsure
     \/ Head(todo) \in Changes /\ carried' = Append(carried, Head(todo)) /\ unsure' = TRUE

NothingToEmpty ==
  /\ Head(todo) = "emptyTrash"
  /\ todo' = <<>> /\ outcome' = "done" /\ seen' = seen /\ carried' = carried /\ unsure' = unsure

Attempt == todo # <<>> /\ call' = call /\ (Passed \/ NotPassed \/ NothingToEmpty)

\* A request that only reads.
LEMMA Reads ==
  ASSUME Follow, NEW step, step \notin Changes \cup {"receive", "lookLocal", "clearDefault"},
         NEW able, NEW answer, step = "drive" => (able => answer # 0),
         step = "getVersion" => answer = call.version,
         NEW error, error = Error(step), Ask(step, able, answer, error)
  PROVE  Attempt
<1>1. todo # <<>> /\ Head(todo) = step
  BY DEF Ask, AskThen, At
<1>2. <<>> \o Tail(todo) = Tail(todo)
  BY <1>1, UnderWay
<1>3. CASE able /\ Answered(step, answer, <<>>) /\ UNCHANGED carried
  <2>1. Teaches
    BY <1>1, <1>3 DEF Answered, Learn, Teaches
  <2> QED
    BY <1>1, <1>2, <1>3, <2>1 DEF Answered, Continue, Attempt, Passed
<1>4. CASE ~able /\ Refused(error)
  BY <1>1, <1>4 DEF Refused, Fail, Attempt, NotPassed
<1>5. CASE Again(error) /\ UNCHANGED <<carried, unsure>>
  BY <1>1, <1>5 DEF Again, Fail, Attempt, NotPassed
<1> QED
  BY <1>3, <1>4, <1>5 DEF Ask, AskThen

\* A decision.
LEMMA Decides ==
  ASSUME Follow, NEW step, step \notin Changes \cup {"drive", "getVersion", "receive", "clearDefault"},
         NEW good, step = "lookLocal" => (good => local = "none"),
         NEW error, error = Error(step), Decide(step, good, error)
  PROVE  Attempt
<1>1. todo # <<>> /\ Head(todo) = step
  BY DEF Decide, At
<1>2. <<>> \o Tail(todo) = Tail(todo)
  BY <1>1, UnderWay
<1>3. CASE good
  <2>1. Proceed /\ UNCHANGED <<seen, carried, unsure, faults>>
    BY <1>3 DEF Decide
  <2>2. Teaches
    BY <1>1, <1>3, <2>1 DEF Teaches
  <2> QED
    BY <1>1, <1>2, <2>1, <2>2 DEF Proceed, Continue, Attempt, Passed
<1>4. CASE ~good
  <2>1. Refused(error)
    BY <1>4 DEF Decide
  <2> QED
    BY <1>1, <2>1 DEF Refused, Fail, Attempt, NotPassed
<1> QED
  BY <1>3, <1>4

\* What a request that changes something does to the command.
Altered(step, answer, error) ==
  /\ At(step)
  /\ \/ carried' = Append(carried, step) /\ Answered(step, answer, <<>>)
     \/ carried' = Append(carried, step) /\ unsure' = TRUE /\ Again(error)
     \/ Refused(error)
     \/ Again(error) /\ UNCHANGED <<carried, unsure>>

LEMMA Alters ==
  ASSUME Follow, NEW step \in Changes, NEW answer, NEW error, error = Error(step),
         Altered(step, answer, error)
  PROVE  Attempt
<1>1. todo # <<>> /\ Head(todo) = step
  BY DEF Altered, At
<1>2. <<>> \o Tail(todo) = Tail(todo)
  BY <1>1, UnderWay
<1>3. step \notin {"drive", "getVersion", "receive", "lookLocal", "clearDefault"}
  BY DEF Changes, ShareChanges, AdminChanges, RecoveryChanges
<1>4. CASE carried' = Append(carried, step) /\ Answered(step, answer, <<>>)
  <2>1. Teaches
    BY <1>1, <1>3, <1>4 DEF Answered, Learn, Teaches
  <2> QED
    BY <1>1, <1>2, <1>4, <2>1 DEF Answered, Continue, Attempt, Passed
<1>5. CASE carried' = Append(carried, step) /\ unsure' = TRUE /\ Again(error)
  BY <1>1, <1>5 DEF Again, Fail, Attempt, NotPassed
<1>6. CASE Refused(error)
  BY <1>1, <1>6 DEF Refused, Fail, Attempt, NotPassed
<1>7. CASE Again(error) /\ UNCHANGED <<carried, unsure>>
  BY <1>1, <1>7 DEF Again, Fail, Attempt, NotPassed
<1> QED
  BY <1>4, <1>5, <1>6, <1>7 DEF Altered

\* The steps whose errors never say that something was done.
LEMMA Failing ==
  \A step : step \notin {"reloadLink", "reloadPermission", "clearDefault", "patchLink", "removePassword"}
    => Error(step) = "failed"
  BY DEF Error

\* The steps that look something up.
Lookups ==
  {"capabilities", "stat", "roles", "recipient", "listOutgoing", "listReceived", "guard", "user", "self",
   "group", "applications", "assignments", "spaceRole", "member", "options", "statFile", "listTrash",
   "listVersions"}

LEMMA LookupSteps ==
  /\ "capabilities" \in Lookups /\ "stat" \in Lookups /\ "roles" \in Lookups /\ "recipient" \in Lookups
  /\ "listOutgoing" \in Lookups /\ "listReceived" \in Lookups /\ "guard" \in Lookups
  /\ "user" \in Lookups /\ "self" \in Lookups /\ "group" \in Lookups /\ "applications" \in Lookups
  /\ "assignments" \in Lookups /\ "spaceRole" \in Lookups /\ "member" \in Lookups
  /\ "options" \in Lookups /\ "statFile" \in Lookups /\ "listTrash" \in Lookups
  /\ "listVersions" \in Lookups
  BY DEF Lookups

LEMMA Looks ==
  ASSUME Follow, NEW step \in Lookups, NEW able, NEW answer, Ask(step, able, answer, "failed")
  PROVE  Attempt
<1>1. step \notin Changes \cup {"receive", "lookLocal", "clearDefault", "drive", "getVersion"}
  BY DEF Lookups, Changes, ShareChanges, AdminChanges, RecoveryChanges
<1>2. step \notin {"reloadLink", "reloadPermission", "patchLink", "removePassword"}
  BY DEF Lookups
<1>3. Error(step) = "failed"
  BY <1>1, <1>2, Failing
<1> QED
  BY <1>1, <1>3, Reads

Aside == call' = call /\ todo' = todo /\ outcome' = outcome /\ seen' = seen
           /\ carried' = carried /\ unsure' = unsure

\* Every step of the share commands is such an attempt, or another client's.
LEMMA ShareAttempts == ASSUME Follow, ShareNext PROVE Attempt \/ Aside
<1>1. CASE Capabilities
  BY <1>1, Looks, LookupSteps DEF Capabilities
<1>2. CASE CreateLink
  <2>1. Altered("createLink", NewID, "failed")
    BY <1>2 DEF CreateLink, Change, Altered
  <2> QED
    BY <2>1, Alters, Failing DEF Changes, ShareChanges, AdminChanges, RecoveryChanges
<1>3. CASE LoadLink
  <2>1. PICK step \in {"getLink", "getPermission", "reloadLink", "reloadPermission"} : Load(step)
    BY <1>3 DEF LoadLink
  <2>2. Error(step) = IF step \in {"reloadLink", "reloadPermission"} THEN "partial" ELSE "failed"
    BY DEF Error
  <2> QED
    BY <2>1, <2>2, Reads DEF Load, Changes, ShareChanges, AdminChanges, RecoveryChanges
<1>4. CASE SetPassword
  <2>1. Altered("setPassword", 0, LinkError)
    BY <1>4 DEF SetPassword, ChangeLink, Change, Altered
  <2>2. LinkError = Error("setPassword")
    BY <2>1 DEF Altered, At, LinkError, Error
  <2> QED
    BY <2>1, <2>2, Alters DEF Changes, ShareChanges, AdminChanges, RecoveryChanges
<1>5. CASE PatchLink
  <2>1. Altered("patchLink", 0, LinkError)
    BY <1>5 DEF PatchLink, ChangeLink, Change, Altered
  <2>2. LinkError = Error("patchLink")
    BY <2>1 DEF Altered, At, LinkError, Error
  <2> QED
    BY <2>1, <2>2, Alters DEF Changes, ShareChanges, AdminChanges, RecoveryChanges
<1>6. CASE RemovePassword
  <2>1. Altered("removePassword", 0, LinkError)
    BY <1>6 DEF RemovePassword, ChangeLink, Change, Altered
  <2>2. LinkError = Error("removePassword")
    BY <2>1 DEF Altered, At, LinkError, Error
  <2> QED
    BY <2>1, <2>2, Alters DEF Changes, ShareChanges, AdminChanges, RecoveryChanges
<1>7. CASE Stat
  BY <1>7, Looks, LookupSteps DEF Stat
<1>8. CASE AskRoles
  BY <1>8, Looks, LookupSteps DEF AskRoles
<1>9. CASE AskRecipient
  BY <1>9, Looks, LookupSteps DEF AskRecipient
<1>10. CASE Invite
  <2>1. Altered("invite", 0, "failed")
    BY <1>10 DEF Invite, Change, Altered
  <2> QED
    BY <2>1, Alters, Failing DEF Changes, ShareChanges, AdminChanges, RecoveryChanges
<1>11. CASE ListOutgoing
  BY <1>11, Looks, LookupSteps DEF ListOutgoing
<1>12. CASE PatchRole
  <2>1. Altered("patchRole", 0, "failed")
    BY <1>12 DEF PatchRole, Change, Altered
  <2> QED
    BY <2>1, Alters, Failing DEF Changes, ShareChanges, AdminChanges, RecoveryChanges
<1>13. CASE Remove
  <2>1. Altered("remove", 0, "failed")
    BY <1>13 DEF Remove, Change, Altered
  <2> QED
    BY <2>1, Alters, Failing DEF Changes, ShareChanges, AdminChanges, RecoveryChanges
<1>14. CASE ListReceived
  BY <1>14, Looks, LookupSteps DEF ListReceived
<1>15. CASE Respond
  <2>1. Altered("respond", 0, "failed")
    BY <1>15 DEF Respond, Change, Altered
  <2> QED
    BY <2>1, Alters, Failing DEF Changes, ShareChanges, AdminChanges, RecoveryChanges
<1>16. CASE EditLink \/ WithdrawShare \/ ReplaceItem \/ RenamePerson
  BY <1>16 DEF EditLink, WithdrawShare, ReplaceItem, RenamePerson, Edit, control, Aside
<1> QED
  BY <1>1, <1>2, <1>3, <1>4, <1>5, <1>6, <1>7, <1>8, <1>9, <1>10, <1>11, <1>12, <1>13, <1>14,
     <1>15, <1>16 DEF ShareNext

\* A change of an account, a group or a Space.
LEMMA AltersUser ==
  ASSUME Follow, NEW step \in Changes, Error(step) = "failed", NEW id, NEW able, NEW record,
         ChangeUser(step, id, able, record)
  PROVE  Attempt
<1>1. Altered(step, id, "failed")
  BY DEF ChangeUser, Change, Altered
<1> QED
  BY <1>1, Alters

LEMMA AltersGroup ==
  ASSUME Follow, NEW step \in Changes, Error(step) = "failed", NEW id, NEW able, NEW record,
         ChangeGroup(step, id, able, record)
  PROVE  Attempt
<1>1. Altered(step, id, "failed")
  BY DEF ChangeGroup, Change, Altered
<1> QED
  BY <1>1, Alters

LEMMA AltersDrive ==
  ASSUME Follow, NEW step \in Changes, Error(step) = "failed", NEW id, NEW able, NEW record,
         ChangeDrive(step, id, able, record)
  PROVE  Attempt
<1>1. Altered(step, id, "failed")
  BY DEF ChangeDrive, Change, Altered
<1> QED
  BY <1>1, Alters

\* So is every step of the administrator's commands.
LEMMA AdminAttempts == ASSUME Follow, AdminNext PROVE Attempt \/ Aside
<1>1. CASE Guard
  BY <1>1, Looks, LookupSteps DEF Guard
<1>2. CASE LookUpUser
  BY <1>2, Looks, LookupSteps DEF LookUpUser
<1>3. CASE RejectSelf
  BY <1>3, Looks, LookupSteps DEF RejectSelf
<1>4. CASE LookUpGroup
  BY <1>4, Looks, LookupSteps DEF LookUpGroup
<1>5. CASE LookUpDrive
  <2> DEFINE d == FindDrive(call.space)
             able == d # 0 /\ drive[d].project
  <2>1. Ask("drive", able, d, "failed")
    BY <1>5 DEF LookUpDrive
  <2>2. able => d # 0
    OBVIOUS
  <2> HIDE DEF d, able
  <2> QED
    BY <2>1, <2>2, Reads, Failing DEF Changes, ShareChanges, AdminChanges, RecoveryChanges
<1>6. CASE Applications
  BY <1>6, Looks, LookupSteps DEF Applications
<1>7. CASE Assignments
  BY <1>7, Looks, LookupSteps DEF Assignments
<1>8. CASE SpaceRole
  BY <1>8, Looks, LookupSteps DEF SpaceRole
<1>9. CASE LookUpMember
  BY <1>9, Looks, LookupSteps DEF LookUpMember
<1>10. CASE PickRole
  BY <1>10, Decides, Failing DEF PickRole, Changes, ShareChanges, AdminChanges, RecoveryChanges
<1>11. CASE PickAssignment
  BY <1>11, Decides, Failing DEF PickAssignment, Changes, ShareChanges, AdminChanges, RecoveryChanges
<1>12. CASE Options
  <2>1. CASE Ask("options", Written \cap ReadOnly = {}, TRUE, "failed")
    BY <2>1, Looks, LookupSteps
  <2>2. CASE Fault /\ Proceed /\ UNCHANGED <<seen, carried, unsure>>
    <3>1. todo # <<>> /\ Head(todo) = "options"
      BY <1>12 DEF Options, At
    <3>2. <<>> \o Tail(todo) = Tail(todo)
      BY <3>1, UnderWay
    <3> QED
      BY <2>2, <3>1, <3>2 DEF Proceed, Continue, Attempt, Passed, Teaches,
      Changes, ShareChanges, AdminChanges, RecoveryChanges
  <2> QED
    BY <1>12, <2>1, <2>2 DEF Options
<1>13. CASE ClearDefault
  <2>1. todo # <<>> /\ Head(todo) = "clearDefault"
    BY <1>13 DEF ClearDefault, At
  <2>2. <<>> \o Tail(todo) = Tail(todo)
    BY <2>1, UnderWay
  <2>3. CASE /\ default' = IF default = seen["drive"] THEN 0 ELSE default
             /\ Proceed /\ UNCHANGED <<seen, carried, unsure, faults>>
    BY <2>1, <2>2, <2>3 DEF Proceed, Continue, Attempt, Passed, Teaches,
      Changes, ShareChanges, AdminChanges, RecoveryChanges
  <2>4. CASE Fault /\ Fail("partial") /\ UNCHANGED <<carried, unsure>>
    BY <2>1, <2>4 DEF Fail, Attempt, NotPassed, Error
  <2> QED
    BY <1>13, <2>3, <2>4 DEF ClearDefault
<1>14. CASE CreateUser
  BY <1>14, AltersUser, Failing DEF CreateUser, Changes, ShareChanges, AdminChanges, RecoveryChanges
<1>15. CASE UpdateUser
  BY <1>15, AltersUser, Failing DEF UpdateUser, Changes, ShareChanges, AdminChanges, RecoveryChanges
<1>16. CASE SetState
  BY <1>16, AltersUser, Failing DEF SetState, Changes, ShareChanges, AdminChanges, RecoveryChanges
<1>17. CASE DeleteUser
  BY <1>17, AltersUser, Failing DEF DeleteUser, Changes, ShareChanges, AdminChanges, RecoveryChanges
<1>18. CASE GrantRole
  BY <1>18, AltersUser, Failing DEF GrantRole, Changes, ShareChanges, AdminChanges, RecoveryChanges
<1>19. CASE RevokeRole
  BY <1>19, AltersUser, Failing DEF RevokeRole, Changes, ShareChanges, AdminChanges, RecoveryChanges
<1>20. CASE CreateGroup
  BY <1>20, AltersGroup, Failing DEF CreateGroup, Changes, ShareChanges, AdminChanges, RecoveryChanges
<1>21. CASE UpdateGroup
  BY <1>21, AltersGroup, Failing DEF UpdateGroup, Changes, ShareChanges, AdminChanges, RecoveryChanges
<1>22. CASE DeleteGroup
  BY <1>22, AltersGroup, Failing DEF DeleteGroup, Changes, ShareChanges, AdminChanges, RecoveryChanges
<1>23. CASE ChangeMembership
  BY <1>23, AltersGroup, Failing DEF ChangeMembership, Changes, ShareChanges, AdminChanges, RecoveryChanges
<1>24. CASE CreateDrive
  BY <1>24, AltersDrive, Failing DEF CreateDrive, Changes, ShareChanges, AdminChanges, RecoveryChanges
<1>25. CASE UpdateDrive
  BY <1>25, AltersDrive, Failing DEF UpdateDrive, Changes, ShareChanges, AdminChanges, RecoveryChanges
<1>26. CASE DisableDrive
  BY <1>26, AltersDrive, Failing DEF DisableDrive, Changes, ShareChanges, AdminChanges, RecoveryChanges
<1>27. CASE RestoreDrive
  BY <1>27, AltersDrive, Failing DEF RestoreDrive, Changes, ShareChanges, AdminChanges, RecoveryChanges
<1>28. CASE PurgeDrive
  BY <1>28, AltersDrive, Failing DEF PurgeDrive, Changes, ShareChanges, AdminChanges, RecoveryChanges
<1>29. CASE AddMember
  BY <1>29, AltersDrive, Failing DEF AddMember, Changes, ShareChanges, AdminChanges, RecoveryChanges
<1>30. CASE UpdateMember
  BY <1>30, AltersDrive, Failing DEF UpdateMember, Changes, ShareChanges, AdminChanges, RecoveryChanges
<1>31. CASE RemoveMember
  BY <1>31, AltersDrive, Failing DEF RemoveMember, Changes, ShareChanges, AdminChanges, RecoveryChanges
<1>32. CASE RenameUser \/ LoseUser \/ AlterGroup \/ AlterDrive \/ SessionAges
  BY <1>32 DEF RenameUser, LoseUser, AlterGroup, AlterDrive, SessionAges, Meanwhile, control, Aside
<1> QED
  BY <1>1, <1>2, <1>3, <1>4, <1>5, <1>6, <1>7, <1>8, <1>9, <1>10, <1>11, <1>12, <1>13, <1>14,
     <1>15, <1>16, <1>17, <1>18, <1>19, <1>20, <1>21, <1>22, <1>23, <1>24, <1>25, <1>26, <1>27,
     <1>28, <1>29, <1>30, <1>31, <1>32 DEF AdminNext

\* So is every step of the commands of trash and versions.
LEMMA RecoveryAttempts == ASSUME Follow, RecoveryNext PROVE Attempt \/ Aside
<1>1. CASE ListTrash
  <2> DEFINE able == call.op # "trashEmpty" => state[call.id] = "bin"
             answer == [items |-> InState("bin"),
                        path |-> IF call.op = "trashEmpty" THEN 0 ELSE place[call.id]]
  <2>1. Ask("listTrash", able, answer, "failed")
    BY <1>1 DEF ListTrash
  <2> HIDE DEF able, answer
  <2> QED
    BY <2>1, Looks, LookupSteps
<1>2. CASE StatFile
  BY <1>2, Looks, LookupSteps DEF StatFile
<1>3. CASE ListVersions
  BY <1>3, Looks, LookupSteps DEF ListVersions
<1>4. CASE GetVersion
  BY <1>4, Reads, Failing DEF GetVersion, Changes, ShareChanges, AdminChanges, RecoveryChanges
<1>5. CASE ResolveVersion
  BY <1>5, Decides, Failing DEF ResolveVersion, Changes, ShareChanges, AdminChanges, RecoveryChanges
<1>6. CASE LookLocal
  BY <1>6, Decides, Failing DEF LookLocal, Changes, ShareChanges, AdminChanges, RecoveryChanges
<1>7. CASE RestoreItem
  <2>1. Altered("restoreItem", 0, "failed")
    BY <1>7 DEF RestoreItem, MoveBack, Change, Altered
  <2> QED
    BY <2>1, Alters, Failing DEF Changes, ShareChanges, AdminChanges, RecoveryChanges
<1>8. CASE RemoveItem
  <2>1. Altered("removeItem", 0, "failed")
    BY <1>8 DEF RemoveItem, Change, Altered
  <2> QED
    BY <2>1, Alters, Failing DEF Changes, ShareChanges, AdminChanges, RecoveryChanges
<1>9. CASE EmptyTrash
  <2>1. Altered("emptyTrash", 0, "failed")
    BY <1>9 DEF EmptyTrash, Change, Altered
  <2> QED
    BY <2>1, Alters, Failing DEF Changes, ShareChanges, AdminChanges, RecoveryChanges
<1>10. CASE CopyVersion
  <2>1. Altered("copyVersion", 0, "failed")
    BY <1>10 DEF CopyVersion, Change, Altered
  <2> QED
    BY <2>1, Alters, Failing DEF Changes, ShareChanges, AdminChanges, RecoveryChanges
<1>11. CASE AlreadyEmpty
  BY <1>11 DEF AlreadyEmpty, Finish, At, Attempt, NothingToEmpty
<1>12. CASE Receive
  <2>1. todo # <<>> /\ Head(todo) = "receive"
    BY <1>12 DEF Receive, At
  <2>2. <<>> \o Tail(todo) = Tail(todo)
    BY <2>1, UnderWay
  <2>3. CASE Learn("receive", seen["getVersion"]) /\ Proceed /\ UNCHANGED <<carried, unsure, faults>>
    <3>1. Teaches
      BY <2>1, <2>3 DEF Learn, Teaches
    <3> QED
      BY <2>1, <2>2, <2>3, <3>1 DEF Proceed, Continue, Attempt, Passed,
      Changes, ShareChanges, AdminChanges, RecoveryChanges
  <2>4. CASE ~call.verify /\ Learn("receive", "part") /\ Proceed /\ UNCHANGED <<carried, unsure>>
    <3>1. Teaches
      BY <2>1, <2>4 DEF Learn, Teaches
    <3> QED
      BY <2>1, <2>2, <2>4, <3>1 DEF Proceed, Continue, Attempt, Passed,
      Changes, ShareChanges, AdminChanges, RecoveryChanges
  <2>5. CASE Fail("failed") /\ UNCHANGED <<carried, unsure>>
    BY <2>1, <2>5, Failing DEF Fail, Attempt, NotPassed
  <2> QED
    BY <1>12, <2>3, <2>4, <2>5 DEF Receive
<1>13. CASE ReplaceLocal
  <2>1. todo # <<>> /\ Head(todo) = "replaceLocal"
    BY <1>13 DEF ReplaceLocal, At
  <2>2. <<>> \o Tail(todo) = Tail(todo)
    BY <2>1, UnderWay
  <2> QED
    BY <1>13, <2>1, <2>2 DEF ReplaceLocal, Proceed, Continue, Attempt, Passed, Teaches,
      Changes, ShareChanges, AdminChanges, RecoveryChanges
<1>14. CASE Discard \/ Reinstate \/ MoveFile \/ SaveFile \/ SaveLocal
  BY <1>14 DEF Discard, Reinstate, MoveFile, SaveFile, SaveLocal, OthersAct, control, Aside
<1> QED
  BY <1>1, <1>2, <1>3, <1>4, <1>5, <1>6, <1>7, <1>8, <1>9, <1>10, <1>11, <1>12, <1>13, <1>14 DEF RecoveryNext

-----------------------------------------------------------------------------
(* How a command ends tells what it did                                       *)

\* The ranks of the changes.
LEMMA ChangeRanks ==
  \A step \in Changes :
    /\ step \in AllSteps
    /\ \/ step = "setPassword" /\ Rank(step) = 31
       \/ step = "patchLink" /\ Rank(step) = 32
       \/ step = "removePassword" /\ Rank(step) = 33
       \/ step \in Single /\ Rank(step) = 36
<1>1. "reloadLink" \notin Changes /\ "reloadPermission" \notin Changes
  BY DEF Changes, ShareChanges, AdminChanges, RecoveryChanges
<1>2. ASSUME NEW step \in Changes, step \notin LinkSteps
      PROVE  step \in Single
  BY <1>2 DEF Single
<1> QED
  BY <1>1, <1>2, Ranks DEF AllSteps, LinkSteps

\* The steps that come after some change.
LEMMA HighRanks ==
  \A step \in AllSteps :
    /\ Rank(step) > 36 => step = "clearDefault"
    /\ Rank(step) > 31 /\ Rank(step) <= 35 =>
         step \in {"patchLink", "removePassword", "reloadLink", "reloadPermission"}
    /\ Rank(step) > 32 /\ Rank(step) <= 35 =>
         step \in {"removePassword", "reloadLink", "reloadPermission"}
    /\ Rank(step) > 33 /\ Rank(step) <= 35 => step \in {"reloadLink", "reloadPermission"}
<1>1. ASSUME NEW step \in Level1 \cup Level2 \cup Level3 \cup Level4 \cup Level5 \cup Level6
                          \cup {"replaceLocal"}
      PROVE  Rank(step) \in 1 .. 7
  BY Ranks
<1>2. ASSUME NEW step \in LinkSteps \cup Single \cup {"clearDefault"}
      PROVE  /\ Rank(step) > 36 => step = "clearDefault"
             /\ Rank(step) > 31 /\ Rank(step) <= 35 =>
                  step \in {"patchLink", "removePassword", "reloadLink", "reloadPermission"}
             /\ Rank(step) > 32 /\ Rank(step) <= 35 =>
                  step \in {"removePassword", "reloadLink", "reloadPermission"}
             /\ Rank(step) > 33 /\ Rank(step) <= 35 => step \in {"reloadLink", "reloadPermission"}
  BY Ranks DEF LinkSteps
<1> QED
  BY <1>1, <1>2 DEF AllSteps

\* An update of a link consists of the requests about the link.
LEMMA LinkCalls ==
  ASSUME call \in Calls, call.op = "linkUpdate"
  PROVE  Script = LinkScript /\ \A i \in 1 .. Len(Script) : Rank(Script[i]) <= 35
<1>1. call \in ShareCalls
  <2>1. call \in AdminCalls => call.op # "linkUpdate"
    BY AdministrationAssumption
  <2>2. call \in RecoveryCalls => call.op # "linkUpdate"
    BY RecoveryAssumption
  <2> QED
    BY <2>1, <2>2 DEF Calls
<1>2. Script = LinkScript
  <2>1. call.op \in ShareOps
    BY <1>1 DEF ShareOps
  <2> QED
    BY <2>1, FamiliesAssumption DEF Script, ShareScript
<1>3. \A i \in 1 .. Len(LinkScript) : Rank(LinkScript[i]) <= 35
  BY LinkWithin DEF Within
<1> QED
  BY <1>2, <1>3

\* After a change every error says that something was done.
LEMMA NoChangeBefore ==
  ASSUME call \in Calls, NEW i \in 1 .. Len(Script), NEW j \in 1 .. Len(Script), i < j,
         Script[i] \in Changes
  PROVE  Error(Script[j]) = "partial"
<1> DEFINE c == Script[i]
           d == Script[j]
<1>1. /\ Rank(c) < Rank(d) /\ d \in AllSteps /\ Rank(d) \in Nat /\ Fitting(c) /\ Fitting(d)
  BY Scripts
<1>2. call.op = "linkUpdate" => Rank(d) <= 35
  BY LinkCalls
<1>3. c \in Changes
  OBVIOUS
<1> HIDE DEF c, d
<1>4. CASE c = "setPassword" /\ Rank(c) = 31
  <2>1. call.op = "linkUpdate" /\ call.password = "set"
    BY <1>1, <1>4 DEF Fitting, LinkSteps
  <2>2. d \in {"patchLink", "removePassword", "reloadLink", "reloadPermission"}
    BY <1>1, <1>2, <1>4, <2>1, HighRanks
  <2>3. d # "removePassword"
    BY <1>1, <2>1 DEF Fitting
  <2> QED
    BY <2>1, <2>2, <2>3 DEF Error, d
<1>5. CASE c = "patchLink" /\ Rank(c) = 32
  <2>1. call.op = "linkUpdate" /\ call.fields # {}
    BY <1>1, <1>5 DEF Fitting, LinkSteps
  <2>2. d \in {"removePassword", "reloadLink", "reloadPermission"}
    BY <1>1, <1>2, <1>5, <2>1, HighRanks
  <2> QED
    BY <2>1, <2>2 DEF Error, d
<1>6. CASE c = "removePassword" /\ Rank(c) = 33
  <2>1. call.op = "linkUpdate"
    BY <1>1, <1>6 DEF Fitting, LinkSteps
  <2>2. d \in {"reloadLink", "reloadPermission"}
    BY <1>1, <1>2, <1>6, <2>1, HighRanks
  <2> QED
    BY <2>2 DEF Error, d
<1>7. CASE c \in Single /\ Rank(c) = 36
  <2>1. d = "clearDefault"
    BY <1>1, <1>7, HighRanks
  <2> QED
    BY <2>1 DEF Error, d
<1> QED
  BY <1>3, <1>4, <1>5, <1>6, <1>7, ChangeRanks

\* To empty the trash is one change.
LEMMA EmptiesOnly ==
  ASSUME call \in Calls, NEW i \in 1 .. Len(Script), NEW j \in 1 .. Len(Script),
         Script[j] = "emptyTrash", Script[i] \in Changes
  PROVE  Script[i] = "emptyTrash"
<1> DEFINE c == Script[i]
<1>1. Fitting(c) /\ Fitting(Script[j]) /\ c \in Changes
  BY Scripts
<1>2. call.op = "trashEmpty"
  BY <1>1 DEF Fitting
<1>3. c \notin LinkSteps
  BY <1>1, <1>2 DEF Fitting
<1>4. Rank(c) = 36
  BY <1>1, <1>3, ChangeRanks DEF LinkSteps
<1>5. Rank(Script[j]) = 36
  BY PlacedBy
<1> QED
  BY <1>4, <1>5, ScriptOnce

\* What a step of any command does to it: it starts or dies, an attempt is made, or nothing.
Begins ==
  /\ todo = <<>> /\ todo' = Script /\ call' = call /\ seen' = <<>>
  /\ outcome' = IF Script = <<>> THEN "done" ELSE "none"
  /\ carried' = <<>> /\ unsure' = FALSE

Dies ==
  /\ todo # <<>> /\ todo' = <<>> /\ call' = call /\ seen' = seen /\ outcome' = "died"
  /\ carried' = carried /\ unsure' = unsure

LEMMA StepCases ==
  ASSUME Follow, [CommandNext]_commandVars PROVE Begins \/ Dies \/ Attempt \/ Aside
<1>1. CASE Start
  BY <1>1 DEF Start, Run, Begins
<1>2. CASE Killed
  BY <1>2 DEF Killed, Die, Dies
<1>3. CASE Rest \/ UNCHANGED commandVars
  BY <1>3 DEF Rest, commandVars, control, Aside
<1>4. CASE call.op \in ShareOps /\ ShareNext /\ UNCHANGED <<administration, recovery>>
  BY <1>4, ShareAttempts
<1>5. CASE call.op \in AdminOps /\ AdminNext /\ UNCHANGED <<sharing, recovery>>
  BY <1>5, AdminAttempts
<1>6. CASE call.op \in RecoveryOps /\ RecoveryNext /\ UNCHANGED <<sharing, administration>>
  BY <1>6, RecoveryAttempts
<1> QED
  BY <1>1, <1>2, <1>3, <1>4, <1>5, <1>6 DEF CommandNext

\* The command follows its script.
LEMMA FollowKept == ASSUME Follow, [CommandNext]_commandVars PROVE Follow'
<1>1. CASE Begins
  <2> DEFINE s == Script
  <2>1. call' = call /\ todo' = s /\ s' = s
    BY <1>1, ScriptSame DEF Begins
  <2>2. call' \in Calls /\ s \in Seq(AllSteps) /\ Len(s) \in Nat
    BY <2>1, Scripts DEF Follow
  <2>3. Behind' = 0
    <3>1. Behind' = Len(s) - Len(s)
      BY <2>1 DEF Behind
    <3> HIDE DEF s
    <3> QED
      BY <2>2, <3>1
  <2>4. todo' # <<>> => Len(todo') \in 1 .. Len(s)
    <3> HIDE DEF s
    <3>1. s # <<>> => Len(s) # 0
      BY <2>2, EmptySeq
    <3> QED
      BY <2>1, <2>2, <3>1
  <2>5. \A i \in 1 .. Len(todo') : todo'[i] = s[Behind' + i]
    <3> HIDE DEF s
    <3>1. \A i \in 1 .. Len(s) : 0 + i = i
      BY <2>2
    <3> QED
      BY <2>1, <2>3, <3>1
  <2> QED
    BY <2>1, <2>2, <2>4, <2>5 DEF Follow
<1>2. CASE Dies
  BY <1>2, FollowStays DEF Dies
<1>3. CASE Aside
  BY <1>3, FollowStays DEF Aside
<1>4. CASE Attempt
  BY <1>4, FollowStays, FollowTail DEF Attempt, Passed, NotPassed, NothingToEmpty
<1> QED
  BY <1>1, <1>2, <1>3, <1>4, StepCases

Done(step) == \E k \in 1 .. Len(carried) : carried[k] = step

\* The inductive invariant about answers: while the command runs, the changes that are
\* behind it were carried out, and, unless an answer got lost, they are all that was.
Honest ==
  /\ carried \in Seq(Changes)
  /\ todo # <<>> =>
       /\ outcome = "none"
       /\ \A i \in 1 .. Behind : Script[i] \in Changes => Done(Script[i])
       /\ ~unsure => \A k \in 1 .. Len(carried) : \E i \in 1 .. Behind : carried[k] = Script[i]
  /\ ~unsure => \A k, l \in 1 .. Len(carried) : carried[k] = carried[l] => k = l
  /\ outcome = "done" =>
       \A i \in 1 .. Len(Script) : Script[i] \in Changes \ {"emptyTrash"} => Done(Script[i])
  /\ outcome = "failed" /\ ~unsure => carried = <<>>

\* One change more was carried out.
LEMMA OneMore ==
  ASSUME NEW old \in Seq(Changes), NEW step \in Changes
  PROVE  /\ Append(old, step) \in Seq(Changes) /\ Len(old) \in Nat
         /\ Len(Append(old, step)) = Len(old) + 1
         /\ \A k \in 1 .. Len(old) :
              k \in 1 .. Len(Append(old, step)) /\ Append(old, step)[k] = old[k]
         /\ Len(old) + 1 \in 1 .. Len(Append(old, step))
         /\ Append(old, step)[Len(old) + 1] = step
<1>1. Len(old) \in Nat
  BY LenProperties
<1>2. /\ Append(old, step) \in Seq(Changes) /\ Len(Append(old, step)) = Len(old) + 1
      /\ \A k \in 1 .. Len(old) : Append(old, step)[k] = old[k]
      /\ Append(old, step)[Len(old) + 1] = step
  BY AppendProperties
<1> QED
  BY <1>1, <1>2

\* The command starts, dies, or nothing happens to it.
LEMMA HonestStill ==
  ASSUME Follow, Honest, Begins \/ Dies \/ Aside PROVE Honest'
<1>1. call' = call /\ Script' = Script
  BY ScriptSame DEF Begins, Dies, Aside
<1>2. CASE Begins
  <2> DEFINE s == Script
  <2>1. todo' = s /\ carried' = <<>> /\ s' = s /\ outcome' = (IF s = <<>> THEN "done" ELSE "none")
    BY <1>1, <1>2 DEF Begins
  <2>2. s \in Seq(AllSteps) /\ Len(s) \in Nat /\ Behind' = Len(s) - Len(s)
    BY <2>1, Scripts DEF Follow, Behind
  <2> HIDE DEF s
  <2>3. /\ carried' \in Seq(Changes) /\ \A k \in 1 .. Len(carried') : FALSE
    BY <2>1, EmptySeq
  <2>4. \A i \in 1 .. Behind' : FALSE
    BY <2>2
  <2>5. s = <<>> => \A i \in 1 .. Len(s) : FALSE
    BY EmptySeq
  <2>6. Script' = s
    BY <2>1 DEF s
  <2> QED
    BY <2>1, <2>3, <2>4, <2>5, <2>6 DEF Honest
<1>3. CASE Dies
  BY <1>1, <1>3 DEF Dies, Honest
<1>4. CASE Aside
  <2>1. Behind' = Behind
    BY <1>1, <1>4 DEF Aside, Behind
  <2> QED
    BY <1>1, <1>4, <2>1 DEF Aside, Honest, Done
<1> QED
  BY <1>2, <1>3, <1>4

\* A step is passed.
LEMMA HonestPassed ==
  ASSUME Follow, Honest, todo # <<>>, call' = call, Passed PROVE Honest'
<1> DEFINE s == Script
           p == Behind
           n == Len(carried)
           step == Head(todo)
<1>1. /\ Script' = s /\ Behind' = p + 1 /\ p \in Nat /\ Len(s) \in Nat /\ p + 1 \in 1 .. Len(s)
      /\ step = s[p + 1]
  BY FollowTail, UnderWay DEF Passed
<1>2. todo' = <<>> <=> Len(todo) = 1
  BY UnderWay DEF Passed
<1>3. Len(todo) = 1 => p + 1 = Len(s)
  BY <1>1 DEF Behind
<1>4. /\ outcome = "none" /\ carried \in Seq(Changes)
      /\ \A i \in 1 .. p : s[i] \in Changes => \E k \in 1 .. n : carried[k] = s[i]
      /\ ~unsure => \A k \in 1 .. n : \E i \in 1 .. p : carried[k] = s[i]
      /\ ~unsure => \A k, l \in 1 .. n : carried[k] = carried[l] => k = l
  BY DEF Honest, Done
<1>5. \A i \in 1 .. p : s[i] # s[p + 1]
  <2>1. \A i \in 1 .. p : i \in 1 .. Len(s) /\ i # p + 1
    BY <1>1
  <2> QED
    BY <1>1, <2>1, ScriptOnce DEF Follow
<1>6. /\ carried' \in Seq(Changes) /\ n \in Nat
      /\ \A k \in 1 .. n : k \in 1 .. Len(carried') /\ carried'[k] = carried[k]
      /\ step \in Changes => n + 1 \in 1 .. Len(carried') /\ carried'[n + 1] = step
      /\ \A k \in 1 .. Len(carried') : k \in 1 .. n \/ (k = n + 1 /\ step \in Changes)
  <2>1. CASE step \in Changes
    <3>1. carried' = Append(carried, step)
      BY <2>1 DEF Passed
    <3> HIDE DEF step
    <3>2. /\ carried' \in Seq(Changes) /\ n \in Nat /\ Len(carried') = n + 1
          /\ \A k \in 1 .. n : k \in 1 .. Len(carried') /\ carried'[k] = carried[k]
          /\ n + 1 \in 1 .. Len(carried') /\ carried'[n + 1] = step
      BY <1>4, <2>1, <3>1, OneMore
    <3> HIDE DEF n
    <3>3. \A k \in 1 .. Len(carried') : k \in 1 .. n \/ k = n + 1
      BY <3>2
    <3> QED
      BY <2>1, <3>2, <3>3
  <2>2. CASE step \notin Changes
    <3>1. carried' = carried
      BY <2>2 DEF Passed
    <3>2. n \in Nat
      BY <1>4, LenProperties
    <3> QED
      BY <1>4, <2>2, <3>1, <3>2
  <2> QED
    BY <2>1, <2>2
<1>7. unsure' = unsure /\ outcome' = IF Len(todo) = 1 THEN "done" ELSE outcome
  BY DEF Passed
<1> HIDE DEF s, p, n, step
<1>8. \A i \in 1 .. p + 1 : i \in 1 .. p \/ i = p + 1
  BY <1>1
<1>9. \A i \in 1 .. p + 1 : s[i] \in Changes => \E k \in 1 .. Len(carried') : carried'[k] = s[i]
  BY <1>1, <1>4, <1>6, <1>8
<1>10. ~unsure => \A k \in 1 .. Len(carried') : \E i \in 1 .. p + 1 : carried'[k] = s[i]
  <2>1. p + 1 \in 1 .. p + 1 /\ \A i \in 1 .. p : i \in 1 .. p + 1
    BY <1>1
  <2> QED
    BY <1>1, <1>4, <1>6, <2>1
<1>11. ~unsure => \A k, l \in 1 .. Len(carried') : carried'[k] = carried'[l] => k = l
  <2>1. ~unsure => \A k \in 1 .. n : carried[k] # s[p + 1]
    BY <1>4, <1>5
  <2> QED
    BY <1>1, <1>4, <1>6, <2>1
<1>12. todo' # <<>> => outcome' = "none"
  BY <1>2, <1>4, <1>7
<1>13. outcome' = "done" =>
         \A i \in 1 .. Len(s) : s[i] \in Changes => \E k \in 1 .. Len(carried') : carried'[k] = s[i]
  BY <1>3, <1>4, <1>7, <1>9
<1>14. outcome' # "failed"
  BY <1>4, <1>7
<1> QED
  BY <1>1, <1>6, <1>7, <1>9, <1>10, <1>11, <1>12, <1>13, <1>14 DEF Honest, Done

\* An attempt fails, or its answer gets lost.
LEMMA HonestNotPassed ==
  ASSUME Follow, Honest, todo # <<>>, call' = call, NotPassed PROVE Honest'
<1> DEFINE s == Script
           p == Behind
           n == Len(carried)
           step == Head(todo)
<1>1. /\ Script' = s /\ (todo' = todo => Behind' = p) /\ p \in Nat /\ Len(s) \in Nat
      /\ p + 1 \in 1 .. Len(s) /\ step = s[p + 1] /\ call \in Calls
  BY FollowStays, UnderWay DEF NotPassed, Follow
<1>2. /\ outcome = "none" /\ carried \in Seq(Changes)
      /\ \A i \in 1 .. p : s[i] \in Changes => \E k \in 1 .. n : carried[k] = s[i]
      /\ ~unsure => \A k \in 1 .. n : \E i \in 1 .. p : carried[k] = s[i]
      /\ ~unsure => \A k, l \in 1 .. n : carried[k] = carried[l] => k = l
  BY DEF Honest, Done
<1>3. \/ todo' = todo /\ outcome' = outcome
      \/ todo' = <<>> /\ outcome' = Error(step)
  BY DEF NotPassed
<1>4. /\ carried' \in Seq(Changes)
      /\ \A k \in 1 .. n : k \in 1 .. Len(carried') /\ carried'[k] = carried[k]
      /\ (carried' = carried /\ unsure' = unsure) \/ unsure'
  <2>1. CASE step \in Changes /\ carried' = Append(carried, step) /\ unsure' = TRUE
    <3> HIDE DEF step
    <3> QED
      BY <1>2, <2>1, OneMore
  <2>2. CASE carried' = carried /\ unsure' = unsure
    BY <1>2, <2>2
  <2> QED
    BY <2>1, <2>2 DEF NotPassed
<1>5. ~unsure /\ Error(step) = "failed" => carried = <<>>
  <2>1. ASSUME ~unsure, carried # <<>>, Error(step) = "failed" PROVE FALSE
    <3>1. 1 \in 1 .. n
      <4>1. n \in Nat /\ n # 0
        BY <1>2, <2>1, EmptySeq
      <4> HIDE DEF n
      <4> QED
        BY <4>1
    <3>2. PICK i \in 1 .. p : carried[1] = s[i]
      BY <1>2, <2>1, <3>1
    <3>3. s[i] \in Changes
      BY <1>2, <3>1, <3>2, ElementOfSeq
    <3>4. i \in 1 .. Len(s) /\ i < p + 1
      <4> HIDE DEF s, p
      <4> QED
        BY <1>1
    <3>5. Error(s[p + 1]) = "partial"
      BY <1>1, <3>3, <3>4, NoChangeBefore
    <3> QED
      BY <1>1, <2>1, <3>5
  <2> QED
    BY <2>1
<1>6. Error(step) \in {"failed", "partial"}
  BY DEF Error
<1> HIDE DEF s, p, n, step
<1>7. todo' # <<>> => outcome' = "none"
  BY <1>2, <1>3
<1>8. todo' # <<>> =>
        /\ Behind' = p
        /\ \A i \in 1 .. p : s[i] \in Changes => \E k \in 1 .. Len(carried') : carried'[k] = s[i]
        /\ ~unsure' => \A k \in 1 .. Len(carried') : \E i \in 1 .. p : carried'[k] = s[i]
  BY <1>1, <1>2, <1>3, <1>4 DEF n
<1>9. ~unsure' => \A k, l \in 1 .. Len(carried') : carried'[k] = carried'[l] => k = l
  BY <1>2, <1>4 DEF n
<1>10. outcome' # "done"
  BY <1>2, <1>3, <1>6
<1>11. outcome' = "failed" /\ ~unsure' => carried' = <<>>
  BY <1>2, <1>3, <1>4, <1>5
<1> QED
  BY <1>1, <1>4, <1>7, <1>8, <1>9, <1>10, <1>11 DEF Honest, Done

\* There was nothing to empty.
LEMMA HonestNothing ==
  ASSUME Follow, Honest, todo # <<>>, call' = call, NothingToEmpty PROVE Honest'
<1>1. /\ Script' = Script /\ call \in Calls /\ Behind + 1 \in 1 .. Len(Script)
      /\ Script[Behind + 1] = "emptyTrash"
  BY FollowStays, UnderWay DEF NothingToEmpty, Follow
<1>2. \A i \in 1 .. Len(Script) : Script[i] \in Changes => Script[i] = "emptyTrash"
  BY <1>1, EmptiesOnly
<1> QED
  BY <1>1, <1>2 DEF NothingToEmpty, Honest

LEMMA HonestKept == ASSUME Follow, Honest, [CommandNext]_commandVars PROVE Honest'
  BY StepCases, HonestStill, HonestPassed, HonestNotPassed, HonestNothing DEF Attempt

-----------------------------------------------------------------------------
(* A Space that was disabled is not the default Space any longer              *)

\* What is still to do is in order.
LEMMA TodoRanks ==
  ASSUME Follow, todo # <<>>, NEW i \in 1 .. Len(todo), NEW j \in 1 .. Len(todo), i < j
  PROVE  Rank(todo[i]) < Rank(todo[j])
<1> DEFINE s == Script
           p == Behind
           n == Len(todo)
<1>1. /\ n \in Nat /\ p \in Nat /\ Len(s) \in Nat /\ p = Len(s) - n /\ call \in Calls
      /\ todo[i] = s[p + i] /\ todo[j] = s[p + j]
  BY UnderWay DEF Follow, Behind
<1>2. p + i \in 1 .. Len(s) /\ p + j \in 1 .. Len(s) /\ p + i < p + j
  <2>1. i \in 1 .. n /\ j \in 1 .. n
    OBVIOUS
  <2> HIDE DEF s, p, n
  <2> QED
    BY <1>1, <2>1
<1>3. Rank(s[p + i]) < Rank(s[p + j])
  BY <1>1, <1>2, Scripts
<1> QED
  BY <1>1, <1>3

Waits(step) == \E i \in 1 .. Len(todo) : todo[i] = step

\* What has a lower level than the step under way is done.
LEMMA WaitsNot ==
  ASSUME Follow, todo # <<>>, NEW step, Rank(step) \in Nat, Rank(Head(todo)) \in Nat,
         Rank(step) < Rank(Head(todo))
  PROVE  ~Waits(step)
<1>1. ASSUME NEW i \in 1 .. Len(todo), todo[i] = step PROVE FALSE
  <2>1. Head(todo) = todo[1] /\ Len(todo) \in Nat \ {0}
    BY UnderWay
  <2>2. 1 \in 1 .. Len(todo) /\ (i = 1 \/ 1 < i)
    BY <2>1
  <2>3. CASE i = 1
    BY <1>1, <2>1, <2>3
  <2>4. CASE 1 < i
    <3>1. Rank(todo[1]) < Rank(todo[i])
      BY <2>2, <2>4, TodoRanks
    <3> QED
      BY <1>1, <2>1, <3>1
  <2> QED
    BY <2>2, <2>3, <2>4
<1> QED
  BY <1>1 DEF Waits

\* What waits but for the step under way still waits after it.
LEMMA WaitsOn ==
  ASSUME Follow, todo # <<>>, todo' = Tail(todo), NEW step, Waits(step), step # Head(todo)
  PROVE  Waits(step)'
<1>1. PICK i \in 1 .. Len(todo) : todo[i] = step
  BY DEF Waits
<1> DEFINE n == Len(todo)
<1>2. /\ n \in Nat \ {0} /\ Head(todo) = todo[1] /\ Len(todo') = n - 1
      /\ \A k \in 1 .. n - 1 : todo'[k] = todo[k + 1]
  BY UnderWay
<1>3. i \in 1 .. n
  OBVIOUS
<1> HIDE DEF n
<1>4. i # 1
  BY <1>1, <1>2
<1>5. i - 1 \in 1 .. n - 1 /\ (i - 1) + 1 = i
  BY <1>2, <1>3, <1>4
<1>6. todo'[i - 1] = step /\ i - 1 \in 1 .. Len(todo')
  BY <1>1, <1>2, <1>5
<1> QED
  BY <1>6 DEF Waits

Disabling == call.op = "spaceDisable" /\ ~call.dry

\* The Space is looked up first and the default cleared last.
LEMMA DisableScript ==
  ASSUME call \in Calls, Disabling
  PROVE  /\ Len(Script) \in Nat \ {0} /\ Script[Len(Script)] = "clearDefault"
         /\ \E i \in 1 .. Len(Script) : Script[i] = "drive"
<1>1. Script = SpaceDisableScript
  <2>1. call \in AdminCalls
    <3>1. call \in ShareCalls => call.op # "spaceDisable"
      BY SharingAssumption
    <3>2. call \in RecoveryCalls => call.op # "spaceDisable"
      BY RecoveryAssumption
    <3> QED
      BY <3>1, <3>2 DEF Calls, Disabling
  <2>2. call.op \in AdminOps
    BY <2>1 DEF AdminOps
  <2>3. Script = AdminScript
    BY <2>2, FamiliesAssumption DEF Script
  <2> QED
    BY <2>3 DEF AdminScript, Disabling
<1> DEFINE a == <<"drive">>
           b == <<"disableDrive", "clearDefault">>
           g == <<"guard">>
           c == a \o b
           d == g \o c
<1>2. /\ a \in Seq({"drive"}) /\ b \in Seq({"disableDrive", "clearDefault"}) /\ g \in Seq({"guard"})
      /\ Len(a) = 1 /\ Len(b) = 2 /\ Len(g) = 1
      /\ a[1] = "drive" /\ b[2] = "clearDefault"
  OBVIOUS
<1>3. SpaceDisableScript = Guarded(c)
  BY DEF SpaceDisableScript, Disabling
<1> HIDE DEF a, b, g
<1> DEFINE S == {"guard", "drive", "disableDrive", "clearDefault"}
<1>4. a \in Seq(S) /\ b \in Seq(S) /\ g \in Seq(S)
  BY <1>2
<1> HIDE DEF S
<1>5. /\ c \in Seq(S) /\ Len(c) = 3 /\ c[1] = "drive" /\ c[3] = "clearDefault"
  <2>1. /\ c \in Seq(S) /\ Len(c) = Len(a) + Len(b)
        /\ \A i \in 1 .. Len(a) + Len(b) : c[i] = IF i <= Len(a) THEN a[i] ELSE b[i - Len(a)]
    BY <1>4, ConcatProperties
  <2>2. 1 \in 1 .. 1 + 2 /\ 3 \in 1 .. 1 + 2 /\ 3 - 1 = 2
    OBVIOUS
  <2> QED
    BY <1>2, <2>1, <2>2
<1> HIDE DEF c
<1>6. /\ d \in Seq(S) /\ Len(d) = 4 /\ d[2] = "drive" /\ d[4] = "clearDefault"
  <2>1. /\ d \in Seq(S) /\ Len(d) = Len(g) + Len(c)
        /\ \A i \in 1 .. Len(g) + Len(c) : d[i] = IF i <= Len(g) THEN g[i] ELSE c[i - Len(g)]
    BY <1>4, <1>5, ConcatProperties
  <2>2. 2 \in 1 .. 1 + 3 /\ 4 \in 1 .. 1 + 3 /\ 2 - 1 = 1 /\ 4 - 1 = 3
    OBVIOUS
  <2> QED
    BY <1>2, <1>5, <2>1, <2>2
<1> HIDE DEF d
<1>7. Guarded(c) = IF call.admin THEN d ELSE c
  BY DEF Guarded, d, g
<1>8. Script = IF call.admin THEN d ELSE c
  BY <1>1, <1>3, <1>7
<1>9. CASE call.admin
  <2>1. Script = d /\ Len(Script) = 4
    BY <1>6, <1>8, <1>9
  <2>2. Script[4] = "clearDefault" /\ Script[2] = "drive" /\ 2 \in 1 .. 4
    BY <1>6, <2>1
  <2> QED
    BY <2>1, <2>2
<1>10. CASE ~call.admin
  <2>1. Script = c /\ Len(Script) = 3
    BY <1>5, <1>8, <1>10
  <2>2. Script[3] = "clearDefault" /\ Script[1] = "drive" /\ 1 \in 1 .. 3
    BY <1>5, <2>1
  <2> QED
    BY <2>1, <2>2
<1> QED
  BY <1>9, <1>10

\* The inductive invariant: until the end the Space is known or still to be looked up.
Cleared ==
  Disabling =>
    /\ todo # <<>> => Waits("drive") \/ ("drive" \in DOMAIN seen /\ seen["drive"] # 0)
    /\ outcome = "done" => default # seen["drive"]

\* Nothing else changes the default Space.
LEMMA DefaultSame ==
  ASSUME [CommandNext]_commandVars
  PROVE  default' = default \/ At("clearDefault")
<1>1. CASE Start \/ Killed \/ Rest \/ UNCHANGED commandVars
  BY <1>1 DEF Start, Killed, Rest, commandVars, administration
<1>2. CASE UNCHANGED administration
  BY <1>2 DEF administration
<1>3. CASE call.op \in AdminOps /\ AdminNext /\ UNCHANGED <<sharing, recovery>>
  <2>1. CASE Guard \/ Options \/ LookUpUser \/ RejectSelf \/ LookUpGroup \/ LookUpDrive
    BY <2>1 DEF Guard, Options, LookUpUser, RejectSelf, LookUpGroup, LookUpDrive, administration
  <2>2. CASE Applications \/ Assignments \/ PickRole \/ PickAssignment \/ SpaceRole \/ LookUpMember
    BY <2>2 DEF Applications, Assignments, PickRole, PickAssignment, SpaceRole, LookUpMember,
                administration
  <2>3. CASE CreateUser \/ UpdateUser \/ SetState \/ DeleteUser \/ GrantRole \/ RevokeRole
    BY <2>3 DEF CreateUser, UpdateUser, SetState, DeleteUser, GrantRole, RevokeRole, ChangeUser
  <2>4. CASE CreateGroup \/ UpdateGroup \/ DeleteGroup \/ ChangeMembership
    BY <2>4 DEF CreateGroup, UpdateGroup, DeleteGroup, ChangeMembership, ChangeGroup
  <2>5. CASE \/ CreateDrive \/ UpdateDrive \/ DisableDrive \/ RestoreDrive \/ PurgeDrive
             \/ AddMember \/ UpdateMember \/ RemoveMember
    BY <2>5 DEF CreateDrive, UpdateDrive, DisableDrive, RestoreDrive, PurgeDrive, AddMember,
                UpdateMember, RemoveMember, ChangeDrive
  <2>6. CASE ClearDefault
    BY <2>6 DEF ClearDefault
  <2>7. CASE RenameUser \/ LoseUser \/ AlterGroup \/ AlterDrive \/ SessionAges
    BY <2>7 DEF RenameUser, LoseUser, AlterGroup, AlterDrive, SessionAges
  <2> QED
    BY <1>3, <2>1, <2>2, <2>3, <2>4, <2>5, <2>6, <2>7 DEF AdminNext
<1> QED
  BY <1>1, <1>2, <1>3 DEF CommandNext

LEMMA ClearedKept ==
  ASSUME Follow, Honest, Cleared, [CommandNext]_commandVars PROVE Cleared'
<1> SUFFICES ASSUME Disabling'
             PROVE  /\ todo' # <<>> =>
                         Waits("drive")' \/ ("drive" \in DOMAIN seen' /\ seen'["drive"] # 0)
                    /\ outcome' = "done" => default' # seen'["drive"]
  BY DEF Cleared
<1>1. call' = call /\ Disabling /\ call \in Calls
  BY StepCases DEF Begins, Dies, Attempt, Aside, Disabling, Follow
<1>2. CASE Begins
  <2>1. todo' = Script /\ (\E i \in 1 .. Len(Script) : Script[i] = "drive")
    BY <1>1, <1>2, DisableScript DEF Begins
  <2>2. Waits("drive")'
    BY <2>1 DEF Waits
  <2>3. Script # <<>>
    BY <1>1, DisableScript, EmptySeq
  <2> QED
    BY <1>2, <2>2, <2>3 DEF Begins
<1>3. CASE Dies
  BY <1>3 DEF Dies
<1>4. CASE Aside
  <2>1. outcome = "done" => default' = default
    BY DefaultSame DEF Honest, At
  <2>2. Waits("drive") => Waits("drive")'
    BY <1>4 DEF Aside, Waits
  <2> QED
    BY <1>1, <1>4, <2>1, <2>2 DEF Aside, Cleared
<1>5. CASE Attempt /\ Passed
  <2>1. todo # <<>> /\ todo' = Tail(todo) /\ Teaches
    BY <1>5 DEF Attempt, Passed
  <2>2. Waits("drive") \/ ("drive" \in DOMAIN seen /\ seen["drive"] # 0)
    BY <1>1, <2>1 DEF Cleared
  <2>3. Waits("drive")' \/ ("drive" \in DOMAIN seen' /\ seen'["drive"] # 0)
    <3>1. CASE Head(todo) = "drive"
      BY <2>1, <3>1 DEF Teaches
    <3>2. CASE Head(todo) # "drive" /\ Waits("drive")
      BY <2>1, <3>2, WaitsOn
    <3>3. CASE Head(todo) # "drive" /\ "drive" \in DOMAIN seen /\ seen["drive"] # 0
      BY <2>1, <3>3 DEF Teaches
    <3> QED
      BY <2>2, <3>1, <3>2, <3>3
  <2>4. outcome' = "done" => default' # seen'["drive"]
    <3> SUFFICES ASSUME outcome' = "done" PROVE default' # seen'["drive"]
      OBVIOUS
    <3>1. Len(todo) = 1
      BY <1>5, <2>1 DEF Passed, Honest
    <3>2. Head(todo) = "clearDefault"
      <4>1. Len(Script) \in Nat /\ Behind + 1 = Len(Script)
        BY <2>1, <3>1, UnderWay DEF Behind
      <4> QED
        BY <1>1, <2>1, <4>1, UnderWay, DisableScript
    <3>3. Rank("drive") = 2 /\ Rank("clearDefault") = 37
      BY Ranks, Placed
    <3>4. ~Waits("drive")
      BY <2>1, <3>2, <3>3, WaitsNot
    <3>5. "drive" \in DOMAIN seen /\ seen["drive"] # 0
      BY <2>2, <3>4
    <3>6. seen'["drive"] = seen["drive"]
         /\ default' = IF default = seen["drive"] THEN 0 ELSE default
      BY <2>1, <3>2, <3>5 DEF Teaches
    <3> QED
      BY <3>5, <3>6
  <2> QED
    BY <2>3, <2>4
<1>6. CASE Attempt /\ NotPassed
  <2>1. Error(Head(todo)) # "done"
    BY DEF Error
  <2>2. outcome' # "done" /\ todo' \in {<<>>, todo} /\ seen' = seen
    BY <1>6, <2>1 DEF Attempt, NotPassed, Honest
  <2>3. todo' = todo /\ Waits("drive") => Waits("drive")'
    BY DEF Waits
  <2> QED
    BY <1>1, <2>2, <2>3 DEF Cleared
<1>7. ~(Attempt /\ NothingToEmpty)
  <2>1. ASSUME Attempt, NothingToEmpty PROVE FALSE
    <3>1. Fitting("emptyTrash")
      BY <2>1, UnderWay DEF Attempt, NothingToEmpty
    <3> QED
      BY <1>1, <3>1 DEF Fitting, Disabling
  <2> QED
    BY <2>1
<1> QED
  BY <1>2, <1>3, <1>4, <1>5, <1>6, <1>7, StepCases DEF Attempt

-----------------------------------------------------------------------------

LEMMA AnswersInit == ASSUME CommandInit PROVE Follow /\ Honest /\ Cleared
<1>1. /\ todo = <<>> /\ carried = <<>> /\ outcome = "none"
      /\ call \in ShareCalls \cup AdminCalls \cup RecoveryCalls
  BY DEF CommandInit, RequestsInit
<1>2. carried \in Seq(Changes) /\ \A k \in 1 .. Len(carried) : FALSE
  BY <1>1, EmptySeq
<1> QED
  BY <1>1, <1>2 DEF Follow, Calls, Honest, Cleared

LEMMA AnswersInvariance == CommandSpec => [](Follow /\ Honest /\ Cleared)
<1>1. ASSUME Follow /\ Honest /\ Cleared, [CommandNext]_commandVars
      PROVE  (Follow /\ Honest /\ Cleared)'
  BY <1>1, FollowKept, HonestKept, ClearedKept
<1> QED
  BY AnswersInit, <1>1, PTL DEF CommandSpec

\* How often a change was carried out.
LEMMA Counted ==
  ASSUME carried \in Seq(Changes), NEW step
  PROVE  /\ Done(step) => Times(step) > 0
         /\ (\A k, l \in 1 .. Len(carried) : carried[k] = carried[l] => k = l) => Times(step) <= 1
<1> DEFINE places == {i \in 1 .. Len(carried) : carried[i] = step}
<1>1. Times(step) = Cardinality(places)
  BY DEF Times
<1>2. IsFiniteSet(places)
  <2>1. Len(carried) \in Nat
    BY LenProperties
  <2>2. IsFiniteSet(1 .. Len(carried))
    BY <2>1, FS_Interval
  <2> QED
    BY <2>2, FS_Subset
<1>3. ASSUME Done(step) PROVE places # {}
  BY <1>3 DEF Done
<1>4. ASSUME \A k, l \in 1 .. Len(carried) : carried[k] = carried[l] => k = l, places # {}
      PROVE  \E i : places = {i}
  <2>1. PICK i \in places : TRUE
    BY <1>4
  <2>2. \A j \in places : j = i
    BY <1>4
  <2>3. places = {i}
    BY <2>1, <2>2
  <2> QED
    BY <2>3
<1> HIDE DEF places
<1>5. Cardinality(places) \in Nat /\ (Cardinality(places) = 0 <=> places = {})
  BY <1>2, FS_CardinalityType, FS_EmptySet
<1>6. Done(step) => Times(step) > 0
  BY <1>1, <1>3, <1>5
<1>7. ASSUME \A k, l \in 1 .. Len(carried) : carried[k] = carried[l] => k = l
      PROVE  Times(step) <= 1
  <2>1. CASE places = {}
    BY <1>1, <1>5, <2>1
  <2>2. CASE places # {}
    <3>1. PICK i : places = {i}
      BY <1>4, <1>7, <2>2
    <3>2. Cardinality(places) = 1
      BY <3>1, FS_Singleton
    <3> QED
      BY <1>1, <3>2
  <2> QED
    BY <2>1, <2>2
<1> QED
  BY <1>6, <1>7

\* How a command ends tells what it did, for all commands, Retries and faults: when it ends
\* well, every change of its script was carried out; when it says that it failed, none was
\* unless an answer got lost; no change is carried out twice unless one did; and a Space
\* that was disabled is not the default Space any longer (the partial errors of
\* UpdateLink and DisableSpace, and the repetition in httpapi.Client.Do).
THEOREM AnswersAreHonest == CommandSpec => []AnswerIsHonest
<1>1. ASSUME Follow, Honest, Cleared PROVE AnswerIsHonest
  <2>1. carried \in Seq(Changes)
    BY <1>1 DEF Honest
  <2>2. ASSUME outcome = "done", NEW i \in 1 .. Len(Script), Script[i] \in Changes \ {"emptyTrash"}
        PROVE  Times(Script[i]) > 0
    <3>1. Done(Script[i])
      BY <1>1, <2>2 DEF Honest
    <3> HIDE DEF Script
    <3> QED
      BY <2>1, <3>1, Counted
  <2>3. outcome = "failed" /\ ~unsure => carried = <<>>
    BY <1>1 DEF Honest
  <2>4. ASSUME ~unsure, NEW step \in Changes PROVE Times(step) <= 1
    <3>1. \A k, l \in 1 .. Len(carried) : carried[k] = carried[l] => k = l
      BY <1>1, <2>4 DEF Honest
    <3> QED
      BY <2>1, <3>1, Counted
  <2>5. outcome = "done" /\ call.op = "spaceDisable" /\ ~call.dry => default # seen["drive"]
    BY <1>1 DEF Cleared, Disabling
  <2> QED
    BY <2>2, <2>3, <2>4, <2>5 DEF AnswerIsHonest
<1> QED
  BY AnswersInvariance, <1>1, PTL

-----------------------------------------------------------------------------
(* The commands of trash and versions do what they were asked to              *)

Stored ==
  /\ DOMAIN state = Resources /\ DOMAIN place = Resources /\ DOMAIN content = Resources
  /\ others \in Nat

\* What the download of a version knows before it replaces the local file.
Meant ==
  Waits("replaceLocal") =>
    /\ Waits("getVersion") \/ ("getVersion" \in DOMAIN seen /\ seen["getVersion"] = call.version)
    /\ Waits("receive")
         \/ ("receive" \in DOMAIN seen /\ (call.verify => seen["receive"] = call.version))
    /\ call.noClobber => Waits("lookLocal") \/ local = "none" \/ appeared

\* A command of trash or versions is among those in use.
LEMMA RecoveryCall ==
  ASSUME call \in Calls, call.op \in RecoveryOps PROVE call \in RecoveryCalls
  BY FamiliesAssumption DEF Calls, ShareOps, AdminOps, RecoveryOps

\* The local file is replaced by what was received, after what --no-clobber looks for.
LEMMA DownloadScript ==
  ASSUME call \in Calls, \E i \in 1 .. Len(Script) : Script[i] = "replaceLocal"
  PROVE  /\ \E i \in 1 .. Len(Script) : Script[i] = "getVersion"
         /\ \E i \in 1 .. Len(Script) : Script[i] = "receive"
         /\ call.noClobber => \E i \in 1 .. Len(Script) : Script[i] = "lookLocal"
<1>1. call.op = "versionDownload"
  BY Scripts DEF Fitting
<1>2. Script = VersionScript
  <2>1. call \in RecoveryCalls
    <3>1. call \in ShareCalls => call.op # "versionDownload"
      BY SharingAssumption
    <3>2. call \in AdminCalls => call.op # "versionDownload"
      BY AdministrationAssumption
    <3> QED
      BY <1>1, <3>1, <3>2 DEF Calls
  <2>2. call.op \in RecoveryOps
    BY <2>1 DEF RecoveryOps
  <2>3. Script = RecoveryScript
    BY <2>2, FamiliesAssumption DEF Script
  <2> QED
    BY <1>1, <2>3 DEF RecoveryScript
<1> DEFINE a == <<"statFile", "listVersions", "version">>
           b == IF call.noClobber THEN <<"lookLocal">> ELSE <<>>
           c == <<"getVersion", "receive", "replaceLocal">>
           r == b \o c
           rest == IF call.dry THEN <<>> ELSE r
           s == a \o rest
           S == AllSteps
<1>3. Script = s
  BY <1>1, <1>2 DEF VersionScript
<1>4. /\ a \in Seq(S) /\ b \in Seq(S) /\ c \in Seq(S)
      /\ Len(a) = 3 /\ a[1] = "statFile" /\ a[2] = "listVersions" /\ a[3] = "version"
      /\ Len(c) = 3 /\ c[1] = "getVersion" /\ c[2] = "receive"
      /\ call.noClobber => Len(b) = 1 /\ b[1] = "lookLocal"
      /\ Len(b) \in Nat
  <2>1. /\ a \in Seq(S) /\ b \in Seq(S) /\ c \in Seq(S)
    BY Placed, PlacedBy
  <2>2. Len(b) \in Nat
    BY <2>1, LenProperties
  <2>3. call.noClobber => Len(b) = 1 /\ b[1] = "lookLocal"
    OBVIOUS
  <2> QED
    BY <2>1, <2>2, <2>3
<1> HIDE DEF a, b, c, S
<1>5. /\ r \in Seq(S) /\ Len(r) = Len(b) + Len(c)
      /\ \A i \in 1 .. Len(b) + Len(c) : r[i] = IF i <= Len(b) THEN b[i] ELSE c[i - Len(b)]
  BY <1>4, ConcatProperties
<1> HIDE DEF r
<1>6. /\ Len(r) = Len(b) + 3 /\ r[Len(b) + 1] = "getVersion" /\ r[Len(b) + 2] = "receive"
      /\ call.noClobber => r[1] = "lookLocal"
  <2> DEFINE n == Len(b)
  <2>1. /\ n \in Nat /\ Len(r) = n + 3
        /\ \A i \in 1 .. n + 3 : r[i] = IF i <= n THEN b[i] ELSE c[i - n]
    BY <1>4, <1>5
  <2> HIDE DEF n
  <2>2. /\ n + 1 \in 1 .. n + 3 /\ ~(n + 1 <= n) /\ (n + 1) - n = 1
        /\ n + 2 \in 1 .. n + 3 /\ ~(n + 2 <= n) /\ (n + 2) - n = 2
        /\ 1 \in 1 .. n + 3 /\ (n = 1 => 1 <= n)
    BY <2>1
  <2>3. r[n + 1] = "getVersion" /\ r[n + 2] = "receive"
    BY <1>4, <2>1, <2>2
  <2>4. call.noClobber => r[1] = "lookLocal"
    BY <1>4, <2>1, <2>2 DEF n
  <2> QED
    BY <2>1, <2>3, <2>4 DEF n
<1>7. rest \in Seq(S) /\ Len(rest) \in Nat
  <2>1. rest \in Seq(S)
    BY <1>5, EmptySeq
  <2> QED
    BY <2>1, LenProperties
<1> HIDE DEF rest
<1>8. /\ s \in Seq(S) /\ Len(s) = 3 + Len(rest)
      /\ \A i \in 1 .. 3 + Len(rest) : s[i] = IF i <= 3 THEN a[i] ELSE rest[i - 3]
  <2>1. /\ s \in Seq(S) /\ Len(s) = Len(a) + Len(rest)
        /\ \A i \in 1 .. Len(a) + Len(rest) : s[i] = IF i <= Len(a) THEN a[i] ELSE rest[i - Len(a)]
    BY <1>4, <1>7, ConcatProperties
  <2> QED
    BY <1>4, <2>1
<1> HIDE DEF s
<1>9. PICK k \in 1 .. Len(s) : s[k] = "replaceLocal"
  BY <1>3
<1>10. ~(k <= 3)
  <2>1. k <= 3 => k \in {1, 2, 3}
    BY <1>8, <1>9
  <2> QED
    BY <1>4, <1>8, <1>9, <2>1
<1>11. ~call.dry
  <2>1. call.dry => rest = <<>> /\ Len(rest) = 0
    BY EmptySeq DEF rest
  <2> QED
    BY <1>8, <1>9, <1>10, <2>1
<1>12. rest = r
  BY <1>11 DEF rest
<1>13. \A i \in 1 .. Len(r) : i + 3 \in 1 .. Len(s) /\ s[i + 3] = r[i]
  <2>1. Len(r) \in Nat
    BY <1>5, LenProperties
  <2>2. \A i \in 1 .. Len(r) : i + 3 \in 1 .. 3 + Len(r) /\ ~(i + 3 <= 3) /\ (i + 3) - 3 = i
    BY <2>1
  <2> QED
    BY <1>8, <1>12, <2>2
<1>14. Len(b) + 1 \in 1 .. Len(r) /\ Len(b) + 2 \in 1 .. Len(r) /\ 1 \in 1 .. Len(r)
  BY <1>4, <1>6
<1>15. /\ \E i \in 1 .. Len(s) : s[i] = "getVersion"
       /\ \E i \in 1 .. Len(s) : s[i] = "receive"
       /\ call.noClobber => \E i \in 1 .. Len(s) : s[i] = "lookLocal"
  BY <1>6, <1>13, <1>14
<1> QED
  BY <1>3, <1>15

\* How the local file changes.
LEMMA LocalChanges ==
  ASSUME Follow, [CommandNext]_commandVars
  PROVE  \/ local' = local /\ appeared' = appeared
         \/ appeared' = TRUE /\ others' = others + 1
         \/ At("lookLocal") /\ local' = local
         \/ At("replaceLocal") /\ todo' = Tail(todo) /\ local' = seen["receive"]
              /\ appeared' = appeared
<1>1. CASE Start \/ Killed \/ Rest \/ UNCHANGED commandVars \/ UNCHANGED recovery
  BY <1>1 DEF Start, Killed, Rest, commandVars, recovery
<1>2. CASE call.op \in RecoveryOps /\ RecoveryNext /\ UNCHANGED <<sharing, administration>>
  <2>1. CASE \/ ListTrash \/ AlreadyEmpty \/ StatFile \/ ListVersions \/ ResolveVersion
             \/ GetVersion \/ Receive
    BY <2>1 DEF ListTrash, AlreadyEmpty, StatFile, ListVersions, ResolveVersion, GetVersion,
                Receive, recovery
  <2>2. CASE RestoreItem \/ RemoveItem \/ EmptyTrash \/ CopyVersion
    BY <2>2 DEF RestoreItem, MoveBack, RemoveItem, EmptyTrash, CopyVersion
  <2>3. CASE LookLocal
    BY <2>3 DEF LookLocal, Decide
  <2>4. CASE ReplaceLocal
    <3>1. todo # <<>>
      BY <2>4 DEF ReplaceLocal, At
    <3>2. <<>> \o Tail(todo) = Tail(todo)
      BY <3>1, UnderWay
    <3> QED
      BY <2>4, <3>2 DEF ReplaceLocal, Proceed, Continue
  <2>5. CASE Discard \/ Reinstate \/ MoveFile \/ SaveFile \/ SaveLocal
    BY <2>5 DEF Discard, Reinstate, MoveFile, SaveFile, SaveLocal, OthersAct
  <2> QED
    BY <1>2, <2>1, <2>2, <2>3, <2>4, <2>5 DEF RecoveryNext
<1> QED
  BY <1>1, <1>2 DEF CommandNext

\* The levels of a download.
LEMMA DownloadRanks ==
  /\ Rank("lookLocal") = 4 /\ Rank("getVersion") = 5 /\ Rank("receive") = 6
  /\ Rank("replaceLocal") = 7
  BY PlacedBy, Ranks

\* Nothing waits any longer when the command has ended.
LEMMA EndedWaits == ASSUME todo' = <<>>, NEW step PROVE ~Waits(step)'
<1>1. \A i \in 1 .. Len(todo') : FALSE
  BY EmptySeq
<1> QED
  BY <1>1 DEF Waits

LEMMA MeantKept == ASSUME Follow, Meant, [CommandNext]_commandVars PROVE Meant'
<1>1. call' = call /\ call \in Calls
  BY StepCases DEF Begins, Dies, Attempt, Aside, Follow
<1>2. CASE Begins
  <2>1. todo' = Script
    BY <1>2 DEF Begins
  <2> HIDE DEF Script
  <2>2. \A step : Waits(step)' <=> \E i \in 1 .. Len(Script) : Script[i] = step
    BY <2>1 DEF Waits
  <2> QED
    BY <1>1, <2>2, DownloadScript DEF Meant
<1>3. CASE todo' = <<>>
  BY <1>3, EndedWaits DEF Meant
<1>4. CASE todo' = todo /\ seen' = seen
  <2>1. \A step : Waits(step)' <=> Waits(step)
    BY <1>4 DEF Waits
  <2>2. Waits("lookLocal") \/ ((local = "none" \/ appeared) => (local' = "none" \/ appeared'))
    <3>1. At("lookLocal") => Waits("lookLocal")
      <4>1. todo # <<>> => 1 \in 1 .. Len(todo) /\ Head(todo) = todo[1]
        BY UnderWay
      <4> QED
        BY <4>1 DEF At, Waits
    <3>2. ~(At("replaceLocal") /\ todo' = Tail(todo))
      <4>1. todo # <<>> => Len(todo) \in Nat /\ Len(Tail(todo)) = Len(todo) - 1
        BY UnderWay
      <4>2. todo # <<>> => Tail(todo) # todo
        BY <4>1
      <4> QED
        BY <1>4, <4>2 DEF At
    <3> QED
      BY <3>1, <3>2, LocalChanges
  <2> QED
    BY <1>1, <1>4, <2>1, <2>2 DEF Meant
<1>5. CASE todo # <<>> /\ todo' = Tail(todo) /\ Teaches
  <2> SUFFICES ASSUME Waits("replaceLocal")'
               PROVE  /\ Waits("getVersion")'
                           \/ ("getVersion" \in DOMAIN seen' /\ seen'["getVersion"] = call.version)
                      /\ Waits("receive")'
                           \/ /\ "receive" \in DOMAIN seen'
                              /\ call.verify => seen'["receive"] = call.version
                      /\ call.noClobber => Waits("lookLocal")' \/ local' = "none" \/ appeared'
    BY <1>1 DEF Meant
  <2>1. Waits("replaceLocal") /\ Rank(Head(todo)) < 7
    <3> DEFINE n == Len(todo)
    <3>1. /\ n \in Nat \ {0} /\ Head(todo) = todo[1] /\ Len(todo') = n - 1
          /\ \A k \in 1 .. n - 1 : todo'[k] = todo[k + 1]
      BY <1>5, UnderWay
    <3>2. PICK k \in 1 .. Len(todo') : todo'[k] = "replaceLocal"
      BY DEF Waits
    <3> HIDE DEF n
    <3>3. 1 \in 1 .. n /\ k + 1 \in 1 .. n /\ 1 < k + 1 /\ todo[k + 1] = "replaceLocal"
      BY <3>1, <3>2
    <3>4. Rank(todo[1]) < Rank(todo[k + 1])
      BY <1>5, <3>3, TodoRanks DEF n
    <3> QED
      BY <3>1, <3>3, <3>4, DownloadRanks DEF Waits, n
  <2>2. Head(todo) # "replaceLocal"
    BY <2>1, DownloadRanks
  <2>3. /\ Waits("getVersion") \/ ("getVersion" \in DOMAIN seen /\ seen["getVersion"] = call.version)
        /\ Waits("receive")
             \/ ("receive" \in DOMAIN seen /\ (call.verify => seen["receive"] = call.version))
        /\ call.noClobber => Waits("lookLocal") \/ local = "none" \/ appeared
    BY <2>1 DEF Meant
  <2>4. \A step : Waits(step) /\ step # Head(todo) => Waits(step)'
    BY <1>5, WaitsOn
  <2>5. \A step \in DOMAIN seen : step # Head(todo) => step \in DOMAIN seen' /\ seen'[step] = seen[step]
    BY <1>5 DEF Teaches
  <2>6. Waits("getVersion")' \/ ("getVersion" \in DOMAIN seen' /\ seen'["getVersion"] = call.version)
    <3>1. CASE Head(todo) = "getVersion"
      BY <1>5, <3>1 DEF Teaches
    <3>2. CASE Head(todo) # "getVersion"
      BY <2>3, <2>4, <2>5, <3>2
    <3> QED
      BY <3>1, <3>2
  <2>7. Waits("receive")'
          \/ ("receive" \in DOMAIN seen' /\ (call.verify => seen'["receive"] = call.version))
    <3>1. CASE Head(todo) = "receive"
      <4>1. ~Waits("getVersion")
        BY <1>5, <3>1, DownloadRanks, WaitsNot
      <4> QED
        BY <1>5, <2>3, <3>1, <4>1 DEF Teaches
    <3>2. CASE Head(todo) # "receive"
      BY <2>3, <2>4, <2>5, <3>2
    <3> QED
      BY <3>1, <3>2
  <2>8. ASSUME call.noClobber PROVE Waits("lookLocal")' \/ local' = "none" \/ appeared'
    <3>1. CASE Head(todo) = "lookLocal"
      <4>1. local = "none"
        BY <1>5, <3>1 DEF Teaches
      <4> QED
        BY <2>2, <4>1, LocalChanges DEF At
    <3>2. CASE Head(todo) # "lookLocal"
      BY <2>2, <2>3, <2>4, <2>8, <3>2, LocalChanges DEF At
    <3> QED
      BY <3>1, <3>2
  <2> QED
    BY <2>6, <2>7, <2>8
<1> QED
  BY <1>2, <1>3, <1>4, <1>5, StepCases DEF Dies, Aside, Attempt, Passed, NotPassed, NothingToEmpty

\* What may become of a file in one step of the command.
Loses(r) ==
  /\ state[r] = "live" /\ state'[r] # "live" =>
       call.op = "trashRestore" /\ call.overwrite /\ place[r] = place'[call.id]
  /\ state[r] = "bin" /\ state'[r] = "gone" =>
       \/ call.op = "trashEmpty"
       \/ call.op = "trashRemove" /\ r = call.id
  /\ content'[r] # content[r] =>
       call.op = "versionRestore" /\ content'[r] = call.version /\ r = seen["statFile"]

\* Every step keeps what files there are, and what the command itself does to them is
\* what it was asked for.
LEMMA RecoveryKept ==
  ASSUME Follow, Stored, call.op \in RecoveryOps, RecoveryNext
  PROVE  Stored' /\ (others' = others => \A r \in Resources : Loses(r))
<1>1. call \in RecoveryCalls
  BY RecoveryCall DEF Follow
<1>2. /\ DOMAIN state = Resources /\ DOMAIN place = Resources /\ DOMAIN content = Resources
      /\ others \in Nat
  BY DEF Stored
<1>3. \A step : At(step) => Fitting(step)
  BY UnderWay DEF At
<1>4. CASE \/ ListTrash \/ AlreadyEmpty \/ StatFile \/ ListVersions \/ ResolveVersion
           \/ LookLocal \/ GetVersion \/ Receive \/ ReplaceLocal
  <2>1. UNCHANGED <<state, place, content, others>>
    BY <1>4 DEF ListTrash, AlreadyEmpty, StatFile, ListVersions, ResolveVersion, LookLocal,
                GetVersion, Receive, ReplaceLocal, recovery
  <2> QED
    BY <1>2, <2>1 DEF Stored, Loses
<1>5. CASE RestoreItem
  <2> DEFINE path == seen["listTrash"].path
             there == LivingAt(path)
  <2>1. call.op = "trashRestore" /\ call.id \in Resources
    <3>1. call.op = "trashRestore"
      BY <1>3, <1>5 DEF RestoreItem, MoveBack, Fitting
    <3> QED
      BY <1>1, <3>1, RecoveryAssumption
  <2>2. /\ content' = content /\ others' = others
        /\ \/ UNCHANGED <<state, place>>
           \/ /\ state[call.id] = "bin" /\ (call.overwrite \/ there = {})
              /\ place' = [place EXCEPT ![call.id] = path]
              /\ state' = [r \in Resources |->
                             CASE r = call.id -> "live"
                               [] r \in there -> "gone"
                               [] OTHER -> state[r]]
    BY <1>5 DEF RestoreItem, MoveBack, Change
  <2>3. CASE UNCHANGED <<state, place>>
    BY <1>2, <2>2, <2>3 DEF Stored, Loses
  <2>4. CASE /\ state[call.id] = "bin" /\ (call.overwrite \/ there = {})
             /\ place' = [place EXCEPT ![call.id] = path]
             /\ state' = [r \in Resources |->
                            CASE r = call.id -> "live"
                              [] r \in there -> "gone"
                              [] OTHER -> state[r]]
    <3>1. \A r \in there : r \in Resources /\ state[r] = "live" /\ place[r] = path
      BY DEF LivingAt, InState
    <3> HIDE DEF path, there
    <3>2. Stored' /\ place'[call.id] = path
      BY <1>2, <2>1, <2>2, <2>4 DEF Stored
    <3>3. ASSUME NEW r \in Resources PROVE Loses(r)
      <4>1. state'[r] = CASE r = call.id -> "live" [] r \in there -> "gone" [] OTHER -> state[r]
        BY <2>4
      <4>2. CASE r = call.id
        <5>1. r \notin there
          BY <2>4, <3>1, <4>2
        <5>2. state'[r] = "live"
          BY <4>1, <4>2, <5>1
        <5> QED
          BY <2>2, <5>2 DEF Loses
      <4>3. CASE r # call.id /\ r \in there
        <5>1. call.overwrite /\ state[r] = "live" /\ place[r] = path
          BY <2>4, <3>1, <4>3
        <5> QED
          BY <2>1, <2>2, <3>2, <5>1 DEF Loses
      <4>4. CASE r # call.id /\ r \notin there
        BY <2>2, <4>1, <4>4 DEF Loses
      <4> QED
        BY <4>2, <4>3, <4>4
    <3> QED
      BY <3>2, <3>3
  <2> QED
    BY <2>2, <2>3, <2>4
<1>6. CASE RemoveItem
  <2>1. call.op = "trashRemove"
    BY <1>3, <1>6 DEF RemoveItem, Change, Fitting
  <2>2. /\ place' = place /\ content' = content /\ others' = others
        /\ \/ state' = state
           \/ state[call.id] = "bin" /\ state' = [state EXCEPT ![call.id] = "gone"]
    BY <1>6 DEF RemoveItem, Change
  <2> QED
    BY <1>2, <2>1, <2>2 DEF Stored, Loses
<1>7. CASE EmptyTrash
  <2>1. call.op = "trashEmpty"
    BY <1>3, <1>7 DEF EmptyTrash, At, Fitting
  <2>2. /\ place' = place /\ content' = content /\ others' = others
        /\ \/ state' = state
           \/ state' = [r \in Resources |-> IF state[r] = "bin" THEN "gone" ELSE state[r]]
    BY <1>7 DEF EmptyTrash, Change
  <2> QED
    BY <1>2, <2>1, <2>2 DEF Stored, Loses
<1>8. CASE CopyVersion
  <2> DEFINE f == seen["statFile"]
  <2>1. call.op = "versionRestore"
    BY <1>3, <1>8 DEF CopyVersion, Fitting
  <2>2. /\ place' = place /\ state' = state /\ others' = others
        /\ content' = content \/ content' = [content EXCEPT ![f] = call.version]
    BY <1>8 DEF CopyVersion, Change
  <2> QED
    BY <1>2, <2>1, <2>2 DEF Stored, Loses
<1>9. CASE Discard \/ Reinstate \/ MoveFile \/ SaveFile \/ SaveLocal
  <2>1. others' = others + 1
    BY <1>9 DEF Discard, Reinstate, MoveFile, SaveFile, SaveLocal, OthersAct
  <2>2. DOMAIN state' = DOMAIN state /\ DOMAIN place' = DOMAIN place
        /\ DOMAIN content' = DOMAIN content
    <3>1. CASE Discard
      BY <3>1 DEF Discard
    <3>2. CASE Reinstate
      BY <3>2 DEF Reinstate
    <3>3. CASE MoveFile
      BY <3>3 DEF MoveFile
    <3>4. CASE SaveFile
      BY <3>4 DEF SaveFile
    <3>5. CASE SaveLocal
      BY <3>5 DEF SaveLocal
    <3> QED
      BY <1>9, <3>1, <3>2, <3>3, <3>4, <3>5
  <2> QED
    BY <1>2, <2>1, <2>2 DEF Stored
<1> QED
  BY <1>4, <1>5, <1>6, <1>7, <1>8, <1>9 DEF RecoveryNext

\* What every step does to files.
LEMMA FilesKept ==
  ASSUME Follow, Stored, [CommandNext]_commandVars
  PROVE  Stored' /\ (others' = others => \A r \in Resources : Loses(r))
<1>1. CASE Start \/ Killed \/ Rest \/ UNCHANGED commandVars \/ UNCHANGED recovery
  <2>1. UNCHANGED <<state, place, content, others>>
    BY <1>1 DEF Start, Killed, Rest, commandVars, recovery
  <2> QED
    BY <2>1 DEF Stored, Loses
<1>2. CASE call.op \in RecoveryOps /\ RecoveryNext /\ UNCHANGED <<sharing, administration>>
  BY <1>2, RecoveryKept
<1> QED
  BY <1>1, <1>2 DEF CommandNext

LEMMA FilesInvariance == CommandSpec => [](Follow /\ Stored /\ Meant)
<1>1. ASSUME CommandInit PROVE Follow /\ Stored /\ Meant
  <2>1. /\ DOMAIN state = Resources /\ DOMAIN place = Resources /\ DOMAIN content = Resources
        /\ others \in Nat
    BY <1>1 DEF CommandInit, RecoveryInit
  <2>2. todo = <<>> /\ \A i \in 1 .. Len(todo) : FALSE
    BY <1>1, EmptySeq DEF CommandInit, RequestsInit
  <2> QED
    BY <1>1, <2>1, <2>2, AnswersInit DEF Stored, Meant, Waits
<1>2. ASSUME Follow /\ Stored /\ Meant, [CommandNext]_commandVars
      PROVE  (Follow /\ Stored /\ Meant)'
  BY <1>2, FollowKept, FilesKept, MeantKept
<1> QED
  BY <1>1, <1>2, PTL DEF CommandSpec

\* What a command does to files is what it was asked to, for all files, paths, versions and
\* commands: nothing alive makes room for a restored file unless --overwrite is given, only
\* the named item or the whole trash is destroyed, a version comes back to the file the path
\* meant, and a local file is replaced by the whole version when it is verified and, with
\* --no-clobber, only if it was not there when the command looked (archive.Service).
THEOREM NamedOnlyIsLost == CommandSpec => OnlyNamedIsLost
<1>1. ASSUME Follow, Stored, Meant, [CommandNext]_commandVars, others' = others,
             NEW r \in Resources
      PROVE  /\ Loses(r)
             /\ local' # local =>
                  /\ call.verify => local' = call.version
                  /\ call.noClobber => local = "none" \/ appeared
  <2>1. Loses(r)
    BY <1>1, FilesKept
  <2>2. ASSUME local' # local
        PROVE  /\ call.verify => local' = call.version
               /\ call.noClobber => local = "none" \/ appeared
    <3>1. At("replaceLocal") /\ local' = seen["receive"]
      <4>1. others' # others + 1
        BY <1>1 DEF Stored
      <4> QED
        BY <1>1, <2>2, <4>1, LocalChanges
    <3>2. Waits("replaceLocal")
      <4>1. todo # <<>> => 1 \in 1 .. Len(todo) /\ Head(todo) = todo[1]
        BY <1>1, UnderWay
      <4> QED
        BY <3>1, <4>1 DEF At, Waits
    <3>3. ~Waits("getVersion") /\ ~Waits("receive") /\ ~Waits("lookLocal")
      BY <1>1, <3>1, DownloadRanks, WaitsNot DEF At
    <3> QED
      BY <1>1, <3>1, <3>2, <3>3 DEF Meant
  <2> QED
    BY <2>1, <2>2
<1>2. Follow /\ Stored /\ Meant /\ [CommandNext]_commandVars =>
        [others' = others =>
           \A r \in Resources :
             /\ state[r] = "live" /\ state'[r] # "live" =>
                  call.op = "trashRestore" /\ call.overwrite /\ place[r] = place'[call.id]
             /\ state[r] = "bin" /\ state'[r] = "gone" =>
                  \/ call.op = "trashEmpty"
                  \/ call.op = "trashRemove" /\ r = call.id
             /\ content'[r] # content[r] =>
                  call.op = "versionRestore" /\ content'[r] = call.version /\ r = seen["statFile"]
             /\ local' # local =>
                  /\ call.verify => local' = call.version
                  /\ call.noClobber => local = "none" \/ appeared
        ]_commandVars
  BY <1>1 DEF Loses
<1> QED
  BY FilesInvariance, <1>2, PTL DEF CommandSpec, OnlyNamedIsLost

-----------------------------------------------------------------------------
(* A link is as it was asked for, and never open with part of a change        *)

IsShare(s) ==
  /\ s = [id |-> s.id, kind |-> s.kind, item |-> s.item, person |-> s.person, role |-> s.role,
          link |-> s.link]
  /\ s.id \in Nat \ {0}

\* The shares of the server.
Registered ==
  /\ \A s \in shares : IsShare(s)
  /\ \A s, t \in shares : s.id = t.id => s = t
  /\ call.op \in New => shares # {}

\* What link 1 is while the command is under way.
Right(link) ==
  /\ DOMAIN link = Fields \cup {"password"}
  /\ \A f \in Fields : link[f] # theirs[f] => call.op = "linkUpdate" /\ f \in call.fields
  /\ call.op = "linkUpdate" /\ link["password"] = 0 =>
       \/ call.password = "keep"
       \/ call.password = "set" /\ \A f \in call.fields : link[f] # 2
       \/ call.password = "remove"
            /\ (theirs["password"] = 0 \/ \A f \in call.fields : link[f] # 1)

\* A password that is asked for is set by the time the link is patched, and the link
\* patched by the time the password is removed.
PasswordInTime(link) ==
  call.op = "linkUpdate" /\ call.id = 1 =>
    /\ call.password = "set" /\ Waits("patchLink") => Waits("setPassword") \/ link["password"] # 0
    /\ call.password = "remove" /\ Waits("removePassword") =>
         Waits("patchLink") \/ \A f \in call.fields : link[f] # 1

Linked ==
  /\ DOMAIN theirs = Fields \cup {"password"}
  /\ \A s \in shares : s.id = 1 /\ s.kind = "link" => Right(s.link) /\ PasswordInTime(s.link)

\* A share by its ID.
LEMMA TheShare ==
  ASSUME Registered, NEW s \in shares
  PROVE  Share(s.id) = s
  BY DEF Registered, Share

\* One share changes.
LEMMA OneUpdated ==
  ASSUME Registered, NEW old \in shares, NEW new, IsShare(new), new.id = old.id,
         shares' = Update(old.id, new), call' = call
  PROVE  Registered' /\ \A s \in shares' : s = new \/ (s \in shares /\ s # old /\ s.id # old.id)
<1>1. Share(old.id) = old
  BY TheShare
<1>2. shares' = (shares \ {old}) \cup {new}
  BY <1>1 DEF Update
<1>3. \A s \in shares' : s = new \/ (s \in shares /\ s # old /\ s.id # old.id)
  <2>1. \A s \in shares : s # old => s.id # old.id
    BY DEF Registered
  <2> QED
    BY <1>2, <2>1
<1>4. \A s \in shares' : IsShare(s)
  BY <1>3 DEF Registered
<1>5. \A s, t \in shares' : s.id = t.id => s = t
  BY <1>3 DEF Registered
<1> QED
  BY <1>2, <1>3, <1>4, <1>5 DEF Registered

\* A new share has an ID of its own, and is not link 1.
LEMMA OneAdded ==
  ASSUME Registered, call.op \in New, NewIDs # {}, call' = call,
         NEW kind, NEW item, NEW person, NEW role, NEW link,
         NewShare(kind, item, person, role, link)
  PROVE  Registered' /\ \A s \in shares' : s \in shares \/ s.id # 1
<1> DEFINE new == [id |-> NewID, kind |-> kind, item |-> item, person |-> person, role |-> role,
                   link |-> link]
<1>1. NewID \in NewIDs
  BY DEF NewID
<1>2. NewID \in Nat /\ \A s \in shares : s.id < NewID
  BY <1>1, SharingAssumption DEF NewIDs
<1>3. PICK some \in shares : some.id \in Nat \ {0}
  BY DEF Registered, IsShare
<1>4. NewID \in Nat \ {0, 1}
  BY <1>2, <1>3
<1>5. \A s \in shares : s.id # NewID
  BY <1>2 DEF Registered, IsShare
<1>6. shares' = shares \cup {new}
  BY DEF NewShare
<1>7. IsShare(new) /\ new.id = NewID
  BY <1>4 DEF IsShare
<1> HIDE DEF new
<1>8. \A s \in shares' : IsShare(s)
  BY <1>6, <1>7 DEF Registered
<1>9. \A s, t \in shares' : s.id = t.id => s = t
  BY <1>5, <1>6, <1>7 DEF Registered
<1> QED
  BY <1>4, <1>6, <1>7, <1>8, <1>9 DEF Registered

\* A step is made.
LEMMA TailDiffers == ASSUME Follow, todo # <<>> PROVE Tail(todo) # todo
<1> DEFINE n == Len(todo)
           m == Len(Tail(todo))
<1>1. n \in Nat \ {0} /\ m = n - 1
  BY UnderWay
<1> HIDE DEF n, m
<1>2. m # n
  BY <1>1
<1> QED
  BY <1>2 DEF n, m

\* What may become of link 1 in one step: nothing, another client's edit, or the command's
\* own request.
Beside ==
  todo # <<>> /\ todo' # <<>> /\ todo' = Tail(todo) =>
    Head(todo) \notin {"setPassword", "patchLink"} \/ call.id # 1

Untouched(old, link) == link = old /\ theirs' = theirs /\ Beside

Edited(old, link) ==
  /\ todo' = todo
  /\ \E f \in Fields \cup {"password"} :
       link = [old EXCEPT ![f] = 3] /\ theirs' = [theirs EXCEPT ![f] = 3]

Requested(step, fields, value, old, link) ==
  /\ At(step) /\ call.id = 1 /\ theirs' = theirs
  /\ link = [f \in DOMAIN old |-> IF f \in fields THEN value[f] ELSE old[f]]

Becomes(old, link) ==
  \/ Untouched(old, link)
  \/ Edited(old, link)
  \/ Requested("setPassword", {"password"}, [password |-> 2], old, link)
  \/ Requested("patchLink", call.fields, [f \in call.fields |-> 2], old, link)
  \/ Requested("removePassword", {"password"}, [password |-> 0], old, link)

LinkBecomes ==
  \A s \in shares' : s.id = 1 /\ s.kind = "link" =>
    \E t \in shares : t.id = 1 /\ t.kind = "link" /\ Becomes(t.link, s.link)

\* A step that leaves the shares alone.
LEMMA SharesStay ==
  ASSUME Registered, call' = call, shares' = shares, theirs' = theirs, Beside
  PROVE  Registered' /\ LinkBecomes
<1>1. \A s \in shares' : IsShare(s)
  BY DEF Registered
<1>2. /\ \A s, t \in shares' : s.id = t.id => s = t
      /\ call.op \in New => shares' # {}
  BY DEF Registered
<1>3. Registered'
  BY <1>1, <1>2 DEF Registered
<1>4. LinkBecomes
  <2> SUFFICES ASSUME NEW s \in shares', s.id = 1, s.kind = "link"
               PROVE  \E t \in shares : t.id = 1 /\ t.kind = "link" /\ Becomes(t.link, s.link)
    BY DEF LinkBecomes
  <2>1. Becomes(s.link, s.link)
    BY DEF Becomes, Untouched
  <2> QED
    BY <2>1
<1> QED
  BY <1>3, <1>4

\* A request that changes the link.
LEMMA ChangesLink ==
  ASSUME Follow, Registered,
         NEW step \in {"setPassword", "patchLink", "removePassword"}, NEW fields, NEW value,
         NEW allowed, ChangeLink(step, fields, value, allowed),
         \A o, l : Requested(step, fields, value, o, l) => Becomes(o, l)
  PROVE  Registered' /\ LinkBecomes
<1> DEFINE old == Share(call.id)
           new == [old EXCEPT !.link = [f \in DOMAIN @ |-> IF f \in fields THEN value[f] ELSE @[f]]]
<1>1. At(step) /\ todo # <<>> /\ theirs' = theirs /\ call' = call
  BY DEF ChangeLink, At, Change, Answered, Continue, Refused, Again, Fail
<1>2. \/ IsLink(call.id) /\ allowed /\ shares' = Update(call.id, new)
      \/ shares' = shares /\ todo' \in {<<>>, todo}
  BY DEF ChangeLink, Change, Refused, Again, Fail
<1>3. CASE shares' = shares /\ todo' \in {<<>>, todo}
  <2>1. Tail(todo) # todo
    BY <1>1, TailDiffers
  <2>2. Beside
    BY <1>3, <2>1 DEF Beside
  <2> QED
    BY <1>1, <1>3, <2>2, SharesStay
<1>4. CASE IsLink(call.id) /\ allowed /\ shares' = Update(call.id, new)
  <2>1. PICK t \in shares : t.id = call.id /\ t.kind = "link"
    BY <1>4 DEF IsLink
  <2>2. old = t
    BY <2>1, TheShare
  <2> DEFINE link == [f \in DOMAIN t.link |-> IF f \in fields THEN value[f] ELSE t.link[f]]
  <2>3. IsShare(t)
    BY DEF Registered
  <2>4. /\ IsShare(new) /\ new.id = t.id /\ new.kind = t.kind /\ new.link = link
    BY <2>2, <2>3 DEF IsShare
  <2>5. shares' = Update(t.id, new)
    BY <1>4, <2>1
  <2> HIDE DEF new, old, link
  <2>6. Registered' /\ \A s \in shares' : s = new \/ (s \in shares /\ s # t /\ s.id # t.id)
    BY <1>1, <2>4, <2>5, OneUpdated
  <2>7. call.id = 1 => Requested(step, fields, value, t.link, link)
    BY <1>1 DEF Requested, link
  <2>9. ASSUME NEW s \in shares', s.id = 1, s.kind = "link"
        PROVE  \E u \in shares : u.id = 1 /\ u.kind = "link" /\ Becomes(u.link, s.link)
    <3>1. CASE s = new
      BY <2>1, <2>4, <2>7, <2>9, <3>1
    <3>2. CASE s \in shares /\ s.id # t.id
      <4>1. call.id # 1
        BY <2>1, <2>9, <3>2
      <4>2. Untouched(s.link, s.link)
        BY <1>1, <4>1 DEF Untouched, Beside
      <4> QED
        BY <2>9, <3>2, <4>2 DEF Becomes
    <3> QED
      BY <2>6, <3>1, <3>2
  <2> QED
    BY <2>6, <2>9 DEF LinkBecomes
<1> QED
  BY <1>2, <1>3, <1>4

\* The command does nothing to the link when nothing of it changes, or another step is made.
LEMMA OtherSteps ==
  ASSUME Follow, \/ todo = <<>>
                 \/ todo' = <<>>
                 \/ todo' = todo
                 \/ Head(todo) \notin {"setPassword", "patchLink"}
  PROVE  Beside
  BY TailDiffers DEF Beside

\* An update of a link is a share command.
LEMMA LinkIsShare ==
  ASSUME call \in Calls, call.op = "linkUpdate"
  PROVE  call \in ShareCalls /\ call.op \notin AdminOps /\ call.op \notin RecoveryOps
<1>1. call \in ShareCalls
  <2>1. call \in AdminCalls => call.op # "linkUpdate"
    BY AdministrationAssumption
  <2>2. call \in RecoveryCalls => call.op # "linkUpdate"
    BY RecoveryAssumption
  <2> QED
    BY <2>1, <2>2 DEF Calls
<1>2. call.op \in ShareOps
  BY <1>1 DEF ShareOps
<1> QED
  BY <1>1, <1>2, FamiliesAssumption

\* Some shares are gone.
LEMMA SomeGone ==
  ASSUME Registered, call' = call, call.op \notin New, theirs' = theirs, Beside,
         shares' \subseteq shares
  PROVE  Registered' /\ LinkBecomes
<1>1. \A s \in shares' : IsShare(s)
  BY DEF Registered
<1>2. \A s, t \in shares' : s.id = t.id => s = t
  BY DEF Registered
<1>3. Registered'
  BY <1>1, <1>2 DEF Registered
<1>4. LinkBecomes
  <2> SUFFICES ASSUME NEW s \in shares', s.id = 1, s.kind = "link"
               PROVE  \E t \in shares : t.id = 1 /\ t.kind = "link" /\ Becomes(t.link, s.link)
    BY DEF LinkBecomes
  <2>1. Becomes(s.link, s.link)
    BY DEF Becomes, Untouched
  <2> QED
    BY <2>1
<1> QED
  BY <1>3, <1>4

\* A new share is not link 1.
LEMMA SomeNew ==
  ASSUME Registered, call' = call, call.op \in New, NewIDs # {}, theirs' = theirs, Beside,
         NEW kind, NEW item, NEW person, NEW role, NEW link,
         NewShare(kind, item, person, role, link)
  PROVE  Registered' /\ LinkBecomes
<1>1. Registered' /\ \A s \in shares' : s \in shares \/ s.id # 1
  BY OneAdded
<1>2. LinkBecomes
  <2> SUFFICES ASSUME NEW s \in shares', s.id = 1, s.kind = "link"
               PROVE  \E t \in shares : t.id = 1 /\ t.kind = "link" /\ Becomes(t.link, s.link)
    BY DEF LinkBecomes
  <2>1. s \in shares
    BY <1>1
  <2>2. Becomes(s.link, s.link)
    BY DEF Becomes, Untouched
  <2> QED
    BY <2>1, <2>2
<1> QED
  BY <1>1, <1>2

\* Another share, or another property of this one, changes.
LEMMA OneElse ==
  ASSUME Registered, NEW old \in shares, NEW new, IsShare(new), new.id = old.id,
         new.kind = old.kind, shares' = Update(old.id, new), call' = call,
         \/ new.link = old.link /\ theirs' = theirs /\ Beside
         \/ old.id = 1 /\ Edited(old.link, new.link)
  PROVE  Registered' /\ LinkBecomes
<1>1. Registered' /\ \A s \in shares' : s = new \/ (s \in shares /\ s # old /\ s.id # old.id)
  BY OneUpdated
<1>2. LinkBecomes
  <2> SUFFICES ASSUME NEW s \in shares', s.id = 1, s.kind = "link"
               PROVE  \E t \in shares : t.id = 1 /\ t.kind = "link" /\ Becomes(t.link, s.link)
    BY DEF LinkBecomes
  <2>1. CASE s = new
    <3>1. Becomes(old.link, s.link)
      BY <2>1 DEF Becomes, Untouched
    <3> QED
      BY <2>1, <3>1
  <2>2. CASE s \in shares /\ s.id # old.id
    <3>1. theirs' = theirs /\ Beside
      BY <2>2
    <3>2. Becomes(s.link, s.link)
      BY <3>1 DEF Becomes, Untouched
    <3> QED
      BY <2>2, <3>2
  <2> QED
    BY <1>1, <2>1, <2>2
<1> QED
  BY <1>1, <1>2

\* What the share commands and other clients do to the link.
LEMMA ShareBecomes ==
  ASSUME Follow, Registered, ShareNext PROVE Registered' /\ LinkBecomes
<1>1. call' = call
  BY SharesSame
<1>2. \A step : At(step) => Fitting(step)
  BY UnderWay DEF At
<1>3. CASE \/ Capabilities \/ LoadLink \/ Stat \/ AskRoles \/ AskRecipient \/ ListOutgoing
           \/ ListReceived \/ Respond
  <2>1. shares' = shares /\ theirs' = theirs
    BY <1>3 DEF Capabilities, LoadLink, Load, Stat, AskRoles, AskRecipient, ListOutgoing,
                ListReceived, Respond, sharing
  <2>2. Head(todo) \notin {"setPassword", "patchLink"}
    BY <1>3 DEF Capabilities, LoadLink, Load, Stat, AskRoles, AskRecipient, ListOutgoing,
                ListReceived, Respond, Ask, AskThen, Change, At
  <2> QED
    BY <1>1, <2>1, <2>2, OtherSteps, SharesStay
<1>4. CASE CreateLink
  <2>1. call.op \in New /\ Beside
    BY <1>2, <1>4, OtherSteps DEF CreateLink, Change, At, Fitting
  <2>2. /\ NewIDs # {} /\ theirs' = theirs
        /\ NewShare("link", lying, 0, 0, AskedLink) \/ shares' = shares
    BY <1>4 DEF CreateLink, Change
  <2> QED
    BY <1>1, <2>1, <2>2, SomeNew, SharesStay
<1>5. CASE Invite
  <2>1. call.op \in New /\ Beside
    BY <1>2, <1>5, OtherSteps DEF Invite, Change, At, Fitting
  <2>2. /\ NewIDs # {} /\ theirs' = theirs
        /\ \/ \E person : NewShare(call.kind, seen["stat"], person, seen["roles"], NoLink)
           \/ shares' = shares
    BY <1>5 DEF Invite, Change
  <2> QED
    BY <1>1, <2>1, <2>2, SomeNew, SharesStay
<1>6. CASE SetPassword
  <2>1. ChangeLink("setPassword", {"password"}, [password |-> 2], TRUE)
    BY <1>6 DEF SetPassword
  <2>2. \A o, l : Requested("setPassword", {"password"}, [password |-> 2], o, l) => Becomes(o, l)
    BY DEF Becomes
  <2> QED
    BY <2>1, <2>2, ChangesLink
<1>7. CASE PatchLink
  <2>1. ChangeLink("patchLink", call.fields, [f \in call.fields |-> 2], TRUE)
    BY <1>7 DEF PatchLink
  <2>2. \A o, l : Requested("patchLink", call.fields, [f \in call.fields |-> 2], o, l) => Becomes(o, l)
    BY DEF Becomes
  <2> QED
    BY <2>1, <2>2, ChangesLink
<1>8. CASE RemovePassword
  <2>1. ChangeLink("removePassword", {"password"}, [password |-> 0], "noPassword" \notin policy)
    BY <1>8 DEF RemovePassword
  <2>2. \A o, l : Requested("removePassword", {"password"}, [password |-> 0], o, l) => Becomes(o, l)
    BY DEF Becomes
  <2> QED
    BY <2>1, <2>2, ChangesLink
<1>9. CASE PatchRole
  <2> DEFINE new == [Share(call.id) EXCEPT !.role = seen["roles"]]
  <2>1. theirs' = theirs /\ Beside
    BY <1>9, OtherSteps DEF PatchRole, Change, At
  <2>2. shares' = shares \/ (Exists(call.id) /\ shares' = Update(call.id, new))
    BY <1>9 DEF PatchRole, Change
  <2>3. CASE Exists(call.id) /\ shares' = Update(call.id, new)
    <3>1. PICK old \in shares : old.id = call.id
      BY <2>3 DEF Exists
    <3>2. Share(call.id) = old /\ IsShare(old)
      BY <3>1, TheShare DEF Registered
    <3>3. IsShare(new) /\ new.id = old.id /\ new.kind = old.kind /\ new.link = old.link
      BY <3>2 DEF IsShare
    <3>4. shares' = Update(old.id, new)
      BY <2>3, <3>1
    <3> HIDE DEF new
    <3> QED
      BY <1>1, <2>1, <3>3, <3>4, OneElse
  <2> QED
    BY <1>1, <2>1, <2>2, <2>3, SharesStay
<1>10. CASE Remove
  <2>1. call.op \notin New /\ Beside
    BY <1>2, <1>10, OtherSteps DEF Remove, Change, At, Fitting
  <2>2. theirs' = theirs /\ shares' \subseteq shares
    BY <1>10 DEF Remove, Change
  <2> QED
    BY <1>1, <2>1, <2>2, SomeGone
<1>11. CASE EditLink
  <2>1. PICK f \in Fields \cup {"password"} :
          /\ IsLink(1)
          /\ shares' = Update(1, [Share(1) EXCEPT !.link[f] = 3])
          /\ theirs' = [theirs EXCEPT ![f] = 3]
    BY <1>11 DEF EditLink
  <2> DEFINE new == [Share(1) EXCEPT !.link[f] = 3]
  <2>2. PICK old \in shares : old.id = 1 /\ old.kind = "link"
    BY <2>1 DEF IsLink
  <2>3. Share(1) = old /\ IsShare(old)
    BY <2>2, TheShare DEF Registered
  <2>4. /\ IsShare(new) /\ new.id = old.id /\ new.kind = old.kind
        /\ new.link = [old.link EXCEPT ![f] = 3]
    BY <2>3 DEF IsShare
  <2>5. shares' = Update(old.id, new)
    BY <2>1, <2>2
  <2>6. todo' = todo
    BY <1>11 DEF EditLink, Edit, control
  <2> HIDE DEF new
  <2>7. Edited(old.link, new.link)
    BY <2>1, <2>4, <2>6 DEF Edited
  <2> QED
    BY <1>1, <2>2, <2>4, <2>5, <2>7, OneElse
<1>12. CASE WithdrawShare
  <2>1. todo' = todo /\ theirs' = theirs
    BY <1>12 DEF WithdrawShare, Edit, control
  <2>2. shares' = shares \/ (call.op \notin New /\ shares' \subseteq shares)
    BY <1>12 DEF WithdrawShare, Edit, Existing, New
  <2> QED
    BY <1>1, <2>1, <2>2, OtherSteps, SomeGone, SharesStay
<1>13. CASE ReplaceItem \/ RenamePerson
  <2>1. todo' = todo /\ theirs' = theirs /\ shares' = shares
    BY <1>13 DEF ReplaceItem, RenamePerson, Edit, control
  <2> QED
    BY <1>1, <2>1, OtherSteps, SharesStay
<1> QED
  BY <1>3, <1>4, <1>5, <1>6, <1>7, <1>8, <1>9, <1>10, <1>11, <1>12, <1>13 DEF ShareNext

\* What any step does to the link.
LEMMA StepBecomes ==
  ASSUME Follow, Registered, [CommandNext]_commandVars PROVE Registered' /\ LinkBecomes
<1>1. call' = call
  BY StepCases DEF Begins, Dies, Attempt, Aside
<1>2. CASE Start \/ Killed \/ Rest \/ UNCHANGED commandVars
  <2>1. shares' = shares /\ theirs' = theirs /\ (todo = <<>> \/ todo' = <<>> \/ todo' = todo)
    BY <1>2 DEF Start, Run, Killed, Die, Rest, commandVars, control, sharing
  <2> QED
    BY <1>1, <2>1, OtherSteps, SharesStay
<1>3. CASE call.op \in ShareOps /\ ShareNext /\ UNCHANGED <<administration, recovery>>
  BY <1>3, ShareBecomes
<1>4. CASE call.op \in AdminOps \cup RecoveryOps /\ UNCHANGED sharing
  <2>1. shares' = shares /\ theirs' = theirs
    BY <1>4 DEF sharing
  <2>2. call.op # "linkUpdate"
    BY <1>4, LinkIsShare DEF Follow
  <2>3. todo = <<>> \/ Head(todo) \notin {"setPassword", "patchLink"}
    BY <2>2, UnderWay DEF Fitting, LinkSteps
  <2> QED
    BY <1>1, <2>1, <2>3, OtherSteps, SharesStay
<1> QED
  BY <1>2, <1>3, <1>4 DEF CommandNext

LEMMA HoldsJoined ==
  ASSUME NEW a \in Seq(AllSteps), NEW b \in Seq(AllSteps), NEW step
  PROVE  Holds(a \o b, step) <=> Holds(a, step) \/ Holds(b, step)
<1> DEFINE s == a \o b
           m == Len(a)
           n == Len(b)
<1>1. /\ m \in Nat /\ n \in Nat /\ Len(s) = m + n
      /\ \A i \in 1 .. m + n : s[i] = IF i <= m THEN a[i] ELSE b[i - m]
  BY ConcatProperties, LenProperties
<1> HIDE DEF s, m, n
<1>2. \A i \in 1 .. m : i \in 1 .. m + n /\ s[i] = a[i]
  BY <1>1
<1>3. \A i \in 1 .. n : i + m \in 1 .. m + n /\ s[i + m] = b[i]
  <2>1. \A i \in 1 .. n : i + m \in 1 .. m + n /\ ~(i + m <= m) /\ (i + m) - m = i
    BY <1>1
  <2> QED
    BY <1>1, <2>1
<1>4. \A i \in 1 .. m + n : (i \in 1 .. m /\ s[i] = a[i]) \/ (i - m \in 1 .. n /\ s[i] = b[i - m])
  BY <1>1
<1>5. (\E i \in 1 .. m + n : s[i] = step)
        <=> (\E i \in 1 .. m : a[i] = step) \/ (\E i \in 1 .. n : b[i] = step)
  BY <1>2, <1>3, <1>4
<1>6. Holds(s, step) <=> Holds(a, step) \/ Holds(b, step)
  BY <1>1, <1>5 DEF Holds, m, n
<1> QED
  BY <1>6 DEF s

\* A sequence of one step.
LEMMA HoldsOne == ASSUME NEW one, NEW step PROVE Holds(<<one>>, step) <=> step = one
<1>1. Len(<<one>>) = 1 /\ <<one>>[1] = one /\ \A i \in 1 .. 1 : i = 1
  OBVIOUS
<1> DEFINE s == <<one>>
<1>2. Len(s) = 1 /\ s[1] = one
  BY <1>1
<1> HIDE DEF s
<1>3. Holds(s, step) <=> step = one
  BY <1>1, <1>2 DEF Holds
<1> QED
  BY <1>3 DEF s

LEMMA HoldsNone == ASSUME NEW step PROVE ~Holds(<<>>, step)
<1>1. Len(<<>>) = 0 /\ \A i \in 1 .. 0 : FALSE
  OBVIOUS
<1> QED
  BY <1>1 DEF Holds

\* A password is set whenever the link is patched, and the link patched whenever a password
\* is removed, if both are asked for.
LEMMA LinkOrder ==
  ASSUME call \in Calls, call.op = "linkUpdate"
  PROVE  /\ call.password = "set" /\ Holds(Script, "patchLink") => Holds(Script, "setPassword")
         /\ call.fields # {} /\ Holds(Script, "removePassword") => Holds(Script, "patchLink")
<1> DEFINE load == <<"getLink", "getPermission">>
           set == IF call.password = "set" THEN <<"setPassword">> ELSE <<>>
           patch == IF call.fields # {} THEN <<"patchLink">> ELSE <<>>
           remove == IF call.password = "remove" THEN <<"removePassword">> ELSE <<>>
           reload == <<"reloadLink", "reloadPermission">>
           first == set \o patch
           change == first \o remove
           ask == change \o reload
           rest == IF call.dry THEN <<>> ELSE ask
           s == load \o rest
<1>1. Script = s
  BY LinkCalls DEF LinkScript, LinkChanges
<1>2. load \in Seq(AllSteps) /\ reload \in Seq(AllSteps)
  BY Placed, PlacedBy DEF LinkSteps
<1>3. set \in Seq(AllSteps) /\ patch \in Seq(AllSteps) /\ remove \in Seq(AllSteps)
  BY PlacedBy DEF LinkSteps
<1>4. \A step \in {"patchLink", "removePassword"} : ~Holds(load, step)
  <2>1. Len(load) = 2 /\ load[1] = "getLink" /\ load[2] = "getPermission"
        /\ \A i \in 1 .. 2 : i = 1 \/ i = 2
    OBVIOUS
  <2> HIDE DEF load
  <2> QED
    BY <2>1 DEF Holds
<1>5. /\ call.password = "set" => Holds(set, "setPassword")
      /\ call.fields # {} => Holds(patch, "patchLink")
  BY HoldsOne
<1> HIDE DEF load, set, patch, remove, reload
<1>6. \A step : Holds(first, step) <=> Holds(set, step) \/ Holds(patch, step)
  BY <1>3, HoldsJoined
<1>7. first \in Seq(AllSteps)
  BY <1>3, ConcatProperties
<1> HIDE DEF first
<1>8. \A step : Holds(change, step) <=> Holds(first, step) \/ Holds(remove, step)
  BY <1>3, <1>7, HoldsJoined
<1>9. change \in Seq(AllSteps)
  BY <1>3, <1>7, ConcatProperties
<1> HIDE DEF change
<1>10. \A step : Holds(ask, step) <=> Holds(change, step) \/ Holds(reload, step)
  BY <1>2, <1>9, HoldsJoined
<1>11. ask \in Seq(AllSteps)
  BY <1>2, <1>9, ConcatProperties
<1> HIDE DEF ask
<1>12. rest \in Seq(AllSteps) /\ (rest = <<>> \/ rest = ask)
  BY <1>11, EmptySeq
<1> HIDE DEF rest
<1>13. \A step : Holds(s, step) <=> Holds(load, step) \/ Holds(rest, step)
  BY <1>2, <1>12, HoldsJoined
<1> HIDE DEF s
<1>14. \A step \in {"patchLink", "removePassword"} : Holds(s, step) => rest = ask
  BY <1>4, <1>12, <1>13, HoldsNone
<1>15. rest = ask => /\ call.password = "set" => Holds(s, "setPassword")
                     /\ call.fields # {} => Holds(s, "patchLink")
  BY <1>5, <1>6, <1>8, <1>10, <1>13
<1>16. /\ call.password = "set" /\ Holds(s, "patchLink") => Holds(s, "setPassword")
       /\ call.fields # {} /\ Holds(s, "removePassword") => Holds(s, "patchLink")
  BY <1>14, <1>15
<1> QED
  BY <1>1, <1>16

\* What waits after a step waited before it, and what waited still does but for the step made.
LEMMA WaitsAfter ==
  ASSUME Follow, todo # <<>>, todo' = Tail(todo), NEW step, Waits(step)'
  PROVE  Waits(step)
<1> DEFINE n == Len(todo)
<1>1. n \in Nat \ {0} /\ Len(todo') = n - 1 /\ \A k \in 1 .. n - 1 : todo'[k] = todo[k + 1]
  BY UnderWay
<1>2. PICK k \in 1 .. Len(todo') : todo'[k] = step
  BY DEF Waits
<1> HIDE DEF n
<1>3. k + 1 \in 1 .. n /\ todo[k + 1] = step
  BY <1>1, <1>2
<1> QED
  BY <1>3 DEF Waits, n

\* The ranks of an update of a link.
LEMMA LinkRanks ==
  Rank("setPassword") = 31 /\ Rank("patchLink") = 32 /\ Rank("removePassword") = 33
  BY Ranks

\* The step under way is waiting, and nothing of a lower rank is.
LEMMA AtWaits == ASSUME Follow, NEW step, At(step) PROVE Waits(step) /\ todo # <<>>
<1>1. todo # <<>> /\ Head(todo) = step
  BY DEF At
<1>2. 1 \in 1 .. Len(todo) /\ Head(todo) = todo[1]
  BY <1>1, UnderWay
<1> QED
  BY <1>1, <1>2 DEF Waits

\* What is asked of the link.
LEMMA LinkCall ==
  ASSUME call \in Calls, call.op = "linkUpdate"
  PROVE  call.fields \subseteq Fields /\ call.password \in {"keep", "set", "remove"}
  BY LinkIsShare, SharingAssumption

\* How the steps that wait change.
Waiting ==
  \/ \A step : Waits(step)' <=> Holds(Script, step)
  \/ \A step : ~Waits(step)'
  \/ \A step : Waits(step)' <=> Waits(step)
  \/ /\ todo # <<>> /\ todo' # <<>> /\ todo' = Tail(todo)
     /\ \A step : Waits(step)' => Waits(step)
     /\ \A step : Waits(step) /\ step # Head(todo) => Waits(step)'

LEMMA StepWaits == ASSUME Follow, [CommandNext]_commandVars PROVE Waiting
<1>1. CASE Begins
  <2>1. \A step : Waits(step)' <=> Holds(Script, step)
    BY <1>1 DEF Begins, Waits, Holds
  <2> QED
    BY <2>1 DEF Waiting
<1>2. CASE todo' = <<>>
  BY <1>2, EndedWaits DEF Waiting
<1>3. CASE todo' = todo
  <2>1. \A step : Waits(step)' <=> Waits(step)
    BY <1>3 DEF Waits
  <2> QED
    BY <2>1 DEF Waiting
<1>4. CASE todo # <<>> /\ todo' # <<>> /\ todo' = Tail(todo)
  BY <1>4, WaitsAfter, WaitsOn DEF Waiting
<1> QED
  BY <1>1, <1>2, <1>3, <1>4, StepCases DEF Dies, Aside, Attempt, Passed, NotPassed, NothingToEmpty

\* The link is as it was.
LEMMA KeptRight ==
  ASSUME Follow, call' = call, Waiting, NEW old, Right(old), PasswordInTime(old), Untouched(old, old)
  PROVE  Right(old)' /\ PasswordInTime(old)'
<1>1. Right(old)'
  BY DEF Right, Untouched
<1>2. PasswordInTime(old)'
  <2> SUFFICES ASSUME call.op = "linkUpdate", call.id = 1
               PROVE  /\ call.password = "set" /\ Waits("patchLink")' =>
                           Waits("setPassword")' \/ old["password"] # 0
                      /\ call.password = "remove" /\ Waits("removePassword")' =>
                           Waits("patchLink")' \/ \A f \in call.fields : old[f] # 1
    BY DEF PasswordInTime
  <2>1. /\ call.password = "set" /\ Waits("patchLink") =>
             Waits("setPassword") \/ old["password"] # 0
        /\ call.password = "remove" /\ Waits("removePassword") =>
             Waits("patchLink") \/ \A f \in call.fields : old[f] # 1
    BY DEF PasswordInTime
  <2>2. CASE \A step : Waits(step)' <=> Holds(Script, step)
    <3>1. /\ call.password = "set" /\ Holds(Script, "patchLink") => Holds(Script, "setPassword")
          /\ call.fields # {} /\ Holds(Script, "removePassword") => Holds(Script, "patchLink")
      BY LinkOrder DEF Follow
    <3> QED
      BY <2>2, <3>1
  <2>3. CASE \A step : ~Waits(step)'
    BY <2>3
  <2>4. CASE \A step : Waits(step)' <=> Waits(step)
    BY <2>1, <2>4
  <2>5. CASE /\ todo # <<>> /\ todo' # <<>> /\ todo' = Tail(todo)
             /\ \A step : Waits(step)' => Waits(step)
             /\ \A step : Waits(step) /\ step # Head(todo) => Waits(step)'
    <3>1. Head(todo) \notin {"setPassword", "patchLink"}
      BY <2>5 DEF Untouched, Beside
    <3> QED
      BY <2>1, <2>5, <3>1
  <2> QED
    BY <2>2, <2>3, <2>4, <2>5 DEF Waiting
<1> QED
  BY <1>1, <1>2

\* Another client has changed it.
LEMMA EditedRight ==
  ASSUME Follow, call' = call, DOMAIN theirs = Fields \cup {"password"},
         NEW old, NEW link, Right(old), PasswordInTime(old), Edited(old, link)
  PROVE  Right(link)' /\ PasswordInTime(link)'
<1>1. todo' = todo
  BY DEF Edited
<1>2. PICK f \in Fields \cup {"password"} :
        link = [old EXCEPT ![f] = 3] /\ theirs' = [theirs EXCEPT ![f] = 3]
  BY DEF Edited
<1>3. /\ DOMAIN old = Fields \cup {"password"} /\ DOMAIN link = Fields \cup {"password"}
      /\ link[f] = 3 /\ theirs'[f] = 3
      /\ \A g \in Fields \cup {"password"} : g # f => link[g] = old[g] /\ theirs'[g] = theirs[g]
  BY <1>2 DEF Right
<1>4. call.op = "linkUpdate" => call.fields \subseteq Fields
  BY LinkCall DEF Follow
<1>5. \A g \in Fields \cup {"password"} : \A v \in {0, 1, 2} : link[g] = v => g # f /\ old[g] = v
  BY <1>3
<1>6. \A g \in Fields : link[g] # theirs'[g] => call.op = "linkUpdate" /\ g \in call.fields
  BY <1>3 DEF Right
<1>7. call.op = "linkUpdate" /\ link["password"] = 0 =>
        \/ call.password = "keep"
        \/ call.password = "set" /\ \A g \in call.fields : link[g] # 2
        \/ call.password = "remove"
             /\ (theirs'["password"] = 0 \/ \A g \in call.fields : link[g] # 1)
  <2> SUFFICES ASSUME call.op = "linkUpdate", link["password"] = 0
               PROVE  \/ call.password = "keep"
                      \/ call.password = "set" /\ \A g \in call.fields : link[g] # 2
                      \/ call.password = "remove"
                           /\ (theirs'["password"] = 0 \/ \A g \in call.fields : link[g] # 1)
    OBVIOUS
  <2>1. old["password"] = 0 /\ theirs'["password"] = theirs["password"]
    BY <1>3, <1>5
  <2>2. (\A g \in call.fields : old[g] # 2) => \A g \in call.fields : link[g] # 2
    BY <1>4, <1>5
  <2>3. (\A g \in call.fields : old[g] # 1) => \A g \in call.fields : link[g] # 1
    BY <1>4, <1>5
  <2> QED
    BY <2>1, <2>2, <2>3 DEF Right
<1>8. \A step : Waits(step)' <=> Waits(step)
  BY <1>1 DEF Waits
<1>9. PasswordInTime(link)'
  <2>1. call.op = "linkUpdate" =>
          /\ old["password"] # 0 => link["password"] # 0
          /\ (\A g \in call.fields : old[g] # 1) => \A g \in call.fields : link[g] # 1
    BY <1>4, <1>5
  <2> QED
    BY <1>8, <2>1 DEF PasswordInTime
<1> QED
  BY <1>3, <1>6, <1>7, <1>9 DEF Right

\* The command has sent one of its requests.
LEMMA RequestedRight ==
  ASSUME Follow, call' = call, NEW old, NEW link, Right(old), PasswordInTime(old),
         \/ Requested("setPassword", {"password"}, [password |-> 2], old, link)
         \/ Requested("patchLink", call.fields, [f \in call.fields |-> 2], old, link)
         \/ Requested("removePassword", {"password"}, [password |-> 0], old, link)
  PROVE  Right(link)' /\ PasswordInTime(link)'
<1> DEFINE all == Fields \cup {"password"}
<1>1. theirs' = theirs /\ call.id = 1 /\ DOMAIN old = all
  BY DEF Requested, Right
<1>2. \A step : At(step) => Fitting(step)
  BY UnderWay DEF At
<1>3. "password" \notin Fields
  BY DEF Fields
<1>4. \A f \in Fields : old[f] # theirs[f] => call.op = "linkUpdate" /\ f \in call.fields
  BY DEF Right
<1>5. CASE Requested("setPassword", {"password"}, [password |-> 2], old, link)
  <2>1. call.op = "linkUpdate" /\ call.password = "set"
    BY <1>2, <1>5 DEF Requested, Fitting, LinkSteps
  <2>2. /\ DOMAIN link = all /\ link["password"] = 2
        /\ \A f \in Fields : link[f] = old[f]
    BY <1>1, <1>3, <1>5 DEF Requested
  <2> QED
    BY <1>1, <1>4, <2>1, <2>2 DEF Right, PasswordInTime
<1>6. CASE Requested("patchLink", call.fields, [f \in call.fields |-> 2], old, link)
  <2>1. call.op = "linkUpdate" /\ call.fields \subseteq Fields
        /\ call.password \in {"keep", "set", "remove"}
    BY <1>2, <1>6, LinkCall DEF Requested, Fitting, LinkSteps, Follow
  <2>2. /\ DOMAIN link = all /\ link["password"] = old["password"]
        /\ \A f \in call.fields : link[f] = 2
        /\ \A f \in Fields : f \notin call.fields => link[f] = old[f]
    BY <1>1, <1>3, <1>6, <2>1 DEF Requested
  <2>3. Waits("patchLink") /\ ~Waits("setPassword")
    BY <1>6, AtWaits, WaitsNot, LinkRanks DEF Requested, At
  <2>4. call.password = "set" => link["password"] # 0
    BY <1>1, <2>1, <2>2, <2>3 DEF PasswordInTime
  <2>5. \A f \in call.fields : link[f] # 1
    BY <2>2
  <2>6. \A f \in Fields : link[f] # theirs[f] => f \in call.fields
    BY <1>4, <2>2
  <2> QED
    BY <1>1, <2>1, <2>2, <2>4, <2>5, <2>6 DEF Right, PasswordInTime
<1>7. CASE Requested("removePassword", {"password"}, [password |-> 0], old, link)
  <2>1. call.op = "linkUpdate" /\ call.password = "remove"
    BY <1>2, <1>7 DEF Requested, Fitting, LinkSteps
  <2>2. call.fields \subseteq Fields
    BY <2>1, LinkCall DEF Follow
  <2>3. /\ DOMAIN link = all /\ \A f \in Fields : link[f] = old[f]
    BY <1>1, <1>3, <1>7 DEF Requested
  <2>4. Waits("removePassword") /\ ~Waits("patchLink")
    BY <1>7, AtWaits, WaitsNot, LinkRanks DEF Requested, At
  <2>5. \A f \in call.fields : link[f] # 1
    BY <1>1, <2>1, <2>2, <2>3, <2>4 DEF PasswordInTime
  <2> QED
    BY <1>1, <1>4, <2>1, <2>3, <2>5 DEF Right, PasswordInTime
<1> QED
  BY <1>5, <1>6, <1>7

\* What others ask of link 1.
LEMMA TheirsKept ==
  ASSUME [CommandNext]_commandVars
  PROVE  theirs' = theirs \/ \E f \in Fields \cup {"password"} : theirs' = [theirs EXCEPT ![f] = 3]
<1>1. CASE Start \/ Killed \/ Rest \/ UNCHANGED commandVars \/ UNCHANGED sharing
  BY <1>1 DEF Start, Killed, Rest, commandVars, sharing
<1>2. CASE ShareNext
  <2>1. CASE \/ Capabilities \/ LoadLink \/ Stat \/ AskRoles \/ AskRecipient \/ ListOutgoing
             \/ ListReceived
    BY <2>1 DEF Capabilities, LoadLink, Load, Stat, AskRoles, AskRecipient, ListOutgoing,
                ListReceived, sharing
  <2>2. CASE \/ CreateLink \/ SetPassword \/ PatchLink \/ RemovePassword \/ Invite \/ PatchRole
             \/ Remove \/ Respond
    BY <2>2 DEF CreateLink, SetPassword, PatchLink, RemovePassword, ChangeLink, Invite, PatchRole,
                Remove, Respond
  <2>3. CASE WithdrawShare \/ ReplaceItem \/ RenamePerson
    BY <2>3 DEF WithdrawShare, ReplaceItem, RenamePerson
  <2>4. CASE EditLink
    BY <2>4 DEF EditLink
  <2> QED
    BY <1>2, <2>1, <2>2, <2>3, <2>4 DEF ShareNext
<1> QED
  BY <1>1, <1>2 DEF CommandNext

LEMMA LinkedKept ==
  ASSUME Follow, Registered, Linked, [CommandNext]_commandVars
  PROVE  Registered' /\ Linked'
<1>1. call' = call /\ Waiting /\ Registered' /\ LinkBecomes
  BY StepCases, StepWaits, StepBecomes DEF Begins, Dies, Attempt, Aside
<1>2. DOMAIN theirs' = Fields \cup {"password"}
  BY TheirsKept DEF Linked
<1>3. ASSUME NEW s \in shares', s.id = 1, s.kind = "link"
      PROVE  Right(s.link)' /\ PasswordInTime(s.link)'
  <2>1. PICK t \in shares : t.id = 1 /\ t.kind = "link" /\ Becomes(t.link, s.link)
    BY <1>1, <1>3 DEF LinkBecomes
  <2> DEFINE old == t.link
             link == s.link
  <2>2. Right(old) /\ PasswordInTime(old) /\ DOMAIN theirs = Fields \cup {"password"} /\ Becomes(old, link)
    BY <2>1 DEF Linked
  <2> HIDE DEF old, link
  <2>3. CASE Untouched(old, link)
    <3>1. link = old
      BY <2>3 DEF Untouched
    <3>2. Right(old)' /\ PasswordInTime(old)'
      BY <1>1, <2>2, <2>3, <3>1, KeptRight
    <3> QED
      BY <3>1, <3>2 DEF Right, PasswordInTime, link
  <2>4. CASE Edited(old, link)
    BY <1>1, <2>2, <2>4, EditedRight DEF link
  <2>5. CASE ~Untouched(old, link) /\ ~Edited(old, link)
    BY <1>1, <2>2, <2>5, RequestedRight DEF Becomes, link
  <2> QED
    BY <2>3, <2>4, <2>5
<1> QED
  BY <1>1, <1>2, <1>3 DEF Linked

LEMMA LinkedInit == ASSUME CommandInit PROVE Registered /\ Linked
<1>1. call \in Calls /\ todo = <<>>
  BY DEF CommandInit, RequestsInit, Calls
<1>2. \A step : ~Waits(step)
  <2>1. \A i \in 1 .. Len(todo) : FALSE
    BY <1>1, EmptySeq
  <2> QED
    BY <2>1 DEF Waits
<1>3. PICK password \in {0, 1}, p \in People :
        /\ theirs = [f \in Fields \cup {"password"} |-> IF f = "password" THEN password ELSE 1]
        /\ shares =
             {[id |-> 1, kind |-> "link", item |-> lying, person |-> 0, role |-> 0, link |-> theirs],
              [id |-> 2, kind |-> KindOf[p], item |-> lying, person |-> p, role |-> 0,
               link |-> NoLink]}
  BY DEF CommandInit, ShareInit
<1> DEFINE first == [id |-> 1, kind |-> "link", item |-> lying, person |-> 0, role |-> 0,
                     link |-> theirs]
           second == [id |-> 2, kind |-> KindOf[p], item |-> lying, person |-> p, role |-> 0,
                      link |-> NoLink]
<1>4. /\ IsShare(first) /\ IsShare(second)
      /\ first.id = 1 /\ second.id = 2 /\ first.link = theirs
  BY DEF IsShare
<1>5. shares = {first, second}
  BY <1>3
<1> HIDE DEF first, second
<1>6. Registered
  <2>1. \A s, t \in {first, second} : s.id = t.id => s = t
    BY <1>4
  <2> QED
    BY <1>4, <1>5, <2>1 DEF Registered
<1>7. DOMAIN theirs = Fields \cup {"password"} /\ \A f \in Fields : theirs[f] = 1
  BY <1>3 DEF Fields
<1>8. call.op = "linkUpdate" => call.fields \subseteq Fields /\ call.password \in {"keep", "set", "remove"}
  BY <1>1, LinkCall
<1>9. Right(theirs)
  <2>1. call.op = "linkUpdate" => \A f \in call.fields : theirs[f] # 2
    BY <1>7, <1>8
  <2> QED
    BY <1>7, <1>8, <2>1 DEF Right
<1>10. PasswordInTime(theirs)
  BY <1>2 DEF PasswordInTime
<1>11. \A s \in shares : s.id = 1 => s.link = theirs
  BY <1>4, <1>5
<1> QED
  BY <1>6, <1>7, <1>9, <1>10, <1>11 DEF Linked

LEMMA LinkInvariance == CommandSpec => [](Follow /\ Registered /\ Linked)
<1>1. CommandInit => Follow /\ Registered /\ Linked
  BY AnswersInit, LinkedInit
<1>2. ASSUME Follow /\ Registered /\ Linked, [CommandNext]_commandVars
      PROVE  (Follow /\ Registered /\ Linked)'
  BY <1>2, FollowKept, LinkedKept
<1> QED
  BY <1>1, <1>2, PTL DEF CommandSpec

\* share link update changes the properties it was asked to and no other, and a protected link
\* is never open with part of the change, for all calls, policies and faults, whatever other
\* clients do to the link and wherever the command stops (UpdateLink sets a password before
\* the PATCH and removes one after it).
THEOREM LinkIsAsAsked == CommandSpec => []LinkStaysAsAsked
<1>1. ASSUME Follow, Registered, Linked PROVE LinkStaysAsAsked
  <2> SUFFICES ASSUME IsLink(1)
               PROVE  LET link == Share(1).link
                          updated == call.op = "linkUpdate"
                      IN /\ \A f \in Fields : link[f] # theirs[f] => updated /\ f \in call.fields
                         /\ updated /\ link.password = 0 =>
                              \/ call.password = "keep"
                              \/ call.password = "set" /\ \A f \in call.fields : link[f] # 2
                              \/ call.password = "remove"
                                   /\ (theirs.password = 0 \/ \A f \in call.fields : link[f] # 1)
    BY DEF LinkStaysAsAsked
  <2>1. PICK s \in shares : s.id = 1 /\ s.kind = "link"
    BY DEF IsLink
  <2>2. Share(1) = s
    BY <1>1, <2>1, TheShare
  <2>3. Right(s.link)
    BY <1>1, <2>1 DEF Linked
  <2> QED
    BY <2>2, <2>3 DEF Right
<1> QED
  BY LinkInvariance, <1>1, PTL
=============================================================================
