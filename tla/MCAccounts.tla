----------------------------- MODULE MCAccounts -----------------------------
EXTENDS Accounts, TLC

CONSTANTS home, work, p1, p2

NoSecrets == [f \in Profiles |-> Empty]
Plan(first, second) == (p1 :> first) @@ (p2 :> second)
Given(settings, items, issued, plan, maxFaults) ==
  [config |-> settings, secrets |-> items, tokens |-> issued, agenda |-> plan, faults |-> maxFaults]

\* A profile of account 1 with a default Space and a client secret.
HomeSettings == [known |-> TRUE, account |-> 1, space |-> 1, owner |-> 1]
HomeSecrets == [NoSecrets EXCEPT ![home] = <<0, 1, 1, 1>>]
HomeOnly == [f \in Profiles |-> IF f = home THEN HomeSettings ELSE NoSettings]
\* And beside it one of account 3, which has a password.
Both == [HomeOnly EXCEPT ![work] = [NewSettings EXCEPT !.account = 3]]
BothSecrets == [HomeSecrets EXCEPT ![work] = <<3, 0, 0, 0>>]
Nothing == [f \in Profiles |-> NoSettings]

\* Two commands after each other, the first of which may die; two at once; and
\* another after two that have left a marker without items.
AllStarts ==
  { Given(Nothing, NoSecrets, <<>>, Plan(<<CommandKinds, CommandKinds>>, <<>>), 1),
    Given(Both, BothSecrets, <<1>>, Plan(<<CommandKinds, CommandKinds>>, <<>>), 1),
    Given(HomeOnly, HomeSecrets, <<1>>, Plan(<<CommandKinds>>, <<CommandKinds>>), 0),
    Given(HomeOnly, HomeSecrets, <<1>>, Plan(<<{"remove"}, {"login", "logout"}>>, <<{"use-server"}>>), 0) }
AllProfiles == {home, work}
AllProcesses == {p1, p2}
=============================================================================
