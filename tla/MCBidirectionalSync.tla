------------------------ MODULE MCBidirectionalSync ------------------------
EXTENDS BidirectionalSync, SyncInstances

\* Every state run once undisturbed; fewer run until one fault is repaired, for each way
\* to treat conflicts; two runs from one while both trees are edited.
BidirectionalStarts ==
  Given(AllStates \cup SpellingState, {Abort, KeepBoth("remote")}, 0, 0, 1)
    \cup Given(States(TwoFileTrees), {Abort}, 0, 1, 2) \cup Given(FewStates, {Abort}, 0, 1, 4)
    \cup UNION {Given(FewStates \cup States(OneFileTrees), {KeepBoth(side)}, 0, 1, 2) :
                  side \in {"local", "remote"}}
    \cup Given(OneState, {Abort}, 2, 0, 2) \cup Given(OneState, {Abort}, 1, 1, 2)

KeepBothLocalStarts == Given(FewStates, {KeepBoth("local")}, 0, 0, 1)
AllQuietStarts == Given(AllStates, {Abort}, 0, 0, 1)
NewFileStarts == Given(NewFileState, {Abort}, 0, 0, 2)
=============================================================================
