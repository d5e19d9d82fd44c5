---------------------------- MODULE MCOneWaySync ----------------------------
EXTENDS OneWaySync, SyncInstances

Push == OneWay("push")
Pull == OneWay("pull")

\* Every state pushed once undisturbed, fewer pushed and pulled until one fault
\* is repaired, and one pushed and pulled while both sides are edited.
OneWayStarts ==
  Given(AllStates, Push, 0, 0, 1)
    \cup Given(FewStates, Push, 0, 1, 2) \cup Given(OfPull(FewStates), Pull, 0, 1, 2)
    \cup Given(OneState, Push, 2, 0, 2) \cup Given(OfPull(OneState), Pull, 2, 0, 2)

\* With include patterns, to a root that exists.
SelectedStarts == Given(SelectedState, Push, 0, 0, 1)
=============================================================================
