--------------------------- MODULE MCResultBroker ---------------------------
(* Instances of ResultBroker for TLC: four tests in two groups, one group  *)
(* with names so long that its batch takes two exchanges, and a guest that *)
(* has them all or all but one.                                            *)
EXTENDS ResultBroker

SuiteOrder == <<1, 2, 3, 4>>
TwoGroups == <<"A", "A", "A", "B">>
Lengths == <<30, 30, 40, 8>>
OneMissing == {Tests, Tests \ {2}}
=============================================================================
