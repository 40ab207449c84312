----------------------------- MODULE SuiteArgv ------------------------------
(***************************************************************************)
(* The argument line of one exchange with a suite (cpputest.py, suite.py): *)
(* how long the argv is that runs some tests of one group, how long it may *)
(* be, and how many of a list of names go into the next one.  A name is    *)
(* known by its length alone.                                              *)
(***************************************************************************)
EXTENDS Integers, Sequences, SequencesExt

CONSTANTS
    Tests,        \* the tests of the suite
    NameLen,      \* how long each one's name is
    GroupLen,     \* how long the name of a group is
    CommandLen    \* how long the command is that names the program

ASSUME SuiteArgvAssumption ==
    /\ NameLen \in [Tests -> Nat]
    /\ GroupLen \in Nat
    /\ CommandLen \in Nat

ArgumentTailLimit == 125
DosCommandLineLimit == 126

\* Who carries the argv: nobody who states a budget; DOSBox-X, whose own
\* shell reads a line as long as it likes; or reliquary, which types it.
Sides == {"none", "tail", "typed"}

\* argv_budget: the program's own argument tail, or what is left of the
\* line once the command is typed, whichever is less.
Budget(side) ==
    LET left == DosCommandLineLimit - CommandLen - 1
    IN  IF side = "typed" /\ left < ArgumentTailLimit THEN left ELSE ArgumentTailLimit

\* run_some_argv: -v -sg <group>, and -sn <name> for each; token by token
\* the length.
Argv(names) ==
    <<2, 3, GroupLen>> \o
        [k \in 1 .. 2 * Len(names) |-> IF k % 2 = 1 THEN 3 ELSE NameLen[names[k \div 2]]]

\* The tokens and one space between each.
Spent(names) == FoldLeft(+, 0, Argv(names)) + Len(Argv(names)) - 1

Fits(names, side) == Spent(names) <= Budget(side)

\* How many of names the next exchange takes: as many as fit, and one that
\* does not fit on its own all the same.
ChunkLen(names, side) ==
    LET fitting == {n \in 1 .. Len(names) : \A k \in 2 .. n : Fits(SubSeq(names, 1, k), side)}
    IN  CHOOSE n \in fitting : \A k \in fitting : k <= n
=============================================================================
