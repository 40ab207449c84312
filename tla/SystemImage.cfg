\* Three builders, everything that can go wrong.
\* All of them may end failed or killed.
SPECIFICATION Spec
CONSTANTS
    Builders = {b1, b2, b3}
    Nobody = Nobody
    Faults = {"createFails", "installFails", "destroyFails", "killed", "clean", "cleanSystem"}
SYMMETRY Symmetry
INVARIANTS TypeOK OnlyFinishedSystems NothingIsLeftBehind BuildSweptAtRest
PROPERTIES PartialIsItsBuilders
CHECK_DEADLOCK FALSE
