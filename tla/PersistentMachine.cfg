\* Two processes with two sessions each, and everything that can go wrong.
SPECIFICATION Spec
CONSTANTS
    p1 = p1  p2 = p2  b1 = b1  b2 = b2  b3 = b3  b4 = b4
    Procs = {p1, p2}
    Backends = {b1, b2, b3, b4}
    ProcOf <- TwoProcesses
    NoOne = NoOne
    Faults = {"gatherFails", "bootFails", "setupFails", "stopFails", "killed", "shutdown", "destroy"}
INVARIANTS TypeOK RegistriesAreTrue GuestServesItsOwnSet
PROPERTIES NothingStrandsTheMachine ImplementsLease EveryStartEnds
CHECK_DEADLOCK FALSE
