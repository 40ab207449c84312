\* Two processes with a session each, and nothing that goes wrong.
SPECIFICATION Spec
CONSTANTS
    p1 = p1  p2 = p2  b1 = b1  b2 = b2  b3 = b3  b4 = b4
    Procs = {p1, p2}
    Backends = {b1, b3}
    ProcOf <- TwoProcesses
    NoOne = NoOne
    Faults = {}
INVARIANTS NeverStoppedFromUnder
