\* One process with two suites' sessions and a with block's, its own clean,
\* every failure, kills and exits.  All processes may be gone.
SPECIFICATION Spec
CONSTANTS
    p1 = p1  p2 = p2  s1 = s1  s2 = s2  s3 = s3
    Procs = {p1}
    Sessions = {s1, s2, s3}
    ProcOf <- FirstProcess
    Scripted = {s3}
    Faults = {"gatherFails", "createFails", "bootFails", "setupFails", "stopFails", "killed", "clean"}
INVARIANTS TypeOK ReleasedAtRest HomeWhileSession ExitIsClean
PROPERTIES HomesAreGivenBack
CHECK_DEADLOCK FALSE
