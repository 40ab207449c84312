\* One session in p1 and the testaferro clean command, p2.
SPECIFICATION Spec
CONSTANTS
    p1 = p1  p2 = p2  s1 = s1  s2 = s2  s3 = s3
    Procs = {p1, p2}
    Sessions = {s1}
    ProcOf <- FirstProcess
    Scripted = {}
    Faults = {"clean"}
INVARIANTS HomeWhileSession
CHECK_DEADLOCK FALSE
