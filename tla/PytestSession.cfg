\* Every project, selection and order of items; what is started, asked or
\* stopped may raise, and the session be interrupted.  A session ends.
SPECIFICATION Spec
CONSTANTS
    Files = {"a.exe", "b.com", "e.exe", "host.exe"}
    Embedded = {"e.exe"}
    Modules = {"test_it.py"}
    Programs = {"a.exe", "b.com", "e.exe", "host.exe"}
    Format <- Formats5
    Projects <- SampleProjects
    Order <- FileOrder
    Items = {"a1", "a2", "a3", "b1", "e1"}
    SuiteOf <- ItemSuites
    GroupOf <- ItemGroups
    Nothing = "nothing"
    Faults = {"startRaises", "stopRaises", "unreadable", "interrupt"}
INVARIANTS TypeOK EveryGuestHasItsStop BootsAreEarned KeptHomesAreNamed DeclarationDecides
PROPERTIES SessionEnds
CHECK_DEADLOCK FALSE
