\* Nothing goes wrong; a machine is kept and suites share it, or not.
SPECIFICATION Spec
CONSTANTS
    Files = {"a.exe", "b.com", "e.exe", "host.exe"}
    Embedded = {"e.exe"}
    Modules = {"test_it.py"}
    Programs = {"a.exe", "b.com", "e.exe", "host.exe"}
    Format <- Formats5
    Projects <- SampleProjects
    Order <- FileOrder
    Items = {"a1", "a2", "a3", "b1", "e1"}
    SuiteOf <- ItemSuites
    GroupOf <- ItemGroups
    Nothing = "nothing"
    Faults = {}
INVARIANTS TurnsAreTaken
CHECK_DEADLOCK FALSE
