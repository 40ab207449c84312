\* The same sessions: what is declared is where the suite is found.
SPECIFICATION SessionSpec
CONSTANTS
    Tests = {1, 2, 3}
    NameLen <- Lengths
    GroupLen = 6
    CommandLen = 12
    Subsets <- UpToFive
    Plans <- Single
    Lists <- ByKind
    Calls = 1
    NoAddress = NoAddress
INVARIANTS DeclaredAddressWorks
CHECK_DEADLOCK FALSE
