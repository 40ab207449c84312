\* Every list of up to five names of three lengths,
\* every kind of machine and location, and two sessions in turn over a kept
\* machine.  The last session's end is the end.
SPECIFICATION SessionSpec
CONSTANTS
    Tests = {1, 2, 3}
    NameLen <- Lengths
    GroupLen = 6
    CommandLen = 12
    Subsets <- UpToFive
    Plans <- AllPlans
    Lists <- ByKind
    Calls = 2
    NoAddress = NoAddress
INVARIANTS SessionTypeOK EveryNameOnce EveryLineFits FewestChunks RunsWhatItStaged ToldWhatRan ImagesAreOnlyRead KeptDisksKeepTheirState
CHECK_DEADLOCK FALSE
