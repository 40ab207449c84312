\* Every selection, with or without run_some_argv, a test gone from the guest
\* or none, outputs that get lost whole or in part.  A run ends.
SPECIFICATION Spec
CONSTANTS
    Tests = {1, 2, 3, 4}
    NameLen <- Lengths
    GroupLen = 6
    CommandLen = 12
    Ids <- SuiteOrder
    GroupOf <- TwoGroups
    Guests <- OneMissing
    NoTest = 0
INVARIANTS TypeOK OnlySelectedRun ToldWhatTheGuestSaid OnlyFailuresRunAgain
PROPERTIES MissingHasACause EveryItemIsTold
CHECK_DEADLOCK FALSE
