\* Two tests, any fate, screen and file.  A run that is parsed or refused is
\* over.
SPECIFICATION Spec
CONSTANT Count = 2
INVARIANTS TypeOK VerdictsAreTrue MessagesAreTheirOwn CleanOutputIsRead
CHECK_DEADLOCK FALSE
