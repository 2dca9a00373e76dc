SPECIFICATION Spec
CONSTANTS
    Kinds <- MCKinds
    MaxBreaks = 2
    MaxTimeouts = 1
    MaxRefusals = 1
    MaxEarly = 1
    MaxCommands = 1
    MaxData = 1
    MaxCuts = 1
    MaxRest = 2
INVARIANTS
    SessionProtocol
PROPERTIES
    SignedOnAgain
CHECK_DEADLOCK FALSE
