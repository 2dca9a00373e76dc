SPECIFICATION Spec
CONSTANTS
    Commands <- MCCommands
    MaxCommands = 3
    MaxFrames = 2
    MaxFailures = 2
INVARIANTS
    MotorUndisturbed
PROPERTIES
    ErasedOnlyWhenDone
    MotorStops
