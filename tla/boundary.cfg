\* Two executions, both processes crash, requests and replies are lost.
CONSTANTS
    Execution = {x1, x2}
    None = None
    InitialSafe = TRUE
SPECIFICATION Spec
INVARIANTS
    TypeOK
    DriveGateIsTrue
    EveryStartIsClean
PROPERTIES
    CancelReaches
