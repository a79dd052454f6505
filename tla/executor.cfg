\* Two executions; the arm, the port, the database and the process fail at will.
CONSTANTS
    Execution = {x1, x2}
    None = None
    Timeout = 2
SPECIFICATION Spec
INVARIANTS
    TypeOK
PROPERTIES
    ContractIsKept
    CancelStopsProgress
    ExecutionEnds
