SPECIFICATION Spec
CONSTANTS
    Fault = {f1, f2}
    f1 = f1
    f2 = f2
    Latched = {f2}
    Automatic = {f2}
    MaxAttempts = 2
    AttemptTimeout = 1
    CancelTimeout = 1
    VerifyTimeout = 1
    TotalTimeout = 2
    MaxRestarts = 1
INVARIANT TypeOK
PROPERTIES ContractIsKept RequestIsAnswered
