\* Safety: two missions, two leases, a restart.
CONSTANTS
    Mission = {m1, m2}
    NoMission = NoMission
    LeaseId = {l1, l2}
    LeaseTime = 1
    StopTimeout = 1
    MaxEpoch = 1
SPECIFICATION Spec
SYMMETRY Interchangeable
INVARIANTS
    TypeOK
    WriteAhead
    StopFaultResolvable
PROPERTIES
    ContractIsKept
    StopFaultNeedsConfirmation
