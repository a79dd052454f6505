\* Two missions, two leases, a restart of the Supervisor.
CONSTANTS
    Mission = {m1, m2}
    NoMission = NoMission
    LeaseId = {l1, l2}
    NoLeaseId = NoLeaseId
    LeaseTime = 2
    StopTimeout = 1
    MaxEpoch = 1
    HeartbeatTimeout = 1
    RequestTimeout = 1
    Slots = 1
SPECIFICATION Spec
SYMMETRY Interchangeable
INVARIANTS
    TypeOK
    MotionIsCovered
    ClientWithinSupervisor
