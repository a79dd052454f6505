\* Two missions, every configuration, restarts on the same journal.
CONSTANTS
    Mission = {m1, m2}
    NoMission = NoMission
    Configs <- AnyConfig
    NavigationTimeout = 2
    CleaningTimeout = 1
    CancelTimeout = 2
    PermissionTimeout = 1
    Horizon = 2
SPECIFICATION Spec
INVARIANTS
    TypeOK
    JournalMatchesRequest
    BaseOrArm
    StopLeavesOnlyTheReturn
    ReturnedLeaseIsStill
PROPERTIES
    MotionNeedsAuthority
    JournalIsMonotone
    UnreviewedMeansStill
    LostAuthorityIsReported
    MissionEnds
