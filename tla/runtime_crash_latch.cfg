\* A fatal outcome and its latch are two commits.
CONSTANTS
    Mission = {m1}
    NoMission = NoMission
    Configs <- SupervisedHome
    NavigationTimeout = 1
    CleaningTimeout = 1
    CancelTimeout = 1
    PermissionTimeout = 1
    Horizon = 1
SPECIFICATION Spec
INVARIANT FatalOutcomeLatches
