\* Two objects, three actions and one retry.
CONSTANTS
    Object = {o1, o2}
    Nothing = Nothing
    MaxActions = 3
    MaxRetries = 1
    MaxScene = 4
SPECIFICATION TreeSpec
INVARIANTS
    TreeTypeOK
    ReportIsComplete
    DoneMeansClean
PROPERTIES
    StartsOnFreshScene
CHECK_DEADLOCK FALSE
