\* A drive, an approach and another drive, with crashes in between.
CONSTANTS
    MaxGoal = 3
    None = None
SPECIFICATION Spec
INVARIANTS
    TypeOK
    StoppedLeavesOnlyAcknowledged
PROPERTIES
    CancelledSendsNothing
    CancelTakesEffect
