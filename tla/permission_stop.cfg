\* Liveness: every revoked lease, across restarts.
CONSTANTS
    Mission = {m1}
    NoMission = NoMission
    LeaseId = {l1}
    LeaseTime = 2
    StopTimeout = 2
    MaxEpoch = 2
SPECIFICATION Spec
PROPERTY StopIsPursued
