------------------------ MODULE MCMissionPermission ------------------------
(* TLC instances of MissionPermission: missions and lease ids are          *)
(* interchangeable.                                                        *)
EXTENDS MissionPermission, TLC

Interchangeable == Permutations(Mission) \cup Permutations(LeaseId)
=============================================================================
