-------------------------- MODULE MCMissionRuntime --------------------------
(* TLC instances of MissionRuntime: the configurations of the node         *)
(* (parameters supervision_mode, post_mission).                            *)
EXTENDS MissionRuntime

AnyConfig      == [supervised : BOOLEAN, postMission : {"return_home", "wait_for_next"}]
SupervisedHome == [supervised : {TRUE}, postMission : {"return_home"}]
=============================================================================
