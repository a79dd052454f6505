---------------------------- MODULE MCControlBridge ----------------------------
(* The instance of ControlBridge for TLC. *)
EXTENDS ControlBridge, TLC

Symmetry == Permutations(Request)
=============================================================================
