-------------------------- MODULE MCLeaseProtocol --------------------------
(* TLC instances of LeaseProtocol: missions and lease ids are              *)
(* interchangeable.                                                        *)
EXTENDS LeaseProtocol, TLC

Interchangeable == Permutations(Mission) \cup Permutations(LeaseId)
=============================================================================
