--------------------------- MODULE LeaseContract ---------------------------
(***************************************************************************)
(* What the System Supervisor promises about its leases, whatever its      *)
(* timers, its stop transport, its state file and its restarts do.  An     *)
(* abstract specification: MissionPermission implements it.                *)
(***************************************************************************)
CONSTANTS Mission, LeaseId

VARIABLES
    life,           \* the life of every lease id
    owner,          \* its mission, while the lease is unconfirmed
    held,           \* the leases that clients were given
    locked          \* an operator has to verify what a restart could not read

vars == <<life, owner, held, locked>>

Life == {"free", "granted", "revoked", "stopped", "gone"}

Unconfirmed == {l \in LeaseId : life[l] \in {"granted", "revoked"}}

\* A mission has at most one lease whose stop is not confirmed.
OneEach == \A k, l \in Unconfirmed : owner[k] = owner[l] => k = l

(* What a running process may do to a lease.  A grant may be withdrawn     *)
(* before anyone has seen it, and a lease may be revoked and confirmed at  *)
(* once; nothing leads back to granted.                                    *)
Onward == {<<"free", "granted">>, <<"free", "revoked">>, <<"granted", "revoked">>,
           <<"granted", "stopped">>, <<"revoked", "stopped">>, <<"stopped", "gone">>}

Issued == {l \in LeaseId : life[l] = "free" /\ life'[l] # "free"}

Init ==
    /\ life = [l \in LeaseId |-> "free"]
    /\ \E m \in Mission : owner = [l \in LeaseId |-> m]
    /\ held = {} /\ locked = FALSE

\* One handler: any leases move on, one is issued at most and given to its client.
Serve ==
    /\ life' \in [LeaseId -> Life]
    /\ \A l \in LeaseId : life'[l] = life[l] \/ <<life[l], life'[l]>> \in Onward
    /\ \A l \in Unconfirmed \cap Unconfirmed' : owner'[l] = owner[l]
    /\ \A k, l \in Issued : k = l
    /\ OneEach'
    /\ held' \in {held, held \cup {l \in Issued : life'[l] = "granted"}}

\* A new process grants nothing it finds, and keeps what clients hold or locks.
Recover ==
    /\ life' \in [LeaseId -> Life]
    /\ \A l \in LeaseId : IF life[l] = "free" THEN life'[l] = "free"
                          ELSE life'[l] \in {"revoked", "gone"}
    /\ \A l \in held \cap Unconfirmed :
          locked' \/ (life'[l] = "revoked" /\ owner'[l] = owner[l])
    /\ OneEach'
    /\ held' = held

Next == Serve \/ Recover

Spec == Init /\ [][Next]_vars
=============================================================================
