------------------------- MODULE MissionPermission -------------------------
(***************************************************************************)
(* The execution permission of the System Supervisor: permissions.py, the  *)
(* stop and state faults of faults.py, and the write-ahead persistence and *)
(* restart of supervisor.py and store.py.                                  *)
(*                                                                         *)
(* A lease is granted to a mission for a time to live, renewed by the      *)
(* mission, and revoked by expiry, an operation lock or a lost capability. *)
(* A revoked lease is not over: the Supervisor asks the Mission Runtime to *)
(* stop until a stopped result confirms it, and escalates to a fault that  *)
(* locks operation when the answer fails or is late.                       *)
(*                                                                         *)
(* Every service call and timer runs under the node's lock, so a handler   *)
(* is one action.  The process and its state file are the record sup, and  *)
(* a handler is a composition of operators on that record in the order of  *)
(* the code; a crash keeps only its field disk.  Health is an input of     *)
(* every handler: healthy says that the mission's capabilities are         *)
(* AVAILABLE and that no health fault locks operation.                     *)
(***************************************************************************)
EXTENDS Naturals

CONSTANTS
    Mission,        \* mission ids
    NoMission,      \* the mission of an id that was never issued
    LeaseId,        \* lease ids (uuid4); an id is issued once
    LeaseTime,      \* lease_s, in units of the model's clock
    StopTimeout,    \* stop_timeout_s
    MaxEpoch        \* bound: how often the process crashes and is started again

ASSUME PermissionAssumption ==
    /\ NoMission \notin Mission
    /\ LeaseTime \in Nat \ {0} /\ StopTimeout \in Nat \ {0} /\ MaxEpoch \in Nat

VARIABLES
    epoch,          \* process starts so far
    up,             \* the process runs
    sup,            \* its memory, and the state file
    handed          \* history: the leases a reply has granted to a client

vars == <<epoch, up, sup, handed>>

(* The life of a lease id.  "revoked" is neither granted nor stopped; a    *)
(* pruned lease, or one a restart has forgotten, is "gone".                *)
LeaseState == {"free", "granted", "revoked", "stopped", "gone"}
CallState  == {"NONE", "RUNNING", "ACCEPTED", "STOPPED", "FAILED", "UNKNOWN"}

Lease == [st : LeaseState, mission : Mission \cup {NoMission},
          left : 0 .. LeaseTime,          \* expires_at - now
          asked : BOOLEAN,                \* stop_requested_at is set
          waited : 0 .. StopTimeout,      \* now - stop_requested_at
          dispatched : BOOLEAN,           \* stop_dispatched
          call : CallState]               \* what MissionStopPort.poll answers
File   == [leases : [LeaseId -> Mission \cup {NoMission}],   \* NoMission: not in the file
           stopFaults : SUBSET LeaseId, stateFault : BOOLEAN]
Memory == [lease : [LeaseId -> Lease],
           stopFaults : SUBSET LeaseId,   \* active MISSION_STOP_FAILED:<lease>
           stateFault : BOOLEAN,          \* SUPERVISOR_STATE_UNVERIFIED is active
           synced : BOOLEAN,              \* _persisted is what the file holds
           saveFailed : BOOLEAN,          \* _persist_failed
           disk : File]

\* not lease.stopped: its mission may still be moving.
IsUnconfirmed(r) == r.st \in {"granted", "revoked"}
Unconfirmed(s)   == {l \in LeaseId : IsUnconfirmed(s.lease[l])}

\* permissions.persisted() and faults.persisted(), as _persist writes them.
Durable(s) ==
    [leases |-> [l \in LeaseId |->
         IF IsUnconfirmed(s.lease[l]) THEN s.lease[l].mission ELSE NoMission],
     stopFaults |-> s.stopFaults, stateFault |-> s.stateFault]

Saved(file) == {l \in LeaseId : file.leases[l] # NoMission}
NoFile == [leases |-> [l \in LeaseId |-> NoMission], stopFaults |-> {}, stateFault |-> FALSE]

\* operating_state, as far as the faults of this module decide it.
Operable(s, healthy) == healthy /\ s.stopFaults = {} /\ ~s.stateFault

\* A lease that was never issued, or is over: nothing of it but its state matters.
NoLease(st) == [st |-> st, mission |-> NoMission, left |-> 0, asked |-> FALSE,
                waited |-> 0, dispatched |-> FALSE, call |-> "NONE"]

-----------------------------------------------------------------------------
(* The parts of a handler.                                                 *)

(* permissions.update for one lease.  reachable says that the stop server  *)
(* can be sent a goal now.                                                 *)
Updated(s, l, healthy, reachable) ==
    LET r       == s.lease[l]
        revoked == \/ r.st = "revoked"
                   \/ r.st = "granted" /\ (r.left = 0 \/ ~Operable(s, healthy))
        sent    == r.dispatched \/ reachable
        call    == IF sent /\ ~r.dispatched THEN "RUNNING" ELSE r.call
    IN  IF ~revoked THEN r
        ELSE IF sent /\ call = "STOPPED" THEN NoLease("stopped")
        ELSE [r EXCEPT !.st = "revoked", !.asked = TRUE, !.dispatched = sent, !.call = call]

\* Mutant of Update: a lease is escalated only once its stop was sent, and no late
\* confirmation clears the fault.
UpdateSentOnly(s, healthy, reachable) ==
    LET leases    == [l \in LeaseId |-> Updated(s, l, healthy, reachable)]
        escalated == {l \in LeaseId : /\ leases[l].st = "revoked" /\ leases[l].dispatched
                                      /\ \/ leases[l].call = "FAILED"
                                         \/ leases[l].waited = StopTimeout}
    IN  [s EXCEPT !.lease = leases, !.stopFaults = s.stopFaults \cup escalated]

Update(s, healthy, reachable) ==
    LET leases    == [l \in LeaseId |-> Updated(s, l, healthy, reachable)]
        confirmed == {l \in LeaseId : leases[l].st = "stopped"}
        escalated == {l \in LeaseId : /\ leases[l].st = "revoked"
                                      /\ \/ leases[l].dispatched /\ leases[l].call = "FAILED"
                                         \/ leases[l].waited = StopTimeout}
    IN  [s EXCEPT !.lease = leases,
                  !.stopFaults = (s.stopFaults \ confirmed) \cup escalated]

\* prune: the leases in old were over retention_s ago.
Prune(s, old) ==
    [s EXCEPT !.lease = [l \in LeaseId |-> IF l \in old THEN NoLease("gone") ELSE @[l]]]

\* _persist: nothing new, written, or failed and therefore locked.
Persist(s, saves) ==
    IF s.synced /\ Durable(s) = s.disk THEN s
    ELSE IF saves THEN [s EXCEPT !.disk = Durable(s), !.synced = TRUE, !.saveFailed = FALSE]
    ELSE [s EXCEPT !.stateFault = TRUE, !.saveFailed = TRUE]

(* tick() before and after its own _persist, on the inputs of one handler: *)
(* the stop server is there, the file can be written, some leases are old. *)
Inputs == [healthy : BOOLEAN, reachable : BOOLEAN, saves : BOOLEAN,
           old : SUBSET {l \in LeaseId : sup.lease[l].st = "stopped"}]
Settled(s, in) == Prune(Update(s, in.healthy, in.reachable), in.old)
Ticked(s, in)  == Persist(Settled(s, in), in.saves)

(* What a handler's tick() may leave.  operable is the operating state that *)
(* check_permission decides on: tick() computed it before its own _persist  *)
(* could fail.                                                              *)
Ticks == {[sup |-> Ticked(sup, in), operable |-> Operable(Settled(sup, in), in.healthy)] :
             in \in Inputs}

\* Mutant of Granted: a renewal adds to the time that is left.
GrantedOnTop(s, l, m) ==
    [s EXCEPT !.lease[l] = [@ EXCEPT !.st = "granted", !.mission = m, !.left = @ + LeaseTime]]

Granted(s, l, m) ==
    [s EXCEPT !.lease[l] = [@ EXCEPT !.st = "granted", !.mission = m, !.left = LeaseTime]]

\* Mutant of Withdrawn: the reply does not look at the outcome of the save.
GrantedAnyway(s, l) == s

\* The end of check_permission: a grant that is not durable is withdrawn.
Withdrawn(s, l) == IF s.saveFailed THEN [s EXCEPT !.lease[l].st = "revoked"] ELSE s

-----------------------------------------------------------------------------
(* Handlers.  A request that is denied is its tick() and nothing else.     *)

Tick ==
    /\ up
    /\ \E in \in Inputs : sup' = Ticked(sup, in)
    /\ UNCHANGED <<epoch, up, handed>>

\* No unconfirmed lease of the mission is left.
Vacant(s, m) == \A l \in Unconfirmed(s) : s.lease[l].mission # m

\* check_permission without a lease: a new one, unless the mission has one unconfirmed.
Acquire(m) ==
    /\ up
    /\ \E t \in Ticks, l \in LeaseId, saves \in BOOLEAN :
          /\ t.operable
          /\ t.sup.lease[l].st = "free"
          /\ Vacant(t.sup, m)
          /\ sup' = Withdrawn(Persist(Granted(t.sup, l, m), saves), l)
          /\ handed' = IF sup'.lease[l].st = "granted" THEN handed \cup {l} ELSE handed
    /\ UNCHANGED <<epoch, up>>

\* Mutant of Renew: only the expiry is checked.
RenewUnexpired(l) ==
    /\ up
    /\ \E t \in Ticks, saves \in BOOLEAN :
          /\ t.operable /\ t.sup.lease[l].left > 0
          /\ sup' = Withdrawn(Persist(Granted(t.sup, l, t.sup.lease[l].mission), saves), l)
    /\ UNCHANGED <<epoch, up, handed>>

\* check_permission with a lease that still stands: its time starts again.
Renew(l) ==
    /\ up
    /\ \E t \in Ticks, saves \in BOOLEAN :
          /\ t.operable
          /\ t.sup.lease[l].st = "granted" /\ t.sup.lease[l].left > 0
          /\ sup' = Withdrawn(Persist(Granted(t.sup, l, t.sup.lease[l].mission), saves), l)
    /\ UNCHANGED <<epoch, up, handed>>

\* check_permission with release: the mission has confirmed its own stop.
Release(l) ==
    /\ up
    /\ \E t \in Ticks, saves \in BOOLEAN :
          /\ t.sup.lease[l].st = "granted"
          /\ sup' = Persist([t.sup EXCEPT !.lease[l] = NoLease("stopped")], saves)
    /\ UNCHANGED <<epoch, up, handed>>

\* Mutant of ResetStopFault: the operator's word clears the fault.
ResetStopFaultAtOnce(l) ==
    /\ up
    /\ l \in Unconfirmed(sup)
    /\ sup' = [sup EXCEPT !.lease[l].call = "RUNNING", !.stopFaults = @ \ {l}]
    /\ UNCHANGED <<epoch, up, handed>>

\* request_fault_reset of a stop fault only asks the Runtime again.
ResetStopFault(l) ==
    /\ up
    /\ l \in Unconfirmed(sup)
    /\ sup' = [sup EXCEPT !.lease[l].call = "RUNNING"]
    /\ UNCHANGED <<epoch, up, handed>>

\* request_fault_reset of the state fault: the operator takes responsibility.
ResetStateFault ==
    /\ up /\ sup.stateFault
    /\ \E in \in Inputs : sup' = Ticked([sup EXCEPT !.stateFault = FALSE], in)
    /\ UNCHANGED <<epoch, up, handed>>

-----------------------------------------------------------------------------
(* The stop transport, time, crash and restart.                    *)

\* ActionCalls._accepted and _result, from the Runtime's answers.
CallProgress(l) ==
    /\ up
    /\ \/ /\ sup.lease[l].call = "RUNNING"
          /\ \E c \in {"ACCEPTED", "FAILED", "UNKNOWN"} : sup' = [sup EXCEPT !.lease[l].call = c]
       \/ /\ sup.lease[l].call = "ACCEPTED"
          /\ \E c \in {"STOPPED", "FAILED", "UNKNOWN"} : sup' = [sup EXCEPT !.lease[l].call = c]
    /\ UNCHANGED <<epoch, up, handed>>

\* The same leases one unit of time later.
Older(s) ==
    [s EXCEPT !.lease = [l \in LeaseId |->
       [s.lease[l] EXCEPT
          !.left = IF @ > 0 THEN @ - 1 ELSE @,
          !.waited = IF s.lease[l].asked /\ @ < StopTimeout THEN @ + 1 ELSE @]]]

Elapse ==
    /\ up
    /\ sup' = Older(sup) /\ sup' # sup
    /\ UNCHANGED <<epoch, up, handed>>

Crash ==
    /\ up /\ up' = FALSE
    /\ epoch < MaxEpoch
    /\ UNCHANGED <<epoch, sup, handed>>

\* A lease of the state file is unconfirmed again; every other issued id is forgotten.
Restored(l, file) ==
    IF l \in Saved(file) THEN [NoLease("revoked") EXCEPT !.mission = file.leases[l]]
    ELSE IF sup.lease[l].st = "free" THEN NoLease("free")
    ELSE NoLease("gone")

\* __init__ and _restore: the file is read, or it is not and operation is locked.
Start(readable) ==
    LET file == IF readable THEN sup.disk
                ELSE [NoFile EXCEPT !.stateFault = TRUE]
    IN  [lease |-> [l \in LeaseId |-> Restored(l, file)],
         stopFaults |-> file.stopFaults, stateFault |-> file.stateFault,
         synced |-> FALSE, saveFailed |-> FALSE, disk |-> sup.disk]

Restart ==
    /\ ~up /\ up' = TRUE
    /\ epoch' = epoch + 1
    /\ \E readable \in BOOLEAN : sup' = Start(readable)
    /\ UNCHANGED handed

-----------------------------------------------------------------------------
Init ==
    /\ epoch = 0 /\ up = TRUE
    /\ sup = [lease |-> [l \in LeaseId |-> NoLease("free")], stopFaults |-> {},
              stateFault |-> FALSE, synced |-> FALSE, saveFailed |-> FALSE,
              disk |-> NoFile]
    /\ handed = {}

Requests == \/ \E m \in Mission : Acquire(m)
            \/ \E l \in LeaseId : Renew(l) \/ Release(l) \/ ResetStopFault(l)
            \/ ResetStateFault

Surroundings == \/ \E l \in LeaseId : CallProgress(l)
                \/ Elapse

Next == Tick \/ Requests \/ Surroundings \/ Crash \/ Restart

\* A tick that changes something whatever its inputs are.
Due == \A in \in Inputs : Ticked(sup, in) # sup

\* The node's timer ticks and its clock runs while it is up.  No input is ever due: the
\* stop server may be missing for ever, and every save may fail.
Fairness == WF_vars(Due /\ Tick) /\ WF_vars(Elapse)

Spec == Init /\ [][Next]_vars /\ Fairness

-----------------------------------------------------------------------------
(* Properties.                                                             *)

\* The counters and flags of Lease, FaultManager and SystemSupervisor keep their types.
TypeOK ==
    /\ epoch \in 0 .. MaxEpoch /\ up \in BOOLEAN
    /\ sup \in Memory
    /\ handed \subseteq LeaseId

\* Write-ahead: a lease a client was given, and whose stop nobody confirmed, is in the
\* state file, so a crash at any point leaves it to be verified (check_permission).
WriteAhead ==
    \A l \in handed \cap Unconfirmed(sup) : l \in Saved(sup.disk)

\* Every stop fault, restored ones included, still has its lease, unconfirmed and
\* revoked: update and reset keep asking for it, so the lock can be left.
StopFaultResolvable ==
    /\ \A l \in sup.stopFaults : sup.lease[l].st = "revoked"
    /\ sup.disk.stopFaults \subseteq Saved(sup.disk)

\* The contract of LeaseContract: nothing revoked is granted again, a lease a client was
\* given is over only by a confirmed stop or a release, a mission holds one at a time,
\* and a process that loses one (an unreadable file) starts with operation locked.
Contract == INSTANCE LeaseContract WITH
    Mission <- Mission \cup {NoMission}, LeaseId <- LeaseId,
    life <- [l \in LeaseId |-> sup.lease[l].st],
    owner <- [l \in LeaseId |-> sup.lease[l].mission],
    held <- handed,
    locked <- sup.stateFault
ContractIsKept == Contract!Spec

\* While the process runs a stop fault is cleared by a confirmed stop only; one that a
\* restart lost comes back, since its lease is unconfirmed again or operation is locked.
StopFaultNeedsConfirmation ==
    [][ \A l \in sup.stopFaults \ sup'.stopFaults :
          \/ up /\ sup'.lease[l].st = "stopped"
          \/ ~up /\ (l \in handed => sup'.lease[l].st = "revoked" \/ sup'.stateFault) ]_vars

\* A revoked lease is confirmed stopped or escalated, whether the stop server is
\* missing, refuses, fails or never answers, as long as the process stays up.
StopIsPursued ==
    \A l \in LeaseId : sup.lease[l].st = "revoked"
        ~> (l \in sup.stopFaults \/ sup.lease[l].st # "revoked" \/ ~up)
=============================================================================
