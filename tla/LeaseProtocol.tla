--------------------------- MODULE LeaseProtocol ---------------------------
(***************************************************************************)
(* The lease protocol between the Mission Runtime and the Supervisor: the  *)
(* lease client adapters/supervision.py, its service calls, heartbeats and *)
(* snapshots on a wire that loses and delays them, the stop action of      *)
(* node.py, and both processes crashing and starting again.                *)
(*                                                                         *)
(* The Supervisor is MissionPermission, here with a file that can be read  *)
(* and written; the Runtime is reduced to what a lease depends on (see     *)
(* MissionRuntime): which mission it runs, whether it may move, and which  *)
(* mission's motion the robot still executes.  All clocks are local and    *)
(* monotonic and run at one rate.                                          *)
(***************************************************************************)
EXTENDS Naturals

CONSTANTS
    Mission, NoMission, LeaseId, LeaseTime, StopTimeout, MaxEpoch,
    NoLeaseId,          \* the empty lease id
    HeartbeatTimeout,   \* heartbeat_timeout of the client
    RequestTimeout,     \* request_timeout of the client
    Slots               \* bound: service requests on the wire at once

ASSUME ProtocolAssumption ==
    /\ NoMission \notin Mission /\ NoLeaseId \notin LeaseId
    /\ LeaseTime \in Nat \ {0} /\ StopTimeout \in Nat \ {0} /\ MaxEpoch \in Nat
    /\ HeartbeatTimeout \in Nat \ {0} /\ Slots \in Nat \ {0}
    /\ RequestTimeout \in 0 .. LeaseTime - 1

VARIABLES
    epoch, up, sup, handed,     \* the Supervisor
    cl,         \* the fields of RosSupervision
    requests,   \* service requests on the wire
    reply,      \* the answer to the request the client waits for
    beat,       \* the heartbeat on the wire, by epoch
    rt,         \* the Runtime: its mission, what it does, the missions it admitted
    mover,      \* the mission whose motion the robot still executes
    told        \* leases whose stopped result is on its way to the Supervisor

Supervisor == INSTANCE MissionPermission

supervisor == <<epoch, up, sup, handed>>
wire       == <<requests, reply, beat>>
vars       == <<epoch, up, sup, handed, cl, requests, reply, beat, rt, mover, told>>

Epoch == 1 .. MaxEpoch + 1      \* 0 is the empty epoch
MaybeMission == Mission \cup {NoMission}
MaybeLease   == LeaseId \cup {NoLeaseId}

Client  == [epoch : Epoch \cup {0}, fresh : 0 .. HeartbeatTimeout,  \* until it is stale
                mission : MaybeMission, lease : MaybeLease, leaseEpoch : Epoch \cup {0},
            left : 0 .. LeaseTime,      \* deadline - now
            waiting : BOOLEAN,          \* pending is not None
            call : 0 .. Slots,          \* the slot of the pending request; 0: it is lost
            waited : 0 .. LeaseTime,    \* now - pending_sent
            denied : BOOLEAN]
Request == [kind : {"none", "acquire", "renew", "release"}, mission : MaybeMission,
            lease : MaybeLease, epoch : Epoch \cup {0}]
Reply   == [there : BOOLEAN, granted : BOOLEAN, lease : MaybeLease, epoch : Epoch \cup {0}]
Runtime == [run : {"idle", "asking", "moving", "stopping", "revoked"},
            mission : MaybeMission, seen : SUBSET Mission]

NoRequest == [kind |-> "none", mission |-> NoMission, lease |-> NoLeaseId, epoch |-> 0]
NoReply   == [there |-> FALSE, granted |-> FALSE, lease |-> NoLeaseId, epoch |-> 0]
NoClient  == [epoch |-> 0, fresh |-> 0, mission |-> NoMission,
              lease |-> NoLeaseId, leaseEpoch |-> 0, left |-> 0, waiting |-> FALSE,
              call |-> 0, waited |-> 0, denied |-> FALSE]

-----------------------------------------------------------------------------
(* The lease client.                                                       *)

Alive(c) == c.epoch # 0 /\ c.fresh > 0
Valid(c) == c.lease # NoLeaseId /\ c.leaseEpoch = c.epoch /\ Alive(c) /\ c.left > 0

Authorization(c) ==
    IF Valid(c) THEN "GRANTED"
    ELSE IF c.denied \/ c.lease # NoLeaseId \/ c.mission = NoMission THEN "DENIED"
    ELSE "PENDING"

\* _clear: the pending request is forgotten, it may still be on the wire.
Cleared(c) == [c EXCEPT !.mission = NoMission, !.lease = NoLeaseId, !.leaseEpoch = 0,
                        !.left = 0, !.waiting = FALSE, !.call = 0, !.waited = 0,
                        !.denied = FALSE]

(* _send.  A side is the client and the requests on the wire; a request    *)
(* that finds no slot is lost.  Nobody waits for the answer to a release.  *)
Side(c, reqs) == [cl |-> c, requests |-> reqs]
Vacant(reqs)  == {n \in 1 .. Slots : reqs[n].kind = "none"}

Sent(side, kind) ==
    LET c == side.cl
        n == IF Vacant(side.requests) = {} THEN 0
             ELSE CHOOSE k \in Vacant(side.requests) : TRUE
        r == [kind |-> kind, mission |-> c.mission, lease |-> c.lease, epoch |-> c.epoch]
    IN  Side(IF kind = "release" THEN c
             ELSE [c EXCEPT !.waiting = TRUE, !.call = n, !.waited = 0],
             IF n = 0 THEN side.requests ELSE [side.requests EXCEPT ![n] = r])

\* What maintain() has to send once a request that timed out is dropped.
Dropped(c) == IF c.waiting /\ c.waited > RequestTimeout
              THEN [c EXCEPT !.waiting = FALSE, !.call = 0, !.waited = 0] ELSE c
RenewDue(c) == Valid(c) /\ 3 * c.left <= 2 * LeaseTime

Needed(c) ==
    IF c.mission = NoMission \/ c.waiting \/ c.denied THEN "none"
    ELSE IF c.lease = NoLeaseId THEN "acquire"
    ELSE IF RenewDue(c) THEN "renew" ELSE "none"

Maintained(side, ready) ==
    LET c == Dropped(side.cl)
    IN  IF Needed(c) = "none" \/ ~ready \/ c.epoch = 0 THEN Side(c, side.requests)
        ELSE Sent(Side(c, side.requests), Needed(c))

Acquiring(side, m, ready) ==
    LET c == [Cleared(side.cl) EXCEPT !.mission = m]
    IN  IF ready /\ c.epoch # 0 THEN Sent(Side(c, side.requests), "acquire")
        ELSE Side(c, side.requests)

Released(side, ready) ==
    LET s == IF Valid(side.cl) /\ ready THEN Sent(side, "release") ELSE side
    IN  Side(Cleared(s.cl), s.requests)

Abandoned(side) == Side(Cleared(side.cl), side.requests)

\* A new epoch invalidates the lease of the old one; a heartbeat of the same one is fresh.
Heartbeat ==
    /\ beat # 0
    /\ cl' = IF beat = cl.epoch THEN [cl EXCEPT !.fresh = HeartbeatTimeout]
             ELSE [cl EXCEPT !.epoch = beat, !.left = 0,
                             !.fresh = HeartbeatTimeout]
    /\ beat' = 0
    /\ UNCHANGED <<supervisor, requests, reply, rt, mover, told>>

(* _state: a snapshot of the client's epoch lists its lease as not granted. *)
(* A lease that has ended stays so, hence a late snapshot says nothing that *)
(* one of now would not say; of another epoch it is ignored.  The operating *)
(* state of a snapshot only refuses missions, at any age: see Offer.        *)
Snapshot ==
    /\ cl.lease # NoLeaseId /\ cl.epoch = epoch + 1
    /\ sup.lease[cl.lease].st \in {"revoked", "stopped"}
    /\ cl' = [cl EXCEPT !.left = 0, !.denied = TRUE]
    /\ UNCHANGED <<supervisor, wire, rt, mover, told>>

\* Mutant of Replied: a late renewal is taken like a timely one, and its time starts
\* when the answer arrives.
RepliedOnArrival(c, a) ==
    IF ~a.granted \/ a.epoch # c.epoch THEN [c EXCEPT !.denied = TRUE, !.left = 0]
    ELSE [c EXCEPT !.lease = a.lease, !.leaseEpoch = a.epoch, !.left = LeaseTime]

\* Mutant of Replied: a renewal adds to the time that is left.
RepliedOnTop(c, a) ==
    IF ~a.granted \/ a.epoch # c.epoch THEN [c EXCEPT !.denied = TRUE, !.left = 0]
    ELSE [c EXCEPT !.lease = a.lease, !.leaseEpoch = a.epoch, !.left = @ + LeaseTime - c.waited]

\* What _reply makes of an answer: a renewal that comes after the deadline is too late,
\* and the lease counts from the moment the request was sent.
Replied(c, a) ==
    IF ~a.granted \/ a.epoch # c.epoch THEN [c EXCEPT !.denied = TRUE, !.left = 0]
    ELSE IF c.lease # NoLeaseId /\ c.left = 0 THEN c
    ELSE [c EXCEPT !.lease = a.lease, !.leaseEpoch = a.epoch, !.left = LeaseTime - c.waited]

ReceiveReply ==
    /\ reply.there
    /\ cl' = [Replied(cl, reply) EXCEPT !.waiting = FALSE, !.call = 0,
                                     !.waited = 0]
    /\ reply' = NoReply
    /\ UNCHANGED <<supervisor, requests, beat, rt, mover, told>>

-----------------------------------------------------------------------------
(* The Runtime.                                                            *)

\* The side's fields; an answer nobody waits for any more changes nothing on arrival.
Becomes(side) ==
    /\ cl' = side.cl /\ requests' = side.requests
    /\ reply' = IF side.cl.waiting /\ cl.waiting /\ Dropped(cl) = cl THEN reply ELSE NoReply

\* offer: readiness asks that the Supervisor is alive and that everything stands still;
\* whether the last snapshots admit a mission is the environment's choice.
Offer(m) ==
    /\ rt.run = "idle" /\ m \notin rt.seen /\ mover = NoMission
    /\ Alive(cl) /\ cl.mission = NoMission
    /\ \E ready \in BOOLEAN : Becomes(Acquiring(Side(cl, requests), m, ready))
    /\ rt' = [run |-> "asking", mission |-> m, seen |-> rt.seen \cup {m}]
    /\ UNCHANGED <<supervisor, beat, mover, told>>

Idle == [rt EXCEPT !.run = "idle", !.mission = NoMission]

\* _finish: only a confirmed stop returns the lease.
Finished(side, ready) == IF mover = NoMission THEN Released(side, ready) ELSE Abandoned(side)

(* tick(): maintain() first, then the authorization gate of an active      *)
(* state, then the state itself.  waiting may run out at any tick, a drive *)
(* or desk operation may begin, end or fail, and so may a stop.            *)
TickActive ==
    /\ rt.run \in {"asking", "moving"}
    /\ \E ready \in BOOLEAN :
          LET side   == Maintained(Side(cl, requests), ready)
              answer == Authorization(side.cl)
          IN  \/ /\ answer = "GRANTED"              \* a motion begins, or goes on
                 /\ mover' \in {rt.mission, mover}
                 /\ rt' = [rt EXCEPT !.run = "moving"]
                 /\ Becomes(side)
              \/ /\ answer = "GRANTED"              \* an operation failed
                 /\ rt' = [rt EXCEPT !.run = "stopping"]
                 /\ Becomes(side) /\ UNCHANGED mover
              \/ /\ answer = "GRANTED" /\ mover = NoMission /\ rt.run = "moving"
                 /\ rt' = Idle                      \* the mission is complete
                 /\ Becomes(Finished(side, ready)) /\ UNCHANGED mover
              \/ /\ answer = "PENDING" /\ rt.run = "asking"
                 /\ Becomes(side) /\ UNCHANGED <<rt, mover>>
              \/ /\ answer # "GRANTED"              \* _revoke
                 /\ rt' = [rt EXCEPT !.run = "revoked"]
                 /\ Becomes(side) /\ UNCHANGED mover
    /\ UNCHANGED <<supervisor, beat, told>>

TickStopping ==
    /\ rt.run \in {"stopping", "revoked"}
    /\ \E ready \in BOOLEAN :
          LET side == Maintained(Side(cl, requests), ready)
          IN  \/ /\ rt' = rt /\ Becomes(side)
              \/ /\ mover = NoMission /\ rt.run = "stopping"       \* return_after_cancel
                 /\ rt' = [rt EXCEPT !.run = "moving"] /\ Becomes(side)
              \/ /\ rt' = Idle                      \* stopped, or cancel_timeout is over
                 /\ Becomes(Finished(side, ready))
    /\ UNCHANGED <<supervisor, beat, mover, told>>

\* cancel(): an operator stops the mission.
Cancel ==
    /\ rt.run \in {"asking", "moving"}
    /\ rt' = [rt EXCEPT !.run = "stopping"]
    /\ UNCHANGED <<supervisor, cl, wire, mover, told>>

\* The robot comes to rest.
MotionEnds ==
    /\ mover # NoMission /\ mover' = NoMission
    /\ UNCHANGED <<supervisor, cl, wire, rt, told>>

Answered(l, answer) == sup' = [sup EXCEPT !.lease[l].call = answer]

(* _stop_goal and supervisor_stop: the goal of a mission that is not       *)
(* running is accepted when nothing runs, and refused when another mission *)
(* does.  The call of a lease is the Supervisor's view of its goal.        *)
StopGoal(l) ==
    /\ up /\ sup.lease[l].call = "RUNNING"
    /\ LET mine == rt.mission = sup.lease[l].mission
       IN  /\ Answered(l, IF rt.run = "idle" \/ mine THEN "ACCEPTED" ELSE "FAILED")
           /\ rt' = IF mine /\ rt.run \in {"asking", "moving"}
                    THEN [rt EXCEPT !.run = "revoked"] ELSE rt
    /\ UNCHANGED <<epoch, up, handed, cl, wire, mover, told>>

\* Mutant of StopConfirmed: an idle Runtime answers without looking at its parts.
StopConfirmedWhenIdle(l) ==
    /\ up /\ sup.lease[l].call = "ACCEPTED" /\ l \notin told
    /\ rt.run = "idle"
    /\ told' = told \cup {l}
    /\ UNCHANGED <<supervisor, cl, wire, rt, mover>>

\* _stop_mission: a stop is confirmed by evidence only; the result takes its time.
StopConfirmed(l) ==
    /\ up /\ sup.lease[l].call = "ACCEPTED" /\ l \notin told
    /\ rt.run = "idle" /\ mover = NoMission
    /\ told' = told \cup {l}
    /\ UNCHANGED <<supervisor, cl, wire, rt, mover>>

\* _stop_mission is over its deadline.
StopFailed(l) ==
    /\ up /\ sup.lease[l].call = "ACCEPTED" /\ l \notin told
    /\ Answered(l, "FAILED")
    /\ UNCHANGED <<epoch, up, handed, cl, wire, rt, mover, told>>

(* The Runtime's process dies and starts again: its mission is interrupted *)
(* in ERROR, its goals are never answered, the robot may keep moving.      *)
RuntimeCrash ==
    /\ cl' = NoClient /\ reply' = NoReply
    /\ rt' = Idle
    /\ sup' = [sup EXCEPT !.lease = [l \in LeaseId |->
                  IF sup.lease[l].call \in {"RUNNING", "ACCEPTED"} /\ l \notin told
                  THEN [sup.lease[l] EXCEPT !.call = "UNKNOWN"] ELSE sup.lease[l]]]
    /\ <<cl, rt, sup>> # <<cl', rt', sup'>>
    /\ UNCHANGED <<epoch, up, handed, requests, beat, mover, told>>

-----------------------------------------------------------------------------
(* The Supervisor.                                                         *)

\* Inputs of a handler: the health of the robot and whether the stop server is there.
Inputs == [healthy : BOOLEAN, reachable : BOOLEAN, saves : {TRUE}, old : {{}}]

\* The node's timer: tick(), then the heartbeat.
SupervisorTick ==
    /\ up
    /\ \E in \in Inputs : sup' = Supervisor!Ticked(sup, in)
    /\ beat' = epoch + 1
    /\ UNCHANGED <<epoch, up, handed, cl, requests, reply, rt, mover, told>>

\* check(): the lease a request is granted after the handler's tick left s, if any.
Grantable(s, healthy, r) ==
    IF r.epoch # epoch + 1 \/ ~Supervisor!Operable(s, healthy) THEN {}
    ELSE IF r.kind = "acquire"
         THEN {l \in LeaseId : s.lease[l].st = "free" /\ Supervisor!Vacant(s, r.mission)}
    ELSE {l \in LeaseId : l = r.lease /\ s.lease[l].st = "granted" /\ s.lease[l].left > 0}

Answer(n, granted, l) ==
    /\ requests' = [requests EXCEPT ![n] = NoRequest]
    /\ reply' = IF cl.waiting /\ cl.call = n
                THEN [there |-> TRUE, granted |-> granted, lease |-> l, epoch |-> epoch + 1]
                ELSE reply

\* _check_permission of the node for the request in slot n.
Serve(n) ==
    /\ up /\ requests[n].kind # "none"
    /\ \E in \in Inputs :
          LET r == requests[n]
              s == Supervisor!Ticked(sup, in)
              could == Grantable(s, in.healthy, r)
          IN  IF r.kind = "release"
              THEN /\ sup' = IF r.epoch = epoch + 1 /\ s.lease[r.lease].st = "granted"
                             THEN Supervisor!Persist([s EXCEPT !.lease[r.lease] =
                                                        Supervisor!NoLease("stopped")], TRUE)
                             ELSE s
                   /\ Answer(n, FALSE, NoLeaseId)
                   /\ UNCHANGED handed
              ELSE IF could = {}
              THEN /\ sup' = s
                   /\ Answer(n, FALSE, NoLeaseId)
                   /\ UNCHANGED handed
              ELSE \E l \in could :
                   /\ sup' = Supervisor!Persist(
                                Supervisor!Granted(s, l, r.mission), TRUE)
                   /\ handed' = handed \cup {l}
                   /\ Answer(n, TRUE, l)
    /\ UNCHANGED <<epoch, up, cl, beat, rt, mover, told>>

\* ActionCalls._result: a stopped result arrives.
StopResult(l) ==
    /\ up /\ l \in told
    /\ Answered(l, "STOPPED")
    /\ told' = told \ {l}
    /\ UNCHANGED <<epoch, up, handed, cl, wire, rt, mover>>

\* request_fault_reset: the same stop is asked again, an open call is replaced.
AskAgain(l) ==
    /\ l \in sup.stopFaults
    /\ Supervisor!ResetStopFault(l)
    /\ told' = told \ {l}
    /\ UNCHANGED <<cl, wire, rt, mover>>

SupervisorCrash ==
    /\ Supervisor!Crash
    /\ UNCHANGED <<cl, wire, rt, mover, told>>

\* The new process waits for no goal of the old one and publishes nothing before its tick.
SupervisorRestart ==
    /\ ~up /\ up' = TRUE
    /\ epoch' = epoch + 1
    /\ sup' = Supervisor!Start(TRUE)
    /\ told' = {}
    /\ UNCHANGED <<handed, cl, wire, rt, mover>>

-----------------------------------------------------------------------------
(* The wire and the clocks.                                                *)

(* A request is lost.  One that somebody waits for, or an answer, is lost  *)
(* by being late for ever.                                                 *)
LoseRequest(n) ==
    /\ requests[n].kind # "none" /\ ~(cl.waiting /\ cl.call = n)
    /\ requests' = [requests EXCEPT ![n] = NoRequest]
    /\ UNCHANGED <<supervisor, cl, reply, beat, rt, mover, told>>

Sooner(n) == IF n > 0 THEN n - 1 ELSE 0

Elapse ==
    /\ sup' = IF up THEN Supervisor!Older(sup) ELSE sup
    /\ cl' = [cl EXCEPT !.left = Sooner(@), !.fresh = Sooner(@),
                        !.waited = IF cl.waiting /\ @ < LeaseTime THEN @ + 1 ELSE @]
    /\ <<sup, cl>> # <<sup', cl'>>
    /\ UNCHANGED <<epoch, up, handed, wire, rt, mover, told>>

-----------------------------------------------------------------------------
Init ==
    /\ Supervisor!Init
    /\ cl = NoClient
    /\ requests = [n \in 1 .. Slots |-> NoRequest] /\ reply = NoReply
    /\ beat = 0
    /\ rt = [run |-> "idle", mission |-> NoMission, seen |-> {}]
    /\ mover = NoMission
    /\ told = {}

ClientSteps  == Heartbeat \/ Snapshot \/ ReceiveReply
RuntimeSteps == \/ \E m \in Mission : Offer(m)
                \/ TickActive \/ TickStopping \/ Cancel \/ MotionEnds \/ RuntimeCrash
                \/ \E l \in LeaseId : StopGoal(l) \/ StopConfirmed(l) \/ StopFailed(l)
SupervisorSteps == \/ SupervisorTick \/ SupervisorCrash \/ SupervisorRestart
                   \/ \E n \in 1 .. Slots : Serve(n)
                   \/ \E l \in LeaseId : StopResult(l) \/ AskAgain(l)
WireSteps    == \E n \in 1 .. Slots : LoseRequest(n)

Next == ClientSteps \/ RuntimeSteps \/ SupervisorSteps \/ WireSteps \/ Elapse

Spec == Init /\ [][Next]_vars

-----------------------------------------------------------------------------
(* Properties.                                                             *)

\* The fields of RosSupervision, of its messages and of the Runtime keep their types.
TypeOK ==
    /\ Supervisor!TypeOK
    /\ cl \in Client /\ requests \in [1 .. Slots -> Request] /\ reply \in Reply
    /\ beat \in Epoch \cup {0}
    /\ rt \in Runtime /\ mover \in MaybeMission /\ told \subseteq LeaseId

\* While the robot executes a motion of a mission, the Supervisor has an unconfirmed
\* lease of that mission, in memory and in its file: nobody takes the mission for
\* stopped, also after lost calls, an abandoned mission or a crash of either process.
MotionIsCovered ==
    mover # NoMission =>
        \E l \in Supervisor!Unconfirmed(sup) :
            sup.lease[l].mission = mover /\ l \in Supervisor!Saved(sup.disk)

\* A lease the client acts on is unconfirmed at the Supervisor and belongs to the client's
\* mission, and its time ends no later here than there, also after the Supervisor has
\* revoked it: delays and losses only shorten an authority (_reply, check).
ClientWithinSupervisor ==
    Valid(cl) =>
        LET lease == sup.lease[cl.lease]
        IN  /\ cl.lease \in Supervisor!Unconfirmed(sup)
            /\ lease.mission = cl.mission
            /\ up /\ cl.leaseEpoch = epoch + 1 => cl.left <= lease.left
=============================================================================
