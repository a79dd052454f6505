---------------------------- MODULE ControlBridge ----------------------------
(***************************************************************************)
(* The control bridge between the Backend's WebSocket and the services of  *)
(* the Mission Runtime: the worker of node.py and the outbox of            *)
(* session.py.                                                             *)
(*                                                                         *)
(* The worker waits for one call at a time.  A call that times out, or     *)
(* that the bridge dies in, may still be served later; calls of one        *)
(* service are served in order.  Any exception ends the connection, and a  *)
(* new one starts with a snapshot.  The Backend sends any command at any   *)
(* time, again with the same event id, and acknowledges what it got.       *)
(*                                                                         *)
(* The Runtime is what its services show (MissionRuntime): a mission runs, *)
(* is being cancelled or is over; whether it is ready for a new one is the *)
(* environment's choice.  "cancelling" is the stop of a mission, for       *)
(* whatever reason, with the drive home that may follow it; "working" is   *)
(* every phase before.  An offer has contents, which the Runtime compares  *)
(* with those it has admitted under the same id.  Heartbeats, other        *)
(* payloads and sequence numbers are left out, and the bound of 100        *)
(* reports in a snapshot.                                                  *)
(***************************************************************************)
EXTENDS Naturals, FiniteSets

CONSTANTS
    Mission,
    Request,        \* what a mission may be offered with: its target, its requester
    None,           \* no command, no answer
    MaxDeferred     \* commands kept until the snapshot is acknowledged (8 in the code)

ASSUME DeferredAssumption == MaxDeferred \in Nat
ASSUME NoneAssumption ==
    None \notin Request \cup {"served", "lost", "accepted", "rejected", "conflict", "finished",
                              "refused"}

VARIABLES
    state,          \* the missions at the Runtime
    admitted,       \* what its journal has of each, or None
    late,           \* commands whose call was given up, and may be served yet
    told,           \* durable: the events in the outbox, <<mission, kind>>
    pending,        \* durable: those that are not acknowledged
    applied,        \* durable: commands that are done
    link,           \* "down" (the process), "offline" or "online"
    call,           \* the call the worker waits for
    synced,         \* the snapshot of this connection is acknowledged
    deferred,       \* commands that wait for it
    snap,           \* outcomes in the snapshot that was sent last
    sent,           \* events sent on this connection and not acknowledged
    known           \* outcomes the Backend has acknowledged

missions == <<state, admitted>>
runtime  == <<missions, late>>
durable  == <<told, pending, applied>>
worker   == <<link, call, synced, deferred, snap, sent>>
vars     == <<runtime, durable, worker, known>>

Command == ({"offer"} \X Mission \X Request) \cup ({"cancel"} \X Mission \X {None})
Active  == {"working", "cancelling"}
Answer  == {"accepted", "rejected", "conflict", "finished", "refused"}
\* "rejected" and "conflict" are mission.rejected; the second has MISSION_ID_CONFLICT in it.
Kind    == Active \cup {"rejected", "conflict", "accepted", "result"}

NoMissions == [m \in Mission |-> "unknown"]
\* A call has no answer yet (None), an answer, or none to come ("lost").
Call(kind, why, cmd, answer, seen) ==
    [kind |-> kind, why |-> why, cmd |-> cmd, answer |-> answer, seen |-> seen]

NoCall == Call("none", "none", None, None, NoMissions)

Ask(kind, why, cmd) == Call(kind, why, cmd, None, NoMissions)

Results(events) == {m \in Mission : <<m, "result">> \in events}

Init ==
    /\ state = NoMissions /\ admitted = [m \in Mission |-> None] /\ late = {}
    /\ told = {} /\ pending = {} /\ applied = {}
    /\ link = "offline" /\ call = NoCall /\ synced = FALSE /\ deferred = {}
    /\ snap = {} /\ sent = {}
    /\ known = {}

-----------------------------------------------------------------------------
(* The outbox: an event and its mark in the metadata are one transaction.  *)

Phases(snapshot) == {<<m, snapshot[m]>> : m \in {n \in Mission : snapshot[n] \in Active}}

\* observe, accepted and result: what a snapshot tells.  A phase is compared with the one
\* told last and is told again when it returns; the others are told when they are new.
News(snapshot, again) ==
    again \cup ((Phases(snapshot) \cup {<<e[1], "accepted">> : e \in Phases(snapshot)}
                \cup {<<m, "result">> : m \in {n \in Mission : snapshot[n] = "over"}}) \ told)

\* An event that is told once more is a new one, which has not been sent.
Enqueue(events) == told' = told \cup events /\ pending' = pending \cup events

-----------------------------------------------------------------------------
(* The worker.                                                             *)

\* An exception or the end of the connection.  What is left of it is not read again.
Closed(to) ==
    /\ link' = to /\ call' = NoCall
    /\ synced' = FALSE /\ deferred' = {} /\ snap' = {} /\ sent' = {}

\* A call without an answer may still be on its way to its service.
Abandoned ==
    late' \in {late, late \cup IF call.kind \in {"offer", "cancel"} /\ call.answer = None
                               THEN {call.cmd} ELSE {}}

\* Mutant of Timeout: an offer without an answer is taken for a rejected one.
TimeoutRejects ==
    /\ call # NoCall
    /\ Abandoned
    /\ IF call.kind = "offer" THEN Enqueue({<<call.cmd[2], "rejected">>})
       ELSE UNCHANGED <<told, pending>>
    /\ Closed("offline")
    /\ UNCHANGED <<missions, applied, known>>

\* _rpc raises: whether the call was served is not known.
Timeout ==
    /\ call # NoCall
    /\ Abandoned
    /\ Closed("offline")
    /\ UNCHANGED <<missions, durable, known>>

Connect ==
    /\ link = "offline" /\ call = NoCall
    /\ call' = Ask("snapshot", "connect", None)
    /\ UNCHANGED <<runtime, durable, link, synced, deferred, snap, sent, known>>

\* Commands that were deferred are executed before anything else is read or sent.
Draining == synced /\ deferred # {}
Reading  == link = "online" /\ call = NoCall /\ ~Draining

Heartbeat ==
    /\ Reading
    /\ call' = Ask("snapshot", "beat", None)
    /\ UNCHANGED <<runtime, durable, link, synced, deferred, snap, sent, known>>

SyncRequest ==
    /\ Reading
    /\ call' = Ask("snapshot", "sync", None)
    /\ UNCHANGED <<runtime, durable, link, synced, deferred, snap, sent, known>>

\* _send_snapshot: nothing but commands of the Backend is believed until it is acknowledged.
SendSnapshot == synced' = FALSE /\ snap' = Results(told')

\* pending(): everything that is not acknowledged is sent again.
Outstanding(news) == pending \cup news

\* The answer to _observe, and what follows.  A connection may fail to open, sending may
\* fail, and an unacknowledged snapshot may be too old at a heartbeat.
Observed ==
    /\ call.kind = "snapshot" /\ call.answer = "served"
    /\ \E again \in SUBSET Phases(call.seen) :
       LET news == News(call.seen, again)
       IN  /\ Enqueue(news)
           /\ \/ /\ call.why = "connect"
                 /\ link' = "online" /\ call' = NoCall
                 /\ deferred' = {} /\ sent' = {} /\ SendSnapshot
                 /\ UNCHANGED applied
              \/ /\ call.why = "beat" /\ synced
                 /\ sent' = Outstanding(news) /\ SendSnapshot
                 /\ call' = NoCall
                 /\ UNCHANGED <<link, deferred, applied>>
              \/ /\ call.why = "beat" /\ ~synced
                 /\ call' = NoCall /\ sent' = sent \ news
                 /\ UNCHANGED <<link, synced, deferred, snap, applied>>
              \/ /\ call.why = "sync"
                 /\ SendSnapshot /\ call' = NoCall /\ sent' = sent \ news
                 /\ UNCHANGED <<link, deferred, applied>>
              \/ /\ call.why = "command"
                 /\ applied' = applied \cup {call.cmd} /\ call' = NoCall
                 /\ sent' = sent \ news
                 /\ UNCHANGED <<link, synced, deferred, snap>>
              \/ /\ Closed("offline")
                 /\ applied' = applied \cup IF call.why = "command" THEN {call.cmd} ELSE {}
    /\ UNCHANGED <<runtime, known>>

Executing(c) == call' = Ask(c[1], "command", c)

\* Mutant of Receive: commands are kept without a limit.
ReceiveAny(c) ==
    /\ Reading /\ c \notin applied
    /\ \/ synced /\ Executing(c) /\ UNCHANGED <<link, synced, deferred, snap, sent>>
       \/ ~synced /\ deferred' = deferred \cup {c}
          /\ UNCHANGED <<link, call, synced, snap, sent>>
    /\ UNCHANGED <<runtime, durable, known>>

\* _command for a mission command that is not done yet.
Receive(c) ==
    /\ Reading /\ c \notin applied
    /\ \/ synced /\ Executing(c) /\ UNCHANGED <<link, synced, deferred, snap, sent>>
       \/ /\ ~synced /\ Cardinality(deferred) < MaxDeferred
          /\ deferred' = deferred \cup {c}
          /\ UNCHANGED <<link, call, synced, snap, sent>>
       \/ ~synced /\ Cardinality(deferred) >= MaxDeferred /\ Closed("offline")
    /\ UNCHANGED <<runtime, durable, known>>

Drain ==
    /\ link = "online" /\ call = NoCall /\ Draining
    /\ \E c \in deferred :
          /\ deferred' = deferred \ {c}
          /\ IF c \in applied THEN UNCHANGED call ELSE Executing(c)
    /\ UNCHANGED <<runtime, durable, link, synced, snap, sent, known>>

\* What an answered offer tells, and the snapshot that every executed command ends with.
Tells(cmd, answer) ==
    IF answer \in {"rejected", "conflict"} THEN {<<cmd[2], answer>>}
    ELSE {<<cmd[2], IF answer = "accepted" THEN "accepted" ELSE "result">>} \ told

OfferAnswered ==
    /\ call.kind = "offer" /\ call.answer \in Answer
    /\ LET events == Tells(call.cmd, call.answer)
       IN  Enqueue(events) /\ sent' = sent \ events
    /\ call' = Ask("snapshot", "command", call.cmd)
    /\ UNCHANGED <<runtime, applied, link, synced, deferred, snap, known>>

\* A cancellation that the Runtime refuses is an exception, and never acknowledged.
CancelAnswered ==
    /\ call.kind = "cancel"
    /\ \/ /\ call.answer = "accepted"
          /\ call' = Ask("snapshot", "command", call.cmd)
          /\ UNCHANGED <<link, synced, deferred, snap, sent>>
       \/ call.answer = "refused" /\ Closed("offline")
    /\ UNCHANGED <<runtime, durable, known>>

SnapshotAck ==
    /\ Reading /\ ~synced
    /\ synced' = TRUE /\ known' = known \cup snap
    /\ UNCHANGED <<runtime, durable, link, call, deferred, snap, sent>>

EventAck(e) ==
    /\ Reading /\ e \in sent
    /\ sent' = sent \ {e} /\ pending' = pending \ {e}
    /\ known' = known \cup Results({e})
    /\ UNCHANGED <<runtime, told, applied, link, call, synced, deferred, snap>>

\* The socket fails, or the Backend reports a conflict.
Disconnect ==
    /\ Reading
    /\ Closed("offline")
    /\ UNCHANGED <<runtime, durable, known>>

\* A snapshot is told in several transactions; the process may end between two.
Partly ==
    \E events \in SUBSET (IF call.kind = "snapshot" /\ call.answer = "served"
                          THEN News(call.seen, Phases(call.seen)) ELSE {}) :
        /\ \A e \in events : e[2] \in Active => <<e[1], "accepted">> \in told \cup events
        /\ Enqueue(events)

Crash ==
    /\ link # "down"
    /\ Partly /\ Abandoned /\ Closed("down")
    /\ UNCHANGED <<missions, applied, known>>

Restart ==
    /\ link = "down" /\ link' = "offline"
    /\ UNCHANGED <<runtime, durable, call, synced, deferred, snap, sent, known>>

-----------------------------------------------------------------------------
(* The Runtime's services.                                                 *)

Answered(answer, seen) == Call(call.kind, call.why, call.cmd, answer, seen)

Busy == \E m \in Mission : state[m] \in Active

Becomes(m, new) == state' = [state EXCEPT ![m] = new]

\* offer of MissionRuntime: a known mission is compared with what was admitted, a new one
\* is admitted or, when the Runtime is not ready for it, rejected.
DecideOffer(m, content, answer) ==
    IF state[m] # "unknown"
    THEN /\ answer = IF admitted[m] # content THEN "conflict"
                     ELSE IF state[m] = "over" THEN "finished" ELSE "accepted"
         /\ UNCHANGED missions
    ELSE \/ answer = "rejected" /\ UNCHANGED missions
         \/ /\ answer = "accepted" /\ ~Busy
            /\ Becomes(m, "working") /\ admitted' = [admitted EXCEPT ![m] = content]

\* cancel of MissionRuntime.
DecideCancel(m, answer) ==
    /\ answer = IF state[m] = "unknown" THEN "refused" ELSE "accepted"
    /\ IF state[m] = "working" THEN Becomes(m, "cancelling") ELSE UNCHANGED state
    /\ UNCHANGED admitted

\* What a command is answered, and what it does.
Decide(c, answer) ==
    \/ c[1] = "offer" /\ DecideOffer(c[2], c[3], answer)
    \/ c[1] = "cancel" /\ DecideCancel(c[2], answer)

\* Calls of one service are served in order.
Earlier(kind) == {c \in late : c[1] = kind}

ServeSnapshot ==
    /\ call.kind = "snapshot" /\ call.answer = None
    /\ call' = Answered("served", state)
    /\ UNCHANGED <<runtime, durable, link, synced, deferred, snap, sent, known>>

ServeCommand ==
    /\ call.kind \in {"offer", "cancel"} /\ call.answer = None
    /\ Earlier(call.kind) = {}
    /\ \E answer \in Answer :
          /\ Decide(call.cmd, answer)
          /\ call' = Answered(answer, call.seen)
    /\ UNCHANGED <<late, durable, link, synced, deferred, snap, sent, known>>

\* A command that was given up twice is served twice.
ServeLate(c) ==
    /\ c \in late /\ late' \in {late, late \ {c}}
    /\ \E answer \in Answer : Decide(c, answer)
    /\ UNCHANGED <<durable, worker, known>>

\* _begin_stop for a reason of the Runtime's own: a fault, a timeout, a lost lease.
Stop(m) ==
    /\ state[m] = "working" /\ Becomes(m, "cancelling")
    /\ UNCHANGED <<admitted, late, durable, worker, known>>

Finish(m) ==
    /\ state[m] \in Active /\ Becomes(m, "over")
    /\ UNCHANGED <<admitted, late, durable, worker, known>>

\* The Runtime dies and starts again: its mission is interrupted, its calls are lost.
RuntimeRestart ==
    /\ state' = [m \in Mission |-> IF state[m] \in Active THEN "over" ELSE state[m]]
    /\ late' = {}
    /\ call' = IF call # NoCall /\ call.answer = None THEN Answered("lost", call.seen)
               ELSE call
    /\ UNCHANGED <<admitted, durable, link, synced, deferred, snap, sent, known>>

-----------------------------------------------------------------------------
Worker  == \/ Connect \/ Observed \/ Heartbeat \/ SyncRequest \/ Drain
           \/ OfferAnswered \/ CancelAnswered \/ Timeout \/ Disconnect \/ Crash \/ Restart
Backend == SnapshotAck \/ (\E c \in Command : Receive(c)) \/ (\E e \in sent : EventAck(e))
Runtime == \/ ServeSnapshot \/ ServeCommand \/ RuntimeRestart
           \/ \E c \in Command : ServeLate(c)
           \/ \E m \in Mission : Stop(m) \/ Finish(m)

Next == Worker \/ Backend \/ Runtime

Spec == Init /\ [][Next]_vars
-----------------------------------------------------------------------------
(* Properties.                                                             *)

CallType ==
    [kind : {"none", "offer", "cancel", "snapshot"},
     why : {"none", "connect", "beat", "sync", "command"}, cmd : Command \cup {None},
     answer : Answer \cup {None, "served", "lost"},
     seen : [Mission -> {"unknown", "over"} \cup Active]]

\* The types, and what ties the worker's fields: only a connection is synchronised or has
\* sent anything, and at most MaxDeferred commands wait.
TypeOK ==
    /\ state \in [Mission -> {"unknown", "over"} \cup Active] /\ late \subseteq Command
    /\ admitted \in [Mission -> Request \cup {None}]
    /\ told \subseteq Mission \X Kind /\ pending \subseteq told /\ applied \subseteq Command
    /\ link \in {"down", "offline", "online"} /\ call \in CallType
    /\ synced \in BOOLEAN /\ deferred \subseteq Command /\ snap \subseteq Mission
    /\ sent \subseteq pending /\ known \subseteq Mission
    /\ link # "online" => ~synced /\ deferred = {} /\ sent = {}
    /\ Cardinality(deferred) <= MaxDeferred

(* The contract of BridgeContract.  No timeout is told as a rejection, no    *)
(* event but a conflict comes after a mission's outcome, none before its     *)
(* acceptance, and acceptance and outcome are not told again; an applied     *)
(* offer is the one the Runtime has admitted, or its refusal is in the       *)
(* outbox; a mission whose cancellation was applied neither starts nor goes  *)
(* on with its task.                                                         *)
Contract == INSTANCE BridgeContract
ContractIsKept == Contract!Spec
=============================================================================
