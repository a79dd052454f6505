------------------------- MODULE ControlBridgeProof -------------------------
(***************************************************************************)
(* Theorems about ControlBridge: for every set of missions and of what     *)
(* they may be offered with, and every limit of deferred commands, the     *)
(* worker keeps its types and its limit, and implements BridgeContract.    *)
(***************************************************************************)
EXTENDS ControlBridge, FiniteSetTheorems, TLAPS

RuntimeState == {"unknown", "over"} \cup Active

\* The journal has the contents of the missions the Runtime knows.
AdmitInv == \A m \in Mission : admitted[m] = None <=> state[m] = "unknown"

\* What was told is still so.
ToldInv ==
    \A m \in Mission :
        /\ <<m, "result">> \in told => state[m] = "over"
        /\ <<m, "accepted">> \in told => state[m] # "unknown"

\* What a snapshot shows has not been undone, and no outcome was told behind it.
SeenInv ==
    \A m \in Mission :
        /\ call.seen[m] # "unknown" => state[m] # "unknown"
        /\ call.seen[m] = "over" => state[m] = "over"
        /\ call.seen[m] \in Active => <<m, "result">> \notin told

\* The answer to an offer stays true until it is told: a late offer cannot follow the
\* one that was answered.
OfferInv ==
    call.kind = "offer" /\ call.answer \in Answer =>
        /\ \A c \in late : c[1] # "offer"
        /\ call.answer # "refused"
        /\ call.answer = "rejected" => state[call.cmd[2]] = "unknown"
        /\ call.answer = "conflict" => state[call.cmd[2]] # "unknown"
        /\ call.answer \in {"accepted", "finished"} => admitted[call.cmd[2]] = call.cmd[3]
        /\ call.answer = "accepted" => /\ state[call.cmd[2]] # "unknown"
                                       /\ <<call.cmd[2], "result">> \notin told
        /\ call.answer = "finished" => state[call.cmd[2]] = "over"

\* A command that only waits for its snapshot has been decided.
CommandInv ==
    /\ call.kind \in {"offer", "cancel"} => call.cmd \in Command /\ call.cmd[1] = call.kind
    /\ call.kind = "cancel" /\ call.answer = "accepted" =>
          state[call.cmd[2]] \in {"cancelling", "over"}
    /\ call.kind = "snapshot" /\ call.why = "command" =>
          call.cmd \in Command /\ Contract!Applicable(call.cmd)

\* The Backend can only acknowledge outcomes that are in the outbox.
KnownInv == known \subseteq Results(told) /\ snap \subseteq Results(told)

Inv == /\ TypeOK /\ IsFiniteSet(deferred)
       /\ AdmitInv /\ ToldInv /\ SeenInv /\ OfferInv /\ CommandInv /\ KnownInv

\* A mission only moves onward, and what it was admitted with is chosen once.
Moved ==
    \A m \in Mission :
        /\ state'[m] = state[m] \/ <<state[m], state'[m]>> \in Contract!Onward
        /\ admitted'[m] = admitted[m] \/ (state[m] = "unknown" /\ state'[m] = "working")

MissionTypes ==
    /\ state \in [Mission -> RuntimeState]
    /\ admitted \in [Mission -> Request \cup {None}]

-----------------------------------------------------------------------------
(* The Runtime's answers and the steps of its missions.                    *)

LEMMA OfferEffect ==
    ASSUME MissionTypes, AdmitInv, NEW m \in Mission, NEW content \in Request, NEW answer,
           DecideOffer(m, content, answer)
    PROVE  /\ MissionTypes' /\ AdmitInv' /\ Moved
           /\ answer \in {"rejected", "accepted", "finished", "conflict"}
           /\ answer = "rejected" => state'[m] = "unknown"
           /\ answer = "conflict" => state'[m] # "unknown"
           /\ answer \in {"accepted", "finished"} => admitted'[m] = content
           /\ answer = "accepted" => state'[m] \in Active
           /\ answer = "finished" => state'[m] = "over"
  <1>1. CASE state[m] # "unknown"
    BY <1>1 DEF DecideOffer, missions, MissionTypes, RuntimeState, Active, AdmitInv, Moved
  <1>2. CASE state[m] = "unknown" /\ answer = "rejected" /\ UNCHANGED missions
    BY <1>2 DEF missions, MissionTypes, AdmitInv, Moved
  <1>3. CASE /\ state[m] = "unknown" /\ answer = "accepted" /\ Becomes(m, "working")
             /\ admitted' = [admitted EXCEPT ![m] = content]
    <2>1. /\ MissionTypes' /\ state'[m] = "working" /\ admitted'[m] = content
          /\ \A n \in Mission \ {m} : state'[n] = state[n] /\ admitted'[n] = admitted[n]
      BY <1>3 DEF MissionTypes, Becomes, RuntimeState, Active
    <2>2. AdmitInv'
      BY <2>1, NoneAssumption DEF AdmitInv
    <2> QED BY <1>3, <2>1, <2>2 DEF Moved, Active, Contract!Onward
  <1> QED BY <1>1, <1>2, <1>3 DEF DecideOffer

LEMMA CancelEffect ==
    ASSUME MissionTypes, AdmitInv, NEW m \in Mission, NEW answer, DecideCancel(m, answer)
    PROVE  /\ MissionTypes' /\ AdmitInv' /\ Moved
           /\ answer = "accepted" => state'[m] \in {"cancelling", "over"}
           /\ \A n \in Mission : state[n] = "unknown" => state'[n] = "unknown"
           /\ UNCHANGED admitted
  BY DEF DecideCancel, Becomes, MissionTypes, AdmitInv, Moved, RuntimeState, Active,
         Contract!Onward

LEMMA DecideEffect ==
    ASSUME MissionTypes, AdmitInv, NEW c \in Command, NEW answer, Decide(c, answer)
    PROVE  MissionTypes' /\ AdmitInv' /\ Moved
  <1>1. CASE c[1] = "offer"
    <2>1. c[2] \in Mission /\ c[3] \in Request /\ DecideOffer(c[2], c[3], answer)
      BY <1>1 DEF Command, Decide
    <2> QED BY <2>1, OfferEffect
  <1>2. CASE c[1] = "cancel"
    <2>1. c[2] \in Mission /\ DecideCancel(c[2], answer)
      BY <1>2 DEF Command, Decide
    <2> QED BY <2>1, CancelEffect
  <1> QED BY <1>1, <1>2 DEF Command

LEMMA StateMoves ==
    ASSUME Inv, [Next]_vars
    PROVE  MissionTypes' /\ AdmitInv' /\ Moved
  <1> DEFINE Good == MissionTypes' /\ AdmitInv' /\ Moved
  <1>1. MissionTypes /\ AdmitInv /\ late \subseteq Command
    BY DEF Inv, TypeOK, MissionTypes, RuntimeState
  <1>2. CASE UNCHANGED missions
    BY <1>1, <1>2 DEF missions, MissionTypes, AdmitInv, Moved
  <1>3. CASE ServeCommand
    <2>1. call.cmd \in Command /\ \E answer \in Answer : Decide(call.cmd, answer)
      BY <1>3 DEF ServeCommand, Inv, CommandInv
    <2> QED BY <1>1, <2>1, DecideEffect
  <1>4. ASSUME NEW c \in Command, ServeLate(c) PROVE Good
    <2>1. \E answer \in Answer : Decide(c, answer)
      BY <1>4 DEF ServeLate
    <2> QED BY <1>1, <2>1, DecideEffect
  <1>5. ASSUME NEW m \in Mission, Stop(m) \/ Finish(m) PROVE Good
    BY <1>1, <1>5 DEF Stop, Finish, Becomes, MissionTypes, AdmitInv, Moved, RuntimeState, Active,
                      Contract!Onward
  <1>6. CASE RuntimeRestart
    BY <1>1, <1>6 DEF RuntimeRestart, MissionTypes, AdmitInv, Moved, RuntimeState, Active,
                      Contract!Onward
  <1>7. Worker \/ Backend \/ ServeSnapshot => UNCHANGED missions
    BY DEF Worker, Backend, Connect, Observed, Heartbeat, SyncRequest, Drain, OfferAnswered,
           CancelAnswered, Timeout, Disconnect, Crash, Restart, SnapshotAck, Receive, EventAck,
           ServeSnapshot, runtime, missions
  <1> QED BY <1>2, <1>3, <1>4, <1>5, <1>6, <1>7 DEF Next, Runtime, vars, runtime

-----------------------------------------------------------------------------
(* What the worker tells.                                                  *)

\* No event is told that is not so, and none is told behind an outcome or told again
\* when it should be told once.
LEMMA TruthIsTold ==
    ASSUME Inv, [Next]_vars
    PROVE  /\ told \subseteq told'
           /\ \A e \in (told' \ told) \cup (pending' \ pending) : Contract!MayTell(e[1], e[2])
  <1> DEFINE Told == /\ told \subseteq told'
                     /\ \A e \in (told' \ told) \cup (pending' \ pending) :
                            Contract!MayTell(e[1], e[2])
  <1>1. CASE told' = told /\ pending' \subseteq pending
    BY <1>1
  <1>2. ASSUME call.kind = "snapshot", call.answer = "served",
               NEW events \in SUBSET News(call.seen, Phases(call.seen)), Enqueue(events),
               \A e \in events : e[2] \in Active => <<e[1], "accepted">> \in told \cup events
        PROVE  Told
    <2>1. told' = told \cup events /\ pending' = pending \cup events
      BY <1>2 DEF Enqueue
    <2>2. ASSUME NEW e \in events PROVE Contract!MayTell(e[1], e[2])
      <3>1. PICK m \in Mission, kind \in {"accepted", "result"} \cup Active :
                /\ e = <<m, kind>> /\ (kind \notin Active => e \notin told)
                /\ IF kind = "result" THEN call.seen[m] = "over" ELSE call.seen[m] \in Active
        BY DEF News, Phases, Active
      <3>2. e[1] = m /\ e[2] = kind
        BY <3>1
      <3>3. CASE kind = "result"
        BY <3>1, <3>2, <3>3 DEF Contract!MayTell, Contract!InTurn, Inv, SeenInv, Active
      <3>4. CASE kind # "result"
        <4>1. state[m] # "unknown" /\ <<m, "result">> \notin told
          BY <3>1, <3>4 DEF Inv, SeenInv, Active
        <4>2. <<m, "accepted">> \in told'
          BY <1>2, <2>1, <3>1, <3>2, <3>4
        <4> QED BY <3>1, <3>2, <3>4, <4>1, <4>2 DEF Contract!MayTell, Contract!InTurn, Active
      <3> QED BY <3>3, <3>4
    <2> QED BY <2>1, <2>2
  <1>3. CASE Observed
    <2>1. PICK again \in SUBSET Phases(call.seen) :
              call.kind = "snapshot" /\ call.answer = "served" /\ Enqueue(News(call.seen, again))
      BY <1>3 DEF Observed
    <2>2. News(call.seen, again) \subseteq News(call.seen, Phases(call.seen))
      BY <2>1 DEF News
    <2>3. \A e \in News(call.seen, again) :
              e[2] \in Active => <<e[1], "accepted">> \in told \cup News(call.seen, again)
      BY <2>1 DEF News, Phases, Active
    <2> QED BY <1>2, <2>1, <2>2, <2>3
  <1>4. CASE Crash
    <2>1. PICK events \in SUBSET (IF call.kind = "snapshot" /\ call.answer = "served"
                                  THEN News(call.seen, Phases(call.seen)) ELSE {}) :
              /\ \A e \in events : e[2] \in Active => <<e[1], "accepted">> \in told \cup events
              /\ Enqueue(events)
      BY <1>4 DEF Crash, Partly
    <2>2. CASE call.kind = "snapshot" /\ call.answer = "served"
      BY <1>2, <2>1, <2>2
    <2>3. CASE ~(call.kind = "snapshot" /\ call.answer = "served")
      BY <1>1, <2>1, <2>3 DEF Enqueue
    <2> QED BY <2>2, <2>3
  <1>5. CASE OfferAnswered
    <2>1. call.kind = "offer" /\ call.answer \in Answer /\ call.cmd[2] \in Mission
      BY <1>5 DEF OfferAnswered, Inv, CommandInv, Command
    <2>2. /\ told' = told \cup Tells(call.cmd, call.answer)
          /\ pending' = pending \cup Tells(call.cmd, call.answer)
      BY <1>5 DEF OfferAnswered, Enqueue
    <2>3. CASE call.answer = "rejected"
      BY <2>1, <2>2, <2>3 DEF Tells, Contract!MayTell, Contract!InTurn, Inv, OfferInv, ToldInv
    <2>4. CASE call.answer = "accepted"
      BY <2>1, <2>2, <2>4 DEF Tells, Contract!MayTell, Contract!InTurn, Inv, OfferInv
    <2>5. CASE call.answer = "finished"
      BY <2>1, <2>2, <2>5 DEF Tells, Contract!MayTell, Contract!InTurn, Inv, OfferInv
    <2>6. CASE call.answer = "conflict"
      BY <2>1, <2>2, <2>6 DEF Tells, Contract!MayTell, Contract!Conflicting, Inv, OfferInv
    <2> QED BY <2>1, <2>3, <2>4, <2>5, <2>6 DEF Inv, OfferInv, Answer
  <1>6. CASE \E e \in sent : EventAck(e)
    BY <1>1, <1>6 DEF EventAck
  <1>7. Next => \/ Observed \/ Crash \/ OfferAnswered \/ (\E e \in sent : EventAck(e))
                \/ UNCHANGED <<told, pending>>
    BY DEF Next, Worker, Backend, Runtime, Connect, Heartbeat, SyncRequest, Drain,
           CancelAnswered, Timeout, Disconnect, Restart, SnapshotAck, Receive,
           ServeSnapshot, ServeCommand, ServeLate, Stop, Finish, RuntimeRestart, durable
  <1> QED BY <1>1, <1>3, <1>4, <1>5, <1>6, <1>7 DEF vars, durable

LEMMA ToldStep ==
    ASSUME Inv, [Next]_vars
    PROVE  ToldInv'
  <1> SUFFICES ASSUME NEW m \in Mission
               PROVE  /\ <<m, "result">> \in told' => state'[m] = "over"
                      /\ <<m, "accepted">> \in told' => state'[m] # "unknown"
    BY DEF ToldInv
  <1>1. state'[m] = state[m] \/ <<state[m], state'[m]>> \in Contract!Onward
    BY StateMoves DEF Moved
  <1>2. ASSUME NEW kind, <<m, kind>> \in told' \ told PROVE Contract!MayTell(m, kind)
    BY <1>2, TruthIsTold, <<m, kind>>[1] = m, <<m, kind>>[2] = kind
  <1>3. <<m, "result">> \in told' => state[m] = "over"
    BY <1>2 DEF Inv, ToldInv, Contract!MayTell, Contract!InTurn, Contract!Conflicting
  <1>4. <<m, "accepted">> \in told' => state[m] # "unknown"
    BY <1>2 DEF Inv, ToldInv, Contract!MayTell, Contract!InTurn, Contract!Conflicting
  <1> QED BY <1>1, <1>3, <1>4 DEF Contract!Onward

-----------------------------------------------------------------------------
(* The call of the worker.                                                 *)

\* What a served call is told stays so, whatever the Runtime does in the meantime.
\* The worker keeps its call, and then tells nothing, or drops it, or makes another one.
LEMMA WorkerCalls ==
    ASSUME Worker \/ Backend
    PROVE  \/ UNCHANGED <<call, told, late, missions>>
           \/ call' = NoCall
           \/ \E kind, why, cmd : call' = Ask(kind, why, cmd)
  <1>1. CASE Connect \/ Heartbeat \/ SyncRequest
    BY <1>1 DEF Connect, Heartbeat, SyncRequest
  <1>2. CASE Observed
    BY <1>2 DEF Observed, Closed
  <1>3. CASE Drain
    BY <1>3 DEF Drain, Executing, durable, runtime
  <1>4. CASE OfferAnswered \/ CancelAnswered
    BY <1>4 DEF OfferAnswered, CancelAnswered, Closed
  <1>5. CASE Timeout \/ Disconnect \/ Crash \/ Restart
    BY <1>5 DEF Timeout, Disconnect, Crash, Restart, Closed, durable, runtime
  <1>6. CASE Backend
    BY <1>6 DEF Backend, SnapshotAck, EventAck, Receive, Executing, Closed, durable, runtime
  <1> QED BY <1>1, <1>2, <1>3, <1>4, <1>5, <1>6 DEF Worker

LEMMA SeenStep ==
    ASSUME Inv, [Next]_vars
    PROVE  SeenInv'
  <1> SUFFICES ASSUME NEW m \in Mission
               PROVE  /\ call'.seen[m] # "unknown" => state'[m] # "unknown"
                      /\ call'.seen[m] = "over" => state'[m] = "over"
                      /\ call'.seen[m] \in Active => <<m, "result">> \notin told'
    BY DEF SeenInv
  <1>1. state'[m] = state[m] \/ <<state[m], state'[m]>> \in Contract!Onward
    BY StateMoves DEF Moved
  <1>2. CASE call'.seen = NoMissions
    BY <1>2 DEF NoMissions, Active
  <1>3. CASE call'.seen = call.seen /\ told' = told
    BY <1>1, <1>3 DEF Inv, SeenInv, Contract!Onward
  <1>4. CASE call'.seen = state /\ UNCHANGED <<state, told>>
    BY <1>4 DEF Inv, ToldInv, Active
  <1>5. Worker \/ Backend => call'.seen = NoMissions \/ (call'.seen = call.seen /\ told' = told)
    BY WorkerCalls DEF NoCall, Ask, Call
  <1>6. Runtime => \/ call'.seen = call.seen /\ told' = told
                   \/ call'.seen = state /\ UNCHANGED <<state, told>>
    BY DEF Runtime, ServeSnapshot, ServeCommand, ServeLate, Stop, Finish, RuntimeRestart,
           Answered, Call, runtime, missions, durable, worker
  <1> QED BY <1>2, <1>3, <1>4, <1>5, <1>6 DEF Next, vars, worker, durable

LEMMA OfferStep ==
    ASSUME Inv, [Next]_vars
    PROVE  OfferInv'
  <1> SUFFICES ASSUME call'.kind = "offer", call'.answer \in Answer PROVE OfferInv'
    BY DEF OfferInv
  <1>1. CASE UNCHANGED <<call, late, told, missions>>
    BY <1>1 DEF Inv, OfferInv, missions
  <1>2. Worker \/ Backend => UNCHANGED <<call, late, told, missions>>
    BY WorkerCalls, NoneAssumption DEF NoCall, Ask, Call, Answer
  <1>3. MissionTypes /\ AdmitInv
    BY DEF Inv, TypeOK, MissionTypes, RuntimeState
  <1>4. ASSUME call' = call, told' = told, late' \subseteq late,
               \A m \in Mission : state[m] = "unknown" => state'[m] = "unknown"
        PROVE  OfferInv'
    <2>1. call.cmd \in Command /\ call.cmd[2] \in Mission /\ call.cmd[3] \in Request
      BY <1>4 DEF Inv, CommandInv, Command
    <2>2. Moved
      BY StateMoves
    <2> QED BY <1>3, <1>4, <2>1, <2>2, NoneAssumption
            DEF OfferInv, Inv, Moved, AdmitInv, Contract!Onward
  <1>5. ASSUME NEW c \in late, ServeLate(c) PROVE OfferInv'
    <2>1. call' = call /\ told' = told /\ late' \subseteq late
      BY <1>5 DEF ServeLate, durable, worker
    <2>2. c[1] = "cancel" /\ c[2] \in Mission
      BY <2>1 DEF Inv, TypeOK, OfferInv, Command
    <2>3. PICK answer \in Answer : DecideCancel(c[2], answer)
      BY <1>5, <2>2 DEF ServeLate, Decide
    <2> QED BY <1>3, <1>4, <2>1, <2>2, <2>3, CancelEffect
  <1>6. CASE ServeCommand
    <2>1. call.kind = "offer" /\ call.answer = None /\ call.cmd \in Command
      BY <1>6 DEF ServeCommand, Answered, Call, Inv, CommandInv
    <2>2. PICK answer \in Answer : Decide(call.cmd, answer) /\ call' = Answered(answer, call.seen)
      BY <1>6 DEF ServeCommand
    <2>3. call.cmd[1] = "offer" /\ call.cmd[2] \in Mission /\ call.cmd[3] \in Request
      BY <2>1 DEF Inv, CommandInv, Command
    <2>4. \A c \in late' : c[1] # "offer"
      BY <1>6, <2>1 DEF ServeCommand, Earlier
    <2>5. call'.cmd = call.cmd /\ call'.answer = answer /\ told' = told
      BY <1>6, <2>2 DEF ServeCommand, Answered, Call, durable
    <2>6. /\ answer # "refused"
          /\ answer = "rejected" => state'[call.cmd[2]] = "unknown"
          /\ answer = "conflict" => state'[call.cmd[2]] # "unknown"
          /\ answer \in {"accepted", "finished"} => admitted'[call.cmd[2]] = call.cmd[3]
          /\ answer = "accepted" => state'[call.cmd[2]] \in Active
          /\ answer = "finished" => state'[call.cmd[2]] = "over"
      BY <1>3, <2>2, <2>3, OfferEffect DEF Decide
    <2>7. answer = "accepted" => <<call.cmd[2], "result">> \notin told'
      BY <2>3, <2>6, ToldStep DEF ToldInv, Active
    <2> QED BY <2>4, <2>5, <2>6, <2>7 DEF OfferInv, Active
  <1>7. ASSUME NEW m \in Mission, Stop(m) \/ Finish(m) PROVE OfferInv'
    <2>1. UNCHANGED <<call, told, late>>
      BY <1>7 DEF Stop, Finish, durable, worker
    <2>2. \A n \in Mission : state[n] = "unknown" => state'[n] = "unknown"
      BY <1>7 DEF Stop, Finish, Becomes, Active, Inv, TypeOK
    <2> QED BY <1>4, <2>1, <2>2
  <1>8. CASE RuntimeRestart
    <2>1. call' = call /\ told' = told /\ late' = {}
      BY <1>8, NoneAssumption DEF RuntimeRestart, Answered, Call, Answer, durable
    <2>2. \A m \in Mission : state[m] = "unknown" => state'[m] = "unknown"
      BY <1>8 DEF RuntimeRestart, Active
    <2> QED BY <1>4, <2>1, <2>2
  <1>9. ~ServeSnapshot
    BY NoneAssumption DEF ServeSnapshot, Answered, Call, Answer
  <1> QED BY <1>1, <1>2, <1>5, <1>6, <1>7, <1>8, <1>9
          DEF Next, Runtime, ServeLate, vars, runtime, durable, worker

LEMMA ApplicableStep ==
    ASSUME Inv, [Next]_vars, NEW c \in Command, Contract!Applicable(c)
    PROVE  Contract!Applicable(c)'
  <1>1. c[2] \in Mission /\ (c[1] = "offer" => c[3] \in Request)
    BY DEF Command
  <1>2. Moved /\ told \subseteq told'
    BY StateMoves, TruthIsTold
  <1>3. state[c[2]] \in {"cancelling", "over"} => state'[c[2]] \in {"cancelling", "over"}
    BY <1>1, <1>2 DEF Moved, Contract!Onward
  <1>4. c[1] = "offer" /\ admitted[c[2]] = c[3] => admitted'[c[2]] = c[3]
    BY <1>1, <1>2, NoneAssumption DEF Moved, Inv, AdmitInv
  <1> QED BY <1>2, <1>3, <1>4 DEF Contract!Applicable

LEMMA CommandStep ==
    ASSUME Inv, [Next]_vars
    PROVE  CommandInv'
  <1>1. CASE call' = NoCall
    BY <1>1 DEF CommandInv, NoCall, Call
  <1>2. ASSUME NEW c \in Command, Executing(c) PROVE CommandInv'
    BY <1>2, NoneAssumption DEF Executing, CommandInv, Ask, Call, Command
  <1>3. ASSUME NEW why, why # "command", call' = Ask("snapshot", why, None) PROVE CommandInv'
    BY <1>3 DEF CommandInv, Ask, Call
  <1>4. ASSUME call'.kind = call.kind, call'.why = call.why, call'.cmd = call.cmd,
               call'.answer = call.answer \/ call'.kind # "cancel" \/ call'.answer # "accepted"
        PROVE  CommandInv'
    <2>1. call.kind = "cancel" => call.cmd[2] \in Mission
      BY DEF Inv, CommandInv, Command
    <2>2. Moved
      BY StateMoves
    <2> QED BY <1>4, <2>1, <2>2, ApplicableStep
            DEF Inv, CommandInv, Moved, Contract!Onward
  <1>5. CASE OfferAnswered
    <2>1. /\ call.kind = "offer" /\ call.answer \in Answer
          /\ call.cmd \in Command /\ call.cmd[1] = "offer" /\ call.cmd[2] \in Mission
      BY <1>5 DEF OfferAnswered, Inv, CommandInv, Command
    <2>2. told' = told \cup Tells(call.cmd, call.answer) /\ UNCHANGED missions
      BY <1>5 DEF OfferAnswered, Enqueue, runtime
    <2>3. Contract!Applicable(call.cmd)'
      <3>1. call'.cmd = call.cmd
        BY <1>5 DEF OfferAnswered, Ask, Call
      <3> QED BY <2>1, <2>2, <3>1 DEF Tells, Inv, OfferInv, Answer, missions, Contract!Applicable
    <2> QED BY <1>5, <2>1, <2>3 DEF OfferAnswered, CommandInv, Ask, Call
  <1>6. CASE CancelAnswered
    <2>1. CASE call.answer = "accepted" /\ call' = Ask("snapshot", "command", call.cmd)
      <3>1. /\ call.kind = "cancel"
            /\ call.cmd \in Command /\ call.cmd[1] = "cancel" /\ call.cmd[2] \in Mission
        BY <1>6 DEF CancelAnswered, Inv, CommandInv, Command
      <3>2. state'[call.cmd[2]] \in {"cancelling", "over"}
        BY <1>6, <2>1, <3>1 DEF CancelAnswered, Inv, CommandInv, runtime, missions
      <3> QED BY <2>1, <3>1, <3>2 DEF CommandInv, Ask, Call, Contract!Applicable
    <2> QED BY <1>1, <1>6, <2>1 DEF CancelAnswered, Closed
  <1>7. CASE ServeCommand
    <2>1. PICK answer \in Answer : Decide(call.cmd, answer) /\ call' = Answered(answer, call.seen)
      BY <1>7 DEF ServeCommand
    <2>2. call.kind \in {"offer", "cancel"} /\ call.cmd \in Command /\ call.cmd[1] = call.kind
      BY <1>7 DEF ServeCommand, Inv, CommandInv
    <2>3. call.kind = "cancel" /\ answer = "accepted" =>
              state'[call.cmd[2]] \in {"cancelling", "over"}
      <3>1. MissionTypes /\ AdmitInv
        BY DEF Inv, TypeOK, MissionTypes, RuntimeState
      <3>2. call.kind = "cancel" => call.cmd[2] \in Mission /\ DecideCancel(call.cmd[2], answer)
        BY <2>1, <2>2 DEF Decide, Command
      <3> QED BY <3>1, <3>2, CancelEffect
    <2> QED BY <2>1, <2>2, <2>3 DEF CommandInv, Answered, Call
  <1>8. CASE Observed
    BY <1>1, <1>8 DEF Observed, Closed
  <1>9. CASE Connect \/ Heartbeat \/ SyncRequest
    BY <1>3, <1>9 DEF Connect, Heartbeat, SyncRequest
  <1>10. CASE Drain
    BY <1>2, <1>4, <1>10 DEF Drain, Inv, TypeOK
  <1>11. CASE Timeout \/ Disconnect \/ Crash \/ Restart
    BY <1>1, <1>4, <1>11 DEF Timeout, Disconnect, Crash, Restart, Closed
  <1>12. CASE Backend
    BY <1>1, <1>2, <1>4, <1>12 DEF Backend, SnapshotAck, EventAck, Receive, Closed
  <1>13. CASE ServeSnapshot \/ RuntimeRestart
    BY <1>4, <1>13 DEF ServeSnapshot, RuntimeRestart, Answered, Call
  <1>14. ASSUME NEW c \in Command, ServeLate(c) PROVE CommandInv'
    BY <1>4, <1>14 DEF ServeLate, worker
  <1>15. ASSUME NEW m \in Mission, Stop(m) \/ Finish(m) PROVE CommandInv'
    BY <1>4, <1>15 DEF Stop, Finish, worker
  <1>16. CASE UNCHANGED vars
    BY <1>4, <1>16 DEF vars, worker
  <1> QED BY <1>5, <1>6, <1>7, <1>8, <1>9, <1>10, <1>11, <1>12, <1>13, <1>14, <1>15, <1>16
          DEF Next, Worker, Runtime

-----------------------------------------------------------------------------
(* The Backend's knowledge, and the types.                                 *)

LEMMA KnownStep ==
    ASSUME Inv, [Next]_vars
    PROVE  KnownInv' /\ known' \subseteq Results(told) /\ known \subseteq known'
  <1>1. Results(told) \subseteq Results(told')
    BY TruthIsTold DEF Results
  <1>2. \A e \in sent : Results({e}) \subseteq Results(told)
    BY DEF Results, Inv, TypeOK
  <1>3. known' \subseteq Results(told) /\ known \subseteq known'
    <2>1. CASE known' = known
      BY <2>1 DEF Inv, KnownInv
    <2>2. CASE SnapshotAck
      BY <2>2 DEF SnapshotAck, Inv, KnownInv
    <2>3. ASSUME NEW e \in sent, EventAck(e)
          PROVE  known' \subseteq Results(told) /\ known \subseteq known'
      BY <1>2, <2>3 DEF EventAck, Inv, KnownInv
    <2>4. Worker \/ Runtime => known' = known
      BY DEF Worker, Runtime, Connect, Observed, Heartbeat, SyncRequest, Drain, OfferAnswered,
             CancelAnswered, Timeout, Disconnect, Crash, Restart, ServeSnapshot, ServeCommand,
             ServeLate, Stop, Finish, RuntimeRestart
    <2> QED BY <2>1, <2>2, <2>3, <2>4 DEF Next, Backend, Receive, vars
  <1>4. snap' \subseteq Results(told')
    <2>1. CASE snap' = snap
      BY <1>1, <2>1 DEF Inv, KnownInv
    <2>2. CASE snap' = {} \/ snap' = Results(told')
      BY <2>2
    <2>3. Worker \/ Backend => snap' = snap \/ snap' = {} \/ snap' = Results(told')
      BY DEF Worker, Backend, Connect, Observed, Heartbeat, SyncRequest, Drain, OfferAnswered,
             CancelAnswered, Timeout, Disconnect, Crash, Restart, Closed, SendSnapshot,
             SnapshotAck, Receive, EventAck
    <2>4. Runtime => snap' = snap
      BY DEF Runtime, ServeSnapshot, ServeCommand, ServeLate, Stop, Finish, RuntimeRestart, worker
    <2> QED BY <2>1, <2>2, <2>3, <2>4 DEF Next, vars, worker
  <1> QED BY <1>1, <1>3, <1>4 DEF KnownInv

\* The limit of the deferred commands.
LEMMA DeferredStep ==
    ASSUME Inv, [Next]_vars
    PROVE  /\ deferred' \subseteq Command /\ IsFiniteSet(deferred')
           /\ Cardinality(deferred') <= MaxDeferred
  <1> DEFINE Within(d) == /\ d \subseteq Command /\ IsFiniteSet(d)
                          /\ Cardinality(d) <= MaxDeferred
  <1>1. Within(deferred) /\ Cardinality(deferred) \in Nat
    BY FS_CardinalityType DEF Inv, TypeOK
  <1>2. Within({})
    BY FS_EmptySet, DeferredAssumption
  <1>3. ASSUME NEW c \in Command, Receive(c) PROVE Within(deferred')
    <2>1. CASE Cardinality(deferred) < MaxDeferred /\ deferred' = deferred \cup {c}
      BY <1>1, <2>1, FS_AddElement, DeferredAssumption
    <2> QED BY <1>1, <1>2, <1>3, <2>1 DEF Receive, Closed
  <1>4. CASE Drain
    <2>1. PICK c \in deferred : deferred' = deferred \ {c}
      BY <1>4 DEF Drain
    <2> QED BY <1>1, <2>1, FS_RemoveElement, DeferredAssumption
  <1>5. deferred' = deferred \/ deferred' = {} => Within(deferred')
    BY <1>1, <1>2
  <1>6. Worker => Drain \/ deferred' = deferred \/ deferred' = {}
    BY DEF Worker, Connect, Observed, Heartbeat, SyncRequest, OfferAnswered, CancelAnswered,
           Timeout, Disconnect, Crash, Restart, Closed
  <1>7. SnapshotAck \/ (\E e \in sent : EventAck(e)) \/ Runtime => deferred' = deferred
    BY DEF SnapshotAck, EventAck, Runtime, ServeSnapshot, ServeCommand, ServeLate, Stop, Finish,
           RuntimeRestart, worker
  <1> QED BY <1>3, <1>4, <1>5, <1>6, <1>7 DEF Next, Backend, vars, worker

LEMMA CallTypes ==
    ASSUME Inv, [Next]_vars
    PROVE  call' \in CallType
  <1>1. NoCall \in CallType
    BY DEF NoCall, Call, CallType, NoMissions
  <1>2. \A kind \in {"offer", "cancel", "snapshot"},
           why \in {"connect", "beat", "sync", "command"}, cmd \in Command \cup {None} :
              Ask(kind, why, cmd) \in CallType
    BY DEF Ask, Call, CallType, NoMissions
  <1>3. \A answer \in Answer \cup {"served", "lost"} :
              Answered(answer, call.seen) \in CallType /\ Answered(answer, state) \in CallType
    BY DEF Answered, Call, CallType, Inv, TypeOK
  <1>4. call \in CallType /\ deferred \subseteq Command
    BY DEF Inv, TypeOK
  <1>5. \A c \in Command : c[1] \in {"offer", "cancel"}
    BY DEF Command
  <1>6. CASE Connect \/ Heartbeat \/ SyncRequest
    BY <1>2, <1>6 DEF Connect, Heartbeat, SyncRequest
  <1>7. CASE Observed \/ Timeout \/ Disconnect \/ Crash \/ Restart
    BY <1>1, <1>4, <1>7 DEF Observed, Timeout, Disconnect, Crash, Restart, Closed
  <1>8. CASE Drain
    BY <1>2, <1>4, <1>5, <1>8 DEF Drain, Executing
  <1>9. CASE OfferAnswered \/ CancelAnswered
    <2>1. call.kind \in {"offer", "cancel"} => call.cmd \in Command
      BY DEF Inv, CommandInv
    <2> QED BY <1>1, <1>2, <1>9, <2>1 DEF OfferAnswered, CancelAnswered, Closed
  <1>10. CASE Backend
    BY <1>1, <1>2, <1>4, <1>5, <1>10 DEF Backend, SnapshotAck, EventAck, Receive, Executing, Closed
  <1>11. CASE ServeSnapshot \/ ServeCommand \/ RuntimeRestart
    BY <1>3, <1>4, <1>11 DEF ServeSnapshot, ServeCommand, RuntimeRestart
  <1>12. CASE UNCHANGED call
    BY <1>4, <1>12
  <1> QED BY <1>6, <1>7, <1>8, <1>9, <1>10, <1>11, <1>12
          DEF Next, Worker, Runtime, ServeLate, Stop, Finish, vars, worker

LEMMA OutboxStep ==
    ASSUME Inv, [Next]_vars
    PROVE  /\ told' \subseteq Mission \X Kind
           /\ pending' \subseteq told' /\ sent' \subseteq pending'
  <1> DEFINE Outbox == /\ told' \subseteq Mission \X Kind
                       /\ pending' \subseteq told' /\ sent' \subseteq pending'
  <1>1. told \subseteq Mission \X Kind /\ pending \subseteq told /\ sent \subseteq pending
    BY DEF Inv, TypeOK
  <1>2. \A again \in SUBSET Phases(call.seen) : News(call.seen, again) \subseteq Mission \X Kind
    BY DEF News, Phases, Kind, Active
  <1>3. CASE UNCHANGED <<told, pending>> /\ (sent' = sent \/ sent' = {})
    BY <1>1, <1>3
  <1>4. CASE Observed
    BY <1>1, <1>2, <1>4 DEF Observed, Enqueue, Outstanding, Closed
  <1>5. CASE OfferAnswered
    <2>1. Tells(call.cmd, call.answer) \subseteq Mission \X Kind
      BY <1>5 DEF OfferAnswered, Tells, Kind, Inv, CommandInv, Command
    <2> QED BY <1>1, <1>5, <2>1 DEF OfferAnswered, Enqueue
  <1>6. CASE Crash
    BY <1>1, <1>2, <1>6 DEF Crash, Partly, Enqueue, Closed
  <1>7. ASSUME NEW e \in sent, EventAck(e) PROVE Outbox
    BY <1>1, <1>7 DEF EventAck
  <1>8. Connect \/ Heartbeat \/ SyncRequest \/ Drain \/ CancelAnswered \/ Timeout \/ Disconnect
            \/ Restart \/ SnapshotAck \/ (\E c \in Command : Receive(c)) \/ Runtime
        => UNCHANGED <<told, pending>> /\ (sent' = sent \/ sent' = {})
    BY DEF Connect, Heartbeat, SyncRequest, Drain, CancelAnswered, Timeout, Disconnect, Restart,
           SnapshotAck, Receive, Closed, Runtime, ServeSnapshot, ServeCommand, ServeLate, Stop,
           Finish, RuntimeRestart, durable, worker
  <1> QED BY <1>3, <1>4, <1>5, <1>6, <1>7, <1>8 DEF Next, Worker, Backend, vars, durable, worker

\* What only a connection has.
LEMMA LinkStep ==
    ASSUME Inv, [Next]_vars
    PROVE  /\ link' \in {"down", "offline", "online"} /\ synced' \in BOOLEAN
           /\ link' # "online" => ~synced' /\ deferred' = {} /\ sent' = {}
  <1> DEFINE Linked == /\ link' \in {"down", "offline", "online"} /\ synced' \in BOOLEAN
                       /\ link' # "online" => ~synced' /\ deferred' = {} /\ sent' = {}
  <1>1. /\ link \in {"down", "offline", "online"} /\ synced \in BOOLEAN
        /\ link # "online" => ~synced /\ deferred = {} /\ sent = {}
    BY DEF Inv, TypeOK
  <1>2. Closed("offline") \/ Closed("down") => Linked
    BY DEF Closed
  <1>3. UNCHANGED <<link, synced, deferred, sent>> => Linked
    BY <1>1
  <1>4. CASE Observed
    <2>1. \/ Closed("offline")
          \/ link' = "online" /\ synced' = FALSE
          \/ synced /\ link' = link /\ synced' = FALSE
          \/ UNCHANGED <<link, deferred>> /\ sent' \subseteq sent /\ synced' = FALSE
          \/ UNCHANGED <<link, deferred, synced>> /\ sent' \subseteq sent
      BY <1>4 DEF Observed, SendSnapshot
    <2>2. CASE Closed("offline")
      BY <1>2, <2>2
    <2>3. CASE link' = "online" /\ synced' = FALSE
      BY <2>3
    <2>4. CASE synced /\ link' = link /\ synced' = FALSE
      BY <1>1, <2>4
    <2>5. CASE UNCHANGED <<link, deferred>> /\ sent' \subseteq sent /\ synced' = FALSE
      BY <1>1, <2>5
    <2>6. CASE UNCHANGED <<link, deferred, synced>> /\ sent' \subseteq sent
      BY <1>1, <2>6
    <2> QED BY <2>1, <2>2, <2>3, <2>4, <2>5, <2>6
  <1>5. CASE Drain \/ Restart \/ OfferAnswered
    BY <1>1, <1>5 DEF Drain, Restart, OfferAnswered
  <1>6. CASE Backend
    BY <1>1, <1>2, <1>6 DEF Backend, SnapshotAck, EventAck, Receive, Reading
  <1>7. Connect \/ Heartbeat \/ SyncRequest \/ Runtime => UNCHANGED <<link, synced, deferred, sent>>
    BY DEF Connect, Heartbeat, SyncRequest, Runtime, ServeSnapshot, ServeCommand, ServeLate,
           Stop, Finish, RuntimeRestart, worker
  <1>8. CASE CancelAnswered \/ Timeout \/ Disconnect \/ Crash
    BY <1>1, <1>2, <1>8 DEF CancelAnswered, Timeout, Disconnect, Crash
  <1> QED BY <1>3, <1>4, <1>5, <1>6, <1>7, <1>8 DEF Next, Worker, vars, worker

\* The commands that may be served late, and those that are done.
LEMMA CommandTypes ==
    ASSUME Inv, [Next]_vars
    PROVE  /\ late' \subseteq Command /\ applied' \subseteq Command
           /\ applied \subseteq applied'
           /\ \A c \in applied' \ applied : Contract!Applicable(c)
  <1>1. late \subseteq Command /\ applied \subseteq Command
    BY DEF Inv, TypeOK
  <1>2. late' \subseteq Command
    <2>1. Abandoned => late' \subseteq Command
      BY <1>1 DEF Abandoned, Inv, CommandInv
    <2>2. Worker \/ Backend => late' = late \/ Abandoned
      BY DEF Worker, Backend, Connect, Observed, Heartbeat, SyncRequest, Drain, OfferAnswered,
             CancelAnswered, Timeout, Disconnect, Crash, Restart, SnapshotAck, Receive, EventAck,
             runtime
    <2>3. Runtime => late' \subseteq late
      BY DEF Runtime, ServeSnapshot, ServeCommand, ServeLate, Stop, Finish, RuntimeRestart, runtime
    <2> QED BY <1>1, <2>1, <2>2, <2>3 DEF Next, vars, runtime
  <1>3. CASE Observed
    <2>1. applied' = applied
             \/ (call.kind = "snapshot" /\ call.why = "command" /\ applied' = applied \cup {call.cmd})
      BY <1>3 DEF Observed
    <2> QED BY <1>1, <1>2, <2>1 DEF Inv, CommandInv
  <1>4. ~Observed => applied' = applied
    BY DEF Next, Worker, Backend, Runtime, Connect, Heartbeat, SyncRequest, Drain, OfferAnswered,
           CancelAnswered, Timeout, Disconnect, Crash, Restart, SnapshotAck, Receive, EventAck,
           ServeSnapshot, ServeCommand, ServeLate, Stop, Finish, RuntimeRestart, durable, vars
  <1> QED BY <1>1, <1>2, <1>3, <1>4

-----------------------------------------------------------------------------
(* The theorems.                                                           *)

LEMMA InitInv == Init => Inv
  <1> SUFFICES ASSUME Init PROVE Inv
    OBVIOUS
  <1>1. TypeOK /\ IsFiniteSet(deferred)
    <2>1. IsFiniteSet({}) /\ Cardinality({}) <= MaxDeferred
      BY FS_EmptySet, DeferredAssumption
    <2>2. call \in CallType
      BY DEF Init, CallType, NoCall, Call, NoMissions
    <2> QED BY <2>1, <2>2 DEF Init, TypeOK, NoMissions
  <1>2. AdmitInv /\ ToldInv /\ SeenInv /\ OfferInv /\ CommandInv /\ KnownInv
    BY DEF Init, AdmitInv, ToldInv, SeenInv, OfferInv, CommandInv, KnownInv, NoCall, Call, NoMissions,
           Active, Results
  <1> QED BY <1>1, <1>2 DEF Inv

LEMMA InvStep == Inv /\ [Next]_vars => Inv'
  <1> SUFFICES ASSUME Inv, [Next]_vars PROVE Inv'
    OBVIOUS
  <1>1. known' \subseteq Mission /\ snap' \subseteq Mission
    BY KnownStep DEF KnownInv, Results
  <1>2. TypeOK'
    BY <1>1, StateMoves, CallTypes, DeferredStep, OutboxStep, LinkStep, CommandTypes
       DEF TypeOK, RuntimeState, MissionTypes
  <1> QED BY <1>2, StateMoves, DeferredStep, ToldStep, SeenStep, OfferStep, CommandStep, KnownStep DEF Inv

(* TypeOK holds of every set of missions and every limit MaxDeferred: in     *)
(* particular never more commands wait for the snapshot than the limit, and  *)
(* nothing is synchronised or sent without a connection (node.py, _run).     *)
THEOREM TypesHold == Spec => []TypeOK
  <1>1. Inv => TypeOK
    BY DEF Inv
  <1> QED BY <1>1, InitInv, InvStep, PTL DEF Spec

(* The bridge implements its contract, for every set of missions and of what *)
(* they may be offered with: it tells nothing that is not so, acceptance and *)
(* outcome only once, applies no offer but the admitted one and those whose  *)
(* refusal it has told, and a mission whose cancellation was applied neither *)
(* starts nor goes on with its task (node.py, _command; session.py, observe; *)
(* runtime.py, offer).                                                       *)
THEOREM BridgeKeepsContract == Spec => ContractIsKept
  <1>1. Init => Contract!Init
    BY DEF Init, Contract!Init, NoMissions
  <1>2. Inv /\ [Next]_vars => [Contract!Next]_(Contract!vars)
    <2> SUFFICES ASSUME Inv, [Next]_vars PROVE Contract!Next
      OBVIOUS
    <2>1. /\ state' \in [Mission -> {"unknown", "working", "cancelling", "over"}]
          /\ admitted' \in [Mission -> Request \cup {None}] /\ Moved
      BY StateMoves DEF RuntimeState, Active, MissionTypes
    <2>2. /\ told \subseteq told' /\ pending' \subseteq told'
          /\ \A e \in (told' \ told) \cup (pending' \ pending) : Contract!MayTell(e[1], e[2])
      BY TruthIsTold, OutboxStep
    <2>3. applied \subseteq applied' /\ \A c \in applied' \ applied : Contract!Applicable(c)
      BY CommandTypes
    <2>4. known \subseteq known' /\ \A m \in known' : <<m, "result">> \in told
      BY KnownStep DEF Results
    <2> QED BY <2>1, <2>2, <2>3, <2>4 DEF Moved, Contract!Next
  <1> QED BY <1>1, <1>2, InitInv, InvStep, PTL DEF Spec, ContractIsKept, Contract!Spec
=============================================================================
