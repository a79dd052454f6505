------------------------- MODULE MissionRuntimeProof -------------------------
(***************************************************************************)
(* What MissionRuntime keeps for every set of missions, every set of       *)
(* configurations and every budget: its types, the agreement of journal    *)
(* and request, that base and arm never move together, that lost authority *)
(* ends in a stop, and that a motion starts under authority only.          *)
(***************************************************************************)
EXTENDS MissionRuntime, TLAPS

USE DEF RuntimeState, Driving, Active, AuthorityLost

-----------------------------------------------------------------------------
(* The helpers of the Runtime.                                             *)

\* _enter only ever writes a state and a restarted clock.
LEMMA EnterEffect ==
    ASSUME NEW s \in RuntimeState, Enter(s)
    PROVE  state' = s /\ state' \in RuntimeState /\ elapsed' \in 0 .. Horizon
  BY RuntimeAssumption DEF Enter

\* _halt starts nothing and turns nothing off.
LEMMA HaltEffect ==
    ASSUME NEW part, NEW raised \in BOOLEAN
    PROVE  /\ HaltOf(part, raised) \in {part, "halting"}
           /\ HaltOf(part, raised) = "idle" <=> part = "idle"
  BY DEF HaltOf

\* The results a mission is stopped with, and the codes reported for them, have their types.
LEMMA ResultTypes ==
    /\ OK \in Result /\ Failed \in Result /\ Blocked \in Result /\ Cancelled \in Result
    /\ Revoked \in Result /\ Fatal("FAILURE") \in Result
    /\ \A c \in HardwareCode : Fatal(c) \in Result
    /\ DeskFailure \subseteq Result /\ Unsuccessful \subseteq DeskFailure
  <1>1. /\ OK \in Result /\ Failed \in Result /\ Blocked \in Result /\ Cancelled \in Result
        /\ Revoked \in Result /\ Fatal("FAILURE") \in Result
    BY DEF OK, Failed, Blocked, Cancelled, Revoked, Fatal, Result, Status, Code
  <1>2. ASSUME NEW c \in HardwareCode PROVE Fatal(c) \in Result
    BY DEF Fatal, Result, Status, Code
  <1> QED BY <1>1, <1>2 DEF Unsuccessful, DeskFailure

\* The mission is stopped with the result given, or with a failure to halt it.
LEMMA BeginStopEffect ==
    ASSUME NEW result \in Result, NEW tracked \in BOOLEAN,
           NEW part \in {"idle", "moving", "halting"},
           TypeOK, BeginStop(result, part, tracked)
    PROVE  /\ state' = "CANCELLING" /\ elapsed' \in 0 .. Horizon /\ op' = tracked
           /\ stopResult' \in {result, Fatal("FAILURE")} /\ stopResult' \in Result
           /\ nav' \in {"idle", "moving", "halting"}
           /\ desk' \in {"idle", "running", "halting"}
           /\ nav' = "idle" <=> part = "idle"
           /\ desk' = "idle" <=> desk = "idle"
  <1>1. state' = "CANCELLING" /\ elapsed' \in 0 .. Horizon
    BY EnterEffect DEF BeginStop, EnterStop, TypeOK, RunType
  <1>2. op' = tracked
    BY DEF BeginStop
  <1>3. PICK n \in BOOLEAN, d \in BOOLEAN :
          /\ nav' = IF tracked THEN HaltOf(part, n) ELSE part
          /\ desk' = IF tree THEN HaltOf(desk, d) ELSE desk
          /\ stopResult' = IF (n \/ d) /\ result.status # "FATAL"
                           THEN Fatal("FAILURE") ELSE result
    BY DEF BeginStop
  <1>4. stopResult' \in {result, Fatal("FAILURE")} /\ stopResult' \in Result
    BY <1>3, ResultTypes
  <1>5. /\ nav' \in {"idle", "moving", "halting"}
        /\ nav' = "idle" <=> part = "idle"
    BY <1>3, HaltEffect
  <1>6. /\ desk' \in {"idle", "running", "halting"}
        /\ desk' = "idle" <=> desk = "idle"
    BY <1>3, HaltEffect DEF TypeOK, PortType
  <1> QED BY <1>1, <1>2, <1>4, <1>5, <1>6

\* A finished mission has a terminal report, and nothing else of the journal changes.
LEMMA FinishEffect ==
    ASSUME NEW result \in Result, NEW force \in BOOLEAN, NEW needsReview \in BOOLEAN,
           TypeOK, request \in Mission, Finish(result, force, needsReview)
    PROVE  /\ phase' = "closing"
           /\ journal' \in [Mission -> Row]
           /\ journal'[request].outcome \in Outcome
           /\ \A m \in Mission \ {request} : journal'[m] = journal[m]
           /\ errorCode' \in Code
           /\ lease' \in {"NONE", "RELEASED"}
           /\ unacknowledged' \in BOOLEAN
  <1> DEFINE code  == IF result.code = "" /\ ~Safe THEN "FAILURE" ELSE result.code
             fatal == force \/ ~Safe \/ result.status = "FATAL"
             report == [outcome |-> OutcomeOf(result, needsReview),
                        code    |-> code,
                        review  |-> fatal \/ needsReview \/ (revoked /\ tree)]
  <1>1. code \in Code
    BY DEF Result, Code
  <1>2. OutcomeOf(result, needsReview) \in Outcome
    BY DEF OutcomeOf, Outcome
  <1>3. report \in Report
    BY <1>1, <1>2 DEF Report
  <1>4. journal' = [journal EXCEPT ![request] = report]
    BY DEF Finish
  <1>5. /\ journal' \in [Mission -> Row]
        /\ journal'[request] = report
        /\ \A m \in Mission \ {request} : journal'[m] = journal[m]
    BY <1>3, <1>4 DEF TypeOK, RecordType, Row
  <1>6. errorCode' \in Code
    BY <1>1 DEF Finish, Code
  <1>7. lease' \in {"NONE", "RELEASED"} /\ phase' = "closing"
    BY DEF Finish, ReturnedLease
  <1>8. unacknowledged' \in BOOLEAN
    BY DEF Finish, TypeOK, HistoryType
  <1> HIDE DEF code, fatal, report
  <1> QED BY <1>2, <1>5, <1>6, <1>7, <1>8 DEF report

-----------------------------------------------------------------------------
(* Types.                                                                  *)

\* The values the actions assign are of the types the variables have.
LEMMA Constants ==
    /\ NoMission \notin Mission
    /\ \A c \in Configs : c.supervised \in BOOLEAN
    /\ 0 \in 0 .. Horizon
    /\ HardwareCode \subseteq Code
    /\ {"", "FAILURE", "INTERRUPTED", "SAFETY_RELEASED"} \subseteq Code
    /\ {Absent, Open, Interrupted} \subseteq Row
    /\ OK \in Result
  BY RuntimeAssumption, ResultTypes
  DEF HardwareCode, Code, Row, Report, Outcome, Absent, Open, Interrupted

\* A fresh process has its types.
LEMMA TypeInit == Init => TypeOK
  <1> SUFFICES ASSUME Init PROVE TypeOK
    OBVIOUS
  <1> USE Constants
  <1>1. RunType
    BY DEF Init, RunType
  <1>2. MissionType
    BY DEF Init, MissionType
  <1>3. RecordType
    BY DEF Init, RecordType
  <1>4. PortType
    BY DEF Init, PortType
  <1>5. HistoryType
    BY DEF Init, HistoryType
  <1> QED BY <1>1, <1>2, <1>3, <1>4, <1>5 DEF TypeOK

\* What BeginStop leaves of the types.
StopTypes ==
    /\ state' \in RuntimeState /\ elapsed' \in 0 .. Horizon /\ op' \in BOOLEAN
    /\ stopResult' \in Result
    /\ nav' \in {"idle", "moving", "halting"} /\ desk' \in {"idle", "running", "halting"}

\* _begin_stop keeps the types.
LEMMA BeginStopTypes ==
    ASSUME NEW result \in Result, NEW tracked \in BOOLEAN,
           NEW part \in {"idle", "moving", "halting"},
           TypeOK, BeginStop(result, part, tracked)
    PROVE  StopTypes
  BY BeginStopEffect DEF StopTypes

\* Every stop of the running operation, with whichever result.
LEMMA StopOfRunning ==
    ASSUME NEW result \in Result, TypeOK, BeginStop(result, nav, op)
    PROVE  StopTypes
  BY BeginStopTypes DEF TypeOK, MissionType, PortType

\* _revoke keeps the types.
LEMMA RevokeTypes ==
    ASSUME TypeOK, Revoke
    PROVE  StopTypes /\ revoked' \in BOOLEAN /\ returnAfterCancel' \in BOOLEAN
  BY StopOfRunning, ResultTypes DEF Revoke

\* Offers, cancels, resets, faults and stops.
LEMMA TypeRequests == TypeOK /\ Requests => TypeOK'
  <1> SUFFICES ASSUME TypeOK, Requests PROVE TypeOK'
    OBVIOUS
  <1> USE Constants
  <1>1. ASSUME NEW m \in Mission, Offer(m) PROVE TypeOK'
    <2>1. state' \in RuntimeState /\ elapsed' \in 0 .. Horizon
      BY <1>1, EnterEffect DEF Offer
    <2>2. RunType'
      BY <1>1, <2>1 DEF Offer, TypeOK, RunType
    <2>3. MissionType'
      BY <1>1, ResultTypes DEF Offer, TypeOK, MissionType
    <2>4. RecordType'
      BY <1>1 DEF Offer, TypeOK, RecordType
    <2>5. PortType'
      BY <1>1 DEF Offer, TypeOK, PortType
    <2>6. HistoryType'
      BY <1>1 DEF Offer, TypeOK, HistoryType
    <2> QED BY <2>2, <2>3, <2>4, <2>5, <2>6 DEF TypeOK
  <1>2. CASE Cancel
    <2>1. StopTypes
      BY <1>2, StopOfRunning, ResultTypes DEF Cancel
    <2>2. RunType'
      BY <1>2, <2>1 DEF Cancel, TypeOK, RunType, StopTypes
    <2>3. MissionType'
      BY <1>2, <2>1 DEF Cancel, TypeOK, MissionType, StopTypes
    <2>4. RecordType'
      BY <1>2 DEF Cancel, TypeOK, RecordType, durable
    <2>5. PortType'
      BY <1>2, <2>1 DEF Cancel, TypeOK, PortType, StopTypes
    <2>6. HistoryType'
      BY <1>2 DEF Cancel, TypeOK, HistoryType, history
    <2> QED BY <2>2, <2>3, <2>4, <2>5, <2>6 DEF TypeOK
  <1>3. CASE ResetError
    <2>1. state' \in RuntimeState /\ elapsed' \in 0 .. Horizon
      BY <1>3, EnterEffect DEF ResetError
    <2>2. RunType'
      BY <1>3, <2>1 DEF ResetError, TypeOK, RunType
    <2>3. MissionType'
      BY <1>3 DEF ResetError, TypeOK, MissionType, mission
    <2>4. RecordType'
      BY <1>3 DEF ResetError, TypeOK, RecordType
    <2>5. PortType'
      BY <1>3 DEF ResetError, TypeOK, PortType, body
    <2>6. HistoryType'
      BY <1>3 DEF ResetError, TypeOK, HistoryType
    <2> QED BY <2>2, <2>3, <2>4, <2>5, <2>6 DEF TypeOK
  <1>4. CASE SupervisorStop
    <2>1. StopTypes /\ revoked' \in BOOLEAN /\ returnAfterCancel' \in BOOLEAN
      <3>1. CASE Revoke
        BY <3>1, RevokeTypes
      <3>2. CASE UNCHANGED <<state, elapsed, op, stopResult, returnAfterCancel, revoked, nav,
                             desk>>
        BY <3>2 DEF StopTypes, TypeOK, RunType, MissionType, PortType
      <3> QED BY <1>4, <3>1, <3>2 DEF SupervisorStop
    <2>2. RunType'
      BY <1>4, <2>1 DEF SupervisorStop, TypeOK, RunType, StopTypes
    <2>3. MissionType'
      BY <1>4, <2>1 DEF SupervisorStop, TypeOK, MissionType, StopTypes
    <2>4. RecordType'
      BY <1>4 DEF SupervisorStop, TypeOK, RecordType, durable
    <2>5. PortType'
      BY <1>4, <2>1 DEF SupervisorStop, TypeOK, PortType, StopTypes
    <2>6. HistoryType'
      BY <1>4 DEF SupervisorStop, TypeOK, HistoryType
    <2> QED BY <2>2, <2>3, <2>4, <2>5, <2>6 DEF TypeOK
  <1>5. ASSUME NEW c \in HardwareCode, SafetyFault(c) PROVE TypeOK'
    <2>1. StopTypes
      <3>1. CASE request # NoMission
        BY <1>5, <3>1, StopOfRunning, ResultTypes DEF SafetyFault
      <3>2. CASE request = NoMission
        <4>1. state' \in RuntimeState /\ elapsed' \in 0 .. Horizon
          BY <1>5, <3>2, EnterEffect DEF SafetyFault
        <4> QED BY <1>5, <3>2, <4>1 DEF SafetyFault, StopTypes, TypeOK, MissionType, PortType
      <3> QED BY <3>1, <3>2
    <2>2. RunType'
      BY <1>5, <2>1 DEF SafetyFault, TypeOK, RunType, StopTypes
    <2>3. MissionType'
      BY <1>5, <2>1 DEF SafetyFault, TypeOK, MissionType, StopTypes
    <2>4. RecordType'
      BY <1>5 DEF SafetyFault, TypeOK, RecordType
    <2>5. PortType'
      BY <1>5, <2>1 DEF SafetyFault, TypeOK, PortType, StopTypes
    <2>6. HistoryType'
      BY <1>5 DEF SafetyFault, TypeOK, HistoryType
    <2> QED BY <2>2, <2>3, <2>4, <2>5, <2>6 DEF TypeOK
  <1>6. ASSUME NEW c \in HardwareCode, SafetyReleased(c) PROVE TypeOK'
    <2>1. RunType'
      BY <1>6 DEF SafetyReleased, TypeOK, RunType
    <2>2. MissionType'
      BY <1>6 DEF SafetyReleased, TypeOK, MissionType, mission
    <2>3. RecordType'
      BY <1>6 DEF SafetyReleased, TypeOK, RecordType
    <2>4. PortType'
      BY <1>6 DEF SafetyReleased, TypeOK, PortType, body
    <2>5. HistoryType'
      BY <1>6 DEF SafetyReleased, TypeOK, HistoryType
    <2> QED BY <2>1, <2>2, <2>3, <2>4, <2>5 DEF TypeOK
  <1> QED BY <1>1, <1>2, <1>3, <1>4, <1>5, <1>6 DEF Requests

\* While a mission is driven, worked on or stopped there is a mission.
RequestWhileActive ==
    phase = "running" /\ state \in Active \cup {"CANCELLING"} => request \in Mission

\* tick(), in each of its states.
LEMMA TypeTick ==
    ASSUME TypeOK, RequestWhileActive, Tick
    PROVE  TypeOK'
  <1> USE Constants
  <1>1. CASE TickRevoked
    <2>1. StopTypes /\ revoked' \in BOOLEAN /\ returnAfterCancel' \in BOOLEAN
      BY <1>1, RevokeTypes DEF TickRevoked
    <2>2. RunType'
      BY <1>1, <2>1 DEF TickRevoked, TypeOK, RunType, StopTypes
    <2>3. MissionType'
      BY <1>1, <2>1 DEF TickRevoked, TypeOK, MissionType, StopTypes
    <2>4. RecordType'
      BY <1>1 DEF TickRevoked, TypeOK, RecordType, durable
    <2>5. PortType'
      BY <1>1, <2>1 DEF TickRevoked, TypeOK, PortType, StopTypes
    <2>6. HistoryType'
      BY <1>1 DEF TickRevoked, TypeOK, HistoryType, history
    <2> QED BY <2>2, <2>3, <2>4, <2>5, <2>6 DEF TypeOK
  <1>2. CASE TickStartDrive
    <2>1. StopTypes
      <3>1. CASE BeginStop(Blocked, nav, op) \/ BeginStop(Fatal("FAILURE"), nav, op)
        BY <3>1, StopOfRunning, ResultTypes
      <3>2. CASE BeginStop(Failed, "moving", TRUE)
        BY <3>2, BeginStopTypes, ResultTypes
      <3>3. CASE op' = TRUE /\ nav' = "moving" /\ UNCHANGED <<state, elapsed, stopResult, desk>>
        BY <3>3 DEF StopTypes, TypeOK, RunType, MissionType, PortType
      <3> QED BY <1>2, <3>1, <3>2, <3>3 DEF TickStartDrive
    <2>2. RunType'
      BY <1>2, <2>1 DEF TickStartDrive, TypeOK, RunType, StopTypes, Proceed
    <2>3. MissionType'
      BY <1>2, <2>1 DEF TickStartDrive, TypeOK, MissionType, StopTypes, Proceed
    <2>4. RecordType'
      BY <1>2 DEF TickStartDrive, TypeOK, RecordType, durable
    <2>5. PortType'
      BY <1>2, <2>1 DEF TickStartDrive, TypeOK, PortType, StopTypes
    <2>6. HistoryType'
      BY <1>2 DEF TickStartDrive, TypeOK, HistoryType, history
    <2> QED BY <2>2, <2>3, <2>4, <2>5, <2>6 DEF TypeOK
  <1>3. CASE TickDriveTimeout
    <2>1. StopTypes
      BY <1>3, StopOfRunning, ResultTypes DEF TickDriveTimeout
    <2>2. RunType'
      BY <1>3, <2>1 DEF TickDriveTimeout, TypeOK, RunType, StopTypes, Proceed
    <2>3. MissionType'
      BY <1>3, <2>1 DEF TickDriveTimeout, TypeOK, MissionType, StopTypes, Proceed
    <2>4. RecordType'
      BY <1>3 DEF TickDriveTimeout, TypeOK, RecordType, durable
    <2>5. PortType'
      BY <1>3, <2>1 DEF TickDriveTimeout, TypeOK, PortType, StopTypes
    <2>6. HistoryType'
      BY <1>3 DEF TickDriveTimeout, TypeOK, HistoryType, history
    <2> QED BY <2>2, <2>3, <2>4, <2>5, <2>6 DEF TypeOK
  <1>4. CASE TickDriveFailed
    <2>1. StopTypes
      BY <1>4, StopOfRunning, ResultTypes DEF TickDriveFailed
    <2>2. RunType'
      BY <1>4, <2>1 DEF TickDriveFailed, TypeOK, RunType, StopTypes, Proceed
    <2>3. MissionType'
      BY <1>4, <2>1 DEF TickDriveFailed, TypeOK, MissionType, StopTypes, Proceed
    <2>4. RecordType'
      BY <1>4 DEF TickDriveFailed, TypeOK, RecordType, durable
    <2>5. PortType'
      BY <1>4, <2>1 DEF TickDriveFailed, TypeOK, PortType, StopTypes
    <2>6. HistoryType'
      BY <1>4 DEF TickDriveFailed, TypeOK, HistoryType, history
    <2> QED BY <2>2, <2>3, <2>4, <2>5, <2>6 DEF TypeOK
  <1>5. CASE TickArrived
    <2>1. /\ phase' \in {"running", "closing"}
          /\ state' \in RuntimeState /\ elapsed' \in 0 .. Horizon
          /\ journal' \in [Mission -> Row] /\ errorCode' \in Code
          /\ lease' \in {"NONE", "PENDING", "GRANTED", "DENIED", "RELEASED"}
          /\ unacknowledged' \in BOOLEAN
      <3>1. CASE state = "NAVIGATE_TO_TARGET"
        BY <1>5, <3>1, EnterEffect
           DEF TickArrived, Proceed, TypeOK, RecordType, PortType, HistoryType
      <3>2. CASE state = "RETURN_HOME"
        <4>1. request \in Mission
          BY <1>5 DEF TickArrived, Proceed, RequestWhileActive
        <4>2. Finish(IF cancelRequested THEN stopResult ELSE OK, FALSE, review)
          BY <1>5, <3>2 DEF TickArrived
        <4>3. (IF cancelRequested THEN stopResult ELSE OK) \in Result /\ review \in BOOLEAN
          BY DEF TypeOK, MissionType
        <4>4. UNCHANGED <<state, elapsed>>
          BY <1>5, <3>2 DEF TickArrived
        <4> QED BY <4>1, <4>2, <4>3, <4>4, FinishEffect DEF TypeOK, RunType
      <3> QED BY <1>5, <3>1, <3>2 DEF TickArrived
    <2>2. RunType'
      BY <1>5, <2>1 DEF TickArrived, TypeOK, RunType
    <2>3. MissionType'
      BY <1>5 DEF TickArrived, TypeOK, MissionType, Proceed
    <2>4. RecordType'
      BY <1>5, <2>1 DEF TickArrived, TypeOK, RecordType
    <2>5. PortType'
      BY <1>5, <2>1 DEF TickArrived, TypeOK, PortType, body
    <2>6. HistoryType'
      BY <1>5, <2>1 DEF TickArrived, TypeOK, HistoryType
    <2> QED BY <2>2, <2>3, <2>4, <2>5, <2>6 DEF TypeOK
  <1>6. CASE TickWorkTimeout
    <2>1. StopTypes
      BY <1>6, StopOfRunning, ResultTypes DEF TickWorkTimeout
    <2>2. RunType'
      BY <1>6, <2>1 DEF TickWorkTimeout, TypeOK, RunType, StopTypes, Proceed
    <2>3. MissionType'
      BY <1>6, <2>1 DEF TickWorkTimeout, TypeOK, MissionType, StopTypes, Proceed
    <2>4. RecordType'
      BY <1>6 DEF TickWorkTimeout, TypeOK, RecordType, durable
    <2>5. PortType'
      BY <1>6, <2>1 DEF TickWorkTimeout, TypeOK, PortType, StopTypes
    <2>6. HistoryType'
      BY <1>6 DEF TickWorkTimeout, TypeOK, HistoryType, history
    <2> QED BY <2>2, <2>3, <2>4, <2>5, <2>6 DEF TypeOK
  <1>7. CASE TickWork
    <2>1. StopTypes
      <3>1. CASE desk' \in {"idle", "running"} /\ UNCHANGED <<state, elapsed, op, stopResult, nav>>
        BY <3>1 DEF StopTypes, TypeOK, RunType, MissionType, PortType
      <3>2. CASE Enter("POST_MISSION") /\ UNCHANGED <<desk, op, stopResult, nav>>
        <4>1. state' \in RuntimeState /\ elapsed' \in 0 .. Horizon
          BY <3>2, EnterEffect
        <4> QED BY <3>2, <4>1 DEF StopTypes, TypeOK, MissionType, PortType
      <3>3. CASE \E result \in DeskFailure : BeginStop(result, nav, op)
        BY <3>3, StopOfRunning, ResultTypes
      <3> QED BY <1>7, <3>1, <3>2, <3>3 DEF TickWork
    <2>2. RunType'
      BY <1>7, <2>1 DEF TickWork, TypeOK, RunType, StopTypes, Proceed
    <2>3. MissionType'
      BY <1>7, <2>1 DEF TickWork, TypeOK, MissionType, StopTypes, Proceed
    <2>4. RecordType'
      BY <1>7 DEF TickWork, TypeOK, RecordType, durable
    <2>5. PortType'
      BY <1>7, <2>1 DEF TickWork, TypeOK, PortType, StopTypes
    <2>6. HistoryType'
      BY <1>7 DEF TickWork, TypeOK, HistoryType, history
    <2> QED BY <2>2, <2>3, <2>4, <2>5, <2>6 DEF TypeOK
  <1>8. CASE TickPost
    <2>1. /\ phase' \in {"running", "closing"}
          /\ state' \in RuntimeState /\ elapsed' \in 0 .. Horizon
          /\ journal' \in [Mission -> Row] /\ errorCode' \in Code
          /\ lease' \in {"NONE", "PENDING", "GRANTED", "DENIED", "RELEASED"}
          /\ unacknowledged' \in BOOLEAN
      <3>1. CASE config.postMission = "return_home"
        BY <1>8, <3>1, EnterEffect
           DEF TickPost, Proceed, TypeOK, RecordType, PortType, HistoryType
      <3>2. CASE config.postMission = "wait_for_next"
        <4>1. request \in Mission
          BY <1>8 DEF TickPost, Proceed, RequestWhileActive
        <4>2. Finish(OK, FALSE, review) /\ UNCHANGED <<state, elapsed>>
          BY <1>8, <3>2 DEF TickPost
        <4>3. review \in BOOLEAN
          BY DEF TypeOK, MissionType
        <4> QED BY <4>1, <4>2, <4>3, FinishEffect DEF TypeOK, RunType
      <3> QED BY <1>8, <3>1, <3>2 DEF TickPost
    <2>2. RunType'
      BY <1>8, <2>1 DEF TickPost, TypeOK, RunType
    <2>3. MissionType'
      BY <1>8 DEF TickPost, TypeOK, MissionType, Proceed
    <2>4. RecordType'
      BY <1>8, <2>1 DEF TickPost, TypeOK, RecordType
    <2>5. PortType'
      BY <1>8, <2>1 DEF TickPost, TypeOK, PortType, body
    <2>6. HistoryType'
      BY <1>8, <2>1 DEF TickPost, TypeOK, HistoryType
    <2> QED BY <2>2, <2>3, <2>4, <2>5, <2>6 DEF TypeOK
  <1>9. CASE TickStopped
    <2>0. review' \in BOOLEAN
      BY <1>9 DEF TickStopped, TypeOK, MissionType
    <2>1. /\ phase' \in {"running", "closing"}
          /\ state' \in RuntimeState /\ elapsed' \in 0 .. Horizon
          /\ journal' \in [Mission -> Row] /\ errorCode' \in Code
          /\ lease' \in {"NONE", "PENDING", "GRANTED", "DENIED", "RELEASED"}
          /\ unacknowledged' \in BOOLEAN
      <3>1. CASE /\ Enter("RETURN_HOME")
                /\ UNCHANGED <<phase, journal, errorCode, lease, unacknowledged>>
        BY <1>9, <3>1, EnterEffect
           DEF TickStopped, TypeOK, RecordType, PortType, HistoryType
      <3>2. CASE Finish(stopResult, FALSE, review') /\ UNCHANGED <<state, elapsed>>
        <4>1. request \in Mission
          BY <1>9 DEF TickStopped, RequestWhileActive
        <4>2. stopResult \in Result
          BY DEF TypeOK, MissionType
        <4> QED BY <2>0, <3>2, <4>1, <4>2, FinishEffect DEF TypeOK, RunType
      <3> QED BY <1>9, <3>1, <3>2 DEF TickStopped
    <2>2. RunType'
      BY <1>9, <2>1 DEF TickStopped, TypeOK, RunType
    <2>3. MissionType'
      BY <1>9, <2>0 DEF TickStopped, TypeOK, MissionType
    <2>4. RecordType'
      BY <1>9, <2>1 DEF TickStopped, TypeOK, RecordType
    <2>5. PortType'
      BY <1>9, <2>1 DEF TickStopped, TypeOK, PortType, body
    <2>6. HistoryType'
      BY <1>9, <2>1 DEF TickStopped, TypeOK, HistoryType
    <2> QED BY <2>2, <2>3, <2>4, <2>5, <2>6 DEF TypeOK
  <1>10. CASE TickStopTimeout
    <2>1. /\ phase' \in {"running", "closing"}
          /\ state' \in RuntimeState /\ elapsed' \in 0 .. Horizon
          /\ journal' \in [Mission -> Row] /\ errorCode' \in Code
          /\ lease' \in {"NONE", "PENDING", "GRANTED", "DENIED", "RELEASED"}
          /\ unacknowledged' \in BOOLEAN
      <3>1. request \in Mission
        BY <1>10 DEF TickStopTimeout, RequestWhileActive
      <3>2. /\ Finish(IF stopResult.status = "FATAL" THEN stopResult ELSE Fatal("FAILURE"),
                     TRUE, review)
            /\ UNCHANGED <<state, elapsed>>
        BY <1>10 DEF TickStopTimeout
      <3>3. /\ (IF stopResult.status = "FATAL" THEN stopResult ELSE Fatal("FAILURE")) \in Result
            /\ review \in BOOLEAN
        BY ResultTypes DEF TypeOK, MissionType
      <3> QED BY <3>1, <3>2, <3>3, FinishEffect DEF TypeOK, RunType
    <2>2. RunType'
      BY <1>10, <2>1 DEF TickStopTimeout, TypeOK, RunType
    <2>3. MissionType'
      BY <1>10 DEF TickStopTimeout, TypeOK, MissionType, mission
    <2>4. RecordType'
      BY <1>10, <2>1 DEF TickStopTimeout, TypeOK, RecordType
    <2>5. PortType'
      BY <1>10, <2>1 DEF TickStopTimeout, TypeOK, PortType, body
    <2>6. HistoryType'
      BY <1>10, <2>1 DEF TickStopTimeout, TypeOK, HistoryType
    <2> QED BY <2>2, <2>3, <2>4, <2>5, <2>6 DEF TypeOK
  <1> QED BY <1>1, <1>2, <1>3, <1>4, <1>5, <1>6, <1>7, <1>8, <1>9, <1>10 DEF Tick

\* tick() when an adapter raises inside it.
LEMMA TypeRaises ==
    ASSUME TypeOK, RequestWhileActive, TickRaises
    PROVE  TypeOK'
  <1> USE Constants
  <1>1. CASE state \in Active
    <2>1. /\ BeginStop(Fatal("FAILURE"), nav, op)
          /\ UNCHANGED <<phase, errorCode, durable, lease, unacknowledged>>
      BY <1>1 DEF TickRaises
    <2>2. StopTypes
      BY <2>1, StopOfRunning, ResultTypes
    <2>3. RunType'
      BY <2>1, <2>2 DEF TickRaises, TypeOK, RunType, StopTypes
    <2>4. MissionType'
      BY <2>1, <2>2 DEF TickRaises, TypeOK, MissionType, StopTypes
    <2>5. RecordType'
      BY <2>1, <2>2 DEF TickRaises, TypeOK, RecordType, durable, durable
    <2>6. PortType'
      BY <2>1, <2>2 DEF TickRaises, TypeOK, PortType, StopTypes
    <2>7. HistoryType'
      BY <2>1, <2>2 DEF TickRaises, TypeOK, HistoryType
    <2> QED BY <2>3, <2>4, <2>5, <2>6, <2>7 DEF TypeOK
  <1>2. CASE state = "CANCELLING"
    <2>1. /\ Finish(Fatal("FAILURE"), TRUE, review)
          /\ UNCHANGED <<state, elapsed, op, stopResult, nav, desk, savedError>>
      BY <1>2 DEF TickRaises
    <2>2. request \in Mission /\ review \in BOOLEAN
      BY <1>2 DEF TickRaises, TypeOK, MissionType, RequestWhileActive
    <2>3. /\ phase' = "closing" /\ journal' \in [Mission -> Row] /\ errorCode' \in Code
          /\ lease' \in {"NONE", "RELEASED"} /\ unacknowledged' \in BOOLEAN
      BY <2>1, <2>2, FinishEffect, ResultTypes
    <2>4. RunType'
      BY <2>1, <2>3 DEF TickRaises, TypeOK, RunType
    <2>5. MissionType'
      BY <2>1, <2>3 DEF TickRaises, TypeOK, MissionType
    <2>6. RecordType'
      BY <2>1, <2>3 DEF TickRaises, TypeOK, RecordType, durable
    <2>7. PortType'
      BY <2>1, <2>3 DEF TickRaises, TypeOK, PortType
    <2>8. HistoryType'
      BY <2>1, <2>3 DEF TickRaises, TypeOK, HistoryType
    <2> QED BY <2>4, <2>5, <2>6, <2>7, <2>8 DEF TypeOK
  <1>3. CASE state \in {"IDLE", "ERROR"}
    <2>1. /\ errorCode' = "FAILURE" /\ savedError' = "FAILURE" /\ Enter("ERROR")
          /\ UNCHANGED <<phase, op, stopResult, nav, desk, journal, lease, unacknowledged>>
      BY <1>3 DEF TickRaises
    <2>2. state' \in RuntimeState /\ elapsed' \in 0 .. Horizon
      BY <2>1, EnterEffect
    <2>3. RunType'
      BY <2>1, <2>2 DEF TickRaises, TypeOK, RunType
    <2>4. MissionType'
      BY <2>1, <2>2 DEF TickRaises, TypeOK, MissionType
    <2>5. RecordType'
      BY <2>1, <2>2 DEF TickRaises, TypeOK, RecordType, durable
    <2>6. PortType'
      BY <2>1, <2>2 DEF TickRaises, TypeOK, PortType
    <2>7. HistoryType'
      BY <2>1, <2>2 DEF TickRaises, TypeOK, HistoryType
    <2> QED BY <2>3, <2>4, <2>5, <2>6, <2>7 DEF TypeOK
  <1> QED BY <1>1, <1>2, <1>3 DEF TickRaises

\* The clock since _enter stays within its bound.
LEMMA ClockStep == \A n \in 0 .. Horizon : n < Horizon => n + 1 \in 0 .. Horizon
  <1>1. Horizon \in Nat
    BY RuntimeAssumption
  <1> QED BY <1>1

\* The surroundings.
LEMMA TypeSurroundings == TypeOK /\ Surroundings => TypeOK'
  <1> SUFFICES ASSUME TypeOK, Surroundings PROVE TypeOK'
    OBVIOUS
  <1> USE Constants
  <1>1. CASE NavEnds
    <2>1. RunType'
      BY <1>1 DEF NavEnds, TypeOK, RunType
    <2>2. MissionType'
      BY <1>1 DEF NavEnds, TypeOK, MissionType, mission
    <2>3. RecordType'
      BY <1>1 DEF NavEnds, TypeOK, RecordType, durable
    <2>4. PortType'
      BY <1>1 DEF NavEnds, TypeOK, PortType
    <2>5. HistoryType'
      BY <1>1 DEF NavEnds, TypeOK, HistoryType, history
    <2> QED BY <2>1, <2>2, <2>3, <2>4, <2>5 DEF TypeOK
  <1>2. CASE DeskEnds
    <2>1. RunType'
      BY <1>2 DEF DeskEnds, TypeOK, RunType
    <2>2. MissionType'
      BY <1>2 DEF DeskEnds, TypeOK, MissionType, mission
    <2>3. RecordType'
      BY <1>2 DEF DeskEnds, TypeOK, RecordType, durable
    <2>4. PortType'
      BY <1>2 DEF DeskEnds, TypeOK, PortType
    <2>5. HistoryType'
      BY <1>2 DEF DeskEnds, TypeOK, HistoryType, history
    <2> QED BY <2>1, <2>2, <2>3, <2>4, <2>5 DEF TypeOK
  <1>3. CASE FeedbackChanges
    <2>1. RunType'
      BY <1>3 DEF FeedbackChanges, TypeOK, RunType
    <2>2. MissionType'
      BY <1>3 DEF FeedbackChanges, TypeOK, MissionType, mission
    <2>3. RecordType'
      BY <1>3 DEF FeedbackChanges, TypeOK, RecordType, durable
    <2>4. PortType'
      BY <1>3 DEF FeedbackChanges, TypeOK, PortType
    <2>5. HistoryType'
      BY <1>3 DEF FeedbackChanges, TypeOK, HistoryType, history
    <2> QED BY <2>1, <2>2, <2>3, <2>4, <2>5 DEF TypeOK
  <1>4. CASE AuthorityChanges
    <2>1. RunType'
      BY <1>4 DEF AuthorityChanges, TypeOK, RunType
    <2>2. MissionType'
      BY <1>4 DEF AuthorityChanges, TypeOK, MissionType, mission
    <2>3. RecordType'
      BY <1>4 DEF AuthorityChanges, TypeOK, RecordType, durable
    <2>4. PortType'
      BY <1>4 DEF AuthorityChanges, TypeOK, PortType, body
    <2>5. HistoryType'
      BY <1>4 DEF AuthorityChanges, TypeOK, HistoryType, history
    <2> QED BY <2>1, <2>2, <2>3, <2>4, <2>5 DEF TypeOK
  <1>5. CASE Elapse
    <2>1. elapsed' \in 0 .. Horizon
      BY <1>5, ClockStep DEF Elapse, TypeOK, RunType
    <2>2. RunType'
      BY <1>5, <2>1 DEF Elapse, TypeOK, RunType
    <2>3. MissionType'
      BY <1>5 DEF Elapse, TypeOK, MissionType, mission
    <2>4. RecordType'
      BY <1>5 DEF Elapse, TypeOK, RecordType, durable
    <2>5. PortType'
      BY <1>5 DEF Elapse, TypeOK, PortType, body
    <2>6. HistoryType'
      BY <1>5 DEF Elapse, TypeOK, HistoryType, history
    <2> QED BY <2>2, <2>3, <2>4, <2>5, <2>6 DEF TypeOK
  <1> QED BY <1>1, <1>2, <1>3, <1>4, <1>5 DEF Surroundings

\* Crash and restart.
LEMMA TypeRestart == TypeOK /\ Restart => TypeOK'
  <1> SUFFICES ASSUME TypeOK, Restart PROVE TypeOK'
    OBVIOUS
  <1> USE Constants
  <1>1. CASE Crash
    <2>1. RunType'
      BY <1>1 DEF Crash, TypeOK, RunType
    <2>2. MissionType'
      BY <1>1 DEF Crash, TypeOK, MissionType
    <2>3. RecordType'
      BY <1>1 DEF Crash, TypeOK, RecordType, durable
    <2>4. PortType'
      BY <1>1 DEF Crash, TypeOK, PortType, body
    <2>5. HistoryType'
      BY <1>1 DEF Crash, TypeOK, HistoryType
    <2> QED BY <2>1, <2>2, <2>3, <2>4, <2>5 DEF TypeOK
  <1>2. CASE BootInterrupt
    <2>1. RunType'
      BY <1>2 DEF BootInterrupt, TypeOK, RunType
    <2>2. MissionType'
      BY <1>2 DEF BootInterrupt, TypeOK, MissionType, mission
    <2>3. RecordType'
      BY <1>2 DEF BootInterrupt, TypeOK, RecordType
    <2>4. PortType'
      BY <1>2 DEF BootInterrupt, TypeOK, PortType, body
    <2>5. HistoryType'
      BY <1>2 DEF BootInterrupt, TypeOK, HistoryType
    <2> QED BY <2>1, <2>2, <2>3, <2>4, <2>5 DEF TypeOK
  <1>3. CASE BootLatch
    <2>1. state' \in RuntimeState /\ elapsed' \in 0 .. Horizon
      BY <1>3, EnterEffect DEF BootLatch
    <2>2. RunType'
      BY <1>3, <2>1 DEF BootLatch, TypeOK, RunType
    <2>3. MissionType'
      BY <1>3 DEF BootLatch, TypeOK, MissionType, mission
    <2>4. RecordType'
      BY <1>3 DEF BootLatch, TypeOK, RecordType
    <2>5. PortType'
      BY <1>3 DEF BootLatch, TypeOK, PortType, body
    <2>6. HistoryType'
      BY <1>3 DEF BootLatch, TypeOK, HistoryType, history
    <2> QED BY <2>2, <2>3, <2>4, <2>5, <2>6 DEF TypeOK
  <1>4. CASE BootClean
    <2>1. state' \in RuntimeState /\ elapsed' \in 0 .. Horizon
      BY <1>4, EnterEffect DEF BootClean
    <2>2. RunType'
      BY <1>4, <2>1 DEF BootClean, TypeOK, RunType
    <2>3. MissionType'
      BY <1>4 DEF BootClean, TypeOK, MissionType, mission
    <2>4. RecordType'
      BY <1>4 DEF BootClean, TypeOK, RecordType, durable
    <2>5. PortType'
      BY <1>4 DEF BootClean, TypeOK, PortType, body
    <2>6. HistoryType'
      BY <1>4 DEF BootClean, TypeOK, HistoryType, history
    <2> QED BY <2>2, <2>3, <2>4, <2>5, <2>6 DEF TypeOK
  <1> QED BY <1>1, <1>2, <1>3, <1>4 DEF Restart

\* The second commit of _finish.
LEMMA TypeFinishCommit == TypeOK /\ FinishCommit => TypeOK'
  <1> SUFFICES ASSUME TypeOK, FinishCommit PROVE TypeOK'
    OBVIOUS
  <1> USE Constants
  <1>1. state' \in RuntimeState /\ elapsed' \in 0 .. Horizon
    BY EnterEffect DEF FinishCommit
  <1>2. RunType'
    BY <1>1 DEF FinishCommit, TypeOK, RunType
  <1>3. MissionType'
    BY <1>1 DEF FinishCommit, TypeOK, MissionType, mission
  <1>4. RecordType'
    BY <1>1 DEF FinishCommit, TypeOK, RecordType
  <1>5. PortType'
    BY <1>1 DEF FinishCommit, TypeOK, PortType, body
  <1>6. HistoryType'
    BY <1>1 DEF FinishCommit, TypeOK, HistoryType, history
  <1> QED BY <1>2, <1>3, <1>4, <1>5, <1>6 DEF TypeOK

-----------------------------------------------------------------------------
(* The inductive invariant.                                                *)

\* A mission is active exactly while its states are run; a process that is down or
\* starting has none.
RunInv ==
    /\ phase = "running" => (state \in Active \cup {"CANCELLING"} <=> request # NoMission)
    /\ phase = "closing" => request # NoMission
    /\ phase \in {"booting", "down"} => request = NoMission

\* The journal agrees with the request, and no report is missing while one is committed.
JournalInv ==
    /\ JournalMatchesRequest
    /\ phase \in {"closing", "booting"} => \A m \in Mission : journal[m] # Open

\* Which part may move in which state.
BodyInv ==
    /\ BaseOrArm
    /\ phase = "running" /\ state \in Driving \cup {"POST_MISSION"} => desk = "idle"
    /\ phase = "running" /\ state \in {"WORKING", "POST_MISSION"} => nav = "idle"

\* A revoked mission is being stopped, with a result that will not read as a success, and
\* only a cancelled one keeps its return.
RevokedInv ==
    /\ StopLeavesOnlyTheReturn
    /\ returnAfterCancel => cancelRequested
    /\ phase = "running" /\ state \in Active => ~returnAfterCancel
    /\ phase = "running" /\ request # NoMission /\ revoked
         => stopResult.status \in {"BLOCKED", "FATAL"}
    /\ phase \in {"booting", "down"} => ~revoked

\* A returned lease: the mission is over and nothing moves.
LeaseInv ==
    lease = "RELEASED" =>
      /\ Supervised /\ nav = "idle" /\ desk = "idle"
      /\ phase \in {"running", "closing"}
      /\ phase = "running" => state \in {"IDLE", "ERROR"}

Inv == TypeOK /\ RunInv /\ JournalInv /\ BodyInv /\ RevokedInv /\ LeaseInv

\* _begin_stop without the types.
LEMMA StopEffect ==
    ASSUME NEW result, NEW part, NEW tracked, BeginStop(result, part, tracked)
    PROVE  /\ state' = "CANCELLING"
           /\ nav' = "idle" <=> part = "idle"
           /\ desk' = "idle" <=> desk = "idle"
           /\ stopResult' \in {result, Fatal("FAILURE")}
  <1>1. state' = "CANCELLING"
    BY DEF BeginStop, EnterStop, Enter
  <1>2. PICK n \in BOOLEAN, d \in BOOLEAN :
          /\ nav' = IF tracked THEN HaltOf(part, n) ELSE part
          /\ desk' = IF tree THEN HaltOf(desk, d) ELSE desk
          /\ stopResult' = IF (n \/ d) /\ result.status # "FATAL"
                           THEN Fatal("FAILURE") ELSE result
    BY DEF BeginStop
  <1> QED BY <1>1, <1>2, HaltEffect

\* RunInv is kept by every step.
LEMMA RunInvStep ==
    ASSUME TypeOK, RunInv, [Next]_vars
    PROVE  RunInv'
  <1>1. ASSUME NEW m \in Mission, Offer(m) PROVE RunInv'
    BY <1>1, Constants DEF Offer, Enter, Idle, RunInv
  <1>2. CASE Cancel
    BY <1>2, StopEffect DEF Cancel, RunInv
  <1>3. CASE ResetError
    BY <1>3 DEF ResetError, Enter, RunInv
  <1>4. CASE SupervisorStop
    BY <1>4, StopEffect DEF SupervisorStop, Revoke, RunInv
  <1>5. ASSUME NEW c \in HardwareCode, SafetyFault(c) PROVE RunInv'
    BY <1>5, StopEffect DEF SafetyFault, Enter, RunInv
  <1>6. ASSUME NEW c \in HardwareCode, SafetyReleased(c) PROVE RunInv'
    BY <1>6 DEF SafetyReleased, RunInv
  <1>7. CASE TickRevoked
    BY <1>7, StopEffect DEF TickRevoked, Revoke, RunInv
  <1>8. CASE TickStartDrive
    BY <1>8, StopEffect DEF TickStartDrive, Proceed, RunInv
  <1>9. CASE TickDriveTimeout
    BY <1>9, StopEffect DEF TickDriveTimeout, Proceed, RunInv
  <1>10. CASE TickDriveFailed
    BY <1>10, StopEffect DEF TickDriveFailed, Proceed, RunInv
  <1>11. CASE TickArrived
    BY <1>11 DEF TickArrived, Enter, Proceed, Finish, RunInv
  <1>12. CASE TickWorkTimeout
    BY <1>12, StopEffect DEF TickWorkTimeout, Proceed, RunInv
  <1>13. CASE TickWork
    BY <1>13, StopEffect DEF TickWork, Enter, Proceed, RunInv
  <1>14. CASE TickPost
    BY <1>14 DEF TickPost, Enter, Proceed, Finish, RunInv
  <1>15. CASE TickStopped
    BY <1>15 DEF TickStopped, Enter, Finish, RunInv
  <1>16. CASE TickStopTimeout
    BY <1>16 DEF TickStopTimeout, Finish, RunInv
  <1>17. CASE TickRaises
    BY <1>17, StopEffect DEF TickRaises, Enter, Finish, RunInv
  <1>18. CASE FinishCommit
    BY <1>18 DEF FinishCommit, Enter, RunInv
  <1>19. CASE NavEnds
    BY <1>19 DEF NavEnds, RunInv
  <1>20. CASE DeskEnds
    BY <1>20 DEF DeskEnds, RunInv
  <1>21. CASE FeedbackChanges
    BY <1>21 DEF FeedbackChanges, RunInv
  <1>22. CASE AuthorityChanges
    BY <1>22 DEF AuthorityChanges, RunInv
  <1>23. CASE Elapse
    BY <1>23 DEF Elapse, RunInv
  <1>24. CASE Crash
    BY <1>24 DEF Crash, RunInv
  <1>25. CASE BootInterrupt
    BY <1>25 DEF BootInterrupt, RunInv
  <1>26. CASE BootLatch
    BY <1>26 DEF BootLatch, Enter, RunInv
  <1>27. CASE BootClean
    BY <1>27 DEF BootClean, Enter, RunInv
  <1>28. CASE UNCHANGED vars
    BY <1>28 DEF vars, RunInv
  <1> QED
    BY <1>1, <1>2, <1>3, <1>4, <1>5, <1>6, <1>7, <1>8, <1>9, <1>10, <1>11, <1>12, <1>13,
       <1>14, <1>15, <1>16, <1>17, <1>18, <1>19, <1>20, <1>21, <1>22, <1>23, <1>24, <1>25,
       <1>26, <1>27, <1>28
    DEF Next, Requests, Tick, Surroundings, Restart

\* _finish without the types.
LEMMA ReportEffect ==
    ASSUME NEW result, NEW force, NEW needsReview, TypeOK, request \in Mission,
           Finish(result, force, needsReview)
    PROVE  /\ phase' = "closing"
           /\ journal'[request].outcome \in Outcome
           /\ \A m \in Mission \ {request} : journal'[m] = journal[m]
  <1>1. OutcomeOf(result, needsReview) \in Outcome
    BY DEF OutcomeOf, Outcome
  <1> QED BY <1>1 DEF Finish, TypeOK, RecordType

\* Only a safety fault and the arm's own E-stop stop a mission with a hardware code.
LEMMA ResultCodes ==
    /\ \A r \in Unsuccessful \cup {OK, Failed, Blocked, Cancelled, Revoked, Fatal("FAILURE")} :
          r.code \notin HardwareCode
    /\ Revoked.status = "BLOCKED"
    /\ \A c : Fatal(c).status = "FATAL"
  BY DEF Unsuccessful, OK, Failed, Blocked, Cancelled, Revoked, Fatal, HardwareCode

\* An admitted row is no terminal report.
LEMMA OpenIsNotReported ==
    /\ Open.outcome \notin Outcome /\ Absent.outcome \notin Outcome
    /\ Open # Absent /\ Interrupted # Open /\ Interrupted # Absent
  BY DEF Open, Absent, Interrupted, Outcome

\* JournalInv is kept by every step.
LEMMA JournalInvStep ==
    ASSUME TypeOK, RunInv, JournalInv, [Next]_vars
    PROVE  JournalInv'
  <1>1. ASSUME NEW m \in Mission, Offer(m) PROVE JournalInv'
    BY <1>1, Constants
       DEF Offer, Idle, RunInv, JournalInv, JournalMatchesRequest, TypeOK, RecordType
  <1>2. CASE Cancel
    BY <1>2 DEF Cancel, durable, JournalInv, JournalMatchesRequest
  <1>3. CASE ResetError
    BY <1>3 DEF ResetError, RunInv, JournalInv, JournalMatchesRequest
  <1>4. CASE SupervisorStop
    BY <1>4 DEF SupervisorStop, durable, JournalInv, JournalMatchesRequest
  <1>5. ASSUME NEW c \in HardwareCode, SafetyFault(c) PROVE JournalInv'
    BY <1>5 DEF SafetyFault, JournalInv, JournalMatchesRequest
  <1>6. ASSUME NEW c \in HardwareCode, SafetyReleased(c) PROVE JournalInv'
    BY <1>6 DEF SafetyReleased, JournalInv, JournalMatchesRequest
  <1>7. CASE TickRevoked
    BY <1>7 DEF TickRevoked, durable, JournalInv, JournalMatchesRequest
  <1>8. CASE TickStartDrive
    BY <1>8 DEF TickStartDrive, durable, JournalInv, JournalMatchesRequest, Reported
  <1>9. CASE TickDriveTimeout
    BY <1>9 DEF TickDriveTimeout, durable, JournalInv, JournalMatchesRequest, Reported
  <1>10. CASE TickDriveFailed
    BY <1>10 DEF TickDriveFailed, durable, JournalInv, JournalMatchesRequest, Reported
  <1>11. CASE TickArrived
    <2>1. request \in Mission /\ phase = "running" /\ UNCHANGED request
      BY <1>11 DEF TickArrived, RunInv, TypeOK, RunType, Proceed
    <2>2. CASE UNCHANGED <<phase, journal>>
      BY <2>1, <2>2 DEF JournalInv, JournalMatchesRequest
    <2>3. ASSUME NEW r, NEW f, NEW n, Finish(r, f, n) PROVE JournalInv'
      BY <2>1, <2>3, ReportEffect, OpenIsNotReported, Constants
         DEF JournalInv, JournalMatchesRequest, Reported
    <2> QED BY <1>11, <2>2, <2>3 DEF TickArrived
  <1>12. CASE TickWorkTimeout
    BY <1>12 DEF TickWorkTimeout, durable, JournalInv, JournalMatchesRequest, Reported
  <1>13. CASE TickWork
    BY <1>13 DEF TickWork, durable, JournalInv, JournalMatchesRequest, Reported
  <1>14. CASE TickPost
    <2>1. request \in Mission /\ phase = "running" /\ UNCHANGED request
      BY <1>14 DEF TickPost, RunInv, TypeOK, RunType, Proceed
    <2>2. CASE UNCHANGED <<phase, journal>>
      BY <2>1, <2>2 DEF JournalInv, JournalMatchesRequest
    <2>3. ASSUME NEW r, NEW f, NEW n, Finish(r, f, n) PROVE JournalInv'
      BY <2>1, <2>3, ReportEffect, OpenIsNotReported, Constants
         DEF JournalInv, JournalMatchesRequest, Reported
    <2> QED BY <1>14, <2>2, <2>3 DEF TickPost
  <1>15. CASE TickStopped
    <2>1. request \in Mission /\ phase = "running" /\ UNCHANGED request
      BY <1>15 DEF TickStopped, RunInv, TypeOK, RunType
    <2>2. CASE UNCHANGED <<phase, journal>>
      BY <2>1, <2>2 DEF JournalInv, JournalMatchesRequest
    <2>3. ASSUME NEW r, NEW f, NEW n, Finish(r, f, n) PROVE JournalInv'
      BY <2>1, <2>3, ReportEffect, OpenIsNotReported, Constants
         DEF JournalInv, JournalMatchesRequest, Reported
    <2> QED BY <1>15, <2>2, <2>3 DEF TickStopped
  <1>16. CASE TickStopTimeout
    <2>1. request \in Mission /\ phase = "running" /\ UNCHANGED request
      BY <1>16 DEF TickStopTimeout, RunInv, TypeOK, RunType
    <2>2. CASE UNCHANGED <<phase, journal>>
      BY <2>1, <2>2 DEF JournalInv, JournalMatchesRequest
    <2>3. ASSUME NEW r, NEW f, NEW n, Finish(r, f, n) PROVE JournalInv'
      BY <2>1, <2>3, ReportEffect, OpenIsNotReported, Constants
         DEF JournalInv, JournalMatchesRequest, Reported
    <2> QED BY <1>16, <2>2, <2>3 DEF TickStopTimeout
  <1>17. CASE TickRaises
    <2>1. phase = "running" /\ UNCHANGED request
      BY <1>17 DEF TickRaises
    <2>2. CASE UNCHANGED <<phase, journal>>
      BY <2>1, <2>2 DEF JournalInv, JournalMatchesRequest
    <2>3. CASE state = "CANCELLING" /\ Finish(Fatal("FAILURE"), TRUE, review)
      <3>1. request \in Mission
        BY <2>1, <2>3 DEF RunInv, TypeOK, RunType
      <3> QED BY <2>1, <2>3, <3>1, ReportEffect, OpenIsNotReported, Constants
          DEF JournalInv, JournalMatchesRequest, Reported
    <2> QED BY <1>17, <2>2, <2>3 DEF TickRaises, durable
  <1>18. CASE FinishCommit
    BY <1>18, Constants DEF FinishCommit, JournalInv, JournalMatchesRequest
  <1>19. CASE NavEnds
    BY <1>19 DEF NavEnds, durable, JournalInv, JournalMatchesRequest, Reported
  <1>20. CASE DeskEnds
    BY <1>20 DEF DeskEnds, durable, JournalInv, JournalMatchesRequest, Reported
  <1>21. CASE FeedbackChanges
    BY <1>21 DEF FeedbackChanges, durable, JournalInv, JournalMatchesRequest, Reported
  <1>22. CASE AuthorityChanges
    BY <1>22 DEF AuthorityChanges, durable, JournalInv, JournalMatchesRequest, Reported
  <1>23. CASE Elapse
    BY <1>23 DEF Elapse, durable, JournalInv, JournalMatchesRequest
  <1>24. CASE Crash
    BY <1>24 DEF Crash, durable, JournalInv, JournalMatchesRequest
  <1>25. CASE BootInterrupt
    BY <1>25, OpenIsNotReported
       DEF BootInterrupt, JournalInv, JournalMatchesRequest, TypeOK, RecordType
  <1>26. CASE BootLatch
    BY <1>26, Constants DEF BootLatch, RunInv, JournalInv, JournalMatchesRequest
  <1>27. CASE BootClean
    BY <1>27, Constants DEF BootClean, durable, RunInv, JournalInv, JournalMatchesRequest
  <1>28. CASE UNCHANGED vars
    BY <1>28 DEF vars, durable, JournalInv, JournalMatchesRequest, Reported
  <1> QED
    BY <1>1, <1>2, <1>3, <1>4, <1>5, <1>6, <1>7, <1>8, <1>9, <1>10, <1>11, <1>12, <1>13,
       <1>14, <1>15, <1>16, <1>17, <1>18, <1>19, <1>20, <1>21, <1>22, <1>23, <1>24, <1>25,
       <1>26, <1>27, <1>28
    DEF Next, Requests, Tick, Surroundings, Restart

\* BodyInv is kept by every step.
LEMMA BodyInvStep ==
    ASSUME BodyInv, [Next]_vars
    PROVE  BodyInv'
  <1>1. ASSUME NEW m \in Mission, Offer(m) PROVE BodyInv'
    BY <1>1 DEF Offer, Enter, Safe, BodyInv, BaseOrArm
  <1>2. CASE Cancel
    BY <1>2, StopEffect DEF Cancel, BodyInv, BaseOrArm
  <1>3. CASE ResetError
    BY <1>3 DEF ResetError, Enter, body, BodyInv, BaseOrArm
  <1>4. CASE SupervisorStop
    BY <1>4, StopEffect DEF SupervisorStop, Revoke, BodyInv, BaseOrArm
  <1>5. ASSUME NEW c \in HardwareCode, SafetyFault(c) PROVE BodyInv'
    BY <1>5, StopEffect DEF SafetyFault, Enter, BodyInv, BaseOrArm
  <1>6. ASSUME NEW c \in HardwareCode, SafetyReleased(c) PROVE BodyInv'
    BY <1>6 DEF SafetyReleased, body, BodyInv, BaseOrArm
  <1>7. CASE TickRevoked
    BY <1>7, StopEffect DEF TickRevoked, Revoke, BodyInv, BaseOrArm
  <1>8. CASE TickStartDrive
    BY <1>8, StopEffect DEF TickStartDrive, Proceed, BodyInv, BaseOrArm
  <1>9. CASE TickDriveTimeout
    BY <1>9, StopEffect DEF TickDriveTimeout, BodyInv, BaseOrArm
  <1>10. CASE TickDriveFailed
    BY <1>10, StopEffect DEF TickDriveFailed, BodyInv, BaseOrArm
  <1>11. CASE TickArrived
    BY <1>11 DEF TickArrived, Finish, NavStopped, body, BodyInv, BaseOrArm
  <1>12. CASE TickWorkTimeout
    BY <1>12, StopEffect DEF TickWorkTimeout, BodyInv, BaseOrArm
  <1>13. CASE TickWork
    BY <1>13, StopEffect DEF TickWork, Proceed, BodyInv, BaseOrArm
  <1>14. CASE TickPost
    BY <1>14 DEF TickPost, Proceed, body, BodyInv, BaseOrArm
  <1>15. CASE TickStopped
    BY <1>15 DEF TickStopped, Enter, Safe, body, BodyInv, BaseOrArm
  <1>16. CASE TickStopTimeout
    BY <1>16 DEF TickStopTimeout, body, BodyInv, BaseOrArm
  <1>17. CASE TickRaises
    BY <1>17, StopEffect DEF TickRaises, Enter, BodyInv, BaseOrArm
  <1>18. CASE FinishCommit
    BY <1>18 DEF FinishCommit, Enter, body, BodyInv, BaseOrArm
  <1>19. CASE NavEnds
    BY <1>19 DEF NavEnds, BodyInv, BaseOrArm
  <1>20. CASE DeskEnds
    BY <1>20 DEF DeskEnds, BodyInv, BaseOrArm
  <1>21. CASE FeedbackChanges
    BY <1>21 DEF FeedbackChanges, BodyInv, BaseOrArm
  <1>22. CASE AuthorityChanges
    BY <1>22 DEF AuthorityChanges, body, BodyInv, BaseOrArm
  <1>23. CASE Elapse
    BY <1>23 DEF Elapse, body, BodyInv, BaseOrArm
  <1>24. CASE Crash
    BY <1>24 DEF Crash, body, BodyInv, BaseOrArm
  <1>25. CASE BootInterrupt
    BY <1>25 DEF BootInterrupt, body, BodyInv, BaseOrArm
  <1>26. CASE BootLatch
    BY <1>26 DEF BootLatch, Enter, body, BodyInv, BaseOrArm
  <1>27. CASE BootClean
    BY <1>27 DEF BootClean, Enter, body, BodyInv, BaseOrArm
  <1>28. CASE UNCHANGED vars
    BY <1>28 DEF vars, body, BodyInv, BaseOrArm
  <1> QED
    BY <1>1, <1>2, <1>3, <1>4, <1>5, <1>6, <1>7, <1>8, <1>9, <1>10, <1>11, <1>12, <1>13,
       <1>14, <1>15, <1>16, <1>17, <1>18, <1>19, <1>20, <1>21, <1>22, <1>23, <1>24, <1>25,
       <1>26, <1>27, <1>28
    DEF Next, Requests, Tick, Surroundings, Restart

\* RevokedInv is kept by every step.
LEMMA RevokedInvStep ==
    ASSUME TypeOK, RunInv, RevokedInv, [Next]_vars
    PROVE  RevokedInv'
  <1>1. ASSUME NEW m \in Mission, Offer(m) PROVE RevokedInv'
    BY <1>1, ResultCodes DEF Offer, Enter, Idle, RevokedInv, history,
           StopLeavesOnlyTheReturn
  <1>2. CASE Cancel
    BY <1>2, StopEffect, ResultCodes DEF Cancel, RevokedInv, history,
           StopLeavesOnlyTheReturn
  <1>3. CASE ResetError
    BY <1>3 DEF ResetError, Enter, mission, RevokedInv, history, StopLeavesOnlyTheReturn
  <1>4. CASE SupervisorStop
    BY <1>4, StopEffect, ResultCodes
       DEF SupervisorStop, Revoke, RevokedInv, history, StopLeavesOnlyTheReturn
  <1>5. ASSUME NEW c \in HardwareCode, SafetyFault(c) PROVE RevokedInv'
    BY <1>5, StopEffect, ResultCodes DEF SafetyFault, RevokedInv, history,
           StopLeavesOnlyTheReturn
  <1>6. ASSUME NEW c \in HardwareCode, SafetyReleased(c) PROVE RevokedInv'
    BY <1>6 DEF SafetyReleased, mission, RevokedInv, history, StopLeavesOnlyTheReturn
  <1>7. CASE TickRevoked
    BY <1>7, StopEffect, ResultCodes
       DEF TickRevoked, Revoke, RevokedInv, history, StopLeavesOnlyTheReturn
  <1>8. CASE TickStartDrive
    BY <1>8, StopEffect, ResultCodes
       DEF TickStartDrive, Proceed, RevokedInv, history, StopLeavesOnlyTheReturn
  <1>9. CASE TickDriveTimeout
    BY <1>9, StopEffect, ResultCodes
       DEF TickDriveTimeout, Proceed, RevokedInv, history, StopLeavesOnlyTheReturn
  <1>10. CASE TickDriveFailed
    BY <1>10, StopEffect, ResultCodes
       DEF TickDriveFailed, Proceed, RevokedInv, history, StopLeavesOnlyTheReturn
  <1>11. CASE TickArrived
    BY <1>11 DEF TickArrived, Finish, RevokedInv, history, StopLeavesOnlyTheReturn
  <1>12. CASE TickWorkTimeout
    BY <1>12, StopEffect, ResultCodes
       DEF TickWorkTimeout, Proceed, RevokedInv, history, StopLeavesOnlyTheReturn
  <1>13. CASE TickWork
    BY <1>13, StopEffect, ResultCodes
       DEF TickWork, Proceed, RevokedInv, history, StopLeavesOnlyTheReturn
  <1>14. CASE TickPost
    BY <1>14 DEF TickPost, Proceed, RunInv, RevokedInv, history, StopLeavesOnlyTheReturn
  <1>15. CASE TickStopped
    <2>1. /\ phase = "running" /\ state = "CANCELLING"
          /\ UNCHANGED <<request, stopResult, cancelRequested, revoked, stopAsked>>
      BY <1>15 DEF TickStopped
    <2>2. CASE /\ returnAfterCancel /\ ~returnAfterCancel'
               /\ state' = "RETURN_HOME" /\ UNCHANGED phase
      <3>1. request # NoMission /\ cancelRequested /\ ~AuthorityLost
        BY <2>1, <2>2 DEF RunInv, RevokedInv, StopLeavesOnlyTheReturn
      <3> QED BY <2>1, <2>2, <3>1 DEF RevokedInv, StopLeavesOnlyTheReturn
    <2>3. CASE phase' = "closing" /\ UNCHANGED returnAfterCancel
      BY <2>1, <2>3 DEF RevokedInv, StopLeavesOnlyTheReturn
    <2> QED BY <1>15, <2>2, <2>3 DEF TickStopped, Finish, Enter
  <1>16. CASE TickStopTimeout
    BY <1>16
       DEF TickStopTimeout, Finish, mission, RevokedInv, history, StopLeavesOnlyTheReturn
  <1>17. CASE TickRaises
    BY <1>17, StopEffect, ResultCodes
       DEF TickRaises, Finish, Enter, RevokedInv, history, StopLeavesOnlyTheReturn
  <1>18. CASE FinishCommit
    BY <1>18 DEF FinishCommit, Enter, mission, RevokedInv, history, StopLeavesOnlyTheReturn
  <1>19. CASE NavEnds
    BY <1>19 DEF NavEnds, mission, RevokedInv, history, StopLeavesOnlyTheReturn
  <1>20. CASE DeskEnds
    BY <1>20 DEF DeskEnds, mission, RevokedInv, history, StopLeavesOnlyTheReturn
  <1>21. CASE FeedbackChanges
    BY <1>21 DEF FeedbackChanges, mission, RevokedInv, history, StopLeavesOnlyTheReturn
  <1>22. CASE AuthorityChanges
    BY <1>22 DEF AuthorityChanges, mission, RevokedInv, history, StopLeavesOnlyTheReturn
  <1>23. CASE Elapse
    BY <1>23 DEF Elapse, mission, RevokedInv, history, StopLeavesOnlyTheReturn
  <1>24. CASE Crash
    BY <1>24 DEF Crash, RevokedInv, history, StopLeavesOnlyTheReturn
  <1>25. CASE BootInterrupt
    BY <1>25 DEF BootInterrupt, mission, RevokedInv, history, StopLeavesOnlyTheReturn
  <1>26. CASE BootLatch
    BY <1>26 DEF BootLatch, Enter, mission, RunInv, RevokedInv, history,
           StopLeavesOnlyTheReturn
  <1>27. CASE BootClean
    BY <1>27 DEF BootClean, Enter, mission, RunInv, RevokedInv, history,
           StopLeavesOnlyTheReturn
  <1>28. CASE UNCHANGED vars
    BY <1>28 DEF vars, mission, RevokedInv, history, StopLeavesOnlyTheReturn
  <1> QED
    BY <1>1, <1>2, <1>3, <1>4, <1>5, <1>6, <1>7, <1>8, <1>9, <1>10, <1>11, <1>12, <1>13,
       <1>14, <1>15, <1>16, <1>17, <1>18, <1>19, <1>20, <1>21, <1>22, <1>23, <1>24, <1>25,
       <1>26, <1>27, <1>28
    DEF Next, Requests, Tick, Surroundings, Restart

\* LeaseInv is kept by every step.
LEMMA LeaseInvStep ==
    ASSUME LeaseInv, RunInv, [Next]_vars
    PROVE  LeaseInv'
  <1>1. ASSUME NEW m \in Mission, Offer(m) PROVE LeaseInv'
    BY <1>1 DEF Offer, LeaseInv
  <1>2. CASE Cancel
    BY <1>2 DEF Cancel, LeaseInv
  <1>3. CASE ResetError
    BY <1>3 DEF ResetError, Enter, body, LeaseInv, Supervised
  <1>4. CASE SupervisorStop
    BY <1>4 DEF SupervisorStop, Supervised, LeaseInv
  <1>5. ASSUME NEW c \in HardwareCode, SafetyFault(c) PROVE LeaseInv'
    BY <1>5 DEF SafetyFault, LeaseInv
  <1>6. ASSUME NEW c \in HardwareCode, SafetyReleased(c) PROVE LeaseInv'
    BY <1>6 DEF SafetyReleased, body, LeaseInv, Supervised
  <1>7. CASE TickRevoked
    BY <1>7 DEF TickRevoked, LeaseInv
  <1>8. CASE TickStartDrive
    BY <1>8 DEF TickStartDrive, Proceed, LeaseInv
  <1>9. CASE TickDriveTimeout
    BY <1>9 DEF TickDriveTimeout, Proceed, LeaseInv
  <1>10. CASE TickDriveFailed
    BY <1>10 DEF TickDriveFailed, Proceed, LeaseInv
  <1>11. CASE TickArrived
    BY <1>11
       DEF TickArrived, Finish, NavStopped, body, LeaseInv, ReturnedLease, Supervised,
           Stopped
  <1>12. CASE TickWorkTimeout
    BY <1>12 DEF TickWorkTimeout, Proceed, LeaseInv
  <1>13. CASE TickWork
    BY <1>13 DEF TickWork, Proceed, LeaseInv
  <1>14. CASE TickPost
    BY <1>14
       DEF TickPost, Proceed, Finish, body, LeaseInv, ReturnedLease, Supervised, Stopped,
           NavStopped
  <1>15. CASE TickStopped
    BY <1>15
       DEF TickStopped, Finish, Stopped, body, LeaseInv, ReturnedLease, Supervised,
           NavStopped
  <1>16. CASE TickStopTimeout
    BY <1>16 DEF TickStopTimeout, Finish, LeaseInv, ReturnedLease
  <1>17. CASE TickRaises
    BY <1>17
       DEF TickRaises, Enter, Finish, LeaseInv, ReturnedLease, Supervised, Stopped,
           NavStopped
  <1>18. CASE FinishCommit
    BY <1>18 DEF FinishCommit, Enter, body, LeaseInv, Supervised
  <1>19. CASE NavEnds
    BY <1>19 DEF NavEnds, LeaseInv
  <1>20. CASE DeskEnds
    BY <1>20 DEF DeskEnds, LeaseInv
  <1>21. CASE FeedbackChanges
    BY <1>21 DEF FeedbackChanges, LeaseInv, Supervised
  <1>22. CASE AuthorityChanges
    BY <1>22 DEF AuthorityChanges, LeaseInv
  <1>23. CASE Elapse
    BY <1>23 DEF Elapse, LeaseInv
  <1>24. CASE Crash
    BY <1>24 DEF Crash, LeaseInv
  <1>25. CASE BootInterrupt
    BY <1>25 DEF BootInterrupt, LeaseInv
  <1>26. CASE BootLatch
    BY <1>26 DEF BootLatch, LeaseInv
  <1>27. CASE BootClean
    BY <1>27 DEF BootClean, LeaseInv
  <1>28. CASE UNCHANGED vars
    BY <1>28 DEF vars, body, LeaseInv, Supervised
  <1> QED
    BY <1>1, <1>2, <1>3, <1>4, <1>5, <1>6, <1>7, <1>8, <1>9, <1>10, <1>11, <1>12, <1>13,
       <1>14, <1>15, <1>16, <1>17, <1>18, <1>19, <1>20, <1>21, <1>22, <1>23, <1>24, <1>25,
       <1>26, <1>27, <1>28
    DEF Next, Requests, Tick, Surroundings, Restart

-----------------------------------------------------------------------------
(* What a step may never do.                                               *)

\* Only a drive or a desk operation that is started under authority moves a part.
LEMMA MotionLemma ==
    ASSUME TypeOK, RunInv, RevokedInv, [Next]_vars
    PROVE  MotionStep
  <1>1. ASSUME NEW m \in Mission, Offer(m) PROVE MotionStep
    BY <1>1 DEF Offer, MotionStep
  <1>2. CASE Cancel
    BY <1>2, StopEffect DEF Cancel, MotionStep
  <1>3. CASE ResetError
    BY <1>3 DEF ResetError, body, MotionStep
  <1>4. CASE SupervisorStop
    BY <1>4, StopEffect DEF SupervisorStop, Revoke, MotionStep
  <1>5. ASSUME NEW c \in HardwareCode, SafetyFault(c) PROVE MotionStep
    BY <1>5, StopEffect DEF SafetyFault, MotionStep
  <1>6. ASSUME NEW c \in HardwareCode, SafetyReleased(c) PROVE MotionStep
    BY <1>6 DEF SafetyReleased, body, MotionStep
  <1>7. CASE TickRevoked
    BY <1>7, StopEffect DEF TickRevoked, Revoke, MotionStep
  <1>8. CASE TickStartDrive
    BY <1>8
       DEF TickStartDrive, Proceed, MotionStep, RunInv, RevokedInv,
           StopLeavesOnlyTheReturn
  <1>9. CASE TickDriveTimeout
    BY <1>9, StopEffect DEF TickDriveTimeout, MotionStep
  <1>10. CASE TickDriveFailed
    BY <1>10, StopEffect DEF TickDriveFailed, MotionStep
  <1>11. CASE TickArrived
    BY <1>11 DEF TickArrived, body, MotionStep
  <1>12. CASE TickWorkTimeout
    BY <1>12, StopEffect DEF TickWorkTimeout, MotionStep
  <1>13. CASE TickWork
    BY <1>13
       DEF TickWork, Proceed, MotionStep, RunInv, RevokedInv, StopLeavesOnlyTheReturn
  <1>14. CASE TickPost
    BY <1>14 DEF TickPost, body, MotionStep
  <1>15. CASE TickStopped
    BY <1>15 DEF TickStopped, body, MotionStep
  <1>16. CASE TickStopTimeout
    BY <1>16 DEF TickStopTimeout, body, MotionStep
  <1>17. CASE TickRaises
    BY <1>17, StopEffect DEF TickRaises, MotionStep
  <1>18. CASE FinishCommit
    BY <1>18 DEF FinishCommit, body, MotionStep
  <1>19. CASE NavEnds
    BY <1>19 DEF NavEnds, MotionStep
  <1>20. CASE DeskEnds
    BY <1>20 DEF DeskEnds, MotionStep
  <1>21. CASE FeedbackChanges
    BY <1>21 DEF FeedbackChanges, MotionStep
  <1>22. CASE AuthorityChanges
    BY <1>22 DEF AuthorityChanges, body, MotionStep
  <1>23. CASE Elapse
    BY <1>23 DEF Elapse, body, MotionStep
  <1>24. CASE Crash
    BY <1>24 DEF Crash, body, MotionStep
  <1>25. CASE BootInterrupt
    BY <1>25 DEF BootInterrupt, body, MotionStep
  <1>26. CASE BootLatch
    BY <1>26 DEF BootLatch, body, MotionStep
  <1>27. CASE BootClean
    BY <1>27 DEF BootClean, body, MotionStep
  <1>28. CASE UNCHANGED vars
    BY <1>28 DEF vars, body, MotionStep
  <1> QED
    BY <1>1, <1>2, <1>3, <1>4, <1>5, <1>6, <1>7, <1>8, <1>9, <1>10, <1>11, <1>12, <1>13,
       <1>14, <1>15, <1>16, <1>17, <1>18, <1>19, <1>20, <1>21, <1>22, <1>23, <1>24, <1>25,
       <1>26, <1>27, <1>28
    DEF Next, Requests, Tick, Surroundings, Restart

(* The four ways a step can treat the journal: not at all, an admission, the *)
(* interruption of a restart, or the report of the mission that is running.  *)
Admits ==
    \E m \in Mission : journal[m] = Absent /\ journal' = [journal EXCEPT ![m] = Open]

Interrupts ==
    /\ phase = "down"
    /\ \E m \in Mission :
          journal[m] = Open /\ journal' = [journal EXCEPT ![m] = Interrupted]

Reports ==
    /\ phase = "running" /\ request \in Mission
    /\ \E r, force, needsReview :
          /\ Finish(r, force, needsReview)
          /\ state = "CANCELLING" => r = stopResult \/ r.status = "FATAL"
          /\ force \/ r.status = "FATAL" \/ nav = "idle"

JournalMoves == UNCHANGED journal \/ Admits \/ Interrupts \/ Reports

\* Every step treats the journal in one of these ways.
LEMMA JournalMovesLemma ==
    ASSUME TypeOK, RunInv, BodyInv, [Next]_vars
    PROVE  JournalMoves
  <1>1. ASSUME NEW m \in Mission, Offer(m) PROVE JournalMoves
    BY <1>1 DEF Offer, JournalMoves, Admits
  <1>2. CASE Cancel
    BY <1>2 DEF Cancel, durable, JournalMoves
  <1>3. CASE ResetError
    BY <1>3 DEF ResetError, JournalMoves
  <1>4. CASE SupervisorStop
    BY <1>4 DEF SupervisorStop, durable, JournalMoves
  <1>5. ASSUME NEW c \in HardwareCode, SafetyFault(c) PROVE JournalMoves
    BY <1>5 DEF SafetyFault, JournalMoves
  <1>6. ASSUME NEW c \in HardwareCode, SafetyReleased(c) PROVE JournalMoves
    BY <1>6 DEF SafetyReleased, JournalMoves
  <1>7. CASE TickRevoked
    BY <1>7 DEF TickRevoked, durable, JournalMoves
  <1>8. CASE TickStartDrive
    BY <1>8 DEF TickStartDrive, durable, JournalMoves
  <1>9. CASE TickDriveTimeout
    BY <1>9 DEF TickDriveTimeout, durable, JournalMoves
  <1>10. CASE TickDriveFailed
    BY <1>10 DEF TickDriveFailed, durable, JournalMoves
  <1>11. CASE TickArrived
    <2>1. phase = "running" /\ request \in Mission
      BY <1>11 DEF TickArrived, RunInv, TypeOK, RunType, Proceed
    <2> QED BY <1>11, <2>1 DEF TickArrived, JournalMoves, Reports, Proceed, NavStopped
  <1>12. CASE TickWorkTimeout
    BY <1>12 DEF TickWorkTimeout, durable, JournalMoves
  <1>13. CASE TickWork
    BY <1>13 DEF TickWork, durable, JournalMoves
  <1>14. CASE TickPost
    <2>1. phase = "running" /\ request \in Mission
      BY <1>14 DEF TickPost, RunInv, TypeOK, RunType, Proceed
    <2> QED BY <1>14, <2>1 DEF TickPost, JournalMoves, Reports, Proceed, BodyInv
  <1>15. CASE TickStopped
    <2>1. phase = "running" /\ request \in Mission
      BY <1>15 DEF TickStopped, RunInv, TypeOK, RunType
    <2> QED BY <1>15, <2>1 DEF TickStopped, JournalMoves, Reports, Stopped, NavStopped
  <1>16. CASE TickStopTimeout
    <2>1. phase = "running" /\ request \in Mission
      BY <1>16 DEF TickStopTimeout, RunInv, TypeOK, RunType
    <2> QED BY <1>16, <2>1 DEF TickStopTimeout, JournalMoves, Reports, Fatal
  <1>17. CASE TickRaises
    <2>1. CASE UNCHANGED journal
      BY <2>1 DEF JournalMoves
    <2>2. CASE state = "CANCELLING" /\ Finish(Fatal("FAILURE"), TRUE, review)
      <3>1. phase = "running" /\ request \in Mission
        BY <1>17, <2>2 DEF TickRaises, RunInv, TypeOK, RunType
      <3> QED BY <2>2, <3>1, ResultCodes DEF JournalMoves, Reports
    <2> QED BY <1>17, <2>1, <2>2 DEF TickRaises, durable
  <1>18. CASE FinishCommit
    BY <1>18 DEF FinishCommit, JournalMoves
  <1>19. CASE NavEnds
    BY <1>19 DEF NavEnds, durable, JournalMoves
  <1>20. CASE DeskEnds
    BY <1>20 DEF DeskEnds, durable, JournalMoves
  <1>21. CASE FeedbackChanges
    BY <1>21 DEF FeedbackChanges, durable, JournalMoves
  <1>22. CASE AuthorityChanges
    BY <1>22 DEF AuthorityChanges, durable, JournalMoves
  <1>23. CASE Elapse
    BY <1>23 DEF Elapse, durable, JournalMoves
  <1>24. CASE Crash
    BY <1>24 DEF Crash, durable, JournalMoves
  <1>25. CASE BootInterrupt
    BY <1>25 DEF BootInterrupt, JournalMoves, Interrupts
  <1>26. CASE BootLatch
    BY <1>26 DEF BootLatch, JournalMoves
  <1>27. CASE BootClean
    BY <1>27 DEF BootClean, durable, JournalMoves
  <1>28. CASE UNCHANGED vars
    BY <1>28 DEF vars, durable, JournalMoves
  <1> QED
    BY <1>1, <1>2, <1>3, <1>4, <1>5, <1>6, <1>7, <1>8, <1>9, <1>10, <1>11, <1>12, <1>13,
       <1>14, <1>15, <1>16, <1>17, <1>18, <1>19, <1>20, <1>21, <1>22, <1>23, <1>24, <1>25,
       <1>26, <1>27, <1>28
    DEF Next, Requests, Tick, Surroundings, Restart

\* What a report says, whichever handler gives it.
LEMMA ReportContents ==
    ASSUME NEW r, NEW force, NEW needsReview, TypeOK, request \in Mission,
           Finish(r, force, needsReview)
    PROVE  /\ journal'[request].outcome = OutcomeOf(r, needsReview)
           /\ (force \/ ~Safe \/ r.status = "FATAL" \/ needsReview \/ (revoked /\ tree))
                => journal'[request].review
           /\ \A m \in Mission \ {request} : journal'[m] = journal[m]
  BY DEF Finish, TypeOK, RecordType

\* Rows are only added, and a report is only given to the mission that is open.
LEMMA JournalLemma ==
    ASSUME TypeOK, RunInv, JournalInv, JournalMoves
    PROVE  JournalStep
  <1> USE OpenIsNotReported DEF JournalStep, Reported
  <1>1. CASE UNCHANGED journal
    BY <1>1
  <1>2. CASE Admits
    BY <1>2 DEF Admits, TypeOK, RecordType
  <1>3. CASE Interrupts
    BY <1>3 DEF Interrupts, TypeOK, RecordType
  <1>4. CASE Reports
    <2>1. PICK r, force, needsReview : Finish(r, force, needsReview)
      BY <1>4 DEF Reports
    <2>2. request \in Mission /\ journal[request] = Open
      BY <1>4 DEF Reports, JournalInv, JournalMatchesRequest
    <2> QED BY <2>1, <2>2, ReportEffect
  <1> QED BY <1>1, <1>2, <1>3, <1>4 DEF JournalMoves

\* The report of a revoked mission comes from its stop, and its stop was not a success.
LEMMA LostAuthorityLemma ==
    ASSUME TypeOK, JournalInv, RevokedInv, JournalMoves, NoMission \notin Mission
    PROVE  LostAuthorityStep
  <1> SUFFICES ASSUME NEW m \in Mission, revoked, journal[m] = Open, Reported(m)'
               PROVE  /\ journal'[m].outcome \in {"BLOCKED", "FAILED"}
                      /\ tree => journal'[m].review
    BY DEF LostAuthorityStep
  <1> USE OpenIsNotReported DEF Reported
  <1>1. ~UNCHANGED journal /\ ~Admits
    BY DEF Admits, TypeOK, RecordType
  <1>2. ~Interrupts
    BY DEF Interrupts, RevokedInv
  <1>3. Reports
    BY <1>1, <1>2 DEF JournalMoves
  <1>4. PICK r, force, needsReview :
          /\ Finish(r, force, needsReview)
          /\ state = "CANCELLING" => r = stopResult \/ r.status = "FATAL"
    BY <1>3 DEF Reports
  <1>5. request = m /\ phase = "running"
    BY <1>3 DEF Reports, JournalInv, JournalMatchesRequest
  <1>6. state = "CANCELLING" /\ stopResult.status \in {"BLOCKED", "FATAL"}
    BY <1>5 DEF RevokedInv, StopLeavesOnlyTheReturn
  <1>7. OutcomeOf(r, needsReview) \in {"BLOCKED", "FAILED"}
    BY <1>4, <1>6 DEF OutcomeOf
  <1> QED BY <1>4, <1>5, <1>7, ReportContents

\* A report without review is given when neither part moves and the arm is safe.
LEMMA UnreviewedLemma ==
    ASSUME TypeOK, JournalInv, JournalMoves
    PROVE  UnreviewedStep
  <1> SUFFICES ASSUME NEW m \in Mission, journal[m] = Open, Reported(m)', ~journal'[m].review
               PROVE  nav = "idle" /\ desk = "idle" /\ armSafe
    BY DEF UnreviewedStep
  <1> USE OpenIsNotReported DEF Reported
  <1>1. ~UNCHANGED journal /\ ~Admits
    BY DEF Admits, TypeOK, RecordType
  <1>2. ~Interrupts
    BY DEF Interrupts, Interrupted, TypeOK, RecordType
  <1>3. Reports
    BY <1>1, <1>2 DEF JournalMoves
  <1>4. PICK r, force, needsReview :
          /\ Finish(r, force, needsReview)
          /\ force \/ r.status = "FATAL" \/ nav = "idle"
    BY <1>3 DEF Reports
  <1>5. request = m
    BY <1>3 DEF Reports, JournalInv, JournalMatchesRequest
  <1> QED BY <1>3, <1>4, <1>5, ReportContents DEF Safe

-----------------------------------------------------------------------------
(* The theorems.                                                           *)

\* A fresh process has the inductive invariant.
LEMMA InvInit == Init => Inv
  <1> SUFFICES ASSUME Init PROVE Inv
    OBVIOUS
  <1>1. TypeOK
    BY TypeInit
  <1>2. RunInv
    BY DEF Init, RunInv
  <1>3. JournalInv
    BY Constants, OpenIsNotReported DEF Init, JournalInv, JournalMatchesRequest
  <1>4. BodyInv
    BY DEF Init, BodyInv, BaseOrArm
  <1>5. RevokedInv
    BY DEF Init, RevokedInv, StopLeavesOnlyTheReturn
  <1>6. LeaseInv
    BY DEF Init, LeaseInv
  <1> QED BY <1>1, <1>2, <1>3, <1>4, <1>5, <1>6 DEF Inv

\* Every step keeps the types, given that an active state has a request.
LEMMA TypeStep == TypeOK /\ RunInv /\ [Next]_vars => TypeOK'
  <1> SUFFICES ASSUME TypeOK, RunInv, [Next]_vars PROVE TypeOK'
    OBVIOUS
  <1>1. RequestWhileActive
    BY DEF RunInv, RequestWhileActive, TypeOK, RunType
  <1>2. CASE UNCHANGED vars
    BY <1>2 DEF vars, mission, body, durable, history, TypeOK, RunType, MissionType,
                RecordType, PortType, HistoryType
  <1>3. CASE Next
    BY <1>1, <1>3, TypeRequests, TypeTick, TypeRaises, TypeFinishCommit, TypeSurroundings,
       TypeRestart DEF Next
  <1> QED BY <1>2, <1>3

\* The inductive invariant is inductive.
LEMMA InvStep == Inv /\ [Next]_vars => Inv'
  BY TypeStep, RunInvStep, JournalInvStep, BodyInvStep, RevokedInvStep, LeaseInvStep DEF Inv

\* Inv holds in every state of every behaviour, for every instance of the constants.
THEOREM Invariance == Spec => []Inv
  <1>1. Init => Inv
    BY InvInit
  <1>2. Inv /\ [Next]_vars => Inv'
    BY InvStep
  <1> QED BY <1>1, <1>2, PTL DEF Spec

\* MissionRuntime keeps the types of its fields and of its journal.
THEOREM TypeCorrect == Spec => []TypeOK
  <1>1. Inv => TypeOK
    BY DEF Inv
  <1> QED BY <1>1, Invariance, PTL

\* The unfinished row of the journal is the running mission's.
THEOREM JournalCorrect == Spec => []JournalMatchesRequest
  <1>1. Inv => JournalMatchesRequest
    BY DEF Inv, JournalInv
  <1> QED BY <1>1, Invariance, PTL

\* The base and the desk operation never move together.
THEOREM OnePartMoves == Spec => []BaseOrArm
  <1>1. Inv => BaseOrArm
    BY DEF Inv, BodyInv
  <1> QED BY <1>1, Invariance, PTL

\* Lost authority only ever leads to a stop, and after an accepted Supervisor stop nothing
\* but the return of a mission that was being cancelled is left.
THEOREM StoppedMissionsOnlyReturn == Spec => []StopLeavesOnlyTheReturn
  <1>1. Inv => StopLeavesOnlyTheReturn
    BY DEF Inv, RevokedInv
  <1> QED BY <1>1, Invariance, PTL

\* A lease is returned by a robot that stands still.
THEOREM ReturnedLeaseStands == Spec => []ReturnedLeaseIsStill
  <1>1. Inv => ReturnedLeaseIsStill
    BY DEF Inv, LeaseInv, ReturnedLeaseIsStill
  <1> QED BY <1>1, Invariance, PTL

\* Every motion is started under authority.
THEOREM MotionUnderAuthority == Spec => MotionNeedsAuthority
  <1>1. Inv /\ [Next]_vars => [MotionStep]_vars
    BY MotionLemma DEF Inv
  <1> QED BY <1>1, Invariance, PTL DEF Spec, MotionNeedsAuthority

\* Admissions are kept and terminal reports are final.
THEOREM JournalOnlyGrows == Spec => JournalIsMonotone
  <1>1. Inv /\ [Next]_vars => [JournalStep]_vars
    BY JournalMovesLemma, JournalLemma DEF Inv
  <1> QED BY <1>1, Invariance, PTL DEF Spec, JournalIsMonotone

\* No human review means that everything stood still.
THEOREM UnreviewedStands == Spec => UnreviewedMeansStill
  <1>1. Inv /\ [Next]_vars => [UnreviewedStep]_vars
    BY JournalMovesLemma, UnreviewedLemma DEF Inv
  <1> QED BY <1>1, Invariance, PTL DEF Spec, UnreviewedMeansStill

\* Lost authority is told in the report.
THEOREM LostAuthorityTold == Spec => LostAuthorityIsReported
  <1>1. Inv /\ [Next]_vars => [LostAuthorityStep]_vars
    BY JournalMovesLemma, LostAuthorityLemma, RuntimeAssumption DEF Inv
  <1> QED BY <1>1, Invariance, PTL DEF Spec, LostAuthorityIsReported
=============================================================================
