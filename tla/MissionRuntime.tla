--------------------------- MODULE MissionRuntime ---------------------------
(***************************************************************************)
(* The Mission Runtime of cleany_mission_manager (core/runtime.py) with    *)
(* its journal (core/journal.py): one mission at a time is admitted,       *)
(* driven to a seat, worked on, driven home and reported.  One timer calls *)
(* tick(); the services offer, cancel and reset_error, the safety topics   *)
(* and the Supervisor's stop action run between ticks on the same thread,  *)
(* so every action below is one whole handler.                             *)
(*                                                                         *)
(* The process can crash between any two durable commits and is restarted  *)
(* on the same journal.  The base and the arm are physical: they keep      *)
(* their motion through a crash.  Only what a property tells apart is kept *)
(* of the data: a failure code the Runtime never branches on is "FAILURE". *)
(***************************************************************************)
EXTENDS Naturals

CONSTANTS
    Mission,            \* mission ids a Backend may offer
    NoMission,          \* request is None
    Configs,            \* the configurations a start of the node may find
    NavigationTimeout,  \* policy budgets, in units of the model's clock
    CleaningTimeout,
    CancelTimeout,
    PermissionTimeout,
    Horizon             \* bound: the clock since _enter saturates here

ASSUME RuntimeAssumption ==
    /\ NoMission \notin Mission
    /\ Configs \subseteq [supervised : BOOLEAN,
                         postMission : {"return_home", "wait_for_next"}]
    /\ Horizon \in Nat
    /\ {NavigationTimeout, CleaningTimeout, CancelTimeout, PermissionTimeout}
         \subseteq (1 .. Horizon)

VARIABLES
    config,             \* supervision_mode and policy.post_mission of this process
    phase,              \* "running", mid-commit "closing" / "booting", or "down"
    state,              \* RuntimeState
    request,            \* the active mission
    op,                 \* operation_id is set: a navigation operation is tracked
    tree,               \* a CleaningTree exists for this mission
    review,             \* its context.needs_review
    stopResult,         \* the ModuleResult the mission is being stopped with
    cancelRequested, returnAfterCancel, revoked, authorizedOnce,
    errorCode,          \* error_code in memory
    elapsed,            \* clock() - started_at
    journal,            \* missions table: absent, open, or the terminal report
    savedError,         \* metadata row error_code
    nav,                \* the base: idle, moving, or halting after a cancel
    desk,               \* the desk operation: idle, running, or halting
    armSafe,            \* the arm's last outcome lets the base drive
    fresh,              \* stop feedback is fresh, so stopped() can answer true
    lease,              \* the Supervisor lease as the client sees it
    unacknowledged,     \* history: a fatal outcome no operator has reset yet
    stopAsked           \* history: the Supervisor's stop of the active mission was accepted

mission == <<op, tree, review, stopResult, cancelRequested, returnAfterCancel,
             revoked, authorizedOnce>>
body    == <<nav, desk, armSafe, fresh>>
durable == <<journal, savedError>>
history == <<unacknowledged, stopAsked>>
vars    == <<config, phase, state, request, mission, errorCode, elapsed, durable, body,
             lease, history>>

RuntimeState == {"IDLE", "NAVIGATE_TO_TARGET", "WORKING", "POST_MISSION",
                 "RETURN_HOME", "CANCELLING", "ERROR"}
Driving == {"NAVIGATE_TO_TARGET", "RETURN_HOME"}
Active  == Driving \cup {"WORKING", "POST_MISSION"}

HardwareCode == {"E_STOP", "HARDWARE_ERROR"}
Code == HardwareCode \cup {"", "FAILURE", "PERMISSION_REVOKED", "INTERRUPTED",
                           "SAFETY_RELEASED"}
Status == {"OK", "FAILED", "BLOCKED", "CANCELLED", "FATAL"}
Result == [status : Status, code : Code]

OK        == [status |-> "OK",        code |-> ""]
Failed    == [status |-> "FAILED",    code |-> "FAILURE"]
Blocked   == [status |-> "BLOCKED",   code |-> "FAILURE"]
Cancelled == [status |-> "CANCELLED", code |-> ""]
Fatal(c)  == [status |-> "FATAL",     code |-> c]

\* Mutant of Revoked: a revocation is reported like a cancellation.
RevokedAsCancelled == [status |-> "CANCELLED", code |-> ""]

Revoked == [status |-> "BLOCKED",   code |-> "PERMISSION_REVOKED"]

\* What a finished navigation or desk operation may return when it is not OK.
Unsuccessful == {Failed, Blocked, Cancelled, Fatal("FAILURE")}

\* map_outcome also passes on that the manipulation hit an E-stop or a hardware error.
DeskFailure == Unsuccessful \cup {Fatal(c) : c \in HardwareCode}

Outcome == {"SUCCESS", "HUMAN_REVIEW_REQUIRED", "CANCELLED", "BLOCKED", "FAILED",
            "INTERRUPTED"}
Report  == [outcome : Outcome, code : Code, review : BOOLEAN]

\* A journal row: none yet, admitted without a report, or its terminal report.
Absent == [outcome |-> "ABSENT", code |-> "", review |-> FALSE]
Open   == [outcome |-> "OPEN",   code |-> "", review |-> FALSE]
Row    == Report \cup {Absent, Open}

-----------------------------------------------------------------------------
(* What the ports answer.  Each stopped() is truthful: it may be late      *)
(* (fresh is FALSE), but it never calls a moving part stopped.             *)

\* Mutant of NavStopped: fresh feedback is taken for a stop.
FreshFeedback == fresh

NavStopped == nav = "idle" /\ fresh
Stopped    == NavStopped /\ desk = "idle"

\* Mutant of Safe: the last outcome of the arm is not asked.
DeskIdle == desk = "idle"

Safe == armSafe /\ desk = "idle"

Supervised == config.supervised

Authorized == ~Supervised \/ lease = "GRANTED"

\* PENDING is tolerated only before the first motion of the mission.
Waiting ==
    /\ Supervised /\ lease = "PENDING" /\ ~authorizedOnce
    /\ state = "NAVIGATE_TO_TARGET" /\ ~op
    /\ elapsed < PermissionTimeout

Reported(m) == journal[m].outcome \in Outcome

-----------------------------------------------------------------------------
(* The Runtime's own helpers.                                              *)

\* _enter: every transition restarts the budget of the new state.
Enter(s) == state' = s /\ elapsed' = 0

\* A halt reaches a running part, or its adapter raises and the part goes on.
HaltOf(part, raised) == IF part = "idle" \/ raised THEN part ELSE "halting"

\* Mutant of EnterStop: every new reason to stop starts the deadline again.
EnterStopAgain == Enter("CANCELLING")

EnterStop ==
    IF state # "CANCELLING" THEN Enter("CANCELLING") ELSE UNCHANGED <<state, elapsed>>

(* _begin_stop, on the base as it is in the part and tracked arguments.     *)
(* A second call keeps the deadline of the first one.                       *)
BeginStop(result, part, tracked) ==
    /\ \E navRaised, deskRaised \in BOOLEAN :
          /\ navRaised => tracked
          /\ deskRaised => tree
          /\ nav' = IF tracked THEN HaltOf(part, navRaised) ELSE part
          /\ desk' = IF tree THEN HaltOf(desk, deskRaised) ELSE desk
          /\ stopResult' = IF (navRaised \/ deskRaised) /\ result.status # "FATAL"
                           THEN Fatal("FAILURE") ELSE result
    /\ op' = tracked
    /\ EnterStop

\* Mutant of Revoke: a revocation is handled like a cancellation.
RevokeLikeCancel ==
    /\ revoked' = TRUE /\ returnAfterCancel' = (config.postMission = "return_home")
    /\ BeginStop(Revoked, nav, op)

Revoke ==
    /\ revoked' = TRUE /\ returnAfterCancel' = FALSE
    /\ BeginStop(Revoked, nav, op)

\* Mutant of OutcomeOf: a status without a case of its own is taken as it is.
OutcomeOrStatus(result, needsReview) ==
    CASE result.status = "OK" -> IF needsReview THEN "HUMAN_REVIEW_REQUIRED" ELSE "SUCCESS"
      [] OTHER -> result.status

OutcomeOf(result, needsReview) ==
    CASE result.status = "OK" -> IF needsReview THEN "HUMAN_REVIEW_REQUIRED" ELSE "SUCCESS"
      [] result.status = "CANCELLED" -> "CANCELLED"
      [] result.status = "BLOCKED" -> "BLOCKED"
      [] OTHER -> "FAILED"

\* Mutant of ReturnedLease: the lease is released with the report.
ReleasedWithReport == IF Supervised THEN "RELEASED" ELSE "NONE"

\* The lease is returned only with a confirmed stop, and left to expire otherwise.
ReturnedLease == IF Supervised /\ Stopped THEN "RELEASED" ELSE "NONE"

(* _finish up to its first commit: the report is durable, the lease is     *)
(* returned or abandoned, and error_code is decided but not yet saved.     *)
Finish(result, forceError, needsReview) ==
    LET fatal == forceError \/ ~Safe \/ result.status = "FATAL"
        code  == IF result.code = "" /\ ~Safe THEN "FAILURE" ELSE result.code
    IN  /\ journal' = [journal EXCEPT ![request] =
              [outcome |-> OutcomeOf(result, needsReview),
               code    |-> code,
               review  |-> fatal \/ needsReview \/ (revoked /\ tree)]]
        /\ errorCode' = IF ~fatal THEN "" ELSE IF code = "" THEN "FAILURE" ELSE code
        /\ lease' = ReturnedLease
        /\ unacknowledged' = (unacknowledged \/ fatal)
        /\ phase' = "closing"

\* The rest of _finish: save error_code, forget the request, enter the end state.
FinishCommit ==
    /\ phase = "closing" /\ phase' = "running"
    /\ savedError' = errorCode
    /\ request' = NoMission
    /\ Enter(IF errorCode = "" THEN "IDLE" ELSE "ERROR")
    /\ stopAsked' = FALSE
    /\ UNCHANGED <<config, mission, errorCode, journal, body, lease, unacknowledged>>

-----------------------------------------------------------------------------
(* Requests.  A refused request, and the replay of a known one, change     *)
(* nothing and are no step.                                                *)

Idle == phase = "running" /\ state = "IDLE"

\* offer: the admission is durable before any motion; then the lease is requested.
Offer(m) ==
    /\ Idle /\ journal[m] = Absent
    /\ Safe /\ Stopped                          \* readiness
    /\ journal' = [journal EXCEPT ![m] = Open]
    /\ request' = m
    /\ tree' = FALSE /\ review' = FALSE /\ cancelRequested' = FALSE
    /\ authorizedOnce' = FALSE /\ stopAsked' = FALSE
    /\ \/ /\ Enter("NAVIGATE_TO_TARGET")
          /\ lease' = IF Supervised THEN "PENDING" ELSE lease
          /\ op' = FALSE /\ stopResult' = OK
          /\ returnAfterCancel' = FALSE /\ revoked' = FALSE
          /\ UNCHANGED <<nav, desk>>
       \/ /\ Supervised                         \* acquire raised: revoked at once
          /\ lease' = "NONE"
          /\ Enter("CANCELLING")
          /\ op' = FALSE /\ stopResult' = Revoked
          /\ returnAfterCancel' = FALSE /\ revoked' = TRUE
          /\ UNCHANGED <<nav, desk>>
    /\ UNCHANGED <<config, phase, errorCode, savedError, armSafe, fresh, unacknowledged>>

Cancel ==
    /\ phase = "running" /\ state \in Active
    /\ cancelRequested' = TRUE
    /\ returnAfterCancel' = (config.postMission = "return_home" /\ state # "RETURN_HOME")
    /\ BeginStop(Cancelled, nav, op)
    /\ UNCHANGED <<config, phase, request, tree, review, revoked, authorizedOnce, errorCode,
                   durable, armSafe, fresh, lease, history>>

ResetError ==
    /\ phase = "running" /\ state = "ERROR"
    /\ errorCode \notin HardwareCode
    /\ Stopped /\ Safe
    /\ errorCode' = "" /\ savedError' = ""
    /\ request' = NoMission
    /\ Enter("IDLE")
    /\ unacknowledged' = FALSE
    /\ UNCHANGED <<config, phase, mission, journal, body, lease, stopAsked>>

\* robot/safety_fault, subscribed only without a Supervisor.
SafetyFault(code) ==
    /\ phase = "running" /\ ~Supervised
    /\ returnAfterCancel' = FALSE
    /\ \/ /\ request # NoMission
          /\ BeginStop(Fatal(code), nav, op)
          /\ UNCHANGED <<errorCode, savedError>>
       \/ /\ request = NoMission
          /\ errorCode' = code /\ savedError' = code
          /\ Enter("ERROR")
          /\ UNCHANGED <<op, stopResult, nav, desk>>
    /\ UNCHANGED <<config, phase, request, tree, review, cancelRequested, revoked,
                   authorizedOnce, journal, armSafe, fresh, lease,
                   unacknowledged, stopAsked>>

\* robot/safety_released, subscribed only without a Supervisor: it may come at any time, and
\* counts for the latched code once everything stands.
SafetyReleased(code) ==
    /\ phase = "running" /\ ~Supervised
    /\ IF state = "ERROR" /\ errorCode = code /\ Stopped
       THEN errorCode' = "SAFETY_RELEASED" /\ savedError' = "SAFETY_RELEASED"
       ELSE UNCHANGED <<errorCode, savedError>>
    /\ UNCHANGED <<config, phase, state, request, mission, elapsed, journal, body, lease,
                   unacknowledged, stopAsked>>

\* The goal callback of mission/stop, for the mission that runs here.  A mission that is
\* stopping already takes the request for done: what it is stopped with, and whether it
\* drives home afterwards, stay as they are.
SupervisorStop ==
    /\ phase = "running" /\ Supervised /\ request # NoMission
    /\ stopAsked' = TRUE
    /\ \/ /\ state \in Active
          /\ Revoke
       \/ /\ state = "CANCELLING"
          /\ UNCHANGED <<state, elapsed, op, stopResult, returnAfterCancel, revoked, nav, desk>>
    /\ UNCHANGED <<config, phase, request, tree, review, cancelRequested, authorizedOnce,
                   errorCode, durable, armSafe, fresh, lease, unacknowledged>>

-----------------------------------------------------------------------------
(* tick(): one action per state of the machine.                            *)

\* _authorized failed and the mission may not wait any longer.
TickRevoked ==
    /\ phase = "running" /\ state \in Active
    /\ ~Authorized /\ ~Waiting
    /\ Revoke
    /\ UNCHANGED <<config, phase, request, tree, review, cancelRequested, authorizedOnce,
                   errorCode, durable, armSafe, fresh, lease, history>>

\* Mutant of Proceed: a mission that may wait may also go on.
ProceedWaiting(states) ==
    /\ phase = "running" /\ state \in states
    /\ Authorized \/ Waiting
    /\ authorizedOnce' = (authorizedOnce \/ Supervised)

\* The common part of a tick that passed _authorized.
Proceed(states) ==
    /\ phase = "running" /\ state \in states
    /\ Authorized
    /\ authorizedOnce' = (authorizedOnce \/ Supervised)

TickStartDrive ==
    /\ Proceed(Driving) /\ ~op
    /\ \/ /\ ~Safe
          /\ BeginStop(Blocked, nav, op)
       \/ /\ Safe /\ NavStopped                 \* navigator.start accepts
          /\ \/ /\ elapsed < NavigationTimeout
                /\ op' = TRUE /\ nav' = "moving"
                /\ UNCHANGED <<state, elapsed, stopResult, desk>>
             \/ /\ elapsed >= NavigationTimeout
                /\ BeginStop(Failed, "moving", TRUE)
       \/ /\ Safe /\ ~NavStopped                \* navigator.start refuses: it raises
          /\ BeginStop(Fatal("FAILURE"), nav, op)
    /\ UNCHANGED <<config, phase, request, tree, review, cancelRequested, returnAfterCancel,
                   revoked, errorCode, durable, armSafe, fresh, lease, history>>

\* poll() found no result, and the drive is over its budget.
TickDriveTimeout ==
    /\ Proceed(Driving) /\ op
    /\ elapsed >= NavigationTimeout
    /\ BeginStop(Failed, nav, op)
    /\ UNCHANGED <<config, phase, request, tree, review, cancelRequested, returnAfterCancel,
                   revoked, errorCode, durable, armSafe, fresh, lease, history>>

\* A failing result, a result the adapter could not confirm, or a base not stopped.
TickDriveFailed ==
    /\ Proceed(Driving) /\ op
    /\ \E result \in Unsuccessful :
          /\ ~NavStopped => result.status = "FATAL"
          /\ BeginStop(result, nav, op)
    /\ UNCHANGED <<config, phase, request, tree, review, cancelRequested, returnAfterCancel,
                   revoked, errorCode, durable, armSafe, fresh, lease, history>>

TickArrived ==
    /\ Proceed(Driving) /\ op
    /\ NavStopped
    /\ op' = FALSE
    /\ \/ /\ state = "NAVIGATE_TO_TARGET"
          /\ tree' = TRUE /\ review' = FALSE
          /\ Enter("WORKING")
          /\ UNCHANGED <<phase, journal, errorCode, lease, unacknowledged>>
       \/ /\ state = "RETURN_HOME"
          /\ Finish(IF cancelRequested THEN stopResult ELSE OK, FALSE, review)
          /\ UNCHANGED <<tree, review, state, elapsed>>
    /\ UNCHANGED <<config, request, stopResult, cancelRequested, returnAfterCancel, revoked,
                   savedError, body, stopAsked>>

TickWorkTimeout ==
    /\ Proceed({"WORKING"})
    /\ elapsed >= CleaningTimeout
    /\ BeginStop(Failed, nav, op)
    /\ UNCHANGED <<config, phase, request, tree, review, cancelRequested, returnAfterCancel,
                   revoked, errorCode, durable, armSafe, fresh, lease, history>>

\* cleaning.tick(): the tree starts or collects a desk operation, succeeds or fails.
TickWork ==
    /\ Proceed({"WORKING"})
    /\ elapsed < CleaningTimeout
    /\ review' \in {review, review \/ desk = "idle"}   \* a result asks for a human
    /\ \/ /\ desk = "idle" /\ desk' \in {"idle", "running"}
          /\ UNCHANGED <<state, elapsed, op, stopResult, nav>>
       \/ /\ desk = "idle"
          /\ Enter("POST_MISSION")
          /\ UNCHANGED <<desk, op, stopResult, nav>>
       \/ \E result \in DeskFailure :
             /\ desk = "running" => result = Failed      \* a leaf timed out
             /\ result.code \in HardwareCode => ~armSafe
             /\ BeginStop(result, nav, op)
    /\ UNCHANGED <<config, phase, request, tree, cancelRequested, returnAfterCancel, revoked,
                   errorCode, durable, armSafe, fresh, lease, history>>

TickPost ==
    /\ Proceed({"POST_MISSION"})
    /\ \/ /\ config.postMission = "return_home"
          /\ Enter("RETURN_HOME")
          /\ UNCHANGED <<phase, journal, errorCode, lease, unacknowledged>>
       \/ /\ config.postMission = "wait_for_next"
          /\ Finish(OK, FALSE, review)
          /\ UNCHANGED <<state, elapsed>>
    /\ UNCHANGED <<config, request, op, tree, review, stopResult, cancelRequested,
                   returnAfterCancel, revoked, savedError, body, stopAsked>>

\* CANCELLING with every port stopped: drive home if that is still wanted, or finish.
TickStopped ==
    /\ phase = "running" /\ state = "CANCELLING"
    /\ Stopped
    /\ review' \in {review, tree \/ review}     \* settle() reads a late result
    /\ op' = FALSE
    /\ \/ /\ Safe /\ returnAfterCancel          \* and the navigator is ready
          /\ returnAfterCancel' = FALSE
          /\ Enter("RETURN_HOME")
          /\ UNCHANGED <<phase, journal, errorCode, lease, unacknowledged>>
       \/ /\ Finish(stopResult, FALSE, review')
          /\ UNCHANGED <<returnAfterCancel, state, elapsed>>
    /\ UNCHANGED <<config, request, tree, stopResult, cancelRequested, revoked, authorizedOnce,
                   savedError, body, stopAsked>>

\* CANCELLING past its deadline with a stop still unconfirmed.
TickStopTimeout ==
    /\ phase = "running" /\ state = "CANCELLING"
    /\ ~Stopped /\ elapsed >= CancelTimeout
    /\ Finish(IF stopResult.status = "FATAL" THEN stopResult ELSE Fatal("FAILURE"),
              TRUE, review)
    /\ UNCHANGED <<config, request, state, elapsed, mission, savedError, body, stopAsked>>

\* An adapter raised somewhere inside _tick.
TickRaises ==
    /\ phase = "running"
    /\ \/ /\ state \in Active
          /\ BeginStop(Fatal("FAILURE"), nav, op)
          /\ UNCHANGED <<phase, errorCode, durable, lease, unacknowledged>>
       \/ /\ state = "CANCELLING" /\ elapsed >= CancelTimeout
          /\ Finish(Fatal("FAILURE"), TRUE, review)
          /\ UNCHANGED <<state, elapsed, op, stopResult, nav, desk, savedError>>
       \/ /\ state \in {"IDLE", "ERROR"}
          /\ errorCode' = "FAILURE" /\ savedError' = "FAILURE"
          /\ Enter("ERROR")
          /\ UNCHANGED <<phase, op, stopResult, nav, desk, journal, lease,
                         unacknowledged>>
    /\ UNCHANGED <<config, request, tree, review, cancelRequested, returnAfterCancel, revoked,
                   authorizedOnce, armSafe, fresh, stopAsked>>

Tick == \/ TickRevoked \/ TickStartDrive \/ TickDriveTimeout \/ TickDriveFailed
        \/ TickArrived \/ TickWorkTimeout \/ TickWork \/ TickPost \/ TickStopped
        \/ TickStopTimeout

-----------------------------------------------------------------------------
(* The surroundings: motion ends, feedback and authority change, time      *)
(* passes, the process crashes and is restarted on its journal.            *)

NavEnds ==
    /\ nav # "idle" /\ nav' = "idle"
    /\ UNCHANGED <<config, phase, state, request, mission, errorCode, elapsed, durable, desk,
                   armSafe, fresh, lease, history>>

DeskEnds ==
    /\ desk # "idle" /\ desk' = "idle"
    /\ armSafe' \in BOOLEAN
    /\ UNCHANGED <<config, phase, state, request, mission, errorCode, elapsed, durable, nav,
                   fresh, lease, history>>

FeedbackChanges ==
    /\ fresh' = ~fresh
    /\ UNCHANGED <<config, phase, state, request, mission, errorCode, elapsed, durable, nav,
                   desk, armSafe, lease, history>>

\* The lease client learns a grant, a denial, an expiry or a heartbeat again.
AuthorityChanges ==
    /\ lease \in {"PENDING", "GRANTED", "DENIED"}
    /\ lease' \in {"GRANTED", "DENIED"} \ {lease}
    /\ UNCHANGED <<config, phase, state, request, mission, errorCode, elapsed, durable, body,
                   history>>

Elapse ==
    /\ phase = "running" /\ elapsed < Horizon
    /\ state \in Active \cup {"CANCELLING"}
    /\ elapsed' = elapsed + 1
    /\ UNCHANGED <<config, phase, state, request, mission, errorCode, durable, body, lease,
                   history>>

\* Everything in memory is lost; the journal, the base and the arm are not.
Crash ==
    /\ phase # "down" /\ phase' = "down"
    /\ state' = "IDLE" /\ request' = NoMission /\ errorCode' = "" /\ elapsed' = 0
    /\ op' = FALSE /\ tree' = FALSE /\ review' = FALSE /\ stopResult' = OK
    /\ cancelRequested' = FALSE /\ returnAfterCancel' = FALSE
    /\ revoked' = FALSE /\ authorizedOnce' = FALSE
    /\ lease' = "NONE" /\ stopAsked' = FALSE
    /\ UNCHANGED <<config, durable, body, unacknowledged>>

Interrupted == [outcome |-> "INTERRUPTED", code |-> "INTERRUPTED", review |-> TRUE]

\* Mutant of BootInterrupt: finished missions are not told from unfinished ones.
BootInterruptAny ==
    /\ phase = "down" /\ phase' = "booting" /\ config' \in Configs
    /\ \E m \in Mission :
          /\ journal[m] # Absent
          /\ journal' = [journal EXCEPT ![m] = Interrupted]
    /\ unacknowledged' = TRUE
    /\ UNCHANGED <<state, request, mission, errorCode, elapsed, savedError, body, lease,
                   stopAsked>>

\* __init__, first commit: an unfinished mission gets its terminal report.  Every
\* start may find a configuration the operator has changed.
BootInterrupt ==
    /\ phase = "down" /\ phase' = "booting" /\ config' \in Configs
    /\ \E m \in Mission :
          /\ journal[m] = Open
          /\ journal' = [journal EXCEPT ![m] = Interrupted]
    /\ unacknowledged' = TRUE
    /\ UNCHANGED <<state, request, mission, errorCode, elapsed, savedError, body, lease,
                   stopAsked>>

\* __init__, second commit: the error is latched.
BootLatch ==
    /\ phase = "booting" /\ phase' = "running"
    /\ errorCode' = "INTERRUPTED" /\ savedError' = "INTERRUPTED"
    /\ Enter("ERROR")
    /\ UNCHANGED <<config, request, mission, journal, body, lease, history>>

\* Mutant of BootClean: unfinished missions are not looked for.
BootForgetful ==
    /\ phase = "down" /\ phase' = "running" /\ config' \in Configs
    /\ errorCode' = savedError
    /\ Enter(IF savedError = "" THEN "IDLE" ELSE "ERROR")
    /\ UNCHANGED <<request, mission, durable, body, lease, history>>

\* __init__ with no unfinished mission: only the saved error decides the state.
BootClean ==
    /\ phase = "down" /\ phase' = "running" /\ config' \in Configs
    /\ \A m \in Mission : journal[m] # Open
    /\ errorCode' = savedError
    /\ Enter(IF savedError = "" THEN "IDLE" ELSE "ERROR")
    /\ UNCHANGED <<request, mission, durable, body, lease, history>>

-----------------------------------------------------------------------------
Init ==
    /\ config \in Configs
    /\ phase = "running" /\ state = "IDLE" /\ request = NoMission
    /\ op = FALSE /\ tree = FALSE /\ review = FALSE /\ stopResult = OK
    /\ cancelRequested = FALSE /\ returnAfterCancel = FALSE
    /\ revoked = FALSE /\ authorizedOnce = FALSE
    /\ errorCode = "" /\ elapsed = 0
    /\ journal = [m \in Mission |-> Absent] /\ savedError = ""
    /\ nav = "idle" /\ desk = "idle" /\ armSafe \in BOOLEAN /\ fresh = FALSE
    /\ lease = "NONE"
    /\ unacknowledged = FALSE /\ stopAsked = FALSE

Requests == \/ \E m \in Mission : Offer(m)
            \/ Cancel \/ ResetError \/ SupervisorStop
            \/ \E code \in HardwareCode : SafetyFault(code) \/ SafetyReleased(code)

Surroundings == NavEnds \/ DeskEnds \/ FeedbackChanges \/ AuthorityChanges \/ Elapse

Restart == Crash \/ BootInterrupt \/ BootLatch \/ BootClean

Next == Requests \/ Tick \/ TickRaises \/ FinishCommit \/ Surroundings \/ Restart

\* The ticks the code takes without a result of a port.
Due == \/ TickRevoked \/ TickStartDrive \/ TickDriveTimeout \/ TickWorkTimeout \/ TickPost
       \/ TickStopped \/ TickStopTimeout

\* The node's timer keeps ticking and its clock keeps running while it is up.  No port
\* has to answer, no motion has to end, and a crashed process may stay down.
Fairness == WF_vars(Due) /\ WF_vars(FinishCommit) /\ WF_vars(Elapse)

Spec == Init /\ [][Next]_vars /\ Fairness

-----------------------------------------------------------------------------
(* Properties.                                                             *)

\* Every variable keeps its type: the fields of MissionRuntime.__init__, the rows of its
\* journal, and what the ports answer.
RunType ==
    /\ config \in Configs
    /\ phase \in {"running", "closing", "booting", "down"}
    /\ state \in RuntimeState
    /\ request \in Mission \cup {NoMission}
    /\ elapsed \in 0 .. Horizon

MissionType ==
    /\ op \in BOOLEAN /\ tree \in BOOLEAN /\ review \in BOOLEAN
    /\ stopResult \in Result
    /\ cancelRequested \in BOOLEAN /\ returnAfterCancel \in BOOLEAN
    /\ revoked \in BOOLEAN /\ authorizedOnce \in BOOLEAN

RecordType ==
    /\ journal \in [Mission -> Row]
    /\ errorCode \in Code /\ savedError \in Code

PortType ==
    /\ nav \in {"idle", "moving", "halting"} /\ desk \in {"idle", "running", "halting"}
    /\ armSafe \in BOOLEAN /\ fresh \in BOOLEAN
    /\ lease \in {"NONE", "PENDING", "GRANTED", "DENIED", "RELEASED"}

HistoryType ==
    /\ unacknowledged \in BOOLEAN /\ stopAsked \in BOOLEAN

TypeOK == RunType /\ MissionType /\ RecordType /\ PortType /\ HistoryType

\* The journal's unfinished mission is exactly the one the Runtime is running, so a
\* restart interrupts it and journal.finish never meets a finished row.
JournalMatchesRequest ==
    /\ phase = "running" => \A m \in Mission : journal[m] = Open <=> request = m
    /\ phase = "closing" => request # NoMission /\ Reported(request)
    /\ \A m, n \in Mission : journal[m] = Open /\ journal[n] = Open => m = n

\* The base and the desk operation never move together: neither a halt that raised, nor
\* a timeout, nor a restart lets the Runtime start one while the other still goes on.
BaseOrArm == nav = "idle" \/ desk = "idle"

\* _revoke, or a safety fault or the arm's own E-stop, ended the mission's authority.
AuthorityLost == revoked \/ stopResult.code \in HardwareCode

\* Once its authority is lost a mission only stops.  Once the Supervisor's stop of it was
\* accepted it never goes to work or to a target again: the one motion left to it is the
\* drive home of a mission that was being cancelled when that stop arrived (_revoke,
\* safety_fault, _begin_stop, and supervisor_stop, which leaves CANCELLING as it is).
StopLeavesOnlyTheReturn ==
    phase = "running" /\ request # NoMission
    => /\ AuthorityLost => state = "CANCELLING" /\ ~returnAfterCancel
       /\ stopAsked => \/ state = "CANCELLING" /\ (returnAfterCancel => cancelRequested)
                       \/ state = "RETURN_HOME" /\ cancelRequested

\* A lease the client returned belongs to a mission whose parts stand still, and they
\* stay still until the next mission asks for a lease (_finish, release or abandon).
ReturnedLeaseIsStill == lease = "RELEASED" => nav = "idle" /\ desk = "idle"

\* A motion starts only for an active mission, under a granted lease and never after
\* that mission's authority was revoked (_authorized before every start).
MotionStep ==
    (nav = "idle" /\ nav' # "idle") \/ (desk = "idle" /\ desk' # "idle")
    => request # NoMission /\ Authorized /\ ~revoked

MotionNeedsAuthority == [][MotionStep]_vars

\* An admission is never forgotten and a terminal report never changes, across every
\* crash and restart (journal.accept, journal.finish).
JournalStep ==
    \A m \in Mission : /\ journal[m] # Absent => journal'[m] # Absent
                       /\ Reported(m) => journal'[m] = journal[m]

JournalIsMonotone == [][JournalStep]_vars

\* A mission reported without human review left base and desk still and the arm safe.
UnreviewedStep ==
    \A m \in Mission : journal[m] = Open /\ Reported(m)' /\ ~journal'[m].review
                      => nav = "idle" /\ desk = "idle" /\ armSafe

UnreviewedMeansStill == [][UnreviewedStep]_vars

\* A mission whose authority was revoked is never reported as done or as cancelled, and
\* one that had reached the desk is flagged for a human.  A Supervisor stop that finds the
\* mission stopping already revokes nothing: its report stays that of the first reason.
LostAuthorityStep ==
    \A m \in Mission : revoked /\ journal[m] = Open /\ Reported(m)'
                      => /\ journal'[m].outcome \in {"BLOCKED", "FAILED"}
                         /\ tree => journal'[m].review

LostAuthorityIsReported == [][LostAuthorityStep]_vars

\* Every admitted mission gets its terminal report, whatever the ports do, unless the
\* process goes down: each state has a budget and no handler can renew it for ever.
MissionEnds ==
    \A m \in Mission : journal[m] = Open ~> (Reported(m) \/ phase = "down")

-----------------------------------------------------------------------------
(* What the documents promise and the code does not keep.                  *)

\* mission.md: an error stays until its explicit reset.  A fatal outcome keeps the
\* Runtime in ERROR until an operator resets it.
FatalOutcomeLatches == phase = "running" /\ unacknowledged => state = "ERROR"

\* mission.md: StopMission starts the stop of that mission, and an execution that lost its
\* lease only stops.  After the Supervisor's stop was accepted no part starts to move.
ObeyedStep ==
    stopAsked => /\ nav = "idle" => nav' = "idle"
                 /\ desk = "idle" => desk' = "idle"

StopIsObeyed == [][ObeyedStep]_vars
=============================================================================
