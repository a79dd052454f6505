--------------------------- MODULE ExecutionCore ---------------------------
(***************************************************************************)
(* The single-arm manipulation executor: ExecutionCore with its journal,   *)
(* the action server around it, and the arm.                               *)
(*                                                                         *)
(* core is the current execution; handle is the action goal (None, "open", *)
(* or "canceling" once the action server has made that transition, which   *)
(* follows the cancel callback).  known is the journal in memory, durable  *)
(* the database: a write may fail, and then only memory has it.  The port  *)
(* (the arm's adapter) answers late, wrongly or not at all, may raise, but *)
(* claims nothing of the arm and of the object that is not so.             *)
(*                                                                         *)
(* Left out: messages and substage names, and which error it is among      *)
(* those the core treats alike.                                            *)
(***************************************************************************)
EXTENDS Integers

CONSTANTS
    Execution,      \* execution ids
    None,           \* no execution, stage, handle, mode or status
    Timeout         \* deadline of a stage, and of a stop, in units of age

ASSUME TimeoutAssumption == Timeout \in Nat \ {0}

VARIABLES
    serving,        \* the process runs
    core,           \* the current execution and the core's own fields
    inhibited,      \* nothing more is accepted
    handle,         \* the action goal: None, "open" or "canceling"
    transition,     \* a cancel was accepted; the goal is about to be "canceling"
    known,          \* the journal in memory, per execution
    durable,        \* the database, per execution
    clean,          \* (history) the arm was clear at the last acceptance
    arm,            \* "home", "out", "moving", or "handling" (the hand may change)
    hand            \* "empty" or "full"

process  == <<core, inhibited, handle, transition, known, durable>>
physical == <<arm, hand>>
vars     == <<serving, process, clean, physical>>

NormalStages ==
    <<"VALIDATING", "PREPARING_TARGET", "APPROACHING", "GRASPING", "LIFTING",
      "TRANSPORTING", "PLACING", "RETURNING_ARM", "VERIFYING_PLACEMENT">>

RecoveryStages == {"RELEASING_IN_PLACE", "RECOVERING_ARM"}
AtomicStages   == {"GRASPING", "LIFTING", "PLACING"}
HandStages     == AtomicStages \cup {"TRANSPORTING", "RELEASING_IN_PLACE"}
MotionStages   == {NormalStages[i] : i \in 3..8}
Unmoved        == {"VALIDATING", "PREPARING_TARGET"}
Normal         == {NormalStages[i] : i \in 1..9}
Stage          == Normal \cup RecoveryStages \cup {"STOPPING", "FINALIZING"}
Mode           == {"CHECKPOINT", "RETURN_ARM", "IMMEDIATE"}
Status         == {"SUCCESS", "BLOCKED", "FAILED", "CANCELED", "FATAL"}
Object         == {"NOT_TOUCHED", "HELD", "LEFT_GRIPPER", "UNKNOWN"}

ASSUME NoneAssumption ==
    /\ None \notin Execution
    /\ None \notin Stage \cup Mode \cup Status \cup {"open", "canceling"}

Following(stage) ==
    LET i == CHOOSE n \in 1..8 : NormalStages[n] = stage IN NormalStages[i + 1]

NoCore ==
    [id |-> None, stage |-> "FINALIZING", object |-> "NOT_TOUCHED", placed |-> FALSE,
     chosen |-> FALSE, stopped |-> FALSE, recovered |-> FALSE, mode |-> None,
     result |-> None, next |-> None, running |-> FALSE, pending |-> None,
     recovering |-> FALSE, age |-> 0]

\* now - started_at >= timeout(stage).
Late   == core.age = Timeout

Active == core.id # None /\ core.result = None
Canceled(c) == c.mode # None

\* The client's ManipulationOutcome.safe_to_drive, of a finished execution.
SafeToDrive(c) ==
    /\ c.stopped /\ c.recovered
    /\ c.object \in {"NOT_TOUCHED", "LEFT_GRIPPER"}
    /\ c.result # "FATAL"

\* What a journal record says of an execution.
Kind(c) ==
    IF c.result = None THEN "active"
    ELSE IF c.result = "FATAL" THEN IF c.stopped THEN "halted" ELSE "fatal"
    ELSE IF c.object \in {"HELD", "UNKNOWN"} THEN IF c.stopped THEN "held" ELSE "fatal"
    ELSE IF SafeToDrive(c) THEN "safe"
    ELSE IF c.stopped THEN "still" ELSE "open"

\* inhibits_execution.
Inhibits(kind) == kind \in {"interrupted", "held", "halted", "fatal"}

Init ==
    /\ serving = TRUE
    /\ core = NoCore
    /\ inhibited = FALSE
    /\ handle = None /\ transition = FALSE
    /\ known = [e \in Execution |-> "unknown"]
    /\ durable = [e \in Execution |-> "unknown"]
    /\ clean = TRUE
    /\ arm = "home" /\ hand = "empty"
-----------------------------------------------------------------------------
(* Steps of the core, from a core c to the set of cores it may leave: a    *)
(* stop command may raise.                                                 *)

Finished(c, status) ==
    [c EXCEPT !.stage = "FINALIZING", !.result = status, !.running = FALSE,
              !.next = None, !.pending = None, !.recovering = FALSE, !.age = 0]

Stop(c, status) ==
    LET stopping == [c EXCEPT !.stage = "STOPPING", !.stopped = FALSE, !.pending = status,
                              !.next = None, !.running = TRUE, !.age = 0]
    IN {stopping, Finished(stopping, "FATAL")}

\* Mutant of Unsure: a stage is left without doubting what it did to the object.
UnsureNot(c) == c

\* Leaving an atomic stage before its evidence: nobody knows where the object is.
Unsure(c) ==
    IF c.running /\ c.stage \in AtomicStages THEN [c EXCEPT !.object = "UNKNOWN"] ELSE c

Fail(c, error) ==
    CASE error = "FAULT" -> Stop(c, "FATAL")
      [] error = "PLAIN" /\ c.stage \in Unmoved ->
            IF Canceled(c) THEN Stop(c, "CANCELED") ELSE {Finished(c, "BLOCKED")}
      [] OTHER -> Stop(c, "FAILED")

\* Mutant of CancelNow: a checkpoint cancellation also waits for a stage not begun.
CancelNowLate(c) ==
    /\ Canceled(c)
    /\ c.mode = "IMMEDIATE" \/ (~c.recovering /\ c.mode = "RETURN_ARM")

CancelNow(c) ==
    /\ Canceled(c)
    /\ \/ c.mode = "IMMEDIATE"
       \/ ~c.recovering /\ (c.mode = "RETURN_ARM" \/ ~c.running)

\* Mutant of Begun: what was next is still next.
BegunAgain(c) ==
    [c EXCEPT !.stage = c.next, !.running = TRUE, !.age = 0]

Begun(c) ==
    [c EXCEPT !.stage = c.next, !.next = None, !.running = TRUE, !.age = 0,
              !.stopped = @ /\ c.next \notin MotionStages \cup RecoveryStages,
              !.recovered = @ /\ c.next \notin MotionStages \cup RecoveryStages]

\* A stage completed without error.
Completed(c) ==
    IF c.stage = "RELEASING_IN_PLACE" THEN {[c EXCEPT !.next = "RECOVERING_ARM"]}
    ELSE IF c.stage = "RECOVERING_ARM" \/ Canceled(c) THEN Stop(c, "CANCELED")
    ELSE IF c.stage # "VERIFYING_PLACEMENT" THEN {[c EXCEPT !.next = Following(c.stage)]}
    ELSE IF c.object = "LEFT_GRIPPER" /\ c.placed /\ c.chosen /\ c.stopped /\ c.recovered
         THEN {Finished(c, "SUCCESS")}
    ELSE Stop(c, "FATAL")

\* The stop is confirmed: the result, or first the arm's recovery.
Halted(c) ==
    IF c.pending = "CANCELED" /\ c.mode = "RETURN_ARM" /\ ~c.recovering /\ c.chosen
    THEN [c EXCEPT !.running = FALSE, !.recovering = TRUE,
                   !.next = IF c.object \in {"HELD", "UNKNOWN"} THEN "RELEASING_IN_PLACE"
                            ELSE "RECOVERING_ARM"]
    ELSE Finished(c, c.pending)
-----------------------------------------------------------------------------
(* The node's handlers.                                                    *)

\* The journal after the core became c: memory has it, each write may fail.
Persist(c) ==
    /\ known' = [known EXCEPT ![c.id] = Kind(c)]
    /\ \E written \in {durable[c.id], "active", Kind(c)} :
          durable' = [durable EXCEPT ![c.id] = written]

\* _goal.
Goal(e) ==
    /\ serving /\ handle = None
    /\ ~inhibited /\ ~Active
    /\ known[e] = "unknown"
    /\ core' = [NoCore EXCEPT !.id = e, !.stage = "VALIDATING", !.next = "VALIDATING"]
    /\ Persist(core')
    /\ clean' = (arm = "home" /\ hand = "empty")
    /\ UNCHANGED <<serving, inhibited, handle, transition, physical>>

\* _accepted; until then the timer does not tick the core.
Accepted ==
    /\ serving /\ Active /\ handle = None
    /\ handle' = "open"
    /\ UNCHANGED <<serving, core, inhibited, transition, known, durable, clean, physical>>

\* resolve_cancel_mode: only an immediate stop may replace a mode.
Resolved(current, requested) ==
    IF current = "IMMEDIATE" THEN "IMMEDIATE"
    ELSE IF requested # None THEN requested
    ELSE IF current = None THEN "CHECKPOINT" ELSE current

\* _cancel and _request_cancel: a plain action cancel, which the action server passes on
\* from the moment the goal was accepted, or one with a mode, which needs the handle.
Cancel(requested) ==
    /\ serving /\ Active
    /\ IF requested = None THEN handle # "canceling" ELSE handle # None
    /\ \/ core.mode \in {None, "IMMEDIATE", requested}
       \/ requested \in {None, "IMMEDIATE"}
    /\ core' = [core EXCEPT !.mode = Resolved(core.mode, requested)]
    /\ transition' = (handle # "canceling")
    /\ Persist(core')
    /\ UNCHANGED <<serving, inhibited, handle, clean, physical>>

\* The action server makes the accepted cancellation the state of the goal.  Nothing reads
\* it before the handle is there.
Canceling ==
    /\ serving /\ transition /\ handle = "open"
    /\ transition' = FALSE /\ handle' = "canceling"
    /\ UNCHANGED <<serving, core, inhibited, known, durable, clean, physical>>

\* The rest of a tick that left core c: the journal, and the goal's result.
\* A CANCELED result waits for the action server's transition.
Ticked(c) ==
    /\ core' = c
    /\ Persist(c)
    /\ inhibited' = (inhibited \/ c.pending = "FATAL" \/ Inhibits(Kind(c)))
    /\ IF c.result = None \/ (c.result = "CANCELED" /\ handle = "open")
       THEN UNCHANGED <<handle, transition>>
       ELSE handle' = None /\ transition' = FALSE
    /\ UNCHANGED <<serving, clean>>

Ticking  == serving /\ Active /\ handle # None
Stopping == core.stage = "STOPPING" /\ core.running
Polling  == Ticking /\ ~Stopping /\ core.running /\ ~CancelNow(core)

\* The arm's adapter finds a fault.
TickFault ==
    /\ Ticking /\ core.running /\ ~Stopping
    /\ \E c \in Stop(Unsure(core), "FATAL") : Ticked(c)
    /\ UNCHANGED physical

TickCancel ==
    /\ Ticking /\ ~Stopping /\ CancelNow(core)
    /\ \E c \in Stop(Unsure(core), "CANCELED") : Ticked(c)
    /\ UNCHANGED physical

\* What a stage does to the arm once it has begun.
Commanded(stage) ==
    IF stage \in HandStages THEN "handling"
    ELSE IF stage \in MotionStages \cup RecoveryStages THEN "moving" ELSE arm

TickBegin ==
    /\ Ticking /\ ~CancelNow(core) /\ core.next # None
    /\ Ticked(Begun(core))
    /\ arm' = Commanded(core.next) /\ UNCHANGED hand

\* Mutant of Progressed: progress renews the deadline.
ProgressedAfresh(c) == [c EXCEPT !.age = 0]

\* Evidence of intermediate progress.
Progressed(c) == c

TickProgress ==
    /\ Polling /\ ~Late
    /\ core.stage \in AtomicStages \cup {"PREPARING_TARGET", "APPROACHING"}
    /\ Ticked(Progressed(core))
    /\ UNCHANGED physical

\* What the evidence of a stage says of the object, and whether the bin shows it.  That of
\* the verification may say nothing of either, and then success has no ground.
ObjectClaims(c, error) ==
    CASE c.stage \in {"GRASPING", "LIFTING"} -> {IF error = "NONE" THEN "HELD" ELSE "UNKNOWN"}
      [] c.stage = "PLACING" -> {"UNKNOWN"} \cup (IF error = "NONE" THEN {"LEFT_GRIPPER"} ELSE {})
      [] c.stage = "RELEASING_IN_PLACE" /\ error = "NONE" -> {"LEFT_GRIPPER"}
      [] c.stage = "VERIFYING_PLACEMENT" /\ error = "NONE" -> {"LEFT_GRIPPER", c.object}
      [] c.stage \in {"RELEASING_IN_PLACE", "TRANSPORTING"} /\ error # "NONE" ->
            {c.object, "UNKNOWN"}
      [] c.stage \in {"RETURNING_ARM", "RECOVERING_ARM"} /\ error # "NONE" ->
            {c.object, "LEFT_GRIPPER"}
      [] OTHER -> {c.object}

PlacedClaims(c, error) ==
    CASE c.stage = "VERIFYING_PLACEMENT" ->
            IF error = "NONE" THEN {TRUE, c.placed} ELSE {FALSE}
      [] c.stage \in {"RETURNING_ARM", "RECOVERING_ARM"} /\ error # "NONE" -> {c.placed, TRUE}
      [] OTHER -> {c.placed}

\* _apply, with the outcome of the stage.
Observed(c, error, object, placed, stopped) ==
    [c EXCEPT !.running = FALSE, !.age = 0,
              !.object = object, !.placed = placed,
              !.chosen = @ \/ (c.stage = "PREPARING_TARGET" /\ error = "NONE"),
              !.stopped = @ \/ stopped,
              !.recovered = @ \/ (stopped /\ c.stage # "VALIDATING")]

\* A stage ends.  Its evidence is true of the arm and of the hand.
TickEvidence ==
    /\ Polling /\ ~Late
    /\ \E error \in {"NONE", "PLAIN", "FAULT"}, stopped \in BOOLEAN :
       \E object \in ObjectClaims(core, error), placed \in PlacedClaims(core, error) :
          /\ object = "LEFT_GRIPPER" /\ core.object # object => hand = "empty"
          /\ object = "HELD" /\ core.object # object => hand = "full"
          /\ error = "NONE" => arm \in {"home", "out"}
          /\ stopped => /\ core.stage \in {"VALIDATING", "RETURNING_ARM", "RECOVERING_ARM"}
                        /\ arm \in {"home", "out"}
          /\ core.stage \in {"RETURNING_ARM", "RECOVERING_ARM"} =>
                /\ stopped = (error = "NONE")
                /\ stopped => arm = "home"
          /\ core.stage = "VALIDATING" /\ error = "NONE" => stopped
          /\ LET c == Observed(core, error, object, placed, stopped)
             IN \E after \in IF error = "NONE" THEN Completed(c) ELSE Fail(c, error) :
                   Ticked(after)
    /\ UNCHANGED physical

\* The stage's deadline has passed; evidence that comes with it is too late.
TickOverdue ==
    /\ Polling /\ Late
    /\ \E c \in Fail([Unsure(core) EXCEPT
                         !.placed = @ /\ core.stage # "VERIFYING_PLACEMENT"], "PLAIN") : Ticked(c)
    /\ UNCHANGED physical

\* A tick while the arm is asked to stop: a fault makes the outcome fatal.
TickStopping ==
    /\ Ticking /\ Stopping
    /\ \E c \in {core, [core EXCEPT !.pending = "FATAL"]} :
          \/ /\ Late
             /\ Ticked(Finished(c, "FATAL"))
          \/ /\ ~Late                               \* confirmed
             /\ arm \in {"home", "out"}
             /\ Ticked(Halted([c EXCEPT !.stopped = TRUE]))
          \/ /\ ~Late                               \* an error, or not confirmed
             /\ Ticked(Finished(c, "FATAL"))
          \/ /\ ~Late /\ c # core                   \* no evidence yet
             /\ Ticked(c)
    /\ UNCHANGED physical

\* The adapter raises: in stop handling, in fault() or poll(), after the outcome of a
\* stage was taken, or in begin().
TickRaises ==
    /\ Ticking
    /\ \/ /\ Stopping
          /\ Ticked(Finished(core, "FATAL"))
          /\ UNCHANGED arm
       \/ /\ core.running /\ ~Stopping
          /\ \E c \in Stop(Unsure(core), "FATAL") \cup Stop(core, "FATAL") : Ticked(c)
          /\ UNCHANGED arm
       \/ /\ ~CancelNow(core) /\ core.next # None
          /\ \E c \in Stop(Unsure(Begun(core)), "FATAL") : Ticked(c)
          /\ arm' \in {arm, Commanded(core.next)}
    /\ UNCHANGED hand

\* The goal of a canceled execution has entered CANCELING: its result may be set.
TickCloses ==
    /\ serving /\ core.result = "CANCELED" /\ handle = "canceling"
    /\ handle' = None
    /\ UNCHANGED <<serving, core, inhibited, transition, known, durable, clean, physical>>

\* The deadline of the running stage passes.
Elapse ==
    /\ serving /\ core.running /\ ~Late
    /\ core' = [core EXCEPT !.age = @ + 1]
    /\ UNCHANGED <<serving, inhibited, handle, transition, known, durable, clean, physical>>

\* The arm reaches the end of what it was told, or comes to rest on the way.
ArmRests ==
    /\ \/ arm = "moving" /\ arm' \in {"home", "out"}
       \/ arm = "handling" /\ arm' = "out"
    /\ UNCHANGED <<serving, process, clean, hand>>

\* The hand takes, loses or releases the object.
HandChanges ==
    /\ arm = "handling"
    /\ hand' \in {"empty", "full"} \ {hand}
    /\ UNCHANGED <<serving, process, clean, arm>>

\* The process ends; the arm goes on.
Crash ==
    /\ serving /\ serving' = FALSE
    /\ core' = NoCore /\ handle' = None /\ transition' = FALSE
    /\ UNCHANGED <<inhibited, known, durable, clean, physical>>

\* recover: an active execution was interrupted.
Restart ==
    /\ ~serving /\ serving' = TRUE
    /\ known' = [e \in Execution |->
                    IF durable[e] = "active" THEN "interrupted" ELSE durable[e]]
    /\ durable' \in [Execution -> {durable[e] : e \in Execution} \cup {"interrupted"}]
    /\ \A e \in Execution : durable'[e] \in {durable[e], known'[e]}
    /\ inhibited' = (\E e \in Execution : Inhibits(known'[e]))
    /\ UNCHANGED <<core, handle, transition, clean, physical>>

NodeSteps ==
    \/ \E e \in Execution : Goal(e)
    \/ Accepted \/ Canceling
    \/ \E requested \in Mode \cup {None} : Cancel(requested)

TickSteps ==
    \/ TickFault \/ TickCancel \/ TickBegin \/ TickProgress \/ TickEvidence
    \/ TickOverdue \/ TickStopping \/ TickRaises \/ TickCloses

Next ==
    \/ NodeSteps \/ TickSteps
    \/ Elapse \/ ArmRests \/ HandChanges \/ Crash \/ Restart

\* What a tick owes without an answer of the arm.
TickDue ==
    \/ TickCancel \/ TickBegin \/ TickOverdue \/ TickCloses
    \/ Late /\ TickStopping

\* The timer ticks, time passes, and the action server finishes what it began.  That a
\* stage or a stop ever answers is not assumed.
Fairness == WF_vars(TickDue) /\ WF_vars(Elapse) /\ WF_vars(Accepted \/ Canceling)

Spec == Init /\ [][Next]_vars /\ Fairness
-----------------------------------------------------------------------------
(* Properties.                                                             *)

CoreType ==
    [id : Execution \cup {None}, stage : Stage, object : Object, placed : BOOLEAN,
     chosen : BOOLEAN, stopped : BOOLEAN, recovered : BOOLEAN, mode : Mode \cup {None},
     result : Status \cup {None}, next : Stage \cup {None}, running : BOOLEAN,
     pending : Status \cup {None}, recovering : BOOLEAN, age : 0..Timeout]

Body ==
    CASE arm \in {"moving", "handling"} -> "moving"
      [] arm = "home" /\ hand = "empty" -> "clear"
      [] OTHER -> "resting"

Contract == INSTANCE ExecutionContract WITH body <- Body

\* The types, with what ties the fields: a stage runs or waits to begin, never both;
\* only a stop has an outcome pending; a goal that is being canceled has a mode.
TypeOK ==
    /\ serving \in BOOLEAN /\ inhibited \in BOOLEAN
    /\ clean \in BOOLEAN
    /\ core \in CoreType
    /\ handle \in {None, "open", "canceling"} /\ transition \in BOOLEAN
    /\ known \in [Execution -> Contract!Known] /\ durable \in [Execution -> Contract!Known]
    /\ arm \in {"home", "out", "moving", "handling"} /\ hand \in {"empty", "full"}
    /\ core.running => core.next = None
    /\ Active => core.running \/ core.next # None
    /\ Stopping => core.pending # None
    /\ transition => Canceled(core) /\ (handle = "open" \/ (handle = None /\ Active))

(* Whatever fails, and at whatever moment it is canceled, stopped, killed or *)
(* cannot write, the executor keeps its contract: it runs one execution at a *)
(* time, inhibits itself while an object or a stop is in doubt, keeps a      *)
(* result for good, calls an execution interrupted after a restart, and says *)
(* "stopped" and "safe to drive" only of an arm that is.                     *)
ContractIsKept == Contract!Spec

(* Once a cancellation was accepted no further stage of the task begins, and *)
(* after an immediate one nothing begins but the stop: also when it arrives  *)
(* between two stages, in a stop, or during the recovery of the arm.         *)
CancelStopsProgress ==
    [][Canceled(core) /\ core'.id = core.id /\ core'.stage # core.stage =>
          /\ core'.stage \notin Normal
          /\ core.mode = "IMMEDIATE" => core'.stage \in {"STOPPING", "FINALIZING"}]_vars

(* Every accepted execution ends with a result for its client, whatever the  *)
(* arm does not answer and however much progress it reports, or the process  *)
(* ends.                                                                     *)
ExecutionEnds == (serving /\ Active) ~> (~serving \/ (core.result # None /\ handle = None))
=============================================================================
