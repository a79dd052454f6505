----------------------------- MODULE Navigator -----------------------------
(***************************************************************************)
(* The Runtime's navigation port: a drive by Nav2, then the approach to    *)
(* the desk by its own action server, composed by StagedNavigator.  The    *)
(* two clients are alike: port["nav"] is Nav2Navigator, port["desk"] is    *)
(* DeskApproachPort.                                                       *)
(*                                                                         *)
(* Goals have ids that are saved before a goal is sent.  The answers of a  *)
(* server come as callbacks at any later time, or raise.  After a restart  *)
(* the saved goals are canceled.  A server moves the base until a goal is  *)
(* terminal; odometry that is fresh and stopped is true of the base.       *)
(*                                                                         *)
(* Left out: poses, the measured arrival error, lifecycle queries and the  *)
(* readiness of servers, which only refuse a start.  Requests in flight    *)
(* when the Runtime dies are taken or lost by then.                        *)
(***************************************************************************)
EXTENDS Integers, FiniteSets

CONSTANTS
    MaxGoal,        \* bound: goals that are sent
    None            \* no goal, no result, no answer

ASSUME MaxGoalAssumption == MaxGoal \in Nat \ {0}

VARIABLES
    up,             \* the Runtime runs
    port,           \* the two action clients
    stage,          \* StagedNavigator
    saved,          \* goal ids in the journal, per client
    recovery,       \* goals of a former process that are to be canceled
    answer,         \* the answer to the cancel request of the recovery
    server,         \* what the action servers know of every goal
    cancels,        \* cancel requests on their way
    issued,         \* number of goal ids given out
    base,           \* "moving" or "still"
    acknowledged    \* history: goals given up because a server accepted to cancel them

vars == <<up, port, stage, saved, recovery, answer, server, cancels, issued, base,
          acknowledged>>

Goal   == 1..MaxGoal
Client == {"nav", "desk"}

Terminal == {"succeeded", "canceled", "aborted"}
Live     == {"running", "canceling"}

\* No goal, no result, no answer.
ASSUME NoneAssumption ==
    /\ None \notin Goal
    /\ None \notin {"ok", "failed", "cancelled", "fatal", "asked", "accepted", "gone", "refused"}

\* A client without, and with, an operation.
NoPort == [op |-> None, waits |-> "nothing", cancelled |-> FALSE, result |-> None,
           terminal |-> TRUE]

\* Mutant of Sent: a goal has a result from the start.
SentAnswered(g) == [op |-> g, waits |-> "response", cancelled |-> FALSE, result |-> "ok",
                    terminal |-> FALSE]

Sent(g) == [op |-> g, waits |-> "response", cancelled |-> FALSE, result |-> None,
            terminal |-> FALSE]

NoStage == [op |-> None, home |-> FALSE, approaching |-> FALSE, result |-> None,
            cancelled |-> FALSE]

Init ==
    /\ up = TRUE
    /\ port = [p \in Client |-> NoPort] /\ stage = NoStage
    /\ saved = [p \in Client |-> None]
    /\ recovery = [p \in Client |-> None] /\ answer = [p \in Client |-> None]
    /\ server = [g \in Goal |-> "none"]
    /\ cancels = {} /\ issued = 0 /\ base = "still" /\ acknowledged = {}

\* Mutant of PortStopped: the goals of a former process are forgotten.
PortStoppedAfterRestart(p) ==
    port[p].terminal /\ (port[p].op # None => port[p].result # None)

\* stopped() of a client.
PortStopped(p) ==
    /\ recovery[p] = None
    /\ port[p].terminal
    /\ port[p].op # None => port[p].result # None

Stopped == up /\ base = "still" /\ \A p \in Client : PortStopped(p)
-----------------------------------------------------------------------------
(* The Runtime's calls.                                                    *)

Send(p, g) ==
    /\ issued' = g
    /\ saved' = [saved EXCEPT ![p] = g]
    /\ server' = [server EXCEPT ![g] = "sent"]

Start(home) ==
    LET g == issued + 1
    IN /\ Stopped /\ g \in Goal
       /\ Send("nav", g)
       /\ port' = [port EXCEPT !["nav"] = Sent(g)]
       /\ stage' = [NoStage EXCEPT !.op = g, !.home = home]
       /\ UNCHANGED <<up, recovery, answer, cancels, base, acknowledged>>

\* Saving the id or sending the goal raises: the drive client waits for nothing, and
\* the composition keeps its last operation.
StartRaises ==
    LET g == issued + 1
    IN /\ Stopped /\ g \in Goal
       /\ issued' = g
       /\ saved' \in {saved, [saved EXCEPT !["nav"] = g]}
       /\ port' = [port EXCEPT !["nav"] = [Sent(g) EXCEPT !.waits = "nothing"]]
       /\ UNCHANGED <<up, stage, recovery, answer, server, cancels, base, acknowledged>>

\* poll of a client: the results it may report, None when there is nothing yet.  A drive
\* without stopped feedback becomes fatal; one that arrived may be off its pose.
Polled(p) ==
    IF port[p].result = None THEN {None}
    ELSE IF ~port[p].terminal \/ base # "still" THEN IF p = "nav" THEN {None, "fatal"} ELSE {None}
    ELSE IF p = "nav" /\ port[p].result = "ok" THEN {None, "ok", "failed"}
    ELSE {port[p].result, None}

\* A client's poll that reports a confirmed result forgets the saved id.
Confirmed(p, result) ==
    /\ result # None /\ port[p].terminal /\ base = "still" /\ port[p].result # None

\* Mutant of Ends: the approach follows a drive that was cancelled.
EndsUnasked(result) == result # "ok" \/ stage.home

\* What the composition makes of the end of the drive.
Ends(result) == stage.cancelled \/ result # "ok" \/ stage.home

DriveResult(result) == IF stage.cancelled THEN "cancelled" ELSE result

PollDrive ==
    /\ up /\ stage.op # None /\ stage.op = port["nav"].op
    /\ stage.result = None /\ ~stage.approaching
    /\ \E result \in Polled("nav") \ {None} :
          /\ IF Ends(result)
             THEN /\ stage' = [stage EXCEPT !.result = DriveResult(result)]
                  /\ port' = [port EXCEPT !["nav"].result =
                                 IF Confirmed("nav", result) THEN result ELSE @]
                  /\ saved' = IF Confirmed("nav", result)
                              THEN [saved EXCEPT !["nav"] = None] ELSE saved
                  /\ UNCHANGED <<server, issued>>
             ELSE \/ /\ PortStopped("desk") /\ issued + 1 \in Goal
                     /\ issued' = issued + 1
                     /\ saved' = [nav |-> None, desk |-> issued + 1]
                     /\ server' = [server EXCEPT ![issued + 1] = "sent"]
                     /\ port' = [port EXCEPT !["desk"] = Sent(issued + 1)]
                     /\ stage' = [stage EXCEPT !.approaching = TRUE]
                  \/ /\ stage' = [stage EXCEPT !.result = "failed"]   \* it refuses
                     /\ saved' = [saved EXCEPT !["nav"] = None]
                     /\ UNCHANGED <<port, server, issued>>
    /\ UNCHANGED <<up, recovery, answer, cancels, base, acknowledged>>

PollApproach ==
    /\ up /\ stage.approaching /\ stage.result = None
    /\ \E result \in Polled("desk") \ {None} :
          /\ stage' = [stage EXCEPT !.result = result]
          /\ saved' = [saved EXCEPT !["desk"] = None]
    /\ UNCHANGED <<up, port, recovery, answer, server, cancels, issued, base, acknowledged>>

\* cancel of a client, by its goal handle or else, when that service is ready, by id.
CancelRequests(p) ==
    IF port[p].waits = "result" /\ port[p].result = None
    THEN {{port[p].op}} ELSE {{}, {port[p].op}}

Cancel ==
    /\ up /\ stage.op # None /\ stage.op = port["nav"].op
    /\ stage' = [stage EXCEPT !.cancelled = TRUE]
    /\ port' = [p \in Client |->
                   IF p = "nav" \/ stage.approaching
                   THEN [port[p] EXCEPT !.cancelled = TRUE] ELSE port[p]]
    /\ \E drive \in CancelRequests("nav"),
          approach \in IF stage.approaching THEN CancelRequests("desk") ELSE {{}} :
          cancels' = cancels \cup {g \in drive \cup approach : server[g] \notin Terminal}
    /\ UNCHANGED <<up, saved, recovery, answer, server, issued, base, acknowledged>>
-----------------------------------------------------------------------------
(* Callbacks of the clients.                                               *)

\* Mutant of AfterAcceptance: an acceptance is taken as it comes.
AfterAcceptanceNothing(p) == IF port[p].cancelled THEN {} ELSE {}

\* A goal that was canceled before it was accepted is canceled when it is.
AfterAcceptance(p) == IF port[p].cancelled THEN {port[p].op} ELSE {}

Accepted(p) ==
    /\ up /\ port[p].waits = "response" /\ server[port[p].op] # "sent"
    /\ \/ /\ server[port[p].op] = "rejected"
          /\ port' = [port EXCEPT ![p] = [@ EXCEPT !.waits = "nothing", !.terminal = TRUE,
                                                  !.result = "failed"]]
          /\ UNCHANGED cancels
       \/ /\ server[port[p].op] # "rejected"
          /\ port' = [port EXCEPT ![p].waits = "result"]
          /\ cancels' = cancels \cup AfterAcceptance(p)
       \/ /\ port' = [port EXCEPT ![p] = [@ EXCEPT !.waits = "nothing", !.result = "fatal"]]
          /\ UNCHANGED cancels                                       \* it raises
    /\ UNCHANGED <<up, stage, saved, recovery, answer, server, issued, base, acknowledged>>

\* The approach may have reached its goal and still not have succeeded.
ResultsOf(p) ==
    IF server[port[p].op] = "canceled" \/ (p = "desk" /\ port[p].cancelled) THEN {"cancelled"}
    ELSE IF server[port[p].op] # "succeeded" THEN {"failed"}
    ELSE IF p = "nav" THEN {"ok"} ELSE {"ok", "failed"}

Finished(p) ==
    /\ up /\ port[p].waits = "result" /\ server[port[p].op] \in Terminal
    /\ \/ \E result \in ResultsOf(p) :
             port' = [port EXCEPT ![p] = [@ EXCEPT !.waits = "nothing", !.terminal = TRUE,
                                                  !.result = result]]
       \/ port' = [port EXCEPT ![p] = [@ EXCEPT !.waits = "nothing",
                                               !.result = "fatal"]]  \* it raises
    /\ UNCHANGED <<up, stage, saved, recovery, answer, server, cancels, issued, base,
                   acknowledged>>

\* _status: Nav2 publishes that the goal is terminal.
StatusSeen ==
    /\ up /\ port["nav"].op # None
    /\ server[port["nav"].op] \in Terminal /\ ~port["nav"].terminal
    /\ port' = [port EXCEPT !["nav"].terminal = TRUE]
    /\ UNCHANGED <<up, stage, saved, recovery, answer, server, cancels, issued, base,
                   acknowledged>>
-----------------------------------------------------------------------------
(* Restart: maintain() cancels the goals a former process left.            *)

RecoveryAsk(p) ==
    /\ up /\ recovery[p] # None /\ answer[p] = None
    /\ answer' = [answer EXCEPT ![p] = "asked"]
    /\ UNCHANGED <<up, port, stage, saved, recovery, server, cancels, issued, base,
                   acknowledged>>

\* The server answers: canceling now, over or unknown, or refused; or the answer is lost
\* and the request is made again.
RecoveryAnswered(p) ==
    /\ up /\ answer[p] = "asked"
    /\ \/ /\ server[recovery[p]] \in Live
          /\ server' = [server EXCEPT ![recovery[p]] = "canceling"]
          /\ answer' = [answer EXCEPT ![p] = "accepted"]
       \/ /\ server[recovery[p]] \notin Live
          /\ answer' = [answer EXCEPT ![p] = "gone"]
          /\ UNCHANGED server
       \/ /\ answer' = [answer EXCEPT ![p] = "refused"]
          /\ UNCHANGED server
       \/ /\ answer' = [answer EXCEPT ![p] = None]
          /\ \/ UNCHANGED server
             \/ /\ server[recovery[p]] = "running"
                /\ server' = [server EXCEPT ![recovery[p]] = "canceling"]
    /\ UNCHANGED <<up, port, stage, saved, recovery, cancels, issued, base, acknowledged>>

\* The answers that end a recovery once the base stands.
Suffices(p) == IF p = "nav" THEN {"accepted", "gone"} ELSE {"gone"}

RecoveryDone(p) ==
    /\ up /\ answer[p] \in {"accepted", "gone", "refused"}
    /\ p = "nav" => base = "still"
    /\ answer' = [answer EXCEPT ![p] = None]
    /\ IF base = "still" /\ answer[p] \in Suffices(p)
       THEN /\ recovery' = [recovery EXCEPT ![p] = None]
            /\ saved' = [saved EXCEPT ![p] = None]
            /\ acknowledged' = acknowledged \cup
                  (IF answer[p] = "accepted" THEN {recovery[p]} ELSE {})
       ELSE UNCHANGED <<recovery, saved, acknowledged>>
    /\ UNCHANGED <<up, port, stage, server, cancels, issued, base>>

Crash ==
    /\ up /\ up' = FALSE
    /\ port' = [p \in Client |-> NoPort] /\ stage' = NoStage
    /\ recovery' = [p \in Client |-> None] /\ answer' = [p \in Client |-> None]
    /\ cancels' = {}
    /\ \E taken \in {"running", "rejected"} :
          server' = [g \in Goal |-> IF server[g] = "sent" THEN taken ELSE server[g]]
    /\ UNCHANGED <<saved, issued, base, acknowledged>>

Restart ==
    /\ ~up /\ up' = TRUE
    /\ recovery' = saved
    /\ UNCHANGED <<port, stage, saved, answer, server, cancels, issued, base, acknowledged>>
-----------------------------------------------------------------------------
(* The action servers and the base.                                        *)

TakeGoal(g) ==
    /\ server[g] = "sent"
    /\ \E taken \in {"running", "rejected"} : server' = [server EXCEPT ![g] = taken]
    /\ UNCHANGED <<up, port, stage, saved, recovery, answer, cancels, issued, base,
                   acknowledged>>

\* A cancel request that comes before its goal finds nothing.
TakeCancel(g) ==
    /\ g \in cancels /\ cancels' = cancels \ {g}
    /\ server' = IF server[g] = "running" THEN [server EXCEPT ![g] = "canceling"] ELSE server
    /\ UNCHANGED <<up, port, stage, saved, recovery, answer, issued, base, acknowledged>>

GoalEnds(g) ==
    /\ server[g] \in Live
    /\ \E end \in Terminal :
          /\ end = "canceled" => server[g] = "canceling"
          /\ server' = [server EXCEPT ![g] = end]
    /\ UNCHANGED <<up, port, stage, saved, recovery, answer, cancels, issued, base,
                   acknowledged>>

BaseMoves ==
    /\ base = "still" /\ \E g \in Goal : server[g] \in Live
    /\ base' = "moving"
    /\ UNCHANGED <<up, port, stage, saved, recovery, answer, server, cancels, issued,
                   acknowledged>>

BaseStops ==
    /\ base = "moving" /\ base' = "still"
    /\ UNCHANGED <<up, port, stage, saved, recovery, answer, server, cancels, issued,
                   acknowledged>>

Next ==
    \/ \E home \in BOOLEAN : Start(home)
    \/ StartRaises \/ PollDrive \/ PollApproach \/ Cancel \/ StatusSeen
    \/ \E p \in Client :
          \/ Accepted(p) \/ Finished(p)
          \/ RecoveryAsk(p) \/ RecoveryAnswered(p) \/ RecoveryDone(p)
    \/ Crash \/ Restart
    \/ \E g \in Goal : TakeGoal(g) \/ TakeCancel(g) \/ GoalEnds(g)
    \/ BaseMoves \/ BaseStops

\* Callbacks are delivered and requests arrive.  No goal need ever end.
Fairness ==
    /\ \A p \in Client : WF_vars(Accepted(p))
    /\ \A g \in Goal : WF_vars(TakeGoal(g)) /\ WF_vars(TakeCancel(g))

Spec == Init /\ [][Next]_vars /\ Fairness
-----------------------------------------------------------------------------
(* Properties.                                                             *)

ClientResult == {None, "ok", "failed", "cancelled", "fatal"}

\* The types; goal ids are issued in order, and a client that waits has no result yet.
TypeOK ==
    /\ up \in BOOLEAN /\ base \in {"moving", "still"} /\ issued \in 0..MaxGoal
    /\ port \in [Client -> [op : Goal \cup {None}, waits : {"nothing", "response", "result"},
                            cancelled : BOOLEAN, result : ClientResult, terminal : BOOLEAN]]
    /\ stage \in [op : Goal \cup {None}, home : BOOLEAN, approaching : BOOLEAN,
                  result : ClientResult, cancelled : BOOLEAN]
    /\ saved \in [Client -> Goal \cup {None}] /\ recovery \in [Client -> Goal \cup {None}]
    /\ answer \in [Client -> {None, "asked", "accepted", "gone", "refused"}]
    /\ server \in [Goal -> {"none", "sent", "rejected"} \cup Live \cup Terminal]
    /\ cancels \subseteq Goal /\ acknowledged \subseteq Goal
    /\ \A g \in Goal : server[g] # "none" => g <= issued
    /\ \A p \in Client : port[p].waits # "nothing" => port[p].result = None

\* A goal that drives the base, or is about to: a goal that is being canceled still does.
OnTheWay(g) == server[g] \in {"sent"} \cup Live

(* While the navigation port says that it is stopped, no goal drives the     *)
(* base or is about to: also after a goal whose answers raised, and in a     *)
(* process that found goals of a former one.  The one exception is a goal    *)
(* of a former process whose server accepted to cancel it and is not done:   *)
(* the drive client takes that answer for enough once the base stands.       *)
StoppedLeavesOnlyAcknowledged ==
    Stopped => \A g \in Goal :
                  OnTheWay(g) => server[g] = "canceling" /\ g \in acknowledged

(* An operation that was cancelled never sends another goal: not the         *)
(* approach after a drive that arrived all the same.                         *)
CancelledSendsNothing ==
    [][\A g \in Goal : server[g] = "none" /\ server'[g] = "sent" /\ stage'.op = stage.op
            => ~stage.cancelled]_vars

Driving(p) == \E g \in Goal : port[p].op = g /\ server[g] \in {"sent", "running"}

(* A cancelled operation's goal does not run on, though the cancellation     *)
(* came before the goal was accepted, between the two stages, or crossed an  *)
(* answer: unless the answer itself failed, or the process ends.             *)
CancelTakesEffect ==
    \A p \in Client :
        (up /\ port[p].cancelled /\ Driving(p))
            ~> (~up \/ port[p].result = "fatal" \/ ~Driving(p))
=============================================================================
