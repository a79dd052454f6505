------------------------ MODULE ManipulationBoundary ------------------------
(***************************************************************************)
(* The Runtime's manipulation port against the executor: one object-level  *)
(* action is saved, sent, waited for, canceled and looked up over ROS,     *)
(* while either process may die, a save may fail, and requests and replies *)
(* are late or lost.  The executor is its contract (ExecutionContract).    *)
(*                                                                         *)
(* A future of the port is None, "pending", or its answer; "expired" is a  *)
(* pending one older than a second.  The class of an outcome stands for    *)
(* the outcome: only a "safe" one is safe_to_drive and needs no human.     *)
(* Left out: diagnostics, feedback, and malformed answers, which the port  *)
(* treats like a failed save: it keeps the execution and asks again.       *)
(***************************************************************************)
EXTENDS FiniteSets

CONSTANTS
    Execution,      \* execution ids, each fresh when it is started
    None,           \* no execution, no outcome, no call
    InitialSafe     \* the parameter initial_mock_safe

ASSUME InitialSafeAssumption == InitialSafe \in BOOLEAN

VARIABLES
    serving, known, inhibited, clean, body,   \* the executor
    up,             \* the Runtime runs
    port,           \* its manipulation port
    journal,        \* the saved goal and outcome
    goals,          \* goal requests on the wire
    cancels,        \* cancel requests on the wire, for an execution without an outcome
    told,           \* running executions whose cancellation the executor has accepted
    answerable,     \* executions accepted by the running executor process
    used            \* ids that were given out

executor == <<serving, known, inhibited, clean, body>>
wire     == <<goals, cancels, told, answerable>>
client   == <<up, port, journal, used>>
vars     == <<executor, wire, client>>

Executor == INSTANCE ExecutionContract

\* No answer, no outcome.
ASSUME NoneAssumption ==
    None \notin Execution \cup Executor!Known
                \cup {"pending", "accepted", "rejected", "expired", "answered"}

NoBlob == [goal |-> None, outcome |-> None]

\* Mutant of Loaded: a restart takes the arm to be as it was at the first start.
LoadedSafe(blob) ==
    [goal |-> blob.goal, outcome |-> blob.outcome, fresh |-> InitialSafe,
     cancel |-> blob.goal # None /\ blob.outcome = None,
     send |-> None, result |-> None, lookup |-> None, call |-> None]

\* The port as its constructor leaves it: an open execution is to be canceled.
Loaded(blob) ==
    [goal |-> blob.goal, outcome |-> blob.outcome, fresh |-> InitialSafe /\ blob = NoBlob,
     cancel |-> blob.goal # None /\ blob.outcome = None,
     send |-> None, result |-> None, lookup |-> None, call |-> None]

Blob(p) == [goal |-> p.goal, outcome |-> p.outcome]

Init ==
    /\ Executor!Init
    /\ up = TRUE /\ journal = NoBlob /\ port = Loaded(NoBlob)
    /\ goals = {} /\ cancels = {} /\ told = {} /\ answerable = {} /\ used = {}

\* stopped() and safe_to_drive() of the port.
Stopped     == up /\ (port.fresh \/ port.outcome \in Executor!Stopped)
SafeToDrive == up /\ (port.fresh \/ port.outcome = "safe")
-----------------------------------------------------------------------------
(* The port.                                                               *)

Started(e) ==
    [goal |-> e, outcome |-> None, fresh |-> FALSE, cancel |-> FALSE,
     send |-> "pending", result |-> None, lookup |-> None, call |-> None]

\* start: the goal is saved, then sent; sending may raise before or after the request
\* has left.  A cancel request for the last execution no longer finds it.
Start(e) ==
    /\ SafeToDrive /\ e \notin used
    /\ used' = used \cup {e}
    /\ journal' = Blob(Started(e))
    /\ \/ port' = Started(e) /\ goals' = goals \cup {e}
       \/ /\ port' = [Started(e) EXCEPT !.send = None, !.cancel = TRUE]
          /\ goals' \in {goals, goals \cup {e}}
    /\ cancels' = {}
    /\ UNCHANGED <<executor, up, told, answerable>>

\* start, when the save raises: nothing is sent, but the port has let go of its outcome.
StartUnsaved(e) ==
    /\ SafeToDrive /\ e \notin used
    /\ used' = used \cup {e}
    /\ port' = [Started(e) EXCEPT !.send = None]
    /\ UNCHANGED <<executor, wire, up, journal>>

\* maintain, in its order: the goal response, the result, ...
SendDone(p) ==
    CASE p.send = "accepted" -> [p EXCEPT !.send = None, !.result = "pending"]
      [] p.send = "rejected" -> [p EXCEPT !.send = None, !.cancel = TRUE]
      [] OTHER -> p

ResultDone(p, saved) ==
    IF p.result \notin Executor!Final THEN p
    ELSE IF saved THEN [p EXCEPT !.result = None, !.outcome = p.result]
    ELSE [p EXCEPT !.result = None, !.cancel = TRUE]

\* ... the cancel request, again when the last one was answered or is too old, ...
\* Mutant of Resends: one cancel request is enough.
ResendsOnce(p) == p.cancel /\ p.call = None

Resends(p) == p.cancel /\ p.call # "pending"

CancelDone(p) == IF Resends(p) THEN [p EXCEPT !.call = "pending"] ELSE p

\* ... the answer of a lookup, ...
\* Mutants of LookupDone: a record that is not there is an execution that never began;
\* a record is taken as an outcome before it is final.
LookupMissIsSafe(p, saved) ==
    CASE p.lookup \in {None, "pending", "expired"} -> p
      [] p.lookup \in Executor!Final -> [p EXCEPT !.lookup = None, !.outcome = p.lookup]
      [] p.lookup = "unknown" -> [p EXCEPT !.lookup = None, !.outcome = "safe"]
      [] OTHER -> [p EXCEPT !.lookup = None]

LookupUnfinished(p, saved) ==
    IF p.lookup \in {None, "pending", "expired"} THEN p
    ELSE [p EXCEPT !.lookup = None, !.outcome = p.lookup]

LookupDone(p, saved) ==
    CASE p.lookup \in {None, "pending", "expired"} -> p
      [] p.lookup \in Executor!Final /\ saved -> [p EXCEPT !.lookup = None, !.outcome = p.lookup]
      [] OTHER -> [p EXCEPT !.lookup = None]

\* ... and the next lookup.
LookupNext(p) == IF p.lookup \in {None, "expired"} THEN [p EXCEPT !.lookup = "pending"] ELSE p

Maintained(p, saved) ==
    LET heard  == ResultDone(SendDone(p), saved)
        looked == LookupDone(CancelDone(heard), saved)
    IN IF heard.outcome # None THEN heard
       ELSE IF looked.outcome # None THEN looked
       ELSE LookupNext(looked)

Maintains(p) ==
    /\ up /\ p.goal # None /\ p.outcome = None
    /\ \E saved \in BOOLEAN :
          LET heard == ResultDone(SendDone(p), saved)
          IN /\ port' = Maintained(p, saved)
             /\ cancels' = IF heard.outcome = None /\ Resends(heard)
                           THEN cancels \cup {p.goal} ELSE cancels
    /\ journal' = IF port'.outcome # None THEN Blob(port') ELSE journal
    /\ UNCHANGED <<executor, up, used, goals, told, answerable>>

Maintain == Maintains(port)

Cancel == Maintains([port EXCEPT !.cancel = TRUE])

\* A second passes: pending calls are dropped by the next maintain.
Expire ==
    /\ up /\ "pending" \in {port.call, port.lookup}
    /\ port' = [port EXCEPT !.call   = IF @ = "pending" THEN "expired" ELSE @,
                            !.lookup = IF @ = "pending" THEN "expired" ELSE @]
    /\ UNCHANGED <<executor, wire, up, journal, used>>

RuntimeCrash ==
    /\ up /\ up' = FALSE
    /\ port' = Loaded(NoBlob)
    /\ UNCHANGED <<executor, wire, journal, used>>

RuntimeRestart ==
    /\ ~up /\ up' = TRUE
    /\ port' = Loaded(journal)
    /\ UNCHANGED <<executor, wire, journal, used>>
-----------------------------------------------------------------------------
(* The wire.                                                               *)

Waits(e, future) == up /\ port.goal = e /\ future

\* The executor takes a goal request, or refuses it; its response may be lost.
ReceiveGoal(e) ==
    /\ serving /\ e \in goals
    /\ goals' = goals \ {e}
    /\ \E response \in {"accepted", "rejected"}, arrives \in BOOLEAN :
          /\ IF response = "accepted"
             THEN Executor!Accept(e) /\ answerable' = answerable \cup {e}
             ELSE UNCHANGED <<executor, answerable>>
          /\ port' = IF arrives /\ Waits(e, port.send = "pending")
                     THEN [port EXCEPT !.send = response] ELSE port
    /\ UNCHANGED <<up, journal, used, cancels, told>>

LoseGoal(e) ==
    /\ e \in goals /\ goals' = goals \ {e}
    /\ UNCHANGED <<executor, client, cancels, told, answerable>>

\* The result, from the process that accepted the goal.
ReceiveResult(e) ==
    /\ serving /\ e \in answerable /\ known[e] \in Executor!Final
    /\ Waits(e, port.result = "pending")
    /\ port' = [port EXCEPT !.result = known[e]]
    /\ UNCHANGED <<executor, wire, up, journal, used>>

\* The record, as it is when the executor answers; it is used at the next maintain.
ReceiveRecord ==
    /\ serving /\ up /\ port.lookup = "pending"
    /\ port' = [port EXCEPT !.lookup = known[port.goal]]
    /\ UNCHANGED <<executor, wire, up, journal, used>>

\* A cancel request finds the execution, or one that is not there (yet).
ReceiveCancel(e) ==
    /\ serving /\ e \in cancels
    /\ cancels' = cancels \ {e}
    /\ told' = IF known[e] = "active" /\ e \in answerable THEN told \cup {e} ELSE told
    /\ port' \in {port, IF Waits(e, port.call = "pending")
                        THEN [port EXCEPT !.call = "answered"] ELSE port}
    /\ UNCHANGED <<executor, up, journal, used, goals, answerable>>

LoseCancel(e) ==
    /\ e \in cancels /\ cancels' = cancels \ {e}
    /\ UNCHANGED <<executor, client, goals, told, answerable>>
-----------------------------------------------------------------------------
ExecutorWorks ==
    /\ \/ Executor!Work \/ Executor!Settle
       \/ \E e \in Execution, end \in Executor!Final : Executor!Finish(e, end)
    /\ told' = told \cap Executor!Active'
    /\ UNCHANGED <<goals, cancels, answerable, client>>

ExecutorCrash ==
    /\ Executor!Crash
    /\ answerable' = {} /\ told' = {}
    /\ UNCHANGED <<client, goals, cancels>>

ExecutorRestart == Executor!Restart /\ UNCHANGED <<wire, client>>

Next ==
    \/ \E e \in Execution :
          \/ Start(e) \/ StartUnsaved(e)
          \/ ReceiveGoal(e) \/ LoseGoal(e) \/ ReceiveResult(e)
          \/ ReceiveCancel(e) \/ LoseCancel(e)
    \/ Maintain \/ Cancel \/ Expire \/ ReceiveRecord
    \/ RuntimeCrash \/ RuntimeRestart
    \/ ExecutorWorks \/ ExecutorCrash \/ ExecutorRestart

\* The Runtime's tick calls maintain, time passes, and a cancel request that is sent
\* again and again arrives in the end.
Fairness ==
    /\ WF_vars(Maintain) /\ WF_vars(Expire)
    /\ SF_vars(\E e \in Execution : ReceiveCancel(e))

Spec == Init /\ [][Next]_vars /\ Fairness
-----------------------------------------------------------------------------
(* Properties.                                                             *)

\* The types of the port's fields, its futures and the journal; nothing is on the wire of an
\* execution that was never started.
TypeOK ==
    /\ up \in BOOLEAN
    /\ goals \subseteq used /\ cancels \subseteq used /\ told \subseteq used
    /\ answerable \subseteq used /\ used \subseteq Execution
    /\ journal.goal \in Execution \cup {None}
    /\ journal.outcome \in Executor!Final \cup {None}
    /\ port.goal \in Execution \cup {None}
    /\ port.outcome \in Executor!Final \cup {None}
    /\ {port.fresh, port.cancel} \subseteq BOOLEAN
    /\ port.send \in {None, "pending", "accepted", "rejected"}
    /\ port.result \in Executor!Final \cup {None, "pending"}
    /\ port.lookup \in Executor!Known \cup {None, "pending", "expired"}
    /\ port.call \in {None, "pending", "expired", "answered"}

(* The Runtime lets the base drive only when the arm is home and empty and   *)
(* nothing can set it in motion: no execution is active, none is on its way. *)
(* It calls manipulation stopped only when the arm does not move.  Lost and  *)
(* late answers, failed saves and restarts of either side do not matter.     *)
DriveGateIsTrue ==
    /\ SafeToDrive => body = "clear" /\ Executor!Active = {} /\ goals = {}
    /\ Stopped => body # "moving" /\ Executor!Active = {}

(* The executor begins an execution only with the arm home and empty, though *)
(* it may itself have forgotten, with its database, that the arm is not.     *)
EveryStartIsClean == clean

(* A cancellation reaches an execution that runs, also when it was asked for *)
(* before the executor had accepted the goal, after a restart, or when       *)
(* requests are lost: unless the execution ends or a process does.           *)
CancelReaches ==
    (up /\ port.cancel /\ port.goal \in Executor!Active)
        ~> (port.goal \in told \/ port.goal \notin Executor!Active \/ ~serving)
=============================================================================
