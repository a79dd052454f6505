------------------------- MODULE ExecutionContract -------------------------
(***************************************************************************)
(* What the manipulation executor promises to its clients about every      *)
(* execution, whatever its stages, its cancellations and its database do:  *)
(* an abstract specification that ExecutionCore implements and that        *)
(* ManipulationBoundary composes with the client.                          *)
(*                                                                         *)
(* known is what a lookup answers.  An execution that ended is "safe" (the *)
(* robot may drive), "still" or "held" (stopped, not safe), "halted"       *)
(* (fatal, stopped), "open" or "fatal" (no confirmed stop).                *)
(***************************************************************************)
CONSTANT Execution

VARIABLES
    serving,        \* the process runs
    known,          \* what it knows of every execution
    inhibited,      \* it accepts nothing more
    clean,          \* the last accepted execution found the arm clear
    body            \* the arm: "moving", at rest ("resting"), or home and empty ("clear")

vars == <<serving, known, inhibited, clean, body>>

Inhibiting == {"interrupted", "held", "halted", "fatal"}
Stopped    == {"safe", "still", "held", "halted"}
Final      == Stopped \cup {"open", "fatal"}
Known      == {"unknown", "active", "interrupted"} \cup Final
Body       == {"clear", "resting", "moving"}

Active == {e \in Execution : known[e] = "active"}

Init ==
    /\ serving = TRUE
    /\ known = [e \in Execution |-> "unknown"]
    /\ inhibited = FALSE
    /\ clean = TRUE
    /\ body = "clear"

Accept(e) ==
    /\ serving /\ ~inhibited
    /\ known[e] = "unknown" /\ Active = {}
    /\ known' = [known EXCEPT ![e] = "active"]
    /\ clean' = (body = "clear")
    /\ UNCHANGED <<serving, inhibited, body>>

\* Only an active execution sets the arm in motion, and a fault or a stop may inhibit.
Work ==
    /\ serving /\ Active # {}
    /\ body' \in {body, "moving"} /\ inhibited' \in {inhibited, TRUE}
    /\ UNCHANGED <<serving, known, clean>>

\* An ended execution is called stopped or safe only when it is.
Finish(e, end) ==
    /\ serving /\ known[e] = "active"
    /\ body' \in {body, "moving"}
    /\ end \in Stopped => body' # "moving"
    /\ (end = "safe" /\ clean) => body' = "clear"
    /\ known' = [known EXCEPT ![e] = end]
    /\ inhibited' \in {inhibited \/ end \in Inhibiting, TRUE}
    /\ UNCHANGED <<serving, clean>>

\* What moves comes to rest, with or without the object.
Settle ==
    /\ body = "moving" /\ body' \in Body
    /\ UNCHANGED <<serving, known, inhibited, clean>>

Crash ==
    /\ serving /\ serving' = FALSE
    /\ UNCHANGED <<known, inhibited, clean, body>>

\* A restart finds an ended execution as it was or as an interrupted one, and nothing
\* of what could not be written.
Restart ==
    /\ ~serving /\ serving' = TRUE
    /\ known' \in [Execution -> Known]
    /\ \A e \in Execution :
          known'[e] \in CASE known[e] = "unknown" -> {"unknown"}
                          [] known[e] = "active"  -> {"unknown", "interrupted"}
                          [] known[e] = "interrupted" -> {"interrupted"}
                          [] OTHER -> {"unknown", "interrupted", known[e]}
    /\ inhibited' = (\E e \in Execution : known'[e] \in Inhibiting)
    /\ UNCHANGED <<clean, body>>

Next ==
    \/ \E e \in Execution : Accept(e) \/ \E end \in Final : Finish(e, end)
    \/ Work \/ Settle \/ Crash \/ Restart

Spec == Init /\ [][Next]_vars
=============================================================================
