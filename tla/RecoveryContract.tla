-------------------------- MODULE RecoveryContract --------------------------
(***************************************************************************)
(* What the Supervisor promises about the resets it asks for, whatever its *)
(* timers, its calls and the owner of the component do: one at a time, a   *)
(* bounded number per fault episode, none after a cancellation.  An        *)
(* abstract specification that Recovery implements.                        *)
(***************************************************************************)
EXTENDS Integers

CONSTANTS Fault, MaxAttempts

VARIABLES
    running,        \* resets of this process that the owner has not ended
    tries,          \* attempts of the current episode of every fault
    quit            \* faults whose recovery was cancelled

vars == <<running, tries, quit>>

Init == running = {} /\ tries = [f \in Fault |-> 0] /\ quit = {}

(* The episodes in over have ended; at most one attempt is made, and a     *)
(* reset starts when no other one is under way.                            *)
Serve(over) ==
    LET was == [f \in Fault |-> IF f \in over THEN 0 ELSE tries[f]]
        Try(f) == /\ f \notin quit \ over
                  /\ was[f] < MaxAttempts
                  /\ tries' = [was EXCEPT ![f] = @ + 1]
    IN  /\ over \subseteq Fault \ running
        /\ quit \ over \subseteq quit'
        /\ \/ tries' = was /\ running' \subseteq running
           \/ \E f \in Fault : Try(f) /\ \/ running' \subseteq running
                                         \/ running = {} /\ running' = {f}

\* A new process knows of nothing.
Restart == running' = {} /\ tries' = [f \in Fault |-> 0] /\ quit' = {}

Next == (\E over \in SUBSET Fault : Serve(over)) \/ Restart

Spec == Init /\ [][Next]_vars
=============================================================================
