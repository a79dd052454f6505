--------------------------- MODULE BridgeContract ---------------------------
(***************************************************************************)
(* What the control bridge promises to the Backend, whatever happens to    *)
(* the connection, to its calls of the Mission Runtime and to either       *)
(* process: what it tells of a mission is so, and what it calls applied    *)
(* has been done.  An abstract specification that ControlBridge            *)
(* implements.                                                             *)
(***************************************************************************)
CONSTANTS Mission, Request, None

VARIABLES
    state,      \* of every mission, at the Runtime
    admitted,   \* what the Runtime has admitted under the id, or None
    told,       \* the events in the outbox, <<mission, kind>>
    pending,    \* those that the Backend has not acknowledged
    applied,    \* commands acknowledged to the Backend, <<kind, mission, contents>>
    known       \* missions whose outcome the Backend has acknowledged

vars == <<state, admitted, told, pending, applied, known>>

Onward == {<<"unknown", "working">>, <<"working", "cancelling">>, <<"working", "over">>,
           <<"cancelling", "over">>}

\* A conflict is told whenever an id is offered with other contents than the admitted
\* ones, also after the outcome of the mission that has it.
Conflicting(m, kind) == kind = "conflict" /\ state[m] # "unknown"

\* An event that is true of a mission in this state, and comes in its turn.
InTurn(m, kind) ==
    /\ kind # "conflict" /\ <<m, "result">> \notin told
    /\ kind \in {"rejected", "accepted"} => <<m, "accepted">> \notin told
    /\ kind = "rejected" => state[m] = "unknown"
    /\ kind = "result" => state[m] = "over"
    /\ kind # "rejected" => state[m] # "unknown"
    /\ kind \notin {"rejected", "result"} => <<m, "accepted">> \in told'

MayTell(m, kind) == Conflicting(m, kind) \/ InTurn(m, kind)

\* A command is applied when the Runtime has decided on it: an offer is the admitted one,
\* or was turned down, and a cancelled mission cannot run any more.
Applicable(c) ==
    IF c[1] = "offer"
    THEN admitted[c[2]] = c[3] \/ <<c[2], "rejected">> \in told \/ <<c[2], "conflict">> \in told
    ELSE state[c[2]] \in {"cancelling", "over"}

Init ==
    /\ state = [m \in Mission |-> "unknown"]
    /\ admitted = [m \in Mission |-> None]
    /\ told = {} /\ pending = {} /\ applied = {} /\ known = {}

Next ==
    /\ state' \in [Mission -> {"unknown", "working", "cancelling", "over"}]
    /\ \A m \in Mission : state'[m] = state[m] \/ <<state[m], state'[m]>> \in Onward
    /\ admitted' \in [Mission -> Request \cup {None}]
    /\ \A m \in Mission :
          admitted'[m] = admitted[m] \/ (state[m] = "unknown" /\ state'[m] = "working")
    /\ told \subseteq told' /\ pending' \subseteq told'
    /\ \A e \in (told' \ told) \cup (pending' \ pending) : MayTell(e[1], e[2])
    /\ applied \subseteq applied' /\ \A c \in applied' \ applied : Applicable(c)
    /\ known \subseteq known' /\ \A m \in known' : <<m, "result">> \in told

Spec == Init /\ [][Next]_vars
=============================================================================
