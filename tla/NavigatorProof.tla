--------------------------- MODULE NavigatorProof ---------------------------
(***************************************************************************)
(* Theorems about Navigator: for every number of goals, the types, that a  *)
(* stopped port has no goal that drives the base but those it gave up, and *)
(* that a cancelled operation sends no other goal.                         *)
(***************************************************************************)
EXTENDS Navigator, TLAPS

USE MaxGoalAssumption, NoneAssumption

\* The records of a client and of the composition.
Future == {"nothing", "response", "result"}
Answer == {"asked", "accepted", "gone", "refused"}
Known  == {"none", "sent", "rejected"} \cup Live \cup Terminal
Port   == [op : Goal \cup {None}, waits : Future, cancelled : BOOLEAN, result : ClientResult,
           terminal : BOOLEAN]
Ending == {"canceling"} \cup Terminal
Stage  == [op : Goal \cup {None}, home : BOOLEAN, approaching : BOOLEAN,
           result : ClientResult, cancelled : BOOLEAN]

TypeInv ==
    /\ up \in BOOLEAN /\ base \in {"moving", "still"} /\ issued \in 0..MaxGoal
    /\ port \in [Client -> Port] /\ stage \in Stage
    /\ saved \in [Client -> Goal \cup {None}] /\ recovery \in [Client -> Goal \cup {None}]
    /\ answer \in [Client -> Answer \cup {None}]
    /\ server \in [Goal -> Known] /\ cancels \subseteq Goal /\ acknowledged \subseteq Goal

\* Ids are issued in order, a client that waits has a goal and no result, and a goal that
\* was given up is being canceled or is over.
IdInv ==
    /\ \A g \in Goal : server[g] # "none" => g <= issued
    /\ \A g \in acknowledged : server[g] \in Ending
    /\ stage.op # None => stage.op <= issued
    /\ stage.approaching => port["desk"].op # None
    /\ \A p \in Client : port[p].waits # "nothing" => port[p].op # None /\ port[p].result = None

\* A goal that drives the base, or is about to, and was not given up.
Busy(g) == OnTheWay(g) /\ g \notin acknowledged

\* A process that has still to cancel former goals, or is down, has no operation.
RecoveryInv ==
    /\ ~up => \A p \in Client : recovery[p] = None
    /\ ~up \/ (\E p \in Client : recovery[p] # None) =>
          /\ port = [p \in Client |-> NoPort] /\ stage = NoStage
          /\ \A g \in Goal : server[g] # "sent"

\* A recovery ends for an answer that is true of the goal.
IsTrue(a, g) ==
    /\ a = "accepted" => server[g] \in Ending
    /\ a = "gone" => ~OnTheWay(g)

AnswerInv ==
    \A p \in Client : answer[p] # None => recovery[p] # None /\ IsTrue(answer[p], recovery[p])

\* Somebody looks after g, and a process that starts will find it.
Kept(p, g) ==
    /\ saved[p] = g
    /\ up => recovery[p] = g \/ (port[p].op = g /\ ~port[p].terminal)

GoalInv == \A g \in Goal : Busy(g) => \E p \in Client : Kept(p, g)

\* Together: a goal that is busy is in the journal, and looked after while the process is up.
Inv == TypeInv /\ IdInv /\ RecoveryInv /\ AnswerInv /\ GoalInv

-----------------------------------------------------------------------------
\* What clients and operations begin with.
LEMMA NewRecords ==
    /\ NoPort \in Port /\ NoPort.op = None /\ NoPort.waits = "nothing"
    /\ NoStage \in Stage /\ NoStage.op = None /\ ~NoStage.approaching
    /\ \A g \in Goal : /\ Sent(g) \in Port /\ Sent(g).op = g /\ ~Sent(g).terminal
                       /\ Sent(g).waits = "response" /\ Sent(g).result = None
  BY DEF NoPort, NoStage, Sent, Port, Stage, Future, ClientResult

LEMMA InitInv == Init => Inv
  <1> SUFFICES ASSUME Init PROVE Inv
    OBVIOUS
  <1>1. TypeInv
    BY NewRecords DEF Init, TypeInv, Known
  <1>2. IdInv
    BY NewRecords DEF Init, IdInv, Client
  <1>3. RecoveryInv /\ AnswerInv /\ GoalInv
    BY DEF Init, RecoveryInv, AnswerInv, GoalInv, Busy, OnTheWay, Live
  <1> QED BY <1>1, <1>2, <1>3 DEF Inv

\* A client with an operation has no goals of a former process to look after.
LEMMA NoRecovery ==
    ASSUME Inv, \/ stage # NoStage \/ port # [p \in Client |-> NoPort]
    PROVE  up /\ \A p \in Client : recovery[p] = None
  BY DEF Inv, RecoveryInv, TypeInv

LEMMA OperationUp ==
    ASSUME Inv, \/ stage.op # None \/ \E p \in Client : port[p].op # None
    PROVE  up /\ \A p \in Client : recovery[p] = None
  <1>1. CASE stage.op # None
    BY <1>1, NoRecovery, NewRecords
  <1>2. CASE \E p \in Client : port[p].op # None
    BY <1>2, NoRecovery, NewRecords
  <1> QED BY <1>1, <1>2

\* A goal that was not sent yet was not given up.
LEMMA NewGoal ==
    ASSUME Inv, NEW g \in Goal, g > issued PROVE g \notin acknowledged
  <1>1. server[g] = "none"
    BY DEF Inv, IdInv, TypeInv, Goal
  <1> QED BY <1>1 DEF Inv, IdInv, Ending, Terminal

\* A client hears of its goal, or asks for its cancellation.
LEMMA ClientStep ==
    ASSUME Inv, NEW p \in Client, NEW q \in Port, port' = [port EXCEPT ![p] = q],
           q.op = port[p].op, q.op # None,
           q.waits # "nothing" => q.result = None,
           q.terminal => port[p].terminal \/ ~Busy(q.op),
           cancels' \subseteq Goal,
           UNCHANGED <<up, stage, saved, recovery, answer, server, issued, base,
                       acknowledged>>
    PROVE  Inv'
  <1>1. up /\ \A r \in Client : recovery[r] = None
    BY OperationUp
  <1>2. /\ port' \in [Client -> Port] /\ port'[p] = q
        /\ \A r \in Client \ {p} : port'[r] = port[r]
    BY DEF Inv, TypeInv
  <1>3. TypeInv'
    BY <1>2 DEF Inv, TypeInv
  <1>4. IdInv'
    BY <1>2 DEF Inv, IdInv, Client
  <1>5. RecoveryInv'
    BY <1>1 DEF RecoveryInv
  <1>6. AnswerInv'
    BY DEF Inv, AnswerInv, IsTrue, OnTheWay
  <1>7. GoalInv'
    BY <1>1, <1>2 DEF Inv, GoalInv, Busy, OnTheWay, Kept, TypeInv
  <1> QED BY <1>3, <1>4, <1>5, <1>6, <1>7 DEF Inv

\* A server goes on with its goals, and may answer a recovery.
LEMMA ServerStep ==
    ASSUME Inv, server' \in [Goal -> Known],
           \A g \in Goal : /\ server'[g] # "none" => server[g] # "none"
                           /\ server'[g] = "sent" => server[g] = "sent"
                           /\ Busy(g)' => Busy(g)
                           /\ server[g] \in Ending => server'[g] \in Ending,
           cancels' \subseteq Goal, AnswerInv', answer' \in [Client -> Answer \cup {None}],
           UNCHANGED <<up, port, stage, saved, recovery, issued, base, acknowledged>>
    PROVE  Inv'
  <1>1. TypeInv'
    BY DEF Inv, TypeInv
  <1>2. IdInv'
    BY DEF Inv, IdInv, TypeInv
  <1>3. RecoveryInv'
    BY DEF Inv, RecoveryInv
  <1>4. GoalInv'
    BY DEF Inv, GoalInv, Kept
  <1> QED BY <1>1, <1>2, <1>3, <1>4 DEF Inv

\* A port that is stopped looks after no goal, so there is none.
LEMMA StoppedIdle ==
    ASSUME Inv, Stopped PROVE (\A g \in Goal : ~Busy(g)) /\ up /\ \A p \in Client : recovery[p] = None
  <1>1. \A p \in Client : recovery[p] = None /\ port[p].terminal
    BY DEF Stopped, PortStopped
  <1>2. \A g \in Goal : ~Busy(g)
    BY <1>1 DEF Inv, GoalInv, Kept, Stopped, TypeInv
  <1> QED BY <1>1, <1>2 DEF Stopped

\* The calls of the Runtime.  The one goal of a start is saved before it is sent.
LEMMA StartStep == ASSUME Inv, NEW home \in BOOLEAN, Start(home) PROVE Inv'
  <1> DEFINE g == issued + 1
  <1>1. /\ g \in Goal /\ Stopped /\ issued' = g
        /\ saved' = [saved EXCEPT !["nav"] = g] /\ server' = [server EXCEPT ![g] = "sent"]
        /\ port' = [port EXCEPT !["nav"] = Sent(g)]
        /\ stage' = [NoStage EXCEPT !.op = g, !.home = home]
        /\ UNCHANGED <<up, recovery, answer, cancels, base, acknowledged>>
    BY DEF Start, Send
  <1>2. (\A h \in Goal : ~Busy(h)) /\ up /\ \A p \in Client : recovery[p] = None
    BY <1>1, StoppedIdle
  <1>3. stage' \in Stage /\ stage'.op = g /\ ~stage'.approaching
    BY <1>1 DEF NoStage, Stage, ClientResult
  <1>4. /\ port' \in [Client -> Port] /\ port'["nav"] = Sent(g) /\ port'["desk"] = port["desk"]
        /\ saved' \in [Client -> Goal \cup {None}] /\ saved'["nav"] = g
        /\ server' \in [Goal -> Known] /\ server'[g] = "sent"
        /\ \A h \in Goal \ {g} : server'[h] = server[h]
    BY <1>1, NewRecords DEF Inv, TypeInv, Client, Known
  <1>5. g \in 0..MaxGoal /\ g > issued /\ g \in Nat
    BY <1>1 DEF Inv, TypeInv, Goal
  <1> HIDE DEF g
  <1>6. TypeInv'
    BY <1>1, <1>3, <1>4, <1>5 DEF Inv, TypeInv
  <1>7. IdInv'
    <2>1. \A h \in acknowledged' : server'[h] \in Ending
      BY <1>1, <1>4, <1>5, NewGoal DEF Inv, TypeInv, IdInv
    <2> QED BY <1>1, <1>3, <1>4, <1>5, <2>1, NewRecords DEF Inv, TypeInv, IdInv, Client, Goal
  <1>8. RecoveryInv' /\ AnswerInv'
    BY <1>1, <1>2 DEF Inv, RecoveryInv, AnswerInv
  <1>9. GoalInv'
    BY <1>1, <1>2, <1>4, NewRecords DEF GoalInv, Busy, OnTheWay, Kept, Client
  <1> QED BY <1>6, <1>7, <1>8, <1>9 DEF Inv

LEMMA StartRaisesStep == ASSUME Inv, StartRaises PROVE Inv'
  <1> DEFINE g == issued + 1
             q == [Sent(g) EXCEPT !.waits = "nothing"]
  <1>1. /\ g \in Goal /\ Stopped /\ issued' = g
        /\ saved' \in {saved, [saved EXCEPT !["nav"] = g]}
        /\ port' = [port EXCEPT !["nav"] = q]
        /\ UNCHANGED <<up, stage, recovery, answer, server, cancels, base, acknowledged>>
    BY DEF StartRaises
  <1>2. (\A h \in Goal : ~Busy(h)) /\ up /\ \A p \in Client : recovery[p] = None
    BY <1>1, StoppedIdle
  <1>3. q \in Port /\ q.waits = "nothing" /\ q.op = g
    BY <1>1 DEF Sent, Port, Future, ClientResult
  <1>4. g \in 0..MaxGoal /\ g > issued /\ g \in Nat /\ issued \in Nat
    BY <1>1 DEF Inv, TypeInv, Goal
  <1> HIDE DEF g, q
  <1>5. /\ port' \in [Client -> Port] /\ port'["nav"] = q /\ port'["desk"] = port["desk"]
        /\ saved' \in [Client -> Goal \cup {None}]
    BY <1>1, <1>3 DEF Inv, TypeInv, Client
  <1>6. TypeInv'
    BY <1>1, <1>4, <1>5 DEF Inv, TypeInv
  <1>7. IdInv'
    BY <1>1, <1>3, <1>4, <1>5 DEF Inv, TypeInv, IdInv, Client, Goal, Stage
  <1>8. RecoveryInv' /\ AnswerInv' /\ GoalInv'
    BY <1>1, <1>2 DEF Inv, RecoveryInv, AnswerInv, GoalInv, Busy, OnTheWay
  <1> QED BY <1>6, <1>7, <1>8 DEF Inv

\* What a poll reports of a client.
LEMMA PolledResults ==
    ASSUME Inv, NEW p \in Client, NEW result \in Polled(p) \ {None}
    PROVE  /\ result \in ClientResult /\ port[p].result # None
           /\ p = "desk" \/ result = "ok" => port[p].terminal
  BY DEF Inv, TypeInv, Polled, ClientResult, Port, Client

\* The end of a drive: an id is only forgotten when its goal is over.
LEMMA PollDriveStep == ASSUME Inv, PollDrive PROVE Inv'
  <1>1. PICK result \in Polled("nav") \ {None} :
          IF Ends(result)
          THEN /\ stage' = [stage EXCEPT !.result = DriveResult(result)]
               /\ port' = [port EXCEPT !["nav"].result =
                              IF Confirmed("nav", result) THEN result ELSE @]
               /\ saved' = IF Confirmed("nav", result)
                           THEN [saved EXCEPT !["nav"] = None] ELSE saved
               /\ UNCHANGED <<server, issued>>
          ELSE \/ /\ PortStopped("desk") /\ issued + 1 \in Goal
                  /\ issued' = issued + 1
                  /\ saved' = [nav |-> None, desk |-> issued + 1]
                  /\ server' = [server EXCEPT ![issued + 1] = "sent"]
                  /\ port' = [port EXCEPT !["desk"] = Sent(issued + 1)]
                  /\ stage' = [stage EXCEPT !.approaching = TRUE]
               \/ /\ stage' = [stage EXCEPT !.result = "failed"]
                  /\ saved' = [saved EXCEPT !["nav"] = None]
                  /\ UNCHANGED <<port, server, issued>>
    BY DEF PollDrive
  <1>2. UNCHANGED <<up, recovery, answer, cancels, base, acknowledged>> /\ stage.op # None
    BY DEF PollDrive
  <1>3. up /\ \A p \in Client : recovery[p] = None
    BY <1>2, OperationUp
  <1>4. result \in ClientResult /\ port["nav"].result # None
        /\ (result = "ok" => port["nav"].terminal)
    BY PolledResults DEF Client
  <1>5. /\ stage \in Stage /\ port["nav"] \in Port /\ port["desk"] \in Port
        /\ port["nav"].waits = "nothing"
        /\ saved \in [Client -> Goal \cup {None}] /\ issued \in Nat
    BY <1>4 DEF Inv, TypeInv, IdInv, Client
  <1>6. ASSUME saved' \in [Client -> Goal \cup {None}], saved'["nav"] = None,
               saved'["desk"] = saved["desk"], port["nav"].terminal, UNCHANGED server,
               port'["desk"] = port["desk"]
        PROVE  GoalInv'
    BY <1>2, <1>3, <1>6 DEF Inv, GoalInv, Busy, OnTheWay, Kept, Client
  <1>7. CASE Ends(result)
    <2> DEFINE r == IF Confirmed("nav", result) THEN result ELSE port["nav"].result
               q == [port["nav"] EXCEPT !.result = r]
               d == DriveResult(result)
    <2>1. r \in ClientResult /\ d \in ClientResult
      BY <1>4, <1>5 DEF Port, DriveResult, ClientResult
    <2>2. stage' = [stage EXCEPT !.result = d] /\ port' = [port EXCEPT !["nav"] = q]
          /\ UNCHANGED <<server, issued>>
      BY <1>1, <1>7
    <2>3. \/ saved' = saved
          \/ saved' = [saved EXCEPT !["nav"] = None] /\ port["nav"].terminal
      BY <1>1, <1>7 DEF Confirmed
    <2> HIDE DEF r, d
    <2>4. stage' \in Stage /\ stage'.op = stage.op /\ stage'.approaching = stage.approaching
      BY <1>5, <2>1, <2>2 DEF Stage
    <2>5. q \in Port /\ q.op = port["nav"].op /\ q.waits = "nothing"
          /\ q.terminal = port["nav"].terminal
      BY <1>5, <2>1 DEF Port
    <2> HIDE DEF q
    <2>6. /\ port' \in [Client -> Port] /\ port'["nav"] = q /\ port'["desk"] = port["desk"]
          /\ saved' \in [Client -> Goal \cup {None}] /\ saved'["desk"] = saved["desk"]
      BY <2>2, <2>3, <2>5 DEF Inv, TypeInv, Client
    <2>7. TypeInv'
      BY <1>2, <2>2, <2>4, <2>6 DEF Inv, TypeInv
    <2>8. IdInv'
      BY <1>2, <2>2, <2>4, <2>5, <2>6 DEF Inv, IdInv, Client
    <2>9. RecoveryInv' /\ AnswerInv'
      BY <1>2, <1>3, <2>2 DEF Inv, RecoveryInv, AnswerInv, Busy, OnTheWay
    <2>10. GoalInv'
      <3>1. CASE saved' = saved
        BY <1>2, <1>3, <2>2, <2>5, <2>6, <3>1 DEF Inv, GoalInv, Busy, OnTheWay, Kept, Client
      <3>2. CASE saved' = [saved EXCEPT !["nav"] = None] /\ port["nav"].terminal
        <4>1. saved'["nav"] = None
          BY <1>5, <3>2 DEF Client
        <4> QED BY <1>6, <2>2, <2>6, <3>2, <4>1
      <3> QED BY <2>3, <3>1, <3>2
    <2> QED BY <2>7, <2>8, <2>9, <2>10 DEF Inv
  <1>8. CASE ~Ends(result) /\ PortStopped("desk") /\ issued + 1 \in Goal
             /\ issued' = issued + 1
             /\ saved' = [nav |-> None, desk |-> issued + 1]
             /\ server' = [server EXCEPT ![issued + 1] = "sent"]
             /\ port' = [port EXCEPT !["desk"] = Sent(issued + 1)]
             /\ stage' = [stage EXCEPT !.approaching = TRUE]
    <2>1. PICK g \in Goal : g = issued + 1 /\ g \in 0..MaxGoal /\ g > issued /\ g \in Nat
      BY <1>5, <1>8 DEF Goal
    <2>2. port["nav"].terminal /\ port["desk"].terminal
      BY <1>4, <1>8 DEF Ends, PortStopped
    <2>3. \A h \in Goal : ~Busy(h)
      BY <1>2, <1>3, <2>2 DEF Inv, GoalInv, Kept, Client
    <2>4. stage' \in Stage /\ stage'.op = stage.op
      BY <1>5, <1>8 DEF Stage
    <2>5. /\ server' = [server EXCEPT ![g] = "sent"] /\ port' = [port EXCEPT !["desk"] = Sent(g)]
          /\ saved' = [nav |-> None, desk |-> g] /\ issued' = g
      BY <1>8, <2>1
    <2>6. /\ port' \in [Client -> Port] /\ port'["desk"] = Sent(g) /\ port'["nav"] = port["nav"]
          /\ saved' \in [Client -> Goal \cup {None}] /\ saved'["desk"] = g
          /\ server' \in [Goal -> Known] /\ server'[g] = "sent"
          /\ \A h \in Goal \ {g} : server'[h] = server[h]
      <3>1. port' \in [Client -> Port] /\ port'["desk"] = Sent(g) /\ port'["nav"] = port["nav"]
        BY <2>1, <2>5, NewRecords DEF Inv, TypeInv, Client
      <3>2. saved' \in [Client -> Goal \cup {None}] /\ saved'["desk"] = g
        BY <2>1, <2>5 DEF Client
      <3>3. /\ server' \in [Goal -> Known] /\ server'[g] = "sent"
            /\ \A h \in Goal \ {g} : server'[h] = server[h]
        BY <2>1, <2>5 DEF Inv, TypeInv, Known
      <3> QED BY <3>1, <3>2, <3>3
    <2>7. TypeInv'
      BY <1>2, <2>1, <2>4, <2>5, <2>6 DEF Inv, TypeInv
    <2>8. IdInv'
      <3>1. \A h \in acknowledged' : server'[h] \in Ending
        BY <1>2, <2>1, <2>6, NewGoal DEF Inv, TypeInv, IdInv
      <3> QED
        BY <1>5, <2>1, <2>4, <2>5, <2>6, <3>1, NewRecords
           DEF Inv, TypeInv, IdInv, Client, Goal, Stage
    <2>9. RecoveryInv' /\ AnswerInv'
      BY <1>2, <1>3 DEF Inv, RecoveryInv, AnswerInv
    <2>10. GoalInv'
      <3>1. Kept("desk", g)'
        BY <2>1, <2>6, NewRecords DEF Kept
      <3>2. \A h \in Goal : Busy(h)' => h = g
        BY <1>2, <2>3, <2>6 DEF Busy, OnTheWay
      <3> QED BY <3>1, <3>2 DEF GoalInv, Client
    <2> QED BY <2>7, <2>8, <2>9, <2>10 DEF Inv
  <1>9. CASE ~Ends(result) /\ stage' = [stage EXCEPT !.result = "failed"]
             /\ saved' = [saved EXCEPT !["nav"] = None]
             /\ UNCHANGED <<port, server, issued>>
    <2>1. stage' \in Stage /\ stage'.op = stage.op /\ stage'.approaching = stage.approaching
      BY <1>5, <1>9 DEF Stage, ClientResult
    <2>2. /\ saved' \in [Client -> Goal \cup {None}] /\ saved'["nav"] = None
          /\ saved'["desk"] = saved["desk"]
      BY <1>5, <1>9 DEF Client
    <2>3. TypeInv'
      BY <1>2, <1>9, <2>1, <2>2 DEF Inv, TypeInv
    <2>4. IdInv'
      BY <1>2, <1>9, <2>1 DEF Inv, IdInv
    <2>5. RecoveryInv' /\ AnswerInv'
      BY <1>2, <1>3, <1>9 DEF Inv, RecoveryInv, AnswerInv, Busy, OnTheWay
    <2>6. GoalInv'
      BY <1>4, <1>6, <1>9, <2>2 DEF Ends
    <2> QED BY <2>3, <2>4, <2>5, <2>6 DEF Inv
  <1> QED BY <1>1, <1>7, <1>8, <1>9

LEMMA PollApproachStep == ASSUME Inv, PollApproach PROVE Inv'
  <1>1. PICK result \in Polled("desk") \ {None} :
          /\ stage' = [stage EXCEPT !.result = result]
          /\ saved' = [saved EXCEPT !["desk"] = None]
    BY DEF PollApproach
  <1>2. UNCHANGED <<up, port, recovery, answer, server, cancels, issued, base,
                    acknowledged>>
        /\ stage.approaching
    BY DEF PollApproach
  <1>3. up /\ \A p \in Client : recovery[p] = None
    BY <1>2, NoRecovery, NewRecords
  <1>4. result \in ClientResult /\ port["desk"].terminal
    BY PolledResults DEF Client
  <1>5. stage \in Stage /\ saved \in [Client -> Goal \cup {None}]
    BY DEF Inv, TypeInv
  <1>6. stage' \in Stage /\ stage'.op = stage.op /\ stage'.approaching = stage.approaching
    BY <1>1, <1>4, <1>5 DEF Stage
  <1>7. /\ saved' \in [Client -> Goal \cup {None}] /\ saved'["desk"] = None
        /\ saved'["nav"] = saved["nav"]
    BY <1>1, <1>5 DEF Client
  <1>8. TypeInv'
    BY <1>2, <1>6, <1>7 DEF Inv, TypeInv
  <1>9. IdInv'
    BY <1>2, <1>6 DEF Inv, IdInv
  <1>10. RecoveryInv' /\ AnswerInv'
    BY <1>2, <1>3 DEF Inv, RecoveryInv, AnswerInv, Busy, OnTheWay
  <1>11. GoalInv'
    BY <1>2, <1>3, <1>4, <1>7 DEF Inv, GoalInv, Busy, OnTheWay, Kept, Client
  <1> QED BY <1>8, <1>9, <1>10, <1>11 DEF Inv

LEMMA CancelStep == ASSUME Inv, Cancel PROVE Inv'
  <1>1. /\ stage' = [stage EXCEPT !.cancelled = TRUE]
        /\ port' = [p \in Client |->
                       IF p = "nav" \/ stage.approaching
                       THEN [port[p] EXCEPT !.cancelled = TRUE] ELSE port[p]]
        /\ UNCHANGED <<up, saved, recovery, answer, server, issued, base, acknowledged>>
        /\ stage.op # None /\ stage.op = port["nav"].op
    BY DEF Cancel
  <1>2. up /\ \A p \in Client : recovery[p] = None
    BY <1>1, OperationUp
  <1>3. stage' \in Stage /\ stage'.op = stage.op /\ stage'.approaching = stage.approaching
    BY <1>1 DEF Inv, TypeInv, Stage
  <1>4. ASSUME NEW p \in Client
        PROVE  /\ port'[p] \in Port /\ port'[p].op = port[p].op /\ port'[p].waits = port[p].waits
               /\ port'[p].result = port[p].result /\ port'[p].terminal = port[p].terminal
    <2>1. port[p] \in Port
      BY DEF Inv, TypeInv
    <2>2. LET q == [port[p] EXCEPT !.cancelled = TRUE]
          IN  q \in Port /\ q.op = port[p].op /\ q.waits = port[p].waits
              /\ q.result = port[p].result /\ q.terminal = port[p].terminal
      BY <2>1 DEF Port
    <2>3. port'[p] \in {port[p], [port[p] EXCEPT !.cancelled = TRUE]}
      BY <1>1
    <2> QED BY <2>1, <2>2, <2>3
  <1>5. port' \in [Client -> Port]
    <2>1. port' = [p \in Client |-> port'[p]]
      BY <1>1
    <2> QED BY <1>4, <2>1
  <1>6. cancels' \subseteq Goal
    <2>1. PICK drive \in CancelRequests("nav"),
               approach \in IF stage.approaching THEN CancelRequests("desk") ELSE {{}} :
          cancels' = cancels \cup {g \in drive \cup approach : server[g] \notin Terminal}
      BY DEF Cancel
    <2>2. port["nav"].op \in Goal /\ (stage.approaching => port["desk"].op \in Goal)
      BY <1>1 DEF Inv, TypeInv, IdInv, Port, Client
    <2>3. drive \subseteq Goal /\ approach \subseteq Goal
      BY <2>2 DEF CancelRequests
    <2> QED BY <2>1, <2>3 DEF Inv, TypeInv
  <1>7. TypeInv'
    BY <1>1, <1>3, <1>5, <1>6 DEF Inv, TypeInv
  <1>8. IdInv'
    BY <1>1, <1>3, <1>4 DEF Inv, IdInv, Client
  <1>9. RecoveryInv' /\ AnswerInv'
    BY <1>1, <1>2 DEF Inv, RecoveryInv, AnswerInv, Busy, OnTheWay
  <1>10. GoalInv'
    BY <1>1, <1>4 DEF Inv, GoalInv, Busy, OnTheWay, Kept
  <1> QED BY <1>7, <1>8, <1>9, <1>10 DEF Inv

\* The callbacks of a client.
LEMMA AcceptedStep == ASSUME Inv, NEW p \in Client, Accepted(p) PROVE Inv'
  <1>1. port[p] \in Port /\ port[p].op \in Goal
    BY DEF Inv, TypeInv, IdInv, Port, Accepted
  <1>2. /\ UNCHANGED <<up, stage, saved, recovery, answer, server, issued, base,
                       acknowledged>>
        /\ cancels' \subseteq Goal
    BY <1>1 DEF Accepted, AfterAcceptance, Inv, TypeInv
  <1>3. PICK q \in Port :
          /\ port' = [port EXCEPT ![p] = q] /\ q.op = port[p].op
          /\ q.waits # "nothing" => q.result = None
          /\ q.terminal => port[p].terminal \/ ~Busy(port[p].op)
    <2> DEFINE a == [port[p] EXCEPT !.waits = "nothing", !.terminal = TRUE, !.result = "failed"]
               b == [port[p] EXCEPT !.waits = "result"]
               c == [port[p] EXCEPT !.waits = "nothing", !.result = "fatal"]
    <2>1. a \in Port /\ a.op = port[p].op /\ a.waits = "nothing"
      BY <1>1 DEF Port, Future, ClientResult
    <2>2. b \in Port /\ b.op = port[p].op /\ b.result = None /\ b.terminal = port[p].terminal
      BY <1>1 DEF Port, Future, Accepted, Inv, IdInv
    <2>3. c \in Port /\ c.op = port[p].op /\ c.waits = "nothing" /\ c.terminal = port[p].terminal
      BY <1>1 DEF Port, Future, ClientResult
    <2>4. \/ port' = [port EXCEPT ![p] = a] /\ ~Busy(port[p].op)
          \/ port' = [port EXCEPT ![p] = b]
          \/ port' = [port EXCEPT ![p] = c]
      BY DEF Accepted, Busy, OnTheWay, Live
    <2> HIDE DEF a, b, c
    <2> QED BY <2>1, <2>2, <2>3, <2>4
  <1> QED BY <1>1, <1>2, <1>3, ClientStep DEF Goal

LEMMA FinishedStep == ASSUME Inv, NEW p \in Client, Finished(p) PROVE Inv'
  <1>1. port[p] \in Port /\ port[p].op \in Goal /\ ~Busy(port[p].op)
    BY DEF Inv, TypeInv, IdInv, Port, Finished, Busy, OnTheWay, Terminal, Live
  <1>2. /\ UNCHANGED <<up, stage, saved, recovery, answer, server, issued, base,
                       acknowledged>>
        /\ cancels' \subseteq Goal
    BY DEF Finished, Inv, TypeInv
  <1>3. PICK q \in Port :
          /\ port' = [port EXCEPT ![p] = q] /\ q.op = port[p].op /\ q.waits = "nothing"
    <2> DEFINE a(r) == [port[p] EXCEPT !.waits = "nothing", !.terminal = TRUE, !.result = r]
               c == [port[p] EXCEPT !.waits = "nothing", !.result = "fatal"]
    <2>1. \A r \in ClientResult : a(r) \in Port /\ a(r).op = port[p].op /\ a(r).waits = "nothing"
      BY <1>1 DEF Port, Future
    <2>2. c \in Port /\ c.op = port[p].op /\ c.waits = "nothing"
      BY <1>1 DEF Port, Future, ClientResult
    <2>3. \/ \E r \in ClientResult : port' = [port EXCEPT ![p] = a(r)]
          \/ port' = [port EXCEPT ![p] = c]
      BY DEF Finished, ResultsOf, ClientResult
    <2> HIDE DEF a, c
    <2> QED BY <2>1, <2>2, <2>3
  <1> QED BY <1>1, <1>2, <1>3, ClientStep

LEMMA StatusSeenStep == ASSUME Inv, StatusSeen PROVE Inv'
  <1>1. port["nav"] \in Port /\ port["nav"].op \in Goal /\ ~Busy(port["nav"].op)
    BY DEF Inv, TypeInv, Port, StatusSeen, Busy, OnTheWay, Terminal, Live, Client
  <1>2. /\ UNCHANGED <<up, stage, saved, recovery, answer, server, issued, base,
                       acknowledged>>
        /\ cancels' \subseteq Goal
    BY DEF StatusSeen, Inv, TypeInv
  <1> DEFINE q == [port["nav"] EXCEPT !.terminal = TRUE]
  <1>3. q \in Port /\ q.op = port["nav"].op /\ (q.waits # "nothing" => q.result = None)
    BY <1>1 DEF Port, Inv, IdInv, Client
  <1>4. port' = [port EXCEPT !["nav"] = q]
    BY DEF StatusSeen
  <1> HIDE DEF q
  <1> QED BY <1>1, <1>2, <1>3, <1>4, ClientStep DEF Client

-----------------------------------------------------------------------------
(* Recovery, the servers, the base, and the process.                       *)

LEMMA RecoveryAskStep == ASSUME Inv, NEW p \in Client, RecoveryAsk(p) PROVE Inv'
  <1>1. /\ answer' \in [Client -> Answer \cup {None}] /\ answer'[p] = "asked"
        /\ \A r \in Client \ {p} : answer'[r] = answer[r]
    BY DEF RecoveryAsk, Inv, TypeInv, Answer
  <1>2. UNCHANGED <<up, port, stage, saved, recovery, server, cancels, issued, base,
                    acknowledged>>
        /\ recovery[p] # None
    BY DEF RecoveryAsk
  <1>3. AnswerInv'
    BY <1>1, <1>2 DEF Inv, AnswerInv, IsTrue, OnTheWay
  <1> QED BY <1>1, <1>2, <1>3, ServerStep DEF Inv, TypeInv, Busy, OnTheWay

LEMMA RecoveryAnsweredStep == ASSUME Inv, NEW p \in Client, RecoveryAnswered(p) PROVE Inv'
  <1> DEFINE g == recovery[p]
  <1>1. g \in Goal /\ up
    BY DEF RecoveryAnswered, Inv, TypeInv, AnswerInv
  <1>2. UNCHANGED <<up, port, stage, saved, recovery, cancels, issued, base, acknowledged>>
    BY DEF RecoveryAnswered
  <1>3. \A h \in Goal : server[h] # "sent"
    BY <1>1 DEF Inv, RecoveryInv
  <1>4. \/ server' = server
        \/ server[g] \in Live /\ server' = [server EXCEPT ![g] = "canceling"]
    BY DEF RecoveryAnswered, Live
  <1>5. PICK a \in Answer \cup {None} :
          /\ answer' = [answer EXCEPT ![p] = a]
          /\ IsTrue(a, g)'
    <2>1. CASE /\ server[g] \in Live
               /\ server' = [server EXCEPT ![g] = "canceling"]
               /\ answer' = [answer EXCEPT ![p] = "accepted"]
      <3>1. server'[g] = "canceling" /\ recovery' = recovery
        BY <1>1, <1>2, <2>1 DEF Inv, TypeInv
      <3> QED BY <2>1, <3>1 DEF Answer, IsTrue, Ending
    <2>2. CASE /\ server[g] \notin Live /\ UNCHANGED server
               /\ answer' = [answer EXCEPT ![p] = "gone"]
      BY <1>1, <1>2, <1>3, <2>2 DEF Answer, IsTrue, OnTheWay, Live
    <2>3. CASE answer' = [answer EXCEPT ![p] = "refused"] \/ answer' = [answer EXCEPT ![p] = None]
      BY <2>3 DEF Answer, IsTrue
    <2> QED BY <2>1, <2>2, <2>3 DEF RecoveryAnswered
  <1>6. /\ server' \in [Goal -> Known]
        /\ \A h \in Goal : /\ server'[h] # "none" => server[h] # "none"
                           /\ server'[h] = "sent" => server[h] = "sent"
                           /\ OnTheWay(h)' => OnTheWay(h)
                           /\ server[h] \in Ending => server'[h] \in Ending
    <2>1. CASE server' = server
      BY <2>1 DEF Inv, TypeInv, OnTheWay
    <2>2. CASE server[g] \in Live /\ server' = [server EXCEPT ![g] = "canceling"]
      BY <1>1, <2>2 DEF Inv, TypeInv, OnTheWay, Known, Live, Ending
    <2> QED BY <1>4, <2>1, <2>2
  <1>7. /\ answer' \in [Client -> Answer \cup {None}] /\ answer'[p] = a
        /\ \A r \in Client \ {p} : answer'[r] = answer[r]
    BY <1>5 DEF Inv, TypeInv
  <1>8. AnswerInv'
    <2> SUFFICES ASSUME NEW r \in Client, answer'[r] # None
                 PROVE  recovery'[r] # None /\ IsTrue(answer[r], recovery[r])'
      BY DEF AnswerInv
    <2>1. CASE r = p
      BY <1>1, <1>2, <1>5, <1>7, <2>1 DEF IsTrue, OnTheWay
    <2>2. CASE r # p
      <3>1. answer'[r] = answer[r] /\ recovery'[r] = recovery[r]
        BY <1>2, <1>7, <2>2
      <3>2. recovery[r] # None /\ IsTrue(answer[r], recovery[r])
        BY <3>1 DEF Inv, AnswerInv
      <3>3. recovery[r] \in Goal
        BY <3>2 DEF Inv, TypeInv
      <3> QED BY <1>6, <3>1, <3>2, <3>3 DEF IsTrue, OnTheWay
    <2> QED BY <2>1, <2>2
  <1> QED BY <1>2, <1>6, <1>7, <1>8, ServerStep DEF Inv, TypeInv, Busy

\* A recovery forgets an id that is not busy any more, or is given up from now on.
LEMMA RecoveryDoneStep == ASSUME Inv, NEW p \in Client, RecoveryDone(p) PROVE Inv'
  <1>1. /\ answer[p] \in {"accepted", "gone", "refused"}
        /\ answer' = [answer EXCEPT ![p] = None]
        /\ UNCHANGED <<up, port, stage, server, cancels, issued, base>>
        /\ \/ /\ answer[p] \in {"accepted", "gone"}
              /\ recovery' = [recovery EXCEPT ![p] = None]
              /\ saved' = [saved EXCEPT ![p] = None]
              /\ acknowledged' = acknowledged \cup
                    (IF answer[p] = "accepted" THEN {recovery[p]} ELSE {})
           \/ UNCHANGED <<recovery, saved, acknowledged>>
    BY DEF RecoveryDone, Suffices
  <1>2. PICK g \in Goal : g = recovery[p]
    BY <1>1 DEF Inv, TypeInv, AnswerInv
  <1>3. up /\ port = [r \in Client |-> NoPort] /\ IsTrue(answer[p], g)
    BY <1>2, <1>1 DEF Inv, TypeInv, AnswerInv, RecoveryInv, RecoveryDone
  <1>4. /\ answer' \in [Client -> Answer \cup {None}] /\ answer'[p] = None
        /\ \A r \in Client \ {p} : answer'[r] = answer[r]
    BY <1>1 DEF Inv, TypeInv
  <1>5. CASE UNCHANGED <<recovery, saved, acknowledged>>
    <2>1. AnswerInv'
      BY <1>1, <1>4, <1>5 DEF Inv, AnswerInv, IsTrue, OnTheWay
    <2> QED BY <1>1, <1>4, <1>5, <2>1, ServerStep DEF Inv, TypeInv, Busy, OnTheWay
  <1>6. CASE /\ answer[p] \in {"accepted", "gone"}
             /\ recovery' = [recovery EXCEPT ![p] = None]
             /\ saved' = [saved EXCEPT ![p] = None]
             /\ acknowledged' = acknowledged \cup (IF answer[p] = "accepted" THEN {g} ELSE {})
    <2>1. /\ recovery' \in [Client -> Goal \cup {None}] /\ recovery'[p] = None
          /\ saved' \in [Client -> Goal \cup {None}]
          /\ \A r \in Client \ {p} : recovery'[r] = recovery[r] /\ saved'[r] = saved[r]
      BY <1>6 DEF Inv, TypeInv
    <2>2. /\ acknowledged' \subseteq Goal /\ acknowledged \subseteq acknowledged'
          /\ \A h \in acknowledged' : server[h] \in Ending
          /\ ~Busy(g)'
      <3>1. CASE answer[p] = "accepted"
        BY <1>6, <1>3, <3>1 DEF Inv, TypeInv, IdInv, IsTrue, Busy
      <3>2. CASE answer[p] = "gone"
        BY <1>1, <1>6, <1>3, <3>2 DEF Inv, TypeInv, IdInv, IsTrue, Busy, OnTheWay
      <3> QED BY <1>6, <3>1, <3>2
    <2>3. TypeInv'
      BY <1>1, <1>4, <2>1, <2>2 DEF Inv, TypeInv
    <2>4. IdInv' /\ RecoveryInv'
      BY <1>1, <1>3, <2>1, <2>2 DEF Inv, IdInv, RecoveryInv
    <2>5. AnswerInv'
      BY <1>1, <1>4, <2>1 DEF Inv, AnswerInv, IsTrue, OnTheWay
    <2>6. GoalInv'
      <3> SUFFICES ASSUME NEW h \in Goal, Busy(h)' PROVE \E r \in Client : Kept(r, h)'
        BY DEF GoalInv
      <3>1. Busy(h) /\ h # g
        BY <1>1, <2>2 DEF Busy, OnTheWay
      <3>2. PICK r \in Client : Kept(r, h)
        BY <3>1 DEF Inv, GoalInv
      <3>3. recovery[r] = h
        BY <1>3, <3>2, NewRecords DEF Kept
      <3>4. r # p
        BY <1>2, <3>1, <3>3
      <3> QED BY <1>1, <2>1, <3>2, <3>3, <3>4 DEF Kept
    <2> QED BY <2>3, <2>4, <2>5, <2>6 DEF Inv
  <1> QED BY <1>1, <1>2, <1>5, <1>6

\* A goal on its way when the process dies is taken or lost; what is busy was saved.
LEMMA CrashStep == ASSUME Inv, Crash PROVE Inv'
  <1>1. /\ up /\ ~up' /\ up' \in BOOLEAN
        /\ port' = [p \in Client |-> NoPort] /\ stage' = NoStage
        /\ recovery' = [p \in Client |-> None] /\ answer' = [p \in Client |-> None]
        /\ cancels' = {} /\ UNCHANGED <<saved, issued, base, acknowledged>>
    BY DEF Crash
  <1>2. PICK taken \in {"running", "rejected"} :
          server' = [g \in Goal |-> IF server[g] = "sent" THEN taken ELSE server[g]]
    BY DEF Crash
  <1>3. /\ server' \in [Goal -> Known]
        /\ \A g \in Goal : /\ server'[g] # "none" => server[g] # "none"
                           /\ server'[g] # "sent" /\ (Busy(g)' => Busy(g))
                           /\ server[g] \in Ending => server'[g] \in Ending
    BY <1>1, <1>2 DEF Inv, TypeInv, Known, Live, Busy, OnTheWay, Ending, Terminal
  <1>4. port' \in [Client -> Port] /\ \A p \in Client : port'[p] = NoPort
    BY <1>1, NewRecords
  <1>5. TypeInv'
    BY <1>1, <1>3, <1>4, NewRecords DEF Inv, TypeInv
  <1>6. IdInv'
    BY <1>1, <1>3, <1>4, NewRecords DEF Inv, IdInv, TypeInv
  <1>7. RecoveryInv' /\ AnswerInv'
    BY <1>1, <1>3 DEF RecoveryInv, AnswerInv
  <1>8. GoalInv'
    BY <1>1, <1>3 DEF Inv, GoalInv, Kept
  <1> QED BY <1>5, <1>6, <1>7, <1>8 DEF Inv

LEMMA RestartStep == ASSUME Inv, Restart PROVE Inv'
  <1>1. /\ ~up /\ up' = TRUE /\ recovery' = saved
        /\ UNCHANGED <<port, stage, saved, answer, server, cancels, issued, base,
                       acknowledged>>
    BY DEF Restart
  <1>2. \A p \in Client : answer[p] = None
    BY <1>1 DEF Inv, AnswerInv, RecoveryInv
  <1>3. TypeInv' /\ IdInv'
    BY <1>1 DEF Inv, TypeInv, IdInv
  <1>4. RecoveryInv' /\ AnswerInv'
    BY <1>1, <1>2 DEF Inv, RecoveryInv, AnswerInv
  <1>5. GoalInv'
    BY <1>1 DEF Inv, GoalInv, Kept, Busy, OnTheWay
  <1> QED BY <1>3, <1>4, <1>5 DEF Inv

LEMMA GoalStep ==
    ASSUME Inv, NEW g \in Goal, TakeGoal(g) \/ TakeCancel(g) \/ GoalEnds(g) PROVE Inv'
  <1>1. /\ cancels' \subseteq Goal
        /\ UNCHANGED <<up, port, stage, saved, recovery, answer, issued, base,
                       acknowledged>>
    BY DEF TakeGoal, TakeCancel, GoalEnds, Inv, TypeInv
  <1>2. PICK s \in Known : /\ server' = [server EXCEPT ![g] = s]
                           /\ s # "none" => server[g] # "none"
                           /\ s # "sent" \/ s = server[g]
                           /\ s \in Live => OnTheWay(g)
                           /\ server[g] \in Ending => s \in Ending
    <2>1. CASE TakeGoal(g)
      BY <2>1 DEF TakeGoal, Known, Live, OnTheWay, Ending, Terminal
    <2>2. CASE TakeCancel(g)
      <3>1. server' \in {server, [server EXCEPT ![g] = "canceling"]}
            /\ (server' # server => server[g] = "running")
        BY <2>2 DEF TakeCancel
      <3>2. server[g] \in Known /\ server = [server EXCEPT ![g] = server[g]]
        BY DEF Inv, TypeInv
      <3>3. CASE server' = server
        BY <3>2, <3>3 DEF OnTheWay, Known, Live
      <3>4. CASE server' # server
        BY <3>1, <3>4 DEF OnTheWay, Known, Live, Ending
      <3> QED BY <3>3, <3>4
    <2>3. CASE GoalEnds(g)
      BY <2>3 DEF GoalEnds, OnTheWay, Known, Live, Terminal, Ending
    <2> QED BY <2>1, <2>2, <2>3
  <1>3. /\ server' \in [Goal -> Known]
        /\ \A h \in Goal : /\ server'[h] # "none" => server[h] # "none"
                           /\ server'[h] = "sent" => server[h] = "sent"
                           /\ OnTheWay(h)' => OnTheWay(h)
                           /\ server[h] \in Ending => server'[h] \in Ending
    BY <1>2 DEF Inv, TypeInv, OnTheWay
  <1>4. AnswerInv'
    BY <1>1, <1>3 DEF Inv, TypeInv, AnswerInv, IsTrue, OnTheWay
  <1> QED BY <1>1, <1>3, <1>4, ServerStep DEF Inv, TypeInv, Busy

LEMMA BaseStep == ASSUME Inv, BaseMoves \/ BaseStops PROVE Inv'
  BY DEF Inv, TypeInv, IdInv, RecoveryInv, AnswerInv, IsTrue, GoalInv, Busy, OnTheWay, Kept,
         BaseMoves, BaseStops

\* One step per action.
LEMMA InvStep == Inv /\ [Next]_vars => Inv'
  <1> SUFFICES ASSUME Inv, [Next]_vars PROVE Inv'
    OBVIOUS
  <1>1. ASSUME NEW home \in BOOLEAN, Start(home) PROVE Inv'
    BY <1>1, StartStep
  <1>2. CASE StartRaises \/ PollDrive \/ PollApproach
    BY <1>2, StartRaisesStep, PollDriveStep, PollApproachStep
  <1>3. CASE Cancel \/ StatusSeen
    BY <1>3, CancelStep, StatusSeenStep
  <1>4. ASSUME NEW p \in Client, Accepted(p) \/ Finished(p) PROVE Inv'
    BY <1>4, AcceptedStep, FinishedStep
  <1>5. ASSUME NEW p \in Client, RecoveryAsk(p) \/ RecoveryAnswered(p) \/ RecoveryDone(p)
        PROVE  Inv'
    BY <1>5, RecoveryAskStep, RecoveryAnsweredStep, RecoveryDoneStep
  <1>6. CASE Crash \/ Restart
    BY <1>6, CrashStep, RestartStep
  <1>7. ASSUME NEW g \in Goal, TakeGoal(g) \/ TakeCancel(g) \/ GoalEnds(g) PROVE Inv'
    BY <1>7, GoalStep
  <1>8. CASE BaseMoves \/ BaseStops
    BY <1>8, BaseStep
  <1>9. CASE UNCHANGED vars
    BY <1>9 DEF vars, Inv, TypeInv, IdInv, RecoveryInv, AnswerInv, IsTrue, GoalInv, Busy,
                OnTheWay, Kept
  <1> QED BY <1>1, <1>2, <1>3, <1>4, <1>5, <1>6, <1>7, <1>8, <1>9, Zenon DEF Next

-----------------------------------------------------------------------------
(* The inductive invariant: that a stopped port has no goal rests on what a  *)
(* process that starts will find in the journal (nav2.py and                 *)
(* desk_approach.py, maintain), so every busy goal is in it.                 *)
THEOREM Invariance == Spec => []Inv
  BY InitInv, InvStep, PTL DEF Spec

(* Clients, composition, journal and servers keep their types for every      *)
(* number of goals; ids are issued in order, and a client that waits has no  *)
(* result yet (nav2.py, _accepted and _finished).                            *)
THEOREM TypesHold == Spec => []TypeOK
  <1>1. Inv => TypeOK
    BY DEF Inv, TypeInv, IdInv, TypeOK, Port, Stage, Future, Answer, Known
  <1> QED BY <1>1, Invariance, PTL

(* While stopped() holds (staged_navigation.py; nav2.py, stopped), no goal   *)
(* of this or a former process drives the base or is on its way, but one     *)
(* that was given up because its server accepted to cancel it.               *)
THEOREM StoppedLeavesOnlyGivenUp == Spec => []StoppedLeavesOnlyAcknowledged
  <1>1. Inv => StoppedLeavesOnlyAcknowledged
    <2> SUFFICES ASSUME Inv, Stopped, NEW g \in Goal, OnTheWay(g)
                 PROVE  server[g] = "canceling" /\ g \in acknowledged
      BY DEF StoppedLeavesOnlyAcknowledged
    <2>1. g \in acknowledged
      BY StoppedIdle DEF Busy
    <2>2. server[g] \in Ending
      BY <2>1 DEF Inv, IdInv
    <2> QED BY <2>1, <2>2 DEF OnTheWay, Ending, Live, Terminal
  <1> QED BY <1>1, Invariance, PTL

\* Only a start, of a new operation, and the end of a drive send a goal.
LEMMA SendsLemma ==
    ASSUME Inv, [Next]_vars, NEW g \in Goal, server[g] = "none", server'[g] = "sent",
           stage'.op = stage.op
    PROVE  ~stage.cancelled
  <1>1. ASSUME NEW home \in BOOLEAN, Start(home) PROVE FALSE
    <2>1. stage'.op = issued + 1 /\ issued + 1 \in Goal /\ issued \in Nat
      BY <1>1 DEF Start, Send, NoStage, Inv, TypeInv
    <2> QED BY <2>1 DEF Inv, IdInv, Goal
  <1>2. CASE PollDrive
    BY <1>2 DEF PollDrive, Ends
  <1>3. ASSUME NEW p \in Client, \/ Accepted(p) \/ Finished(p) \/ RecoveryAsk(p)
                                 \/ RecoveryAnswered(p) \/ RecoveryDone(p)
        PROVE  FALSE
    BY <1>3 DEF Inv, TypeInv, Accepted, Finished, RecoveryAsk, RecoveryAnswered, RecoveryDone
  <1>4. ASSUME NEW h \in Goal, TakeGoal(h) \/ TakeCancel(h) \/ GoalEnds(h) PROVE FALSE
    BY <1>4 DEF Inv, TypeInv, TakeGoal, TakeCancel, GoalEnds, Terminal
  <1>5. CASE Crash
    BY <1>5 DEF Crash
  <1>6. CASE StartRaises \/ PollApproach \/ Cancel \/ StatusSeen \/ Restart \/ BaseMoves
             \/ BaseStops \/ UNCHANGED vars
    BY <1>6 DEF StartRaises, PollApproach, Cancel, StatusSeen, Restart, BaseMoves, BaseStops, vars
  <1> QED BY <1>1, <1>2, <1>3, <1>4, <1>5, <1>6, Zenon DEF Next

(* A cancelled operation sends no other goal, not even the approach after a  *)
(* drive that arrived (staged_navigation.py, poll).                          *)
THEOREM CancelledStaysQuiet == Spec => CancelledSendsNothing
  <1>1. Inv /\ [Next]_vars =>
          [\A g \in Goal : server[g] = "none" /\ server'[g] = "sent" /\ stage'.op = stage.op
              => ~stage.cancelled]_vars
    BY SendsLemma
  <1> QED BY <1>1, Invariance, PTL DEF Spec, CancelledSendsNothing
=============================================================================
