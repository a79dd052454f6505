------------------------------ MODULE DeskProof ------------------------------
(***************************************************************************)
(* Theorems about what works the desk: the manipulation port and, at the   *)
(* end, the tree that uses it.  For every set of executions, the port      *)
(* keeps its types, the executor starts with the arm clear only, and the   *)
(* Runtime's gate for driving tells the truth, with lost and late          *)
(* messages, failed saves, and crashes of both processes.  For every set   *)
(* of objects and every policy, the tree keeps its budgets, starts on a    *)
(* fresh scene, is done only when the desk is clean, and reports every     *)
(* execution once, halted at any moment.                                   *)
(***************************************************************************)
EXTENDS ManipulationBoundary, CleaningTree, FiniteSetTheorems, TLAPS

USE NoneAssumption, InitialSafeAssumption

\* The port's record, and a saved goal and outcome.
Port ==
    [goal : Execution \cup {None}, outcome : Executor!Final \cup {None},
     fresh : BOOLEAN, cancel : BOOLEAN,
     send : {None, "pending", "accepted", "rejected"},
     result : Executor!Final \cup {None, "pending"},
     lookup : Executor!Known \cup {None, "pending", "expired"},
     call : {None, "pending", "expired", "answered"}]
BlobType == [goal : Execution \cup {None}, outcome : Executor!Final \cup {None}]

TypeInv ==
    /\ up \in BOOLEAN /\ port \in Port /\ journal \in BlobType
    /\ goals \subseteq used /\ cancels \subseteq used /\ told \subseteq used
    /\ answerable \subseteq used /\ used \subseteq Execution
    /\ {port.goal, journal.goal} \subseteq used \cup {None}
    /\ port.goal = None => port.lookup = None
    /\ known \in [Execution -> Executor!Known]

\* An execution that ended like this: nothing runs or is on its way, and it is true of the arm.
Over(o) ==
    /\ goals = {} /\ Executor!Active = {}
    /\ o = "safe" => body = "clear"
    /\ o \in Executor!Stopped => body # "moving"

\* Only the saved execution without an outcome may run or be on its way.
SentInv ==
    /\ \A e \in goals \cup Executor!Active : journal.goal = e /\ journal.outcome = None
    /\ \A e \in goals : known[e] = "unknown" /\ body = "clear"
    /\ \A e \in Execution \ used : known[e] = "unknown"

\* What is saved is true: without a goal the arm is clear, and a saved or recorded end is over.
JournalInv ==
    /\ journal.goal = None => journal.outcome = None /\ body = "clear"
    /\ journal.outcome # None => Over(journal.outcome)
    /\ journal.goal # None /\ known[journal.goal] \in Executor!Final => Over(known[journal.goal])

\* The port agrees with its journal, and the answers it has received are true.
Saved == /\ port.goal = journal.goal /\ port.outcome = journal.outcome
         /\ port.fresh => journal.goal = None
         /\ \A o \in {port.result, port.lookup} \cap Executor!Final : Over(o)

\* The save of the current goal failed: it was never sent.
Unsaved == /\ port.goal # None /\ port.outcome = None /\ ~port.fresh
           /\ port.send = None /\ port.result = None /\ port.lookup \notin Executor!Final
           /\ port.goal \notin goals /\ known[port.goal] = "unknown"

\* Together: what the port says rests on the journal, the journal on the executor.
Inv == /\ TypeInv /\ clean /\ SentInv /\ JournalInv
       /\ up => Saved \/ Unsaved

-----------------------------------------------------------------------------
LEMMA InitInv == Init => Inv
  <1> SUFFICES ASSUME Init PROVE Inv
    OBVIOUS
  <1>1. Executor!Active = {} /\ known \in [Execution -> Executor!Known] /\ body = "clear" /\ clean
    BY DEF Init, Executor!Init, Executor!Active, Executor!Known
  <1>2. /\ port \in Port /\ port.goal = None /\ port.outcome = None
        /\ port.result = None /\ port.lookup = None
        /\ journal \in BlobType /\ journal.goal = None /\ journal.outcome = None
    BY DEF Init, Loaded, NoBlob, Port, BlobType
  <1>3. TypeInv
    BY <1>1, <1>2 DEF TypeInv, Init
  <1>4. SentInv
    BY <1>1 DEF SentInv, Init, Executor!Init
  <1>5. JournalInv
    BY <1>1, <1>2 DEF JournalInv
  <1>6. Saved
    BY <1>2 DEF Saved, Executor!Known, Executor!Final, Executor!Stopped
  <1> QED BY <1>1, <1>3, <1>4, <1>5, <1>6 DEF Inv

\* The answers the port has received.
Answers(p) == {p.result, p.lookup} \cap Executor!Final

\* q is p but for outcomes taken from p's own answers.
Same(p, q) ==
    /\ q \in Port /\ q.goal = p.goal /\ q.fresh = p.fresh
    /\ q.outcome \in {p.outcome} \cup Answers(p)
    /\ Answers(q) \subseteq Answers(p)
    /\ p.send = None /\ p.result = None => q.send = None /\ q.result = None

LEMMA SameTransitive ==
    ASSUME NEW p, NEW q, NEW r, Same(p, q), Same(q, r) PROVE Same(p, r)
  BY DEF Same

\* The steps of maintain, one by one, and maintain.
LEMMA SendDoneSame ==
    ASSUME NEW p \in Port PROVE Same(p, SendDone(p)) /\ SendDone(p).outcome = p.outcome
  <1>1. SendDone(p) \in {p, [p EXCEPT !.send = None, !.result = "pending"],
                        [p EXCEPT !.send = None, !.cancel = TRUE]}
        /\ (p.send = None => SendDone(p) = p)
    BY DEF SendDone
  <1>2. LET q == [p EXCEPT !.send = None, !.result = "pending"]
        IN  q \in Port /\ q.goal = p.goal /\ q.fresh = p.fresh /\ q.outcome = p.outcome
            /\ q.lookup = p.lookup /\ q.result = "pending"
    BY DEF Port
  <1>3. LET q == [p EXCEPT !.send = None, !.cancel = TRUE]
        IN  q \in Port /\ q.goal = p.goal /\ q.fresh = p.fresh /\ q.outcome = p.outcome
            /\ q.lookup = p.lookup /\ q.result = p.result /\ q.send = None
    BY DEF Port
  <1>4. "pending" \notin Executor!Final
    BY DEF Executor!Final, Executor!Stopped
  <1> QED BY <1>1, <1>2, <1>3, <1>4 DEF Same, Answers

LEMMA ResultDoneSame ==
    ASSUME NEW p \in Port, NEW saved \in BOOLEAN PROVE Same(p, ResultDone(p, saved))
  <1>1. \/ ResultDone(p, saved) = p
        \/ /\ p.result \in Executor!Final
           /\ ResultDone(p, saved) \in {[p EXCEPT !.result = None, !.outcome = p.result],
                                       [p EXCEPT !.result = None, !.cancel = TRUE]}
    BY DEF ResultDone
  <1>2. ASSUME p.result \in Executor!Final
        PROVE  LET q == [p EXCEPT !.result = None, !.outcome = p.result]
               IN  q \in Port /\ q.goal = p.goal /\ q.fresh = p.fresh /\ q.outcome = p.result
                   /\ q.lookup = p.lookup /\ q.result = None /\ q.send = p.send
    BY <1>2 DEF Port
  <1>3. LET q == [p EXCEPT !.result = None, !.cancel = TRUE]
        IN  q \in Port /\ q.goal = p.goal /\ q.fresh = p.fresh /\ q.outcome = p.outcome
            /\ q.lookup = p.lookup /\ q.result = None /\ q.send = p.send
    BY DEF Port
  <1>4. None \notin Executor!Final
    BY DEF Executor!Known
  <1> QED BY <1>1, <1>2, <1>3, <1>4 DEF Same, Answers

LEMMA CancelDoneSame ==
    ASSUME NEW p \in Port PROVE Same(p, CancelDone(p)) /\ CancelDone(p).outcome = p.outcome
  <1>1. LET q == [p EXCEPT !.call = "pending"]
        IN  q \in Port /\ q.goal = p.goal /\ q.fresh = p.fresh /\ q.outcome = p.outcome
            /\ q.lookup = p.lookup /\ q.result = p.result /\ q.send = p.send
    BY DEF Port
  <1> QED BY <1>1 DEF CancelDone, Same, Answers

LEMMA LookupDoneSame ==
    ASSUME NEW p \in Port, NEW saved \in BOOLEAN PROVE Same(p, LookupDone(p, saved))
  <1>1. \/ LookupDone(p, saved) = p
        \/ LookupDone(p, saved) = [p EXCEPT !.lookup = None]
        \/ /\ p.lookup \in Executor!Final
           /\ LookupDone(p, saved) = [p EXCEPT !.lookup = None, !.outcome = p.lookup]
    BY DEF LookupDone
  <1>2. ASSUME p.lookup \in Executor!Final
        PROVE  LET q == [p EXCEPT !.lookup = None, !.outcome = p.lookup]
               IN  q \in Port /\ q.goal = p.goal /\ q.fresh = p.fresh /\ q.outcome = p.lookup
                   /\ q.lookup = None /\ q.result = p.result /\ q.send = p.send
    BY <1>2 DEF Port
  <1>3. LET q == [p EXCEPT !.lookup = None]
        IN  q \in Port /\ q.goal = p.goal /\ q.fresh = p.fresh /\ q.outcome = p.outcome
            /\ q.lookup = None /\ q.result = p.result /\ q.send = p.send
    BY DEF Port
  <1>4. None \notin Executor!Final
    BY DEF Executor!Known
  <1> QED BY <1>1, <1>2, <1>3, <1>4 DEF Same, Answers

LEMMA LookupNextSame ==
    ASSUME NEW p \in Port PROVE Same(p, LookupNext(p))
  <1>1. LET q == [p EXCEPT !.lookup = "pending"]
        IN  q \in Port /\ q.goal = p.goal /\ q.fresh = p.fresh /\ q.outcome = p.outcome
            /\ q.lookup = "pending" /\ q.result = p.result /\ q.send = p.send
    BY DEF Port
  <1>2. "pending" \notin Executor!Final
    BY DEF Executor!Final, Executor!Stopped
  <1> QED BY <1>1, <1>2 DEF LookupNext, Same, Answers

LEMMA MaintainedSame ==
    ASSUME NEW p \in Port, NEW saved \in BOOLEAN
    PROVE  Same(p, Maintained(p, saved))
  <1> DEFINE sent == SendDone(p)
             heard == ResultDone(sent, saved)
             asked == CancelDone(heard)
             looked == LookupDone(asked, saved)
             next == LookupNext(looked)
  <1>1. Same(p, sent)
    BY SendDoneSame
  <1>2. Same(sent, heard)
    BY <1>1, ResultDoneSame DEF Same
  <1>3. Same(heard, asked)
    BY <1>2, CancelDoneSame DEF Same
  <1>4. Same(asked, looked)
    BY <1>3, LookupDoneSame DEF Same
  <1>5. Same(looked, next)
    BY <1>4, LookupNextSame DEF Same
  <1>6. Same(p, heard) /\ Same(p, looked) /\ Same(p, next)
    <2> HIDE DEF sent, heard, asked, looked, next
    <2> QED BY <1>1, <1>2, <1>3, <1>4, <1>5, SameTransitive
  <1> QED BY <1>6 DEF Maintained

-----------------------------------------------------------------------------
(* The steps.                                                              *)

\* What the executor does by itself leaves alone what has ended.
ExecutorStep ==
    \/ Executor!Work \/ Executor!Settle \/ Executor!Crash \/ Executor!Restart
    \/ \E e \in Execution, end \in Executor!Final : Executor!Finish(e, end)

\* What is over stays over.
LEMMA OverStays ==
    ASSUME NEW o, Over(o), known \in [Execution -> Executor!Known],
           ExecutorStep, goals' = goals
    PROVE  Over(o)'
  <1>1. Executor!Active' = {}
    BY DEF Over, ExecutorStep, Executor!Active, Executor!Work, Executor!Settle, Executor!Crash,
           Executor!Restart, Executor!Finish, Executor!Inhibiting
  <1>2. body' = body \/ body = "moving"
    BY DEF Over, ExecutorStep, Executor!Active, Executor!Work, Executor!Settle, Executor!Crash,
           Executor!Restart, Executor!Finish
  <1> QED BY <1>1, <1>2 DEF Over, Executor!Stopped

\* The port may lose requests, and hear of its own execution what the executor knows.
LEMMA PortMoves ==
    ASSUME Inv, UNCHANGED <<executor, up, journal, used>>,
           goals' \subseteq goals, cancels' \subseteq used, told' \subseteq used,
           answerable' \subseteq used,
           port' \in Port, port'.goal = port.goal, port'.outcome = port.outcome,
           port'.fresh = port.fresh,
           port.goal = None => port'.lookup = None,
           port.send = None => port'.send = None,
           port.result = None => port'.result = None,
           \/ Answers(port') \subseteq Answers(port)
           \/ port.goal # None /\ Answers(port') \subseteq Answers(port) \cup {known[port.goal]}
    PROVE  Inv'
  <1>1. TypeInv /\ clean /\ SentInv /\ JournalInv /\ (up => Saved \/ Unsaved)
    BY DEF Inv
  <1>2. UNCHANGED <<serving, known, inhibited, clean, body, up, journal, used>>
    BY DEF executor
  <1>3. Executor!Active' = Executor!Active
    BY <1>2 DEF Executor!Active
  <1>4. \A o : Over(o) => Over(o)'
    BY <1>2, <1>3 DEF Over
  <1>5. TypeInv'
    BY <1>1, <1>2 DEF TypeInv
  <1>6. SentInv'
    BY <1>1, <1>2, <1>3 DEF SentInv
  <1>7. JournalInv'
    BY <1>1, <1>2, <1>4 DEF JournalInv
  <1>8. ASSUME Saved PROVE Saved'
    <2>1. \A o \in Answers(port') : Over(o)
      <3> SUFFICES ASSUME NEW o \in Answers(port') PROVE Over(o)
        OBVIOUS
      <3>1. CASE o \in Answers(port)
        BY <1>8, <3>1 DEF Saved, Answers
      <3>2. CASE port.goal # None /\ o = known[port.goal]
        BY <1>1, <1>8, <3>2 DEF Saved, Answers, JournalInv
      <3> QED BY <3>1, <3>2
    <2>2. \A o \in Answers(port') : Over(o)'
      BY <2>1, <1>4
    <2>3. Answers(port') = {port'.result, port'.lookup} \cap Executor!Final
      BY DEF Answers
    <2> QED BY <1>2, <1>8, <2>2, <2>3 DEF Saved
  <1>9. ASSUME Unsaved PROVE Unsaved'
    <2>1. known[port.goal] \notin Executor!Final /\ port'.lookup \notin Executor!Final
      <3>1. "unknown" \notin Executor!Final /\ None \notin Executor!Final
        BY DEF Executor!Known, Executor!Final, Executor!Stopped
      <3>2. Answers(port) = {}
        BY <1>9, <3>1 DEF Unsaved, Answers
      <3>3. Answers(port') \subseteq {"unknown"}
        BY <1>9, <3>2 DEF Unsaved
      <3> QED BY <1>9, <3>1, <3>3 DEF Unsaved, Answers
    <2> QED BY <1>2, <1>9, <2>1 DEF Unsaved
  <1> QED BY <1>1, <1>2, <1>5, <1>6, <1>7, <1>8, <1>9 DEF Inv

\* The gate tells the truth: nothing runs, nothing is on its way, and the arm is clear.
LEMMA GateIsTrue == Inv => DriveGateIsTrue
  <1> SUFFICES ASSUME Inv PROVE DriveGateIsTrue
    OBVIOUS
  <1>1. TypeInv /\ SentInv /\ JournalInv /\ (up => Saved \/ Unsaved)
    BY DEF Inv
  <1>2. None \notin Executor!Stopped /\ None # "safe" /\ "safe" \in Executor!Stopped
    BY DEF Executor!Known, Executor!Final, Executor!Stopped
  <1>3. ASSUME Stopped PROVE Saved
    BY <1>1, <1>2, <1>3 DEF Stopped, Unsaved
  <1>4. ASSUME journal.goal = None
        PROVE  goals = {} /\ Executor!Active = {} /\ body = "clear"
    <2>1. \A e \in goals \cup Executor!Active : e \in Execution
      BY <1>1 DEF TypeInv, Executor!Active
    <2> QED BY <1>1, <1>4, <2>1 DEF SentInv, JournalInv
  <1>5. ASSUME Stopped, port.fresh
        PROVE  goals = {} /\ Executor!Active = {} /\ body = "clear"
    BY <1>3, <1>4, <1>5 DEF Saved
  <1>6. ASSUME Stopped, port.outcome \in Executor!Stopped
        PROVE  Over(port.outcome)
    BY <1>1, <1>2, <1>3, <1>6 DEF Saved, JournalInv
  <1>7. SafeToDrive => Stopped
    BY <1>2 DEF SafeToDrive, Stopped
  <1> QED BY <1>2, <1>5, <1>6, <1>7 DEF DriveGateIsTrue, Over, Stopped, SafeToDrive

\* A start finds nothing running: its goal is the only one on the wire, and it is saved.
LEMMA StartStep == ASSUME Inv, NEW e \in Execution, Start(e) PROVE Inv'
  <1>1. TypeInv /\ clean /\ SentInv
    BY DEF Inv
  <1>2. goals = {} /\ Executor!Active = {} /\ body = "clear" /\ known[e] = "unknown" /\ up
    BY <1>1, GateIsTrue DEF Start, SentInv, DriveGateIsTrue, SafeToDrive
  <1>3. UNCHANGED <<serving, known, inhibited, clean, body, up, told, answerable>>
        /\ used' = used \cup {e} /\ goals' \subseteq {e} /\ cancels' = {}
    BY <1>2 DEF Start, executor
  <1>4. Executor!Active' = {}
    BY <1>2, <1>3 DEF Executor!Active
  <1>5. journal' \in BlobType /\ journal'.goal = e /\ journal'.outcome = None
    BY DEF Start, Blob, Started, BlobType
  <1>6. /\ port' \in Port /\ port'.goal = e /\ port'.outcome = None /\ ~port'.fresh
        /\ port'.result = None /\ port'.lookup = None
    <2>1. /\ Started(e) \in Port /\ Started(e).goal = e /\ Started(e).outcome = None
          /\ ~Started(e).fresh /\ Started(e).result = None /\ Started(e).lookup = None
      BY DEF Started, Port
    <2>2. LET q == [Started(e) EXCEPT !.send = None, !.cancel = TRUE]
          IN /\ q \in Port /\ q.goal = e /\ q.outcome = None /\ ~q.fresh
             /\ q.result = None /\ q.lookup = None
      BY DEF Started, Port
    <2> QED BY <2>1, <2>2 DEF Start
  <1>7. e # None /\ "unknown" \notin Executor!Final /\ None \notin Executor!Final
    BY DEF Executor!Known, Executor!Final, Executor!Stopped
  <1>8. TypeInv'
    BY <1>1, <1>3, <1>5, <1>6 DEF TypeInv
  <1>9. SentInv'
    BY <1>1, <1>2, <1>3, <1>4, <1>5 DEF SentInv
  <1>10. JournalInv'
    BY <1>2, <1>3, <1>5, <1>7 DEF JournalInv
  <1>11. Saved'
    BY <1>5, <1>6, <1>7 DEF Saved
  <1> QED BY <1>1, <1>3, <1>8, <1>9, <1>10, <1>11 DEF Inv

\* A start that could not be saved is never sent.
LEMMA StartUnsavedStep == ASSUME Inv, NEW e \in Execution, StartUnsaved(e) PROVE Inv'
  <1>1. TypeInv /\ clean /\ SentInv /\ JournalInv
    BY DEF Inv
  <1>2. goals = {} /\ known[e] = "unknown" /\ e # None
    BY <1>1, GateIsTrue DEF StartUnsaved, SentInv, DriveGateIsTrue
  <1>3. UNCHANGED <<serving, known, inhibited, clean, body, up, journal, goals, cancels, told,
                    answerable>> /\ used' = used \cup {e}
    BY DEF StartUnsaved, executor, wire
  <1>4. Executor!Active' = Executor!Active
    BY <1>3 DEF Executor!Active
  <1>5. /\ port' \in Port /\ port'.goal = e /\ port'.outcome = None /\ ~port'.fresh
        /\ port'.send = None /\ port'.result = None /\ port'.lookup = None
    BY DEF StartUnsaved, Started, Port
  <1>6. TypeInv'
    BY <1>1, <1>3, <1>5 DEF TypeInv
  <1>7. SentInv'
    BY <1>1, <1>3, <1>4 DEF SentInv
  <1>8. JournalInv'
    BY <1>1, <1>3, <1>4 DEF JournalInv, Over
  <1>9. Unsaved'
    BY <1>2, <1>3, <1>5 DEF Unsaved, Executor!Known
  <1> QED BY <1>1, <1>3, <1>6, <1>7, <1>8, <1>9 DEF Inv

\* An outcome is saved when it is taken, and it is one of the true answers.
LEMMA MaintainsStep ==
    ASSUME Inv, NEW p \in {port, [port EXCEPT !.cancel = TRUE]}, Maintains(p) PROVE Inv'
  <1>1. TypeInv /\ clean /\ SentInv /\ JournalInv /\ up /\ (Saved \/ Unsaved)
    BY DEF Inv, Maintains
  <1>2. Same(port, p) /\ p.goal = port.goal /\ p.outcome = port.outcome
    <2>1. LET q == [port EXCEPT !.cancel = TRUE]
          IN  q \in Port /\ q.goal = port.goal /\ q.fresh = port.fresh
              /\ q.outcome = port.outcome /\ q.send = port.send /\ q.result = port.result
              /\ q.lookup = port.lookup
      BY <1>1 DEF TypeInv, Port
    <2> QED BY <1>1, <2>1 DEF Same, Answers, TypeInv
  <1>3. UNCHANGED <<serving, known, inhibited, clean, body, up, used, goals, told, answerable>>
        /\ cancels' \subseteq cancels \cup {port.goal}
        /\ port.goal # None /\ port.outcome = None
        /\ journal' = IF port'.outcome # None THEN Blob(port') ELSE journal
    BY <1>2 DEF Maintains, executor
  <1>4. Same(port, port')
    <2>1. p \in Port
      BY <1>2 DEF Same
    <2>2. PICK saved \in BOOLEAN : port' = Maintained(p, saved)
      BY DEF Maintains
    <2>3. Same(p, port')
      BY <2>1, <2>2, MaintainedSame
    <2> QED BY <1>2, <2>3, SameTransitive
  <1>5. /\ port' \in Port /\ port'.goal = port.goal /\ port'.fresh = port.fresh
        /\ port'.outcome \in {None} \cup Answers(port)
        /\ Answers(port') \subseteq Answers(port)
    BY <1>3, <1>4 DEF Same
  <1>6. port.goal \in used
    BY <1>1, <1>3 DEF TypeInv
  <1>7. Executor!Active' = Executor!Active
    BY <1>3 DEF Executor!Active
  <1>8. CASE port'.outcome = None
    <2>1. journal' = journal
      BY <1>3, <1>8
    <2>2. TypeInv'
      BY <1>1, <1>3, <1>5, <1>6, <2>1 DEF TypeInv
    <2>3. SentInv' /\ JournalInv' /\ (\A o : Over(o)' <=> Over(o))
      BY <1>1, <1>3, <1>7, <2>1 DEF SentInv, JournalInv, Over
    <2>4. ASSUME Saved PROVE Saved'
      BY <1>3, <1>5, <1>8, <2>1, <2>3, <2>4 DEF Saved, Answers
    <2>5. ASSUME Unsaved PROVE Unsaved'
      <3>1. None \notin Executor!Final
        BY DEF Executor!Known
      <3>2. Answers(port) = {} /\ Answers(port') = {} /\ port'.send = None /\ port'.result = None
        BY <1>4, <2>5, <3>1 DEF Unsaved, Answers, Same
      <3> QED BY <1>3, <1>5, <1>8, <2>5, <3>2 DEF Unsaved, Answers
    <2> QED BY <1>1, <1>3, <2>2, <2>3, <2>4, <2>5 DEF Inv
  <1>9. CASE port'.outcome # None
    <2>1. port'.outcome \in Answers(port)
      BY <1>5, <1>9
    <2>2. Saved
      <3>1. None \notin Executor!Final
        BY DEF Executor!Known
      <3> QED BY <1>1, <2>1, <3>1 DEF Unsaved, Answers
    <2>3. Over(port'.outcome)
      BY <2>1, <2>2 DEF Saved, Answers
    <2>4. journal' \in BlobType /\ journal'.goal = port.goal /\ journal'.outcome = port'.outcome
      BY <1>3, <1>5, <1>9 DEF Blob, BlobType, Port
    <2>5. \A o : Over(o)' <=> Over(o)
      BY <1>3, <1>7 DEF Over
    <2>6. TypeInv'
      BY <1>1, <1>3, <1>5, <1>6, <2>4 DEF TypeInv
    <2>7. SentInv'
      BY <1>1, <1>3, <1>7, <2>3 DEF SentInv, Over
    <2>8. JournalInv'
      BY <1>1, <1>3, <2>2, <2>3, <2>4, <2>5 DEF JournalInv, Saved
    <2>9. Saved'
      <3>1. port'.fresh => journal'.goal = None
        BY <1>3, <1>5, <2>2 DEF Saved
      <3>2. \A o \in Answers(port') : Over(o)
        BY <1>5, <2>2 DEF Saved, Answers
      <3> QED BY <1>5, <2>4, <2>5, <3>1, <3>2 DEF Saved, Answers
    <2> QED BY <1>1, <1>3, <2>6, <2>7, <2>8, <2>9 DEF Inv
  <1> QED BY <1>8, <1>9

LEMMA ExpireStep == ASSUME Inv, Expire PROVE Inv'
  <1>1. TypeInv
    BY DEF Inv
  <1> DEFINE c == IF port.call = "pending" THEN "expired" ELSE port.call
             l == IF port.lookup = "pending" THEN "expired" ELSE port.lookup
  <1>2. c \in {None, "pending", "expired", "answered"}
        /\ l \in Executor!Known \cup {None, "pending", "expired"}
        /\ {l} \cap Executor!Final \subseteq {port.lookup}
        /\ (port.lookup = None => l = None)
    BY <1>1 DEF TypeInv, Port, Executor!Final, Executor!Stopped
  <1>3. port' = [port EXCEPT !.call = c, !.lookup = l]
    BY DEF Expire
  <1> HIDE DEF c, l
  <1>4. /\ port' \in Port /\ port'.goal = port.goal /\ port'.outcome = port.outcome
        /\ port'.fresh = port.fresh /\ port'.send = port.send /\ port'.result = port.result
        /\ port'.lookup = l
    BY <1>1, <1>2, <1>3 DEF TypeInv, Port
  <1>5. Answers(port') \subseteq Answers(port)
    BY <1>2, <1>4 DEF Answers
  <1>6. UNCHANGED <<executor, up, journal, used>> /\ goals' \subseteq goals
        /\ cancels' \subseteq used /\ told' \subseteq used /\ answerable' \subseteq used
    BY <1>1 DEF Expire, wire, TypeInv
  <1>7. port.goal = None => port'.lookup = None
    BY <1>1, <1>2, <1>4 DEF TypeInv
  <1> QED BY <1>4, <1>5, <1>6, <1>7, PortMoves

LEMMA ReceiveResultStep == ASSUME Inv, NEW e \in Execution, ReceiveResult(e) PROVE Inv'
  <1>1. TypeInv
    BY DEF Inv
  <1>2. port.goal = e /\ known[e] \in Executor!Final /\ port.result = "pending"
        /\ port' = [port EXCEPT !.result = known[e]]
    BY DEF ReceiveResult, Waits
  <1>3. /\ port' \in Port /\ port'.goal = port.goal /\ port'.outcome = port.outcome
        /\ port'.fresh = port.fresh /\ port'.send = port.send /\ port'.result = known[e]
        /\ port'.lookup = port.lookup
    BY <1>1, <1>2 DEF TypeInv, Port
  <1>4. port.goal # None /\ Answers(port') \subseteq Answers(port) \cup {known[port.goal]}
        /\ port.result # None
    BY <1>2, <1>3 DEF Answers
  <1>5. UNCHANGED <<executor, up, journal, used>> /\ goals' \subseteq goals
        /\ cancels' \subseteq used /\ told' \subseteq used /\ answerable' \subseteq used
    BY <1>1 DEF ReceiveResult, wire, TypeInv
  <1> QED BY <1>3, <1>4, <1>5, PortMoves

LEMMA ReceiveRecordStep == ASSUME Inv, ReceiveRecord PROVE Inv'
  <1>1. TypeInv
    BY DEF Inv
  <1>2. port.goal # None /\ port.goal \in Execution /\ known[port.goal] \in Executor!Known
    BY <1>1 DEF TypeInv, ReceiveRecord, Port
  <1>3. /\ port' \in Port /\ port'.goal = port.goal /\ port'.outcome = port.outcome
        /\ port'.fresh = port.fresh /\ port'.send = port.send /\ port'.result = port.result
        /\ port'.lookup = known[port.goal]
    BY <1>1, <1>2 DEF ReceiveRecord, TypeInv, Port
  <1>4. Answers(port') \subseteq Answers(port) \cup {known[port.goal]}
    BY <1>3 DEF Answers
  <1>5. UNCHANGED <<executor, up, journal, used>> /\ goals' \subseteq goals
        /\ cancels' \subseteq used /\ told' \subseteq used /\ answerable' \subseteq used
    BY <1>1 DEF ReceiveRecord, wire, TypeInv
  <1> QED BY <1>2, <1>3, <1>4, <1>5, PortMoves

LEMMA ReceiveCancelStep == ASSUME Inv, NEW e \in Execution, ReceiveCancel(e) PROVE Inv'
  <1>1. TypeInv
    BY DEF Inv
  <1>2. port' \in {port, [port EXCEPT !.call = "answered"]}
    BY DEF ReceiveCancel
  <1>3. /\ port' \in Port /\ port'.goal = port.goal /\ port'.outcome = port.outcome
        /\ port'.fresh = port.fresh /\ port'.send = port.send /\ port'.result = port.result
        /\ port'.lookup = port.lookup
    <2>1. LET q == [port EXCEPT !.call = "answered"]
          IN /\ q \in Port /\ q.goal = port.goal /\ q.outcome = port.outcome
             /\ q.fresh = port.fresh /\ q.send = port.send /\ q.result = port.result
             /\ q.lookup = port.lookup
      BY <1>1 DEF TypeInv, Port
    <2> QED BY <1>1, <1>2, <2>1 DEF TypeInv
  <1>4. Answers(port') = Answers(port)
    BY <1>3 DEF Answers
  <1>5. UNCHANGED <<executor, up, journal, used>> /\ goals' \subseteq goals
        /\ cancels' \subseteq used /\ told' \subseteq used /\ answerable' \subseteq used
    BY <1>1 DEF ReceiveCancel, TypeInv
  <1>6. port.goal = None => port'.lookup = None
    BY <1>1, <1>3 DEF TypeInv
  <1> QED BY <1>3, <1>4, <1>5, <1>6, PortMoves

LEMMA LoseStep == ASSUME Inv, NEW e \in Execution, LoseGoal(e) \/ LoseCancel(e) PROVE Inv'
  <1>1. TypeInv
    BY DEF Inv
  <1>2. UNCHANGED <<executor, up, port, journal, used>> /\ goals' \subseteq goals
        /\ cancels' \subseteq used /\ told' \subseteq used /\ answerable' \subseteq used
    BY <1>1 DEF LoseGoal, LoseCancel, client, TypeInv
  <1>3. /\ port' \in Port /\ Answers(port') \subseteq Answers(port)
        /\ (port.goal = None => port'.lookup = None)
    BY <1>1, <1>2 DEF TypeInv
  <1>4. port'.goal = port.goal /\ port'.outcome = port.outcome /\ port'.fresh = port.fresh
        /\ port'.send = port.send /\ port'.result = port.result
    BY <1>2
  <1> QED BY <1>2, <1>3, <1>4, PortMoves

\* Only the saved goal can be accepted, with the arm clear.
LEMMA ReceiveGoalStep == ASSUME Inv, NEW e \in Execution, ReceiveGoal(e) PROVE Inv'
  <1>1. TypeInv /\ clean /\ SentInv /\ JournalInv /\ (up => Saved \/ Unsaved)
    BY DEF Inv
  <1>2. PICK response \in {"accepted", "rejected"}, arrives \in BOOLEAN :
          /\ IF response = "accepted"
             THEN Executor!Accept(e) /\ answerable' = answerable \cup {e}
             ELSE UNCHANGED <<executor, answerable>>
          /\ port' = IF arrives /\ Waits(e, port.send = "pending")
                     THEN [port EXCEPT !.send = response] ELSE port
    BY DEF ReceiveGoal
  <1>3. UNCHANGED <<up, journal, used, cancels, told>> /\ goals' = goals \ {e} /\ e \in goals
    BY DEF ReceiveGoal
  <1>4. /\ port' \in Port /\ port'.goal = port.goal /\ port'.outcome = port.outcome
        /\ port'.fresh = port.fresh /\ port'.result = port.result
        /\ port'.lookup = port.lookup /\ (port.send = None => port'.send = None)
    <2>1. LET q == [port EXCEPT !.send = response]
          IN /\ q \in Port /\ q.goal = port.goal /\ q.outcome = port.outcome
             /\ q.fresh = port.fresh /\ q.result = port.result /\ q.lookup = port.lookup
      BY <1>1 DEF TypeInv, Port
    <2> QED BY <1>1, <1>2, <2>1 DEF TypeInv, Waits
  <1>5. Answers(port') = Answers(port) /\ (port.goal = None => port'.lookup = None)
    BY <1>1, <1>4 DEF Answers, TypeInv
  <1>6. CASE UNCHANGED <<executor, answerable>>
    <2>1. goals' \subseteq goals /\ cancels' \subseteq used /\ told' \subseteq used
          /\ answerable' \subseteq used
      BY <1>1, <1>3, <1>6 DEF TypeInv
    <2> QED BY <1>3, <1>4, <1>5, <1>6, <2>1, PortMoves
  <1>7. CASE Executor!Accept(e) /\ answerable' = answerable \cup {e}
    <2>1. /\ known' = [known EXCEPT ![e] = "active"] /\ clean' = (body = "clear")
          /\ UNCHANGED <<serving, inhibited, body>> /\ Executor!Active = {}
      BY <1>7 DEF Executor!Accept
    <2>2. goals = {e} /\ goals' = {} /\ body = "clear" /\ journal.goal = e
          /\ journal.outcome = None /\ e \in used
      BY <1>1, <1>3 DEF SentInv, TypeInv
    <2>3. /\ known' \in [Execution -> Executor!Known] /\ known'[e] = "active"
          /\ \A x \in Execution \ {e} : known'[x] = known[x]
      BY <1>1, <2>1 DEF TypeInv, Executor!Known
    <2>4. Executor!Active' = {e}
      BY <2>1, <2>3 DEF Executor!Active
    <2>5. "active" \notin Executor!Final /\ e # None
      BY DEF Executor!Final, Executor!Stopped
    <2>6. TypeInv'
      BY <1>1, <1>3, <1>4, <1>5, <1>7, <2>2, <2>3 DEF TypeInv
    <2>7. SentInv'
      BY <1>1, <1>3, <2>2, <2>3, <2>4 DEF SentInv
    <2>8. JournalInv'
      BY <1>1, <1>3, <2>2, <2>3, <2>5 DEF JournalInv
    <2>9. ASSUME Saved PROVE Saved'
      <3>1. Answers(port) = {}
        BY <1>3, <2>9 DEF Saved, Over, Answers
      <3> QED BY <1>3, <1>4, <1>5, <2>9, <3>1 DEF Saved, Answers
    <2>10. ASSUME Unsaved PROVE Unsaved'
      <3>1. port.goal # e /\ port.goal \in Execution
        BY <1>1, <1>3, <2>10 DEF Unsaved, TypeInv, Port
      <3> QED BY <1>4, <2>2, <2>3, <2>10, <3>1 DEF Unsaved
    <2> QED BY <1>1, <1>3, <2>1, <2>2, <2>6, <2>7, <2>8, <2>9, <2>10 DEF Inv
  <1> QED BY <1>2, <1>6, <1>7

\* Nothing but the Runtime's own state changes when it dies or starts.
LEMMA RuntimeStep == ASSUME Inv, RuntimeCrash \/ RuntimeRestart PROVE Inv'
  <1>1. TypeInv /\ clean /\ SentInv /\ JournalInv
    BY DEF Inv
  <1>2. UNCHANGED <<serving, known, inhibited, clean, body, goals, cancels, told, answerable,
                    journal, used>> /\ up' \in BOOLEAN
    BY DEF RuntimeCrash, RuntimeRestart, executor, wire
  <1>3. Executor!Active' = Executor!Active
    BY <1>2 DEF Executor!Active
  <1>4. NoBlob \in BlobType /\ NoBlob.goal = None
    BY DEF NoBlob, BlobType
  <1>5. \A b \in BlobType :
          LET q == Loaded(b)
          IN /\ q \in Port /\ q.goal = b.goal /\ q.outcome = b.outcome
             /\ q.result = None /\ q.lookup = None /\ (q.fresh => b.goal = None)
    <2> TAKE b \in BlobType
    <2> DEFINE f == InitialSafe /\ b = NoBlob
               c == b.goal # None /\ b.outcome = None
    <2>1. f \in BOOLEAN /\ c \in BOOLEAN /\ (f => b.goal = None)
      BY <1>4
    <2>2. Loaded(b) = [goal |-> b.goal, outcome |-> b.outcome, fresh |-> f, cancel |-> c,
                       send |-> None, result |-> None, lookup |-> None, call |-> None]
      BY DEF Loaded
    <2> HIDE DEF f, c
    <2> QED BY <2>1, <2>2 DEF Port, BlobType
  <1>6. /\ port' \in Port /\ port'.lookup = None /\ port'.goal \in used \cup {None}
        /\ up' => port' = Loaded(journal)
    BY <1>1, <1>4, <1>5 DEF RuntimeCrash, RuntimeRestart, TypeInv
  <1>7. TypeInv'
    BY <1>1, <1>2, <1>6 DEF TypeInv
  <1>8. SentInv' /\ JournalInv'
    BY <1>1, <1>2, <1>3 DEF SentInv, JournalInv, Over
  <1>9. up' => Saved'
    <2>1. None \notin Executor!Final
      BY DEF Executor!Known
    <2> QED BY <1>1, <1>2, <1>5, <1>6, <2>1 DEF Saved, TypeInv
  <1> QED BY <1>1, <1>2, <1>7, <1>8, <1>9 DEF Inv

\* The executor by itself: only the saved execution can end, and it ends truthfully.
LEMMA ExecutorKeeps ==
    ASSUME Inv, ExecutorStep, UNCHANGED <<client, goals>>,
           cancels' \subseteq used, told' \subseteq used, answerable' \subseteq used
    PROVE  Inv'
  <1>1. TypeInv /\ clean /\ SentInv /\ JournalInv /\ (up => Saved \/ Unsaved)
    BY DEF Inv
  <1>2. UNCHANGED <<up, port, journal, used, goals>>
    BY DEF client
  <1>3. known \in [Execution -> Executor!Known] /\ used \subseteq Execution
    BY <1>1 DEF TypeInv
  <1>4. /\ known' \in [Execution -> Executor!Known] /\ clean' = clean
        /\ \A x \in Execution : known[x] = "unknown" => known'[x] = "unknown"
        /\ Executor!Active' \subseteq Executor!Active
    BY <1>3 DEF ExecutorStep, Executor!Active, Executor!Work, Executor!Settle, Executor!Crash,
                Executor!Restart, Executor!Finish, Executor!Known
  <1>5. ASSUME Executor!Active = {}, body = "clear" PROVE body' = "clear"
    BY <1>5 DEF ExecutorStep, Executor!Active, Executor!Work, Executor!Settle, Executor!Crash,
                Executor!Restart, Executor!Finish
  <1>6. \A o : Over(o) => Over(o)'
    BY <1>2, <1>3, OverStays
  <1>7. ASSUME goals # {} PROVE Executor!Active = {} /\ body = "clear"
    <2>1. PICK e \in goals : journal.goal = e /\ known[e] = "unknown" /\ body = "clear"
      BY <1>1, <1>7 DEF SentInv
    <2>2. \A x \in Executor!Active : x = e /\ known[x] = "active"
      BY <1>1, <2>1 DEF SentInv, Executor!Active
    <2> QED BY <2>1, <2>2
  <1>8. ASSUME journal.goal = None PROVE Executor!Active = {}
    <2>1. \A x \in Executor!Active : x \in Execution /\ journal.goal = x
      BY <1>1 DEF SentInv, Executor!Active
    <2> QED BY <1>8, <2>1
  <1>9. TypeInv'
    BY <1>1, <1>2, <1>4 DEF TypeInv
  <1>10. SentInv'
    <2>1. \A e \in goals' : known'[e] = "unknown" /\ body' = "clear"
      BY <1>1, <1>2, <1>3, <1>4, <1>5, <1>7 DEF SentInv, TypeInv
    <2>2. \A e \in Execution \ used' : known'[e] = "unknown"
      BY <1>1, <1>2, <1>4 DEF SentInv
    <2>3. \A e \in goals' \cup Executor!Active' : journal'.goal = e /\ journal'.outcome = None
      BY <1>1, <1>2, <1>4 DEF SentInv
    <2> QED BY <2>1, <2>2, <2>3 DEF SentInv
  <1>11. JournalInv'
    <2>1. journal'.goal = None => journal'.outcome = None /\ body' = "clear"
      BY <1>1, <1>2, <1>5, <1>8 DEF JournalInv
    <2>2. \A o : o = journal.outcome /\ o # None => Over(o)'
      BY <1>1, <1>6 DEF JournalInv
    <2>3. ASSUME NEW o, journal.goal # None, o = known'[journal.goal], o \in Executor!Final
          PROVE  Over(o)'
      <3> DEFINE g == journal.goal
      <3>1. g \in Execution
        BY <1>1, <2>3 DEF TypeInv
      <3>2. CASE known[g] = o
        BY <1>1, <1>6, <2>3, <3>2 DEF JournalInv
      <3>3. CASE known[g] # o
        <4>1. PICK end \in Executor!Final : Executor!Finish(g, end)
          BY <1>3, <2>3, <3>1, <3>3
          DEF ExecutorStep, Executor!Work, Executor!Settle, Executor!Crash, Executor!Restart,
              Executor!Finish, Executor!Final, Executor!Stopped
        <4>2. known[g] = "active" /\ o = end
          BY <1>3, <2>3, <3>1, <4>1 DEF Executor!Finish
        <4>3. goals' = {}
          BY <1>1, <1>2, <1>7, <3>1, <4>2 DEF Executor!Active
        <4>4. Executor!Active' = {}
          <5>1. \A x \in Executor!Active : x = g
            BY <1>1 DEF SentInv
          <5>2. g \notin Executor!Active'
            BY <2>3 DEF Executor!Active, Executor!Final, Executor!Stopped
          <5> QED BY <1>4, <5>1, <5>2
        <4>5. (o = "safe" => body' = "clear") /\ (o \in Executor!Stopped => body' # "moving")
          BY <1>1, <4>1, <4>2 DEF Executor!Finish
        <4> QED BY <4>3, <4>4, <4>5 DEF Over
      <3> QED BY <3>2, <3>3
    <2> QED BY <1>2, <2>1, <2>2, <2>3 DEF JournalInv, Over
  <1>12. ASSUME Saved PROVE Saved'
    BY <1>2, <1>6, <1>12 DEF Saved
  <1>13. ASSUME Unsaved PROVE Unsaved'
    <2>1. port.goal \in Execution
      BY <1>1, <1>13 DEF Unsaved, TypeInv, Port
    <2> QED BY <1>2, <1>4, <1>13, <2>1 DEF Unsaved
  <1> QED BY <1>1, <1>2, <1>4, <1>9, <1>10, <1>11, <1>12, <1>13 DEF Inv

LEMMA ExecutorActs == ASSUME Inv, ExecutorWorks \/ ExecutorCrash \/ ExecutorRestart PROVE Inv'
  <1>1. ExecutorStep /\ UNCHANGED <<client, goals>>
    BY DEF ExecutorWorks, ExecutorCrash, ExecutorRestart, ExecutorStep, wire
  <1>2. cancels' \subseteq used /\ told' \subseteq used /\ answerable' \subseteq used
    BY DEF ExecutorWorks, ExecutorCrash, ExecutorRestart, wire, Inv, TypeInv
  <1> QED BY <1>1, <1>2, ExecutorKeeps

LEMMA Stutter == ASSUME Inv, UNCHANGED vars PROVE Inv'
  <1>1. /\ UNCHANGED <<serving, known, inhibited, clean, body, goals, cancels, told, answerable,
                       up, port, journal, used>>
    BY DEF vars, executor, wire, client
  <1>2. Executor!Active' = Executor!Active
    BY <1>1 DEF Executor!Active
  <1> QED BY <1>1, <1>2 DEF Inv, TypeInv, SentInv, JournalInv, Saved, Unsaved, Over

-----------------------------------------------------------------------------
LEMMA InvStep == Inv /\ [Next]_vars => Inv'
  <1> SUFFICES ASSUME Inv, [Next]_vars PROVE Inv'
    OBVIOUS
  <1>1. ASSUME NEW e \in Execution, Start(e) PROVE Inv'
    BY <1>1, StartStep
  <1>2. ASSUME NEW e \in Execution, StartUnsaved(e) PROVE Inv'
    BY <1>2, StartUnsavedStep
  <1>3. ASSUME NEW e \in Execution, ReceiveGoal(e) PROVE Inv'
    BY <1>3, ReceiveGoalStep
  <1>4. ASSUME NEW e \in Execution, LoseGoal(e) \/ LoseCancel(e) PROVE Inv'
    BY <1>4, LoseStep
  <1>5. ASSUME NEW e \in Execution, ReceiveResult(e) PROVE Inv'
    BY <1>5, ReceiveResultStep
  <1>6. ASSUME NEW e \in Execution, ReceiveCancel(e) PROVE Inv'
    BY <1>6, ReceiveCancelStep
  <1>7. CASE Maintain \/ Cancel
    BY <1>7, MaintainsStep DEF Maintain, Cancel
  <1>8. CASE Expire
    BY <1>8, ExpireStep
  <1>9. CASE ReceiveRecord
    BY <1>9, ReceiveRecordStep
  <1>10. CASE RuntimeCrash \/ RuntimeRestart
    BY <1>10, RuntimeStep
  <1>11. CASE ExecutorWorks \/ ExecutorCrash \/ ExecutorRestart
    BY <1>11, ExecutorActs
  <1>12. CASE UNCHANGED vars
    BY <1>12, Stutter
  <1> QED BY <1>1, <1>2, <1>3, <1>4, <1>5, <1>6, <1>7, <1>8, <1>9, <1>10, <1>11, <1>12, Zenon
          DEF Next

(* The inductive invariant: the gate alone is not inductive, since an answer *)
(* that is still in a future, the journal a restart reads, and the record a  *)
(* lookup reads must be as true as the outcome (core/manipulation.py).       *)
THEOREM Invariance == Spec => []Inv
  BY InitInv, InvStep, PTL DEF Spec

(* The port's fields and futures keep their types, and nothing is on the     *)
(* wire of an execution that was never started (core/manipulation.py).       *)
THEOREM TypesHold == Spec => []TypeOK
  <1>1. Inv => TypeOK
    BY DEF Inv, TypeInv, TypeOK, Port, BlobType
  <1> QED BY <1>1, Invariance, PTL

(* safe_to_drive says yes only with the arm home and empty, no execution     *)
(* active and no goal on its way; stopped only when nothing moves            *)
(* (core/manipulation.py, stopped and safe_to_drive).                        *)
THEOREM GateTellsTheTruth == Spec => []DriveGateIsTrue
  BY GateIsTrue, Invariance, PTL

(* Whatever the executor forgot with its database, it begins an execution    *)
(* with the arm clear only (manipulation_node.py, _goal): the Runtime's gate *)
(* is enough for it.                                                         *)
THEOREM StartsAreClean == Spec => []EveryStartIsClean
  <1>1. Inv => EveryStartIsClean
    BY DEF Inv, EveryStartIsClean
  <1> QED BY <1>1, Invariance, PTL

-----------------------------------------------------------------------------
(* The tree.                                                               *)

\* What a leaf may execute.
Proposal == [action : Action, object : Object, scene : 1..MaxScene]

\* An execution that the tree has not yet heard of.
Pending == leaf.execution # Nothing /\ ~leaf.consumed

\* A record r of the context c, when o is what the executor has answered.
Holds(c, o, r) ==
    /\ IF r.execution = Nothing THEN r.status = "skipped" ELSE r.status = o[r.execution]
    /\ r.status \in {"unsafe", "moving"} => c.review

\* The records of c are true, and no execution is recorded twice.
Faithful(c, o) ==
    /\ c \in Context
    /\ \A n \in 1..Len(c.records) : Holds(c, o, c.records[n])
    /\ \A m, n \in 1..Len(c.records) :
          c.records[m].execution = c.records[n].execution /\ m # n
              => c.records[m].execution = Nothing

\* The records of c have the execution e.
Has(c, e) == \E n \in 1..Len(c.records) : c.records[n].execution = e

ContextInv ==
    /\ Faithful(context, outcome)
    /\ \A e \in ExecutionId : Has(context, e) => e <= context.actions
    /\ ~context.abort => \A o \in Object : context.failures[o] <= MaxRetries

LeafInv ==
    /\ leaf.execution # Nothing =>
          /\ leaf.execution <= context.actions
          /\ leaf.consumed <=> Has(context, leaf.execution)
    /\ waits = "ExecuteOne" => Pending
    /\ Pending => /\ phase = "working" => waits = "ExecuteOne"
                  /\ phase \in {"working", "cancelling", "error"}
                  /\ proposal \in Proposal /\ proposal.scene = scene.id /\ ~context.abort

\* What a tree that goes on has recorded.
Fine == {"ok", "retryable", "skipped"}

\* The records of c are fine, and those of the scene s only if current.
Clean(c, s, current) ==
    \A n \in 1..Len(c.records) :
        /\ ~c.abort => c.records[n].status \in Fine
        /\ c.records[n].scene <= s
        /\ ~current => c.records[n].scene < s

WorkInv ==
    /\ phase = "working" /\ context.abort => waits = "Reobserve"
    /\ phase = "post" => ~context.abort /\ AllSkipped(scene.objects)
    /\ phase \in {"working", "post"} =>
          /\ Clean(context, scene.id, waits = "Reobserve")
          /\ waits # "ObserveBefore" => scene.id >= 1

ReportInv ==
    report # Nothing =>
        /\ phase \in {"over", "error"}
        /\ Faithful(report.context, outcome)
        /\ ~report.timedOut => report.context = context /\ ~Pending

TreeInv == TreeTypeOK /\ ContextInv /\ LeafInv /\ WorkInv /\ ReportInv

-----------------------------------------------------------------------------
\* A record at the end of a sequence.
LEMMA Appended ==
    ASSUME NEW s \in Seq(Record), NEW r \in Record
    PROVE  LET t == Append(s, r)
           IN  /\ t \in Seq(Record) /\ Len(s) \in Nat /\ Len(t) = Len(s) + 1
               /\ \A n \in 1..Len(s) : t[n] = s[n] /\ s[n] \in Record
               /\ t[Len(s) + 1] = r
  OBVIOUS

\* A true record of an execution that has none, or of none, leaves the context true.
LEMMA RecordedEffect ==
    ASSUME NEW c, NEW d, NEW r \in Record, NEW o,
           Faithful(c, o), d \in Context, d.records = Append(c.records, r),
           c.review => d.review, Holds(d, o, r),
           r.execution # Nothing => ~Has(c, r.execution)
    PROVE  /\ Faithful(d, o)
           /\ \A e \in ExecutionId : Has(d, e) <=> Has(c, e) \/ e = r.execution
           /\ \A s \in Nat, current \in BOOLEAN :
                 /\ Clean(c, s, current) /\ (~d.abort => ~c.abort /\ r.status \in Fine)
                 /\ r.scene <= s
                 => Clean(d, s, TRUE)
  <1> DEFINE k == Len(c.records)
  <1>1. /\ c.records \in Seq(Record) /\ d.records \in Seq(Record)
        /\ k \in Nat /\ Len(d.records) = k + 1
        /\ \A n \in 1..k : d.records[n] = c.records[n] /\ c.records[n] \in Record
        /\ d.records[k + 1] = r
    BY Appended DEF Faithful, Context
  <1>2. \A n \in 1..(k + 1) : n \in 1..k \/ n = k + 1
    BY <1>1
  <1>3. ASSUME NEW n \in 1..Len(d.records)
        PROVE  Holds(d, o, d.records[n])
    BY <1>1, <1>2 DEF Faithful, Holds
  <1>4. ASSUME NEW m \in 1..Len(d.records), NEW n \in 1..Len(d.records),
               d.records[m].execution = d.records[n].execution, m # n
        PROVE  d.records[m].execution = Nothing
    BY <1>1, <1>2, <1>4 DEF Faithful, Has
  <1>5. ASSUME NEW e \in ExecutionId
        PROVE  Has(d, e) <=> Has(c, e) \/ e = r.execution
    <2>1. Has(d, e) => Has(c, e) \/ e = r.execution
      BY <1>1, <1>2 DEF Has
    <2>2. Has(c, e) => Has(d, e)
      BY <1>1 DEF Has
    <2>3. e = r.execution => Has(d, e)
      BY <1>1 DEF Has
    <2> QED BY <2>1, <2>2, <2>3
  <1>6. ASSUME NEW s \in Nat, NEW current \in BOOLEAN, Clean(c, s, current),
               ~d.abort => ~c.abort /\ r.status \in Fine, r.scene <= s
        PROVE  Clean(d, s, TRUE)
    BY <1>1, <1>2, <1>6 DEF Clean
  <1> QED BY <1>3, <1>4, <1>5, <1>6 DEF Faithful

-----------------------------------------------------------------------------
LEMMA Types ==
    ASSUME TreeTypeOK
    PROVE  /\ phase \in {"working", "post", "cancelling", "over", "error"}
           /\ waits \in Leaf \cup {Nothing} /\ Nothing \notin Leaf
           /\ phase = "working" <=> waits # Nothing
           /\ scene.id \in 0..MaxScene /\ scene.id \in Nat /\ seen = 1..scene.id
           /\ MaxScene \in Nat /\ MaxActions \in Nat /\ MaxRetries \in Nat
           /\ context \in Context /\ context.abort \in BOOLEAN /\ context.actions \in Nat
           /\ leaf.execution \in ExecutionId \cup {Nothing} /\ Nothing \notin ExecutionId
           /\ leaf.consumed \in BOOLEAN
           /\ outcome \in [ExecutionId -> Outcome \cup {Nothing}] /\ Nothing \notin Outcome
  BY PolicyAssumption, NothingAssumption DEF TreeTypeOK, Context

\* The outcome of the pending execution: what _executed makes of the context.
LEMMA ExecutedEffect ==
    ASSUME context \in Context, proposal \in Proposal, leaf.execution \in ExecutionId,
           NEW status \in Outcome, ~context.abort,
           \A o \in Object : context.failures[o] <= MaxRetries
    PROVE  LET d == Executed(status)
               r == [object |-> proposal.object, scene |-> proposal.scene,
                     execution |-> leaf.execution, status |-> status]
           IN  /\ d \in Context /\ r \in Record /\ d.records = Append(context.records, r)
               /\ d.actions = context.actions
               /\ (context.review \/ status \in {"unsafe", "moving"}) => d.review
               /\ ~d.abort => \A o \in Object : d.failures[o] <= MaxRetries
               /\ ~d.abort /\ Succeeds(status) => status \in Fine
  <1> DEFINE r == [object |-> proposal.object, scene |-> proposal.scene,
                   execution |-> leaf.execution, status |-> status]
             t == Append(context.records, r)
             p == proposal.object
  <1>1. /\ r \in Record /\ p \in Object /\ t \in Seq(Record) /\ Recorded(status) = t
        /\ t = Append(context.records, r)
        /\ MaxRetries \in Nat
    BY PolicyAssumption, Appended DEF Record, Proposal, Context, Recorded
  <1>2. CASE status \in {"unsafe", "moving"}
    <2>1. Executed(status) = [context EXCEPT !.records = t, !.review = TRUE]
      BY <1>1, <1>2 DEF Executed
    <2> HIDE DEF t
    <2> QED BY <1>1, <1>2, <2>1 DEF Context, Succeeds
  <1>3. CASE status = "fatal"
    <2>1. Executed(status) = [context EXCEPT !.records = t]
      BY <1>1, <1>3 DEF Executed
    <2> HIDE DEF t
    <2> QED BY <1>1, <1>3, <2>1 DEF Context, Succeeds
  <1>4. CASE status = "ok"
    <2>1. Executed(status) = [context EXCEPT !.records = t, !.completed = Append(@, p)]
      BY <1>1, <1>4 DEF Executed
    <2>2. Append(context.completed, p) \in Seq(Object)
      BY <1>1 DEF Context
    <2> HIDE DEF t
    <2> QED BY <1>1, <1>4, <2>1, <2>2 DEF Context, Fine
  <1>5. CASE status \in {"retryable", "failed"}
    <2> DEFINE f == [context.failures EXCEPT ![p] = @ + 1]
               abort == context.abort \/ Abandons(status)
    <2>1. Executed(status) = [context EXCEPT !.records = t, !.failures = f, !.abort = abort]
      BY <1>1, <1>5 DEF Executed
    <2>2. /\ context.failures \in [Object -> 0..(MaxRetries + 1)]
          /\ context.failures[p] + 1 \in 0..(MaxRetries + 1)
          /\ ~Abandons(status) => context.failures[p] + 1 <= MaxRetries /\ status \in Fine
      BY <1>1, <1>5 DEF Context, Abandons, Fine
    <2>3. /\ f \in [Object -> 0..(MaxRetries + 1)] /\ abort \in BOOLEAN
          /\ ~abort => (\A o \in Object : f[o] <= MaxRetries) /\ status \in Fine
      BY <2>2 DEF Abandons
    <2> HIDE DEF t, f, abort
    <2>4. LET d == [context EXCEPT !.records = t, !.failures = f, !.abort = abort]
          IN  /\ d \in Context /\ d.records = t /\ d.failures = f /\ d.abort = abort
              /\ d.actions = context.actions /\ d.review = context.review
      BY <1>1, <2>3 DEF Context
    <2> QED BY <1>1, <1>5, <2>1, <2>3, <2>4
  <1> QED BY <1>2, <1>3, <1>4, <1>5 DEF Outcome

\* An object that is left on purpose.
LEMMA SkippedEffect ==
    ASSUME context \in Context, NEW p \in Proposal, context.actions < MaxActions
    PROVE  LET d == Skipped(p)
               r == [object |-> p.object, scene |-> p.scene,
                     execution |-> Nothing, status |-> "skipped"]
           IN  /\ d \in Context /\ r \in Record /\ d.records = Append(context.records, r)
               /\ d.actions = context.actions + 1 /\ d.failures = context.failures
               /\ d.abort = context.abort /\ (context.review => d.review)
  <1> DEFINE r == [object |-> p.object, scene |-> p.scene,
                   execution |-> Nothing, status |-> "skipped"]
             t == Append(context.records, r)
  <1>1. /\ r \in Record /\ t \in Seq(Record) /\ t = Append(context.records, r)
        /\ context.actions + 1 \in 0..MaxActions
    BY PolicyAssumption, Appended DEF Record, Proposal, Context
  <1> DEFINE left   == context.skipped \cup {p.object}
             review == context.review \/ p.action = "human_review"
             d      == [context EXCEPT !.actions = @ + 1, !.skipped = left, !.review = review,
                                       !.records = t]
  <1>2. Skipped(p) = d
    BY DEF Skipped
  <1>3. left \in SUBSET Object /\ review \in BOOLEAN /\ (context.review => review)
    BY DEF Proposal, Context
  <1>4. /\ d \in Context /\ d.records = t /\ d.actions = context.actions + 1
        /\ d.failures = context.failures /\ d.abort = context.abort /\ d.review = review
    <2> HIDE DEF t, left, review
    <2> QED BY <1>1, <1>3 DEF Context
  <1> HIDE DEF d, t
  <1> QED BY <1>1, <1>2, <1>3, <1>4

-----------------------------------------------------------------------------
LEMMA TreeInitInv == TreeInit => TreeInv
  <1> SUFFICES ASSUME TreeInit PROVE TreeInv
    OBVIOUS
  <1>1. /\ MaxActions \in Nat \ {0} /\ MaxRetries \in Nat /\ MaxScene \in Nat \ {0}
        /\ Nothing \notin Leaf /\ "ObserveBefore" \in Leaf
    BY PolicyAssumption, NothingAssumption DEF Leaf
  <1>2. context \in Context /\ context.records = <<>> /\ Len(context.records) = 0
    BY <1>1 DEF TreeInit, Context
  <1>3. /\ leaf \in [execution : ExecutionId \cup {Nothing}, consumed : BOOLEAN]
        /\ leaf.execution = Nothing
    BY DEF TreeInit, NoLeaf
  <1>4. scene.id = 0 /\ scene.objects \in [Object -> Kind] /\ seen = 1..0
    BY DEF TreeInit, Kind
  <1>5. TreeTypeOK
    BY <1>1, <1>2, <1>3, <1>4 DEF TreeInit, TreeTypeOK
  <1>6. ContextInv
    BY <1>1, <1>2 DEF TreeInit, ContextInv, Faithful, Has
  <1>7. LeafInv /\ WorkInv /\ ReportInv
    BY <1>1, <1>2, <1>3 DEF TreeInit, LeafInv, WorkInv, ReportInv, Pending, Clean
  <1> QED BY <1>5, <1>6, <1>7 DEF TreeInv

\* The pending outcome is recorded, by the leaf or by settle.
LEMMA SettledEffect ==
    ASSUME TreeInv, Pending, outcome[leaf.execution] # Nothing, outcome' = outcome,
           context' = Executed(outcome[leaf.execution]), leaf' = [leaf EXCEPT !.consumed = TRUE]
    PROVE  /\ context' \in Context /\ ContextInv'
           /\ leaf' \in [execution : ExecutionId \cup {Nothing}, consumed : BOOLEAN]
           /\ leaf'.execution = leaf.execution /\ leaf'.consumed
           /\ leaf.execution <= context'.actions /\ Has(context', leaf.execution)
           /\ \A current \in BOOLEAN :
                 Clean(context, scene.id, current) /\ Succeeds(outcome[leaf.execution])
                 => Clean(context', scene.id, TRUE)
  <1> DEFINE status == outcome[leaf.execution]
             r == [object |-> proposal.object, scene |-> proposal.scene,
                   execution |-> leaf.execution, status |-> status]
  <1>1. /\ context \in Context /\ proposal \in Proposal /\ leaf.execution \in ExecutionId
        /\ status \in Outcome /\ ~context.abort /\ proposal.scene = scene.id
        /\ \A o \in Object : context.failures[o] <= MaxRetries
        /\ Faithful(context, outcome) /\ ~Has(context, leaf.execution)
        /\ leaf.execution <= context.actions /\ scene.id \in Nat
    BY Types DEF TreeInv, LeafInv, ContextInv, Pending
  <1>2. /\ context' \in Context /\ r \in Record
        /\ context'.records = Append(context.records, r) /\ context'.actions = context.actions
        /\ (context.review \/ status \in {"unsafe", "moving"}) => context'.review
        /\ ~context'.abort => \A o \in Object : context'.failures[o] <= MaxRetries
        /\ ~context'.abort /\ Succeeds(status) => status \in Fine
    BY <1>1, ExecutedEffect
  <1>3. Holds(context', outcome, r)
    BY <1>1, <1>2, NothingAssumption DEF Holds
  <1>4. /\ Faithful(context', outcome)
        /\ \A e \in ExecutionId : Has(context', e) <=> Has(context, e) \/ e = leaf.execution
        /\ \A s \in Nat, current \in BOOLEAN :
              /\ Clean(context, s, current)
              /\ ~context'.abort => ~context.abort /\ status \in Fine
              /\ proposal.scene <= s
              => Clean(context', s, TRUE)
    <2> HIDE DEF r
    <2>1. r.execution = leaf.execution /\ r.status = status /\ r.scene = proposal.scene
      BY DEF r
    <2>2. r.execution # Nothing => ~Has(context, r.execution)
      BY <1>1, <2>1
    <2>3. context.review => context'.review
      BY <1>2
    <2>4. /\ Faithful(context', outcome)
          /\ \A e \in ExecutionId : Has(context', e) <=> Has(context, e) \/ e = r.execution
          /\ \A s \in Nat, current \in BOOLEAN :
                /\ Clean(context, s, current)
                /\ ~context'.abort => ~context.abort /\ r.status \in Fine
                /\ r.scene <= s
                => Clean(context', s, TRUE)
      <3>1. Faithful(context, outcome) /\ context' \in Context /\ r \in Record
            /\ context'.records = Append(context.records, r) /\ Holds(context', outcome, r)
        BY <1>1, <1>2, <1>3
      <3> QED BY ONLY <2>2, <2>3, <3>1, RecordedEffect
    <2> QED BY <2>1, <2>4
  <1>5. ContextInv'
    BY <1>1, <1>2, <1>4 DEF TreeInv, ContextInv
  <1>6. /\ leaf' \in [execution : ExecutionId \cup {Nothing}, consumed : BOOLEAN]
        /\ leaf'.execution = leaf.execution /\ leaf'.consumed
    BY DEF TreeInv, TreeTypeOK
  <1>7. leaf.execution <= context'.actions /\ Has(context', leaf.execution)
    BY <1>1, <1>2, <1>4
  <1>8. ASSUME NEW current \in BOOLEAN, Clean(context, scene.id, current), Succeeds(status)
        PROVE  Clean(context', scene.id, TRUE)
    <2>1. ~context'.abort => ~context.abort /\ status \in Fine
      BY <1>1, <1>2, <1>8
    <2>2. proposal.scene <= scene.id
      BY <1>1
    <2> QED BY <1>1, <1>4, <1>8, <2>1, <2>2
  <1> QED BY <1>2, <1>5, <1>6, <1>7, <1>8

\* The same, or nothing, while the tree does not run.
LEMMA SettleEffect ==
    ASSUME TreeInv, Settle, UNCHANGED <<outcome, scene, proposal>>
    PROVE  /\ context' \in Context /\ ContextInv'
           /\ leaf' \in [execution : ExecutionId \cup {Nothing}, consumed : BOOLEAN]
           /\ leaf'.execution = leaf.execution
           /\ leaf.execution # Nothing =>
                 /\ leaf.execution <= context'.actions
                 /\ leaf'.consumed <=> Has(context', leaf.execution)
           /\ Pending' => Pending /\ UNCHANGED <<context, leaf>>
           /\ Pending' => outcome[leaf.execution] = Nothing
           /\ ~Pending => UNCHANGED <<context, leaf>>
  <1>1. leaf.execution = Nothing \/ leaf.execution \in ExecutionId
    BY Types DEF TreeInv
  <1>2. CASE Settles
    <2>1. Pending /\ outcome[leaf.execution] # Nothing
      BY <1>2 DEF Settles, SettlesAgain, Pending
    <2> QED BY <1>2, <2>1, SettledEffect DEF Settle, Pending
  <1>3. CASE ~Settles
    <2>1. UNCHANGED <<context, leaf>>
      BY <1>3 DEF Settle
    <2>2. context' \in Context /\ ContextInv'
      BY <2>1 DEF TreeInv, TreeTypeOK, ContextInv
    <2> QED BY <1>3, <2>1, <2>2 DEF TreeInv, TreeTypeOK, LeafInv, Settles, SettlesAgain, Pending
  <1> QED BY <1>2, <1>3

-----------------------------------------------------------------------------
(* The steps.                                                              *)

\* No report is out while the tree may still run, nor while it is stopped.
LEMMA NoReport == ASSUME TreeInv, phase \notin {"over", "error"} PROVE report = Nothing
  BY DEF TreeInv, ReportInv

\* Older records.
LEMMA Aged ==
    ASSUME NEW c \in Context, NEW s \in Nat, NEW t \in Nat, NEW current \in BOOLEAN,
           Clean(c, s, current)
    PROVE  Clean(c, s, TRUE) /\ (s < t => Clean(c, t, FALSE))
  <1>1. \A n \in 1..Len(c.records) : c.records[n].scene \in Nat
    <2>1. c.records \in Seq(Record)
      BY DEF Context
    <2>2. \A n \in 1..Len(c.records) : c.records[n] \in Record
      BY <2>1
    <2> QED BY <2>2, PolicyAssumption DEF Record
  <1> QED BY <1>1 DEF Clean

\* The tree stops: it failed, or the Runtime halts it.
LEMMA StopsStep ==
    ASSUME TreeInv, phase \in {"working", "post"}, phase' = "cancelling", waits' = Nothing,
           UNCHANGED <<scene, seen, outcome, report>>, context' \in Context, ContextInv',
           leaf' \in [execution : ExecutionId \cup {Nothing}, consumed : BOOLEAN],
           leaf'.execution # Nothing => /\ leaf'.execution <= context'.actions
                                        /\ leaf'.consumed <=> Has(context', leaf'.execution),
           Pending' => Pending /\ UNCHANGED <<proposal, context>>
    PROVE  TreeInv'
  <1>1. TreeTypeOK'
    BY DEF TreeInv, TreeTypeOK
  <1>2. report' = Nothing
    BY NoReport
  <1>3. LeafInv'
    BY NothingAssumption DEF TreeInv, LeafInv, Leaf
  <1>4. WorkInv' /\ ReportInv'
    BY <1>2 DEF WorkInv, ReportInv
  <1> QED BY <1>1, <1>3, <1>4 DEF TreeInv

LEMMA HaltStep == ASSUME TreeInv, Halt PROVE TreeInv'
  <1>1. context' \in Context /\ ContextInv'
    BY DEF Halt, TreeInv, TreeTypeOK, ContextInv
  <1>2. /\ leaf' \in [execution : ExecutionId \cup {Nothing}, consumed : BOOLEAN]
        /\ leaf'.execution # Nothing => /\ leaf'.execution <= context'.actions
                                        /\ leaf'.consumed <=> Has(context', leaf'.execution)
        /\ Pending' => Pending
    BY DEF Halt, TreeInv, TreeTypeOK, LeafInv, Pending
  <1> QED BY <1>1, <1>2, StopsStep DEF Halt

\* An answer of the executor is of an execution that no record has.
LEMMA AnsweredEffect ==
    ASSUME NEW c, NEW o \in [ExecutionId -> Outcome \cup {Nothing}], Faithful(c, o),
           NEW e \in ExecutionId, o[e] = Nothing, NEW status \in Outcome
    PROVE  Faithful(c, [o EXCEPT ![e] = status])
  <1> DEFINE q == [o EXCEPT ![e] = status]
  <1>1. ASSUME NEW n \in 1..Len(c.records)
        PROVE  Holds(c, q, c.records[n])
    <2>1. c.records[n] \in Record /\ Holds(c, o, c.records[n])
      BY DEF Faithful, Context
    <2>2. c.records[n].execution # Nothing => c.records[n].execution # e
      BY <2>1, NothingAssumption DEF Holds, Record
    <2>3. c.records[n].execution # Nothing => q[c.records[n].execution] = o[c.records[n].execution]
      BY <2>1, <2>2 DEF Record
    <2> QED BY <2>1, <2>3 DEF Holds
  <1> QED BY <1>1 DEF Faithful

LEMMA AnswerStep == ASSUME TreeInv, Answer PROVE TreeInv'
  <1>1. PICK status \in Outcome : outcome' = [outcome EXCEPT ![leaf.execution] = status]
    BY DEF Answer
  <1>2. /\ leaf.execution \in ExecutionId /\ outcome[leaf.execution] = Nothing
        /\ outcome \in [ExecutionId -> Outcome \cup {Nothing}]
        /\ UNCHANGED <<phase, waits, scene, seen, proposal, leaf, context, report>>
    BY Types DEF TreeInv, Answer
  <1>3. TreeTypeOK'
    BY <1>1, <1>2 DEF TreeInv, TreeTypeOK
  <1>4. ContextInv'
    BY <1>1, <1>2, AnsweredEffect DEF TreeInv, ContextInv
  <1>5. LeafInv' /\ WorkInv'
    BY <1>2 DEF TreeInv, LeafInv, WorkInv, Pending, AllSkipped
  <1>6. ReportInv'
    BY <1>1, <1>2, AnsweredEffect DEF TreeInv, ReportInv, Pending
  <1> QED BY <1>3, <1>4, <1>5, <1>6 DEF TreeInv

\* A new observation, before the next action.
LEMMA ObservedStep == ASSUME TreeInv, Observed PROVE TreeInv'
  <1> USE DEF TreeInv
  <1>0. scene.id \in Nat /\ MaxScene \in Nat /\ seen = 1..scene.id /\ context \in Context
    BY Types
  <1>1. PICK id \in 1..MaxScene, objects \in [Object -> Kind] :
           /\ id <= Cardinality(seen) + 1
           /\ IF Fresh(id)
              THEN /\ scene' = [id |-> id, objects |-> objects]
                   /\ seen' = seen \cup {id}
                   /\ IF waits = "ObserveBefore" THEN Goes("PlanNext") ELSE Verified(objects)
              ELSE Fails /\ UNCHANGED <<scene, seen>>
    BY DEF Observed
  <1>2. /\ phase = "working" /\ waits \in {"ObserveBefore", "Reobserve"} /\ ~Pending
        /\ UNCHANGED <<proposal, leaf, outcome, context, report>>
    BY DEF Observed, LeafInv
  <1>3. /\ context' \in Context /\ ContextInv' /\ ~Pending'
        /\ leaf' \in [execution : ExecutionId \cup {Nothing}, consumed : BOOLEAN]
        /\ leaf'.execution # Nothing => /\ leaf'.execution <= context'.actions
                                        /\ leaf'.consumed <=> Has(context', leaf'.execution)
    BY <1>2 DEF TreeTypeOK, ContextInv, LeafInv, Pending
  <1>4. CASE ~Fresh(id)
    BY <1>1, <1>2, <1>3, <1>4, StopsStep DEF Fails
  <1>5. CASE Fresh(id)
    <2>1. id = scene.id + 1 /\ id \in Nat
      <3>1. Cardinality(1..scene.id) = scene.id
        BY <1>0, FS_Interval
      <3> QED BY <1>0, <1>1, <1>5, <3>1 DEF Fresh
    <2>2. scene' = [id |-> id, objects |-> objects] /\ seen' = 1..id
      <3>1. \A k \in Nat : (1..k) \cup {k + 1} = 1..(k + 1)
        OBVIOUS
      <3>2. scene' = [id |-> id, objects |-> objects] /\ seen' = seen \cup {id}
        BY <1>1, <1>5
      <3> QED BY <1>0, <2>1, <3>1, <3>2
    <2>3. Clean(context, id, FALSE)
      <3>1. PICK current \in BOOLEAN : Clean(context, scene.id, current)
        BY <1>2 DEF WorkInv
      <3>2. context \in Context /\ scene.id \in Nat /\ id \in Nat /\ scene.id < id
        BY <1>0, <2>1
      <3> QED BY ONLY <3>1, <3>2, Aged
    <2>4. CASE phase' = "cancelling" /\ waits' = Nothing
      <3>1. TreeTypeOK'
        BY <1>2, <1>3, <2>2, <2>4 DEF TreeTypeOK
      <3>2. report' = Nothing
        BY <1>2, NoReport
      <3>3. LeafInv' /\ WorkInv' /\ ReportInv'
        BY <1>3, <2>4, <3>2, NothingAssumption DEF LeafInv, WorkInv, ReportInv, Leaf
      <3> QED BY <1>3, <3>1, <3>3
    <2>5. CASE phase' = "working" /\ waits' \in {"PlanNext", "cycle"} /\ ~context.abort
      <3>1. TreeTypeOK'
        BY <1>2, <1>3, <2>2, <2>5, NothingAssumption DEF TreeTypeOK, Leaf
      <3>2. report' = Nothing
        BY <1>2, NoReport
      <3>3. WorkInv'
        BY <1>0, <1>2, <2>1, <2>2, <2>3, <2>5 DEF WorkInv, Clean
      <3>4. LeafInv' /\ ReportInv'
        BY <1>3, <2>5, <3>2 DEF LeafInv, ReportInv
      <3> QED BY <1>3, <3>1, <3>3, <3>4
    <2>6. CASE phase' = "post" /\ waits' = Nothing /\ ~context.abort /\ AllSkipped(objects)
      <3>1. TreeTypeOK'
        BY <1>2, <1>3, <2>2, <2>6 DEF TreeTypeOK
      <3>2. report' = Nothing
        BY <1>2, NoReport
      <3>3. WorkInv'
        BY <1>0, <1>2, <2>1, <2>2, <2>3, <2>6 DEF WorkInv, AllSkipped, Clean
      <3>4. LeafInv' /\ ReportInv'
        BY <1>3, <2>6, <3>2, NothingAssumption DEF LeafInv, ReportInv, Leaf
      <3> QED BY <1>3, <3>1, <3>3, <3>4
    <2> QED BY <1>1, <1>2, <1>5, <2>4, <2>5, <2>6 DEF Goes, Verified, Fails, WorkInv
  <1> QED BY <1>4, <1>5

LEMMA NextCycleStep == ASSUME TreeInv, NextCycle PROVE TreeInv'
  <1>1. /\ phase = "working" /\ waits = "cycle" /\ phase' = "working" /\ waits' = "PlanNext"
        /\ UNCHANGED <<scene, seen, proposal, leaf, outcome, context, report>>
    BY DEF NextCycle, Goes
  <1>2. TreeTypeOK' /\ ContextInv'
    BY <1>1, NothingAssumption DEF TreeInv, TreeTypeOK, ContextInv, Leaf
  <1>3. LeafInv' /\ ReportInv'
    BY <1>1, NoReport DEF TreeInv, LeafInv, ReportInv, Pending
  <1>4. WorkInv'
    BY <1>1, Types DEF TreeInv, WorkInv, Clean
  <1> QED BY <1>2, <1>3, <1>4 DEF TreeInv

\* The tree goes on, with an execution or to the next observation.
LEMMA GoesStep ==
    ASSUME TreeInv, phase = "working", waits # "ObserveBefore",
           phase' = "working", waits' \in {"ExecuteOne", "Reobserve"},
           UNCHANGED <<scene, seen, outcome, report>>, context' \in Context, ContextInv',
           leaf' \in [execution : ExecutionId \cup {Nothing}, consumed : BOOLEAN],
           leaf'.execution # Nothing => /\ leaf'.execution <= context'.actions
                                        /\ leaf'.consumed <=> Has(context', leaf'.execution),
           waits' = "ExecuteOne" <=> Pending',
           Pending' => /\ proposal' \in Proposal /\ proposal'.scene = scene.id
                       /\ ~context'.abort /\ Clean(context', scene.id, FALSE),
           Clean(context', scene.id, TRUE)
    PROVE  TreeInv'
  <1>1. TreeTypeOK'
    BY NothingAssumption DEF TreeInv, TreeTypeOK, Leaf
  <1>2. report' = Nothing
    BY NoReport
  <1>3. LeafInv' /\ ReportInv'
    BY <1>2 DEF LeafInv, ReportInv
  <1>4. WorkInv'
    <2>1. Clean(context', scene'.id, waits' = "Reobserve")
      BY DEF Clean
    <2>2. scene'.id >= 1
      BY DEF TreeInv, WorkInv
    <2> QED BY <2>1, <2>2 DEF WorkInv
  <1> QED BY <1>1, <1>3, <1>4 DEF TreeInv

\* Actions are counted; nothing else of the context that an invariant reads has changed.
LEMMA CountedEffect ==
    ASSUME TreeInv, context.actions < MaxActions, outcome' = outcome,
           context' = [context EXCEPT !.actions = @ + 1]
    PROVE  /\ context' \in Context /\ ContextInv'
           /\ context'.records = context.records /\ context'.abort = context.abort
           /\ context'.actions = context.actions + 1 /\ context'.actions \in ExecutionId
           /\ ~Has(context', context'.actions)
  <1>1. context \in Context /\ context.actions \in Nat /\ MaxActions \in Nat
    BY Types DEF TreeInv
  <1>2. /\ context' \in Context /\ context'.actions = context.actions + 1
        /\ context'.records = context.records /\ context'.abort = context.abort
        /\ context'.review = context.review /\ context'.failures = context.failures
    <2>1. context.actions + 1 \in 0..MaxActions
      BY <1>1
    <2> QED BY <1>1, <2>1 DEF Context
  <1>3. context'.actions \in ExecutionId
    BY <1>1, <1>2 DEF ExecutionId
  <1>4. Faithful(context', outcome')
    BY <1>2 DEF TreeInv, ContextInv, Faithful, Holds
  <1>5. \A e : Has(context', e) <=> Has(context, e)
    BY <1>2 DEF Has
  <1>6. \A e \in ExecutionId : Has(context', e) => e <= context'.actions /\ e # context'.actions
    BY <1>1, <1>2, <1>5 DEF TreeInv, ContextInv, ExecutionId
  <1>7. ContextInv'
    BY <1>2, <1>4, <1>6 DEF TreeInv, ContextInv
  <1> QED BY <1>2, <1>3, <1>6, <1>7

\* The planner's proposal, its validation, and what it begins.
LEMMA PlannedStep == ASSUME TreeInv, Planned PROVE TreeInv'
  <1>1. PICK p \in [action : Action, object : Object, scene : {scene.id, scene.id - 1}] :
           /\ proposal' = p
           /\ \/ ~Valid(p) /\ Fails /\ UNCHANGED <<leaf, context>>
              \/ /\ Valid(p) /\ p.action = "done"
                 /\ Goes("Reobserve") /\ leaf' = NoLeaf /\ UNCHANGED context
              \/ /\ Valid(p) /\ p.action \in {"skip", "human_review"}
                 /\ Goes("Reobserve") /\ leaf' = NoLeaf /\ context' = Skipped(p)
              \/ /\ Valid(p) /\ p.action = "collect_trash"
                 /\ context' = [context EXCEPT !.actions = @ + 1]
                 /\ \/ /\ Goes("ExecuteOne")
                       /\ leaf' = [execution |-> context.actions + 1, consumed |-> FALSE]
                    \/ Fails /\ leaf' = NoLeaf
    BY DEF Planned
  <1>2. /\ phase = "working" /\ waits = "PlanNext" /\ ~Pending /\ ~context.abort
        /\ UNCHANGED <<scene, seen, outcome, report>>
        /\ scene.id \in 1..MaxScene /\ context \in Context /\ context.actions \in Nat
        /\ Clean(context, scene.id, FALSE) /\ Clean(context, scene.id, TRUE)
    <2>1. phase = "working" /\ waits = "PlanNext" /\ UNCHANGED <<scene, seen, outcome, report>>
      BY DEF Planned
    <2>2. ~Pending /\ ~context.abort
      BY <2>1 DEF TreeInv, LeafInv, WorkInv
    <2>3. /\ scene.id \in 1..MaxScene
          /\ context \in Context /\ context.actions \in Nat
      BY <2>1, Types DEF TreeInv, WorkInv
    <2>4. Clean(context, scene.id, FALSE) /\ Clean(context, scene.id, TRUE)
      BY <2>1 DEF TreeInv, WorkInv, Clean
    <2> QED BY <2>1, <2>2, <2>3, <2>4
  <1>3. /\ NoLeaf \in [execution : ExecutionId \cup {Nothing}, consumed : BOOLEAN]
        /\ NoLeaf.execution = Nothing
    BY DEF NoLeaf
  <1>4. Valid(p) => p \in Proposal /\ p.scene = scene.id
    BY <1>2 DEF Valid, Proposal
  <1>5. UNCHANGED context => context' \in Context /\ ContextInv'
    BY <1>2 DEF TreeInv, ContextInv
  <1>6. CASE ~Valid(p)
    <2>1. /\ leaf' \in [execution : ExecutionId \cup {Nothing}, consumed : BOOLEAN] /\ ~Pending'
          /\ leaf'.execution # Nothing => /\ leaf'.execution <= context'.actions
                                          /\ leaf'.consumed <=> Has(context', leaf'.execution)
      BY <1>1, <1>2, <1>6 DEF TreeInv, TreeTypeOK, LeafInv, Pending
    <2> QED BY <1>1, <1>2, <1>5, <1>6, <2>1, StopsStep DEF Fails
  <1>7. CASE Valid(p) /\ p.action = "done"
    <2>1. /\ phase' = "working" /\ waits' = "Reobserve" /\ leaf' = NoLeaf /\ context' = context
          /\ ~Pending'
      BY <1>1, <1>2, <1>3, <1>7 DEF Goes, Pending
    <2> QED BY <1>2, <1>3, <1>5, <2>1, GoesStep
  <1>8. CASE Valid(p) /\ p.action \in {"skip", "human_review"}
    <2>1. /\ phase' = "working" /\ waits' = "Reobserve" /\ leaf' = NoLeaf
          /\ context' = Skipped(p) /\ ~Pending' /\ context.actions < MaxActions
      BY <1>1, <1>2, <1>3, <1>8 DEF Goes, Pending, Valid
    <2>2. PICK r \in Record :
             /\ r = [object |-> p.object, scene |-> p.scene,
                     execution |-> Nothing, status |-> "skipped"]
             /\ context' \in Context /\ context'.records = Append(context.records, r)
             /\ context'.actions = context.actions + 1 /\ context'.failures = context.failures
             /\ context'.abort = context.abort /\ (context.review => context'.review)
      BY <1>2, <1>4, <1>8, <2>1, SkippedEffect
    <2>3. /\ r.execution = Nothing /\ r.status = "skipped" /\ r.status \in Fine
          /\ r.scene <= scene.id
      BY <1>2, <1>4, <1>8, <2>2 DEF Fine
    <2>4. /\ Faithful(context', outcome)
          /\ \A e \in ExecutionId : Has(context', e) <=> Has(context, e) \/ e = r.execution
          /\ \A s \in Nat, current \in BOOLEAN :
                /\ Clean(context, s, current)
                /\ ~context'.abort => ~context.abort /\ r.status \in Fine
                /\ r.scene <= s
                => Clean(context', s, TRUE)
      <3>1. /\ Faithful(context, outcome) /\ Holds(context', outcome, r)
            /\ r.execution # Nothing => ~Has(context, r.execution)
        BY <2>3 DEF TreeInv, ContextInv, Holds
      <3>2. /\ context' \in Context /\ context'.records = Append(context.records, r)
            /\ (context.review => context'.review) /\ r \in Record
        BY <2>2
      <3> QED BY ONLY <3>1, <3>2, RecordedEffect
    <2>5. ContextInv'
      <3>1. \A e \in ExecutionId : Has(context', e) => e <= context'.actions
        BY <1>2, <2>2, <2>3, <2>4, NothingAssumption DEF TreeInv, ContextInv, ExecutionId
      <3> QED BY <1>2, <2>2, <2>4, <3>1 DEF TreeInv, ContextInv
    <2>6. Clean(context', scene.id, TRUE)
      <3>1. scene.id \in Nat /\ (~context'.abort => ~context.abort /\ r.status \in Fine)
        BY <1>2, <2>3, PolicyAssumption
      <3> QED BY <1>2, <2>3, <2>4, <3>1
    <2> QED BY <1>2, <1>3, <2>1, <2>2, <2>5, <2>6, GoesStep
  <1>9. CASE Valid(p) /\ p.action = "collect_trash"
    <2>1. /\ context.actions < MaxActions /\ outcome' = outcome
          /\ context' = [context EXCEPT !.actions = @ + 1]
      BY <1>1, <1>2, <1>9 DEF Valid
    <2>2. /\ context' \in Context /\ ContextInv'
          /\ context'.records = context.records /\ context'.abort = context.abort
          /\ context'.actions = context.actions + 1 /\ context'.actions \in ExecutionId
          /\ ~Has(context', context'.actions)
      BY <2>1, CountedEffect
    <2>3. Clean(context', scene.id, FALSE) /\ Clean(context', scene.id, TRUE)
      BY <1>2, <2>2 DEF Clean
    <2>4. CASE Fails /\ leaf' = NoLeaf
      <3>1. ~Pending'
        BY <1>3, <2>4 DEF Pending
      <3> QED BY <1>2, <1>3, <2>2, <2>4, <3>1, StopsStep DEF Fails
    <2>5. CASE /\ Goes("ExecuteOne")
               /\ leaf' = [execution |-> context.actions + 1, consumed |-> FALSE]
      <3>1. /\ phase' = "working" /\ waits' = "ExecuteOne" /\ Pending'
            /\ leaf' \in [execution : ExecutionId \cup {Nothing}, consumed : BOOLEAN]
            /\ leaf'.execution = context'.actions /\ ~leaf'.consumed
        BY <1>2, <2>2, <2>5, NothingAssumption DEF Goes, Pending
      <3>2. proposal' \in Proposal /\ proposal'.scene = scene.id
        BY <1>1, <1>4, <1>9
      <3>3. leaf'.execution <= context'.actions
        BY <1>2, <2>2, <3>1
      <3> QED BY <1>2, <2>2, <2>3, <3>1, <3>2, <3>3, GoesStep
    <2> QED BY <1>1, <1>9, <2>4, <2>5
  <1> QED BY <1>1, <1>6, <1>7, <1>8, <1>9 DEF Action

\* The executor's answer reaches the leaf that waits for it.
LEMMA ExecuteOneStep == ASSUME TreeInv, ExecuteOne PROVE TreeInv'
  <1> DEFINE status == outcome[leaf.execution]
  <1>1. /\ phase = "working" /\ waits = "ExecuteOne" /\ Pending /\ status # Nothing
        /\ UNCHANGED <<scene, seen, proposal, outcome, report>>
        /\ context' = Executed(status) /\ leaf' = [leaf EXCEPT !.consumed = TRUE]
        /\ IF Succeeds(status) THEN Goes("Reobserve") ELSE Fails
    BY DEF ExecuteOne, TreeInv, LeafInv
  <1>2. /\ context' \in Context /\ ContextInv'
        /\ leaf' \in [execution : ExecutionId \cup {Nothing}, consumed : BOOLEAN]
        /\ leaf'.execution = leaf.execution /\ leaf'.consumed
        /\ leaf.execution <= context'.actions /\ Has(context', leaf.execution)
        /\ \A current \in BOOLEAN : Clean(context, scene.id, current) /\ Succeeds(status)
              => Clean(context', scene.id, TRUE)
    BY <1>1, SettledEffect
  <1>3. ~Pending'
    BY <1>2 DEF Pending
  <1>4. CASE Succeeds(status)
    <2>1. Clean(context, scene.id, FALSE)
      BY <1>1 DEF TreeInv, WorkInv, Clean
    <2>2. Clean(context', scene.id, TRUE)
      BY <1>2, <1>4, <2>1
    <2>3. phase' = "working" /\ waits' = "Reobserve"
      BY <1>1, <1>4 DEF Goes
    <2> QED BY <1>1, <1>2, <1>3, <2>2, <2>3, GoesStep
  <1>5. CASE ~Succeeds(status)
    <2>1. phase' = "cancelling" /\ waits' = Nothing
      BY <1>1, <1>5 DEF Fails
    <2> QED BY <1>1, <1>2, <1>3, <2>1, StopsStep
  <1> QED BY <1>4, <1>5

\* A tick that does not run the tree: late outcomes are settled, and a report goes out.
LEMMA EndsStep ==
    ASSUME TreeInv, phase \notin {"working", "post"},
           UNCHANGED <<waits, scene, seen, proposal, outcome>>,
           phase' \in {"cancelling", "over", "error"}, phase' = "over" => ~Pending',
           context' \in Context, ContextInv',
           leaf' \in [execution : ExecutionId \cup {Nothing}, consumed : BOOLEAN],
           leaf'.execution # Nothing => /\ leaf'.execution <= context'.actions
                                        /\ leaf'.consumed <=> Has(context', leaf'.execution),
           Pending' => Pending /\ UNCHANGED context,
           ReportInv'
    PROVE  TreeInv'
  <1>1. waits' = Nothing
    BY Types DEF TreeInv
  <1>2. TreeTypeOK'
    BY <1>1 DEF TreeInv, TreeTypeOK
  <1>3. LeafInv'
    BY <1>1, NothingAssumption DEF TreeInv, LeafInv, Leaf
  <1>4. WorkInv'
    BY DEF WorkInv
  <1> QED BY <1>2, <1>3, <1>4 DEF TreeInv

\* The stop is confirmed, takes too long, or is waited for.
LEMMA CancellingStep == ASSUME TreeInv, TickCancelling PROVE TreeInv'
  <1>1. /\ phase = "cancelling" /\ Settle /\ UNCHANGED <<waits, scene, seen, proposal, outcome>>
        /\ phase' \in {"cancelling", "over", "error"} /\ report = Nothing
    BY NoReport DEF TickCancelling
  <1>2. /\ context' \in Context /\ ContextInv'
        /\ leaf' \in [execution : ExecutionId \cup {Nothing}, consumed : BOOLEAN]
        /\ leaf'.execution = leaf.execution
        /\ leaf.execution # Nothing =>
              /\ leaf.execution <= context'.actions
              /\ leaf'.consumed <=> Has(context', leaf.execution)
        /\ Pending' => Pending /\ UNCHANGED <<context, leaf>>
        /\ Pending' => outcome[leaf.execution] = Nothing
    BY <1>1, SettleEffect
  <1>3. PortStopped => ~Pending'
    BY <1>2 DEF PortStopped, Pending
  <1>4. phase' = "over" => ~Pending'
    BY <1>1, <1>3 DEF TickCancelling
  <1>5. ReportInv'
    <2>1. CASE report' = report
      BY <1>1, <2>1 DEF ReportInv
    <2>2. CASE \E late \in BOOLEAN :
                  /\ report' = [context |-> context', timedOut |-> late]
                  /\ phase' \in {"over", "error"} /\ (~late => ~Pending')
      BY <1>2, <2>2 DEF ReportInv, ContextInv
    <2> QED BY <1>3, <2>1, <2>2 DEF TickCancelling
  <1> QED BY <1>1, <1>2, <1>4, <1>5, EndsStep

\* A mission that ends at home reports what the tree has.
LEMMA FinishHomeStep == ASSUME TreeInv, FinishHome PROVE TreeInv'
  <1>1. /\ phase = "post" /\ phase' = "over" /\ waits' = waits
        /\ report' = [context |-> context, timedOut |-> FALSE]
        /\ UNCHANGED <<scene, seen, proposal, leaf, outcome, context>>
    BY DEF FinishHome
  <1>2. ~Pending /\ waits = Nothing
    BY <1>1, Types DEF TreeInv, LeafInv
  <1>3. TreeTypeOK' /\ ContextInv'
    BY <1>1, <1>2 DEF TreeInv, TreeTypeOK, ContextInv
  <1>4. LeafInv'
    BY <1>1, <1>2, NothingAssumption DEF TreeInv, LeafInv, Pending, Leaf
  <1>5. WorkInv' /\ ReportInv'
    BY <1>1, <1>2 DEF TreeInv, ContextInv, WorkInv, ReportInv, Pending
  <1> QED BY <1>3, <1>4, <1>5 DEF TreeInv

\* What answers after the report is settled; only a report of a stop that took too long
\* leaves something to settle.
LEMMA ErrorStep == ASSUME TreeInv, TickError PROVE TreeInv'
  <1>1. /\ phase = "error" /\ Settles /\ Settle /\ phase' = phase
        /\ UNCHANGED <<waits, scene, seen, proposal, outcome, report>>
    BY DEF TickError
  <1>2. Pending
    BY <1>1 DEF Settles, SettlesAgain, Pending
  <1>3. /\ context' \in Context /\ ContextInv'
        /\ leaf' \in [execution : ExecutionId \cup {Nothing}, consumed : BOOLEAN]
        /\ leaf'.execution = leaf.execution
        /\ leaf.execution # Nothing =>
              /\ leaf.execution <= context'.actions
              /\ leaf'.consumed <=> Has(context', leaf.execution)
        /\ Pending' => Pending /\ UNCHANGED <<context, leaf>>
    BY <1>1, SettleEffect
  <1>4. ReportInv'
    BY <1>1, <1>2 DEF TreeInv, ReportInv
  <1> QED BY <1>1, <1>3, <1>4, EndsStep

LEMMA TreeInvStep == TreeInv /\ [TreeNext]_treeVars => TreeInv'
  <1> SUFFICES ASSUME TreeInv, [TreeNext]_treeVars PROVE TreeInv'
    OBVIOUS
  <1>1. CASE UNCHANGED treeVars
    <2>1. TreeTypeOK' /\ ContextInv'
      BY <1>1 DEF TreeInv, treeVars, TreeTypeOK, ContextInv
    <2>2. LeafInv' /\ WorkInv' /\ ReportInv'
      BY <1>1 DEF TreeInv, treeVars, LeafInv, WorkInv, ReportInv, Pending, AllSkipped
    <2> QED BY <2>1, <2>2 DEF TreeInv
  <1>2. CASE Observed \/ NextCycle \/ Planned \/ ExecuteOne \/ Answer
    BY <1>2, ObservedStep, NextCycleStep, PlannedStep, ExecuteOneStep, AnswerStep
  <1>3. CASE Halt \/ TickCancelling \/ FinishHome \/ TickError
    BY <1>3, HaltStep, CancellingStep, FinishHomeStep, ErrorStep
  <1> QED BY <1>1, <1>2, <1>3 DEF TreeNext

-----------------------------------------------------------------------------
(* The invariant holds of every behaviour of the tree, halted at any moment. *)
THEOREM TreeInvariance == TreeSpec => []TreeInv
  BY TreeInitInv, TreeInvStep, PTL DEF TreeSpec

(* The tree's fields keep their types and the policy's budgets: actions, and *)
(* failures of one object.                                                   *)
THEOREM TreeTypesHold == TreeSpec => []TreeTypeOK
  <1>1. TreeInv => TreeTypeOK
    BY DEF TreeInv
  <1> QED BY <1>1, TreeInvariance, PTL

\* Records of one execution: at most one.
LEMMA OneRecord ==
    ASSUME NEW c, NEW o, Faithful(c, o), NEW e \in ExecutionId
    PROVE  LET Of == {n \in 1..Len(c.records) : c.records[n].execution = e}
           IN  Cardinality(Of) <= 1 /\ (Has(c, e) => Of # {})
  <1> DEFINE Of == {n \in 1..Len(c.records) : c.records[n].execution = e}
  <1>1. \A m, n \in Of : m = n
    BY NothingAssumption DEF Faithful
  <1>2. Of = {} \/ \E n : Of = {n}
    BY <1>1
  <1>3. Cardinality(Of) <= 1
    <2> HIDE DEF Of
    <2>1. CASE Of = {}
      <3>1. Cardinality({}) = 0
        BY FS_EmptySet
      <3> QED BY <2>1, <3>1
    <2>2. ASSUME NEW n, Of = {n} PROVE Cardinality(Of) <= 1
      <3>1. Cardinality({n}) = 1
        BY FS_Singleton
      <3> QED BY <2>2, <3>1
    <2> QED BY <1>2, <2>1, <2>2
  <1> QED BY <1>3 DEF Has

(* A report has every execution once and as the executor answered it, and    *)
(* one of a confirmed stop has them all, also those that answered late.      *)
THEOREM ReportsAreComplete == TreeSpec => []ReportIsComplete
  <1>1. TreeInv => ReportIsComplete
    <2> SUFFICES ASSUME TreeInv, report # Nothing PROVE ReportIsComplete
      BY DEF ReportIsComplete
    <2> DEFINE c == report.context
               Of(e) == {n \in 1..Len(c.records) : c.records[n].execution = e}
    <2>1. Faithful(c, outcome) /\ (~report.timedOut => c = context /\ ~Pending)
      BY DEF TreeInv, ReportInv
    <2>2. \A e \in Begun : e \in ExecutionId /\ (Has(context, e) \/ e = leaf.execution)
      BY Types DEF TreeInv, Begun, Has
    <2>3. \A e \in Begun : Cardinality(Of(e)) <= 1 /\ (~report.timedOut => Of(e) # {})
      <3>1. ASSUME NEW e \in Begun, ~report.timedOut PROVE Has(c, e)
        BY <2>1, <2>2, <3>1, NothingAssumption DEF TreeInv, LeafInv, Pending
      <3> QED BY <2>1, <2>2, <3>1, OneRecord
    <2>4. \A e \in ExecutionId : \A n \in Of(e) : c.records[n].status = outcome[e]
      BY <2>1, NothingAssumption DEF Faithful, Holds
    <2>5. (\E n \in 1..Len(c.records) : c.records[n].status \in {"unsafe", "moving"}) => c.review
      BY <2>1 DEF Faithful, Holds
    <2> QED BY <2>3, <2>4, <2>5 DEF ReportIsComplete
  <1> QED BY <1>1, TreeInvariance, PTL

(* The desk is called done on a newer observation than every action, which   *)
(* shows nothing but what was left on purpose.                               *)
THEOREM DoneIsClean == TreeSpec => []DoneMeansClean
  <1>1. TreeInv => DoneMeansClean
    <2> SUFFICES ASSUME TreeInv, phase = "post" PROVE DoneMeansClean
      BY DEF DoneMeansClean
    <2>1. /\ ~context.abort /\ AllSkipped(scene.objects) /\ waits # "Reobserve"
          /\ Clean(context, scene.id, waits = "Reobserve")
      BY Types DEF TreeInv, WorkInv, Leaf
    <2> QED BY <2>1 DEF DoneMeansClean, Clean, Fine
  <1> QED BY <1>1, TreeInvariance, PTL

(* An execution starts on an object that the newest observation shows, when  *)
(* every earlier one was answered, was safe and is older than it.            *)
THEOREM StartsAreFresh == TreeSpec => StartsOnFreshScene
  <1>1. ASSUME TreeInv, TreeNext, waits # "ExecuteOne", waits' = "ExecuteOne"
        PROVE  /\ \A id \in seen : id <= proposal'.scene
               /\ scene.objects[proposal'.object] = "collect"
               /\ \A n \in 1..Len(context.records) :
                     context.records[n].execution # Nothing =>
                         /\ context.records[n].scene < proposal'.scene
                         /\ context.records[n].status \in {"ok", "retryable"}
               /\ leaf.execution # Nothing => leaf.consumed
    <2>1. Planned
      <3>1. Leaf \cap {Nothing} = {} /\ "ExecuteOne" \in Leaf
        BY NothingAssumption DEF Leaf
      <3> QED BY <1>1, <3>1 DEF TreeNext, Observed, Verified, NextCycle, ExecuteOne, Answer,
                 Halt, TickCancelling, FinishHome, TickError, Goes, Fails
    <2>2. /\ phase = "working" /\ waits = "PlanNext" /\ Valid(proposal')
          /\ proposal'.action = "collect_trash"
      BY <1>1, <2>1, NothingAssumption DEF Planned, Goes, Fails, Leaf
    <2>3. /\ proposal'.scene = scene.id /\ scene.objects[proposal'.object] = "collect"
      BY <2>2 DEF Valid
    <2>4. ~Pending /\ ~context.abort /\ Clean(context, scene.id, FALSE)
      BY <1>1, <2>2 DEF TreeInv, LeafInv, WorkInv, Clean
    <2>5. \A id \in seen : id <= scene.id
      BY <1>1, Types DEF TreeInv
    <2>6. \A n \in 1..Len(context.records) : context.records[n].execution # Nothing =>
             context.records[n].status # "skipped"
      <3>1. Faithful(context, outcome)
        BY <1>1 DEF TreeInv, ContextInv
      <3>2. "skipped" \notin Outcome \cup {Nothing}
        BY NothingAssumption DEF Outcome
      <3>3. \A n \in 1..Len(context.records) : context.records[n] \in Record
        BY <3>1 DEF Faithful, Context
      <3>4. \A e \in ExecutionId : outcome[e] \in Outcome \cup {Nothing}
        BY <1>1, Types DEF TreeInv
      <3> QED BY <3>1, <3>2, <3>3, <3>4 DEF Faithful, Holds, Record
    <2> QED BY <2>3, <2>4, <2>5, <2>6 DEF Clean, Fine, Pending
  <1>2. TreeInv /\ [TreeNext]_treeVars =>
          [waits # "ExecuteOne" /\ waits' = "ExecuteOne" =>
              /\ \A id \in seen : id <= proposal'.scene
              /\ scene.objects[proposal'.object] = "collect"
              /\ \A n \in 1..Len(context.records) :
                    context.records[n].execution # Nothing =>
                        /\ context.records[n].scene < proposal'.scene
                        /\ context.records[n].status \in {"ok", "retryable"}
              /\ leaf.execution # Nothing => leaf.consumed]_treeVars
    BY <1>1
  <1> QED BY <1>2, TreeInvariance, PTL DEF TreeSpec, StartsOnFreshScene
====
