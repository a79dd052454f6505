------------------------- MODULE ExecutionCoreProof -------------------------
(***************************************************************************)
(* Theorems about ExecutionCore: for every set of executions and every     *)
(* deadline, the types, that a cancellation stops the progress, and the    *)
(* refinement of ExecutionContract.                                        *)
(*                                                                         *)
(* A tick takes the core to another core and the arm along; what both must *)
(* fulfil is CoreInv and BodyInv, and each operator of the core has a      *)
(* lemma that says it leads there.  TickedStep adds the rest of the tick.  *)
(***************************************************************************)
EXTENDS ExecutionCore, TLAPS

USE TimeoutAssumption, NoneAssumption

Task == Normal \cup RecoveryStages

\* The stage that runs or is about to.
At(c) == IF c.next # None THEN c.next ELSE c.stage

\* What is known of the object when a stage of the task begins.
Fits(stage, object) ==
    /\ stage \in {"VALIDATING", "PREPARING_TARGET", "APPROACHING", "GRASPING"} =>
          object = "NOT_TOUCHED"
    /\ stage \in {"LIFTING", "TRANSPORTING", "PLACING"} => object = "HELD"
    /\ stage \in {"RETURNING_ARM", "VERIFYING_PLACEMENT"} => object \in {"UNKNOWN", "LEFT_GRIPPER"}
    /\ stage = "RELEASING_IN_PLACE" => object \in {"HELD", "UNKNOWN"}

\* An execution without a result has a stage, and its recovery was asked for.
Underway(c) ==
    /\ c.running \/ c.next # None
    /\ c.next # None => c.next \in Task
    /\ c.running => c.stage \in Task \cup {"STOPPING"}
    /\ c.running /\ c.stage = "STOPPING" => c.pending # None
    /\ c.pending = "FATAL" => c.running /\ c.stage = "STOPPING"
    /\ c.recovering => Canceled(c) /\ At(c) \in RecoveryStages \cup {"STOPPING"}
    /\ Fits(At(c), c.object)

CoreInv(c) ==
    /\ c \in CoreType
    /\ c.running => c.next = None
    /\ c.id = None \/ c.result # None => ~c.running /\ c.next = None /\ c.pending = None
    /\ c.id # None /\ c.result = None => Underway(c)

\* The object is not in the hand; found says that the hand was empty at the acceptance.
Loose(object, found) == object = "LEFT_GRIPPER" \/ (object = "NOT_TOUCHED" /\ found)

\* As far as c can tell; after a fault and inside an atomic stage it cannot.
Clear(c, found) ==
    /\ Loose(c.object, found)
    /\ c.result # "FATAL" /\ c.pending # "FATAL"
    /\ ~(c.running /\ c.stage \in AtomicStages)

\* What the core believes of the arm a and the hand h is so.
BodyInv(c, a, h, found) ==
    c.id # None =>
        /\ c.stopped => a \in {"home", "out"}
        /\ c.recovered => a = "home"
        /\ c.running /\ c.stage \in {"RETURNING_ARM", "RECOVERING_ARM"} => a # "handling"
        /\ Clear(c, found) => h = "empty" /\ a # "handling"

\* The database has less than the memory, and calls nothing over that is not.
Durable(k, d) ==
    /\ d = k \/ d \in {"unknown", "active"}
    /\ k = "unknown" => d = "unknown"
    /\ k = "interrupted" => d # "unknown"

JournalInv ==
    /\ \A e \in Execution : Durable(known[e], durable[e])
    /\ serving /\ core.id # None => known[core.id] = Kind(core)
    /\ serving => \A e \in Execution : known[e] = "active" => core.id = e

TypeInv ==
    /\ serving \in BOOLEAN /\ inhibited \in BOOLEAN /\ clean \in BOOLEAN
    /\ handle \in {None, "open", "canceling"} /\ transition \in BOOLEAN
    /\ known \in [Execution -> Contract!Known] /\ durable \in [Execution -> Contract!Known]
    /\ arm \in {"home", "out", "moving", "handling"} /\ hand \in {"empty", "full"}

\* Together: core and arm agree, and the journal has what the core is.
Inv ==
    /\ TypeInv /\ CoreInv(core) /\ BodyInv(core, arm, hand, clean) /\ JournalInv
    /\ transition => Canceled(core) /\ (handle = "open" \/ (handle = None /\ Active))
    /\ ~serving => core = NoCore /\ handle = None

-----------------------------------------------------------------------------
(* The operators on the core.                                              *)

\* What a journal record says of a core.
LEMMA Kinds ==
    ASSUME NEW c \in CoreType
    PROVE  /\ Kind(c) \in Contract!Known /\ Kind(c) # "unknown" /\ Kind(c) # "interrupted"
           /\ Kind(c) = "active" <=> c.result = None
           /\ c.result # None => Kind(c) \in Contract!Final
           /\ Kind(c) \in Contract!Stopped => c.stopped
           /\ Kind(c) = "safe" => SafeToDrive(c)
           /\ Inhibits(Kind(c)) <=> Kind(c) \in Contract!Inhibiting
  BY DEF CoreType, Kind, SafeToDrive, Inhibits, Contract!Known, Contract!Final, Contract!Stopped,
         Contract!Inhibiting

\* A clock that starts.
LEMMA Zero == 0 \in 0..Timeout
  BY TimeoutAssumption

\* An execution that ends keeps what is known of the arm and of the object.
LEMMA FinishedEffect ==
    ASSUME NEW c \in CoreType, c.id # None, NEW status \in Status
    PROVE  LET f == Finished(c, status)
           IN  /\ CoreInv(f) /\ f.id = c.id /\ f.mode = c.mode /\ f.result = status
               /\ f.stage = "FINALIZING" /\ f.stopped = c.stopped /\ f.recovered = c.recovered
               /\ f.object = c.object /\ ~f.running
  <1> DEFINE f == Finished(c, status)
  <1>1. /\ f \in CoreType /\ f.id = c.id /\ f.mode = c.mode /\ f.result = status
        /\ f.stage = "FINALIZING" /\ f.stopped = c.stopped /\ f.recovered = c.recovered
        /\ f.object = c.object /\ f.running = FALSE /\ f.next = None /\ f.pending = None
    <2>1. "FINALIZING" \in Stage
      BY DEF Stage
    <2>2. f = [c EXCEPT !.stage = "FINALIZING", !.result = status, !.running = FALSE,
                        !.next = None, !.pending = None, !.recovering = FALSE, !.age = 0]
      BY Zenon DEF Finished
    <2> HIDE DEF f
    <2> QED BY <2>1, <2>2, Zero DEF CoreType
  <1>2. f.result # None
    BY <1>1
  <1> HIDE DEF f
  <1>3. CoreInv(f)
    BY <1>1, <1>2 DEF CoreInv
  <1> QED BY <1>1, <1>3 DEF f

\* A stop was sent, or raised and ended the execution at once.
LEMMA StopEffect ==
    ASSUME NEW c \in CoreType, c.id # None, c.result = None, c.recovering => Canceled(c),
           NEW status \in Status, NEW s \in Stop(c, status)
    PROVE  /\ CoreInv(s) /\ s.id = c.id /\ s.mode = c.mode
           /\ s.stage \in {"STOPPING", "FINALIZING"} /\ s.object = c.object
           /\ ~s.stopped /\ s.recovered = c.recovered
           /\ s.result = "FATAL" \/ s.pending = status
  <1> DEFINE stopping == [c EXCEPT !.stage = "STOPPING", !.stopped = FALSE, !.pending = status,
                                   !.next = None, !.running = TRUE, !.age = 0]
  <1>1. /\ stopping \in CoreType /\ stopping.id = c.id /\ stopping.mode = c.mode
        /\ stopping.stage = "STOPPING" /\ ~stopping.stopped
        /\ stopping.recovered = c.recovered /\ stopping.object = c.object
        /\ stopping.pending = status /\ stopping.running /\ stopping.next = None
        /\ stopping.result = None /\ stopping.recovering = c.recovering
    <2>1. "STOPPING" \in Stage
      BY DEF Stage
    <2> QED BY <2>1, Zero DEF CoreType
  <1>2. s = stopping \/ s = Finished(stopping, "FATAL")
    BY DEF Stop
  <1> HIDE DEF stopping
  <1>3. CoreInv(stopping)
    BY <1>1 DEF CoreInv, Underway, Fits, At, Canceled, Task, Status
  <1>4. CASE s = stopping
    BY <1>1, <1>3, <1>4
  <1>5. CASE s = Finished(stopping, "FATAL")
    BY <1>1, <1>5, FinishedEffect DEF Status
  <1> QED BY <1>2, <1>4, <1>5

\* Only the object is put in doubt.
LEMMA UnsureEffect ==
    ASSUME NEW c \in CoreType
    PROVE  LET u == Unsure(c)
           IN  /\ u \in CoreType /\ u.id = c.id /\ u.mode = c.mode /\ u.result = c.result
               /\ u.stage = c.stage /\ u.recovering = c.recovering
               /\ u.recovered = c.recovered /\ u.placed = c.placed
               /\ u.object = IF c.running /\ c.stage \in AtomicStages THEN "UNKNOWN" ELSE c.object
  BY DEF Unsure, CoreType, Object

-----------------------------------------------------------------------------
(* Where a tick takes the core.                                            *)

\* After a cancellation nothing of the task begins, after an immediate one only the stop.
Onward(stage) ==
    Canceled(core) /\ stage # core.stage =>
        /\ stage \notin Normal
        /\ core.mode = "IMMEDIATE" => stage \in {"STOPPING", "FINALIZING"}

\* A tick may leave the core as c and the arm as a.
Lands(c, a) ==
    /\ CoreInv(c) /\ c.id = core.id /\ c.mode = core.mode
    /\ BodyInv(c, a, hand, clean) /\ Onward(c.stage)

\* The hand is empty and stays so.
Empty(a) == hand = "empty" /\ a # "handling"

\* A core on the way through a tick, with the arm as a.
Core(c) == /\ c \in CoreType /\ c.id = core.id /\ c.id # None /\ c.mode = core.mode
           /\ c.result = None
           /\ c.recovering => Canceled(c)

\* A tick may end the execution as soon as its beliefs about the arm are true.
LEMMA FinishLands ==
    ASSUME NEW c, Core(c), NEW a, NEW status \in Status,
           c.stopped => a \in {"home", "out"}, c.recovered => a = "home",
           status = "FATAL" \/ (Loose(c.object, clean) => Empty(a))
    PROVE  Lands(Finished(c, status), a)
  <1> DEFINE f == Finished(c, status)
  <1>1. /\ CoreInv(f) /\ f.id = c.id /\ f.mode = c.mode /\ f.result = status
        /\ f.stage = "FINALIZING" /\ f.stopped = c.stopped /\ f.recovered = c.recovered
        /\ f.object = c.object /\ ~f.running
    BY FinishedEffect DEF Core
  <1> HIDE DEF f
  <1>2. BodyInv(f, a, hand, clean)
    BY <1>1 DEF BodyInv, Clear, Empty
  <1>3. Onward(f.stage)
    BY <1>1 DEF Onward, Normal, NormalStages
  <1> QED BY <1>1, <1>2, <1>3 DEF Lands, Core, f

\* A tick may stop the arm whenever the object is known or the outcome fatal.
LEMMA StopLands ==
    ASSUME NEW c, Core(c), NEW a, NEW status \in Status, c.recovered => a = "home",
           status = "FATAL" \/ (Loose(c.object, clean) => Empty(a)),
           NEW s \in Stop(c, status)
    PROVE  Lands(s, a)
  <1>1. /\ CoreInv(s) /\ s.id = c.id /\ s.mode = c.mode
        /\ s.stage \in {"STOPPING", "FINALIZING"} /\ s.object = c.object
        /\ ~s.stopped /\ s.recovered = c.recovered
        /\ s.result = "FATAL" \/ s.pending = status
    BY StopEffect DEF Core
  <1>2. BodyInv(s, a, hand, clean)
    BY <1>1 DEF BodyInv, Clear, Empty
  <1>3. Onward(s.stage)
    BY <1>1 DEF Onward, Normal, NormalStages
  <1> QED BY <1>1, <1>2, <1>3 DEF Lands, Core

\* A tick may let a stage fail.
LEMMA FailLands ==
    ASSUME NEW c, Core(c), NEW a, NEW error,
           c.stopped => a \in {"home", "out"}, c.recovered => a = "home",
           error = "FAULT" \/ (Loose(c.object, clean) => Empty(a)),
           NEW s \in Fail(c, error)
    PROVE  Lands(s, a)
  <1>1. {"FATAL", "CANCELED", "BLOCKED", "FAILED"} \subseteq Status
    BY DEF Status
  <1>2. CASE error = "FAULT"
    BY <1>1, <1>2, StopLands DEF Fail
  <1>3. CASE error = "PLAIN" /\ c.stage \in Unmoved /\ Canceled(c)
    BY <1>1, <1>3, StopLands DEF Fail
  <1>4. CASE error = "PLAIN" /\ c.stage \in Unmoved /\ ~Canceled(c)
    BY <1>1, <1>4, FinishLands DEF Fail
  <1>5. CASE error # "FAULT" /\ ~(error = "PLAIN" /\ c.stage \in Unmoved)
    BY <1>1, <1>5, StopLands DEF Fail
  <1> QED BY <1>2, <1>3, <1>4, <1>5

\* What the evidence of a stage without error leaves.
Done(stage, object) ==
    /\ stage \in {"VALIDATING", "PREPARING_TARGET", "APPROACHING"} => object = "NOT_TOUCHED"
    /\ stage \in {"GRASPING", "LIFTING", "TRANSPORTING"} => object = "HELD"
    /\ stage \in {"PLACING", "RETURNING_ARM"} => object \in {"UNKNOWN", "LEFT_GRIPPER"}

\* What a stage leaves is what the next one begins with.
LEMMA FollowingEffect ==
    ASSUME NEW stage \in Normal \ {"VERIFYING_PLACEMENT"}, NEW object, Done(stage, object)
    PROVE  Following(stage) \in Normal /\ Fits(Following(stage), object)
  <1>1. PICK i \in 1..8 : NormalStages[i] = stage
    BY DEF Normal, NormalStages
  <1>2. \A n \in 1..8 : NormalStages[n] = stage => n = i
    BY <1>1 DEF NormalStages
  <1>3. Following(stage) = NormalStages[i + 1]
    BY <1>1, <1>2 DEF Following
  <1>4. i + 1 \in 1..9
    OBVIOUS
  <1>5. Following(stage) \in Normal
    BY <1>3, <1>4 DEF Normal
  <1>6. Fits(NormalStages[i + 1], object)
    BY <1>1 DEF Fits, Done, NormalStages
  <1> QED BY <1>3, <1>5, <1>6

\* A tick may complete a stage: the next one, the end, or the stop of a cancellation.
LEMMA CompletedLands ==
    ASSUME NEW c, Core(c), NEW a \in {"home", "out"},
           c.stage = core.stage, c.stage \in Task, ~c.running, c.next = None,
           c.pending # "FATAL", c.recovering => c.stage \in RecoveryStages,
           Done(c.stage, c.object), c.recovered => a = "home",
           Loose(c.object, clean) => Empty(a),
           NEW s \in Completed(c)
    PROVE  Lands(s, a)
  <1>1. {"FATAL", "CANCELED", "SUCCESS"} \subseteq Status
    BY DEF Status
  <1>2. ASSUME NEW next \in Task, Fits(next, c.object), c.recovering => next \in RecoveryStages,
               s = [c EXCEPT !.next = next]
        PROVE  Lands(s, a)
    <2>1. /\ next \in Stage /\ next # None
      BY <1>2, NoneAssumption DEF Task, Stage
    <2>2. /\ s \in CoreType /\ s.id = c.id /\ s.mode = c.mode /\ s.result = None /\ s.next = next
          /\ s.running = FALSE /\ s.stage = c.stage /\ s.object = c.object /\ s.pending = c.pending
          /\ s.recovering = c.recovering /\ s.stopped = c.stopped /\ s.recovered = c.recovered
      BY <1>2, <2>1 DEF Core, CoreType
    <2>3. CoreInv(s)
      <3>1. At(s) = next
        BY <2>1, <2>2 DEF At
      <3>2. Underway(s)
        BY <1>2, <2>1, <2>2, <3>1 DEF Underway, Core, Canceled
      <3> QED BY <2>2, <3>2 DEF CoreInv, Core
    <2>4. BodyInv(s, a, hand, clean)
      BY <2>2 DEF BodyInv, Clear, Empty
    <2> QED BY <2>2, <2>3, <2>4 DEF Lands, Core, Onward
  <1>3. CASE c.stage = "RELEASING_IN_PLACE"
    <2>1. s = [c EXCEPT !.next = "RECOVERING_ARM"]
      BY <1>3 DEF Completed
    <2>2. "RECOVERING_ARM" \in Task /\ "RECOVERING_ARM" \in RecoveryStages
          /\ Fits("RECOVERING_ARM", c.object)
      BY DEF Task, RecoveryStages, Fits
    <2> QED BY <1>2, <2>1, <2>2
  <1>4. CASE c.stage # "RELEASING_IN_PLACE" /\ (c.stage = "RECOVERING_ARM" \/ Canceled(c))
    <2>1. s \in Stop(c, "CANCELED")
      BY <1>4 DEF Completed
    <2> QED BY <1>1, <2>1, StopLands
  <1>5. CASE /\ c.stage \notin RecoveryStages /\ ~Canceled(c)
             /\ c.stage # "VERIFYING_PLACEMENT"
    <2>1. c.stage \in Normal \ {"VERIFYING_PLACEMENT"} /\ ~c.recovering
      BY <1>5 DEF Task, Core
    <2>2. Following(c.stage) \in Task /\ Fits(Following(c.stage), c.object)
      BY <2>1, FollowingEffect DEF Task
    <2>3. s = [c EXCEPT !.next = Following(c.stage)]
      BY <1>5 DEF Completed, RecoveryStages
    <2> QED BY <1>2, <2>1, <2>2, <2>3
  <1>6. CASE c.stage = "VERIFYING_PLACEMENT" /\ ~Canceled(c)
    <2>1. s = Finished(c, "SUCCESS") \/ s \in Stop(c, "FATAL")
      BY <1>6 DEF Completed
    <2>2. CASE s = Finished(c, "SUCCESS")
      BY <1>1, <2>2, FinishLands
    <2>3. CASE s \in Stop(c, "FATAL")
      BY <1>1, <2>3, StopLands
    <2> QED BY <2>1, <2>2, <2>3
  <1> QED BY <1>3, <1>4, <1>5, <1>6 DEF RecoveryStages

\* A confirmed stop ends the execution, or begins the recovery of the arm.
LEMMA HaltedLands ==
    ASSUME NEW c, CoreInv(c), Core(c), NEW a \in {"home", "out"}, c.stopped,
           c.running, c.stage = "STOPPING", c.stage = core.stage,
           BodyInv(c, a, hand, clean)
    PROVE  Lands(Halted(c), a)
  <1>1. c.pending \in Status /\ (c.pending = "FATAL" \/ (Loose(c.object, clean) => Empty(a)))
    <2>1. c.pending \in Status \cup {None} /\ c.pending # None
      BY DEF CoreInv, Core, Underway, CoreType
    <2>2. c.result # "FATAL" /\ c.stage \notin AtomicStages
      BY NoneAssumption DEF Core, Status, AtomicStages
    <2> QED BY <2>1, <2>2 DEF Core, BodyInv, Clear, Empty
  <1>2. c.recovered => a = "home"
    BY DEF BodyInv, Core
  <1>3. CASE /\ c.pending = "CANCELED" /\ c.mode = "RETURN_ARM" /\ ~c.recovering /\ c.chosen
    <2> DEFINE next == IF c.object \in {"HELD", "UNKNOWN"} THEN "RELEASING_IN_PLACE"
                       ELSE "RECOVERING_ARM"
               s == [c EXCEPT !.running = FALSE, !.recovering = TRUE, !.next = next]
    <2>1. /\ next \in RecoveryStages /\ next \in Task /\ next \in Stage /\ next # None
          /\ Fits(next, c.object)
      BY NoneAssumption DEF RecoveryStages, Task, Stage, Fits
    <2>2. Halted(c) = s
      BY <1>3 DEF Halted
    <2> HIDE DEF next
    <2>3. /\ s \in CoreType /\ s.id = c.id /\ s.mode = c.mode /\ s.result = None /\ s.next = next
          /\ s.running = FALSE /\ s.stage = c.stage /\ s.object = c.object /\ s.pending = c.pending
          /\ s.recovering = TRUE /\ s.stopped = c.stopped /\ s.recovered = c.recovered
      BY <2>1 DEF Core, CoreType
    <2> HIDE DEF s
    <2>4. CoreInv(s)
      <3>1. At(s) = next
        BY <2>1, <2>3 DEF At
      <3>2. Canceled(s)
        BY <1>3, <2>3, NoneAssumption DEF Canceled, Mode
      <3>3. Underway(s)
        BY <1>3, <2>1, <2>3, <3>1, <3>2 DEF Underway
      <3> QED BY <2>3, <3>3 DEF CoreInv, Core
    <2>5. BodyInv(s, a, hand, clean)
      BY <1>1, <1>2, <1>3, <2>3 DEF BodyInv, Clear, Empty
    <2> QED BY <2>2, <2>3, <2>4, <2>5 DEF Lands, Core, Onward
  <1>4. CASE ~(/\ c.pending = "CANCELED" /\ c.mode = "RETURN_ARM" /\ ~c.recovering /\ c.chosen)
    BY <1>1, <1>2, <1>4, FinishLands DEF Halted
  <1> QED BY <1>3, <1>4

-----------------------------------------------------------------------------
(* The ticks.                                                              *)

\* What a tick does: the core lands, the hand is left alone, the arm at most commanded.
Tick ==
    /\ \E c : Lands(c, arm') /\ Ticked(c)
    /\ hand' = hand /\ arm' \in {arm, "moving", "handling"}

\* The core when a tick begins.
LEMMA TickBegins ==
    ASSUME Inv, Ticking
    PROVE  /\ Core(core) /\ CoreInv(core) /\ Underway(core)
           /\ core.stopped => arm \in {"home", "out"}
           /\ core.recovered => arm = "home"
           /\ core.running /\ core.stage \in {"RETURNING_ARM", "RECOVERING_ARM"} => arm # "handling"
           /\ ~Stopping => core.pending # "FATAL"
           /\ ~Stopping /\ Loose(core.object, clean) =>
                 Empty(arm) \/ (core.running /\ core.stage \in AtomicStages)
           /\ core.running /\ ~Stopping => core.stage \in Task /\ Fits(core.stage, core.object)
  <1>1. /\ CoreInv(core) /\ core \in CoreType /\ core.id # None /\ core.result = None
        /\ Underway(core)
    BY DEF Inv, CoreInv, Ticking, Active
  <1>2. Core(core)
    BY <1>1 DEF Core, Underway
  <1>3. ~Stopping => core.pending # "FATAL"
    BY <1>1 DEF Stopping, Underway
  <1>4. BodyInv(core, arm, hand, clean) /\ core.result # "FATAL"
    BY <1>1, NoneAssumption DEF Inv, Status
  <1>5. core.running /\ ~Stopping => core.stage \in Task /\ Fits(core.stage, core.object)
    BY <1>1 DEF Stopping, Underway, CoreInv, At
  <1> QED BY <1>1, <1>2, <1>3, <1>4, <1>5 DEF BodyInv, Clear, Empty

\* The core when the stage is given up: in doubt about the object of an atomic stage.
LEMMA Doubted ==
    ASSUME Inv, Ticking, ~Stopping
    PROVE  /\ Core(Unsure(core)) /\ Unsure(core).recovered = core.recovered
           /\ Unsure(core).stopped = core.stopped
           /\ Loose(Unsure(core).object, clean) => Empty(arm)
  <1>1. Core(core) /\ (Loose(core.object, clean) =>
                          Empty(arm) \/ (core.running /\ core.stage \in AtomicStages))
    BY TickBegins
  <1>2. Unsure(core).stopped = core.stopped
    BY <1>1 DEF Unsure, Core, CoreType
  <1> QED BY <1>1, <1>2, UnsureEffect DEF Core, Canceled, Loose

\* TickFault is a tick.
LEMMA FaultTicks == Inv /\ TickFault => Tick
  <1> SUFFICES ASSUME Inv, TickFault PROVE Tick
    OBVIOUS
  <1>1. PICK c \in Stop(Unsure(core), "FATAL") : Ticked(c)
    BY DEF TickFault
  <1>2. Lands(c, arm)
    BY Doubted, TickBegins, StopLands DEF TickFault, Status
  <1> QED BY <1>1, <1>2 DEF Tick, TickFault, physical

\* TickCancel is a tick.
LEMMA CancelTicks == Inv /\ TickCancel => Tick
  <1> SUFFICES ASSUME Inv, TickCancel PROVE Tick
    OBVIOUS
  <1>1. PICK c \in Stop(Unsure(core), "CANCELED") : Ticked(c)
    BY DEF TickCancel
  <1>2. Lands(c, arm)
    BY Doubted, TickBegins, StopLands DEF TickCancel, Status
  <1> QED BY <1>1, <1>2 DEF Tick, TickCancel, physical

\* A stage that begins forgets the rest of the arm if it moves it.
LEMMA BegunEffect ==
    ASSUME NEW c, Core(c), Underway(c), c.next # None, c.running => c.next = None
    PROVE  LET b == Begun(c)
           IN  /\ Core(b) /\ b.stage = c.next /\ b.stage \in Task /\ b.running /\ b.next = None
               /\ b.object = c.object /\ b.pending = c.pending /\ b.recovering = c.recovering
               /\ b.stopped <=> c.stopped /\ c.next \notin MotionStages \cup RecoveryStages
               /\ b.recovered <=> c.recovered /\ c.next \notin MotionStages \cup RecoveryStages
  <1> DEFINE stopped == c.stopped /\ c.next \notin MotionStages \cup RecoveryStages
             recovered == c.recovered /\ c.next \notin MotionStages \cup RecoveryStages
             b == [c EXCEPT !.stage = c.next, !.next = None, !.running = TRUE, !.age = 0,
                            !.stopped = stopped, !.recovered = recovered]
  <1>1. c.next \in Task /\ c.next \in Stage /\ stopped \in BOOLEAN /\ recovered \in BOOLEAN
    BY DEF Underway, Task, Stage, Core, CoreType
  <1>2. Begun(c) = b
    BY DEF Begun, Core, CoreType
  <1> HIDE DEF stopped, recovered
  <1>3. /\ b \in CoreType /\ b.id = c.id /\ b.mode = c.mode /\ b.result = c.result
        /\ b.stage = c.next /\ b.running /\ b.next = None /\ b.object = c.object
        /\ b.pending = c.pending /\ b.recovering = c.recovering
        /\ b.stopped = stopped /\ b.recovered = recovered
    BY <1>1, Zero DEF Core, CoreType
  <1> HIDE DEF b
  <1> QED BY <1>1, <1>2, <1>3 DEF Core, Canceled, stopped, recovered

\* The core and the arm once a stage has begun.
LEMMA BegunHolds ==
    ASSUME Inv, Ticking, core.next # None, NEW a \in {arm, Commanded(core.next)}
    PROVE  /\ Core(Begun(core)) /\ Begun(core).stage = core.next
           /\ a \in {arm, "moving", "handling"}
           /\ Begun(core).stopped => a \in {"home", "out"}
           /\ Begun(core).recovered => a = "home"
           /\ core.next \in {"RETURNING_ARM", "RECOVERING_ARM"} /\ a = Commanded(core.next) =>
                 a # "handling"
           /\ Loose(core.object, clean) => Empty(a) \/ core.next \in AtomicStages
  <1> DEFINE b == Begun(core)
  <1>1. /\ Core(core) /\ Underway(core) /\ (core.running => core.next = None)
        /\ (core.stopped => arm \in {"home", "out"}) /\ (core.recovered => arm = "home")
        /\ (Loose(core.object, clean) => Empty(arm))
    BY TickBegins DEF CoreInv, Stopping
  <1>2. /\ Core(b) /\ b.stage = core.next
        /\ b.stopped <=> core.stopped /\ core.next \notin MotionStages \cup RecoveryStages
        /\ b.recovered <=> core.recovered /\ core.next \notin MotionStages \cup RecoveryStages
    BY <1>1, BegunEffect
  <1>3. /\ a \in {arm, "moving", "handling"}
        /\ core.next \notin MotionStages \cup RecoveryStages => a = arm
        /\ core.next \in {"RETURNING_ARM", "RECOVERING_ARM"} /\ a = Commanded(core.next) =>
                 a # "handling"
        /\ a = "handling" => a = arm \/ core.next \in HandStages
    BY DEF Commanded, HandStages, AtomicStages, MotionStages, NormalStages, RecoveryStages
  <1>4. Loose(core.object, clean) /\ core.next \in HandStages => core.next \in AtomicStages
    <2>1. Fits(core.next, core.object)
      BY <1>1 DEF Underway, At
    <2> QED BY <2>1 DEF Fits, Loose, HandStages, AtomicStages
  <1> HIDE DEF b
  <1>5. Loose(core.object, clean) => Empty(a) \/ core.next \in AtomicStages
    BY <1>1, <1>3, <1>4 DEF Empty
  <1>6. (b.stopped => a \in {"home", "out"}) /\ (b.recovered => a = "home")
    BY <1>1, <1>2, <1>3
  <1> QED BY <1>2, <1>3, <1>5, <1>6 DEF b

\* TickBegin is a tick; after a cancellation only the recovery begins.
LEMMA BeginTicks == Inv /\ TickBegin => Tick
  <1> SUFFICES ASSUME Inv, TickBegin PROVE Tick
    OBVIOUS
  <1> DEFINE b == Begun(core)
             a == Commanded(core.next)
  <1>1. Ticking /\ core.next # None /\ ~CancelNow(core) /\ Ticked(b) /\ arm' = a /\ hand' = hand
    BY DEF TickBegin
  <1>2. /\ Core(core) /\ Underway(core) /\ (core.running => core.next = None)
    BY <1>1, TickBegins DEF CoreInv
  <1>3. /\ Core(b) /\ b.stage = core.next /\ b.stage \in Task /\ b.running /\ b.next = None
        /\ b.object = core.object /\ b.pending = core.pending /\ b.recovering = core.recovering
    BY <1>1, <1>2, BegunEffect
  <1>4. /\ a \in {arm, "moving", "handling"}
        /\ b.stopped => a \in {"home", "out"}
        /\ b.recovered => a = "home"
        /\ core.next \in {"RETURNING_ARM", "RECOVERING_ARM"} => a # "handling"
        /\ Loose(core.object, clean) => Empty(a) \/ core.next \in AtomicStages
    BY <1>1, BegunHolds
  <1> HIDE DEF a, b
  <1>5. At(core) = core.next /\ At(b) = b.stage
    BY <1>1, <1>3 DEF At
  <1>6. "STOPPING" \notin Task
    BY DEF Task, Normal, NormalStages, RecoveryStages
  <1>7. Underway(b)
    BY <1>1, <1>2, <1>3, <1>5, <1>6 DEF Underway, Core, Canceled
  <1>8. CoreInv(b)
    BY <1>3, <1>7 DEF CoreInv, Core
  <1>9. BodyInv(b, a, hand, clean)
    BY <1>3, <1>4 DEF BodyInv, Clear, Empty
  <1>10. Onward(b.stage)
    <2>1. Canceled(core) => core.recovering /\ core.mode # "IMMEDIATE"
      BY <1>1, <1>2 DEF CancelNow, Underway
    <2>2. core.recovering => core.next \in RecoveryStages \cup {"STOPPING"}
      BY <1>2, <1>5 DEF Underway
    <2> QED BY <1>3, <2>1, <2>2 DEF Onward, RecoveryStages, Normal, NormalStages
  <1>11. Lands(b, a)
    BY <1>3, <1>8, <1>9, <1>10 DEF Lands, Core
  <1> QED BY <1>1, <1>4, <1>11 DEF Tick

\* TickProgress is a tick.
LEMMA ProgressTicks == Inv /\ TickProgress => Tick
  <1> SUFFICES ASSUME Inv, TickProgress PROVE Tick
    OBVIOUS
  <1>1. Lands(core, arm)
    BY TickBegins DEF TickProgress, Polling, Lands, Core, Inv, Onward
  <1> QED BY <1>1 DEF Tick, TickProgress, Progressed, physical

\* TickOverdue is a tick.
LEMMA OverdueTicks == Inv /\ TickOverdue => Tick
  <1> SUFFICES ASSUME Inv, TickOverdue PROVE Tick
    OBVIOUS
  <1> DEFINE u == Unsure(core)
             placed == u.placed /\ core.stage # "VERIFYING_PLACEMENT"
             v == [u EXCEPT !.placed = placed]
  <1>1. /\ Core(u) /\ u.recovered = core.recovered /\ u.stopped = core.stopped
        /\ Loose(u.object, clean) => Empty(arm)
    BY Doubted DEF TickOverdue, Polling
  <1>2. PICK c \in Fail(v, "PLAIN") : Ticked(c)
    BY <1>1 DEF TickOverdue, Core, CoreType
  <1> HIDE DEF u
  <1>3. placed \in BOOLEAN
    BY <1>1 DEF Core, CoreType
  <1> HIDE DEF placed
  <1>4. /\ v \in CoreType /\ v.id = u.id /\ v.mode = u.mode /\ v.result = u.result
        /\ v.recovering = u.recovering /\ v.recovered = u.recovered /\ v.stopped = u.stopped
        /\ v.object = u.object
    BY <1>1, <1>3 DEF Core, CoreType
  <1> HIDE DEF v
  <1>5. Core(v)
    BY <1>1, <1>4 DEF Core, Canceled
  <1>6. Lands(c, arm)
    BY <1>1, <1>4, <1>5, TickBegins, FailLands DEF TickOverdue, Polling
  <1> QED BY <1>2, <1>6 DEF Tick, TickOverdue, physical

\* The core with the evidence of its stage.
LEMMA ObservedEffect ==
    ASSUME NEW c, Core(c), NEW error, NEW object \in Object, NEW placed \in BOOLEAN,
           NEW stopped \in BOOLEAN
    PROVE  LET o == Observed(c, error, object, placed, stopped)
           IN  /\ Core(o) /\ o.stage = c.stage /\ ~o.running /\ o.next = c.next
               /\ o.object = object /\ o.pending = c.pending /\ o.recovering = c.recovering
               /\ o.stopped <=> c.stopped \/ stopped
               /\ o.recovered <=> c.recovered \/ (stopped /\ c.stage # "VALIDATING")
  <1> DEFINE chosen == c.chosen \/ (c.stage = "PREPARING_TARGET" /\ error = "NONE")
             rests == c.stopped \/ stopped
             home == c.recovered \/ (stopped /\ c.stage # "VALIDATING")
             o == [c EXCEPT !.running = FALSE, !.age = 0, !.object = object, !.placed = placed,
                            !.chosen = chosen, !.stopped = rests, !.recovered = home]
  <1>1. chosen \in BOOLEAN /\ rests \in BOOLEAN /\ home \in BOOLEAN
    OBVIOUS
  <1>2. Observed(c, error, object, placed, stopped) = o
    BY DEF Observed, Core, CoreType
  <1> HIDE DEF chosen, rests, home
  <1>3. /\ o \in CoreType /\ o.id = c.id /\ o.mode = c.mode /\ o.result = c.result
        /\ o.stage = c.stage /\ o.running = FALSE /\ o.next = c.next /\ o.object = object
        /\ o.pending = c.pending /\ o.recovering = c.recovering
        /\ o.stopped = rests /\ o.recovered = home
    <2>1. c \in CoreType
      BY DEF Core
    <2>2. [c EXCEPT !.running = FALSE, !.age = 0, !.object = object, !.placed = placed] \in CoreType
      BY <2>1, Zero DEF CoreType
    <2> DEFINE n == [c EXCEPT !.running = FALSE, !.age = 0, !.object = object, !.placed = placed]
    <2> HIDE DEF n
    <2>3. [n EXCEPT !.chosen = chosen, !.stopped = rests, !.recovered = home] \in CoreType
      BY <1>1, <2>2 DEF n, CoreType
    <2>4. o = [n EXCEPT !.chosen = chosen, !.stopped = rests, !.recovered = home]
      BY <2>1 DEF n, CoreType
    <2> QED BY <2>1, <2>3, <2>4 DEF Core, CoreType
  <1> HIDE DEF o
  <1> QED BY <1>1, <1>2, <1>3 DEF Core, Canceled, rests, home

\* What evidence says of the object is so.
LEMMA ClaimsHold ==
    ASSUME Inv, Polling, NEW error \in {"NONE", "PLAIN", "FAULT"},
           NEW object \in ObjectClaims(core, error),
           object = "LEFT_GRIPPER" /\ core.object # object => hand = "empty",
           error = "NONE" => arm \in {"home", "out"}
    PROVE  /\ object \in Object
           /\ error = "NONE" => Done(core.stage, object)
           /\ Loose(object, clean) => Empty(arm)
  <1>1. /\ core.stage \in Task /\ Fits(core.stage, core.object) /\ core.object \in Object
        /\ core.stage \in {"RETURNING_ARM", "RECOVERING_ARM"} => arm # "handling"
        /\ Loose(core.object, clean) => Empty(arm) \/ core.stage \in AtomicStages
    BY TickBegins DEF Polling, Core, CoreType
  <1>2. CASE core.stage \in {"GRASPING", "LIFTING"}
    <2>1. object = IF error = "NONE" THEN "HELD" ELSE "UNKNOWN"
      BY <1>2 DEF ObjectClaims
    <2> QED BY <1>2, <2>1 DEF Object, Done, Loose
  <1>3. CASE core.stage = "PLACING"
    <2>1. object = "UNKNOWN" \/ (error = "NONE" /\ object = "LEFT_GRIPPER")
      BY <1>3 DEF ObjectClaims
    <2>2. core.object = "HELD"
      BY <1>1, <1>3 DEF Fits
    <2> QED BY <1>3, <2>1, <2>2 DEF Object, Done, Loose, Empty
  <1>4. CASE core.stage \in {"RELEASING_IN_PLACE", "VERIFYING_PLACEMENT"} /\ error = "NONE"
    <2>1. object \in {"LEFT_GRIPPER", core.object} /\ core.stage \notin AtomicStages
      BY <1>4 DEF ObjectClaims, AtomicStages
    <2> QED BY <1>1, <1>4, <2>1 DEF Object, Done, Loose, Empty
  <1>5. CASE core.stage \in {"RELEASING_IN_PLACE", "TRANSPORTING"} /\ error # "NONE"
    <2>1. object \in {core.object, "UNKNOWN"}
      BY <1>5 DEF ObjectClaims
    <2>2. core.object \in {"HELD", "UNKNOWN"}
      BY <1>1, <1>5 DEF Fits
    <2> QED BY <1>5, <2>1, <2>2 DEF Object, Loose
  <1>6. CASE core.stage \in {"RETURNING_ARM", "RECOVERING_ARM"} /\ error # "NONE"
    <2>1. object \in {core.object, "LEFT_GRIPPER"} /\ core.stage \notin AtomicStages
      BY <1>6 DEF ObjectClaims, AtomicStages
    <2> QED BY <1>1, <1>6, <2>1 DEF Object, Loose, Empty
  <1>7. CASE \/ core.stage \in {"VALIDATING", "PREPARING_TARGET", "APPROACHING"}
             \/ core.stage = "VERIFYING_PLACEMENT" /\ error # "NONE"
             \/ core.stage \in {"TRANSPORTING", "RETURNING_ARM", "RECOVERING_ARM"} /\ error = "NONE"
    <2>1. object = core.object
      BY <1>7 DEF ObjectClaims
    <2>2. core.stage \notin AtomicStages /\ (error = "NONE" => Done(core.stage, object))
      BY <1>1, <1>7, <2>1 DEF AtomicStages, Fits, Done
    <2> QED BY <1>1, <2>1, <2>2
  <1> QED BY <1>1, <1>2, <1>3, <1>4, <1>5, <1>6, <1>7
          DEF Task, Normal, NormalStages, RecoveryStages

\* TickEvidence is a tick.
LEMMA EvidenceTicks == Inv /\ TickEvidence => Tick
  <1> SUFFICES ASSUME Inv, TickEvidence PROVE Tick
    OBVIOUS
  <1> DEFINE Tells(error, stopped, object, placed) ==
          /\ object = "LEFT_GRIPPER" /\ core.object # object => hand = "empty"
          /\ error = "NONE" => arm \in {"home", "out"}
          /\ stopped => /\ core.stage \in {"VALIDATING", "RETURNING_ARM", "RECOVERING_ARM"}
                        /\ arm \in {"home", "out"}
          /\ core.stage \in {"RETURNING_ARM", "RECOVERING_ARM"} => (stopped => arm = "home")
          /\ LET c == Observed(core, error, object, placed, stopped)
             IN \E after \in IF error = "NONE" THEN Completed(c) ELSE Fail(c, error) :
                   Ticked(after)
  <1>0. PICK error \in {"NONE", "PLAIN", "FAULT"}, stopped \in BOOLEAN :
          \E object \in ObjectClaims(core, error), placed \in PlacedClaims(core, error) :
             Tells(error, stopped, object, placed)
    BY DEF TickEvidence
  <1>1. PICK object \in ObjectClaims(core, error), placed \in PlacedClaims(core, error) :
          Tells(error, stopped, object, placed)
    BY <1>0
  <1> DEFINE c == Observed(core, error, object, placed, stopped)
  <1>2. PICK after \in IF error = "NONE" THEN Completed(c) ELSE Fail(c, error) : Ticked(after)
    BY <1>1
  <1>3. Polling /\ Ticking /\ ~Stopping /\ core.running
    BY DEF TickEvidence, Polling
  <1>4. /\ Core(core) /\ core.stage \in Task /\ core.next = None /\ core.pending # "FATAL"
        /\ core.stopped => arm \in {"home", "out"}
        /\ core.recovered => arm = "home"
        /\ core.recovering => core.stage \in RecoveryStages
    BY <1>3, TickBegins DEF CoreInv, Underway, At, Stopping
  <1>5. placed \in BOOLEAN
    BY <1>1, <1>4 DEF PlacedClaims, Core, CoreType
  <1>6. /\ object \in Object
        /\ error = "NONE" => Done(core.stage, object)
        /\ Loose(object, clean) => Empty(arm)
    BY <1>1, <1>3, ClaimsHold
  <1>7. /\ Core(c) /\ c.stage = core.stage /\ ~c.running /\ c.next = None
        /\ c.object = object /\ c.pending = core.pending /\ c.recovering = core.recovering
        /\ c.stopped <=> core.stopped \/ stopped
        /\ c.recovered <=> core.recovered \/ (stopped /\ core.stage # "VALIDATING")
    BY <1>4, <1>5, <1>6, ObservedEffect
  <1> HIDE DEF c
  <1>8. (c.stopped => arm \in {"home", "out"}) /\ (c.recovered => arm = "home")
    BY <1>1, <1>4, <1>7
  <1>9. CASE error = "NONE"
    <2>1. Lands(after, arm)
      BY <1>1, <1>2, <1>4, <1>6, <1>7, <1>8, <1>9, CompletedLands
    <2> QED BY <1>2, <2>1 DEF Tick, TickEvidence, physical
  <1>10. CASE error # "NONE"
    <2>1. Lands(after, arm)
      BY <1>2, <1>6, <1>7, <1>8, <1>10, FailLands
    <2> QED BY <1>2, <2>1 DEF Tick, TickEvidence, physical
  <1> QED BY <1>9, <1>10

\* TickStopping is a tick.
LEMMA StoppingTicks == Inv /\ TickStopping => Tick
  <1> SUFFICES ASSUME Inv, TickStopping PROVE Tick
    OBVIOUS
  <1>1. PICK c \in {core, [core EXCEPT !.pending = "FATAL"]} :
          \/ Ticked(Finished(c, "FATAL"))
          \/ arm \in {"home", "out"} /\ Ticked(Halted([c EXCEPT !.stopped = TRUE]))
          \/ Ticked(c)
    BY DEF TickStopping
  <1>2. /\ Core(core) /\ CoreInv(core) /\ Underway(core) /\ core.running
        /\ core.stage = "STOPPING" /\ BodyInv(core, arm, hand, clean)
        /\ core.stopped => arm \in {"home", "out"}
        /\ core.recovered => arm = "home"
    BY TickBegins DEF TickStopping, Stopping, Inv
  <1>3. "FATAL" \in Status /\ "FATAL" # None
    BY NoneAssumption DEF Status
  <1>4. ASSUME NEW d \in CoreType, NEW pending \in {core.pending, "FATAL"},
               d.id = core.id, d.mode = core.mode, d.result = None, d.pending = pending,
               d.recovering = core.recovering, d.running, d.next = None,
               d.stage = core.stage, d.object = core.object, d.recovered = core.recovered,
               d.stopped => arm \in {"home", "out"}
        PROVE  Core(d) /\ CoreInv(d) /\ BodyInv(d, arm, hand, clean)
    <2>1. Core(d)
      BY <1>2, <1>4 DEF Core, Canceled
    <2>2. Underway(d)
      BY <1>2, <1>3, <1>4 DEF Underway, At, Canceled, CoreInv
    <2>3. BodyInv(d, arm, hand, clean)
      BY <1>2, <1>4, <2>1 DEF BodyInv, Clear, Core
    <2> QED BY <1>4, <2>1, <2>2, <2>3 DEF CoreInv, Core
  <1>5. /\ c \in CoreType /\ c.id = core.id /\ c.mode = core.mode /\ c.result = None
        /\ c.pending \in {core.pending, "FATAL"} /\ c.recovering = core.recovering
        /\ c.running /\ c.next = None /\ c.stage = core.stage /\ c.object = core.object
        /\ c.recovered = core.recovered /\ c.stopped = core.stopped
    BY <1>2, <1>3 DEF Core, CoreType, CoreInv
  <1>6. Core(c) /\ CoreInv(c) /\ BodyInv(c, arm, hand, clean)
    BY <1>2, <1>4, <1>5
  <1>7. CASE Ticked(Finished(c, "FATAL"))
    <2>1. Lands(Finished(c, "FATAL"), arm)
      BY <1>2, <1>3, <1>5, <1>6, FinishLands
    <2> QED BY <1>7, <2>1 DEF Tick, TickStopping, physical
  <1>8. CASE arm \in {"home", "out"} /\ Ticked(Halted([c EXCEPT !.stopped = TRUE]))
    <2> DEFINE d == [c EXCEPT !.stopped = TRUE]
    <2>1. /\ d \in CoreType /\ d.id = core.id /\ d.mode = core.mode /\ d.result = None
          /\ d.pending \in {core.pending, "FATAL"} /\ d.recovering = core.recovering
          /\ d.running /\ d.next = None /\ d.stage = core.stage /\ d.object = core.object
          /\ d.recovered = core.recovered /\ d.stopped
      BY <1>5 DEF CoreType
    <2> HIDE DEF d
    <2>2. Core(d) /\ CoreInv(d) /\ BodyInv(d, arm, hand, clean)
      BY <1>4, <1>8, <2>1
    <2>3. Lands(Halted(d), arm)
      BY <1>2, <1>8, <2>1, <2>2, HaltedLands
    <2> QED BY <1>8, <2>3 DEF Tick, TickStopping, physical, d
  <1>9. CASE Ticked(c)
    <2>1. Lands(c, arm)
      BY <1>2, <1>5, <1>6 DEF Lands, Onward, Core
    <2> QED BY <1>9, <2>1 DEF Tick, TickStopping, physical
  <1> QED BY <1>1, <1>7, <1>8, <1>9

\* TickRaises is a tick.
LEMMA RaisesTicks == Inv /\ TickRaises => Tick
  <1> SUFFICES ASSUME Inv, TickRaises PROVE Tick
    OBVIOUS
  <1>1. Ticking /\ hand' = hand /\ "FATAL" \in Status
    BY DEF TickRaises, Status
  <1>2. /\ Core(core) /\ (core.stopped => arm \in {"home", "out"})
        /\ (core.recovered => arm = "home")
    BY <1>1, TickBegins
  <1>3. CASE Stopping /\ Ticked(Finished(core, "FATAL")) /\ arm' = arm
    <2>1. Lands(Finished(core, "FATAL"), arm)
      BY <1>1, <1>2, FinishLands
    <2> QED BY <1>1, <1>3, <2>1 DEF Tick
  <1>4. CASE /\ core.running /\ ~Stopping /\ arm' = arm
             /\ \E c \in Stop(Unsure(core), "FATAL") \cup Stop(core, "FATAL") : Ticked(c)
    <2>1. PICK c \in Stop(Unsure(core), "FATAL") \cup Stop(core, "FATAL") : Ticked(c)
      BY <1>4
    <2>2. CASE c \in Stop(Unsure(core), "FATAL")
      <3>1. Lands(c, arm)
        BY <1>1, <1>2, <1>4, <2>2, Doubted, StopLands
      <3> QED BY <1>1, <1>4, <2>1, <3>1 DEF Tick
    <2>3. CASE c \in Stop(core, "FATAL")
      <3>1. Lands(c, arm)
        BY <1>1, <1>2, <2>3, StopLands
      <3> QED BY <1>1, <1>4, <2>1, <3>1 DEF Tick
    <2> QED BY <2>1, <2>2, <2>3
  <1>5. CASE /\ core.next # None /\ arm' \in {arm, Commanded(core.next)}
             /\ \E c \in Stop(Unsure(Begun(core)), "FATAL") : Ticked(c)
    <2> DEFINE u == Unsure(Begun(core))
    <2>1. PICK a \in {arm, Commanded(core.next)} : arm' = a
      BY <1>5
    <2>2. /\ Core(Begun(core)) /\ a \in {arm, "moving", "handling"}
          /\ Begun(core).recovered => a = "home"
      BY <1>1, <1>5, BegunHolds
    <2>3. Core(u) /\ u.recovered = Begun(core).recovered
      BY <2>2, UnsureEffect DEF Core, Canceled
    <2> HIDE DEF u
    <2>4. PICK c \in Stop(u, "FATAL") : Ticked(c)
      BY <1>5 DEF u
    <2>5. Lands(c, a)
      BY <1>1, <2>2, <2>3, <2>4, StopLands
    <2> QED BY <1>1, <2>1, <2>2, <2>4, <2>5 DEF Tick
  <1> QED BY <1>3, <1>4, <1>5 DEF TickRaises

\* Every tick of an execution under way.
Ticks ==
    \/ TickFault \/ TickCancel \/ TickBegin \/ TickProgress \/ TickEvidence
    \/ TickOverdue \/ TickStopping \/ TickRaises

\* All of them are.
LEMMA TicksTick == Inv /\ Ticks => Ticking /\ Tick
  <1>1. Ticks => Ticking
    BY DEF Ticks, TickFault, TickCancel, TickBegin, TickProgress, TickEvidence, TickOverdue,
           TickStopping, TickRaises, Polling
  <1> QED BY <1>1, FaultTicks, CancelTicks, BeginTicks, ProgressTicks, EvidenceTicks, OverdueTicks,
             StoppingTicks, RaisesTicks DEF Ticks

-----------------------------------------------------------------------------
(* The contract's view of the arm and of the journal.                      *)

\* The contract's view of the arm and the hand.
LEMMA Bodies ==
    /\ Body \in Contract!Body
    /\ arm \in {"home", "out"} => Body # "moving"
    /\ arm = "home" /\ hand = "empty" => Body = "clear"
    /\ arm \in {"moving", "handling"} => Body = "moving"
    /\ Body = "clear" => arm = "home" /\ hand = "empty"
  BY DEF Body, Contract!Body

\* The contract's active execution is the core's.
LEMMA ActiveIs ==
    ASSUME Inv, serving
    PROVE  /\ \A e \in Execution : known[e] = "active" <=> core.id = e /\ Active
           /\ Active => core.id \in Execution /\ core.id \in Contract!Active
           /\ ~Active => Contract!Active = {}
  <1>1. core \in CoreType
    BY DEF Inv, CoreInv
  <1>2. \A e \in Execution : e # None
    BY NoneAssumption
  <1>3. core.id # None => known[core.id] = Kind(core) /\ core.id \in Execution
    BY <1>1 DEF Inv, JournalInv, CoreType
  <1>4. Kind(core) = "active" <=> core.result = None
    BY <1>1, Kinds
  <1>5. \A e \in Execution : known[e] = "active" <=> core.id = e /\ Active
    BY <1>2, <1>3, <1>4 DEF Inv, JournalInv, Active
  <1> QED BY <1>3, <1>5 DEF Active, Contract!Active

\* The journal after a step in which the core became c and was written.
LEMMA PersistHolds ==
    ASSUME Inv, serving, NEW c \in CoreType, c.id \in Execution, c.id # None,
           c.id = core.id \/ (known[c.id] = "unknown" /\ ~Active),
           known[c.id] \in {"unknown", "active"},
           core' = c, serving' = serving, Persist(c)
    PROVE  /\ known' \in [Execution -> Contract!Known] /\ durable' \in [Execution -> Contract!Known]
           /\ known' = [known EXCEPT ![c.id] = Kind(c)]
           /\ JournalInv'
  <1> DEFINE id == c.id
             kind == Kind(c)
  <1>1. /\ known \in [Execution -> Contract!Known] /\ durable \in [Execution -> Contract!Known]
        /\ \A e \in Execution : Durable(known[e], durable[e])
        /\ \A e \in Execution : known[e] = "active" => core.id = e /\ Active
    BY ActiveIs DEF Inv, TypeInv, JournalInv
  <1>2. kind \in Contract!Known /\ kind # "unknown" /\ kind # "interrupted"
    BY Kinds
  <1>3. PICK written \in {durable[id], "active", kind} :
           /\ known' = [known EXCEPT ![id] = kind]
           /\ durable' = [durable EXCEPT ![id] = written]
    BY DEF Persist
  <1>4. durable[id] \in {"unknown", "active"}
    BY <1>1 DEF Durable
  <1> HIDE DEF kind
  <1>5. written \in Contract!Known /\ Durable(kind, written)
    BY <1>2, <1>4 DEF Durable, Contract!Known
  <1>6. /\ known' \in [Execution -> Contract!Known] /\ durable' \in [Execution -> Contract!Known]
        /\ known'[id] = kind /\ durable'[id] = written
        /\ \A e \in Execution \ {id} : known'[e] = known[e] /\ durable'[e] = durable[e]
    BY <1>1, <1>2, <1>3, <1>5
  <1>7. \A e \in Execution : Durable(known'[e], durable'[e])
    BY <1>1, <1>5, <1>6
  <1>8. \A e \in Execution : known'[e] = "active" => e = id
    BY <1>1, <1>6
  <1> QED BY <1>3, <1>6, <1>7, <1>8 DEF JournalInv, Durable, kind

-----------------------------------------------------------------------------
(* The steps: each keeps the invariant, is one of the contract, and begins *)
(* nothing after a cancellation.                                           *)

Halts == Canceled(core) /\ core'.id = core.id /\ core'.stage # core.stage =>
            /\ core'.stage \notin Normal
            /\ core.mode = "IMMEDIATE" => core'.stage \in {"STOPPING", "FINALIZING"}

Good == Inv' /\ [Contract!Next]_Contract!vars /\ Halts

\* The contract's step of a tick: the execution goes on, or ends as c says.
LEMMA TickServes ==
    ASSUME Inv, Ticking, NEW c, Lands(c, arm'), Ticked(c),
           known' = [known EXCEPT ![core.id] = Kind(c)],
           hand' = hand, arm' \in {arm, "moving", "handling"}
    PROVE  Contract!Next
  <1>1. /\ core.id \in Execution /\ core.id \in Contract!Active /\ serving
        /\ serving' = serving /\ clean' = clean /\ inhibited \in BOOLEAN
        /\ known \in [Execution -> Contract!Known] /\ known[core.id] = "active"
    BY ActiveIs DEF Ticking, Ticked, Inv, TypeInv, Contract!Active
  <1>2. c \in CoreType /\ c.id = core.id /\ c.id # None /\ CoreInv(c)
        /\ BodyInv(c, arm', hand, clean)
    BY DEF Lands, CoreInv, Ticking, Active
  <1>3. Body' \in {Body, "moving"}
    BY Bodies DEF Body
  <1>4. inhibited' = (inhibited \/ c.pending = "FATAL" \/ Inhibits(Kind(c)))
    BY DEF Ticked
  <1>5. CASE c.result = None
    <2>1. known' = known
      BY <1>1, <1>2, <1>5, Kinds
    <2>2. inhibited' \in {inhibited, TRUE}
      BY <1>1, <1>4
    <2>3. Contract!Work
      BY <1>1, <1>3, <2>1, <2>2 DEF Contract!Work
    <2> QED BY <2>3 DEF Contract!Next
  <1>6. CASE c.result # None
    <2> DEFINE end == Kind(c)
    <2>1. /\ end \in Contract!Final
          /\ end \in Contract!Stopped => c.stopped
          /\ end = "safe" => SafeToDrive(c)
          /\ Inhibits(end) <=> end \in Contract!Inhibiting
      BY <1>2, <1>6, Kinds
    <2>2. c.stopped => Body' # "moving"
      <3>1. c.stopped => arm' \in {"home", "out"}
        BY <1>2 DEF BodyInv
      <3> QED BY <3>1 DEF Body
    <2>3. SafeToDrive(c) /\ clean => Body' = "clear"
      <3>1. c.pending # "FATAL" /\ ~c.running
        BY <1>2, <1>6, NoneAssumption DEF CoreInv, Status
      <3>2. SafeToDrive(c) /\ clean => arm' = "home" /\ hand' = "empty"
        BY <1>2, <3>1 DEF BodyInv, SafeToDrive, Clear, Loose
      <3> QED BY <3>2 DEF Body
    <2> HIDE DEF end
    <2>4. inhibited' \in {inhibited \/ end \in Contract!Inhibiting, TRUE}
      BY <1>1, <1>4, <2>1 DEF end
    <2>5. Contract!Finish(core.id, end)
      BY <1>1, <1>2, <1>3, <2>1, <2>2, <2>3, <2>4 DEF Contract!Finish, end
    <2> QED BY <1>1, <2>1, <2>5 DEF Contract!Next
  <1> QED BY <1>5, <1>6

\* A tick is a step of the contract's executor.
LEMMA TicksGood == Inv /\ Ticks => Good
  <1> SUFFICES ASSUME Inv, Ticks PROVE Good
    OBVIOUS
  <1>1. /\ Ticking /\ hand' = hand /\ arm' \in {arm, "moving", "handling"}
        /\ \E c : Lands(c, arm') /\ Ticked(c)
    BY TicksTick DEF Tick
  <1>2. PICK c : Lands(c, arm') /\ Ticked(c)
    BY <1>1
  <1>3. /\ c \in CoreType /\ c.id = core.id /\ c.mode = core.mode /\ CoreInv(c)
        /\ BodyInv(c, arm', hand, clean) /\ Onward(c.stage)
        /\ serving /\ serving' /\ clean' = clean /\ core' = c /\ Persist(c) /\ TypeInv
        /\ core.id \in Execution /\ core.id # None /\ known[core.id] = "active"
    BY <1>1, <1>2, ActiveIs DEF Lands, CoreInv, Ticked, Ticking, Active, Inv, Contract!Active
  <1>4. /\ known' \in [Execution -> Contract!Known] /\ durable' \in [Execution -> Contract!Known]
        /\ known' = [known EXCEPT ![c.id] = Kind(c)]
        /\ JournalInv'
    BY <1>3, PersistHolds DEF Inv, TypeInv
  <1>5. /\ inhibited' \in BOOLEAN
        /\ \/ handle' = handle /\ transition' = transition
           \/ handle' = None /\ transition' = FALSE
    BY <1>2, <1>3, Kinds DEF Ticked, Inhibits, TypeInv
  <1>6. TypeInv'
    BY <1>1, <1>3, <1>4, <1>5 DEF TypeInv
  <1>7. transition' => handle' = "open" /\ Canceled(core')
    BY <1>1, <1>3, <1>5 DEF Inv, Canceled, Ticking
  <1>8. Inv'
    BY <1>1, <1>3, <1>4, <1>6, <1>7 DEF Inv
  <1>9. Contract!Next
    BY <1>1, <1>2, <1>3, <1>4, TickServes
  <1>10. Halts
    BY <1>3 DEF Halts, Onward
  <1> QED BY <1>8, <1>9, <1>10 DEF Good

\* A step that leaves the core, the journal and the arm.
LEMMA QuietGood ==
    ASSUME Inv, UNCHANGED <<serving, core, inhibited, known, durable, clean, physical>>,
           handle' \in {None, "open", "canceling"}, transition' \in BOOLEAN,
           transition' => Canceled(core) /\ (handle' = "open" \/ (handle' = None /\ Active)),
           ~serving => handle' = None
    PROVE  Good
  <1>1. UNCHANGED Contract!vars
    BY DEF Contract!vars, Body, physical
  <1>2. Inv'
    BY DEF Inv, TypeInv, JournalInv, physical, Canceled, Active
  <1> QED BY <1>1, <1>2 DEF Good, Halts

\* The action server's steps are invisible in the contract.
LEMMA QuietSteps == Inv /\ (Accepted \/ Canceling \/ TickCloses \/ UNCHANGED vars) => Good
  <1> SUFFICES ASSUME Inv, Accepted \/ Canceling \/ TickCloses \/ UNCHANGED vars PROVE Good
    OBVIOUS
  <1>1. UNCHANGED <<serving, core, inhibited, known, durable, clean, physical>>
    BY DEF Accepted, Canceling, TickCloses, vars, process
  <1>2. /\ handle' \in {None, "open", "canceling"} /\ transition' \in BOOLEAN
        /\ transition' => Canceled(core) /\ (handle' = "open" \/ (handle' = None /\ Active))
        /\ ~serving => handle' = None
    <2>1. /\ None # "open" /\ transition \in BOOLEAN /\ handle \in {None, "open", "canceling"}
          /\ transition => Canceled(core) /\ (handle = "open" \/ (handle = None /\ Active))
          /\ ~serving => handle = None
      BY NoneAssumption DEF Inv, TypeInv
    <2>2. CASE Accepted
      BY <2>1, <2>2 DEF Accepted
    <2>3. CASE Canceling
      BY <2>1, <2>3 DEF Canceling
    <2>4. CASE TickCloses
      BY <2>1, <2>4, NoneAssumption DEF TickCloses
    <2>5. CASE UNCHANGED vars
      BY <2>1, <2>5 DEF vars, process
    <2> QED BY <2>2, <2>3, <2>4, <2>5
  <1> QED BY <1>1, <1>2, QuietGood

\* _goal accepts, and finds the arm as the contract says.
LEMMA GoalGood == ASSUME Inv, NEW e \in Execution, Goal(e) PROVE Good
  <1> DEFINE c == [NoCore EXCEPT !.id = e, !.stage = "VALIDATING", !.next = "VALIDATING"]
  <1>1. /\ serving /\ handle = None /\ ~inhibited /\ ~Active /\ known[e] = "unknown"
        /\ core' = c /\ Persist(c) /\ clean' = (arm = "home" /\ hand = "empty")
        /\ UNCHANGED <<serving, inhibited, handle, transition, physical>>
    BY DEF Goal
  <1>2. "VALIDATING" \in Stage /\ "FINALIZING" \in Stage /\ "VALIDATING" # None
        /\ "VALIDATING" \in Task /\ "NOT_TOUCHED" \in Object
    BY NoneAssumption DEF Stage, Task, Normal, NormalStages, Object
  <1>3. /\ c \in CoreType /\ c.id = e /\ c.id # None /\ c.result = None /\ c.next = "VALIDATING"
        /\ ~c.running /\ ~c.recovering /\ c.pending = None /\ c.object = "NOT_TOUCHED"
        /\ ~c.stopped /\ ~c.recovered /\ c.stage = "VALIDATING"
    <2>1. NoCore \in CoreType
      BY <1>2, Zero DEF NoCore, CoreType
    <2>2. c \in CoreType
      BY <1>2, <2>1 DEF CoreType
    <2> QED BY <2>1, <2>2, NoneAssumption DEF NoCore
  <1> HIDE DEF c
  <1>4. CoreInv(c)
    <2>1. None # "FATAL"
      BY NoneAssumption DEF Status
    <2>2. Underway(c)
      BY <1>2, <1>3, <2>1 DEF Underway, At, Fits
    <2> QED BY <1>3, <2>2 DEF CoreInv
  <1>5. /\ known' \in [Execution -> Contract!Known] /\ durable' \in [Execution -> Contract!Known]
        /\ known' = [known EXCEPT ![e] = Kind(c)]
        /\ JournalInv'
    BY <1>1, <1>3, PersistHolds
  <1>6. TypeInv /\ TypeInv'
    BY <1>1, <1>5 DEF Inv, TypeInv, physical
  <1>7. BodyInv(c, arm', hand', clean')
    BY <1>1, <1>3 DEF BodyInv, Clear, Loose, physical
  <1>8. ~transition
    BY <1>1, NoneAssumption DEF Inv
  <1>9. Inv'
    BY <1>1, <1>4, <1>5, <1>6, <1>7, <1>8 DEF Inv
  <1>10. Contract!Accept(e)
    <2>1. Kind(c) = "active" /\ Contract!Active = {}
      BY <1>1, <1>3, Kinds, ActiveIs
    <2>2. clean' = (Body = "clear") /\ Body' = Body
      BY <1>1, Bodies DEF Body, physical
    <2> QED BY <1>1, <1>5, <2>1, <2>2 DEF Contract!Accept
  <1>11. core.id # e
    <2>1. core.id = e => known[e] = Kind(core)
      BY <1>1, NoneAssumption DEF Inv, JournalInv
    <2> QED BY <1>1, <2>1, Kinds DEF Inv, CoreInv
  <1>12. Contract!Next
    BY <1>10 DEF Contract!Next
  <1> QED BY <1>1, <1>3, <1>9, <1>11, <1>12 DEF Good, Halts

\* A cancellation changes the mode only.
LEMMA CancelGood == ASSUME Inv, NEW requested \in Mode \cup {None}, Cancel(requested) PROVE Good
  <1> DEFINE mode == Resolved(core.mode, requested)
             c == [core EXCEPT !.mode = mode]
  <1>1. /\ serving /\ Active /\ core' = c /\ Persist(c)
        /\ transition' = (handle # "canceling")
        /\ UNCHANGED <<serving, inhibited, handle, clean, physical>>
    BY DEF Cancel
  <1>2. core \in CoreType /\ CoreInv(core) /\ Underway(core)
        /\ BodyInv(core, arm, hand, clean)
    BY <1>1 DEF Inv, CoreInv, Active
  <1>3. mode \in Mode
    BY <1>2 DEF Resolved, Mode, CoreType
  <1>4. mode # None
    BY <1>3, NoneAssumption
  <1> HIDE DEF mode
  <1>5. /\ c \in CoreType /\ c.id = core.id /\ c.mode = mode /\ c.result = core.result
        /\ c.stage = core.stage /\ c.next = core.next /\ c.running = core.running
        /\ c.recovering = core.recovering /\ c.pending = core.pending /\ c.object = core.object
        /\ c.stopped = core.stopped /\ c.recovered = core.recovered
    BY <1>2, <1>3 DEF CoreType
  <1> HIDE DEF c
  <1>6. CoreInv(c)
    <2>1. Underway(c)
      BY <1>2, <1>4, <1>5 DEF Underway, At, Canceled
    <2> QED BY <1>2, <1>5, <2>1 DEF CoreInv
  <1>7. BodyInv(c, arm, hand, clean)
    BY <1>2, <1>5 DEF BodyInv, Clear
  <1>8. /\ core.id \in Execution /\ core.id # None /\ known[core.id] = "active"
        /\ Kind(c) = "active"
    BY <1>1, <1>5, ActiveIs, Kinds DEF Active, Contract!Active
  <1>9. /\ known' \in [Execution -> Contract!Known] /\ durable' \in [Execution -> Contract!Known]
        /\ known' = [known EXCEPT ![c.id] = Kind(c)]
        /\ JournalInv'
    BY <1>1, <1>5, <1>8, PersistHolds
  <1>10. TypeInv'
    BY <1>1, <1>9 DEF Inv, TypeInv, physical
  <1>11. Inv'
    BY <1>1, <1>4, <1>5, <1>6, <1>7, <1>9, <1>10 DEF Inv, TypeInv, Canceled, Active, physical
  <1>12. known' = known
    BY <1>5, <1>8, <1>9 DEF Inv, TypeInv
  <1>13. UNCHANGED Contract!vars
    BY <1>1, <1>12 DEF Contract!vars, Body, physical
  <1> QED BY <1>1, <1>5, <1>11, <1>13 DEF Good, Halts

\* The clock changes the age only.
LEMMA ElapseGood == Inv /\ Elapse => Good
  <1> SUFFICES ASSUME Inv, Elapse PROVE Good
    OBVIOUS
  <1> DEFINE age == core.age + 1
             c == [core EXCEPT !.age = age]
  <1>1. /\ serving /\ core.running /\ ~Late /\ core' = c
        /\ UNCHANGED <<serving, inhibited, handle, transition, known, durable, clean, physical>>
    BY DEF Elapse
  <1>2. /\ core \in CoreType /\ CoreInv(core) /\ BodyInv(core, arm, hand, clean)
        /\ core.id # None /\ core.result = None
    BY <1>1 DEF Inv, CoreInv
  <1>3. age \in 0..Timeout
    <2>1. core.age \in 0..Timeout /\ core.age # Timeout
      BY <1>1, <1>2 DEF CoreType, Late
    <2> QED BY <2>1, TimeoutAssumption
  <1> HIDE DEF age
  <1>4. /\ c \in CoreType /\ c.id = core.id /\ c.mode = core.mode /\ c.result = core.result
        /\ c.stage = core.stage /\ c.next = core.next /\ c.running = core.running
        /\ c.recovering = core.recovering /\ c.pending = core.pending /\ c.object = core.object
        /\ c.stopped = core.stopped /\ c.recovered = core.recovered
    BY <1>2, <1>3 DEF CoreType
  <1> HIDE DEF c
  <1>5. CoreInv(c)
    BY <1>2, <1>4 DEF CoreInv, Underway, At, Canceled
  <1>6. BodyInv(c, arm, hand, clean)
    BY <1>2, <1>4 DEF BodyInv, Clear
  <1>7. Kind(c) = Kind(core)
    BY <1>2, <1>4 DEF Kind
  <1>8. JournalInv'
    BY <1>1, <1>4, <1>7 DEF Inv, JournalInv
  <1>9. Inv'
    BY <1>1, <1>2, <1>4, <1>5, <1>6, <1>8 DEF Inv, TypeInv, Canceled, Active, physical
  <1>10. UNCHANGED Contract!vars
    BY <1>1 DEF Contract!vars, Body, physical
  <1> QED BY <1>1, <1>4, <1>9, <1>10 DEF Good, Halts

\* The arm settles; the hand changes only while the arm handles.
LEMMA ArmGood == Inv /\ (ArmRests \/ HandChanges) => Good
  <1> SUFFICES ASSUME Inv, ArmRests \/ HandChanges PROVE Good
    OBVIOUS
  <1>1. UNCHANGED <<serving, core, inhibited, handle, transition, known, durable, clean>>
    BY DEF ArmRests, HandChanges, process
  <1>2. /\ arm \in {"moving", "handling"} /\ arm' \in {arm, "home", "out"}
        /\ hand' \in {"empty", "full"}
        /\ hand' # hand => arm = "handling"
    BY DEF ArmRests, HandChanges, Inv, TypeInv
  <1>3. BodyInv(core, arm', hand', clean)
    BY <1>2 DEF Inv, BodyInv
  <1>4. Inv'
    BY <1>1, <1>2, <1>3 DEF Inv, TypeInv, JournalInv, Active
  <1>5. Body = "moving" /\ Body' \in Contract!Body
    BY <1>2 DEF Body, Contract!Body
  <1>6. Contract!Settle
    BY <1>1, <1>5 DEF Contract!Settle
  <1> QED BY <1>1, <1>4, <1>6 DEF Good, Halts, Contract!Next

\* A crash forgets the core.
LEMMA CrashGood == Inv /\ Crash => Good
  <1> SUFFICES ASSUME Inv, Crash PROVE Good
    OBVIOUS
  <1>1. /\ serving /\ ~serving' /\ serving' = FALSE /\ core' = NoCore /\ handle' = None
        /\ transition' = FALSE
        /\ UNCHANGED <<inhibited, known, durable, clean, physical>>
    BY DEF Crash
  <1>2. CoreInv(NoCore) /\ BodyInv(NoCore, arm, hand, clean)
    <2>1. "FINALIZING" \in Stage /\ "NOT_TOUCHED" \in Object
      BY DEF Stage, Object
    <2>2. NoCore \in CoreType
      BY <2>1, Zero DEF NoCore, CoreType
    <2> QED BY <2>2 DEF NoCore, CoreInv, BodyInv
  <1>3. Inv'
    BY <1>1, <1>2 DEF Inv, TypeInv, JournalInv, physical
  <1>4. Contract!Crash
    BY <1>1 DEF Contract!Crash, Body, physical
  <1>5. Halts
    BY <1>1 DEF Halts, NoCore, Normal, NormalStages
  <1> QED BY <1>3, <1>4, <1>5 DEF Good, Contract!Next

\* A restart finds in the database what the contract allows.
LEMMA RestartGood == Inv /\ Restart => Good
  <1> SUFFICES ASSUME Inv, Restart PROVE Good
    OBVIOUS
  <1>1. /\ ~serving /\ serving' = TRUE /\ core = NoCore /\ handle = None
        /\ known' = [e \in Execution |->
                        IF durable[e] = "active" THEN "interrupted" ELSE durable[e]]
        /\ durable' \in [Execution -> {durable[e] : e \in Execution} \cup {"interrupted"}]
        /\ \A e \in Execution : durable'[e] \in {durable[e], known'[e]}
        /\ inhibited' = (\E e \in Execution : Inhibits(known'[e]))
        /\ UNCHANGED <<core, handle, transition, clean, physical>>
    BY DEF Inv, Restart
  <1>2. /\ known \in [Execution -> Contract!Known] /\ durable \in [Execution -> Contract!Known]
        /\ \A e \in Execution : Durable(known[e], durable[e])
    BY DEF Inv, TypeInv, JournalInv
  <1>3. /\ known' \in [Execution -> Contract!Known] /\ durable' \in [Execution -> Contract!Known]
        /\ \A e \in Execution : known'[e] # "active" /\ Durable(known'[e], durable'[e])
    <2>1. "interrupted" \in Contract!Known
      BY DEF Contract!Known
    <2>2. known' \in [Execution -> Contract!Known] /\ durable' \in [Execution -> Contract!Known]
      BY <1>1, <1>2, <2>1
    <2> QED BY <1>1, <1>2, <2>2 DEF Durable
  <1>4. JournalInv'
    BY <1>1, <1>3 DEF JournalInv, NoCore
  <1>5. Inv'
    BY <1>1, <1>3, <1>4 DEF Inv, TypeInv, Active, physical
  <1>6. \A e \in Execution :
          known'[e] \in CASE known[e] = "unknown" -> {"unknown"}
                          [] known[e] = "active"  -> {"unknown", "interrupted"}
                          [] known[e] = "interrupted" -> {"interrupted"}
                          [] OTHER -> {"unknown", "interrupted", known[e]}
    BY <1>1, <1>2 DEF Durable
  <1>7. Contract!Restart
    BY <1>1, <1>3, <1>6 DEF Contract!Restart, Inhibits, Contract!Inhibiting, Body, physical
  <1> QED BY <1>1, <1>5, <1>7 DEF Good, Halts, Contract!Next

\* Every step.
LEMMA NextGood == Inv /\ [Next]_vars => Good
  BY TicksGood, QuietSteps, GoalGood, CancelGood, ElapseGood, ArmGood, CrashGood, RestartGood, Zenon
  DEF Next, NodeSteps, TickSteps, Ticks

\* The initial states.
LEMMA InitGood == Init => Inv /\ Contract!Init
  <1> SUFFICES ASSUME Init PROVE Inv /\ Contract!Init
    OBVIOUS
  <1>1. CoreInv(NoCore) /\ BodyInv(NoCore, arm, hand, clean) /\ NoCore.id = None
    <2>1. "FINALIZING" \in Stage /\ "NOT_TOUCHED" \in Object
      BY DEF Stage, Object
    <2>2. NoCore \in CoreType
      BY <2>1, Zero DEF NoCore, CoreType
    <2> QED BY <2>2 DEF NoCore, CoreInv, BodyInv
  <1>2. JournalInv
    BY <1>1 DEF Init, JournalInv, Durable
  <1>3. Inv
    BY <1>1, <1>2 DEF Init, Inv, TypeInv, Contract!Known
  <1>4. Contract!Init
    BY Bodies DEF Init, Contract!Init
  <1> QED BY <1>3, <1>4

-----------------------------------------------------------------------------
(* The inductive invariant: that a result is true of the arm rests on what   *)
(* every stage leaves of the object and on what a tick believes of the arm   *)
(* (core.py), and on a journal that is never ahead of the core (store.py).   *)
THEOREM Invariance == Spec => []Inv
  <1>1. Init => Inv
    BY InitGood
  <1>2. Inv /\ [Next]_vars => Inv'
    BY NextGood DEF Good
  <1> QED BY <1>1, <1>2, PTL DEF Spec

(* The core, the goal and the journals keep their types for any executions   *)
(* and deadlines: a stage runs or waits, only a stop has an outcome pending, *)
(* and a goal that is canceling has a mode (core.py).                        *)
THEOREM TypesHold == Spec => []TypeOK
  <1>1. Inv => TypeOK
    BY NoneAssumption DEF Inv, TypeInv, CoreInv, Underway, TypeOK, Active, Stopping
  <1> QED BY <1>1, Invariance, PTL

(* After an accepted cancellation no stage of the task begins, whatever was  *)
(* running, failing or recovering (core.py, tick).                           *)
THEOREM CancellationStops == Spec => CancelStopsProgress
  <1>1. Inv /\ [Next]_vars =>
          [Canceled(core) /\ core'.id = core.id /\ core'.stage # core.stage =>
              /\ core'.stage \notin Normal
              /\ core.mode = "IMMEDIATE" => core'.stage \in {"STOPPING", "FINALIZING"}]_vars
    BY NextGood DEF Good, Halts
  <1> QED BY <1>1, Invariance, PTL DEF Spec, CancelStopsProgress

(* The executor implements ExecutionContract: what a lookup says of an ended *)
(* execution is true of the arm and the hand, and stays so through failed    *)
(* writes and restarts (core.py, store.py).                                  *)
THEOREM ExecutorKeepsContract == Spec => ContractIsKept
  <1>1. Init => Contract!Init
    BY InitGood
  <1>2. Inv /\ [Next]_vars => [Contract!Next]_Contract!vars
    BY NextGood DEF Good
  <1> QED BY <1>1, <1>2, Invariance, PTL DEF Spec, ContractIsKept, Contract!Spec
=============================================================================
