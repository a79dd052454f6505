---------------------------- MODULE CleaningTree ----------------------------
(***************************************************************************)
(* The desk behaviour tree of a mission: observe; then plan one action,    *)
(* execute it and observe again, until a fresh scene shows nothing left to *)
(* do.  Around it the Runtime: it may halt the tree between any two ticks  *)
(* (operator, supervisor, fault, budget, a leaf's timeout, an exception),  *)
(* waits for the stop while late results are still settled, and reports.   *)
(*                                                                         *)
(* A tick runs from the answer a leaf waited for to the next leaf that     *)
(* waits; the checks in between are part of it.  Left out: the clock (any  *)
(* timeout may pass), and malformed answers, which a leaf rejects.         *)
(***************************************************************************)
EXTENDS Integers, Sequences, FiniteSets

CONSTANTS
    Object,
    Nothing,        \* no leaf, object, execution or outcome
    MaxActions, MaxRetries,     \* max_actions, max_skill_retries of the policy
    MaxScene        \* bound: observations that are accepted

ASSUME PolicyAssumption ==
    MaxActions \in Nat \ {0} /\ MaxRetries \in Nat /\ MaxScene \in Nat \ {0}

VARIABLES
    phase,          \* "working", "post" (the desk is done), "cancelling", "over", "error"
    waits,          \* the leaf whose operation runs; "cycle" between two cycles
    scene,          \* the last accepted observation
    seen,           \* the ids of the accepted ones
    proposal,       \* the planner's last one
    leaf,           \* the operation of ExecuteOne
    outcome,        \* the executor's outcome of every execution
    context,        \* what the mission will report
    report          \* Nothing, or what it reported

treeVars == <<phase, waits, scene, seen, proposal, leaf, outcome, context, report>>

ExecutionId == 1..MaxActions
Kind      == {"absent", "collect", "leave"}
Action    == {"collect_trash", "skip", "human_review", "done"}

\* OK; FAILED and retryable; any other failure; FATAL; and two with an arm that is not
\* safe to drive with, the last without a confirmed stop.
Outcome == {"ok", "retryable", "failed", "fatal", "unsafe", "moving"}

Leaf == {"cycle", "ObserveBefore", "PlanNext", "ExecuteOne", "Reobserve"}

ASSUME NothingAssumption ==
    Nothing \notin ExecutionId /\ Nothing \notin Outcome \cup {"skipped"} \cup Leaf

NoLeaf == [execution |-> Nothing, consumed |-> FALSE]

\* ActionRecord; only an action that was executed has an execution.
Record == [object : Object, scene : 1..MaxScene, execution : ExecutionId \cup {Nothing},
           status : Outcome \cup {"skipped"}]

Context ==
    [records : Seq(Record),
     completed : Seq(Object), skipped : SUBSET Object, review : BOOLEAN, actions : 0..MaxActions,
     failures : [Object -> 0..(MaxRetries + 1)], abort : BOOLEAN]

TreeInit ==
    /\ phase = "working" /\ waits = "ObserveBefore"
    /\ scene = [id |-> 0, objects |-> [o \in Object |-> "absent"]]
    /\ seen = {}
    /\ proposal = Nothing /\ leaf = NoLeaf
    /\ outcome = [e \in ExecutionId |-> Nothing]
    /\ context = [records |-> <<>>, completed |-> <<>>, skipped |-> {}, review |-> FALSE,
                  actions |-> 0, failures |-> [o \in Object |-> 0], abort |-> FALSE]
    /\ report = Nothing

Begun == {e \in ExecutionId : \E n \in 1..Len(context.records) :
                context.records[n].execution = e} \cup ({leaf.execution} \ {Nothing})
-----------------------------------------------------------------------------
(* Leaves.                                                                 *)

\* The tick's FAILURE, or what stops it: the Runtime halts the tree.
Fails == phase' = "cancelling" /\ waits' = Nothing

Goes(to) == phase' = phase /\ waits' = to

\* Mutant of Fresh: an observation may be one that was seen.
FreshEnough(id) == id >= scene.id

Fresh(id) == id \notin seen

\* _verify, after an observation that showed these objects.
AllSkipped(objects) == \A o \in Object : objects[o] # "absent" => o \in context.skipped

\* Mutant of Verified: an action that failed for good does not end the tree.
VerifiedAnyway(objects) ==
    IF proposal.action = "done" /\ AllSkipped(objects) THEN phase' = "post" /\ waits' = Nothing
    ELSE Goes("cycle")

Verified(objects) ==
    CASE context.abort -> Fails
      [] ~context.abort /\ proposal.action = "done" /\ AllSkipped(objects) ->
            phase' = "post" /\ waits' = Nothing
      [] OTHER -> Goes("cycle")

\* ObserveBefore, Reobserve: the perception answers, with a scene that may be an old one.
Observed ==
    /\ phase = "working" /\ waits \in {"ObserveBefore", "Reobserve"}
    /\ \E id \in 1..MaxScene, objects \in [Object -> Kind] :
          /\ id <= Cardinality(seen) + 1
          /\ IF Fresh(id)
             THEN /\ scene' = [id |-> id, objects |-> objects]
                  /\ seen' = seen \cup {id}
                  /\ IF waits = "ObserveBefore" THEN Goes("PlanNext") ELSE Verified(objects)
             ELSE Fails /\ UNCHANGED <<scene, seen>>
    /\ UNCHANGED <<proposal, leaf, outcome, context, report>>

\* The next cycle: UntilVerified has reset the leaves, and planning starts.
NextCycle ==
    /\ phase = "working" /\ waits = "cycle"
    /\ Goes("PlanNext")
    /\ UNCHANGED <<scene, seen, proposal, leaf, outcome, context, report>>

\* Mutant of Valid: one action more than the budget.
ValidOnceMore(p) ==
    /\ p.scene = scene.id
    /\ \/ p.action = "done"
       \/ /\ scene.objects[p.object] # "absent"
          /\ p.object \notin context.skipped
          /\ p.action = "collect_trash" => scene.objects[p.object] = "collect"
          /\ context.actions <= MaxActions

\* _validate.
Valid(p) ==
    /\ p.scene = scene.id
    /\ \/ p.action = "done"
       \/ /\ scene.objects[p.object] # "absent"
          /\ p.object \notin context.skipped
          /\ p.action = "collect_trash" => scene.objects[p.object] = "collect"
          /\ context.actions < MaxActions

Skipped(p) ==
    [context EXCEPT !.actions = @ + 1,
                    !.skipped = @ \cup {p.object},
                    !.review  = @ \/ p.action = "human_review",
                    !.records = Append(@, [object |-> p.object, scene |-> p.scene,
                                           execution |-> Nothing, status |-> "skipped"])]

\* PlanNext, ValidateProposal and the start of ExecuteOne.
Planned ==
    /\ phase = "working" /\ waits = "PlanNext"
    /\ \E p \in [action : Action, object : Object, scene : {scene.id, scene.id - 1}] :
          /\ proposal' = p
          /\ \/ ~Valid(p) /\ Fails /\ UNCHANGED <<leaf, context>>
             \/ /\ Valid(p) /\ p.action = "done"
                /\ Goes("Reobserve") /\ leaf' = NoLeaf /\ UNCHANGED context
             \/ /\ Valid(p) /\ p.action \in {"skip", "human_review"}
                /\ Goes("Reobserve") /\ leaf' = NoLeaf /\ context' = Skipped(p)
             \/ /\ Valid(p) /\ p.action = "collect_trash"
                /\ context' = [context EXCEPT !.actions = @ + 1]
                /\ \/ /\ Goes("ExecuteOne")
                      /\ leaf' = [execution |-> context.actions + 1, consumed |-> FALSE]
                   \/ Fails /\ leaf' = NoLeaf                   \* start raises
    /\ UNCHANGED <<scene, seen, outcome, report>>

\* _executed, of the pending execution.
Recorded(status) ==
    Append(context.records, [object |-> proposal.object, scene |-> proposal.scene,
                             execution |-> leaf.execution, status |-> status])

Abandons(status) ==
    status = "failed" \/ context.failures[proposal.object] + 1 > MaxRetries

Executed(status) ==
    CASE status \in {"unsafe", "moving"} ->
            [context EXCEPT !.records = Recorded(status), !.review = TRUE]
      [] status = "fatal" -> [context EXCEPT !.records = Recorded(status)]
      [] status = "ok" ->
            [context EXCEPT !.records = Recorded(status),
                            !.completed = Append(@, proposal.object)]
      [] OTHER ->
            [context EXCEPT !.records = Recorded(status),
                            !.failures[proposal.object] = @ + 1,
                            !.abort = @ \/ Abandons(status)]

Succeeds(status) == status \notin {"fatal", "unsafe", "moving"}

\* ExecuteOne: the executor has answered.
ExecuteOne ==
    /\ phase = "working" /\ waits = "ExecuteOne" /\ outcome[leaf.execution] # Nothing
    /\ context' = Executed(outcome[leaf.execution])
    /\ leaf' = [leaf EXCEPT !.consumed = TRUE]
    /\ IF Succeeds(outcome[leaf.execution]) THEN Goes("Reobserve") ELSE Fails
    /\ UNCHANGED <<scene, seen, proposal, outcome, report>>

\* The executor, in its own time; it has a different outcome only for a new execution.
Answer ==
    /\ leaf.execution # Nothing /\ outcome[leaf.execution] = Nothing
    /\ \E status \in Outcome : outcome' = [outcome EXCEPT ![leaf.execution] = status]
    /\ UNCHANGED <<phase, waits, scene, seen, proposal, leaf, context, report>>
-----------------------------------------------------------------------------
(* The Runtime.                                                            *)

\* _begin_stop, from any of its callers.
Halt ==
    /\ phase \in {"working", "post"}
    /\ phase' = "cancelling" /\ waits' = Nothing
    /\ UNCHANGED <<scene, seen, proposal, leaf, outcome, context, report>>

\* Mutant of Settles: a result that the leaf has consumed is settled again.
SettlesAgain == leaf.execution # Nothing /\ outcome[leaf.execution] # Nothing

Settles == SettlesAgain /\ ~leaf.consumed

\* settle, at the start of a tick in CANCELLING or ERROR.
Settle ==
    IF Settles
    THEN context' = Executed(outcome[leaf.execution]) /\ leaf' = [leaf EXCEPT !.consumed = TRUE]
    ELSE UNCHANGED <<context, leaf>>

PortStopped ==
    leaf.execution # Nothing => outcome[leaf.execution] \notin {Nothing, "moving"}
PortSafe ==
    leaf.execution # Nothing => outcome[leaf.execution] \notin {Nothing, "moving", "unsafe"}

\* A tick in CANCELLING: the stop is confirmed, or has taken too long, or not yet.  The
\* drive home that may follow a confirmed stop changes nothing of the report.
TickCancelling ==
    /\ phase = "cancelling"
    /\ Settle
    /\ \/ /\ PortStopped
          /\ report' = [context |-> context', timedOut |-> FALSE]
          /\ phase' \in IF PortSafe THEN {"over", "error"} ELSE {"error"}
       \/ /\ ~PortStopped
          /\ report' = [context |-> context', timedOut |-> TRUE]
          /\ phase' = "error"
       \/ /\ ~PortStopped
          /\ UNCHANGED <<phase, report>>
    /\ UNCHANGED <<waits, scene, seen, proposal, outcome>>

\* The desk is done, the drive home too: the mission ends without a stop.
FinishHome ==
    /\ phase = "post"
    /\ phase' = "over" /\ report' = [context |-> context, timedOut |-> FALSE]
    /\ UNCHANGED <<waits, scene, seen, proposal, leaf, outcome, context>>

\* A tick in ERROR settles what answers after the report.
TickError ==
    /\ phase = "error" /\ Settles /\ Settle
    /\ UNCHANGED <<phase, waits, scene, seen, proposal, outcome, report>>

TreeNext ==
    \/ Observed \/ NextCycle \/ Planned \/ ExecuteOne \/ Answer
    \/ Halt \/ TickCancelling \/ FinishHome \/ TickError

TreeSpec == TreeInit /\ [][TreeNext]_treeVars
-----------------------------------------------------------------------------
(* Properties.                                                             *)

\* The types, and the budgets of the policy: actions, and failures of one object.
TreeTypeOK ==
    /\ phase \in {"working", "post", "cancelling", "over", "error"}
    /\ waits \in Leaf \cup {Nothing}
    /\ phase = "working" <=> waits # Nothing
    /\ scene.id \in 0..MaxScene /\ scene.objects \in [Object -> Kind] /\ seen = 1..scene.id
    /\ context \in Context
    /\ leaf \in [execution : ExecutionId \cup {Nothing}, consumed : BOOLEAN]
    /\ outcome \in [ExecutionId -> Outcome \cup {Nothing}]

(* The report of a mission whose stop was confirmed has every execution that *)
(* was started exactly once, with the executor's outcome, also when it came  *)
(* after the tree was halted or had timed out; an unsafe one asks for a      *)
(* human.  A report after a stop that took too long has none twice.          *)
ReportIsComplete ==
    report # Nothing =>
        LET records == report.context.records
            Of(e) == {n \in 1..Len(records) : records[n].execution = e}
        IN /\ \A e \in Begun :
                 /\ Cardinality(Of(e)) <= 1
                 /\ ~report.timedOut => Of(e) # {}
           /\ \A e \in ExecutionId : \A n \in Of(e) : records[n].status = outcome[e]
           /\ (\E n \in 1..Len(records) : records[n].status \in {"unsafe", "moving"})
                 => report.context.review

(* An execution starts on an object that the newest observation shows and    *)
(* allows, and no other execution was started on that observation: the desk  *)
(* was seen again after every action, and every action before was answered   *)
(* and left an arm that is safe.                                             *)
StartsOnFreshScene ==
    [][waits # "ExecuteOne" /\ waits' = "ExecuteOne" =>
          /\ \A id \in seen : id <= proposal'.scene
          /\ scene.objects[proposal'.object] = "collect"
          /\ \A n \in 1..Len(context.records) :
                context.records[n].execution # Nothing =>
                    /\ context.records[n].scene < proposal'.scene
                    /\ context.records[n].status \in {"ok", "retryable"}
          /\ leaf.execution # Nothing => leaf.consumed]_treeVars

(* The desk is reported done only on an observation that was made after the  *)
(* last action and shows nothing but objects that were left on purpose; no   *)
(* object's failures were exhausted.                                         *)
DoneMeansClean ==
    phase = "post" =>
        /\ AllSkipped(scene.objects) /\ ~context.abort
        /\ \A n \in 1..Len(context.records) : context.records[n].scene < scene.id
        /\ \A n \in 1..Len(context.records) :
              context.records[n].status \in {"ok", "retryable", "skipped"}
=============================================================================
