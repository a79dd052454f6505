------------------------------ MODULE Recovery ------------------------------
(***************************************************************************)
(* The Supervisor's recovery of components: RecoveryCoordinator, the       *)
(* faults it serves, the RecoverComponent calls of ActionCalls, and the    *)
(* owner that executes them (LifecycleRecovery), which serves one goal at  *)
(* a time for all components and outlives a restart of the Supervisor.     *)
(*                                                                         *)
(* A fault keeps one job for its episode.  The phase of a job that holds   *)
(* the resource says which of attempt_at, cancel_at and verify_after       *)
(* counts, age how long; the cancel flag of its call is set in the phase   *)
(* "cancel".  The answers of the owner arrive late, or never ("UNKNOWN").  *)
(*                                                                         *)
(* All faults have the same severity and one policy.  What the sources     *)
(* report, safety, standstill and the mission stops are the environment's  *)
(* choice in every tick.                                                   *)
(* Forgetting a finished job after its episode (prune) changes nothing.    *)
(***************************************************************************)
EXTENDS Integers

CONSTANTS
    Fault,          \* fault codes with a recovery policy
    Latched,        \* those that only an operator clears
    Automatic,      \* those that are recovered without a request
    MaxAttempts, AttemptTimeout, CancelTimeout, VerifyTimeout, TotalTimeout,
    MaxRestarts     \* bound: restarts of the Supervisor

ASSUME FaultAssumption == Latched \subseteq Fault /\ Automatic \subseteq Fault
ASSUME RecoveryTimeAssumption ==
    /\ {MaxAttempts, AttemptTimeout, CancelTimeout, VerifyTimeout, TotalTimeout}
           \subseteq Nat \ {0}
    /\ MaxRestarts \in Nat

VARIABLES
    active,         \* FaultManager.faults: the active ones
    job,            \* the job of the current episode of every fault
    goal,           \* the goal of its last attempt, at the client and at the owner
    orphan,         \* the owner works on a goal of a former Supervisor
    waits,          \* faults whose recovery an operator requested and waits for
    restarts

vars == <<active, job, goal, orphan, waits, restarts>>

Ended   == {"SUCCEEDED", "FAILED", "CANCELED"}
Live    == {"IDLE", "RUNNING"}
AtOwner == {"asked", "working"}

NoJob  == [state |-> "none", attempt |-> 0, held |-> FALSE, phase |-> "none",
           age |-> 0, total |-> 0, quit |-> FALSE]
NoGoal == [status |-> "none", owner |-> "none"]

Queued == [NoJob EXCEPT !.state = "IDLE"]

InProgress(j) == j.held \/ j.state \in Live

\* The evidence of a source that a tick can tell apart: bad for raise_s, healthy for
\* clear_s, and that also since a verification began ("proven"), or none of these.
Healthy == {"stable", "proven"}

Evidence(f) ==
    CASE ~active[f] -> {"none", "bad"}
      [] active[f] /\ job[f].phase = "verify" -> {"none", "stable", "proven"}
      [] OTHER -> {"none", "stable"}

-----------------------------------------------------------------------------
(* The coordinator.                                                        *)

\* The times of a job that is over are not read again.
Over(j, state) == [j EXCEPT !.held = FALSE, !.phase = "none", !.age = 0,
                            !.total = IF state \in Live THEN @ ELSE 0, !.state = state]

\* cancel: a held resource stays held until the owner has ended.
Cancelled(j) ==
    IF ~j.held THEN Over([j EXCEPT !.quit = TRUE], "CANCELED")
    ELSE IF j.phase = "cancel" THEN [j EXCEPT !.quit = TRUE]
    ELSE [j EXCEPT !.quit = TRUE, !.phase = "cancel", !.age = 0]

\* Mutant of After: one attempt more than allowed.
AfterOnceMore(j) ==
    IF j.quit THEN "CANCELED"
    ELSE IF j.attempt > MaxAttempts \/ j.total >= TotalTimeout THEN "FAILED" ELSE "IDLE"

\* _retry_or_fail
After(j) ==
    IF j.quit THEN "CANCELED"
    ELSE IF j.attempt >= MaxAttempts \/ j.total >= TotalTimeout THEN "FAILED" ELSE "IDLE"

Retried(j) == Over(j, After(j))

\* Mutant of Canceling: an unconfirmed cancel gives the resource back.
CancelingForgotten(j, status) ==
    IF status \in Ended \/ j.age >= CancelTimeout THEN Retried(j) ELSE j

\* Mutant of Canceling: a cancel is waited for until the owner answers.
CancelingPatiently(j, status) == IF status \in Ended THEN Retried(j) ELSE j

\* A cancel that is not confirmed in time leaves the resource quarantined.
Canceling(j, status) ==
    CASE status \in Ended -> Retried(j)
      [] status \notin Ended /\ j.age >= CancelTimeout -> [j EXCEPT !.state = "FAILED"]
      [] OTHER -> j

Verifying(j, proven) ==
    CASE proven -> Over(j, "SUCCEEDED")
      [] ~proven /\ (j.age >= VerifyTimeout \/ j.total >= TotalTimeout) -> Retried(j)
      [] OTHER -> j

\* A timeout may retry: it takes back what cancel notes, an explicit cancel does not.
Resetting(j, status, safe) ==
    LET late == j.age >= AttemptTimeout \/ j.total >= TotalTimeout
    IN CASE status = "SUCCEEDED" -> [j EXCEPT !.phase = "verify", !.age = 0]
         [] status \in {"FAILED", "CANCELED"} -> Retried(j)
         [] status \notin Ended /\ late -> [Cancelled(j) EXCEPT !.quit = FALSE]
         [] status \notin Ended /\ ~late /\ ~safe -> Cancelled(j)
         [] OTHER -> j

\* The loop over the jobs, for one of them.
Polled(f, j, evidence, safe) ==
    CASE j.phase = "cancel" -> Canceling(j, goal[f].status)
      [] j.phase = "verify" -> Verifying(j, evidence = "proven")
      [] j.phase = "reset"  -> Resetting(j, goal[f].status, safe)
      [] j.state = "IDLE" /\ j.total >= TotalTimeout -> Over(j, "FAILED")
      [] OTHER -> j

\* The oldest of the queued jobs.
First(jobs) ==
    {f \in Fault : /\ jobs[f].state = "IDLE"
                   /\ \A g \in Fault : jobs[g].state = "IDLE" => jobs[g].total <= jobs[f].total}

\* The calls that are polled again: ended ones of a job that let go are not.
Kept(jobs) == [f \in Fault |-> IF jobs[f].held \/ goal[f].owner \in AtOwner
                               THEN goal[f] ELSE NoGoal]

\* port.start sends the goal, or raises when no server is there.
Attempt(f, jobs) ==
    LET j == [jobs[f] EXCEPT !.attempt = @ + 1, !.state = "RUNNING", !.held = TRUE,
                             !.phase = "reset", !.age = 0]
    IN  \/ /\ job' = [jobs EXCEPT ![f] = j]
           /\ goal' = [Kept(jobs) EXCEPT ![f] = [status |-> "RUNNING", owner |-> "asked"]]
        \/ /\ job' = [jobs EXCEPT ![f] = Retried(j)]
           /\ goal' = Kept(jobs)

Dispatch(f, jobs, evidence) ==
    \/ /\ evidence \in Healthy
       /\ job' = [jobs EXCEPT ![f] = Over(@, "SUCCEEDED")]
       /\ goal' = Kept(jobs)
    \/ evidence \notin Healthy /\ Attempt(f, jobs)

\* What the sources report at a tick; the faults in reset are reset by it, and healthy.
Reports(reset) ==
    {health \in [Fault -> {"bad", "none"} \cup Healthy] :
        \A f \in Fault : health[f] \in IF f \in reset THEN {"stable"} ELSE Evidence(f)}

\* tick: faults are raised and cleared, an unfinished recovery keeps its fault active, and
\* the coordinator is updated.
Ticked(reset) ==
    \E health \in Reports(reset) :
    LET raised == {f \in Fault : health[f] = "bad"}
        now  == [f \in Fault |->
                   \/ InProgress(job[f]) \/ f \in raised
                   \/ active[f] /\ f \notin reset /\ (f \in Latched \/ health[f] \notin Healthy)]
        old  == [f \in Fault |-> IF f \in raised THEN NoJob ELSE job[f]]
        all  == [f \in Fault |-> IF now[f] /\ f \in Automatic /\ old[f].state = "none"
                                 THEN Queued ELSE old[f]]
    IN  /\ active' = now
        /\ waits' = waits \ raised
        /\ \E safe \in BOOLEAN :
             LET jobs  == [f \in Fault |-> Polled(f, all[f], health[f], safe)]
                 ready == safe /\ First(jobs) # {} /\ \A f \in Fault : ~jobs[f].held
             IN  \/ job' = jobs /\ goal' = Kept(jobs)
                 \/ ready /\ \E f \in First(jobs) : Dispatch(f, jobs, health[f])
        /\ UNCHANGED <<orphan, restarts>>

Tick == Ticked({})

-----------------------------------------------------------------------------
(* Operators.                                                              *)

\* RequestRecovery: one job per episode serves all requests.
Request(f) ==
    /\ active[f] /\ f \notin waits
    /\ job' = [job EXCEPT ![f] = IF @.state = "none" THEN Queued ELSE @]
    /\ waits' = waits \cup {f}
    /\ UNCHANGED <<active, goal, orphan, restarts>>

\* The request is woken by a tick and its job is over.
Answer(f) ==
    /\ f \in waits /\ job[f].state \notin Live
    /\ waits' = waits \ {f}
    /\ UNCHANGED <<active, job, goal, orphan, restarts>>

\* The request is woken and was cancelled: also a job that ended meanwhile is.
Cancel(f) ==
    /\ f \in waits
    /\ job' = [job EXCEPT ![f] = Cancelled(@)]
    /\ waits' = IF job'[f].state \in Live THEN waits ELSE waits \ {f}
    /\ UNCHANGED <<active, goal, orphan, restarts>>

\* ResetFault of a healthy source, refused while a recovery is in progress or quarantined.
Reset(f) ==
    /\ active[f] /\ ~InProgress(job[f])
    /\ Ticked({f})

-----------------------------------------------------------------------------
(* The calls and the owner.                                                *)

OwnerBusy == orphan \/ \E f \in Fault : goal[f].owner = "working"

OwnerBecomes(f, o) ==
    /\ goal' = [goal EXCEPT ![f].owner = o]
    /\ UNCHANGED <<active, job, orphan, waits, restarts>>

\* A goal is taken, or rejected while another recovery runs.
Take(f) ==
    /\ goal[f].owner = "asked"
    /\ OwnerBecomes(f, IF OwnerBusy THEN "rejected" ELSE "working")

\* Its lifecycle commands succeed, or one fails or times out, or a cancel comes between.
Execute(f) ==
    /\ goal[f].owner = "working"
    /\ \E end \in Ended :
          /\ end = "CANCELED" => job[f].phase = "cancel" /\ goal[f].status = "ACCEPTED"
          /\ OwnerBecomes(f, end)

Hears(f, status) ==
    /\ goal' = [goal EXCEPT ![f].status = status]
    /\ UNCHANGED <<active, job, orphan, waits, restarts>>

\* _accepted and _result of ActionCalls, or the future raises.
Response(f) ==
    /\ goal[f].status = "RUNNING" /\ goal[f].owner # "asked"
    /\ \/ Hears(f, IF goal[f].owner = "rejected" THEN "FAILED" ELSE "ACCEPTED")
       \/ Hears(f, "UNKNOWN")

Result(f) ==
    /\ goal[f].status = "ACCEPTED" /\ goal[f].owner \in Ended
    /\ Hears(f, goal[f].owner) \/ Hears(f, "UNKNOWN")

OrphanEnds ==
    /\ orphan /\ orphan' = FALSE
    /\ UNCHANGED <<active, job, goal, waits, restarts>>

Smaller(a, b) == IF a < b THEN a ELSE b

Limit(phase) == CASE phase = "reset"  -> AttemptTimeout [] phase = "cancel" -> CancelTimeout
                  [] phase = "verify" -> VerifyTimeout  [] OTHER -> 0

Elapse ==
    /\ job' = [f \in Fault |->
                 IF ~InProgress(job[f]) THEN job[f]
                 ELSE [job[f] EXCEPT !.age = Smaller(@ + 1, Limit(job[f].phase)),
                                     !.total = Smaller(@ + 1, TotalTimeout)]]
    /\ UNCHANGED <<active, goal, orphan, waits, restarts>>

\* The Supervisor is restarted: latched faults are restored, the jobs are not, and the
\* owner goes on with what it was given; a goal on its way is taken or lost by then.
Restart ==
    /\ restarts < MaxRestarts
    /\ restarts' = restarts + 1
    /\ active' = [f \in Fault |-> active[f] /\ f \in Latched]
    /\ job' = [f \in Fault |-> NoJob] /\ goal' = [f \in Fault |-> NoGoal]
    /\ waits' = {}
    /\ orphan' \in {OwnerBusy, OwnerBusy \/ \E f \in Fault : goal[f].owner = "asked"}

-----------------------------------------------------------------------------
Init ==
    /\ active = [f \in Fault |-> FALSE]
    /\ job = [f \in Fault |-> NoJob] /\ goal = [f \in Fault |-> NoGoal]
    /\ orphan = FALSE /\ waits = {} /\ restarts = 0

Operators == \E f \in Fault : Request(f) \/ Answer(f) \/ Cancel(f) \/ Reset(f)

Owner == \/ \E f \in Fault : Take(f) \/ Execute(f) \/ Response(f) \/ Result(f)
         \/ OrphanEnds

Next == Tick \/ Operators \/ Owner \/ Elapse \/ Restart

\* A tick that changes some job whatever its inputs are.
Due == \E f \in Fault : \A evidence \in Evidence(f), safe \in BOOLEAN :
          Polled(f, job[f], evidence, safe) # job[f]

\* The node's timer ticks, its clock runs and woken requests proceed.  The owner and the
\* sensors owe nothing.
Fairness == /\ WF_vars(Due /\ Tick) /\ WF_vars(Elapse)
            /\ \A f \in Fault : WF_vars(Answer(f))

Spec == Init /\ [][Next]_vars /\ Fairness

-----------------------------------------------------------------------------
(* Properties.                                                             *)

\* The fields of RecoveryJob, of the calls and of the faults keep their types, and a
\* recovery that is not over keeps its fault active.
TypeOK ==
    /\ active \in [Fault -> BOOLEAN]
    /\ job \in [Fault -> [state : {"none"} \cup Live \cup Ended, attempt : 0..MaxAttempts,
                          held : BOOLEAN, phase : {"none", "reset", "cancel", "verify"},
                          age : Nat, total : 0..TotalTimeout, quit : BOOLEAN]]
    /\ goal \in [Fault -> [status : {"none", "RUNNING", "ACCEPTED", "UNKNOWN"} \cup Ended,
                           owner : {"none", "rejected"} \cup AtOwner \cup Ended]]
    /\ orphan \in BOOLEAN /\ waits \subseteq Fault
    /\ restarts \in 0..MaxRestarts
    /\ \A f \in Fault : /\ job[f].held <=> job[f].phase # "none"
                        /\ InProgress(job[f]) => active[f]

\* The contract of RecoveryContract: one reset at a time, also when a cancel stays
\* unconfirmed, a bounded number per episode, and none for a cancelled recovery.
Contract == INSTANCE RecoveryContract WITH
    Fault <- Fault, MaxAttempts <- MaxAttempts,
    running <- {f \in Fault : goal[f].owner \in AtOwner},
    tries <- [f \in Fault |-> job[f].attempt],
    quit <- {f \in Fault : job[f].quit}
ContractIsKept == Contract!Spec

\* An operator who requests a recovery gets an answer, whatever the owner does, and also
\* when nothing may be dispatched.
RequestIsAnswered == \A f \in Fault : f \in waits ~> f \notin waits
=============================================================================
