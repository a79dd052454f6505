--------------------------- MODULE RecoveryProof ---------------------------
(***************************************************************************)
(* Theorems about Recovery: for every set of faults, every limit and every *)
(* number of restarts, the types, and the refinement of RecoveryContract.  *)
(***************************************************************************)
EXTENDS Recovery, TLAPS


\* The records of a job and of a goal.
State == {"none"} \cup Live \cup Ended
Job   == [state : State, attempt : 0..MaxAttempts, held : BOOLEAN,
          phase : {"none", "reset", "cancel", "verify"},
          age : Nat, total : 0..TotalTimeout, quit : BOOLEAN]
Goal  == [status : {"none", "RUNNING", "ACCEPTED", "UNKNOWN"} \cup Ended,
          owner : {"none", "rejected"} \cup AtOwner \cup Ended]

\* A job by itself: what is queued has an attempt left, and was not cancelled.
JobInv(j) ==
    /\ j \in Job
    /\ j.held <=> j.phase # "none"
    /\ j.held => j.state \in {"RUNNING", "FAILED"}
    /\ j.state = "none" => j.attempt = 0
    /\ j.state = "IDLE" => j.attempt < MaxAttempts
    /\ j.state \in {"none", "IDLE"} => ~j.quit
    /\ j.phase \in {"reset", "verify"} => ~j.quit

\* A job and its goal: the resource is held until the owner has ended.
GoalInv(j, g) ==
    /\ g \in Goal
    /\ g.status \in Ended => g.owner \notin AtOwner
    /\ g.owner \in AtOwner => j.phase \in {"reset", "cancel"}

\* Together: the resource is shared, so one reset at most is at the owner.
Inv ==
    /\ active \in [Fault -> BOOLEAN] /\ job \in [Fault -> Job] /\ goal \in [Fault -> Goal]
    /\ orphan \in BOOLEAN /\ waits \subseteq Fault /\ restarts \in 0..MaxRestarts
    /\ \A f \in Fault : /\ JobInv(job[f]) /\ GoalInv(job[f], goal[f])
                        /\ InProgress(job[f]) => active[f]
    /\ \A f, g \in Fault : job[f].held /\ job[g].held => f = g

-----------------------------------------------------------------------------
(* The operators on one job.                                               *)

\* The limits, as the provers need them.
LEMMA Limits ==
    /\ MaxAttempts \in Nat /\ MaxAttempts > 0 /\ TotalTimeout \in Nat /\ TotalTimeout > 0
    /\ AttemptTimeout \in Nat /\ CancelTimeout \in Nat /\ VerifyTimeout \in Nat
    /\ MaxRestarts \in Nat
  BY RecoveryTimeAssumption

\* What a new episode begins with.
LEMMA NewJobs ==
    /\ JobInv(NoJob) /\ ~NoJob.held /\ NoJob.state = "none" /\ NoJob.attempt = 0 /\ ~NoJob.quit
    /\ JobInv(Queued) /\ ~Queued.held /\ Queued.state = "IDLE" /\ Queued.attempt = 0
    /\ ~Queued.quit
    /\ NoGoal \in Goal /\ NoGoal.status = "none" /\ NoGoal.owner = "none"
  <1>1. 0 \in 0..MaxAttempts /\ 0 \in 0..TotalTimeout /\ 0 \in Nat /\ 0 < MaxAttempts
    BY Limits
  <1>2. {"none", "IDLE"} \subseteq State
    BY DEF State, Live
  <1>3. NoJob \in Job
    BY <1>1, <1>2 DEF NoJob, Job
  <1>4. Queued \in Job
    BY <1>1, <1>2 DEF NoJob, Queued, Job
  <1>5. NoGoal \in Goal
    BY DEF NoGoal, Goal
  <1> QED BY <1>1, <1>3, <1>4, <1>5 DEF NoJob, Queued, NoGoal, JobInv

\* The ways a job can end, and the phases of a job one by one.
LEMMA OverEffect ==
    ASSUME NEW j \in Job, NEW state \in State
    PROVE  LET q == Over(j, state)
           IN  q \in Job /\ q.state = state /\ ~q.held /\ q.phase = "none"
               /\ q.attempt = j.attempt /\ q.quit = j.quit
  <1> DEFINE t == IF state \in Live THEN j.total ELSE 0
  <1>1. t \in 0..TotalTimeout /\ 0 \in Nat
    BY Limits DEF Job
  <1>2. Over(j, state) = [j EXCEPT !.held = FALSE, !.phase = "none", !.age = 0,
                                   !.total = t, !.state = state]
    BY DEF Over, Job
  <1> HIDE DEF t
  <1> QED BY <1>1, <1>2 DEF Job

\* From j to q when a tick polls the job, and the status of its call is s.
Polls(j, q, s) ==
    /\ JobInv(q) /\ q.attempt = j.attempt /\ (j.quit => q.quit)
    /\ q.held => j.held
    /\ j.phase \in {"reset", "cancel"} /\ s \notin Ended => q.phase \in {"reset", "cancel"}
    /\ InProgress(q) => InProgress(j)

LEMMA RetriedEffect ==
    ASSUME NEW j, JobInv(j)
    PROVE  LET q == Retried(j)
           IN JobInv(q) /\ q.attempt = j.attempt /\ q.quit = j.quit /\ ~q.held
  <1>1. After(j) \in {"CANCELED", "FAILED", "IDLE"}
        /\ (After(j) = "IDLE" => ~j.quit /\ j.attempt < MaxAttempts)
    BY Limits DEF After, JobInv, Job
  <1>2. After(j) \in State
    BY <1>1 DEF State, Live, Ended
  <1> QED BY <1>1, <1>2, OverEffect DEF Retried, JobInv

LEMMA CancelledEffect ==
    ASSUME NEW j, JobInv(j)
    PROVE  LET q == Cancelled(j)
           IN  JobInv(q) /\ q.attempt = j.attempt /\ q.quit /\ (q.held <=> j.held)
               /\ (j.held => q.phase = "cancel") /\ (InProgress(q) => InProgress(j))
  <1> DEFINE q1 == [j EXCEPT !.quit = TRUE]
             q2 == [j EXCEPT !.quit = TRUE, !.phase = "cancel", !.age = 0]
  <1>1. q1 \in Job /\ q1.quit /\ q1.state = j.state /\ q1.attempt = j.attempt
        /\ q1.phase = j.phase /\ q1.held = j.held
    BY DEF JobInv, Job
  <1>2. q2 \in Job /\ q2.quit /\ q2.state = j.state /\ q2.attempt = j.attempt
        /\ q2.phase = "cancel" /\ q2.held = j.held
    BY Limits DEF JobInv, Job
  <1>3. LET q == Over(q1, "CANCELED")
        IN  q \in Job /\ q.state = "CANCELED" /\ ~q.held /\ q.phase = "none"
            /\ q.attempt = j.attempt /\ q.quit
    BY <1>1, OverEffect DEF State, Ended
  <1>4. Cancelled(j) = IF ~j.held THEN Over(q1, "CANCELED")
                       ELSE IF j.phase = "cancel" THEN q1 ELSE q2
    BY DEF Cancelled
  <1> HIDE DEF q1, q2
  <1>5. CASE ~j.held
    BY <1>3, <1>4, <1>5 DEF JobInv, InProgress, Live
  <1>6. CASE j.held /\ j.phase = "cancel"
    <2>1. Cancelled(j) = q1
      BY <1>4, <1>6
    <2> QED BY <1>1, <1>6, <2>1 DEF JobInv, InProgress
  <1>7. CASE j.held /\ j.phase # "cancel"
    <2>1. Cancelled(j) = q2
      BY <1>4, <1>7
    <2> QED BY <1>2, <1>7, <2>1 DEF JobInv, InProgress
  <1> QED BY <1>5, <1>6, <1>7

LEMMA CancelingEffect ==
    ASSUME NEW j, JobInv(j), j.phase = "cancel", NEW s
    PROVE  Polls(j, Canceling(j, s), s)
  <1>1. LET q == [j EXCEPT !.state = "FAILED"]
        IN  q \in Job /\ q.state = "FAILED" /\ q.phase = j.phase /\ q.held = j.held
            /\ q.attempt = j.attempt /\ q.quit = j.quit
    BY DEF JobInv, Job, State, Ended
  <1>2. j.held
    BY DEF JobInv
  <1> QED BY <1>1, <1>2, RetriedEffect DEF Canceling, Polls, JobInv, InProgress

LEMMA VerifyingEffect ==
    ASSUME NEW j, JobInv(j), j.phase = "verify", NEW proven \in BOOLEAN, NEW s
    PROVE  Polls(j, Verifying(j, proven), s)
  <1>1. LET q == Over(j, "SUCCEEDED")
        IN JobInv(q) /\ q.attempt = j.attempt /\ q.quit = j.quit /\ ~q.held
    BY OverEffect DEF JobInv, State, Ended
  <1>2. j.held
    BY DEF JobInv
  <1> QED BY <1>1, <1>2, RetriedEffect DEF Verifying, Polls, InProgress

LEMMA ResettingEffect ==
    ASSUME NEW j, JobInv(j), j.phase = "reset", NEW s, NEW safe \in BOOLEAN
    PROVE  Polls(j, Resetting(j, s, safe), s)
  <1>1. j.held /\ ~j.quit
    BY DEF JobInv
  <1> DEFINE v == [j EXCEPT !.phase = "verify", !.age = 0]
             c == Cancelled(j)
             b == [c EXCEPT !.quit = FALSE]
  <1>2. JobInv(v) /\ v.attempt = j.attempt /\ v.held
    BY <1>1, Limits DEF JobInv, Job
  <1>3. JobInv(c) /\ c.attempt = j.attempt /\ c.held /\ c.phase = "cancel"
    BY <1>1, CancelledEffect
  <1>4. JobInv(b) /\ b.attempt = j.attempt /\ b.held /\ b.phase = "cancel"
    <2> HIDE DEF c
    <2> QED BY <1>3 DEF JobInv, Job
  <1>5. LET r == Retried(j) IN JobInv(r) /\ r.attempt = j.attempt /\ ~r.held
    BY RetriedEffect
  <1>6. \/ s \in Ended /\ Resetting(j, s, safe) \in {v, Retried(j)}
        \/ Resetting(j, s, safe) \in {b, c, j}
    BY DEF Resetting, Ended
  <1> QED
    <2> HIDE DEF v, c, b
    <2> QED BY <1>1, <1>2, <1>3, <1>4, <1>5, <1>6 DEF Polls, InProgress

\* The loop over the jobs, for one of them.
LEMMA PolledEffect ==
    ASSUME NEW f \in Fault, NEW j, JobInv(j), NEW evidence, NEW safe \in BOOLEAN
    PROVE  LET q == Polled(f, j, evidence, safe)
           IN  Polls(j, q, goal[f].status) /\ (j.state = "none" => q = j)
  <1>1. CASE j.phase = "cancel"
    BY <1>1, CancelingEffect DEF Polled, JobInv
  <1>2. CASE j.phase = "verify"
    BY <1>2, VerifyingEffect DEF Polled, JobInv
  <1>3. CASE j.phase = "reset"
    BY <1>3, ResettingEffect DEF Polled, JobInv
  <1>4. CASE j.phase = "none"
    <2>1. JobInv(Over(j, "FAILED")) /\ Over(j, "FAILED").attempt = j.attempt
          /\ Over(j, "FAILED").quit = j.quit /\ ~Over(j, "FAILED").held
      BY OverEffect DEF JobInv, State, Ended
    <2>2. \/ j.state = "IDLE" /\ Polled(f, j, evidence, safe) = Over(j, "FAILED")
          \/ Polled(f, j, evidence, safe) = j
      BY <1>4 DEF Polled
    <2> QED BY <1>4, <2>1, <2>2 DEF Polls, InProgress, Live
  <1> QED BY <1>1, <1>2, <1>3, <1>4 DEF JobInv, Job

-----------------------------------------------------------------------------
(* The tick.                                                               *)

\* The attempts of f at the start of a tick that ends the episodes in over.
Was(f, over) == IF f \in over THEN 0 ELSE job[f].attempt

\* f is at the owner.
Runs(f) == goal[f].owner \in AtOwner

\* What a step does to the resets: one new attempt at most, made when no reset runs.
Serves(over) ==
    /\ \A f \in over : ~Runs(f)
    /\ \A f \in Fault \ over : job[f].quit => job'[f].quit
    /\ \/ /\ \A f \in Fault : job'[f].attempt = Was(f, over)
          /\ \A f \in Fault : Runs(f)' => Runs(f)
       \/ \E f \in Fault :
             /\ f \in over \/ ~job[f].quit
             /\ Was(f, over) < MaxAttempts /\ job'[f].attempt = Was(f, over) + 1
             /\ \A g \in Fault \ {f} : job'[g].attempt = Was(g, over)
             /\ \/ \A g \in Fault : Runs(g)' => Runs(g)
                \/ /\ \A g \in Fault : ~Runs(g)
                   /\ \A g \in Fault : Runs(g)' <=> g = f

\* A tick ends the episodes of the raised faults, none of which is at the owner.
LEMMA TickedStep ==
    ASSUME Inv, NEW reset, Ticked(reset)
    PROVE  Inv' /\ \E over \in SUBSET Fault : Serves(over)
  <1>1. PICK health \in Reports(reset) :
        LET raised == {f \in Fault : health[f] = "bad"}
            now  == [f \in Fault |->
                       \/ InProgress(job[f]) \/ f \in raised
                       \/ active[f] /\ f \notin reset
                             /\ (f \in Latched \/ health[f] \notin Healthy)]
            old  == [f \in Fault |-> IF f \in raised THEN NoJob ELSE job[f]]
            all  == [f \in Fault |-> IF now[f] /\ f \in Automatic /\ old[f].state = "none"
                                     THEN Queued ELSE old[f]]
        IN  /\ active' = now
            /\ waits' = waits \ raised
            /\ \E safe \in BOOLEAN :
                 LET jobs  == [f \in Fault |-> Polled(f, all[f], health[f], safe)]
                     ready == safe /\ First(jobs) # {} /\ \A f \in Fault : ~jobs[f].held
                 IN  \/ job' = jobs /\ goal' = Kept(jobs)
                     \/ ready /\ \E f \in First(jobs) : Dispatch(f, jobs, health[f])
            /\ UNCHANGED <<orphan, restarts>>
    BY Zenon DEF Ticked
  <1> DEFINE raised == {f \in Fault : health[f] = "bad"}
             now  == [f \in Fault |->
                       \/ InProgress(job[f]) \/ f \in raised
                       \/ active[f] /\ f \notin reset
                             /\ (f \in Latched \/ health[f] \notin Healthy)]
             old  == [f \in Fault |-> IF f \in raised THEN NoJob ELSE job[f]]
             all  == [f \in Fault |-> IF now[f] /\ f \in Automatic /\ old[f].state = "none"
                                      THEN Queued ELSE old[f]]
  <1>2. \A f \in raised : f \in Fault /\ ~InProgress(job[f]) /\ ~job[f].held /\ ~Runs(f)
    <2> TAKE f \in raised
    <2>1. f \in Fault /\ "bad" \in Evidence(f)
      BY DEF Reports
    <2>2. ~active[f]
      BY <2>1 DEF Evidence
    <2> QED BY <2>1, <2>2 DEF Inv, InProgress, JobInv, GoalInv, Runs
  <1>3. /\ active' = now /\ waits' = waits \ raised /\ UNCHANGED <<orphan, restarts>>
        /\ now \in [Fault -> BOOLEAN]
    BY <1>1 DEF Inv, InProgress, JobInv, Job
  <1>4. PICK safe \in BOOLEAN :
        LET jobs  == [f \in Fault |-> Polled(f, all[f], health[f], safe)]
        IN  \/ job' = jobs /\ goal' = Kept(jobs)
            \/ /\ \A f \in Fault : ~jobs[f].held
               /\ \E f \in First(jobs) : Dispatch(f, jobs, health[f])
    BY <1>1
  <1> DEFINE jobs == [f \in Fault |-> Polled(f, all[f], health[f], safe)]
  <1>5. \A f \in Fault : /\ JobInv(all[f]) /\ all[f].attempt = Was(f, raised)
                         /\ all[f].quit => f \notin raised /\ job[f].quit
                         /\ f \notin raised /\ job[f].quit => all[f].quit
                         /\ all[f].held => job[f].held
                         /\ job[f].held => all[f] = job[f]
                         /\ InProgress(all[f]) => now[f]
    <2> TAKE f \in Fault
    <2>1. JobInv(job[f])
      BY DEF Inv
    <2>2. CASE f \in raised
      <3>1. now[f] /\ old[f] = NoJob /\ all[f] \in {NoJob, Queued} /\ ~job[f].held
        BY <1>2, <2>2
      <3> HIDE DEF now, old, all, raised
      <3> QED BY <2>2, <3>1, NewJobs DEF Was
    <2>3. CASE f \notin raised /\ all[f] = job[f]
      <3>1. InProgress(job[f]) => now[f]
        OBVIOUS
      <3> HIDE DEF now, old, all, raised
      <3> QED BY <2>1, <2>3, <3>1 DEF Was
    <2>4. CASE f \notin raised /\ all[f] # job[f]
      <3>1. now[f] /\ job[f].state = "none" /\ all[f] = Queued
        BY <2>4
      <3>2. job[f].attempt = 0 /\ ~job[f].quit /\ ~job[f].held
        BY <2>1, <3>1 DEF JobInv
      <3> HIDE DEF now, old, all, raised
      <3> QED BY <2>4, <3>1, <3>2, NewJobs DEF Was
    <2> QED BY <2>2, <2>3, <2>4
  <1>6. \A f \in Fault : Polls(all[f], jobs[f], goal[f].status)
    <2> HIDE DEF all
    <2> QED BY <1>5, PolledEffect
  <1>7. \A f \in Fault : /\ JobInv(jobs[f]) /\ jobs[f].attempt = Was(f, raised)
                         /\ f \notin raised /\ job[f].quit => jobs[f].quit
                         /\ jobs[f].state = "IDLE" /\ job[f].quit => f \in raised
                         /\ jobs[f].held => job[f].held
                         /\ Runs(f) => jobs[f].phase \in {"reset", "cancel"} /\ jobs[f].held
                         /\ InProgress(jobs[f]) => now[f]
    <2> TAKE f \in Fault
    <2> HIDE DEF raised, now, old, all, jobs
    <2>1. Polls(all[f], jobs[f], goal[f].status)
      BY <1>6
    <2>2. ASSUME Runs(f) PROVE jobs[f].phase \in {"reset", "cancel"}
      <3>1. job[f].held /\ job[f].phase \in {"reset", "cancel"} /\ goal[f].status \notin Ended
        BY <2>2 DEF Runs, Inv, GoalInv, JobInv
      <3> QED BY <1>5, <2>1, <3>1 DEF Polls
    <2> QED BY <1>5, <2>1, <2>2 DEF Polls, JobInv
  <1>8. \A f, g \in Fault : jobs[f].held /\ jobs[g].held => f = g
    BY <1>7 DEF Inv
  <1>9. \A f \in Fault : /\ Kept(jobs)[f] \in {goal[f], NoGoal}
                         /\ GoalInv(jobs[f], Kept(jobs)[f])
                         /\ Kept(jobs)[f].owner \in AtOwner => Runs(f)
    <2> HIDE DEF raised, now, old, all, jobs
    <2>1. Kept(jobs) = [f \in Fault |-> IF jobs[f].held \/ goal[f].owner \in AtOwner
                                        THEN goal[f] ELSE NoGoal]
      BY DEF Kept
    <2>2. "none" \notin AtOwner /\ NoGoal \in Goal /\ NoGoal.owner = "none"
      BY NewJobs DEF AtOwner
    <2> TAKE f \in Fault
    <2>3. GoalInv(job[f], goal[f]) /\ JobInv(job[f])
      BY DEF Inv
    <2>4. CASE Kept(jobs)[f] = goal[f]
      BY <1>7, <2>3, <2>4 DEF GoalInv, Runs
    <2>5. CASE Kept(jobs)[f] = NoGoal
      BY <2>2, <2>5 DEF GoalInv
    <2> QED BY <2>1, <2>4, <2>5
  <1>10. /\ jobs \in [Fault -> Job] /\ Kept(jobs) \in [Fault -> Goal]
         /\ DOMAIN jobs = Fault /\ DOMAIN Kept(jobs) = Fault
    <2>1. DOMAIN jobs = Fault /\ jobs = [f \in Fault |-> jobs[f]]
      OBVIOUS
    <2> HIDE DEF raised, now, old, all, jobs
    <2>2. jobs \in [Fault -> Job]
      BY <1>7, <2>1 DEF JobInv
    <2>3. Kept(jobs) = [f \in Fault |-> Kept(jobs)[f]] /\ DOMAIN Kept(jobs) = Fault
      BY DEF Kept
    <2> QED BY <1>9, <2>1, <2>2, <2>3 DEF GoalInv
  <1>11. CASE job' = jobs /\ goal' = Kept(jobs)
    <2> HIDE DEF raised, now, old, all, jobs
    <2>1. Inv'
      BY <1>3, <1>7, <1>8, <1>9, <1>10, <1>11 DEF Inv
    <2>2. Serves(raised)
      BY <1>2, <1>7, <1>9, <1>11 DEF Serves, Runs
    <2> QED BY <2>1, <2>2 DEF raised
  <1>12. CASE /\ \A f \in Fault : ~jobs[f].held
              /\ \E f \in First(jobs) : Dispatch(f, jobs, health[f])
    <2>1. PICK f \in First(jobs) : Dispatch(f, jobs, health[f])
      BY <1>12
    <2> HIDE DEF raised, now, old, all, jobs
    <2>2. f \in Fault /\ jobs[f].state = "IDLE" /\ JobInv(jobs[f]) /\ now[f]
      BY <1>7, <2>1 DEF First, InProgress, Live
    <2>3. jobs[f].attempt < MaxAttempts /\ ~jobs[f].quit /\ (f \in raised \/ ~job[f].quit)
      BY <1>7, <2>2 DEF JobInv
    <2>4. \A g \in Fault : ~Runs(g) /\ ~jobs[g].held
      BY <1>7, <1>12
    <2>5. CASE /\ job' = [jobs EXCEPT ![f] = Over(@, "SUCCEEDED")]
               /\ goal' = Kept(jobs)
      <3> DEFINE q == Over(jobs[f], "SUCCEEDED")
      <3>1. JobInv(q) /\ q.attempt = jobs[f].attempt /\ (q.quit <=> jobs[f].quit) /\ ~q.held
            /\ q.state = "SUCCEEDED" /\ q \in Job
        BY <2>2, OverEffect DEF JobInv, State, Ended
      <3>2. job' = [jobs EXCEPT ![f] = q]
        BY <2>5
      <3> HIDE DEF q
      <3>3. job'[f] = q /\ (\A g \in Fault \ {f} : job'[g] = jobs[g]) /\ job' \in [Fault -> Job]
        BY <1>10, <2>2, <3>1, <3>2
      <3>4. Inv'
        BY <1>3, <1>7, <1>9, <1>10, <2>2, <2>4, <2>5, <3>1, <3>3
        DEF Inv, GoalInv, InProgress, Live, Runs
      <3>5. Serves(raised)
        BY <1>2, <1>7, <1>9, <2>2, <2>5, <3>1, <3>3 DEF Serves, Runs
      <3> QED BY <3>4, <3>5 DEF raised
    <2>6. CASE Attempt(f, jobs)
      <3> DEFINE q == [jobs[f] EXCEPT !.attempt = @ + 1, !.state = "RUNNING", !.held = TRUE,
                                      !.phase = "reset", !.age = 0]
                 r == Retried(q)
                 s == [status |-> "RUNNING", owner |-> "asked"]
      <3>1. JobInv(q) /\ q.attempt = Was(f, raised) + 1 /\ q.held /\ q.phase = "reset"
        <4> DEFINE n == jobs[f].attempt + 1
        <4>1. n \in 0..MaxAttempts /\ n = Was(f, raised) + 1 /\ jobs[f] \in Job /\ 0 \in Nat
              /\ "RUNNING" \in State
          BY <1>7, <2>2, <2>3, Limits DEF JobInv, Job, State, Live
        <4>2. q = [jobs[f] EXCEPT !.attempt = n, !.state = "RUNNING", !.held = TRUE,
                                  !.phase = "reset", !.age = 0]
          BY <4>1 DEF Job
        <4> HIDE DEF n, q
        <4>3. q \in Job /\ q.attempt = n /\ q.held /\ q.phase = "reset" /\ q.state = "RUNNING"
              /\ q.quit = jobs[f].quit
          BY <4>1, <4>2 DEF Job
        <4> QED BY <2>3, <4>1, <4>3 DEF JobInv
      <3>2. JobInv(r) /\ r.attempt = Was(f, raised) + 1 /\ ~r.held
        BY <3>1, RetriedEffect
      <3>3. GoalInv(q, s) /\ s.owner \in AtOwner /\ s \in Goal
        BY <3>1 DEF GoalInv, Goal, AtOwner, Ended
      <3>4. \/ job' = [jobs EXCEPT ![f] = q] /\ goal' = [Kept(jobs) EXCEPT ![f] = s]
            \/ job' = [jobs EXCEPT ![f] = r] /\ goal' = Kept(jobs)
        BY <2>6, Zenon DEF Attempt
      <3> HIDE DEF q, r, s
      <3>5. CASE job' = [jobs EXCEPT ![f] = q] /\ goal' = [Kept(jobs) EXCEPT ![f] = s]
        <4>1. /\ job'[f] = q /\ goal'[f] = s
              /\ \A g \in Fault \ {f} : job'[g] = jobs[g] /\ goal'[g] = Kept(jobs)[g]
              /\ job' \in [Fault -> Job] /\ goal' \in [Fault -> Goal]
          BY <1>10, <2>2, <3>1, <3>3, <3>5 DEF JobInv
        <4>2. \A g \in Fault : Runs(g)' <=> g = f
          BY <1>9, <2>2, <2>4, <3>3, <4>1 DEF Runs
        <4>3. Inv'
          BY <1>3, <1>7, <1>9, <2>2, <2>4, <3>1, <3>3, <4>1 DEF Inv
        <4>4. Serves(raised)
          BY <1>2, <1>7, <2>2, <2>3, <2>4, <3>1, <4>1, <4>2 DEF Serves
        <4> QED BY <4>3, <4>4 DEF raised
      <3>6. CASE job' = [jobs EXCEPT ![f] = r] /\ goal' = Kept(jobs)
        <4>1. /\ job'[f] = r /\ job' \in [Fault -> Job]
              /\ \A g \in Fault \ {f} : job'[g] = jobs[g]
          BY <1>10, <2>2, <3>2, <3>6 DEF JobInv
        <4>2. Inv'
          BY <1>3, <1>7, <1>9, <1>10, <2>2, <2>4, <3>2, <3>6, <4>1 DEF Inv, GoalInv, Runs
        <4>3. Serves(raised)
          BY <1>2, <1>7, <1>9, <2>2, <2>3, <3>2, <3>6, <4>1 DEF Serves, Runs
        <4> QED BY <4>2, <4>3 DEF raised
      <3> QED BY <3>4, <3>5, <3>6
    <2> QED BY <2>1, <2>5, <2>6 DEF Dispatch
  <1> QED BY <1>4, <1>11, <1>12

-----------------------------------------------------------------------------
(* The other steps end no episode and start no reset.                      *)

\* A step that changes jobs only.
LEMMA JobStep ==
    ASSUME Inv, job' \in [Fault -> Job],
           \A f \in Fault : /\ JobInv(job'[f]) /\ (job'[f].held => job[f].held)
                            /\ job'[f].attempt = job[f].attempt
                            /\ job[f].quit => job'[f].quit
                            /\ Runs(f) => job'[f].phase \in {"reset", "cancel"}
                            /\ InProgress(job'[f]) => active[f],
           waits' \subseteq Fault, UNCHANGED <<active, goal, orphan, restarts>>
    PROVE  Inv' /\ Serves({})
  <1>1. Inv'
    BY DEF Inv, GoalInv, Runs
  <1>2. Serves({})
    BY DEF Serves, Runs, Was
  <1> QED BY <1>1, <1>2

\* A step that changes one goal only.
LEMMA GoalStep ==
    ASSUME Inv, NEW f \in Fault, NEW g \in Goal, GoalInv(job[f], g),
           g.owner \in AtOwner => Runs(f), goal' = [goal EXCEPT ![f] = g],
           orphan' \in BOOLEAN, UNCHANGED <<active, job, waits, restarts>>
    PROVE  Inv' /\ Serves({})
  <1>1. /\ goal' \in [Fault -> Goal] /\ goal'[f] = g
        /\ \A h \in Fault \ {f} : goal'[h] = goal[h]
    BY DEF Inv
  <1>2. Inv'
    BY <1>1 DEF Inv
  <1>3. Serves({})
    BY <1>1 DEF Serves, Runs, Was
  <1> QED BY <1>2, <1>3

LEMMA RequestStep == ASSUME Inv, NEW f \in Fault, Request(f) PROVE Inv' /\ Serves({})
  <1> DEFINE q == IF job[f].state = "none" THEN Queued ELSE job[f]
  <1>1. job[f] \in Job /\ JobInv(job[f]) /\ active[f]
    BY DEF Inv, Request
  <1>2. JobInv(q) /\ q.attempt = job[f].attempt /\ (job[f].quit => q.quit)
        /\ (q.held => job[f].held) /\ (job[f].held => q = job[f])
    BY <1>1, NewJobs DEF JobInv
  <1>3. job' = [job EXCEPT ![f] = q]
    BY DEF Request, Inv
  <1> HIDE DEF q
  <1>4. /\ job' \in [Fault -> Job] /\ job'[f] = q /\ \A g \in Fault \ {f} : job'[g] = job[g]
    BY <1>2, <1>3 DEF Inv, JobInv
  <1>5. \A g \in Fault : /\ JobInv(job'[g]) /\ (job'[g].held => job[g].held)
                         /\ job'[g].attempt = job[g].attempt
                         /\ job[g].quit => job'[g].quit
                         /\ Runs(g) => job'[g].phase \in {"reset", "cancel"}
                         /\ InProgress(job'[g]) => active[g]
    <2> TAKE g \in Fault
    <2>1. JobInv(job[g]) /\ (Runs(g) => job[g].phase \in {"reset", "cancel"} /\ job[g].held)
          /\ (InProgress(job[g]) => active[g])
      BY DEF Inv, GoalInv, JobInv, Runs
    <2> QED BY <1>1, <1>2, <1>4, <2>1
  <1> QED BY <1>4, <1>5, JobStep DEF Request, Inv

LEMMA CancelStep == ASSUME Inv, NEW f \in Fault, Cancel(f) PROVE Inv' /\ Serves({})
  <1> DEFINE q == Cancelled(job[f])
  <1>1. job[f] \in Job /\ JobInv(job[f])
    BY DEF Inv
  <1>2. JobInv(q) /\ q.attempt = job[f].attempt /\ q.quit /\ (q.held <=> job[f].held)
        /\ (job[f].held => q.phase = "cancel") /\ (InProgress(q) => InProgress(job[f]))
    BY <1>1, CancelledEffect
  <1>3. job' = [job EXCEPT ![f] = q]
    BY DEF Cancel, Inv
  <1> HIDE DEF q
  <1>4. /\ job' \in [Fault -> Job] /\ job'[f] = q /\ \A g \in Fault \ {f} : job'[g] = job[g]
    BY <1>2, <1>3 DEF Inv, JobInv
  <1>5. \A g \in Fault : /\ JobInv(job'[g]) /\ (job'[g].held => job[g].held)
                         /\ job'[g].attempt = job[g].attempt
                         /\ job[g].quit => job'[g].quit
                         /\ Runs(g) => job'[g].phase \in {"reset", "cancel"}
                         /\ InProgress(job'[g]) => active[g]
    <2> TAKE g \in Fault
    <2>1. JobInv(job[g]) /\ (Runs(g) => job[g].phase \in {"reset", "cancel"} /\ job[g].held)
          /\ (InProgress(job[g]) => active[g])
      BY DEF Inv, GoalInv, JobInv, Runs
    <2> QED BY <1>1, <1>2, <1>4, <2>1
  <1> QED BY <1>4, <1>5, JobStep DEF Cancel, Inv

LEMMA AnswerStep == ASSUME Inv, NEW f \in Fault, Answer(f) PROVE Inv' /\ Serves({})
  <1>1. \A g \in Fault : Runs(g) => job[g].phase \in {"reset", "cancel"}
    BY DEF Inv, GoalInv, Runs
  <1> QED BY <1>1, JobStep DEF Answer, Inv

LEMMA ElapseStep == ASSUME Inv, Elapse PROVE Inv' /\ Serves({})
  <1>1. \A phase : Limit(phase) \in Nat
    BY Limits DEF Limit
  <1>2. \A a, b \in Nat : Smaller(a, b) \in Nat /\ Smaller(a, b) <= b
    BY DEF Smaller
  <1>3. ASSUME NEW f \in Fault
        PROVE  /\ JobInv(job'[f]) /\ (job'[f].held <=> job[f].held)
               /\ job'[f].attempt = job[f].attempt /\ (job'[f].quit <=> job[f].quit)
               /\ job'[f].phase = job[f].phase /\ job'[f].state = job[f].state
    <2> DEFINE a == Smaller(job[f].age + 1, Limit(job[f].phase))
               b == Smaller(job[f].total + 1, TotalTimeout)
               q == [job[f] EXCEPT !.age = a, !.total = b]
    <2>1. JobInv(job[f]) /\ job[f] \in Job
      BY DEF Inv
    <2>2. job[f].age + 1 \in Nat /\ job[f].total + 1 \in Nat /\ TotalTimeout \in Nat
      BY <2>1, Limits DEF Job
    <2>3. a \in Nat /\ b \in 0..TotalTimeout
      <3>1. b \in Nat /\ b <= TotalTimeout
        BY <1>2, <2>2
      <3>2. Limit(job[f].phase) \in Nat
        BY <1>1
      <3>3. a \in Nat
        BY <1>2, <2>2, <3>2
      <3> QED BY <3>1, <3>3, Limits
    <2>4. job'[f] \in {job[f], q}
      BY <2>1 DEF Elapse, Job
    <2> HIDE DEF a, b
    <2>5. q \in Job /\ q.held = job[f].held /\ q.attempt = job[f].attempt
          /\ q.quit = job[f].quit /\ q.phase = job[f].phase /\ q.state = job[f].state
      BY <2>1, <2>3 DEF Job
    <2> HIDE DEF q
    <2>6. CASE job'[f] = job[f]
      BY <2>1, <2>6
    <2>7. CASE job'[f] = q
      BY <2>1, <2>5, <2>7 DEF JobInv
    <2> QED BY <2>4, <2>6, <2>7
  <1>4. job' \in [Fault -> Job]
    <2>1. job' = [f \in Fault |-> job'[f]]
      BY DEF Elapse
    <2>2. \A f \in Fault : job'[f] \in Job
      BY <1>3 DEF JobInv
    <2> QED BY <2>1, <2>2
  <1>5. \A f \in Fault : /\ Runs(f) => job'[f].phase \in {"reset", "cancel"}
                         /\ InProgress(job'[f]) => active[f]
    BY <1>3 DEF Inv, GoalInv, Runs, InProgress
  <1> QED BY <1>3, <1>4, <1>5, JobStep DEF Elapse, Inv

LEMMA OwnerStep ==
    ASSUME Inv, NEW f \in Fault, Take(f) \/ Execute(f)
    PROVE  Inv' /\ Serves({})
  <1>1. GoalInv(job[f], goal[f]) /\ goal[f] \in Goal
    BY DEF Inv
  <1>2. PICK o \in {"rejected", "working"} \cup Ended :
          /\ goal' = [goal EXCEPT ![f].owner = o]
          /\ UNCHANGED <<active, job, orphan, waits, restarts>>
    BY DEF Take, Execute, OwnerBecomes
  <1>3. Runs(f) /\ goal[f].status \notin Ended
    BY <1>1 DEF Take, Execute, Runs, AtOwner, GoalInv
  <1> DEFINE g == [goal[f] EXCEPT !.owner = o]
  <1>4. g \in Goal /\ g.owner = o /\ g.status = goal[f].status
    BY <1>1 DEF Goal, AtOwner
  <1>5. GoalInv(job[f], g)
    BY <1>1, <1>3, <1>4 DEF GoalInv, Runs
  <1>6. goal' = [goal EXCEPT ![f] = g]
    BY <1>2
  <1>7. orphan' \in BOOLEAN
    BY <1>2 DEF Inv
  <1> HIDE DEF g
  <1> QED BY <1>2, <1>3, <1>4, <1>5, <1>6, <1>7, GoalStep

LEMMA HearStep ==
    ASSUME Inv, NEW f \in Fault, Response(f) \/ Result(f)
    PROVE  Inv' /\ Serves({})
  <1>1. GoalInv(job[f], goal[f]) /\ goal[f] \in Goal
    BY DEF Inv
  <1>2. PICK s \in {"ACCEPTED", "UNKNOWN"} \cup Ended :
          /\ s \in Ended => goal[f].owner \notin AtOwner
          /\ goal' = [goal EXCEPT ![f].status = s]
          /\ UNCHANGED <<active, job, orphan, waits, restarts>>
    BY DEF Response, Result, Hears, Ended, AtOwner
  <1> DEFINE g == [goal[f] EXCEPT !.status = s]
  <1>3. g \in Goal /\ g.owner = goal[f].owner /\ g.status = s
    BY <1>1 DEF Goal
  <1>4. GoalInv(job[f], g) /\ (g.owner \in AtOwner => Runs(f))
    BY <1>1, <1>2, <1>3 DEF GoalInv, Runs
  <1>5. goal' = [goal EXCEPT ![f] = g]
    BY <1>2
  <1>6. orphan' \in BOOLEAN
    BY <1>2 DEF Inv
  <1> HIDE DEF g
  <1> QED BY <1>2, <1>3, <1>4, <1>5, <1>6, GoalStep

LEMMA OrphanStep == ASSUME Inv, OrphanEnds PROVE Inv' /\ Serves({})
  BY DEF OrphanEnds, Inv, Serves, Was, Runs

\* A new process has no jobs, and goals of its own none.
LEMMA RestartStep == ASSUME Inv, Restart PROVE Inv'
  <1>1. /\ job' \in [Fault -> Job] /\ goal' \in [Fault -> Goal] /\ active' \in [Fault -> BOOLEAN]
        /\ \A f \in Fault : job'[f] = NoJob /\ goal'[f] = NoGoal
    BY NewJobs DEF Restart, Inv, JobInv
  <1>2. orphan' \in BOOLEAN /\ waits' = {} /\ restarts' \in 0..MaxRestarts
    <2>1. orphan' \in BOOLEAN /\ waits' = {}
      BY DEF Restart, Inv, OwnerBusy
    <2>2. restarts' \in 0..MaxRestarts
      BY Limits DEF Restart, Inv
    <2> QED BY <2>1, <2>2
  <1>3. \A f \in Fault : GoalInv(NoJob, NoGoal) /\ ~InProgress(NoJob) /\ ~NoJob.held /\ JobInv(NoJob)
    BY NewJobs DEF GoalInv, AtOwner, Ended, InProgress, Live
  <1> QED BY <1>1, <1>2, <1>3 DEF Inv

LEMMA InitInv == Init => Inv
  <1> SUFFICES ASSUME Init PROVE Inv
    OBVIOUS
  <1>1. /\ job \in [Fault -> Job] /\ goal \in [Fault -> Goal] /\ active \in [Fault -> BOOLEAN]
        /\ \A f \in Fault : job[f] = NoJob /\ goal[f] = NoGoal
    BY NewJobs DEF Init, JobInv
  <1>2. orphan \in BOOLEAN /\ waits = {}
    BY DEF Init
  <1>4. restarts \in 0..MaxRestarts
    BY Limits DEF Init
  <1>3. GoalInv(NoJob, NoGoal) /\ ~InProgress(NoJob) /\ ~NoJob.held /\ JobInv(NoJob)
    BY NewJobs DEF GoalInv, AtOwner, Ended, InProgress, Live
  <1> QED BY <1>1, <1>2, <1>3, <1>4 DEF Inv

\* One step per action.
LEMMA NextStep ==
    ASSUME Inv, [Next]_vars
    PROVE  Inv' /\ (Restart \/ UNCHANGED vars \/ \E over \in SUBSET Fault : Serves(over))
  <1> DEFINE Claim == Inv' /\ (Restart \/ UNCHANGED vars \/ \E over \in SUBSET Fault : Serves(over))
  <1> SUFFICES Claim
    OBVIOUS
  <1>1. Inv' /\ Serves({}) => Claim
    OBVIOUS
  <1>2. ASSUME NEW reset, Ticked(reset) PROVE Claim
    BY <1>2, TickedStep
  <1>3. ASSUME NEW f \in Fault, Request(f) \/ Answer(f) \/ Cancel(f) \/ Reset(f) PROVE Claim
    BY <1>1, <1>2, <1>3, RequestStep, AnswerStep, CancelStep, Zenon DEF Reset
  <1>4. ASSUME NEW f \in Fault, Take(f) \/ Execute(f) \/ Response(f) \/ Result(f) PROVE Claim
    BY <1>1, <1>4, OwnerStep, HearStep, Zenon
  <1>5. CASE OrphanEnds \/ Elapse
    BY <1>1, <1>5, OrphanStep, ElapseStep, Zenon
  <1>6. CASE Restart
    BY <1>6, RestartStep
  <1>7. CASE UNCHANGED vars
    BY <1>7 DEF vars, Inv
  <1> HIDE DEF Claim
  <1> QED BY <1>2, <1>3, <1>4, <1>5, <1>6, <1>7, Zenon DEF Next, Tick, Operators, Owner

-----------------------------------------------------------------------------
(* The inductive invariant: that one reset runs at a time is not inductive,  *)
(* since a job must not let go of a goal the owner may still take            *)
(* (recovery.py, update).                                                    *)
THEOREM Invariance == Spec => []Inv
  <1>1. Inv /\ [Next]_vars => Inv'
    BY NextStep
  <1> QED BY <1>1, InitInv, PTL DEF Spec

(* Jobs, calls and faults keep their types for every limit, and a recovery   *)
(* that is not over keeps its fault active (recovery.py, faults.py).         *)
THEOREM TypesHold == Spec => []TypeOK
  <1>1. Inv => TypeOK
    BY DEF Inv, TypeOK, JobInv, Job, State, Goal
  <1> QED BY <1>1, Invariance, PTL

LEMMA ContractInit == Init => Contract!Init
  BY NewJobs DEF Init, Contract!Init, AtOwner

\* What a step does to the resets is a step of the contract.
LEMMA ServesContract ==
    ASSUME NEW over \in SUBSET Fault, Serves(over)
    PROVE  Contract!Serve(over)
  <1> DEFINE running == {f \in Fault : goal[f].owner \in AtOwner}
             tries == [f \in Fault |-> job[f].attempt]
             quit == {f \in Fault : job[f].quit}
             was == [f \in Fault |-> IF f \in over THEN 0 ELSE tries[f]]
  <1>1. \A f \in Fault : was[f] = Was(f, over)
    BY DEF Was
  <1>2. over \subseteq Fault \ running /\ quit \ over \subseteq quit'
    BY DEF Serves, Runs
  <1>3. CASE /\ \A f \in Fault : job'[f].attempt = Was(f, over)
             /\ \A f \in Fault : Runs(f)' => Runs(f)
    <2>1. tries' = was /\ running' \subseteq running
      BY <1>1, <1>3 DEF Runs
    <2> QED BY <1>2, <2>1 DEF Contract!Serve
  <1>4. ASSUME NEW f \in Fault, f \in over \/ ~job[f].quit,
               Was(f, over) < MaxAttempts, job'[f].attempt = Was(f, over) + 1,
               \A g \in Fault \ {f} : job'[g].attempt = Was(g, over),
               \/ \A g \in Fault : Runs(g)' => Runs(g)
               \/ /\ \A g \in Fault : ~Runs(g)
                  /\ \A g \in Fault : Runs(g)' <=> g = f
        PROVE  Contract!Serve(over)
    <2>1. tries' = [was EXCEPT ![f] = @ + 1]
      <3>1. tries' = [g \in Fault |-> job'[g].attempt]
        OBVIOUS
      <3>2. \A g \in Fault : job'[g].attempt = [was EXCEPT ![f] = @ + 1][g]
        BY <1>1, <1>4
      <3> QED BY <3>1, <3>2
    <2>2. f \notin quit \ over /\ was[f] < MaxAttempts
      BY <1>1, <1>4
    <2>3. running' \subseteq running \/ (running = {} /\ running' = {f})
      BY <1>4 DEF Runs
    <2> QED BY <1>2, <1>4, <2>1, <2>2, <2>3 DEF Contract!Serve
  <1> QED BY <1>3, <1>4 DEF Serves

LEMMA ContractStep == ASSUME Inv, [Next]_vars PROVE [Contract!Next]_(Contract!vars)
  <1>1. ASSUME NEW over \in SUBSET Fault, Serves(over) PROVE Contract!Next
    BY <1>1, ServesContract DEF Contract!Next
  <1>2. CASE Restart
    <2>1. \A f \in Fault : job'[f] = NoJob /\ goal'[f] = NoGoal
      BY <1>2 DEF Restart
    <2>2. Contract!Restart
      BY <2>1, NewJobs DEF Contract!Restart, AtOwner
    <2> QED BY <2>2 DEF Contract!Next
  <1>3. CASE UNCHANGED vars
    BY <1>3 DEF vars, Contract!vars
  <1> QED BY <1>1, <1>2, <1>3, NextStep

(* The coordinator implements RecoveryContract: one reset at a time, also    *)
(* when a cancel stays unconfirmed, at most max_attempts in an episode, and  *)
(* none for a cancelled recovery (recovery.py, update and cancel).           *)
THEOREM RecoveryKeepsContract == Spec => ContractIsKept
  BY ContractInit, ContractStep, Invariance, PTL DEF Spec, ContractIsKept, Contract!Spec
====
