----------------------- MODULE RecoveryTrigger_proofs -----------------------
(***************************************************************************)
(* The throttle of the recovery endpoint, for every set of threads, every  *)
(* schedule and every limit: its counters, waits and closed actions never  *)
(* contradict each other, the claim it shows is never left behind, and the *)
(* race between the threads costs at most one extra attempt per thread.    *)
(*                                                                         *)
(* The bound on the attempts is not inductive without Escalation, which    *)
(* ties the flag a thread looks at to the count that is bounded.  What a   *)
(* client reads in the job table needs that no two threads answer for the  *)
(* same job (JobsInv).                                                     *)
(***************************************************************************)
EXTENDS RecoveryTrigger, FiniteSetTheorems, SequenceTheorems, TLAPS

(* What the program counter says about a thread's local variables.         *)
LocalsOK ==
  \A h \in Handlers :
    /\ pc[h] # "idle" => req[h] \in Requests
    /\ pc[h] \in ExecutingPcs \cup {"job_created"} => id[h] \in Ids

ThreadsOK ==
  /\ pc \in [Handlers -> Pcs]
  /\ req \in [Handlers -> Requests \cup {NoRequest}]
  /\ id \in [Handlers -> Ids \cup {NoId}]
  /\ LocalsOK

CountsOK ==
  /\ attempts \in [Actions -> Nat]
  /\ backoff \in [Actions -> Nat]

JobsOK == jobs \in Seq([id : Ids, state : JobStates]) /\ Len(jobs) <= MaxJobs

(* The table of jobs and the threads that answer for them.  A thread has a *)
(* request id only from mark_started or create() on, and no other thread   *)
(* has the same; those that have settled a job to come are asynchronous.   *)
BeforeId == {"idle", "check_progress", "check_backoff", "plan_backoff",
             "plan_progress", "accepted"}

JobPcs == {"job_created", "job_started", "job_done", "job_failed"}

IdsOwned ==
  \A h \in Handlers :
    /\ pc[h] \in BeforeId => id[h] = NoId
    /\ pc[h] \in JobPcs => req[h].async /\ id[h] \in Ids
    /\ id[h] # NoId => \A g \in Handlers : id[g] = id[h] => g = h

JobIdsDiffer == \A m, n \in DOMAIN jobs : jobs[m].id = jobs[n].id => m = n

(* The ids of the jobs that threads are working on.                        *)
Held == {i \in Ids : \E h \in Handlers : req[h].async /\ id[h] = i}

Working == {"queued", "running"}

JobsInv == IdsOwned /\ JobIdsDiffer /\ JobsTruthful

IInv ==
  /\ ThreadsOK
  /\ CountsOK
  /\ manual \in [Actions -> BOOLEAN]
  /\ inProgress \in BOOLEAN
  /\ current \in Ids \cup {NoId}
  /\ JobsOK
  /\ Escalation
  /\ ClaimIsLive
  /\ AttemptsBounded
  /\ JobsInv

-----------------------------------------------------------------------------
LEMMA RequestAction ==
  ASSUME NEW r \in Requests
  PROVE  r.action \in Actions
BY DEF Requests

(* Every wait of the schedule is a positive number of seconds.             *)
LEMMA WaitType ==
  ASSUME NEW n \in Nat \ {0}
  PROVE  Wait(n) \in Nat \ {0}
<1>1. Schedule \in Seq(Nat \ {0}) /\ Schedule # <<>>
  BY TriggerAssumption
<1>2. Len(Schedule) \in Nat \ {0}
  BY <1>1
<1>3. (IF n <= Len(Schedule) THEN n ELSE Len(Schedule)) \in 1..Len(Schedule)
  BY <1>2
<1> QED
  BY <1>1, <1>3 DEF Wait

-----------------------------------------------------------------------------
LEMMA ThreadsStep ==
  ASSUME ThreadsOK, [Next]_vars
  PROVE  ThreadsOK'
<1> USE DEF ThreadsOK, LocalsOK, Pcs, PastCheck, ExecutingPcs, Goto, Answer
<1>1. CASE UNCHANGED vars
  BY <1>1 DEF vars, request
<1>2. ASSUME NEW h \in Handlers, Receive(h) PROVE ThreadsOK'
  BY <1>2 DEF Receive
<1>3. ASSUME NEW h \in Handlers, CheckProgress(h) PROVE ThreadsOK'
  BY <1>3 DEF CheckProgress, request
<1>4. ASSUME NEW h \in Handlers, CheckBackoff(h) PROVE ThreadsOK'
  BY <1>4 DEF CheckBackoff, request
<1>5. ASSUME NEW h \in Handlers, PlanBackoff(h) \/ PlanProgress(h) PROVE ThreadsOK'
  BY <1>5 DEF PlanBackoff, PlanProgress, request
<1>6. ASSUME NEW h \in Handlers, StartSync(h) \/ CreateJob(h) PROVE ThreadsOK'
  BY <1>6 DEF StartSync, CreateJob
<1>7. ASSUME NEW h \in Handlers, StartAsync(h) \/ RunJob(h) PROVE ThreadsOK'
  BY <1>7 DEF StartAsync, RunJob, request
<1>8. ASSUME NEW h \in Handlers, Act(h) PROVE ThreadsOK'
  BY <1>8 DEF Act, request
<1>9. ASSUME NEW h \in Handlers, Complete(h) \/ Fail(h) PROVE ThreadsOK'
  BY <1>9 DEF Complete, Fail, request
<1>10. ASSUME NEW h \in Handlers, FinishJob(h) PROVE ThreadsOK'
  BY <1>10 DEF FinishJob
<1>11. ASSUME NEW a \in Actions, BackoffExpires(a) PROVE ThreadsOK'
  BY <1>11 DEF BackoffExpires, request
<1> QED
  BY <1>1, <1>2, <1>3, <1>4, <1>5, <1>6, <1>7, <1>8, <1>9, <1>10, <1>11
     DEF Next, Serve

-----------------------------------------------------------------------------
(* What a step can do to the throttle of an action.                        *)
ThrottleKept == UNCHANGED throttle

LEMMA ThrottleMoves ==
  ASSUME ThreadsOK, [Next]_vars
  PROVE  \/ ThrottleKept
         \/ Clear
         \/ \E h \in Handlers : pc[h] = "succeeded" /\ MarkCompleted(req[h].action)
         \/ \E h \in Handlers : pc[h] = "failed" /\ MarkFailed(req[h].action)
         \/ \E a \in Actions : BackoffExpires(a)
<1> USE DEF ThrottleKept
<1>1. CASE UNCHANGED vars
  BY <1>1 DEF vars
<1>2. ASSUME NEW h \in Handlers, Receive(h) \/ CheckProgress(h) \/ CheckBackoff(h)
             \/ PlanBackoff(h) \/ PlanProgress(h)
      PROVE  ThrottleKept
  BY <1>2 DEF Receive, CheckProgress, CheckBackoff, PlanBackoff, PlanProgress
<1>3. ASSUME NEW h \in Handlers, StartSync(h) \/ CreateJob(h) \/ StartAsync(h)
             \/ RunJob(h) \/ FinishJob(h)
      PROVE  ThrottleKept
  BY <1>3 DEF StartSync, CreateJob, StartAsync, RunJob, FinishJob
<1>4. ASSUME NEW h \in Handlers, Act(h) PROVE ThrottleKept \/ Clear
  BY <1>4 DEF Act
<1>5. ASSUME NEW h \in Handlers, Complete(h)
      PROVE  pc[h] = "succeeded" /\ MarkCompleted(req[h].action)
  BY <1>5 DEF Complete
<1>6. ASSUME NEW h \in Handlers, Fail(h)
      PROVE  pc[h] = "failed" /\ MarkFailed(req[h].action)
  BY <1>6 DEF Fail
<1> QED
  BY <1>1, <1>2, <1>3, <1>4, <1>5, <1>6 DEF Next, Serve

Throttle ==
  /\ CountsOK
  /\ manual \in [Actions -> BOOLEAN]
  /\ Escalation

LEMMA ThrottleStep ==
  ASSUME ThreadsOK, Throttle, [Next]_vars
  PROVE  Throttle'
<1> USE TriggerAssumption DEF Throttle, CountsOK
<1>1. CASE ThrottleKept
  BY <1>1 DEF ThrottleKept, throttle, Escalation, Wait
<1>2. CASE Clear
  BY <1>2 DEF Clear, Escalation
<1>3. ASSUME NEW a \in Actions, MarkCompleted(a) PROVE Throttle'
  BY <1>3 DEF MarkCompleted, Escalation, Wait
<1>4. ASSUME NEW a \in Actions, MarkFailed(a) PROVE Throttle'
  <2>1. attempts' = [attempts EXCEPT ![a] = attempts[a] + 1]
    BY <1>4 DEF MarkFailed
  <2>2. Wait(attempts[a] + 1) \in Nat \ {0}
    BY WaitType
  <2>3. CASE attempts[a] + 1 > MaxAttempts
    <3>1. manual' = [manual EXCEPT ![a] = TRUE] /\ backoff' = [backoff EXCEPT ![a] = 0]
      BY <1>4, <2>3 DEF MarkFailed
    <3> QED
      BY <2>1, <2>3, <3>1 DEF Escalation, Wait
  <2>4. CASE ~(attempts[a] + 1 > MaxAttempts)
    <3>1. manual' = manual /\ backoff' = [backoff EXCEPT ![a] = Wait(attempts[a] + 1)]
      BY <1>4, <2>4 DEF MarkFailed
    <3> QED
      BY <2>1, <2>2, <2>4, <3>1 DEF Escalation, Wait
  <2> QED
    BY <2>3, <2>4
<1>5. ASSUME NEW a \in Actions, BackoffExpires(a) PROVE Throttle'
  BY <1>5 DEF BackoffExpires, Escalation, Wait
<1>6. \A h \in Handlers : pc[h] \in {"succeeded", "failed"} => req[h].action \in Actions
  BY RequestAction DEF ThreadsOK, LocalsOK
<1> QED
  BY <1>1, <1>2, <1>3, <1>4, <1>5, <1>6, ThrottleMoves

-----------------------------------------------------------------------------
ClaimTyped ==
  /\ inProgress \in BOOLEAN
  /\ current \in Ids \cup {NoId}

(* A claim is taken by a thread that executes from then on and given up    *)
(* whenever any of them ends.                                              *)
LEMMA ClaimStep ==
  ASSUME ThreadsOK, ClaimTyped, ClaimIsLive, [Next]_vars
  PROVE  ClaimTyped' /\ ClaimIsLive'
<1> USE TriggerAssumption DEF ClaimTyped, ClaimIsLive
<1>1. CASE Released
  BY <1>1 DEF Released
<1>2. ASSUME NEW h \in Handlers, NEW i \in Ids, MarkStarted(i),
             pc'[h] \in ExecutingPcs, id'[h] = i
      PROVE  ClaimTyped' /\ ClaimIsLive'
  BY <1>2 DEF MarkStarted, Executing
<1>3. ASSUME UNCHANGED claim,
             \A h \in Executing : h \in Executing' /\ id'[h] = id[h]
      PROVE  ClaimTyped' /\ ClaimIsLive'
  BY <1>3 DEF claim
<1> USE DEF ThreadsOK, LocalsOK, Executing, ExecutingPcs, Goto, Answer, request
<1>4. CASE UNCHANGED vars
  BY <1>4, <1>3 DEF vars
<1>5. ASSUME NEW h \in Handlers, Receive(h) \/ CheckProgress(h)
      PROVE  ClaimTyped' /\ ClaimIsLive'
  BY <1>5, <1>3 DEF Receive, CheckProgress
<1>6. ASSUME NEW h \in Handlers, CheckBackoff(h) \/ PlanBackoff(h) \/ PlanProgress(h)
      PROVE  ClaimTyped' /\ ClaimIsLive'
  BY <1>6, <1>3 DEF CheckBackoff, PlanBackoff, PlanProgress
<1>7. ASSUME NEW h \in Handlers, StartSync(h) PROVE ClaimTyped' /\ ClaimIsLive'
  BY <1>7, <1>2 DEF StartSync
<1>8. ASSUME NEW h \in Handlers, StartAsync(h) PROVE ClaimTyped' /\ ClaimIsLive'
  BY <1>8, <1>2 DEF StartAsync
<1>9. ASSUME NEW h \in Handlers, CreateJob(h) \/ RunJob(h) \/ FinishJob(h)
      PROVE  ClaimTyped' /\ ClaimIsLive'
  BY <1>9, <1>3 DEF CreateJob, RunJob, FinishJob
<1>10. ASSUME NEW h \in Handlers, Act(h) PROVE ClaimTyped' /\ ClaimIsLive'
  <2>1. CASE req[h].action = "clear_failure"
    BY <1>10, <2>1, <1>1 DEF Act, Clear
  <2>2. CASE req[h].action # "clear_failure"
    BY <1>10, <2>2, <1>3 DEF Act
  <2> QED
    BY <2>1, <2>2
<1>11. ASSUME NEW h \in Handlers, Complete(h) \/ Fail(h)
       PROVE  ClaimTyped' /\ ClaimIsLive'
  BY <1>11, <1>1 DEF Complete, Fail, MarkCompleted, MarkFailed
<1>12. ASSUME NEW a \in Actions, BackoffExpires(a) PROVE ClaimTyped' /\ ClaimIsLive'
  BY <1>12, <1>3 DEF BackoffExpires
<1> QED
  BY <1>4, <1>5, <1>6, <1>7, <1>8, <1>9, <1>10, <1>11, <1>12 DEF Next, Serve

-----------------------------------------------------------------------------
(* The threads that may still add a failed attempt of a.                   *)
Past(a) == {h \in Handlers : pc[h] \in PastCheck /\ req[h].action = a}

(* A thread gets past the checks only while the action is not closed, and  *)
(* is past them no more when it has counted its failure.                   *)
LEMMA PastMoves ==
  ASSUME ThreadsOK, Throttle, [Next]_vars, NEW a \in Actions
  PROVE  \/ attempts'[a] = attempts[a] /\ Past(a)' \subseteq Past(a)
         \/ attempts'[a] = 0
         \/ attempts'[a] = attempts[a] /\ attempts[a] <= MaxAttempts
         \/ /\ attempts'[a] = attempts[a] + 1
            /\ \E h \in Past(a) : Past(a)' \subseteq Past(a) \ {h}
<1> USE DEF ThreadsOK, LocalsOK, Past, PastCheck, Goto, Answer, request
<1>1. CASE UNCHANGED vars
  BY <1>1 DEF vars, throttle
<1>2. ASSUME NEW h \in Handlers, Receive(h) \/ CheckProgress(h)
      PROVE  attempts'[a] = attempts[a] /\ Past(a)' \subseteq Past(a)
  BY <1>2 DEF Receive, CheckProgress, throttle
<1>3. ASSUME NEW h \in Handlers, CheckBackoff(h) \/ PlanBackoff(h)
      PROVE  /\ attempts'[a] = attempts[a]
             /\ Past(a)' \subseteq Past(a) \/ attempts[a] <= MaxAttempts
  <2>1. attempts' = attempts
    BY <1>3 DEF CheckBackoff, PlanBackoff, throttle
  <2>2. CASE Throttled(req[h].action)
    BY <1>3, <2>1, <2>2 DEF CheckBackoff, PlanBackoff
  <2>3. CASE ~Throttled(req[h].action) /\ req[h].action = a
    <3>1. attempts[a] <= MaxAttempts
      BY <2>3, TriggerAssumption DEF Throttled, Throttle, Escalation, CountsOK
    <3> QED
      BY <2>1, <3>1
  <2>4. CASE ~Throttled(req[h].action) /\ req[h].action # a
    BY <1>3, <2>1, <2>4 DEF CheckBackoff, PlanBackoff
  <2> QED
    BY <2>2, <2>3, <2>4
<1>4. ASSUME NEW h \in Handlers, PlanProgress(h) \/ StartSync(h) \/ CreateJob(h)
             \/ StartAsync(h) \/ RunJob(h) \/ FinishJob(h)
      PROVE  attempts'[a] = attempts[a] /\ Past(a)' \subseteq Past(a)
  BY <1>4 DEF PlanProgress, StartSync, CreateJob, StartAsync, RunJob, FinishJob,
     throttle
<1>5. ASSUME NEW h \in Handlers, Act(h)
      PROVE  \/ attempts'[a] = attempts[a] /\ Past(a)' \subseteq Past(a)
             \/ attempts'[a] = 0
  BY <1>5 DEF Act, Clear, throttle
<1>6. ASSUME NEW h \in Handlers, Complete(h)
      PROVE  \/ attempts'[a] = attempts[a] /\ Past(a)' \subseteq Past(a)
             \/ attempts'[a] = 0
  BY <1>6 DEF Complete, MarkCompleted, Throttle, CountsOK
<1>7. ASSUME NEW h \in Handlers, Fail(h)
      PROVE  \/ attempts'[a] = attempts[a] /\ Past(a)' \subseteq Past(a)
             \/ /\ attempts'[a] = attempts[a] + 1
                /\ \E g \in Past(a) : Past(a)' \subseteq Past(a) \ {g}
  <2>1. attempts' = [attempts EXCEPT ![req[h].action] = @ + 1]
    BY <1>7 DEF Fail, MarkFailed
  <2>2. Past(a)' \subseteq Past(a) \ {h}
    BY <1>7 DEF Fail
  <2>3. CASE req[h].action = a
    BY <1>7, <2>1, <2>2, <2>3 DEF Fail, Throttle, CountsOK
  <2>4. CASE req[h].action # a
    BY <2>1, <2>2, <2>4 DEF Throttle, CountsOK
  <2> QED
    BY <2>3, <2>4
<1>8. ASSUME NEW b \in Actions, BackoffExpires(b)
      PROVE  attempts'[a] = attempts[a] /\ Past(a)' \subseteq Past(a)
  BY <1>8 DEF BackoffExpires
<1> QED
  BY <1>1, <1>2, <1>3, <1>4, <1>5, <1>6, <1>7, <1>8 DEF Next, Serve

LEMMA AttemptsStep ==
  ASSUME ThreadsOK, Throttle, AttemptsBounded, [Next]_vars
  PROVE  AttemptsBounded'
<1> SUFFICES ASSUME NEW a \in Actions
             PROVE  attempts'[a] + Cardinality(Past(a)')
                      <= MaxAttempts + Cardinality(Handlers)
  BY DEF AttemptsBounded, Past
<1>1. attempts[a] + Cardinality(Past(a)) <= MaxAttempts + Cardinality(Handlers)
  BY DEF AttemptsBounded, Past
<1>2. /\ IsFiniteSet(Handlers) /\ MaxAttempts \in Nat /\ attempts[a] \in Nat
      /\ Past(a) \in SUBSET Handlers /\ Past(a)' \in SUBSET Handlers
  BY TriggerAssumption DEF Throttle, CountsOK, Past
<1>3. IsFiniteSet(Past(a)) /\ IsFiniteSet(Past(a)')
  BY <1>2, FS_Subset
<1>4. /\ Cardinality(Handlers) \in Nat
      /\ Cardinality(Past(a)) \in Nat
      /\ Cardinality(Past(a)') \in Nat
  BY <1>2, <1>3, FS_CardinalityType
<1>5. Cardinality(Past(a)') <= Cardinality(Handlers)
  BY <1>2, FS_Subset
<1>6. CASE attempts'[a] = attempts[a] /\ Past(a)' \subseteq Past(a)
  <2>1. Cardinality(Past(a)') <= Cardinality(Past(a))
    BY <1>3, <1>6, FS_Subset
  <2> QED
    BY <1>1, <1>2, <1>4, <1>6, <2>1
<1>7. CASE attempts'[a] = 0 \/ (attempts'[a] = attempts[a] /\ attempts[a] <= MaxAttempts)
  BY <1>2, <1>4, <1>5, <1>7
<1>8. ASSUME attempts'[a] = attempts[a] + 1,
             NEW h \in Past(a), Past(a)' \subseteq Past(a) \ {h}
      PROVE  attempts'[a] + Cardinality(Past(a)')
               <= MaxAttempts + Cardinality(Handlers)
  <2>1. /\ IsFiniteSet(Past(a) \ {h})
        /\ Cardinality(Past(a) \ {h}) = Cardinality(Past(a)) - 1
    BY <1>3, <1>8, FS_RemoveElement
  <2>2. Cardinality(Past(a)') <= Cardinality(Past(a) \ {h})
    BY <1>8, <2>1, FS_Subset
  <2> QED
    BY <1>1, <1>2, <1>4, <1>8, <2>1, <2>2
<1> QED
  BY <1>6, <1>7, <1>8, PastMoves

-----------------------------------------------------------------------------
(* The table of jobs keeps its size and its shape.                         *)
LEMMA JobsStep ==
  ASSUME ThreadsOK, JobsOK, [Next]_vars
  PROVE  JobsOK'
<1> DEFINE Job == [id : Ids, state : JobStates]
<1>1. CASE UNCHANGED jobs
  BY <1>1 DEF JobsOK
<1>2. ASSUME NEW i \in Ids, Create(i) PROVE JobsOK'
  <2> DEFINE all == Append(jobs, [id |-> i, state |-> "queued"])
  <2>1. [id |-> i, state |-> "queued"] \in Job
    BY DEF JobStates
  <2>2. all \in Seq(Job) /\ Len(all) = Len(jobs) + 1 /\ all # <<>>
    BY <2>1 DEF JobsOK
  <2>3. Tail(all) \in Seq(Job) /\ Len(Tail(all)) = Len(jobs)
    BY <2>2 DEF JobsOK
  <2>4. Len(jobs) \in Nat /\ Len(jobs) <= MaxJobs /\ MaxJobs \in Nat
    BY TriggerAssumption DEF JobsOK
  <2>5. jobs' = IF Len(all) > MaxJobs THEN Tail(all) ELSE all
    BY <1>2 DEF Create
  <2> HIDE DEF all
  <2>6. jobs' \in Seq(Job) /\ Len(jobs') <= MaxJobs
    BY <2>2, <2>3, <2>4, <2>5
  <2> QED
    BY <2>6 DEF JobsOK
<1>3. ASSUME NEW i, NEW s \in JobStates, MarkJob(i, s) PROVE JobsOK'
  <2>1. /\ DOMAIN jobs = 1..Len(jobs)
        /\ \A n \in 1..Len(jobs) : jobs[n] \in Job
    BY ElementOfSeq, LenProperties DEF JobsOK
  <2>2. jobs' \in [1..Len(jobs) -> Job]
    <3>1. \A n \in 1..Len(jobs) : [jobs[n] EXCEPT !.state = s] \in Job
      BY <1>3, <2>1
    <3> QED
      BY <1>3, <2>1, <3>1 DEF MarkJob
  <2>3. Len(jobs) \in Nat
    BY DEF JobsOK
  <2> HIDE DEF Job
  <2>4. jobs' \in Seq(Job)
    BY <2>2, <2>3, SeqDef
  <2>5. DOMAIN jobs' = 1..Len(jobs') /\ Len(jobs') \in Nat
    BY <2>4, LenProperties
  <2>6. 1..Len(jobs') = 1..Len(jobs)
    BY <2>2, <2>5
  <2>7. Len(jobs') = Len(jobs)
    BY <2>3, <2>5, <2>6
  <2> QED
    BY <2>4, <2>7 DEF JobsOK, Job
<1>4. ASSUME NEW h \in Handlers, CreateJob(h) \/ RunJob(h) \/ FinishJob(h)
      PROVE  JobsOK'
  BY <1>2, <1>3, <1>4 DEF CreateJob, RunJob, FinishJob, JobStates
<1>5. ASSUME NEW h \in Handlers, Receive(h) \/ CheckProgress(h) \/ CheckBackoff(h)
             \/ PlanBackoff(h) \/ PlanProgress(h) \/ StartSync(h) \/ StartAsync(h)
             \/ Act(h) \/ Complete(h) \/ Fail(h)
      PROVE  UNCHANGED jobs
  BY <1>5 DEF Receive, CheckProgress, CheckBackoff, PlanBackoff, PlanProgress,
     StartSync, StartAsync, Act, Complete, Fail
<1> QED
  BY <1>1, <1>4, <1>5 DEF Next, Serve, vars, BackoffExpires

-----------------------------------------------------------------------------
LEMMA OwnedStep ==
  ASSUME ThreadsOK, IdsOwned, [Next]_vars
  PROVE  IdsOwned'
<1> USE TriggerAssumption
    DEF ThreadsOK, LocalsOK, IdsOwned, BeforeId, JobPcs, Pcs, PastCheck,
        ExecutingPcs, Goto, Answer, request
<1>1. CASE UNCHANGED vars
  BY <1>1 DEF vars
<1>2. ASSUME NEW h \in Handlers, Receive(h) \/ CheckProgress(h) PROVE IdsOwned'
  BY <1>2 DEF Receive, CheckProgress
<1>3. ASSUME NEW h \in Handlers, CheckBackoff(h) PROVE IdsOwned'
  BY <1>3 DEF CheckBackoff
<1>4. ASSUME NEW h \in Handlers, PlanBackoff(h) \/ PlanProgress(h) PROVE IdsOwned'
  BY <1>4 DEF PlanBackoff, PlanProgress
<1>5. ASSUME NEW h \in Handlers, StartSync(h) \/ CreateJob(h) PROVE IdsOwned'
  BY <1>5 DEF StartSync, CreateJob, FreshId
<1>6. ASSUME NEW h \in Handlers, StartAsync(h) \/ RunJob(h) \/ Act(h) PROVE IdsOwned'
  BY <1>6 DEF StartAsync, RunJob, Act
<1>7. ASSUME NEW h \in Handlers, Complete(h) PROVE IdsOwned'
  BY <1>7 DEF Complete
<1>8. ASSUME NEW h \in Handlers, Fail(h) PROVE IdsOwned'
  BY <1>8 DEF Fail
<1>9. ASSUME NEW h \in Handlers, FinishJob(h) PROVE IdsOwned'
  BY <1>9 DEF FinishJob
<1>10. ASSUME NEW a \in Actions, BackoffExpires(a) PROVE IdsOwned'
  BY <1>10 DEF BackoffExpires
<1> QED
  BY <1>1, <1>2, <1>3, <1>4, <1>5, <1>6, <1>7, <1>8, <1>9, <1>10 DEF Next, Serve

(* What a step does to the table, and to the threads that answer for it.   *)
JobsMove ==
  \/ UNCHANGED jobs /\ Held' = Held
  \/ \E i \in Ids : i \notin JobIds \cup Held /\ Create(i) /\ Held' = Held \cup {i}
  \/ \E i \in Held : MarkJob(i, "running") /\ Held' = Held
  \/ \E i \in Held, s \in {"completed", "failed"} :
       MarkJob(i, s) /\ Held' = Held \ {i}

LEMMA JobsMoves ==
  ASSUME ThreadsOK, IdsOwned, [Next]_vars
  PROVE  JobsMove
<1> USE TriggerAssumption
    DEF ThreadsOK, LocalsOK, IdsOwned, BeforeId, JobPcs, Pcs, PastCheck,
        ExecutingPcs, Goto, Answer, request, Held, Requests, NoRequest
<1>1. CASE UNCHANGED vars
  BY <1>1 DEF vars, JobsMove
<1>2. ASSUME NEW h \in Handlers, Receive(h) \/ CheckProgress(h) \/ CheckBackoff(h)
      PROVE  UNCHANGED jobs /\ Held' = Held
  <2>1. pc[h] \in BeforeId /\ id[h] = NoId /\ id'[h] = NoId
    BY <1>2 DEF Receive, CheckProgress, CheckBackoff
  <2>2. \A g \in Handlers \ {h} : req'[g] = req[g] /\ id'[g] = id[g]
    BY <1>2 DEF Receive, CheckProgress, CheckBackoff
  <2>3. UNCHANGED jobs
    BY <1>2 DEF Receive, CheckProgress, CheckBackoff
  <2>4. \A i \in Ids : i \in Held' <=> i \in Held
    BY <2>1, <2>2
  <2> QED
    BY <2>3, <2>4
<1>3. ASSUME NEW h \in Handlers, PlanBackoff(h) \/ PlanProgress(h)
      PROVE  UNCHANGED jobs /\ Held' = Held
  BY <1>3 DEF PlanBackoff, PlanProgress
<1>4. ASSUME NEW h \in Handlers, StartSync(h) \/ StartAsync(h) \/ Act(h)
      PROVE  UNCHANGED jobs /\ Held' = Held
  BY <1>4 DEF StartSync, StartAsync, Act
<1>5. ASSUME NEW h \in Handlers, CreateJob(h) PROVE JobsMove
  <2>1. PICK i \in Ids : FreshId(i) /\ id' = [id EXCEPT ![h] = i] /\ Create(i)
    BY <1>5 DEF CreateJob
  <2>2. i \notin JobIds \cup Held /\ Held' = Held \cup {i}
    BY <1>5, <2>1 DEF CreateJob, FreshId
  <2> QED
    BY <2>1, <2>2 DEF JobsMove
<1>6. ASSUME NEW h \in Handlers, RunJob(h) PROVE JobsMove
  <2>1. id[h] \in Held /\ MarkJob(id[h], "running") /\ Held' = Held
    BY <1>6 DEF RunJob
  <2> QED
    BY <2>1 DEF JobsMove
<1>7. ASSUME NEW h \in Handlers, Complete(h) \/ Fail(h)
      PROVE  UNCHANGED jobs /\ Held' = Held
  BY <1>7 DEF Complete, Fail
<1>8. ASSUME NEW h \in Handlers, FinishJob(h) PROVE JobsMove
  <2>1. id[h] \in Held /\ Held' = Held \ {id[h]}
    BY <1>8 DEF FinishJob
  <2>2. \E s \in {"completed", "failed"} : MarkJob(id[h], s)
    BY <1>8 DEF FinishJob
  <2> QED
    BY <2>1, <2>2 DEF JobsMove
<1>9. ASSUME NEW a \in Actions, BackoffExpires(a)
      PROVE  UNCHANGED jobs /\ Held' = Held
  BY <1>9 DEF BackoffExpires
<1> HIDE DEF Held
<1> QED
  BY <1>1, <1>2, <1>3, <1>4, <1>5, <1>6, <1>7, <1>8, <1>9 DEF Next, Serve, JobsMove

(* JobsTruthful, told of the ids that threads hold.                        *)
LEMMA TruthfulMeans ==
  ASSUME JobsOK
  PROVE  JobsTruthful <=>
           \A n \in DOMAIN jobs : jobs[n].state \in Working <=> jobs[n].id \in Held
<1>1. ASSUME NEW n \in DOMAIN jobs
      PROVE  jobs[n].id \in Held <=> \E h \in Handlers : req[h].async /\ id[h] = jobs[n].id
  <2>1. jobs[n] \in [id : Ids, state : JobStates]
    BY ElementOfSeq, LenProperties DEF JobsOK
  <2>2. jobs[n].id \in Ids
    BY <2>1
  <2> QED
    BY <2>2 DEF Held
<1> QED
  BY <1>1 DEF JobsTruthful, Working

LEMMA TruthfulMeansNext ==
  (JobsOK =>
     (JobsTruthful <=>
        \A n \in DOMAIN jobs : jobs[n].state \in Working <=> jobs[n].id \in Held))'
BY TruthfulMeans, PTL

(* The table after a change that marks one job, or adds one and drops the  *)
(* oldest.                                                                 *)
LEMMA Marked ==
  ASSUME JobsOK, NEW i, NEW s, MarkJob(i, s)
  PROVE  /\ DOMAIN jobs' = DOMAIN jobs
         /\ \A n \in DOMAIN jobs :
              /\ jobs'[n].id = jobs[n].id
              /\ jobs'[n].state = IF jobs[n].id = i THEN s ELSE jobs[n].state
              /\ jobs[n].id # i => jobs'[n] = jobs[n]
<1>1. \A n \in DOMAIN jobs : jobs[n] \in [id : Ids, state : JobStates]
  BY ElementOfSeq, LenProperties DEF JobsOK
<1> QED
  BY <1>1 DEF MarkJob

LEMMA Created ==
  ASSUME JobsOK, NEW i \in Ids, Create(i)
  PROVE  \E d \in {0, 1}, l \in Nat :
           /\ DOMAIN jobs = 1 .. l /\ DOMAIN jobs' = 1 .. (l + 1 - d)
           /\ \A n \in 1 .. (l - d) : jobs'[n] = jobs[n + d]
           /\ jobs'[l + 1 - d] = [id |-> i, state |-> "queued"]
<1> DEFINE Job == [id : Ids, state : JobStates]
           new == [id |-> i, state |-> "queued"]
           all == Append(jobs, new)
<1>1. jobs \in Seq(Job) /\ new \in Job /\ Len(jobs) \in Nat /\ DOMAIN jobs = 1 .. Len(jobs)
  BY LenProperties DEF JobsOK, JobStates
<1> HIDE DEF Job, new
<1>2. /\ all \in Seq(Job) /\ Len(all) = Len(jobs) + 1
      /\ \A n \in 1 .. Len(jobs) : all[n] = jobs[n]
      /\ all[Len(jobs) + 1] = new
  BY <1>1, AppendProperties
<1>3. DOMAIN all = 1 .. Len(all) /\ all # <<>>
  BY <1>1, <1>2, LenProperties
<1>4. jobs' = IF Len(all) > MaxJobs THEN Tail(all) ELSE all
  BY DEF Create, new
<1> HIDE DEF all
<1>5. CASE ~(Len(all) > MaxJobs)
  <2>1. /\ DOMAIN jobs' = 1 .. (Len(jobs) + 1 - 0)
        /\ \A n \in 1 .. (Len(jobs) - 0) : jobs'[n] = jobs[n + 0]
        /\ jobs'[Len(jobs) + 1 - 0] = new
    BY <1>1, <1>2, <1>3, <1>4, <1>5
  <2> QED
    BY <1>1, <2>1 DEF new
<1>6. CASE Len(all) > MaxJobs
  <2>1. Tail(all) \in Seq(Job) /\ Len(Tail(all)) = Len(jobs)
        /\ \A n \in 1 .. Len(jobs) : Tail(all)[n] = all[n + 1]
    BY <1>1, <1>2, <1>3, HeadTailProperties
  <2>2. DOMAIN jobs' = 1 .. Len(jobs)
    BY <1>4, <1>6, <2>1, LenProperties
  <2>3. /\ DOMAIN jobs' = 1 .. (Len(jobs) + 1 - 1)
        /\ \A n \in 1 .. (Len(jobs) - 1) : jobs'[n] = jobs[n + 1]
        /\ Len(jobs) > 0 => jobs'[Len(jobs) + 1 - 1] = new
    BY <1>1, <1>2, <1>4, <1>6, <2>1, <2>2
  <2>4. Len(jobs) > 0
    BY <1>1, <1>2, <1>6, TriggerAssumption
  <2> QED
    BY <1>1, <2>3, <2>4 DEF new
<1> QED
  BY <1>5, <1>6

(* The jobs that a step keeps, and a settled one among them.               *)
LEMMA TableStep ==
  ASSUME ThreadsOK, JobsOK, JobsInv, [Next]_vars
  PROVE  /\ JobIdsDiffer' /\ JobsTruthful'
         /\ \A j \in ToSet(jobs) :
              j.state \in {"completed", "failed"} =>
                \A k \in ToSet(jobs') : k.id = j.id => k = j
<1> DEFINE True(n) == jobs[n].state \in Working <=> jobs[n].id \in Held
           SettledStay == \A m \in DOMAIN jobs, n \in DOMAIN jobs' :
                            jobs[m].state \notin Working /\ jobs'[n].id = jobs[m].id
                              => jobs'[n] = jobs[m]
           Goal == JobIdsDiffer' /\ (\A n \in DOMAIN jobs' : True(n)') /\ SettledStay
<1>1. JobsOK' /\ \A n \in DOMAIN jobs : True(n)
  BY JobsStep, TruthfulMeans DEF JobsInv
<1>2. JobIdsDiffer /\ (\A n \in DOMAIN jobs : jobs[n].id \in JobIds)
  BY DEF JobsInv, JobIds, ToSet
<1>3. ASSUME jobs' = jobs, Held' = Held PROVE Goal
  <2>1. JobIdsDiffer'
    BY <1>2, <1>3 DEF JobIdsDiffer
  <2>2. \A n \in DOMAIN jobs' : True(n)'
    BY <1>1, <1>3
  <2>3. SettledStay
    BY <1>2, <1>3 DEF JobIdsDiffer
  <2> QED
    BY <2>1, <2>2, <2>3
<1>4. ASSUME NEW i \in Held, NEW s \in {"running", "completed", "failed"}, MarkJob(i, s),
             Held' = IF s = "running" THEN Held ELSE Held \ {i}
      PROVE  Goal
  <2>1. /\ DOMAIN jobs' = DOMAIN jobs
        /\ \A n \in DOMAIN jobs :
             /\ jobs'[n].id = jobs[n].id
             /\ jobs'[n].state = IF jobs[n].id = i THEN s ELSE jobs[n].state
             /\ jobs[n].id # i => jobs'[n] = jobs[n]
    BY <1>4, Marked
  <2>2. JobIdsDiffer'
    BY <1>2, <2>1 DEF JobIdsDiffer
  <2>3. \A n \in DOMAIN jobs' : True(n)'
    BY <1>1, <1>4, <2>1 DEF Working
  <2>4. SettledStay
    BY <1>1, <1>2, <1>4, <2>1 DEF JobIdsDiffer
  <2> QED
    BY <2>2, <2>3, <2>4
<1>5. ASSUME NEW i \in Ids, i \notin JobIds \cup Held, Create(i), Held' = Held \cup {i}
      PROVE  Goal
  <2>1. PICK d \in {0, 1}, l \in Nat :
           /\ DOMAIN jobs = 1 .. l /\ DOMAIN jobs' = 1 .. (l + 1 - d)
           /\ \A n \in 1 .. (l - d) : jobs'[n] = jobs[n + d]
           /\ jobs'[l + 1 - d] = [id |-> i, state |-> "queued"]
    BY <1>5, Created
  <2>2. \A n \in DOMAIN jobs : jobs[n].id # i
    BY <1>2, <1>5
  <2>3. ASSUME NEW n \in DOMAIN jobs'
        PROVE  \/ n = l + 1 - d
               \/ n \in 1 .. (l - d) /\ n + d \in DOMAIN jobs /\ jobs'[n] = jobs[n + d]
    BY <2>1, <2>3
  <2>4. ASSUME NEW m \in DOMAIN jobs', NEW n \in DOMAIN jobs', jobs'[m].id = jobs'[n].id
        PROVE  m = n
    <3>1. CASE m = l + 1 - d
      <4>1. jobs'[m].id = i
        BY <2>1, <3>1
      <4>2. n = l + 1 - d
        BY <2>2, <2>3, <2>4, <4>1
      <4> QED
        BY <3>1, <4>2
    <3>2. CASE m # l + 1 - d /\ n = l + 1 - d
      <4>1. jobs'[n].id = i
        BY <2>1, <3>2
      <4> QED
        BY <2>2, <2>3, <2>4, <3>2, <4>1
    <3>3. CASE m # l + 1 - d /\ n # l + 1 - d
      <4>1. m + d = n + d /\ m \in Nat /\ n \in Nat
        BY <1>2, <2>3, <2>4, <3>3 DEF JobIdsDiffer
      <4> QED
        BY <4>1
    <3> QED
      BY <3>1, <3>2, <3>3
  <2>5. ASSUME NEW n \in DOMAIN jobs' PROVE True(n)'
    <3>1. CASE n = l + 1 - d
      <4>1. jobs'[n].id = i /\ jobs'[n].state = "queued"
        BY <2>1, <3>1
      <4> QED
        BY <1>5, <4>1 DEF Working
    <3>2. CASE n \in 1 .. (l - d) /\ n + d \in DOMAIN jobs /\ jobs'[n] = jobs[n + d]
      <4>1. True(n + d) /\ jobs[n + d].id # i
        BY <1>1, <2>2, <3>2
      <4> QED
        BY <1>5, <3>2, <4>1
    <3> QED
      BY <2>3, <3>1, <3>2
  <2>6. SettledStay
    BY <1>2, <2>1, <2>2, <2>3 DEF JobIdsDiffer
  <2> QED
    BY <2>4, <2>5, <2>6 DEF JobIdsDiffer
<1>6. JobsMove
  BY JobsMoves DEF JobsInv
<1>7. Goal
  <2> HIDE DEF Goal
  <2>1. CASE UNCHANGED jobs /\ Held' = Held
    BY <2>1, <1>3
  <2>2. CASE \E i \in Ids : i \notin JobIds \cup Held /\ Create(i) /\ Held' = Held \cup {i}
    BY <2>2, <1>5
  <2>3. CASE \E i \in Held : MarkJob(i, "running") /\ Held' = Held
    BY <2>3, <1>4
  <2>4. ASSUME NEW i \in Held, NEW s \in {"completed", "failed"},
               MarkJob(i, s), Held' = Held \ {i}
        PROVE  Goal
    BY <2>4, <1>4
  <2> QED
    BY <1>6, <2>1, <2>2, <2>3, <2>4 DEF JobsMove
<1>8. JobsTruthful'
  BY <1>1, <1>7, TruthfulMeansNext
<1> QED
  BY <1>7, <1>8 DEF ToSet, Working

-----------------------------------------------------------------------------
LEMMA InitInductive == Init => IInv
<1> SUFFICES ASSUME Init PROVE IInv
  OBVIOUS
<1> USE TriggerAssumption DEF Init
<1>1. ThreadsOK
  BY DEF ThreadsOK, LocalsOK, Pcs, ExecutingPcs
<1>2. CountsOK /\ manual \in [Actions -> BOOLEAN]
  BY DEF CountsOK
<1>3. (inProgress \in BOOLEAN) /\ current \in Ids \cup {NoId} /\ ClaimIsLive
  BY DEF ClaimIsLive
<1>4. JobsOK
  BY DEF JobsOK
<1>5. Escalation
  BY DEF Escalation
<1>6. AttemptsBounded
  <2>1. \A a \in Actions : {h \in Handlers : pc[h] \in PastCheck /\ req[h].action = a} = {}
    BY DEF PastCheck
  <2>2. Cardinality({}) = 0 /\ Cardinality(Handlers) \in Nat
    BY FS_EmptySet, FS_CardinalityType
  <2>3. \A a \in Actions : attempts[a] = 0
    OBVIOUS
  <2>4. MaxAttempts \in Nat
    OBVIOUS
  <2> HIDE DEF Init
  <2>5. \A a \in Actions : 0 + Cardinality({}) <= MaxAttempts + Cardinality(Handlers)
    BY <2>2, <2>4
  <2> QED
    BY <2>1, <2>3, <2>5 DEF AttemptsBounded
<1>7. JobsInv
  BY DEF JobsInv, IdsOwned, JobIdsDiffer, JobsTruthful, JobPcs
<1> QED
  BY <1>1, <1>2, <1>3, <1>4, <1>5, <1>6, <1>7 DEF IInv

LEMMA NextInductive == IInv /\ [Next]_vars => IInv'
<1> SUFFICES ASSUME IInv, [Next]_vars PROVE IInv'
  OBVIOUS
<1>1. ThreadsOK /\ JobsOK /\ AttemptsBounded /\ ClaimIsLive /\ JobsInv
  BY DEF IInv
<1>2. Throttle /\ ClaimTyped
  BY DEF IInv, Throttle, ClaimTyped
<1>3. ThreadsOK' /\ JobsOK'
  BY <1>1, ThreadsStep, JobsStep
<1>4. Throttle'
  BY <1>1, <1>2, ThrottleStep
<1>5. ClaimTyped' /\ ClaimIsLive'
  BY <1>1, <1>2, ClaimStep
<1>6. AttemptsBounded'
  BY <1>1, <1>2, AttemptsStep
<1>7. JobsInv'
  BY <1>1, OwnedStep, TableStep DEF JobsInv
<1> QED
  BY <1>3, <1>4, <1>5, <1>6, <1>7 DEF IInv, Throttle, ClaimTyped

LEMMA Invariance == Spec => []IInv
BY InitInductive, NextInductive, PTL DEF Spec

(* Type correctness: among others, the table of jobs never holds more than *)
(* its limit, whatever is created and settled.                             *)
THEOREM TypeCorrect == Spec => []TypeOK
<1>1. IInv => TypeOK
  BY DEF IInv, TypeOK, ThreadsOK, CountsOK, JobsOK
<1> QED
  BY <1>1, Invariance, PTL

(* mark_failed, mark_completed and clear() keep count, wait and closed     *)
(* flag of every action in step.                                           *)
THEOREM ThrottleCoherent == Spec => []Escalation
<1>1. IInv => Escalation
  BY DEF IInv
<1> QED
  BY <1>1, Invariance, PTL

(* No interleaving of mark_started, mark_completed, mark_failed and        *)
(* clear() leaves a claim behind that no thread will give up.              *)
THEOREM ClaimNeverLeaks == Spec => []ClaimIsLive
<1>1. IInv => ClaimIsLive
  BY DEF IInv
<1> QED
  BY <1>1, Invariance, PTL

(* The checks before mark_started are not atomic with it: a closed action  *)
(* may still be tried, but at most once by each of the other threads.      *)
THEOREM AttemptsLimited == Spec => []AttemptsBounded
<1>1. IInv => AttemptsBounded
  BY DEF IInv
<1> QED
  BY <1>1, Invariance, PTL

(* create(), the marks and the pruning of the job table, with whatever ids *)
(* the threads hold, never show a job as running that nobody runs, nor a   *)
(* finished one as anything else, and never settle a job twice.            *)
THEOREM JobsSettled == Spec => JobsSettleOnce
<1> DEFINE Kept == \A j \in ToSet(jobs) :
                     j.state \in {"completed", "failed"} =>
                       \A k \in ToSet(jobs') : k.id = j.id => k = j
<1>1. IInv /\ [Next]_vars => JobsTruthful' /\ Kept
  BY TableStep DEF IInv
<1> QED
  BY <1>1, Invariance, PTL DEF Spec, JobsSettleOnce

=============================================================================
