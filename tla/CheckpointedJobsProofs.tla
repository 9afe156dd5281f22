----------------------- MODULE CheckpointedJobsProofs -----------------------
(***************************************************************************)
(* For any number of jobs, runners, requests, steps and attempts, any      *)
(* timing constants with FunctionTimeout <= StuckAfter, and with or        *)
(* without lost replies.  First of JobRunner: nobody writes a job that     *)
(* another holds, and queue and runners implement JobLifecycle.  Then of   *)
(* the jobs with their steps: a handler's steps are steps of JobRunner,    *)
(* what a job paid for while platform.agent_runs works is paid for by its  *)
(* attempts, and a job succeeds with its report.                           *)
(***************************************************************************)
EXTENDS CheckpointedJobs, TLAPS

-----------------------------------------------------------------------------
(* The queue and its runners (Spec of JobRunner).                          *)

\* An invocation holds a job exactly between its claim and letting go.
HeldMatchesPc == \A r \in Runners : Holding(r) <=> held[r] \in Jobs

\* The row of a working invocation was locked during that invocation's life.
LockedWithinLife ==
  \A r \in Runners :
    Working(r) /\ status[held[r]] = "running" => lockedAge[held[r]] <= elapsed[r]

\* Checkpoints are cleared only for a job that is over.
ClearedIsOver ==
  \A r \in Runners : pc[r] = "clear" => status[held[r]] \in FinalStatuses

\* The claim counted an attempt.
TriesAreCounted == \A r \in Runners : Working(r) => tries[r] >= 1

\* A row starts its life with no attempt used.
AbsentIsFresh == \A j \in Jobs : status[j] = "absent" => attempts[j] = 0

IInv ==
  /\ TypeOK
  /\ HeldMatchesPc
  /\ ExclusiveOwner
  /\ LockedWithinLife
  /\ WritesOwnClaim
  /\ ClearedIsOver
  /\ QueuedHasAttemptLeft
  /\ AbsentIsFresh
  /\ TriesAreCounted

\* The empty queue and its idle invocations satisfy the invariant.
LEMMA InitIInv == Init => IInv
  BY QueueAssumption, RunnerAssumption
     DEF Init, QueueInit, IInv, TypeOK, QueueTypeOK, HeldMatchesPc, ExclusiveOwner,
         LockedWithinLife, WritesOwnClaim, ClearedIsOver, QueuedHasAttemptLeft,
         AbsentIsFresh, TriesAreCounted, Holding, Working, Statuses, RunnerPcs

\* The delays written to run_at are numbers.
LEMMA Delays ==
  /\ \A n \in 1..MaxAttempts : BackoffSeconds(n) \in Int
  /\ \A w \in RetryAfters : Greatest(w, BackoffSeconds(1)) \in Int
  /\ ContinueAfter \in Int
  BY RunnerAssumption, BackoffAssumption, FirstBackoffAssumption DEF Greatest

\* The routes that enqueue and kick keep the invariant.
LEMMA RequestKeeps == ASSUME IInv, NEW c \in Clients, RequestStep(c) PROVE IInv'
<1> USE QueueAssumption, RunnerAssumption
<1> USE DEF IInv, TypeOK, QueueTypeOK, HeldMatchesPc, ExclusiveOwner, LockedWithinLife,
      WritesOwnClaim, ClearedIsOver, QueuedHasAttemptLeft,
      AbsentIsFresh, TriesAreCounted, Holding, Working, FinalStatuses
<1>1. ASSUME NEW k \in Keys, FindActive(c, k) PROVE IInv'
  BY <1>1 DEF FindActive, rows, runner
<1>2. ASSUME NEW j \in Jobs, Insert(c, j) PROVE IInv'
  <2> USE <1>2 DEF Insert, Enqueue, runner
  <2>1. TypeOK'
    BY DEF Statuses
  <2>2. \A r \in Runners : Holding(r) => held[r] # j
    OBVIOUS
  <2>3. HeldMatchesPc' /\ ExclusiveOwner'
    OBVIOUS
  <2>4. \A r \in Runners : Holding(r) => status'[held[r]] = status[held[r]]
    BY <2>2
  <2>5. LockedWithinLife' /\ WritesOwnClaim' /\ ClearedIsOver'
    BY <2>4
  <2>6. QueuedHasAttemptLeft' /\ AbsentIsFresh'
    OBVIOUS
  <2> QED BY <2>1, <2>3, <2>5, <2>6
<1>3. ASSUME RequestLost(c) PROVE IInv'
  BY <1>3 DEF RequestLost, RequestEnds, rows, runner
<1> QED BY <1>1, <1>2, <1>3 DEF RequestStep

\* An invocation that writes the row it holds.
LEMMA SettlesKeeps == ASSUME IInv, NEW r \in Runners, Settles(r) PROVE IInv'
<1> USE QueueAssumption, RunnerAssumption
<1> USE DEF IInv, TypeOK, QueueTypeOK, HeldMatchesPc, ExclusiveOwner, LockedWithinLife,
      WritesOwnClaim, ClearedIsOver, QueuedHasAttemptLeft,
      AbsentIsFresh, TriesAreCounted, Holding, Working, FinalStatuses
<1>1. ASSUME Succeed(r) PROVE IInv'
  BY <1>1 DEF Succeed, MarkSucceeded, Settle, requests, RunnerPcs, Statuses
<1>2. ASSUME SucceedFails(r) PROVE IInv'
  BY <1>2 DEF SucceedFails, MarkSucceeded, Settle, rows, requests, RunnerPcs, Statuses, Errors
<1>3. ASSUME ContinueLater(r) PROVE IInv'
  BY <1>3, Delays DEF ContinueLater, DeferRateLimited, Greatest, Release, requests,
     RunnerPcs, Statuses
<1>4. ASSUME NEW w \in RetryAfters, WaitForTokens(r, w) PROVE IInv'
  <2>1. PICK wait \in Int : DeferRateLimited(held[r], wait)
    BY <1>4, Delays DEF WaitForTokens
  <2>2. pc[r] = "caught" /\ Release(r, "loop") /\ UNCHANGED <<requests, elapsed>>
    BY <1>4 DEF WaitForTokens
  <2> QED
    BY <2>1, <2>2 DEF DeferRateLimited, Greatest, Release, requests, RunnerPcs, Statuses
<1>5. ASSUME Fail(r) PROVE IInv'
  <2> DEFINE retryable == error[r] # "fatal"
  <2>1. CASE WillRetry(tries[r], retryable)
    <3>1. tries[r] \in 1..MaxAttempts /\ tries[r] < MaxAttempts
      BY <1>5, <2>1 DEF Fail, WillRetry
    <3>2. BackoffSeconds(tries[r]) \in Int
      BY <3>1, Delays
    <3>3. /\ pc[r] = "caught"
          /\ status' = [status EXCEPT ![held[r]] = "queued"]
          /\ lockedAge' = [lockedAge EXCEPT ![held[r]] = 0]
          /\ runIn' = [runIn EXCEPT ![held[r]] = BackoffSeconds(tries[r])]
          /\ UNCHANGED <<jobKey, attempts, jobAge, reqPc, reqKey, elapsed>>
          /\ Release(r, "loop")
      BY <1>5, <2>1 DEF Fail, MarkFailed, requests
    <3> QED
      BY <3>1, <3>2, <3>3 DEF Release, RunnerPcs, Statuses
  <2>2. CASE ~WillRetry(tries[r], retryable)
    <3>1. /\ pc[r] = "caught"
          /\ Settle(held[r], "failed")
          /\ pc' = [pc EXCEPT ![r] = "clear"]
          /\ UNCHANGED <<held, tries, error, limited, reqPc, reqKey, elapsed>>
      BY <1>5, <2>2 DEF Fail, MarkFailed, requests
    <3> QED
      BY <3>1 DEF Settle, RunnerPcs, Statuses
  <2> QED BY <2>1, <2>2
<1> QED BY <1>1, <1>2, <1>3, <1>4, <1>5 DEF Settles

\* Every step of an invocation of runJobs keeps the invariant.
LEMMA RunnerKeeps == ASSUME IInv, NEW r \in Runners, RunnerStep(r) PROVE IInv'
<1> USE QueueAssumption, RunnerAssumption
<1> USE DEF IInv, TypeOK, QueueTypeOK, HeldMatchesPc, ExclusiveOwner, LockedWithinLife,
      WritesOwnClaim, ClearedIsOver, QueuedHasAttemptLeft,
      AbsentIsFresh, TriesAreCounted, Holding, Working, FinalStatuses
<1>1. ASSUME NEW c \in Clients, Kick(c, r) PROVE IInv'
  BY <1>1 DEF Kick, Invoke, RequestEnds, rows, RunnerPcs
<1>2. ASSUME CronTick(r) PROVE IInv'
  BY <1>2 DEF CronTick, Invoke, rows, requests, RunnerPcs
<1>3. ASSUME Recover(r) PROVE IInv'
  BY <1>3 DEF Recover, RequeueStuck, Stuck, requests, RunnerPcs, Statuses
<1>4. ASSUME NEW j \in Jobs, Claim(r, j) PROVE IInv'
  BY <1>4 DEF Claim, ClaimNext, NextInLine, Claimable, requests, RunnerPcs, Statuses
<1>5. ASSUME Stop(r) PROVE IInv'
  BY <1>5 DEF Stop, Release, rows, requests, RunnerPcs
<1>6. ASSUME HandlerReturns(r) PROVE IInv'
  BY <1>6 DEF HandlerReturns, rows, requests, RunnerPcs
<1>7. ASSUME NEW e \in Errors, HandlerThrows(r, e) PROVE IInv'
  BY <1>7 DEF HandlerThrows, rows, requests, RunnerPcs
<1>8. ASSUME Settles(r) PROVE IInv'
  BY <1>8, SettlesKeeps
<1>9. ASSUME Finished(r) PROVE IInv'
  BY <1>9 DEF Finished, Release, rows, requests, RunnerPcs
<1>10. ASSUME Kill(r) PROVE IInv'
  BY <1>10 DEF Kill, Release, Alive, rows, requests, RunnerPcs
<1> QED
  BY <1>1, <1>2, <1>3, <1>4, <1>5, <1>6, <1>7, <1>8, <1>9, <1>10 DEF RunnerStep

\* Time passing keeps the invariant: nobody outlives the function timeout.
LEMMA TickKeeps == ASSUME IInv, Tick PROVE IInv'
<1> USE QueueAssumption, RunnerAssumption
<1> USE DEF IInv, TypeOK, QueueTypeOK, HeldMatchesPc, ExclusiveOwner, LockedWithinLife,
      WritesOwnClaim, ClearedIsOver, QueuedHasAttemptLeft,
      AbsentIsFresh, TriesAreCounted, Holding, Working, FinalStatuses
<1> QED BY DEF Tick, RowsAge, Alive, requests, Least, Greatest, RunnerPcs

-----------------------------------------------------------------------------
(* The invariants of the specification.                                    *)

\* The invariant is inductive.
LEMMA NextKeeps == ASSUME IInv, [Next]_vars PROVE IInv'
<1>1. CASE UNCHANGED vars
  BY <1>1
     DEF vars, rows, requests, runner, IInv, TypeOK, QueueTypeOK, HeldMatchesPc,
         ExclusiveOwner, LockedWithinLife, WritesOwnClaim, ClearedIsOver,
         QueuedHasAttemptLeft, AbsentIsFresh, TriesAreCounted, Holding, Working
<1>2. CASE Next
  BY <1>2, RequestKeeps, RunnerKeeps, TickKeeps DEF Next
<1> QED BY <1>1, <1>2

\* The inductive invariant holds throughout: claims, leases and attempts of
\* job-queue.ts and job-runner.ts stay consistent with each other.
THEOREM InductiveInvariant == Spec => []IInv
  BY InitIInv, NextKeeps, PTL DEF Spec

\* Every variable keeps its type; attempts never exceeds max_attempts and no
\* invocation outlives the function timeout.
THEOREM TypeCorrect == Spec => []TypeOK
<1>1. IInv => TypeOK
  BY DEF IInv
<1> QED BY <1>1, InductiveInvariant, PTL

\* Two live invocations never hold the same job, whatever the timing, as long
\* as STUCK_AFTER_SECONDS is not below FUNCTION_TIMEOUT_SECONDS.
THEOREM OwnershipIsExclusive == Spec => []ExclusiveOwner
<1>1. IInv => ExclusiveOwner
  BY DEF IInv
<1> QED BY <1>1, InductiveInvariant, PTL

\* An invocation about to write its job's row by id finds it as it claimed it.
THEOREM WritesHitOwnClaim == Spec => []WritesOwnClaim
<1>1. IInv => WritesOwnClaim
  BY DEF IInv
<1> QED BY <1>1, InductiveInvariant, PTL

\* No exhausted job is ever queued again.
THEOREM QueuedJobsHaveAttempts == Spec => []QueuedHasAttemptLeft
<1>1. IInv => QueuedHasAttemptLeft
  BY DEF IInv
<1> QED BY <1>1, InductiveInvariant, PTL

-----------------------------------------------------------------------------
(* What a step may never do to a row.                                      *)

\* The steps that can change a status, and how.
LEMMA StatusSteps ==
  ASSUME IInv, [Next]_vars, NEW j \in Jobs, status'[j] # status[j]
  PROVE  \/ status[j] = "absent" /\ status'[j] = "queued"
         \/ status[j] = "queued" /\ status'[j] = "running"
         \/ /\ status[j] = "running"
            /\ \A r \in Runners : held[r] # j
            /\ lockedAge[j] > StuckAfter
            /\ attempts'[j] = attempts[j]
         \/ \E r \in Runners :
              /\ held[r] = j
              /\ \/ pc[r] = "won" /\ status'[j] = "succeeded"
                 \/ pc[r] = "caught"
<1> USE DEF IInv, TypeOK, QueueTypeOK, HeldMatchesPc, ExclusiveOwner
<1>1. CASE UNCHANGED vars
  BY <1>1 DEF vars, rows
<1>2. ASSUME NEW c \in Clients, RequestStep(c)
      PROVE  status[j] = "absent" /\ status'[j] = "queued"
  BY <1>2 DEF RequestStep, FindActive, Insert, Enqueue, RequestLost, rows
<1>3. ASSUME NEW r \in Runners, Recover(r)
      PROVE  /\ status[j] = "running"
             /\ \A s \in Runners : held[s] # j
             /\ lockedAge[j] > StuckAfter
             /\ attempts'[j] = attempts[j]
  <2>1. Stuck(j) /\ attempts'[j] = attempts[j]
    BY <1>3 DEF Recover, RequeueStuck
  <2>2. ASSUME NEW s \in Runners, held[s] = j PROVE FALSE
    BY <2>1, <2>2, RunnerAssumption, QueueAssumption
       DEF Stuck, Holding, Working, LockedWithinLife, ClearedIsOver, FinalStatuses
  <2> QED BY <2>1, <2>2 DEF Stuck
<1>4. ASSUME NEW r \in Runners, NEW i \in Jobs, Claim(r, i)
      PROVE  status[j] = "queued" /\ status'[j] = "running"
  BY <1>4 DEF Claim, ClaimNext, NextInLine, Claimable
<1>5. ASSUME NEW r \in Runners, Settles(r)
      PROVE  /\ held[r] = j
             /\ \/ pc[r] = "won" /\ status'[j] = "succeeded"
                \/ pc[r] = "caught"
  <2>1. held[r] = j
    BY <1>5
       DEF Settles, Succeed, SucceedFails, ContinueLater, WaitForTokens, Fail,
           MarkSucceeded, MarkFailed, Settle, DeferRateLimited, rows
  <2>2. \/ pc[r] = "won" /\ (MarkSucceeded(held[r]) \/ UNCHANGED rows)
        \/ pc[r] = "caught"
    BY <1>5 DEF Settles, Succeed, SucceedFails, ContinueLater, WaitForTokens, Fail
  <2> QED BY <2>1, <2>2 DEF MarkSucceeded, Settle, rows
<1>6. ASSUME NEW r \in Runners, RunnerStep(r)
      PROVE  Recover(r) \/ (\E i \in Jobs : Claim(r, i)) \/ Settles(r)
  BY <1>6
     DEF RunnerStep, Kick, CronTick, Stop, HandlerReturns, HandlerThrows, Finished,
         Kill, rows
<1>7. ASSUME Tick PROVE FALSE
  BY <1>7 DEF Tick, RowsAge
<1> QED BY <1>1, <1>2, <1>3, <1>4, <1>5, <1>6, <1>7 DEF Next

\* A row under a live invocation goes back to the queue only by that
\* invocation's own hand; one whose invocation died only with a lock older than
\* the stuck timeout, and with its attempt spent.
THEOREM StuckRecoverySparesTheLiving == Spec => RequeuedByOwnerOrStuck
<1>1. ASSUME IInv, [Next]_vars, NEW j \in Jobs,
             status[j] = "running", status'[j] = "queued"
      PROVE  \/ /\ \A r \in Runners : held[r] # j
                /\ lockedAge[j] > StuckAfter
                /\ attempts'[j] = attempts[j]
             \/ \E r \in Runners : held[r] = j /\ pc[r] = "caught"
  BY <1>1, StatusSteps
<1>2. IInv /\ [Next]_vars =>
        [\A j \in Jobs :
           status[j] = "running" /\ status'[j] = "queued" =>
             \/ /\ \A r \in Runners : held[r] # j
                /\ lockedAge[j] > StuckAfter
                /\ attempts'[j] = attempts[j]
             \/ \E r \in Runners : held[r] = j /\ pc[r] = "caught"]_vars
  BY <1>1
<1> QED BY <1>2, InductiveInvariant, PTL DEF Spec, RequeuedByOwnerOrStuck

\* A final status is left only by an invocation whose own markSucceeded seemed
\* to fail, and then only "succeeded" is.
LEMMA FinalStatusSteps ==
  ASSUME IInv, [Next]_vars, NEW j \in Jobs,
         status[j] \in FinalStatuses, status'[j] # status[j]
  PROVE  /\ status[j] = "succeeded"
         /\ RepliesLost
         /\ \E r \in Runners : held[r] = j /\ pc[r] = "caught"
<1>1. PICK r \in Runners :
        /\ held[r] = j
        /\ \/ pc[r] = "won" /\ status'[j] = "succeeded"
           \/ pc[r] = "caught"
  BY StatusSteps DEF FinalStatuses
<1> QED
  BY <1>1 DEF IInv, WritesOwnClaim, Working, FinalStatuses

\* "failed" is for good, and only its own winner takes a job out of
\* "succeeded".
THEOREM SuccessIsUndoneByItsWinner == Spec => OnlyTheWinnerUndoesSuccess
<1>1. IInv /\ [Next]_vars =>
        [\A j \in Jobs :
           status[j] \in FinalStatuses /\ status'[j] # status[j] =>
             /\ status[j] = "succeeded"
             /\ \E r \in Runners : held[r] = j /\ pc[r] = "caught"]_vars
  BY FinalStatusSteps
<1> QED BY <1>1, InductiveInvariant, PTL DEF Spec, OnlyTheWinnerUndoesSuccess

\* When no reply to a committed statement is lost, a job that is over stays
\* over.
THEOREM OverIsOver == ASSUME ~RepliesLost PROVE Spec => FinalIsFinal
<1>1. IInv /\ [Next]_vars =>
        [\A j \in Jobs : status[j] \in FinalStatuses => status'[j] = status[j]]_vars
  BY FinalStatusSteps
<1> QED BY <1>1, InductiveInvariant, PTL DEF Spec, FinalIsFinal

\* A rate-limited job older than RATE_LIMIT_MAX_DEFER_MS is not handed its
\* attempt back.
THEOREM OldJobsEnd == Spec => OldJobsAreNotDeferred
<1>1. ASSUME IInv, [Next]_vars, NEW j \in Jobs,
             attempts'[j] < attempts[j], jobAge[j] >= MaxDeferAge
      PROVE  \E r \in Runners : held[r] = j /\ error[r] = "budget"
  <2> USE DEF IInv, TypeOK, QueueTypeOK
  <2>0. attempts[j] \in Int /\ attempts'[j] \in Int
    BY <1>1, NextKeeps
  <2>1. CASE UNCHANGED vars
    BY <1>1, <2>1 DEF vars, rows
  <2>2. ASSUME NEW c \in Clients, RequestStep(c) PROVE FALSE
    BY <1>1, <2>2 DEF RequestStep, FindActive, Insert, Enqueue, RequestLost, rows
  <2>3. ASSUME NEW r \in Runners, RunnerStep(r) PROVE ContinueLater(r) /\ held[r] = j
    <3>1. ~Settles(r) => attempts'[j] >= attempts[j]
      BY <2>3, <1>1
         DEF RunnerStep, Kick, CronTick, Recover, RequeueStuck, Claim, ClaimNext, Stop,
             HandlerReturns, HandlerThrows, Finished, Kill, rows
    <3>2. ASSUME NEW w \in RetryAfters, WaitForTokens(r, w) PROVE FALSE
      <4>1. \A i \in Jobs : i # held[r] => attempts'[i] = attempts[i]
        BY <3>2 DEF WaitForTokens, DeferRateLimited
      <4>2. held[r] = j
        BY <1>1, <4>1
      <4>3. jobAge[held[r]] < MaxDeferAge
        BY <3>2 DEF WaitForTokens, Deferrable
      <4> QED BY <1>1, <4>2, <4>3, QueueAssumption
    <3>3. ContinueLater(r)
      <4>1. Succeed(r) \/ SucceedFails(r) => UNCHANGED attempts
        BY DEF Succeed, SucceedFails, MarkSucceeded, Settle, rows
      <4>2. ASSUME Fail(r) PROVE UNCHANGED attempts
        <5> DEFINE retryable == error[r] # "fatal"
        <5>1. CASE WillRetry(tries[r], retryable)
          BY <4>2, <5>1 DEF Fail, MarkFailed
        <5>2. CASE ~WillRetry(tries[r], retryable)
          BY <4>2, <5>2 DEF Fail, MarkFailed, Settle
        <5> QED BY <5>1, <5>2
      <4>3. attempts'[j] # attempts[j] /\ Settles(r)
        BY <1>1, <2>0, <3>1
      <4> QED BY <3>2, <4>1, <4>2, <4>3 DEF Settles
    <3>4. \A i \in Jobs : i # held[r] => attempts'[i] = attempts[i]
      BY <3>3 DEF ContinueLater, DeferRateLimited
    <3> QED BY <1>1, <3>3, <3>4
  <2>4. ASSUME Tick PROVE FALSE
    BY <1>1, <2>4 DEF Tick, RowsAge
  <2> QED BY <1>1, <2>1, <2>2, <2>3, <2>4 DEF Next, ContinueLater
<1>2. IInv /\ [Next]_vars =>
        [\A j \in Jobs :
           attempts'[j] < attempts[j] /\ jobAge[j] >= MaxDeferAge =>
             \E r \in Runners : held[r] = j /\ error[r] = "budget"]_vars
  BY <1>1
<1> QED BY <1>2, InductiveInvariant, PTL DEF Spec, OldJobsAreNotDeferred

-----------------------------------------------------------------------------
(* The queue and its runners implement JobLifecycle.                       *)

crew == [j \in Jobs |-> Crew(j)]

\* A job has the crew {r} exactly while r works on it.
LEMMA CrewOfWorker ==
  ASSUME IInv
  PROVE  /\ \A r \in Runners : Working(r) => held[r] \in Jobs /\ Crew(held[r]) = {r}
         /\ \A r \in Runners, j \in Jobs :
              r \in Crew(j) <=> Working(r) /\ held[r] = j
  BY DEF IInv, HeldMatchesPc, ExclusiveOwner, Crew, Working, Holding

\* Steps in which nobody starts or stops working leave every crew alone.
LEMMA SameCrew ==
  ASSUME \A r \in Runners : Working(r)' = Working(r) /\ (Working(r) => held'[r] = held[r])
  PROVE  crew' = crew
<1>1. ASSUME NEW j \in Jobs PROVE Crew(j)' = Crew(j)
  BY DEF Crew
<1> QED BY <1>1 DEF crew

\* When r stops working on its job the crew becomes empty.
LEMMA CrewLeaves ==
  ASSUME IInv, NEW r \in Runners, Working(r), ~Working(r)',
         \A s \in Runners \ {r} : Working(s)' = Working(s) /\ held'[s] = held[s]
  PROVE  crew' = [crew EXCEPT ![held[r]] = {}]
<1>1. ASSUME NEW j \in Jobs PROVE Crew(j)' = IF j = held[r] THEN {} ELSE Crew(j)
  BY CrewOfWorker DEF Crew
<1> QED BY <1>1 DEF crew

\* Every step is a step of the job's life cycle, or none.
LEMMA StepRefines ==
  ASSUME IInv, [Next]_vars
  PROVE  [Lifecycle!Next]_<<status, crew, attempts>>
<1> USE DEF Lifecycle!Next, Lifecycle!InHand
<1>1. CASE UNCHANGED vars
  BY <1>1, SameCrew DEF vars, rows, runner, Working
<1>2. ASSUME NEW c \in Clients, RequestStep(c)
      PROVE  [Lifecycle!Next]_<<status, crew, attempts>>
  <2>1. crew' = crew
    BY <1>2, SameCrew
       DEF RequestStep, FindActive, Insert, RequestLost, runner, Working
  <2>2. ASSUME NEW j \in Jobs, Insert(c, j) PROVE Lifecycle!Submit(j)
    BY <2>1, <2>2 DEF Insert, Enqueue, Lifecycle!Submit, crew
  <2> QED BY <1>2, <2>1, <2>2 DEF RequestStep, FindActive, RequestLost, rows
<1>3. ASSUME NEW r \in Runners, RunnerStep(r)
      PROVE  [Lifecycle!Next]_<<status, crew, attempts>>
  <2>1. CASE \/ \E c \in Clients : Kick(c, r)
             \/ CronTick(r) \/ Stop(r) \/ Finished(r) \/ HandlerReturns(r)
             \/ \E e \in Errors : HandlerThrows(r, e)
    <3>1. UNCHANGED rows
      BY <2>1 DEF Kick, CronTick, Stop, Finished, HandlerReturns, HandlerThrows
    <3>2. crew' = crew
      BY <2>1, SameCrew
         DEF Kick, CronTick, Invoke, Stop, Finished, Release, HandlerReturns,
             HandlerThrows, Working, IInv, TypeOK
    <3> QED BY <3>1, <3>2 DEF rows
  <2>2. CASE Recover(r)
    <3>1. crew' = crew
      BY <2>2, SameCrew DEF Recover, Working, IInv, TypeOK
    <3> DEFINE S == {j \in Jobs : Stuck(j)}
    <3>2. \A j \in S : status[j] = "running" /\ crew[j] = {}
      <4>1. ASSUME NEW j \in Jobs, Stuck(j), NEW s \in Runners, Working(s), held[s] = j
            PROVE  FALSE
        BY <4>1, QueueAssumption, RunnerAssumption
           DEF Stuck, IInv, TypeOK, QueueTypeOK, LockedWithinLife
      <4> QED BY <4>1 DEF crew, Crew, Stuck
    <3>3. Lifecycle!Rescue(S)
      BY <2>2, <3>1, <3>2 DEF Recover, RequeueStuck, Lifecycle!Rescue, crew
    <3> QED BY <3>3
  <2>3. ASSUME NEW j \in Jobs, Claim(r, j) PROVE Lifecycle!Next
    <3>1. \A s \in Runners : ~(Working(s) /\ held[s] = j)
      BY <2>3 DEF Claim, ClaimNext, NextInLine, Claimable, IInv, WritesOwnClaim
    <3>2. ~Working(r) /\ Working(r)' /\ held'[r] = j
      BY <2>3 DEF Claim, Working, IInv, TypeOK
    <3>3. \A s \in Runners \ {r} : Working(s)' = Working(s) /\ held'[s] = held[s]
      BY <2>3 DEF Claim, Working, IInv, TypeOK
    <3>4. ASSUME NEW i \in Jobs PROVE Crew(i)' = IF i = j THEN {r} ELSE Crew(i)
      BY <3>1, <3>2, <3>3 DEF Crew
    <3>5. crew' = [crew EXCEPT ![j] = {r}]
      BY <3>4 DEF crew
    <3>6. crew[j] = {} /\ \A i \in Jobs : r \notin crew[i]
      BY <3>1, <3>2 DEF crew, Crew
    <3>7. Lifecycle!Start(j, r)
      BY <2>3, <3>5, <3>6
         DEF Claim, ClaimNext, NextInLine, Claimable, Lifecycle!Start, IInv,
             QueuedHasAttemptLeft, crew
    <3> QED BY <3>7
  <2>4. CASE Settles(r)
    <3>1. /\ Working(r) /\ held[r] \in Jobs /\ crew[held[r]] = {r}
          /\ status[held[r]] \in {"running", "succeeded"}
          /\ pc[r] = "won" => status[held[r]] = "running"
          /\ attempts[held[r]] = tries[r] /\ tries[r] \in 1..MaxAttempts
      BY <2>4, CrewOfWorker
         DEF Settles, Succeed, SucceedFails, ContinueLater, WaitForTokens, Fail,
             Working, IInv, TypeOK, WritesOwnClaim, TriesAreCounted, crew
    <3>2. CASE SucceedFails(r)
      <4>1. crew' = crew
        BY <3>2, SameCrew DEF SucceedFails, Working, IInv, TypeOK
      <4>2. CASE UNCHANGED rows
        BY <4>1, <4>2 DEF rows
      <4>3. CASE MarkSucceeded(held[r])
        <5>1. Lifecycle!EndUnheard(held[r], r)
          BY <3>1, <4>1, <4>3 DEF MarkSucceeded, Settle, Lifecycle!EndUnheard, crew
        <5> QED BY <3>1, <5>1
      <4> QED BY <3>2, <4>2, <4>3 DEF SucceedFails
    <3>3. CASE ~SucceedFails(r)
      <4>1. /\ ~Working(r)'
            /\ \A s \in Runners \ {r} : Working(s)' = Working(s) /\ held'[s] = held[s]
        BY <2>4, <3>3
           DEF Settles, Succeed, ContinueLater, WaitForTokens, Fail, Release, Working,
               IInv, TypeOK
      <4>2. crew' = [crew EXCEPT ![held[r]] = {}]
        BY <3>1, <4>1, CrewLeaves
      <4>3. ASSUME NEW outcome \in {"succeeded", "failed"}, Settle(held[r], outcome)
            PROVE  Lifecycle!End(held[r], r)
        BY <3>1, <4>2, <4>3 DEF Settle, Lifecycle!End, crew
      <4>4. ASSUME NEW wait, DeferRateLimited(held[r], wait)
            PROVE  Lifecycle!HandBack(held[r], r)
        <5>1. attempts[held[r]] \in 1..MaxAttempts
          BY <3>1
        <5>2. Greatest(attempts[held[r]] - 1, 0) = attempts[held[r]] - 1
          BY <5>1, QueueAssumption DEF Greatest
        <5>3. /\ status' = [status EXCEPT ![held[r]] = "queued"]
              /\ attempts' = [attempts EXCEPT ![held[r]] = @ - 1]
          BY <4>4, <5>2, <3>1 DEF DeferRateLimited
        <5> QED
          BY <3>1, <4>2, <5>3 DEF Lifecycle!HandBack, crew
      <4>5. ASSUME Fail(r) PROVE Lifecycle!End(held[r], r) \/ Lifecycle!HandBack(held[r], r)
        <5> DEFINE retryable == error[r] # "fatal"
        <5>1. CASE WillRetry(tries[r], retryable)
          <6>1. attempts[held[r]] < MaxAttempts
            BY <3>1, <5>1 DEF WillRetry
          <6>2. /\ status' = [status EXCEPT ![held[r]] = "queued"]
                /\ UNCHANGED attempts
            BY <4>5, <5>1 DEF Fail, MarkFailed
          <6> QED BY <3>1, <4>2, <6>1, <6>2 DEF Lifecycle!HandBack, crew
        <5>2. CASE ~WillRetry(tries[r], retryable)
          BY <4>5, <5>2, <4>3 DEF Fail, MarkFailed
        <5> QED BY <5>1, <5>2
      <4>6. Lifecycle!End(held[r], r) \/ Lifecycle!HandBack(held[r], r)
        <5>1. CASE Succeed(r)
          BY <4>3, <5>1 DEF Succeed, MarkSucceeded
        <5>2. CASE ContinueLater(r)
          BY <4>4, <5>2 DEF ContinueLater
        <5>3. ASSUME NEW w \in RetryAfters, WaitForTokens(r, w)
              PROVE  Lifecycle!HandBack(held[r], r)
          BY <4>4, <5>3 DEF WaitForTokens
        <5> QED BY <2>4, <3>3, <4>5, <5>1, <5>2, <5>3 DEF Settles
      <4> QED BY <3>1, <4>6
    <3> QED BY <3>2, <3>3
  <2>5. CASE Kill(r)
    <3>1. UNCHANGED <<status, attempts>>
      BY <2>5 DEF Kill, rows
    <3>2. CASE ~Working(r)
      BY <2>5, <3>1, <3>2, SameCrew DEF Kill, Release, Working, IInv, TypeOK
    <3>3. CASE Working(r)
      <4>1. ~Working(r)' /\ \A s \in Runners \ {r} : Working(s)' = Working(s) /\ held'[s] = held[s]
        BY <2>5 DEF Kill, Release, Working, IInv, TypeOK
      <4>2. held[r] \in Jobs /\ crew[held[r]] = {r}
        BY <3>3, CrewOfWorker DEF crew
      <4>3. Lifecycle!Abandon(held[r], r)
        BY <3>1, <3>3, <4>1, <4>2, CrewLeaves DEF Lifecycle!Abandon, crew
      <4> QED BY <4>2, <4>3
    <3> QED BY <3>2, <3>3
  <2> QED BY <1>3, <2>1, <2>2, <2>3, <2>4, <2>5 DEF RunnerStep
<1>4. ASSUME Tick PROVE UNCHANGED <<status, crew, attempts>>
  <2>1. crew' = crew
    BY <1>4, SameCrew DEF Tick, Working
  <2> QED BY <1>4, <2>1 DEF Tick, RowsAge
<1> QED BY <1>1, <1>2, <1>3, <1>4 DEF Next

\* The rows, the clock, pg_cron and the killable invocations together keep the
\* promise of JobLifecycle.
THEOREM Refinement == Spec => KeepsLifecycle
<1>1. Init => Lifecycle!Init
  BY DEF Init, QueueInit, Lifecycle!Init, Crew, Working
<1>2. IInv /\ [Next]_vars => [Lifecycle!Next]_Lifecycle!vars
  BY StepRefines DEF Lifecycle!vars, crew
<1> QED BY <1>1, <1>2, InductiveInvariant, PTL DEF Spec, KeepsLifecycle, Lifecycle!Spec

-----------------------------------------------------------------------------
(* Jobs with their steps (StepsSpec of CheckpointedJobs).                  *)

\* An invocation is within its handler exactly while it runs one.
InHandler ==
  \A r \in Runners :
    /\ op[r] # "none" <=> pc[r] = "run"
    /\ op[r] = "none" => step[r] = 1

\* The report is there before anybody can say that the job succeeded.
Reported ==
  /\ \A j \in Jobs : status[j] = "succeeded" => reports[j] > 0
  /\ \A r \in Runners : op[r] = "done" \/ pc[r] = "won" => reports[held[r]] > 0

\* The steps are recorded in their order.
InOrder == \A j \in Jobs : \A s \in checkpoint[j] : 1..s \subseteq checkpoint[j]

\* How far an invocation has come, and what is recorded of it.
ProgressOf(r) ==
  op[r] # "none" =>
    /\ 1..step[r] - 1 \subseteq checkpoint[held[r]]
    /\ op[r] \in {"admit", "call", "record"} => step[r] \notin checkpoint[held[r]]
    /\ op[r] \in {"call", "record"} => recording[r]
    /\ op[r] \in {"save", "done"} => checkpoint[held[r]] = Steps

\* Nobody will ever work on the job again.
Over(j) ==
  /\ status[j] \in FinalStatuses
  /\ \A r \in Runners : Working(r) => held[r] # j

\* A success that is not recorded has cost an attempt that is not handed back; the
\* attempt of a working invocation pays for the success it is about to record.
WinsOf(j) ==
  ~Over(j) => \A s \in Steps \ checkpoint[j] :
    /\ wins[j][s] <= attempts[j]
    /\ \A r \in Runners : Working(r) /\ held[r] = j =>
         wins[j][s] < attempts[j] \/ (op[r] = "record" /\ step[r] = s)

FewWins == \A j \in Jobs, s \in Steps : wins[j][s] <= MaxAttempts

WhileStoreWorks ==
  /\ InOrder
  /\ \A r \in Runners : ProgressOf(r)
  /\ \A j \in Jobs : WinsOf(j)
  /\ FewWins

StepsInv ==
  /\ IInv
  /\ StepsTypeOK
  /\ InHandler
  /\ Reported
  /\ storeFailed \/ WhileStoreWorks

-----------------------------------------------------------------------------
(* Every step of the handler, or around it, is a step of JobRunner.        *)

LEMMA StepsAreRunnerSteps ==
  ASSUME [StepsNext]_allVars
  PROVE  [Next]_vars
<1>1. CASE UNCHANGED allVars
  BY <1>1 DEF allVars
<1>2. ASSUME NEW r \in Runners, NEW j \in Jobs, ClaimAndStart(r, j)
      PROVE  Next
  BY <1>2 DEF ClaimAndStart, Next, RunnerStep
<1>3. ASSUME NEW r \in Runners, NEW e \in Errors, NEW f, Throw(r, e, f)
      PROVE  Next
  BY <1>3 DEF Throw, Next, RunnerStep
<1>4. ASSUME NEW r \in Runners, HandlerStep(r)
      PROVE  [Next]_vars
  <2>1. CASE TenantRefused(r) \/ RefuseStep(r) \/ AgentFails(r) \/ SaveReport(r)
    <3>1. UNCHANGED vars \/ \E e \in Errors, f \in {flag[r], TRUE, FALSE} : Throw(r, e, f)
      BY <2>1 DEF TenantRefused, RefuseStep, AgentFails, SaveReport, Errors, vars
    <3> QED BY <1>3, <3>1, Zenon
  <2>2. CASE HandlerEnds(r)
    BY <2>2 DEF HandlerEnds, Next, RunnerStep
  <2> QED
    BY <1>4, <2>1, <2>2 DEF HandlerStep, ResumeFromCheckpoint, NoCheckpoint, StartStep,
       AgentSucceeds, AgentFailsTransiently, RecordCheckpoint, CheckpointLost
<1>5. ASSUME NEW r \in Runners, AroundHandler(r) \/ FinishedAndReleased(r) \/ KillInHandler(r)
      PROVE  Next
  BY <1>5 DEF AroundHandler, FinishedAndReleased, KillInHandler, Next, RunnerStep
<1>6. ASSUME (\E c \in Clients : RequestStep(c)) \/ Tick
      PROVE  Next
  BY <1>6 DEF Next
<1> QED BY <1>1, <1>2, <1>4, <1>5, <1>6, Zenon DEF StepsNext

LEMMA RunnerInvariantKept ==
  ASSUME StepsInv, [StepsNext]_allVars
  PROVE  IInv'
  BY StepsAreRunnerSteps, NextKeeps DEF StepsInv

-----------------------------------------------------------------------------
(* Steps around the handlers: requests, the clock, and what a runner does  *)
(* before it claims a job and after its handler has ended.                 *)

Around ==
  /\ UNCHANGED <<steps, store>>
  /\ \/ UNCHANGED vars
     \/ \E r \in Runners :
          (\E c \in Clients : Kick(c, r)) \/ CronTick(r) \/ Recover(r) \/ Stop(r) \/ Settles(r)
     \/ (\E c \in Clients : RequestStep(c)) \/ Tick

\* Nobody begins to work, or to be about to mark a success.
LEMMA AroundNobodyBegins ==
  ASSUME IInv, Around, NEW q \in Runners
  PROVE  /\ pc'[q] = "run" <=> pc[q] = "run"
         /\ Working(q)' => Working(q) /\ held'[q] = held[q]
         /\ pc'[q] = "won" => pc[q] = "won"
<1> USE DEF Working, IInv, TypeOK
<1>1. CASE UNCHANGED vars
  BY <1>1 DEF vars, runner
<1>2. ASSUME NEW r \in Runners,
             (\E c \in Clients : Kick(c, r)) \/ CronTick(r) \/ Recover(r) \/ Stop(r)
      PROVE  /\ pc'[q] = "run" <=> pc[q] = "run"
             /\ Working(q)' => Working(q) /\ held'[q] = held[q]
             /\ pc'[q] = "won" => pc[q] = "won"
  BY <1>2 DEF Kick, CronTick, Invoke, Recover, Stop, Release
<1>3. ASSUME NEW r \in Runners, Settles(r)
      PROVE  /\ pc'[q] = "run" <=> pc[q] = "run"
             /\ Working(q)' => Working(q) /\ held'[q] = held[q]
             /\ pc'[q] = "won" => pc[q] = "won"
  BY <1>3 DEF Settles, Succeed, SucceedFails, ContinueLater, WaitForTokens, Fail, Release
<1>4. ASSUME (\E c \in Clients : RequestStep(c)) \/ Tick
      PROVE  UNCHANGED <<pc, held>>
  BY <1>4 DEF RequestStep, FindActive, Insert, RequestLost, runner, Tick
<1> QED BY <1>1, <1>2, <1>3, <1>4, Zenon DEF Around

\* An attempt is handed back by its worker, who is through with the job.
LEMMA AroundAttempts ==
  ASSUME IInv, Around, NEW j \in Jobs
  PROVE  \/ attempts'[j] = attempts[j]
         \/ /\ attempts'[j] = attempts[j] - 1
            /\ \A q \in Runners : Working(q)' => held'[q] # j
            /\ \E r \in Runners : pc[r] = "caught" /\ held[r] = j
<1> USE DEF IInv, TypeOK, QueueTypeOK
<1>1. CASE UNCHANGED vars
  BY <1>1 DEF vars, rows
<1>2. ASSUME NEW r \in Runners,
             (\E c \in Clients : Kick(c, r)) \/ CronTick(r) \/ Recover(r) \/ Stop(r)
      PROVE  attempts' = attempts
  BY <1>2 DEF Kick, CronTick, Recover, RequeueStuck, Stop, rows
<1>3. ASSUME NEW r \in Runners, Settles(r)
      PROVE  \/ attempts'[j] = attempts[j]
             \/ /\ attempts'[j] = attempts[j] - 1
                /\ \A q \in Runners : Working(q)' => held'[q] # j
                /\ pc[r] = "caught" /\ held[r] = j
  <2>1. CASE Succeed(r) \/ SucceedFails(r)
    BY <2>1 DEF Succeed, SucceedFails, MarkSucceeded, Settle, rows
  <2>2. ASSUME Fail(r) PROVE attempts' = attempts
    <3> DEFINE retryable == error[r] # "fatal"
    <3>1. CASE WillRetry(tries[r], retryable)
      BY <2>2, <3>1 DEF Fail, MarkFailed
    <3>2. CASE ~WillRetry(tries[r], retryable)
      BY <2>2, <3>2 DEF Fail, MarkFailed, Settle
    <3> QED BY <3>1, <3>2
  <2>3. ASSUME NEW wait, DeferRateLimited(held[r], wait), pc[r] = "caught", Release(r, "loop")
        PROVE  \/ attempts'[j] = attempts[j]
               \/ /\ attempts'[j] = attempts[j] - 1
                  /\ \A q \in Runners : Working(q)' => held'[q] # j
                  /\ pc[r] = "caught" /\ held[r] = j
    <3>1. CASE held[r] # j
      BY <2>3, <3>1 DEF DeferRateLimited
    <3>2. CASE held[r] = j
      <4>1. attempts[j] \in 1..MaxAttempts
        BY <2>3, <3>2, QueueAssumption DEF Working, WritesOwnClaim, TriesAreCounted
      <4>2. attempts'[j] = Greatest(attempts[j] - 1, 0)
        BY <2>3, <3>2 DEF DeferRateLimited
      <4>3. attempts'[j] = attempts[j] - 1
        BY <4>1, <4>2, QueueAssumption DEF Greatest
      <4>4. \A q \in Runners : Working(q)' => q # r /\ held'[q] = held[q] /\ Holding(q)
        BY <2>3 DEF Release, Working, Holding
      <4>5. \A q \in Runners \ {r} : Holding(q) => held[q] # j
        BY <2>3, <3>2 DEF ExclusiveOwner, Holding
      <4> QED BY <2>3, <3>2, <4>3, <4>4, <4>5
    <3> QED BY <3>1, <3>2
  <2>4. ContinueLater(r) \/ (\E w \in RetryAfters : WaitForTokens(r, w)) =>
          pc[r] = "caught" /\ Release(r, "loop") /\ \E wait \in Int : DeferRateLimited(held[r], wait)
    BY Delays DEF ContinueLater, WaitForTokens
  <2> QED BY <1>3, <2>1, <2>2, <2>3, <2>4, Zenon DEF Settles
<1>4. ASSUME (\E c \in Clients : RequestStep(c)) \/ Tick
      PROVE  attempts' = attempts
  BY <1>4 DEF RequestStep, FindActive, Insert, Enqueue, RequestLost, rows, Tick, RowsAge
<1> QED BY <1>1, <1>2, <1>3, <1>4, Zenon DEF Around

\* A job becomes succeeded by the hand of an invocation whose handler has returned.
LEMMA AroundSuccess ==
  ASSUME IInv, Around, NEW j \in Jobs, status'[j] = "succeeded", status[j] # "succeeded"
  PROVE  \E r \in Runners : pc[r] = "won" /\ held[r] = j
<1> USE DEF IInv, TypeOK, QueueTypeOK
<1>1. CASE UNCHANGED vars
  BY <1>1 DEF vars, rows
<1>2. ASSUME NEW r \in Runners,
             (\E c \in Clients : Kick(c, r)) \/ CronTick(r) \/ Recover(r) \/ Stop(r)
      PROVE  status'[j] # "succeeded"
  BY <1>2 DEF Kick, CronTick, Recover, RequeueStuck, Stop, rows
<1>3. ASSUME NEW r \in Runners, Settles(r)
      PROVE  pc[r] = "won" /\ held[r] = j
  <2>1. CASE Succeed(r) \/ SucceedFails(r)
    BY <2>1 DEF Succeed, SucceedFails, MarkSucceeded, Settle, rows
  <2>2. ASSUME Fail(r) PROVE FALSE
    <3> DEFINE retryable == error[r] # "fatal"
    <3>1. CASE WillRetry(tries[r], retryable)
      BY <2>2, <3>1 DEF Fail, MarkFailed
    <3>2. CASE ~WillRetry(tries[r], retryable)
      BY <2>2, <3>2 DEF Fail, MarkFailed, Settle
    <3> QED BY <3>1, <3>2
  <2>3. ContinueLater(r) \/ (\E w \in RetryAfters : WaitForTokens(r, w)) => FALSE
    BY DEF ContinueLater, WaitForTokens, DeferRateLimited
  <2> QED BY <1>3, <2>1, <2>2, <2>3, Zenon DEF Settles
<1>4. ASSUME (\E c \in Clients : RequestStep(c)) \/ Tick
      PROVE  status'[j] # "succeeded"
  BY <1>4 DEF RequestStep, FindActive, Insert, Enqueue, RequestLost, rows, Tick, RowsAge
<1> QED BY <1>1, <1>2, <1>3, <1>4, Zenon DEF Around

\* What is over stays over, unless somebody begins to work on it.
LEMMA OverStays ==
  ASSUME IInv, [Next]_vars, NEW j \in Jobs, Over(j),
         \A q \in Runners : Working(q)' => held'[q] # j
  PROVE  Over(j)'
<1>1. status'[j] = status[j]
  BY FinalStatusSteps DEF Over, Working
<1> QED BY <1>1 DEF Over

LEMMA AroundKeeps ==
  ASSUME StepsInv, Around, [Next]_vars
  PROVE  StepsInv'
<1>1. IInv /\ IInv'
  BY NextKeeps DEF StepsInv
<1>2. /\ UNCHANGED <<op, step, calls, recording, flag>>
      /\ UNCHANGED <<checkpoint, reports, storeFailed, wins>>
  BY DEF Around, steps, store
<1>3. \A q \in Runners :
        /\ pc'[q] = "run" <=> pc[q] = "run"
        /\ Working(q)' => Working(q) /\ held'[q] = held[q]
        /\ pc'[q] = "won" => pc[q] = "won"
  BY <1>1, AroundNobodyBegins, Zenon
<1>4. StepsTypeOK' /\ InHandler'
  BY <1>1, <1>2, <1>3 DEF StepsInv, StepsTypeOK, InHandler, IInv
<1>5. \A q \in Runners : op[q] # "none" => Working(q)' /\ held'[q] = held[q]
  BY <1>3 DEF StepsInv, InHandler, Working
<1>6. Reported'
  <2>1. ASSUME NEW j \in Jobs, status'[j] = "succeeded"
        PROVE  reports[j] > 0
    BY <1>1, <2>1, AroundSuccess DEF StepsInv, Reported
  <2>2. ASSUME NEW q \in Runners, op[q] = "done" \/ pc'[q] = "won"
        PROVE  reports[held'[q]] > 0
    BY <1>3, <1>5, <2>2 DEF StepsInv, Reported, Working
  <2> QED BY <1>2, <2>1, <2>2 DEF Reported
<1>7. ASSUME WhileStoreWorks
      PROVE  WhileStoreWorks'
  <2>1. InOrder' /\ FewWins'
    BY <1>2, <1>7 DEF WhileStoreWorks, InOrder, FewWins
  <2>2. ASSUME NEW q \in Runners
        PROVE  ProgressOf(q)'
    BY <1>2, <1>5, <1>7, <2>2 DEF WhileStoreWorks, ProgressOf
  <2>3. ASSUME NEW j \in Jobs
        PROVE  WinsOf(j)'
    <3>1. SUFFICES ASSUME ~Over(j)', NEW s \in Steps \ checkpoint[j]
                   PROVE  /\ wins[j][s] <= attempts'[j]
                          /\ \A r \in Runners : Working(r)' /\ held'[r] = j =>
                               wins[j][s] < attempts'[j] \/ (op[r] = "record" /\ step[r] = s)
      BY <1>2 DEF WinsOf
    <3>2. ~Over(j)
      <4>1. CASE \A q \in Runners : Working(q)' => held'[q] # j
        BY <1>1, <3>1, <4>1, OverStays
      <4>2. CASE \E q \in Runners : Working(q)' /\ held'[q] = j
        BY <1>3, <4>2 DEF Over
      <4> QED BY <4>1, <4>2
    <3>3. /\ wins[j][s] <= attempts[j]
          /\ \A r \in Runners : Working(r) /\ held[r] = j =>
               wins[j][s] < attempts[j] \/ (op[r] = "record" /\ step[r] = s)
      BY <1>7, <3>2 DEF WhileStoreWorks, WinsOf
    <3>4. CASE attempts'[j] = attempts[j]
      BY <1>3, <3>3, <3>4
    <3>5. CASE /\ attempts'[j] = attempts[j] - 1
               /\ \A q \in Runners : Working(q)' => held'[q] # j
               /\ \E r \in Runners : pc[r] = "caught" /\ held[r] = j
      <4>1. PICK r \in Runners : pc[r] = "caught" /\ held[r] = j
        BY <3>5
      <4>2. Working(r) /\ op[r] = "none"
        BY <4>1 DEF Working, StepsInv, InHandler
      <4>3. wins[j][s] < attempts[j]
        BY <3>3, <4>1, <4>2
      <4>4. wins[j][s] \in Nat /\ attempts[j] \in Nat
        BY DEF StepsInv, StepsTypeOK, TypeOK, QueueTypeOK
      <4> QED BY <3>5, <4>3, <4>4
    <3> QED BY <1>1, <3>4, <3>5, AroundAttempts
  <2> QED BY <2>1, <2>2, <2>3 DEF WhileStoreWorks
<1> QED BY <1>1, <1>2, <1>4, <1>6, <1>7 DEF StepsInv

-----------------------------------------------------------------------------
(* Steps of a handler, which are about one job.                            *)

\* What a step of r's handler leaves alone.
Local(r) ==
  /\ pc[r] = "run" /\ pc'[r] \in {"run", "won", "caught"}
  /\ UNCHANGED <<rows, held>>
  /\ \A q \in Runners \ {r} :
       pc'[q] = pc[q] /\ op'[q] = op[q] /\ step'[q] = step[q] /\ recording'[q] = recording[q]
  /\ \A j \in Jobs \ {held[r]} : checkpoint'[j] = checkpoint[j] /\ wins'[j] = wins[j]
  /\ \A j \in Jobs : reports[j] > 0 => reports'[j] > 0

\* What it must keep of its own job.
OwnJob(r) ==
  LET j == held[r] IN
  /\ \A s \in checkpoint'[j] : 1..s \subseteq checkpoint'[j]
  /\ \A s \in Steps : wins'[j][s] <= MaxAttempts
  /\ \A s \in Steps \ checkpoint'[j] :
       /\ wins'[j][s] <= attempts[j]
       /\ wins'[j][s] < attempts[j] \/ (op'[r] = "record" /\ step'[r] = s)

LEMMA LocalKeeps ==
  ASSUME StepsInv, NEW r \in Runners, Local(r), IInv', StepsTypeOK', storeFailed => storeFailed',
         (op'[r] # "none" <=> pc'[r] = "run") /\ (op'[r] = "none" => step'[r] = 1),
         op'[r] = "done" \/ pc'[r] = "won" => reports'[held[r]] > 0,
         storeFailed' \/ (OwnJob(r) /\ ProgressOf(r)')
  PROVE  StepsInv'
<1>0. held[r] \in Jobs /\ Working(r) /\ \A q \in Runners \ {r} : Holding(q) => held[q] # held[r] /\ held[q] \in Jobs
  BY DEF Local, Working, Holding, StepsInv, IInv, HeldMatchesPc, ExclusiveOwner
<1>1. InHandler'
  BY DEF Local, StepsInv, InHandler
<1>2. \A q \in Runners : op[q] # "none" => Holding(q)
  BY DEF StepsInv, InHandler, Holding
<1>3. Reported'
  <2>1. ASSUME NEW j \in Jobs, status'[j] = "succeeded"
        PROVE  reports'[j] > 0
    BY <2>1 DEF Local, StepsInv, Reported, rows
  <2>2. ASSUME NEW q \in Runners \ {r}, op'[q] = "done" \/ pc'[q] = "won"
        PROVE  reports'[held'[q]] > 0
    <3>1. (op[q] = "done" \/ pc[q] = "won") /\ held'[q] = held[q]
      BY <2>2 DEF Local
    <3>2. Holding(q)
      BY <1>2, <3>1 DEF Holding
    <3> QED BY <1>0, <3>1, <3>2 DEF Local, StepsInv, Reported
  <2>3. held'[r] = held[r]
    BY DEF Local
  <2> QED BY <2>1, <2>2, <2>3 DEF Reported
<1>4. ASSUME ~storeFailed'
      PROVE  WhileStoreWorks'
  <2>1. WhileStoreWorks /\ OwnJob(r) /\ ProgressOf(r)'
    BY <1>4 DEF StepsInv
  <2>2. InOrder'
    BY <2>1 DEF WhileStoreWorks, InOrder, OwnJob, Local
  <2>3. FewWins'
    BY <2>1 DEF WhileStoreWorks, FewWins, OwnJob, Local
  <2>4. ASSUME NEW q \in Runners \ {r}
        PROVE  ProgressOf(q)'
    BY <1>0, <1>2, <2>1 DEF WhileStoreWorks, ProgressOf, Local
  <2>5. ASSUME NEW j \in Jobs
        PROVE  WinsOf(j)'
    <3>1. \A q \in Runners : Working(q)' <=> Working(q)
      BY DEF Local, Working
    <3>2. /\ Over(j)' <=> Over(j)
          /\ attempts' = attempts /\ held' = held
      BY <3>1 DEF Over, Local, rows
    <3>3. CASE j = held[r]
      <4>1. \A q \in Runners : Working(q)' /\ held'[q] = j => q = r
        BY <1>0, <3>1, <3>2, <3>3 DEF Working, Holding
      <4> QED BY <2>1, <3>2, <3>3, <4>1 DEF OwnJob, WinsOf
    <3>4. CASE j # held[r]
      <4>1. \A q \in Runners : held[q] = j => q # r
        BY <3>4
      <4>2. WinsOf(j)
        BY <2>1 DEF WhileStoreWorks
      <4> QED BY <3>1, <3>2, <3>4, <4>1, <4>2 DEF WinsOf, Local
    <3> QED BY <3>3, <3>4
  <2> QED BY <2>1, <2>2, <2>3, <2>4, <2>5 DEF WhileStoreWorks
<1> QED BY <1>1, <1>3, <1>4 DEF StepsInv

\* Wherever a handler throws, its job is left as it is.
LEMMA ThrowKeeps ==
  ASSUME StepsInv, IInv', NEW r \in Runners, NEW e \in Errors, NEW f, Throw(r, e, f),
         op[r] \notin {"none", "record"}, UNCHANGED store
  PROVE  StepsInv'
<1> USE DEF StepsInv, StepsTypeOK, IInv, TypeOK
<1>1. /\ UNCHANGED <<checkpoint, reports, storeFailed, wins>>
      /\ pc[r] = "run" /\ pc' = [pc EXCEPT ![r] = "caught"] /\ UNCHANGED <<rows, held>>
      /\ LeaveHandler(r)
  BY DEF Throw, HandlerThrows, store
<1>2. Local(r)
  BY <1>1 DEF Local, LeaveHandler
<1>3. StepsTypeOK'
  <2>1. 0 \in 0..StepAttempts - 1 /\ 1 \in Steps /\ "none" \in Ops
    BY StepAssumption DEF Ops, Steps
  <2>2. /\ op' \in [Runners -> Ops] /\ step' \in [Runners -> Steps]
        /\ calls' \in [Runners -> 0..StepAttempts - 1]
        /\ recording' \in [Runners -> BOOLEAN] /\ flag' \in [Runners -> BOOLEAN]
    BY <1>1, <2>1 DEF LeaveHandler
  <2>3. TypeOK'
    OBVIOUS
  <2> QED BY <1>1, <2>2, <2>3
<1>4. op'[r] = "none" /\ step'[r] = 1 /\ pc'[r] = "caught"
  BY <1>1 DEF LeaveHandler
<1>5. storeFailed' \/ (OwnJob(r) /\ ProgressOf(r)')
  <2>1. ASSUME ~storeFailed'
        PROVE  OwnJob(r) /\ ProgressOf(r)'
    <3>1. Working(r) /\ held[r] \in Jobs
      BY <1>1 DEF Working, Holding, HeldMatchesPc
    <3>2. ~Over(held[r])
      BY <3>1 DEF Over
    <3> QED BY <1>1, <1>4, <2>1, <3>1, <3>2
            DEF OwnJob, ProgressOf, WhileStoreWorks, WinsOf, InOrder, FewWins
  <2> QED BY <2>1
<1> QED BY <1>1, <1>2, <1>3, <1>4, <1>5, LocalKeeps

\* The facts a step of the handler starts from.
LEMMA InStep ==
  ASSUME StepsInv, NEW r \in Runners, op[r] # "none"
  PROVE  /\ pc[r] = "run" /\ held[r] \in Jobs /\ Working(r)
         /\ step[r] \in Steps /\ LastStep \in Nat /\ 1 \in Steps
         /\ attempts[held[r]] \in 0..MaxAttempts /\ MaxAttempts \in Nat
         /\ ~storeFailed =>
              /\ ProgressOf(r)
              /\ \A s \in checkpoint[held[r]] : 1..s \subseteq checkpoint[held[r]]
              /\ \A s \in Steps : wins[held[r]][s] <= MaxAttempts /\ wins[held[r]][s] \in Nat
              /\ \A s \in Steps \ checkpoint[held[r]] :
                   /\ wins[held[r]][s] <= attempts[held[r]]
                   /\ wins[held[r]][s] < attempts[held[r]] \/ (op[r] = "record" /\ step[r] = s)
<1>1. pc[r] = "run" /\ held[r] \in Jobs /\ Working(r)
  BY DEF InHandler, Working, Holding, HeldMatchesPc, StepsInv, IInv
<1>2. ~Over(held[r])
  BY <1>1 DEF Over
<1>3. step[r] \in Steps /\ LastStep \in Nat /\ 1 \in Steps
  BY StepAssumption DEF StepsInv, StepsTypeOK, Steps
<1>4. attempts[held[r]] \in 0..MaxAttempts /\ MaxAttempts \in Nat
  BY <1>1, QueueAssumption DEF StepsInv, IInv, TypeOK, QueueTypeOK
<1>5. \A s \in Steps : wins[held[r]][s] \in Nat
  BY <1>1 DEF StepsInv, StepsTypeOK
<1>6. ASSUME ~storeFailed
      PROVE  /\ ProgressOf(r)
             /\ \A s \in checkpoint[held[r]] : 1..s \subseteq checkpoint[held[r]]
             /\ \A s \in Steps : wins[held[r]][s] <= MaxAttempts
             /\ \A s \in Steps \ checkpoint[held[r]] :
                  /\ wins[held[r]][s] <= attempts[held[r]]
                  /\ wins[held[r]][s] < attempts[held[r]] \/ (op[r] = "record" /\ step[r] = s)
  BY <1>1, <1>2, <1>6 DEF StepsInv, WhileStoreWorks, WinsOf, InOrder, FewWins
<1> QED BY <1>1, <1>3, <1>4, <1>5, <1>6

\* A step that writes nothing but where the handler is, and that something failed.
LEMMA MovesKeep ==
  ASSUME StepsInv, IInv', NEW r \in Runners, op[r] \notin {"none", "record"},
         op' = [op EXCEPT ![r] = op'[r]], op'[r] \in Ops \ {"none", "record"},
         step' = [step EXCEPT ![r] = step'[r]], step'[r] \in Steps,
         recording' = [recording EXCEPT ![r] = recording'[r]], recording'[r] \in BOOLEAN,
         calls' \in [Runners -> 0..StepAttempts - 1], flag' \in [Runners -> BOOLEAN],
         UNCHANGED <<vars, checkpoint, reports, wins>>,
         storeFailed' \in BOOLEAN, storeFailed => storeFailed',
         op'[r] = "done" => reports[held[r]] > 0,
         storeFailed' \/ ProgressOf(r)'
  PROVE  StepsInv'
<1>1. UNCHANGED <<rows, pc, held, checkpoint, reports, wins>>
  BY DEF vars, runner
<1>2. pc[r] = "run" /\ op'[r] # "none" /\ pc'[r] = "run"
  BY <1>1, InStep
<1>3. Local(r)
  BY <1>1, <1>2 DEF Local, StepsInv, StepsTypeOK
<1>4. StepsTypeOK'
  BY <1>1 DEF StepsInv, StepsTypeOK, IInv
<1>5. storeFailed' \/ OwnJob(r)
  BY <1>1, InStep DEF OwnJob
<1> QED BY <1>1, <1>2, <1>3, <1>4, <1>5, LocalKeeps

LEMMA HandlerKeeps ==
  ASSUME StepsInv, IInv', NEW r \in Runners, HandlerStep(r)
  PROVE  StepsInv'
<1> DEFINE j == held[r]
<1>0. /\ op \in [Runners -> Ops] /\ step \in [Runners -> Steps]
      /\ calls \in [Runners -> 0..StepAttempts - 1]
      /\ recording \in [Runners -> BOOLEAN] /\ flag \in [Runners -> BOOLEAN]
      /\ checkpoint \in [Jobs -> SUBSET Steps] /\ reports \in [Jobs -> 0..2]
      /\ storeFailed \in BOOLEAN /\ wins \in [Jobs -> [Steps -> 0..MaxAttempts + 1]]
      /\ pc \in [Runners -> RunnerPcs] /\ 0 \in 0..StepAttempts - 1
  BY StepAssumption DEF StepsInv, StepsTypeOK, TypeOK
<1>1. op[r] # "none"
  BY <1>0 DEF HandlerStep, TenantRefused, ResumeFromCheckpoint, NoCheckpoint, RefuseStep, StartStep,
     AgentSucceeds, AgentFailsTransiently, AgentFails, RecordCheckpoint, CheckpointLost, SaveReport,
     HandlerEnds
<1>2. /\ pc[r] = "run" /\ j \in Jobs /\ Working(r)
      /\ step[r] \in Steps /\ LastStep \in Nat /\ 1 \in Steps
      /\ attempts[j] \in 0..MaxAttempts /\ MaxAttempts \in Nat
      /\ ~storeFailed =>
           /\ ProgressOf(r)
           /\ \A s \in checkpoint[j] : 1..s \subseteq checkpoint[j]
           /\ \A s \in Steps : wins[j][s] <= MaxAttempts /\ wins[j][s] \in Nat
           /\ \A s \in Steps \ checkpoint[j] :
                /\ wins[j][s] <= attempts[j]
                /\ wins[j][s] < attempts[j] \/ (op[r] = "record" /\ step[r] = s)
  BY <1>1, InStep
\* With the step of the handler recorded, all steps up to it are.
<1>3. ASSUME ~storeFailed, step[r] \in checkpoint[j], 1..step[r] - 1 \subseteq checkpoint[j]
      PROVE  /\ step[r] = LastStep => checkpoint[j] = Steps
             /\ 1..step[r] \subseteq checkpoint[j]
  BY <1>0, <1>2, <1>3 DEF Steps
<1>4. CASE TenantRefused(r) \/ RefuseStep(r) \/ AgentFails(r)
  <2>1. UNCHANGED store /\ op[r] \notin {"none", "record"}
    BY <1>4 DEF TenantRefused, RefuseStep, AgentFails
  <2>2. \E e \in Errors, f \in {TRUE, FALSE, flag[r], flag[r] \/ TRUE, flag[r] \/ FALSE} : Throw(r, e, f)
    BY <1>4 DEF TenantRefused, RefuseStep, AgentFails, Errors
  <2> QED BY <2>1, <2>2, ThrowKeeps, Zenon
<1>5. CASE ResumeFromCheckpoint(r)
  <2>1. /\ op[r] = "look" /\ step[r] \in checkpoint[j] /\ Advance(r)
        /\ UNCHANGED <<vars, flag, checkpoint, reports, storeFailed, wins>>
    BY <1>5 DEF ResumeFromCheckpoint, Saved, store
  <2>2. /\ op' = [op EXCEPT ![r] = op'[r]] /\ op'[r] \in Ops \ {"none", "record"} /\ op'[r] # "done"
        /\ step' = [step EXCEPT ![r] = step'[r]] /\ step'[r] \in Steps
        /\ recording' = [recording EXCEPT ![r] = recording'[r]] /\ recording'[r] \in BOOLEAN
        /\ calls' \in [Runners -> 0..StepAttempts - 1]
    BY <1>0, <1>2, <2>1 DEF Advance, Ops, Steps
  <2>3. storeFailed \/ ProgressOf(r)'
    <3>1. SUFFICES ASSUME ~storeFailed PROVE ProgressOf(r)'
      OBVIOUS
    <3>2. 1..step[r] \subseteq checkpoint[j] /\ (step[r] = LastStep => checkpoint[j] = Steps)
      BY <1>2, <1>3, <2>1, <3>1 DEF ProgressOf
    <3>3. held' = held
      BY <2>1 DEF vars, runner
    <3> QED BY <1>0, <1>2, <2>1, <3>2, <3>3 DEF Advance, ProgressOf, Steps
  <2> QED BY <1>0, <2>1, <2>2, <2>3, MovesKeep
<1>6. CASE NoCheckpoint(r)
  <2>1. /\ op[r] = "look" /\ op' = [op EXCEPT ![r] = "admit"]
        /\ UNCHANGED <<vars, step, calls, recording, flag, checkpoint, reports, wins>>
        /\ storeFailed' = (storeFailed \/ step[r] \in checkpoint[j])
    BY <1>6 DEF NoCheckpoint, Hides, Saved
  <2>2. storeFailed' \/ ProgressOf(r)'
    <3>1. held' = held
      BY <2>1 DEF vars, runner
    <3> QED BY <1>0, <1>2, <2>1, <3>1 DEF ProgressOf
  <2> QED BY <1>0, <1>2, <2>1, <2>2, MovesKeep DEF Ops
<1>7. CASE StartStep(r)
  <2>1. PICK recorded \in BOOLEAN :
          /\ storeFailed' = (storeFailed \/ ~recorded)
          /\ recording' = [recording EXCEPT ![r] = recorded]
    BY <1>7 DEF StartStep, Hides
  <2>2. /\ op[r] = "admit" /\ op' = [op EXCEPT ![r] = "call"]
        /\ UNCHANGED <<vars, step, calls, flag, checkpoint, reports, wins>>
    BY <1>7 DEF StartStep
  <2>3. storeFailed' \/ ProgressOf(r)'
    <3>1. held' = held
      BY <2>2 DEF vars, runner
    <3> QED BY <1>0, <1>2, <2>1, <2>2, <3>1 DEF ProgressOf
  <2> QED BY <1>0, <1>2, <2>1, <2>2, <2>3, MovesKeep DEF Ops
<1>8. CASE AgentFailsTransiently(r)
  <2>1. /\ op[r] = "call" /\ calls' = [calls EXCEPT ![r] = @ + 1] /\ calls[r] + 1 < StepAttempts
        /\ UNCHANGED <<vars, op, step, recording, flag, checkpoint, reports, storeFailed, wins>>
    BY <1>8 DEF AgentFailsTransiently, store
  <2>2. storeFailed' \/ ProgressOf(r)'
    <3>1. held' = held
      BY <2>1 DEF vars, runner
    <3> QED BY <1>0, <1>2, <2>1, <3>1 DEF ProgressOf
  <2>3. calls' \in [Runners -> 0..StepAttempts - 1]
    BY <1>0, <2>1, StepAssumption
  <2> QED BY <1>0, <1>2, <2>1, <2>2, <2>3, MovesKeep DEF Ops
<1>9. CASE AgentSucceeds(r)
  <2>1. /\ op[r] = "call" /\ op' = [op EXCEPT ![r] = "record"]
        /\ wins' = [wins EXCEPT ![j][step[r]] = Least(@ + 1, MaxAttempts + 1)]
        /\ UNCHANGED <<vars, step, calls, recording, checkpoint, reports, storeFailed>>
        /\ flag' \in [Runners -> BOOLEAN]
    BY <1>0, <1>9 DEF AgentSucceeds
  <2>2. UNCHANGED <<rows, pc, held>>
    BY <2>1 DEF vars, runner
  <2>3. Least(wins[j][step[r]] + 1, MaxAttempts + 1) \in 0..MaxAttempts + 1
    BY <1>0, <1>2 DEF Least
  <2>4. wins' \in [Jobs -> [Steps -> 0..MaxAttempts + 1]]
    BY <1>0, <1>2, <2>1, <2>3
  <2>5. StepsTypeOK'
    BY <1>0, <2>1, <2>2, <2>4 DEF StepsTypeOK, Ops, IInv
  <2>6. Local(r)
    BY <1>0, <1>2, <2>1, <2>2 DEF Local
  <2>7. ASSUME ~storeFailed
        PROVE  OwnJob(r) /\ ProgressOf(r)'
    <3>1. ProgressOf(r) /\ step[r] \notin checkpoint[j]
      BY <1>2, <2>1, <2>7 DEF ProgressOf
    <3>2. wins[j][step[r]] < attempts[j] /\ wins[j][step[r]] \in Nat
      BY <1>2, <2>1, <2>7, <3>1
    <3>3. wins'[j][step[r]] = wins[j][step[r]] + 1
      BY <1>0, <1>2, <2>1, <3>2 DEF Least
    <3>4. \A s \in Steps \ {step[r]} : wins'[j][s] = wins[j][s]
      BY <1>0, <1>2, <2>1
    <3>5. op'[r] = "record" /\ step'[r] = step[r]
      BY <1>0, <2>1
    <3>6. OwnJob(r)
      BY <1>2, <2>1, <2>7, <3>2, <3>3, <3>4, <3>5 DEF OwnJob
    <3>7. ProgressOf(r)'
      BY <2>1, <2>2, <3>1, <3>5 DEF ProgressOf
    <3> QED BY <3>6, <3>7
  <2> QED BY <1>0, <1>2, <2>1, <2>2, <2>5, <2>6, <2>7, LocalKeeps
<1>10. CASE RecordCheckpoint(r) \/ CheckpointLost(r)
  <2>1. PICK stale \in {{}, {LastStep}} :
          checkpoint' = [checkpoint EXCEPT ![j] =
            (@ \ stale) \cup IF RecordCheckpoint(r) THEN {step[r]} ELSE {}]
    BY <1>10 DEF RecordCheckpoint, CheckpointLost
  <2>2. /\ op[r] = "record" /\ Advance(r) /\ UNCHANGED <<vars, flag, reports, wins>>
        /\ storeFailed' \in BOOLEAN /\ (storeFailed => storeFailed')
    BY <1>0, <1>10 DEF RecordCheckpoint, CheckpointLost, Hides
  <2>3. UNCHANGED <<rows, pc, held>>
    BY <2>2 DEF vars, runner
  <2>4. checkpoint' \in [Jobs -> SUBSET Steps]
    BY <1>0, <1>2, <2>1
  <2>5. /\ op' \in [Runners -> Ops] /\ op'[r] \in {"save", "look"}
        /\ step' \in [Runners -> Steps]
        /\ recording' \in [Runners -> BOOLEAN] /\ calls' \in [Runners -> 0..StepAttempts - 1]
    <3>1. CASE step[r] = LastStep
      BY <1>0, <1>2, <2>2, <3>1 DEF Advance, Ops
    <3>2. CASE step[r] # LastStep
      <4>1. step[r] + 1 \in Steps
        BY <1>2, <3>2 DEF Steps
      <4> QED BY <1>0, <1>2, <2>2, <3>2, <4>1 DEF Advance, Ops
    <3> QED BY <3>1, <3>2
  <2>6. StepsTypeOK'
    BY <1>0, <2>2, <2>4, <2>5 DEF StepsTypeOK, IInv
  <2>7. Local(r)
    <3>1. \A q \in Runners \ {r} : op'[q] = op[q] /\ step'[q] = step[q] /\ recording'[q] = recording[q]
      BY <1>0, <2>2 DEF Advance
    <3> QED BY <1>0, <1>2, <2>1, <2>2, <2>3, <3>1 DEF Local
  <2>8. ASSUME ~storeFailed'
        PROVE  OwnJob(r) /\ ProgressOf(r)'
    <3>1. /\ ~storeFailed /\ ProgressOf(r) /\ step[r] \notin checkpoint[j] /\ recording[r]
          /\ 1..step[r] - 1 \subseteq checkpoint[j]
      BY <1>2, <2>2, <2>8 DEF ProgressOf
    <3>2. RecordCheckpoint(r)
      BY <1>10, <2>8, <3>1 DEF CheckpointLost, Hides
    <3>3. LastStep \notin checkpoint[j]
      BY <1>2, <3>1 DEF Steps
    <3>4. checkpoint'[j] = checkpoint[j] \union {step[r]}
      BY <1>0, <1>2, <2>1, <3>2, <3>3
    <3>5. 1..step[r] \subseteq checkpoint'[j]
      BY <1>2, <3>1, <3>4 DEF Steps
    <3>6. \A s \in checkpoint'[j] : 1..s \subseteq checkpoint'[j]
      BY <1>2, <3>1, <3>4, <3>5
    <3>7. \A s \in Steps \ checkpoint'[j] : wins[j][s] <= attempts[j] /\ wins[j][s] < attempts[j]
      BY <1>2, <3>1, <3>4
    <3>8. OwnJob(r)
      BY <1>2, <2>2, <3>1, <3>6, <3>7 DEF OwnJob
    <3>9. step[r] = LastStep => checkpoint'[j] = Steps
      BY <1>0, <1>2, <2>4, <3>5 DEF Steps
    <3>10. CASE step[r] = LastStep
      <4>1. op'[r] = "save" /\ step'[r] = step[r]
        BY <1>0, <2>2, <3>10 DEF Advance
      <4>2. ProgressOf(r)'
        BY <1>2, <2>3, <3>5, <3>9, <3>10, <4>1 DEF ProgressOf, Steps
      <4> QED BY <3>8, <4>2
    <3>11. CASE step[r] # LastStep
      <4>1. op'[r] = "look" /\ step'[r] = step[r] + 1
        BY <1>0, <2>2, <3>11 DEF Advance
      <4>2. step'[r] - 1 = step[r]
        BY <1>2, <4>1 DEF Steps
      <4>3. ProgressOf(r)'
        BY <2>3, <3>5, <4>1, <4>2 DEF ProgressOf
      <4> QED BY <3>8, <4>3
    <3> QED BY <3>10, <3>11
  <2>9. op'[r] # "none" /\ op'[r] # "done" /\ pc'[r] = "run"
    BY <1>2, <2>3, <2>5
  <2> QED BY <2>2, <2>6, <2>7, <2>8, <2>9, LocalKeeps
<1>11. CASE SaveReport(r)
  <2>1. op[r] = "save" /\ UNCHANGED <<checkpoint, storeFailed, wins>>
    BY <1>11 DEF SaveReport
  <2>2. CASE /\ reports' = [reports EXCEPT ![j] = Twice(@)]
             /\ op' = [op EXCEPT ![r] = "done"]
             /\ UNCHANGED <<vars, step, calls, recording, flag>>
    <3>1. UNCHANGED <<rows, pc, held>>
      BY <2>2 DEF vars, runner
    <3>2. reports'[j] \in 1..2 /\ \A i \in Jobs \ {j} : reports'[i] = reports[i]
      BY <1>0, <1>2, <2>2 DEF Twice, Least
    <3>3. reports' \in [Jobs -> 0..2]
      BY <1>0, <1>2, <2>2, <3>2
    <3>4. StepsTypeOK'
      BY <1>0, <2>1, <2>2, <3>3 DEF StepsTypeOK, Ops, IInv
    <3>5. Local(r)
      <4>1. \A i \in Jobs : reports[i] > 0 => reports'[i] > 0
        BY <3>2
      <4> QED BY <1>0, <1>2, <2>1, <2>2, <3>1, <4>1 DEF Local
    <3>6. op'[r] = "done" /\ pc'[r] = "run" /\ step'[r] = step[r]
      BY <1>0, <1>2, <2>2, <3>1
    <3>7. ASSUME ~storeFailed
          PROVE  OwnJob(r) /\ ProgressOf(r)'
      <4>1. OwnJob(r)
        BY <1>2, <2>1, <3>7 DEF OwnJob
      <4>2. ProgressOf(r)'
        BY <1>2, <2>1, <3>1, <3>6, <3>7 DEF ProgressOf
      <4> QED BY <4>1, <4>2
    <3>8. reports'[j] > 0
      BY <3>2
    <3> QED BY <2>1, <3>4, <3>5, <3>6, <3>7, <3>8, LocalKeeps
  <2>3. CASE Throw(r, "retryable", flag[r]) /\ UNCHANGED reports
    <3>1. UNCHANGED store
      BY <2>1, <2>3 DEF store
    <3> QED BY <2>1, <2>3, <3>1, ThrowKeeps, Zenon DEF Errors
  <2> QED BY <1>11, <2>2, <2>3, Zenon DEF SaveReport
<1>12. CASE HandlerEnds(r)
  <2>1. /\ op[r] = "done" /\ LeaveHandler(r) /\ HandlerReturns(r)
        /\ UNCHANGED <<checkpoint, reports, storeFailed, wins>>
    BY <1>12 DEF HandlerEnds, store
  <2>2. UNCHANGED <<rows, held>> /\ pc' = [pc EXCEPT ![r] = "won"]
    BY <2>1 DEF HandlerReturns
  <2>3. StepsTypeOK'
    BY <1>0, <1>2, <2>1 DEF LeaveHandler, StepsTypeOK, Ops, IInv
  <2>4. Local(r)
    BY <1>0, <1>2, <2>1, <2>2 DEF Local, LeaveHandler
  <2>5. op'[r] = "none" /\ step'[r] = 1 /\ pc'[r] = "won"
    BY <1>0, <2>1, <2>2 DEF LeaveHandler
  <2>6. reports'[held[r]] > 0
    BY <2>1 DEF StepsInv, Reported
  <2>7. ASSUME ~storeFailed
        PROVE  OwnJob(r) /\ ProgressOf(r)'
    BY <1>2, <2>1, <2>5, <2>7 DEF OwnJob, ProgressOf
  <2> QED BY <2>1, <2>3, <2>4, <2>5, <2>6, <2>7, LocalKeeps
<1> QED
  BY <1>4, <1>5, <1>6, <1>7, <1>8, <1>9, <1>10, <1>11, <1>12, Zenon DEF HandlerStep

-----------------------------------------------------------------------------
(* A handler begins, is killed, or has its job's checkpoints released.     *)

LEMMA ClaimKeeps ==
  ASSUME StepsInv, IInv', NEW r \in Runners, NEW j \in Jobs, ClaimAndStart(r, j)
  PROVE  StepsInv'
<1>1. /\ pc[r] = "loop" /\ pc' = [pc EXCEPT ![r] = "run"] /\ held' = [held EXCEPT ![r] = j]
      /\ status[j] = "queued" /\ status' = [status EXCEPT ![j] = "running"]
      /\ attempts' = [attempts EXCEPT ![j] = @ + 1]
      /\ op' = [op EXCEPT ![r] = "look"]
      /\ UNCHANGED <<step, calls, recording, flag, checkpoint, reports, storeFailed, wins>>
  BY DEF ClaimAndStart, Claim, ClaimNext, NextInLine, Claimable, store
<1> USE DEF StepsInv, IInv, TypeOK, QueueTypeOK
<1>2. StepsTypeOK'
  BY <1>1 DEF StepsTypeOK, Ops
<1>3. op[r] = "none" /\ step[r] = 1 /\ op'[r] = "look"
  BY <1>1 DEF InHandler, StepsTypeOK
<1>4. /\ \A q \in Runners \ {r} : pc'[q] = pc[q] /\ held'[q] = held[q] /\ op'[q] = op[q]
      /\ pc'[r] = "run" /\ held'[r] = j
  BY <1>1 DEF StepsTypeOK
<1>5. InHandler'
  BY <1>1, <1>3, <1>4 DEF InHandler
<1>6. Reported'
  <2>1. \A q \in Runners : op'[q] = "done" \/ pc'[q] = "won" =>
          q # r /\ (op[q] = "done" \/ pc[q] = "won") /\ held'[q] = held[q]
    BY <1>3, <1>4
  <2> QED BY <1>1, <2>1 DEF Reported
<1>7. ASSUME WhileStoreWorks
      PROVE  WhileStoreWorks'
  <2>1. InOrder' /\ FewWins'
    BY <1>1, <1>7 DEF WhileStoreWorks, InOrder, FewWins
  <2>2. ASSUME NEW q \in Runners
        PROVE  ProgressOf(q)'
    <3>1. CASE q = r
      BY <1>1, <1>3, <3>1 DEF ProgressOf
    <3>2. CASE q # r
      BY <1>1, <1>4, <1>7, <3>2 DEF WhileStoreWorks, ProgressOf
    <3> QED BY <3>1, <3>2
  <2>3. ASSUME NEW i \in Jobs, i # j
        PROVE  WinsOf(i)'
    <3>1. \A q \in Runners : Working(q)' /\ held'[q] = i <=> Working(q) /\ held[q] = i
      BY <1>1, <1>4, <2>3 DEF Working
    <3>2. attempts'[i] = attempts[i] /\ status'[i] = status[i]
      BY <1>1, <2>3
    <3>3. Over(i)' <=> Over(i)
      BY <3>1, <3>2 DEF Over
    <3>4. \A q \in Runners : Working(q)' /\ held'[q] = i => op'[q] = op[q]
      BY <1>4, <2>3
    <3> QED BY <1>1, <1>7, <3>1, <3>2, <3>3, <3>4 DEF WhileStoreWorks, WinsOf
  <2>4. WinsOf(j)'
    <3>1. ~Over(j)
      BY <1>1 DEF Over, FinalStatuses
    <3>2. \A s \in Steps \ checkpoint[j] : wins[j][s] <= attempts[j] /\ wins[j][s] \in Nat
      BY <1>7, <3>1 DEF WhileStoreWorks, WinsOf, StepsTypeOK
    <3>3. attempts'[j] = attempts[j] + 1 /\ attempts[j] \in Nat
      BY <1>1
    <3>4. \A s \in Steps \ checkpoint[j] : wins[j][s] <= attempts'[j] /\ wins[j][s] < attempts'[j]
      BY <3>2, <3>3
    <3> QED BY <1>1, <3>4 DEF WinsOf
  <2> QED BY <2>1, <2>2, <2>3, <2>4 DEF WhileStoreWorks
<1> QED BY <1>1, <1>2, <1>5, <1>6, <1>7

\* What ends an invocation's hold on its job.
LEMMA LettingGoKeeps ==
  ASSUME StepsInv, IInv', StepsTypeOK', NEW r \in Runners, UNCHANGED rows,
         pc'[r] \in {"off", "loop"}, op'[r] = "none", step'[r] = 1,
         \A q \in Runners \ {r} :
           pc'[q] = pc[q] /\ held'[q] = held[q] /\ op'[q] = op[q] /\ step'[q] = step[q]
             /\ recording'[q] = recording[q],
         \A i \in Jobs \ {held[r]} : checkpoint'[i] = checkpoint[i],
         checkpoint' = checkpoint
           \/ (pc[r] = "clear" /\ (storeFailed' \/ checkpoint'[held[r]] = {})),
         UNCHANGED <<reports, wins>>, storeFailed => storeFailed'
  PROVE  StepsInv'
<1>1. \A q \in Runners : Working(q)' => q # r /\ Working(q) /\ held'[q] = held[q] /\ op'[q] = op[q] /\ step'[q] = step[q]
  BY DEF Working
<1>2. InHandler'
  BY DEF StepsInv, InHandler
<1>3. Reported'
  <2>1. \A q \in Runners : op'[q] = "done" \/ pc'[q] = "won" =>
          (op[q] = "done" \/ pc[q] = "won") /\ held'[q] = held[q]
    OBVIOUS
  <2> QED BY <2>1 DEF StepsInv, Reported, rows
<1>4. ASSUME ~storeFailed'
      PROVE  WhileStoreWorks'
  <2>1. WhileStoreWorks
    BY <1>4 DEF StepsInv
  <2>2. \A i \in Jobs : checkpoint'[i] = checkpoint[i] \/ (i = held[r] /\ pc[r] = "clear" /\ checkpoint'[i] = {})
    BY <1>4
  <2>3. InOrder' /\ FewWins'
    BY <2>1, <2>2 DEF WhileStoreWorks, InOrder, FewWins
  <2>4. ASSUME NEW q \in Runners
        PROVE  ProgressOf(q)'
    <3>1. CASE q = r
      BY <3>1 DEF ProgressOf
    <3>2. CASE q # r /\ op[q] # "none"
      <4>1. Holding(q) /\ held[q] \in Jobs
        BY <3>2 DEF StepsInv, InHandler, Holding, IInv, HeldMatchesPc
      <4>2. checkpoint'[held[q]] = checkpoint[held[q]]
        BY <2>2, <3>2, <4>1 DEF StepsInv, IInv, ExclusiveOwner, Holding
      <4> QED BY <2>1, <3>2, <4>2 DEF WhileStoreWorks, ProgressOf
    <3>3. CASE q # r /\ op[q] = "none"
      BY <3>3 DEF ProgressOf
    <3> QED BY <3>1, <3>2, <3>3
  <2>5. ASSUME NEW i \in Jobs
        PROVE  WinsOf(i)'
    <3>1. Over(i) => Over(i)'
      BY <1>1 DEF Over, rows
    <3>2. CASE checkpoint'[i] = checkpoint[i]
      BY <1>1, <2>1, <3>1, <3>2 DEF WhileStoreWorks, WinsOf, rows
    <3>3. CASE i = held[r] /\ pc[r] = "clear"
      <4>1. Over(i)
        BY <3>3 DEF Over, StepsInv, IInv, ClearedIsOver, ExclusiveOwner, Working, Holding
      <4> QED BY <3>1, <4>1 DEF WinsOf
    <3> QED BY <2>2, <3>2, <3>3
  <2> QED BY <2>1, <2>3, <2>4, <2>5 DEF WhileStoreWorks
<1> QED BY <1>2, <1>3, <1>4 DEF StepsInv

LEMMA FinishedKeeps ==
  ASSUME StepsInv, IInv', NEW r \in Runners, FinishedAndReleased(r)
  PROVE  StepsInv'
<1>1. /\ pc[r] = "clear" /\ pc' = [pc EXCEPT ![r] = "loop"] /\ held' = [held EXCEPT ![r] = NoJob]
      /\ UNCHANGED <<rows, op, step, calls, recording, flag, reports, wins>>
      /\ storeFailed' \in BOOLEAN /\ (storeFailed => storeFailed')
      /\ \/ checkpoint' = [checkpoint EXCEPT ![held[r]] = {}]
         \/ checkpoint' = checkpoint
  BY DEF FinishedAndReleased, Finished, Release, Hides, steps, StepsInv, StepsTypeOK
<1>2. StepsTypeOK'
  BY <1>1 DEF StepsInv, StepsTypeOK, IInv
<1>3. pc'[r] = "loop" /\ op'[r] = "none" /\ step'[r] = 1
  BY <1>1 DEF StepsInv, IInv, TypeOK, InHandler
<1>4. \A q \in Runners \ {r} :
        pc'[q] = pc[q] /\ held'[q] = held[q] /\ op'[q] = op[q] /\ step'[q] = step[q]
          /\ recording'[q] = recording[q]
  BY <1>1 DEF StepsInv, IInv, TypeOK
<1>5. held[r] \in Jobs
  BY <1>1 DEF StepsInv, IInv, HeldMatchesPc, Holding
<1>6. /\ \A i \in Jobs \ {held[r]} : checkpoint'[i] = checkpoint[i]
      /\ checkpoint' = checkpoint \/ (pc[r] = "clear" /\ (storeFailed' \/ checkpoint'[held[r]] = {}))
  BY <1>1, <1>5 DEF StepsInv, StepsTypeOK
<1> QED BY <1>1, <1>2, <1>3, <1>4, <1>6, LettingGoKeeps

LEMMA KillKeeps ==
  ASSUME StepsInv, IInv', NEW r \in Runners, KillInHandler(r)
  PROVE  StepsInv'
<1>1. /\ pc' = [pc EXCEPT ![r] = "off"] /\ held' = [held EXCEPT ![r] = NoJob] /\ LeaveHandler(r)
      /\ UNCHANGED <<rows, checkpoint, reports, storeFailed, wins>>
  BY DEF KillInHandler, Kill, Release, store
<1>2. 0 \in 0..StepAttempts - 1 /\ 1 \in Steps /\ "none" \in Ops
  BY StepAssumption DEF Ops, Steps
<1>3. StepsTypeOK'
  BY <1>1, <1>2 DEF LeaveHandler, StepsInv, StepsTypeOK, IInv
<1>4. pc'[r] = "off" /\ op'[r] = "none" /\ step'[r] = 1
  BY <1>1 DEF LeaveHandler, StepsInv, StepsTypeOK, IInv, TypeOK
<1>5. \A q \in Runners \ {r} :
        pc'[q] = pc[q] /\ held'[q] = held[q] /\ op'[q] = op[q] /\ step'[q] = step[q]
          /\ recording'[q] = recording[q]
  BY <1>1 DEF LeaveHandler, StepsInv, StepsTypeOK, IInv, TypeOK
<1> QED BY <1>1, <1>3, <1>4, <1>5, LettingGoKeeps

-----------------------------------------------------------------------------
(* The theorems.                                                           *)

LEMMA StepsInitially ==
  StepsInit => StepsInv
<1>1. SUFFICES ASSUME StepsInit PROVE StepsInv
  OBVIOUS
<1>2. Init /\ IInv
  BY <1>1, InitIInv DEF StepsInit
<1>3. StepsTypeOK
  <2>1. 0 \in 0..StepAttempts - 1 /\ 1 \in Steps /\ 0 \in 0..MaxAttempts + 1
    BY StepAssumption, QueueAssumption DEF Steps
  <2>2. /\ op \in [Runners -> Ops] /\ step \in [Runners -> Steps]
        /\ calls \in [Runners -> 0..StepAttempts - 1]
        /\ recording \in [Runners -> BOOLEAN] /\ flag \in [Runners -> BOOLEAN]
    BY <1>1, <2>1 DEF StepsInit, Ops
  <2>3. checkpoint \in [Jobs -> SUBSET Steps] /\ reports \in [Jobs -> 0..2]
    BY <1>1 DEF StepsInit
  <2>4. wins \in [Jobs -> [Steps -> 0..MaxAttempts + 1]]
    BY <1>1, <2>1 DEF StepsInit
  <2>5. storeFailed \in BOOLEAN
    BY <1>1, Zenon DEF StepsInit
  <2> QED BY <1>2, <2>2, <2>3, <2>4, <2>5 DEF StepsTypeOK, IInv
<1>4. InHandler /\ Reported
  BY <1>1, <1>2 DEF StepsInit, Init, QueueInit, InHandler, Reported
<1>5. WhileStoreWorks
  BY <1>1, <1>2, QueueAssumption
     DEF StepsInit, Init, QueueInit, WhileStoreWorks, InOrder, ProgressOf, WinsOf, FewWins, Working
<1> QED BY <1>2, <1>3, <1>4, <1>5 DEF StepsInv

LEMMA StepsPreserved ==
  StepsInv /\ [StepsNext]_allVars => StepsInv'
<1>1. SUFFICES ASSUME StepsInv, [StepsNext]_allVars PROVE StepsInv'
  OBVIOUS
<1>2. [Next]_vars /\ IInv'
  BY <1>1, StepsAreRunnerSteps, RunnerInvariantKept
<1>3. CASE UNCHANGED allVars
  BY <1>1, <1>2, <1>3, AroundKeeps DEF allVars, Around
<1>4. ASSUME NEW r \in Runners, AroundHandler(r)
      PROVE  StepsInv'
  BY <1>1, <1>2, <1>4, AroundKeeps DEF AroundHandler, Around
<1>5. CASE ((\E c \in Clients : RequestStep(c)) \/ Tick) /\ UNCHANGED <<steps, store>>
  BY <1>1, <1>2, <1>5, AroundKeeps DEF Around
<1> QED
  BY <1>1, <1>2, <1>3, <1>4, <1>5, ClaimKeeps, HandlerKeeps, FinishedKeeps, KillKeeps, Zenon
     DEF StepsNext

\* The inductive invariant.
THEOREM StepsInductive == StepsSpec => []StepsInv
<1> QED BY StepsInitially, StepsPreserved, PTL DEF StepsSpec

\* Opening up the handler takes nothing back: with its checkpoints, retries and
\* swallowed errors a job runs as JobRunner says, and so as JobLifecycle promises.
THEOREM HandlersKeepLifecycle == StepsSpec => KeepsLifecycle
<1>1. StepsInit => Init
  BY DEF StepsInit
<1>2. [StepsNext]_allVars => [Next]_vars
  BY StepsAreRunnerSteps
<1>3. StepsSpec => Spec
  BY <1>1, <1>2, PTL DEF StepsSpec, Spec
<1> QED BY <1>3, Refinement

\* As long as platform.agent_runs works, an invocation that executes a step never has
\* that step's checkpoint in the table, not even one written since it looked.
THEOREM NoStepIsPaidForAgain == StepsSpec => []RecordedStepsAreNotPaidAgain
<1>1. StepsInv => RecordedStepsAreNotPaidAgain
  BY DEF StepsInv, WhileStoreWorks, ProgressOf, RecordedStepsAreNotPaidAgain
<1> QED BY <1>1, StepsInductive, PTL

\* A step succeeds at most as often as the job has attempts, however often the job is
\* deferred: a success repeated is one whose record a death prevented.
THEOREM SuccessesArePaidFor == StepsSpec => []SuccessesCostAttempts
<1>1. StepsInv => SuccessesCostAttempts
  BY DEF StepsInv, WhileStoreWorks, FewWins, SuccessesCostAttempts
<1> QED BY <1>1, StepsInductive, PTL

\* A job that succeeded has its report, and a report is made only when every step
\* is recorded, while the store works.
THEOREM SuccessIsReported == StepsSpec => []SuccessHasReport
<1>1. StepsInv => SuccessHasReport
  <2>1. ASSUME StepsInv, ~storeFailed, NEW r \in Runners, op[r] \in {"save", "done"}
        PROVE  checkpoint[held[r]] = Steps
    BY <2>1 DEF StepsInv, WhileStoreWorks, ProgressOf
  <2> QED BY <2>1 DEF StepsInv, Reported, SuccessHasReport
<1> QED BY <1>1, StepsInductive, PTL

=============================================================================
