----------------------------- MODULE JobRunner -----------------------------
(***************************************************************************)
(* Everything that touches platform.jobs, running concurrently:            *)
(*   - requests that enqueue a job once and then kick the runner           *)
(*     (enqueueOnce, respondJobAccepted, job-kick.ts);                     *)
(*   - pg_cron, which calls the runner when there is something to do;      *)
(*   - invocations of the serverless function inside runJobs, each of      *)
(*     which may be killed between any two statements and always is once   *)
(*     it is FunctionTimeout old.                                          *)
(* The handler is abstract here: it returns or throws.  CheckpointedJobs   *)
(* opens it up.                                                            *)
(***************************************************************************)
EXTENDS JobQueue

CONSTANTS
  Runners,         \* invocations that may be alive at the same time
  Clients,         \* requests that may be in progress at the same time
  NoJob,           \* an invocation that has claimed nothing
  FunctionTimeout, \* FUNCTION_TIMEOUT_SECONDS, enforced by the platform
  Budget,          \* DEFAULT_BUDGET_MS
  StepCutoff,      \* INVOCATION_DEADLINE_MS - minStepWindowMs
  ContinueAfter,   \* the one second after which an out-of-time job continues
  RetryAfters,     \* the waits the rate limiter may ask for
  RepliesLost      \* may the reply to a committed statement be lost?

ASSUME RunnerAssumption ==
  /\ NoJob \notin Jobs
  /\ FunctionTimeout \in Nat
  /\ FunctionTimeout <= StuckAfter
  /\ Budget \in Nat
  /\ StepCutoff \in Nat
  /\ ContinueAfter \in Nat
  /\ RetryAfters \subseteq Nat
  /\ RepliesLost \in BOOLEAN

ASSUME FirstBackoffAssumption == BackoffSeconds(1) \in Nat

VARIABLES
  reqPc,     \* where a request is: "idle", "insert" or "respond"
  reqKey,    \* the job the request asks for
  pc,        \* where an invocation is in runJobs, "off" when not running
  held,      \* the job it has claimed
  tries,     \* job.attempts as the claim returned it
  error,     \* what the handler threw
  limited,   \* usage.rateLimited, or a RateLimitError was thrown
  elapsed    \* how long the invocation has been running

requests == <<reqPc, reqKey>>
runner == <<pc, held, tries, error, limited, elapsed>>
vars == <<rows, requests, runner>>

RunnerPcs == {"off", "recover", "loop", "run", "won", "caught", "clear"}
\* StepBudgetExceededError, NonRetryableJobError, anything else.
Errors == {"budget", "fatal", "retryable"}

TypeOK ==
  /\ QueueTypeOK
  /\ reqPc \in [Clients -> {"idle", "insert", "respond"}]
  /\ reqKey \in [Clients -> Keys \cup {NoKey}]
  /\ pc \in [Runners -> RunnerPcs]
  /\ held \in [Runners -> Jobs \cup {NoJob}]
  /\ tries \in [Runners -> 0..MaxAttempts]
  /\ error \in [Runners -> Errors \cup {"none"}]
  /\ limited \in [Runners -> BOOLEAN]
  /\ elapsed \in [Runners -> 0..FunctionTimeout]

Init ==
  /\ QueueInit
  /\ reqPc = [c \in Clients |-> "idle"]
  /\ reqKey = [c \in Clients |-> NoKey]
  /\ pc = [r \in Runners |-> "off"]
  /\ held = [r \in Runners |-> NoJob]
  /\ tries = [r \in Runners |-> 0]
  /\ error = [r \in Runners |-> "none"]
  /\ limited = [r \in Runners |-> FALSE]
  /\ elapsed = [r \in Runners |-> 0]

Alive(r) == pc[r] # "off"
Holding(r) == pc[r] \in {"run", "won", "caught", "clear"}
\* The invocation may still write the row's status.
Working(r) == pc[r] \in {"run", "won", "caught"}

-----------------------------------------------------------------------------
(* Requests: enqueueOnce is a SELECT and then an INSERT.                   *)

FindActive(c, k) ==
  /\ reqPc[c] = "idle"
  /\ reqKey' = [reqKey EXCEPT ![c] = k]
  /\ reqPc' = [reqPc EXCEPT ![c] =
       IF \E j \in Jobs : Active(j) /\ jobKey[j] = k THEN "respond" ELSE "insert"]
  /\ UNCHANGED <<rows, runner>>

Insert(c, j) ==
  /\ reqPc[c] = "insert"
  /\ Enqueue(j, reqKey[c])
  /\ reqPc' = [reqPc EXCEPT ![c] = "respond"]
  /\ UNCHANGED <<reqKey, runner>>

RequestEnds(c) ==
  /\ reqPc' = [reqPc EXCEPT ![c] = "idle"]
  /\ reqKey' = [reqKey EXCEPT ![c] = NoKey]

\* The request fails or is killed, or its kick gets lost.
RequestLost(c) ==
  /\ reqPc[c] # "idle"
  /\ RequestEnds(c)
  /\ UNCHANGED <<rows, runner>>

-----------------------------------------------------------------------------
(* Invocations of POST /api/jobs/run.                                      *)

Invoke(r) ==
  /\ pc[r] = "off"
  /\ pc' = [pc EXCEPT ![r] = "recover"]
  /\ UNCHANGED <<held, tries, error, limited, elapsed>>

\* respondJobAccepted kicks the runner without waiting for it.
Kick(c, r) ==
  /\ reqPc[c] = "respond"
  /\ RequestEnds(c)
  /\ Invoke(r)
  /\ UNCHANGED rows

\* pg_cron, once a minute, if a row is due or stuck.
CronTick(r) ==
  /\ \E j \in Jobs : Claimable(j) \/ Stuck(j)
  /\ Invoke(r)
  /\ UNCHANGED <<rows, requests>>

Recover(r) ==
  /\ pc[r] = "recover"
  /\ RequeueStuck
  /\ pc' = [pc EXCEPT ![r] = "loop"]
  /\ UNCHANGED <<requests, held, tries, error, limited, elapsed>>

\* The invocation lets go of its job and goes on at label l.
Release(r, l) ==
  /\ pc' = [pc EXCEPT ![r] = l]
  /\ held' = [held EXCEPT ![r] = NoJob]
  /\ tries' = [tries EXCEPT ![r] = 0]
  /\ error' = [error EXCEPT ![r] = "none"]
  /\ limited' = [limited EXCEPT ![r] = FALSE]

Claim(r, j) ==
  /\ pc[r] = "loop"
  /\ elapsed[r] < Budget
  /\ ClaimNext(j)
  /\ pc' = [pc EXCEPT ![r] = "run"]
  /\ held' = [held EXCEPT ![r] = j]
  /\ tries' = [tries EXCEPT ![r] = attempts[j] + 1]
  /\ UNCHANGED <<requests, error, limited, elapsed>>

\* Out of budget, or the queue has nothing due.
Stop(r) ==
  /\ pc[r] = "loop"
  /\ elapsed[r] >= Budget \/ ~\E j \in Jobs : Claimable(j)
  /\ Release(r, "off")
  /\ elapsed' = [elapsed EXCEPT ![r] = 0]
  /\ UNCHANGED <<rows, requests>>

\* The handler returns; usage.rateLimited may have been set on the way.
HandlerReturns(r) ==
  /\ pc[r] = "run"
  /\ pc' = [pc EXCEPT ![r] = "won"]
  /\ limited' \in {[limited EXCEPT ![r] = b] : b \in BOOLEAN}
  /\ UNCHANGED <<rows, requests, held, tries, error, elapsed>>

\* The orchestrator is out of time only after the cutoff, and asks for the
\* rate limit first.
HandlerThrows(r, e) ==
  /\ pc[r] = "run"
  /\ e = "budget" => elapsed[r] > StepCutoff
  /\ pc' = [pc EXCEPT ![r] = "caught"]
  /\ error' = [error EXCEPT ![r] = e]
  /\ \E b \in BOOLEAN :
       /\ b => e # "budget"
       /\ limited' = [limited EXCEPT ![r] = b]
  /\ UNCHANGED <<rows, requests, held, tries, elapsed>>

Succeed(r) ==
  /\ pc[r] = "won"
  /\ MarkSucceeded(held[r])
  /\ pc' = [pc EXCEPT ![r] = "clear"]
  /\ UNCHANGED <<requests, held, tries, error, limited, elapsed>>

\* markSucceeded sits inside the try: its error is handled like the handler's.
\* The statement may have been committed all the same.
SucceedFails(r) ==
  /\ pc[r] = "won"
  /\ \/ UNCHANGED rows
     \/ RepliesLost /\ MarkSucceeded(held[r])
  /\ pc' = [pc EXCEPT ![r] = "caught"]
  /\ error' = [error EXCEPT ![r] = "retryable"]
  /\ UNCHANGED <<requests, held, tries, limited, elapsed>>

\* StepBudgetExceededError: continue in the next invocation.
ContinueLater(r) ==
  /\ pc[r] = "caught"
  /\ error[r] = "budget"
  /\ DeferRateLimited(held[r], ContinueAfter)
  /\ Release(r, "loop")
  /\ UNCHANGED <<requests, elapsed>>

\* A rate limit is a wait as long as the job is young enough.
Deferrable(r) ==
  error[r] # "budget" /\ limited[r] /\ jobAge[held[r]] < MaxDeferAge

WaitForTokens(r, w) ==
  /\ pc[r] = "caught"
  /\ Deferrable(r)
  /\ DeferRateLimited(held[r], Greatest(w, BackoffSeconds(1)))
  /\ Release(r, "loop")
  /\ UNCHANGED <<requests, elapsed>>

Fail(r) ==
  /\ pc[r] = "caught"
  /\ error[r] # "budget"
  /\ ~Deferrable(r)
  /\ MarkFailed(held[r], tries[r], error[r] # "fatal")
  /\ IF WillRetry(tries[r], error[r] # "fatal")
     THEN Release(r, "loop")
     ELSE /\ pc' = [pc EXCEPT ![r] = "clear"]
          /\ UNCHANGED <<held, tries, error, limited>>
  /\ UNCHANGED <<requests, elapsed>>

\* onJobFinished; its errors are swallowed.
Finished(r) ==
  /\ pc[r] = "clear"
  /\ Release(r, "loop")
  /\ UNCHANGED <<rows, requests, elapsed>>

\* The invocation dies: the timeout, a crash, or a statement that fails
\* outside the try, which rejects runJobs.
Kill(r) ==
  /\ Alive(r)
  /\ Release(r, "off")
  /\ elapsed' = [elapsed EXCEPT ![r] = 0]
  /\ UNCHANGED <<rows, requests>>

\* Time passes; the platform lets no invocation outlive the timeout.
Tick ==
  /\ \A r \in Runners : Alive(r) => elapsed[r] < FunctionTimeout
  /\ RowsAge
  /\ elapsed' = [r \in Runners |-> IF Alive(r) THEN elapsed[r] + 1 ELSE 0]
  /\ UNCHANGED <<requests, pc, held, tries, error, limited>>

RequestStep(c) ==
  \/ \E k \in Keys : FindActive(c, k)
  \/ \E j \in Jobs : Insert(c, j)
  \/ RequestLost(c)

Settles(r) ==
  \/ Succeed(r)
  \/ SucceedFails(r)
  \/ ContinueLater(r)
  \/ \E w \in RetryAfters : WaitForTokens(r, w)
  \/ Fail(r)

RunnerStep(r) ==
  \/ \E c \in Clients : Kick(c, r)
  \/ CronTick(r)
  \/ Recover(r)
  \/ \E j \in Jobs : Claim(r, j)
  \/ Stop(r)
  \/ HandlerReturns(r)
  \/ \E e \in Errors : HandlerThrows(r, e)
  \/ Settles(r)
  \/ Finished(r)
  \/ Kill(r)

Next ==
  \/ \E c \in Clients : RequestStep(c)
  \/ \E r \in Runners : RunnerStep(r)
  \/ Tick

Spec == Init /\ [][Next]_vars

-----------------------------------------------------------------------------
(* What must hold.                                                         *)

\* No two live invocations work on the same job: a row handed to one runner
\* is not claimed again, nor recovered as stuck, while that runner lives.
\* It is what the margin of STUCK_AFTER_SECONDS over the function timeout and
\* FOR UPDATE SKIP LOCKED in jobs.claim are for.
ExclusiveOwner ==
  \A r, s \in Runners :
    Holding(r) /\ Holding(s) /\ held[r] = held[s] => r = s

\* Every statement names its row by id alone, yet whoever is about to write a
\* row finds it as its claim left it: still running and with the attempts
\* the claim returned (or, after a lost reply, already succeeded).
WritesOwnClaim ==
  \A r \in Runners : Working(r) =>
    /\ attempts[held[r]] = tries[r]
    /\ \/ status[held[r]] = "running"
       \/ RepliesLost /\ pc[r] = "caught" /\ status[held[r]] = "succeeded"

\* A row waits in the queue only while it has an attempt left: neither a
\* retry, a deferral nor the recovery of a stuck row brings an exhausted job
\* back.
QueuedHasAttemptLeft ==
  \A j \in Jobs :
    /\ status[j] = "queued" => attempts[j] < MaxAttempts
    /\ status[j] = "running" => attempts[j] \in 1..MaxAttempts

\* "status moves queued -> running -> succeeded | failed": a job that reached
\* a final status stays there.
FinalIsFinal ==
  [][\A j \in Jobs : status[j] \in FinalStatuses => status'[j] = status[j]]_vars

\* Even when replies are lost, only the invocation whose own markSucceeded
\* appeared to fail ever takes a job out of "succeeded"; "failed" is for good.
OnlyTheWinnerUndoesSuccess ==
  [][\A j \in Jobs :
       status[j] \in FinalStatuses /\ status'[j] # status[j] =>
         /\ status[j] = "succeeded"
         /\ \E r \in Runners : held[r] = j /\ pc[r] = "caught"]_vars

\* A job goes back to the queue from under a dead invocation only when its lock
\* is older than the stuck timeout, with its attempt spent; a live invocation
\* hands it back itself, and the recovery never does it for one.
RequeuedByOwnerOrStuck ==
  [][\A j \in Jobs :
       status[j] = "running" /\ status'[j] = "queued" =>
         \/ /\ \A r \in Runners : held[r] # j
            /\ lockedAge[j] > StuckAfter
            /\ attempts'[j] = attempts[j]
         \/ \E r \in Runners : held[r] = j /\ pc[r] = "caught"]_vars

\* A job whose tenant is rate limited is deferred only while it is younger
\* than RATE_LIMIT_MAX_DEFER_MS: an older one uses up an attempt or ends,
\* unless its invocation merely ran out of time.
OldJobsAreNotDeferred ==
  [][\A j \in Jobs :
       attempts'[j] < attempts[j] /\ jobAge[j] >= MaxDeferAge =>
         \E r \in Runners : held[r] = j /\ error[r] = "budget"]_vars

\* Who works on a job, as the promise of JobLifecycle sees it.
Crew(j) == {r \in Runners : Working(r) /\ held[r] = j}

Lifecycle == INSTANCE JobLifecycle
  WITH phase <- status, crew <- [j \in Jobs |-> Crew(j)], used <- attempts

\* The queue and its runners keep the promise of JobLifecycle: every statement
\* of theirs starts, ends, hands back, abandons or rescues a job as it allows.
KeepsLifecycle == Lifecycle!Spec
=============================================================================
