------------------------------ MODULE JobQueue ------------------------------
(***************************************************************************)
(* The table platform.jobs and the statements jobs/job-queue.ts sends to   *)
(* it.  Every statement is one SQL command, so each is one atomic step.    *)
(*                                                                         *)
(* Timestamps are kept as distances from NOW(): runIn is run_at - NOW(),   *)
(* lockedAge is NOW() - locked_at and jobAge is NOW() - created_at.  The   *)
(* code only ever compares these differences, and distances keep the       *)
(* state space finite without stopping the clock.                          *)
(***************************************************************************)
EXTENDS Integers, FiniteSets

CONSTANTS
  Jobs,          \* the ids gen_random_uuid() hands out, one per row
  Keys,          \* what enqueueOnce compares: tenant, type and payload
  NoKey,         \* the key of a row that is not inserted yet
  MaxAttempts,   \* the column max_attempts
  StuckAfter,    \* STUCK_AFTER_SECONDS
  BackoffBase,   \* BACKOFF_BASE_SECONDS
  BackoffCap,    \* BACKOFF_CAP_SECONDS
  MaxDeferAge,   \* RATE_LIMIT_MAX_DEFER_MS: ages beyond it are not told apart
  OverdueCap     \* rows overdue by this much or more are not told apart

VARIABLES
  status,        \* the column status, "absent" before the INSERT
  jobKey,        \* the columns tenant_id, type and payload
  attempts,      \* the column attempts
  runIn,         \* run_at - NOW(), negative when overdue
  lockedAge,     \* NOW() - locked_at, 0 while locked_at is NULL
  jobAge         \* NOW() - created_at

rows == <<status, jobKey, attempts, runIn, lockedAge, jobAge>>

Statuses == {"absent", "queued", "running", "succeeded", "failed"}
FinalStatuses == {"succeeded", "failed"}

Least(x, y) == IF x < y THEN x ELSE y
Greatest(x, y) == IF x < y THEN y ELSE x

(***************************************************************************)
(* 30s, 60s, 120s, ... capped at one hour.                                 *)
(***************************************************************************)
BackoffSeconds(n) == Least(BackoffCap, BackoffBase * 2 ^ Greatest(0, n - 1))

ASSUME QueueAssumption ==
  /\ NoKey \notin Keys
  /\ MaxAttempts \in Nat \ {0}
  /\ StuckAfter \in Nat
  /\ MaxDeferAge \in Nat
  /\ OverdueCap \in Nat

\* Every delay the queue computes is a number of seconds.
ASSUME BackoffAssumption == \A n \in 1..MaxAttempts : BackoffSeconds(n) \in Nat

QueueTypeOK ==
  /\ status \in [Jobs -> Statuses]
  /\ jobKey \in [Jobs -> Keys \cup {NoKey}]
  /\ attempts \in [Jobs -> 0..MaxAttempts]
  /\ runIn \in [Jobs -> Int]
  /\ lockedAge \in [Jobs -> 0..StuckAfter + 1]
  /\ jobAge \in [Jobs -> 0..MaxDeferAge]

QueueInit ==
  /\ status = [j \in Jobs |-> "absent"]
  /\ jobKey = [j \in Jobs |-> NoKey]
  /\ attempts = [j \in Jobs |-> 0]
  /\ runIn = [j \in Jobs |-> 0]
  /\ lockedAge = [j \in Jobs |-> 0]
  /\ jobAge = [j \in Jobs |-> 0]

-----------------------------------------------------------------------------
(* What the WHERE clauses select.                                          *)

\* The rows jobs.find_active sees.
Active(j) == status[j] \in {"queued", "running"}

\* Wrong on purpose: given-up rows are picked again.
ClaimableIncludesFailed(j) == status[j] \in {"queued", "failed"} /\ runIn[j] <= 0

\* The rows jobs.claim may pick.
Claimable(j) == status[j] = "queued" /\ runIn[j] <= 0

\* ORDER BY run_at ASC, created_at ASC.
NextInLine(j) ==
  /\ Claimable(j)
  /\ \A i \in Jobs : Claimable(i) =>
       \/ runIn[j] < runIn[i]
       \/ runIn[j] = runIn[i] /\ jobAge[j] >= jobAge[i]

\* Wrong on purpose: the margin over the function timeout is forgotten.
StuckWithoutMargin(j) == status[j] = "running" /\ lockedAge[j] + 2 > StuckAfter

\* Wrong on purpose: a job that can be retried is recovered, one that cannot is forgotten.
StuckAndRetryable(j) ==
  status[j] = "running" /\ lockedAge[j] > StuckAfter /\ attempts[j] < MaxAttempts

\* The rows jobs.requeue_stuck recovers.
Stuck(j) == status[j] = "running" /\ lockedAge[j] > StuckAfter

\* Wrong on purpose: one attempt too many.
RetriesOffByOne(tries, retryable) == retryable /\ tries <= MaxAttempts

\* markFailed's choice between retrying and giving up.
WillRetry(tries, retryable) == retryable /\ tries < MaxAttempts

-----------------------------------------------------------------------------
(* The statements.                                                         *)

\* jobs.enqueue: the row is due at once.
Enqueue(j, k) ==
  /\ status[j] = "absent"
  /\ status' = [status EXCEPT ![j] = "queued"]
  /\ jobKey' = [jobKey EXCEPT ![j] = k]
  /\ UNCHANGED <<attempts, runIn, lockedAge, jobAge>>

\* jobs.claim: the claim itself counts the attempt.
ClaimNext(j) ==
  /\ NextInLine(j)
  /\ status' = [status EXCEPT ![j] = "running"]
  /\ attempts' = [attempts EXCEPT ![j] = @ + 1]
  /\ lockedAge' = [lockedAge EXCEPT ![j] = 0]
  /\ UNCHANGED <<jobKey, runIn, jobAge>>

\* jobs.succeed and jobs.give_up: only the id is compared, never the status.
Settle(j, outcome) ==
  /\ status' = [status EXCEPT ![j] = outcome]
  /\ lockedAge' = [lockedAge EXCEPT ![j] = 0]
  /\ UNCHANGED <<jobKey, attempts, runIn, jobAge>>

MarkSucceeded(j) == Settle(j, "succeeded")

\* jobs.retry or jobs.give_up, decided from the attempts the claim returned.
MarkFailed(j, tries, retryable) ==
  IF WillRetry(tries, retryable)
  THEN /\ status' = [status EXCEPT ![j] = "queued"]
       /\ lockedAge' = [lockedAge EXCEPT ![j] = 0]
       /\ runIn' = [runIn EXCEPT ![j] = BackoffSeconds(tries)]
       /\ UNCHANGED <<jobKey, attempts, jobAge>>
  ELSE Settle(j, "failed")

\* Wrong on purpose: the attempt of a deferred claim is not handed back.
DeferKeepsAttempt(j, wait) ==
  /\ status' = [status EXCEPT ![j] = "queued"]
  /\ lockedAge' = [lockedAge EXCEPT ![j] = 0]
  /\ runIn' = [runIn EXCEPT ![j] = wait]
  /\ UNCHANGED <<jobKey, attempts, jobAge>>

\* jobs.defer: back to queued, and the attempt is handed back.
DeferRateLimited(j, wait) ==
  /\ status' = [status EXCEPT ![j] = "queued"]
  /\ attempts' = [attempts EXCEPT ![j] = Greatest(@ - 1, 0)]
  /\ lockedAge' = [lockedAge EXCEPT ![j] = 0]
  /\ runIn' = [runIn EXCEPT ![j] = wait]
  /\ UNCHANGED <<jobKey, jobAge>>

\* jobs.requeue_stuck: one UPDATE over all stuck rows.
RequeueStuck ==
  /\ status' = [j \in Jobs |->
       IF ~Stuck(j) THEN status[j]
       ELSE IF attempts[j] >= MaxAttempts THEN "failed" ELSE "queued"]
  /\ lockedAge' = [j \in Jobs |-> IF Stuck(j) THEN 0 ELSE lockedAge[j]]
  /\ runIn' = [j \in Jobs |-> IF Stuck(j) THEN 0 ELSE runIn[j]]
  /\ UNCHANGED <<jobKey, attempts, jobAge>>

\* NOW() advances by one unit.
RowsAge ==
  /\ runIn' = [j \in Jobs |->
       IF status[j] = "queued" THEN Greatest(runIn[j] - 1, -OverdueCap) ELSE runIn[j]]
  /\ lockedAge' = [j \in Jobs |->
       IF status[j] = "running" THEN Least(lockedAge[j] + 1, StuckAfter + 1) ELSE lockedAge[j]]
  /\ jobAge' = [j \in Jobs |->
       IF status[j] = "absent" THEN 0 ELSE Least(jobAge[j] + 1, MaxDeferAge)]
  /\ UNCHANGED <<status, jobKey, attempts>>
=============================================================================
