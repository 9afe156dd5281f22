-------------------------- MODULE CheckpointedJobs --------------------------
(***************************************************************************)
(* A job's handler opened up: the steps of Stage1AuditPipeline, each run   *)
(* by Orchestrator.run with its guards, its checkpoint in                  *)
(* platform.agent_runs, its retries and its bookkeeping that may fail      *)
(* without anyone noticing, and the report saved at the end.  The runner,  *)
(* the queue and the clock are those of JobRunner.                         *)
(***************************************************************************)
EXTENDS JobRunner

CONSTANTS
  LastStep,      \* the steps are 1..LastStep, the last one is the aggregator
  StepAttempts,  \* defaultMaxAttempts of the orchestrator
  StoreFails     \* may a statement on platform.agent_runs fail?

ASSUME StepAssumption ==
  /\ LastStep \in Nat \ {0}
  /\ StepAttempts \in Nat \ {0}
  /\ StoreFails \in BOOLEAN

VARIABLES
  op,          \* where an invocation is within its handler
  step,        \* the step it is at
  calls,       \* attempt, in Orchestrator.run
  recording,   \* runId: was the run recorded when it started?
  flag,        \* usage.rateLimited
  checkpoint,  \* the steps of a job with a result in platform.agent_runs
  reports,     \* the reports a job has saved, 2 standing for more
  storeFailed, \* history: has something platform.agent_runs should do failed?
  wins         \* history: how often a step of a job was executed with success

steps == <<op, step, calls, recording, flag>>
store == <<checkpoint, reports, storeFailed, wins>>
allVars == <<vars, steps, store>>

Steps == 1..LastStep
Ops == {"none", "look", "admit", "call", "record", "save", "done"}
Twice(n) == Least(n + 1, 2)

StepsTypeOK ==
  /\ TypeOK
  /\ op \in [Runners -> Ops]
  /\ step \in [Runners -> Steps]
  /\ calls \in [Runners -> 0..StepAttempts - 1]
  /\ recording \in [Runners -> BOOLEAN]
  /\ flag \in [Runners -> BOOLEAN]
  /\ checkpoint \in [Jobs -> SUBSET Steps]
  /\ reports \in [Jobs -> 0..2]
  /\ storeFailed \in BOOLEAN
  /\ wins \in [Jobs -> [Steps -> 0..MaxAttempts + 1]]

StepsInit ==
  /\ Init
  /\ op = [r \in Runners |-> "none"]
  /\ step = [r \in Runners |-> 1]
  /\ calls = [r \in Runners |-> 0]
  /\ recording = [r \in Runners |-> FALSE]
  /\ flag = [r \in Runners |-> FALSE]
  /\ checkpoint = [j \in Jobs |-> {}]
  /\ reports = [j \in Jobs |-> 0]
  /\ storeFailed = FALSE
  /\ wins = [j \in Jobs |-> [s \in Steps |-> 0]]

-----------------------------------------------------------------------------
(* The handler.                                                            *)

\* A claimed job's handler starts from the first step in a new usage context.
ClaimAndStart(r, j) ==
  /\ Claim(r, j)
  /\ op' = [op EXCEPT ![r] = "look"]
  /\ UNCHANGED <<step, calls, recording, flag, store>>

\* Nothing of an ended handler survives its invocation.
LeaveHandler(r) ==
  /\ op' = [op EXCEPT ![r] = "none"]
  /\ step' = [step EXCEPT ![r] = 1]
  /\ calls' = [calls EXCEPT ![r] = 0]
  /\ recording' = [recording EXCEPT ![r] = FALSE]
  /\ flag' = [flag EXCEPT ![r] = FALSE]

\* The handler throws e, with usage.rateLimited left as f.
Throw(r, e, f) ==
  /\ HandlerThrows(r, e)
  /\ limited'[r] = f
  /\ LeaveHandler(r)

\* On to the next step, or to saving the report.
Advance(r) ==
  /\ IF step[r] = LastStep
     THEN op' = [op EXCEPT ![r] = "save"] /\ UNCHANGED step
     ELSE op' = [op EXCEPT ![r] = "look"] /\ step' = [step EXCEPT ![r] = @ + 1]
  /\ calls' = [calls EXCEPT ![r] = 0]
  /\ recording' = [recording EXCEPT ![r] = FALSE]

\* Wrong on purpose: the checkpoint is never found.
NeverSaved(j, s) == FALSE

\* findCheckpoint: a succeeded run of this step in this job with this input.
Saved(j, s) == s \in checkpoint[j]

\* The tenant has become unusable (NonRetryableJobError), or its row could not be
\* read.
TenantRefused(r) ==
  /\ op[r] = "look"
  /\ \E e \in {"fatal", "retryable"} : Throw(r, e, flag[r])
  /\ UNCHANGED store

ResumeFromCheckpoint(r) ==
  /\ op[r] = "look"
  /\ Saved(held[r], step[r])
  /\ Advance(r)
  /\ UNCHANGED <<vars, flag, store>>

\* A statement on platform.agent_runs fails, if it may, and safely() hides it; or
\* it does not.
Hides(failure) ==
  /\ failure => StoreFails
  /\ storeFailed' = (storeFailed \/ failure)

\* Not there, or not readable: safely() turns an error into null.
NoCheckpoint(r) ==
  /\ op[r] = "look"
  /\ Hides(Saved(held[r], step[r]))
  /\ op' = [op EXCEPT ![r] = "admit"]
  /\ UNCHANGED <<vars, step, calls, recording, flag, checkpoint, reports, wins>>

\* A rate limit already hit in this job, then the time left.
RefuseStep(r) ==
  /\ op[r] = "admit"
  /\ \/ flag[r] /\ Throw(r, "retryable", TRUE)
     \/ ~flag[r] /\ Throw(r, "budget", FALSE)
  /\ UNCHANGED store

StartStep(r) ==
  /\ op[r] = "admit"
  /\ ~flag[r]
  /\ elapsed[r] <= StepCutoff
  /\ op' = [op EXCEPT ![r] = "call"]
  /\ \E recorded \in BOOLEAN :
       /\ Hides(~recorded)
       /\ recording' = [recording EXCEPT ![r] = recorded]
  /\ UNCHANGED <<vars, step, calls, flag, checkpoint, reports, wins>>

\* One execution of the agent, paid for whatever its outcome.  It may have
\* swallowed a RateLimitError and succeed all the same.
AgentSucceeds(r) ==
  /\ op[r] = "call"
  /\ op' = [op EXCEPT ![r] = "record"]
  /\ wins' = [wins EXCEPT ![held[r]][step[r]] = Least(@ + 1, MaxAttempts + 1)]
  /\ \E swallowed \in BOOLEAN : flag' = [flag EXCEPT ![r] = @ \/ swallowed]
  /\ UNCHANGED <<vars, step, calls, recording, checkpoint, reports, storeFailed>>

AgentFailsTransiently(r) ==
  /\ op[r] = "call"
  /\ calls[r] + 1 < StepAttempts
  /\ calls' = [calls EXCEPT ![r] = @ + 1]
  /\ UNCHANGED <<vars, op, step, recording, flag, store>>

\* For good.  A permanent or invalid outcome is fatal; a transient one with its
\* attempts used up, a rate limit (the tenant's own, which is noted, or the
\* provider's, which only shows in the message) and any failure of the
\* aggregator, thrown as a plain error, are retryable.
AgentFails(r) ==
  /\ op[r] = "call"
  /\ \E e \in {"fatal", "retryable"}, hit \in BOOLEAN : Throw(r, e, flag[r] \/ hit)
  /\ UNCHANGED store

\* finish(): the output becomes the checkpoint.  The aggregator's input is made
\* of the other steps' outputs, so a new output of theirs may leave the
\* aggregator's old checkpoint without a match.
RecordCheckpoint(r) ==
  /\ op[r] = "record"
  /\ recording[r]
  /\ \E stale \in {{}, {LastStep}} :
       checkpoint' = [checkpoint EXCEPT ![held[r]] = (@ \ stale) \cup {step[r]}]
  /\ Advance(r)
  /\ UNCHANGED <<vars, flag, reports, storeFailed, wins>>

\* The checkpoint is not written, and safely() hides it.
CheckpointLost(r) ==
  /\ op[r] = "record"
  /\ Hides(recording[r])
  /\ \E stale \in {{}, {LastStep}} :
       checkpoint' = [checkpoint EXCEPT ![held[r]] = @ \ stale]
  /\ Advance(r)
  /\ UNCHANGED <<vars, flag, reports, wins>>

\* Wrong on purpose: a failed INSERT is hidden like a failed checkpoint.
SaveReportIfPossible(r) ==
  /\ op[r] = "save"
  /\ reports' = [reports EXCEPT ![held[r]] = Twice(@)] \/ UNCHANGED reports
  /\ op' = [op EXCEPT ![r] = "done"]
  /\ UNCHANGED <<vars, step, calls, recording, flag, checkpoint, storeFailed, wins>>

\* saveAuditReport is an INSERT; it may fail, and the job is then retried.
SaveReport(r) ==
  /\ op[r] = "save"
  /\ \/ /\ reports' = [reports EXCEPT ![held[r]] = Twice(@)]
        /\ op' = [op EXCEPT ![r] = "done"]
        /\ UNCHANGED <<vars, step, calls, recording, flag>>
     \/ /\ Throw(r, "retryable", flag[r])
        /\ UNCHANGED reports
  /\ UNCHANGED <<checkpoint, storeFailed, wins>>

HandlerEnds(r) ==
  /\ op[r] = "done"
  /\ HandlerReturns(r)
  /\ limited'[r] = flag[r]
  /\ LeaveHandler(r)
  /\ UNCHANGED store

HandlerStep(r) ==
  \/ TenantRefused(r)
  \/ ResumeFromCheckpoint(r)
  \/ NoCheckpoint(r)
  \/ RefuseStep(r)
  \/ StartStep(r)
  \/ AgentSucceeds(r)
  \/ AgentFailsTransiently(r)
  \/ AgentFails(r)
  \/ RecordCheckpoint(r)
  \/ CheckpointLost(r)
  \/ SaveReport(r)
  \/ HandlerEnds(r)

-----------------------------------------------------------------------------
(* The runner's steps around the handler.                                  *)

\* onJobFinished releases the checkpoints; an error is logged and forgotten.
FinishedAndReleased(r) ==
  /\ Finished(r)
  /\ \/ checkpoint' = [checkpoint EXCEPT ![held[r]] = {}] /\ Hides(FALSE)
     \/ UNCHANGED checkpoint /\ Hides(TRUE)
  /\ UNCHANGED <<steps, reports, wins>>

KillInHandler(r) ==
  /\ Kill(r)
  /\ LeaveHandler(r)
  /\ UNCHANGED store

AroundHandler(r) ==
  /\ \/ \E c \in Clients : Kick(c, r)
     \/ CronTick(r)
     \/ Recover(r)
     \/ Stop(r)
     \/ Settles(r)
  /\ UNCHANGED <<steps, store>>

StepsNext ==
  \/ \E r \in Runners :
       \/ \E j \in Jobs : ClaimAndStart(r, j)
       \/ HandlerStep(r)
       \/ AroundHandler(r)
       \/ FinishedAndReleased(r)
       \/ KillInHandler(r)
  \/ ((\E c \in Clients : RequestStep(c)) \/ Tick) /\ UNCHANGED <<steps, store>>

StepsSpec == StepsInit /\ [][StepsNext]_allVars

(***************************************************************************)
(* Time passes, pg_cron keeps calling, the platform ends an invocation at  *)
(* its timeout, and requests owe nothing.  An invocation may die before    *)
(* any statement, but statements take milliseconds and a unit of the clock *)
(* is minutes, so now and then one gets from its start to the first step   *)
(* without a checkpoint, and executes it, within the first unit; and an    *)
(* agent's call that is tried again and again ends now and then before its *)
(* invocation does.                                                        *)
(***************************************************************************)
Promptly(A, r) == A /\ elapsed[r] = 0

StepsFairness ==
  /\ WF_allVars(Tick /\ UNCHANGED <<steps, store>>)
  /\ \A r \in Runners :
       /\ WF_allVars(CronTick(r) /\ UNCHANGED <<steps, store>>)
       /\ WF_allVars(KillInHandler(r) /\ elapsed[r] = FunctionTimeout)
       /\ SF_allVars(Promptly(Recover(r) /\ UNCHANGED <<steps, store>>, r))
       /\ SF_allVars(\E j \in Jobs : Promptly(ClaimAndStart(r, j), r))
       /\ SF_allVars(AgentSucceeds(r) \/ AgentFails(r))
       /\ \A s \in Steps :
            /\ SF_allVars(Promptly(step[r] = s /\ ResumeFromCheckpoint(r), r))
            /\ SF_allVars(Promptly(step[r] = s /\ NoCheckpoint(r), r))
            /\ SF_allVars(Promptly(step[r] = s /\ StartStep(r), r))

FairStepsSpec == StepsSpec /\ StepsFairness

-----------------------------------------------------------------------------
(* What must hold.                                                         *)

\* A step that "already SUCCEEDED in the same job" is not run or paid for
\* again: as long as the store works, an invocation about to execute a step never
\* has its checkpoint in the table, not even one written since it looked.
RecordedStepsAreNotPaidAgain ==
  storeFailed \/ \A r \in Runners :
    op[r] \in {"admit", "call"} => step[r] \notin checkpoint[held[r]]

\* Deferrals hand the attempt back and have no limit, yet they do not make a
\* step be paid for over and over while the store works: only a death between a
\* step's success and its record repeats it, and that costs the job an attempt.
SuccessesCostAttempts ==
  storeFailed \/ \A j \in Jobs, s \in Steps : wins[j][s] <= MaxAttempts

\* A job that succeeded has its report, whatever statements failed on the way, and
\* a report is made only of steps that all ran or were resumed: while the store
\* works, every one of them has its checkpoint by then.  (The types come with it.)
SuccessHasReport ==
  /\ StepsTypeOK
  /\ \A j \in Jobs : status[j] = "succeeded" => reports[j] > 0
  /\ (storeFailed \/ \A r \in Runners :
       op[r] \in {"save", "done"} => checkpoint[held[r]] = Steps)

\* Every job that was queued ends, one way or the other, even when invocation
\* after invocation dies under it and nobody but pg_cron calls: postponing it
\* for lack of time, which has no limit, always leaves a step more behind, as
\* long as the store works.
EveryJobEnds ==
  \A j \in Jobs : status[j] = "queued" ~> (status[j] \in FinalStatuses \/ storeFailed)
=============================================================================
