--------------------------- MODULE ContentWorkflow ---------------------------
(***************************************************************************)
(* Stages 2 and 3 of one workspace: a content plan, its approval, drafts   *)
(* and fixes made from it, their approval, and publication                 *)
(* (content-plan-agent.ts, content-production-agent.ts,                    *)
(* technical-fix-agent.ts, publishing-agent.ts and their routes).  Plans,  *)
(* drafts and fixes are made by jobs, of which this module knows what      *)
(* JobLifecycle promises; a publication is made by its request.            *)
(***************************************************************************)
EXTENDS JobLifecycle, Sequences, SequencesExt

CONSTANTS
  PlanJobs,      \* jobs of type stage2-plan
  ProduceJobs,   \* jobs of type stage3-produce
  FixJobs,       \* jobs of type stage3-fix
  Requests,      \* simultaneous requests to publish
  Gaps,          \* how many content gaps a plan has
  Fixes,         \* how many entity and technical items it has
  StepAttempts,  \* defaultMaxAttempts of the orchestrator
  MaxPlans,      \* the bound on plans
  MaxTasks,      \* the bound on execution tasks
  MaxAsked,      \* the bound on the jobs asked for
  MaxReads       \* the bound on the requests that find their task publishable

ASSUME ContentAssumption ==
  /\ Jobs = PlanJobs \union ProduceJobs \union FixJobs
  /\ PlanJobs \intersect ProduceJobs = {}
  /\ PlanJobs \intersect FixJobs = {}
  /\ ProduceJobs \intersect FixJobs = {}
  /\ {Gaps, Fixes, StepAttempts, MaxAttempts} \subseteq Nat \ {0}
  /\ {MaxPlans, MaxTasks, MaxAsked, MaxReads} \subseteq Nat

VARIABLES
  op,          \* where an invocation is within the handler of a job
  pinned,      \* the plan its agent has read
  at,          \* the gap or item its agent is at
  calls,       \* attempt, in Orchestrator.run
  checkpoint,  \* the jobs whose step has its result in platform.agent_runs
  approvals,   \* content_plans, oldest first: is the plan approved?
  tasks,       \* execution_tasks, in the order of their creation
  touched,     \* the plans of which the CMS was told to fix an item
  posts,       \* how often the CMS has published a draft, 2 standing for more
  logged,      \* the tasks with a row "published" in publish_logs
  reads,       \* how many requests have found their task publishable
  request,     \* where a request to publish is, and its task
  mishaps      \* history: the tasks whose publications overlapped or were lost

handler == <<op, pinned, at, calls>>
store == <<checkpoint, approvals, tasks, touched>>
publication == <<posts, logged, reads, request, mishaps>>
allVars == <<vars, handler, store, publication>>

Ops == {"none", "look", "save", "read", "work", "applied", "done", "caught"}
Places == {"none", "publish", "log", "mark"}
ItemsOf(j) == IF j \in FixJobs THEN Fixes ELSE Gaps

Task == [type : {"content_draft", "fix"}, plan : 1..MaxPlans, job : Jobs,
         item : 1..(Gaps + Fixes), approved : BOOLEAN,
         status : {"completed", "failed", "published"}]

ContentTypeOK ==
  /\ op \in [Jobs -> Ops]
  /\ pinned \in [Jobs -> 0..MaxPlans]
  /\ at \in [Jobs -> 1..(Gaps + Fixes + 1)]
  /\ calls \in [Jobs -> 1..StepAttempts]
  /\ checkpoint \in SUBSET Jobs
  /\ approvals \in Seq(BOOLEAN) /\ Len(approvals) <= MaxPlans
  /\ tasks \in Seq(Task) /\ Len(tasks) <= MaxTasks
  /\ touched \subseteq 1..MaxPlans
  /\ posts \in [1..MaxTasks -> 0..2]
  /\ logged \subseteq 1..MaxTasks
  /\ reads \in 0..MaxReads
  /\ request \in [Requests -> [at : Places, task : 0..MaxTasks]]
  /\ mishaps \subseteq 1..MaxTasks

ContentInit ==
  /\ Init
  /\ op = [j \in Jobs |-> "none"]
  /\ pinned = [j \in Jobs |-> 0]
  /\ at = [j \in Jobs |-> 1]
  /\ calls = [j \in Jobs |-> 1]
  /\ checkpoint = {}
  /\ approvals = <<>>
  /\ tasks = <<>>
  /\ touched = {}
  /\ posts = [t \in 1..MaxTasks |-> 0]
  /\ logged = {}
  /\ reads = 0
  /\ request = [q \in Requests |-> [at |-> "none", task |-> 0]]
  /\ mishaps = {}

More(n) == IF n = 0 THEN 1 ELSE 2

\* getLatestContentPlan
LatestPlan == Len(approvals)

\* saveContentPlan: every plan is a row of its own, pending approval.
WithNewPlan == Append(approvals, FALSE)

\* Nothing but the publishing agent ever sets the status of a task again.
Published(t) == [tasks EXCEPT ![t].status = "published"]

-----------------------------------------------------------------------------
(* The routes that ask for a job.                                          *)

PostContentPlan(j) == j \in PlanJobs /\ Submit(j)
PostProduce(j) == j \in ProduceJobs /\ Submit(j)
PostFix(j) == j \in FixJobs /\ Submit(j)

AskForJob ==
  /\ Cardinality({j \in Jobs : phase[j] # "absent"}) < MaxAsked
  /\ \E j \in Jobs : PostContentPlan(j) \/ PostProduce(j) \/ PostFix(j)
  /\ UNCHANGED <<handler, store, publication>>

-----------------------------------------------------------------------------
(* The handlers of job-handlers.ts.                                        *)

Locals(j, o, p, i, c) ==
  /\ op' = [op EXCEPT ![j] = o]
  /\ pinned' = [pinned EXCEPT ![j] = p]
  /\ at' = [at EXCEPT ![j] = i]
  /\ calls' = [calls EXCEPT ![j] = c]

GoOn(j, o) == Locals(j, o, pinned[j], at[j], calls[j])
Leave(j) == Locals(j, "none", 0, 1, 1)

\* The job is over, and its checkpoint is released, or is left where nobody will
\* look for it.
Over(j, r, outcome) ==
  /\ End(j, r)
  /\ phase'[j] = outcome
  /\ Leave(j)
  /\ checkpoint' = checkpoint \ {j}

GiveUp(j, r) == Over(j, r, "failed") /\ UNCHANGED <<approvals, tasks, touched>>

Begin(j, r) ==
  /\ Start(j, r)
  /\ Locals(j, "look", 0, 1, 1)
  /\ UNCHANGED <<store, publication>>

\* Too little time left for the step, or the tenant's tokens are used up: the job
\* is put back with its attempt.
Postpone(j, r) ==
  /\ op[j] \in {"look", "work"}
  /\ HandBack(j, r)
  /\ used'[j] = used[j] - 1
  /\ Leave(j)
  /\ UNCHANGED <<store, publication>>

\* A step that is not successful is a NonRetryableJobError.
FailForGood(j, r) ==
  /\ op[j] \in {"look", "read", "work", "applied"}
  /\ GiveUp(j, r)
  /\ UNCHANGED publication

\* An error the agent caught and the orchestrator takes for a passing one: the
\* agent is executed again, from its beginning.
TryAgain(j) ==
  /\ op[j] \in {"read", "work", "applied"}
  /\ calls[j] < StepAttempts
  /\ Locals(j, "read", 0, 1, calls[j] + 1)
  /\ UNCHANGED <<vars, store, publication>>

\* Any other error leaves the job to markFailed, which still has attempts or not.
Caught(j, r) ==
  /\ op[j] = "caught"
  /\ \/ HandBack(j, r) /\ used' = used /\ Leave(j) /\ UNCHANGED store
     \/ used[j] = MaxAttempts /\ GiveUp(j, r)
  /\ UNCHANGED publication

\* The step of a job that is run again is resumed from its checkpoint.
Resume(j) ==
  /\ op[j] = "look"
  /\ j \in checkpoint
  /\ GoOn(j, IF j \in PlanJobs THEN "save" ELSE "done")
  /\ UNCHANGED <<vars, store, publication>>

\* There is none, or it cannot be read, which safely() takes for none.
Execute(j) ==
  /\ op[j] = "look"
  /\ GoOn(j, "read")
  /\ UNCHANGED <<vars, store, publication>>

\* The agent's output becomes the checkpoint, unless that fails.
Record(j) == checkpoint' \in {checkpoint, checkpoint \union {j}}

\* ContentPlanAgent only reads: the plan is made of the latest audit report.
MakePlan(j) ==
  /\ op[j] = "read"
  /\ j \in PlanJobs
  /\ Record(j)
  /\ GoOn(j, "save")
  /\ UNCHANGED <<vars, approvals, tasks, touched, publication>>

\* saveContentPlan is an INSERT, of a plan pending approval, whose answer may be
\* lost.
SavePlan(j) ==
  /\ op[j] = "save"
  /\ \/ Len(approvals) < MaxPlans /\ approvals' = WithNewPlan
     \/ UNCHANGED approvals
  /\ \E o \in {"done", "caught"} :
       /\ o = "done" => approvals' # approvals
       /\ GoOn(j, o)
  /\ UNCHANGED <<vars, checkpoint, tasks, touched, publication>>

\* Wrong on purpose: an agent that is run again goes on where it was.
ReadPlanAndGoOn(j) ==
  /\ op[j] = "read"
  /\ j \notin PlanJobs
  /\ approvals # <<>>
  /\ approvals[LatestPlan]
  /\ Locals(j, "work", LatestPlan,
            (Len(SelectSeq(tasks, LAMBDA t : t.job = j)) % (ItemsOf(j) + 1)) + 1, calls[j])
  /\ UNCHANGED <<vars, store, publication>>

\* The two other agents begin with the latest plan, which must be approved.
ReadPlan(j) ==
  /\ op[j] = "read"
  /\ j \notin PlanJobs
  /\ approvals # <<>>
  /\ approvals[LatestPlan]
  /\ Locals(j, "work", LatestPlan, 1, calls[j])
  /\ UNCHANGED <<vars, store, publication>>

AddTask(j, type, status) ==
  /\ Len(tasks) < MaxTasks
  /\ tasks' = Append(tasks, [type |-> type, plan |-> pinned[j], job |-> j, item |-> at[j],
                             approved |-> FALSE, status |-> status])

\* One gap: the model is asked and the draft is saved.
ProduceDraft(j) ==
  /\ j \in ProduceJobs
  /\ op[j] = "work"
  /\ at[j] <= Gaps
  /\ AddTask(j, "content_draft", "completed")
  /\ Locals(j, "work", pinned[j], at[j] + 1, calls[j])
  /\ UNCHANGED <<vars, checkpoint, approvals, touched, publication>>

\* One item: the CMS is told to fix it, before anybody has seen the fix ...
ApplyFix(j) ==
  /\ j \in FixJobs
  /\ op[j] = "work"
  /\ at[j] <= Fixes
  /\ touched' = touched \union {pinned[j]}
  /\ GoOn(j, "applied")
  /\ UNCHANGED <<vars, checkpoint, approvals, tasks, publication>>

\* ... and the task notes what became of it.
SaveFix(j) ==
  /\ op[j] = "applied"
  /\ \E s \in {"completed", "failed"} : AddTask(j, "fix", s)
  /\ Locals(j, "work", pinned[j], at[j] + 1, calls[j])
  /\ UNCHANGED <<vars, checkpoint, approvals, touched, publication>>

\* The INSERT of a task commits, but its answer is lost: an error of the agent.
SaveUnheard(j, r) ==
  /\ \/ /\ op[j] = "applied"
        /\ AddTask(j, "fix", "completed")
     \/ /\ op[j] = "work"
        /\ j \in ProduceJobs
        /\ at[j] <= Gaps
        /\ AddTask(j, "content_draft", "completed")
  /\ \/ /\ calls[j] < StepAttempts
        /\ Locals(j, "read", 0, 1, calls[j] + 1)
        /\ UNCHANGED <<vars, checkpoint>>
     \/ Over(j, r, "failed")
  /\ UNCHANGED <<approvals, touched, publication>>

AgentDone(j) ==
  /\ op[j] = "work"
  /\ at[j] > ItemsOf(j)
  /\ Record(j)
  /\ GoOn(j, "done")
  /\ UNCHANGED <<vars, approvals, tasks, touched, publication>>

Succeed(j, r) ==
  /\ op[j] = "done"
  /\ \/ Over(j, r, "succeeded")
     \/ (EndUnheard(j, r) \/ UNCHANGED vars) /\ GoOn(j, "caught") /\ UNCHANGED checkpoint
  /\ UNCHANGED <<approvals, tasks, touched, publication>>

Die(j, r) ==
  /\ Abandon(j, r)
  /\ Leave(j)
  /\ UNCHANGED <<store, publication>>

RecoverJobs ==
  /\ \E S \in SUBSET Jobs : S # {} /\ Rescue(S)
  /\ UNCHANGED <<handler, store, publication>>

JobStep(j, r) ==
  \/ Begin(j, r)
  \/ Postpone(j, r)
  \/ FailForGood(j, r)
  \/ Caught(j, r)
  \/ Succeed(j, r)
  \/ SaveUnheard(j, r)
  \/ Die(j, r)

AgentStep(j) ==
  \/ TryAgain(j)
  \/ Resume(j)
  \/ Execute(j)
  \/ MakePlan(j)
  \/ SavePlan(j)
  \/ ReadPlan(j)
  \/ ProduceDraft(j)
  \/ ApplyFix(j)
  \/ SaveFix(j)
  \/ AgentDone(j)

-----------------------------------------------------------------------------
(* The people who approve.                                                 *)

\* Any plan by its id, the latest or not.
ApproveContentPlan(p) ==
  /\ approvals' = [approvals EXCEPT ![p] = TRUE]
  /\ UNCHANGED <<vars, handler, checkpoint, tasks, touched, publication>>

\* Any task by its id, whatever its type and status.
ApproveExecutionTask(t) ==
  /\ tasks' = [tasks EXCEPT ![t].approved = TRUE]
  /\ UNCHANGED <<vars, handler, checkpoint, approvals, touched, publication>>

-----------------------------------------------------------------------------
(* A request to publish: PublishingAgent in a single attempt.              *)

\* Wrong on purpose: approval is not asked for.
PublishableUnapproved(t) ==
  /\ tasks[t].type = "content_draft"
  /\ tasks[t].status # "published"

\* Wrong on purpose: what was published is published again.
PublishableAgain(t) ==
  /\ tasks[t].type = "content_draft"
  /\ tasks[t].approved

Publishable(t) ==
  /\ tasks[t].type = "content_draft"
  /\ tasks[t].approved
  /\ tasks[t].status # "published"

\* Between its look at the task and its mark, a request does not notice others.
AtWork(t) == {q \in Requests : request[q].task = t /\ request[q].at \in {"publish", "log", "mark"}}

\* The task is read and must be publishable.
ReadTask(q, t) ==
  /\ request[q].at = "none"
  /\ reads < MaxReads
  /\ reads' = reads + 1
  /\ Publishable(t)
  /\ request' = [request EXCEPT ![q] = [at |-> "publish", task |-> t]]
  /\ mishaps' = IF AtWork(t) = {} THEN mishaps ELSE mishaps \union {t}
  /\ UNCHANGED <<vars, handler, store, posts, logged>>

\* The request ends, or dies, and is forgotten.
EndRequest(q) == request' = [request EXCEPT ![q] = [at |-> "none", task |-> 0]]

\* The CMS has published the draft, and its answer may be lost.
Publish(q) ==
  LET t == request[q].task IN
  /\ request[q].at = "publish"
  /\ posts' = [posts EXCEPT ![t] = More(@)]
  /\ \/ request' = [request EXCEPT ![q].at = "log"] /\ UNCHANGED mishaps
     \/ EndRequest(q) /\ mishaps' = mishaps \union {t}
  /\ UNCHANGED <<vars, handler, store, logged, reads>>

\* The CMS refuses or cannot be reached: that is noted and the request fails.
PublishFails(q) ==
  /\ request[q].at = "publish"
  /\ EndRequest(q)
  /\ UNCHANGED <<vars, handler, store, posts, logged, reads, mishaps>>

\* Wrong on purpose: the task is marked before the publication is logged.
MarkThenLog(q) ==
  LET t == request[q].task IN
  /\ request[q].at = "log"
  /\ tasks' = Published(t)
  /\ request' = [request EXCEPT ![q].at = "mark"]
  /\ UNCHANGED <<vars, handler, checkpoint, approvals, touched, posts, logged, reads, mishaps>>

SavePublishLog(q) ==
  LET t == request[q].task IN
  /\ request[q].at = "log"
  /\ logged' = logged \union {t}
  /\ request' = [request EXCEPT ![q].at = "mark"]
  /\ UNCHANGED <<vars, handler, store, posts, reads, mishaps>>

MarkPublished(q) ==
  LET t == request[q].task IN
  /\ request[q].at = "mark"
  /\ tasks' = Published(t)
  /\ EndRequest(q)
  /\ UNCHANGED <<vars, handler, checkpoint, approvals, touched, posts, logged, reads, mishaps>>

\* The invocation dies or a statement fails after the publication.
RequestLost(q) ==
  LET t == request[q].task IN
  /\ request[q].at \in {"log", "mark"}
  /\ EndRequest(q)
  /\ mishaps' = mishaps \union {t}
  /\ UNCHANGED <<vars, handler, store, posts, logged, reads>>

PublishStep(q) ==
  \/ \E t \in DOMAIN tasks : ReadTask(q, t)
  \/ Publish(q)
  \/ PublishFails(q)
  \/ SavePublishLog(q)
  \/ MarkPublished(q)
  \/ RequestLost(q)

-----------------------------------------------------------------------------
ContentNext ==
  \/ AskForJob
  \/ RecoverJobs
  \/ \E j \in Jobs : AgentStep(j) \/ \E r \in Runners : JobStep(j, r)
  \/ \E p \in DOMAIN approvals : ApproveContentPlan(p)
  \/ \E t \in DOMAIN tasks : ApproveExecutionTask(t)
  \/ \E q \in Requests : PublishStep(q)

ContentSpec == ContentInit /\ [][ContentNext]_allVars

-----------------------------------------------------------------------------
(* What must hold.                                                         *)

\* "There is no path from generated to published that skips human approval",
\* neither of the plan nor of the draft, and no approval is lost: the whole
\* workflow, with its retries, deaths and lost answers, implements
\* ContentApproval.
Approval == INSTANCE ContentApproval WITH
  Plans <- 1..MaxPlans,
  Tasks <- 1..MaxTasks,
  proposed <- DOMAIN approvals,
  agreed <- {p \in DOMAIN approvals : approvals[p]},
  source <- [t \in DOMAIN tasks |-> tasks[t].plan],
  cleared <- {t \in DOMAIN tasks : tasks[t].approved},
  touched <- touched,
  out <- {t \in DOMAIN tasks : posts[t] > 0}

KeepsApproval == Approval!Spec

\* A draft is published more than once only if requests overlapped between
\* reading the task and marking it, or one got lost after the CMS had published:
\* nobody who just asks again does so.
OnlyMishapsRepublish ==
  \A t \in 1..MaxTasks : posts[t] > 1 => t \in mishaps

\* What says "published" has been published, and a log says so.  (The types come
\* with it.)
PublishedIsLogged ==
  /\ ContentTypeOK
  /\ \A t \in DOMAIN tasks :
       tasks[t].status = "published" => posts[t] > 0 /\ t \in logged

\* A job that succeeded has dealt with every item of some plan that was approved,
\* however often it was interrupted and whatever plan was the latest by then.
SuccessIsWholePlan ==
  \A j \in ProduceJobs \union FixJobs : phase[j] = "succeeded" =>
    \E p \in DOMAIN approvals : approvals[p] /\ \A i \in 1..ItemsOf(j) :
      \E t \in DOMAIN tasks :
        tasks[t].job = j /\ tasks[t].plan = p /\ tasks[t].item = i
=============================================================================
