---------------------- MODULE ContentWorkflowProofs ----------------------
(***************************************************************************)
(* What the content workflow promises, for any number of jobs, items,      *)
(* plans, tasks and requests: nothing skips an approval, only mishaps      *)
(* publish a draft twice, what says it is published has been, and a job    *)
(* that succeeded has dealt with a whole approved plan.                    *)
(***************************************************************************)
EXTENDS ContentWorkflow, SequenceTheorems, TLAPS

Approved(p) == p \in DOMAIN approvals /\ approvals[p]

\* The job has made a task of the item of the plan.
Dealt(j, p, i) ==
  \E t \in DOMAIN tasks : tasks[t].job = j /\ tasks[t].plan = p /\ tasks[t].item = i

Whole(j) == \E p \in DOMAIN approvals : Approved(p) /\ \A i \in 1..ItemsOf(j) : Dealt(j, p, i)

Phases == {"absent", "queued", "running", "succeeded", "failed"}

Typed == ContentTypeOK /\ phase \in [Jobs -> Phases]

\* The plan an agent works from is approved, everything before its item is done, and
\* whatever says that a job's step is over came from an agent that was through.
HandlingOf(j) ==
  /\ op[j] \in {"work", "applied"} =>
       j \notin PlanJobs /\ Approved(pinned[j]) /\ \A i \in 1..at[j] - 1 : Dealt(j, pinned[j], i)
  /\ op[j] = "applied" => j \in FixJobs /\ at[j] <= Fixes
  /\ op[j] = "save" => j \in PlanJobs
  /\ j \notin PlanJobs /\ (op[j] = "done" \/ j \in checkpoint \/ phase[j] = "succeeded") => Whole(j)

Handling == \A j \in Jobs : HandlingOf(j)

\* A request works on an approved draft, and has published it before it logs and marks it.
AskedOf(q) ==
  LET t == request[q].task IN
  request[q].at # "none" =>
    /\ t \in DOMAIN tasks /\ tasks[t].approved
    /\ request[q].at \in {"log", "mark"} => posts[t] > 0
    /\ request[q].at = "mark" => t \in logged

Asked == \A q \in Requests : AskedOf(q)

Outside ==
  /\ \A t \in 1..MaxTasks : posts[t] > 0 => t \in DOMAIN tasks
  /\ \A t \in DOMAIN tasks : tasks[t].status = "published" => posts[t] > 0 /\ t \in logged

\* Without a mishap a draft has at most one request at work, and what has been
\* published is about to be marked, or is.
Alone ==
  \A q, p \in Requests :
    q # p /\ request[q].at # "none" /\ request[p].at # "none" /\ request[q].task = request[p].task
      => request[q].task \in mishaps

UndisturbedTask(t) ==
  /\ posts[t] <= 1
  /\ posts[t] > 0 => \/ tasks[t].status = "published"
                     \/ \E q \in Requests : request[q].task = t /\ request[q].at \in {"log", "mark"}
  /\ \A q \in Requests : request[q].task = t /\ request[q].at = "publish" => posts[t] = 0

Undisturbed == Alone /\ \A t \in 1..MaxTasks \ mishaps : UndisturbedTask(t)

IInv == Typed /\ Handling /\ Asked /\ Outside /\ Undisturbed

-----------------------------------------------------------------------------
\* A list with one more element.
LEMMA OneMore ==
  ASSUME NEW S, NEW s \in Seq(S), NEW e \in S
  PROVE  /\ Append(s, e) \in Seq(S)
         /\ Len(Append(s, e)) = Len(s) + 1
         /\ DOMAIN Append(s, e) = DOMAIN s \union {Len(s) + 1}
         /\ Len(s) + 1 \notin DOMAIN s
         /\ \A i \in DOMAIN s : Append(s, e)[i] = s[i]
         /\ Append(s, e)[Len(s) + 1] = e
OBVIOUS

\* A list with one element replaced.
LEMMA OneReplaced ==
  ASSUME NEW S, NEW s \in Seq(S), NEW n \in DOMAIN s, NEW e \in S
  PROVE  /\ [s EXCEPT ![n] = e] \in Seq(S)
         /\ Len([s EXCEPT ![n] = e]) = Len(s)
         /\ DOMAIN [s EXCEPT ![n] = e] = DOMAIN s
         /\ \A i \in DOMAIN s : [s EXCEPT ![n] = e][i] = IF i = n THEN e ELSE s[i]
BY ExceptSeq, LenProperties

\* Plans and tasks are only added, and what is approved stays so.
Grows ==
  /\ \A p \in DOMAIN approvals : p \in DOMAIN approvals' /\ (approvals[p] => approvals'[p])
  /\ \A t \in DOMAIN tasks :
       /\ t \in DOMAIN tasks'
       /\ tasks'[t].job = tasks[t].job /\ tasks'[t].plan = tasks[t].plan
       /\ tasks'[t].item = tasks[t].item
       /\ tasks[t].approved => tasks'[t].approved

\* Therefore what was dealt with stays so.
LEMMA GrowingKeeps ==
  ASSUME Grows, NEW j \in Jobs
  PROVE  /\ \A p : Approved(p) => Approved(p)'
         /\ \A p, i : Dealt(j, p, i) => Dealt(j, p, i)'
         /\ Whole(j) => Whole(j)'
<1>1. \A p : Approved(p) => Approved(p)'
  BY DEF Grows, Approved
<1>2. \A p, i : Dealt(j, p, i) => Dealt(j, p, i)'
  BY DEF Grows, Dealt
<1>3. ASSUME Whole(j) PROVE Whole(j)'
  <2>1. PICK p \in DOMAIN approvals : Approved(p) /\ \A i \in 1..ItemsOf(j) : Dealt(j, p, i)
    BY <1>3 DEF Whole
  <2>2. Approved(p)' /\ \A i \in 1..ItemsOf(j) : Dealt(j, p, i)'
    BY <1>1, <1>2, <2>1
  <2>3. (p \in DOMAIN approvals)'
    BY <2>2 DEF Approved
  <2> QED
    BY <2>2, <2>3 DEF Whole, ItemsOf
<1> QED
  BY <1>1, <1>2, <1>3

-----------------------------------------------------------------------------
(* What a step does to the plans and tasks.                                *)

AddsTask ==
  \E e \in Task :
    /\ Len(tasks) < MaxTasks
    /\ tasks' = Append(tasks, e)
    /\ e.status # "published" /\ ~e.approved /\ Approved(e.plan)
    /\ UNCHANGED approvals

AddsPlan == Len(approvals) < MaxPlans /\ approvals' = WithNewPlan /\ UNCHANGED tasks

Approves ==
  \/ /\ \E p \in DOMAIN approvals : approvals' = [approvals EXCEPT ![p] = TRUE]
     /\ UNCHANGED tasks
  \/ /\ \E t \in DOMAIN tasks : tasks' = [tasks EXCEPT ![t].approved = TRUE]
     /\ UNCHANGED approvals

Marks == (\E t \in DOMAIN tasks : tasks' = Published(t)) /\ UNCHANGED approvals

Adds == AddsTask \/ AddsPlan \/ UNCHANGED <<approvals, tasks>>

Edits == Adds \/ Approves \/ Marks

\* The task an agent adds is one.
LEMMA AddedTask ==
  ASSUME Typed, Handling, NEW j \in Jobs, NEW type \in {"content_draft", "fix"},
         NEW s \in {"completed", "failed"}, AddTask(j, type, s),
         op[j] \in {"work", "applied"}, at[j] \in 1..(Gaps + Fixes), UNCHANGED approvals
  PROVE  AddsTask
<1> DEFINE e == [type |-> type, plan |-> pinned[j], job |-> j, item |-> at[j],
                 approved |-> FALSE, status |-> s]
<1>1. pinned[j] \in 1..MaxPlans
  BY LenProperties DEF Typed, Handling, HandlingOf, Approved, ContentTypeOK
<1>2. e \in Task
  BY <1>1 DEF Task
<1>3. Approved(e.plan)
  BY DEF Handling, HandlingOf
<1> QED
  BY <1>2, <1>3 DEF AddTask, AddsTask

LEMMA JobStepEdits ==
  ASSUME Typed, Handling, NEW j \in Jobs, NEW r \in Runners, JobStep(j, r)
  PROVE  Adds
<1> USE ContentAssumption DEF Adds
<1>1. CASE Begin(j, r) \/ Postpone(j, r) \/ FailForGood(j, r) \/ Caught(j, r) \/ Succeed(j, r) \/ Die(j, r)
  BY <1>1 DEF Begin, Postpone, FailForGood, Caught, Succeed, Die, GiveUp, store
<1>2. CASE SaveUnheard(j, r)
  <2>1. CASE op[j] = "applied" /\ AddTask(j, "fix", "completed")
    <3>1. at[j] \in 1..(Gaps + Fixes) /\ UNCHANGED approvals
      BY <1>2, <2>1 DEF SaveUnheard, Typed, ContentTypeOK, Handling, HandlingOf
    <3> QED
      BY <2>1, <3>1, AddedTask
  <2>2. CASE op[j] = "work" /\ j \in ProduceJobs /\ at[j] <= Gaps /\ AddTask(j, "content_draft", "completed")
    <3>1. at[j] \in 1..(Gaps + Fixes) /\ UNCHANGED approvals
      BY <1>2, <2>2 DEF SaveUnheard, Typed, ContentTypeOK
    <3> QED
      BY <2>2, <3>1, AddedTask
  <2> QED
    BY <1>2, <2>1, <2>2 DEF SaveUnheard
<1> QED
  BY <1>1, <1>2 DEF JobStep

LEMMA AgentStepEdits ==
  ASSUME Typed, Handling, NEW j \in Jobs, AgentStep(j)
  PROVE  Adds
<1> USE ContentAssumption DEF Adds
<1>1. CASE \/ TryAgain(j) \/ Resume(j) \/ Execute(j) \/ MakePlan(j) \/ ReadPlan(j)
           \/ ApplyFix(j) \/ AgentDone(j)
  BY <1>1 DEF TryAgain, Resume, Execute, MakePlan, ReadPlan, ApplyFix, AgentDone, store
<1>2. CASE SavePlan(j)
  BY <1>2 DEF SavePlan, AddsPlan
<1>3. CASE ProduceDraft(j)
  <2>1. at[j] \in 1..(Gaps + Fixes) /\ UNCHANGED approvals
    BY <1>3 DEF ProduceDraft, Typed, ContentTypeOK
  <2> QED
    BY <1>3, <2>1, AddedTask DEF ProduceDraft
<1>4. CASE SaveFix(j)
  <2>1. at[j] \in 1..(Gaps + Fixes) /\ UNCHANGED approvals
    BY <1>4 DEF SaveFix, Typed, ContentTypeOK, Handling, HandlingOf
  <2> QED
    BY <1>4, <2>1, AddedTask DEF SaveFix
<1> QED
  BY <1>1, <1>2, <1>3, <1>4 DEF AgentStep

LEMMA PublishStepEdits ==
  ASSUME Typed, Asked, NEW q \in Requests, PublishStep(q)
  PROVE  Edits
<1>1. CASE \E t \in DOMAIN tasks : ReadTask(q, t)
  BY <1>1 DEF ReadTask, store, Edits, Adds
<1>2. CASE Publish(q) \/ PublishFails(q) \/ SavePublishLog(q) \/ RequestLost(q)
  BY <1>2 DEF Publish, PublishFails, SavePublishLog, RequestLost, store, Edits, Adds
<1>3. CASE MarkPublished(q)
  BY <1>3 DEF MarkPublished, Marks, Edits, Asked, AskedOf
<1> QED
  BY <1>1, <1>2, <1>3 DEF PublishStep

\* Every step adds a plan or a task, approves one, marks one, or leaves them alone.
LEMMA StepEdits ==
  ASSUME Typed, Handling, Asked, ContentNext
  PROVE  Edits
<1>1. CASE AskForJob \/ RecoverJobs
  BY <1>1 DEF AskForJob, RecoverJobs, store, Edits, Adds
<1>2. CASE \E p \in DOMAIN approvals : ApproveContentPlan(p)
  BY <1>2 DEF ApproveContentPlan, Approves, Edits
<1>3. CASE \E t \in DOMAIN tasks : ApproveExecutionTask(t)
  BY <1>3 DEF ApproveExecutionTask, Approves, Edits
<1> QED
  BY <1>1, <1>2, <1>3, JobStepEdits, AgentStepEdits, PublishStepEdits DEF ContentNext, Edits

-----------------------------------------------------------------------------
\* Such an edit keeps the types of both lists, and nothing shrinks.
LEMMA EditsGrow ==
  ASSUME Typed, Edits
  PROVE  /\ Grows
         /\ approvals' \in Seq(BOOLEAN) /\ Len(approvals') <= MaxPlans
         /\ tasks' \in Seq(Task) /\ Len(tasks') <= MaxTasks
<1>0. /\ approvals \in Seq(BOOLEAN) /\ Len(approvals) <= MaxPlans
      /\ tasks \in Seq(Task) /\ Len(tasks) <= MaxTasks
      /\ MaxPlans \in Nat /\ MaxTasks \in Nat
  BY ContentAssumption DEF Typed, ContentTypeOK
<1>1. CASE AddsTask
  <2>1. PICK e \in Task : Len(tasks) < MaxTasks /\ tasks' = Append(tasks, e) /\ UNCHANGED approvals
    BY <1>1 DEF AddsTask
  <2> QED
    BY <1>0, <2>1, OneMore, LenProperties DEF Grows
<1>2. CASE AddsPlan
  <2>1. /\ approvals' \in Seq(BOOLEAN) /\ Len(approvals') = Len(approvals) + 1
        /\ \A p \in DOMAIN approvals : p \in DOMAIN approvals' /\ approvals'[p] = approvals[p]
    <3>1. PICK Flags : Flags = BOOLEAN
      OBVIOUS
    <3>2. PICK no \in Flags : approvals' = Append(approvals, no)
      BY <1>2, <3>1 DEF AddsPlan, WithNewPlan
    <3>3. approvals \in Seq(Flags)
      BY <1>0, <3>1
    <3>4. /\ approvals' \in Seq(Flags) /\ Len(approvals') = Len(approvals) + 1
          /\ \A p \in DOMAIN approvals : p \in DOMAIN approvals' /\ approvals'[p] = approvals[p]
      BY <3>2, <3>3, OneMore
    <3> QED
      BY <3>1, <3>4
  <2>2. Len(approvals') <= MaxPlans
    BY <1>0, <1>2, <2>1, LenProperties DEF AddsPlan
  <2>3. Grows
    BY <1>2, <2>1, Zenon DEF AddsPlan, Grows
  <2> QED
    BY <1>0, <1>2, <2>1, <2>2, <2>3 DEF AddsPlan
<1>3. ASSUME NEW p \in DOMAIN approvals, approvals' = [approvals EXCEPT ![p] = TRUE], UNCHANGED tasks
      PROVE  /\ Grows
             /\ approvals' \in Seq(BOOLEAN) /\ Len(approvals') <= MaxPlans
  <2>1. /\ approvals' \in Seq(BOOLEAN) /\ Len(approvals') = Len(approvals)
        /\ DOMAIN approvals' = DOMAIN approvals
        /\ \A i \in DOMAIN approvals : approvals'[i] = IF i = p THEN TRUE ELSE approvals[i]
    <3>1. /\ [approvals EXCEPT ![p] = TRUE] \in Seq(BOOLEAN)
          /\ Len([approvals EXCEPT ![p] = TRUE]) = Len(approvals)
          /\ DOMAIN [approvals EXCEPT ![p] = TRUE] = DOMAIN approvals
          /\ \A i \in DOMAIN approvals :
               [approvals EXCEPT ![p] = TRUE][i] = IF i = p THEN TRUE ELSE approvals[i]
      <4>1. TRUE \in BOOLEAN
        OBVIOUS
      <4> QED
        BY <1>0, <4>1, ExceptSeq, LenProperties
    <3> QED
      BY <1>3, <3>1, Zenon
  <2> QED
    BY <1>0, <1>3, <2>1 DEF Grows
<1>4. ASSUME NEW t \in DOMAIN tasks, NEW e \in Task, UNCHANGED approvals,
             tasks' = [tasks EXCEPT ![t] = e],
             e.job = tasks[t].job, e.plan = tasks[t].plan, e.item = tasks[t].item,
             tasks[t].approved => e.approved
      PROVE  /\ Grows
             /\ tasks' \in Seq(Task) /\ Len(tasks') <= MaxTasks
  <2>1. /\ tasks' \in Seq(Task) /\ Len(tasks') = Len(tasks)
        /\ DOMAIN tasks' = DOMAIN tasks
        /\ \A i \in DOMAIN tasks : tasks'[i] = IF i = t THEN e ELSE tasks[i]
    <3>1. /\ [tasks EXCEPT ![t] = e] \in Seq(Task)
          /\ Len([tasks EXCEPT ![t] = e]) = Len(tasks)
          /\ DOMAIN [tasks EXCEPT ![t] = e] = DOMAIN tasks
          /\ \A i \in DOMAIN tasks : [tasks EXCEPT ![t] = e][i] = IF i = t THEN e ELSE tasks[i]
      BY <1>0, OneReplaced, Zenon
    <3> QED
      BY <1>4, <3>1, Zenon
  <2> QED
    BY <1>0, <1>4, <2>1 DEF Grows
<1>5. ASSUME NEW t \in DOMAIN tasks, tasks' = [tasks EXCEPT ![t].approved = TRUE], UNCHANGED approvals
      PROVE  /\ Grows
             /\ tasks' \in Seq(Task) /\ Len(tasks') <= MaxTasks
  <2> DEFINE e == [tasks[t] EXCEPT !.approved = TRUE]
  <2>1. tasks[t] \in Task
    BY <1>0, LenProperties
  <2>2. e \in Task /\ e.job = tasks[t].job /\ e.plan = tasks[t].plan /\ e.item = tasks[t].item /\ e.approved
    BY <2>1 DEF Task
  <2> QED
    BY <1>4, <1>5, <2>2
<1>6. ASSUME NEW t \in DOMAIN tasks, tasks' = Published(t), UNCHANGED approvals
      PROVE  /\ Grows
             /\ tasks' \in Seq(Task) /\ Len(tasks') <= MaxTasks
  <2> DEFINE e == [tasks[t] EXCEPT !.status = "published"]
  <2>1. tasks[t] \in Task
    BY <1>0, LenProperties
  <2>2. e \in Task /\ e.job = tasks[t].job /\ e.plan = tasks[t].plan /\ e.item = tasks[t].item
        /\ e.approved = tasks[t].approved
    BY <2>1 DEF Task
  <2> QED
    BY <1>4, <1>6, <2>2 DEF Published
<1>7. CASE UNCHANGED <<approvals, tasks>>
  BY <1>0, <1>7 DEF Grows
<1> QED
  BY <1>0, <1>1, <1>2, <1>3, <1>5, <1>6, <1>7 DEF Edits, Adds, Approves, Marks

-----------------------------------------------------------------------------
(* Types.                                                                  *)

HandlerTyped ==
  /\ op \in [Jobs -> Ops]
  /\ pinned \in [Jobs -> 0..MaxPlans]
  /\ at \in [Jobs -> 1..(Gaps + Fixes + 1)]
  /\ calls \in [Jobs -> 1..StepAttempts]
  /\ checkpoint \in SUBSET Jobs
  /\ touched \subseteq 1..MaxPlans
  /\ phase \in [Jobs -> Phases]

PublicationTyped ==
  /\ posts \in [1..MaxTasks -> 0..2]
  /\ logged \subseteq 1..MaxTasks
  /\ reads \in 0..MaxReads
  /\ request \in [Requests -> [at : Places, task : 0..MaxTasks]]
  /\ mishaps \subseteq 1..MaxTasks

LEMMA LocalsTyped ==
  ASSUME Typed, NEW j \in Jobs,
         NEW o \in Ops, NEW p \in 0..MaxPlans, NEW i \in 1..(Gaps + Fixes + 1), NEW c \in 1..StepAttempts,
         Locals(j, o, p, i, c)
  PROVE  /\ op' \in [Jobs -> Ops]
         /\ pinned' \in [Jobs -> 0..MaxPlans]
         /\ at' \in [Jobs -> 1..(Gaps + Fixes + 1)]
         /\ calls' \in [Jobs -> 1..StepAttempts]
BY DEF Locals, Typed, ContentTypeOK

LEMMA GoOnTyped ==
  ASSUME Typed, NEW j \in Jobs, NEW o \in Ops, GoOn(j, o)
  PROVE  /\ op' \in [Jobs -> Ops]
         /\ pinned' \in [Jobs -> 0..MaxPlans]
         /\ at' \in [Jobs -> 1..(Gaps + Fixes + 1)]
         /\ calls' \in [Jobs -> 1..StepAttempts]
BY LocalsTyped DEF GoOn, Typed, ContentTypeOK

LEMMA LeaveTyped ==
  ASSUME Typed, NEW j \in Jobs, Leave(j)
  PROVE  /\ op' \in [Jobs -> Ops]
         /\ pinned' \in [Jobs -> 0..MaxPlans]
         /\ at' \in [Jobs -> 1..(Gaps + Fixes + 1)]
         /\ calls' \in [Jobs -> 1..StepAttempts]
<1>1. "none" \in Ops /\ 0 \in 0..MaxPlans /\ 1 \in 1..(Gaps + Fixes + 1) /\ 1 \in 1..StepAttempts
  BY ContentAssumption DEF Ops
<1> QED
  BY <1>1, LocalsTyped DEF Leave

LEMMA OverTyped ==
  ASSUME Typed, NEW j \in Jobs, NEW r \in Runners, NEW outcome \in Phases,
         Over(j, r, outcome), UNCHANGED touched
  PROVE  HandlerTyped'
<1>1. phase' \in [Jobs -> Phases] /\ checkpoint' \in SUBSET Jobs /\ touched' \subseteq 1..MaxPlans
  BY DEF Over, End, Typed, ContentTypeOK, Phases
<1> QED
  BY <1>1, LeaveTyped DEF Over, HandlerTyped

LEMMA JobStepTyped ==
  ASSUME Typed, NEW j \in Jobs, NEW r \in Runners, JobStep(j, r)
  PROVE  HandlerTyped'
<1>0. HandlerTyped
  BY DEF Typed, ContentTypeOK, HandlerTyped
<1>1. CASE Begin(j, r)
  <2>1. phase' \in [Jobs -> Phases]
    BY <1>1 DEF Begin, Start, Typed, Phases
  <2>2. "look" \in Ops /\ 0 \in 0..MaxPlans /\ 1 \in 1..(Gaps + Fixes + 1) /\ 1 \in 1..StepAttempts
    BY ContentAssumption DEF Ops
  <2> QED
    BY <1>0, <1>1, <2>1, <2>2, LocalsTyped DEF Begin, HandlerTyped, store
<1>2. CASE Postpone(j, r)
  <2>1. phase' \in [Jobs -> Phases]
    BY <1>2 DEF Postpone, HandBack, Typed, Phases
  <2> QED
    BY <1>0, <1>2, <2>1, LeaveTyped DEF Postpone, HandlerTyped, store
<1>3. CASE FailForGood(j, r)
  BY <1>3, OverTyped DEF FailForGood, GiveUp, Phases
<1>4. CASE Caught(j, r)
  <2>1. CASE HandBack(j, r) /\ Leave(j) /\ UNCHANGED store
    <3>1. phase' \in [Jobs -> Phases]
      BY <2>1 DEF HandBack, Typed, Phases
    <3> QED
      BY <1>0, <2>1, <3>1, LeaveTyped DEF HandlerTyped, store
  <2>2. CASE GiveUp(j, r)
    BY <2>2, OverTyped DEF GiveUp, Phases
  <2> QED
    BY <1>4, <2>1, <2>2 DEF Caught
<1>5. CASE Succeed(j, r)
  <2>1. CASE Over(j, r, "succeeded")
    BY <1>5, <2>1, OverTyped DEF Succeed, Phases
  <2>2. CASE (EndUnheard(j, r) \/ UNCHANGED vars) /\ GoOn(j, "caught") /\ UNCHANGED <<checkpoint, touched>>
    <3>1. phase' \in [Jobs -> Phases] /\ "caught" \in Ops
      BY <2>2 DEF EndUnheard, vars, Typed, Phases, Ops
    <3> QED
      BY <1>0, <2>2, <3>1, GoOnTyped DEF HandlerTyped
  <2> QED
    BY <1>5, <2>1, <2>2 DEF Succeed
<1>6. CASE SaveUnheard(j, r)
  <2>1. CASE calls[j] < StepAttempts /\ Locals(j, "read", 0, 1, calls[j] + 1) /\ UNCHANGED <<vars, checkpoint, touched>>
    <3>1. "read" \in Ops /\ 0 \in 0..MaxPlans /\ 1 \in 1..(Gaps + Fixes + 1) /\ calls[j] + 1 \in 1..StepAttempts
      BY <2>1, ContentAssumption DEF Ops, Typed, ContentTypeOK
    <3> QED
      BY <1>0, <2>1, <3>1, LocalsTyped DEF HandlerTyped, vars
  <2>2. CASE Over(j, r, "failed")
    BY <1>6, <2>2, OverTyped DEF SaveUnheard, Phases
  <2> QED
    BY <1>6, <2>1, <2>2 DEF SaveUnheard
<1>7. CASE Die(j, r)
  BY <1>0, <1>7, LeaveTyped DEF Die, Abandon, HandlerTyped, store
<1> QED
  BY <1>1, <1>2, <1>3, <1>4, <1>5, <1>6, <1>7 DEF JobStep

LEMMA AgentStepTyped ==
  ASSUME Typed, Handling, NEW j \in Jobs, AgentStep(j)
  PROVE  HandlerTyped'
<1>0. /\ HandlerTyped
      /\ {"save", "done", "read", "work", "applied", "caught"} \subseteq Ops
      /\ 0 \in 0..MaxPlans /\ 1 \in 1..(Gaps + Fixes + 1)
      /\ pinned[j] \in 0..MaxPlans /\ calls[j] \in 1..StepAttempts
      /\ at[j] \in 1..(Gaps + Fixes + 1)
  <2>1. HandlerTyped
    BY DEF Typed, ContentTypeOK, HandlerTyped
  <2> QED
    BY <2>1, ContentAssumption DEF HandlerTyped, Ops
<1>1. CASE TryAgain(j)
  <2>1. calls[j] + 1 \in 1..StepAttempts
    BY <1>0, <1>1, ContentAssumption DEF TryAgain
  <2> QED
    BY <1>0, <1>1, <2>1, LocalsTyped DEF TryAgain, HandlerTyped, vars, store
<1>2. CASE Resume(j) \/ Execute(j)
  BY <1>0, <1>2, GoOnTyped DEF Resume, Execute, HandlerTyped, vars, store
<1>3. CASE MakePlan(j) \/ AgentDone(j)
  BY <1>0, <1>3, GoOnTyped DEF MakePlan, AgentDone, Record, HandlerTyped, vars
<1>4. CASE SavePlan(j)
  BY <1>0, <1>4, GoOnTyped DEF SavePlan, HandlerTyped, vars
<1>5. CASE ReadPlan(j)
  <2>1. LatestPlan \in 0..MaxPlans
    BY LenProperties DEF LatestPlan, Typed, ContentTypeOK
  <2> QED
    BY <1>0, <1>5, <2>1, LocalsTyped DEF ReadPlan, HandlerTyped, vars, store
<1>6. CASE ProduceDraft(j) \/ SaveFix(j)
  <2>1. at[j] + 1 \in 1..(Gaps + Fixes + 1)
    BY <1>0, <1>6, ContentAssumption DEF ProduceDraft, SaveFix, Handling, HandlingOf
  <2> QED
    BY <1>0, <1>6, <2>1, LocalsTyped DEF ProduceDraft, SaveFix, HandlerTyped, vars
<1>7. CASE ApplyFix(j)
  <2>1. pinned[j] \in 1..MaxPlans
    BY <1>7, LenProperties DEF ApplyFix, Handling, HandlingOf, Approved, Typed, ContentTypeOK
  <2> QED
    BY <1>0, <1>7, <2>1, GoOnTyped DEF ApplyFix, HandlerTyped, vars
<1> QED
  BY <1>1, <1>2, <1>3, <1>4, <1>5, <1>6, <1>7 DEF AgentStep

LEMMA PublishStepTyped ==
  ASSUME Typed, Asked, NEW q \in Requests, PublishStep(q)
  PROVE  PublicationTyped'
<1>0. PublicationTyped /\ MaxTasks \in Nat /\ MaxReads \in Nat /\ DOMAIN tasks \subseteq 1..MaxTasks
  BY ContentAssumption, LenProperties DEF Typed, ContentTypeOK, PublicationTyped
<1>1. ASSUME NEW t \in DOMAIN tasks, ReadTask(q, t) PROVE PublicationTyped'
  <2>1. t \in 1..MaxTasks
    BY <1>0
  <2>2. request' \in [Requests -> [at : Places, task : 0..MaxTasks]]
    BY <1>0, <1>1, <2>1 DEF ReadTask, PublicationTyped, Places
  <2>3. mishaps' \subseteq 1..MaxTasks
    BY <1>0, <1>1, <2>1 DEF ReadTask, PublicationTyped
  <2>4. reads' \in 0..MaxReads /\ UNCHANGED <<posts, logged>>
    BY <1>0, <1>1 DEF ReadTask, PublicationTyped
  <2> QED
    BY <1>0, <2>2, <2>3, <2>4 DEF PublicationTyped
<1>2. request[q].at # "none" => request[q].task \in 1..MaxTasks
  BY <1>0 DEF Asked, AskedOf
<1>3. EndRequest(q) => request' \in [Requests -> [at : Places, task : 0..MaxTasks]]
  BY <1>0 DEF EndRequest, PublicationTyped, Places
<1>4. \A place \in Places : request' = [request EXCEPT ![q].at = place]
        => request' \in [Requests -> [at : Places, task : 0..MaxTasks]]
  BY <1>0 DEF PublicationTyped
<1>5. CASE Publish(q)
  <2>1. posts' \in [1..MaxTasks -> 0..2]
    <3>1. posts' = [posts EXCEPT ![request[q].task] = More(posts[request[q].task])]
      BY <1>5 DEF Publish
    <3>2. \A n \in 0..2 : More(n) \in 0..2
      BY DEF More
    <3> QED
      BY <1>0, <3>1, <3>2 DEF PublicationTyped
  <2> QED
    BY <1>0, <1>2, <1>3, <1>4, <1>5, <2>1 DEF Publish, PublicationTyped, Places
<1>6. CASE PublishFails(q)
  BY <1>0, <1>3, <1>6 DEF PublishFails, PublicationTyped
<1>7. CASE SavePublishLog(q)
  BY <1>0, <1>2, <1>4, <1>7 DEF SavePublishLog, PublicationTyped, Places
<1>8. CASE MarkPublished(q) \/ RequestLost(q)
  BY <1>0, <1>2, <1>3, <1>8 DEF MarkPublished, RequestLost, PublicationTyped
<1> QED
  BY <1>1, <1>5, <1>6, <1>7, <1>8 DEF PublishStep

\* Every step keeps the types.
LEMMA TypedStep ==
  ASSUME Typed, Handling, Asked, ContentNext
  PROVE  Typed'
<1>1. /\ approvals' \in Seq(BOOLEAN) /\ Len(approvals') <= MaxPlans
      /\ tasks' \in Seq(Task) /\ Len(tasks') <= MaxTasks
  BY StepEdits, EditsGrow
<1>2. HandlerTyped /\ PublicationTyped
  BY DEF Typed, ContentTypeOK, HandlerTyped, PublicationTyped
<1>3. HandlerTyped' /\ PublicationTyped'
  <2>1. CASE AskForJob
    <3>1. phase' \in [Jobs -> Phases]
      BY <2>1, <1>2 DEF AskForJob, PostContentPlan, PostProduce, PostFix, Submit, HandlerTyped, Phases
    <3> QED
      BY <1>2, <2>1, <3>1 DEF AskForJob, HandlerTyped, PublicationTyped, handler, store, publication
  <2>2. CASE RecoverJobs
    <3>1. phase' \in [Jobs -> Phases]
      BY <2>2, <1>2 DEF RecoverJobs, Rescue, HandlerTyped, Phases
    <3> QED
      BY <1>2, <2>2, <3>1 DEF RecoverJobs, HandlerTyped, PublicationTyped, handler, store, publication
  <2>3. ASSUME NEW j \in Jobs, NEW r \in Runners, JobStep(j, r) PROVE HandlerTyped' /\ PublicationTyped'
    <3>1. UNCHANGED publication
      BY <2>3 DEF JobStep, Begin, Postpone, FailForGood, Caught, Succeed, SaveUnheard, Die
    <3> QED
      BY <1>2, <2>3, <3>1, JobStepTyped DEF PublicationTyped, publication
  <2>4. ASSUME NEW j \in Jobs, AgentStep(j) PROVE HandlerTyped' /\ PublicationTyped'
    <3>1. UNCHANGED publication
      BY <2>4 DEF AgentStep, TryAgain, Resume, Execute, MakePlan, SavePlan, ReadPlan, ProduceDraft,
                  ApplyFix, SaveFix, AgentDone
    <3> QED
      BY <1>2, <2>4, <3>1, AgentStepTyped DEF PublicationTyped, publication
  <2>5. CASE (\E p \in DOMAIN approvals : ApproveContentPlan(p))
             \/ \E t \in DOMAIN tasks : ApproveExecutionTask(t)
    BY <1>2, <2>5 DEF ApproveContentPlan, ApproveExecutionTask, HandlerTyped, PublicationTyped,
                      handler, publication, vars
  <2>6. ASSUME NEW q \in Requests, PublishStep(q) PROVE HandlerTyped' /\ PublicationTyped'
    <3>1. UNCHANGED <<vars, handler, checkpoint, touched>>
      BY <2>6 DEF PublishStep, ReadTask, Publish, PublishFails, SavePublishLog, MarkPublished,
                  RequestLost, store
    <3> QED
      BY <1>2, <2>6, <3>1, PublishStepTyped DEF HandlerTyped, handler, vars
  <2> QED
    BY <2>1, <2>2, <2>3, <2>4, <2>5, <2>6 DEF ContentNext
<1> QED
  BY <1>1, <1>3 DEF Typed, ContentTypeOK, HandlerTyped, PublicationTyped

-----------------------------------------------------------------------------
(* The handlers.                                                           *)

\* A job at whose handler nothing happens.
LEMMA Bystander ==
  ASSUME NEW j \in Jobs, HandlingOf(j), Grows,
         op'[j] = op[j], pinned'[j] = pinned[j], at'[j] = at[j],
         j \in checkpoint' => j \in checkpoint,
         phase'[j] = "succeeded" => phase[j] = "succeeded"
  PROVE  HandlingOf(j)'
BY GrowingKeeps DEF HandlingOf

\* A job whose handler is left, begun again, or done.
LEMMA Quiet ==
  ASSUME NEW j \in Jobs, HandlingOf(j), Grows,
         op'[j] \notin {"work", "applied", "save", "done"},
         j \in checkpoint' => j \in checkpoint,
         phase'[j] = "succeeded" => phase[j] = "succeeded" \/ op[j] = "done"
  PROVE  HandlingOf(j)'
BY GrowingKeeps DEF HandlingOf

\* What a job's step leaves alone of the others, and what it does with the job.
LEMMA JobStepHandling ==
  ASSUME Typed, Handling, Grows, NEW j \in Jobs, NEW r \in Runners, JobStep(j, r)
  PROVE  Handling'
<1>0. /\ op \in [Jobs -> Ops] /\ pinned \in [Jobs -> 0..MaxPlans]
      /\ at \in [Jobs -> 1..(Gaps + Fixes + 1)]
      /\ phase \in [Jobs -> Phases]
  BY DEF Typed, ContentTypeOK
<1>1. /\ checkpoint' \in {checkpoint, checkpoint \ {j}}
      /\ \A i \in Jobs \ {j} : op'[i] = op[i] /\ pinned'[i] = pinned[i] /\ at'[i] = at[i]
      /\ op'[j] \notin {"work", "applied", "save", "done"}
  <2>1. CASE Begin(j, r) \/ Postpone(j, r) \/ Die(j, r)
    BY <1>0, <2>1 DEF Begin, Postpone, Die, Leave, Locals, store
  <2>2. CASE FailForGood(j, r) \/ Caught(j, r)
    BY <1>0, <2>2 DEF FailForGood, Caught, GiveUp, Over, Leave, Locals, store
  <2>3. CASE Succeed(j, r) \/ SaveUnheard(j, r)
    BY <1>0, <2>3 DEF Succeed, SaveUnheard, Over, GoOn, Leave, Locals
  <2> QED
    BY <2>1, <2>2, <2>3 DEF JobStep
<1>2. /\ \A i \in Jobs \ {j} : phase'[i] = phase[i]
      /\ phase'[j] = "succeeded" => phase[j] = "succeeded" \/ op[j] = "done"
  <2>1. CASE Begin(j, r) \/ Postpone(j, r) \/ Die(j, r)
    BY <1>0, <2>1 DEF Begin, Postpone, Die, Start, HandBack, Abandon
  <2>2. CASE FailForGood(j, r) \/ Caught(j, r)
    BY <1>0, <2>2 DEF FailForGood, Caught, GiveUp, Over, End, HandBack
  <2>3. CASE Succeed(j, r) \/ SaveUnheard(j, r)
    BY <1>0, <2>3 DEF Succeed, SaveUnheard, Over, End, EndUnheard, vars
  <2> QED
    BY <2>1, <2>2, <2>3 DEF JobStep
<1>3. HandlingOf(j)'
  BY <1>1, <1>2, Quiet DEF Handling
<1>4. ASSUME NEW i \in Jobs \ {j} PROVE HandlingOf(i)'
  BY <1>1, <1>2, Bystander DEF Handling
<1> QED
  BY <1>3, <1>4 DEF Handling

\* The task that was added is of the job, the plan and the item it was at.
LEMMA NowDealt ==
  ASSUME Typed, NEW j \in Jobs, HandlingOf(j), Grows, NEW type, NEW s,
         op[j] \in {"work", "applied"}, AddTask(j, type, s),
         NEW p, p = pinned[j], NEW n, n = at[j]
  PROVE  \A i \in 1..n : Dealt(j, p, i)'
<1>1. n \in Nat /\ tasks \in Seq(Task)
  BY DEF Typed, ContentTypeOK
<1>2. \A i \in 1..n - 1 : Dealt(j, p, i)'
  BY GrowingKeeps DEF HandlingOf
<1>3. Dealt(j, p, n)'
  <2> DEFINE t == Len(tasks) + 1
  <2>1. t \in DOMAIN tasks' /\ tasks'[t] = [type |-> type, plan |-> p, job |-> j, item |-> n,
                                            approved |-> FALSE, status |-> s]
    BY <1>1 DEF AddTask
  <2> QED
    BY <2>1 DEF Dealt
<1> QED
  BY <1>1, <1>2, <1>3

LEMMA AgentStepHandling ==
  ASSUME Typed, Handling, Grows, NEW j \in Jobs, AgentStep(j)
  PROVE  Handling'
<1>0. /\ op \in [Jobs -> Ops] /\ pinned \in [Jobs -> 0..MaxPlans]
      /\ at \in [Jobs -> 1..(Gaps + Fixes + 1)]
      /\ phase \in [Jobs -> Phases]
      /\ HandlingOf(j)
  BY DEF Typed, ContentTypeOK, Handling
<1>1. /\ checkpoint' \in {checkpoint, checkpoint \union {j}}
      /\ \A i \in Jobs \ {j} : op'[i] = op[i] /\ pinned'[i] = pinned[i] /\ at'[i] = at[i]
      /\ UNCHANGED phase
  <2>1. CASE TryAgain(j) \/ Resume(j) \/ Execute(j) \/ ReadPlan(j)
    BY <1>0, <2>1 DEF TryAgain, Resume, Execute, ReadPlan, GoOn, Locals, vars, store
  <2>2. CASE MakePlan(j) \/ AgentDone(j) \/ SavePlan(j)
    BY <1>0, <2>2 DEF MakePlan, AgentDone, SavePlan, Record, GoOn, Locals, vars
  <2>3. CASE ProduceDraft(j) \/ ApplyFix(j) \/ SaveFix(j)
    BY <1>0, <2>3 DEF ProduceDraft, ApplyFix, SaveFix, GoOn, Locals, vars
  <2> QED
    BY <2>1, <2>2, <2>3 DEF AgentStep
<1>2. HandlingOf(j)'
  <2>1. CASE TryAgain(j) \/ Execute(j)
    BY <1>0, <1>1, <2>1, Quiet DEF TryAgain, Execute, GoOn, Locals, store
  <2>2. CASE Resume(j)
    <3>1. /\ op'[j] = IF j \in PlanJobs THEN "save" ELSE "done"
          /\ j \notin PlanJobs => Whole(j)
      BY <1>0, <2>2 DEF Resume, GoOn, Locals, HandlingOf
    <3> QED
      BY <3>1, GrowingKeeps DEF HandlingOf
  <2>3. CASE MakePlan(j) \/ (j \in PlanJobs /\ SavePlan(j))
    <3>1. op'[j] \in {"save", "done", "caught"} /\ j \in PlanJobs
      BY <1>0, <2>3 DEF MakePlan, SavePlan, GoOn, Locals
    <3> QED
      BY <3>1 DEF HandlingOf
  <2>4. CASE SavePlan(j)
    BY <1>0, <2>3, <2>4 DEF SavePlan, HandlingOf
  <2>5. CASE ReadPlan(j)
    <3>1. op'[j] = "work" /\ pinned'[j] = LatestPlan /\ at'[j] = 1 /\ j \notin PlanJobs
      BY <1>0, <2>5 DEF ReadPlan, Locals
    <3>2. Approved(LatestPlan) /\ UNCHANGED <<approvals, checkpoint>>
      BY <2>5, LenProperties DEF ReadPlan, LatestPlan, Approved, Typed, ContentTypeOK, store
    <3>3. Approved(pinned[j])'
      BY <3>1, <3>2 DEF Approved
    <3>4. j \in checkpoint \/ phase[j] = "succeeded" => Whole(j)'
      BY <1>0, <3>1, GrowingKeeps DEF HandlingOf
    <3> QED
      BY <1>1, <3>1, <3>2, <3>3, <3>4 DEF HandlingOf
  <2>6. CASE ProduceDraft(j) \/ SaveFix(j)
    <3>1. /\ op[j] \in {"work", "applied"} /\ j \notin PlanJobs
          /\ \E type, s : AddTask(j, type, s)
          /\ op'[j] = "work" /\ pinned'[j] = pinned[j] /\ at'[j] = at[j] + 1
          /\ UNCHANGED checkpoint
      BY <1>0, <2>6 DEF ProduceDraft, SaveFix, Locals, HandlingOf
    <3>2. PICK p, n : p = pinned[j] /\ n = at[j]
      OBVIOUS
    <3>3. \A i \in 1..n : Dealt(j, p, i)'
      BY <1>0, <3>1, <3>2, NowDealt
    <3>4. Approved(p)'
      BY <1>0, <3>1, <3>2, GrowingKeeps DEF HandlingOf
    <3>5. j \in checkpoint \/ phase[j] = "succeeded" => Whole(j)'
      BY <1>0, <3>1, GrowingKeeps DEF HandlingOf
    <3>6. pinned'[j] = p /\ at'[j] - 1 = n
      BY <1>0, <3>1, <3>2
    <3> QED
      BY <1>1, <3>1, <3>3, <3>4, <3>5, <3>6 DEF HandlingOf
  <2>7. CASE ApplyFix(j)
    <3>1. /\ op[j] = "work" /\ j \in FixJobs /\ at[j] <= Fixes /\ op'[j] = "applied"
          /\ pinned'[j] = pinned[j] /\ at'[j] = at[j] /\ UNCHANGED checkpoint
      BY <1>0, <2>7 DEF ApplyFix, GoOn, Locals
    <3> QED
      BY <1>0, <1>1, <3>1, GrowingKeeps DEF HandlingOf
  <2>8. CASE AgentDone(j)
    <3>1. op[j] = "work" /\ at[j] > ItemsOf(j) /\ op'[j] = "done" /\ ItemsOf(j) \in Nat
      BY <1>0, <2>8, ContentAssumption DEF AgentDone, GoOn, Locals, ItemsOf
    <3>2. Whole(j)
      BY <1>0, <3>1 DEF HandlingOf, Whole, Approved
    <3> QED
      BY <3>1, <3>2, GrowingKeeps DEF HandlingOf
  <2> QED
    BY <2>1, <2>2, <2>3, <2>4, <2>5, <2>6, <2>7, <2>8 DEF AgentStep
<1>3. ASSUME NEW i \in Jobs \ {j} PROVE HandlingOf(i)'
  BY <1>1, Bystander DEF Handling
<1> QED
  BY <1>2, <1>3 DEF Handling

\* So do the steps of everybody else.
LEMMA HandlingStep ==
  ASSUME Typed, Handling, Asked, ContentNext
  PROVE  Handling'
<1>0. Grows
  BY StepEdits, EditsGrow
<1>1. ASSUME UNCHANGED <<handler, checkpoint>>,
             \A j \in Jobs : phase'[j] = "succeeded" => phase[j] = "succeeded"
      PROVE  Handling'
  BY <1>0, <1>1, Bystander DEF Handling, handler
<1>2. CASE AskForJob \/ RecoverJobs
  BY <1>1, <1>2 DEF AskForJob, RecoverJobs, PostContentPlan, PostProduce, PostFix, Submit, Rescue,
                    store, Typed
<1>3. CASE \/ \E p \in DOMAIN approvals : ApproveContentPlan(p)
           \/ \E t \in DOMAIN tasks : ApproveExecutionTask(t)
  BY <1>1, <1>3 DEF ApproveContentPlan, ApproveExecutionTask, vars
<1>4. ASSUME NEW q \in Requests, PublishStep(q) PROVE Handling'
  <2>1. UNCHANGED <<vars, handler, checkpoint>>
    BY <1>4 DEF PublishStep, ReadTask, Publish, PublishFails, SavePublishLog, MarkPublished,
                RequestLost, store
  <2> QED
    BY <1>1, <2>1 DEF vars
<1> QED
  BY <1>0, <1>2, <1>3, <1>4, JobStepHandling, AgentStepHandling DEF ContentNext

-----------------------------------------------------------------------------
(* The requests to publish.                                                *)

\* Nobody but a request changes a task's status, and a task starts unpublished.
StatusesStay ==
  /\ \A t \in DOMAIN tasks : tasks'[t].status = tasks[t].status
  /\ \A t \in DOMAIN tasks' \ DOMAIN tasks : tasks'[t].status # "published"

LEMMA AddsKeepStatuses ==
  ASSUME Typed, Adds \/ Approves
  PROVE  StatusesStay
<1>0. tasks \in Seq(Task)
  BY DEF Typed, ContentTypeOK
<1>1. CASE AddsTask
  <2>1. PICK e \in Task : tasks' = Append(tasks, e) /\ e.status # "published"
    BY <1>1 DEF AddsTask
  <2> QED
    BY <1>0, <2>1, OneMore DEF StatusesStay
<1>2. CASE UNCHANGED tasks
  BY <1>2 DEF StatusesStay
<1>3. ASSUME NEW t \in DOMAIN tasks, tasks' = [tasks EXCEPT ![t].approved = TRUE]
      PROVE  StatusesStay
  <2>1. tasks[t] \in Task /\ DOMAIN tasks' = DOMAIN tasks
    BY <1>0, <1>3, LenProperties
  <2>2. \A i \in DOMAIN tasks : tasks'[i].status = tasks[i].status
    BY <1>3, <2>1 DEF Task
  <2> QED
    BY <2>1, <2>2 DEF StatusesStay
<1> QED
  BY <1>1, <1>2, <1>3 DEF Adds, AddsPlan, Approves

LEMMA MarkedIsPublished ==
  ASSUME Typed, NEW t \in DOMAIN tasks, tasks' = Published(t)
  PROVE  /\ DOMAIN tasks' = DOMAIN tasks
         /\ \A i \in DOMAIN tasks :
              /\ tasks'[i].status = IF i = t THEN "published" ELSE tasks[i].status
              /\ tasks'[i].approved = tasks[i].approved
<1>1. tasks \in Seq(Task) /\ tasks[t] \in Task
  BY LenProperties DEF Typed, ContentTypeOK
<1>2. \A i \in DOMAIN tasks :
        /\ tasks'[i].status = IF i = t THEN "published" ELSE tasks[i].status
        /\ tasks'[i].approved = tasks[i].approved
  BY <1>1 DEF Published, Task
<1> QED
  BY <1>2 DEF Published

\* Whatever is not a request's step leaves the publications as they are.
LEMMA OthersKeepPublications ==
  ASSUME Typed, Asked, Outside, Undisturbed, Grows, StatusesStay, UNCHANGED publication
  PROVE  Asked' /\ Outside' /\ Undisturbed'
<1>1. Asked'
  BY DEF Asked, AskedOf, Grows, publication
<1>2. Outside'
  BY DEF Outside, Grows, StatusesStay, publication
<1>3. Undisturbed'
  <2>1. \A t \in 1..MaxTasks : posts[t] > 0 => tasks'[t].status = tasks[t].status
    BY DEF Outside, StatusesStay
  <2> QED
    BY <2>1 DEF Undisturbed, UndisturbedTask, Alone, publication
<1> QED
  BY <1>1, <1>2, <1>3

\* A request's step, as it moves: whether the task is read, published, logged and
\* marked, or the request is given up.
LEMMA PublishKeepsAsked ==
  ASSUME Typed, Asked, Grows, NEW q \in Requests, PublishStep(q)
  PROVE  Asked'
<1>0. /\ request \in [Requests -> [at : Places, task : 0..MaxTasks]]
      /\ posts \in [1..MaxTasks -> 0..2]
      /\ DOMAIN tasks \subseteq 1..MaxTasks
  BY ContentAssumption, LenProperties DEF Typed, ContentTypeOK
<1>1. \A t \in 1..MaxTasks : posts[t] > 0 => posts'[t] > 0
  <2>1. CASE Publish(q)
    <3>1. posts' = [posts EXCEPT ![request[q].task] = More(posts[request[q].task])]
      BY <2>1 DEF Publish
    <3>2. \A n \in 0..2 : More(n) \in 1..2
      BY DEF More
    <3> QED
      BY <1>0, <3>1, <3>2
  <2>2. CASE UNCHANGED posts
    BY <2>2
  <2> QED
    BY <2>1, <2>2 DEF PublishStep, ReadTask, PublishFails, SavePublishLog, MarkPublished, RequestLost
<1>2. logged \subseteq logged'
  BY DEF PublishStep, ReadTask, Publish, PublishFails, SavePublishLog, MarkPublished, RequestLost
<1>3. request[q].at # "none" => request[q].task \in 1..MaxTasks
  BY <1>0 DEF Asked, AskedOf
<1>4. AskedOf(q)'
  <2>1. ASSUME NEW t \in DOMAIN tasks, ReadTask(q, t) PROVE AskedOf(q)'
    <3>1. request'[q] = [at |-> "publish", task |-> t] /\ UNCHANGED tasks /\ tasks[t].approved
      BY <1>0, <2>1 DEF ReadTask, Publishable, store
    <3> QED
      BY <3>1 DEF AskedOf
  <2>2. CASE request'[q].at = "none"
    BY <2>2 DEF AskedOf
  <2>3. CASE Publish(q) /\ request' = [request EXCEPT ![q].at = "log"]
    <3>1. request'[q].at = "log" /\ request'[q].task = request[q].task /\ UNCHANGED tasks
      BY <1>0, <2>3 DEF Publish, store
    <3>2. posts'[request[q].task] > 0
      <4>1. posts' = [posts EXCEPT ![request[q].task] = More(posts[request[q].task])]
        BY <2>3 DEF Publish
      <4>2. \A n \in 0..2 : More(n) > 0
        BY DEF More
      <4>3. request[q].task \in 1..MaxTasks
        BY <1>3, <2>3 DEF Publish
      <4> QED
        BY <1>0, <4>1, <4>2, <4>3
    <3> QED
      BY <2>3, <3>1, <3>2 DEF Asked, AskedOf, Publish
  <2>4. CASE SavePublishLog(q)
    <3>1. /\ request'[q].at = "mark" /\ request'[q].task = request[q].task
          /\ UNCHANGED <<tasks, posts>> /\ request[q].task \in logged'
      BY <1>0, <2>4 DEF SavePublishLog, store
    <3> QED
      BY <2>4, <3>1 DEF Asked, AskedOf, SavePublishLog
  <2>5. EndRequest(q) => request'[q].at = "none"
    BY <1>0 DEF EndRequest
  <2> QED
    BY <2>1, <2>2, <2>3, <2>4, <2>5 DEF PublishStep, Publish, PublishFails, MarkPublished, RequestLost
<1>5. ASSUME NEW p \in Requests, p # q PROVE AskedOf(p)'
  <2>1. request'[p] = request[p] /\ AskedOf(p)
    BY <1>0, <1>5 DEF PublishStep, ReadTask, Publish, PublishFails, SavePublishLog, MarkPublished,
                      RequestLost, EndRequest, Asked
  <2>2. request[p].at # "none" => request[p].task \in 1..MaxTasks
    BY <1>0, <2>1 DEF AskedOf
  <2> QED
    BY <1>1, <1>2, <2>1, <2>2 DEF AskedOf, Grows
<1> QED
  BY <1>4, <1>5 DEF Asked

LEMMA PublishKeepsOutside ==
  ASSUME Typed, Asked, Outside, NEW q \in Requests, PublishStep(q)
  PROVE  Outside'
<1>0. /\ posts \in [1..MaxTasks -> 0..2]
      /\ DOMAIN tasks \subseteq 1..MaxTasks
      /\ AskedOf(q)
  BY ContentAssumption, LenProperties DEF Typed, ContentTypeOK, Asked
<1>1. CASE Publish(q)
  <2>1. /\ posts' = [posts EXCEPT ![request[q].task] = More(posts[request[q].task])]
        /\ request[q].task \in DOMAIN tasks /\ UNCHANGED <<tasks, logged>>
    BY <1>0, <1>1 DEF Publish, AskedOf, store
  <2>2. \A n \in 0..2 : More(n) > 0
    BY DEF More
  <2> QED
    BY <1>0, <2>1, <2>2 DEF Outside
<1>2. CASE MarkPublished(q)
  <2>1. /\ request[q].task \in DOMAIN tasks /\ tasks' = Published(request[q].task)
        /\ posts[request[q].task] > 0 /\ request[q].task \in logged
        /\ UNCHANGED <<posts, logged>>
    BY <1>0, <1>2 DEF MarkPublished, AskedOf
  <2> QED
    BY <2>1, MarkedIsPublished DEF Outside
<1>3. CASE UNCHANGED <<tasks, posts>> /\ logged \subseteq logged'
  BY <1>3 DEF Outside
<1> QED
  BY <1>1, <1>2, <1>3 DEF PublishStep, ReadTask, PublishFails, SavePublishLog, RequestLost, store

LEMMA PublishKeepsUndisturbed ==
  ASSUME Typed, Asked, Outside, Undisturbed, NEW q \in Requests, PublishStep(q)
  PROVE  Undisturbed'
<1> DEFINE t0 == request[q].task
<1>0. /\ request \in [Requests -> [at : Places, task : 0..MaxTasks]]
      /\ posts \in [1..MaxTasks -> 0..2]
      /\ DOMAIN tasks \subseteq 1..MaxTasks
      /\ AskedOf(q)
      /\ request[q].at # "none" => t0 \in 1..MaxTasks /\ t0 \in DOMAIN tasks
  BY ContentAssumption, LenProperties DEF Typed, ContentTypeOK, Asked, AskedOf
<1>1. \A p \in Requests : p # q => request'[p] = request[p]
  BY <1>0 DEF PublishStep, ReadTask, Publish, PublishFails, SavePublishLog, MarkPublished,
              RequestLost, EndRequest
<1>2. EndRequest(q) => request'[q].at = "none"
  BY <1>0 DEF EndRequest
<1>3. ASSUME NEW t \in DOMAIN tasks, ReadTask(q, t) PROVE Undisturbed'
  <2>1. /\ request[q].at = "none" /\ request'[q] = [at |-> "publish", task |-> t]
        /\ UNCHANGED <<posts, tasks>> /\ mishaps \subseteq mishaps'
        /\ tasks[t].status # "published"
    BY <1>0, <1>3 DEF ReadTask, Publishable, store
  <2>2. ASSUME t \notin mishaps' PROVE \A p \in Requests : request[p].task = t => request[p].at = "none"
    <3>1. AtWork(t) = {}
      BY <1>3, <2>2 DEF ReadTask
    <3> QED
      BY <1>0, <3>1 DEF AtWork, Places
  <2>3. Alone'
    BY <1>1, <2>1, <2>2 DEF Undisturbed, Alone
  <2>4. ASSUME t \notin mishaps' PROVE posts[t] = 0
    BY <1>0, <2>1, <2>2, <2>4 DEF Undisturbed, UndisturbedTask
  <2>5. ASSUME NEW u \in 1..MaxTasks \ mishaps' PROVE UndisturbedTask(u)'
    <3>1. UndisturbedTask(u)
      BY <2>1, <2>5 DEF Undisturbed
    <3> QED
      BY <1>1, <2>1, <2>4, <2>5, <3>1 DEF UndisturbedTask
  <2> QED
    BY <2>3, <2>5 DEF Undisturbed
<1>4. CASE Publish(q)
  <2>1. /\ request[q].at = "publish" /\ UNCHANGED tasks /\ mishaps \subseteq mishaps'
        /\ posts' = [posts EXCEPT ![t0] = More(posts[t0])]
        /\ t0 \in 1..MaxTasks
    BY <1>0, <1>4 DEF Publish, store
  <2>2. \/ request'[q].at = "log" /\ request'[q].task = t0
        \/ request'[q].at = "none" /\ t0 \in mishaps'
    BY <1>0, <1>2, <1>4 DEF Publish
  <2>3. Alone'
    BY <1>1, <2>1, <2>2 DEF Undisturbed, Alone
  <2>4. ASSUME NEW u \in 1..MaxTasks \ mishaps' PROVE UndisturbedTask(u)'
    <3>1. UndisturbedTask(u)
      BY <2>1, <2>4 DEF Undisturbed
    <3>2. CASE u = t0
      <4>1. posts[u] = 0 /\ posts'[u] = 1
        BY <1>0, <2>1, <3>1, <3>2 DEF UndisturbedTask, More
      <4>2. request'[q].at = "log" /\ request'[q].task = u
        BY <2>2, <2>4, <3>2
      <4>3. \A p \in Requests : p # q => ~(request[p].task = u /\ request[p].at = "publish")
        BY <2>1, <2>4, <3>2 DEF Undisturbed, Alone
      <4> QED
        BY <1>1, <4>1, <4>2, <4>3 DEF UndisturbedTask
    <3>3. CASE u # t0
      <4>1. posts'[u] = posts[u]
        BY <1>0, <2>1, <3>3
      <4> QED
        BY <1>1, <2>1, <2>2, <2>4, <3>1, <3>3, <4>1 DEF UndisturbedTask
    <3> QED
      BY <3>2, <3>3
  <2> QED
    BY <2>3, <2>4 DEF Undisturbed
<1>5. CASE PublishFails(q)
  <2>1. /\ request[q].at = "publish" /\ request'[q].at = "none"
        /\ UNCHANGED <<posts, tasks, mishaps>>
    BY <1>2, <1>5 DEF PublishFails, store
  <2> QED
    BY <1>1, <2>1 DEF Undisturbed, Alone, UndisturbedTask
<1>6. CASE SavePublishLog(q)
  <2>1. /\ request[q].at = "log" /\ request'[q].at = "mark" /\ request'[q].task = t0
        /\ UNCHANGED <<posts, tasks, mishaps>>
    BY <1>0, <1>6 DEF SavePublishLog, store
  <2> QED
    BY <1>1, <2>1 DEF Undisturbed, Alone, UndisturbedTask
<1>7. CASE MarkPublished(q)
  <2>1. /\ request[q].at = "mark" /\ request'[q].at = "none" /\ t0 \in DOMAIN tasks
        /\ tasks' = Published(t0) /\ UNCHANGED <<posts, mishaps>>
    BY <1>0, <1>2, <1>7 DEF MarkPublished
  <2>2. \A i \in DOMAIN tasks : tasks'[i].status = IF i = t0 THEN "published" ELSE tasks[i].status
    BY <2>1, MarkedIsPublished
  <2>3. Alone'
    BY <1>1, <2>1 DEF Undisturbed, Alone
  <2>4. ASSUME NEW u \in 1..MaxTasks \ mishaps' PROVE UndisturbedTask(u)'
    <3>1. UndisturbedTask(u) /\ (posts[u] > 0 => u \in DOMAIN tasks)
      BY <2>1, <2>4 DEF Undisturbed, Outside
    <3> QED
      BY <1>1, <2>1, <2>2, <3>1 DEF UndisturbedTask
  <2> QED
    BY <2>3, <2>4 DEF Undisturbed
<1>8. CASE RequestLost(q)
  <2>1. /\ request'[q].at = "none" /\ mishaps' = mishaps \union {t0}
        /\ UNCHANGED <<posts, tasks>>
    BY <1>2, <1>8 DEF RequestLost, store
  <2> QED
    BY <1>1, <2>1 DEF Undisturbed, Alone, UndisturbedTask
<1> QED
  BY <1>3, <1>4, <1>5, <1>6, <1>7, <1>8 DEF PublishStep

-----------------------------------------------------------------------------
\* Nothing has happened yet.
LEMMA InitIInv == ContentInit => IInv
<1> SUFFICES ASSUME ContentInit PROVE IInv
  OBVIOUS
<1>1. /\ approvals = <<>> /\ tasks = <<>> /\ Len(approvals) = 0 /\ Len(tasks) = 0
      /\ approvals \in Seq(BOOLEAN) /\ tasks \in Seq(Task)
      /\ DOMAIN tasks = {}
  BY DEF ContentInit
<1>2. HandlerTyped /\ PublicationTyped
  BY ContentAssumption DEF ContentInit, Init, HandlerTyped, PublicationTyped, Ops, Phases, Places
<1>3. Typed
  BY <1>1, <1>2, ContentAssumption DEF Typed, ContentTypeOK, HandlerTyped, PublicationTyped
<1>4. Handling
  BY DEF ContentInit, Init, Handling, HandlingOf
<1>5. Asked /\ Outside /\ Undisturbed
  BY <1>1 DEF ContentInit, Asked, AskedOf, Outside, Undisturbed, Alone, UndisturbedTask
<1> QED
  BY <1>3, <1>4, <1>5 DEF IInv

\* Every step keeps the invariant.
LEMMA StepIInv ==
  ASSUME IInv, [ContentNext]_allVars
  PROVE  IInv'
<1>1. CASE UNCHANGED allVars
  <2>1. UNCHANGED <<phase, op, pinned, at, calls, checkpoint, approvals, tasks, touched, posts, logged,
                    reads, request, mishaps>>
    BY <1>1 DEF allVars, vars, handler, store, publication
  <2>2. Typed'
    BY <2>1 DEF IInv, Typed, ContentTypeOK
  <2>3. Handling'
    BY <2>1 DEF IInv, Handling, HandlingOf, Whole, Approved, Dealt
  <2>4. Asked' /\ Outside' /\ Undisturbed'
    BY <2>1 DEF IInv, Asked, AskedOf, Outside, Undisturbed, Alone, UndisturbedTask
  <2> QED
    BY <2>2, <2>3, <2>4 DEF IInv
<1>2. CASE ContentNext
  <2>1. Typed' /\ Handling' /\ Grows
    BY <1>2, TypedStep, HandlingStep, StepEdits, EditsGrow DEF IInv
  <2>2. ASSUME UNCHANGED publication, Adds \/ Approves PROVE Asked' /\ Outside' /\ Undisturbed'
    BY <2>1, <2>2, AddsKeepStatuses, OthersKeepPublications DEF IInv
  <2>3. CASE AskForJob \/ RecoverJobs
    BY <2>1, <2>2, <2>3 DEF AskForJob, RecoverJobs, Adds, store, IInv
  <2>4. ASSUME NEW j \in Jobs, NEW r \in Runners, JobStep(j, r) PROVE Asked' /\ Outside' /\ Undisturbed'
    <3>1. UNCHANGED publication
      BY <2>4 DEF JobStep, Begin, Postpone, FailForGood, Caught, Succeed, SaveUnheard, Die
    <3> QED
      BY <2>2, <2>4, <3>1, JobStepEdits DEF IInv
  <2>5. ASSUME NEW j \in Jobs, AgentStep(j) PROVE Asked' /\ Outside' /\ Undisturbed'
    <3>1. UNCHANGED publication
      BY <2>5 DEF AgentStep, TryAgain, Resume, Execute, MakePlan, SavePlan, ReadPlan, ProduceDraft,
                  ApplyFix, SaveFix, AgentDone
    <3> QED
      BY <2>2, <2>5, <3>1, AgentStepEdits DEF IInv
  <2>6. CASE \E p \in DOMAIN approvals : ApproveContentPlan(p)
    BY <2>1, <2>2, <2>6 DEF ApproveContentPlan, Approves, IInv
  <2>7. CASE \E t \in DOMAIN tasks : ApproveExecutionTask(t)
    BY <2>1, <2>2, <2>7 DEF ApproveExecutionTask, Approves, IInv
  <2>8. ASSUME NEW q \in Requests, PublishStep(q) PROVE Asked' /\ Outside' /\ Undisturbed'
    BY <2>1, <2>8, PublishKeepsAsked, PublishKeepsOutside, PublishKeepsUndisturbed DEF IInv
  <2> QED
    BY <1>2, <2>1, <2>3, <2>4, <2>5, <2>6, <2>7, <2>8 DEF ContentNext, IInv
<1> QED
  BY <1>1, <1>2

\* So it always holds.
THEOREM Inductive == ContentSpec => []IInv
<1> QED
  BY InitIInv, StepIInv, PTL DEF ContentSpec

\* A draft goes out twice only by requests that overlapped or got lost
\* (publishing-agent.ts), however many there are at once.
THEOREM MishapsRepublish == ContentSpec => []OnlyMishapsRepublish
<1>1. IInv => OnlyMishapsRepublish
  <2> SUFFICES ASSUME IInv, NEW t \in 1..MaxTasks, posts[t] > 1
               PROVE  t \in mishaps
    BY DEF OnlyMishapsRepublish
  <2>1. posts[t] \in 0..2
    BY DEF IInv, Typed, ContentTypeOK
  <2> QED
    BY <2>1 DEF IInv, Undisturbed, UndisturbedTask
<1> QED
  BY <1>1, Inductive, PTL

\* What says "published" has been, and is logged; and every value has its type.
THEOREM PublicationsAreLogged == ContentSpec => []PublishedIsLogged
<1>1. IInv => PublishedIsLogged
  BY DEF IInv, Typed, Outside, PublishedIsLogged
<1> QED
  BY <1>1, Inductive, PTL

\* A succeeded job has dealt with the whole of an approved plan, however often it was
\* interrupted, retried or postponed.
THEOREM SuccessCoversAPlan == ContentSpec => []SuccessIsWholePlan
<1>1. IInv => SuccessIsWholePlan
  <2> SUFFICES ASSUME IInv, NEW j \in ProduceJobs \union FixJobs, phase[j] = "succeeded"
               PROVE  \E p \in DOMAIN approvals : approvals[p] /\ \A i \in 1..ItemsOf(j) :
                        \E t \in DOMAIN tasks :
                          tasks[t].job = j /\ tasks[t].plan = p /\ tasks[t].item = i
    BY DEF SuccessIsWholePlan
  <2>1. Whole(j)
    BY ContentAssumption DEF IInv, Handling, HandlingOf
  <2> QED
    BY <2>1 DEF Whole, Approved, Dealt
<1> QED
  BY <1>1, Inductive, PTL

-----------------------------------------------------------------------------
(* The workflow implements ContentApproval.                                *)

Sources == [t \in DOMAIN tasks |-> tasks[t].plan]
Agreed == {p \in DOMAIN approvals : approvals[p]}
Cleared == {t \in DOMAIN tasks : tasks[t].approved}
Outs == {t \in DOMAIN tasks : posts[t] > 0}

\* A step after which the same is proposed, agreed, written, cleared, touched and out.
LEMMA Unseen ==
  ASSUME UNCHANGED <<DOMAIN approvals, Agreed, Sources, Cleared, touched, Outs>>
  PROVE  [Approval!Next]_(Approval!vars)
BY DEF Approval!vars, Agreed, Sources, Cleared, Outs

LEMMA PlanIsProposed ==
  ASSUME Typed, AddsPlan, UNCHANGED <<touched, posts>>
  PROVE  [Approval!Next]_(Approval!vars)
<1> DEFINE new == Len(approvals) + 1
<1>1. /\ DOMAIN approvals' = DOMAIN approvals \union {new} /\ new \in 1..MaxPlans
      /\ \A p \in DOMAIN approvals : approvals'[p] = approvals[p]
      /\ ~approvals'[new]
  <2>1. PICK Flags : Flags = BOOLEAN
    OBVIOUS
  <2>2. PICK no \in Flags : ~no /\ approvals' = Append(approvals, no)
    BY <2>1 DEF AddsPlan, WithNewPlan
  <2>3. approvals \in Seq(Flags) /\ new \in 1..MaxPlans
    BY <2>1, ContentAssumption DEF Typed, ContentTypeOK, AddsPlan
  <2> QED
    BY <2>2, <2>3, OneMore
<1>2. Agreed' = Agreed
  BY <1>1 DEF Agreed
<1>3. Approval!Propose(new)
  BY <1>1, <1>2 DEF AddsPlan, Agreed, Approval!Propose
<1> QED
  BY <1>1, <1>3 DEF Approval!Next

LEMMA TaskIsWritten ==
  ASSUME Typed, Outside, AddsTask, UNCHANGED <<touched, posts>>
  PROVE  [Approval!Next]_(Approval!vars)
<1> DEFINE new == Len(tasks) + 1
<1>1. PICK e \in Task : /\ Len(tasks) < MaxTasks /\ tasks' = Append(tasks, e)
                       /\ ~e.approved /\ Approved(e.plan) /\ UNCHANGED approvals
  BY DEF AddsTask
<1>2. /\ tasks \in Seq(Task) /\ MaxTasks \in Nat /\ MaxPlans \in Nat
      /\ posts \in [1..MaxTasks -> 0..2]
  BY ContentAssumption DEF Typed, ContentTypeOK
<1>3. /\ DOMAIN tasks' = DOMAIN tasks \union {new} /\ new \notin DOMAIN tasks /\ new \in 1..MaxTasks
      /\ \A t \in DOMAIN tasks : tasks'[t] = tasks[t]
      /\ tasks'[new] = e
  BY <1>1, <1>2, OneMore, LenProperties
<1>4. Cleared' = Cleared
  BY <1>1, <1>3 DEF Cleared
<1>5. Outs' = Outs
  <2>1. ~(posts[new] > 0)
    BY <1>3 DEF Outside
  <2> QED
    BY <1>3, <2>1 DEF Outs
<1>6. e.plan \in Agreed /\ e.plan \in 1..MaxPlans
  BY <1>1 DEF Agreed, Approved, Task
<1>7. Sources' = [x \in DOMAIN Sources \union {new} |-> IF x = new THEN e.plan ELSE Sources[x]]
  BY <1>3 DEF Sources
<1>8. Approval!Write(new, e.plan)
  BY <1>1, <1>3, <1>4, <1>5, <1>6, <1>7
    DEF Approval!Write, Approval!Written, Sources, Agreed, Cleared, Outs
<1> QED
  BY <1>3, <1>6, <1>8 DEF Approval!Next

LEMMA ApprovalIsSeen ==
  ASSUME Typed, Approves, UNCHANGED <<touched, posts>>
  PROVE  [Approval!Next]_(Approval!vars)
<1>0. /\ approvals \in Seq(BOOLEAN) /\ tasks \in Seq(Task)
      /\ DOMAIN approvals \subseteq 1..MaxPlans /\ DOMAIN tasks \subseteq 1..MaxTasks
  BY ContentAssumption, LenProperties DEF Typed, ContentTypeOK
<1>1. ASSUME NEW p \in DOMAIN approvals, approvals' = [approvals EXCEPT ![p] = TRUE], UNCHANGED tasks
      PROVE  Approval!Agree(p)
  <2>1. DOMAIN approvals' = DOMAIN approvals /\ Agreed' = Agreed \union {p}
    BY <1>1 DEF Agreed
  <2> QED
    BY <1>1, <2>1 DEF Approval!Agree, Agreed
<1>2. ASSUME NEW t \in DOMAIN tasks, tasks' = [tasks EXCEPT ![t].approved = TRUE], UNCHANGED approvals
      PROVE  Approval!Clear(t)
  <2>1. /\ DOMAIN tasks' = DOMAIN tasks
        /\ \A i \in DOMAIN tasks : /\ tasks'[i].plan = tasks[i].plan
                                   /\ tasks'[i].approved <=> (i = t \/ tasks[i].approved)
    <3>1. tasks[t] \in Task /\ DOMAIN tasks' = DOMAIN tasks
      BY <1>0, <1>2, LenProperties
    <3>2. \A i \in DOMAIN tasks : i # t => tasks'[i] = tasks[i]
      BY <1>2
    <3>3. tasks'[t].plan = tasks[t].plan /\ tasks'[t].approved
      BY <1>2, <3>1 DEF Task
    <3> QED
      BY <3>1, <3>2, <3>3
  <2>2. Cleared' = Cleared \union {t} /\ Sources' = Sources /\ Outs' = Outs /\ t \in DOMAIN Sources
    BY <2>1 DEF Cleared, Sources, Outs
  <2> QED
    BY <1>2, <2>2 DEF Approval!Clear, Approval!Written, Cleared, Sources, Outs
<1> QED
  BY <1>0, <1>1, <1>2 DEF Approves, Approval!Next

LEMMA FixIsTouched ==
  ASSUME Typed, Handling, NEW j \in Jobs, ApplyFix(j)
  PROVE  [Approval!Next]_(Approval!vars)
<1>1. Approved(pinned[j]) /\ pinned[j] \in 1..MaxPlans
  BY LenProperties DEF ApplyFix, Handling, HandlingOf, Approved, Typed, ContentTypeOK
<1>2. Approval!Touch(pinned[j])
  BY <1>1 DEF ApplyFix, Approved, publication, Approval!Touch
<1> QED
  BY <1>1, <1>2 DEF Approval!Next

LEMMA PublishIsSeen ==
  ASSUME Typed, Asked, NEW q \in Requests, PublishStep(q)
  PROVE  [Approval!Next]_(Approval!vars)
<1>0. /\ posts \in [1..MaxTasks -> 0..2]
      /\ DOMAIN tasks \subseteq 1..MaxTasks
      /\ AskedOf(q)
      /\ tasks \in Seq(Task)
  BY ContentAssumption, LenProperties DEF Typed, ContentTypeOK, Asked
<1>1. CASE Publish(q)
  <2>0. PICK t \in DOMAIN tasks : t = request[q].task
    BY <1>0, <1>1 DEF Publish, AskedOf
  <2>1. /\ tasks[t].approved
        /\ UNCHANGED <<approvals, tasks, touched>>
        /\ posts' = [posts EXCEPT ![t] = More(posts[t])]
    BY <1>0, <1>1, <2>0 DEF Publish, AskedOf, store
  <2>2. \A n \in 0..2 : More(n) > 0
    BY DEF More
  <2>3. Outs' = Outs \union {t}
    BY <1>0, <2>1, <2>2 DEF Outs
  <2>4. Approval!PutOut(t)
    BY <2>1, <2>3 DEF Outs, Approval!PutOut
  <2>5. t \in 1..MaxTasks
    BY <1>0
  <2> QED
    BY <2>4, <2>5 DEF Approval!Next
<1>2. CASE MarkPublished(q)
  <2>1. /\ request[q].task \in DOMAIN tasks /\ tasks' = Published(request[q].task)
        /\ UNCHANGED <<approvals, touched, posts>>
    BY <1>0, <1>2 DEF MarkPublished, AskedOf
  <2>2. /\ DOMAIN tasks' = DOMAIN tasks
        /\ \A i \in DOMAIN tasks : /\ tasks'[i].plan = tasks[i].plan
                                   /\ tasks'[i].approved <=> tasks[i].approved
    <3>1. \A i \in DOMAIN tasks : tasks[i] \in Task
      BY <1>0, LenProperties
    <3> QED
      BY <2>1, <3>1 DEF Published, Task
  <2>3. Sources' = Sources /\ Cleared' = Cleared /\ Outs' = Outs /\ Agreed' = Agreed
    BY <2>1, <2>2 DEF Sources, Cleared, Outs, Agreed
  <2> QED
    BY <2>1, <2>3, Unseen
<1>3. CASE UNCHANGED <<approvals, tasks, touched, posts>>
  BY <1>3, Unseen DEF Sources, Cleared, Outs, Agreed
<1> QED
  BY <1>1, <1>2, <1>3 DEF PublishStep, ReadTask, PublishFails, SavePublishLog, RequestLost, store

LEMMA StepIsSeen ==
  ASSUME IInv, [ContentNext]_allVars
  PROVE  [Approval!Next]_(Approval!vars)
<1> USE DEF IInv
<1>1. ASSUME Adds, UNCHANGED <<touched, posts>> PROVE [Approval!Next]_(Approval!vars)
  <2>1. CASE UNCHANGED <<approvals, tasks>>
    BY <1>1, <2>1, Unseen DEF Sources, Cleared, Outs, Agreed
  <2> QED
    BY <1>1, <2>1, PlanIsProposed, TaskIsWritten DEF Adds
<1>2. CASE UNCHANGED allVars \/ AskForJob \/ RecoverJobs
  BY <1>1, <1>2 DEF allVars, AskForJob, RecoverJobs, store, publication, Adds
<1>3. ASSUME NEW j \in Jobs, NEW r \in Runners, JobStep(j, r) PROVE [Approval!Next]_(Approval!vars)
  <2>1. UNCHANGED <<touched, posts>>
    BY <1>3 DEF JobStep, Begin, Postpone, FailForGood, Caught, Succeed, SaveUnheard, Die, GiveUp,
                store, publication
  <2> QED
    BY <1>1, <1>3, <2>1, JobStepEdits
<1>4. ASSUME NEW j \in Jobs, AgentStep(j) PROVE [Approval!Next]_(Approval!vars)
  <2>1. UNCHANGED <<touched, posts>> \/ ApplyFix(j)
    BY <1>4 DEF AgentStep, TryAgain, Resume, Execute, MakePlan, SavePlan, ReadPlan, ProduceDraft,
                SaveFix, AgentDone, store, publication
  <2> QED
    BY <1>1, <1>4, <2>1, AgentStepEdits, FixIsTouched
<1>5. CASE \/ \E p \in DOMAIN approvals : ApproveContentPlan(p)
           \/ \E t \in DOMAIN tasks : ApproveExecutionTask(t)
  BY <1>5, ApprovalIsSeen DEF ApproveContentPlan, ApproveExecutionTask, Approves, publication
<1> QED
  BY <1>2, <1>3, <1>4, <1>5, PublishIsSeen DEF ContentNext

\* No plan is worked from, and no draft goes out, without its approval, and no approval
\* is lost: every step of the workflow is one that ContentApproval allows, or shows it
\* nothing.
THEOREM Refinement == ContentSpec => KeepsApproval
<1>1. ContentInit => Approval!Init
  <2> SUFFICES ASSUME ContentInit PROVE Approval!Init
    OBVIOUS
  <2>1. DOMAIN approvals = {} /\ DOMAIN tasks = {} /\ touched = {}
    BY DEF ContentInit
  <2>2. [t \in DOMAIN tasks |-> tasks[t].plan] = <<>>
    BY <2>1
  <2> QED
    BY <2>1, <2>2 DEF Approval!Init
<1>2. IInv /\ [ContentNext]_allVars => [Approval!Next]_(Approval!vars)
  BY StepIsSeen
<1> QED
  BY <1>1, <1>2, Inductive, PTL DEF ContentSpec, KeepsApproval, Approval!Spec

-----------------------------------------------------------------------------
(* What ContentApproval comes to.                                          *)

\* Whatever was written, approved, changed or published has the approvals before it.
Backed ==
  /\ Agreed \subseteq DOMAIN approvals /\ touched \subseteq Agreed
  /\ \A t \in DOMAIN Sources : Sources[t] \in Agreed
  /\ Cleared \subseteq DOMAIN Sources /\ Outs \subseteq Cleared

\* What there is stays: approvals, drafts with their plans, and what readers have seen.
Lasts ==
  /\ DOMAIN approvals \subseteq DOMAIN approvals' /\ Agreed \subseteq Agreed'
  /\ DOMAIN Sources \subseteq DOMAIN Sources' /\ \A t \in DOMAIN Sources : Sources'[t] = Sources[t]
  /\ Cleared \subseteq Cleared' /\ touched \subseteq touched' /\ Outs \subseteq Outs'

LEMMA ApprovalBacks ==
  ASSUME Backed, [Approval!Next]_(Approval!vars)
  PROVE  Backed' /\ Lasts
<1> DEFINE proposed == DOMAIN approvals
<1>1. \/ UNCHANGED <<proposed, Agreed, Sources, Cleared, touched, Outs>>
      \/ \E p : /\ proposed' = proposed \union {p}
                /\ UNCHANGED <<Agreed, Sources, Cleared, touched, Outs>>
      \/ \E p \in proposed : /\ Agreed' = Agreed \union {p}
                             /\ UNCHANGED <<proposed, Sources, Cleared, touched, Outs>>
      \/ \E p \in Agreed : /\ touched' = touched \union {p}
                           /\ UNCHANGED <<proposed, Agreed, Sources, Cleared, Outs>>
      \/ \E t \in DOMAIN Sources : /\ Cleared' = Cleared \union {t}
                                   /\ UNCHANGED <<proposed, Agreed, Sources, touched, Outs>>
      \/ \E t \in Cleared : /\ Outs' = Outs \union {t}
                            /\ UNCHANGED <<proposed, Agreed, Sources, Cleared, touched>>
      \/ \E t, p : /\ t \notin DOMAIN Sources /\ p \in Agreed
                   /\ Sources' = [x \in DOMAIN Sources \union {t} |-> IF x = t THEN p ELSE Sources[x]]
                   /\ UNCHANGED <<proposed, Agreed, Cleared, touched, Outs>>
  BY DEF Approval!Next, Approval!vars, Approval!Propose, Approval!Agree, Approval!Touch, Approval!Clear,
         Approval!PutOut, Approval!Write, Approval!Written, Agreed, Sources, Cleared, Outs
<1>2. /\ Agreed \subseteq proposed /\ touched \subseteq Agreed
      /\ \A t \in DOMAIN Sources : Sources[t] \in Agreed
      /\ Cleared \subseteq DOMAIN Sources /\ Outs \subseteq Cleared
  BY DEF Backed
<1> HIDE DEF proposed
<1>3. /\ Agreed' \subseteq proposed' /\ touched' \subseteq Agreed'
      /\ proposed \subseteq proposed' /\ Agreed \subseteq Agreed' /\ touched \subseteq touched'
  BY <1>1, <1>2
<1>4. /\ \A t \in DOMAIN Sources' : Sources'[t] \in Agreed'
      /\ DOMAIN Sources \subseteq DOMAIN Sources' /\ \A t \in DOMAIN Sources : Sources'[t] = Sources[t]
  BY <1>1, <1>2
<1>5. /\ Cleared' \subseteq DOMAIN Sources' /\ Outs' \subseteq Cleared'
      /\ Cleared \subseteq Cleared' /\ Outs \subseteq Outs'
  BY <1>1, <1>2
<1> QED
  BY <1>3, <1>4, <1>5 DEF Backed, Lasts, proposed

LEMMA AllIsBacked == ContentSpec => []Backed
<1>1. Approval!Init => Backed
  <2> SUFFICES ASSUME Approval!Init PROVE Backed
    OBVIOUS
  <2>1. Agreed = {} /\ touched = {} /\ Sources = <<>> /\ Cleared = {} /\ Outs = {}
    BY DEF Approval!Init, Agreed, Sources, Cleared, Outs
  <2>2. DOMAIN Sources = {}
    BY <2>1
  <2> QED
    BY <2>1, <2>2 DEF Backed
<1>2. Backed /\ [Approval!Next]_(Approval!vars) => Backed'
  BY ApprovalBacks
<1> QED
  BY <1>1, <1>2, Refinement, PTL DEF KeepsApproval, Approval!Spec

\* "There is no path from generated to published that skips human approval"
\* (publishing-agent.ts:103): a draft that readers have seen was approved, and so was
\* the plan it was written for; nothing was written or fixed without an approved plan.
NoPathSkipsApproval ==
  /\ \A t \in DOMAIN tasks :
       /\ tasks[t].plan \in DOMAIN approvals /\ approvals[tasks[t].plan]
       /\ posts[t] > 0 => tasks[t].approved
  /\ \A p \in touched : p \in DOMAIN approvals /\ approvals[p]

\* However jobs, approvals and requests interleave, are retried, die or get lost, nothing
\* is published, fixed or written before the approvals that it needs (publishing-agent.ts,
\* content-production-agent.ts).
THEOREM ApprovalComesFirst == ContentSpec => []NoPathSkipsApproval
<1>1. ASSUME Backed PROVE NoPathSkipsApproval
  <2>1. ASSUME NEW t \in DOMAIN tasks
        PROVE  /\ tasks[t].plan \in DOMAIN approvals /\ approvals[tasks[t].plan]
               /\ posts[t] > 0 => tasks[t].approved
    <3>1. t \in DOMAIN Sources /\ Sources[t] = tasks[t].plan
      BY <2>1 DEF Sources
    <3>2. Sources[t] \in Agreed
      BY <1>1, <3>1 DEF Backed
    <3>3. posts[t] > 0 => t \in Cleared
      BY <1>1, <2>1 DEF Backed, Outs
    <3> QED
      BY <3>1, <3>2, <3>3 DEF Agreed, Cleared
  <2>2. ASSUME NEW p \in touched
        PROVE  p \in DOMAIN approvals /\ approvals[p]
    BY <1>1, <2>2 DEF Backed, Agreed
  <2> QED
    BY <2>1, <2>2 DEF NoPathSkipsApproval
<1> QED
  BY <1>1, AllIsBacked, PTL

\* No approval is taken back, no draft disappears or changes the plan it was written for,
\* and what readers have seen stays seen, whatever agents, retries and requests do.
THEOREM ApprovalsLast == ContentSpec => [][Lasts]_allVars
<1>1. ASSUME IInv, Backed, [ContentNext]_allVars PROVE [Lasts]_allVars
  BY <1>1, StepIsSeen, ApprovalBacks
<1> QED
  BY <1>1, Inductive, AllIsBacked, PTL DEF ContentSpec

=============================================================================
