# TLA+ models of the AI visibility application

Models, model-checking runs and machine-checked proofs about the back end in
`src/apps/worker`, the browser client in `src/apps/web` and the platform tables in
`src/database`. The system is a serverless Express application over one PostgreSQL
database. Its instances share no memory: what can go wrong between two of them goes
wrong in the database, between two statements, so an action here is nearly always
one SQL statement together with the decision the code takes on its result; in the
client it is one request answered, or one timer.

`PROJECT.json` is the machine-readable companion: it maps every definition to
the lines it translates, and lists runs, mutants, hazards, the finding and the
theorems.

## 1. The system

| component | state | operations | interacts with |
|---|---|---|---|
| Job queue (`jobs/job-queue.ts`) | `platform.jobs`: status, attempts, run_at, locked_at | enqueueOnce, claimNext, markSucceeded, markFailed, deferRateLimited, requeueStuck | routes enqueue, runners claim and settle |
| Job runner, kick, cron (`jobs/job-runner.ts`, `job-kick.ts`, `pg_cron_job_runner.sql`) | an invocation's local variables | recover, claim, run the handler, settle, finish | kicked by routes, called every minute by pg_cron |
| Orchestrator and stage 1 pipeline (`orchestrator/*`, `agents/stage-1-audit-pipeline.ts`) | `platform.agent_runs` (checkpoints), the tenant's reports | look up a checkpoint, run an agent with retries, record, save the report, release | is the handler of a job; refuses steps for lack of time or tokens |
| Rate limiter and meter (`usage/*`) | `platform.rate_limit_buckets` | take, peek, fail open | every provider call; a refusal postpones the job |
| Tenant life cycle (`provisioning-flow.ts`, `tenant-provisioning.ts`, `workspace-deletion.ts`, `orphan-tenant-commands.ts`, `tenant-deprovisioning.ts`) | `platform.tenants`, workspaces and members, the tenant's schema, files and credentials | create, provision, activate, link, roll back, delete, clean up, purge | the purge cron, the operator, requests and jobs at work in a tenant |
| Billing (`stripe-webhook-handler.ts`, `billing-repository.ts`) | `platform.billing_accounts` | checkout, update and cancel events | Stripe; plan gates of the routes |
| Website limit (`api/server.ts`, POST /api/tenants) | the count of a user's live tenants | gate, create | billing and tenant life cycle |
| Authentication (`auth/*`) | users, sessions, workspaces, members | signup and its cleanup, login, logout, session check | provisions the first tenant |
| Google connection (`credential-vault-service.ts`, `google-*.ts`, `monitoring-agent.ts`) | a row of `platform.credential_vault`, each run's token bundle | consent, callback, disconnect, refresh, fall back | Google; monitoring runs |
| Content workflow (`content-plan`, `content-production`, `technical-fix`, `publishing` agents and their routes) | plans, execution tasks, publish logs | plan, approve, produce, fix, approve, publish | jobs; the site's CMS |
| Migration runner (`migration-runner.ts`, `migration-commands.ts`) | `schema_migrations` of each schema, an advisory lock | plan, baseline, lock, recheck, apply, record | provisioning, operator |
| Audit agents, provider clients, aggregation (`agents/*`, `openrouter-provider.ts`, `firecrawl-*.ts`, `serpapi-*.ts`) | results an agent saves | fetch, fall back, score, aggregate | meter, jobs |
| Citation repository, pool (`citation-visibility-audit-repository.ts`, `connection.ts`) | connections and their search path | save and read audits | the tenant's schema |
| Automatic scan, domain verification (`automatic-scan.ts`) | tenants.scan_status | scan once the domain was verified | client polls the status |
| Web application (`apps/web`) | a tab's shell and page, local storage shared by tabs | open, read, switch, run and wait, verify, sign out | every route |
| Storage adapters, tenant context, HTTP routing, usage recording, backfill commands | none, append-only or pure I/O | | |

What is hard, per component, and what makes it correct:

- **Jobs.** Invocations overlap and die anywhere; statements name a row by id
  alone; a reply may be lost after the commit. Nobody may work on a job that a
  live invocation holds, attempts must bound the work, a job must neither be
  forgotten nor run for ever.
- **Checkpoints.** Steps are paid for. The store may fail silently, postponements
  are unlimited. A step must not be paid again without cause, a report must be
  complete, a postponed job must make progress.
- **Rate limiter.** NOW() and the row lock are apart in time. No window may grant
  more than its share; a wait must be long enough.
- **Tenants.** Creation, deletion, cleanup and purge share no transaction. What
  is marked purged must be purged, although requests that began earlier still
  write; a live workspace must be whole; data must stay for its retention.
- **Billing and limit.** Events come late, twice and out of order; the row must end
  where Stripe is. The gate checks, then provisions for seconds, then counts.
- **Accounts.** Signup is a dozen statements without a transaction, with a cleanup
  that may fail as well; login deletes sessions and then makes one.
- **Content.** Jobs are retried while plans pile up and approvals come; publishing is
  a request whose answer may be lost. Nothing may skip an approval.
- **Google.** Calls that share a bundle refresh and store it whole, while the user
  connects and disconnects.
- **Migrations.** Two runners over the same schemas, legacy schemas without a record,
  statements that fail and tenants that go away.
- **Audits.** Nested retries and fallbacks in which a refusal of the limiter must not
  be taken for a failure; thresholds that exist twice; a site that changes meanwhile.
- **Client.** Shell and page look up the workspace for themselves, other tabs change
  it, loads of one page overlap, fail and overtake each other, a page gives up on a job
  that goes on.

## 2. Modules

| module | what it is |
|---|---|
| `JobLifecycle` | abstract: what a job may go through, whoever does it |
| `JobQueue` | the statements of `job-queue.ts` on the rows of `platform.jobs`, and their clocks |
| `JobRunner` | requests, pg_cron and invocations of `runJobs` over `JobQueue`; implements `JobLifecycle` |
| `CheckpointedJobs` | `JobRunner` with the handler opened up: steps, checkpoints, retries, report |
| `RateLimiter` | one bucket and the metered calls on it |
| `TenantLifecycle` | a tenant's row, link, schema, files and credential, and the processes on them |
| `Billing` | Stripe, its events and one billing row |
| `WebsiteLimit` | `Billing` with the gate of POST /api/tenants, which reads the plan the events keep |
| `Accounts` | users, sessions and what a signup makes beside them |
| `ContentApproval` | abstract: what may be written, approved and published, and in which order |
| `ContentWorkflow` | plan, production and fix jobs (over `JobLifecycle`), approvals and publishing; implements `ContentApproval` |
| `GoogleConnection` | consent flows, the credential's row, monitoring runs that refresh it |
| `MigrationRunner` | runners over several schemas, with their records, lock and transactions |
| `SiteScores` | operators: what a page costs in each audit, benchmark, citation and overall score |
| `SiteAudit` | the five agents at work on a site, with providers that fail and limits that refuse |
| `WebClient` | one tab, what other tabs do to it, and the worker as far as it answers |
| `CitationStore` | the repository's three statements on connections of a pool |
| `CheckpointedJobsProofs` (of `JobRunner` too), `SiteAuditProofs` (of `RateLimiter` too), `TenantLifecycleProofs`, `WebsiteLimitProofs`, `GoogleConnectionProofs`, `ContentWorkflowProofs`, `MigrationRunnerProofs`, `WebClientProofs` (of `Accounts` too) | theorems |
| `MC*` | the instances TLC checks |

How state and actions correspond to the code:

- **JobQueue / JobRunner.** `status`, `attempts`, `jobKey` are columns; `dueIn`
  and the ages stand for `run_at`, `locked_at` and `created_at` relative to NOW().
  `Enqueue`, `ClaimNext`, `MarkSucceeded`, `MarkFailed`, `DeferRateLimited` and
  `RequeueStuck` are the statements of those names. `pc` is where an invocation
  is in `runJobs`: recovering, at the top of its loop, in the handler, after it
  returned ("won"), in the catch block ("caught") or in `onJobFinished` ("clear").
  `tries` is `job.attempts` as the claim returned it, kept in memory while the
  row may change. `SucceedFails` is `markSucceeded` throwing inside the `try`,
  with or without having committed. `Kill` is death anywhere. enqueueOnce is two
  actions, `FindActive` and `Insert`, because it is two statements.
- **CheckpointedJobs.** `op` walks through `Orchestrator.run`, one walk for each
  invocation: look for the checkpoint, admit the step (rate limit already hit, time
  left), call the agent with its attempts, record; then save the report. `StoreFails` lets each
  statement on `platform.agent_runs` fail unnoticed, as `safely()` does. Errors
  are only fatal, retryable or out of time. The single-step handlers of stages 2
  to 4 are the same handler with one step, whose result row takes the place of
  the report.
- **RateLimiter.** Tokens are counted in grains so that refills by fractions stay
  integral. `stamp` is the NOW() of a statement, its effect comes later by at
  most `MaxLag`. `alone`, `since` and `granted` are history.
- **TenantLifecycle.** Each tenant has one creator (the request), one visit (any
  request, callback or job past its access check), one deletion and one cleanup
  at a time; each is at a place between two statements and may die there. A step
  that throws may have had its effect. The purge (`Crons`) keeps the list it
  selected and the tenant it tears down. `retain` is the time left until
  `deprovision_at`.
- **Billing.** `stripe` is Stripe's own truth, `sent` the unanswered events,
  `account` the row; `website_limit` is a function of the tier, with which it is
  always written. A checkout is two actions because its subscription is fetched
  first. An event may be delivered in any order and again after a lost answer. The
  CHECK of the column `status` refuses some of Stripe's statuses ("unpaid" stands
  for them): the handler throws, the answer is 500 and the event stays. Stripe
  giving up on an event is left out, and so are events whose price matches no plan,
  which the handlers skip. `smooth` is history, and so is `latest`, the subscription
  whose checkout was handled last.
- **WebsiteLimit.** Extends `Billing`, as `CheckpointedJobs` extends `JobRunner`:
  its steps are those of `Billing`, which change the plan, and the requests'. The
  plan and the count are two statements in a `Promise.all`, so they are read in
  either order with anything between. `rivals` and `allowed` are history.
- **Accounts.** A signup looks for its address and for a free slug, provisions the
  tenant, and makes user, workspace, member and session one by one; whatever throws
  leads to its cleanup, which deletes the user by id. If that DELETE throws as well
  (`CleanupFails`), the answer is an error all the same and the user stays: the place
  "left", apart from "failed" and from "dead". `Creations` are POST /api/tenants, which
  runs the same loops over the same slugs for a user who is there; `Makers` are both.
  The slug a maker looked up may be taken when it inserts. Login and the session check
  read first and act later. Unique constraints refuse, as in the schema.
- **ContentWorkflow.** Jobs are known by what `JobLifecycle` promises of them: they
  start, end, are retried and die. A plan job saves a plan per attempt that gets so
  far. A produce or fix job reads the latest plan when its agent starts and again at
  each retry, saves one task after the other, and is checkpointed as a whole. A
  publishing request reads its task, calls the CMS, saves the log and marks the task
  by four separate steps. `ContentApproval` is obtained by forgetting all of this but
  what was proposed, agreed, written, cleared and sent out.
- **GoogleConnection.** A flow is somewhere between consent and storing its tokens;
  its state expires. A run reads the row at its first call, and its three calls share
  the `bundle`, which each refreshes and stores as a whole. `wish` is what the user
  last asked for and whether a run was at work then ("calm").
- **MigrationRunner.** The files are 1..`Last`; what a file makes is absent, partly
  there or whole, since a legacy schema may have half of one. A runner takes its list of tenants, reads what
  is recorded, plans, takes the lock of a schema, rechecks and runs a file in a
  transaction together with its record. Failures mark the schema's outcome and the
  run goes on with the next. The platform's migrations are the case of one schema.
- **SiteScores / SiteAudit.** A page is a record of what a finding could be about
  (13 merits, title, description, headings, words, links, whether its content needs
  scripts); both analyzers map it to the same shape, the findings are sets of topics
  with the prices of the code, and each agent's score is computed from them.
  `SiteAudit` steps through what each agent fetches in which order: Firecrawl or the
  regular expressions, the benchmark's own site and competitors, the models of
  OpenRouter in turn with their attempts, SerpApi beside them. A page has no internal
  links, a few or many; they are checked whenever there is one. `broken` is what the
  site does to them, `lost` that one did not answer in time, which the checker counts
  alike. A refusal of the limiter (`limited`) must end the step.
- **WebClient.** `shell` is AppShell with its banner, `tab` the page. A page has a set
  of loads side by side: its first, one of a Refresh, one after a run, one after another
  request of the user's. Each looks up the workspace ("list"), waits for that request
  ("acting") or reads its pieces ("reading"), and ends by replacing what is shown, in
  whichever order they end; a load that fails leaves what was shown. Which loads may
  begin beside which follows from the buttons that `loading` and the run switch off:
  agents lets none, queries and monitoring do. `tenant` is the workspace the page names,
  set as soon as it is looked up; what it shows is, for each piece, the workspace and
  the number of the run it was read from. `behind` is history: the last load to end
  failed, or an earlier one ended after it. `selected` and `signedIn` are local storage,
  which other tabs write. `jobs`, `runs`, `reports` and `scan` are the worker's. A poll
  that fails `Patience` times in a row gives up; an enqueue that finds the job active
  joins it.
- **CitationStore.** A connection keeps the search path that was last set on it; a
  free one is picked for each statement, a new one is opened up to `MaxConnections`.

Definitions introduced as "Wrong on purpose" are plausible bugs. Nothing uses
them; each is substituted for the definition after it to show that a property
notices.

## 3. Runs

| run | instance | shows |
|---|---|---|
| `checkpointed` | 1 job of 2 steps, each tried twice, 2 invocations, 1 request, lost replies, a store that may fail | exclusive ownership, writes hit the own claim, attempts bound the queue; recoveries and final statuses have the right cause; no recorded step is paid again, not even by one who looked before; successes cost attempts; a success has its report; `JobLifecycle` is implemented |
| `job_progress` | the same handler, one invocation after the other, replies not lost, one wait, fair | while the store works every queued job ends |
| `rate_limiter` | 2 calls, lag 1, failures | no window of any length is exceeded by more than the lag is worth; waits suffice |
| `tenant_lifecycle` | 1 tenant, 2 purges, all failures, fair | complete tear-down, whole workspaces, retention of schema, files and credentials, final deletion; a deleted workspace is purged in the end |
| `billing` | 2 subscriptions, 3 events in any order, 2 creations | after events in order the settled row agrees with Stripe; in any order the subscription whose checkout was handled last keeps row and plan while it is paid for; only overlapping creations exceed the limit, by one for each overlap |
| `accounts` | 2 signups, 1 POST /api/tenants, 1 login, 1 request, 2 addresses, 1 failing statement | a refused signup leaves nobody unless its cleanup failed too, a finished one is whole, a slug is lost only to whoever was at work at the same time; sessions of one user overlapped; no late admission |
| `content_workflow` | a job of each type, 2 publishing requests, 2 plans, 2 tasks | nothing skips an approval (`ContentApproval` is implemented); only mishaps publish twice; what says published is; a success covers a whole approved plan |
| `google_connection` | 2 flows, 2 runs of 2 calls, 2 disconnections | the latest wish holds unless a refresh was under way; tokens of two grants are never mixed; nor are figures of Google and the mock |
| `migrations` | 2 runners, 2 schemas (one legacy), 3 files, 1 mishap | what is recorded was made; no file twice or out of order; reported outcomes are true |
| `site_audit` | single changes of 4 pages, 2 queries, 2 models, 3 attempts, 1 setback | improvements do not cost points in the technical audit while every link answers, nor in the content audit; these two agree; the overall score is fair; nothing is made of a refused call |
| `web_client` | 2 workspaces, 6 pages, 1 run, 1 scan, 2 user actions here and elsewhere, fair | a page whose loads have ended shows one workspace and one run, and a run it calls completed, unless the last load failed or was overtaken; every wait ends |
| `citation_store` | 2 tenants, 2 calls, 3 connections | **violated**: a row is written or read in another tenant's schema |

Bounds, and why they are enough:

- *Jobs and invocations.* A conflict over a row needs two invocations and one
  row, and two in the handler of one job are what checkpoints must survive. `MaxAttempts`
  = 2 has a retry and an exhausted job. `FunctionTimeout` = 2 and `StuckAfter` = 3
  keep the code's order (300 s < 900 s); `Budget`, `StepCutoff`, `MaxDeferAge` and
  the two waits lie below, at and above each other. Ages stop at the largest value
  any guard compares them with. The theorems hold for all of these.
- *Steps.* Two steps are an ordinary one and the aggregator, whose input depends
  on the others; two attempts are a retry. For progress (`job_progress`) one invocation
  at a time is the hard case, since there is no other to take over before the job is
  stuck, and one wait (`RetryAfters` and `MaxDeferAge` of 1) reaches every deferral.
- *Rate limiter.* `Rate` does not divide `Cost`, so rounding matters. `Horizon`
  bounds the clock; the bucket is full again well before it. The clock then stops,
  hence `CHECK_DEADLOCK FALSE`.
- *Tenants.* Tenants do not share anything the model keeps except the purge's
  loop; `Lifetime` = 1 < `Retention` = 2 is the smallest instance in which a
  process outlasts a deletion but not the retention. The one tenant is a test
  account, so that the cleanup may also approve it when it has an owner.
- *Billing.* Three events are two purchases and an end, or a purchase, a change and
  an end. Of Stripe's statuses the run has "active" and "unpaid", which the row
  refuses; "past_due" is written by the same statements as "active". Two creations,
  again and again, overlap in every way two can. The code's 5 websites of the plan
  scale are 2 here, above the 1 of the others.
- *Accounts.* Two signups of one address or two, a creation and a login are every
  kind of request that can meet, all wanting the same name; `Overlap` = 2 of them are at
  work at a time, in any order. `Mishaps` = 1 statement fails, the cleanup's included,
  beside any number of refusals and deaths. The theorems hold for any number of each.
  Users are not removed in the end, hence `CHECK_DEADLOCK FALSE`, as in the runs below.
- *Content.* Two plans are one approved and one that shadows it; two tasks of a plan
  are a job that got through half of it. `MaxReads` = 2 publications reach both
  overlaps and repetitions.
- *Google.* Two flows are a connection that replaces another, two runs of two calls
  are refreshes of one run and of two. The code's third call is like the others.
- *Migrations.* Three files have an order and room for a gap: a legacy schema that has
  the first, lacks the second and is to get the third. One mishap at any point, with the other
  runner at work, is every partial failure of one cause.
- *Audits.* Every pair of neighbouring pages around a best, a worst, a scripted and a
  plain one: each threshold is crossed from each side with everything else good, bad
  or mixed. Two models of three attempts are a retry that is exhausted and a fallback.
- *Client.* Pages that read and refresh alike stand for each other: `visibility` for
  reports, `monitoring` for agents and execution, `home` for plan; queries, which looks
  its workspace up only once, is opened itself. `MaxActions` bounds what the user does
  here and elsewhere, so the liveness is about a user who stops now and then; it also
  ends the runs, hence `CHECK_DEADLOCK FALSE`. Two actions are a run and a Refresh beside
  it, or a Refresh and a choice in another tab. The theorems hold for all pages and any
  number of actions.

Fairness, and why the code justifies it:

- `CheckpointedJobs`: time passes, the platform ends an invocation at its timeout,
  pg_cron calls every minute while something is due or stuck
  (`pg_cron_job_runner.sql`). Requests and kicks owe nothing. `Recover` is strongly
  fair: an invocation may die before its first statement, but not every one does.
  Statements take milliseconds and the unit of its clock is
  minutes, so again and again an invocation gets from its start through the
  checkpoints to a new step within the first unit, and an agent's call ends
  before its invocation does. Without this the platform could kill every
  invocation just before its first step, which no program survives.
- `TenantLifecycle`: the purge runs daily, processes end, and no step of a
  tear-down fails for ever. With a tenant whose tear-down always throws, the
  loop of `runDueDeprovisioning` ends there every day and later tenants may
  starve; nothing in the repository claims otherwise.
- `WebClient`: a request is answered or fails, a timer goes off, and a list that is
  asked for again and again is received once (the shell asks whenever a page opens
  or the banner polls). A scan that does not die goes on; one that dies is excused by
  `lost`, since the scan is not awaited and nothing takes it up again.

## 4. The finding, and what else was met

One run ends in a violation. `citation-visibility-audit-repository.ts` sets the
search path, relies on it and sets it back with three calls of `pool.query`, each on
whichever connection is free. Two calls for two tenants at once read or write each
other's schema, where `src/README.md:46-50` promises isolation; the agents' own
queries avoid it with a transaction on one connection. (Another outcome, which the
model reaches as well, is that the statement finds the path `public` and fails.)

What follows is allowed for in what the passing runs state, or is outside the
models; nobody has to agree that each is a defect.

Jobs and limits:

- enqueueOnce looks and inserts in two statements; a double click can queue the same
  audit twice. A lost reply of `markSucceeded` requeues or fails a succeeded job;
  `OnlyTheWinnerUndoesSuccess` says that nothing else does. When `requeueStuck`
  gives a job up, nobody releases its checkpoints.
- A statement that waited for a bucket's row writes its older NOW() over a newer
  `updated_at`, and the time between is refilled twice. `NoWindowIsExceeded` allows
  for it (`granted * MaxLag`); without that term the instance violates it.
- A single-step handler that is deferred by a rate limit starts again from the first
  item and without using up an attempt; and an agent's failure in it is
  NonRetryable, so the job's own attempts are left for deaths.

Tenants and billing:

- The orphan cleanup reads, checks and updates apart: a workspace linked to its owner
  in between is scheduled for deletion (`orphan-tenant-commands.ts:14`).
- A late or repeated Stripe event gives a canceled account its tier back, and a second
  subscription displaces the first. Worse, a late `checkout.session.completed` of a
  subscription that has ended takes the row over from the one that is paid for, and the
  `deleted` event after it leaves the paying user on the free tier.
  `SettledAgrees` speaks of `smooth` behaviours, and `PaidPlanStays` of the subscription
  whose checkout was handled last: updates and ends do it no harm, another checkout may.
- Creations that overlap exceed the limit; `OnlyOverlapExceeds` says by how much.
- The migration command reads each tenant's status once, at its start, and
  `CREATE SCHEMA IF NOT EXISTS` can make the schema of a purged tenant again;
  `Kept` leaves such schemas out.

Accounts and Google:

- A failed signup leaves its tenant and workspace behind, for the operator; one that
  dies leaves a user who can log in and has nothing. So does one whose cleanup DELETE
  fails too (`auth-service.ts:462-470`): it is answered with an error, and the address
  is taken. `SignupIsAllOrNothing` excepts both. `cleanExpiredSessions` has no
  caller, nothing sets `users.status`, `auth-repository.ts` is an unused copy, and
  the signup page stores its session under keys nobody reads.
- A refresh stores the whole bundle and can revive a connection that was just
  disconnected, or overwrite a newer one; `LatestWishHolds` says that it takes a run
  that was at work at that moment.
- A monitoring run compares its figures with the previous snapshot's even when that
  one came from the mock; "changes published since the last check" counts all ever
  published.

Content and audits:

- A retried plan job saves a second pending plan, and the latest plan is the one that
  counts: an approved plan may be shadowed by its own retry.
- A reader of `openrouter-provider.ts:269-275` expects a 401 or 403 to end the loop;
  the loop goes on with the next model (397-412). No model but the last is affected
  in what it returns.
- An own site that the benchmark cannot reach counts as 0. A scripted page scores
  differently under Firecrawl and under the regular expressions, so a site that did
  not change may change its score. A link that merely times out counts as broken
  (`broken-link-checker.ts:121-134`). The content audit charges 3 points for a third H2
  without an H3, which is why `ImprovementsDoNotCost` excepts recounted headings.
- Report generation reads the latest audit and then the one before it (OFFSET 1) by
  two statements: an audit saved in between is compared with itself, where
  `audit-report-repository.ts:413` speaks of "the audit before this one".

Client:

- After a verification on Overview the page reloads its own tenant but not the
  shell's, so the banner does not start before the next navigation, other than the
  comments in `ScanProgressBanner` and `AppShell` suggest. AppShell calls itself the
  single source of truth while each page loads the tenant for itself, and keeps
  showing the previous workspace when its own load fails (`PageIsCoherent` excepts
  both).
- A page sets the workspace it names before it reads (`ai-visibility/page.tsx:106`), so
  after a choice in another tab a Refresh that fails leaves the new name over the old
  workspace's data, next to the error. Execution and monitoring go further: after a run
  or another request they read for the workspace they were on, and a Refresh at work
  meanwhile may have set another name. `PageIsCoherent` excepts both, as far as another
  tab chose a workspace.
- Nothing keeps the answer to an earlier load from replacing a newer one: on queries a
  Refresh beside a run (`queries/page.tsx:353-363`), on monitoring the reload after
  disconnecting Google beside the one after a run (`monitoring/page.tsx:541-578`). The
  page then says "completed" and shows what was there before. Both properties except it (`behind`).
- "Add query" sends a list of one query, which replaces the tracked ones.
- A scan that dies leaves "auditing" or "planning" in the row for ever, and the banner
  polls for ever (`lost`).

## 5. Proofs

TLAPS proves, for every value of the constants that satisfies the stated
assumptions:

**CheckpointedJobsProofs**, on queue and runners. The inductive invariant `IInv` strengthens the safety
properties with: an invocation holds a job exactly between claim and release; the
row of a working invocation was locked during that invocation's life
(`LockedWithinLife`), which with `FunctionTimeout <= StuckAfter` is why
`requeueStuck` never takes a job from a living invocation; an exhausted job never
waits. From it: `TypeOK`, `ExclusiveOwner`, `WritesOwnClaim`,
`QueuedHasAttemptLeft`, the action properties `RequeuedByOwnerOrStuck` (a row goes back
by its live owner's hand, or from under a dead one with its lock at least `StuckAfter`
old), `OnlyTheWinnerUndoesSuccess`, `OldJobsAreNotDeferred`, the refinement
`KeepsLifecycle` (each step of the queue and its runners, lost replies and deaths
included, is a step of `JobLifecycle` or a stutter) and, when no reply is lost,
`FinalIsFinal`.

**CheckpointedJobsProofs**, on the steps of a job. Every step of the opened handler is a step of `JobRunner` or
leaves its variables alone, so `IInv` and `KeepsLifecycle` carry over. On top of that
`StepsInv`: somebody is in the handler exactly at `pc = "run"`; the report is there
before anybody can say that the job succeeded; and while the store works, checkpoints
are recorded in order, a step about to run is not recorded and those before it are, and
a success that was not recorded has cost an attempt that was not handed back
(`WinsOf`). Jobs nobody can claim again (`Over`) are excepted: nothing is paid for
them any more. That a step about to run is still not recorded, although others may
write after the look, comes from ownership: whoever else could record it is dead. From
it: `RecordedStepsAreNotPaidAgain`, `SuccessesCostAttempts`, `SuccessHasReport`.

**SiteAuditProofs**, on the limiter. `WaitIsLongEnough` for any lag and any failures: the wait
computed by `Peek` refills at least a token (a fact about rounding up), and
the level only grows until somebody takes. `NoWindowIsExceeded` likewise: the
invariant (`Budget`) is that what the window took and what the bucket still holds
never exceed a full bucket, the refill of the window, and the worth of the lag for
each token taken; a late statement sees no more than the present level and leaves
at most `MaxLag * Rate` more than its cost accounts for.

**TenantLifecycleProofs.** The invariant says how far each process can be from the
statement that made it possible: whoever is still at work in a deleted tenant is
older than the deletion, so with `Lifetime < Retention` nobody is left when the
tenant becomes due; a rollback has never been linked; a purge under way only
holds due tenants, and what its earlier steps removed stays removed. From it:
`TypeOK`, `TornDownCompletely`, `LiveWorkspaceIsWhole`, `RecoverableUntilDue` (of schema,
files and credentials alike), `DeletedStaysDeleted`. `Lifetime < Retention` is an assumption on the deployment:
a function lives for minutes and TENANT_RETENTION_DAYS is 30 unless it is set
to something smaller.

**GoogleConnectionProofs.** For any number of flows, runs and calls. The invariant adds
to the three properties: the bundle of every run is of one grant, as the row is
(`OneGrant`), since a refresh replaces the access token of the bundle it was made
from; after a calm wish every call that may still store holds what that wish left
(`WishHolds`); a run that is about to save has all its answers from one adapter
(`OneSource`). From it: `LatestWishHolds`, `BundleIsOfOneGrant`,
`SnapshotIsOfOneSource`.

**ContentWorkflowProofs.** For any number of plans, tasks, jobs and publishing requests.
`Handling` says what a production or fix job may rely on: the plan it works from was
approved, everything before its item is dealt with, and one that has finished, left its
checkpoint or is reported as succeeded has dealt with all (`Whole`). `Asked` says the
same of a publishing request: it works on an approved draft and posts before it logs
before it marks; `Undisturbed` and `Alone` say that without a mishap there is one
request per draft, and that what was published is about to be marked. From it: the
four properties of the run, and the refinement: AddsPlan is Propose, AddsTask is Write,
ApplyFix is Touch, approvals are Agree and Clear, Publish is PutOut, the rest stutters.
The refinement pays off: the few steps of `ContentApproval` keep everything written,
approved or published backed by the approvals before it (`Backed`) and take nothing back
(`Lasts`), so neither does the workflow: `ApprovalComesFirst`, `ApprovalsLast`.

**MigrationRunnerProofs.** For any number of runners, schemas and files. Of a schema that
is kept, nothing is recorded or all that is there is (`Agrees`): a legacy schema is
adopted as a whole or not yet. What a runner in a transaction knows is still so
(`PlanOf`: what it read as recorded is recorded, what it took for the baseline is whole
while nothing is recorded, and at a file everything listed before it is recorded),
because the schema's lock is held exactly through the transaction (`LockOf`). A step
only adds to a kept schema (`Grown`). From it: `RecordedIsMade`,
`FilesRunOnceInOrder`, `OutcomesAreTrue`.

**WebsiteLimitProofs.** For any number of subscriptions, events and creations. While
events come in order (`smooth`), between the events of two subscriptions lies the
completed checkout of the later (`Grouped`), so an update or an end finds the row of its
own subscription (`Expected`), and the last event in the queue carries what Stripe says
now (`RowFollows`); when the queue is empty, that is `SettledAgrees`. In any order, an
event that cancels is of a subscription that has ended (`EventsAreOfThePast`), and the
row is of the subscription whose checkout was handled last, with a plan while that one
is paid for (`RowIsHeld`): hence `PaidPlanStays`. For the gate, `OverlapBound`: for every number `n` that allows as
much as a request and its rivals read, the websites and the requests that counted fewer
than `n` together never exceed `n - 1` and one for each of them. It is stated for every
`n` because a rival may count more than this request is allowed, or read a larger limit
later. From it `OnlyOverlapExceeds`.

**WebClientProofs**, on accounts. For any number of signups, creations, logins and
requests, at work at the same time. `RowsByPlace` says which rows a signup or creation
has made by where it is; one that was refused is at "failed" only after its cleanup went
through. A cleanup removes the rows of its own user only, those of a creation for that
user included (`RowsAreOwned`), and no other signup is past its INSERT with the same user.
A loop that looks for a slug has found all before it taken (`SlugsTried`), so it never
runs out: fewer slugs are taken than there are makers (`SlugsSuffice`, by counting).
A slug it found free is lost only to a maker that overlapped (`SlugsFree`, `SlugsLost`). For the
sessions: whoever is at work for one user is recorded as having overlapped
(`AtWorkTogether`), so what is there after a login's DELETE overlapped it
(`ClearedSessions`), and a session that was ended never comes back (`EndedIsGone`). From
it: `SignupIsAllOrNothing`, `SessionsOfOneUserOverlapped`, `NoAdmissionTooLate`.

**WebClientProofs**, on the browser. For any number of workspaces, runs, jobs and scans,
and whatever the user does here and in other tabs. The two properties say what is on a
page whose loads have ended; the invariant `ClientInv` says where that comes from. A job
gives no more than its workspace has (`JobsFit`); a page waits for a job of the kind it
shows and calls completed only one that succeeded, whose result no longer changes
(`TabFits`). Every answer a load has is of the workspace it reads for, and is the latest
there is unless a run left results meanwhile (`LoadsFit`, `AnswersFit`, `Current`). Unless
another tab chose one, the shell, the page, its loads and its run are all on the workspace
that is active now (`ShellFits`, `NamesFit`); agents does one thing at a time, and queries
stays on the workspace it looked up first (`AgentsFit`, `QueriesFit`).

Loads side by side need one idea more. `Since(tab, W, S)`: from some load on, everything
that is read is of a workspace in W and among the answers S, and what is shown is among S
once a load of those has ended, unless one failed or was overtaken. It holds with the load
that begins now when nothing older is newer (`SinceNow`), and is kept when loads begin, go
on, fail or end in any order (`SinceEver`, `SinceGoesOn`, `SinceLands`); when none is left
under way it says what is shown (`SinceShows`). With the answers of the workspace the page
names it gives `PageIsCoherent`, with those no older than what the completed job gave
`CompletedRunIsShown` (`LatestFit`). What the worker does is one lemma (`WorkerGoesOn`: it
moves neither tab nor shell, and new results are recorded as a disturbance), and every
step of tab and shell has its own. Assumed is only that the bounds are natural numbers, that a tab
has some patience, and that the user goes to pages there are.

**SiteAuditProofs**, on the scores. Each agent's score is a sum of prices over findings;
adding a merit, a word, a heading or a link removes findings and adds none, but for the
exceptions the property names, so the penalty does not grow (`TechnicalPenalty`,
`ContentPenalty`): `ImprovementsDoNotCost`, for every two pages of which one is only
better. The topics of both agents' findings are computed once from the page
(`CommonTopicsAgree`): `AgentsAgree`. The mean of the audited categories lies between
their least and greatest (`OverallBetween`, `PrioritiesAreWeakest`): `OverallIsFair`. That
no result is saved of a step in which a call was refused (`RateLimitsAreNotBakedIn`) is an
invariant over the places of a step.

Two modules of proofs serve two components each, which have nothing in common in the
proofs but the file: a call of the audit passes the limiter, and the browser is signed in
to an account.

Only model-checked: all liveness (`EveryJobEnds`, `PurgeHappens`, `EveryWaitEnds`),
since proofs about fairness need ENABLED, which the prover does not handle. Every safety
and action property of the passing runs is a theorem. Not a theorem either is the one
property that fails, `AuditsStayInTheirSchema` of `CitationStore`.

## 6. Not modelled, and why

Reading requests, CORS, wording, logging, cryptography, HTTP to the providers and
parsing of their answers are left out: no property depends on them. The tenant context
is stateless: it refuses tenants that are not active, which is part of the actions
that enter a tenant. Storage is a flag per tenant. Usage recording is append-only, and
its errors are swallowed. The manifest backfill is an operator's command over a
statement that `TenantLifecycle` has. How brands, competitors and citations are found
in an answer, what a report compares and how it words it, are heuristics without state
between calls. Of the web application, what pages render, forms and the checkout's
redirects are left out. Reports are at-least-once: a death between saving a report and
marking its job gives a second one, and nothing promises otherwise.

## 7. What could come next

1. The comparisons of reports and monitoring with earlier audits and snapshots, as a
   module over the rows they read.
2. `AuditsStayInTheirSchema` with operations in a transaction of their own, as a
   statement of what would be enough.
