----------------------------- MODULE WebClient -----------------------------
(***************************************************************************)
(* The browser: one tab of the web application, with its shell (AppShell,  *)
(* AuthGuard), whichever page it is on, the jobs it waits for (lib/jobs)   *)
(* and what it shares with other tabs through local storage (lib/tenant,   *)
(* lib/auth); and the worker as far as it answers: the list of workspaces, *)
(* the results that runs leave in them, the jobs, and the automatic scan   *)
(* of a workspace whose domain was verified (automatic-scan.ts).           *)
(* What a page shows is abstracted to where it came from: the workspace,   *)
(* and the number of its latest run when it was read.  That the worker     *)
(* reads the schema it is asked for is CitationStore's question.           *)
(***************************************************************************)
EXTENDS Integers, Sequences, FiniteSets, FiniteSetsExt

CONSTANTS
  MaxWorkspaces, \* bound on workspaces, which are numbered as they are made
  OpenPages,     \* the pages the user goes to
  MaxJobs,       \* bound on the jobs this tab starts
  MaxScans,      \* bound on automatic scans
  MaxActions,    \* bound on what the user does, here and elsewhere
  Patience       \* failed polls in a row until a tab gives up, 5 in the code

ASSUME WebClientAssumption ==
  /\ MaxWorkspaces \in Nat \ {0}
  /\ {MaxJobs, MaxScans, MaxActions} \subseteq Nat
  /\ Patience \in Nat \ {0}

VARIABLES
  live,      \* the workspaces in the user's list
  created,   \* how many there have been
  runs,      \* audits, plans or tasks that runs have left in a workspace
  reports,   \* and its reports, which the page monitoring shows
  scan,      \* platform.tenants.scan_status
  scanners,  \* the automatic scans: [of, at]
  jobs,      \* the jobs of this tab: [of, kind, at, gives]
  selected,  \* local storage: the selected workspace, or None
  signedIn,  \* local storage: there is a session
  page,      \* the page the tab is on
  tab,       \* the state of that page, and the loads of it under way
  shell,     \* what AppShell has loaded: [of, scan, at]
  moved,     \* history: another tab chose a workspace since the page was opened
  disturbed, \* history: a run left results while the page was reading
  lost,      \* history: a scan died, or its last status was not written
  actions    \* what the user did so far

worker == <<live, created, runs, reports, scan, scanners, jobs>>
storage == <<selected, signedIn>>
witnesses == <<moved, disturbed, lost>>
program == <<worker, storage, page, tab, shell, witnesses>>
clientVars == <<program, actions>>

Workspaces == 1..MaxWorkspaces
None == 0
NoRun == -1

InProgress == {"auditing", "planning"}
ScanStatuses == InProgress \union {"not_started", "ready", "failed"}

-----------------------------------------------------------------------------
(* The pages: what each reads when it is opened, and how those with a run   *)
(* refresh after it: for the workspace they are on ("own"), also if that    *)
(* fails ("quiet"), or for whichever is active by then ("again").           *)

HomeReads == {"metrics"}
AgentsReads == {"metrics"}
AiVisibilityReads == {"metrics", "queries", "results"}
QueriesReads == {"queries", "results"}
ReportsReads == {"metrics", "queries", "results"}
ContentPlanReads == {"plan"}
ExecutionReads == {"tasks"}
MonitoringReads == {"snapshot", "report", "google"}
SettingsReads == {"billing"}

Reads == [home |-> HomeReads, agents |-> AgentsReads, visibility |-> AiVisibilityReads,
          queries |-> QueriesReads, reports |-> ReportsReads, plan |-> ContentPlanReads,
          execution |-> ExecutionReads, monitoring |-> MonitoringReads,
          settings |-> SettingsReads]

AgentsRefresh == "quiet"
AiVisibilityRefresh == "again"
QueriesRefresh == "own"
ExecutionRefresh == "own"
MonitoringRefresh == "own"

Refresh == [agents |-> AgentsRefresh, visibility |-> AiVisibilityRefresh,
            queries |-> QueriesRefresh, execution |-> ExecutionRefresh,
            monitoring |-> MonitoringRefresh]

\* The routes of the application; signing in and up are Accounts' matter.
ASSUME PagesAssumption == OpenPages \subseteq DOMAIN Reads \union {"onboarding"}

\* After the first time, all but queries look the active workspace up anew.
LookUpOnce == {"queries"}

\* After a run or another request of the user's these read for the workspace it was of,
\* whatever they name by then, so that a choice in another tab may leave them with one
\* workspace under the name of another.
ReadForTheOneTheyWereOn == {"execution", "monitoring"}

\* Their button Refresh is off during a run.
LockedByRuns == {"agents", "execution", "monitoring"}

\* All derived from the latest row of citation_audits, each by a request of its own.
CitationViews == {"metrics", "queries", "results"}

-----------------------------------------------------------------------------
\* A load of what a page shows: the `no'-th to begin, or to begin reading.
Load(no, kind, at, w) ==
  [no |-> no, kind |-> kind, at |-> at, of |-> w,
   left |-> IF at = "reading" THEN Reads[page] ELSE {}, got |-> {}]

\* A page that was just mounted.  History are `begun', the number of the latest load,
\* `landed', of the latest that ended, and `behind': whether the last to end failed, or
\* was not the latest to begin.
Blank == [at |-> "open", tenant |-> None, loads |-> {}, loading |-> FALSE, shown |-> {},
          waits |-> FALSE, mine |-> None, failures |-> 0, said |-> "nothing",
          begun |-> 0, landed |-> 0, behind |-> FALSE]

Opened == [Blank EXCEPT !.loads = {Load(1, "first", "list", None)}, !.loading = TRUE,
                        !.begun = 1]

EmptyShell == [of |-> None, scan |-> "not_started", at |-> "loading"]

Shown == [of : Workspaces \union {None}, run : Nat \union {NoRun}]

ClientTypeOK ==
  /\ live \subseteq 1..created /\ created \in Workspaces
  /\ runs \in [Workspaces -> Nat] /\ reports \in [Workspaces -> Nat]
  /\ scan \in [Workspaces -> ScanStatuses]
  /\ \A i \in DOMAIN scanners : scanners[i].at \in {"start", "audit", "audited", "plan", "planned", "over"}
  /\ \A j \in DOMAIN jobs : jobs[j].at \in {"active", "saved", "succeeded", "failed"}
  /\ selected \in Workspaces \union {None}
  /\ page \in DOMAIN Reads \union {"onboarding"}
  /\ tab.at \in {"login", "open", "form", "verify", "deleted"}
  /\ tab.failures \in 0..(Patience - 1)
  /\ \A v \in tab.shown : v \in Shown
  /\ \A l \in tab.loads :
       /\ l.at \in {"list", "acting", "reading"} /\ l.no \in 1..tab.begun
       /\ \A v \in l.got : v \in Shown
  /\ tab.mine \in DOMAIN jobs \union {None} /\ (tab.waits => tab.mine # None)

ClientInit ==
  /\ created \in Workspaces
  /\ live = 1..created
  /\ runs = [w \in Workspaces |-> 0]
  /\ reports = [w \in Workspaces |-> 0]
  /\ scan = [w \in Workspaces |-> "not_started"]
  /\ scanners = <<>>
  /\ jobs = <<>>
  /\ selected \in {None, 1} \* None is as good as the newest
  /\ signedIn = TRUE
  /\ page \in OpenPages
  /\ tab = IF page = "onboarding" THEN [Blank EXCEPT !.at = "form"] ELSE Opened
  /\ shell = EmptyShell
  /\ moved = FALSE /\ disturbed = FALSE /\ lost = FALSE
  /\ actions = 0

-----------------------------------------------------------------------------
(* Opening pages.                                                          *)

\* AuthGuard sends whoever is not signed in to the login page.
Mount(p) ==
  /\ page' = p
  /\ tab' = IF ~signedIn' THEN [Blank EXCEPT !.at = "login"]
            ELSE IF p = "onboarding" THEN [Blank EXCEPT !.at = "form"] ELSE Opened
  /\ moved' = FALSE
  /\ UNCHANGED <<disturbed, lost>>

\* The shell stays when only the path changes, and loads the list again.
GoTo(p) == Mount(p) /\ shell' = [shell EXCEPT !.at = "loading"]

Visit(p) ==
  /\ tab.at # "login"
  /\ p \in OpenPages \ {page}
  /\ UNCHANGED <<worker, storage>>
  /\ GoTo(p)

Reload ==
  /\ tab.at # "login"
  /\ UNCHANGED <<worker, storage>>
  /\ Mount(page)
  /\ shell' = EmptyShell

\* Wrong on purpose: only the shell changes over.
SwitchInPlace(w) ==
  /\ tab.at # "login"
  /\ w \in live \ {shell.of}
  /\ selected' = w
  /\ shell' = EmptyShell
  /\ UNCHANGED <<worker, signedIn, page, tab, witnesses>>

\* handleSwitchTenant
SwitchTenant(w) ==
  /\ tab.at # "login"
  /\ w \in live \ {shell.of}
  /\ selected' = w
  /\ UNCHANGED <<worker, signedIn>>
  /\ Mount(page)
  /\ shell' = EmptyShell

\* The session leaves local storage whether the request got through or not.
SignOut ==
  /\ signedIn' = FALSE
  /\ \/ Mount(page) /\ shell' = EmptyShell
     \/ UNCHANGED <<page, tab, shell, witnesses>> \* in another tab
  /\ UNCHANGED <<worker, selected>>

Login ==
  /\ tab.at = "login"
  /\ signedIn' = TRUE
  /\ Mount(page)
  /\ shell' = EmptyShell
  /\ UNCHANGED <<worker, selected>>

\* Another tab of the browser switches.
SwitchElsewhere(w) ==
  /\ w \in live
  /\ selected' = w
  /\ moved' = TRUE
  /\ UNCHANGED <<worker, signedIn, page, tab, shell, disturbed, lost>>

-----------------------------------------------------------------------------
(* The active workspace, and what a page reads of it.                      *)

\* The list is newest first, and a selection that is not in it is ignored.
ResolveActiveTenant ==
  IF selected \in live THEN selected ELSE IF live = {} THEN None ELSE Max(live)

Reading == \E l \in tab.loads : l.at = "reading"

\* A run that ends while a page reads may show in some of its answers.
Undisturbed == disturbed' = (disturbed /\ Reading) /\ UNCHANGED <<moved, lost>>

\* Loads that the page shows as such, as long as they last.
Announced(kind) ==
  \/ kind \in {"first", "page"}
  \/ kind = "run" /\ page \in {"visibility", "queries"}

Begin(t, kind, at, w) ==
  [t EXCEPT !.begun = @ + 1, !.loads = @ \union {Load(t.begun + 1, kind, at, w)},
            !.loading = @ \/ Announced(kind)]

\* setTenant, and then the requests.
StartReading(l, w) ==
  /\ tab' = [tab EXCEPT !.tenant = IF l.at = "list" THEN w ELSE @, !.begun = @ + 1,
                        !.loads = (@ \ {l}) \union {Load(tab.begun + 1, l.kind, "reading", w)}]
  /\ Undisturbed

\* The `finally' of one load ends the loading of all.
Ended(l) == [tab EXCEPT !.loads = @ \ {l}, !.loading = @ /\ ~Announced(l.kind)]

Landed(l) == [Ended(l) EXCEPT !.landed = IF l.no > @ THEN l.no ELSE @]

\* Every page goes on showing what it showed, next to the error.
Failed(l) ==
  IF l.at = "acting" THEN Ended(l)
  ELSE [Landed(l) EXCEPT
          !.behind = TRUE,
          !.said = IF l.kind = "run" /\ page \in ReadForTheOneTheyWereOn THEN "failed" ELSE @]

\* loadActiveTenant, which every page calls for itself; "No workspace found", which
\* the settings do without.
LoadActiveTenant(l) ==
  /\ l.at = "list"
  /\ signedIn
  /\ \/ /\ ResolveActiveTenant # None \/ page = "settings"
        /\ StartReading(l, ResolveActiveTenant)
     \/ /\ ResolveActiveTenant = None /\ page # "settings"
        /\ tab' = Failed(l)
        /\ UNCHANGED witnesses
  /\ UNCHANGED <<worker, storage, page, shell>>

LatestAudit(w) == [of |-> w, run |-> runs[w]]
LatestPlan(w) == [of |-> w, run |-> runs[w]]
ExecutionTasks(w) == [of |-> w, run |-> runs[w]]
LatestReport(w) == [of |-> w, run |-> reports[w]]
Unnumbered(w) == [of |-> w, run |-> NoRun]

Answer(piece, w) ==
  IF piece \in CitationViews THEN LatestAudit(w)
  ELSE IF piece = "plan" THEN LatestPlan(w)
  ELSE IF piece = "tasks" THEN ExecutionTasks(w)
  ELSE IF piece = "report" THEN LatestReport(w)
  ELSE Unnumbered(w)

\* The requests of a page run side by side, and Promise.all hands over their answers
\* together.
Receive(l, piece, value) ==
  LET all == l.got \union {value} IN
  tab' = IF l.left = {piece}
           THEN [Landed(l) EXCEPT !.shown = all, !.behind = l.no < tab.landed]
           ELSE [tab EXCEPT !.loads = (@ \ {l}) \union
                                      {[l EXCEPT !.left = @ \ {piece}, !.got = all]}]

ReadPiece(l, piece) ==
  /\ l.at = "reading"
  /\ signedIn
  /\ piece \in l.left
  /\ Receive(l, piece, Answer(piece, l.of))
  /\ UNCHANGED <<worker, storage, page, shell, witnesses>>

\* A dropped connection, an error or, once signed out, 401.
RequestFails(l) ==
  /\ tab' = Failed(l)
  /\ UNCHANGED <<worker, storage, page, shell, witnesses>>

\* A run is on until the page has refreshed after it.
Running == tab.waits \/ \E l \in tab.loads : l.kind = "run"

\* The button Refresh, or Retry.  The settings have none.
RefreshPage ==
  /\ tab.at = "open" /\ page # "settings"
  /\ ~tab.loading
  /\ page \in LockedByRuns => ~Running
  /\ IF page \in LookUpOnce /\ tab.tenant # None
       THEN tab' = Begin(tab, "page", "reading", tab.tenant) /\ Undisturbed
       ELSE /\ tab' = Begin(tab, IF tab.tenant = None THEN "first" ELSE "page", "list", None)
            /\ UNCHANGED witnesses
  /\ UNCHANGED <<worker, storage, page, shell>>

\* Approving or publishing a task and disconnecting Google reload the page's data, for
\* the workspace it was on at the click; approving a plan, which changes no run, shows
\* the answer of its own request.
Act ==
  /\ tab.at = "open" /\ tab.shown # {}
  /\ \/ page = "execution" /\ ~tab.loading
     \/ page = "monitoring" /\ \A l \in tab.loads : l.kind # "act"
  /\ tab' = Begin(tab, "act", "acting", tab.tenant)
  /\ UNCHANGED <<worker, storage, page, shell, witnesses>>

ActIsAnswered(l) ==
  /\ l.at = "acting"
  /\ signedIn
  /\ StartReading(l, l.of)
  /\ UNCHANGED <<worker, storage, page, shell>>

-----------------------------------------------------------------------------
(* The shell: its own copy of the active workspace, and the scan's banner. *)

\* The interval of 4 seconds while a scan is in progress.
ShellPolls ==
  /\ shell.at # "loading"
  /\ shell.scan \in InProgress
  /\ shell' = [shell EXCEPT !.at = "loading"]
  /\ UNCHANGED <<worker, storage, page, tab, witnesses>>

\* Without a workspace left, to the onboarding.
LoadTenants ==
  /\ shell.at = "loading"
  /\ signedIn /\ tab.at # "login"
  /\ UNCHANGED <<worker, storage>>
  /\ \/ /\ live # {}
        /\ shell' = [of |-> ResolveActiveTenant, scan |-> scan[ResolveActiveTenant], at |-> "loaded"]
        /\ UNCHANGED <<page, tab, witnesses>>
     \/ /\ live = {}
        /\ page # "onboarding"
        /\ GoTo("onboarding")

\* What was loaded before stays.
LoadTenantsFails ==
  /\ shell.at = "loading"
  /\ shell' = [shell EXCEPT !.at = "kept"]
  /\ UNCHANGED <<worker, storage, page, tab, witnesses>>

-----------------------------------------------------------------------------
(* Runs: authFetchJob starts a job and polls it.                           *)

\* The whole of visibility gives way to its first load.
CanRun ==
  /\ tab.at = "open" /\ tab.tenant # None /\ ~Running
  /\ page = "agents" => ~tab.loading
  /\ page = "visibility" => \A l \in tab.loads : l.kind # "first"

Active(j) == jobs[j].at \in {"active", "saved"}

\* The same run once more, while the first is active, is the first: 202 with its id.
StartRun ==
  /\ CanRun
  /\ signedIn
  /\ page \in DOMAIN Refresh
  /\ LET kind == IF page = "monitoring" THEN "report" ELSE "results"
         same == {j \in DOMAIN jobs : jobs[j].of = tab.tenant /\ jobs[j].kind = kind /\ Active(j)} IN
     \/ /\ same # {}
        /\ tab' = [tab EXCEPT !.waits = TRUE, !.mine = Min(same), !.failures = 0, !.said = "nothing"]
        /\ UNCHANGED jobs
     \/ /\ same = {}
        /\ Len(jobs) < MaxJobs
        /\ jobs' = Append(jobs, [of |-> tab.tenant, kind |-> kind, at |-> "active", gives |-> 0])
        /\ tab' = [tab EXCEPT !.waits = TRUE, !.mine = Len(jobs'), !.failures = 0, !.said = "nothing"]
  /\ UNCHANGED <<live, created, runs, reports, scan, scanners, storage, page, shell, witnesses>>

Gone == [tab EXCEPT !.waits = FALSE, !.failures = 0, !.said = "failed"]

\* "Give up waiting (the job itself keeps running)": after 15 minutes, or at the
\* answer 401.
StopWaiting ==
  /\ tab.waits
  /\ tab' = Gone
  /\ UNCHANGED <<worker, storage, page, shell, witnesses>>

PollFails ==
  /\ tab.waits
  /\ tab' = IF tab.failures + 1 >= Patience THEN Gone ELSE [tab EXCEPT !.failures = @ + 1]
  /\ UNCHANGED <<worker, storage, page, shell, witnesses>>

PollPending ==
  /\ tab.waits
  /\ signedIn
  /\ Active(tab.mine)
  /\ tab' = [tab EXCEPT !.failures = 0]
  /\ UNCHANGED <<worker, storage, page, shell, witnesses>>

PollFailed ==
  /\ tab.waits
  /\ signedIn
  /\ jobs[tab.mine].at = "failed"
  /\ tab' = Gone
  /\ UNCHANGED <<worker, storage, page, shell, witnesses>>

\* For the workspace of the run, or for whichever is active by then.
RefreshAfterRun ==
  LET done == [tab EXCEPT !.waits = FALSE, !.failures = 0, !.said = "completed"] IN
  \/ /\ Refresh[page] = "again"
     /\ tab' = Begin(done, "run", "list", None)
     /\ UNCHANGED witnesses
  \/ /\ Refresh[page] # "again"
     /\ tab' = Begin(done, "run", "reading", jobs[tab.mine].of)
     /\ Undisturbed

\* Wrong on purpose: the page refreshes as soon as its run is accepted.
RefreshWhenAccepted ==
  /\ tab.waits
  /\ signedIn
  /\ RefreshAfterRun
  /\ UNCHANGED <<worker, storage, page, shell>>

PollSucceeded ==
  /\ tab.waits
  /\ signedIn
  /\ jobs[tab.mine].at = "succeeded"
  /\ RefreshAfterRun
  /\ UNCHANGED <<worker, storage, page, shell>>

-----------------------------------------------------------------------------
(* Workspaces come and go.                                                 *)

\* The onboarding: POST /api/tenants, and the new workspace is selected.
CreateWorkspace ==
  /\ tab.at = "form"
  /\ signedIn
  /\ created < MaxWorkspaces
  /\ created' = created + 1
  /\ live' = live \union {created'}
  /\ selected' = created'
  /\ tab' = [tab EXCEPT !.at = "verify", !.tenant = created']
  /\ UNCHANGED <<runs, reports, scan, scanners, jobs, signedIn, page, shell, witnesses>>

\* "Or skip for now and verify later."
SkipVerification ==
  /\ tab.at = "verify"
  /\ UNCHANGED <<worker, storage>>
  /\ GoTo("visibility")

\* The workspace leaves the list at once; the selection is cleared ...
DeleteWorkspace ==
  /\ tab.at = "open" /\ page = "settings" /\ tab.tenant # None /\ tab.loads = {}
  /\ signedIn
  /\ live' = live \ {tab.tenant}
  /\ selected' = None
  /\ tab' = [tab EXCEPT !.at = "deleted"]
  /\ UNCHANGED <<created, runs, reports, scan, scanners, jobs, signedIn, page, shell, witnesses>>

\* ... and set to the newest of the rest, if that can be read.
LandElsewhere ==
  /\ tab.at = "deleted"
  /\ UNCHANGED <<worker, signedIn>>
  /\ \/ signedIn /\ live = {} /\ UNCHANGED selected /\ GoTo("onboarding")
     \/ signedIn /\ live # {} /\ selected' = Max(live) /\ GoTo("home")
     \/ UNCHANGED selected /\ GoTo("home")

-----------------------------------------------------------------------------
(* The worker.                                                             *)

\* A run leaves its results; a page that is reading then may see both.
Leaves(w) ==
  /\ runs' = [runs EXCEPT ![w] = @ + 1]
  /\ disturbed' = TRUE

SaveResults(j) ==
  /\ jobs[j].at = "active"
  /\ \/ jobs[j].kind = "results" /\ Leaves(jobs[j].of) /\ UNCHANGED reports
     \/ /\ jobs[j].kind = "report"
        /\ reports' = [reports EXCEPT ![jobs[j].of] = @ + 1]
        /\ disturbed' = TRUE
        /\ UNCHANGED runs
  /\ jobs' = [jobs EXCEPT ![j].at = "saved",
                          ![j].gives = (IF jobs[j].kind = "report" THEN reports' ELSE runs')[jobs[j].of]]
  /\ UNCHANGED <<live, created, scan, scanners, storage, page, tab, shell, moved, lost>>

JobEnds(j) ==
  /\ \/ jobs[j].at = "saved" /\ jobs' = [jobs EXCEPT ![j].at = "succeeded"]
     \/ Active(j) /\ jobs' = [jobs EXCEPT ![j].at = "failed"]
  /\ UNCHANGED <<live, created, runs, reports, scan, scanners, storage, page, tab, shell, witnesses>>

\* In another tab, or by another user of the workspace.
RunElsewhere(w) ==
  /\ w \in live
  /\ Leaves(w)
  /\ UNCHANGED <<live, created, reports, scan, scanners, jobs, storage, page, tab, shell,
                 moved, lost>>

\* The route marks the domain verified, sets the status "synchronously so the client's
\* next tenant fetch already sees the scan", and does not await the scan.
VerifyDomain ==
  /\ signedIn
  /\ Len(scanners) < MaxScans
  /\ UNCHANGED <<live, created, runs, reports, jobs, storage>>
  /\ \/ tab.at = "verify" /\ GoTo("visibility")
     \/ /\ tab.at = "open" /\ page = "home" /\ tab.tenant # None
        /\ tab' = Begin(tab, "page", "list", None)
        /\ UNCHANGED <<page, shell, witnesses>>
  /\ scan' = [scan EXCEPT ![tab.tenant] = "auditing"]
  /\ scanners' = Append(scanners, [of |-> tab.tenant, at |-> "start"])

Scan(i, from, to) ==
  /\ scanners[i].at = from
  /\ scanners' = [scanners EXCEPT ![i].at = to]

SetScanStatus(i, status) == scan' = [scan EXCEPT ![scanners[i].of] = status]

\* scanTenant: stage 1, then stage 2.
ScanTenant(i) ==
  /\ \/ Scan(i, "start", "audit") /\ SetScanStatus(i, "auditing") /\ UNCHANGED <<runs, disturbed>>
     \/ Scan(i, "audit", "audited") /\ Leaves(scanners[i].of) /\ UNCHANGED scan
     \/ Scan(i, "audited", "plan") /\ SetScanStatus(i, "planning") /\ UNCHANGED <<runs, disturbed>>
     \/ Scan(i, "plan", "planned") /\ Leaves(scanners[i].of) /\ UNCHANGED scan
     \/ Scan(i, "planned", "over") /\ SetScanStatus(i, "ready") /\ UNCHANGED <<runs, disturbed>>
  /\ UNCHANGED <<live, created, reports, jobs, storage, page, tab, shell, moved, lost>>

\* Wrong on purpose: a failed scan is only logged.
ScanFailsQuietly(i) ==
  /\ scanners[i].at # "over"
  /\ scanners' = [scanners EXCEPT ![i].at = "over"]
  /\ UNCHANGED <<live, created, runs, reports, scan, jobs, storage, page, tab, shell, witnesses>>

\* "Best effort": the status says so, unless that write fails too.
ScanFails(i) ==
  /\ scanners[i].at # "over"
  /\ scanners' = [scanners EXCEPT ![i].at = "over"]
  /\ \/ SetScanStatus(i, "failed") /\ UNCHANGED lost
     \/ lost' = TRUE /\ UNCHANGED scan
  /\ UNCHANGED <<live, created, runs, reports, jobs, storage, page, tab, shell,
                 moved, disturbed>>

\* Nobody awaits the scan: it ends with its process, and is not taken up again.
ScanDies(i) ==
  /\ scanners[i].at # "over"
  /\ scanners' = [scanners EXCEPT ![i].at = "over"]
  /\ lost' = TRUE
  /\ UNCHANGED <<live, created, runs, reports, scan, jobs, storage, page, tab, shell,
                 moved, disturbed>>

-----------------------------------------------------------------------------
PageStep ==
  \/ LandElsewhere
  \/ \E l \in tab.loads :
       \/ LoadActiveTenant(l) \/ ActIsAnswered(l) \/ RequestFails(l)
       \/ \E piece \in l.left : ReadPiece(l, piece)

Polls == PollFails \/ PollPending \/ PollFailed \/ PollSucceeded

UserStep ==
  \/ Reload \/ SignOut \/ Login \/ RefreshPage \/ StartRun \/ Act
  \/ CreateWorkspace \/ SkipVerification \/ DeleteWorkspace \/ VerifyDomain
  \/ \E p \in OpenPages : Visit(p)
  \/ \E w \in live : SwitchTenant(w) \/ SwitchElsewhere(w) \/ RunElsewhere(w)

WorkerStep ==
  \/ \E j \in DOMAIN jobs : SaveResults(j) \/ JobEnds(j)
  \/ \E i \in DOMAIN scanners : ScanTenant(i) \/ ScanFails(i) \/ ScanDies(i)

ClientNext ==
  \/ /\ actions < MaxActions /\ actions' = actions + 1
     /\ UserStep
  \/ /\ UNCHANGED actions
     /\ \/ PageStep \/ Polls \/ StopWaiting \/ WorkerStep
        \/ ShellPolls \/ LoadTenants \/ LoadTenantsFails

\* Requests are answered or fail in the end, timers go off, a list that is asked for
\* again and again is received once, and a scan that does not die goes on.
Fairness ==
  /\ WF_program(PageStep)
  /\ WF_program(StopWaiting)
  /\ WF_program(ShellPolls)
  /\ SF_program(LoadTenants)
  /\ \A i \in 1..MaxScans : WF_program(i \in DOMAIN scanners /\ (ScanTenant(i) \/ ScanFails(i)))

ClientSpec == ClientInit /\ [][ClientNext]_clientVars /\ Fairness

-----------------------------------------------------------------------------
\* No load of the page is under way.
Settled == tab.at = "open" /\ tab.loads = {}

\* What a page shows is of the workspace it names: always if no other tab chose one
\* since it was opened, or the page is queries; and otherwise if its latest load
\* did not fail (a page that looked the other workspace up and then could not read it
\* has its name over the old data, next to an error) and did not end before an earlier
\* one, except where an earlier request may be read for the workspace it was made
\* for.  It is of one run, with the same exceptions, unless a run left its results
\* while the page was reading.  And the workspace it names is the shell's, which loads
\* it for itself, unless that failed or another tab chose one.  (The types come with it.)
PageIsCoherent ==
  /\ ClientTypeOK
  /\ Settled =>
       /\ \/ /\ moved /\ page \notin LookUpOnce
             /\ tab.behind \/ page \in ReadForTheOneTheyWereOn
          \/ \A v \in tab.shown : v.of = tab.tenant
       /\ \/ tab.behind \/ disturbed
          \/ \A v, u \in tab.shown : v.run = u.run \/ NoRun \in {v.run, u.run}
       /\ moved \/ shell.at # "loaded" \/ tab.tenant = None \/ shell.of \in {tab.tenant, None}

\* A page that says its run is completed shows what that run left, or something later,
\* whichever run it joined, however often it gave up before and whatever else it was
\* loading by then: unless the latest of its loads failed, or was overtaken by the answer
\* to an earlier one, which nothing in the page prevents.
CompletedRunIsShown ==
  (Settled /\ ~tab.behind /\ tab.said = "completed" /\ jobs[tab.mine].of = tab.tenant) =>
    \A v \in tab.shown :
      v.of = tab.tenant /\ v.run # NoRun => v.run >= jobs[tab.mine].gives

\* Nobody waits for ever: once the user stops asking for more, a page that is loading
\* has its answers or errors, one that waits for its run hears of it or gives up, and
\* the banner of a scan goes away, wherever the user goes meanwhile, if the scan does
\* not die and nobody signs out.
EveryWaitEnds ==
  /\ tab.loads # {} ~> tab.loads = {}
  /\ tab.waits ~> ~tab.waits
  /\ shell.scan \in InProgress ~> (shell.scan \notin InProgress \/ lost \/ ~signedIn)
=============================================================================
