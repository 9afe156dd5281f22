-------------------------- MODULE TenantLifecycle --------------------------
(***************************************************************************)
(* A tenant from its creation to its tear-down: the request that           *)
(* provisions it and links it to its owner (provisioning-flow.ts,          *)
(* tenant-provisioning.ts, POST /api/tenants), the requests and jobs that  *)
(* work in it, the owner's deletion (workspace-deletion.ts), the           *)
(* operator's cleanup of orphans (orphan-tenant-commands.ts) and the daily *)
(* purge (tenant-deprovisioning.ts).  No two of them share a lock or a     *)
(* transaction: each statement is an action, any statement may throw with  *)
(* or without effect, and any process may die between two of them.         *)
(***************************************************************************)
EXTENDS Integers

CONSTANTS
  Tenants,       \* fresh tenant ids; each has one request that creates it
  Crons,         \* runs of the purge that may overlap
  TestAccounts,  \* tenants whose members all have reserved example addresses
  Lifetime,      \* how long a request, a job or the cleanup command may last
  Retention      \* TENANT_RETENTION_DAYS, in the same unit

\* A request ends with its function, after minutes; data is retained for days.
ASSUME LifecycleAssumption ==
  /\ Lifetime \in Nat
  /\ Retention \in Nat
  /\ Lifetime < Retention
  /\ TestAccounts \subseteq Tenants

VARIABLES
  status,      \* platform.tenants.status, "none" before the row exists
  manifest,    \* is the manifest column set?
  retain,      \* time left until deprovision_at
  linked,      \* does a workspace with a member point to the tenant?
  schema,      \* its PostgreSQL schema: "none", "partial" or "ready"
  storage,     \* are there files under its prefix?
  credential,  \* is there a credential that is not revoked?
  at,          \* where each of the tenant's processes is, "idle" when there is none
  age,         \* how long each has been running
  todo,        \* for a run of the purge, the due tenants it has yet to tear down
  current,     \* the one it is tearing down, {} between two
  step         \* its next step

row == <<status, manifest, retain>>
data == <<schema, storage, credential>>
processes == <<at, age>>
purge == <<todo, current, step>>
vars == <<row, linked, data, processes, purge>>

Statuses == {"none", "provisioning", "active", "failed", "deprovisioning", "deprovisioned"}
Processes == {"creator", "visit", "delete", "cleanup"}
Places == {"idle", "schema", "manifest", "copy", "activate", "link", "fail",
           "fail again", "drop", "purge", "in"}
Steps == {"drop", "purge", "revoke", "mark"}

TypeOK ==
  /\ status \in [Tenants -> Statuses]
  /\ manifest \in [Tenants -> BOOLEAN]
  /\ retain \in [Tenants -> 0..Retention]
  /\ linked \in [Tenants -> BOOLEAN]
  /\ schema \in [Tenants -> {"none", "partial", "ready"}]
  /\ storage \in [Tenants -> BOOLEAN]
  /\ credential \in [Tenants -> BOOLEAN]
  /\ at \in [Tenants -> [Processes -> Places]]
  /\ age \in [Tenants -> [Processes -> 0..Lifetime]]
  /\ todo \in [Crons -> SUBSET Tenants]
  /\ current \in [Crons -> SUBSET Tenants]
  /\ step \in [Crons -> Steps]

Init ==
  /\ status = [t \in Tenants |-> "none"]
  /\ manifest = [t \in Tenants |-> FALSE]
  /\ retain = [t \in Tenants |-> 0]
  /\ linked = [t \in Tenants |-> FALSE]
  /\ schema = [t \in Tenants |-> "none"]
  /\ storage = [t \in Tenants |-> FALSE]
  /\ credential = [t \in Tenants |-> FALSE]
  /\ at = [t \in Tenants |-> [p \in Processes |-> "idle"]]
  /\ age = [t \in Tenants |-> [p \in Processes |-> 0]]
  /\ todo = [c \in Crons |-> {}]
  /\ current = [c \in Crons |-> {}]
  /\ step = [c \in Crons |-> "drop"]

-----------------------------------------------------------------------------
Deleted(t) == status[t] \in {"deprovisioning", "deprovisioned"}

\* A process of t moves on to s; at "idle" it is over.
Goes(t, p, s) ==
  /\ at' = [at EXCEPT ![t][p] = s]
  /\ UNCHANGED age

Starts(t, p, s) ==
  /\ at[t][p] = "idle"
  /\ at' = [at EXCEPT ![t][p] = s]
  /\ age' = [age EXCEPT ![t][p] = 0]

SetStatus(t, s) ==
  /\ status' = [status EXCEPT ![t] = s]
  /\ UNCHANGED <<manifest, retain>>

\* Any process may die between two statements.
Dies(t, p) ==
  /\ at[t][p] # "idle"
  /\ Goes(t, p, "idle")
  /\ UNCHANGED <<row, linked, data, purge>>

-----------------------------------------------------------------------------
\* The request that creates t: the row first, then what it stands for.
CreateTenantRecord(t) ==
  /\ status[t] = "none"
  /\ Starts(t, "creator", "schema")
  /\ SetStatus(t, "provisioning")
  /\ UNCHANGED <<linked, data, purge>>

\* provisionTenantSchema applies the template's migrations one by one.
ProvisionTenantSchema(t) ==
  /\ at[t]["creator"] = "schema"
  /\ \/ /\ schema' = [schema EXCEPT ![t] = "partial"]
        /\ UNCHANGED processes
     \/ /\ schema[t] = "partial"
        /\ schema' = [schema EXCEPT ![t] = "ready"]
        /\ Goes(t, "creator", "manifest")
  /\ UNCHANGED <<row, linked, storage, credential, purge>>

\* persistTenantManifest: whatever the row's status is by now.
PersistManifest(t) ==
  /\ at[t]["creator"] = "manifest"
  /\ manifest' = [manifest EXCEPT ![t] = TRUE]
  /\ Goes(t, "creator", "copy")
  /\ UNCHANGED <<status, retain, linked, data, purge>>

\* The copy in storage may fail; nobody minds.
CopyManifest(t) ==
  /\ at[t]["creator"] = "copy"
  /\ storage' \in {storage, [storage EXCEPT ![t] = TRUE]}
  /\ Goes(t, "creator", "activate")
  /\ UNCHANGED <<row, linked, schema, credential, purge>>

\* The UPDATE looks at the id alone.
ActivateTenant(t) ==
  /\ at[t]["creator"] = "activate"
  /\ SetStatus(t, "active")
  /\ Goes(t, "creator", "link")
  /\ UNCHANGED <<linked, data, purge>>

\* Wrong on purpose: the owner is linked before the tenant is provisioned.
LinkOwnerEarly(t) ==
  /\ at[t]["creator"] \in {"schema", "link"}
  /\ linked' = [linked EXCEPT ![t] = TRUE]
  /\ IF at[t]["creator"] = "link" THEN Goes(t, "creator", "idle") ELSE UNCHANGED processes
  /\ UNCHANGED <<row, data, purge>>

\* The workspace, which counts from its first member on; nothing undoes the rest
\* when it throws.
LinkOwner(t) ==
  /\ at[t]["creator"] = "link"
  /\ linked' = [linked EXCEPT ![t] = TRUE]
  /\ Goes(t, "creator", "idle")
  /\ UNCHANGED <<row, data, purge>>

\* A step of the provisioning throws, having done its work or part of it.
ProvisioningThrows(t) ==
  /\ \/ /\ at[t]["creator"] = "schema"
        /\ UNCHANGED <<row, schema>>
     \/ /\ at[t]["creator"] = "manifest"
        /\ manifest' \in {manifest, [manifest EXCEPT ![t] = TRUE]}
        /\ UNCHANGED <<status, retain, schema>>
     \/ /\ at[t]["creator"] = "activate"
        /\ status' \in {status, [status EXCEPT ![t] = "active"]}
        /\ UNCHANGED <<manifest, retain, schema>>
  /\ Goes(t, "creator", "fail")
  /\ UNCHANGED <<linked, storage, credential, purge>>

\* failTenant, tried twice; if both fail the rollback goes on all the same.
FailTenant(t) ==
  /\ \/ /\ at[t]["creator"] \in {"fail", "fail again"}
        /\ SetStatus(t, "failed")
        /\ Goes(t, "creator", "drop")
     \/ /\ at[t]["creator"] = "fail"
        /\ SetStatus(t, "failed") \/ UNCHANGED row
        /\ Goes(t, "creator", "fail again")
     \/ /\ at[t]["creator"] = "fail again"
        /\ UNCHANGED row
        /\ Goes(t, "creator", "drop")
  /\ UNCHANGED <<linked, data, purge>>

\* rollbackProvisioning: both halves are tried, each may fail.
RollBackSchema(t) ==
  /\ at[t]["creator"] = "drop"
  /\ schema' \in {schema, [schema EXCEPT ![t] = "none"]}
  /\ Goes(t, "creator", "purge")
  /\ UNCHANGED <<row, linked, storage, credential, purge>>

RollBackStorage(t) ==
  /\ at[t]["creator"] = "purge"
  /\ storage' \in {storage, [storage EXCEPT ![t] = FALSE]}
  /\ Goes(t, "creator", "idle")
  /\ UNCHANGED <<row, linked, schema, credential, purge>>

-----------------------------------------------------------------------------
\* A request, a callback or a job that has passed its check of the tenant ...
Enter(t) ==
  /\ linked[t]
  /\ ~Deleted(t)
  /\ Starts(t, "visit", "in")
  /\ UNCHANGED <<row, linked, data, purge>>

\* ... does not look again when it stores a file or a credential.
Work(t) ==
  /\ at[t]["visit"] = "in"
  /\ \/ /\ storage' = [storage EXCEPT ![t] = TRUE]
        /\ UNCHANGED credential
     \/ /\ credential' \in {[credential EXCEPT ![t] = TRUE], [credential EXCEPT ![t] = FALSE]}
        /\ UNCHANGED storage
  /\ UNCHANGED <<row, linked, schema, processes, purge>>

\* DELETE /api/tenants/:tenantId, past its checks.
AskForDeletion(t) ==
  /\ linked[t]
  /\ ~Deleted(t)
  /\ Starts(t, "delete", "in")
  /\ UNCHANGED <<row, linked, data, purge>>

\* What the cleanup command takes for abandoned.
OrphanCandidate(t) ==
  /\ status[t] # "none"
  /\ ~Deleted(t)
  /\ ~linked[t] \/ t \in TestAccounts

\* deprovisionApproved re-checks the ids it was given against the candidates.
ApproveOrphan(t) ==
  /\ OrphanCandidate(t)
  /\ Starts(t, "cleanup", "in")
  /\ UNCHANGED <<row, linked, data, purge>>

\* scheduleTenantDeprovisioning: the UPDATE looks at the id alone.
Schedule(t) ==
  /\ status' = [status EXCEPT ![t] = "deprovisioning"]
  /\ retain' = [retain EXCEPT ![t] = Retention]
  /\ UNCHANGED manifest

ScheduleDeletion(t, p) ==
  /\ p \in {"delete", "cleanup"}
  /\ at[t][p] = "in"
  /\ Schedule(t)
  /\ Goes(t, p, "idle")
  /\ UNCHANGED <<linked, data, purge>>

-----------------------------------------------------------------------------
\* Wrong on purpose: retention is not waited for.
DueAtOnce == {t \in Tenants : status[t] = "deprovisioning"}

Due == {t \in Tenants : status[t] = "deprovisioning" /\ retain[t] = 0}

\* runDueDeprovisioning reads the due tenants once ...
SelectDue(c) ==
  /\ todo[c] = {}
  /\ current[c] = {}
  /\ Due # {}
  /\ todo' = [todo EXCEPT ![c] = Due]
  /\ UNCHANGED <<row, linked, data, processes, current, step>>

\* ... and tears them down one after the other.
TakeNext(c) ==
  /\ current[c] = {}
  /\ \E t \in todo[c] :
       /\ current' = [current EXCEPT ![c] = {t}]
       /\ todo' = [todo EXCEPT ![c] = @ \ {t}]
  /\ step' = [step EXCEPT ![c] = "drop"]
  /\ UNCHANGED <<row, linked, data, processes>>

DropSchema(c, t) ==
  /\ current[c] = {t}
  /\ step[c] = "drop"
  /\ schema' = [schema EXCEPT ![t] = "none"]
  /\ step' = [step EXCEPT ![c] = "purge"]
  /\ UNCHANGED <<row, linked, storage, credential, processes, todo, current>>

\* Wrong on purpose: there must be something to purge.
PurgeSomeStorage(c, t) ==
  /\ current[c] = {t}
  /\ step[c] = "purge"
  /\ storage[t]
  /\ storage' = [storage EXCEPT ![t] = FALSE]
  /\ step' = [step EXCEPT ![c] = "revoke"]
  /\ UNCHANGED <<row, linked, schema, credential, processes, todo, current>>

PurgeStorage(c, t) ==
  /\ current[c] = {t}
  /\ step[c] = "purge"
  /\ storage' = [storage EXCEPT ![t] = FALSE]
  /\ step' = [step EXCEPT ![c] = "revoke"]
  /\ UNCHANGED <<row, linked, schema, credential, processes, todo, current>>

RevokeCredentials(c, t) ==
  /\ current[c] = {t}
  /\ step[c] = "revoke"
  /\ credential' = [credential EXCEPT ![t] = FALSE]
  /\ step' = [step EXCEPT ![c] = "mark"]
  /\ UNCHANGED <<row, linked, schema, storage, processes, todo, current>>

\* Wrong on purpose: marked before the credentials are revoked.
MarkTooEarly(c, t) ==
  /\ current[c] = {t}
  /\ step[c] \in {"revoke", "mark"}
  /\ status' = [status EXCEPT ![t] = "deprovisioned"]
  /\ manifest' = [manifest EXCEPT ![t] = FALSE]
  /\ current' = [current EXCEPT ![c] = {}]
  /\ UNCHANGED <<retain, linked, data, processes, todo, step>>

\* The status and the manifest in one UPDATE.
MarkDeprovisioned(c, t) ==
  /\ current[c] = {t}
  /\ step[c] = "mark"
  /\ status' = [status EXCEPT ![t] = "deprovisioned"]
  /\ manifest' = [manifest EXCEPT ![t] = FALSE]
  /\ current' = [current EXCEPT ![c] = {}]
  /\ UNCHANGED <<retain, linked, data, processes, todo, step>>

\* A step throws or the run dies: the rest of its tenants wait for tomorrow.
PurgeStops(c) ==
  /\ current[c] # {} \/ todo[c] # {}
  /\ current' = [current EXCEPT ![c] = {}]
  /\ todo' = [todo EXCEPT ![c] = {}]
  /\ UNCHANGED <<row, linked, data, processes, step>>

TearDownStep(c, t) ==
  DropSchema(c, t) \/ PurgeStorage(c, t) \/ RevokeCredentials(c, t) \/ MarkDeprovisioned(c, t)

PurgeStep(c) ==
  \/ SelectDue(c)
  \/ TakeNext(c)
  \/ \E t \in Tenants : TearDownStep(c, t)
  \/ PurgeStops(c)

-----------------------------------------------------------------------------
\* Time passes for the retention and for the processes, none of which outlives
\* its lifetime.
Tick ==
  /\ \A t \in Tenants : \A p \in Processes : at[t][p] # "idle" => age[t][p] < Lifetime
  /\ age' = [t \in Tenants |-> [p \in Processes |->
               IF at[t][p] = "idle" THEN age[t][p] ELSE age[t][p] + 1]]
  /\ retain' = [t \in Tenants |-> IF retain[t] = 0 THEN 0 ELSE retain[t] - 1]
  /\ UNCHANGED <<status, manifest, linked, data, at, purge>>

CreatorStep(t) ==
  \/ CreateTenantRecord(t) \/ ProvisionTenantSchema(t) \/ PersistManifest(t)
  \/ CopyManifest(t) \/ ActivateTenant(t) \/ LinkOwner(t)
  \/ ProvisioningThrows(t) \/ FailTenant(t) \/ RollBackSchema(t) \/ RollBackStorage(t)

TenantStep(t) ==
  \/ Enter(t) \/ Work(t) \/ AskForDeletion(t) \/ ApproveOrphan(t)
  \/ \E p \in {"delete", "cleanup"} : ScheduleDeletion(t, p)
  \/ \E p \in Processes : Dies(t, p)

Next ==
  \/ \E t \in Tenants : CreatorStep(t) \/ TenantStep(t)
  \/ \E c \in Crons : PurgeStep(c)
  \/ Tick

Spec == Init /\ [][Next]_vars

\* The purge runs every day, goes on to its next tenant, and no step of it fails
\* for ever; processes end and time passes.
PurgeFairness ==
  /\ WF_vars(Tick)
  /\ \A t \in Tenants : \A p \in Processes : WF_vars(Dies(t, p))
  /\ \A c \in Crons :
       /\ WF_vars(SelectDue(c))
       /\ SF_vars(TakeNext(c))
       /\ \A t \in Tenants :
            /\ SF_vars(DropSchema(c, t))
            /\ SF_vars(PurgeStorage(c, t))
            /\ SF_vars(RevokeCredentials(c, t))
            /\ SF_vars(MarkDeprovisioned(c, t))

FairSpec == Spec /\ PurgeFairness

-----------------------------------------------------------------------------
\* A tenant marked 'deprovisioned' has nothing left, and nobody who was still at
\* work in it puts something back: no schema, no file, no live credential.  The
\* manifest, "the map of what still has to be torn down", goes last.
TornDownCompletely ==
  \A t \in Tenants :
    /\ status[t] = "deprovisioned" =>
         schema[t] = "none" /\ ~storage[t] /\ ~credential[t] /\ ~manifest[t]
    /\ status[t] = "deprovisioning" /\ linked[t] => manifest[t]

\* A workspace its owner can open has its whole schema and its manifest, whatever
\* rollbacks, cleanups and purges are under way.
LiveWorkspaceIsWhole ==
  \A t \in Tenants :
    linked[t] /\ ~Deleted(t) => schema[t] = "ready" /\ manifest[t]

\* A step takes something of t away: its schema, its files or its credential,
\* unless a member disconnects the credential himself.
Takes(t) ==
  \/ schema[t] = "ready" /\ schema'[t] # "ready"
  \/ storage[t] /\ ~storage'[t]
  \/ credential[t] /\ ~credential'[t] /\ ~Work(t)

\* "The data is recoverable until then": a workspace's schema, files and
\* credentials are only taken away by the purge, the whole retention after
\* its deletion, whatever rollbacks, cleanups and purges are still under way.
RecoverableUntilDue ==
  [][\A t \in Tenants :
       linked[t] /\ Takes(t) => status[t] = "deprovisioning" /\ retain[t] = 0]_vars

\* A deleted workspace is never seen again.
DeletedStaysDeleted ==
  [][\A t \in Tenants : linked[t] /\ Deleted(t) => Deleted(t)']_vars

\* A deleted workspace is purged in the end.
PurgeHappens ==
  \A t \in Tenants : linked[t] /\ status[t] = "deprovisioning" ~> status[t] = "deprovisioned"
=============================================================================
