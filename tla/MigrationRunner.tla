--------------------------- MODULE MigrationRunner ---------------------------
(***************************************************************************)
(* The versioned migrations of tenant schemas (migration-runner.ts), run   *)
(* for all active tenants by an operator (migration-commands.ts) and for a *)
(* new tenant by its provisioning.  Several runners may be at work, tables *)
(* made before versions were recorded are taken over, any statement may    *)
(* fail, a runner may die, and tenants come to their end meanwhile.        *)
(***************************************************************************)
EXTENDS Integers, FiniteSets, FiniteSetsExt

CONSTANTS
  Schemas,    \* tenants, each with a schema
  Legacy,     \* those that may be from before versions were recorded
  Runners,    \* processes that migrate
  Last,       \* the files are 1..Last, in their order
  NoOne,      \* nobody holds the lock
  NoSchema,   \* a runner is between two schemas
  MaxMishaps  \* the bound on failed statements, deaths and tenants that end

ASSUME MigrationAssumption ==
  /\ Legacy \subseteq Schemas
  /\ Last \in Nat \ {0}
  /\ MaxMishaps \in Nat
  /\ NoOne \notin Runners
  /\ NoSchema \notin Schemas

VARIABLES
  status,     \* platform.tenants.status
  exists,     \* the schemas that exist
  made,       \* how many of the objects of a file are there
  tracked,    \* the schemas with a table schema_migrations
  recorded,   \* its rows
  lock,       \* the advisory lock of a schema
  at,         \* where a runner is
  listed,     \* the tenants it is to migrate
  todo,       \* those of them still to come
  now,        \* the schema it is at
  known,      \* planBefore.alreadyApplied
  baseline,   \* planBefore.toBaseline
  file,       \* the file it is at
  succeeded,  \* the outcomes
  failed,
  dropped,    \* history: the schemas that were dropped
  repeated,   \* history: the schemas of which a recorded file was run
  disordered, \* history: the schemas of which a file ran before an earlier one
  mishaps     \* how much has gone wrong so far

database == <<status, exists, made, tracked, recorded>>
plan == <<now, known, baseline, file>>
outcome == <<listed, todo, succeeded, failed>>
history == <<dropped, repeated, disordered>>
vars == <<database, lock, at, plan, outcome, history, mishaps>>

Files == 1..Last
Places == {"none", "next", "schema", "plan", "probe", "table", "baseline", "file",
           "recheck", "run", "over", "dead"}

TypeOK ==
  /\ status \in [Schemas -> {"new", "active", "closed"}]
  /\ exists \subseteq Schemas
  /\ made \in [Schemas -> [Files -> {"absent", "partial", "whole"}]]
  /\ tracked \subseteq exists
  /\ recorded \in [Schemas -> SUBSET Files]
  /\ lock \in [Schemas -> Runners \union {NoOne}]
  /\ at \in [Runners -> Places]
  /\ listed \in [Runners -> SUBSET Schemas]
  /\ todo \in [Runners -> SUBSET Schemas]
  /\ now \in [Runners -> Schemas \union {NoSchema}]
  /\ known \in [Runners -> SUBSET Files]
  /\ baseline \in [Runners -> SUBSET Files]
  /\ file \in [Runners -> 1..Last + 1]
  /\ succeeded \in [Runners -> SUBSET Schemas]
  /\ failed \in [Runners -> SUBSET Schemas]
  /\ {dropped, repeated, disordered} \subseteq SUBSET Schemas
  /\ mishaps \in 0..MaxMishaps

\* A tenant is new and without a schema, or active and as the runner left it, or
\* from before versions were recorded, with any objects in place.
Empty == [f \in Files |-> "absent"]
Init ==
  /\ status \in [Schemas -> {"new", "active"}]
  /\ exists = {s \in Schemas : status[s] = "active"}
  /\ made \in [Schemas -> [Files -> {"absent", "partial", "whole"}]]
  /\ tracked \in SUBSET exists
  /\ exists \ tracked \subseteq Legacy
  /\ recorded = [s \in Schemas |->
       IF s \in tracked THEN {f \in Files : made[s][f] = "whole"} ELSE {}]
  /\ \A s \in Schemas :
       /\ s \notin exists => made[s] = Empty
       /\ s \in tracked => \E k \in 0..Last :
            made[s] = [f \in Files |-> IF f <= k THEN "whole" ELSE "absent"]
  /\ lock = [s \in Schemas |-> NoOne]
  /\ at = [r \in Runners |-> "none"]
  /\ listed = [r \in Runners |-> {}]
  /\ todo = [r \in Runners |-> {}]
  /\ now = [r \in Runners |-> NoSchema]
  /\ known = [r \in Runners |-> {}]
  /\ baseline = [r \in Runners |-> {}]
  /\ file = [r \in Runners |-> 1]
  /\ succeeded = [r \in Runners |-> {}]
  /\ failed = [r \in Runners |-> {}]
  /\ dropped = {}
  /\ repeated = {}
  /\ disordered = {}
  /\ mishaps = 0

Move(r, place) == at' = [at EXCEPT ![r] = place]
LeaveSchema(r) ==
  /\ now' = [now EXCEPT ![r] = NoSchema]
  /\ known' = [known EXCEPT ![r] = {}]
  /\ baseline' = [baseline EXCEPT ![r] = {}]
  /\ file' = [file EXCEPT ![r] = 1]

Mishap == mishaps < MaxMishaps /\ mishaps' = mishaps + 1

Release(r) == lock' = [s \in Schemas |-> IF lock[s] = r THEN NoOne ELSE lock[s]]

-----------------------------------------------------------------------------
(* The commands.                                                           *)

\* One SELECT of all tenants; those that are not active are skipped.
MigrateAllTenants(r) ==
  /\ at[r] = "none"
  /\ Move(r, "next")
  /\ listed' = [listed EXCEPT ![r] = {s \in Schemas : status[s] = "active"}]
  /\ todo' = [todo EXCEPT ![r] = listed'[r]]
  /\ UNCHANGED <<database, lock, plan, succeeded, failed, history>>

\* Provisioning migrates the schema of its own tenant, and no other runner does.
ProvisionTenantSchema(r, s) ==
  /\ at[r] = "none"
  /\ status[s] = "new"
  /\ \A q \in Runners : s \notin listed[q]
  /\ Move(r, "next")
  /\ listed' = [listed EXCEPT ![r] = {s}]
  /\ todo' = [todo EXCEPT ![r] = listed'[r]]
  /\ UNCHANGED <<database, lock, plan, succeeded, failed, history>>

\* The tenants come in the order of their creation, which is any order here.
NextTenant(r, s) ==
  /\ at[r] = "next"
  /\ s \in todo[r]
  /\ todo' = [todo EXCEPT ![r] = @ \ {s}]
  /\ now' = [now EXCEPT ![r] = s]
  /\ Move(r, "schema")
  /\ UNCHANGED <<database, lock, known, baseline, file, listed, succeeded, failed, history>>

\* The summary; provisioning makes its tenant active, or gives it up.
EndOfRun(r) ==
  /\ at[r] = "next"
  /\ todo[r] = {}
  /\ Move(r, "over")
  /\ status' = [s \in Schemas |->
       IF status[s] = "new" /\ s \in listed[r]
       THEN IF s \in succeeded[r] THEN "active" ELSE "closed"
       ELSE status[s]]
  /\ UNCHANGED <<exists, made, tracked, recorded, lock, plan, outcome, history>>

-----------------------------------------------------------------------------
(* applySchemaMigrations.                                                  *)

CreateSchema(r) ==
  /\ at[r] = "schema"
  /\ exists' = exists \union {now[r]}
  /\ Move(r, "plan")
  /\ UNCHANGED <<status, made, tracked, recorded, lock, plan, outcome, history>>

ReadApplied(r) ==
  /\ at[r] = "plan"
  /\ known' = [known EXCEPT ![r] = recorded[now[r]]]
  /\ Move(r, "probe")
  /\ UNCHANGED <<database, lock, now, baseline, file, outcome, history>>

\* Wrong on purpose: one object of a file stands for all of them.
AnyProbeExists(s, f) == made[s][f] # "absent"

AllProbesExist(s, f) == made[s][f] = "whole"

\* Baseline only on first adoption: nothing recorded when the rows were read.
ProbeMarkers(r) ==
  /\ at[r] = "probe"
  /\ baseline' = [baseline EXCEPT ![r] =
       IF known[r] = {} /\ now[r] \in exists THEN {f \in Files : AllProbesExist(now[r], f)} ELSE {}]
  /\ Move(r, "table")
  /\ UNCHANGED <<database, lock, now, known, file, outcome, history>>

CreateTable(r) ==
  /\ at[r] = "table"
  /\ now[r] \in exists
  /\ tracked' = tracked \union {now[r]}
  /\ Move(r, "baseline")
  /\ UNCHANGED <<status, exists, made, recorded, lock, plan, outcome, history>>

\* The first file from f on that the plan does not skip.
FileToRun(r, f) == Min({g \in f..Last + 1 : g \notin known[r] \union baseline[r]})

\* One transaction, ON CONFLICT DO NOTHING.
RecordBaseline(r) ==
  /\ at[r] = "baseline"
  /\ baseline[r] = {} \/ now[r] \in tracked
  /\ recorded' = [recorded EXCEPT ![now[r]] = @ \union baseline[r]]
  /\ file' = [file EXCEPT ![r] = FileToRun(r, 1)]
  /\ Move(r, "file")
  /\ UNCHANGED <<status, exists, made, tracked, lock, now, known, baseline, outcome, history>>

\* BEGIN, and the advisory lock, which is waited for.
TakeLock(r) ==
  /\ at[r] = "file"
  /\ file[r] <= Last
  /\ lock[now[r]] = NoOne
  /\ lock' = [lock EXCEPT ![now[r]] = r]
  /\ Move(r, "recheck")
  /\ UNCHANGED <<database, plan, outcome, history>>

\* Wrong on purpose: the lock alone is trusted.
TrustTheLock(r) ==
  /\ at[r] = "recheck"
  /\ now[r] \in tracked
  /\ Move(r, "run")
  /\ UNCHANGED <<database, lock, plan, outcome, history>>

\* The version is looked for again: it has to be run ...
Recheck(r) ==
  /\ at[r] = "recheck"
  /\ now[r] \in tracked
  /\ file[r] \notin recorded[now[r]]
  /\ Move(r, "run")
  /\ UNCHANGED <<database, lock, plan, outcome, history>>

\* ... or another runner has run it.
AlreadyThere(r) ==
  /\ at[r] = "recheck"
  /\ now[r] \in tracked
  /\ file[r] \in recorded[now[r]]
  /\ Release(r)
  /\ file' = [file EXCEPT ![r] = FileToRun(r, @ + 1)]
  /\ Move(r, "file")
  /\ UNCHANGED <<database, now, known, baseline, outcome, history>>

\* The file, its row and COMMIT.
RunFile(r) ==
  /\ at[r] = "run"
  /\ made' = [made EXCEPT ![now[r]] = [@ EXCEPT ![file[r]] = "whole"]]
  /\ recorded' = [recorded EXCEPT ![now[r]] = @ \union {file[r]}]
  /\ repeated' = repeated \union {s \in {now[r]} : file[r] \in recorded[s]}
  /\ disordered' = disordered \union {s \in {now[r]} : \E f \in 1..file[r] - 1 : made[s][f] # "whole"}
  /\ Release(r)
  /\ file' = [file EXCEPT ![r] = FileToRun(r, @ + 1)]
  /\ Move(r, "file")
  /\ UNCHANGED <<status, exists, tracked, now, known, baseline, outcome, dropped>>

FilesDone(r) ==
  /\ at[r] = "file"
  /\ file[r] > Last
  /\ succeeded' = [succeeded EXCEPT ![r] = @ \union {now[r]}]
  /\ LeaveSchema(r)
  /\ Move(r, "next")
  /\ UNCHANGED <<database, lock, listed, todo, failed, history>>

\* Wrong on purpose: nobody catches the error of a tenant.
EndWithError(r) ==
  /\ at[r] \in {"schema", "plan", "probe", "table", "baseline", "file", "recheck", "run"}
  /\ Release(r)
  /\ LeaveSchema(r)
  /\ Move(r, "over")
  /\ UNCHANGED <<database, outcome, history>>

\* A statement fails: ROLLBACK, and the next tenant.
SchemaFails(r) ==
  /\ at[r] \in {"schema", "plan", "probe", "table", "baseline", "file", "recheck", "run"}
  /\ Release(r)
  /\ failed' = [failed EXCEPT ![r] = @ \union {now[r]}]
  /\ LeaveSchema(r)
  /\ Move(r, "next")
  /\ UNCHANGED <<database, listed, todo, succeeded, history>>

\* The process dies, and its connection with it.
RunnerDies(r) ==
  /\ at[r] \notin {"none", "over", "dead"}
  /\ Release(r)
  /\ LeaveSchema(r)
  /\ Move(r, "dead")
  /\ UNCHANGED <<database, outcome, history>>

-----------------------------------------------------------------------------
(* The end of a tenant, which TenantLifecycle has in detail.               *)

CloseTenant(s) ==
  /\ status[s] = "active"
  /\ status' = [status EXCEPT ![s] = "closed"]
  /\ UNCHANGED <<exists, made, tracked, recorded, lock, at, plan, outcome, history>>

\* DROP SCHEMA, which waits for a transaction that has read the table.
DropSchema(s) ==
  /\ status[s] = "closed"
  /\ s \in exists
  /\ \A r \in Runners : ~(at[r] = "run" /\ now[r] = s)
  /\ exists' = exists \ {s}
  /\ tracked' = tracked \ {s}
  /\ made' = [made EXCEPT ![s] = Empty]
  /\ recorded' = [recorded EXCEPT ![s] = {}]
  /\ dropped' = dropped \union {s}
  /\ UNCHANGED <<status, lock, at, plan, outcome, repeated, disordered>>

-----------------------------------------------------------------------------
\* A statement that cannot do anything but fail: the schema, or its table, is gone.
HasToFail(r) ==
  \/ at[r] = "table" /\ now[r] \notin exists
  \/ at[r] \in {"baseline", "recheck"} /\ now[r] \notin tracked

RunnerStep(r) ==
  \/ \E s \in Schemas : NextTenant(r, s)
  \/ EndOfRun(r)
  \/ CreateSchema(r)
  \/ ReadApplied(r)
  \/ ProbeMarkers(r)
  \/ CreateTable(r)
  \/ RecordBaseline(r)
  \/ TakeLock(r)
  \/ Recheck(r)
  \/ AlreadyThere(r)
  \/ RunFile(r)
  \/ FilesDone(r)
  \/ HasToFail(r) /\ SchemaFails(r)

GoOn(r) == RunnerStep(r) /\ UNCHANGED mishaps

Begin(r) ==
  /\ MigrateAllTenants(r) \/ \E s \in Schemas : ProvisionTenantSchema(r, s)
  /\ UNCHANGED mishaps

GoWrong ==
  /\ Mishap
  /\ \/ \E r \in Runners : SchemaFails(r) \/ RunnerDies(r)
     \/ \E s \in Schemas : CloseTenant(s)

Next ==
  \/ \E r \in Runners : Begin(r) \/ GoOn(r)
  \/ \E s \in Schemas : DropSchema(s) /\ UNCHANGED mishaps
  \/ GoWrong

Spec == Init /\ [][Next]_vars

-----------------------------------------------------------------------------
(* What must hold of schemas that nobody drops.                            *)

Kept == Schemas \ dropped

\* A recorded version has every object of its file, baselined ones included,
\* whatever was in place before versions were recorded.
RecordedIsMade == \A s \in Kept : \A f \in recorded[s] : made[s][f] = "whole"

\* "Keeps two runners from applying the same version twice", and a file runs when
\* every file before it is in place; and the lock that sees to it is held only inside
\* a transaction of a runner that lives, whatever failed or died, so nobody waits for
\* ever.  (The types come with it.)
FilesRunOnceInOrder ==
  /\ TypeOK
  /\ Kept \intersect (repeated \union disordered) = {}
  /\ \A s \in Schemas : \A r \in Runners :
       lock[s] = r => at[r] \in {"recheck", "run"} /\ now[r] = s

\* "OK": the tenant has every file, run or baselined, by whichever runner.  And
\* "continuing past failures": a run that comes to its end has an outcome for
\* every tenant it listed, wherever it failed.
OutcomesAreTrue ==
  \A r \in Runners :
    /\ \A s \in succeeded[r] \intersect Kept : recorded[s] = Files
    /\ at[r] = "over" => succeeded[r] \union failed[r] = listed[r]
=============================================================================
