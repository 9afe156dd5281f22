----------------------- MODULE TenantLifecycleProofs -----------------------
(***************************************************************************)
(* What the tear-down promises, for any number of tenants and overlapping  *)
(* runs of the purge, and any lifetime shorter than the retention.  The    *)
(* argument: whoever is at work in a tenant began before its deletion was  *)
(* scheduled, so its age is at least what has passed of the retention, and *)
(* when the retention is over nobody is left.  From then on only the purge *)
(* touches the tenant, and a run of it never undoes what another did.      *)
(***************************************************************************)
EXTENDS TenantLifecycle, TLAPS

Idle(t) == \A p \in Processes : at[t][p] = "idle"

\* Due for the purge, or purged.
Over(t) ==
  \/ status[t] = "deprovisioned"
  \/ status[t] = "deprovisioning" /\ retain[t] = 0

\* Who is still at work in a tenant to be purged is as old as its deletion.
Aging(t) ==
  status[t] = "deprovisioning" =>
    \A p \in Processes : at[t][p] # "idle" => age[t][p] >= Retention - retain[t]

\* A purged tenant is empty and nobody works in it.
Purged(t) ==
  status[t] = "deprovisioned" =>
    Idle(t) /\ schema[t] = "none" /\ ~storage[t] /\ ~credential[t] /\ ~manifest[t]

\* What the creator has achieved when it is about to take a step.
Provisioned(t) ==
  /\ at[t]["creator"] \in {"manifest", "copy", "activate", "link"} => schema[t] = "ready"
  /\ at[t]["creator"] \in {"copy", "activate", "link"} => manifest[t]
  /\ at[t]["creator"] # "idle" => status[t] # "none"

\* A linked tenant has left its creator behind and keeps what it was given until
\* it is due.
Owned(t) ==
  linked[t] =>
    /\ status[t] # "none"
    /\ at[t]["creator"] = "idle"
    /\ status[t] # "deprovisioned" => manifest[t]
    /\ schema[t] = "ready" \/ Over(t)

TenantInv(t) == Aging(t) /\ Purged(t) /\ Provisioned(t) /\ Owned(t)

\* A run of the purge only holds tenants that are over, and what it has done of
\* one stays done.
PurgeInv(c) ==
  \A t \in Tenants :
    /\ t \in todo[c] \/ t \in current[c] => Over(t)
    /\ t \in current[c] /\ step[c] \in {"purge", "revoke", "mark"} => schema[t] = "none"
    /\ t \in current[c] /\ step[c] \in {"revoke", "mark"} => ~storage[t]
    /\ t \in current[c] /\ step[c] = "mark" => ~credential[t]

IInv ==
  /\ TypeOK
  /\ \A t \in Tenants : TenantInv(t)
  /\ \A c \in Crons : PurgeInv(c)

\* The empty registry satisfies the invariant.
LEMMA InitIInv == Init => IInv
<1> SUFFICES ASSUME Init PROVE IInv
  OBVIOUS
<1>1. TypeOK
  BY LifecycleAssumption DEF Init, TypeOK, Statuses, Places, Steps
<1>2. \A t \in Tenants : status[t] = "none" /\ ~linked[t] /\ at[t]["creator"] = "idle"
  BY DEF Init, Processes
<1>3. \A c \in Crons : todo[c] = {} /\ current[c] = {}
  BY DEF Init
<1> QED
  BY <1>1, <1>2, <1>3 DEF IInv, TenantInv, Aging, Purged, Provisioned, Owned, PurgeInv

\* Nobody is at work in a tenant that is due or purged.
LEMMA OverIsIdle ==
  ASSUME IInv, NEW t \in Tenants, Over(t)
  PROVE  Idle(t)
<1>1. CASE status[t] = "deprovisioned"
  BY <1>1 DEF IInv, TenantInv, Purged
<1>2. CASE status[t] = "deprovisioning" /\ retain[t] = 0
  <2>1. SUFFICES ASSUME NEW p \in Processes, at[t][p] # "idle" PROVE FALSE
    BY DEF Idle
  <2>2. age[t][p] >= Retention
    BY <1>2, <2>1, LifecycleAssumption DEF IInv, TenantInv, Aging
  <2>3. age[t][p] \in 0..Lifetime
    BY DEF IInv, TypeOK
  <2> QED
    BY <2>2, <2>3, LifecycleAssumption
<1> QED
  BY <1>1, <1>2 DEF Over

\* A step in one tenant, that nobody takes in a tenant that is over, and that
\* leaves the others and the purge alone.
StepIn(t) ==
  /\ UNCHANGED purge
  /\ \A u \in Tenants : u # t =>
       /\ status'[u] = status[u] /\ manifest'[u] = manifest[u] /\ retain'[u] = retain[u]
       /\ linked'[u] = linked[u] /\ schema'[u] = schema[u]
       /\ storage'[u] = storage[u] /\ credential'[u] = credential[u]
       /\ \A p \in Processes : at'[u][p] = at[u][p] /\ age'[u][p] = age[u][p]

\* Such a step keeps what is not about its own tenant.
LEMMA OthersKept ==
  ASSUME IInv, NEW t \in Tenants, StepIn(t), ~Over(t)
  PROVE  /\ \A u \in Tenants : u # t => TenantInv(u)'
         /\ \A c \in Crons : PurgeInv(c)'
<1>1. ASSUME NEW u \in Tenants, u # t PROVE TenantInv(u)'
  BY <1>1 DEF IInv, StepIn, TenantInv, Aging, Purged, Provisioned, Owned, Over, Idle, Processes
<1>2. ASSUME NEW c \in Crons PROVE PurgeInv(c)'
  BY <1>2 DEF IInv, StepIn, PurgeInv, Over, purge
<1> QED
  BY <1>1, <1>2

\* The tenants a request, a job or a command works in are not over.
LEMMA WorkersAreInTime ==
  ASSUME IInv, NEW t \in Tenants, NEW p \in Processes, at[t][p] # "idle"
  PROVE  ~Over(t)
BY OverIsIdle DEF Idle

\* A tenant that is not deleted, or not yet created, is not over.
LEMMA LiveIsNotOver ==
  ASSUME NEW t \in Tenants, ~Deleted(t)
  PROVE  ~Over(t)
BY DEF Deleted, Over

-----------------------------------------------------------------------------
\* The bounds lie in their own ranges.
LEMMA Bounds == 0 \in 0..Lifetime /\ Retention \in 0..Retention
BY LifecycleAssumption

\* Processes that move on or start keep the types of their places and ages.
LEMMA ProcessTypes ==
  ASSUME TypeOK, NEW t \in Tenants, NEW p \in Processes, NEW s \in Places,
         Goes(t, p, s) \/ Starts(t, p, s)
  PROVE  /\ at' \in [Tenants -> [Processes -> Places]]
         /\ age' \in [Tenants -> [Processes -> 0..Lifetime]]
<1>1. at' = [at EXCEPT ![t][p] = s]
  BY DEF Goes, Starts
<1>2. at' \in [Tenants -> [Processes -> Places]]
  BY <1>1 DEF TypeOK
<1>3. age' = age \/ age' = [age EXCEPT ![t][p] = 0]
  BY DEF Goes, Starts
<1>4. 0 \in 0..Lifetime
  BY LifecycleAssumption
<1>5. age' \in [Tenants -> [Processes -> 0..Lifetime]]
  <2>1. CASE age' = age
    BY <2>1 DEF TypeOK
  <2>2. CASE age' = [age EXCEPT ![t][p] = 0]
    BY <1>4, <2>2 DEF TypeOK
  <2> QED
    BY <1>3, <2>1, <2>2
<1> QED
  BY <1>2, <1>5

\* A process that moves on leaves the other processes where they are.
LEMMA Moves ==
  ASSUME TypeOK, NEW t \in Tenants, NEW p \in Processes, NEW s \in Places, Goes(t, p, s)
  PROVE  /\ at'[t][p] = s
         /\ \A q \in Processes : q # p => at'[t][q] = at[t][q]
         /\ age' = age
BY DEF TypeOK, Goes

\* Every step in a tenant keeps the types.
LEMMA TenantStepType ==
  ASSUME TypeOK, NEW t \in Tenants, CreatorStep(t) \/ TenantStep(t)
  PROVE  TypeOK'
<1> USE LifecycleAssumption DEF TypeOK, Statuses, Places, Processes, row, data, processes,
  purge, SetStatus
<1>1. ASSUME CreateTenantRecord(t) PROVE TypeOK'
  BY <1>1, ProcessTypes DEF CreateTenantRecord
<1>2. ASSUME ProvisionTenantSchema(t) PROVE TypeOK'
  <2>1. schema' = [schema EXCEPT ![t] = "partial"] \/ schema' = [schema EXCEPT ![t] = "ready"]
    BY <1>2 DEF ProvisionTenantSchema
  <2>2. UNCHANGED processes \/ Goes(t, "creator", "manifest")
    BY <1>2 DEF ProvisionTenantSchema
  <2>3. /\ at' \in [Tenants -> [Processes -> Places]]
        /\ age' \in [Tenants -> [Processes -> 0..Lifetime]]
    BY <2>2, ProcessTypes
  <2>4. schema' \in [Tenants -> {"none", "partial", "ready"}]
    BY <2>1
  <2> QED
    BY <1>2, <2>3, <2>4 DEF ProvisionTenantSchema
<1>3. ASSUME PersistManifest(t) PROVE TypeOK'
  BY <1>3, ProcessTypes DEF PersistManifest
<1>4. ASSUME CopyManifest(t) PROVE TypeOK'
  BY <1>4, ProcessTypes DEF CopyManifest
<1>5. ASSUME ActivateTenant(t) PROVE TypeOK'
  BY <1>5, ProcessTypes DEF ActivateTenant
<1>6. ASSUME LinkOwner(t) PROVE TypeOK'
  BY <1>6, ProcessTypes DEF LinkOwner
<1>7. ASSUME ProvisioningThrows(t) PROVE TypeOK'
  <2>1. /\ at' \in [Tenants -> [Processes -> Places]]
        /\ age' \in [Tenants -> [Processes -> 0..Lifetime]]
    BY <1>7, ProcessTypes DEF ProvisioningThrows
  <2>2. status' \in [Tenants -> Statuses] /\ manifest' \in [Tenants -> BOOLEAN]
    BY <1>7 DEF ProvisioningThrows
  <2> QED
    BY <1>7, <2>1, <2>2 DEF ProvisioningThrows
<1>8. ASSUME FailTenant(t) PROVE TypeOK'
  <2>1. Goes(t, "creator", "drop") \/ Goes(t, "creator", "fail again")
    BY <1>8 DEF FailTenant
  <2>2. /\ at' \in [Tenants -> [Processes -> Places]]
        /\ age' \in [Tenants -> [Processes -> 0..Lifetime]]
    BY <2>1, ProcessTypes
  <2>3. SetStatus(t, "failed") \/ UNCHANGED row
    BY <1>8 DEF FailTenant
  <2>4. status' \in [Tenants -> Statuses]
    BY <2>3
  <2> QED
    BY <1>8, <2>2, <2>3, <2>4 DEF FailTenant
<1>9. ASSUME RollBackSchema(t) PROVE TypeOK'
  <2>1. /\ at' \in [Tenants -> [Processes -> Places]]
        /\ age' \in [Tenants -> [Processes -> 0..Lifetime]]
    BY <1>9, ProcessTypes DEF RollBackSchema
  <2> QED
    BY <1>9, <2>1 DEF RollBackSchema
<1>10. ASSUME RollBackStorage(t) PROVE TypeOK'
  BY <1>10, ProcessTypes DEF RollBackStorage
<1>11. ASSUME Enter(t) PROVE TypeOK'
  BY <1>11, ProcessTypes DEF Enter
<1>12. ASSUME Work(t) PROVE TypeOK'
  BY <1>12, ProcessTypes DEF Work
<1>13. ASSUME AskForDeletion(t) PROVE TypeOK'
  BY <1>13, ProcessTypes DEF AskForDeletion
<1>14. ASSUME ApproveOrphan(t) PROVE TypeOK'
  BY <1>14, ProcessTypes DEF ApproveOrphan
<1>15. ASSUME NEW p \in {"delete", "cleanup"}, ScheduleDeletion(t, p) PROVE TypeOK'
  <2>1. /\ at' \in [Tenants -> [Processes -> Places]]
        /\ age' \in [Tenants -> [Processes -> 0..Lifetime]]
    BY <1>15, ProcessTypes DEF ScheduleDeletion
  <2>2. Retention \in 0..Retention
    BY Bounds
  <2>3. retain' \in [Tenants -> 0..Retention] /\ status' \in [Tenants -> Statuses]
    BY <1>15, <2>2 DEF ScheduleDeletion, Schedule
  <2> QED
    BY <1>15, <2>1, <2>3 DEF ScheduleDeletion, Schedule
<1>16. ASSUME NEW p \in Processes, Dies(t, p) PROVE TypeOK'
  BY <1>16, ProcessTypes DEF Dies
<1> QED
  BY <1>1, <1>2, <1>3, <1>4, <1>5, <1>6, <1>7, <1>8, <1>9, <1>10, <1>11, <1>12, <1>13,
    <1>14, <1>15, <1>16 DEF CreatorStep, TenantStep

\* A step in a tenant leaves the others alone.
LEMMA TenantStepIsLocal ==
  ASSUME TypeOK, NEW t \in Tenants, CreatorStep(t) \/ TenantStep(t)
  PROVE  StepIn(t)
<1> USE DEF StepIn, TypeOK, Processes, row, data, processes, Goes, Starts, SetStatus
<1>1. ASSUME CreateTenantRecord(t) PROVE StepIn(t)
  BY <1>1 DEF CreateTenantRecord
<1>2. ASSUME ProvisionTenantSchema(t) PROVE StepIn(t)
  BY <1>2 DEF ProvisionTenantSchema
<1>3. ASSUME PersistManifest(t) PROVE StepIn(t)
  BY <1>3 DEF PersistManifest
<1>4. ASSUME CopyManifest(t) PROVE StepIn(t)
  BY <1>4 DEF CopyManifest
<1>5. ASSUME ActivateTenant(t) PROVE StepIn(t)
  BY <1>5 DEF ActivateTenant
<1>6. ASSUME LinkOwner(t) PROVE StepIn(t)
  BY <1>6 DEF LinkOwner
<1>7. ASSUME ProvisioningThrows(t) PROVE StepIn(t)
  BY <1>7 DEF ProvisioningThrows
<1>8. ASSUME FailTenant(t) PROVE StepIn(t)
  BY <1>8 DEF FailTenant
<1>9. ASSUME RollBackSchema(t) PROVE StepIn(t)
  BY <1>9 DEF RollBackSchema
<1>10. ASSUME RollBackStorage(t) PROVE StepIn(t)
  BY <1>10 DEF RollBackStorage
<1>11. ASSUME Enter(t) PROVE StepIn(t)
  BY <1>11 DEF Enter
<1>12. ASSUME Work(t) PROVE StepIn(t)
  BY <1>12 DEF Work
<1>13. ASSUME AskForDeletion(t) PROVE StepIn(t)
  BY <1>13 DEF AskForDeletion
<1>14. ASSUME ApproveOrphan(t) PROVE StepIn(t)
  BY <1>14 DEF ApproveOrphan
<1>15. ASSUME NEW p \in {"delete", "cleanup"}, ScheduleDeletion(t, p) PROVE StepIn(t)
  BY <1>15 DEF ScheduleDeletion, Schedule
<1>16. ASSUME NEW p \in Processes, Dies(t, p) PROVE StepIn(t)
  BY <1>16 DEF Dies
<1> QED
  BY <1>1, <1>2, <1>3, <1>4, <1>5, <1>6, <1>7, <1>8, <1>9, <1>10, <1>11, <1>12, <1>13,
    <1>14, <1>15, <1>16 DEF CreatorStep, TenantStep

\* Nobody takes a step in a tenant that is over.
LEMMA TenantStepIsInTime ==
  ASSUME IInv, NEW t \in Tenants, CreatorStep(t) \/ TenantStep(t)
  PROVE  ~Over(t)
<1>1. ASSUME CreateTenantRecord(t) PROVE ~Over(t)
  BY <1>1 DEF CreateTenantRecord, Over
<1>2. ASSUME ProvisionTenantSchema(t) PROVE ~Over(t)
  BY <1>2, WorkersAreInTime DEF ProvisionTenantSchema, Processes
<1>3. ASSUME PersistManifest(t) PROVE ~Over(t)
  BY <1>3, WorkersAreInTime DEF PersistManifest, Processes
<1>4. ASSUME CopyManifest(t) PROVE ~Over(t)
  BY <1>4, WorkersAreInTime DEF CopyManifest, Processes
<1>5. ASSUME ActivateTenant(t) PROVE ~Over(t)
  BY <1>5, WorkersAreInTime DEF ActivateTenant, Processes
<1>6. ASSUME LinkOwner(t) PROVE ~Over(t)
  BY <1>6, WorkersAreInTime DEF LinkOwner, Processes
<1>7. ASSUME ProvisioningThrows(t) PROVE ~Over(t)
  BY <1>7, WorkersAreInTime DEF ProvisioningThrows, Processes
<1>8. ASSUME FailTenant(t) PROVE ~Over(t)
  BY <1>8, WorkersAreInTime DEF FailTenant, Processes
<1>9. ASSUME RollBackSchema(t) PROVE ~Over(t)
  BY <1>9, WorkersAreInTime DEF RollBackSchema, Processes
<1>10. ASSUME RollBackStorage(t) PROVE ~Over(t)
  BY <1>10, WorkersAreInTime DEF RollBackStorage, Processes
<1>11. ASSUME Enter(t) PROVE ~Over(t)
  BY <1>11, LiveIsNotOver DEF Enter
<1>12. ASSUME Work(t) PROVE ~Over(t)
  BY <1>12, WorkersAreInTime DEF Work, Processes
<1>13. ASSUME AskForDeletion(t) PROVE ~Over(t)
  BY <1>13, LiveIsNotOver DEF AskForDeletion
<1>14. ASSUME ApproveOrphan(t) PROVE ~Over(t)
  BY <1>14, LiveIsNotOver DEF ApproveOrphan, OrphanCandidate
<1>15. ASSUME NEW p \in {"delete", "cleanup"}, ScheduleDeletion(t, p) PROVE ~Over(t)
  BY <1>15, WorkersAreInTime DEF ScheduleDeletion, Processes
<1>16. ASSUME NEW p \in Processes, Dies(t, p) PROVE ~Over(t)
  BY <1>16, WorkersAreInTime DEF Dies
<1> QED
  BY <1>1, <1>2, <1>3, <1>4, <1>5, <1>6, <1>7, <1>8, <1>9, <1>10, <1>11, <1>12, <1>13,
    <1>14, <1>15, <1>16 DEF CreatorStep, TenantStep

\* Every step in a tenant keeps that tenant's invariant.
LEMMA TenantStepKeeps ==
  ASSUME IInv, NEW t \in Tenants, CreatorStep(t) \/ TenantStep(t), ~Over(t)
  PROVE  TenantInv(t)'
<1> USE LifecycleAssumption DEF IInv, TypeOK, TenantInv, Aging, Purged, Provisioned, Owned,
  Over, Idle, Deleted, OrphanCandidate, Processes, row, data, processes, Goes, Starts,
  SetStatus
<1>1. ASSUME CreateTenantRecord(t) PROVE TenantInv(t)'
  BY <1>1 DEF CreateTenantRecord
<1>2. ASSUME ProvisionTenantSchema(t) PROVE TenantInv(t)'
  BY <1>2 DEF ProvisionTenantSchema
<1>3. ASSUME PersistManifest(t) PROVE TenantInv(t)'
  BY <1>3 DEF PersistManifest
<1>4. ASSUME CopyManifest(t) PROVE TenantInv(t)'
  BY <1>4 DEF CopyManifest
<1>5. ASSUME ActivateTenant(t) PROVE TenantInv(t)'
  BY <1>5 DEF ActivateTenant
<1>6. ASSUME LinkOwner(t) PROVE TenantInv(t)'
  BY <1>6 DEF LinkOwner
<1>7. ASSUME ProvisioningThrows(t) PROVE TenantInv(t)'
  BY <1>7 DEF ProvisioningThrows
<1>8. ASSUME FailTenant(t) PROVE TenantInv(t)'
  <2>1. /\ at[t]["creator"] \in {"fail", "fail again"}
        /\ Goes(t, "creator", "drop") \/ Goes(t, "creator", "fail again")
    BY <1>8 DEF FailTenant
  <2>2. /\ at'[t]["creator"] \in {"drop", "fail again"}
        /\ \A p \in Processes : p # "creator" => at'[t][p] = at[t][p]
        /\ age' = age
    <3> HIDE DEF Goes
    <3> QED
      BY <2>1, Moves DEF Places
  <2>3. status'[t] \in {status[t], "failed"}
    BY <1>8 DEF FailTenant
  <2>4. ~linked[t] /\ status[t] # "none"
    BY <2>1
  <2>5. UNCHANGED <<manifest, retain, linked, data>>
    BY <1>8 DEF FailTenant
  <2> QED
    BY <2>1, <2>2, <2>3, <2>4, <2>5
<1>9. ASSUME RollBackSchema(t) PROVE TenantInv(t)'
  BY <1>9 DEF RollBackSchema
<1>10. ASSUME RollBackStorage(t) PROVE TenantInv(t)'
  BY <1>10 DEF RollBackStorage
<1>11. ASSUME Enter(t) PROVE TenantInv(t)'
  BY <1>11 DEF Enter
<1>12. ASSUME Work(t) PROVE TenantInv(t)'
  BY <1>12 DEF Work
<1>13. ASSUME AskForDeletion(t) PROVE TenantInv(t)'
  BY <1>13 DEF AskForDeletion
<1>14. ASSUME ApproveOrphan(t) PROVE TenantInv(t)'
  BY <1>14 DEF ApproveOrphan
<1>15. ASSUME NEW p \in {"delete", "cleanup"}, ScheduleDeletion(t, p) PROVE TenantInv(t)'
  BY <1>15 DEF ScheduleDeletion, Schedule
<1>16. ASSUME NEW p \in Processes, Dies(t, p) PROVE TenantInv(t)'
  BY <1>16 DEF Dies
<1> QED
  BY <1>1, <1>2, <1>3, <1>4, <1>5, <1>6, <1>7, <1>8, <1>9, <1>10, <1>11, <1>12, <1>13,
    <1>14, <1>15, <1>16 DEF CreatorStep, TenantStep

-----------------------------------------------------------------------------
\* A tenant whose row, data, owner and processes stay as they are keeps its invariant.
LEMMA SameTenant ==
  ASSUME IInv, NEW t \in Tenants, UNCHANGED <<row, linked, data, processes>>
  PROVE  TenantInv(t)'
BY DEF IInv, TenantInv, Aging, Purged, Provisioned, Owned, Over, Idle, row, data, processes

\* What a run of the purge takes from a tenant that is over, the invariant does not
\* ask for.
LEMMA TearDownKeepsTenants ==
  ASSUME IInv, NEW t \in Tenants, Over(t), UNCHANGED <<linked, processes, retain>>,
         Over(t)', status'[t] # "none", status[t] = "deprovisioned" => status'[t] =
           "deprovisioned",
         status'[t] = "deprovisioned" =>
           schema'[t] = "none" /\ ~storage'[t] /\ ~credential'[t] /\ ~manifest'[t],
         status'[t] # "deprovisioned" => manifest'[t] = manifest[t]
  PROVE  TenantInv(t)'
<1>1. Idle(t)
  BY OverIsIdle
<1>2. Idle(t)'
  BY <1>1 DEF Idle, processes
<1>3. at'[t]["creator"] = "idle"
  BY <1>2 DEF Idle, Processes
<1>4. linked'[t] => linked[t] /\ (status[t] # "deprovisioned" => manifest[t])
  BY DEF IInv, TenantInv, Owned
<1>5. Aging(t)'
  BY <1>2 DEF Aging, Idle
<1>6. Purged(t)'
  BY <1>2 DEF Purged
<1>7. Provisioned(t)'
  BY <1>3 DEF Provisioned
<1>8. Owned(t)'
  BY <1>3, <1>4 DEF Owned
<1> QED
  BY <1>5, <1>6, <1>7, <1>8 DEF TenantInv

\* Every step of a run of the purge keeps the types.
LEMMA PurgeStepType ==
  ASSUME TypeOK, NEW c \in Crons, PurgeStep(c)
  PROVE  TypeOK'
<1> USE DEF TypeOK, row, data, processes, Statuses, Steps
<1>1. CASE SelectDue(c)
  BY <1>1 DEF SelectDue, Due
<1>2. CASE TakeNext(c)
  BY <1>2 DEF TakeNext
<1>3. ASSUME NEW t \in Tenants, DropSchema(c, t) PROVE TypeOK'
  BY <1>3 DEF DropSchema
<1>4. ASSUME NEW t \in Tenants, PurgeStorage(c, t) PROVE TypeOK'
  BY <1>4 DEF PurgeStorage
<1>5. ASSUME NEW t \in Tenants, RevokeCredentials(c, t) PROVE TypeOK'
  BY <1>5 DEF RevokeCredentials
<1>6. ASSUME NEW t \in Tenants, MarkDeprovisioned(c, t) PROVE TypeOK'
  BY <1>6 DEF MarkDeprovisioned
<1>7. CASE PurgeStops(c)
  BY <1>7 DEF PurgeStops
<1> QED
  BY <1>1, <1>2, <1>3, <1>4, <1>5, <1>6, <1>7 DEF PurgeStep, TearDownStep

\* Every step of a run of the purge keeps the tenants' invariant.
LEMMA PurgeStepKeepsTenants ==
  ASSUME IInv, NEW c \in Crons, PurgeStep(c), NEW u \in Tenants
  PROVE  TenantInv(u)'
<1> USE DEF IInv, TypeOK, row, data, PurgeInv, Over
<1>1. CASE SelectDue(c)
  BY <1>1, SameTenant DEF SelectDue
<1>2. CASE TakeNext(c)
  BY <1>2, SameTenant DEF TakeNext
<1>3. ASSUME NEW t \in Tenants, DropSchema(c, t) PROVE TenantInv(u)'
  <2>1. Over(t)
    BY <1>3 DEF DropSchema
  <2>2. CASE u = t
    BY <1>3, <2>1, <2>2, TearDownKeepsTenants DEF DropSchema, TenantInv, Purged
  <2>3. CASE u # t
    BY <1>3, <2>3 DEF DropSchema, TenantInv, Aging, Purged, Provisioned, Owned, Idle, processes
  <2> QED
    BY <2>2, <2>3
<1>4. ASSUME NEW t \in Tenants, PurgeStorage(c, t) PROVE TenantInv(u)'
  <2>1. Over(t)
    BY <1>4 DEF PurgeStorage
  <2>2. CASE u = t
    BY <1>4, <2>1, <2>2, TearDownKeepsTenants DEF PurgeStorage, TenantInv, Purged
  <2>3. CASE u # t
    BY <1>4, <2>3 DEF PurgeStorage, TenantInv, Aging, Purged, Provisioned, Owned, Idle,
      processes
  <2> QED
    BY <2>2, <2>3
<1>5. ASSUME NEW t \in Tenants, RevokeCredentials(c, t) PROVE TenantInv(u)'
  <2>1. Over(t)
    BY <1>5 DEF RevokeCredentials
  <2>2. CASE u = t
    BY <1>5, <2>1, <2>2, TearDownKeepsTenants DEF RevokeCredentials, TenantInv, Purged
  <2>3. CASE u # t
    BY <1>5, <2>3 DEF RevokeCredentials, TenantInv, Aging, Purged, Provisioned, Owned, Idle,
      processes
  <2> QED
    BY <2>2, <2>3
<1>6. ASSUME NEW t \in Tenants, MarkDeprovisioned(c, t) PROVE TenantInv(u)'
  <2>1. Over(t) /\ schema[t] = "none" /\ ~storage[t] /\ ~credential[t]
    BY <1>6 DEF MarkDeprovisioned
  <2>2. CASE u = t
    BY <1>6, <2>1, <2>2, TearDownKeepsTenants DEF MarkDeprovisioned
  <2>3. CASE u # t
    BY <1>6, <2>3 DEF MarkDeprovisioned, TenantInv, Aging, Purged, Provisioned, Owned, Idle,
      processes
  <2> QED
    BY <2>2, <2>3
<1>7. CASE PurgeStops(c)
  BY <1>7, SameTenant DEF PurgeStops
<1> QED
  BY <1>1, <1>2, <1>3, <1>4, <1>5, <1>6, <1>7 DEF PurgeStep, TearDownStep

\* Every step of a run of the purge keeps what every run has done and has to do.
LEMMA PurgeStepKeepsRuns ==
  ASSUME IInv, NEW c \in Crons, PurgeStep(c), NEW d \in Crons
  PROVE  PurgeInv(d)'
<1> USE DEF IInv, TypeOK, row, data, PurgeInv, Over
<1>1. CASE SelectDue(c)
  BY <1>1 DEF SelectDue, Due
<1>2. CASE TakeNext(c)
  BY <1>2 DEF TakeNext
<1>3. ASSUME NEW t \in Tenants, DropSchema(c, t) PROVE PurgeInv(d)'
  BY <1>3 DEF DropSchema
<1>4. ASSUME NEW t \in Tenants, PurgeStorage(c, t) PROVE PurgeInv(d)'
  BY <1>4 DEF PurgeStorage
<1>5. ASSUME NEW t \in Tenants, RevokeCredentials(c, t) PROVE PurgeInv(d)'
  BY <1>5 DEF RevokeCredentials
<1>6. ASSUME NEW t \in Tenants, MarkDeprovisioned(c, t) PROVE PurgeInv(d)'
  BY <1>6 DEF MarkDeprovisioned
<1>7. CASE PurgeStops(c)
  BY <1>7 DEF PurgeStops
<1> QED
  BY <1>1, <1>2, <1>3, <1>4, <1>5, <1>6, <1>7 DEF PurgeStep, TearDownStep

\* Time passing keeps the invariant: ages grow as the retention shrinks.
LEMMA TickKeeps ==
  ASSUME IInv, Tick
  PROVE  IInv'
<1>1. TypeOK'
  <2>1. ASSUME NEW t \in Tenants, NEW p \in Processes
        PROVE  (IF at[t][p] = "idle" THEN age[t][p] ELSE age[t][p] + 1) \in 0..Lifetime
    BY LifecycleAssumption DEF IInv, TypeOK, Tick
  <2>2. age' \in [Tenants -> [Processes -> 0..Lifetime]]
    BY <2>1 DEF Tick
  <2>3. ASSUME NEW t \in Tenants
        PROVE  (IF retain[t] = 0 THEN 0 ELSE retain[t] - 1) \in 0..Retention
    <3>1. retain[t] \in 0..Retention
      BY DEF IInv, TypeOK
    <3> QED
      BY <3>1, LifecycleAssumption
  <2>4. retain' \in [Tenants -> 0..Retention]
    BY <2>3 DEF Tick
  <2> QED
    BY <2>2, <2>4 DEF IInv, TypeOK, Tick, data, purge
<1>2. ASSUME NEW t \in Tenants, Over(t) PROVE Over(t)'
  BY <1>2 DEF Over, Tick
<1>3. ASSUME NEW t \in Tenants PROVE TenantInv(t)'
  <2>1. Aging(t)'
    <3>1. SUFFICES ASSUME status[t] = "deprovisioning", NEW p \in Processes, at[t][p] # "idle"
                   PROVE  age'[t][p] >= Retention - retain'[t]
      BY DEF Aging, Tick
    <3>2. /\ age[t][p] \in 0..Lifetime /\ age[t][p] >= Retention - retain[t]
          /\ retain[t] \in 0..Retention
      BY <3>1 DEF IInv, TenantInv, Aging, TypeOK
    <3>3. age'[t][p] = age[t][p] + 1
      BY <3>1 DEF Tick
    <3>4. (retain[t] = 0 /\ retain'[t] = 0) \/ retain'[t] = retain[t] - 1
      BY DEF Tick
    <3> QED
      BY <3>2, <3>3, <3>4, LifecycleAssumption
  <2>2. Purged(t)' /\ Provisioned(t)'
    BY DEF IInv, TenantInv, Purged, Provisioned, Idle, Tick, data
  <2>3. Owned(t)'
    BY <1>2 DEF IInv, TenantInv, Owned, Tick, data
  <2> QED
    BY <2>1, <2>2, <2>3 DEF TenantInv
<1>4. ASSUME NEW c \in Crons PROVE PurgeInv(c)'
  BY <1>2 DEF IInv, PurgeInv, Tick, purge, data
<1> QED
  BY <1>1, <1>3, <1>4 DEF IInv

\* The invariant is inductive.
LEMMA NextKeeps ==
  ASSUME IInv, [Next]_vars
  PROVE  IInv'
<1>1. ASSUME NEW t \in Tenants, CreatorStep(t) \/ TenantStep(t) PROVE IInv'
  <2>1. ~Over(t)
    BY <1>1, TenantStepIsInTime
  <2>2. TypeOK'
    BY <1>1, TenantStepType DEF IInv
  <2>3. StepIn(t)
    BY <1>1, TenantStepIsLocal DEF IInv
  <2>4. TenantInv(t)'
    BY <1>1, <2>1, TenantStepKeeps
  <2> QED
    BY <2>1, <2>2, <2>3, <2>4, OthersKept DEF IInv
<1>2. ASSUME NEW c \in Crons, PurgeStep(c) PROVE IInv'
  BY <1>2, PurgeStepType, PurgeStepKeepsTenants, PurgeStepKeepsRuns DEF IInv
<1>3. CASE Tick
  BY <1>3, TickKeeps
<1>4. CASE UNCHANGED vars
  BY <1>4 DEF vars, row, data, processes, purge, IInv, TypeOK, TenantInv, Aging, Purged,
    Provisioned, Owned, Over, Idle, PurgeInv
<1> QED
  BY <1>1, <1>2, <1>3, <1>4 DEF Next

\* Everything on the way to tear-down stays consistent throughout.
THEOREM InductiveInvariant == Spec => []IInv
BY InitIInv, NextKeeps, PTL DEF Spec

\* Every variable keeps its type; no retention outlasts its setting.
THEOREM TypeCorrect == Spec => []TypeOK
<1>1. IInv => TypeOK
  BY DEF IInv
<1> QED
  BY <1>1, InductiveInvariant, PTL

\* A tenant marked 'deprovisioned' is empty and stays so, and its manifest goes last.
THEOREM TearDownIsComplete == Spec => []TornDownCompletely
<1>1. IInv => TornDownCompletely
  BY DEF IInv, TenantInv, Purged, Owned, TornDownCompletely
<1> QED
  BY <1>1, InductiveInvariant, PTL

\* A workspace its owner can open is whole.
THEOREM LiveWorkspacesAreWhole == Spec => []LiveWorkspaceIsWhole
<1>1. IInv => LiveWorkspaceIsWhole
  BY LiveIsNotOver DEF IInv, TenantInv, Owned, LiveWorkspaceIsWhole, Deleted
<1> QED
  BY <1>1, InductiveInvariant, PTL

\* The steps that can take something of a workspace, or its being deleted, away.
LEMMA LinkedSteps ==
  ASSUME IInv, [Next]_vars, NEW t \in Tenants, linked[t]
  PROVE  /\ Takes(t) => status[t] = "deprovisioning" /\ retain[t] = 0
         /\ Deleted(t) => Deleted(t)'
<1> DEFINE Goal == /\ Takes(t) => status[t] = "deprovisioning" /\ retain[t] = 0
                   /\ Deleted(t) => Deleted(t)'
<1>1. at[t]["creator"] = "idle" /\ status[t] # "none"
  BY DEF IInv, TenantInv, Owned
<1>2. ASSUME NEW u \in Tenants, CreatorStep(u) \/ TenantStep(u) PROVE Goal
  <2>1. CASE u # t
    BY <1>2, <2>1, TenantStepIsLocal DEF IInv, StepIn, Deleted, Takes
  <2>2. CASE u = t /\ CreatorStep(t)
    BY <1>1, <2>2 DEF CreatorStep, CreateTenantRecord, ProvisionTenantSchema,
      PersistManifest, CopyManifest, ActivateTenant, LinkOwner, ProvisioningThrows,
      FailTenant, RollBackSchema, RollBackStorage
  <2>3. CASE u = t /\ TenantStep(t)
    <3>1. \/ status' = status
          \/ status' = [status EXCEPT ![t] = "deprovisioning"]
      BY <2>3 DEF TenantStep, Enter, Work, AskForDeletion, ApproveOrphan, ScheduleDeletion,
        Schedule, Dies, row
    <3>2. Deleted(t) => Deleted(t)'
      BY <3>1 DEF Deleted, IInv, TypeOK
    <3>3. CASE Work(t)
      BY <3>2, <3>3 DEF Work, Takes, IInv, TypeOK
    <3>4. CASE ~Work(t)
      <4>1. UNCHANGED data
        BY <2>3, <3>4 DEF TenantStep, Enter, AskForDeletion, ApproveOrphan,
          ScheduleDeletion, Dies
      <4> QED
        BY <3>2, <4>1 DEF data, Takes
    <3> QED
      BY <3>3, <3>4
  <2> QED
    BY <1>2, <2>1, <2>2, <2>3
<1>3. ASSUME NEW c \in Crons, PurgeStep(c) PROVE Goal
  <2>1. CASE UNCHANGED <<row, data>>
    BY <2>1 DEF Deleted, row, data, Takes
  <2>2. ASSUME NEW u \in Tenants,
               DropSchema(c, u) \/ PurgeStorage(c, u) \/ RevokeCredentials(c, u)
        PROVE  Goal
    <3>1. Over(u) /\ status' = status
      BY <2>2 DEF DropSchema, PurgeStorage, RevokeCredentials, IInv, PurgeInv, TypeOK, row
    <3>2. u # t => ~Takes(t)
      BY <2>2 DEF DropSchema, PurgeStorage, RevokeCredentials, Takes, IInv, TypeOK
    <3>3. u = t /\ Takes(t) => status[t] = "deprovisioning" /\ retain[t] = 0
      BY <3>1 DEF Over, IInv, TenantInv, Purged, Takes
    <3> QED
      BY <3>1, <3>2, <3>3 DEF Deleted
  <2>3. ASSUME NEW u \in Tenants, MarkDeprovisioned(c, u) PROVE Goal
    BY <2>3 DEF MarkDeprovisioned, Deleted, IInv, TypeOK, data, Takes
  <2> QED
    BY <1>3, <2>1, <2>2, <2>3 DEF PurgeStep, TearDownStep, SelectDue, TakeNext, PurgeStops
<1>4. CASE Tick \/ UNCHANGED vars
  BY <1>4 DEF Tick, vars, row, data, Deleted, Takes
<1> QED
  BY <1>2, <1>3, <1>4 DEF Next

\* A workspace's schema, files and credentials are only taken the whole
\* retention after its deletion.
THEOREM DataIsRecoverable == Spec => RecoverableUntilDue
<1>1. IInv /\ [Next]_vars =>
       [\A t \in Tenants :
          linked[t] /\ Takes(t) => status[t] = "deprovisioning" /\ retain[t] = 0]_vars
  BY LinkedSteps
<1> QED
  BY <1>1, InductiveInvariant, PTL DEF Spec, RecoverableUntilDue

\* No activation, rollback or visitor brings a deleted workspace back.
THEOREM DeletionIsFinal == Spec => DeletedStaysDeleted
<1>1. IInv /\ [Next]_vars =>
       [\A t \in Tenants : linked[t] /\ Deleted(t) => Deleted(t)']_vars
  BY LinkedSteps
<1> QED
  BY <1>1, InductiveInvariant, PTL DEF Spec, DeletedStaysDeleted
=============================================================================
