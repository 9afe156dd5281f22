----------------------- MODULE MigrationRunnerProofs -----------------------
(***************************************************************************)
(* Whatever fails, dies or ends meanwhile, and for any number of runners,  *)
(* schemas and files: what is recorded of a schema is what was made of it, *)
(* no file runs twice or before an earlier one, and outcomes are true.     *)
(***************************************************************************)
EXTENDS MigrationRunner, WellFoundedInduction, TLAPS

Working == {"schema", "plan", "probe", "table", "baseline", "file", "recheck", "run"}
Locking == {"recheck", "run"}
Filing == {"file", "recheck", "run"}

Whole(s) == {f \in Files : made[s][f] = "whole"}

\* The lock of a schema is held exactly inside the transactions of files.
LockOf(r) ==
  /\ \A s \in Schemas : lock[s] = r => at[r] \in Locking /\ now[r] = s
  /\ at[r] \in Locking => lock[now[r]] = r

\* Every tenant a living runner has listed is dealt with, at hand, or to come.
AccountedOf(r) ==
  /\ at[r] \in Working => now[r] \in Schemas
  /\ at[r] = "none" => succeeded[r] \union failed[r] = {}
  /\ at[r] = "over" => todo[r] = {}
  /\ at[r] # "dead" => listed[r] = succeeded[r] \union failed[r] \union todo[r]
                                     \union {s \in Schemas : at[r] \in Working /\ s = now[r]}

\* Nothing is recorded yet, or all that is there.
Agrees(s) == recorded[s] = {} \/ recorded[s] = Whole(s)

\* How far what a runner knows can be from what is recorded by now.
PlanOf(r) ==
  at[r] \in Working /\ now[r] \in Kept =>
    /\ at[r] # "schema" => now[r] \in exists
    /\ at[r] \notin {"schema", "plan"} => known[r] \subseteq recorded[now[r]]
    /\ at[r] \in {"table", "baseline"} =>
         /\ baseline[r] \subseteq Whole(now[r])
         /\ recorded[now[r]] = {} => baseline[r] = Whole(now[r])
    /\ at[r] \in Filing =>
         /\ recorded[now[r]] = Whole(now[r])
         /\ baseline[r] \subseteq recorded[now[r]]
         /\ 1..file[r] - 1 \subseteq recorded[now[r]]
    /\ at[r] = "run" => file[r] \notin recorded[now[r]]

AtFile(r) == at[r] \in Locking => file[r] \in Files

Locks == \A r \in Runners : LockOf(r)
Accounted == \A r \in Runners : AccountedOf(r) /\ AtFile(r)
Agreeing == \A s \in Kept : Agrees(s)
Plans == \A r \in Runners : PlanOf(r)
Once == Kept \intersect (repeated \union disordered) = {}
Done == \A r \in Runners : \A s \in succeeded[r] \intersect Kept : recorded[s] = Files

IInv == TypeOK /\ Locks /\ Accounted /\ Agreeing /\ Plans /\ Once /\ Done

-----------------------------------------------------------------------------
(* The next file.                                                          *)

Smaller == OpToRel(<, Nat)

\* A set of numbers has a least one.
LEMMA Least ==
  ASSUME NEW S \in SUBSET Nat, S # {}
  PROVE  \E x \in S : \A y \in S : x <= y
<1>1. IsWellFoundedOn(Smaller, Nat)
  BY NatLessThanWellFounded, Zenon DEF Smaller
<1>2. PICK x \in S : \A y \in S : ~(<<y, x>> \in Smaller)
  BY <1>1, WFMin, Zenon
<1>3. \A y \in S : y < x => <<y, x>> \in Smaller
  BY SMT DEF Smaller, OpToRel
<1>4. \A y \in S : ~(y < x)
  BY <1>2, <1>3, Zenon
<1>5. \A y \in S : x <= y
  BY <1>4, SMT
<1> QED BY <1>5

\* The file to run is from f on, and every one passed over is known or baselined.
LEMMA NextFile ==
  ASSUME TypeOK, NEW r \in Runners, NEW f \in 1..Last + 1
  PROVE  /\ FileToRun(r, f) \in f..Last + 1
         /\ \A g \in f..FileToRun(r, f) - 1 : g \in known[r] \union baseline[r]
<1> DEFINE S == {g \in f..Last + 1 : g \notin known[r] \union baseline[r]}
<1>1. known[r] \union baseline[r] \subseteq 1..Last
  BY DEF TypeOK, Files
<1>2. S \in SUBSET Nat /\ Last + 1 \in S
  BY <1>1, MigrationAssumption
<1> HIDE DEF S
<1>3. \E x \in S : \A y \in S : x <= y
  BY <1>2, Least, Zenon
<1>4. FileToRun(r, f) = Min(S)
  BY DEF FileToRun, S
<1>5. Min(S) \in S /\ \A y \in S : Min(S) <= y
  BY <1>3, Zenon DEF Min
<1> QED BY <1>4, <1>5, MigrationAssumption DEF S

-----------------------------------------------------------------------------
(* Types.                                                                  *)

LEMMA TypedStep ==
  ASSUME IInv, [Next]_vars
  PROVE  TypeOK'
<1> USE MigrationAssumption DEF TypeOK, IInv, Places, Move, LeaveSchema, Release,
      database, plan, outcome, history, Files
<1>1. CASE UNCHANGED vars
  BY <1>1 DEF vars
<1>2. ASSUME NEW r \in Runners, Begin(r)
      PROVE  TypeOK'
  <2>1. mishaps' = mishaps
    BY <1>2 DEF Begin
  <2>2. CASE MigrateAllTenants(r)
    <3>1. listed' \in [Runners -> SUBSET Schemas]
      BY <2>2 DEF MigrateAllTenants
    <3> QED BY <2>1, <2>2, <3>1 DEF MigrateAllTenants
  <2>3. ASSUME NEW s \in Schemas, ProvisionTenantSchema(r, s)
        PROVE  TypeOK'
    <3>1. listed' \in [Runners -> SUBSET Schemas]
      BY <2>3 DEF ProvisionTenantSchema
    <3> QED BY <2>1, <2>3, <3>1 DEF ProvisionTenantSchema
  <2> QED BY <1>2, <2>2, <2>3, Zenon DEF Begin
<1>3. ASSUME NEW r \in Runners, GoOn(r)
      PROVE  TypeOK'
  <2>0. at[r] \in Working => now[r] \in Schemas
    BY DEF Accounted, AccountedOf
  <2>1. CASE \E s \in Schemas : NextTenant(r, s)
    BY <1>3, <2>1 DEF GoOn, NextTenant
  <2>2. CASE EndOfRun(r)
    BY <1>3, <2>2 DEF GoOn, EndOfRun
  <2>3. CASE CreateSchema(r)
    BY <1>3, <2>0, <2>3 DEF GoOn, CreateSchema, Working
  <2>4. CASE ReadApplied(r)
    BY <1>3, <2>0, <2>4 DEF GoOn, ReadApplied, Working
  <2>5. CASE ProbeMarkers(r)
    BY <1>3, <2>0, <2>5 DEF GoOn, ProbeMarkers, Working
  <2>6. CASE CreateTable(r)
    BY <1>3, <2>0, <2>6 DEF GoOn, CreateTable, Working
  <2>7. CASE RecordBaseline(r)
    <3>1. FileToRun(r, 1) \in 1..Last + 1
      BY NextFile
    <3> QED BY <1>3, <2>0, <2>7, <3>1 DEF GoOn, RecordBaseline, Working
  <2>8. CASE TakeLock(r)
    BY <1>3, <2>0, <2>8 DEF GoOn, TakeLock, Working
  <2>9. CASE Recheck(r)
    BY <1>3, <2>9 DEF GoOn, Recheck
  <2>10. CASE AlreadyThere(r)
    <3>1. file[r] \in Files
      BY <2>10 DEF AlreadyThere, Accounted, AtFile, Locking
    <3>2. FileToRun(r, file[r] + 1) \in 1..Last + 1
      BY <3>1, NextFile
    <3> QED BY <1>3, <2>10, <3>2 DEF GoOn, AlreadyThere
  <2>11. CASE RunFile(r)
    <3>1. file[r] \in Files
      BY <2>11 DEF RunFile, Accounted, AtFile, Locking
    <3>2. FileToRun(r, file[r] + 1) \in 1..Last + 1
      BY <3>1, NextFile
    <3>3. now[r] \in Schemas
      BY <2>0, <2>11 DEF RunFile, Working
    <3>4. /\ recorded' \in [Schemas -> SUBSET Files]
          /\ made' \in [Schemas -> [Files -> {"absent", "partial", "whole"}]]
      BY <2>11, <3>1, <3>3 DEF RunFile
    <3>5. repeated' \subseteq Schemas /\ disordered' \subseteq Schemas
      BY <2>11, <3>3 DEF RunFile
    <3> QED BY <1>3, <2>11, <3>2, <3>4, <3>5 DEF GoOn, RunFile
  <2>12. CASE FilesDone(r)
    BY <1>3, <2>0, <2>12 DEF GoOn, FilesDone, Working
  <2>13. CASE SchemaFails(r)
    BY <1>3, <2>0, <2>13 DEF GoOn, SchemaFails, Working
  <2> QED
    BY <1>3, <2>1, <2>2, <2>3, <2>4, <2>5, <2>6, <2>7, <2>8, <2>9, <2>10, <2>11,
       <2>12, <2>13, Zenon DEF GoOn, RunnerStep
<1>4. ASSUME NEW s \in Schemas, DropSchema(s), UNCHANGED mishaps
      PROVE  TypeOK'
  BY <1>4 DEF DropSchema, Empty
<1>5. CASE GoWrong
  <2>1. mishaps' \in 0..MaxMishaps
    BY <1>5 DEF GoWrong, Mishap
  <2>2. ASSUME NEW r \in Runners, SchemaFails(r)
        PROVE  TypeOK'
    BY <2>1, <2>2 DEF SchemaFails, Accounted, AccountedOf, Working
  <2>3. ASSUME NEW r \in Runners, RunnerDies(r)
        PROVE  TypeOK'
    BY <2>1, <2>3 DEF RunnerDies
  <2>4. ASSUME NEW s \in Schemas, CloseTenant(s)
        PROVE  TypeOK'
    BY <2>1, <2>4 DEF CloseTenant
  <2> QED BY <1>5, <2>2, <2>3, <2>4, Zenon DEF GoWrong
<1> QED BY <1>1, <1>2, <1>3, <1>4, <1>5, Zenon DEF Next

-----------------------------------------------------------------------------
(* The database: every step keeps, of a schema that is not dropped, what   *)
(* is recorded and made, and adds to both what it adds to one.             *)

Grown(s) ==
  /\ s \in exists => s \in exists'
  /\ recorded[s] \subseteq recorded'[s]
  /\ Whole(s) \subseteq Whole(s)'
  /\ recorded'[s] = {} => Whole(s)' = Whole(s)
  /\ recorded[s] = Whole(s) => recorded'[s] = Whole(s)'

\* Who runs a file is the only one to record more where all that is there is recorded.
OnlyRuns(s) ==
  recorded[s] = Whole(s) =>
    recorded'[s] = recorded[s] \/ \E r \in Runners : at[r] = "run" /\ now[r] = s /\ RunFile(r)

Unchanged(s) ==
  /\ s \in exists => s \in exists'
  /\ recorded'[s] = recorded[s]
  /\ made'[s] = made[s]

LEMMA UnchangedGrows ==
  ASSUME NEW s \in Kept', Unchanged(s), IInv, s \in Kept
  PROVE  Grown(s) /\ OnlyRuns(s) /\ Agrees(s)'
BY DEF Unchanged, Grown, OnlyRuns, Agrees, Whole, IInv, Agreeing

\* Where a step leaves the database alone but for what it creates.
LEMMA DatabaseStep ==
  ASSUME IInv, [Next]_vars, NEW s \in Kept'
  PROVE  /\ s \in Kept
         /\ \/ Unchanged(s)
            \/ \E r \in Runners : now[r] = s /\ (RecordBaseline(r) \/ RunFile(r))
<1>1. CASE UNCHANGED vars
  BY <1>1 DEF vars, Kept, database, history, Unchanged
<1>2. ASSUME NEW r \in Runners, Begin(r)
      PROVE  Unchanged(s) /\ dropped' = dropped
  BY <1>2 DEF Begin, MigrateAllTenants, ProvisionTenantSchema,
     database, history, Unchanged
<1>3. ASSUME NEW r \in Runners, RecordBaseline(r) \/ RunFile(r)
      PROVE  dropped' = dropped /\ (now[r] # s => Unchanged(s))
  <2>1. now[r] \in Schemas /\ s \in Schemas
    BY <1>3 DEF RecordBaseline, RunFile, Accounted, AccountedOf, Working, Kept, IInv
  <2> QED BY <1>3, <2>1 DEF RecordBaseline, RunFile, database, history, Unchanged, IInv, TypeOK
<1>4. ASSUME NEW d \in Schemas, DropSchema(d)
      PROVE  s \in Kept /\ Unchanged(s)
  BY <1>4 DEF DropSchema, Kept, database, history, Unchanged, IInv, TypeOK
<1>5. ASSUME GoWrong
      PROVE  Unchanged(s) /\ dropped' = dropped
  BY <1>5 DEF GoWrong, SchemaFails, RunnerDies, CloseTenant, database, history, Unchanged
<1>6. dropped' = dropped => s \in Kept
  BY DEF Kept
<1>7. ASSUME NEW r \in Runners, GoOn(r)
      PROVE  s \in Kept /\ (Unchanged(s) \/ (now[r] = s /\ (RecordBaseline(r) \/ RunFile(r))))
  <2>1. CASE RecordBaseline(r) \/ RunFile(r)
    BY <1>3, <1>6, <2>1
  <2>2. CASE ~RecordBaseline(r) /\ ~RunFile(r)
    <3>1. Unchanged(s) /\ dropped' = dropped
      BY <1>7, <2>2 DEF GoOn, RunnerStep, NextTenant, EndOfRun, CreateSchema, ReadApplied,
         ProbeMarkers, CreateTable, TakeLock, Recheck, AlreadyThere, FilesDone, SchemaFails,
         database, history, Unchanged
    <3> QED BY <1>6, <3>1
  <2> QED BY <2>1, <2>2
<1> QED BY <1>1, <1>2, <1>4, <1>5, <1>6, <1>7, Zenon DEF Next

LEMMA DatabaseGrows ==
  ASSUME IInv, [Next]_vars, NEW s \in Kept'
  PROVE  Grown(s) /\ OnlyRuns(s) /\ Agrees(s)'
<1>1. s \in Kept /\ s \in Schemas
  BY DatabaseStep, Zenon DEF Kept
<1>2. CASE Unchanged(s)
  BY <1>1, <1>2, UnchangedGrows, Zenon
<1>3. ASSUME NEW r \in Runners, now[r] = s, RecordBaseline(r)
      PROVE  Grown(s) /\ OnlyRuns(s) /\ Agrees(s)'
  <2>1. /\ baseline[r] \subseteq Whole(s)
        /\ recorded[s] = {} => baseline[r] = Whole(s)
    BY <1>1, <1>3 DEF IInv, Plans, PlanOf, RecordBaseline, Working
  <2>2. recorded'[s] = recorded[s] \union baseline[r] /\ made' = made /\ exists' = exists
    BY <1>1, <1>3 DEF RecordBaseline, IInv, TypeOK
  <2>3. recorded[s] = {} \/ recorded[s] = Whole(s)
    BY <1>1 DEF IInv, Agreeing, Agrees
  <2>4. Whole(s)' = Whole(s)
    BY <2>2 DEF Whole
  <2> QED BY <2>1, <2>2, <2>3, <2>4 DEF Grown, OnlyRuns, Agrees
<1>4. ASSUME NEW r \in Runners, now[r] = s, RunFile(r)
      PROVE  Grown(s) /\ OnlyRuns(s) /\ Agrees(s)'
  <2>1. at[r] = "run" /\ file[r] \in Files
    BY <1>4 DEF RunFile, IInv, Accounted, AtFile, Locking
  <2>2. recorded[s] = Whole(s)
    BY <1>1, <1>4, <2>1 DEF IInv, Plans, PlanOf, Working, Filing
  <2>3. /\ recorded'[s] = recorded[s] \union {file[r]}
        /\ made'[s] = [made[s] EXCEPT ![file[r]] = "whole"]
        /\ exists' = exists
    BY <1>1, <1>4 DEF RunFile, IInv, TypeOK
  <2>4. Whole(s)' = Whole(s) \union {file[r]}
    BY <1>1, <2>1, <2>3 DEF Whole, IInv, TypeOK
  <2>5. Grown(s) /\ Agrees(s)'
    BY <2>2, <2>3, <2>4 DEF Grown, Agrees
  <2>6. OnlyRuns(s)
    BY <1>4, <2>1, Zenon DEF OnlyRuns
  <2> QED BY <2>5, <2>6
<1> QED BY <1>2, <1>3, <1>4, DatabaseStep, Zenon

-----------------------------------------------------------------------------
(* The runners.                                                            *)

\* A runner that a step leaves where it is.
Rests(r) ==
  /\ at'[r] = at[r]
  /\ <<now[r], known[r], baseline[r], file[r]>>' = <<now[r], known[r], baseline[r], file[r]>>
  /\ <<listed[r], todo[r], succeeded[r], failed[r]>>' = <<listed[r], todo[r], succeeded[r], failed[r]>>
  /\ \A s \in Schemas : lock'[s] = r <=> lock[s] = r

\* What is at hand for one runner is not for another.
LEMMA OthersRest ==
  ASSUME IInv, [Next]_vars, NEW r \in Runners
  PROVE  Rests(r) \/ Begin(r) \/ GoOn(r) \/ SchemaFails(r) \/ RunnerDies(r)
<1> USE DEF Rests, IInv, TypeOK, Move, LeaveSchema, Release, plan, outcome, MigrationAssumption
<1>1. CASE UNCHANGED vars
  BY <1>1 DEF vars
<1>2. ASSUME NEW q \in Runners \ {r}, Begin(q)
      PROVE  Rests(r)
  <2>1. CASE MigrateAllTenants(q)
    BY <2>1 DEF MigrateAllTenants
  <2>2. CASE \E s \in Schemas : ProvisionTenantSchema(q, s)
    BY <2>2 DEF ProvisionTenantSchema
  <2> QED BY <1>2, <2>1, <2>2, Zenon DEF Begin
<1>3. ASSUME NEW q \in Runners \ {r}, GoOn(q)
      PROVE  Rests(r)
  <2>1. CASE \/ \E s \in Schemas : NextTenant(q, s)
             \/ EndOfRun(q) \/ CreateSchema(q) \/ ReadApplied(q) \/ ProbeMarkers(q)
             \/ CreateTable(q) \/ RecordBaseline(q) \/ Recheck(q)
    BY <2>1 DEF NextTenant, EndOfRun, CreateSchema, ReadApplied, ProbeMarkers,
       CreateTable, RecordBaseline, Recheck
  <2>2. CASE TakeLock(q)
    BY <2>2, MigrationAssumption DEF TakeLock
  <2>3. CASE AlreadyThere(q) \/ RunFile(q) \/ FilesDone(q) \/ SchemaFails(q)
    BY <2>3, MigrationAssumption DEF AlreadyThere, RunFile, FilesDone, SchemaFails
  <2> QED BY <1>3, <2>1, <2>2, <2>3, Zenon DEF GoOn, RunnerStep
<1>4. ASSUME NEW d \in Schemas, DropSchema(d)
      PROVE  Rests(r)
  BY <1>4 DEF DropSchema
<1>5. ASSUME NEW q \in Runners \ {r}, SchemaFails(q) \/ RunnerDies(q)
      PROVE  Rests(r)
  BY <1>5, MigrationAssumption DEF SchemaFails, RunnerDies
<1>6. ASSUME NEW d \in Schemas, CloseTenant(d)
      PROVE  Rests(r)
  BY <1>6 DEF CloseTenant
<1>7. \A q \in Runners : q = r \/ q \in Runners \ {r}
  OBVIOUS
<1> QED BY <1>1, <1>2, <1>3, <1>4, <1>5, <1>6, <1>7, Zenon DEF Next, GoWrong

\* One runner's own steps.
OwnStep(r) == Begin(r) \/ GoOn(r) \/ SchemaFails(r) \/ RunnerDies(r)

LEMMA LockStep ==
  ASSUME IInv, NEW r \in Runners, Rests(r) \/ OwnStep(r)
  PROVE  LockOf(r)'
<1> USE MigrationAssumption DEF IInv, TypeOK, Locks, LockOf, Locking, Places, Move, Release
<1>0. at[r] \in Working => now[r] \in Schemas
  BY DEF Accounted, AccountedOf
<1>1. CASE Rests(r)
  BY <1>0, <1>1 DEF Rests, Working
<1>2. CASE Begin(r)
  BY <1>2 DEF Begin, MigrateAllTenants, ProvisionTenantSchema, plan
<1>3. CASE SchemaFails(r) \/ RunnerDies(r)
  BY <1>3 DEF SchemaFails, RunnerDies
<1>4. CASE GoOn(r)
  <2>1. CASE \/ \E s \in Schemas : NextTenant(r, s)
             \/ EndOfRun(r) \/ CreateSchema(r) \/ ReadApplied(r) \/ ProbeMarkers(r)
             \/ CreateTable(r) \/ RecordBaseline(r) \/ Recheck(r) \/ FilesDone(r)
    BY <2>1 DEF NextTenant, EndOfRun, CreateSchema, ReadApplied, ProbeMarkers,
       CreateTable, RecordBaseline, Recheck, FilesDone, plan
  <2>2. CASE TakeLock(r)
    BY <1>0, <2>2 DEF TakeLock, Working, plan
  <2>3. CASE AlreadyThere(r)
    BY <2>3 DEF AlreadyThere
  <2>4. CASE RunFile(r)
    BY <2>4 DEF RunFile
  <2> QED BY <1>3, <1>4, <2>1, <2>2, <2>3, <2>4, Zenon DEF GoOn, RunnerStep
<1> QED BY <1>1, <1>2, <1>3, <1>4, Zenon DEF OwnStep

LEMMA AccountStep ==
  ASSUME IInv, NEW r \in Runners, Rests(r) \/ OwnStep(r)
  PROVE  AccountedOf(r)' /\ AtFile(r)'
<1> USE MigrationAssumption DEF IInv, TypeOK, AccountedOf, AtFile, Working, Locking, Places,
      Move, LeaveSchema, plan, outcome
<1>0. AccountedOf(r) /\ AtFile(r)
  BY DEF Accounted
<1>1. CASE Rests(r)
  BY <1>0, <1>1 DEF Rests
<1>2. CASE Begin(r)
  <2>1. CASE MigrateAllTenants(r)
    BY <1>0, <2>1 DEF MigrateAllTenants
  <2>2. CASE \E s \in Schemas : ProvisionTenantSchema(r, s)
    BY <1>0, <2>2 DEF ProvisionTenantSchema
  <2> QED BY <1>2, <2>1, <2>2 DEF Begin
<1>3. CASE SchemaFails(r)
  BY <1>0, <1>3 DEF SchemaFails
<1>4. CASE RunnerDies(r)
  BY <1>0, <1>4 DEF RunnerDies
<1>5. CASE GoOn(r)
  <2>1. CASE \E s \in Schemas : NextTenant(r, s)
    BY <1>0, <2>1 DEF NextTenant
  <2>2. CASE EndOfRun(r)
    BY <1>0, <2>2 DEF EndOfRun
  <2>3. CASE \/ CreateSchema(r) \/ ReadApplied(r) \/ ProbeMarkers(r) \/ CreateTable(r)
             \/ RecordBaseline(r)
    BY <1>0, <2>3 DEF CreateSchema, ReadApplied, ProbeMarkers, CreateTable, RecordBaseline
  <2>4. CASE TakeLock(r)
    BY <1>0, <2>4 DEF TakeLock, Files
  <2>5. CASE Recheck(r) \/ AlreadyThere(r) \/ RunFile(r)
    BY <1>0, <2>5 DEF Recheck, AlreadyThere, RunFile
  <2>6. CASE FilesDone(r)
    BY <1>0, <2>6 DEF FilesDone
  <2> QED BY <1>3, <1>5, <2>1, <2>2, <2>3, <2>4, <2>5, <2>6, Zenon DEF GoOn, RunnerStep
<1> QED BY <1>1, <1>2, <1>3, <1>4, <1>5, Zenon DEF OwnStep

-----------------------------------------------------------------------------
(* What a runner knows stays true while others work.                       *)

LEMMA PlanRests ==
  ASSUME IInv, [Next]_vars, NEW r \in Runners, Rests(r)
  PROVE  PlanOf(r)'
<1>1. SUFFICES ASSUME at[r] \in Working, now[r] \in Kept'
               PROVE  PlanOf(r)'
  BY DEF Rests, PlanOf
<1>0. PICK s \in Kept' : s = now[r]
  BY <1>1
<1>2. s \in Kept /\ Grown(s) /\ OnlyRuns(s)
  BY DatabaseStep, DatabaseGrows, Zenon
<1>3. PlanOf(r)
  BY DEF IInv, Plans
<1>4. at'[r] = at[r] /\ now'[r] = s /\ known'[r] = known[r] /\ baseline'[r] = baseline[r] /\ file'[r] = file[r]
  BY <1>0 DEF Rests
<1>5. at[r] # "schema" => s \in exists'
  BY <1>0, <1>1, <1>2, <1>3 DEF PlanOf, Grown
<1>6. at[r] \notin {"schema", "plan"} => known[r] \subseteq recorded'[s]
  BY <1>0, <1>1, <1>2, <1>3 DEF PlanOf, Grown
<1>7. at[r] \in {"table", "baseline"} =>
        /\ baseline[r] \subseteq Whole(s)'
        /\ recorded'[s] = {} => baseline[r] = Whole(s)'
  BY <1>0, <1>1, <1>2, <1>3 DEF PlanOf, Grown
<1>8. at[r] \in Filing =>
        /\ recorded'[s] = Whole(s)'
        /\ baseline[r] \subseteq recorded'[s]
        /\ 1..file[r] - 1 \subseteq recorded'[s]
  BY <1>0, <1>1, <1>2, <1>3 DEF PlanOf, Grown
<1>9. ASSUME at[r] = "run"
      PROVE  file[r] \notin recorded'[s]
  <2>1. recorded[s] = Whole(s) /\ file[r] \notin recorded[s]
    BY <1>0, <1>1, <1>2, <1>3, <1>9 DEF PlanOf, Filing
  <2>2. ASSUME NEW q \in Runners, at[q] = "run", now[q] = s, RunFile(q)
        PROVE  FALSE
    <3>1. q = r
      BY <1>0, <1>9, <2>2 DEF IInv, Locks, LockOf, Locking
    <3> QED BY <1>4, <1>9, <2>2, <3>1 DEF RunFile, Move, IInv, TypeOK
  <2>3. recorded'[s] = recorded[s]
    BY <1>2, <2>1, <2>2, Zenon DEF OnlyRuns
  <2> QED BY <2>1, <2>3
<1>10. Whole(now[r])' = Whole(s)'
  BY <1>4 DEF Whole
<1> QED BY <1>4, <1>5, <1>6, <1>7, <1>8, <1>9, <1>10 DEF PlanOf

\* A runner's own step: what it reads is so, and what it writes it knows.
LEMMA PlanOwnStep ==
  ASSUME IInv, [Next]_vars, NEW r \in Runners, OwnStep(r)
  PROVE  PlanOf(r)'
<1>1. SUFFICES ASSUME at'[r] \in Working, now'[r] \in Kept'
               PROVE  PlanOf(r)'
  BY DEF PlanOf
<1>0. PICK s \in Kept' : s = now'[r]
  BY <1>1
<1>2. s \in Kept /\ s \in Schemas /\ Grown(s) /\ Agrees(s)' /\ Agrees(s)
  BY DatabaseStep, DatabaseGrows, Zenon DEF Kept, IInv, Agreeing
<1>3. PlanOf(r)
  BY DEF IInv, Plans
<1>4. ~Begin(r) /\ ~SchemaFails(r) /\ ~RunnerDies(r) /\ ~EndOfRun(r) /\ ~FilesDone(r)
  BY <1>1 DEF Begin, MigrateAllTenants, ProvisionTenantSchema, SchemaFails, RunnerDies, EndOfRun,
     FilesDone, Move, Working, IInv, TypeOK
<1> USE DEF IInv, TypeOK, Move, plan
<1>5. CASE \E t \in Schemas : NextTenant(r, t)
  BY <1>0, <1>5 DEF NextTenant, PlanOf, Filing
<1>6. CASE CreateSchema(r)
  BY <1>0, <1>2, <1>6 DEF CreateSchema, PlanOf, Filing
<1>7. CASE ReadApplied(r)
  BY <1>0, <1>2, <1>3, <1>7 DEF ReadApplied, PlanOf, Filing, Working, database
<1>8. CASE ProbeMarkers(r)
  <2>1. now[r] = s /\ s \in exists /\ known[r] \subseteq recorded[s] /\ at'[r] = "table"
    BY <1>0, <1>2, <1>3, <1>8 DEF ProbeMarkers, PlanOf, Working
  <2>2. baseline'[r] = IF known[r] = {} THEN Whole(s) ELSE {}
    BY <1>0, <1>8, <2>1 DEF ProbeMarkers, Whole, AllProbesExist
  <2>3. recorded' = recorded /\ made' = made /\ exists' = exists /\ known'[r] = known[r] /\ Whole(s)' = Whole(s)
    BY <1>0, <1>8 DEF ProbeMarkers, database, Whole
  <2> QED BY <1>0, <2>1, <2>2, <2>3 DEF PlanOf, Filing
<1>9. CASE CreateTable(r)
  BY <1>0, <1>2, <1>3, <1>9 DEF CreateTable, PlanOf, Filing, Working, Whole
<1>10. CASE RecordBaseline(r)
  <2>1. /\ now[r] = s /\ s \in exists' /\ known'[r] = known[r] /\ baseline'[r] = baseline[r]
        /\ at'[r] = "file" /\ file'[r] = FileToRun(r, 1) /\ Whole(s)' = Whole(s)
        /\ recorded'[s] = recorded[s] \union baseline[r]
    BY <1>0, <1>2, <1>3, <1>10 DEF RecordBaseline, PlanOf, Working, Whole
  <2>2. /\ known[r] \subseteq recorded[s]
        /\ baseline[r] \subseteq Whole(s)
        /\ recorded[s] = {} => baseline[r] = Whole(s)
    BY <1>0, <1>2, <1>3, <1>10, <2>1 DEF RecordBaseline, PlanOf, Working
  <2>3. recorded'[s] = Whole(s)
    BY <1>0, <1>2, <2>1, <2>2 DEF Agrees
  <2>4. 1..FileToRun(r, 1) - 1 \subseteq known[r] \union baseline[r]
    BY NextFile, MigrationAssumption
  <2>5. 1..FileToRun(r, 1) - 1 \subseteq recorded'[s]
    BY <2>1, <2>2, <2>4
  <2> QED BY <1>0, <2>1, <2>2, <2>3, <2>5 DEF PlanOf
<1>11. CASE TakeLock(r) \/ Recheck(r)
  <2>1. recorded' = recorded /\ made' = made /\ exists' = exists /\ plan' = plan
    BY <1>11 DEF TakeLock, Recheck, database
  <2>2. Whole(s)' = Whole(s)
    BY <2>1 DEF Whole
  <2> QED BY <1>0, <1>2, <1>3, <1>11, <2>1, <2>2 DEF TakeLock, Recheck, PlanOf, Filing, Working
<1>12. CASE AlreadyThere(r) \/ RunFile(r)
  <2>1. /\ at[r] \in Locking /\ now[r] = s /\ known'[r] = known[r] /\ baseline'[r] = baseline[r]
        /\ at'[r] = "file" /\ file'[r] = FileToRun(r, file[r] + 1) /\ exists' = exists
    BY <1>0, <1>12 DEF AlreadyThere, RunFile, database, Locking
  <2>2. /\ s \in exists /\ known[r] \subseteq recorded[s] /\ baseline[r] \subseteq recorded[s]
        /\ recorded[s] = Whole(s) /\ 1..file[r] - 1 \subseteq recorded[s]
    BY <1>0, <1>2, <1>3, <2>1 DEF PlanOf, Working, Locking, Filing
  <2>3. file[r] \in recorded'[s]
    BY <1>0, <1>2, <1>12, <2>1 DEF AlreadyThere, RunFile, database
  <2>4. recorded[s] \subseteq recorded'[s] /\ recorded'[s] = Whole(s)'
    BY <1>0, <1>2, <2>2 DEF Grown
  <2>5. file[r] \in Files /\ file[r] + 1 \in 1..Last + 1
    BY <2>1, MigrationAssumption DEF Accounted, AtFile, Files
  <2>6. /\ FileToRun(r, file[r] + 1) \in file[r] + 1..Last + 1
        /\ \A g \in file[r] + 1..FileToRun(r, file[r] + 1) - 1 : g \in known[r] \union baseline[r]
    BY <2>5, NextFile DEF Files
  <2>7. 1..FileToRun(r, file[r] + 1) - 1 \subseteq recorded'[s]
    BY <2>2, <2>3, <2>4, <2>5, <2>6, MigrationAssumption DEF Files
  <2> QED BY <1>0, <2>1, <2>2, <2>4, <2>7 DEF PlanOf
<1> QED
  BY <1>4, <1>5, <1>6, <1>7, <1>8, <1>9, <1>10, <1>11, <1>12, Zenon DEF OwnStep, GoOn, RunnerStep

-----------------------------------------------------------------------------
(* What the properties are about.                                          *)

LEMMA OnceStep ==
  ASSUME IInv, [Next]_vars
  PROVE  Once'
<1>1. dropped \subseteq dropped'
  BY DEF Next, vars, Begin, GoOn, RunnerStep, GoWrong, MigrateAllTenants, ProvisionTenantSchema,
     NextTenant, EndOfRun, CreateSchema, ReadApplied, ProbeMarkers, CreateTable, RecordBaseline,
     TakeLock, Recheck, AlreadyThere, RunFile, FilesDone, SchemaFails, RunnerDies, CloseTenant,
     DropSchema, history
<1>2. ASSUME NEW r \in Runners, RunFile(r)
      PROVE  Once'
  <2>1. now[r] \in Schemas
    BY <1>2 DEF IInv, Accounted, AccountedOf, Working, RunFile
  <2>2. ASSUME now[r] \in Kept
        PROVE  /\ file[r] \notin recorded[now[r]]
               /\ \A f \in 1..file[r] - 1 : made[now[r]][f] = "whole"
    BY <1>2, <2>2 DEF IInv, Plans, PlanOf, Working, Filing, RunFile, Whole
  <2> QED BY <1>1, <1>2, <2>1, <2>2 DEF RunFile, Once, Kept, IInv
<1>3. ASSUME \A r \in Runners : ~RunFile(r)
      PROVE  repeated' = repeated /\ disordered' = disordered
  BY <1>3 DEF Next, vars, Begin, GoOn, RunnerStep, GoWrong, MigrateAllTenants, ProvisionTenantSchema,
     NextTenant, EndOfRun, CreateSchema, ReadApplied, ProbeMarkers, CreateTable, RecordBaseline,
     TakeLock, Recheck, AlreadyThere, FilesDone, SchemaFails, RunnerDies, CloseTenant,
     DropSchema, history
<1> QED BY <1>1, <1>2, <1>3 DEF Once, Kept, IInv

LEMMA DoneStep ==
  ASSUME IInv, [Next]_vars
  PROVE  Done'
<1>1. SUFFICES ASSUME NEW r \in Runners, NEW s \in Kept', s \in succeeded'[r]
               PROVE  recorded'[s] = Files
  BY DEF Done
<1>2. s \in Kept /\ Grown(s)
  BY DatabaseStep, DatabaseGrows, Zenon
<1>3. recorded'[s] \subseteq Files
  BY <1>2, TypedStep DEF TypeOK, Kept
<1>4. CASE s \in succeeded[r]
  BY <1>2, <1>3, <1>4 DEF IInv, Done, Grown
<1>5. CASE s \notin succeeded[r]
  <2>1. FilesDone(r) /\ s = now[r]
    BY <1>1, <1>5, OthersRest DEF Rests, Begin, GoOn, RunnerStep, MigrateAllTenants,
       ProvisionTenantSchema, NextTenant, EndOfRun, CreateSchema, ReadApplied, ProbeMarkers,
       CreateTable, RecordBaseline, TakeLock, Recheck, AlreadyThere, RunFile, FilesDone,
       SchemaFails, RunnerDies, outcome, IInv, TypeOK
  <2>2. file[r] \in 1..Last + 1 /\ file[r] > Last
    BY <2>1 DEF FilesDone, IInv, TypeOK
  <2>3. file[r] - 1 = Last
    BY <2>2, MigrationAssumption
  <2>4. 1..file[r] - 1 \subseteq recorded[s]
    BY <1>2, <2>1 DEF FilesDone, IInv, Plans, PlanOf, Working, Filing
  <2>5. Files \subseteq recorded[s]
    BY <2>3, <2>4 DEF Files
  <2> QED BY <1>2, <1>3, <2>5 DEF Grown
<1> QED BY <1>4, <1>5

LEMMA Initially ==
  Init => IInv
<1>1. SUFFICES ASSUME Init PROVE IInv
  OBVIOUS
<1>2. TypeOK
  BY <1>1, MigrationAssumption DEF Init, TypeOK, Places, Files
<1>3. Locks /\ Accounted /\ Plans /\ Done
  BY <1>1, MigrationAssumption DEF Init, Locks, LockOf, Locking, Accounted, AccountedOf, AtFile,
     Working, Plans, PlanOf, Done
<1>4. Agreeing /\ Once
  BY <1>1 DEF Init, Agreeing, Agrees, Kept, Once, Whole
<1> QED BY <1>2, <1>3, <1>4 DEF IInv

LEMMA Preserved ==
  IInv /\ [Next]_vars => IInv'
<1>1. SUFFICES ASSUME IInv, [Next]_vars PROVE IInv'
  OBVIOUS
<1>2. ASSUME NEW r \in Runners
      PROVE  LockOf(r)' /\ AccountedOf(r)' /\ AtFile(r)' /\ PlanOf(r)'
  <2>1. Rests(r) \/ OwnStep(r)
    BY <1>1, OthersRest, Zenon DEF OwnStep
  <2> QED BY <1>1, <2>1, LockStep, AccountStep, PlanRests, PlanOwnStep, Zenon
<1>3. ASSUME NEW s \in Kept'
      PROVE  Agrees(s)'
  BY <1>1, DatabaseGrows, Zenon
<1>4. Agreeing'
  BY <1>3 DEF Agreeing
<1> QED BY <1>1, <1>2, <1>4, TypedStep, OnceStep, DoneStep DEF IInv, Locks, Accounted, Plans

\* The inductive invariant.
THEOREM Inductive == Spec => []IInv
<1> QED BY Initially, Preserved, PTL DEF Spec

\* Every version recorded of a schema nobody dropped has all the objects of its file,
\* whatever was there before versions were recorded, whatever failed, died or overlapped.
THEOREM RecordsAreTrue == Spec => []RecordedIsMade
<1>1. IInv => RecordedIsMade
  BY DEF IInv, Agreeing, Agrees, Whole, RecordedIsMade
<1> QED BY <1>1, Inductive, PTL

\* No file runs twice, or before an earlier one, however many runners are at work, and
\* the lock is held only inside a transaction of a runner that lives.
THEOREM OnceAndInOrder == Spec => []FilesRunOnceInOrder
<1>1. IInv => FilesRunOnceInOrder
  BY DEF IInv, Once, Locks, LockOf, Locking, FilesRunOnceInOrder
<1> QED BY <1>1, Inductive, PTL

\* A tenant reported done has every file, and a run that ends reports every tenant it listed.
THEOREM ReportsAreTrue == Spec => []OutcomesAreTrue
<1>1. IInv => OutcomesAreTrue
  BY DEF IInv, Done, Accounted, AccountedOf, Working, OutcomesAreTrue
<1> QED BY <1>1, Inductive, PTL

=============================================================================
