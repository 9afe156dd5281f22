SPECIFICATION FairSpec
CONSTANTS
  Tenants = {t1}
  Crons = {k1, k2}
  TestAccounts = {t1}
  Lifetime = 1
  Retention = 2
INVARIANTS
  TornDownCompletely
  LiveWorkspaceIsWhole
PROPERTIES
  RecoverableUntilDue
  DeletedStaysDeleted
  PurgeHappens
