SPECIFICATION StepsSpec
CONSTANTS
  Jobs = {j1}
  Keys = {k1}
  NoKey = NoKey
  NoJob = NoJob
  Runners = {r1, r2}
  Clients = {c1}
  MaxAttempts = 2
  StuckAfter = 3
  FunctionTimeout = 2
  Budget = 2
  StepCutoff = 1
  ContinueAfter = 0
  BackoffBase = 1
  BackoffCap = 2
  MaxDeferAge = 2
  OverdueCap = 0
  RetryAfters = {1, 2}
  RepliesLost = TRUE
  LastStep = 2
  StepAttempts = 2
  StoreFails = TRUE
INVARIANTS
  RecordedStepsAreNotPaidAgain
  SuccessesCostAttempts
  SuccessHasReport
  ExclusiveOwner
  WritesOwnClaim
  QueuedHasAttemptLeft
PROPERTIES
  OnlyTheWinnerUndoesSuccess
  RequeuedByOwnerOrStuck
  KeepsLifecycle
SYMMETRY Symmetry
