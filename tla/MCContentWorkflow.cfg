SPECIFICATION ContentSpec
CONSTANTS
  p1 = p1
  d1 = d1
  f1 = f1
  r1 = r1
  q1 = q1
  q2 = q2
  Jobs = {p1, d1, f1}
  PlanJobs = {p1}
  ProduceJobs = {d1}
  FixJobs = {f1}
  Runners = {r1}
  Requests = {q1, q2}
  MaxAttempts = 2
  Gaps = 1
  Fixes = 2
  StepAttempts = 2
  MaxPlans = 2
  MaxTasks = 2
  MaxReads = 2
  MaxAsked = 2
SYMMETRY Symmetry
CHECK_DEADLOCK FALSE
INVARIANTS
  OnlyMishapsRepublish
  PublishedIsLogged
  SuccessIsWholePlan
PROPERTIES
  KeepsApproval
