SPECIFICATION ClientSpec
CONSTANTS
  MaxWorkspaces = 2
  OpenPages = {"home", "visibility", "queries", "monitoring", "settings", "onboarding"}
  MaxJobs = 1
  MaxScans = 1
  MaxActions = 2
  Patience = 2
CHECK_DEADLOCK FALSE
INVARIANTS
  
  CompletedRunIsShown
PROPERTIES
  EveryWaitEnds
