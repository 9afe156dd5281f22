SPECIFICATION SiteSpec
CONSTANTS
  NoResult = NoResult
  Pages <- Changes
  Queries = 2
  Models = 2
  MaxAttempts = 3
  MaxSetbacks = 1
CHECK_DEADLOCK FALSE
INVARIANTS
  ImprovementsDoNotCost
  AgentsAgree
  OverallIsFair
  RateLimitsAreNotBakedIn
