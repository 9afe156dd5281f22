SPECIFICATION WebsiteSpec
CONSTANTS
  Subscriptions = {s1, s2}
  Live = {"active", "unpaid"}
  MaxEvents = 3
  Requests = {r1, r2}
  ScaleLimit = 2
  MaxWebsites = 2
INVARIANTS
  SettledAgrees
  PaidPlanStays
PROPERTIES
  OnlyOverlapExceeds
SYMMETRY Symmetry
