SPECIFICATION Spec
CONSTANTS
  f1 = f1
  f2 = f2
  m1 = m1
  m2 = m2
  sessions = sessions
  searches = searches
  NoGrant = NoGrant
  Flows = {f1, f2}
  Monitors = {m1, m2}
  Calls = {sessions, searches}
  StateTTL = 1
  MaxDisconnects = 2
SYMMETRY Symmetry
CHECK_DEADLOCK FALSE
INVARIANTS
  LatestWishHolds
  BundleIsOfOneGrant
  SnapshotIsOfOneSource
