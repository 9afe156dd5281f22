SPECIFICATION Spec
CONSTANTS
  s1 = s1
  s2 = s2
  l1 = l1
  r1 = r1
  c1 = c1
  e1 = e1
  e2 = e2
  Nobody = Nobody
  Overlap = 2
  Mishaps = 1
  Signups = {s1, s2}
  Logins = {l1}
  Creations = {c1}
  Requests = {r1}
  Emails = {e1, e2}
SYMMETRY Symmetry
CHECK_DEADLOCK FALSE
INVARIANTS
  SignupIsAllOrNothing
  SessionsOfOneUserOverlapped
  NoAdmissionTooLate
