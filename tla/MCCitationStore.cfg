SPECIFICATION Spec
CONSTANTS
  a = a
  b = b
  k1 = k1
  k2 = k2
  Public = Public
  Schemas = {a, b}
  Calls = {k1, k2}
  MaxConnections = 3
SYMMETRY Symmetry
INVARIANTS
  AuditsStayInTheirSchema
