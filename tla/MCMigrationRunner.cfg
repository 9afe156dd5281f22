SPECIFICATION Spec
CONSTANTS
  s1 = s1
  s2 = s2
  r1 = r1
  r2 = r2
  NoOne = NoOne
  NoSchema = NoSchema
  Schemas = {s1, s2}
  Legacy = {s1}
  Runners = {r1, r2}
  Last = 3
  MaxMishaps = 1
SYMMETRY Symmetry
CHECK_DEADLOCK FALSE
INVARIANTS
  RecordedIsMade
  FilesRunOnceInOrder
  OutcomesAreTrue
