\* Two runs, two schemas and three tables that come and go.
CONSTANTS
  s1 = s1
  s2 = s2
  t1 = t1
  t2 = t2
  t3 = t3
  Runs = {r1, r2}
  Schemas = {s1, s2}
  Tables = {t1, t2, t3}
  Home <- ThreeTables
SPECIFICATION Spec
SYMMETRY RunSymmetry
INVARIANTS ReadOnlyFirst SuccessCoversKnown OneCreator
PROPERTIES SuccessCoversFuture ImplementsRole
