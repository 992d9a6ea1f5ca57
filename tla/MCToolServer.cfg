\* Three calls share two permits; audit writes may fail.
CONSTANTS
  Calls = {c1, c2, c3}
  MaxConcurrent = 2
  Requests <- EveryPath
  AuditCanFail = TRUE
SPECIFICATION Spec
SYMMETRY CallSymmetry
INVARIANTS TypeOK PermitAccounting SettledMeansReplied AnswersAreAudited ChildrenSupervised ChildrenBounded
PROPERTIES ImplementsPool CountsOnQueryWait
