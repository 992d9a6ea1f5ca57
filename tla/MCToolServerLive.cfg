\* Liveness: three calls, two permits, one tool of each kind of wait.
CONSTANTS
  Calls = {c1, c2, c3}
  MaxConcurrent = 2
  Requests <- EveryWait
  AuditCanFail = TRUE
SPECIFICATION FairSpec
PROPERTIES AdmittedSettle PermitsReturn
