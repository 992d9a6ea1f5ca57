\* A cancelled call leaves its child running.
CONSTANTS
  Calls = {c1, c2}
  MaxConcurrent = 1
  Requests <- EveryPath
  AuditCanFail = FALSE
SPECIFICATION Spec
INVARIANT NoUnsupervisedChild
