\* Every graph of three dicts and lists with a sensitive key and two others.
CONSTANTS
  Size = 3
  Labels = {password, rows, sets}
  Sensitive = {password}
SPECIFICATION Spec
INVARIANTS NothingLeaks NothingElseChanges
CHECK_DEADLOCK FALSE
