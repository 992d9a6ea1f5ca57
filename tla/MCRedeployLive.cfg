\* A run for the live release whose smoke fails removes it.
CONSTANTS
  N = 2
  RedeployLive = TRUE
SPECIFICATION Spec
PROPERTY RevertRestores
