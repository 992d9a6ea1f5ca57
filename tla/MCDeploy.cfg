\* Three releases, runs repeated but not that of the live release.
CONSTANTS
  N = 3
  RedeployLive = FALSE
SPECIFICATION FairSpec
INVARIANT LiveIntact
PROPERTIES SuccessIsLive RevertRestores NeverBackwards ImplementsRollout HeadLands
