\* A call for every kind of job, three migrations.
CONSTANTS
  Calls = {c1}
  Jobs <- EveryJob
  MaxRows = 2
  MaxMigrations = 4
SPECIFICATION FairSpec
INVARIANTS ConnectionsClosed OnlyLimited RowsAreExact TableIsWhole
PROPERTIES LeftoversEnd EndsLikeOneWait
