SPECIFICATION FairSpec
CONSTANTS
  Runs = {r1, r2}
  Drivers = {d1, d2}
  Ops = {o1}
  SkipRuns = {r2}
  NoRun = NoRun
  MaxAsks = 1
  MaxCrashes = 1
CHECK_DEADLOCK FALSE
INVARIANTS
  TypeOK
PROPERTIES
  ImplementsClaim
  FinishedStays
  QueuedRunsSettle
