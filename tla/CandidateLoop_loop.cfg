SPECIFICATION FairSpec
CONSTANTS
  p1 = p1
  p2 = p2
  Providers = {p1, p2}
  Path <- ApiAndCli
  Overflows = {NoProvider, p1, p2}
  NoProvider = NoProvider
  MaxRetries = 1
  MaxAsks = 1
  MaxRestarts = 1
CHECK_DEADLOCK FALSE
INVARIANTS
  PassesAreCounted
  AttemptsAreClosed
  NothingBehindTheRow
PROPERTIES
  LoopEnds
