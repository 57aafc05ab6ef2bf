SPECIFICATION FairSpec
CONSTANTS
  Ops = {o1, o2}
  MaxFresh = 1
  MaxDeferrals = 2
  MaxRequeues = 2
  MaxFaults = 1
CHECK_DEADLOCK FALSE
INVARIANTS
  DuplicatesAreAccounted
  SweepLosesNothing
PROPERTIES
  DeferredIsTakenUp
