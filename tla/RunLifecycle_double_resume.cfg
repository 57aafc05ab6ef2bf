SPECIFICATION Spec
CONSTANTS
  Runs = {r1}
  Drivers = {d1, d2}
  Ops = {o1, o2}
  SkipRuns = {}
  NoRun = NoRun
  MaxAsks = 1
  MaxCrashes = 0
CHECK_DEADLOCK FALSE
INVARIANTS
  AtMostOneDriver
