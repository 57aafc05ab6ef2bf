SPECIFICATION Spec
CONSTANTS
  Runs = {r1}
  Drivers = {d1, d2}
  Ops = {o1, o2}
  SkipRuns = {}
  NoRun = NoRun
  MaxAsks = 2
  MaxCrashes = 1
SYMMETRY WorkerSymmetry
CHECK_DEADLOCK FALSE
INVARIANTS
  NoStrandedRun
  NoActWithoutOperator
