SPECIFICATION FairSpec
CONSTANTS
  MaxTurns = 2
  Cap = 1
  MaxFaults = 1
CHECK_DEADLOCK FALSE
INVARIANTS
  VersionsTellTurns
  SpendIsPaced

  
