SPECIFICATION FairSpec
CONSTANTS
  Ids = {1, 2}
  Targets = {"report"}
  NoTarget = "none"
  MaxItems = 2
  MaxTurns = 1
  MaxHandoffs = 1
  MaxCalls = 2
  MaxWrites = 2
  MaxFaults = 1
CHECK_DEADLOCK FALSE
INVARIANTS
  ContractIsOwn
  ProposalsAreAccounted
  VerifiedIsGrounded
PROPERTIES
  NothingLandsLate
  PlanningEnds
