SPECIFICATION RoutingFairSpec
CONSTANTS
  api = api
  cli = cli
  own = own
  Listing <- InOrder
  Local = {own}
  PlanCli = {cli}
  Cost <- Prices
  Tags <- Abilities
  Volatile = {own}
  Wanted = {api}
  Tasks = {"pick", "spread", "cheap", "first"}
  Policy <- Policies
  RunSlots = {1}
  DailyCap = 1
  DayLength = 1
  MaxCool = 1
  NoProvider = NoProvider
CHECK_DEADLOCK FALSE
INVARIANTS
  FencesHold
PROPERTIES
  UnroutableIsConfiguration
  
  
