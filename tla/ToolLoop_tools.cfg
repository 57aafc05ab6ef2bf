SPECIFICATION FairSpec
CONSTANTS
  Paths = {"openai_compat", "anthropic"}
  MaxRounds = 3
  Budget = 2
  PerRound = 2
  MaxRedirects = 1
CHECK_DEADLOCK FALSE
INVARIANTS
  UnansweredWereCut
  BudgetIsCumulative
  ConsentIsForOneCall
PROPERTIES
  RunSettles
