SPECIFICATION FairSpec
CONSTANTS
  Setups <- MCSetups
  Budget <- MCBudget
  MaxOutput = 2
  Cap = 1
  Word = 8
CHECK_DEADLOCK FALSE
INVARIANTS
  WholeOutput
  RateTrue
PROPERTIES
  ListsAreSnapshots
  ViewsSettle
