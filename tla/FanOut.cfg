CONSTANTS
  N = 3
  Blocks <- SmallBlocks
  Costs = {0, 1, 2}
  Events = {"abort", "timeout"}
SPECIFICATION FairSpec
INVARIANTS BudgetHolds StopsForAReason WorstBranchCounts
PROPERTIES BlockReturns
CHECK_DEADLOCK FALSE
