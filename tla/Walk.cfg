CONSTANTS
  N = 4
  Route <- PlanRoute
  MaxVisits <- PlanVisits
  Attempts <- PlanAttempts
  Verdicts <- PlanVerdicts
  Guarded = {4}
  Cacheable = {1}
  Tries = {4}
  Hooked <- PlanHooks
  HookedReview = FALSE
  Events = {"abort", "shutdown", "timeout", "crash"}
  MaxResumes = 2
SPECIFICATION FairSpec
INVARIANTS ReplaysItsPath LoopBudget
PROPERTIES ErroredNeverRoutes RunEnds
CHECK_DEADLOCK FALSE
