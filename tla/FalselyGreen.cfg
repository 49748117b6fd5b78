CONSTANTS
  N = 4
  Route <- PlanRoute
  MaxVisits <- PlanVisits
  Attempts <- PlanAttempts
  Verdicts <- PlanVerdicts
  Guarded = {4}
  Cacheable = {1}
  Tries = {4}
  Hooked <- PlanHooks
  HookedReview = TRUE
  Events = {"abort", "shutdown", "timeout", "crash"}
  MaxResumes = 2
SPECIFICATION Spec
PROPERTIES ErroredNeverRoutes
CHECK_DEADLOCK FALSE
