CONSTANTS
  j1 = j1
  j2 = j2
  c1 = c1
  a1 = a1
  a2 = a2
  b1 = b1
  k1 = k1
  t1 = t1
  t2 = t2
  Scopes = {j1, j2, c1}
  Checks = {c1}
  Tags = {t1, t2}
  Steps = {a1, a2, b1, k1}
  ScopeOf <- MCScopeOf
  TagOf <- MCTagOf
  Scenes <- SmallScenes
  Retries = 1
  MaxEntries = 5
SPECIFICATION FairSpec
INVARIANTS CountsAddUp NotUnderAUser NothingLeftBilling PoolHolds NobodyWaitsForNothing EvictedGoesFirst
PROPERTIES EverythingEnds
CHECK_DEADLOCK FALSE
