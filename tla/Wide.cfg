CONSTANTS
  a = a
  b = b
  g = g
  c1 = c1
  c2 = c2
  w1 = w1
  w2 = w2
  Jobs = {a}
  Groups = {g}
  Configs = {c1, c2}
  JobsOf <- WideJobsOf
  GroupsOf <- WideGroupsOf
  InFlightOf <- WideInFlightOf
  MaxFailuresOf <- WideMaxFailuresOf
  Switches = {}
  RunHistory = 1
  QueueHistory = 1
  MaxRows = 3
  MaxRuns = 2
  MaxEpoch = 2
  Workers = {w1, w2}
  MaxSlots = 2
  Forces = {FALSE}
SPECIFICATION WideSpec
SYMMETRY WorkerSymmetry
INVARIANTS PendingIndexes ForeignKeys
PROPERTIES ClaimsWithinLimits
CHECK_DEADLOCK FALSE
