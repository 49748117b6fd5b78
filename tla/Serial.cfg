CONSTANTS
  a = a
  b = b
  g = g
  c1 = c1
  c2 = c2
  w1 = w1
  w2 = w2
  Jobs = {a, b}
  Groups = {g}
  Configs = {c1}
  JobsOf <- SerialJobsOf
  GroupsOf <- SerialGroupsOf
  InFlightOf <- SerialInFlightOf
  MaxFailuresOf <- SerialMaxFailuresOf
  Switches = {}
  RunHistory = 0
  QueueHistory = 0
  MaxRows = 2
  MaxRuns = 2
  MaxEpoch = 2
  Workers = {w1, w2}
  MaxSlots = 2
  Forces = {FALSE}
SPECIFICATION Spec
SYMMETRY WorkerSymmetry
INVARIANTS TypeOK RunningRowsOwned SerialGroupsHold BuildHasItsRow NothingBuiltTwice
PROPERTIES BreakerCountsFailures RestartKeepsWork ImplementsLedger
CHECK_DEADLOCK FALSE
