CONSTANTS
  a = a
  b = b
  g = g
  c1 = c1
  c2 = c2
  w1 = w1
  w2 = w2
  Jobs = {a}
  Groups = {g}
  Configs = {c1}
  JobsOf <- SerialJobsOf
  GroupsOf <- SerialGroupsOf
  InFlightOf <- SerialInFlightOf
  MaxFailuresOf <- SerialMaxFailuresOf
  Switches = {"pipeline"}
  RunHistory = 0
  QueueHistory = 0
  MaxRows = 2
  MaxRuns = 1
  MaxEpoch = 1
  Workers = {w1, w2}
  MaxSlots = 1
  Forces = {TRUE}
SPECIFICATION LiveSpec
PROPERTIES StopEnds QueueDrains
CHECK_DEADLOCK FALSE
