CONSTANTS
  unit = unit
  deploy = deploy
  repo = repo
  conf = conf
  hook = hook
  w1 = w1
  w2 = w2
  Jobs = {unit, deploy}
  Resources = {repo, conf}
  Versions = {1, 2}
  HistoryLimit = 0
  Gets <- BuiltGets
  Every <- BuiltGets
  Triggers <- BuiltGets
  Passed <- BuiltPassed
  Puts <- BuiltPuts
  Webhooks = {}
  Outside = {repo}
  AfterCursor = {}
  Backfills = {}
  Events = {}
  Workers = {w1}
SPECIFICATION FairSpec
INVARIANTS GateHolds
PROPERTIES NoTriggerLost
