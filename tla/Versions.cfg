CONSTANTS
  unit = unit
  deploy = deploy
  repo = repo
  conf = conf
  hook = hook
  w1 = w1
  w2 = w2
  Jobs = {unit}
  Resources = {repo}
  Versions = {1, 2}
  HistoryLimit = 1
  Gets <- ChainGets
  Every <- ChainGets
  Triggers <- ChainGets
  Passed <- NoPassed
  Puts <- NoPuts
  Webhooks = {}
  Outside = {repo}
  AfterCursor = {}
  Backfills = {}
  Events = {"manual", "crash", "check"}
  Workers = {w1, w2}
SPECIFICATION Spec
SYMMETRY WorkerSymmetry
INVARIANTS NothingSkipped
PROPERTIES TakenOnce WindowKept
