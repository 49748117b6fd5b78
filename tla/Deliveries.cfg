CONSTANTS
  unit = unit
  deploy = deploy
  repo = repo
  conf = conf
  hook = hook
  w1 = w1
  w2 = w2
  Jobs = {unit}
  Resources = {hook}
  Versions = {1, 2}
  HistoryLimit = 0
  Gets <- HookGets
  Every <- HookGets
  Triggers <- HookGets
  Passed <- NoPassed
  Puts <- NoPuts
  Webhooks = {hook}
  Outside = {}
  AfterCursor = {}
  Backfills = {}
  Events = {"pause"}
  Workers = {w1}
SPECIFICATION FairSpec
PROPERTIES CheckedNeverRewinds NoTriggerLost
