CONSTANTS
  Scenes <- AllScenes
  Answers = {"yes", "maybe"}
  Offered = {"yes"}
  MaxAsks = 1
  MaxLives = 1
SPECIFICATION FairSpec
INVARIANTS ToldWhatIsRecorded EscalatesOnce DecisionsReachTheStep NothingLeftPending
PROPERTIES AsksEnd
CHECK_DEADLOCK FALSE
