SPECIFICATION Spec
CONSTANTS
  Answers <- AboutMidnight
  NUM_SOCKETS = 2
  MaxRequests = 1
  MaxTicks = 1
INVARIANTS OneAnswerAlways
CHECK_DEADLOCK FALSE
