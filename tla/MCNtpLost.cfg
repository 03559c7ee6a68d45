SPECIFICATION FairSpec
CONSTANTS
  Answers <- AboutMidnight
  NUM_SOCKETS = 2
  MaxRequests = 1
  MaxTicks = 0
PROPERTIES ReceiveEnds
CHECK_DEADLOCK FALSE
