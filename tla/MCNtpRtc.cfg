SPECIFICATION FairSpec
CONSTANTS
  Answers <- AboutMidnight
  NUM_SOCKETS = 2
  MaxRequests = 2
  MaxTicks = 1
INVARIANTS TypeOK SocketsConserved OneAnswer ShownOneMoment
PROPERTIES StartupEnds
CHECK_DEADLOCK FALSE
