SPECIFICATION FairSpec
CONSTANTS
  ETH_TXBUFNB = 4
  MaxSegs = 1
  MaxFrames = 3
  FirstFrames = 2
  First = "startup_task"
  Worker = "tcpip_thread"
PROPERTIES OkFrameSent
