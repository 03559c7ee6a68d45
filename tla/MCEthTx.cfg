SPECIFICATION FairSpec
CONSTANTS
  ETH_TXBUFNB = 3
  MaxSegs = 2
  MaxFrames = 5
  FirstFrames = 2
  First = "tcpip_thread"
  Worker = "tcpip_thread"
INVARIANTS TypeOK WireIntact RingAgreed TransmitNeverFails
PROPERTIES OkFrameSent
