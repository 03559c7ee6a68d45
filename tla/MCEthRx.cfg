SPECIFICATION FairSpec
CONSTANTS
  ETH_RXBUFNB = 4
  PBUF_POOL_SIZE = 3
  MBOX_LENGTH = 1
  MEMP_NUM_TCPIP_MSG_INPKT = 2
  MaxSegs = 3
  MaxFrames = 5
INVARIANTS TypeOK FramesIntactUntilFailure NoLostWakeup RxNeverBusy PoolConserved RingInv
PROPERTIES ImplementsChannel NoUnreadRelease ReceptionResumesUntilFailure
