SPECIFICATION Spec
CONSTANTS
  ETH_RXBUFNB = 3
  PBUF_POOL_SIZE = 2
  MBOX_LENGTH = 2
  MEMP_NUM_TCPIP_MSG_INPKT = 2
  MaxSegs = 2
  MaxFrames = 4
INVARIANTS FramesIntact
