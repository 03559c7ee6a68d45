SPECIFICATION Spec
CONSTANTS
  Conns = {c1, c2}
  MEMP_NUM_NETCONN = 3
  MEMP_NUM_NETBUF = 2
  LWIP_MAX_OPEN_FILES = 1
  archMESG_QUEUE_LENGTH = 2
  TCP_SND_BUF = 2
  FS_ROOT = {"html", "404"}
  StaticPages = {"html"}
  DynamicPages = {"tasks"}
  Writes <- MCWrites
INVARIANTS TypeOK NothingLeaked FileIsOpen NeverWaitsOnTheDead DeleteIsClean WholePage
PROPERTY EveryoneIsServed
