SPECIFICATION Spec
CONSTANTS
  input = input
  tcpip = tcpip
  poster = poster
  Receivers = {input, tcpip}
  Senders = {poster}
  Priority <- MCPriority
  None = None
  uxLength = 1
  TickRange = 4
  Waits <- MCWaits
  MaxPended = 1
INVARIANTS TypeOK ListsAgree NoLostWakeup NextUnblockSound NeverOversleeps NeverGivesUpEarly
PROPERTIES TimedCallReturns HigherTakesFirst
