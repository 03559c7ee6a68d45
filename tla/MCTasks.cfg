SPECIFICATION Spec
CONSTANTS
  Startup = startup_task
  Clockd = clockd
  Sensor = sensor_task
  Idle = idle
  tcpip_thread = tcpip_thread
  eth0_thread = eth0_thread
  httpd = httpd
  Services <- MCServices
  Priority <- MCPriority
  configMAX_PRIORITIES = 7
  DelayTicks = 2
INVARIANTS TypeOK HighestRuns TakesTurns
PROPERTY SamplingGoesOn
