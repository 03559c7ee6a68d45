------------------------------ MODULE MCTasks ------------------------------
EXTENDS Tasks, TLC

CONSTANTS tcpip_thread, eth0_thread, httpd

MCServices == <<tcpip_thread, eth0_thread, httpd>>

\* makeFreeRtosPriority of the priorities in the osThreadDefs, and
\* TCPIP_THREAD_PRIO.
MCPriority ==
  Idle :> 0 @@ Clockd :> 2 @@ Sensor :> 2 @@ Startup :> 3 @@
  tcpip_thread :> 3 @@ httpd :> 3 @@ eth0_thread :> 6
=============================================================================
