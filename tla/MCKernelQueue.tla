--------------------------- MODULE MCKernelQueue ---------------------------
EXTENDS KernelQueue, TLC

CONSTANTS input, tcpip, poster

MCPriority == input :> 2 @@ tcpip :> 1 @@ poster :> 1
MCWaits == input :> {2, portMAX_DELAY} @@ tcpip :> {0, 2} @@ poster :> {portMAX_DELAY}
=============================================================================
