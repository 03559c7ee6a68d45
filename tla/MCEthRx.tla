------------------------------ MODULE MCEthRx ------------------------------
EXTENDS EthRxInv
=============================================================================
