------------------------------ MODULE MCEthTx ------------------------------
EXTENDS EthTx
=============================================================================
