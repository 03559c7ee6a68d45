----------------------------- MODULE MCLcdLog -----------------------------
EXTENDS LcdLog
=============================================================================
