------------------------------- MODULE MCPrAcc -------------------------------
EXTENDS PrAcc
==============================================================================
