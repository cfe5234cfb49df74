----------------------------- MODULE MCEjtagDma -----------------------------
EXTENDS EjtagDma
MCWords == {0, 1}
==============================================================================
