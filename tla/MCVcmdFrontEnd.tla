--------------------------- MODULE MCVcmdFrontEnd ---------------------------
EXTENDS VcmdFrontEnd

CONSTANTS t1, t2, f1, f2
=============================================================================
