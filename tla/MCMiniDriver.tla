---------------------------- MODULE MCMiniDriver ----------------------------
EXTENDS MiniDriver
CONSTANTS t1, t2, t3
=============================================================================
