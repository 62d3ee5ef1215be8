---------------------------- MODULE MCRemoteRun ----------------------------
EXTENDS RemoteRun
CONSTANTS R1, R2, S, L, e, t1, t2
MCRemoteFixtures == <<R1, R2>>
=============================================================================
