----------------------------- MODULE MCRunTest -----------------------------
EXTENDS RunTest
=============================================================================
