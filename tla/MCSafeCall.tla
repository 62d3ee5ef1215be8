----------------------------- MODULE MCSafeCall -----------------------------
EXTENDS SafeCall
=============================================================================
