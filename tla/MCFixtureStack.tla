--------------------------- MODULE MCFixtureStack ---------------------------
(***************************************************************************)
(* Instance of FixtureStack for TLC.                                       *)
(***************************************************************************)
EXTENDS FixtureStack
=============================================================================
