----------------------------- MODULE MCPlanner -----------------------------
(***************************************************************************)
(* A fixture tree of three levels: the root has a test and the children A  *)
(* and B; A has two tests, two external tests and the child C.             *)
(***************************************************************************)
EXTENDS Planner, TLC

CONSTANTS A, B, C, t1, t2, t3, t4, t5, x1, x2, s1, o1, p1, p2, p3

MCTreeTests == (Root :> <<t1>>) @@ (A :> <<t2, t3>>) @@ (B :> <<t4>>) @@ (C :> <<t5>>)
MCTreeExternal == [f \in Fixtures |-> IF f = A THEN {x1, x2} ELSE {}]
MCTreeChildren == (Root :> <<A, B>>) @@ (A :> <<C>>) @@ (B :> <<>>) @@ (C :> <<>>)
MCSkips == {s1}
MCOrphans == {o1}
MCPrePlans == <<<<p1, p2>>, <<p3>>>>
=============================================================================
