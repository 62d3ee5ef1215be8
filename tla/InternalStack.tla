--------------------------- MODULE InternalStack ---------------------------
(***************************************************************************)
(* The data structure of internal/planner/internal/fixture: a stack of     *)
(* stateful fixtures (type InternalStack and type statefulFixture), as     *)
(* operators on the value of the stack.  A stack is the sequence of the    *)
(* fixtures on the path from the root of the fixture tree to the current   *)
(* node, bottom first.                                                     *)
(*                                                                         *)
(* Abstractions: an error is an opaque member of Errs (its wording, which  *)
(* rewriteErrorsForTest prefixes, is left out); the value SetUp returns is *)
(* not kept, only whether the fixture is set up.                           *)
(***************************************************************************)
EXTENDS Naturals, Sequences

CONSTANTS Fixtures,   \* names of the fixtures that may be pushed
          Errs        \* errors the SetUp of a fixture may report

Statuses == {"green", "red", "yellow"}

StatefulFixture == [fixt : Fixtures, status : Statuses, errs : SUBSET Errs]

\* A fixture that has just been pushed: red, no error.
newStatefulFixture(f) == [fixt |-> f, status |-> "red", errs |-> {}]

\* The bottom-most position of stack s that satisfies a status test.
BottomMost(s, statuses) ==
    CHOOSE i \in DOMAIN s :
        /\ s[i].status \in statuses
        /\ \A j \in 1 .. i - 1 : s[j].status \notin statuses

\* The status of the stack is that of the first fixture, from the bottom,
\* that is not green.
Status(s) ==
    IF \A i \in DOMAIN s : s[i].status = "green"
    THEN "green"
    ELSE s[BottomMost(s, {"red", "yellow"})].status

\* The errors a test on this stack reports: those of the first red fixture.
Errors(s) ==
    IF \E i \in DOMAIN s : s[i].status = "red"
    THEN s[BottomMost(s, {"red"})].errs
    ELSE {}

\* SetUp of fixture sf ran to its end and reported the errors es.
RunSetUp(sf, es) ==
    IF es = {} THEN [sf EXCEPT !.status = "green"] ELSE [sf EXCEPT !.errs = es]

\* The stack after Push of f, whose SetUp (if it is called) reports es.
Push(s, f, es) ==
    Append(s, IF Status(s) = "green"
              THEN RunSetUp(newStatefulFixture(f), es)
              ELSE newStatefulFixture(f))

\* The stack after Push of f whose SetUp ignored its timeout.
PushAbandoned(s, f) == Append(s, newStatefulFixture(f))

\* The stack after Pop.
Pop(s) == SubSeq(s, 1, Len(s) - 1)

top(s) == s[Len(s)]

\* The stack after Reset when the first k fixtures reset successfully and
\* the Reset of the next one, if there is one, returned an error.
Reset(s, k) ==
    [i \in DOMAIN s |-> IF i = k + 1 THEN [s[i] EXCEPT !.status = "yellow"]
                                     ELSE s[i]]

-----------------------------------------------------------------------------
\* The first invariant InternalStack documents: when there is a yellow
\* fixture in the stack, no other fixture is red.
NoRedWithYellow(s) ==
    \A i, j \in DOMAIN s : s[i].status = "yellow" => s[j].status # "red"

\* The second one: when there is no yellow fixture, the fixtures from the
\* bottom up to some height are green and all those above it are red.
GreenBelowRed(s) ==
    (\A i \in DOMAIN s : s[i].status # "yellow") =>
        \A i, j \in DOMAIN s :
            i < j /\ s[j].status = "green" => s[i].status = "green"

Shape(s) == NoRedWithYellow(s) /\ GreenBelowRed(s)

\* There is an error to report for a red stack.
Explained(s) == Status(s) = "red" => Errors(s) # {}
=============================================================================
