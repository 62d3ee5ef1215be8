---------------------------- MODULE TestSchedule ----------------------------
(***************************************************************************)
(* What the planner promises to the author of a test, without saying how   *)
(* it walks the fixture tree: each test is settled at most once; when it   *)
(* runs, exactly the fixtures on the path from the root to its own fixture *)
(* are set up; fixtures are set up below their parent and torn down in the *)
(* opposite order.                                                         *)
(*                                                                         *)
(* This is the contract that docs/writing_tests.md and the comments of     *)
(* internal/planner/run.go describe; Planner implements it.                *)
(***************************************************************************)
EXTENDS Naturals, Sequences

CONSTANTS Fixtures,   \* nodes of the fixture tree
          Root,       \* the unnamed start fixture
          Parent,     \* parent of every fixture but the root
          Tests,      \* all tests of the run
          FixtureOf   \* fixture of the tests that are in the tree

VARIABLES path,       \* fixtures that are set up, in the order of set-up
          log         \* what happened to which tests: they "ran", or were
                      \* "reported" as skipped or failed without running

vars == <<path, log>>

Init == path = <<>> /\ log = <<>>

InnerMost(f) == path # <<>> /\ path[Len(path)] = f

\* Tests that have no result yet.
Unsettled(ts) == \A i \in DOMAIN log : log[i].tests \cap ts = {}

SetUp(f) ==
    /\ IF f = Root THEN path = <<>> ELSE InnerMost(Parent[f])
    /\ path' = Append(path, f)
    /\ UNCHANGED log

TearDown ==
    /\ path # <<>>
    /\ path' = SubSeq(path, 1, Len(path) - 1)
    /\ UNCHANGED log

\* Tests run on exactly the path of their fixture; tests that are not in the
\* tree run when no fixture is set up.
Run(ts) ==
    /\ Unsettled(ts)
    /\ \A t \in ts : IF t \in DOMAIN FixtureOf THEN InnerMost(FixtureOf[t])
                                               ELSE path = <<>>
    /\ log' = Append(log, [tests |-> ts, how |-> "ran"])
    /\ UNCHANGED path

\* A test in the tree is failed without running only if its fixture is not
\* set up.
Report(ts) ==
    /\ Unsettled(ts)
    /\ \A t \in ts \cap DOMAIN FixtureOf : ~InnerMost(FixtureOf[t])
    /\ log' = Append(log, [tests |-> ts, how |-> "reported"])
    /\ UNCHANGED path

Next ==
    \/ \E f \in Fixtures : SetUp(f)
    \/ TearDown
    \/ \E ts \in SUBSET Tests : Run(ts) \/ Report(ts)

Spec == Init /\ [][Next]_vars
=============================================================================
