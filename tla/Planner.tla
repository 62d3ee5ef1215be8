------------------------------ MODULE Planner ------------------------------
(***************************************************************************)
(* internal/planner/run.go: the execution of a plan.  plan.run reports the *)
(* skipped tests, fixtPlan.run reports the orphans and walks the fixture   *)
(* tree, then every prePlan runs its tests.  The recursion of runFixtTree  *)
(* is explicit: frames is the call stack, one frame for each active call,  *)
(* with the place the call has reached.                                    *)
(*                                                                         *)
(* The planner is sequential; what it does not control is nondeterministic *)
(* here: whether SetUp, Reset, TearDown and a test succeed, fail or ignore *)
(* their timeout, whether an output directory can be created, and which of *)
(* the external tests (those of the bundle on the DUT) a call of           *)
(* runExternalTests gets to.                                               *)
(*                                                                         *)
(* Abstractions: the body of a test is one step (RunTest has its hooks);   *)
(* downloads are left out; external tests are sent as one batch, so a set. *)
(* The stack is an InternalStack; RemoteRun has the remote part of a       *)
(* combined stack.  A combined stack drops the error MarkDirty returns on  *)
(* a dirty stack; the model keeps it, so that NoBug says it never occurs.  *)
(***************************************************************************)
EXTENDS InternalStack, FiniteSets

CONSTANTS Root,            \* the unnamed start fixture, root of the tree
          TreeTests,       \* fixtTree.tests of the plan, for every fixture
          TreeExternal,    \* fixtTree.externalTests
          TreeChildren,    \* fixtTree.children
          Skips,           \* tests whose dependencies are not satisfied
          Orphans,         \* tests whose fixture does not exist
          PrePlans         \* for every precondition, its tests in order

VARIABLES phase,           \* where plan.run is
          result,          \* what plan.run returns
          tests,           \* remaining fixtTree.tests
          externalTests,   \* remaining fixtTree.externalTests
          children,        \* remaining fixtTree.children
          prePlans,        \* remaining tests of the remaining prePlans
          frames,          \* active calls of runFixtTree
          stack,           \* InternalStack.stack
          dirty,           \* InternalStack.dirty
          log,             \* history: which tests "ran" or were "reported"
          clean            \* history: fixtures set up or reset since a test used them

treeVars == <<tests, externalTests, children>>
vars == <<phase, result, treeVars, prePlans, frames, stack, dirty, log, clean>>

Range(seq) == {seq[i] : i \in DOMAIN seq}

\* Tests that are in the tree of the plan, and the fixture of each.
TestsIn(f) == Range(TreeTests[f]) \cup TreeExternal[f]
InTree == UNION {TestsIn(f) : f \in Fixtures}
FixtureOf == [t \in InTree |-> CHOOSE f \in Fixtures : t \in TestsIn(f)]
AllTests == InTree \cup Skips \cup Orphans \cup UNION {Range(PrePlans[i]) : i \in DOMAIN PrePlans}
Parent == [f \in Fixtures \ {Root} |->
              CHOOSE p \in Fixtures : f \in Range(TreeChildren[p])]

\* The plan is a tree and names every test once.
ASSUME TreeAssumption ==
    /\ Root \in Fixtures
    /\ TreeTests \in [Fixtures -> Seq(InTree)]
    /\ TreeExternal \in [Fixtures -> SUBSET InTree]
    /\ TreeChildren \in [Fixtures -> Seq(Fixtures \ {Root})]
    /\ \A f, g \in Fixtures : \A i \in DOMAIN TreeChildren[f], j \in DOMAIN TreeChildren[g] :
           TreeChildren[f][i] = TreeChildren[g][j] => f = g /\ i = j
    /\ \A f, g \in Fixtures : f # g => TestsIn(f) \cap TestsIn(g) = {}
    /\ \A f \in Fixtures :
          /\ Range(TreeTests[f]) \cap TreeExternal[f] = {}
          /\ \A i, j \in DOMAIN TreeTests[f] : TreeTests[f][i] = TreeTests[f][j] => i = j

\* fixtTree.Empty.
NoneLeft(ts, xs, cs) == ts = <<>> /\ xs = {} /\ cs = <<>>
Empty(f) == NoneLeft(tests[f], externalTests[f], children[f])

\* The call of runFixtTree for f, at its loop.
Frame(f) == [tree |-> f, pc |-> "loop", hasExternalTests |-> FALSE]

Init ==
    /\ phase = "skips"
    /\ result = "none"
    /\ tests = TreeTests
    /\ externalTests = TreeExternal
    /\ children = TreeChildren
    /\ prePlans = PrePlans
    /\ frames = <<>>
    /\ stack = <<>>
    /\ dirty = FALSE
    /\ log = <<>>
    /\ clean = {}

-----------------------------------------------------------------------------
depth == Len(frames)
tree == frames[depth].tree
OnStack == {stack[i].fixt : i \in DOMAIN stack}

\* The innermost call of runFixtTree is at pc, respectively goes to pc.
At(pc) == phase = "tree" /\ result = "none" /\ frames # <<>> /\ frames[depth].pc = pc
GoTo(pc) == frames' = [frames EXCEPT ![depth].pc = pc]

\* plan.run returns an error: a failed check of the planner or of the stack
\* ("bug"), or something that really went wrong ("error").
Fail(err) == result' = err /\ UNCHANGED frames
Continue(pc) == GoTo(pc) /\ UNCHANGED result

planVars == <<phase, prePlans>>

\* The tests ts ran, or were reported without running.
Settle(ts, how) == log' = Append(log, [tests |-> ts, how |-> how])

\* A call of the stack that changes no fixture and returns err.
Refused(err) ==
    /\ Fail(err)
    /\ UNCHANGED <<stack, clean>>

-----------------------------------------------------------------------------
\* plan.run and fixtPlan.run: the tests that are reported without being run,
\* then the call of runFixtTree for the root with an empty stack.
ReportSkips ==
    /\ phase = "skips"
    /\ Settle(Skips, "reported")
    /\ phase' = "orphans"
    /\ UNCHANGED <<result, treeVars, prePlans, frames, stack, dirty, clean>>

ReportOrphans ==
    /\ phase = "orphans"
    /\ Settle(Orphans, "reported")
    /\ phase' = "tree"
    /\ frames' = <<Frame(Root)>>
    /\ UNCHANGED <<result, treeVars, prePlans, stack, dirty, clean>>

\* The loop of runFixtTree ends: return to the caller.
Return ==
    /\ At("loop")
    /\ Empty(tree) \/ Status(stack) = "yellow"
    /\ IF depth = 1
       THEN phase' = "preStart" /\ frames' = <<>>
       ELSE /\ frames' = [SubSeq(frames, 1, depth - 1)
                            EXCEPT ![depth - 1].pc = "afterChild"]
            /\ UNCHANGED phase
    /\ UNCHANGED <<result, treeVars, prePlans, stack, dirty, log, clean>>

\* stack.Push for the fixture of the tree.
PushTree ==
    /\ At("loop")
    /\ ~Empty(tree) /\ Status(stack) # "yellow"
    /\ \/ /\ \E es \in SUBSET Errs : stack' = Push(stack, tree, es)
          /\ clean' = IF Status(stack') = "green" THEN clean \cup {tree} ELSE clean
          /\ Continue("tests")
       \/ Refused("error")                         \* CreateOutDir failed
       \/ /\ Status(stack) = "green"
          /\ stack' = PushAbandoned(stack, tree)
          /\ Fail("error")
          /\ UNCHANGED clean
    /\ UNCHANGED <<planVars, treeVars, dirty, log>>

\* runTest for the next direct test.  It marks the stack dirty before it looks
\* at the status.
RunDirectTest ==
    /\ At("tests")
    /\ Status(stack) # "yellow" /\ tests[tree] # <<>>
    /\ tests' = [tests EXCEPT ![tree] = Tail(@)]
    /\ UNCHANGED <<planVars, externalTests, children, stack>>
    /\ LET t == Head(tests[tree])
           next == IF NoneLeft(Tail(tests[tree]), externalTests[tree], children[tree])
                   THEN "tests" ELSE "reset"
       IN  \/ /\ Fail("error") \/ (dirty /\ Fail("bug"))  \* CreateOutDir, MarkDirty
             /\ UNCHANGED <<dirty, log, clean>>
          \/ /\ ~dirty /\ Status(stack) = "red"
             /\ dirty' = TRUE
             /\ Settle({t}, "reported")
             /\ Continue(next)
             /\ UNCHANGED clean
          \/ /\ ~dirty /\ Status(stack) = "green"
             /\ dirty' = TRUE
             /\ Settle({t}, "ran")
             /\ clean' = clean \ OnStack
             /\ Continue(next) \/ Fail("error")         \* or timeout ignored

\* Mutant: the dirty flag is cleared but the fixtures are not reset.
ResetStack_FlagOnly(pc) ==
    /\ dirty' = FALSE
    /\ Continue(pc)
    /\ UNCHANGED <<planVars, treeVars, stack, log, clean>>

\* stack.Reset, then on to pc.
ResetStack(pc) ==
    /\ dirty' = FALSE
    /\ \/ Status(stack) = "red" /\ Continue(pc) /\ UNCHANGED <<stack, clean>>
       \/ Status(stack) = "yellow" /\ Refused("bug")
       \/ /\ Status(stack) = "green"
          /\ \E k \in 0 .. Len(stack) :
                /\ stack' = Reset(stack, k)
                /\ clean' = clean \cup {stack[i].fixt : i \in 1 .. k}
          /\ Continue(pc)
       \/ Status(stack) = "green" /\ Refused("error")   \* timeout ignored
    /\ UNCHANGED <<planVars, treeVars, log>>

ResetAfterTest == At("reset") /\ ResetStack("tests")

\* The loop over the direct tests ends.
TestsDone ==
    /\ At("tests")
    /\ Status(stack) = "yellow" \/ tests[tree] = <<>>
    /\ frames' = [frames EXCEPT ![depth].pc = "external",
                                ![depth].hasExternalTests = externalTests[tree] # {}]
    /\ UNCHANGED <<planVars, result, treeVars, stack, dirty, log, clean>>

\* One call of runExternalTests; started are the tests with a result.  The bundle
\* on the DUT resets the stack between them, so it may come back yellow with
\* tests left over, and whether it is dirty depends on the last test.  Without
\* an error there is at least one (RunTestsWithRetry).
RunExternalTests ==
    /\ At("external")
    /\ Status(stack) # "yellow" /\ externalTests[tree] # {}
    /\ \/ Refused("error") /\ UNCHANGED <<externalTests, dirty, log>>
       \/ \E started \in SUBSET externalTests[tree] \ {{}} :
             /\ Settle(started, IF Status(stack) = "green" THEN "ran" ELSE "reported")
             /\ externalTests' = [externalTests EXCEPT ![tree] = @ \ started]
             /\ \/ /\ dirty' \in BOOLEAN
                   /\ clean' = IF Status(stack) = "green" THEN clean \ OnStack ELSE clean
                   /\ UNCHANGED stack
                   /\ Continue("external") \/ Fail("error")
                \/ /\ Status(stack) = "green" /\ started # externalTests[tree]
                   /\ \E k \in 0 .. Len(stack) - 1 :
                         /\ stack' = Reset(stack, k)
                         /\ clean' = (clean \ OnStack) \cup {stack[i].fixt : i \in 1 .. k}
                   /\ dirty' = FALSE
                   /\ Continue("external")
    /\ UNCHANGED <<planVars, tests, children>>

\* The loop over the external tests ends.
ExternalDone ==
    /\ At("external")
    /\ Status(stack) = "yellow" \/ externalTests[tree] = {}
    /\ Continue("children")
    /\ UNCHANGED <<planVars, treeVars, stack, dirty, log, clean>>

\* The stack has not been reset since the external tests.
ResetAfterExternal ==
    /\ At("children")
    /\ Status(stack) # "yellow" /\ children[tree] # <<>>
    /\ frames[depth].hasExternalTests
    /\ ResetStack("call")

\* The recursive call, directly or after that Reset (whatever its outcome).
CallChild ==
    /\ \/ At("call")
       \/ /\ At("children")
          /\ Status(stack) # "yellow" /\ children[tree] # <<>>
          /\ ~frames[depth].hasExternalTests
    /\ frames' = Append([frames EXCEPT ![depth].pc = "child"],
                        Frame(Head(children[tree])))
    /\ UNCHANGED <<planVars, result, treeVars, stack, dirty, log, clean>>

\* Mutant: a subtree is removed also when tests are left in it.
AfterChild_DropsAborted ==
    /\ At("afterChild")
    /\ LET rest == Tail(children[tree])
       IN  /\ children' = [children EXCEPT ![tree] = rest]
           /\ IF /\ Status(stack) # "yellow"
                 /\ ~NoneLeft(tests[tree], externalTests[tree], rest)
              THEN Continue("resetChild")
              ELSE Continue("children")
    /\ UNCHANGED <<planVars, tests, externalTests, stack, dirty, log, clean>>

\* A subtree that was aborted by a failed Reset stays in the tree.
AfterChild ==
    /\ At("afterChild")
    /\ LET rest == IF Empty(Head(children[tree])) THEN Tail(children[tree])
                                                  ELSE children[tree]
       IN  /\ children' = [children EXCEPT ![tree] = rest]
           /\ IF /\ Status(stack) # "yellow"
                 /\ ~NoneLeft(tests[tree], externalTests[tree], rest)
              THEN Continue("resetChild")
              ELSE Continue("children")
    /\ UNCHANGED <<planVars, tests, externalTests, stack, dirty, log, clean>>

\* Mutant: no Reset between a child and what comes after it.
ResetAfterChild_Skipped ==
    /\ At("resetChild")
    /\ Continue("children")
    /\ UNCHANGED <<planVars, treeVars, stack, dirty, log, clean>>

ResetAfterChild == At("resetChild") /\ ResetStack("children")

\* Mutant: on a yellow stack the fixture is not popped.
ChildrenDone_NoPop ==
    /\ At("children")
    /\ Status(stack) = "yellow" \/ children[tree] = <<>>
    /\ IF Status(stack) = "yellow" THEN Continue("loop") ELSE Continue("pop")
    /\ UNCHANGED <<planVars, treeVars, stack, dirty, log, clean>>

ChildrenDone ==
    /\ At("children")
    /\ Status(stack) = "yellow" \/ children[tree] = <<>>
    /\ Continue("pop")
    /\ UNCHANGED <<planVars, treeVars, stack, dirty, log, clean>>

\* stack.Pop, back to the loop of runFixtTree.
PopTree ==
    /\ At("pop")
    /\ stack' = Pop(stack)
    /\ clean' = clean \ {tree}
    /\ \/ Continue("loop")
       \/ top(stack).status # "red" /\ Fail("error")
    /\ UNCHANGED <<planVars, treeVars, dirty, log>>

-----------------------------------------------------------------------------
\* prePlan.run: each prePlan has an empty stack of its own.
StartPrePlan ==
    /\ phase = "preStart" /\ prePlans # <<>> /\ result = "none"
    /\ stack' = <<>> /\ dirty' = FALSE /\ clean' = {}
    /\ phase' = "pre"
    /\ UNCHANGED <<result, treeVars, prePlans, frames, log>>

RunPreTest ==
    /\ phase = "pre" /\ result = "none"
    /\ LET t == Head(Head(prePlans)) IN
       \/ /\ result' = "error" \/ (dirty /\ result' = "bug")
          /\ UNCHANGED <<phase, prePlans, dirty, log>>
       \/ /\ ~dirty
          /\ dirty' = TRUE
          /\ Settle({t}, "ran")
          /\ IF Len(Head(prePlans)) > 1
             THEN /\ prePlans' = <<Tail(Head(prePlans))>> \o Tail(prePlans)
                  /\ phase' = "preReset"
             ELSE prePlans' = Tail(prePlans) /\ phase' = "preStart"
          /\ UNCHANGED result \/ result' = "error"
    /\ UNCHANGED <<treeVars, frames, stack, clean>>

\* Reset of the empty stack between two tests.
ResetPre ==
    /\ phase = "preReset" /\ result = "none"
    /\ dirty' = FALSE
    /\ phase' = "pre"
    /\ UNCHANGED <<result, treeVars, prePlans, frames, stack, log, clean>>

Finish ==
    /\ phase = "preStart" /\ prePlans = <<>> /\ result = "none"
    /\ result' = "ok"
    /\ UNCHANGED <<planVars, treeVars, frames, stack, dirty, log, clean>>

Next ==
    \/ ReportSkips \/ ReportOrphans
    \/ Return \/ PushTree
    \/ RunDirectTest \/ ResetAfterTest \/ TestsDone
    \/ RunExternalTests \/ ExternalDone
    \/ ResetAfterExternal \/ CallChild \/ AfterChild \/ ResetAfterChild \/ ChildrenDone
    \/ PopTree
    \/ StartPrePlan \/ RunPreTest \/ ResetPre \/ Finish

\* plan.run is one goroutine, and every call it makes returns: user code is
\* cut off by SafeCall after its timeout and the grace period.
Spec == Init /\ [][Next]_vars /\ WF_vars(Next)

-----------------------------------------------------------------------------
Pcs == {"loop", "tests", "reset", "external", "children", "call", "child",
        "afterChild", "resetChild", "pop"}

\* Every variable has its type.
TypeOK ==
    /\ phase \in {"skips", "orphans", "tree", "preStart", "pre", "preReset"}
    /\ result \in {"none", "ok", "error", "bug"}
    /\ tests \in [Fixtures -> Seq(InTree)]
    /\ externalTests \in [Fixtures -> SUBSET InTree]
    /\ children \in [Fixtures -> Seq(Fixtures \ {Root})]
    /\ prePlans \in Seq(Seq(AllTests))
    /\ frames \in Seq([tree : Fixtures, pc : Pcs, hasExternalTests : BOOLEAN])
    /\ stack \in Seq(StatefulFixture)
    /\ dirty \in BOOLEAN
    /\ log \in Seq([tests : SUBSET AllTests, how : {"ran", "reported"}])
    /\ clean \in SUBSET Fixtures

\* No check of the stack ever fails: no MarkDirty on a dirty stack and no Reset
\* on a yellow one, whatever the fixtures do.
\* The type invariant is checked with it.
NoBug == TypeOK /\ result # "bug"

\* When the body of a direct test runs, each fixture on the stack has been set
\* up or reset successfully since the last test that ran on it.
NoStaleFixture ==
    [][ RunDirectTest /\ log' # log /\ Status(stack) = "green" => OnStack \subseteq clean ]_vars

\* plan.run returns, although a fixture that fails to reset makes runFixtTree
\* start over with the tests that are left, and it returns success only after
\* every test of the plan got a result.
AllSettled ==
    <>(/\ result # "none"
       /\ result = "ok" => AllTests = UNION {log[i].tests : i \in DOMAIN log})

\* The fixtures that are set up: all below the bottom-most red one.
SetUpHeight ==
    IF \E i \in DOMAIN stack : stack[i].status = "red"
    THEN BottomMost(stack, {"red"}) - 1
    ELSE Len(stack)

Schedule == INSTANCE TestSchedule
    WITH Tests <- AllTests, path <- [i \in 1 .. SetUpHeight |-> stack[i].fixt]

\* The planner keeps its promise to tests: each is settled once, and runs on
\* exactly the fixtures from the root to its own.
ImplementsSchedule == Schedule!Spec
=============================================================================
