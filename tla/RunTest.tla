------------------------------ MODULE RunTest ------------------------------
(***************************************************************************)
(* internal/planner/run.go, runTest and runTestWithConfig, on a green      *)
(* fixture stack: the hooks around a test and the errors that decide which *)
(* of them run.  The tests of one prePlan, or of one fixture, run one      *)
(* after the other; only the last of a prePlan closes the precondition.    *)
(*                                                                         *)
(* All user code runs in usercode.SafeCall, so a call of it ends in one of *)
(* three ways: it succeeds, it reports an error (condition.RecordError) or *)
(* panics, which is the same, or it is abandoned.  A goroutine that a hook *)
(* or the test leaves behind may report an error at any later time.        *)
(*                                                                         *)
(* Abstractions: the messages of errors, timeouts, the values of fixtures  *)
(* and preconditions, logs.  The Reset between tests is in Planner.        *)
(***************************************************************************)
EXTENDS Naturals, Sequences

CONSTANTS Depth,      \* height of the fixture stack
          NumTests    \* number of tests that run on it

ASSUME SizeAssumption == Depth \in Nat /\ NumTests \in Nat \ {0}

VARIABLES usesPre,    \* the tests are those of a prePlan (then no fixture)
          test,       \* number of tests started, so of the current test
          pc,         \* the call runTestWithConfig is about to make
          i,          \* fixture whose PreTest or PostTest is next
          hasError,   \* EntityCondition.hasError of the current test
          async,      \* a goroutine reporting an error: "none", "recorded", "lost"
          reported,   \* errors emitted for the current test
          ended,      \* EntityStream.ended of the current test
          hooks,      \* fixtures whose PostTest is in postTests
          succeeded,  \* history: fixtures whose PreTest reported no error
          posted,     \* history: fixtures whose PostTest was called, in order
          ran,        \* history: the test function of the current test was called
          postHook,   \* postTestFunc: "none", "set" or "called"
          prepared,   \* history: tests that called Pre.Prepare
          closes,     \* history: tests that called Pre.Close
          result      \* "none", "ok", or "error" if the run stops

fixtVars == <<i, hooks, succeeded, posted>>
outerVars == <<usesPre, test, result>>
preVars == <<prepared, closes>>
vars == <<outerVars, pc, hasError, async, reported, ended, fixtVars, ran, postHook, preVars>>

height == IF usesPre THEN 0 ELSE Depth

Init ==
    /\ usesPre \in BOOLEAN
    /\ test = 0
    /\ pc = "next"
    /\ i = 1
    /\ hasError = FALSE
    /\ async = "none"
    /\ reported = FALSE
    /\ ended = TRUE
    /\ hooks = {}
    /\ succeeded = {}
    /\ posted = <<>>
    /\ ran = FALSE
    /\ postHook = "none"
    /\ prepared = {}
    /\ closes = {}
    /\ result = "none"

-----------------------------------------------------------------------------
At(p) == result = "none" /\ pc = p

\* EntityStream.Error: refused once the test has ended.
EmitError == reported' = (reported \/ ~ended)

\* A call of user code succeeds, or reports an error; then on to p.
Succeed(p) == pc' = p /\ UNCHANGED <<hasError, reported>>
ReportError(p) == pc' = p /\ hasError' = TRUE /\ EmitError
Proceed(p) == Succeed(p) \/ ReportError(p)

\* The call returned to runTestWithConfig in time.
Returned == UNCHANGED <<outerVars, async, ended>>

\* The call is abandoned: runTest reports that and ends the test, and the run
\* stops.
Abandon ==
    /\ result' = "error"
    /\ EmitError
    /\ ended' = TRUE
    /\ UNCHANGED <<usesPre, test, pc, hasError, async, fixtVars, postHook>>

\* runTest starts the next test, unless its output directory cannot be
\* created.
StartTest ==
    /\ At("next") /\ test < NumTests
    /\ \/ /\ test' = test + 1
          /\ pc' = "setup"
          /\ hasError' = FALSE /\ async' = "none"
          /\ reported' = FALSE /\ ended' = FALSE
          /\ i' = 1 /\ hooks' = {} /\ succeeded' = {} /\ posted' = <<>>
          /\ ran' = FALSE /\ postHook' = "none"
          /\ UNCHANGED result
       \/ /\ result' = "error"
          /\ UNCHANGED <<test, pc, hasError, async, reported, ended, fixtVars, ran, postHook>>
    /\ UNCHANGED <<usesPre, preVars>>

\* PreCheck and TestHook: TestHook may return a function to call at the end.
SetUpTest ==
    /\ At("setup")
    /\ \/ /\ Proceed("prepare") /\ Returned
          /\ postHook' \in {"none", "set"}
          /\ UNCHANGED fixtVars
       \/ Abandon
    /\ UNCHANGED <<ran, preVars>>

\* Pre.Prepare, if there is a precondition and no error so far.
Prepare ==
    /\ At("prepare")
    /\ IF ~hasError /\ usesPre
       THEN /\ prepared' = prepared \cup {test}
            /\ (Proceed("pretest") /\ Returned /\ UNCHANGED <<fixtVars, postHook>>) \/ Abandon
       ELSE Succeed("pretest") /\ Returned /\ UNCHANGED <<fixtVars, postHook, prepared>>
    /\ UNCHANGED <<ran, closes>>

\* statefulFixture.RunPreTest for fixture i: PreTest and PostTest are left out
\* if an error is reported already.
RunPreTest ==
    /\ At("pretest") /\ i <= height
    /\ IF hasError
       THEN i' = i + 1 /\ Succeed("pretest")
       ELSE i' = i /\ Succeed("inpretest")
    /\ Returned
    /\ UNCHANGED <<hooks, succeeded, posted, ran, postHook, preVars>>

\* PreTest returns.  With an error reported by now, by whomever, the fixture
\* gets no PostTest.
PreTestReturns ==
    /\ At("inpretest")
    /\ \/ /\ \/ Succeed("pretest") /\ succeeded' = succeeded \cup {i}
             \/ ReportError("pretest") /\ UNCHANGED succeeded
          /\ hooks' = IF hasError' THEN hooks ELSE hooks \cup {i}
          /\ i' = i + 1
          /\ Returned /\ UNCHANGED <<posted, postHook>>
       \/ Abandon
    /\ UNCHANGED <<ran, preVars>>

PreTestDone ==
    /\ At("pretest") /\ i > height
    /\ Succeed("func") /\ Returned
    /\ UNCHANGED <<fixtVars, ran, postHook, preVars>>

\* Mutant: the test function is left out if PreTests are, with no error.
CheckFunc_SkipNoHooks ==
    /\ At("func")
    /\ i' = height
    /\ IF hasError \/ hooks = {}
       THEN Succeed("posttest") /\ UNCHANGED ran
       ELSE Succeed("infunc") /\ ran' = TRUE
    /\ Returned
    /\ UNCHANGED <<hooks, succeeded, posted, postHook, preVars>>

\* The check before the test function.
CheckFunc ==
    /\ At("func")
    /\ i' = height
    /\ IF hasError
       THEN Succeed("posttest") /\ UNCHANGED ran
       ELSE Succeed("infunc") /\ ran' = TRUE
    /\ Returned
    /\ UNCHANGED <<hooks, succeeded, posted, postHook, preVars>>

\* The test function returns.
FuncReturns ==
    /\ At("infunc")
    /\ (Proceed("posttest") /\ Returned /\ UNCHANGED <<fixtVars, postHook>>) \/ Abandon
    /\ UNCHANGED <<ran, preVars>>

\* Mutant: a PostTest that reports an error ends the loop.
RunPostTest_StopOnError ==
    /\ At("posttest") /\ i >= 1
    /\ Returned
    /\ IF i \in hooks
       THEN /\ posted' = Append(posted, i)
            /\ \/ Succeed("posttest") /\ i' = i - 1
               \/ ReportError("posttest") /\ i' = 0
       ELSE Succeed("posttest") /\ i' = i - 1 /\ UNCHANGED posted
    /\ UNCHANGED <<hooks, succeeded, ran, postHook, preVars>>

\* The hook PreTest returned for fixture i, top of the stack first.
RunPostTest ==
    /\ At("posttest") /\ i >= 1
    /\ \/ /\ IF i \in hooks
             THEN Proceed("posttest") /\ posted' = Append(posted, i)
             ELSE Succeed("posttest") /\ UNCHANGED posted
          /\ i' = i - 1
          /\ Returned /\ UNCHANGED <<hooks, succeeded, postHook>>
       \/ i \in hooks /\ Abandon
    /\ UNCHANGED <<ran, preVars>>

PostTestDone ==
    /\ At("posttest") /\ i = 0
    /\ Succeed("close") /\ Returned
    /\ UNCHANGED <<fixtVars, ran, postHook, preVars>>

\* Mutant: the precondition is left open if the last test failed.
Close_OnSuccess ==
    /\ At("close")
    /\ IF usesPre /\ test = NumTests /\ ~hasError
       THEN Proceed("posthook") /\ closes' = closes \cup {test}
       ELSE Succeed("posthook") /\ UNCHANGED closes
    /\ Returned /\ UNCHANGED <<fixtVars, ran, postHook, prepared>>

\* Pre.Close in the last test of a prePlan, also if the test failed.
Close ==
    /\ At("close")
    /\ IF usesPre /\ test = NumTests
       THEN /\ closes' = closes \cup {test}
            /\ (Proceed("posthook") /\ Returned /\ UNCHANGED <<fixtVars, postHook>>) \/ Abandon
       ELSE Succeed("posthook") /\ Returned /\ UNCHANGED <<fixtVars, postHook, closes>>
    /\ UNCHANGED <<ran, prepared>>

\* The function TestHook returned, unconditionally.
CallPostHook ==
    /\ At("posthook")
    /\ IF postHook = "set"
       THEN \/ Proceed("end") /\ postHook' = "called" /\ Returned /\ UNCHANGED fixtVars
            \/ Abandon
       ELSE Succeed("end") /\ Returned /\ UNCHANGED <<fixtVars, postHook>>
    /\ UNCHANGED <<ran, preVars>>

\* The deferred EntityStream.End, then back to the caller of runTest.
EndTest ==
    /\ At("end")
    /\ ended' = TRUE
    /\ pc' = "next"
    /\ result' = IF test = NumTests THEN "ok" ELSE result
    /\ UNCHANGED <<usesPre, test, hasError, async, reported, fixtVars, ran, postHook, preVars>>

\* A goroutine that a hook or the test function started, and did not wait
\* for, reports an error: globalMixin.Error records it, then emits it.
AsyncRecord ==
    /\ test > 0 /\ pc # "setup" /\ async = "none"
    /\ async' = "recorded"
    /\ hasError' = TRUE
    /\ UNCHANGED <<outerVars, pc, reported, ended, fixtVars, ran, postHook, preVars>>

AsyncEmit ==
    /\ async = "recorded"
    /\ async' = IF ended THEN "lost" ELSE "none"
    /\ EmitError
    /\ UNCHANGED <<outerVars, pc, hasError, ended, fixtVars, ran, postHook, preVars>>

Next ==
    \/ StartTest \/ SetUpTest \/ Prepare
    \/ RunPreTest \/ PreTestReturns \/ PreTestDone
    \/ CheckFunc \/ FuncReturns
    \/ RunPostTest \/ PostTestDone
    \/ Close \/ CallPostHook \/ EndTest
    \/ AsyncRecord \/ AsyncEmit

Spec == Init /\ [][Next]_vars

-----------------------------------------------------------------------------
\* Every variable has its type.
TypeOK ==
    /\ usesPre \in BOOLEAN
    /\ test \in 0 .. NumTests
    /\ pc \in {"next", "setup", "prepare", "pretest", "inpretest", "func", "infunc",
               "posttest", "close", "posthook", "end"}
    /\ i \in 0 .. height + 1
    /\ async \in {"none", "recorded", "lost"}
    /\ hasError \in BOOLEAN /\ reported \in BOOLEAN /\ ended \in BOOLEAN
    /\ hooks \in SUBSET (1 .. height) /\ succeeded \in SUBSET (1 .. height)
    /\ posted \in Seq(1 .. height)
    /\ ran \in BOOLEAN
    /\ postHook \in {"none", "set", "called"}
    /\ prepared \in SUBSET (1 .. NumTests) /\ closes \in SUBSET (1 .. NumTests)
    /\ result \in {"none", "ok", "error"}

\* A test that ends with no error in its output did run, unless a goroutine was
\* cut off between recording an error and emitting it: every fixture went through
\* PreTest, the precondition was prepared, and the test function was called.
\* What else makes runTestWithConfig leave a call out has reached the output as
\* an error of the test.
NoSilentPass ==
    ended /\ test > 0 /\ ~reported /\ async = "none" =>
        /\ ran
        /\ succeeded = 1 .. height
        /\ usesPre => test \in prepared

\* A test that ends without an abandoned call undid what it set up: PostTest was
\* called for the fixtures whose PreTest left a hook, from the top of the stack
\* down, even if the test or another PostTest failed, and for no other; and the
\* function TestHook returned was called.  If the test function was called, it
\* had all fixtures ready, each with its PostTest due.
HooksUndone ==
    At("end") =>
        /\ {posted[j] : j \in DOMAIN posted} = hooks
        /\ hooks \subseteq succeeded
        /\ ran => hooks = 1 .. height
        /\ \A j, k \in DOMAIN posted : j < k => posted[j] > posted[k]
        /\ postHook # "set"

\* A precondition is prepared by no test after it was closed, and if no call is
\* abandoned the last test has closed it, even if its tests or Prepare failed.
\* The type invariant is checked with it.
ClosedOnce ==
    /\ TypeOK
    /\ \A c \in closes : \A t \in prepared : t <= c
    /\ result = "ok" /\ usesPre => closes = {NumTests}
=============================================================================
