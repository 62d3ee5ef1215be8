----------------------------- MODULE RemoteRun -----------------------------
(***************************************************************************)
(* Local tests on remote fixtures.  The remote bundle walks its fixtures   *)
(* and hands the tests at the top to the bundle on the DUT                 *)
(* (runExternalTests, RunTestsWithRetry).  The local bundle has a          *)
(* CombinedStack: a stack of its own above an ExternalStack, whose         *)
(* operations are requests to the StackServer of the remote bundle.        *)
(*                                                                         *)
(* The remote fixtures are a chain and all tests hang on the last one; the *)
(* local bundle has the stub of the start fixture and one fixture of its   *)
(* own.  It may crash between any two requests and is then started again   *)
(* for the tests without a result.  The remote bundle does not crash.      *)
(*                                                                         *)
(* Each request of the local bundle and its answer are one step, because   *)
(* the local bundle waits for the answer.  The remote bundle's own         *)
(* ExternalStack asks the command line tool, which handles no stack        *)
(* operation, so it is always green.                                       *)
(*                                                                         *)
(* Abstractions: a test passes or fails; PreTest and PostTest of the local *)
(* fixture (RunTest has them); fixture values; events and their processing *)
(* (MiniDriver has them).                                                  *)
(***************************************************************************)
EXTENDS InternalStack, FiniteSets

CONSTANTS RemoteFixtures,   \* the chain of remote fixtures, bottom first
          StartFixture,     \* the stub of the local bundle
          LocalFixture,     \* a fixture of the local bundle
          Tests,            \* local tests on the last remote fixture
          retryn,           \* retries of a failed test
          MaxCrashes        \* bound on the crashes of the local bundle

ASSUME ConfigAssumption ==
    /\ RemoteFixtures \in Seq(Fixtures) /\ RemoteFixtures # <<>>
    /\ StartFixture \in Fixtures /\ LocalFixture \in Fixtures
    /\ retryn \in Nat /\ MaxCrashes \in Nat

VARIABLES
    \* runFixtTree of the remote bundle
    rpc,        \* where it is; "run" while a local bundle runs
    rstack,     \* InternalStack.stack
    rdirty,     \* InternalStack.dirty
    rleft,      \* tree.externalTests
    result,     \* "none", "ok", "error" or "bug"
    \* StackServer
    postTest,   \* "nil", or the test whose PostTest is due
    \* RunTestsWithRetry
    unstarted,  \* tests without a result
    retries,    \* retries left
    passed,     \* results of this attempt
    failed,
    \* the local bundle
    lpc,        \* where it is
    ltests,     \* tests left in its tree
    estatus,    \* ExternalStack.status
    eerrors,    \* ExternalStack.errors
    startErrors,\* StartFixtureState.Errors
    lstack,     \* InternalStack.stack of its CombinedStack
    ldirty,     \* InternalStack.dirty
    test,       \* the running test, or "nil"
    hasError,   \* EntityCondition.hasError of that test
    crashes,    \* crashes so far
    \* history
    rclean,     \* positions of remote fixtures that no test of this attempt has used
                \* since their last Reset; an abandoned Reset counts
    interrupted \* since the last test function, a crash left a PostTest due, or a
                \* PreTest or PostTest was abandoned

remoteVars == <<rpc, rstack, rleft, result>>
driverVars == <<unstarted, retries, passed, failed>>
treeVars == <<ltests, lstack, startErrors>>
testVars == <<test, hasError>>
faultVars == <<crashes, interrupted>>
vars == <<remoteVars, rdirty, rclean, postTest, driverVars, lpc, treeVars, estatus, eerrors,
          ldirty, testVars, faultVars>>

Init ==
    /\ rpc = "tree" /\ rstack = <<>> /\ rdirty = FALSE /\ rleft = Tests /\ result = "none"
    /\ postTest = "nil"
    /\ unstarted = {} /\ retries = [t \in Tests |-> retryn] /\ passed = {} /\ failed = {}
    /\ lpc = "off" /\ ltests = {} /\ lstack = <<>> /\ startErrors = {}
    /\ estatus = "green" /\ eerrors = {} /\ ldirty = FALSE
    /\ test = "nil" /\ hasError = FALSE
    /\ crashes = 0
    /\ rclean = {} /\ interrupted = FALSE

localOff == UNCHANGED <<lpc, treeVars, estatus, eerrors, ldirty, testVars, faultVars>>

-----------------------------------------------------------------------------
\* The remote bundle, between two calls of runExternalTests.

RemotePush ==
    /\ rpc = "tree" /\ rleft # {}
    /\ Status(rstack) # "yellow" /\ Len(rstack) < Len(RemoteFixtures)
    /\ \E es \in SUBSET Errs : rstack' = Push(rstack, RemoteFixtures[Len(rstack) + 1], es)
    /\ UNCHANGED <<rpc, rleft, result, rdirty, rclean, postTest, driverVars>> /\ localOff

\* runExternalTests: a new StackServer, the state of the top fixture, and the
\* first attempt of RunTestsWithRetry.
RunExternalTests ==
    /\ rpc = "tree" /\ rleft # {}
    /\ Status(rstack) # "yellow" /\ Len(rstack) = Len(RemoteFixtures)
    /\ rpc' = "attempt"
    /\ postTest' = "nil"
    /\ startErrors' = top(rstack).errs
    /\ unstarted' = rleft /\ retries' = [t \in Tests |-> retryn]
    /\ passed' = {} /\ failed' = {}
    /\ UNCHANGED <<rstack, rleft, result, rdirty, rclean>>
    /\ UNCHANGED <<lpc, ltests, lstack, estatus, eerrors, ldirty, testVars, faultVars>>

RemotePop ==
    /\ rpc = "tree" /\ rstack # <<>>
    /\ rleft = {} \/ Status(rstack) = "yellow"
    /\ rstack' = Pop(rstack)
    /\ UNCHANGED <<rpc, rleft, result, rdirty, rclean, postTest, driverVars>> /\ localOff

RemoteDone ==
    /\ rpc = "tree" /\ rleft = {} /\ rstack = <<>>
    /\ rpc' = "done" /\ result' = "ok"
    /\ UNCHANGED <<rstack, rleft, rdirty, rclean, postTest, driverVars>> /\ localOff

-----------------------------------------------------------------------------
\* The local bundle.

At(p) == rpc = "run" /\ lpc = p
remoteWaits == UNCHANGED <<remoteVars, driverVars, faultVars>>

\* CombinedStack.Status and Errors.
CombinedStatus == IF estatus # "green" THEN estatus ELSE Status(lstack)
CombinedErrors == IF eerrors # {} THEN eerrors ELSE Errors(lstack)

\* Mutant: the errors of the remote stack are not asked for.
Connect_NoErrors ==
    /\ rpc = "attempt"
    /\ rpc' = "run" /\ lpc' = "tree"
    /\ estatus' = Status(rstack) /\ eerrors' = {}
    /\ ltests' = unstarted /\ lstack' = <<>> /\ ldirty' = FALSE
    /\ test' = "nil" /\ hasError' = FALSE
    /\ rclean' = DOMAIN rstack
    /\ UNCHANGED <<rstack, rleft, result, rdirty, postTest, driverVars, startErrors, faultVars>>

\* An attempt starts: NewExternalStack asks for the status and the errors.
Connect ==
    /\ rpc = "attempt"
    /\ rpc' = "run" /\ lpc' = "tree"
    /\ estatus' = Status(rstack) /\ eerrors' = Errors(rstack)
    /\ ltests' = unstarted /\ lstack' = <<>> /\ ldirty' = FALSE
    /\ test' = "nil" /\ hasError' = FALSE
    /\ rclean' = DOMAIN rstack
    /\ UNCHANGED <<rstack, rleft, result, rdirty, postTest, driverVars, startErrors, faultVars>>

\* CombinedStack.Push looks at the local part only.  SetUp of the stub reports
\* the errors of the start fixture.
LocalPush ==
    /\ At("tree") /\ ltests # {}
    /\ CombinedStatus # "yellow" /\ Len(lstack) < 2
    /\ IF lstack = <<>>
       THEN lstack' = Push(lstack, StartFixture, startErrors)
       ELSE \E es \in SUBSET Errs : lstack' = Push(lstack, LocalFixture, es)
    /\ UNCHANGED <<lpc, ltests, startErrors, estatus, eerrors, ldirty, testVars, rdirty, rclean, postTest>>
    /\ remoteWaits

\* runTest: SetDirty(true) is sent up; the error of the local MarkDirty is
\* dropped, as is the one in an answer.
StartTest ==
    /\ At("tree") /\ CombinedStatus # "yellow" /\ Len(lstack) = 2
    /\ \E t \in ltests : test' = t /\ ltests' = ltests \ {t}
    /\ rdirty' = TRUE /\ ldirty' = TRUE
    /\ hasError' = FALSE
    /\ lpc' = "status"
    /\ UNCHANGED <<lstack, startErrors, estatus, eerrors, rclean, postTest>> /\ remoteWaits

\* On a red stack the test reports the errors of the stack and ends.
CheckStatus ==
    /\ At("status")
    /\ IF CombinedStatus = "red"
       THEN lpc' = "end" /\ hasError' = (CombinedErrors # {})
       ELSE lpc' = "preTest" /\ UNCHANGED hasError
    /\ UNCHANGED <<treeVars, estatus, eerrors, ldirty, test, rdirty, rclean, postTest>>
    /\ remoteWaits

\* StackServer.PreTest.  An answer with FatalError says that the test has no
\* error, and ExternalStack.PreTest reads nothing else.
PreTest ==
    /\ At("preTest")
    /\ \/ /\ postTest = "nil" /\ Status(rstack) = "green"
          /\ postTest' = test
          /\ hasError' \in BOOLEAN
          /\ UNCHANGED interrupted
       \/ /\ postTest # "nil" \/ Status(rstack) # "green"
          /\ UNCHANGED <<postTest, hasError, interrupted>>  \* refused
       \/ /\ postTest = "nil" /\ Status(rstack) = "green"
          /\ interrupted' = TRUE  \* timeout ignored, or no output directory
          /\ UNCHANGED <<postTest, hasError>>
    /\ lpc' = "func"
    /\ UNCHANGED <<treeVars, estatus, eerrors, ldirty, test, rdirty, rclean, crashes>>
    /\ UNCHANGED <<remoteVars, driverVars>>

\* The test function, unless PreTest reported an error.
Func ==
    /\ At("func")
    /\ IF hasError THEN UNCHANGED <<hasError, rclean>>
                   ELSE hasError' \in BOOLEAN /\ rclean' = {}
    /\ interrupted' = FALSE
    /\ lpc' = "postTest"
    /\ UNCHANGED <<treeVars, estatus, eerrors, ldirty, test, rdirty, postTest, crashes>>
    /\ UNCHANGED <<remoteVars, driverVars>>

\* Mutant: a PostTest that is due for another test is not run.
PostTest_OwnOnly ==
    /\ At("postTest")
    /\ \/ /\ postTest = test
          /\ postTest' = "nil"
          /\ hasError' \in {hasError, TRUE}
          /\ UNCHANGED interrupted
       \/ /\ postTest = test
          /\ interrupted' = TRUE
          /\ UNCHANGED <<postTest, hasError>>
       \/ postTest # test /\ UNCHANGED <<postTest, hasError, interrupted>>
    /\ lpc' = "end"
    /\ UNCHANGED <<treeVars, estatus, eerrors, ldirty, test, rdirty, rclean, crashes>>
    /\ UNCHANGED <<remoteVars, driverVars>>

\* StackServer.PostTest runs the PostTest that is due, whoever asks.  One that is
\* abandoned stays due; one that a crash left behind has a canceled context, and
\* may be abandoned at once.
PostTest ==
    /\ At("postTest")
    /\ \/ /\ postTest # "nil"
          /\ postTest' = "nil"
          /\ hasError' \in {hasError, TRUE}
          /\ UNCHANGED interrupted
       \/ /\ postTest # "nil"
          /\ interrupted' = TRUE  \* timeout ignored
          /\ UNCHANGED <<postTest, hasError>>
       \/ postTest = "nil" /\ UNCHANGED <<postTest, hasError, interrupted>>  \* refused
    /\ lpc' = "end"
    /\ UNCHANGED <<treeVars, estatus, eerrors, ldirty, test, rdirty, rclean, crashes>>
    /\ UNCHANGED <<remoteVars, driverVars>>

\* The test has a result; Reset comes next if tests are left.
EndTest ==
    /\ At("end")
    /\ passed' = IF hasError THEN passed ELSE passed \cup {test}
    /\ failed' = IF hasError THEN failed \cup {test} ELSE failed
    /\ lpc' = IF ltests = {} THEN "tree" ELSE "resetFlag"
    /\ test' = "nil"
    /\ UNCHANGED <<remoteVars, rdirty, rclean, postTest, unstarted, retries, treeVars, estatus,
                   eerrors, ldirty, hasError, faultVars>>

\* Mutant: only the local stack is reset.
ResetFlag_NoParent ==
    /\ At("resetFlag")
    /\ rdirty' = FALSE /\ ldirty' = FALSE
    /\ lpc' = IF CombinedStatus = "green" THEN "resetChild" ELSE "tree"
    /\ UNCHANGED <<treeVars, estatus, eerrors, testVars, rclean, postTest>> /\ remoteWaits

\* CombinedStack.Reset: SetDirty(false) is sent up.
ResetFlag ==
    /\ At("resetFlag")
    /\ rdirty' = FALSE /\ ldirty' = FALSE
    /\ lpc' = IF CombinedStatus = "green" THEN "reset" ELSE "tree"
    /\ UNCHANGED <<treeVars, estatus, eerrors, testVars, rclean, postTest>> /\ remoteWaits

\* The Reset of the remote stack.  If a remote fixture ignores the timeout of
\* Reset the answer carries FatalError, and no status, which reads as green.
ResetParent ==
    /\ At("reset")
    /\ \/ /\ \E k \in 0 .. Len(rstack) :
                /\ rstack' = Reset(rstack, k)
                /\ rclean' = rclean \cup 1 .. k
          /\ estatus' = Status(rstack')
       \/ /\ estatus' = "green" /\ rclean' = DOMAIN rstack
          /\ UNCHANGED rstack
    /\ rdirty' = FALSE
    /\ lpc' = IF estatus' = "green" THEN "resetChild" ELSE "tree"
    /\ UNCHANGED <<rpc, rleft, result, postTest, driverVars, treeVars, eerrors, ldirty,
                   testVars, faultVars>>

\* The Reset of the local stack.
ResetChild ==
    /\ At("resetChild")
    /\ lstack' \in {Reset(lstack, k) : k \in {1, 2}}
    /\ lpc' = "tree"
    /\ UNCHANGED <<ltests, startErrors, estatus, eerrors, ldirty, testVars, rdirty, rclean, postTest>>
    /\ remoteWaits

LocalPop ==
    /\ At("tree") /\ lstack # <<>>
    /\ ltests = {} \/ CombinedStatus = "yellow"
    /\ lstack' = Pop(lstack)
    /\ UNCHANGED <<lpc, ltests, startErrors, estatus, eerrors, ldirty, testVars, rdirty, rclean, postTest>>
    /\ remoteWaits

\* runFixtTree of the local bundle returns, and the bundle exits.
LocalExit ==
    /\ At("tree") /\ lstack = <<>>
    /\ ltests = {} \/ CombinedStatus = "yellow"
    /\ lpc' = "off" /\ rpc' = "collect"
    /\ UNCHANGED <<rstack, rleft, result, rdirty, rclean, postTest, driverVars, treeVars, estatus,
                   eerrors, ldirty, testVars, faultVars>>

\* The local bundle dies.  The running test is reported as failed; a PostTest
\* that is due stays due.
LocalCrash ==
    /\ rpc = "run" /\ crashes < MaxCrashes
    /\ crashes' = crashes + 1
    /\ interrupted' = (interrupted \/ postTest # "nil")
    /\ failed' = IF test = "nil" THEN failed ELSE failed \cup {test}
    /\ lpc' = "off" /\ rpc' = "collect" /\ test' = "nil"
    /\ UNCHANGED <<rstack, rleft, result, rdirty, rclean, postTest, unstarted, retries, passed,
                   treeVars, estatus, eerrors, ldirty, hasError>>

-----------------------------------------------------------------------------
\* RunTestsWithRetry after an attempt, and what runExternalTests returns.
retried == {t \in failed : retries[t] > 0}
final == (passed \cup failed) \ retried

\* Mutant: retries are not counted.
Retry_Free ==
    /\ rpc = "collect" /\ passed \cup failed # {}
    /\ unstarted' = unstarted \ final
    /\ passed' = {} /\ failed' = {}
    /\ rpc' = IF unstarted' = {} THEN "return" ELSE "attempt"
    /\ UNCHANGED <<retries, rstack, rleft, result, rdirty, rclean, postTest>> /\ localOff

Retry ==
    /\ rpc = "collect" /\ passed \cup failed # {}
    /\ unstarted' = unstarted \ final
    /\ retries' = [t \in Tests |-> IF t \in retried THEN retries[t] - 1 ELSE retries[t]]
    /\ passed' = {} /\ failed' = {}
    /\ rpc' = IF unstarted' = {} THEN "return" ELSE "attempt"
    /\ UNCHANGED <<rstack, rleft, result, rdirty, rclean, postTest>> /\ localOff

\* No test ran: the loop ends with an error, which counts only if no test has a
\* result.
NoTestRan ==
    /\ rpc = "collect" /\ passed \cup failed = {}
    /\ IF unstarted = rleft
       THEN rpc' = "done" /\ result' = "error"
       ELSE rpc' = "return" /\ UNCHANGED result
    /\ UNCHANGED <<rstack, rleft, rdirty, rclean, postTest, driverVars>> /\ localOff

ReturnUnstarted ==
    /\ rpc = "return"
    /\ IF unstarted = rleft
       THEN rpc' = "done" /\ result' = "bug" /\ UNCHANGED rleft
       ELSE rpc' = "tree" /\ rleft' = unstarted /\ UNCHANGED result
    /\ UNCHANGED <<rstack, rdirty, rclean, postTest, driverVars>> /\ localOff

LocalNext ==
    \/ LocalPush \/ StartTest \/ CheckStatus \/ PreTest \/ Func \/ PostTest \/ EndTest
    \/ ResetFlag \/ ResetParent \/ ResetChild \/ LocalPop \/ LocalExit

Next ==
    \/ RemotePush \/ RunExternalTests \/ RemotePop \/ RemoteDone
    \/ Connect \/ LocalNext \/ LocalCrash
    \/ Retry \/ NoTestRan \/ ReturnUnstarted

\* Every call returns: user code is cut off by SafeCall and requests are
\* answered.
Spec == Init /\ [][Next]_vars /\ WF_vars(Next)

-----------------------------------------------------------------------------
\* Every variable has its type.
TypeOK ==
    /\ rpc \in {"tree", "attempt", "run", "collect", "return", "done"}
    /\ rstack \in Seq(StatefulFixture) /\ lstack \in Seq(StatefulFixture)
    /\ rdirty \in BOOLEAN /\ ldirty \in BOOLEAN
    /\ rleft \in SUBSET Tests
    /\ result \in {"none", "ok", "error", "bug"}
    /\ postTest \in Tests \cup {"nil"}
    /\ unstarted \in SUBSET Tests /\ retries \in [Tests -> 0 .. retryn]
    /\ passed \in SUBSET Tests /\ failed \in SUBSET Tests
    /\ lpc \in {"off", "tree", "status", "preTest", "func", "postTest", "end", "resetFlag",
                "reset", "resetChild"}
    /\ ltests \in SUBSET Tests
    /\ estatus \in Statuses /\ eerrors \in SUBSET Errs /\ startErrors \in SUBSET Errs
    /\ test \in Tests \cup {"nil"} /\ hasError \in BOOLEAN
    /\ crashes \in 0 .. MaxCrashes /\ interrupted \in BOOLEAN
    /\ rclean \in SUBSET (1 .. Len(RemoteFixtures))

\* A local test function runs only if all its remote and local fixtures are set
\* up, and a test that does not run for that reason ends with an error.
\* The type invariant is checked with it.
NoTestOnBrokenStack ==
    /\ TypeOK
    /\ At("func") => Status(rstack) = "green" /\ Status(lstack) = "green"
    /\ At("end") /\ CombinedStatus # "green" => hasError

\* StackServer.PreTest: "It's an error to call PreTest before PostTest is called
\* after a successful PreTest."  The server outlives the local bundle, so a crash
\* does leave a PostTest due, and the next PreTest is refused although its test
\* runs.  Each crash or abandoned call costs one test its PreTest at most: a test
\* function without the PreTest of its remote fixtures has had one since the last
\* function ran, and so has every PostTest that is due while no test needs it.
PreTestsPaired ==
    /\ At("func") /\ postTest # test => interrupted
    /\ postTest # "nil" /\ ~At("func") /\ ~At("postTest") => interrupted

\* The run ends, with every test settled if it ends well, and never by runFixtTree's
\* own check: if runExternalTests returns no error, some test has run.
AllSettled == <>(result \notin {"none", "bug"} /\ (result = "ok" => rleft = {}))

\* CombinedStack.SetDirty: "SetDirty(true) can be called before running a test to
\* make sure Reset is called for sure between tests."  Within one attempt every
\* remote fixture is reset before the next test function runs, unless a remote
\* Reset ignored its timeout.
ResetBetweenTests == At("func") /\ ~hasError => rclean = DOMAIN rstack
=============================================================================
