----------------------------- MODULE MiniDriver -----------------------------
(***************************************************************************)
(* internal/minidriver: RunTestsWithRetry runs a bundle until every test   *)
(* has a result.  One attempt (runLocalTestsOnce) connects, starts the     *)
(* bundle and feeds its events to the processor (bundleclient.RunTests),   *)
(* whose preprocessor closes what a crashed bundle left open and whose     *)
(* handlers collect results and count failures.  runExternalTests of the   *)
(* planner is the caller.                                                  *)
(*                                                                         *)
(* The bundle is the environment: it starts the fixture and the requested  *)
(* tests in any order, reports errors, stops early after a reset failure,  *)
(* or crashes between any two events.  The gRPC stream keeps the order, so *)
(* events lost in a crash are events not sent.                             *)
(*                                                                         *)
(* Abstractions: an entity has errors or none; logs, timing, output files, *)
(* times and the diagnosis of a lost connection are left out.  A skipped   *)
(* test is one that starts and ends.                                       *)
(***************************************************************************)
EXTENDS Naturals, Sequences, FiniteSets

CONSTANTS AllTests,   \* tests to run
          Fixture,    \* the one fixture of the bundle that reports events
          retryn,     \* retries of a failed test
          threshold   \* failfast.Counter.threshold; 0 stands for the nil Counter

ASSUME ConstantAssumption ==
    /\ Fixture \notin AllTests
    /\ retryn \in Nat /\ threshold \in Nat

VARIABLES
    pc,          \* where RunTestsWithRetry is
    unstarted,   \* tests without a result
    retries,     \* retries left for each test
    allResults,  \* results to be returned
    ret,         \* error returned: "none" yet, "nil", "conn", "fatal", "noTest"
    todo,        \* requested tests the bundle has not started
    stack,       \* preprocessor.stack
    results,     \* resultsHandler.results
    runErr,      \* error that ended the attempt: "nil", "error" or "fatal"
    fails,       \* failfast.Counter.fails
    attempts,    \* history: times each test was started
    crashed      \* history: tests cut off in this attempt

loopVars == <<unstarted, retries, allResults, ret>>
procVars == <<stack, results, fails>>
vars == <<pc, loopVars, todo, procVars, runErr, attempts, crashed>>

Result(t, b) == [test |-> t, failed |-> b]
top == stack[Len(stack)]
ResultsOf(rs) == {rs[k].test : k \in DOMAIN rs}

Init ==
    /\ pc = "attempt"
    /\ unstarted = AllTests
    /\ retries = [t \in AllTests |-> retryn]
    /\ allResults = <<>>
    /\ ret = "none"
    /\ todo = {} /\ stack = <<>> /\ results = <<>> /\ runErr = "nil"
    /\ fails = 0
    /\ attempts = [t \in AllTests |-> 0]
    /\ crashed = {}

-----------------------------------------------------------------------------
\* failfast.Counter.Check: the limit is reached.
LimitReached(n) == threshold > 0 /\ n >= threshold

\* An attempt that cannot connect ends the loop.
EnsureConnFails ==
    /\ pc = "attempt"
    /\ ret' = "conn" /\ pc' = "returned"
    /\ UNCHANGED <<unstarted, retries, allResults, todo, procVars, runErr, attempts, crashed>>

\* A new processor; RunStart of failFastHandler may end the run before it
\* starts, and so may a bundle that cannot be started.
StartAttempt ==
    /\ pc = "attempt"
    /\ todo' = unstarted
    /\ stack' = <<>> /\ results' = <<>> /\ crashed' = {}
    /\ \/ ~LimitReached(fails) /\ pc' = "run" /\ runErr' = "nil"
       \/ pc' = "runEnd" /\ runErr' = "error"
    /\ UNCHANGED <<loopVars, fails, attempts>>

\* preprocessor.EntityStart, for the fixture or for a test.  If the output
\* directory cannot be created the entity is not running.
EntityStart(e) ==
    /\ pc = "run"
    /\ IF e = Fixture
       THEN stack = <<>> /\ UNCHANGED <<todo, attempts>>
       ELSE /\ e \in todo /\ stack \in {<<>>, <<Result(Fixture, FALSE)>>, <<Result(Fixture, TRUE)>>}
            /\ todo' = todo \ {e}
            /\ attempts' = [attempts EXCEPT ![e] = @ + 1]
    /\ stack' = Append(stack, Result(e, FALSE))
    /\ UNCHANGED <<pc, loopVars, results, runErr, fails, crashed>>

\* preprocessor.EntityError for the running entity number k of the stack.
EntityError(k) ==
    /\ pc = "run" /\ ~stack[k].failed
    /\ stack' = [stack EXCEPT ![k].failed = TRUE]
    /\ UNCHANGED <<pc, loopVars, todo, results, runErr, fails, attempts, crashed>>

\* What preprocessor.EntityEnd does for the top entity, r being what is known of
\* it: it leaves the stack, and a test becomes a result and may count as a
\* failure.  The error it returns is fatal if the limit is reached.
Pop(r) ==
    /\ stack' = SubSeq(stack, 1, Len(stack) - 1)
    /\ results' = IF r.test = Fixture THEN results ELSE Append(results, r)
    /\ fails' = IF r.test # Fixture /\ r.failed THEN fails + 1 ELSE fails
PopIsFatal(r) == r.test # Fixture /\ r.failed /\ LimitReached(fails + 1)

\* Mutant: the fatal error of a handler does not stop the run.
EntityEnd_GoOn ==
    /\ pc = "run" /\ stack # <<>>
    /\ Pop(top)
    /\ UNCHANGED <<pc, loopVars, todo, runErr, attempts, crashed>>

EntityEnd ==
    /\ pc = "run" /\ stack # <<>>
    /\ Pop(top)
    /\ IF PopIsFatal(top)
       THEN pc' = "runEnd" /\ runErr' = "fatal"
       ELSE UNCHANGED <<pc, runErr>>
    /\ UNCHANGED <<loopVars, todo, attempts, crashed>>

\* The bundle is done, or gave up on the rest of the tests.
EOF ==
    /\ pc = "run" /\ stack = <<>>
    /\ pc' = "runEnd"
    /\ UNCHANGED <<loopVars, todo, procVars, runErr, attempts, crashed>>

\* The stream breaks, or a handler fails.
BundleCrashes ==
    /\ pc = "run"
    /\ pc' = "runEnd"
    /\ runErr' = "error"
    /\ crashed' = {stack[k].test : k \in DOMAIN stack} \ {Fixture}
    /\ UNCHANGED <<loopVars, todo, procVars, attempts>>

\* Mutant: no error is reported for an entity that did not finish.
EndOrphan_NoError ==
    /\ pc = "runEnd" /\ stack # <<>>
    /\ Pop(top)
    /\ runErr' = IF runErr = "nil" /\ PopIsFatal(top) THEN "fatal" ELSE runErr
    /\ UNCHANGED <<pc, loopVars, todo, attempts, crashed>>

\* The loop of RunEnd: an orphan gets an error and ends.  Of the errors of the
\* handlers only the first is kept, and only if the run has none.
EndOrphan ==
    /\ pc = "runEnd" /\ stack # <<>>
    /\ LET r == Result(top.test, TRUE)
       IN  /\ Pop(r)
           /\ runErr' = IF runErr = "nil" /\ PopIsFatal(r) THEN "fatal" ELSE runErr
    /\ UNCHANGED <<pc, loopVars, todo, attempts, crashed>>

\* Mutant: an attempt in which no test ran is followed by another.
AttemptDone_NoAbort ==
    /\ pc = "runEnd" /\ stack = <<>>
    /\ IF runErr = "fatal"
       THEN pc' = "returned" /\ ret' = "fatal" /\ allResults' = allResults \o results
       ELSE pc' = "update" /\ UNCHANGED <<ret, allResults>>
    /\ UNCHANGED <<unstarted, retries, todo, procVars, runErr, attempts, crashed>>

\* RunEnd is over; runLocalTestsOnce returns the results and the fatal error.
AttemptDone ==
    /\ pc = "runEnd" /\ stack = <<>>
    /\ IF runErr = "fatal"
       THEN pc' = "returned" /\ ret' = "fatal" /\ allResults' = allResults \o results
       ELSE IF results = <<>>
       THEN pc' = "returned" /\ ret' = "noTest" /\ UNCHANGED allResults
       ELSE pc' = "update" /\ UNCHANGED <<ret, allResults>>
    /\ UNCHANGED <<unstarted, retries, todo, procVars, runErr, attempts, crashed>>

\* Mutant: a retry is not counted.
UpdateResult_FreeRetry ==
    /\ pc = "update" /\ results # <<>>
    /\ LET r == Head(results) IN
        IF r.failed /\ retries[r.test] > 0
        THEN UNCHANGED <<retries, allResults, unstarted>>
        ELSE /\ allResults' = Append(allResults, r)
             /\ unstarted' = unstarted \ {r.test}
             /\ UNCHANGED retries
    /\ results' = Tail(results)
    /\ UNCHANGED <<pc, ret, todo, stack, fails, runErr, attempts, crashed>>

\* One result: a failure with retries left is dropped.
UpdateResult ==
    /\ pc = "update" /\ results # <<>>
    /\ LET r == Head(results) IN
        IF r.failed /\ retries[r.test] > 0
        THEN /\ retries' = [retries EXCEPT ![r.test] = @ - 1]
             /\ UNCHANGED <<allResults, unstarted>>
        ELSE /\ allResults' = Append(allResults, r)
             /\ unstarted' = unstarted \ {r.test}
             /\ UNCHANGED retries
    /\ results' = Tail(results)
    /\ UNCHANGED <<pc, ret, todo, stack, fails, runErr, attempts, crashed>>

\* Return, or try the remaining tests.
LoopAgain ==
    /\ pc = "update" /\ results = <<>>
    /\ IF unstarted = {}
       THEN pc' = "returned" /\ ret' = "nil"
       ELSE pc' = "attempt" /\ UNCHANGED ret
    /\ UNCHANGED <<unstarted, retries, allResults, todo, procVars, runErr, attempts, crashed>>

BundleNext ==
    \/ \E e \in AllTests \cup {Fixture} : EntityStart(e)
    \/ \E k \in DOMAIN stack : EntityError(k)
    \/ EntityEnd \/ EOF \/ BundleCrashes

Next ==
    \/ EnsureConnFails \/ StartAttempt
    \/ BundleNext
    \/ EndOrphan \/ AttemptDone
    \/ UpdateResult \/ LoopAgain

\* An attempt ends: the bundle terminates, or its connection breaks or times
\* out; and the driver goes on.
Fairness ==
    /\ WF_vars(EOF \/ BundleCrashes)
    /\ WF_vars(StartAttempt)
    /\ WF_vars(EndOrphan \/ AttemptDone \/ UpdateResult \/ LoopAgain)

Spec == Init /\ [][Next]_vars /\ Fairness

-----------------------------------------------------------------------------
ResultSeq == Seq([test : AllTests, failed : BOOLEAN])

\* Every variable has its type.
TypeOK ==
    /\ pc \in {"attempt", "run", "runEnd", "update", "returned"}
    /\ unstarted \in SUBSET AllTests
    /\ retries \in [AllTests -> 0 .. retryn]
    /\ allResults \in ResultSeq
    /\ ret \in {"none", "nil", "conn", "fatal", "noTest"}
    /\ todo \in SUBSET AllTests
    /\ stack \in Seq([test : AllTests \cup {Fixture}, failed : BOOLEAN])
    /\ results \in ResultSeq
    /\ runErr \in {"nil", "error", "fatal"}
    /\ fails \in Nat
    /\ attempts \in [AllTests -> Nat]
    /\ crashed \in SUBSET AllTests

\* The results of RunTestsWithRetry are final: no test has two, each has one if no
\* error is returned, and one that failed has used up its retries, unless the run
\* was stopped for too many failures.  No test is run more often than that allows.
\* The type invariant is checked with it.
ResultsComplete ==
    /\ TypeOK
    /\ \A j, k \in DOMAIN allResults : j # k => allResults[j].test # allResults[k].test
    /\ ret = "nil" => ResultsOf(allResults) = AllTests
    /\ \A t \in AllTests : attempts[t] <= retryn + 1
    /\ ret # "fatal" => \A k \in DOMAIN allResults :
           allResults[k].failed => attempts[allResults[k].test] = retryn + 1

\* At the end of an attempt every test the bundle started has a result, however
\* the attempt ended, and a test that was cut off has failed.
StartedHaveResults ==
    pc = "runEnd" /\ stack = <<>> =>
        /\ ResultsOf(results) = unstarted \ todo
        /\ \A k \in DOMAIN results : results[k].test \in crashed => results[k].failed

\* No test starts once the number of failures has reached the limit.
NoStartAfterLimit ==
    [][ attempts' # attempts => ~LimitReached(fails) ]_vars

\* The loop ends, however often bundles crash and tests fail.
Terminates == <>(pc = "returned")
=============================================================================
