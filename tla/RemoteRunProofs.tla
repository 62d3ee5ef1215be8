-------------------------- MODULE RemoteRunProofs ---------------------------
(***************************************************************************)
(* Local tests on remote fixtures, for every chain of remote fixtures,     *)
(* every set of tests and any number of retries and crashes.  The argument *)
(* is about a copy: ExternalStack keeps the status and the errors of a     *)
(* stack that lives in another process, and the local bundle decides from  *)
(* the copy whether a test may run.                                        *)
(***************************************************************************)
EXTENDS RemoteRun, OperatorProofs

\* Both stacks have the documented shape, and there is an error for a red one.
StacksInv ==
    /\ Shape(rstack) /\ Explained(rstack) /\ Len(rstack) <= Len(RemoteFixtures)
    /\ Shape(lstack) /\ Explained(lstack)

\* While the local bundle runs its copy of the remote status is right, and a red
\* copy comes with errors.
CopyInv ==
    rpc = "run" =>
        /\ estatus = Status(rstack)
        /\ estatus = "red" => eerrors # {} /\ Status(lstack) # "yellow"

\* What the local bundle has found out when it gets to each step of a test.
LocalInv ==
    rpc = "run" =>
        /\ lpc # "off"
        /\ lpc # "tree" => Len(lstack) = 2
        /\ lpc \in {"status", "preTest", "func", "postTest", "end"} => test \in Tests
        /\ lpc = "status" => CombinedStatus # "yellow"
        /\ lpc \in {"preTest", "func", "postTest", "reset", "resetChild"} => CombinedStatus = "green"
        /\ lpc = "end" => CombinedStatus = "green" \/ hasError

\* Where all remote fixtures are as Reset left them.
CleanInv ==
    rpc = "run" =>
        /\ rclean \subseteq DOMAIN rstack
        /\ lpc = "tree" /\ ltests # {} => rclean = DOMAIN rstack \/ estatus = "yellow"
        /\ lpc \in {"status", "preTest", "func", "resetChild"} => rclean = DOMAIN rstack
        /\ lpc \in {"end", "resetFlag"} /\ CombinedStatus # "green" => rclean = DOMAIN rstack

RemoteInv == TypeOK /\ StacksInv /\ CopyInv /\ LocalInv /\ CleanInv

-----------------------------------------------------------------------------
\* The errors of a stack are errors.
LEMMA ErrorsType ==
  ASSUME NEW s \in Seq(StatefulFixture)
  PROVE  Errors(s) \in SUBSET Errs
<1>1. CASE \E j \in DOMAIN s : s[j].status = "red"
  <2>1. \E j \in DOMAIN s : s[j].status \in {"red"}
    BY <1>1
  <2>2. BottomMost(s, {"red"}) \in DOMAIN s
    BY <2>1, BottomMostFound
  <2>3. s[BottomMost(s, {"red"})] \in StatefulFixture
    BY <2>2, LenProperties
  <2>4. QED
    BY <1>1, <2>3 DEF Errors, StatefulFixture
<1>2. CASE ~ \E j \in DOMAIN s : s[j].status = "red"
  BY <1>2 DEF Errors
<1>3. QED
  BY <1>1, <1>2

\* An empty stack is green and has the documented shape.
LEMMA EmptyStack ==
  /\ <<>> \in Seq(StatefulFixture) /\ Len(<<>>) = 0
  /\ Shape(<<>>) /\ Status(<<>>) = "green" /\ Explained(<<>>)
<1>1. <<>> \in Seq(StatefulFixture) /\ Len(<<>>) = 0 /\ DOMAIN <<>> = {}
  BY EmptySeq
<1>2. Shape(<<>>)
  BY <1>1 DEF Shape, NoRedWithYellow, GreenBelowRed
<1>3. Status(<<>>) = "green"
  BY <1>1 DEF Status
<1>4. QED
  BY <1>1, <1>2, <1>3 DEF Explained

\* The positions of a stack that is no higher than the chain of remote fixtures.
LEMMA StackPositions ==
  ASSUME TypeOK, StacksInv
  PROVE  /\ DOMAIN rstack = 1 .. Len(rstack) /\ Len(rstack) \in Nat
         /\ DOMAIN rstack \in SUBSET (1 .. Len(RemoteFixtures))
<1>1. Len(RemoteFixtures) \in Nat
  BY ConfigAssumption, LenProperties
<1>2. DOMAIN rstack = 1 .. Len(rstack) /\ Len(rstack) \in Nat /\ Len(rstack) <= Len(RemoteFixtures)
  BY LenProperties DEF TypeOK, StacksInv
<1>3. QED
  BY <1>1, <1>2

\* A step that leaves both stacks alone.
LEMMA StacksKept ==
  ASSUME StacksInv, UNCHANGED <<rstack, lstack>>
  PROVE  StacksInv' /\ DOMAIN rstack' = DOMAIN rstack
  BY DEF StacksInv

\* The statuses the local bundle goes by, if neither stack nor the copy changes.
LEMMA StatusKept ==
  ASSUME UNCHANGED <<rstack, lstack, estatus>>
  PROVE  CombinedStatus' = CombinedStatus
  BY DEF CombinedStatus

\* A step of the local bundle that leaves the stacks and the copy alone.
LEMMA CopyKept ==
  ASSUME CopyInv, UNCHANGED <<rpc, rstack, lstack, estatus, eerrors>>
  PROVE  CopyInv'
  BY DEF CopyInv

\* The status the local bundle goes by is one.
LEMMA CombinedType ==
  ASSUME TypeOK
  PROVE  CombinedStatus \in Statuses
  BY StatusGreen DEF TypeOK, CombinedStatus

\* Outside a run of the local bundle nothing is claimed of it.
LEMMA NotRunning ==
  ASSUME rpc' # "run"
  PROVE  CopyInv' /\ LocalInv' /\ CleanInv'
  BY DEF CopyInv, LocalInv, CleanInv

\* The remote bundle sets up the next fixture of the chain.
LEMMA RemotePushKeeps == ASSUME RemoteInv, RemotePush PROVE RemoteInv'
<1>1. /\ rpc = "tree" /\ Status(rstack) # "yellow" /\ Len(rstack) < Len(RemoteFixtures)
      /\ \E es \in SUBSET Errs : rstack' = Push(rstack, RemoteFixtures[Len(rstack) + 1], es)
      /\ UNCHANGED <<rpc, rdirty, rleft, result, postTest, unstarted, retries, passed,
                     failed, lpc, ltests, estatus, eerrors, startErrors, lstack,
                     ldirty, test, hasError, crashes, interrupted, rclean>>
  BY DEF RemotePush, driverVars, treeVars, testVars, localOff, faultVars
<1>2. PICK es \in SUBSET Errs : rstack' = Push(rstack, RemoteFixtures[Len(rstack) + 1], es)
  BY <1>1
<1>3. /\ rstack \in Seq(StatefulFixture) /\ Shape(rstack) /\ Explained(rstack)
      /\ RemoteFixtures[Len(rstack) + 1] \in Fixtures
      /\ Len(rstack) \in Nat /\ Len(RemoteFixtures) \in Nat
  BY <1>1, ConfigAssumption, LenProperties DEF RemoteInv, TypeOK, StacksInv
<1>4. /\ rstack' \in Seq(StatefulFixture) /\ Len(rstack') = Len(rstack) + 1
      /\ Shape(rstack') /\ Explained(rstack')
  BY <1>1, <1>2, <1>3, PushPreserves
<1>5. TypeOK'
  BY <1>1, <1>4 DEF RemoteInv, TypeOK
<1>6. StacksInv'
  BY <1>1, <1>3, <1>4 DEF RemoteInv, StacksInv
<1>7. QED
  BY <1>1, <1>5, <1>6, NotRunning DEF RemoteInv

\* The tests are handed over with the errors of the top fixture.
LEMMA RunExternalTestsKeeps == ASSUME RemoteInv, RunExternalTests PROVE RemoteInv'
<1>1. /\ rpc = "tree" /\ Len(rstack) = Len(RemoteFixtures) /\ rpc' = "attempt"
      /\ postTest' = "nil" /\ startErrors' = top(rstack).errs /\ unstarted' = rleft
      /\ retries' = [t \in Tests |-> retryn] /\ passed' = {} /\ failed' = {}
      /\ UNCHANGED <<rstack, rdirty, rleft, result, lpc, ltests, estatus, eerrors,
                     lstack, ldirty, test, hasError, crashes, interrupted, rclean>>
  BY DEF RunExternalTests, testVars, faultVars
<1>2. Len(rstack) \in DOMAIN rstack
  BY <1>1, ConfigAssumption, LenProperties, EmptySeq DEF RemoteInv, TypeOK
<1>3. top(rstack).errs \in SUBSET Errs
  <2>1. rstack[Len(rstack)] \in StatefulFixture
    BY <1>2, LenProperties DEF RemoteInv, TypeOK
  <2>2. QED
    BY <2>1 DEF top, StatefulFixture
<1>4. retries' \in [Tests -> 0 .. retryn]
  BY <1>1, ConfigAssumption
<1>5. TypeOK'
  BY <1>1, <1>3, <1>4 DEF RemoteInv, TypeOK
<1>6. StacksInv'
  BY <1>1, StacksKept DEF RemoteInv
<1>7. QED
  BY <1>1, <1>5, <1>6, NotRunning DEF RemoteInv

\* The remote bundle tears down its top fixture.
LEMMA RemotePopKeeps == ASSUME RemoteInv, RemotePop PROVE RemoteInv'
<1>1. /\ rpc = "tree" /\ rstack # <<>> /\ rstack' = Pop(rstack)
      /\ UNCHANGED <<rpc, rdirty, rleft, result, postTest, unstarted, retries, passed,
                     failed, lpc, ltests, estatus, eerrors, startErrors, lstack,
                     ldirty, test, hasError, crashes, interrupted, rclean>>
  BY DEF RemotePop, driverVars, treeVars, testVars, localOff, faultVars
<1>2. /\ rstack' \in Seq(StatefulFixture) /\ Len(rstack') = Len(rstack) - 1
      /\ Shape(rstack') /\ Explained(rstack')
  BY <1>1, PopPreserves DEF RemoteInv, TypeOK, StacksInv
<1>3. Len(rstack') <= Len(RemoteFixtures)
  BY <1>2, ConfigAssumption, LenProperties DEF RemoteInv, TypeOK, StacksInv
<1>4. TypeOK'
  BY <1>1, <1>2 DEF RemoteInv, TypeOK
<1>5. StacksInv'
  BY <1>1, <1>2, <1>3 DEF RemoteInv, StacksInv
<1>6. QED
  BY <1>1, <1>4, <1>5, NotRunning DEF RemoteInv

\* The remote bundle is done.
LEMMA RemoteDoneKeeps == ASSUME RemoteInv, RemoteDone PROVE RemoteInv'
<1>1. /\ rpc' = "done" /\ result' = "ok" 
      /\ UNCHANGED <<rstack, rdirty, rleft, postTest, unstarted, retries, passed,
                     failed, lpc, ltests, estatus, eerrors, startErrors, lstack,
                     ldirty, test, hasError, crashes, interrupted, rclean>>
  BY DEF RemoteDone, driverVars, treeVars, testVars, localOff, faultVars
<1>2. TypeOK'
  BY <1>1 DEF RemoteInv, TypeOK
<1>3. QED
  BY <1>1, <1>2, StacksKept, NotRunning DEF RemoteInv

\* NewExternalStack takes the copy: it is right, and explained if it is red.
LEMMA ConnectKeeps == ASSUME RemoteInv, Connect PROVE RemoteInv'
<1>1. /\ rpc' = "run" /\ lpc' = "tree" /\ estatus' = Status(rstack) /\ eerrors' = Errors(rstack)
      /\ ltests' = unstarted /\ lstack' = <<>> /\ ldirty' = FALSE /\ test' = "nil"
      /\ hasError' = FALSE /\ rclean' = DOMAIN rstack
      /\ UNCHANGED <<rstack, rdirty, rleft, result, postTest, unstarted, retries,
                     passed, failed, startErrors, crashes, interrupted>>
  BY DEF Connect, driverVars, faultVars
<1>2. /\ rstack \in Seq(StatefulFixture) /\ Status(rstack) \in Statuses
      /\ Errors(rstack) \in SUBSET Errs /\ DOMAIN rstack \in SUBSET (1 .. Len(RemoteFixtures))
  BY StatusGreen, ErrorsType, StackPositions DEF RemoteInv, TypeOK
<1>3. TypeOK'
  BY <1>1, <1>2, EmptyStack, ZenonT(30) DEF RemoteInv, TypeOK
<1>4. StacksInv'
  BY <1>1, EmptyStack DEF RemoteInv, StacksInv
<1>5. CopyInv'
  BY <1>1, EmptyStack DEF RemoteInv, StacksInv, CopyInv, Explained
<1>6. LocalInv' /\ CleanInv'
  BY <1>1 DEF LocalInv, CleanInv
<1>7. QED
  BY <1>3, <1>4, <1>5, <1>6 DEF RemoteInv

\* The local bundle sets up a fixture on what it takes to be a sound stack.
LEMMA LocalPushKeeps == ASSUME RemoteInv, LocalPush PROVE RemoteInv'
<1>1. /\ rpc = "run" /\ lpc = "tree" /\ CombinedStatus # "yellow"
      /\ \E f \in Fixtures, es \in SUBSET Errs : lstack' = Push(lstack, f, es)
      /\ UNCHANGED <<rpc, rstack, rdirty, rleft, result, postTest, unstarted, retries,
                     passed, failed, lpc, ltests, estatus, eerrors, startErrors,
                     ldirty, test, hasError, crashes, interrupted, rclean>>
  BY ConfigAssumption DEF RemoteInv, TypeOK, LocalPush, At, remoteVars, driverVars,
                          treeVars, testVars, remoteWaits, faultVars
<1>2. PICK f \in Fixtures, es \in SUBSET Errs : lstack' = Push(lstack, f, es)
  BY <1>1
<1>3. Status(lstack) # "yellow"
  BY <1>1 DEF RemoteInv, TypeOK, Statuses, CopyInv, CombinedStatus
<1>4. /\ lstack' \in Seq(StatefulFixture) /\ Shape(lstack') /\ Explained(lstack')
      /\ Status(lstack') # "yellow"
  BY <1>2, <1>3, PushPreserves DEF RemoteInv, TypeOK, StacksInv
<1>5. TypeOK'
  BY <1>1, <1>4 DEF RemoteInv, TypeOK
<1>6. StacksInv'
  BY <1>1, <1>4 DEF RemoteInv, StacksInv
<1>7. CopyInv'
  BY <1>1, <1>4 DEF RemoteInv, CopyInv
<1>8. LocalInv' /\ CleanInv'
  BY <1>1 DEF RemoteInv, LocalInv, CleanInv
<1>9. QED
  BY <1>5, <1>6, <1>7, <1>8 DEF RemoteInv

\* A test starts on a stack that is not yellow, with the remote fixtures reset.
LEMMA StartTestKeeps == ASSUME RemoteInv, StartTest PROVE RemoteInv'
<1>1. /\ rpc = "run" /\ lpc = "tree" /\ CombinedStatus # "yellow" /\ Len(lstack) = 2
      /\ test' \in ltests /\ ltests' \subseteq ltests /\ ltests # {}
      /\ rdirty' = TRUE /\ ldirty' = TRUE /\ hasError' = FALSE /\ lpc' = "status" 
      /\ UNCHANGED <<rpc, rstack, rleft, result, postTest, unstarted, retries, passed,
                     failed, estatus, eerrors, startErrors, lstack, crashes, interrupted, rclean>>
  BY DEF StartTest, At, remoteVars, driverVars, treeVars, testVars, remoteWaits, faultVars
<1>2. CombinedStatus' = CombinedStatus /\ CombinedStatus \in Statuses
  BY <1>1, StatusKept, CombinedType DEF RemoteInv
<1>3. test' \in Tests /\ estatus # "yellow"
  BY <1>1 DEF RemoteInv, TypeOK, CombinedStatus
<1>4. TypeOK'
  BY <1>1, <1>3, ZenonT(30) DEF RemoteInv, TypeOK
<1>5. StacksInv' /\ CopyInv' /\ DOMAIN rstack' = DOMAIN rstack
  BY <1>1, StacksKept, CopyKept DEF RemoteInv
<1>6. LocalInv'
  BY <1>1, <1>2, <1>3 DEF RemoteInv, LocalInv
<1>7. CleanInv'
  BY <1>1, <1>2, <1>5, <1>3 DEF RemoteInv, CleanInv, LocalInv
<1>8. QED
  BY <1>4, <1>5, <1>6, <1>7 DEF RemoteInv

\* On a red stack the test ends with an error: there always is one to report,
\* whichever of the two stacks is red.
LEMMA CheckStatusKeeps == ASSUME RemoteInv, CheckStatus PROVE RemoteInv'
<1>1. /\ rpc = "run" /\ lpc = "status"
      /\ \/ CombinedStatus = "red" /\ lpc' = "end" /\ hasError' = (CombinedErrors # {})
         \/ CombinedStatus # "red" /\ lpc' = "preTest" /\ hasError' = hasError
      /\ UNCHANGED <<rpc, rstack, rdirty, rleft, result, postTest, unstarted, retries,
                     passed, failed, ltests, estatus, eerrors, startErrors, lstack,
                     ldirty, test, crashes, interrupted, rclean>>
  BY DEF CheckStatus, At, remoteVars, driverVars, treeVars, testVars, remoteWaits, faultVars
<1>2. CombinedStatus' = CombinedStatus /\ CombinedStatus \in Statuses
  BY <1>1, StatusKept, CombinedType DEF RemoteInv
<1>3. CombinedStatus = "red" => CombinedErrors # {}
  BY <1>1 DEF RemoteInv, StacksInv, Explained, CopyInv, CombinedStatus, CombinedErrors
<1>4. TypeOK'
  BY <1>1, ZenonT(30) DEF RemoteInv, TypeOK
<1>5. StacksInv' /\ CopyInv' /\ DOMAIN rstack' = DOMAIN rstack
  BY <1>1, StacksKept, CopyKept DEF RemoteInv
<1>6. LocalInv'
  BY <1>1, <1>2, <1>3, ZenonT(30) DEF RemoteInv, LocalInv, Statuses
<1>7. CleanInv'
  BY <1>1, <1>2, <1>5 DEF RemoteInv, CleanInv, LocalInv
<1>8. QED
  BY <1>4, <1>5, <1>6, <1>7 DEF RemoteInv

\* PreTest is asked for on a green stack only.
LEMMA PreTestKeeps == ASSUME RemoteInv, PreTest PROVE RemoteInv'
<1>1. /\ rpc = "run" /\ lpc = "preTest" /\ lpc' = "func"
      /\ hasError' \in BOOLEAN /\ interrupted' \in BOOLEAN /\ postTest' \in Tests \cup {"nil"}
      /\ UNCHANGED <<rpc, rstack, rdirty, rleft, result, unstarted, retries, passed,
                     failed, ltests, estatus, eerrors, startErrors, lstack, ldirty,
                     test, crashes, rclean>>
  BY DEF RemoteInv, TypeOK, PreTest, At, remoteVars, driverVars, treeVars, testVars
<1>2. CombinedStatus' = CombinedStatus /\ CombinedStatus \in Statuses
  BY <1>1, StatusKept, CombinedType DEF RemoteInv
<1>3. TypeOK'
  BY <1>1 DEF RemoteInv, TypeOK
<1>4. StacksInv' /\ CopyInv' /\ DOMAIN rstack' = DOMAIN rstack
  BY <1>1, StacksKept, CopyKept DEF RemoteInv
<1>5. LocalInv'
  BY <1>1, <1>2 DEF RemoteInv, LocalInv
<1>6. CleanInv'
  BY <1>1, <1>2, <1>4 DEF RemoteInv, CleanInv, LocalInv
<1>7. QED
  BY <1>3, <1>4, <1>5, <1>6 DEF RemoteInv

\* The test function leaves the remote fixtures used.
LEMMA FuncKeeps == ASSUME RemoteInv, Func PROVE RemoteInv'
<1>1. /\ rpc = "run" /\ lpc = "func" /\ lpc' = "postTest"
      /\ hasError' \in BOOLEAN /\ interrupted' \in BOOLEAN /\ rclean' \in {rclean, {}}
      /\ UNCHANGED <<rpc, rstack, rdirty, rleft, result, postTest, unstarted, retries,
                     passed, failed, ltests, estatus, eerrors, startErrors, lstack,
                     ldirty, test, crashes>>
  BY DEF RemoteInv, TypeOK, Func, At, remoteVars, driverVars, treeVars, testVars
<1>2. CombinedStatus' = CombinedStatus /\ CombinedStatus \in Statuses
  BY <1>1, StatusKept, CombinedType DEF RemoteInv
<1>3. TypeOK'
  BY <1>1 DEF RemoteInv, TypeOK
<1>4. StacksInv' /\ CopyInv' /\ DOMAIN rstack' = DOMAIN rstack
  BY <1>1, StacksKept, CopyKept DEF RemoteInv
<1>5. LocalInv'
  BY <1>1, <1>2 DEF RemoteInv, LocalInv
<1>6. CleanInv'
  BY <1>1, <1>2, <1>4 DEF RemoteInv, CleanInv, LocalInv
<1>7. QED
  BY <1>3, <1>4, <1>5, <1>6 DEF RemoteInv

\* PostTest adds an error at most.
LEMMA PostTestKeeps == ASSUME RemoteInv, PostTest PROVE RemoteInv'
<1>1. /\ rpc = "run" /\ lpc = "postTest" /\ lpc' = "end"
      /\ hasError' \in BOOLEAN /\ interrupted' \in BOOLEAN /\ postTest' \in Tests \cup {"nil"}
      /\ UNCHANGED <<rpc, rstack, rdirty, rleft, result, unstarted, retries, passed,
                     failed, ltests, estatus, eerrors, startErrors, lstack, ldirty,
                     test, crashes, rclean>>
  BY ZenonT(30) DEF RemoteInv, TypeOK, PostTest, At, remoteVars, driverVars, treeVars,
                    testVars
<1>2. CombinedStatus' = CombinedStatus /\ CombinedStatus \in Statuses
  BY <1>1, StatusKept, CombinedType DEF RemoteInv
<1>3. TypeOK'
  BY <1>1 DEF RemoteInv, TypeOK
<1>4. StacksInv' /\ CopyInv' /\ DOMAIN rstack' = DOMAIN rstack
  BY <1>1, StacksKept, CopyKept DEF RemoteInv
<1>5. LocalInv'
  BY <1>1, <1>2 DEF RemoteInv, LocalInv
<1>6. CleanInv'
  BY <1>1, <1>2, <1>4 DEF RemoteInv, CleanInv, LocalInv
<1>7. QED
  BY <1>3, <1>4, <1>5, <1>6 DEF RemoteInv

\* A test ends with a result.
LEMMA EndTestKeeps == ASSUME RemoteInv, EndTest PROVE RemoteInv'
<1>1. /\ rpc = "run" /\ lpc = "end" /\ test' = "nil"
      /\ lpc' = IF ltests = {} THEN "tree" ELSE "resetFlag"
      /\ passed' \in {passed, passed \cup {test}} /\ failed' \in {failed, failed \cup {test}}
      /\ UNCHANGED <<rpc, rstack, rdirty, rleft, result, postTest, unstarted, retries,
                     ltests, estatus, eerrors, startErrors, lstack, ldirty, hasError,
                     crashes, interrupted, rclean>>
  BY DEF EndTest, At, remoteVars, treeVars, faultVars
<1>2. CombinedStatus' = CombinedStatus /\ CombinedStatus \in Statuses
  BY <1>1, StatusKept, CombinedType DEF RemoteInv
<1>3. passed' \in SUBSET Tests /\ failed' \in SUBSET Tests
  BY <1>1 DEF RemoteInv, TypeOK, LocalInv
<1>4. TypeOK'
  BY <1>1, <1>3 DEF RemoteInv, TypeOK
<1>5. StacksInv' /\ CopyInv' /\ DOMAIN rstack' = DOMAIN rstack
  BY <1>1, StacksKept, CopyKept DEF RemoteInv
<1>6. LocalInv'
  BY <1>1, <1>2 DEF RemoteInv, LocalInv
<1>7. CleanInv'
  BY <1>1, <1>2, <1>5 DEF RemoteInv, CleanInv, LocalInv
<1>8. QED
  BY <1>4, <1>5, <1>6, <1>7 DEF RemoteInv

\* Reset goes on only with a green stack.
LEMMA ResetFlagKeeps == ASSUME RemoteInv, ResetFlag PROVE RemoteInv'
<1>1. /\ rpc = "run" /\ lpc = "resetFlag" /\ rdirty' = FALSE /\ ldirty' = FALSE
      /\ lpc' = IF CombinedStatus = "green" THEN "reset" ELSE "tree" 
      /\ UNCHANGED <<rpc, rstack, rleft, result, postTest, unstarted, retries, passed,
                     failed, ltests, estatus, eerrors, startErrors, lstack, test,
                     hasError, crashes, interrupted, rclean>>
  BY DEF ResetFlag, At, remoteVars, driverVars, treeVars, testVars, remoteWaits, faultVars
<1>2. CombinedStatus' = CombinedStatus /\ CombinedStatus \in Statuses
  BY <1>1, StatusKept, CombinedType DEF RemoteInv
<1>3. TypeOK'
  BY <1>1, ZenonT(30) DEF RemoteInv, TypeOK
<1>4. StacksInv' /\ CopyInv' /\ DOMAIN rstack' = DOMAIN rstack
  BY <1>1, StacksKept, CopyKept DEF RemoteInv
<1>5. LocalInv'
  BY <1>1, <1>2 DEF RemoteInv, LocalInv
<1>6. CleanInv'
  BY <1>1, <1>2, <1>4 DEF RemoteInv, CleanInv, LocalInv
<1>7. QED
  BY <1>3, <1>4, <1>5, <1>6 DEF RemoteInv

\* The answer to Reset is the status of the remote stack, also if the Reset was
\* abandoned and the answer carries none; a green answer means that every remote
\* fixture was reset, or that one ignored its timeout.
LEMMA ResetParentKeeps == ASSUME RemoteInv, ResetParent PROVE RemoteInv'
<1>1. /\ rpc = "run" /\ lpc = "reset" /\ rdirty' = FALSE
      /\ lpc' = IF estatus' = "green" THEN "resetChild" ELSE "tree"
      /\ \/ /\ \E k \in 0 .. Len(rstack) : rstack' = Reset(rstack, k) /\ rclean' = rclean \cup 1 .. k
            /\ estatus' = Status(rstack')
         \/ estatus' = "green" /\ rclean' = DOMAIN rstack /\ rstack' = rstack
      /\ UNCHANGED <<rpc, rleft, result, postTest, unstarted, retries, passed, failed,
                     ltests, eerrors, startErrors, lstack, ldirty, test, hasError,
                     crashes, interrupted>>
  BY DEF ResetParent, At, driverVars, treeVars, testVars, faultVars
<1>2. /\ rstack \in Seq(StatefulFixture) /\ estatus = "green" /\ Status(rstack) = "green"
      /\ Status(lstack) = "green"
      /\ DOMAIN rstack = 1 .. Len(rstack) /\ Len(rstack) \in Nat
      /\ DOMAIN rstack \in SUBSET (1 .. Len(RemoteFixtures))
      /\ rclean \subseteq DOMAIN rstack /\ Len(rstack) <= Len(RemoteFixtures)
  BY <1>1, StackPositions DEF RemoteInv, TypeOK, StacksInv, CopyInv, LocalInv,
                              CleanInv, CombinedStatus
<1>3. /\ rstack' \in Seq(StatefulFixture) /\ Len(rstack') = Len(rstack)
      /\ Shape(rstack') /\ Explained(rstack') /\ DOMAIN rstack' = DOMAIN rstack
      /\ estatus' = Status(rstack') /\ estatus' \in {"green", "yellow"}
      /\ rclean' \subseteq DOMAIN rstack
      /\ estatus' = "green" => rclean' = DOMAIN rstack
  <2>1. CASE \E k \in 0 .. Len(rstack) : rstack' = Reset(rstack, k) /\ rclean' = rclean \cup 1 .. k
                                          /\ estatus' = Status(rstack')
    <3>1. PICK k \in 0 .. Len(rstack) : /\ rstack' = Reset(rstack, k)
                                        /\ rclean' = rclean \cup 1 .. k
                                        /\ estatus' = Status(rstack')
      BY <2>1
    <3>2. /\ rstack' \in Seq(StatefulFixture) /\ Len(rstack') = Len(rstack)
          /\ Shape(rstack') /\ Explained(rstack')
      BY <1>2, <3>1, ResetPreserves
    <3>3. Status(rstack') = IF k = Len(rstack) THEN "green" ELSE "yellow"
      BY <1>2, <3>1, ResetStatus, ZenonT(30)
    <3>4. 1 .. k \subseteq DOMAIN rstack
      BY <1>2, <3>1
    <3>5. k = Len(rstack) => rclean' = DOMAIN rstack
      BY <1>2, <3>1
    <3>6. DOMAIN rstack' = DOMAIN rstack
      BY <3>1 DEF Reset
    <3>7. QED
      BY <1>2, <3>1, <3>2, <3>3, <3>4, <3>5, <3>6, ZenonT(30)
  <2>2. CASE estatus' = "green" /\ rclean' = DOMAIN rstack /\ rstack' = rstack
    BY <1>2, <2>2 DEF RemoteInv, StacksInv
  <2>3. QED
    BY <1>1, <2>1, <2>2
<1>4. TypeOK'
  <2>1. rclean' \in SUBSET (1 .. Len(RemoteFixtures)) /\ estatus' \in Statuses
    BY <1>2, <1>3 DEF Statuses
  <2>2. QED
    BY <1>1, <1>3, <2>1, ZenonT(30) DEF RemoteInv, TypeOK
<1>5. StacksInv'
  BY <1>1, <1>2, <1>3 DEF RemoteInv, StacksInv
<1>6. CopyInv'
  BY <1>3 DEF CopyInv
<1>7. CombinedStatus' = estatus'
  BY <1>1, <1>2, <1>3 DEF CombinedStatus
<1>8. LocalInv'
  BY <1>1, <1>3, <1>7 DEF RemoteInv, LocalInv
<1>9. CleanInv'
  BY <1>1, <1>3, <1>7 DEF CleanInv
<1>10. QED
  BY <1>4, <1>5, <1>6, <1>8, <1>9 DEF RemoteInv

\* The local fixtures are reset after the remote ones.
LEMMA ResetChildKeeps == ASSUME RemoteInv, ResetChild PROVE RemoteInv'
<1>1. /\ rpc = "run" /\ lpc = "resetChild" /\ lpc' = "tree"
      /\ \E k \in {1, 2} : lstack' = Reset(lstack, k)
      /\ UNCHANGED <<rpc, rstack, rdirty, rleft, result, postTest, unstarted, retries,
                     passed, failed, ltests, estatus, eerrors, startErrors, ldirty,
                     test, hasError, crashes, interrupted, rclean>>
  BY DEF ResetChild, At, remoteVars, driverVars, treeVars, testVars, remoteWaits, faultVars
<1>2. /\ lstack \in Seq(StatefulFixture) /\ Len(lstack) = 2
      /\ estatus = "green" /\ Status(lstack) = "green" /\ rclean = DOMAIN rstack
  BY <1>1 DEF RemoteInv, TypeOK, LocalInv, CleanInv, CombinedStatus
<1>3. PICK k \in {1, 2} : lstack' = Reset(lstack, k)
  BY <1>1
<1>4. lstack' \in Seq(StatefulFixture) /\ Shape(lstack') /\ Explained(lstack')
  BY <1>2, <1>3, ResetPreserves
<1>5. TypeOK'
  BY <1>1, <1>4 DEF RemoteInv, TypeOK
<1>6. StacksInv'
  BY <1>1, <1>4 DEF RemoteInv, StacksInv
<1>7. CopyInv'
  BY <1>1, <1>2 DEF RemoteInv, CopyInv
<1>8. LocalInv' /\ CleanInv'
  BY <1>1, <1>2 DEF LocalInv, CleanInv
<1>9. QED
  BY <1>5, <1>6, <1>7, <1>8 DEF RemoteInv

\* The local bundle tears down its top fixture.
LEMMA LocalPopKeeps == ASSUME RemoteInv, LocalPop PROVE RemoteInv'
<1>1. /\ rpc = "run" /\ lpc = "tree" /\ lstack # <<>> /\ lstack' = Pop(lstack)
      /\ UNCHANGED <<rpc, rstack, rdirty, rleft, result, postTest, unstarted, retries,
                     passed, failed, lpc, ltests, estatus, eerrors, startErrors,
                     ldirty, test, hasError, crashes, interrupted, rclean>>
  BY DEF LocalPop, At, remoteVars, driverVars, treeVars, testVars, remoteWaits, faultVars
<1>2. lstack \in Seq(StatefulFixture) /\ Shape(lstack) /\ Explained(lstack)
  BY DEF RemoteInv, TypeOK, StacksInv
<1>3. /\ lstack' \in Seq(StatefulFixture) /\ Shape(lstack') /\ Explained(lstack')
      /\ Status(lstack) # "yellow" => Status(lstack') # "yellow"
  BY <1>1, <1>2, PopPreserves, PopStatus
<1>4. TypeOK'
  BY <1>1, <1>3 DEF RemoteInv, TypeOK
<1>5. StacksInv'
  BY <1>1, <1>3 DEF RemoteInv, StacksInv
<1>6. CopyInv'
  BY <1>1, <1>3 DEF RemoteInv, CopyInv
<1>7. LocalInv' /\ CleanInv'
  BY <1>1 DEF RemoteInv, LocalInv, CleanInv
<1>8. QED
  BY <1>4, <1>5, <1>6, <1>7 DEF RemoteInv

\* The local bundle is done.
LEMMA LocalExitKeeps == ASSUME RemoteInv, LocalExit PROVE RemoteInv'
<1>1. /\ lpc' = "off" /\ rpc' = "collect" 
      /\ UNCHANGED <<rstack, rdirty, rleft, result, postTest, unstarted, retries,
                     passed, failed, ltests, estatus, eerrors, startErrors, lstack,
                     ldirty, test, hasError, crashes, interrupted, rclean>>
  BY DEF LocalExit, driverVars, treeVars, testVars, faultVars
<1>2. TypeOK'
  BY <1>1 DEF RemoteInv, TypeOK
<1>3. QED
  BY <1>1, <1>2, StacksKept, NotRunning DEF RemoteInv

\* The local bundle dies, at any step.
LEMMA LocalCrashKeeps == ASSUME RemoteInv, LocalCrash PROVE RemoteInv'
<1>1. /\ lpc' = "off" /\ rpc' = "collect" /\ test' = "nil"
      /\ crashes < MaxCrashes /\ crashes' = crashes + 1 /\ interrupted' \in BOOLEAN
      /\ failed' = IF test = "nil" THEN failed ELSE failed \cup {test}
      /\ UNCHANGED <<rstack, rdirty, rleft, result, postTest, unstarted, retries,
                     passed, ltests, estatus, eerrors, startErrors, lstack, ldirty,
                     hasError, rclean>>
  BY DEF RemoteInv, TypeOK, LocalCrash, treeVars
<1>2. failed' \in SUBSET Tests /\ crashes' \in 0 .. MaxCrashes
  BY <1>1, ConfigAssumption DEF RemoteInv, TypeOK
<1>3. TypeOK'
  BY <1>1, <1>2 DEF RemoteInv, TypeOK
<1>4. QED
  BY <1>1, <1>3, StacksKept, NotRunning DEF RemoteInv

\* The next attempt takes the tests that have no result, or a retry left.
LEMMA RetryKeeps == ASSUME RemoteInv, Retry PROVE RemoteInv'
<1>1. /\ rpc' \in {"return", "attempt"} /\ unstarted' = unstarted \ final
      /\ retries' = [t \in Tests |-> IF t \in retried THEN retries[t] - 1 ELSE retries[t]]
      /\ passed' = {} /\ failed' = {}
      /\ UNCHANGED <<rstack, rdirty, rleft, result, postTest, lpc, ltests, estatus,
                     eerrors, startErrors, lstack, ldirty, test, hasError, crashes, interrupted,
                     rclean>>
  BY DEF Retry, localOff, faultVars, treeVars, testVars
<1>2. retries' \in [Tests -> 0 .. retryn]
  BY <1>1, ConfigAssumption DEF RemoteInv, TypeOK, retried
<1>3. TypeOK'
  BY <1>1, <1>2 DEF RemoteInv, TypeOK
<1>4. QED
  BY <1>1, <1>3, StacksKept, NotRunning DEF RemoteInv

\* An attempt without a result is the last.
LEMMA NoTestRanKeeps == ASSUME RemoteInv, NoTestRan PROVE RemoteInv'
<1>1. /\ rpc' \in {"done", "return"} /\ result' \in {result, "error"}
      /\ UNCHANGED <<rstack, rdirty, rleft, postTest, unstarted, retries, passed,
                     failed, lpc, ltests, estatus, eerrors, startErrors, lstack,
                     ldirty, test, hasError, crashes, interrupted, rclean>>
  BY DEF NoTestRan, localOff, faultVars, driverVars, treeVars, testVars
<1>2. TypeOK'
  BY <1>1 DEF RemoteInv, TypeOK
<1>3. QED
  BY <1>1, <1>2, StacksKept, NotRunning DEF RemoteInv

\* The remaining tests go back to the tree.
LEMMA ReturnUnstartedKeeps == ASSUME RemoteInv, ReturnUnstarted PROVE RemoteInv'
<1>1. /\ rpc' \in {"done", "tree"} /\ result' \in {result, "bug"} /\ rleft' \in {rleft, unstarted}
      /\ UNCHANGED <<rstack, rdirty, postTest, unstarted, retries, passed, failed, lpc,
                     ltests, estatus, eerrors, startErrors, lstack, ldirty, test,
                     hasError, crashes, interrupted, rclean>>
  BY DEF ReturnUnstarted, localOff, faultVars, driverVars, treeVars, testVars
<1>2. TypeOK'
  BY <1>1 DEF RemoteInv, TypeOK
<1>3. QED
  BY <1>1, <1>2, StacksKept, NotRunning DEF RemoteInv

\* A step that changes nothing.
LEMMA StutterKeeps == ASSUME RemoteInv, UNCHANGED vars PROVE RemoteInv'
<1>1. UNCHANGED <<rpc, rstack, rdirty, rleft, result, postTest, unstarted, retries,
                  passed, failed, lpc, ltests, estatus, eerrors, startErrors, lstack,
                  ldirty, test, hasError, crashes, interrupted, rclean>>
  BY DEF vars, remoteVars, driverVars, treeVars, testVars, faultVars
<1>2. TypeOK'
  BY <1>1 DEF RemoteInv, TypeOK
<1>3. CombinedStatus' = CombinedStatus
  BY <1>1, StatusKept
<1>4. StacksInv' /\ CopyInv' /\ DOMAIN rstack' = DOMAIN rstack
  BY <1>1, StacksKept, CopyKept DEF RemoteInv
<1>5. LocalInv'
  BY <1>1, <1>3 DEF RemoteInv, LocalInv
<1>6. CleanInv'
  BY <1>1, <1>3 DEF RemoteInv, CleanInv
<1>7. QED
  BY <1>2, <1>4, <1>5, <1>6 DEF RemoteInv

-----------------------------------------------------------------------------
\* The invariant holds before the first fixture, and every step of either
\* bundle keeps it.
THEOREM InvariantHolds == Spec => []RemoteInv
<1>1. Init => RemoteInv
  <2> SUFFICES ASSUME Init PROVE RemoteInv
    OBVIOUS
  <2>1. Len(RemoteFixtures) \in Nat
    BY ConfigAssumption, LenProperties
  <2>2. retries \in [Tests -> 0 .. retryn] /\ crashes \in 0 .. MaxCrashes
    BY ConfigAssumption DEF Init
  <2>3. TypeOK
    BY <2>2, EmptyStack, ZenonT(30) DEF Init, TypeOK, Statuses
  <2>4. StacksInv
    BY <2>1, EmptyStack DEF Init, StacksInv
  <2>5. CopyInv /\ LocalInv /\ CleanInv
    BY DEF Init, CopyInv, LocalInv, CleanInv
  <2>6. QED
    BY <2>3, <2>4, <2>5 DEF RemoteInv
<1>2. RemoteInv /\ [Next]_vars => RemoteInv'
  BY RemotePushKeeps, RunExternalTestsKeeps, RemotePopKeeps, RemoteDoneKeeps,
     ConnectKeeps, LocalPushKeeps, StartTestKeeps, CheckStatusKeeps, PreTestKeeps,
     FuncKeeps, PostTestKeeps, EndTestKeeps, ResetFlagKeeps, ResetParentKeeps,
     ResetChildKeeps, LocalPopKeeps, LocalExitKeeps, LocalCrashKeeps, RetryKeeps,
     NoTestRanKeeps, ReturnUnstartedKeeps, StutterKeeps
     DEF Next, LocalNext
<1>3. QED
  BY <1>1, <1>2, PTL DEF Spec

\* No test function of the local bundle runs unless every remote and every local
\* fixture is green, and a test that is left out for that reason has an error: the
\* status that ExternalStack remembers is never out of date when it is used.
THEOREM NoTestOnBrokenStackHolds == Spec => []NoTestOnBrokenStack
<1>1. RemoteInv => NoTestOnBrokenStack
  <2> SUFFICES ASSUME RemoteInv PROVE NoTestOnBrokenStack
    OBVIOUS
  <2>1. At("func") => Status(rstack) = "green" /\ Status(lstack) = "green"
    BY DEF RemoteInv, LocalInv, CopyInv, CombinedStatus, At
  <2>2. At("end") /\ CombinedStatus # "green" => hasError
    BY DEF RemoteInv, LocalInv, At
  <2>3. QED
    BY <2>1, <2>2 DEF RemoteInv, NoTestOnBrokenStack
<1>2. QED
  BY <1>1, InvariantHolds, PTL

\* Within one attempt every remote fixture is reset before the next test function
\* runs, whatever becomes of the local fixtures in between.
THEOREM ResetBetweenTestsHolds == Spec => []ResetBetweenTests
<1>1. RemoteInv => ResetBetweenTests
  BY DEF RemoteInv, CleanInv, ResetBetweenTests, At
<1>2. QED
  BY <1>1, InvariantHolds, PTL

\* A step that neither begins nor ends a test, nor asks for a PreTest or PostTest.
LEMMA QuietKeepsPaired ==
  ASSUME PreTestsPaired, UNCHANGED <<postTest, interrupted>>,
         ~At("func") /\ ~At("postTest"), ~At("func")'
  PROVE  PreTestsPaired'
  BY DEF PreTestsPaired

\* Every crash or abandoned call costs at most one test its PreTest: the next
\* PostTest runs the one that was left, whichever test it belongs to.
THEOREM PreTestsPairedHolds == Spec => []PreTestsPaired
<1>1. Init => PreTestsPaired
  BY DEF Init, PreTestsPaired, At
<1>2. RemoteInv /\ PreTestsPaired /\ [Next]_vars => PreTestsPaired'
  <2> SUFFICES ASSUME RemoteInv, PreTestsPaired, [Next]_vars PROVE PreTestsPaired'
    OBVIOUS
  <2>1. CASE RemotePush \/ RemotePop \/ RemoteDone \/ Connect
    <3>1. UNCHANGED <<postTest, interrupted>> /\ ~At("func") /\ ~At("postTest") /\ ~At("func")'
      BY <2>1 DEF RemotePush, RemotePop, RemoteDone, Connect, localOff, faultVars, At
    <3>2. QED
      BY <3>1, QuietKeepsPaired
  <2>2. CASE RunExternalTests
    BY <2>2 DEF RunExternalTests, PreTestsPaired, At
  <2>3. CASE LocalPush \/ StartTest \/ CheckStatus \/ EndTest \/ ResetFlag
    <3>1. UNCHANGED <<postTest, interrupted>> /\ ~At("func") /\ ~At("postTest") /\ ~At("func")'
      BY <2>3 DEF LocalPush, StartTest, CheckStatus, EndTest, ResetFlag, remoteWaits,
                  remoteVars, faultVars, At
    <3>2. QED
      BY <3>1, QuietKeepsPaired
  <2>4. CASE ResetParent \/ ResetChild \/ LocalPop \/ LocalExit
    <3>1. UNCHANGED <<postTest, interrupted>> /\ ~At("func") /\ ~At("postTest") /\ ~At("func")'
      BY <2>4 DEF ResetParent, ResetChild, LocalPop, LocalExit, remoteWaits,
                  remoteVars, faultVars, At
    <3>2. QED
      BY <3>1, QuietKeepsPaired
  <2>5. CASE PreTest
    <3>1. rpc = "run" /\ lpc = "preTest" /\ test \in Tests /\ Status(rstack) = "green"
          /\ (postTest # "nil" => interrupted)
      BY <2>5 DEF PreTest, At, RemoteInv, LocalInv, CopyInv, CombinedStatus, PreTestsPaired
    <3>2. rpc' = "run" /\ lpc' = "func" /\ test' = test
          /\ (postTest' = test \/ interrupted')
      BY <2>5, <3>1 DEF PreTest, remoteVars
    <3>3. QED
      BY <3>2 DEF PreTestsPaired, At
  <2>6. CASE Func
    BY <2>6 DEF Func, PreTestsPaired, At, remoteVars
  <2>7. CASE PostTest
    BY <2>7 DEF PostTest, PreTestsPaired, At, remoteVars
  <2>8. CASE LocalCrash
    BY <2>8 DEF LocalCrash, PreTestsPaired, At
  <2>9. CASE Retry \/ NoTestRan \/ ReturnUnstarted
    <3>1. UNCHANGED <<postTest, interrupted>> /\ ~At("func") /\ ~At("postTest") /\ ~At("func")'
      BY <2>9 DEF Retry, NoTestRan, ReturnUnstarted, localOff, faultVars, At
    <3>2. QED
      BY <3>1, QuietKeepsPaired
  <2>10. CASE UNCHANGED vars
    BY <2>10 DEF vars, remoteVars, testVars, faultVars, PreTestsPaired, At
  <2>11. QED
    BY <2>1, <2>2, <2>3, <2>4, <2>5, <2>6, <2>7, <2>8, <2>9, <2>10 DEF Next, LocalNext
<1>3. QED
  BY <1>1, <1>2, InvariantHolds, PTL DEF Spec
=============================================================================
