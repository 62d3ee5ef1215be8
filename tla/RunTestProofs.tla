--------------------------- MODULE RunTestProofs ---------------------------
(***************************************************************************)
(* For every number of tests and every height of the fixture stack: a test *)
(* that passes did run, what PreTest set up is undone, and the precondition *)
(* is closed.  An error can come from a goroutine between any two steps of *)
(* runTestWithConfig, so the invariant says at each call what has happened *)
(* if there is no error yet, and what has happened whatever the errors.    *)
(***************************************************************************)
EXTENDS RunTest, TLAPS

\* The first n fixtures went through PreTest without an error and owe their
\* PostTest, and the precondition, if any, was prepared.
Ready(n) ==
    /\ succeeded = 1 .. n
    /\ hooks = 1 .. n
    /\ usesPre => test \in prepared

\* PostTest was called for exactly the fixtures above n that owe it.
Undone(n) == {posted[j] : j \in DOMAIN posted} = {h \in hooks : h > n}

\* The stream of the test is open between StartTest and its end, and an error
\* of the condition is in the stream unless its goroutine is still to emit it.
StreamInv ==
    /\ result = "none" => (ended <=> pc = "next")
    /\ pc # "next" => test > 0
    /\ hasError /\ async = "none" => reported

\* What runTestWithConfig has done at each call on the way up.
SetUpInv ==
    /\ pc \in {"setup", "prepare"} => i = 1 /\ hooks = {} /\ succeeded = {}
    /\ pc \in {"pretest", "inpretest"} => i >= 1
    /\ pc = "inpretest" => i <= height
    /\ pc \in {"setup", "prepare", "pretest", "inpretest", "func"} => ~ran
    /\ pc \in {"pretest", "inpretest"} /\ ~hasError => Ready(i - 1)
    /\ pc = "func" /\ ~hasError => Ready(height)

\* What the test function found, and that only an error leaves it out.
RanInv ==
    /\ ran => Ready(height)
    /\ pc \in {"infunc", "posttest", "close", "posthook", "end"} /\ ~hasError => ran
    /\ ended /\ test > 0 /\ ~reported /\ ~hasError => ran

\* What it has done at each call on the way down.
UndoInv ==
    /\ hooks \subseteq succeeded
    /\ pc \in {"setup", "prepare", "pretest", "inpretest", "func", "infunc"} => posted = <<>>
    /\ pc \in {"infunc", "posttest"} => i <= height
    /\ pc = "infunc" => i = height
    /\ pc = "posttest" => Undone(i)
    /\ pc \in {"close", "posthook", "end"} => Undone(0)
    /\ \A j, k \in DOMAIN posted : j < k => posted[j] > posted[k]
    /\ pc = "end" => postHook # "set"

\* The precondition is used by tests that have started, and closed by the last.
PreInv ==
    /\ prepared \subseteq 1 .. test
    /\ closes \subseteq {NumTests}
    /\ pc \in {"posthook", "end"} /\ usesPre /\ test = NumTests => closes = {NumTests}
    /\ result = "ok" /\ usesPre => closes = {NumTests}

RunTestInv == TypeOK /\ StreamInv /\ SetUpInv /\ RanInv /\ UndoInv /\ PreInv

-----------------------------------------------------------------------------
\* The height of the stack is a number.
LEMMA HeightNat == ASSUME TypeOK PROVE height \in Nat
  BY SizeAssumption DEF TypeOK, height

\* It does not change with the tests.
LEMMA HeightFixed == ASSUME usesPre' = usesPre PROVE height' = height
  BY DEF height

\* While the stream is open, a call of user code leaves the errors alone or
\* reports one, which is then in the stream.
LEMMA ProceedMeans ==
  ASSUME TypeOK, ~ended, NEW p, Proceed(p)
  PROVE  /\ pc' = p
         /\ \/ hasError' = hasError /\ reported' = reported
            \/ hasError' = TRUE /\ reported' = TRUE
  BY ZenonT(30) DEF TypeOK, Proceed, Succeed, ReportError, EmitError

\* An abandoned call ends the test with an error in its stream.
LEMMA AbandonMeans ==
  ASSUME TypeOK, ~ended, Abandon
  PROVE  /\ reported' = TRUE /\ ended' = TRUE /\ result' = "error"
         /\ usesPre' = usesPre /\ test' = test /\ pc' = pc
         /\ hasError' = hasError /\ async' = async /\ postHook' = postHook
         /\ i' = i /\ hooks' = hooks /\ succeeded' = succeeded /\ posted' = posted
  BY ZenonT(30) DEF TypeOK, Abandon, EmitError, fixtVars

\* A set of tests up to n, and test n.
LEMMA UpTo ==
  ASSUME NEW n \in Nat \ {0}, NEW P \in SUBSET (1 .. n), NEW Q,
         \A q \in Q : q \in P \/ q = n
  PROVE  Q \subseteq 1 .. n
<1>1. n \in 1 .. n /\ \A q \in P : q \in 1 .. n
  OBVIOUS
<1>2. \A q \in Q : q \in 1 .. n
  BY <1>1, Zenon
<1>3. QED
  BY <1>2, Zenon

\* Abandoning a call keeps the invariant, also when the call was Prepare, or
\* Close in the last test.
LEMMA AbandonKeeps ==
  ASSUME RunTestInv, result = "none", pc # "next", Abandon, ran' = ran,
         \/ prepared' = prepared
         \/ prepared' = prepared \cup {test} /\ test > 0,
         closes' = closes \/ closes' = closes \cup {NumTests}
  PROVE  RunTestInv'
<1>1. ~ended /\ TypeOK
  BY DEF RunTestInv, StreamInv
<1>2. /\ reported' = TRUE /\ ended' = TRUE /\ result' = "error"
      /\ usesPre' = usesPre /\ test' = test /\ pc' = pc
      /\ hasError' = hasError /\ async' = async /\ postHook' = postHook
      /\ i' = i /\ hooks' = hooks /\ succeeded' = succeeded /\ posted' = posted
  BY <1>1, AbandonMeans
<1>3. height' = height
  BY <1>2, HeightFixed
<1>4. prepared \subseteq 1 .. test /\ test \in 0 .. NumTests /\ closes \subseteq {NumTests}
  BY DEF RunTestInv, PreInv, TypeOK
<1>5. prepared' \subseteq 1 .. test
  <2>1. CASE test > 0
    BY <1>4, <2>1, UpTo, SizeAssumption
  <2>2. CASE ~ (test > 0)
    BY <1>4, <2>2, ZenonT(30)
  <2>3. QED
    BY <2>1, <2>2
<1>6. closes' \subseteq {NumTests} /\ closes \subseteq closes'
  BY <1>4
<1>7. prepared' \in SUBSET (1 .. NumTests)
  BY <1>4, <1>5, SizeAssumption
<1>8. closes' \in SUBSET (1 .. NumTests)
  BY <1>6, SizeAssumption
<1>9. TypeOK'
  BY <1>2, <1>3, <1>7, <1>8 DEF RunTestInv, TypeOK
<1>10. StreamInv'
  BY <1>2 DEF RunTestInv, StreamInv
<1>11. \A n : Ready(n) => Ready(n)'
  BY <1>2 DEF Ready
<1>12. SetUpInv'
  BY <1>2, <1>3, <1>11 DEF RunTestInv, SetUpInv
<1>13. RanInv'
  BY <1>2, <1>3, <1>11 DEF RunTestInv, RanInv
<1>14. UndoInv'
  BY <1>2, <1>3 DEF RunTestInv, UndoInv, Undone
<1>15. PreInv'
  BY <1>2, <1>5, <1>6 DEF RunTestInv, PreInv
<1>16. QED
  BY <1>9, <1>10, <1>12, <1>13, <1>14, <1>15 DEF RunTestInv

\* Appending a smaller number to a decreasing sequence.
LEMMA AppendSmaller ==
  ASSUME NEW n \in Nat, NEW s \in Seq(1 .. n), NEW x \in 1 .. n,
         \A j \in DOMAIN s : s[j] > x,
         \A j, k \in DOMAIN s : j < k => s[j] > s[k]
  PROVE  /\ Append(s, x) \in Seq(1 .. n)
         /\ {Append(s, x)[j] : j \in DOMAIN Append(s, x)} = {s[j] : j \in DOMAIN s} \cup {x}
         /\ \A j, k \in DOMAIN Append(s, x) : j < k => Append(s, x)[j] > Append(s, x)[k]
<1> DEFINE t == Append(s, x)
<1>1. /\ t \in Seq(1 .. n) /\ DOMAIN s = 1 .. Len(s) /\ Len(s) \in Nat
      /\ DOMAIN t = 1 .. Len(s) + 1 /\ t[Len(s) + 1] = x
      /\ \A j \in DOMAIN s : t[j] = s[j]
  OBVIOUS
<1>2. DOMAIN t = DOMAIN s \cup {Len(s) + 1}
  BY <1>1
<1>3. {t[j] : j \in DOMAIN t} = {s[j] : j \in DOMAIN s} \cup {x}
  BY <1>1, <1>2
<1>4. \A j, k \in DOMAIN t : j < k => t[j] > t[k]
  BY <1>1
<1>5. QED
  BY <1>1, <1>3, <1>4

\* The hooks above a fixture of the stack, and above the one below it.
LEMMA HooksAbove ==
  ASSUME NEW n \in Nat, NEW H \in SUBSET (1 .. n), NEW x \in 1 .. n
  PROVE  /\ {h \in H : h > n} = {}
         /\ x \in H => {h \in H : h > x - 1} = {h \in H : h > x} \cup {x}
         /\ x \notin H => {h \in H : h > x - 1} = {h \in H : h > x}
<1>1. \A h \in H : h \in 1 .. n
  OBVIOUS
<1>2. \A h \in H : h > x - 1 <=> h > x \/ h = x
  BY <1>1
<1>3. \A h \in H : ~ (h > n)
  BY <1>1
<1>4. {h \in H : h > n} = {}
  BY <1>3, ZenonT(30)
<1>5. QED
  BY <1>2, <1>4, ZenonT(30)

\* runTest starts a test with everything reset, or gives up before it.
LEMMA StartTestKeeps == ASSUME RunTestInv, StartTest PROVE RunTestInv'
<1>1. height' = height /\ height \in Nat
  BY HeightNat, HeightFixed DEF StartTest, RunTestInv
<1>2. CASE result' = "error"
  <2>1. /\ result' = "error" /\ UNCHANGED <<test, pc, hasError, async, reported, ended,
                                i, hooks, succeeded, posted, ran, postHook, usesPre,
                                prepared, closes>>
    BY <1>2 DEF StartTest, At, fixtVars, preVars
  <2>2. \A n : Ready(n) => Ready(n)'
    BY <2>1 DEF Ready
  <2>3. TypeOK' /\ StreamInv' /\ PreInv'
    BY <2>1, <1>1 DEF RunTestInv, TypeOK, StreamInv, PreInv
  <2>4. SetUpInv' /\ RanInv'
    BY <2>1, <2>2, <1>1 DEF RunTestInv, SetUpInv, RanInv
  <2>5. UndoInv'
    BY <2>1, <1>1 DEF RunTestInv, UndoInv, Undone
  <2>6. QED
    BY <2>3, <2>4, <2>5 DEF RunTestInv
<1>3. CASE result' = "none"
  <2>1. /\ test' = test + 1 /\ test < NumTests /\ pc' = "setup"
        /\ hasError' = FALSE /\ async' = "none" /\ reported' = FALSE /\ ended' = FALSE
        /\ i' = 1 /\ hooks' = {} /\ succeeded' = {} /\ posted' = <<>>
        /\ ran' = FALSE /\ postHook' = "none" /\ result' = result
        /\ UNCHANGED <<usesPre, prepared, closes>>
    BY <1>3 DEF StartTest, At, preVars
  <2>2. test' \in 0 .. NumTests /\ i' \in 0 .. height + 1 /\ <<>> \in Seq(1 .. height)
    BY <2>1, <1>1, SizeAssumption DEF RunTestInv, TypeOK
  <2>3. TypeOK'
    BY <2>1, <2>2, <1>1, ZenonT(30) DEF RunTestInv, TypeOK
  <2>4. StreamInv' /\ SetUpInv' /\ RanInv' /\ UndoInv'
    BY <2>1, <2>2 DEF RunTestInv, TypeOK, StreamInv, SetUpInv, RanInv, UndoInv
  <2>5. PreInv'
    BY <2>1, <1>3 DEF RunTestInv, TypeOK, PreInv
  <2>6. QED
    BY <2>3, <2>4, <2>5 DEF RunTestInv
<1>4. QED
  BY <1>2, <1>3 DEF StartTest, At

\* PreCheck and TestHook come before anything is prepared.
LEMMA SetUpTestKeeps == ASSUME RunTestInv, SetUpTest PROVE RunTestInv'
<1>1. ~ended /\ TypeOK /\ height \in Nat
  BY HeightNat DEF RunTestInv, StreamInv, SetUpTest, At
<1>2. CASE Abandon
  BY <1>2, AbandonKeeps DEF SetUpTest, At, preVars
<1>3. CASE ~Abandon
  <2>1. /\ pc = "setup" /\ pc' = "prepare"
        /\ \/ hasError' = hasError /\ reported' = reported
           \/ hasError' = TRUE /\ reported' = TRUE
        /\ postHook' \in {"none", "set"}
        /\ UNCHANGED <<usesPre, test, result, async, ended,
                        i, hooks, succeeded, posted, ran, prepared, closes>>
    BY <1>3, <1>1, ProceedMeans, ZenonT(30)
       DEF SetUpTest, At, Returned, outerVars, fixtVars, preVars
  <2>2. height' = height
    BY <2>1, HeightFixed
  <2>3. TypeOK'
    BY <1>1, <2>1, <2>2, ZenonT(30) DEF RunTestInv, TypeOK
  <2>4. StreamInv'
    BY <2>1 DEF RunTestInv, StreamInv
  <2>5. SetUpInv'
    BY <1>1, <2>1, <2>2 DEF RunTestInv, SetUpInv, Ready, TypeOK
  <2>6. RanInv'
    BY <1>1, <2>1, <2>2 DEF RunTestInv, SetUpInv, RanInv, Ready, TypeOK
  <2>7. UndoInv'
    BY <1>1, <2>1, <2>2 DEF RunTestInv, SetUpInv, UndoInv, Undone, TypeOK
  <2>8. PreInv'
    BY <2>1 DEF RunTestInv, PreInv, TypeOK
  <2>9. QED
    BY <2>3, <2>4, <2>5, <2>6, <2>7, <2>8 DEF RunTestInv
<1>4. QED
  BY <1>2, <1>3

\* With no error, a test that uses a precondition goes on with it prepared.
LEMMA PrepareKeeps == ASSUME RunTestInv, Prepare PROVE RunTestInv'
<1>1. ~ended /\ TypeOK /\ height \in Nat
  BY HeightNat DEF RunTestInv, StreamInv, Prepare, At
<1>2. CASE Abandon
  BY <1>2, AbandonKeeps DEF Prepare, At, RunTestInv, StreamInv
<1>3. CASE ~Abandon
  <2>1. /\ pc = "prepare" /\ pc' = "pretest"
        /\ \/ hasError' = hasError /\ reported' = reported
           \/ hasError' = TRUE /\ reported' = TRUE
        /\ prepared' = prepared \/ prepared' = prepared \cup {test}
        /\ ~hasError /\ usesPre => test \in prepared'
        /\ UNCHANGED <<usesPre, test, result, async, ended,
                        i, hooks, succeeded, posted, ran, postHook, closes>>
    BY <1>3, <1>1, ProceedMeans, ZenonT(30)
       DEF Prepare, At, Succeed, Returned, outerVars, fixtVars
  <2>2. prepared \subseteq 1 .. test /\ test \in 1 .. NumTests
    BY <1>1, <2>1 DEF RunTestInv, PreInv, StreamInv, TypeOK
  <2>3. prepared' \subseteq 1 .. test
    <3>1. \A t \in prepared' : t \in prepared \/ t = test
      BY <2>1
    <3>2. QED
      BY <2>2, <3>1, UpTo, SizeAssumption
  <2>4. prepared' \in SUBSET (1 .. NumTests)
    BY <2>2, <2>3, SizeAssumption
  <2>5. height' = height
    BY <2>1, HeightFixed
  <2>6. TypeOK'
    BY <1>1, <2>1, <2>5, <2>4, ZenonT(30) DEF TypeOK
  <2>7. StreamInv'
    BY <2>1 DEF RunTestInv, StreamInv
  <2>8. SetUpInv'
    BY <1>1, <2>1, <2>5 DEF RunTestInv, SetUpInv, Ready, TypeOK
  <2>9. RanInv'
    BY <1>1, <2>1, <2>5 DEF RunTestInv, SetUpInv, RanInv, Ready, TypeOK
  <2>10. UndoInv'
    BY <1>1, <2>1, <2>5 DEF RunTestInv, SetUpInv, UndoInv, Undone, TypeOK
  <2>11. PreInv'
    BY <2>1, <2>3 DEF RunTestInv, PreInv
  <2>12. QED
    BY <2>6, <2>7, <2>8, <2>9, <2>10, <2>11 DEF RunTestInv
<1>4. QED
  BY <1>2, <1>3

\* RunPreTest passes over a fixture only if there is an error.
LEMMA RunPreTestKeeps == ASSUME RunTestInv, RunPreTest PROVE RunTestInv'
<1>1. ~ended /\ TypeOK /\ height \in Nat
  BY HeightNat DEF RunTestInv, StreamInv, RunPreTest, At
<1>2. /\ pc = "pretest" /\ i <= height
      /\ \/ hasError /\ pc' = "pretest" /\ i' = i + 1
         \/ ~hasError /\ pc' = "inpretest" /\ i' = i
      /\ UNCHANGED <<usesPre, test, result, async, ended, hasError, reported,
                      hooks, succeeded, posted, ran, postHook, prepared, closes>>
  BY <1>1 DEF RunPreTest, At, Succeed, Returned, outerVars, preVars
<1>3. height' = height
  BY <1>2, HeightFixed
<1>4. TypeOK'
  BY <1>1, <1>2, <1>3 DEF RunTestInv, TypeOK
<1>5. StreamInv'
  BY <1>2 DEF RunTestInv, StreamInv
<1>6. SetUpInv'
  BY <1>1, <1>2, <1>3 DEF RunTestInv, SetUpInv, Ready, TypeOK
<1>7. RanInv'
  BY <1>1, <1>2, <1>3 DEF RunTestInv, SetUpInv, RanInv, Ready, TypeOK
<1>8. UndoInv'
  BY <1>1, <1>2, <1>3 DEF RunTestInv, SetUpInv, UndoInv, Undone, TypeOK
<1>9. PreInv'
  BY <1>2 DEF RunTestInv, PreInv, TypeOK
<1>10. QED
  BY <1>4, <1>5, <1>6, <1>7, <1>8, <1>9 DEF RunTestInv

\* A PreTest that returns with no error reported, by it or by another goroutine,
\* leaves one more fixture ready.
LEMMA PreTestReturnsKeeps == ASSUME RunTestInv, PreTestReturns PROVE RunTestInv'
<1>1. ~ended /\ TypeOK /\ height \in Nat
  BY HeightNat DEF RunTestInv, StreamInv, PreTestReturns, At
<1>2. CASE Abandon
  BY <1>2, AbandonKeeps DEF PreTestReturns, At, preVars
<1>3. CASE ~Abandon
  <2>1. /\ pc = "inpretest" /\ pc' = "pretest" /\ i' = i + 1
        /\ \/ hasError' = hasError /\ reported' = reported
           \/ hasError' = TRUE /\ reported' = TRUE
        /\ \/ succeeded' = succeeded \cup {i}
           \/ succeeded' = succeeded /\ hasError'
        /\ hooks' = IF hasError' THEN hooks ELSE hooks \cup {i}
        /\ UNCHANGED <<usesPre, test, result, async, ended,
                        posted, ran, postHook, prepared, closes>>
    BY <1>3, <1>1, ProceedMeans, ZenonT(30)
       DEF PreTestReturns, At, Proceed, Succeed, ReportError, Returned, outerVars,
           preVars
  <2>2. height' = height
    BY <2>1, HeightFixed
  <2>3. i \in 1 .. height /\ hooks \in SUBSET (1 .. height) /\ succeeded \in SUBSET (1 .. height)
    BY <1>1, <2>1 DEF RunTestInv, SetUpInv, TypeOK
  <2>4. i' \in 0 .. height + 1
    BY <1>1, <2>1, <2>3
  <2>5. hooks' \in SUBSET (1 .. height)
    BY <2>1, <2>3
  <2>6. succeeded' \in SUBSET (1 .. height)
    BY <2>1, <2>3, ZenonT(30)
  <2>7. TypeOK'
    BY <1>1, <2>1, <2>2, <2>4, <2>5, <2>6, ZenonT(30) DEF TypeOK
  <2>8. StreamInv'
    BY <2>1 DEF RunTestInv, StreamInv
  <2>9. ASSUME ~hasError' PROVE Ready(i - 1)'
    <3>1. Ready(i - 1) /\ hooks' = hooks \cup {i} /\ succeeded' = succeeded \cup {i}
      BY <1>1, <2>1, <2>9 DEF RunTestInv, SetUpInv, TypeOK
    <3>2. (1 .. i - 1) \cup {i} = 1 .. i
      BY <2>3, <1>1
    <3>3. succeeded' = 1 .. i /\ hooks' = 1 .. i
      BY <3>1, <3>2 DEF Ready
    <3>4. i' - 1 = i
      BY <2>1, <2>3
    <3>5. QED
      BY <2>1, <3>1, <3>3, <3>4, ZenonT(30) DEF Ready
  <2>10. SetUpInv'
    BY <1>1, <2>1, <2>2, <2>3, <2>9 DEF RunTestInv, SetUpInv
  <2>11. RanInv'
    BY <1>1, <2>1, <2>2 DEF RunTestInv, SetUpInv, RanInv, Ready, TypeOK
  <2>12. UndoInv'
    BY <1>1, <2>1, <2>2 DEF RunTestInv, SetUpInv, UndoInv, Undone, TypeOK
  <2>13. PreInv'
    BY <2>1 DEF RunTestInv, PreInv, TypeOK
  <2>14. QED
    BY <2>7, <2>8, <2>10, <2>11, <2>12, <2>13 DEF RunTestInv
<1>4. QED
  BY <1>2, <1>3

\* With no error after the last PreTest, all fixtures are ready.
LEMMA PreTestDoneKeeps == ASSUME RunTestInv, PreTestDone PROVE RunTestInv'
<1>1. ~ended /\ TypeOK /\ height \in Nat
  BY HeightNat DEF RunTestInv, StreamInv, PreTestDone, At
<1>2. /\ pc = "pretest" /\ i > height /\ pc' = "func"
      /\ UNCHANGED <<usesPre, test, result, async, ended, hasError, reported,
                      i, hooks, succeeded, posted, ran, postHook, prepared, closes>>
  BY <1>1 DEF PreTestDone, At, Succeed, Returned, outerVars, fixtVars, preVars
<1>3. height' = height
  BY <1>2, HeightFixed
<1>4. TypeOK'
  BY <1>1, <1>2, <1>3 DEF RunTestInv, TypeOK
<1>5. StreamInv'
  BY <1>2 DEF RunTestInv, StreamInv
<1>6. SetUpInv'
  BY <1>1, <1>2, <1>3 DEF RunTestInv, SetUpInv, Ready, TypeOK
<1>7. RanInv'
  BY <1>1, <1>2, <1>3 DEF RunTestInv, SetUpInv, RanInv, Ready, TypeOK
<1>8. UndoInv'
  BY <1>1, <1>2, <1>3 DEF RunTestInv, SetUpInv, UndoInv, Undone, TypeOK
<1>9. PreInv'
  BY <1>2 DEF RunTestInv, PreInv, TypeOK
<1>10. QED
  BY <1>4, <1>5, <1>6, <1>7, <1>8, <1>9 DEF RunTestInv

\* The test function is called exactly if there is no error; no hook was called yet.
LEMMA CheckFuncKeeps == ASSUME RunTestInv, CheckFunc PROVE RunTestInv'
<1>1. ~ended /\ TypeOK /\ height \in Nat
  BY HeightNat DEF RunTestInv, StreamInv, CheckFunc, At
<1>2. /\ pc = "func" /\ i' = height
      /\ \/ hasError /\ pc' = "posttest" /\ ran' = ran
         \/ ~hasError /\ pc' = "infunc" /\ ran' = TRUE
      /\ UNCHANGED <<usesPre, test, result, async, ended, hasError, reported,
                      hooks, succeeded, posted, postHook, prepared, closes>>
  BY <1>1, ProceedMeans DEF CheckFunc, At, Succeed, Returned, outerVars, preVars
<1>3. height' = height
  BY <1>2, HeightFixed
<1>4. i' \in 0 .. height + 1
  BY <1>1, <1>2
<1>5. TypeOK'
  BY <1>1, <1>2, <1>3, <1>4, ZenonT(30) DEF TypeOK
<1>6. StreamInv'
  BY <1>2 DEF RunTestInv, StreamInv
<1>7. SetUpInv'
  BY <1>1, <1>2, <1>3 DEF RunTestInv, SetUpInv, Ready, TypeOK
<1>8. RanInv'
  BY <1>1, <1>2, <1>3 DEF RunTestInv, SetUpInv, RanInv, Ready, TypeOK
<1>9. posted = <<>> /\ hooks \in SUBSET (1 .. height)
  BY <1>1, <1>2 DEF RunTestInv, UndoInv, TypeOK
<1>10. {posted[j] : j \in DOMAIN posted} = {h \in hooks : h > height}
  <2>1. \A h \in hooks : h \in 1 .. height
    BY <1>9
  <2>2. {h \in hooks : h > height} = {}
    BY <1>1, <2>1
  <2>3. QED
    BY <1>9, <2>2
<1>11. UndoInv'
  BY <1>1, <1>2, <1>3, <1>10 DEF RunTestInv, UndoInv, Undone
<1>12. PreInv'
  BY <1>2 DEF RunTestInv, PreInv, TypeOK
<1>13. QED
  BY <1>5, <1>6, <1>7, <1>8, <1>11, <1>12 DEF RunTestInv

\* Coming back from the test function, all hooks are still to be called.
LEMMA FuncReturnsKeeps == ASSUME RunTestInv, FuncReturns PROVE RunTestInv'
<1>1. ~ended /\ TypeOK /\ height \in Nat
  BY HeightNat DEF RunTestInv, StreamInv, FuncReturns, At
<1>2. CASE Abandon
  BY <1>2, AbandonKeeps DEF FuncReturns, At, preVars
<1>3. CASE ~Abandon
  <2>1. /\ pc = "infunc" /\ pc' = "posttest"
        /\ \/ hasError' = hasError /\ reported' = reported
           \/ hasError' = TRUE /\ reported' = TRUE
        /\ UNCHANGED <<usesPre, test, result, async, ended,
                        i, hooks, succeeded, posted, ran, postHook, prepared, closes>>
    BY <1>3, <1>1, ProceedMeans, ZenonT(30)
       DEF FuncReturns, At, Returned, outerVars, fixtVars, preVars
  <2>2. height' = height
    BY <2>1, HeightFixed
  <2>3. TypeOK'
    BY <1>1, <2>1, <2>2, ZenonT(30) DEF RunTestInv, TypeOK
  <2>4. StreamInv'
    BY <2>1 DEF RunTestInv, StreamInv
  <2>5. SetUpInv'
    BY <1>1, <2>1, <2>2 DEF RunTestInv, SetUpInv, Ready, TypeOK
  <2>6. RanInv'
    BY <1>1, <2>1, <2>2 DEF RunTestInv, SetUpInv, RanInv, Ready, TypeOK
  <2>7. posted = <<>> /\ i = height /\ hooks \in SUBSET (1 .. height)
    BY <1>1, <2>1 DEF RunTestInv, UndoInv, TypeOK
  <2>8. {posted[j] : j \in DOMAIN posted} = {h \in hooks : h > i}
    <3>1. \A h \in hooks : ~ (h > i)
      BY <1>1, <2>7
    <3>2. {h \in hooks : h > i} = {}
      BY <3>1
    <3>3. QED
      BY <2>7, <3>2
  <2>9. UndoInv'
    BY <1>1, <2>1, <2>2, <2>7, <2>8 DEF RunTestInv, UndoInv, Undone
  <2>10. PreInv'
    BY <2>1 DEF RunTestInv, PreInv, TypeOK
  <2>11. QED
    BY <2>3, <2>4, <2>5, <2>6, <2>9, <2>10 DEF RunTestInv
<1>4. QED
  BY <1>2, <1>3

\* A PostTest that fails does not keep the ones below it from being called.
LEMMA RunPostTestKeeps == ASSUME RunTestInv, RunPostTest PROVE RunTestInv'
<1>1. ~ended /\ TypeOK /\ height \in Nat
  BY HeightNat DEF RunTestInv, StreamInv, RunPostTest, At
<1>2. CASE Abandon
  BY <1>2, AbandonKeeps DEF RunPostTest, At, preVars
<1>3. CASE ~Abandon
  <2>1. /\ pc = "posttest" /\ i >= 1 /\ pc' = "posttest" /\ i' = i - 1
        /\ \/ hasError' = hasError /\ reported' = reported
           \/ hasError' = TRUE /\ reported' = TRUE
        /\ posted' = IF i \in hooks THEN Append(posted, i) ELSE posted
        /\ UNCHANGED <<usesPre, test, result, async, ended,
                        hooks, succeeded, ran, postHook, prepared, closes>>
    BY <1>3, <1>1, ProceedMeans, ZenonT(30)
       DEF RunPostTest, At, Succeed, Returned, outerVars, preVars
  <2>2. height' = height
    BY <2>1, HeightFixed
  <2>3. /\ i \in 1 .. height /\ hooks \in SUBSET (1 .. height) /\ posted \in Seq(1 .. height)
        /\ {posted[j] : j \in DOMAIN posted} = {h \in hooks : h > i}
        /\ \A j, k \in DOMAIN posted : j < k => posted[j] > posted[k]
    BY <1>1, <2>1 DEF RunTestInv, UndoInv, Undone, TypeOK
  <2>4. \A j \in DOMAIN posted : posted[j] > i
    BY <2>3
  <2>5. /\ posted' \in Seq(1 .. height)
        /\ {posted'[j] : j \in DOMAIN posted'} = {h \in hooks : h > i'}
        /\ \A j, k \in DOMAIN posted' : j < k => posted'[j] > posted'[k]
    <3>1. CASE i \in hooks
      <4>1. {h \in hooks : h > i'} = {h \in hooks : h > i} \cup {i}
        BY <1>1, <2>1, <2>3, <3>1, HooksAbove
      <4>2. posted' = Append(posted, i)
        BY <2>1, <3>1
      <4>3. /\ Append(posted, i) \in Seq(1 .. height)
            /\ {Append(posted, i)[j] : j \in DOMAIN Append(posted, i)} =
                  {posted[j] : j \in DOMAIN posted} \cup {i}
            /\ \A j, k \in DOMAIN Append(posted, i) :
                  j < k => Append(posted, i)[j] > Append(posted, i)[k]
        BY <1>1, <2>3, <2>4, AppendSmaller, ZenonT(30)
      <4>4. QED
        BY <2>3, <4>1, <4>2, <4>3
    <3>2. CASE i \notin hooks
      <4>1. {h \in hooks : h > i'} = {h \in hooks : h > i}
        BY <1>1, <2>1, <2>3, <3>2, HooksAbove
      <4>2. posted' = posted
        BY <2>1, <3>2
      <4>3. QED
        BY <2>3, <4>1, <4>2
    <3>3. QED
      BY <3>1, <3>2
  <2>6. i' \in 0 .. height + 1
    BY <1>1, <2>1, <2>3
  <2>7. TypeOK'
    BY <1>1, <2>1, <2>2, <2>5, <2>6, ZenonT(30) DEF TypeOK
  <2>8. StreamInv'
    BY <2>1 DEF RunTestInv, StreamInv
  <2>9. SetUpInv'
    BY <1>1, <2>1, <2>2 DEF RunTestInv, SetUpInv, Ready, TypeOK
  <2>10. RanInv'
    BY <1>1, <2>1, <2>2 DEF RunTestInv, SetUpInv, RanInv, Ready, TypeOK
  <2>11. UndoInv'
    <3>1. hooks' = hooks /\ hooks \subseteq succeeded /\ succeeded' = succeeded
      BY <2>1 DEF RunTestInv, UndoInv
    <3>2. i' <= height' /\ pc' = "posttest"
      BY <1>1, <2>1, <2>2, <2>3
    <3>3. Undone(i)'
      BY <2>5, <3>1 DEF Undone
    <3>4. QED
      BY <2>5, <3>1, <3>2, <3>3 DEF UndoInv
  <2>12. PreInv'
    BY <2>1 DEF RunTestInv, PreInv, TypeOK
  <2>13. QED
    BY <2>7, <2>8, <2>9, <2>10, <2>11, <2>12 DEF RunTestInv
<1>4. QED
  BY <1>2, <1>3

\* At the bottom of the stack every hook was called.
LEMMA PostTestDoneKeeps == ASSUME RunTestInv, PostTestDone PROVE RunTestInv'
<1>1. ~ended /\ TypeOK /\ height \in Nat
  BY HeightNat DEF RunTestInv, StreamInv, PostTestDone, At
<1>2. /\ pc = "posttest" /\ i = 0 /\ pc' = "close"
      /\ UNCHANGED <<usesPre, test, result, async, ended, hasError, reported,
                      i, hooks, succeeded, posted, ran, postHook, prepared, closes>>
  BY <1>1 DEF PostTestDone, At, Succeed, Returned, outerVars, fixtVars, preVars
<1>3. height' = height
  BY <1>2, HeightFixed
<1>4. TypeOK'
  BY <1>1, <1>2, <1>3 DEF RunTestInv, TypeOK
<1>5. StreamInv'
  BY <1>2 DEF RunTestInv, StreamInv
<1>6. SetUpInv'
  BY <1>1, <1>2, <1>3 DEF RunTestInv, SetUpInv, Ready, TypeOK
<1>7. RanInv'
  BY <1>1, <1>2, <1>3 DEF RunTestInv, SetUpInv, RanInv, Ready, TypeOK
<1>8. UndoInv'
  BY <1>1, <1>2, <1>3 DEF RunTestInv, SetUpInv, UndoInv, Undone, TypeOK
<1>9. PreInv'
  BY <1>2 DEF RunTestInv, PreInv, TypeOK
<1>10. QED
  BY <1>4, <1>5, <1>6, <1>7, <1>8, <1>9 DEF RunTestInv

\* The last test closes the precondition whether or not it failed.
LEMMA CloseKeeps == ASSUME RunTestInv, Close PROVE RunTestInv'
<1>1. ~ended /\ TypeOK /\ height \in Nat
  BY HeightNat DEF RunTestInv, StreamInv, Close, At
<1>2. CASE Abandon
  BY <1>2, AbandonKeeps DEF Close, At
<1>3. CASE ~Abandon
  <2>1. /\ pc = "close" /\ pc' = "posthook"
        /\ \/ hasError' = hasError /\ reported' = reported
           \/ hasError' = TRUE /\ reported' = TRUE
        /\ closes' = IF usesPre /\ test = NumTests THEN closes \cup {test} ELSE closes
        /\ UNCHANGED <<usesPre, test, result, async, ended,
                        i, hooks, succeeded, posted, ran, postHook, prepared>>
    BY <1>3, <1>1, ProceedMeans, ZenonT(30)
       DEF Close, At, Succeed, Returned, outerVars, fixtVars
  <2>2. height' = height
    BY <2>1, HeightFixed
  <2>3. closes' \in SUBSET (1 .. NumTests)
    BY <1>1, <2>1, SizeAssumption DEF TypeOK
  <2>4. TypeOK'
    BY <1>1, <2>1, <2>2, <2>3, ZenonT(30) DEF TypeOK
  <2>5. StreamInv'
    BY <2>1 DEF RunTestInv, StreamInv
  <2>6. SetUpInv'
    BY <1>1, <2>1, <2>2 DEF RunTestInv, SetUpInv, Ready, TypeOK
  <2>7. RanInv'
    BY <1>1, <2>1, <2>2 DEF RunTestInv, SetUpInv, RanInv, Ready, TypeOK
  <2>8. UndoInv'
    BY <1>1, <2>1, <2>2 DEF RunTestInv, SetUpInv, UndoInv, Undone, TypeOK
  <2>9. PreInv'
    BY <2>1, ZenonT(30) DEF RunTestInv, PreInv, TypeOK
  <2>10. QED
    BY <2>4, <2>5, <2>6, <2>7, <2>8, <2>9 DEF RunTestInv
<1>4. QED
  BY <1>2, <1>3

\* The function of TestHook is called at the end, if there is one.
LEMMA CallPostHookKeeps == ASSUME RunTestInv, CallPostHook PROVE RunTestInv'
<1>1. ~ended /\ TypeOK /\ height \in Nat
  BY HeightNat DEF RunTestInv, StreamInv, CallPostHook, At
<1>2. CASE Abandon
  BY <1>2, AbandonKeeps DEF CallPostHook, At, preVars
<1>3. CASE ~Abandon
  <2>1. /\ pc = "posthook" /\ pc' = "end"
        /\ \/ hasError' = hasError /\ reported' = reported
           \/ hasError' = TRUE /\ reported' = TRUE
        /\ postHook' # "set" /\ postHook' \in {"none", "set", "called"}
        /\ UNCHANGED <<usesPre, test, result, async, ended,
                        i, hooks, succeeded, posted, ran, prepared, closes>>
    BY <1>3, <1>1, ProceedMeans, ZenonT(30)
       DEF TypeOK, CallPostHook, At, Succeed, Returned, outerVars, fixtVars, preVars
  <2>2. height' = height
    BY <2>1, HeightFixed
  <2>3. TypeOK'
    BY <1>1, <2>1, <2>2, ZenonT(30) DEF RunTestInv, TypeOK
  <2>4. StreamInv'
    BY <2>1 DEF RunTestInv, StreamInv
  <2>5. SetUpInv'
    BY <1>1, <2>1, <2>2 DEF RunTestInv, SetUpInv, Ready, TypeOK
  <2>6. RanInv'
    BY <1>1, <2>1, <2>2 DEF RunTestInv, SetUpInv, RanInv, Ready, TypeOK
  <2>7. UndoInv'
    BY <1>1, <2>1, <2>2 DEF RunTestInv, SetUpInv, UndoInv, Undone, TypeOK
  <2>8. PreInv'
    BY <2>1 DEF RunTestInv, PreInv, TypeOK
  <2>9. QED
    BY <2>3, <2>4, <2>5, <2>6, <2>7, <2>8 DEF RunTestInv
<1>4. QED
  BY <1>2, <1>3

\* A test that gets to its end without an error has run.
LEMMA EndTestKeeps == ASSUME RunTestInv, EndTest PROVE RunTestInv'
<1>1. ~ended /\ TypeOK /\ height \in Nat
  BY HeightNat DEF RunTestInv, StreamInv, EndTest, At
<1>2. /\ pc = "end" /\ pc' = "next" /\ ended' = TRUE
      /\ result' = IF test = NumTests THEN "ok" ELSE result
      /\ UNCHANGED <<usesPre, test, async, hasError, reported,
                      i, hooks, succeeded, posted, ran, postHook, prepared, closes>>
  BY <1>1, ProceedMeans DEF EndTest, At, fixtVars, preVars
<1>3. height' = height
  BY <1>2, HeightFixed
<1>4. TypeOK'
  BY <1>1, <1>2, <1>3 DEF RunTestInv, TypeOK
<1>5. StreamInv'
  BY <1>2 DEF RunTestInv, StreamInv
<1>6. SetUpInv'
  BY <1>1, <1>2, <1>3 DEF RunTestInv, SetUpInv, Ready, TypeOK
<1>7. RanInv'
  BY <1>1, <1>2, <1>3 DEF RunTestInv, SetUpInv, RanInv, Ready, TypeOK
<1>8. UndoInv'
  BY <1>1, <1>2, <1>3 DEF RunTestInv, SetUpInv, UndoInv, Undone, TypeOK
<1>9. PreInv'
  BY <1>2 DEF RunTestInv, PreInv, TypeOK
<1>10. QED
  BY <1>4, <1>5, <1>6, <1>7, <1>8, <1>9 DEF RunTestInv

\* A goroutine may record an error at any time.
LEMMA AsyncRecordKeeps == ASSUME RunTestInv, AsyncRecord PROVE RunTestInv'
<1>1. /\ async' = "recorded" /\ hasError' = TRUE
      /\ UNCHANGED <<usesPre, test, result, pc, reported, ended, i, hooks, succeeded,
                      posted, ran, postHook, prepared, closes>>
  BY DEF AsyncRecord, outerVars, fixtVars, preVars
<1>2. height' = height
  BY <1>1, HeightFixed
<1>3. TypeOK' /\ StreamInv' /\ PreInv'
  BY <1>1, <1>2 DEF RunTestInv, TypeOK, StreamInv, PreInv
<1>4. SetUpInv' /\ RanInv'
  BY <1>1, <1>2 DEF RunTestInv, SetUpInv, RanInv, Ready
<1>5. UndoInv'
  BY <1>1, <1>2 DEF RunTestInv, UndoInv, Undone
<1>6. QED
  BY <1>3, <1>4, <1>5 DEF RunTestInv

\* The error of a goroutine is emitted, or lost if the test has ended.
LEMMA AsyncEmitKeeps == ASSUME RunTestInv, AsyncEmit PROVE RunTestInv'
<1>1. /\ async = "recorded"
      /\ \/ ended /\ async' = "lost" /\ reported' = reported
         \/ ~ended /\ async' = "none" /\ reported' = TRUE
      /\ UNCHANGED <<usesPre, test, result, pc, hasError, ended, i, hooks, succeeded,
                      posted, ran, postHook, prepared, closes>>
  BY ZenonT(30) DEF AsyncEmit, EmitError, RunTestInv, TypeOK, outerVars, fixtVars,
                    preVars
<1>2. height' = height
  BY <1>1, HeightFixed
<1>3. async' \in {"none", "recorded", "lost"} /\ reported' \in BOOLEAN
  BY <1>1, ZenonT(30) DEF RunTestInv, TypeOK
<1>4. TypeOK'
  BY <1>1, <1>2, <1>3 DEF RunTestInv, TypeOK
<1>5. StreamInv' /\ PreInv'
  BY <1>1 DEF RunTestInv, StreamInv, PreInv
<1>6. SetUpInv' /\ RanInv'
  BY <1>1, <1>2 DEF RunTestInv, SetUpInv, RanInv, Ready
<1>7. UndoInv'
  BY <1>1, <1>2 DEF RunTestInv, UndoInv, Undone
<1>8. QED
  BY <1>4, <1>6, <1>7, <1>5 DEF RunTestInv

\* A step that changes nothing.
LEMMA StutterKeeps == ASSUME RunTestInv, UNCHANGED vars PROVE RunTestInv'
<1>1. UNCHANGED <<usesPre, test, result, pc, hasError, async, reported, ended, i, hooks,
                   succeeded, posted, ran, postHook, prepared, closes>>
  BY DEF vars, outerVars, fixtVars, preVars
<1>2. height' = height
  BY <1>1, HeightFixed
<1>3. TypeOK'
  BY <1>1, <1>2 DEF RunTestInv, TypeOK
<1>4. StreamInv' /\ PreInv'
  BY <1>1 DEF RunTestInv, StreamInv, PreInv
<1>5. SetUpInv' /\ RanInv'
  BY <1>1, <1>2 DEF RunTestInv, SetUpInv, RanInv, Ready
<1>6. UndoInv'
  BY <1>1, <1>2 DEF RunTestInv, UndoInv, Undone
<1>7. QED
  BY <1>3, <1>5, <1>6, <1>4 DEF RunTestInv

-----------------------------------------------------------------------------
\* The invariant holds before the first test, and every step keeps it.
THEOREM InvariantHolds == Spec => []RunTestInv
<1>1. Init => RunTestInv
  <2> SUFFICES ASSUME Init PROVE RunTestInv
    OBVIOUS
  <2>1. height \in Nat /\ <<>> \in Seq(1 .. height)
    BY SizeAssumption DEF Init, height
  <2>2. test \in 0 .. NumTests /\ i \in 0 .. height + 1
    BY <2>1, SizeAssumption DEF Init
  <2>3. TypeOK
    BY <2>1, <2>2, ZenonT(30) DEF Init, TypeOK
  <2>4. StreamInv /\ SetUpInv /\ RanInv /\ UndoInv
    BY DEF Init, StreamInv, SetUpInv, RanInv, UndoInv
  <2>5. PreInv
    BY DEF Init, PreInv
  <2>6. QED
    BY <2>3, <2>4, <2>5 DEF RunTestInv
<1>2. RunTestInv /\ [Next]_vars => RunTestInv'
  BY StartTestKeeps, SetUpTestKeeps, PrepareKeeps, RunPreTestKeeps, PreTestReturnsKeeps,
     PreTestDoneKeeps, CheckFuncKeeps, FuncReturnsKeeps, RunPostTestKeeps,
     PostTestDoneKeeps, CloseKeeps, CallPostHookKeeps, EndTestKeeps, AsyncRecordKeeps,
     AsyncEmitKeeps, StutterKeeps
     DEF Next
<1>3. QED
  BY <1>1, <1>2, PTL DEF Spec

\* A test that ends with no error in its output did run, on fixtures that all
\* went through PreTest and with its precondition prepared, unless a goroutine was
\* cut off while it reported an error: runTestWithConfig leaves no call out silently.
THEOREM NoSilentPassHolds == Spec => []NoSilentPass
<1>1. RunTestInv => NoSilentPass
  BY DEF RunTestInv, NoSilentPass, StreamInv, RanInv, Ready, TypeOK
<1>2. QED
  BY <1>1, InvariantHolds, PTL

\* A test that ends without an abandoned call has called PostTest for exactly the
\* fixtures that owe it, from the top down, and the function of TestHook, whatever
\* errors came in between and from whichever goroutine.
THEOREM HooksUndoneHolds == Spec => []HooksUndone
<1>1. RunTestInv => HooksUndone
  <2> SUFFICES ASSUME RunTestInv, At("end") PROVE HooksUndone
    BY DEF HooksUndone
  <2>1. hooks \in SUBSET (1 .. height) /\ height \in Nat
    BY HeightNat DEF RunTestInv, TypeOK
  <2>2. \A h \in hooks : h \in Nat /\ h > 0
    BY <2>1
  <2>3. {h \in hooks : h > 0} = hooks
    BY <2>2
  <2>4. QED
    BY <2>3 DEF RunTestInv, HooksUndone, UndoInv, Undone, RanInv, Ready, At
<1>2. QED
  BY <1>1, InvariantHolds, PTL

\* No test prepares a precondition that was closed, and a run whose calls all
\* return in time has closed it with its last test.
THEOREM ClosedOnceHolds == Spec => []ClosedOnce
<1>1. RunTestInv => ClosedOnce
  BY SizeAssumption DEF RunTestInv, ClosedOnce, PreInv, TypeOK
<1>2. QED
  BY <1>1, InvariantHolds, PTL
=============================================================================
