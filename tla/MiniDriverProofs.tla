-------------------------- MODULE MiniDriverProofs --------------------------
(***************************************************************************)
(* For every set of tests, every number of retries and every limit: the    *)
(* results of RunTestsWithRetry are complete and final, every test that a  *)
(* bundle started gets a result, and no test starts after the limit.  The  *)
(* argument keeps account of each test: it is with the loop (unstarted),   *)
(* with the attempt (in the stack of the preprocessor or among the         *)
(* results), or done, and its starts and the retries left add up.          *)
(***************************************************************************)
EXTENDS MiniDriver, TLAPS

\* No test occurs twice.
Distinct(rs) == \A j, k \in DOMAIN rs : j # k => rs[j].test # rs[k].test

\* The tests that started in this attempt and are still to be judged by the loop.
Waiting == ResultsOf(results) \cup (ResultsOf(stack) \ {Fixture})

\* The verdicts of the loop so far.
LoopInv ==
    /\ Distinct(allResults)
    /\ pc # "returned" => ret = "none"
    /\ ret = "nil" => unstarted = {}
    /\ ret # "fatal" =>
        /\ ResultsOf(allResults) = AllTests \ unstarted
        /\ \A k \in DOMAIN allResults :
               allResults[k].failed => retries[allResults[k].test] = 0

\* The tests of the attempt: each is in one place, and none was judged before.
AttemptInv ==
    /\ Distinct(results) /\ Distinct(stack)
    /\ ResultsOf(results) \cap ResultsOf(stack) = {}
    /\ Waiting \subseteq unstarted
    /\ pc = "attempt" => results = <<>>
    /\ pc \in {"attempt", "update"} => stack = <<>>
    /\ pc \in {"run", "runEnd"} => todo \subseteq unstarted /\ Waiting = unstarted \ todo

\* Every start of a test is paid for with a retry, but for one that is waiting for
\* its verdict or has it.
CountInv ==
    \A t \in AllTests :
        attempts[t] + retries[t] =
            IF t \in unstarted /\ t \notin Waiting THEN retryn ELSE retryn + 1

\* The limit is not reached while the bundle may start tests, and what was cut
\* off is reported as failed.
LimitInv == pc = "run" => ~LimitReached(fails)
CrashInv ==
    /\ pc = "run" => crashed = {}
    /\ pc = "runEnd" => \A k \in DOMAIN results : results[k].test \in crashed => results[k].failed

DriverInv == TypeOK /\ LoopInv /\ AttemptInv /\ CountInv /\ LimitInv /\ CrashInv

-----------------------------------------------------------------------------
Entry == [test : AllTests \cup {Fixture}, failed : BOOLEAN]

\* What a record of the stack or of the results consists of.
LEMMA ResultFields ==
  /\ \A t, b : Result(t, b).test = t /\ Result(t, b).failed = b
  /\ \A t \in AllTests \cup {Fixture}, b \in BOOLEAN : Result(t, b) \in Entry
  /\ \A r \in Entry : r.test \in AllTests \cup {Fixture} /\ r.failed \in BOOLEAN
  /\ \A r \in Entry : r.test # Fixture => r \in [test : AllTests, failed : BOOLEAN]
BY DEF Result, Entry

\* The elements of a sequence.
LEMMA ElementOf ==
  ASSUME NEW S, NEW s \in Seq(S)
  PROVE  \A k \in DOMAIN s : s[k] \in S
OBVIOUS

\* The results are entries without the fixture.
LEMMA ResultsAreEntries ==
  ASSUME NEW rs \in ResultSeq
  PROVE  rs \in Seq(Entry) /\ ResultsOf(rs) \subseteq AllTests /\ Fixture \notin ResultsOf(rs)
<1>1. \A k \in DOMAIN rs : rs[k] \in [test : AllTests, failed : BOOLEAN]
  BY ElementOf, ZenonT(30) DEF ResultSeq
<1>2. \A k \in DOMAIN rs : rs[k] \in Entry /\ rs[k].test \in AllTests
  BY <1>1 DEF Entry
<1>3. rs \in Seq(Entry)
  BY <1>2 DEF ResultSeq
<1>4. QED
  BY <1>2, <1>3, ConstantAssumption DEF ResultsOf

\* Nothing is in the empty sequence.
LEMMA NoResults == ResultsOf(<<>>) = {} /\ Distinct(<<>>)
BY DEF ResultsOf, Distinct

\* A sequence with one more entry, of a test that it did not have.
LEMMA AppendEntry ==
  ASSUME NEW S, NEW rs \in Seq(S), NEW r \in S
  PROVE  /\ Append(rs, r) \in Seq(S)
         /\ ResultsOf(Append(rs, r)) = ResultsOf(rs) \cup {r.test}
         /\ Distinct(rs) /\ r.test \notin ResultsOf(rs) => Distinct(Append(rs, r))
         /\ \A k \in DOMAIN Append(rs, r) :
                Append(rs, r)[k] = r \/ (k \in DOMAIN rs /\ Append(rs, r)[k] = rs[k])
<1> DEFINE s == Append(rs, r)
<1>1. /\ s \in Seq(S) /\ Len(rs) \in Nat /\ DOMAIN rs = 1 .. Len(rs)
      /\ DOMAIN s = 1 .. Len(rs) + 1 /\ s[Len(rs) + 1] = r
      /\ \A k \in DOMAIN rs : s[k] = rs[k]
  OBVIOUS
<1>2. DOMAIN s = DOMAIN rs \cup {Len(rs) + 1} /\ Len(rs) + 1 \notin DOMAIN rs
  BY <1>1
<1> HIDE DEF s
<1>3. ResultsOf(s) = ResultsOf(rs) \cup {r.test}
  BY <1>1, <1>2 DEF ResultsOf
<1>4. Distinct(rs) /\ r.test \notin ResultsOf(rs) => Distinct(s)
  BY <1>1, <1>2 DEF ResultsOf, Distinct
<1>5. \A k \in DOMAIN s : s[k] = r \/ (k \in DOMAIN rs /\ s[k] = rs[k])
  BY <1>1, <1>2, ZenonT(30)
<1>6. QED
  BY <1>1, <1>3, <1>4, <1>5 DEF s

\* The same for a list of results.
LEMMA AppendResult ==
  ASSUME NEW rs \in ResultSeq, NEW r \in [test : AllTests, failed : BOOLEAN],
         Distinct(rs), r.test \notin ResultsOf(rs)
  PROVE  /\ Append(rs, r) \in ResultSeq /\ Distinct(Append(rs, r))
         /\ ResultsOf(Append(rs, r)) = ResultsOf(rs) \cup {r.test}
         /\ \A k \in DOMAIN Append(rs, r) :
                Append(rs, r)[k] = r \/ (k \in DOMAIN rs /\ Append(rs, r)[k] = rs[k])
<1> DEFINE S == [test : AllTests, failed : BOOLEAN]
<1>1. ResultSeq = Seq(S)
  BY DEF ResultSeq
<1>2. r \in S /\ rs \in Seq(S)
  BY <1>1
<1> HIDE DEF S
<1>3. QED
  BY <1>1, <1>2, AppendEntry

\* The first entry is taken.
LEMMA TakeFirst ==
  ASSUME NEW S, NEW rs \in Seq(S), rs # <<>>, Distinct(rs)
  PROVE  /\ Head(rs) \in S /\ Tail(rs) \in Seq(S)
         /\ Head(rs).test \in ResultsOf(rs)
         /\ ResultsOf(Tail(rs)) = ResultsOf(rs) \ {Head(rs).test}
         /\ Distinct(Tail(rs))
<1> DEFINE s == Tail(rs)
<1>1. /\ s \in Seq(S) /\ Len(rs) \in Nat \ {0} /\ DOMAIN rs = 1 .. Len(rs)
      /\ DOMAIN s = 1 .. Len(rs) - 1 /\ Head(rs) = rs[1] /\ rs[1] \in S
      /\ \A k \in DOMAIN s : s[k] = rs[k + 1]
  OBVIOUS
<1> HIDE DEF s
<1>2. \A k \in DOMAIN s : k + 1 \in DOMAIN rs /\ k + 1 # 1
  BY <1>1
<1>3. \A k \in DOMAIN rs : k # 1 => k - 1 \in DOMAIN s /\ k = (k - 1) + 1
  BY <1>1
<1>4. 1 \in DOMAIN rs
  BY <1>1
<1>5. ResultsOf(s) \subseteq ResultsOf(rs) \ {rs[1].test}
  BY <1>1, <1>2, <1>4 DEF ResultsOf, Distinct
<1>6. ResultsOf(rs) \ {rs[1].test} \subseteq ResultsOf(s)
  <2> SUFFICES ASSUME NEW k \in DOMAIN rs, rs[k].test # rs[1].test
               PROVE  rs[k].test \in ResultsOf(s)
    BY DEF ResultsOf
  <2>1. k - 1 \in DOMAIN s /\ s[k - 1] = rs[k]
    BY <1>1, <1>3
  <2>2. QED
    BY <2>1 DEF ResultsOf
<1>7. Distinct(s)
  <2> SUFFICES ASSUME NEW j \in DOMAIN s, NEW k \in DOMAIN s, j # k
               PROVE  s[j].test # s[k].test
    BY DEF Distinct
  <2>1. j + 1 \in DOMAIN rs /\ k + 1 \in DOMAIN rs /\ j + 1 # k + 1
    BY <1>1, <1>2
  <2>2. QED
    BY <1>1, <2>1 DEF Distinct
<1>8. rs[1].test \in ResultsOf(rs)
  BY <1>4 DEF ResultsOf
<1>9. QED
  BY <1>1, <1>5, <1>6, <1>7, <1>8 DEF s

\* The last entry is taken.
LEMMA TakeLast ==
  ASSUME NEW S, NEW rs \in Seq(S), rs # <<>>, Distinct(rs)
  PROVE  /\ rs[Len(rs)] \in S /\ SubSeq(rs, 1, Len(rs) - 1) \in Seq(S)
         /\ rs[Len(rs)].test \in ResultsOf(rs)
         /\ ResultsOf(SubSeq(rs, 1, Len(rs) - 1)) = ResultsOf(rs) \ {rs[Len(rs)].test}
         /\ Distinct(SubSeq(rs, 1, Len(rs) - 1))
<1> DEFINE s == SubSeq(rs, 1, Len(rs) - 1)
           n == Len(rs)
<1>1. /\ s \in Seq(S) /\ n \in Nat \ {0} /\ DOMAIN rs = 1 .. n
      /\ DOMAIN s = 1 .. n - 1 /\ rs[n] \in S
      /\ \A k \in DOMAIN s : s[k] = rs[k]
  OBVIOUS
<1> HIDE DEF s, n
<1>2. DOMAIN rs = DOMAIN s \cup {n} /\ n \notin DOMAIN s
  BY <1>1
<1>3. ResultsOf(s) = ResultsOf(rs) \ {rs[n].test}
  BY <1>1, <1>2 DEF ResultsOf, Distinct
<1>4. Distinct(s) /\ rs[n].test \in ResultsOf(rs)
  BY <1>1, <1>2 DEF ResultsOf, Distinct
<1>5. QED
  BY <1>1, <1>3, <1>4 DEF s, n

\* Two sequences with no test in common.
LEMMA ConcatDistinct ==
  ASSUME NEW S, NEW rs \in Seq(S), NEW ss \in Seq(S), Distinct(rs), Distinct(ss),
         ResultsOf(rs) \cap ResultsOf(ss) = {}
  PROVE  rs \o ss \in Seq(S) /\ Distinct(rs \o ss)
<1> DEFINE s == rs \o ss
<1>1. /\ s \in Seq(S) /\ Len(rs) \in Nat /\ Len(ss) \in Nat
      /\ DOMAIN rs = 1 .. Len(rs) /\ DOMAIN ss = 1 .. Len(ss)
      /\ DOMAIN s = 1 .. Len(rs) + Len(ss)
      /\ \A k \in DOMAIN rs : s[k] = rs[k]
      /\ \A k \in DOMAIN s : k \notin DOMAIN rs => s[k] = ss[k - Len(rs)]
  OBVIOUS
<1> HIDE DEF s
<1>2. \A k \in DOMAIN s : k \notin DOMAIN rs => k - Len(rs) \in DOMAIN ss
  BY <1>1
<1>3. \A j, k \in DOMAIN s : j # k => j - Len(rs) # k - Len(rs)
  BY <1>1
<1>4. \A j \in DOMAIN rs, k \in DOMAIN ss : rs[j].test # ss[k].test
  BY DEF ResultsOf
<1>5. ASSUME NEW j \in DOMAIN s, NEW k \in DOMAIN s, j # k
      PROVE  s[j].test # s[k].test
  <2>1. CASE j \in DOMAIN rs /\ k \in DOMAIN rs
    BY <1>1, <1>5, <2>1 DEF Distinct
  <2>2. CASE j \in DOMAIN rs /\ k \notin DOMAIN rs
    BY <1>1, <1>2, <1>4, <2>2
  <2>3. CASE j \notin DOMAIN rs /\ k \in DOMAIN rs
    BY <1>1, <1>2, <1>4, <2>3
  <2>4. CASE j \notin DOMAIN rs /\ k \notin DOMAIN rs
    <3>1. /\ j - Len(rs) \in DOMAIN ss /\ k - Len(rs) \in DOMAIN ss
          /\ j - Len(rs) # k - Len(rs)
          /\ s[j] = ss[j - Len(rs)] /\ s[k] = ss[k - Len(rs)]
      BY <1>1, <1>2, <1>3, <1>5, <2>4
    <3>2. QED
      BY <3>1, Zenon DEF Distinct
  <2>5. QED
    BY <2>1, <2>2, <2>3, <2>4
<1>6. QED
  BY <1>1, <1>5 DEF s, Distinct

\* An entry is marked as failed.
LEMMA MarkFailed ==
  ASSUME NEW rs \in Seq(Entry), NEW k \in DOMAIN rs
  PROVE  LET s == [rs EXCEPT ![k].failed = TRUE]
         IN  s \in Seq(Entry) /\ ResultsOf(s) = ResultsOf(rs) /\ (Distinct(rs) => Distinct(s))
<1> DEFINE s == [rs EXCEPT ![k].failed = TRUE]
<1>1. rs[k] \in Entry /\ [rs[k] EXCEPT !.failed = TRUE] \in Entry
      /\ [rs[k] EXCEPT !.failed = TRUE].test = rs[k].test
  <2>1. rs[k] \in Entry
    BY ElementOf
  <2>2. QED
    BY <2>1, ZenonT(30) DEF Entry
<1>2. s = [rs EXCEPT ![k] = [rs[k] EXCEPT !.failed = TRUE]]
  OBVIOUS
<1>3. s \in Seq(Entry) /\ DOMAIN s = DOMAIN rs
  BY <1>1, <1>2
<1>4. /\ s \in Seq(Entry) /\ DOMAIN s = DOMAIN rs
      /\ \A j \in DOMAIN rs : s[j].test = rs[j].test
  BY <1>1, <1>2, <1>3
<1> HIDE DEF s
<1>5. ResultsOf(s) = ResultsOf(rs) /\ (Distinct(rs) => Distinct(s))
  BY <1>4 DEF ResultsOf, Distinct
<1>6. QED
  BY <1>4, <1>5 DEF s

-----------------------------------------------------------------------------
\* The types of the stack and of the results, as sequences of entries.
LEMMA EntryTypes ==
  ASSUME TypeOK
  PROVE  /\ stack \in Seq(Entry) /\ results \in Seq(Entry)
         /\ ResultsOf(results) \subseteq AllTests
         /\ ResultsOf(allResults) \subseteq AllTests
         /\ Fixture \notin ResultsOf(results)
  BY ResultsAreEntries, ZenonT(30) DEF TypeOK, Entry

\* A step that changes neither the verdicts nor what the attempt holds.
LEMMA AccountsKept ==
  ASSUME DriverInv, UNCHANGED <<unstarted, retries, allResults, results, stack, attempts>>
  PROVE  /\ Waiting' = Waiting
         /\ ResultsOf(results)' = ResultsOf(results) /\ ResultsOf(stack)' = ResultsOf(stack)
         /\ CountInv'
         /\ Distinct(results)' /\ Distinct(stack)' /\ Distinct(allResults)'
<1>1. /\ ResultsOf(results)' = ResultsOf(results) /\ ResultsOf(stack)' = ResultsOf(stack)
      /\ Waiting' = Waiting
  BY DEF Waiting, ResultsOf
<1>2. CountInv'
  BY <1>1 DEF DriverInv, CountInv
<1>3. Distinct(results)' /\ Distinct(stack)' /\ Distinct(allResults)'
  BY DEF DriverInv, AttemptInv, LoopInv, Distinct
<1>4. QED
  BY <1>1, <1>2, <1>3

\* The loop variables are left alone by the attempt.
LEMMA LoopKept ==
  ASSUME DriverInv, UNCHANGED loopVars, pc # "returned"
  PROVE  LoopInv'
<1>1. UNCHANGED <<unstarted, retries, allResults, ret>>
  BY DEF loopVars
<1>2. ResultsOf(allResults)' = ResultsOf(allResults) /\ Distinct(allResults)'
  BY <1>1 DEF ResultsOf, Distinct, DriverInv, LoopInv
<1>3. ret = "none"
  BY DEF DriverInv, LoopInv
<1>4. QED
  BY <1>1, <1>2, <1>3 DEF DriverInv, LoopInv

\* An entry leaves the stack, and is a result if it is a test: nothing is lost
\* on the way, whatever is known of the entry.
LEMMA PopMoves ==
  ASSUME DriverInv, stack # <<>>, NEW r \in Entry, r.test = top.test, Pop(r)
  PROVE  /\ stack' \in Seq(Entry) /\ results' \in ResultSeq /\ fails' \in Nat
         /\ Distinct(results)' /\ Distinct(stack)'
         /\ (ResultsOf(results) \cap ResultsOf(stack))' = {}
         /\ Waiting' = Waiting
         /\ \A k \in DOMAIN results' :
                results'[k] = r \/ (k \in DOMAIN results /\ results'[k] = results[k])
<1>1. /\ stack \in Seq(Entry) /\ results \in ResultSeq /\ fails \in Nat
      /\ results \in Seq(Entry) /\ Fixture \notin ResultsOf(results)
      /\ Distinct(stack) /\ Distinct(results)
      /\ ResultsOf(results) \cap ResultsOf(stack) = {}
  BY EntryTypes DEF DriverInv, TypeOK, AttemptInv
<1>2. /\ stack' \in Seq(Entry) /\ top.test \in ResultsOf(stack)
      /\ ResultsOf(stack') = ResultsOf(stack) \ {top.test} /\ Distinct(stack')
  BY <1>1, TakeLast DEF Pop, top
<1>3. fails' \in Nat
  BY <1>1 DEF Pop
<1>4. CASE r.test = Fixture
  <2>1. results' = results
    BY <1>4 DEF Pop
  <2>2. ResultsOf(results') \cap ResultsOf(stack') = {}
    BY <1>1, <1>2, <2>1
  <2>3. Waiting' = Waiting
    BY <1>1, <1>2, <1>4, <2>1, ZenonT(30) DEF Waiting, ResultsOf
  <2>4. QED
    BY <1>1, <1>2, <1>3, <2>1, <2>2, <2>3, ZenonT(30) DEF Distinct, ResultsOf
<1>5. CASE r.test # Fixture
  <2>1. results' = Append(results, r) /\ r \in [test : AllTests, failed : BOOLEAN]
    BY <1>5, ResultFields DEF Pop
  <2>2. /\ results' \in ResultSeq
        /\ ResultsOf(results') = ResultsOf(results) \cup {r.test}
        /\ Distinct(results')
        /\ \A k \in DOMAIN results' :
               results'[k] = r \/ (k \in DOMAIN results /\ results'[k] = results[k])
    <3>1. r.test \notin ResultsOf(results)
      BY <1>1, <1>2
    <3>2. QED
      BY <1>1, <2>1, <3>1, AppendResult
  <2>3. ResultsOf(results') \cap ResultsOf(stack') = {}
    BY <1>1, <1>2, <2>2
  <2>4. Waiting' = ResultsOf(results') \cup (ResultsOf(stack') \ {Fixture})
    BY DEF Waiting, ResultsOf
  <2>5. Waiting' = Waiting
    BY <1>2, <1>5, <2>2, <2>4 DEF Waiting
  <2>6. QED
    BY <1>2, <1>3, <2>2, <2>3, <2>5, ZenonT(30) DEF Distinct, ResultsOf
<1>6. QED
  BY <1>4, <1>5

-----------------------------------------------------------------------------
\* An attempt that cannot connect leaves everything as it was.
LEMMA EnsureConnFailsKeeps == ASSUME DriverInv, EnsureConnFails PROVE DriverInv'
<1>1. /\ pc = "attempt" /\ ret' = "conn" /\ pc' = "returned"
      /\ UNCHANGED <<unstarted, retries, allResults, todo, stack, results, fails, runErr,
                      attempts, crashed>>
  BY DEF EnsureConnFails, procVars
<1>2. TypeOK'
  BY <1>1 DEF DriverInv, TypeOK
<1>3. /\ Waiting' = Waiting
      /\ ResultsOf(results)' = ResultsOf(results) /\ ResultsOf(stack)' = ResultsOf(stack)
      /\ CountInv'
      /\ Distinct(results)' /\ Distinct(stack)' /\ Distinct(allResults)'
  BY <1>1, AccountsKept
<1>4. LoopInv'
  BY <1>1, <1>3 DEF DriverInv, LoopInv, ResultsOf
<1>5. AttemptInv'
  BY <1>1, <1>3 DEF DriverInv, AttemptInv
<1>6. LimitInv' /\ CrashInv'
  BY <1>1 DEF LimitInv, CrashInv
<1>7. QED
  BY <1>2, <1>3, <1>4, <1>5, <1>6 DEF DriverInv

\* An attempt starts with nothing held over from the one before.
LEMMA StartAttemptKeeps == ASSUME DriverInv, StartAttempt PROVE DriverInv'
<1>1. /\ pc = "attempt" /\ todo' = unstarted /\ stack' = <<>> /\ results' = <<>>
      /\ crashed' = {} /\ UNCHANGED <<unstarted, retries, allResults, ret, fails, attempts>>
      /\ \/ ~LimitReached(fails) /\ pc' = "run" /\ runErr' = "nil"
         \/ pc' = "runEnd" /\ runErr' = "error"
  BY DEF StartAttempt, loopVars
<1>2. stack = <<>> /\ results = <<>>
  BY <1>1 DEF DriverInv, AttemptInv
<1>3. TypeOK'
  BY <1>1, <1>2 DEF DriverInv, TypeOK
<1>4. Waiting = {} /\ Waiting' = {} /\ CountInv'
  BY <1>1, <1>2, AccountsKept, NoResults DEF Waiting
<1>5. LoopInv'
  BY <1>1, LoopKept DEF loopVars
<1>6. AttemptInv'
  BY <1>1, <1>4, NoResults DEF DriverInv, TypeOK, AttemptInv
<1>7. LimitInv' /\ CrashInv'
  BY <1>1 DEF LimitInv, CrashInv, LimitReached
<1>8. QED
  BY <1>3, <1>4, <1>5, <1>6, <1>7 DEF DriverInv

\* An entity that starts was not in the attempt before; a test is then one more
\* start to account for.
LEMMA EntityStartKeeps ==
  ASSUME DriverInv, NEW e \in AllTests \cup {Fixture}, EntityStart(e)
  PROVE  DriverInv'
<1>1. /\ pc = "run" /\ pc' = "run" /\ stack' = Append(stack, Result(e, FALSE))
      /\ UNCHANGED <<unstarted, retries, allResults, ret, results, runErr, fails, crashed>>
  BY DEF EntityStart, loopVars
<1>2. /\ stack \in Seq(Entry) /\ results \in ResultSeq /\ Fixture \notin ResultsOf(results)
      /\ todo \subseteq unstarted /\ Waiting = unstarted \ todo /\ unstarted \subseteq AllTests
      /\ Distinct(stack) /\ Distinct(results)
      /\ ResultsOf(results) \cap ResultsOf(stack) = {}
  BY <1>1, EntryTypes DEF DriverInv, TypeOK, AttemptInv
<1>3. e \notin ResultsOf(stack) /\ e \notin ResultsOf(results)
  <2>1. CASE e = Fixture
    BY <1>2, <2>1, NoResults DEF EntityStart
  <2>2. CASE e # Fixture
    BY <1>2, <2>2 DEF EntityStart, Waiting
  <2>3. QED
    BY <2>1, <2>2
<1>4. /\ stack' \in Seq(Entry) /\ ResultsOf(stack') = ResultsOf(stack) \cup {e}
      /\ Distinct(stack')
  <2> DEFINE r == Result(e, FALSE)
  <2>1. r \in Entry /\ r.test = e
    BY ResultFields, ZenonT(30)
  <2> HIDE DEF r
  <2>2. stack' = Append(stack, r)
    BY <1>1 DEF r
  <2>3. QED
    BY <1>2, <1>3, <2>1, <2>2, AppendEntry
<1>5. Waiting' = ResultsOf(results) \cup (ResultsOf(stack') \ {Fixture})
  BY <1>1 DEF Waiting, ResultsOf
<1>6. /\ todo' \subseteq unstarted /\ Waiting' = unstarted \ todo'
      /\ attempts' \in [AllTests -> Nat] /\ todo' \in SUBSET AllTests /\ CountInv'
  <2>1. CASE e = Fixture
    <3>1. UNCHANGED <<todo, attempts>> /\ Waiting' = Waiting
      BY <1>4, <1>5, <2>1, ZenonT(30) DEF EntityStart, Waiting
    <3>2. QED
      BY <1>1, <1>2, <3>1 DEF DriverInv, TypeOK, CountInv
  <2>2. CASE e # Fixture
    <3>1. /\ e \in todo /\ todo' = todo \ {e}
          /\ attempts' = [attempts EXCEPT ![e] = @ + 1]
          /\ attempts \in [AllTests -> Nat] /\ e \in AllTests
      BY <2>2 DEF EntityStart, DriverInv, TypeOK
    <3>2. Waiting' = Waiting \cup {e}
      BY <1>4, <1>5, <2>2 DEF Waiting
    <3>3. attempts' \in [AllTests -> Nat]
      BY <3>1
    <3>4. \A t \in AllTests : attempts'[t] = IF t = e THEN attempts[t] + 1 ELSE attempts[t]
      BY <3>1
    <3>5. CountInv'
      <4> SUFFICES ASSUME NEW t \in AllTests
                   PROVE  attempts'[t] + retries'[t] =
                            IF t \in unstarted' /\ t \notin Waiting' THEN retryn ELSE retryn + 1
        BY DEF CountInv
      <4>1. /\ attempts[t] \in Nat /\ retries[t] \in Nat /\ retries'[t] = retries[t]
            /\ unstarted' = unstarted
        BY <1>1, <3>1, ConstantAssumption DEF DriverInv, TypeOK
      <4>2. attempts[t] + retries[t] =
              IF t \in unstarted /\ t \notin Waiting THEN retryn ELSE retryn + 1
        BY DEF DriverInv, CountInv
      <4>3. CASE t = e
        <5>1. t \in unstarted /\ t \notin Waiting /\ t \in Waiting'
          BY <1>2, <3>1, <3>2, <4>3
        <5>2. QED
          BY <3>4, <4>1, <4>2, <4>3, <5>1, ConstantAssumption
      <4>4. CASE t # e
        BY <3>2, <3>4, <4>1, <4>2, <4>4
      <4>5. QED
        BY <4>3, <4>4
    <3>6. QED
      BY <1>2, <3>1, <3>2, <3>3, <3>5
  <2>3. QED
    BY <2>1, <2>2
<1>7. TypeOK'
  BY <1>1, <1>4, <1>6, ZenonT(30) DEF DriverInv, TypeOK, Entry
<1>8. LoopInv'
  BY <1>1, LoopKept DEF loopVars
<1>9. AttemptInv'
  <2>1. ResultsOf(results') \cap ResultsOf(stack') = {}
    BY <1>1, <1>2, <1>3, <1>4, ZenonT(30)
  <2>2. QED
    BY <1>1, <1>2, <1>4, <1>6, <2>1, ZenonT(30) DEF AttemptInv
<1>10. LimitInv' /\ CrashInv'
  BY <1>1 DEF DriverInv, LimitInv, CrashInv, LimitReached
<1>11. QED
  BY <1>6, <1>7, <1>8, <1>9, <1>10 DEF DriverInv

\* An error of a running entity changes no account.
LEMMA EntityErrorKeeps ==
  ASSUME DriverInv, NEW k \in DOMAIN stack, EntityError(k)
  PROVE  DriverInv'
<1>1. /\ pc = "run" /\ stack' = [stack EXCEPT ![k].failed = TRUE]
      /\ UNCHANGED <<pc, unstarted, retries, allResults, ret, todo, results, runErr, fails,
                      attempts, crashed>>
  BY DEF EntityError, loopVars
<1>2. stack' \in Seq(Entry) /\ ResultsOf(stack') = ResultsOf(stack) /\ Distinct(stack')
  BY <1>1, MarkFailed, EntryTypes, ZenonT(30) DEF DriverInv, AttemptInv
<1>3. TypeOK'
  BY <1>1, <1>2 DEF DriverInv, TypeOK, Entry
<1>4. Waiting' = Waiting /\ ResultsOf(results') = ResultsOf(results) /\ Distinct(results')
  BY <1>1, <1>2 DEF Waiting, ResultsOf, DriverInv, AttemptInv
<1>5. CountInv'
  BY <1>1, <1>4 DEF DriverInv, CountInv
<1>6. LoopInv'
  BY <1>1, LoopKept DEF loopVars
<1>7. AttemptInv'
  BY <1>1, <1>2, <1>4, ZenonT(30) DEF DriverInv, AttemptInv
<1>8. LimitInv' /\ CrashInv'
  BY <1>1 DEF DriverInv, LimitInv, CrashInv, LimitReached
<1>9. QED
  BY <1>3, <1>5, <1>6, <1>7, <1>8 DEF DriverInv

\* What a step that ends an entity keeps, in a run and after it.
LEMMA PopKeeps ==
  ASSUME DriverInv, stack # <<>>, pc \in {"run", "runEnd"}, pc' \in {"run", "runEnd"},
         NEW r \in Entry, r.test = top.test, Pop(r), runErr' \in {"nil", "error", "fatal"},
         UNCHANGED <<loopVars, todo, attempts, crashed>>
  PROVE  TypeOK' /\ LoopInv' /\ AttemptInv' /\ CountInv'
<1>1. UNCHANGED <<unstarted, retries, allResults, ret, todo, attempts, crashed>>
  BY DEF loopVars
<1>2. /\ stack' \in Seq(Entry) /\ results' \in ResultSeq /\ fails' \in Nat
      /\ Distinct(results)' /\ Distinct(stack)'
      /\ (ResultsOf(results) \cap ResultsOf(stack))' = {}
      /\ Waiting' = Waiting
  BY PopMoves
<1>3. TypeOK'
  BY <1>1, <1>2 DEF DriverInv, TypeOK, Entry
<1>4. LoopInv'
  BY LoopKept
<1>5. AttemptInv'
  BY <1>1, <1>2 DEF DriverInv, AttemptInv
<1>6. CountInv'
  BY <1>1, <1>2 DEF DriverInv, CountInv
<1>7. QED
  BY <1>3, <1>4, <1>5, <1>6

\* The entity at the top of the stack is one.
LEMMA TopIsEntry ==
  ASSUME DriverInv, stack # <<>>
  PROVE  top \in Entry /\ Result(top.test, TRUE) \in Entry
<1>1. stack \in Seq(Entry) /\ Distinct(stack)
  BY EntryTypes DEF DriverInv, AttemptInv
<1>2. top \in Entry
  BY <1>1, TakeLast DEF top
<1>3. QED
  BY <1>2, ResultFields, ZenonT(30)

\* A failure that reaches the limit takes the driver out of the run.
LEMMA EntityEndKeeps == ASSUME DriverInv, EntityEnd PROVE DriverInv'
<1>1. /\ pc = "run" /\ stack # <<>> /\ Pop(top)
      /\ IF PopIsFatal(top) THEN pc' = "runEnd" /\ runErr' = "fatal" ELSE UNCHANGED <<pc, runErr>>
      /\ UNCHANGED <<loopVars, todo, attempts, crashed>>
  BY DEF EntityEnd
<1>2. /\ pc' \in {"run", "runEnd"} /\ runErr' \in {"nil", "error", "fatal"}
  BY <1>1 DEF DriverInv, TypeOK
<1>3. TypeOK' /\ LoopInv' /\ AttemptInv' /\ CountInv'
  BY <1>1, <1>2, PopKeeps, TopIsEntry
<1>4. LimitInv'
  <2> SUFFICES ASSUME pc' = "run" PROVE ~LimitReached(fails')
    BY DEF LimitInv, LimitReached
  <2>1. ~PopIsFatal(top) /\ ~LimitReached(fails)
    BY <1>1 DEF DriverInv, LimitInv
  <2>2. QED
    BY <1>1, <2>1 DEF Pop, PopIsFatal
<1>5. CrashInv'
  BY <1>1 DEF DriverInv, CrashInv
<1>6. QED
  BY <1>3, <1>4, <1>5 DEF DriverInv

\* The stream ends in order: nothing was cut off.
LEMMA EOFKeeps == ASSUME DriverInv, EOF PROVE DriverInv'
<1>1. /\ pc = "run" /\ pc' = "runEnd"
      /\ UNCHANGED <<unstarted, retries, allResults, ret, todo, stack, results, fails,
                      runErr, attempts, crashed>>
  BY DEF EOF, loopVars, procVars
<1>2. TypeOK'
  BY <1>1 DEF DriverInv, TypeOK
<1>3. /\ Waiting' = Waiting
      /\ ResultsOf(results)' = ResultsOf(results) /\ ResultsOf(stack)' = ResultsOf(stack)
      /\ CountInv'
      /\ Distinct(results)' /\ Distinct(stack)' /\ Distinct(allResults)'
  BY <1>1, AccountsKept
<1>4. LoopInv'
  BY <1>1, LoopKept DEF loopVars
<1>5. AttemptInv'
  BY <1>1, <1>3 DEF DriverInv, AttemptInv
<1>6. LimitInv' /\ CrashInv'
  BY <1>1 DEF DriverInv, LimitInv, CrashInv
<1>7. QED
  BY <1>2, <1>3, <1>4, <1>5, <1>6 DEF DriverInv

\* What a crash cuts off has no result yet.
LEMMA BundleCrashesKeeps == ASSUME DriverInv, BundleCrashes PROVE DriverInv'
<1>1. /\ pc = "run" /\ pc' = "runEnd" /\ runErr' = "error"
      /\ crashed' = ResultsOf(stack) \ {Fixture}
      /\ UNCHANGED <<unstarted, retries, allResults, ret, todo, stack, results, fails,
                      attempts>>
  BY DEF BundleCrashes, loopVars, procVars, ResultsOf
<1>2. TypeOK'
  <2>1. crashed' \in SUBSET AllTests
    BY <1>1 DEF DriverInv, TypeOK, AttemptInv, Waiting
  <2>2. QED
    BY <1>1, <2>1 DEF DriverInv, TypeOK
<1>3. /\ Waiting' = Waiting
      /\ ResultsOf(results)' = ResultsOf(results) /\ ResultsOf(stack)' = ResultsOf(stack)
      /\ CountInv'
      /\ Distinct(results)' /\ Distinct(stack)' /\ Distinct(allResults)'
  BY <1>1, AccountsKept
<1>4. LoopInv'
  BY <1>1, LoopKept DEF loopVars
<1>5. AttemptInv'
  BY <1>1, <1>3 DEF DriverInv, AttemptInv
<1>6. \A k \in DOMAIN results : results[k].test \notin crashed'
  BY <1>1 DEF DriverInv, AttemptInv, ResultsOf
<1>7. LimitInv' /\ CrashInv'
  BY <1>1, <1>6 DEF LimitInv, CrashInv
<1>8. QED
  BY <1>2, <1>3, <1>4, <1>5, <1>7 DEF DriverInv

\* RunEnd gives an orphan an error before it ends it.
LEMMA EndOrphanKeeps == ASSUME DriverInv, EndOrphan PROVE DriverInv'
<1> DEFINE r == Result(top.test, TRUE)
<1>1. /\ pc = "runEnd" /\ pc' = "runEnd" /\ stack # <<>> /\ Pop(r)
      /\ runErr' \in {"nil", "error", "fatal"}
      /\ UNCHANGED <<loopVars, todo, attempts, crashed>>
  BY ZenonT(30) DEF EndOrphan, DriverInv, TypeOK
<1>2. r \in Entry /\ r.test = top.test /\ r.failed = TRUE
  BY <1>1, TopIsEntry, ResultFields, ZenonT(30)
<1> HIDE DEF r
<1>3. TypeOK' /\ LoopInv' /\ AttemptInv' /\ CountInv'
  BY <1>1, <1>2, PopKeeps
<1>4. \A k \in DOMAIN results' :
          results'[k] = r \/ (k \in DOMAIN results /\ results'[k] = results[k])
  BY <1>1, <1>2, PopMoves
<1>5. LimitInv' /\ CrashInv'
  BY <1>1, <1>2, <1>4 DEF DriverInv, LimitInv, CrashInv
<1>6. QED
  BY <1>3, <1>5 DEF DriverInv

\* The attempt is over: with a fatal error its results are returned as they are.
LEMMA AttemptDoneKeeps == ASSUME DriverInv, AttemptDone PROVE DriverInv'
<1>1. /\ pc = "runEnd" /\ stack = <<>>
      /\ \/ pc' = "returned" /\ ret' = "fatal" /\ allResults' = allResults \o results
         \/ pc' = "returned" /\ ret' = "noTest" /\ allResults' = allResults
         \/ pc' = "update" /\ ret' = ret /\ allResults' = allResults
      /\ UNCHANGED <<unstarted, retries, todo, stack, results, fails, runErr, attempts, crashed>>
  BY DEF AttemptDone, procVars
<1>2. /\ Waiting' = Waiting /\ CountInv'
      /\ Distinct(results)' /\ Distinct(stack)'
      /\ ResultsOf(results)' = ResultsOf(results) /\ ResultsOf(stack)' = ResultsOf(stack)
  BY <1>1 DEF Waiting, ResultsOf, Distinct, DriverInv, AttemptInv, CountInv
<1>3. allResults' \in ResultSeq /\ LoopInv'
  <2>1. /\ allResults \in ResultSeq /\ results \in ResultSeq /\ ret = "none"
        /\ Distinct(allResults) /\ Distinct(results)
        /\ ResultsOf(allResults) = AllTests \ unstarted /\ ResultsOf(results) \subseteq unstarted
    BY <1>1 DEF DriverInv, TypeOK, LoopInv, AttemptInv, Waiting
  <2>2. CASE ret' = "fatal"
    <3>1. allResults' = allResults \o results /\ pc' = "returned"
      BY <1>1, <2>1, <2>2
    <3>2. allResults' \in ResultSeq /\ Distinct(allResults')
      BY <2>1, <3>1, ConcatDistinct DEF ResultSeq
    <3>3. QED
      BY <2>2, <3>1, <3>2 DEF LoopInv, Distinct
  <2>3. CASE ret' # "fatal"
    <3>1. allResults' = allResults
      BY <1>1, <2>3
    <3>2. ResultsOf(allResults') = ResultsOf(allResults) /\ Distinct(allResults')
      BY <2>1, <3>1
    <3>3. QED
      BY <1>1, <2>1, <2>3, <3>1, <3>2 DEF DriverInv, LoopInv, Distinct, ResultsOf
  <2>4. QED
    BY <2>2, <2>3
<1>4. TypeOK'
  BY <1>1, <1>3 DEF DriverInv, TypeOK
<1>5. AttemptInv'
  BY <1>1, <1>2 DEF DriverInv, AttemptInv
<1>6. LimitInv' /\ CrashInv'
  BY <1>1 DEF LimitInv, CrashInv
<1>7. QED
  BY <1>2, <1>3, <1>4, <1>5, <1>6 DEF DriverInv

\* One result is judged: a failure costs a retry and the test is to be started
\* again, anything else is final.
LEMMA UpdateResultKeeps == ASSUME DriverInv, UpdateResult PROVE DriverInv'
<1> DEFINE r == Head(results)
           x == r.test
<1>1. /\ pc = "update" /\ pc' = "update" /\ results # <<>> /\ results' = Tail(results)
      /\ UNCHANGED <<ret, todo, stack, fails, runErr, attempts, crashed>>
      /\ \/ /\ r.failed /\ retries[x] > 0
            /\ retries' = [retries EXCEPT ![x] = @ - 1]
            /\ UNCHANGED <<allResults, unstarted>>
         \/ /\ ~(r.failed /\ retries[x] > 0)
            /\ allResults' = Append(allResults, r) /\ unstarted' = unstarted \ {x}
            /\ UNCHANGED retries
  BY DEF UpdateResult
<1>2. /\ results \in ResultSeq /\ Distinct(results) /\ stack = <<>> /\ ret = "none"
      /\ Waiting = ResultsOf(results) /\ Waiting' = ResultsOf(results')
      /\ ResultsOf(results) \subseteq unstarted /\ unstarted \subseteq AllTests
      /\ allResults \in ResultSeq /\ Distinct(allResults)
      /\ ResultsOf(allResults) = AllTests \ unstarted
      /\ retries \in [AllTests -> 0 .. retryn] /\ attempts \in [AllTests -> Nat]
  <2>1. stack = <<>> /\ stack' = <<>>
    BY <1>1 DEF DriverInv, AttemptInv
  <2>2. Waiting = ResultsOf(results) /\ Waiting' = ResultsOf(results')
    BY <2>1, NoResults DEF Waiting
  <2>3. QED
    BY <1>1, <2>1, <2>2 DEF DriverInv, TypeOK, AttemptInv, LoopInv
<1>3. /\ r \in [test : AllTests, failed : BOOLEAN] /\ results' \in ResultSeq
      /\ x \in ResultsOf(results) /\ ResultsOf(results') = ResultsOf(results) \ {x}
      /\ Distinct(results')
  BY <1>1, <1>2, TakeFirst, ZenonT(30) DEF ResultSeq
<1>4. x \in AllTests /\ x \in unstarted /\ x \in Waiting /\ x \notin ResultsOf(allResults)
  BY <1>2, <1>3
<1> HIDE DEF r, x
<1>5. CASE r.failed /\ retries[x] > 0
  <2>1. retries' = [retries EXCEPT ![x] = @ - 1] /\ UNCHANGED <<allResults, unstarted>>
    BY <1>1, <1>5
  <2>2. /\ retries' \in [AllTests -> 0 .. retryn]
        /\ \A t \in AllTests : retries'[t] = IF t = x THEN retries[t] - 1 ELSE retries[t]
    BY <1>2, <1>4, <1>5, <2>1, ConstantAssumption
  <2>3. TypeOK'
    BY <1>1, <1>3, <2>1, <2>2 DEF DriverInv, TypeOK
  <2>4. LoopInv'
    <3>1. \A k \in DOMAIN allResults : allResults[k].test # x
      BY <1>4 DEF ResultsOf
    <3>2. \A k \in DOMAIN allResults : allResults[k].test \in AllTests
      BY <1>2 DEF ResultsOf
    <3>3. \A k \in DOMAIN allResults :
              retries'[allResults[k].test] = retries[allResults[k].test]
      BY <2>2, <3>1, <3>2
    <3>4. QED
      BY <1>1, <1>2, <2>1, <3>3 DEF DriverInv, LoopInv, Distinct, ResultsOf
  <2>5. CountInv'
    <3> SUFFICES ASSUME NEW t \in AllTests
                 PROVE  attempts'[t] + retries'[t] =
                          IF t \in unstarted' /\ t \notin Waiting' THEN retryn ELSE retryn + 1
      BY DEF CountInv
    <3>1. attempts[t] \in Nat /\ retries[t] \in Nat /\ attempts'[t] = attempts[t]
      BY <1>1, <1>2, ConstantAssumption
    <3>2. attempts[t] + retries[t] =
              IF t \in unstarted /\ t \notin Waiting THEN retryn ELSE retryn + 1
      BY DEF DriverInv, CountInv
    <3>3. CASE t = x
      <4>1. t \in unstarted' /\ t \notin Waiting' /\ t \in Waiting
        BY <1>2, <1>3, <1>4, <2>1, <3>3
      <4>2. QED
        BY <1>5, <2>2, <3>1, <3>2, <3>3, <4>1, ConstantAssumption
    <3>4. CASE t # x
      BY <1>2, <1>3, <2>1, <2>2, <3>1, <3>2, <3>4
    <3>5. QED
      BY <3>3, <3>4
  <2>6. QED
    <3>1. AttemptInv'
      BY <1>1, <1>2, <1>3, <2>1, NoResults DEF DriverInv, AttemptInv
    <3>2. LimitInv' /\ CrashInv'
      BY <1>1 DEF LimitInv, CrashInv
    <3>3. QED
      BY <2>3, <2>4, <2>5, <3>1, <3>2 DEF DriverInv
<1>6. CASE ~(r.failed /\ retries[x] > 0)
  <2>1. allResults' = Append(allResults, r) /\ unstarted' = unstarted \ {x} /\ retries' = retries
    BY <1>1, <1>6
  <2>2. /\ allResults' \in ResultSeq /\ Distinct(allResults')
        /\ ResultsOf(allResults') = ResultsOf(allResults) \cup {x}
        /\ \A k \in DOMAIN allResults' :
              allResults'[k] = r \/ (k \in DOMAIN allResults /\ allResults'[k] = allResults[k])
    <3>1. r.test = x
      BY DEF x
    <3>2. r.test \notin ResultsOf(allResults)
      BY <1>4, <3>1
    <3>3. QED
      BY <1>2, <1>3, <2>1, <3>1, <3>2, AppendResult
  <2>3. TypeOK'
    BY <1>1, <1>2, <1>3, <2>1, <2>2 DEF DriverInv, TypeOK
  <2>4. LoopInv'
    <3>1. r.failed => retries[x] = 0
      BY <1>2, <1>4, <1>6, ConstantAssumption
    <3>2. \A k \in DOMAIN allResults' :
              allResults'[k].failed => retries'[allResults'[k].test] = 0
      BY <1>2, <2>1, <2>2, <3>1 DEF DriverInv, LoopInv, x
    <3>3. ResultsOf(allResults') = AllTests \ unstarted'
      BY <1>2, <1>4, <2>1, <2>2
    <3>4. QED
      BY <1>1, <1>2, <2>2, <3>2, <3>3 DEF LoopInv, Distinct, ResultsOf
  <2>5. CountInv'
    <3> SUFFICES ASSUME NEW t \in AllTests
                 PROVE  attempts'[t] + retries'[t] =
                          IF t \in unstarted' /\ t \notin Waiting' THEN retryn ELSE retryn + 1
      BY DEF CountInv
    <3>1. attempts'[t] = attempts[t] /\ retries'[t] = retries[t]
      BY <1>1, <2>1
    <3>2. attempts[t] + retries[t] =
              IF t \in unstarted /\ t \notin Waiting THEN retryn ELSE retryn + 1
      BY DEF DriverInv, CountInv
    <3>3. t \in unstarted' /\ t \notin Waiting' <=> t \in unstarted /\ t \notin Waiting
      BY <1>2, <1>3, <1>4, <2>1
    <3>4. QED
      BY <3>1, <3>2, <3>3
  <2>6. QED
    <3>1. AttemptInv'
      BY <1>1, <1>2, <1>3, <2>1, NoResults DEF DriverInv, AttemptInv
    <3>2. LimitInv' /\ CrashInv'
      BY <1>1 DEF LimitInv, CrashInv
    <3>3. QED
      BY <2>3, <2>4, <2>5, <3>1, <3>2 DEF DriverInv
<1>7. QED
  BY <1>5, <1>6

\* The loop returns when every test is judged.
LEMMA LoopAgainKeeps == ASSUME DriverInv, LoopAgain PROVE DriverInv'
<1>1. /\ pc = "update" /\ results = <<>>
      /\ \/ unstarted = {} /\ pc' = "returned" /\ ret' = "nil"
         \/ pc' = "attempt" /\ ret' = ret
      /\ UNCHANGED <<unstarted, retries, allResults, todo, stack, results, fails, runErr,
                      attempts, crashed>>
  BY DEF LoopAgain, procVars
<1>2. TypeOK'
  BY <1>1 DEF DriverInv, TypeOK
<1>3. /\ Waiting' = Waiting
      /\ ResultsOf(results)' = ResultsOf(results) /\ ResultsOf(stack)' = ResultsOf(stack)
      /\ CountInv'
      /\ Distinct(results)' /\ Distinct(stack)' /\ Distinct(allResults)'
  BY <1>1, AccountsKept
<1>4. LoopInv'
  BY <1>1, <1>3 DEF DriverInv, LoopInv, ResultsOf
<1>5. AttemptInv'
  BY <1>1, <1>3 DEF DriverInv, AttemptInv
<1>6. LimitInv' /\ CrashInv'
  BY <1>1 DEF LimitInv, CrashInv
<1>7. QED
  BY <1>2, <1>3, <1>4, <1>5, <1>6 DEF DriverInv

\* A step that changes nothing.
LEMMA StutterKeeps == ASSUME DriverInv, UNCHANGED vars PROVE DriverInv'
<1>1. UNCHANGED <<pc, unstarted, retries, allResults, ret, todo, stack, results, fails,
                   runErr, attempts, crashed>>
  BY DEF vars, loopVars, procVars
<1>2. TypeOK'
  BY <1>1 DEF DriverInv, TypeOK
<1>3. /\ Waiting' = Waiting
      /\ ResultsOf(results)' = ResultsOf(results) /\ ResultsOf(stack)' = ResultsOf(stack)
      /\ CountInv'
      /\ Distinct(results)' /\ Distinct(stack)' /\ Distinct(allResults)'
  BY <1>1, AccountsKept
<1>4. LoopInv'
  BY <1>1, <1>3 DEF DriverInv, LoopInv, ResultsOf
<1>5. AttemptInv'
  BY <1>1, <1>3 DEF DriverInv, AttemptInv
<1>6. LimitInv' /\ CrashInv'
  BY <1>1 DEF DriverInv, LimitInv, CrashInv, LimitReached
<1>7. QED
  BY <1>2, <1>3, <1>4, <1>5, <1>6 DEF DriverInv

-----------------------------------------------------------------------------
\* The accounts are right before the first attempt, and every step keeps them.
THEOREM InvariantHolds == Spec => []DriverInv
<1>1. Init => DriverInv
  <2> SUFFICES ASSUME Init PROVE DriverInv
    OBVIOUS
  <2>1. TypeOK
    BY ConstantAssumption DEF Init, TypeOK, ResultSeq
  <2>2. Waiting = {}
    BY NoResults DEF Init, Waiting
  <2>3. LoopInv /\ AttemptInv
    BY <2>2, NoResults DEF Init, LoopInv, AttemptInv
  <2>4. CountInv
    BY <2>2, ConstantAssumption DEF Init, CountInv
  <2>5. LimitInv /\ CrashInv
    BY DEF Init, LimitInv, CrashInv
  <2>6. QED
    BY <2>1, <2>3, <2>4, <2>5 DEF DriverInv
<1>2. DriverInv /\ [Next]_vars => DriverInv'
  BY EnsureConnFailsKeeps, StartAttemptKeeps, EntityStartKeeps, EntityErrorKeeps,
     EntityEndKeeps, EOFKeeps, BundleCrashesKeeps, EndOrphanKeeps, AttemptDoneKeeps,
     UpdateResultKeeps, LoopAgainKeeps, StutterKeeps
     DEF Next, BundleNext
<1>3. QED
  BY <1>1, <1>2, PTL DEF Spec

\* RunTestsWithRetry returns at most one result for each test, one for every test
\* if it returns no error, a failure only when the retries are used up or the run
\* was stopped, and starts no test more often than retryn + 1 times.
THEOREM ResultsCompleteHolds == Spec => []ResultsComplete
<1>1. DriverInv => ResultsComplete
  <2> SUFFICES ASSUME DriverInv PROVE ResultsComplete
    OBVIOUS
  <2>1. /\ attempts \in [AllTests -> Nat] /\ retries \in [AllTests -> 0 .. retryn]
        /\ allResults \in ResultSeq
    BY DEF DriverInv, TypeOK
  <2>2. \A t \in AllTests : attempts[t] <= retryn + 1
    <3> SUFFICES ASSUME NEW t \in AllTests PROVE attempts[t] <= retryn + 1
      OBVIOUS
    <3>1. attempts[t] \in Nat /\ retries[t] \in Nat
      BY <2>1, ConstantAssumption
    <3>2. attempts[t] + retries[t] =
              IF t \in unstarted /\ t \notin Waiting THEN retryn ELSE retryn + 1
      BY DEF DriverInv, CountInv
    <3>3. QED
      BY <3>1, <3>2, ConstantAssumption
  <2>3. ASSUME ret # "fatal", NEW k \in DOMAIN allResults, allResults[k].failed
        PROVE  attempts[allResults[k].test] = retryn + 1
    <3> DEFINE t == allResults[k].test
    <3>1. t \in ResultsOf(allResults)
      BY DEF ResultsOf
    <3>2. t \in AllTests /\ t \notin unstarted /\ retries[t] = 0
      BY <2>3, <3>1 DEF DriverInv, LoopInv
    <3> HIDE DEF t
    <3>3. attempts[t] + retries[t] = retryn + 1 /\ attempts[t] \in Nat
      BY <2>1, <3>2 DEF DriverInv, CountInv
    <3>4. QED
      BY <3>2, <3>3 DEF t
  <2>4. ret = "nil" => ResultsOf(allResults) = AllTests
    BY DEF DriverInv, LoopInv
  <2>5. QED
    BY <2>2, <2>3, <2>4 DEF ResultsComplete, DriverInv, LoopInv, Distinct
<1>2. QED
  BY <1>1, InvariantHolds, PTL

\* When RunEnd is through, every test the bundle started in the attempt has a
\* result, and the ones a crash cut off have failed.
THEOREM StartedHaveResultsHolds == Spec => []StartedHaveResults
<1>1. DriverInv => StartedHaveResults
  BY NoResults DEF DriverInv, StartedHaveResults, AttemptInv, Waiting, CrashInv
<1>2. QED
  BY <1>1, InvariantHolds, PTL

\* A test starts only while the count of failures is below the limit.
THEOREM NoStartAfterLimitHolds == Spec => NoStartAfterLimit
<1>1. DriverInv /\ [Next]_vars => [attempts' # attempts => ~LimitReached(fails)]_vars
  <2> SUFFICES ASSUME DriverInv, [Next]_vars, attempts' # attempts
               PROVE  ~LimitReached(fails)
    OBVIOUS
  <2>1. pc = "run"
    BY ZenonT(30) DEF Next, BundleNext, vars, EnsureConnFails, StartAttempt,
                      EntityStart, EntityError, EntityEnd, EOF, BundleCrashes,
                      EndOrphan, AttemptDone, UpdateResult, LoopAgain
  <2>2. QED
    BY <2>1 DEF DriverInv, LimitInv
<1>2. QED
  BY <1>1, InvariantHolds, PTL DEF Spec, NoStartAfterLimit
=============================================================================
