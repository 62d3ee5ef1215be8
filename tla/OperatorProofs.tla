--------------------------- MODULE OperatorProofs ---------------------------
(***************************************************************************)
(* What the operators return that several modules are built from, for every *)
(* argument: the operations of a fixture stack, and the shards of a list of *)
(* tests.                                                                  *)
(***************************************************************************)
EXTENDS InternalStack, Sharding, WellFoundedInduction, SequenceTheorems, TLAPS

(* InternalStack: what an operation returns and preserves, for every stack, *)
(* set of fixtures and set of errors.                                       *)

\* A non-empty set of natural numbers has a least element.
LEMMA LeastElement ==
    ASSUME NEW T \in SUBSET Nat, T # {}
    PROVE  \E m \in T : \A y \in T : m <= y
<1> DEFINE R == OpToRel(<, Nat)
<1>1. IsWellFoundedOn(R, Nat)
  BY NatLessThanWellFounded, ZenonT(30)
<1>2. PICK m \in T : \A y \in T : ~ (<<y, m>> \in R)
  <2> HIDE DEF R
  <2> QED  BY <1>1, WFMin, ZenonT(30)
<1>3. \A y \in T : y < m => <<y, m>> \in R
  BY DEF OpToRel
<1>4. \A y \in T : ~ (y < m)
  <2> HIDE DEF R
  <2> QED  BY <1>2, <1>3, Zenon
<1>5. m \in T
  BY <1>2, ZenonT(30)
<1> HIDE DEF R
<1> QED  BY <1>4, <1>5

\* The search from the bottom of the stack finds what there is.
LEMMA BottomMostFound ==
    ASSUME NEW s \in Seq(StatefulFixture), NEW statuses,
           \E i \in DOMAIN s : s[i].status \in statuses
    PROVE  /\ BottomMost(s, statuses) \in DOMAIN s
           /\ s[BottomMost(s, statuses)].status \in statuses
           /\ \A j \in 1 .. BottomMost(s, statuses) - 1 :
                  s[j].status \notin statuses
<1> DEFINE T == {i \in DOMAIN s : s[i].status \in statuses}
<1>1. T \subseteq Nat /\ T # {}
  BY LenProperties
<1>2. PICK m \in T : \A y \in T : m <= y
  <2> HIDE DEF T
  <2> QED  BY <1>1, LeastElement
<1>3. /\ m \in DOMAIN s
      /\ s[m].status \in statuses
      /\ \A j \in 1 .. m - 1 : s[j].status \notin statuses
  BY <1>2, LenProperties
<1> QED  BY <1>3, ZenonT(30) DEF BottomMost

\* Every fixture of a stack has one of the three statuses.
LEMMA StatusesOfFixtures ==
    ASSUME NEW s \in Seq(StatefulFixture)
    PROVE  \A i \in DOMAIN s : s[i].status \in Statuses
<1>1. \A i \in DOMAIN s : s[i] \in StatefulFixture
  BY LenProperties
<1> QED  BY <1>1 DEF StatefulFixture

\* The status of a stack is green exactly when every fixture is.
LEMMA StatusGreen ==
    ASSUME NEW s \in Seq(StatefulFixture)
    PROVE  /\ Status(s) \in Statuses
           /\ Status(s) = "green" <=> \A i \in DOMAIN s : s[i].status = "green"
<1>1. \A i \in DOMAIN s : s[i].status \in Statuses
  BY StatusesOfFixtures
<1>2. CASE \A i \in DOMAIN s : s[i].status = "green"
  BY <1>2 DEF Status, Statuses
<1>3. CASE ~ \A i \in DOMAIN s : s[i].status = "green"
  <2>1. \E i \in DOMAIN s : s[i].status \in {"red", "yellow"}
    BY <1>1, <1>3 DEF Statuses
  <2>2. s[BottomMost(s, {"red", "yellow"})].status \in {"red", "yellow"}
    BY <2>1, BottomMostFound
  <2> QED  BY <1>3, <2>2 DEF Status, Statuses
<1> QED  BY <1>2, <1>3

\* In a stack of the documented shape the three statuses mean what the
\* comment of type InternalStack says: all fixtures are green, some fixture
\* is yellow, some fixture is red.
LEMMA StatusMeaning ==
    ASSUME NEW s \in Seq(StatefulFixture), Shape(s)
    PROVE  /\ Status(s) = "green" <=> \A i \in DOMAIN s : s[i].status = "green"
           /\ Status(s) = "yellow" <=> \E i \in DOMAIN s : s[i].status = "yellow"
           /\ Status(s) = "red" <=> \E i \in DOMAIN s : s[i].status = "red"
<1> DEFINE b == BottomMost(s, {"red", "yellow"})
<1>1. CASE Status(s) = "green"
  BY <1>1, StatusGreen
<1>2. CASE Status(s) # "green"
  <2>1. \A i \in DOMAIN s : s[i].status \in Statuses
    BY StatusesOfFixtures
  <2>2. \E i \in DOMAIN s : s[i].status \in {"red", "yellow"}
    BY <1>2, <2>1, StatusGreen DEF Statuses
  <2>3. b \in DOMAIN s /\ s[b].status \in {"red", "yellow"}
    BY <2>2, BottomMostFound
  <2>4. Status(s) = s[b].status
    BY <1>2 DEF Status
  <2>5. \A i, j \in DOMAIN s : s[i].status = "yellow" => s[j].status # "red"
    BY DEF Shape, NoRedWithYellow
  <2> HIDE DEF b
  <2> QED  BY <1>2, <2>3, <2>4, <2>5, StatusGreen
<1> QED  BY <1>1, <1>2

\* There is an error for a red stack exactly when the bottom-most red fixture
\* has one.
LEMMA ExplainedMeaning ==
    ASSUME NEW s \in Seq(StatefulFixture), Shape(s)
    PROVE  Explained(s) <=>
             \A i \in DOMAIN s :
                 /\ s[i].status = "red"
                 /\ \A j \in 1 .. i - 1 : s[j].status # "red"
                 => s[i].errs # {}
<1>1. CASE \A i \in DOMAIN s : s[i].status # "red"
  BY <1>1, StatusMeaning DEF Explained
<1>2. CASE \E i \in DOMAIN s : s[i].status = "red"
  <2> DEFINE b == BottomMost(s, {"red"})
  <2>1. /\ b \in DOMAIN s
        /\ s[b].status = "red"
        /\ \A j \in 1 .. b - 1 : s[j].status # "red"
    BY <1>2, BottomMostFound
  <2>2. Explained(s) <=> s[b].errs # {}
    BY <1>2, StatusMeaning DEF Explained, Errors
  <2>3. ASSUME NEW i \in DOMAIN s, s[i].status = "red",
               \A j \in 1 .. i - 1 : s[j].status # "red"
        PROVE  i = b
    <3> HIDE DEF b
    <3>1. i \in Nat /\ b \in Nat /\ i >= 1 /\ b >= 1
      BY <2>1, LenProperties
    <3> QED  BY <2>1, <2>3, <3>1
  <2> HIDE DEF b
  <2> QED  BY <2>1, <2>2, <2>3
<1> QED  BY <1>1, <1>2

\* What SetUp makes of a fixture that has just been pushed: green without an
\* error, or red with one.
LEMMA RunSetUpResult ==
    ASSUME NEW f \in Fixtures, NEW es \in SUBSET Errs
    PROVE  LET sf == RunSetUp(newStatefulFixture(f), es)
           IN  /\ sf \in StatefulFixture
               /\ sf.status = "green" \/ (sf.status = "red" /\ sf.errs # {})
BY DEF RunSetUp, newStatefulFixture, StatefulFixture, Statuses

\* Adding a fixture sf on top of a stack that is not yellow keeps the shape,
\* if sf is red or (on a green stack) green; and keeps red explained, if the
\* stack was red or sf brings its own error.
LEMMA AppendPreserves ==
    ASSUME NEW s \in Seq(StatefulFixture), NEW sf \in StatefulFixture,
           Shape(s), Status(s) # "yellow",
           sf.status = "red" \/ (Status(s) = "green" /\ sf.status = "green")
    PROVE  /\ Append(s, sf) \in Seq(StatefulFixture)
           /\ Len(Append(s, sf)) = Len(s) + 1
           /\ Shape(Append(s, sf))
           /\ Status(Append(s, sf)) # "yellow"
           /\ (Status(s) = "red" \/ sf.status = "green" \/ sf.errs # {})
              => (Explained(s) => Explained(Append(s, sf)))
<1> DEFINE t == Append(s, sf)
<1>1. /\ t \in Seq(StatefulFixture)
      /\ Len(t) = Len(s) + 1
      /\ \A i \in 1 .. Len(s) : t[i] = s[i]
      /\ t[Len(s) + 1] = sf
      /\ DOMAIN t = 1 .. Len(s) + 1
      /\ DOMAIN s = 1 .. Len(s)
      /\ Len(s) \in Nat
  BY AppendProperties, LenProperties
<1>2. \A i \in DOMAIN s : s[i].status \in {"green", "red"}
  BY StatusMeaning, StatusesOfFixtures DEF Statuses
<1>3. \A i \in DOMAIN t : t[i].status \in {"green", "red"}
  BY <1>1, <1>2
<1> HIDE DEF t
<1>4. Shape(t)
  <2>1. NoRedWithYellow(t)
    BY <1>3 DEF NoRedWithYellow
  <2>2. ASSUME NEW i \in DOMAIN t, NEW j \in DOMAIN t,
               i < j, t[j].status = "green"
        PROVE  t[i].status = "green"
    <3>1. CASE j = Len(s) + 1
      <4>1. Status(s) = "green"
        BY <1>1, <2>2, <3>1
      <4>2. \A k \in DOMAIN s : s[k].status = "green"
        BY <4>1, StatusGreen
      <4> QED  BY <1>1, <2>2, <3>1, <4>2
    <3>2. CASE j # Len(s) + 1
      <4>1. i \in DOMAIN s /\ j \in DOMAIN s /\ t[i] = s[i] /\ t[j] = s[j]
        BY <1>1, <2>2, <3>2
      <4>2. \A k \in DOMAIN s : s[k].status # "yellow"
        BY <1>2
      <4> QED  BY <2>2, <4>1, <4>2 DEF Shape, GreenBelowRed
    <3> QED  BY <3>1, <3>2
  <2> QED  BY <2>1, <2>2 DEF Shape, GreenBelowRed
<1>5. ASSUME Status(s) = "red" \/ sf.status = "green" \/ sf.errs # {},
             Explained(s)
      PROVE  Explained(t)
  <2> SUFFICES ASSUME NEW i \in DOMAIN t, t[i].status = "red",
                      \A j \in 1 .. i - 1 : t[j].status # "red"
               PROVE  t[i].errs # {}
    BY <1>1, <1>4, ExplainedMeaning, ZenonT(30)
  <2>1. CASE i \in DOMAIN s
    <3>1. \A j \in 1 .. i - 1 : s[j].status # "red"
      BY <1>1, <2>1
    <3>2. s[i].status = "red" /\ t[i] = s[i]
      BY <1>1, <2>1
    <3> QED  BY <1>5, <2>1, <3>1, <3>2, ExplainedMeaning
  <2>2. CASE i = Len(s) + 1
    <3>1. \A k \in DOMAIN s : s[k].status # "red"
      BY <1>1, <2>2
    <3>2. Status(s) # "red"
      BY <3>1, StatusMeaning
    <3> QED  BY <1>1, <1>5, <2>2, <3>2
  <2> QED  BY <1>1, <2>1, <2>2
<1>6. Status(t) # "yellow"
  BY <1>1, <1>3, <1>4, StatusMeaning
<1> QED  BY <1>1, <1>4, <1>5, <1>6 DEF t

\* Push keeps the documented shape, adds one fixture, and leaves an error to
\* report whenever the stack ends up red.  It makes no stack yellow.
LEMMA PushPreserves ==
    ASSUME NEW s \in Seq(StatefulFixture), NEW f \in Fixtures,
           NEW es \in SUBSET Errs, Shape(s), Status(s) # "yellow"
    PROVE  /\ Push(s, f, es) \in Seq(StatefulFixture)
           /\ Len(Push(s, f, es)) = Len(s) + 1
           /\ Shape(Push(s, f, es))
           /\ Status(Push(s, f, es)) # "yellow"
           /\ Explained(s) => Explained(Push(s, f, es))
<1> DEFINE sf == IF Status(s) = "green"
                 THEN RunSetUp(newStatefulFixture(f), es)
                 ELSE newStatefulFixture(f)
<1>1. /\ sf \in StatefulFixture
      /\ sf.status = "red" \/ (Status(s) = "green" /\ sf.status = "green")
      /\ Status(s) = "red" \/ sf.status = "green" \/ sf.errs # {}
  <2>1. CASE Status(s) = "green"
    BY <2>1, RunSetUpResult
  <2>2. CASE Status(s) # "green"
    <3>1. Status(s) = "red"
      BY <2>2, StatusGreen DEF Statuses
    <3> QED  BY <3>1 DEF newStatefulFixture, StatefulFixture, Statuses
  <2> QED  BY <2>1, <2>2
<1>2. Push(s, f, es) = Append(s, sf)
  BY DEF Push
<1> HIDE DEF sf
<1> QED  BY <1>1, <1>2, AppendPreserves

\* A Push whose SetUp is abandoned keeps the documented shape.
LEMMA PushAbandonedPreserves ==
    ASSUME NEW s \in Seq(StatefulFixture), NEW f \in Fixtures,
           Shape(s), Status(s) = "green"
    PROVE  /\ PushAbandoned(s, f) \in Seq(StatefulFixture)
           /\ Len(PushAbandoned(s, f)) = Len(s) + 1
           /\ Shape(PushAbandoned(s, f))
           /\ Status(PushAbandoned(s, f)) # "yellow"
<1>1. newStatefulFixture(f) \in StatefulFixture /\ newStatefulFixture(f).status = "red"
  BY DEF newStatefulFixture, StatefulFixture, Statuses
<1> QED  BY <1>1, AppendPreserves DEF PushAbandoned

\* Pop keeps the documented shape and the errors of a stack that is still
\* red; what was red cannot become yellow, nor yellow red.
LEMMA PopPreserves ==
    ASSUME NEW s \in Seq(StatefulFixture), s # <<>>, Shape(s)
    PROVE  /\ Pop(s) \in Seq(StatefulFixture)
           /\ Len(Pop(s)) = Len(s) - 1
           /\ Shape(Pop(s))
           /\ Explained(s) => Explained(Pop(s))
           /\ Status(s) = "red" => Status(Pop(s)) # "yellow"
           /\ Status(s) = "yellow" => Status(Pop(s)) # "red"
<1> DEFINE t == Pop(s)
<1>1. /\ t \in Seq(StatefulFixture)
      /\ Len(t) = Len(s) - 1
      /\ \A i \in 1 .. Len(s) - 1 : t[i] = s[i]
      /\ DOMAIN t = 1 .. Len(s) - 1
      /\ DOMAIN s = 1 .. Len(s)
      /\ Len(s) \in Nat
  <2>1. Len(s) \in Nat /\ Len(s) >= 1 /\ DOMAIN s = 1 .. Len(s)
    BY LenProperties, EmptySeq
  <2> QED  BY <2>1, SubSeqProperties, LenProperties DEF Pop
<1> HIDE DEF t
<1>2. \A i \in DOMAIN t : i \in DOMAIN s /\ t[i] = s[i]
  BY <1>1
<1>3. NoRedWithYellow(t)
  BY <1>2 DEF Shape, NoRedWithYellow
<1>4. GreenBelowRed(t)
  <2> SUFFICES ASSUME NEW i \in DOMAIN t, NEW j \in DOMAIN t,
                      i < j, t[j].status = "green", t[i].status # "yellow"
               PROVE  t[i].status = "green"
    BY DEF GreenBelowRed
  <2>1. CASE \A k \in DOMAIN s : s[k].status # "yellow"
    BY <1>2, <2>1 DEF Shape, GreenBelowRed
  <2>2. CASE \E k \in DOMAIN s : s[k].status = "yellow"
    BY <1>2, <2>2, StatusesOfFixtures DEF Shape, NoRedWithYellow, Statuses
  <2> QED  BY <2>1, <2>2
<1>5. Shape(t)
  BY <1>3, <1>4 DEF Shape
<1>6. ASSUME Explained(s) PROVE Explained(t)
  <2> SUFFICES ASSUME NEW i \in DOMAIN t, t[i].status = "red",
                      \A j \in 1 .. i - 1 : t[j].status # "red"
               PROVE  t[i].errs # {}
    BY <1>1, <1>5, ExplainedMeaning, ZenonT(30)
  <2>1. \A j \in 1 .. i - 1 : s[j].status # "red"
    BY <1>1
  <2> QED  BY <1>2, <1>6, <2>1, ExplainedMeaning
<1>7. Status(s) = "red" => Status(t) # "yellow"
  BY <1>1, <1>2, <1>5, StatusMeaning, ZenonT(30) DEF Shape, NoRedWithYellow
<1>8. Status(s) = "yellow" => Status(t) # "red"
  BY <1>1, <1>2, <1>5, StatusMeaning, ZenonT(30) DEF Shape, NoRedWithYellow
<1> QED  BY <1>1, <1>5, <1>6, <1>7, <1>8 DEF t

\* Reset of a green stack leaves at most one fixture yellow and the others
\* green.
LEMMA ResetPreserves ==
    ASSUME NEW s \in Seq(StatefulFixture), NEW k \in 0 .. Len(s),
           Status(s) = "green"
    PROVE  /\ Reset(s, k) \in Seq(StatefulFixture)
           /\ Len(Reset(s, k)) = Len(s)
           /\ Shape(Reset(s, k))
           /\ Explained(Reset(s, k))
<1> DEFINE t == Reset(s, k)
<1>1. DOMAIN s = 1 .. Len(s) /\ Len(s) \in Nat
  BY LenProperties
<1>2. \A i \in DOMAIN s : s[i] \in StatefulFixture /\ s[i].status = "green"
  BY StatusGreen, LenProperties
<1>3. /\ DOMAIN t = 1 .. Len(s)
      /\ \A i \in 1 .. Len(s) : t[i] \in StatefulFixture
      /\ \A i \in 1 .. Len(s) : t[i].status \in {"green", "yellow"}
  BY <1>1, <1>2 DEF Reset, StatefulFixture, Statuses
<1>4. t \in Seq(StatefulFixture) /\ Len(t) = Len(s)
  <2>1. t \in [1 .. Len(s) -> StatefulFixture]
    BY <1>1, <1>3 DEF Reset
  <2> HIDE DEF t
  <2> QED  BY <1>1, <2>1, LenProperties
<1> HIDE DEF t
<1>5. Shape(t)
  BY <1>3 DEF Shape, NoRedWithYellow, GreenBelowRed
<1>6. Explained(t)
  BY <1>3, <1>4, <1>5, StatusMeaning DEF Explained
<1> QED  BY <1>4, <1>5, <1>6 DEF t

\* After a Reset the stack is green if every fixture was reset, and yellow if one
\* was not.
LEMMA ResetStatus ==
    ASSUME NEW s \in Seq(StatefulFixture), NEW k \in 0 .. Len(s),
           Status(s) = "green"
    PROVE  Status(Reset(s, k)) = IF k = Len(s) THEN "green" ELSE "yellow"
<1> DEFINE t == Reset(s, k)
<1>1. DOMAIN s = 1 .. Len(s) /\ Len(s) \in Nat
  BY LenProperties
<1>2. \A i \in DOMAIN s : s[i] \in StatefulFixture /\ s[i].status = "green"
  BY StatusGreen, LenProperties
<1>3. /\ DOMAIN t = 1 .. Len(s)
      /\ \A i \in 1 .. Len(s) : t[i].status = IF i = k + 1 THEN "yellow" ELSE "green"
  BY <1>1, <1>2 DEF Reset, StatefulFixture
<1>4. t \in Seq(StatefulFixture) /\ Shape(t)
  BY ResetPreserves
<1> HIDE DEF t
<1>5. CASE k = Len(s)
  <2>1. \A i \in DOMAIN t : t[i].status = "green"
    BY <1>1, <1>3, <1>5
  <2> QED  BY <1>4, <1>5, <2>1, StatusMeaning DEF t
<1>6. CASE k # Len(s)
  <2>1. \A n \in Nat : k \in 0 .. n /\ k # n => k + 1 \in 1 .. n
    OBVIOUS
  <2>2. k + 1 \in 1 .. Len(s)
    BY <1>1, <1>6, <2>1, ZenonT(30)
  <2>3. k + 1 \in DOMAIN t /\ t[k + 1].status = "yellow"
    BY <1>3, <2>2
  <2> QED  BY <1>4, <1>6, <2>3, StatusMeaning DEF t
<1> QED  BY <1>5, <1>6

\* Pop makes no stack yellow.
LEMMA PopStatus ==
    ASSUME NEW s \in Seq(StatefulFixture), s # <<>>, Shape(s), Status(s) # "yellow"
    PROVE  Status(Pop(s)) # "yellow"
<1> DEFINE t == Pop(s)
<1>1. /\ t \in Seq(StatefulFixture) /\ Shape(t) /\ Len(t) = Len(s) - 1
      /\ DOMAIN s = 1 .. Len(s) /\ Len(s) \in Nat /\ DOMAIN t = 1 .. Len(t)
  BY PopPreserves, LenProperties
<1>2. \A i \in DOMAIN t : i \in DOMAIN s /\ t[i] = s[i]
  BY <1>1 DEF Pop
<1> HIDE DEF t
<1>3. \A i \in DOMAIN t : t[i].status # "yellow"
  BY <1>2, StatusMeaning
<1> QED  BY <1>1, <1>3, StatusMeaning DEF t

-----------------------------------------------------------------------------
(* Sharding: the shards partition the list, for every number of tests and    *)
(* of shards.                                                                *)

\* The shards together have room for all tests.
LEMMA SpanCovers ==
    ASSUME NEW n \in Nat, NEW k \in Nat \ {0}
    PROVE  /\ ShardSpan(n, k) \in Nat
           /\ n <= k * ShardSpan(n, k)
<1>1. /\ n \div k \in Nat /\ n % k \in 0 .. k - 1
      /\ n = k * (n \div k) + (n % k)
  OBVIOUS
<1>2. k * (n \div k + 1) = k * (n \div k) + k
  BY <1>1
<1> QED  BY <1>1, <1>2 DEF ShardSpan

\* Multiplication by a natural number is monotonic.
LEMMA TimesMonotonic ==
    ASSUME NEW a \in Nat, NEW b \in Nat, NEW s \in Nat, a <= b
    PROVE  a * s <= b * s
<1>1. PICK d \in Nat : b = a + d
  <2>1. b - a \in Nat /\ b = a + (b - a)
    OBVIOUS
  <2> QED  BY <2>1
<1>2. d * s \in Nat
  OBVIOUS
<1>3. b * s = a * s + d * s
  BY <1>1
<1>4. a * s \in Nat
  OBVIOUS
<1> QED  BY <1>2, <1>3, <1>4

\* Every test is in some shard ...
LEMMA AlphaCovers ==
    ASSUME NEW n \in Nat, NEW k \in Nat \ {0}, NEW i \in 0 .. n - 1
    PROVE  \E s \in 0 .. k - 1 : i \in ComputeAlpha(n, s, k)
<1> DEFINE span == ShardSpan(n, k)
<1>1. span \in Nat /\ n <= k * span
  BY SpanCovers
<1>2. span # 0
  BY <1>1
<1> DEFINE s == i \div span
<1>3. /\ s \in Nat /\ i % span \in 0 .. span - 1
      /\ i = span * s + (i % span)
  <2> HIDE DEF span
  <2> QED  BY <1>1, <1>2
<1>4. s < k
  <2>1. SUFFICES ASSUME k <= s PROVE FALSE
    BY <1>3
  <2>2. k * span <= s * span
    <3> HIDE DEF span, s
    <3> QED  BY <2>1, <1>1, <1>3, TimesMonotonic
  <2>3. s * span = span * s /\ s * span \in Nat /\ k * span \in Nat
    <3> HIDE DEF span, s
    <3> QED  BY <1>1, <1>3
  <2> HIDE DEF span, s
  <2> QED  BY <2>2, <2>3, <1>1, <1>3
<1>5. s * span <= i /\ i <= (s + 1) * span - 1
  <2> HIDE DEF span, s
  <2>1. s * span = span * s /\ (s + 1) * span = s * span + span /\ s * span \in Nat
    BY <1>1, <1>3
  <2> QED  BY <2>1, <1>1, <1>3
<1>6. i \in ComputeAlpha(n, s, k)
  <2> HIDE DEF s
  <2> QED  BY <1>3, <1>5 DEF ComputeAlpha
<1> HIDE DEF s
<1> QED  BY <1>3, <1>4, <1>6

\* ... and in no other.
LEMMA AlphaDisjoint ==
    ASSUME NEW n \in Nat, NEW k \in Nat \ {0},
           NEW s \in 0 .. k - 1, NEW t \in 0 .. k - 1, s # t
    PROVE  ComputeAlpha(n, s, k) \cap ComputeAlpha(n, t, k) = {}
<1>1. ASSUME NEW a \in 0 .. k - 1, NEW b \in 0 .. k - 1, a < b,
             NEW i \in ComputeAlpha(n, a, k), i \in ComputeAlpha(n, b, k)
      PROVE  FALSE
  <2> DEFINE span == ShardSpan(n, k)
  <2>1. span \in Nat
    BY SpanCovers
  <2>2. (a + 1) * span <= b * span
    <3> HIDE DEF span
    <3> QED  BY <1>1, <2>1, TimesMonotonic
  <2>3. i \in Int /\ i <= (a + 1) * span - 1 /\ b * span <= i
    BY <1>1 DEF ComputeAlpha
  <2>4. (a + 1) * span \in Int /\ b * span \in Int
    <3> HIDE DEF span
    <3> QED  BY <1>1, <2>1
  <2> HIDE DEF span
  <2> QED  BY <2>2, <2>3, <2>4
<1>2. CASE s < t
  BY <1>1, <1>2
<1>3. CASE t < s
  BY <1>1, <1>3
<1> QED  BY <1>2, <1>3

\* sharding.ComputeAlpha puts every test into exactly one shard.
THEOREM AlphaIsPartition ==
    ASSUME NEW n \in Nat, NEW k \in Nat \ {0}
    PROVE  AlphaPartitions(n, k)
<1>1. SUFFICES ASSUME NEW i \in 0 .. n - 1
               PROVE  \E s \in 0 .. k - 1 : \A t \in 0 .. k - 1 :
                         i \in ComputeAlpha(n, t, k) <=> t = s
  BY ZenonT(30) DEF AlphaPartitions
<1>2. PICK s \in 0 .. k - 1 : i \in ComputeAlpha(n, s, k)
  BY AlphaCovers
<1>3. ASSUME NEW t \in 0 .. k - 1, i \in ComputeAlpha(n, t, k) PROVE t = s
  BY <1>2, <1>3, AlphaDisjoint
<1> QED  BY <1>2, <1>3

\* So does sharding.ComputeHash, whatever the hashes of their names.
THEOREM HashIsPartition ==
    ASSUME NEW n \in Nat, NEW k \in Nat \ {0}, NEW hash, \A i \in 0 .. n - 1 : hash[i] \in Nat
    PROVE  HashPartitions(n, hash, k)
<1>1. SUFFICES ASSUME NEW i \in 0 .. n - 1
               PROVE  \E s \in 0 .. k - 1 : \A t \in 0 .. k - 1 :
                         i \in ComputeHash(n, hash, t, k) <=> t = s
  BY DEF HashPartitions
<1>2. hash[i] % k \in 0 .. k - 1
  OBVIOUS
<1>3. \A t \in 0 .. k - 1 : i \in ComputeHash(n, hash, t, k) <=> t = hash[i] % k
  BY DEF ComputeHash
<1> QED  BY <1>2, <1>3
=============================================================================
