--------------------------- MODULE UserCodeProofs ---------------------------
(***************************************************************************)
(* Two arguments about the code that calls user code.                      *)
(*                                                                         *)
(* The invariants of a fixture stack, for stacks of every height, every    *)
(* set of fixtures and errors, and every order of calls.                   *)
(*                                                                         *)
(* SafeCall, through which a stack calls the fixtures, keeps the promises  *)
(* of CallOutcome.  TokenDecides is inductive together with the types; the *)
(* meaning of what SafeCall returns, that ph is not called late, and the   *)
(* refinement follow from it.                                              *)
(***************************************************************************)
EXTENDS FixtureStack, OperatorProofs

\* TypeOK and the documented shape are not inductive apart: that Push and
\* Reset keep the shape needs the type, and that a pushed fixture has a legal
\* status needs the shape to know what the status of the stack stands for.
IInv == TypeOK /\ StackShape /\ ErrorsExplainRed

\* The empty stack satisfies the inductive invariant.
LEMMA InitIInv == Init => IInv
<1> SUFFICES ASSUME Init PROVE IInv
  OBVIOUS
<1>1. stack = <<>> /\ stack \in Seq(StatefulFixture) /\ DOMAIN stack = {}
  BY EmptySeq DEF Init
<1>2. StackShape
  BY <1>1 DEF StackShape, Shape, NoRedWithYellow, GreenBelowRed
<1>3. Status(stack) = "green"
  BY <1>1 DEF Status
<1>4. TypeOK
  <2>1. Len(stack) = 0
    BY <1>1
  <2>2. Len(stack) <= MaxDepth
    BY <2>1, MaxDepthAssumption
  <2> QED  BY <1>1, <2>2, ZenonT(30) DEF Init, TypeOK, Returns
<1> QED  BY <1>2, <1>3, <1>4 DEF IInv, ErrorsExplainRed, Explained

\* Push of any fixture with any outcome keeps the inductive invariant, and
\* makes no stack yellow.
LEMMA PushStep ==
    ASSUME IInv, NEW f \in Fixtures, PushFixture(f)
    PROVE  IInv' /\ (stack' # stack => /\ Status(stack) # "yellow"
                                       /\ Status(stack') # "yellow")
<1> USE DEF IInv, StackShape, ErrorsExplainRed
<1>1. CASE Refuse("bug") \/ Refuse("io")
  BY <1>1 DEF Refuse, TypeOK, Returns
<1>2. CASE /\ Status(stack) # "yellow"
           /\ \E es \in SUBSET Errs : stack' = Push(stack, f, es)
           /\ ret' = "ok"
           /\ UNCHANGED <<dirty, abandoned>>
  <2>1. PICK es \in SUBSET Errs : stack' = Push(stack, f, es)
    BY <1>2
  <2>2. /\ stack' \in Seq(StatefulFixture)
        /\ Len(stack') = Len(stack) + 1
        /\ Shape(stack')
        /\ Status(stack') # "yellow"
        /\ Explained(stack) => Explained(stack')
    BY <1>2, <2>1, PushPreserves DEF TypeOK
  <2>3. TypeOK'
    BY <1>2, <2>2, MaxDepthAssumption, LenProperties DEF TypeOK, Returns, PushFixture
  <2> QED  BY <1>2, <2>2, <2>3
<1>3. CASE /\ Status(stack) = "green"
           /\ stack' = PushAbandoned(stack, f)
           /\ ret' = "abandoned"
           /\ abandoned' = TRUE
           /\ UNCHANGED dirty
  <2>1. /\ stack' \in Seq(StatefulFixture)
        /\ Len(stack') = Len(stack) + 1
        /\ Shape(stack')
        /\ Status(stack') # "yellow"
    BY <1>3, PushAbandonedPreserves DEF TypeOK
  <2>2. TypeOK'
    BY <1>3, <2>1, MaxDepthAssumption, LenProperties DEF TypeOK, Returns, PushFixture
  <2> QED  BY <1>3, <2>1, <2>2
<1> QED  BY <1>1, <1>2, <1>3, ZenonT(30) DEF PushFixture, Refuse

\* Pop keeps the inductive invariant and follows the status diagram.
LEMMA PopStep ==
    ASSUME IInv, PopFixture
    PROVE  /\ IInv'
           /\ Status(stack) = "red" => Status(stack') # "yellow"
           /\ Status(stack) = "yellow" => Status(stack') # "red"
<1>1. /\ stack' \in Seq(StatefulFixture)
      /\ Len(stack') = Len(stack) - 1
      /\ Shape(stack')
      /\ Explained(stack) => Explained(stack')
      /\ Status(stack) = "red" => Status(stack') # "yellow"
      /\ Status(stack) = "yellow" => Status(stack') # "red"
  BY PopPreserves DEF PopFixture, IInv, TypeOK, StackShape
<1>2. TypeOK'
  <2>1. Len(stack) \in Nat /\ Len(stack) <= MaxDepth
    BY LenProperties DEF IInv, TypeOK
  <2>2. Len(stack') <= MaxDepth
    BY <1>1, <2>1, MaxDepthAssumption
  <2>3. dirty' \in BOOLEAN /\ ret' \in Returns /\ abandoned' \in BOOLEAN
    BY ZenonT(30) DEF PopFixture, IInv, TypeOK, Returns
  <2> QED  BY <1>1, <2>2, <2>3 DEF TypeOK
<1>3. ErrorsExplainRed'
  BY <1>1 DEF PopFixture, IInv, ErrorsExplainRed, TypeOK
<1> QED  BY <1>1, <1>2, <1>3 DEF IInv, StackShape

\* Reset keeps the inductive invariant and changes a green stack only.
LEMMA ResetStep ==
    ASSUME IInv, ResetFixtures
    PROVE  IInv' /\ (stack' # stack => Status(stack) = "green")
<1> USE DEF IInv, StackShape, ErrorsExplainRed
<1>1. CASE /\ Status(stack) = "green"
           /\ \E k \in 0 .. Len(stack) : stack' = Reset(stack, k)
           /\ ret' = "ok"
           /\ UNCHANGED abandoned
  <2>1. /\ stack' \in Seq(StatefulFixture)
        /\ Len(stack') = Len(stack)
        /\ Shape(stack')
        /\ Explained(stack')
    BY <1>1, ResetPreserves DEF TypeOK
  <2> QED  BY <1>1, <2>1, ZenonT(30) DEF ResetFixtures, TypeOK, Returns
<1>2. CASE stack' = stack
  BY <1>2, ZenonT(30) DEF ResetFixtures, TypeOK, Returns
<1> QED  BY <1>1, <1>2 DEF ResetFixtures

\* MarkDirty touches no fixture.
LEMMA MarkDirtyStep ==
    ASSUME IInv, MarkDirty
    PROVE  IInv' /\ stack' = stack
BY ZenonT(30) DEF MarkDirty, Refuse, IInv, TypeOK, Returns, StackShape, ErrorsExplainRed

\* IInv is inductive, and every step follows the status diagram.
LEMMA NextIInv ==
    ASSUME IInv, [Next]_vars
    PROVE  /\ IInv'
           /\ stack' # stack =>
                /\ Status(stack) = "red" => Status(stack') # "yellow"
                /\ Status(stack) = "yellow" => Status(stack') # "red"
<1>1. CASE \E f \in Fixtures : PushFixture(f)
  BY <1>1, PushStep
<1>2. CASE PopFixture
  BY <1>2, PopStep
<1>3. CASE ResetFixtures
  BY <1>3, ResetStep
<1>4. CASE MarkDirty
  BY <1>4, MarkDirtyStep
<1>5. CASE UNCHANGED vars
  BY <1>5 DEF vars, IInv, TypeOK, StackShape, ErrorsExplainRed
<1> QED  BY <1>1, <1>2, <1>3, <1>4, <1>5 DEF Next

\* The inductive invariant holds in every state of every caller.
THEOREM Invariance == Spec => []IInv
<1>1. Init => IInv
  BY InitIInv
<1>2. IInv /\ [Next]_vars => IInv'
  BY NextIInv
<1> QED  BY <1>1, <1>2, PTL DEF Spec

\* The fields of InternalStack keep their types.
THEOREM TypeCorrect == Spec => []TypeOK
<1>1. IInv => TypeOK
  BY DEF IInv
<1> QED  BY <1>1, Invariance, PTL

\* The two invariants the comment of type InternalStack documents hold for
\* every caller, every number of fixtures and every outcome of user code.
THEOREM ShapeHolds == Spec => []StackShape
<1>1. IInv => StackShape
  BY DEF IInv
<1> QED  BY <1>1, Invariance, PTL

\* A test that cannot run because the stack is red always has an error to
\* report, unless a SetUp was abandoned.
THEOREM RedIsExplained == Spec => []ErrorsExplainRed
<1>1. IInv => ErrorsExplainRed
  BY DEF IInv
<1> QED  BY <1>1, Invariance, PTL

\* No call turns a red stack yellow or a yellow stack red.
THEOREM DiagramHolds == Spec => StatusDiagram
<1>1. IInv /\ [Next]_vars =>
        [ /\ Status(stack) = "red" => Status(stack') # "yellow"
          /\ Status(stack) = "yellow" => Status(stack') # "red" ]_stack
  BY NextIInv
<1> QED  BY <1>1, Invariance, PTL DEF Spec, StatusDiagram

-----------------------------------------------------------------------------
(* A call of SafeCall.  It has its own state, apart from that of the stack. *)
VARIABLES token, upc, val, callErr, ph, fired, canceled, mpc, waitErr, callRet

Call == INSTANCE SafeCall WITH ret <- callRet

CallInv == Call!TypeOK /\ Call!TokenDecides

\* The invariant holds when the call starts.
LEMMA CallInit == Call!Init => CallInv
  BY ZenonT(30) DEF Call!Init, CallInv, Call!TypeOK, Call!TokenDecides, Call!abandoned

\* Every step of the two goroutines, the timer and the context preserves it.
LEMMA NextCallInv == CallInv /\ [Call!Next]_Call!vars => CallInv'
<1> SUFFICES ASSUME CallInv, [Call!Next]_Call!vars PROVE CallInv'
  OBVIOUS
<1> USE DEF CallInv, Call!TypeOK, Call!TokenDecides, Call!abandoned, Call!userVars, Call!mainVars
<1>1. CASE Call!TimerFires
  BY <1>1 DEF Call!TimerFires
<1>2. CASE Call!CtxCanceled
  BY <1>2 DEF Call!CtxCanceled
<1>3. CASE Call!UserEnds
  BY <1>3 DEF Call!UserEnds
<1>4. CASE Call!UserTakesToken
  BY <1>4, ZenonT(30) DEF Call!UserTakesToken
<1>5. CASE Call!HandlePanic
  BY <1>5 DEF Call!HandlePanic
<1>6. CASE Call!CloseDone
  BY <1>6 DEF Call!CloseDone
<1>7. CASE Call!Select
  BY <1>7 DEF Call!Select
<1>8. CASE Call!MainTakesToken
  BY <1>8, ZenonT(30) DEF Call!MainTakesToken
<1>9. CASE Call!MainWaits
  BY <1>9 DEF Call!MainWaits
<1>10. CASE UNCHANGED Call!vars
  BY <1>10 DEF Call!vars
<1> QED
  BY <1>1, <1>2, <1>3, <1>4, <1>5, <1>6, <1>7, <1>8, <1>9, <1>10, ZenonT(30)
     DEF Call!Next, Call!UserNext, Call!MainNext

\* The types and TokenDecides hold throughout every call.
THEOREM TokenInvariance == Call!Spec => []CallInv
  BY CallInit, NextCallInv, PTL DEF Call!Spec

\* What SafeCall returns tells what became of the user function.
THEOREM ReturnMeaningHolds == Call!Spec => []Call!ReturnMeaning
<1>1. CallInv => Call!ReturnMeaning
  BY DEF CallInv, Call!TypeOK, Call!TokenDecides, Call!ReturnMeaning, Call!abandoned
<1> QED
  BY <1>1, TokenInvariance, PTL

\* The panic handler is not called once SafeCall has returned.
THEOREM HandlerIsNotLate == Call!Spec => Call!NoLateHandler
<1>1. CallInv /\ [Call!Next]_Call!vars => [mpc = "returned" => ph' = ph]_Call!vars
  <2> SUFFICES ASSUME CallInv, Call!Next, mpc = "returned" PROVE ph' = ph
    BY DEF Call!vars
  <2>1. CASE Call!HandlePanic
    BY <2>1 DEF Call!HandlePanic, CallInv, Call!TypeOK, Call!TokenDecides,
                Call!abandoned
  <2>2. CASE ~Call!HandlePanic
    BY <2>2 DEF Call!Next, Call!UserNext, Call!MainNext, Call!TimerFires,
                Call!CtxCanceled, Call!UserEnds, Call!UserTakesToken, Call!CloseDone,
                Call!Select, Call!MainTakesToken, Call!MainWaits, Call!userVars
  <2> QED
    BY <2>1, <2>2
<1> QED
  BY <1>1, TokenInvariance, PTL DEF Call!Spec, Call!NoLateHandler

\* SafeCall implements CallOutcome: taking the token decides the outcome, the
\* panic handling and the return follow it, and every other step changes nothing
\* the caller can tell.
THEOREM OutcomeRefined == Call!Spec => Call!ImplementsOutcome
<1>1. Call!Init => Call!Outcome!Init
  BY DEF Call!Init, Call!Outcome!Init, Call!abandoned
<1>2. CallInv /\ [Call!Next]_Call!vars => [Call!Outcome!Next]_Call!Outcome!vars
  <2> SUFFICES ASSUME CallInv, [Call!Next]_Call!vars PROVE [Call!Outcome!Next]_Call!Outcome!vars
    OBVIOUS
  <2> USE DEF CallInv, Call!TypeOK, Call!TokenDecides, Call!abandoned, Call!userVars, Call!mainVars
  <2>1. CASE \/ Call!TimerFires \/ Call!CtxCanceled \/ Call!UserEnds \/ Call!CloseDone
             \/ Call!Select \/ UNCHANGED Call!vars
    BY <2>1 DEF Call!TimerFires, Call!CtxCanceled, Call!UserEnds, Call!CloseDone,
                Call!Select, Call!vars, Call!Outcome!vars
  <2>2. CASE Call!UserTakesToken
    <3>1. CASE token
      BY <2>2, <3>1 DEF Call!UserTakesToken, Call!Outcome!vars
    <3>2. CASE ~token
      BY <2>2, <3>2, ZenonT(30) DEF Call!UserTakesToken, Call!Outcome!Next,
                                    Call!Outcome!Finish
    <3> QED
      BY <3>1, <3>2
  <2>3. CASE Call!HandlePanic
    <3>1. CASE val = "panic"
      BY <2>3, <3>1, ZenonT(30) DEF Call!HandlePanic, Call!Outcome!Next,
                                    Call!Outcome!Handle
    <3>2. CASE val # "panic"
      BY <2>3, <3>2 DEF Call!HandlePanic, Call!Outcome!vars
    <3> QED
      BY <3>1, <3>2
  <2>4. CASE Call!MainTakesToken
    <3>1. CASE token
      BY <2>4, <3>1 DEF Call!MainTakesToken, Call!Outcome!vars
    <3>2. CASE ~token
      BY <2>4, <3>2, ZenonT(30) DEF Call!MainTakesToken, Call!Outcome!Next,
                                    Call!Outcome!Abandon
    <3> QED
      BY <3>1, <3>2
  <2>5. CASE Call!MainWaits
    BY <2>5 DEF Call!MainWaits, Call!Outcome!Next, Call!Outcome!Return
  <2> QED
    BY <2>1, <2>2, <2>3, <2>4, <2>5 DEF Call!Next, Call!UserNext, Call!MainNext
<1> QED
  BY <1>1, <1>2, TokenInvariance, PTL DEF Call!Spec, Call!ImplementsOutcome,
                                          Call!Outcome!Spec
=============================================================================
