---------------------------- MODULE FixtureStack ----------------------------
(***************************************************************************)
(* InternalStack as a state machine driven by an arbitrary caller: every   *)
(* method may be called at any time, in any order, also after one of them  *)
(* returned an error.  (The planner stops at the first error; the stack    *)
(* server of a remote bundle does not.)                                    *)
(*                                                                         *)
(* User code (SetUp, TearDown, Reset of a fixture) runs inside             *)
(* usercode.SafeCall, so each call of it has three outcomes here: it       *)
(* succeeds, it reports errors (or panics), or it ignores its timeout and  *)
(* is abandoned, in which case the method returns an error.                *)
(***************************************************************************)
EXTENDS InternalStack

CONSTANT MaxDepth     \* bound on the height of the stack

ASSUME MaxDepthAssumption == MaxDepth \in Nat

VARIABLES stack,      \* InternalStack.stack
          dirty,      \* InternalStack.dirty
          ret,        \* what the last call returned
          abandoned   \* history: some user code ignored its timeout

vars == <<stack, dirty, ret, abandoned>>

Returns == {"ok", "bug", "io", "abandoned"}

Init ==
    /\ stack = <<>>
    /\ dirty = FALSE
    /\ ret = "ok"
    /\ abandoned = FALSE

-----------------------------------------------------------------------------
\* A call that returns an error and changes nothing.
Refuse(err) ==
    /\ ret' = err
    /\ UNCHANGED <<stack, dirty, abandoned>>

\* Mutant: a yellow stack accepts a fixture.
PushFixture_OnYellow(f) ==
    /\ Len(stack) < MaxDepth
    /\ \E es \in SUBSET Errs : stack' = Push(stack, f, es)
    /\ ret' = "ok"
    /\ UNCHANGED <<dirty, abandoned>>

\* Mutant: Reset also runs on a red stack.
ResetFixtures_OnRed ==
    /\ dirty' = FALSE
    /\ Status(stack) # "yellow"
    /\ \E k \in 0 .. Len(stack) : stack' = Reset(stack, k)
    /\ ret' = "ok"
    /\ UNCHANGED abandoned

PushFixture(f) ==
    /\ Len(stack) < MaxDepth
    /\ \/ Status(stack) = "yellow" /\ Refuse("bug")
       \/ Status(stack) # "yellow" /\ Refuse("io")    \* CreateOutDir failed
       \/ /\ Status(stack) # "yellow"
          /\ \E es \in SUBSET Errs : stack' = Push(stack, f, es)
          /\ ret' = "ok"
          /\ UNCHANGED <<dirty, abandoned>>
       \/ /\ Status(stack) = "green"
          /\ stack' = PushAbandoned(stack, f)
          /\ ret' = "abandoned"
          /\ abandoned' = TRUE
          /\ UNCHANGED dirty

\* The fixture is off the stack before its TearDown is called.
PopFixture ==
    /\ stack # <<>>
    /\ stack' = Pop(stack)
    /\ UNCHANGED dirty
    /\ \/ ret' = "ok" /\ UNCHANGED abandoned
       \/ /\ top(stack).status # "red"
          /\ ret' = "abandoned"
          /\ abandoned' = TRUE

\* The dirty flag is cleared whatever the status of the stack is.
ResetFixtures ==
    /\ dirty' = FALSE
    /\ \/ /\ Status(stack) = "red"
          /\ ret' = "ok"
          /\ UNCHANGED <<stack, abandoned>>
       \/ /\ Status(stack) = "yellow"
          /\ ret' = "bug"
          /\ UNCHANGED <<stack, abandoned>>
       \/ /\ Status(stack) = "green"
          /\ \E k \in 0 .. Len(stack) : stack' = Reset(stack, k)
          /\ ret' = "ok"
          /\ UNCHANGED abandoned
       \/ /\ Status(stack) = "green"
          /\ stack # <<>>
          /\ ret' = "abandoned"
          /\ abandoned' = TRUE
          /\ UNCHANGED stack

MarkDirty ==
    \/ dirty /\ Refuse("bug")
    \/ /\ ~dirty
       /\ dirty' = TRUE
       /\ ret' = "ok"
       /\ UNCHANGED <<stack, abandoned>>

Next ==
    \/ \E f \in Fixtures : PushFixture(f)
    \/ PopFixture
    \/ ResetFixtures
    \/ MarkDirty

Spec == Init /\ [][Next]_vars

-----------------------------------------------------------------------------
\* Every variable has its type.
TypeOK ==
    /\ stack \in Seq(StatefulFixture)
    /\ Len(stack) <= MaxDepth
    /\ dirty \in BOOLEAN
    /\ ret \in Returns
    /\ abandoned \in BOOLEAN

\* The two invariants in the comment of type InternalStack: a yellow fixture
\* excludes red ones, and without one there are only green fixtures up to
\* some height and red ones above.  They hold for every caller.
StackShape == Shape(stack)

\* A test that finds the stack red reports Errors() instead of running; if
\* that were empty the test would pass without having run.  Unless SetUp was
\* abandoned (then the whole run fails), there is an error to report.
ErrorsExplainRed ==
    ~abandoned => Explained(stack)

\* The diagram of the status of a stack: no call leads from red to yellow or
\* from yellow to red, so one Pop after another leads out of both.
StatusDiagram ==
    [][ /\ Status(stack) = "red" => Status(stack') # "yellow"
        /\ Status(stack) = "yellow" => Status(stack') # "red" ]_stack
=============================================================================
