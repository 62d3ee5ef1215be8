------------------------------ MODULE SafeCall ------------------------------
(***************************************************************************)
(* internal/usercode/usercode.go, SafeCall: the calling goroutine and the  *)
(* one that runs the user function race for a token.  Whoever takes it     *)
(* decides whether the function finished or is abandoned.                  *)
(*                                                                         *)
(* Abstractions: durations (the timer may fire, and the context may be     *)
(* canceled, at any time), the values of panics and errors.  Goexit and a  *)
(* plain return are the same to recover.                                   *)
(***************************************************************************)
VARIABLES
    token,    \* taken
    upc,      \* background goroutine: "f", "recover", "handle", "close", "done"
    val,      \* what recover returns: "nil", "panic" or "forced"
    callErr,  \* "nil" or "forced"
    ph,       \* history: ph was called
    fired,    \* the timer's channel has a value
    canceled, \* ctx.Done() is closed
    mpc,      \* calling goroutine: "select", "take", "wait", "returned"
    waitErr,  \* "nil", "timeout" or "canceled"
    ret       \* "none", or the error SafeCall returned

vars == <<token, upc, val, callErr, ph, fired, canceled, mpc, waitErr, ret>>
userVars == <<upc, val, callErr, ph>>
mainVars == <<mpc, waitErr, ret>>

Init ==
    /\ token = FALSE
    /\ upc = "f" /\ val = "nil" /\ callErr = "nil" /\ ph = FALSE
    /\ fired = FALSE /\ canceled = FALSE
    /\ mpc = "select" /\ waitErr = "nil" /\ ret = "none"

-----------------------------------------------------------------------------
TimerFires == ~fired /\ fired' = TRUE /\ UNCHANGED <<token, userVars, canceled, mainVars>>
CtxCanceled == ~canceled /\ canceled' = TRUE /\ UNCHANGED <<token, userVars, fired, mainVars>>

\* f ends, in any of its ways, and recover is called.
UserEnds ==
    /\ upc = "f"
    /\ val' \in {"nil", "panic", "forced"}
    /\ upc' = "recover"
    /\ UNCHANGED <<token, callErr, ph, fired, canceled, mainVars>>

\* Mutant: a panic is handled whoever took the token.
UserTakesToken_Always ==
    /\ upc = "recover"
    /\ token' = TRUE
    /\ upc' = "handle"
    /\ UNCHANGED <<val, callErr, ph, fired, canceled, mainVars>>

\* The goroutine returns at once if the call was abandoned.
UserTakesToken ==
    /\ upc = "recover"
    /\ token' = TRUE
    /\ upc' = IF token THEN "close" ELSE "handle"
    /\ UNCHANGED <<val, callErr, ph, fired, canceled, mainVars>>

\* A panic goes to ph, unless it is the one of ForceErrorForTesting.
HandlePanic ==
    /\ upc = "handle"
    /\ callErr' = IF val = "forced" THEN "forced" ELSE "nil"
    /\ ph' = (val = "panic")
    /\ upc' = "close"
    /\ UNCHANGED <<token, val, fired, canceled, mainVars>>

CloseDone ==
    /\ upc = "close"
    /\ upc' = "done"
    /\ UNCHANGED <<token, val, callErr, ph, fired, canceled, mainVars>>

\* The select: any of the channels that are ready.
Select ==
    /\ mpc = "select"
    /\ \/ upc = "done" /\ waitErr' = "nil"
       \/ fired /\ waitErr' = "timeout"
       \/ canceled /\ waitErr' = "canceled"
    /\ mpc' = "take"
    /\ UNCHANGED <<token, userVars, fired, canceled, ret>>

\* Mutant: a call that was abandoned is waited for.
MainTakesToken_AlwaysWait ==
    /\ mpc = "take"
    /\ token' = TRUE
    /\ mpc' = "wait"
    /\ UNCHANGED <<userVars, fired, canceled, waitErr, ret>>

MainTakesToken ==
    /\ mpc = "take"
    /\ token' = TRUE
    /\ IF token
       THEN mpc' = "wait" /\ UNCHANGED ret
       ELSE mpc' = "returned" /\ ret' = waitErr
    /\ UNCHANGED <<userVars, fired, canceled, waitErr>>

\* <-done, then the error the goroutine left.
MainWaits ==
    /\ mpc = "wait" /\ upc = "done"
    /\ mpc' = "returned" /\ ret' = callErr
    /\ UNCHANGED <<token, userVars, fired, canceled, waitErr>>

UserNext == UserTakesToken \/ HandlePanic \/ CloseDone
MainNext == Select \/ MainTakesToken \/ MainWaits

Next == TimerFires \/ CtxCanceled \/ UserEnds \/ UserNext \/ MainNext

\* The goroutines run and the timer fires; f may never end and the context need
\* not be canceled.
Spec == Init /\ [][Next]_vars /\ WF_vars(TimerFires) /\ WF_vars(UserNext) /\ WF_vars(MainNext)

-----------------------------------------------------------------------------
\* Every variable has its type.
TypeOK ==
    /\ token \in BOOLEAN /\ ph \in BOOLEAN /\ fired \in BOOLEAN /\ canceled \in BOOLEAN
    /\ upc \in {"f", "recover", "handle", "close", "done"}
    /\ val \in {"nil", "panic", "forced"}
    /\ callErr \in {"nil", "forced"}
    /\ mpc \in {"select", "take", "wait", "returned"}
    /\ waitErr \in {"nil", "timeout", "canceled"}
    /\ ret \in {"none", "nil", "timeout", "canceled", "forced"}

\* SafeCall returned without waiting for f.
abandoned == ret \in {"timeout", "canceled"}

\* Why the token settles the race: it is taken once either the goroutine is past
\* recover or the call was abandoned; only a goroutine that took it touches ph
\* and callErr; and the caller returns what the goroutine left only once that
\* is done.
TokenDecides ==
    /\ token = (upc \in {"handle", "close", "done"} \/ abandoned)
    /\ upc = "handle" => ~abandoned
    /\ upc \in {"f", "recover", "handle"} \/ abandoned => ~ph /\ callErr = "nil"
    /\ upc \in {"close", "done"} /\ ~abandoned =>
           /\ ph = (val = "panic")
           /\ callErr = IF val = "forced" THEN "forced" ELSE "nil"
    /\ mpc = "take" /\ waitErr = "nil" => upc = "done"
    /\ mpc = "wait" => token
    /\ ret = "none" <=> mpc # "returned"
    /\ ret \in {"nil", "forced"} => upc = "done" /\ ret = callErr

\* What SafeCall returned tells what became of f.  nil: f has finished, its
\* goroutine with it, and a panic went to ph.  An error of the timer or the
\* context: ph was not called.  Any other error: f forced it.
ReturnMeaning ==
    /\ ret = "nil" => upc = "done" /\ val # "forced" /\ ph = (val = "panic")
    /\ ret \in {"timeout", "canceled"} => ~ph
    /\ ret = "forced" => upc = "done" /\ val = "forced" /\ ~ph

\* ph is never called once SafeCall has returned: the caller may tear down what
\* the handler reports to.
NoLateHandler == [][ mpc = "returned" => ph' = ph ]_vars

\* SafeCall returns, whatever f does.
Returns == <>(mpc = "returned")

\* SafeCall implements CallOutcome: the token decides.
Outcome == INSTANCE CallOutcome WITH
    decision <- IF abandoned THEN "abandoned"
                ELSE IF upc \in {"handle", "close", "done"} THEN val ELSE "open",
    handled <- ph,
    ret <- IF ret \in {"none", "nil"} THEN ret ELSE "error"
ImplementsOutcome == Outcome!Spec
=============================================================================
