---------------------------- MODULE CallOutcome ----------------------------
(***************************************************************************)
(* What a caller of usercode.SafeCall relies on.  Either the user function *)
(* finishes or it is abandoned, never both, and that is decided once.  A   *)
(* panic of a function that finished is handled before the call returns;   *)
(* an abandoned function gets no panic handling at all.                    *)
(***************************************************************************)
VARIABLES decision,   \* "open", how the function finished, or "abandoned"
          handled,    \* the panic handler was called
          ret         \* "none", "nil" or "error"

vars == <<decision, handled, ret>>

Init == decision = "open" /\ handled = FALSE /\ ret = "none"

\* The function finishes: it returns, panics or forces an error.
Finish ==
    /\ decision = "open"
    /\ decision' \in {"nil", "panic", "forced"}
    /\ UNCHANGED <<handled, ret>>

Handle ==
    /\ decision = "panic" /\ ret = "none" /\ ~handled
    /\ handled' = TRUE
    /\ UNCHANGED <<decision, ret>>

Return ==
    /\ decision \in {"nil", "panic", "forced"} /\ ret = "none"
    /\ decision = "panic" => handled
    /\ ret' = IF decision = "forced" THEN "error" ELSE "nil"
    /\ UNCHANGED <<decision, handled>>

\* The caller gives up on the function and returns an error at once.
Abandon ==
    /\ decision = "open"
    /\ decision' = "abandoned"
    /\ ret' = "error"
    /\ UNCHANGED handled

Next == Finish \/ Handle \/ Return \/ Abandon

Spec == Init /\ [][Next]_vars
=============================================================================
