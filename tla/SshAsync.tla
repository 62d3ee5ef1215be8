------------------------------ MODULE SshAsync ------------------------------
(***************************************************************************)
(* ssh/async.go, doAsync, as package ssh uses it: an operation runs on a   *)
(* goroutine of its own, and the caller returns early when its context is  *)
(* canceled.  The goroutine then undoes what the operation did.  The       *)
(* resources are SSH connections and the sessions of commands.             *)
(***************************************************************************)
EXTENDS XContext, Naturals

CONSTANTS
  Conns, Sessions     \* identities of connections and sessions

ASSUME ResourceAssumption == Conns \cap Sessions = {} /\ 0 \notin Conns \cup Sessions

VARIABLES
  call,     \* the doAsync the caller is in
  left,     \* calls that were left while their goroutine could still change things
  res,      \* "none", "open", "closed", or "twice" if it was closed twice
  sub,      \* the derived context of the current call is canceled
  aborted   \* Cmd.Abort was called

asyncVars == <<call, left, res, sub, aborted>>

NoCall == [op |-> "none", of |-> 0, main |-> "none", body |-> "finished", ret |-> "ok"]

\* Operations that have a clean function: connectSSH and connectCloudBotsSSH,
\* startSession, Cmd.Start.
HasClean == {"dial", "newSession", "start"}

Close(r) == IF res[r] = "open" THEN "closed" ELSE "twice"

\* What the body may return and leave behind.  A session may have been opened
\* when startSession fails in setupSession, and a connection to the proxy when
\* connectCloudBotsSSH fails after it.
Outcomes(c) ==
  CASE c.op \in {"dial", "newSession"} ->
         {<<"ok", "open">>, <<"failed", "none">>, <<"failed", "open">>}
    [] c.op \in {"start", "wait"} -> {"ok", "failed"} \X {res[c.of]}
    [] c.op \in {"closeConn", "dropConn", "closeSession"} -> {"ok", "failed"} \X {Close(c.of)}

\* clean closes whatever the body opened, if doAsync returned an error; r is the
\* state of the resource.
Cleans(c, r) == c.ret = "failed" /\ c.op \in HasClean /\ r # "none"

\* Mutant: clean is also called when the result of body was returned.
GoSteps_CleansAlways(c) ==
  IF c.body = "running" THEN {<<[c EXCEPT !.body = o[1]], o[2]>> : o \in Outcomes(c)}
  ELSE IF c.body # "finished" /\ c.ret # "none"
  THEN {<<[c EXCEPT !.body = "finished"],
          IF c.op \in HasClean /\ res[c.of] # "none" THEN Close(c.of) ELSE res[c.of]>>}
  ELSE {}

\* Mutant: clean is called when body failed, not when doAsync did.
GoSteps_CleansFailedBody(c) ==
  IF c.body = "running" THEN {<<[c EXCEPT !.body = o[1]], o[2]>> : o \in Outcomes(c)}
  ELSE IF c.body # "finished" /\ c.ret # "none"
  THEN {<<[c EXCEPT !.body = "finished"],
          IF c.body = "failed" /\ c.op \in HasClean /\ res[c.of] # "none"
          THEN Close(c.of) ELSE res[c.of]>>}
  ELSE {}

\* The steps of the goroutine of call c, with what they make of the resource: the
\* body ends; then, when doAsync has decided on its result, clean may be called.
GoSteps(c) ==
  IF c.body = "running" THEN {<<[c EXCEPT !.body = o[1]], o[2]>> : o \in Outcomes(c)}
  ELSE IF c.body # "finished" /\ c.ret # "none"
  THEN {<<[c EXCEPT !.body = "finished"],
          IF Cleans(c, res[c.of]) THEN Close(c.of) ELSE res[c.of]>>}
  ELSE {}

CallGoroutine ==
  /\ \E n \in GoSteps(call) : call' = n[1] /\ res' = [res EXCEPT ![call.of] = n[2]]
  /\ UNCHANGED <<left, sub, aborted>>

LeftGoroutine(c) ==
  /\ \E n \in GoSteps(c) :
       /\ res' = [res EXCEPT ![c.of] = n[2]]
       /\ left' = (left \ {c}) \cup {d \in {n[1]} : d.body # "finished" /\ Cleans(d, n[2])}
  /\ UNCHANGED <<call, sub, aborted>>

-----------------------------------------------------------------------------
\* The goroutine is started, and then the first select: a context that is already
\* canceled always wins.
DoAsync(op, r, canceled) ==
  call' = [op |-> op, of |-> r, body |-> "running",
           main |-> IF canceled THEN "exit" ELSE "select",
           ret |-> IF canceled THEN "failed" ELSE "none"]

\* Calls made under a context derived from that of the command: dialSSH has a
\* timeout for all attempts to connect, EnsureConn has one for its polling, and
\* waitAndClose is canceled by Abort.
Timed == call.op \in {"dial", "dropConn"}
Abortable == call.op \in {"wait", "closeSession"}
Derived == Timed \/ Abortable

Canceled == IF Derived THEN sub ELSE done

\* A derived context is canceled by a goroutine, after its parent was, the timeout
\* has passed or the channel abort was closed.
SubCanceled ==
  /\ ~sub /\ ((done /\ Derived) \/ Timed \/ (aborted /\ Abortable))
  /\ sub' = TRUE
  /\ UNCHANGED <<call, left, res, aborted>>

\* The second select: either channel, if both are ready.
Select ==
  /\ call.main = "select"
  /\ \/ call.body # "running" /\ call' = [call EXCEPT !.main = "exit", !.ret = call.body]
     \/ Canceled /\ call' = [call EXCEPT !.main = "exit", !.ret = "failed"]
  /\ UNCHANGED <<left, res, sub, aborted>>

\* Mutant: the deferred function waits for the goroutine only.
MayReturn_Finished == call.main = "exit" /\ call.body = "finished"

\* The deferred function: the goroutine has finished, or the context is canceled.
MayReturn == call.main = "exit" /\ (call.body = "finished" \/ Canceled)

\* The goroutine of c may still open or close its resource.
Matters(c) ==
  \/ c.body = "running" /\ c.op # "wait"
  \/ c.body # "finished" /\ Cleans(c, res[c.of])

\* What a return leaves behind: the goroutine, while it may change anything.
Leave == left' = left \cup {c \in {call} : Matters(c)}

Return == call' = NoCall /\ sub' = FALSE

Abort ==
  /\ ~aborted /\ aborted' = TRUE
  /\ UNCHANGED <<call, left, res, sub>>

AsyncInit ==
  /\ call = NoCall /\ left = {} /\ sub = FALSE /\ aborted = FALSE
  /\ res = [r \in Conns \cup Sessions |-> "none"]

AsyncTypeOK ==
  /\ call.main \in {"none", "select", "exit"}
  /\ \A c \in left : c.op \in HasClean \cup {"wait", "closeConn", "dropConn", "closeSession"}
  /\ res \in [Conns \cup Sessions -> {"none", "open", "closed", "twice"}]
  /\ sub \in BOOLEAN /\ aborted \in BOOLEAN

-----------------------------------------------------------------------------
\* A goroutine that outlives its call is still going to close this resource.
Reclaimed(r) ==
  \E c \in left \cup {call} :
    c.of = r /\ \/ c.op \in {"closeConn", "dropConn", "closeSession"}
                \/ c.op \in HasClean /\ c.ret = "failed" /\ c.body # "finished"
=============================================================================
