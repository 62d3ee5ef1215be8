-------------------------- MODULE ConnectionsProofs --------------------------
(***************************************************************************)
(* Two arguments about Connections, for any number of connections,         *)
(* sessions, retries and callers of cancel.                                *)
(*                                                                         *)
(* The context: whatever its parent, its deadline, the callers of cancel   *)
(* and the driver do, and in whatever order, a context that is done has an *)
(* error, and the error is one that somebody caused.                       *)
(*                                                                         *)
(* The resources: every open connection and session has one owner, which   *)
(* is the driver, the call it is in, or a goroutine that outlived its      *)
(* call; so nothing is closed twice, or closed while the driver uses it.   *)
(***************************************************************************)
EXTENDS Connections, TLAPS

\* The error in the channel, and the one the watcher has taken, were caused.
CauseInv ==
  /\ ContextTypeOK
  /\ DoneHasCause
  /\ req # Nil => cancelAt[req] \in {"wait", "returned"}
  /\ watcher = "close" => err # Nil

\* newContext establishes the invariant, also for a context canceled at birth.
LEMMA CauseInit == NewContext => CauseInv
  BY ContextAssumption, ZenonT(30)  DEF NewContext, CauseInv, ContextTypeOK,
                                       DoneHasCause, Nil

\* A step of the context, or a call of cancel.
ContextSteps == ContextNext \/ \E c \in Cancelers : CallCancel(c)

\* Every step of the context keeps it, and so does every call of cancel.
LEMMA CauseStep == CauseInv /\ [ContextSteps]_ctxVars => CauseInv'
<1> SUFFICES ASSUME CauseInv, [ContextSteps]_ctxVars PROVE CauseInv'
  OBVIOUS
<1> USE ContextAssumption DEF CauseInv, ContextTypeOK, DoneHasCause, Nil
<1>1. CASE ParentCanceled
  BY <1>1 DEF ParentCanceled
<1>2. CASE DeadlinePasses
  BY <1>2 DEF DeadlinePasses
<1>3. CASE WatcherStarts
  BY <1>3 DEF WatcherStarts
<1>4. CASE WatcherSelects
  BY <1>4 DEF WatcherSelects
<1>5. CASE WatcherCloses
  BY <1>5 DEF WatcherCloses
<1>6. ASSUME NEW c \in Cancelers, CallCancel(c) \/ SendCancel(c)
      PROVE  CauseInv'
  BY <1>6 DEF CallCancel, SendCancel
<1>7. ASSUME NEW c \in Cancelers, CancelReturns(c)
      PROVE  CauseInv'
  BY <1>7 DEF CancelReturns
<1>8. CASE UNCHANGED ctxVars
  BY <1>8 DEF ctxVars
<1> QED
  BY <1>1, <1>2, <1>3, <1>4, <1>5, <1>6, <1>7, <1>8
  DEF ContextSteps, ContextNext, Cancel, Watcher

\* The driver, its calls and their goroutines leave the context alone.
LEMMA OnlyContextSteps == [Next]_vars => [ContextSteps]_ctxVars
<1> SUFFICES ASSUME Next, ~ContextSteps PROVE UNCHANGED ctxVars
  BY DEF vars, ctxVars
<1>1. CASE Driver
  BY <1>1, ZenonT(30)  DEF Driver, Caller, New, Dialed, StartServices, DroppedNew,
                          ReadBootID, Replace, CloseCache, ConnClosed, SessionOpened,
                          CommandStarted, Wait, Waited, SessionClosed
<1>2. CASE EnsureConn \/ StartCommand \/ AbortCommand \/ Goroutine \/ Propagates
  BY <1>2 DEF EnsureConn, StartCommand, AbortCommand, Goroutine, Propagates
<1> QED
  BY <1>1, <1>2 DEF Next, ContextStep, Context, DeferredCancel, ContextSteps

\* DoneHasCause holds for every number of callers of cancel, with and without a
\* deadline, whatever the program does under the context.
THEOREM CanceledWithCause == Spec => []DoneHasCause
<1>1. Init => CauseInv
  BY CauseInit DEF Init
<1>2. CauseInv /\ [Next]_vars => CauseInv'
  BY CauseStep, OnlyContextSteps
<1>3. CauseInv => DoneHasCause
  BY DEF CauseInv
<1> QED
  BY <1>1, <1>2, <1>3, PTL DEF Spec

-----------------------------------------------------------------------------
(* SshAsync: what a call of doAsync and the goroutines that outlived theirs   *)
(* do to the connections and sessions, step by step: each resource belongs to *)
(* at most one of them, and what belongs to none stays as it is.              *)

Resources == Conns \cup Sessions
Values == {"none", "open", "closed"}
Openers == {"dial", "newSession"}
Closers == {"closeConn", "dropConn", "closeSession"}
CallSet == [op : Openers \cup Closers \cup {"start", "wait"}, of : Resources,
            main : {"select", "exit"}, body : {"running", "ok", "failed", "finished"},
            ret : {"none", "ok", "failed"}]

\* How far caller and goroutine of call c can be apart.
Decided(c) ==
  /\ c.main = "exit" <=> c.ret # "none"
  /\ c.ret = "ok" => c.body \in {"ok", "finished"}
  /\ c.body = "finished" => c.ret # "none"

\* The resource of call c can be v.
Fits(c, v) ==
  /\ c.op \in Openers /\ c.body = "running" => v = "none"
  /\ c.op \in Openers /\ (c.body = "ok" \/ c.ret = "ok") => v = "open"
  /\ c.op = "start" /\ (c.body # "finished" \/ c.ret # "failed") => v = "open"
  /\ c.op = "wait" => v = "open"
  /\ c.op \in Closers /\ c.body = "running" => v = "open"
  /\ c.op \in HasClean /\ c.body # "finished" => v \in {"none", "open"}

\* The goroutines l that outlived their calls, with resources v.
LeftOK(l, v) ==
  /\ v \in [Resources -> Values]
  /\ l \subseteq CallSet
  /\ \A c \in l : c.ret = "failed" /\ c.body # "finished" /\ Decided(c) /\ Fits(c, v[c.of])
  /\ \A c, d \in l : c.of = d.of => c = d

\* The call k the driver is in.
CallOK(k, l, v) ==
  \/ k = NoCall
  \/ k \in CallSet /\ Decided(k) /\ Fits(k, v[k.of]) /\ \A c \in l : c.of # k.of

\* Resource r is open, and no goroutine that outlived its call has it.
Free(r, l, v) == r \in Resources /\ v[r] = "open" /\ \A c \in l : c.of # r

CallInv == LeftOK(left, res) /\ CallOK(call, left, res)

\* A step of the goroutine of a call leaves the resource as the call may have it.
LEMMA GoStepFits ==
  ASSUME res \in [Resources -> Values],
         NEW c \in CallSet, Decided(c), Fits(c, res[c.of]),
         NEW n \in GoSteps(c)
  PROVE  /\ n[1] \in CallSet /\ n[2] \in Values
         /\ n[1].of = c.of /\ n[1].op = c.op /\ n[1].ret = c.ret /\ n[1].main = c.main
         /\ n[1].body # "running"
         /\ Decided(n[1]) /\ Fits(n[1], n[2])
<1> DEFINE v == res[c.of]
<1>1. v \in Values
  BY DEF CallSet
<1>2. CASE c.body = "running"
  <2>1. PICK o \in Outcomes(c) : n = <<[c EXCEPT !.body = o[1]], o[2]>>
    BY <1>2 DEF GoSteps
  <2>2. o[1] \in {"ok", "failed"} /\ o[2] \in Values
        /\ (c.op \in Openers => o[2] \in {"none", "open"} /\ (o[1] = "ok" => o[2] = "open"))
        /\ (c.op \in {"start", "wait"} => o[2] = v)
    <3>1. CASE c.op = "dial"
      BY <3>1 DEF Outcomes, Openers, Values
    <3>2. CASE c.op = "newSession"
      BY <3>2 DEF Outcomes, Openers, Values
    <3>3. CASE c.op \in {"start", "wait"}
      BY <3>3, <1>1 DEF Outcomes, Openers, Values
    <3>4. CASE c.op \in Closers
      BY <3>4, <1>1, <1>2 DEF Outcomes, Openers, Closers, Values, Close, Fits
    <3> QED
      BY <3>1, <3>2, <3>3, <3>4 DEF CallSet, Openers, Closers
  <2> QED
    BY <2>1, <2>2, <1>2 DEF CallSet, Decided, Fits, Openers, Closers, HasClean
<1>3. CASE c.body # "running"
  <2>1. /\ c.body # "finished" /\ c.ret # "none"
        /\ n = <<[c EXCEPT !.body = "finished"],
                 IF c.ret = "failed" /\ c.op \in HasClean /\ v # "none"
                 THEN Close(c.of) ELSE v>>
    BY <1>3 DEF GoSteps, Cleans
  <2>2. c.op \in HasClean /\ v # "none" => v = "open" /\ Close(c.of) = "closed"
    BY <2>1 DEF Fits, Close
  <2> QED
    BY <2>1, <2>2, <1>1, <1>3 DEF CallSet, Decided, Fits, Openers, Closers, HasClean, Values
<1> QED
  BY <1>2, <1>3

\* A resource that the driver has is not touched by the goroutines.
KeepsFree == \A r \in Resources : r # call.of /\ Free(r, left, res) => Free(r, left', res')

\* A resource that changes hands from goroutine to goroutine: only that of c.
LEMMA LeftFrame ==
  ASSUME NEW l, NEW v, LeftOK(l, v), NEW r \in Resources, NEW w \in Values,
         \A c \in l : c.of # r
  PROVE  LeftOK(l, [v EXCEPT ![r] = w])
  BY DEF LeftOK, CallSet

\* The goroutine of the current call.
LEMMA CallGoroutineStep ==
  ASSUME CallInv, CallGoroutine
  PROVE  /\ CallInv' /\ KeepsFree
         /\ call # NoCall /\ call' # NoCall /\ call'.op = call.op /\ call'.of = call.of
<1>1. PICK n \in GoSteps(call) : call' = n[1] /\ res' = [res EXCEPT ![call.of] = n[2]]
  BY ZenonT(30) DEF CallGoroutine
<1>2. left' = left
  BY DEF CallGoroutine
<1>3. call # NoCall
  BY <1>1 DEF GoSteps, NoCall
<1>4. /\ call \in CallSet /\ Decided(call) /\ Fits(call, res[call.of])
      /\ \A c \in left : c.of # call.of
  BY <1>3 DEF CallInv, CallOK
<1>5. LeftOK(left, res) /\ res \in [Resources -> Values]
  BY DEF CallInv, LeftOK
<1>6. /\ n[1] \in CallSet /\ n[2] \in Values
      /\ n[1].of = call.of /\ n[1].op = call.op
      /\ Decided(n[1]) /\ Fits(n[1], n[2])
  BY <1>1, <1>4, <1>5, GoStepFits
<1>7. call.of \in Resources
  BY <1>4 DEF CallSet
<1>8. LeftOK(left, res')
  BY <1>1, <1>4, <1>5, <1>6, <1>7, LeftFrame, ZenonT(30)
<1>9. res'[call.of] = n[2]
  BY <1>1, <1>5, <1>7
<1>10. CallOK(call', left, res')
  BY <1>1, <1>4, <1>6, <1>9 DEF CallOK
<1>11. KeepsFree
  BY <1>1, <1>2, <1>5 DEF KeepsFree, Free
<1>12. call' # NoCall
  BY <1>1, <1>6 DEF CallSet, NoCall
<1> QED
  BY <1>1, <1>2, <1>3, <1>6, <1>8, <1>10, <1>11, <1>12 DEF CallInv

\* The goroutine of a call that was left.
LEMMA LeftGoroutineStep ==
  ASSUME CallInv, NEW c \in left, LeftGoroutine(c)
  PROVE  CallInv' /\ KeepsFree /\ call' = call
<1>1. PICK n \in GoSteps(c) :
        /\ res' = [res EXCEPT ![c.of] = n[2]]
        /\ left' = (left \ {c}) \cup {d \in {n[1]} : d.body # "finished" /\ Cleans(d, n[2])}
  BY ZenonT(30) DEF LeftGoroutine
<1>2. call' = call
  BY DEF LeftGoroutine
<1>3. /\ LeftOK(left, res) /\ res \in [Resources -> Values]
      /\ c \in CallSet /\ c.ret = "failed" /\ Decided(c) /\ Fits(c, res[c.of])
      /\ c.of \in Resources
      /\ \A d \in left : d.of = c.of => d = c
  BY DEF CallInv, LeftOK, CallSet
<1>4. /\ n[1] \in CallSet /\ n[2] \in Values
      /\ n[1].of = c.of /\ n[1].ret = c.ret
      /\ Decided(n[1]) /\ Fits(n[1], n[2])
  BY <1>1, <1>3, GoStepFits
<1>5. LeftOK(left \ {c}, res)
  BY <1>3 DEF LeftOK
<1>6. LeftOK(left \ {c}, res')
  BY <1>1, <1>3, <1>4, <1>5, LeftFrame, ZenonT(30)
<1>7. res'[c.of] = n[2]
  BY <1>1, <1>3
<1>8. LeftOK(left', res')
  BY <1>1, <1>3, <1>4, <1>6, <1>7 DEF LeftOK
<1>9. \A d \in left' : d.of \in {e.of : e \in left}
  BY <1>1, <1>4
<1>10. CallOK(call, left, res)
  BY DEF CallInv
<1>11. CallOK(call', left', res')
  BY <1>1, <1>2, <1>3, <1>9, <1>10 DEF CallOK, CallSet
<1>12. KeepsFree
  BY <1>1, <1>3, <1>9 DEF KeepsFree, Free
<1> QED
  BY <1>2, <1>8, <1>11, <1>12 DEF CallInv

\* The second select of doAsync.
LEMMA SelectStep ==
  ASSUME CallInv, Select
  PROVE  /\ CallInv' /\ KeepsFree
         /\ call # NoCall /\ call' # NoCall /\ call'.op = call.op /\ call'.of = call.of
<1>1. call.main = "select" /\ left' = left /\ res' = res
  BY DEF Select
<1>2. call # NoCall
  BY <1>1 DEF NoCall
<1>3. /\ call \in CallSet /\ Decided(call) /\ Fits(call, res[call.of])
      /\ \A c \in left : c.of # call.of
  BY <1>2 DEF CallInv, CallOK
<1>4. PICK b \in {"ok", "failed"} :
        /\ call' = [call EXCEPT !.main = "exit", !.ret = b]
        /\ b = "ok" => call.body = "ok"
  BY <1>1, <1>3, ZenonT(30) DEF Select, CallSet, Decided
<1>5. /\ call' \in CallSet /\ call'.op = call.op /\ call'.of = call.of
      /\ Decided(call') /\ Fits(call', res[call.of])
  BY <1>1, <1>3, <1>4, ZenonT(30) DEF CallSet, Decided, Fits, Openers, Closers
<1>6. CallOK(call', left, res)
  BY <1>3, <1>5 DEF CallOK
<1>7. KeepsFree
  BY <1>1 DEF KeepsFree
<1>8. call' # NoCall
  BY <1>5 DEF CallSet, NoCall
<1> QED
  BY <1>1, <1>2, <1>5, <1>6, <1>7, <1>8 DEF CallInv

\* doAsync returns: the goroutine keeps what it may still change, and the driver
\* gets the resource of a call that went well.
LEMMA ReturnStep ==
  ASSUME CallInv, call # NoCall, MayReturn, Leave, res' = res
  PROVE  /\ LeftOK(left', res) /\ KeepsFree
         /\ call.of \in Resources
         /\ call.op \in Openers \cup {"start"} /\ call.ret = "ok" => Free(call.of, left', res)
         /\ call.op = "wait" => Free(call.of, left', res)
         /\ \A c \in left' : c \in left \cup {call} /\ c.body # "finished"
<1>1. /\ call \in CallSet /\ Decided(call) /\ Fits(call, res[call.of])
      /\ \A c \in left : c.of # call.of
  BY DEF CallInv, CallOK
<1>2. LeftOK(left, res)
  BY DEF CallInv
<1>3. call.main = "exit" /\ call.ret # "none"
  BY <1>1 DEF MayReturn, Decided
<1>4. /\ left' = left \/ (left' = left \cup {call} /\ Matters(call))
  BY DEF Leave
<1>5. Matters(call) => call.ret = "failed" /\ call.body # "finished" /\ call.op # "wait"
  BY <1>1, <1>3 DEF Matters, Cleans, Decided, HasClean, CallSet
<1>6. LeftOK(left', res)
  BY <1>1, <1>2, <1>4, <1>5 DEF LeftOK
<1>7. KeepsFree
  BY <1>4 DEF KeepsFree, Free
<1>8. call.of \in Resources
  BY <1>1 DEF CallSet
<1>9. ASSUME (call.op \in Openers \cup {"start"} /\ call.ret = "ok") \/ call.op = "wait"
      PROVE  Free(call.of, left', res)
  BY <1>1, <1>4, <1>5, <1>8, <1>9 DEF Free, Fits
<1>10. \A c \in left' : c \in left \cup {call} /\ c.body # "finished"
  BY <1>2, <1>4, <1>5 DEF LeftOK
<1> QED
  BY <1>6, <1>7, <1>8, <1>9, <1>10

\* A call begins, on a new identity or on a resource that the driver has.
LEMMA BeginStep ==
  ASSUME NEW l, NEW r \in Resources, \A c \in l : c.of # r,
         NEW o \in Openers \cup Closers \cup {"start", "wait"},
         o \in Openers => res[r] = "none",
         o \notin Openers => res[r] = "open",
         NEW canceled, DoAsync(o, r, canceled)
  PROVE  CallOK(call', l, res) /\ call' # NoCall /\ call'.op = o /\ call'.of = r
<1>1. PICK m \in {"select", "exit"}, e \in {"none", "failed"} :
        /\ call' = [op |-> o, of |-> r, body |-> "running", main |-> m, ret |-> e]
        /\ m = "exit" <=> e # "none"
  BY DEF DoAsync
<1>2. call' \in CallSet
  BY <1>1 DEF CallSet
<1>3. Decided(call') /\ Fits(call', res[r])
  BY <1>1 DEF Decided, Fits, Openers, Closers
<1> QED
  BY <1>1, <1>2, <1>3 DEF CallOK, NoCall

-----------------------------------------------------------------------------
(* Connections: which resources the driver has. *)

\* The driver has the open resource r, and nobody else does.
Held(r) == Free(r, left, res) /\ call.of # r

\* What the driver has and which call it is in, by where it is.
DriverInv ==
  /\ conn \in Conns \cup {0} /\ fresh \in Conns \cup {0} /\ sess \in Sessions \cup {0}
  /\ pc \in {"start", "dial", "services", "dropNew", "bootID", "replace", "close", "idle",
             "command", "ended"}
  /\ pc \in {"start", "services", "bootID", "idle", "ended"} => call = NoCall
  /\ pc = "dial" => call.op = "dial" /\ call.of = fresh
  /\ pc = "dropNew" => call.op \in {"closeConn", "dropConn"} /\ call.of = fresh
  /\ pc = "close" => call.op = "closeConn"
  /\ pc = "replace" => call = NoCall \/ (call.op = "closeConn" /\ call.of = conn)
  /\ pc = "command" => call = NoCall \/ call.op \in {"newSession", "start", "wait", "closeSession"}
  /\ pc \in {"dial", "services", "dropNew"} => op \in {"new", "ensure"}
  /\ pc \in {"services", "bootID", "replace"} => Held(fresh) /\ fresh # conn
  /\ pc \in {"start", "bootID"} => conn = 0
  /\ op = "ensure" \/ pc \in {"replace", "idle", "command"} => conn # 0
  /\ op = "new" => conn = 0
  /\ conn # 0 /\ pc # "close" /\ ~(pc = "replace" /\ call # NoCall) => Held(conn)
  /\ pc = "command" /\ call.op = "newSession" => call.of \in Sessions
  /\ pc = "command" /\ call.op \in {"start", "wait", "closeSession"} => call.of = sess
  /\ pc = "command" /\ call.op \in {"none", "newSession", "start"} => state = "started"
  /\ pc = "command" /\ call = NoCall => Held(sess)

ResourceInv == CallInv /\ DriverInv

\* A new identity is that of no goroutine.
LEMMA FreshIsNew ==
  ASSUME NEW S, S \subseteq Resources, Unused(S) # {}
  PROVE  /\ Fresh(S) \in S /\ res[Fresh(S)] = "none"
         /\ \A c \in left \cup {call} : c.of = Fresh(S) => c.body = "finished"
<1>1. Fresh(S) \in Unused(S)
  BY DEF Fresh
<1> QED
  BY <1>1 DEF Unused

\* The driver, outside of a call, begins one on a new identity.
LEMMA BeginNew ==
  ASSUME CallInv, call = NoCall, NEW S, S \subseteq Resources, Unused(S) # {},
         NEW o \in Openers, NEW canceled, DoAsync(o, Fresh(S), canceled),
         UNCHANGED <<left, res>>
  PROVE  /\ CallInv' /\ call' # NoCall /\ call'.op = o /\ call'.of = Fresh(S)
         /\ Fresh(S) \in S
         /\ \A r : Held(r) => Held(r)'
<1>1. /\ Fresh(S) \in S /\ res[Fresh(S)] = "none"
      /\ \A c \in left : c.of # Fresh(S)
  BY FreshIsNew DEF CallInv, LeftOK
<1>2. CallOK(call', left, res) /\ call' # NoCall /\ call'.op = o /\ call'.of = Fresh(S)
  <2> DEFINE r == Fresh(S)
  <2>1. r \in Resources /\ DoAsync(o, r, canceled) /\ res[r] = "none" /\ \A c \in left : c.of # r
    BY <1>1
  <2> HIDE DEF r
  <2>2. CallOK(call', left, res) /\ call' # NoCall /\ call'.op = o /\ call'.of = r
    BY <2>1, BeginStep
  <2> QED
    BY <2>2 DEF r
<1>3. \A r : Held(r) => Held(r)'
  BY <1>1, <1>2 DEF Held, Free
<1> QED
  BY <1>1, <1>2, <1>3 DEF CallInv

\* The driver, outside of a call, begins one on a resource it has.
LEMMA BeginHeld ==
  ASSUME CallInv, call = NoCall, NEW r, Held(r),
         NEW o \in Closers \cup {"start", "wait"}, NEW canceled, DoAsync(o, r, canceled),
         UNCHANGED <<left, res>>
  PROVE  /\ CallInv' /\ call' # NoCall /\ call'.op = o /\ call'.of = r
         /\ \A q : q # r /\ Held(q) => Held(q)'
<1>1. CallOK(call', left, res) /\ call' # NoCall /\ call'.op = o /\ call'.of = r
  BY BeginStep DEF Held, Free, Openers, Closers
<1> QED
  BY <1>1 DEF CallInv, Held, Free

\* doAsync returns and the driver is outside of a call.
LEMMA ReturnOnly ==
  ASSUME CallInv, call # NoCall, MayReturn, Leave, res' = res, call' = NoCall
  PROVE  /\ CallInv'
         /\ \A r : Held(r) => Held(r)'
         /\ call.op \in Openers \cup {"start"} /\ call.ret = "ok" =>
              Free(call.of, left', res') /\ call'.of # call.of
<1>1. /\ LeftOK(left', res') /\ CallOK(call', left', res')
  BY ReturnStep DEF CallOK
<1>2. \A r \in Resources : Free(r, left', res') => Held(r)'
  BY ResourceAssumption DEF Held, Free, NoCall, Resources
<1>3. \A r : Held(r) => Held(r)'
  BY <1>2, ReturnStep DEF Held, KeepsFree, Free
<1>4. ASSUME call.op \in Openers \cup {"start"}, call.ret = "ok"
      PROVE  Free(call.of, left', res')
  BY <1>4, ReturnStep
<1>5. Free(call.of, left', res') => Free(call.of, left', res') /\ call'.of # call.of
  BY ResourceAssumption DEF Free, NoCall, Resources
<1> QED
  BY <1>1, <1>3, <1>4, <1>5 DEF CallInv, Held

\* doAsync returns and the driver begins a call on a new identity.
LEMMA ReturnThenNew ==
  ASSUME CallInv, call # NoCall, MayReturn, Leave, res' = res,
         NEW S, S \subseteq Resources, Unused(S) # {},
         NEW o \in Openers, NEW canceled, DoAsync(o, Fresh(S), canceled)
  PROVE  /\ CallInv' /\ call' # NoCall /\ call'.op = o /\ call'.of = Fresh(S)
         /\ Fresh(S) \in S
         /\ \A r : Held(r) => Held(r)'
<1> DEFINE f == Fresh(S)
<1>1. /\ f \in S /\ f \in Resources /\ res[f] = "none" /\ DoAsync(o, f, canceled)
      /\ \A c \in left \cup {call} : c.of = f => c.body = "finished"
  BY FreshIsNew
<1> HIDE DEF f
<1>2. \A c \in left' : c.of # f
  BY <1>1, ReturnStep
<1>3. CallOK(call', left', res) /\ call' # NoCall /\ call'.op = o /\ call'.of = f
  BY <1>1, <1>2, BeginStep, ZenonT(30)
<1>4. \A r : Held(r) => Held(r)'
  BY <1>1, <1>3, ReturnStep DEF Held, KeepsFree, Free
<1>5. CallInv'
  BY <1>3, ReturnStep DEF CallInv
<1> QED
  BY <1>1, <1>3, <1>4, <1>5 DEF f

\* doAsync returns and the driver begins the next call on the same resource.
LEMMA ReturnThenUse ==
  ASSUME CallInv, call # NoCall, MayReturn, Leave, res' = res,
         Free(call.of, left', res),
         NEW o \in Closers \cup {"start", "wait"}, NEW canceled, DoAsync(o, call.of, canceled)
  PROVE  /\ CallInv' /\ call' # NoCall /\ call'.op = o /\ call'.of = call.of
         /\ \A r : Held(r) => Held(r)'
<1> DEFINE f == call.of
<1>1. /\ f \in Resources /\ res[f] = "open" /\ DoAsync(o, f, canceled)
      /\ \A c \in left' : c.of # f
  BY DEF Free
<1> HIDE DEF f
<1>2. CallOK(call', left', res) /\ call' # NoCall /\ call'.op = o /\ call'.of = f
  BY <1>1, BeginStep DEF Openers, Closers
<1>3. \A r : Held(r) => Held(r)'
  BY <1>2, ReturnStep DEF Held, KeepsFree, Free, f
<1>4. CallInv'
  BY <1>2, ReturnStep DEF CallInv
<1> QED
  BY <1>2, <1>3, <1>4 DEF f

-----------------------------------------------------------------------------
\* The steps that begin an operation of the driver.
LEMMA BeginActions ==
  ASSUME ResourceInv, New \/ EnsureConn \/ CloseCache \/ StartCommand \/ Wait \/ Replace
  PROVE  ResourceInv'
<1> USE DEF ResourceInv
<1>1. Conns \subseteq Resources /\ Sessions \subseteq Resources
  BY DEF Resources
<1>2. CASE New \/ EnsureConn
  <2>1. call = NoCall /\ Unused(Conns) # {} /\ UNCHANGED <<left, res>>
    BY <1>2 DEF New, EnsureConn, DriverInv
  <2>2. /\ pc' = "dial" /\ fresh' = Fresh(Conns) /\ DoAsync("dial", Fresh(Conns), done)
        /\ conn' = conn /\ op' \in {"new", "ensure"}
        /\ (op' = "new" => pc = "start") /\ (op' = "ensure" => pc = "idle")
    BY <1>2 DEF New, EnsureConn, Dial
  <2>3. /\ CallInv' /\ call' # NoCall /\ call'.op = "dial" /\ call'.of = Fresh(Conns)
        /\ Fresh(Conns) \in Conns /\ \A r : Held(r) => Held(r)'
    BY <1>1, <2>1, <2>2, BeginNew DEF Openers
  <2>4. pc = "start" => conn = 0
    BY DEF DriverInv
  <2>5. DriverInv'
    BY <1>2, <2>2, <2>3, <2>4 DEF DriverInv, New, EnsureConn, cmd
  <2> QED
    BY <2>3, <2>5
<1>3. CASE CloseCache
  <2>1. call = NoCall /\ Held(conn) /\ UNCHANGED <<left, res>>
    BY <1>3 DEF CloseCache, DriverInv
  <2>2. CallInv' /\ call' # NoCall /\ call'.op = "closeConn"
    BY <1>3, <2>1, BeginHeld DEF CloseCache, Closers
  <2>3. DriverInv'
    BY <1>3, <2>2 DEF DriverInv, CloseCache, cmd
  <2> QED
    BY <2>2, <2>3
<1>4. CASE Replace
  <2>1. call = NoCall /\ Held(conn) /\ Held(fresh) /\ fresh # conn /\ UNCHANGED <<left, res>>
    BY <1>4 DEF Replace, DriverInv
  <2>2. /\ CallInv' /\ call' # NoCall /\ call'.op = "closeConn" /\ call'.of = conn
        /\ \A q : q # conn /\ Held(q) => Held(q)'
    BY <1>4, <2>1, BeginHeld DEF Replace, Closers
  <2>3. DriverInv'
    BY <1>4, <2>1, <2>2 DEF DriverInv, Replace, cmd
  <2> QED
    BY <2>2, <2>3
<1>5. CASE StartCommand
  <2>1. call = NoCall /\ Unused(Sessions) # {} /\ UNCHANGED <<left, res>>
    BY <1>5 DEF StartCommand, DriverInv
  <2>2. /\ CallInv' /\ call' # NoCall /\ call'.op = "newSession" /\ call'.of \in Sessions
        /\ \A r : Held(r) => Held(r)'
    BY <1>1, <1>5, <2>1, BeginNew DEF StartCommand, Openers
  <2>3. DriverInv'
    BY <1>5, <2>2 DEF DriverInv, StartCommand
  <2> QED
    BY <2>2, <2>3
<1>6. CASE Wait
  <2>1. call = NoCall /\ Held(sess) /\ pc = "command" /\ UNCHANGED <<left, res>>
    BY <1>6 DEF Wait, DriverInv
  <2>2. Held(conn) /\ conn # sess
    BY <2>1, ResourceAssumption DEF DriverInv, Held, Free, Resources
  <2>3. /\ CallInv' /\ call' # NoCall /\ call'.op = "wait" /\ call'.of = sess
        /\ \A q : q # sess /\ Held(q) => Held(q)'
    BY <1>6, <2>1, BeginHeld DEF Wait, Closers
  <2>4. DriverInv'
    BY <1>6, <2>1, <2>2, <2>3 DEF DriverInv, Wait, driver
  <2> QED
    BY <2>3, <2>4
<1> QED
  BY <1>2, <1>3, <1>4, <1>5, <1>6

\* newConn returns an error, to be called again or not.
LEMMA NewConnFailsStep ==
  ASSUME ResourceInv, pc \in {"dial", "dropNew"}, MayReturn, Leave, NewConnFails,
         UNCHANGED <<conn, cmd, res>>
  PROVE  ResourceInv'
<1> USE DEF ResourceInv
<1>1. call # NoCall /\ op \in {"new", "ensure"} /\ (conn # 0 => Held(conn))
  BY DEF DriverInv, NoCall
<1>2. Conns \subseteq Resources
  BY DEF Resources
<1>3. ASSUME Unused(Conns) # {}, op' = op, NEW canceled, Dial(canceled)
      PROVE  ResourceInv'
  <2>1. /\ CallInv' /\ call' # NoCall /\ call'.op = "dial" /\ call'.of = Fresh(Conns)
        /\ Fresh(Conns) \in Conns /\ \A r : Held(r) => Held(r)'
    BY <1>1, <1>2, <1>3, ReturnThenNew DEF Dial, Openers
  <2>2. DriverInv'
    BY <1>1, <1>3, <2>1 DEF DriverInv, Dial, cmd
  <2> QED
    BY <2>1, <2>2
<1>4. ASSUME pc' = (IF op = "new" THEN "ended" ELSE "idle"), Local, Return
      PROVE  ResourceInv'
  <2>1. CallInv' /\ call' = NoCall /\ \A r : Held(r) => Held(r)'
    BY <1>1, <1>4, ReturnOnly DEF Return
  <2>2. DriverInv'
    BY <1>1, <1>4, <2>1 DEF DriverInv, Local, cmd
  <2> QED
    BY <2>1, <2>2
<1> QED
  BY <1>3, <1>4 DEF NewConnFails

\* The steps in which newConn and NewConnCache go on or end.
LEMMA ConnActions ==
  ASSUME ResourceInv, Dialed \/ StartServices \/ DroppedNew \/ ReadBootID \/ ConnClosed
  PROVE  ResourceInv'
<1> USE DEF ResourceInv
<1>1. CASE Dialed
  <2>1. /\ pc = "dial" /\ MayReturn /\ Leave /\ UNCHANGED <<conn, cmd, res>>
        /\ call # NoCall /\ op \in {"new", "ensure"} /\ (conn # 0 => Held(conn))
    BY <1>1 DEF Dialed, DriverInv, NoCall
  <2>2. CASE call.ret = "ok" /\ pc' = "services" /\ Return /\ UNCHANGED <<op, fresh, tries, polls>>
    <3>1. /\ CallInv' /\ call' = NoCall /\ (\A r : Held(r) => Held(r)')
          /\ Free(fresh, left', res') /\ call'.of # fresh
      BY <2>1, <2>2, ReturnOnly DEF Return, DriverInv, Openers
    <3>2. conn # fresh
      BY <2>1, ReturnStep, ResourceAssumption DEF DriverInv, Held, Resources
    <3>3. Held(fresh)'
      BY <2>2, <3>1 DEF Held
    <3>4. DriverInv'
      BY <2>1, <2>2, <3>1, <3>2, <3>3 DEF DriverInv, cmd
    <3> QED
      BY <3>1, <3>4
  <2>3. CASE Unused(Conns) # {} /\ Dial(sub) /\ op' = op
    <3>1. Conns \subseteq Resources
      BY DEF Resources
    <3>2. /\ CallInv' /\ call' # NoCall /\ call'.op = "dial" /\ call'.of = Fresh(Conns)
          /\ Fresh(Conns) \in Conns /\ \A r : Held(r) => Held(r)'
      BY <2>1, <2>3, <3>1, ReturnThenNew DEF Dial, Openers
    <3>3. DriverInv'
      BY <2>1, <2>3, <3>2 DEF DriverInv, Dial, cmd
    <3> QED
      BY <3>2, <3>3
  <2>4. CASE NewConnFails
    BY <2>1, <2>4, NewConnFailsStep
  <2> QED
    BY <1>1, <2>2, <2>3, <2>4 DEF Dialed
<1>2. CASE StartServices
  <2>1. /\ pc = "services" /\ call = NoCall /\ Held(fresh) /\ fresh # conn
        /\ op \in {"new", "ensure"} /\ (conn # 0 => Held(conn))
        /\ UNCHANGED <<op, conn, fresh, cmd, left, res>>
    BY <1>2 DEF StartServices, DriverInv
  <2>2. CASE pc' = (IF op = "new" THEN "bootID" ELSE "replace") /\ call' = call
    <3>1. CallInv' /\ \A r : Held(r) => Held(r)'
      BY <2>1, <2>2 DEF CallInv, Held
    <3>2. DriverInv'
      BY <2>1, <2>2, <3>1 DEF DriverInv, cmd
    <3> QED
      BY <3>1, <3>2
  <2>3. ASSUME pc' = "dropNew", NEW o \in {"closeConn", "dropConn"}, NEW canceled,
               DoAsync(o, fresh, canceled)
        PROVE  ResourceInv'
    <3>1. /\ CallInv' /\ call' # NoCall /\ call'.op = o /\ call'.of = fresh
          /\ \A q : q # fresh /\ Held(q) => Held(q)'
      BY <2>1, <2>3, BeginHeld DEF Closers
    <3>2. DriverInv'
      BY <2>1, <2>3, <3>1 DEF DriverInv, cmd
    <3> QED
      BY <3>1, <3>2
  <2> QED
    BY <1>2, <2>2, <2>3, ZenonT(30) DEF StartServices
<1>3. CASE DroppedNew
  BY <1>3, NewConnFailsStep DEF DroppedNew
<1>4. CASE ReadBootID
  <2>1. /\ pc = "bootID" /\ call = NoCall /\ Held(fresh) /\ conn = 0 /\ fresh \in Conns
        /\ op' = "none" /\ fresh' = 0
        /\ UNCHANGED <<cmd, left, res>>
    BY <1>4, ResourceAssumption DEF ReadBootID, DriverInv, Local, Held, Free, Resources
  <2>2. CASE conn' = fresh /\ pc' = "idle" /\ call' = call
    <3>1. CallInv' /\ \A r : Held(r) => Held(r)'
      BY <2>1, <2>2 DEF CallInv, Held
    <3>2. DriverInv'
      BY <2>1, <2>2, <3>1, ResourceAssumption DEF DriverInv, cmd
    <3> QED
      BY <3>1, <3>2
  <2>3. CASE pc' = "close" /\ DoAsync("closeConn", fresh, done) /\ conn' = conn
    <3>1. CallInv' /\ call' # NoCall /\ call'.op = "closeConn"
      BY <2>1, <2>3, BeginHeld DEF Closers
    <3>2. DriverInv'
      BY <2>1, <2>3, <3>1 DEF DriverInv, cmd
    <3> QED
      BY <3>1, <3>2
  <2> QED
    BY <1>4, <2>2, <2>3 DEF ReadBootID
<1>5. CASE ConnClosed
  <2>1. /\ pc \in {"replace", "close"} /\ MayReturn /\ Leave /\ res' = res /\ call' = NoCall
        /\ UNCHANGED cmd /\ op' = "none" /\ fresh' = 0
    BY <1>5 DEF ConnClosed, Return, Local
  <2>2. call # NoCall
    BY <2>1 DEF MayReturn, NoCall
  <2>3. CallInv' /\ \A r : Held(r) => Held(r)'
    BY <2>1, <2>2, ReturnOnly
  <2>4. pc = "replace" => Held(fresh) /\ fresh \in Conns
    BY ResourceAssumption DEF DriverInv, Held, Free, Resources
  <2>5. DriverInv'
    BY <1>5, <2>1, <2>3, <2>4, ResourceAssumption DEF DriverInv, ConnClosed, cmd
  <2> QED
    BY <2>3, <2>5
<1> QED
  BY <1>1, <1>2, <1>3, <1>4, <1>5

\* The steps of a command, from its session to the end.
LEMMA CommandActions ==
  ASSUME ResourceInv, SessionOpened \/ CommandStarted \/ Waited \/ SessionClosed
  PROVE  ResourceInv'
<1> USE DEF ResourceInv
<1>1. /\ call.op \in {"newSession", "start", "wait", "closeSession"}
      /\ MayReturn /\ Leave /\ res' = res /\ UNCHANGED <<op, conn, fresh>>
  BY DEF SessionOpened, CommandStarted, Waited, SessionClosed, driver
<1>2. call # NoCall
  BY <1>1 DEF NoCall
<1>3. pc = "command"
  BY <1>1, <1>2 DEF DriverInv
<1>4. Held(conn) /\ conn # 0
  BY <1>3 DEF DriverInv
<1>5. ASSUME CommandDone
      PROVE  ResourceInv'
  <2>1. CallInv' /\ call' = NoCall /\ \A r : Held(r) => Held(r)'
    BY <1>1, <1>2, <1>5, ReturnOnly DEF CommandDone, Return
  <2>2. DriverInv'
    BY <1>1, <1>3, <1>4, <1>5, <2>1 DEF DriverInv, CommandDone
  <2> QED
    BY <2>1, <2>2
<1>6. CASE SessionOpened /\ call.ret = "ok"
  <2>1. /\ Free(call.of, left', res) /\ call.of \in Sessions
        /\ sess' = call.of /\ DoAsync("start", call.of, done) /\ UNCHANGED <<pc, state>>
    BY <1>1, <1>2, <1>3, <1>6, ReturnStep DEF SessionOpened, DriverInv, Openers
  <2>2. /\ CallInv' /\ call' # NoCall /\ call'.op = "start" /\ call'.of = call.of
        /\ \A r : Held(r) => Held(r)'
    BY <1>1, <1>2, <2>1, ReturnThenUse
  <2>3. state = "started"
    BY <1>3, <1>6 DEF DriverInv, SessionOpened
  <2>4. DriverInv'
    BY <1>1, <1>3, <1>4, <2>1, <2>2, <2>3 DEF DriverInv
  <2> QED
    BY <2>2, <2>4
<1>7. CASE CommandStarted /\ call.ret = "ok"
  <2>1. call.op = "start" /\ call.of = sess /\ call' = NoCall /\ UNCHANGED <<pc, sess, state>>
    BY <1>3, <1>7 DEF CommandStarted, DriverInv, Return, cmd
  <2>2. /\ CallInv' /\ (\A r : Held(r) => Held(r)')
        /\ Free(sess, left', res') /\ call'.of # sess
    BY <1>1, <1>2, <1>7, <2>1, ReturnOnly
  <2>3. state = "started"
    BY <1>3, <2>1 DEF DriverInv
  <2>4. Held(sess)'
    BY <2>1, <2>2 DEF Held
  <2>5. DriverInv'
    BY <1>1, <1>3, <1>4, <2>1, <2>2, <2>3, <2>4 DEF DriverInv, NoCall
  <2> QED
    BY <2>2, <2>5
<1>8. CASE Waited
  <2>1. /\ call.op = "wait" /\ call.of = sess /\ Free(call.of, left', res)
        /\ DoAsync("closeSession", call.of, sub) /\ UNCHANGED <<pc, sess, state>>
    BY <1>1, <1>2, <1>3, <1>8, ReturnStep DEF Waited, DriverInv, driver
  <2>2. /\ CallInv' /\ call' # NoCall /\ call'.op = "closeSession" /\ call'.of = call.of
        /\ \A r : Held(r) => Held(r)'
    BY <1>1, <1>2, <2>1, ReturnThenUse DEF Closers
  <2>3. DriverInv'
    BY <1>1, <1>3, <1>4, <2>1, <2>2 DEF DriverInv
  <2> QED
    BY <2>2, <2>3
<1> QED
  BY <1>5, <1>6, <1>7, <1>8, ZenonT(30) DEF SessionOpened, CommandStarted, SessionClosed

\* What the driver has, it keeps while others take steps.
LEMMA HeldKept ==
  ASSUME KeepsFree, call'.of = call.of
  PROVE  \A r : Held(r) => Held(r)'
  BY DEF Held, KeepsFree, Free

\* DriverInv depends on nothing of the call but its operation and its resource.
LEMMA DriverFrame ==
  ASSUME DriverInv, UNCHANGED <<pc, op, conn, fresh, sess, state>>,
         call' = NoCall <=> call = NoCall, call'.op = call.op, call'.of = call.of,
         \A r : Held(r) => Held(r)'
  PROVE  DriverInv'
  BY DEF DriverInv

\* The steps of goroutines and contexts.
LEMMA BackgroundActions ==
  ASSUME ResourceInv,
         Caller \/ Goroutine \/ Propagates \/ AbortCommand \/ ContextStep \/ UNCHANGED vars
  PROVE  ResourceInv'
<1> USE DEF ResourceInv
<1>1. UNCHANGED <<pc, op, conn, fresh, sess, state>>
  BY  DEF Caller, Goroutine, Propagates, AbortCommand, ContextStep, Context,
         DeferredCancel, vars, driver, cmd
<1>2. CASE UNCHANGED <<call, left, res>>
  <2>1. CallInv' /\ \A r : Held(r) => Held(r)'
    BY <1>2 DEF CallInv, Held
  <2> QED
    BY <1>1, <1>2, <2>1, DriverFrame
<1>3. ASSUME CallInv', KeepsFree, call # NoCall, call' # NoCall, call'.op = call.op,
             call'.of = call.of
      PROVE  ResourceInv'
  BY <1>1, <1>3, HeldKept, DriverFrame
<1>4. ASSUME CallInv', KeepsFree, call' = call
      PROVE  ResourceInv'
  BY <1>1, <1>4, HeldKept, DriverFrame
<1>5. CASE Caller
  BY <1>3, <1>5, SelectStep DEF Caller
<1>6. CASE Goroutine
  BY <1>3, <1>4, <1>6, CallGoroutineStep, LeftGoroutineStep DEF Goroutine
<1>7. CASE Propagates \/ AbortCommand \/ ContextStep \/ UNCHANGED vars
  BY <1>2, <1>7  DEF Propagates, SubCanceled, AbortCommand, Abort, ContextStep, Context,
                    DeferredCancel, asyncVars, vars
<1> QED
  BY <1>5, <1>6, <1>7

\* Every open resource has one owner, always.
LEMMA OneOwner == Spec => []ResourceInv
<1>1. Init => ResourceInv
  BY  DEF Init, AsyncInit, ResourceInv, CallInv, LeftOK, CallOK, DriverInv, Resources,
         Values
<1>2. ResourceInv /\ [Next]_vars => ResourceInv'
  BY BeginActions, ConnActions, CommandActions, BackgroundActions DEF Next, Driver
<1> QED
  BY <1>1, <1>2, PTL DEF Spec

\* ClosedOnce: no connection and no session is ever closed twice.
THEOREM NothingClosedTwice == Spec => []ClosedOnce
<1>1. ResourceInv => ClosedOnce
  BY DEF ResourceInv, CallInv, LeftOK, ClosedOnce, Values
<1> QED
  BY <1>1, OneOwner, PTL

\* SessionHeld: a command that runs has its session, whatever calls were canceled
\* before and however late their goroutines are.
THEOREM SessionIsHeld == Spec => []SessionHeld
<1>1. ResourceInv => SessionHeld
  BY DEF ResourceInv, DriverInv, Held, Free, SessionHeld
<1> QED
  BY <1>1, OneOwner, PTL
==============================================================================
