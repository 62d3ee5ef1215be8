------------------------ MODULE ConnectionLeakProofs ------------------------
(***************************************************************************)
(* Nothing leaks in Connections: every connection and session that is open *)
(* has an owner, and an owner other than the driver is going to close it.  *)
(* So once the driver is idle and the goroutines that outlived their calls *)
(* are done, no connection is open but the cached one.                     *)
(*                                                                         *)
(* ConnectionsProofs shows that there is at most one owner; here it is     *)
(* that there is at least one.                                             *)
(***************************************************************************)
EXTENDS ConnectionsProofs

\* The driver is responsible for r: it is the cached connection, the one newConn
\* is making, or the session of the command.
Mine(r) ==
  \/ r = conn
  \/ r = fresh /\ pc \in {"services", "bootID", "replace"}
  \/ r = sess /\ pc = "command" /\ call = NoCall

\* A goroutine, of the current call or of one that was left, has r.
Owned(r) == call.of = r \/ \E c \in left : c.of = r

\* Call c has done to its resource what it is going to do.
Settled(c) ==
  \/ c.op \in HasClean /\ c.ret = "failed" /\ c.body = "finished"
  \/ c.op \in Closers /\ c.body # "running"

\* What a call was to close, is closed.
SettleInv ==
  /\ \A c \in left : c.op # "wait" /\ (Settled(c) => res[c.of] # "open")
  /\ call # NoCall /\ Settled(call) => res[call.of] # "open"

\* Everything that is open is somebody's.
LeakInv == \A r \in Resources : res[r] = "open" => Mine(r) \/ Owned(r)

\* The variables that the arguments so far said nothing about have their types.
VarTypes ==
  /\ sub \in BOOLEAN /\ aborted \in BOOLEAN /\ pipes \in BOOLEAN
  /\ op \in {"none", "new", "ensure"} /\ tries \in 0 .. Retries
  /\ state \in {"started", "closing", "done"}

\* Which services run, by where the driver is.
ServicesInv ==
  /\ pc \notin {"bootID", "replace", "close"} => svcs = {conn} \ {0}
  /\ pc \in {"bootID", "replace"} /\ call = NoCall => svcs = ({conn} \ {0}) \cup {fresh}
  /\ pc = "replace" /\ call # NoCall => svcs = {fresh}
  /\ pc = "close" => svcs = {} /\ (conn = 0 \/ call.of = conn)

\* A command that is done, or whose session is being closed, has closed its pipes.
CommandInv ==
  /\ pc = "command" => state # "done"
  /\ state = "done" \/ call.op = "closeSession" => ~pipes

CacheInv == VarTypes /\ ServicesInv /\ CommandInv

NoLeakInv == CauseInv /\ ResourceInv /\ SettleInv /\ LeakInv /\ CacheInv

\* The last step of a goroutine leaves nothing open that was to be closed.
LEMMA GoStepSettles ==
  ASSUME res \in [Resources -> Values],
         NEW c \in CallSet, Decided(c), Fits(c, res[c.of]), Settled(c) => res[c.of] # "open",
         NEW n \in GoSteps(c)
  PROVE  Settled(n[1]) => n[2] # "open"
<1>1. CASE c.body = "running"
  <2>1. PICK o \in Outcomes(c) : n = <<[c EXCEPT !.body = o[1]], o[2]>>
    BY <1>1 DEF GoSteps
  <2>2. o[1] # "finished"
    <3>1. CASE c.op = "dial"
      BY <3>1 DEF Outcomes
    <3>2. CASE c.op = "newSession"
      BY <3>2 DEF Outcomes
    <3>3. CASE c.op \in {"start", "wait"}
      BY <3>3 DEF Outcomes
    <3>4. CASE c.op \in Closers
      BY <3>4 DEF Outcomes, Closers
    <3>5. QED
      BY <3>1, <3>2, <3>3, <3>4 DEF CallSet, Openers, Closers
  <2>3. c.op \in Closers => o[2] # "open"
    BY <1>1 DEF Outcomes, Closers, Close, Fits
  <2>4. n[1].op = c.op /\ n[1].body = o[1] /\ n[2] = o[2]
    BY <2>1 DEF CallSet
  <2>5. QED
    BY <2>2, <2>3, <2>4 DEF Settled
<1>2. CASE c.body # "running"
  <2>1. /\ c.body # "finished" /\ c.ret # "none"
        /\ n = <<[c EXCEPT !.body = "finished"],
                 IF c.ret = "failed" /\ c.op \in HasClean /\ res[c.of] # "none"
                 THEN Close(c.of) ELSE res[c.of]>>
    BY <1>2 DEF GoSteps, Cleans
  <2>2. n[1].op = c.op /\ n[1].ret = c.ret
    BY <2>1 DEF CallSet
  <2>3. c.op \in HasClean /\ res[c.of] # "none" => Close(c.of) = "closed"
    BY <2>1 DEF Fits, Close
  <2>4. QED
    BY <1>2, <2>1, <2>2, <2>3 DEF Settled
<1>3. QED
  BY <1>1, <1>2

\* The goroutine of the current call keeps what it opens.
LEMMA CallGoroutineOwns ==
  ASSUME CallInv, SettleInv, CallGoroutine
  PROVE  /\ SettleInv'
         /\ \A r \in Resources : res'[r] = "open" => Owned(r)' \/ (res[r] = "open" /\ ~Owned(r))
<1>1. PICK n \in GoSteps(call) : call' = n[1] /\ res' = [res EXCEPT ![call.of] = n[2]]
  BY ZenonT(30) DEF CallGoroutine
<1>2. left' = left
  BY DEF CallGoroutine
<1>3. call # NoCall /\ call'.of = call.of
  BY CallGoroutineStep
<1>4. /\ call \in CallSet /\ Decided(call) /\ Fits(call, res[call.of])
      /\ \A c \in left : c.of # call.of
  BY <1>3 DEF CallInv, CallOK
<1>5. res \in [Resources -> Values] /\ call.of \in Resources /\ \A c \in left : c.of \in Resources
  BY <1>4 DEF CallInv, LeftOK, CallSet
<1>6. Settled(n[1]) => n[2] # "open"
  BY <1>3, <1>4, <1>5, GoStepSettles DEF SettleInv
<1>7. res'[call.of] = n[2] /\ \A r \in Resources : r # call.of => res'[r] = res[r]
  BY <1>1, <1>5
<1>8. SettleInv'
  BY <1>1, <1>2, <1>3, <1>4, <1>5, <1>6, <1>7 DEF SettleInv
<1>9. QED
  BY <1>2, <1>3, <1>7, <1>8 DEF Owned

\* So does one that outlived its call; when it ends nothing of it is open.
LEMMA LeftGoroutineOwns ==
  ASSUME CallInv, SettleInv, NEW c \in left, LeftGoroutine(c)
  PROVE  /\ SettleInv'
         /\ \A r \in Resources : res'[r] = "open" => Owned(r)' \/ (res[r] = "open" /\ ~Owned(r))
<1>1. PICK n \in GoSteps(c) :
        /\ res' = [res EXCEPT ![c.of] = n[2]]
        /\ left' = (left \ {c}) \cup {d \in {n[1]} : d.body # "finished" /\ Cleans(d, n[2])}
  BY ZenonT(30) DEF LeftGoroutine
<1>2. call' = call
  BY DEF LeftGoroutine
<1>3. /\ res \in [Resources -> Values]
      /\ c \in CallSet /\ c.ret = "failed" /\ Decided(c) /\ Fits(c, res[c.of])
      /\ c.of \in Resources /\ c.op # "wait" /\ (Settled(c) => res[c.of] # "open")
      /\ \A d \in left : d.of \in Resources /\ (d.of = c.of => d = c)
  BY DEF CallInv, LeftOK, CallSet, SettleInv
<1>4. /\ n[1] \in CallSet /\ n[1].of = c.of /\ n[1].op = c.op /\ n[1].ret = c.ret
      /\ n[1].body # "running"
  BY <1>1, <1>3, GoStepFits
<1>5. Settled(n[1]) => n[2] # "open"
  BY <1>1, <1>3, GoStepSettles
<1>6. res'[c.of] = n[2] /\ \A r \in Resources : r # c.of => res'[r] = res[r]
  BY <1>1, <1>3
<1>7. \A d \in left' : (d \in left /\ d # c) \/ d = n[1]
  BY <1>1
<1>8. call # NoCall => call.of \in Resources /\ call.of # c.of
  BY DEF CallInv, CallOK, CallSet
<1>9. \A d \in left' : d.op # "wait" /\ (Settled(d) => res'[d.of] # "open")
  <2> TAKE d \in left'
  <2>1. CASE d \in left /\ d # c
    BY <1>3, <1>6, <2>1 DEF SettleInv
  <2>2. CASE d = n[1]
    BY <1>3, <1>4, <1>5, <1>6, <2>2
  <2>3. QED
    BY <1>7, <2>1, <2>2
<1>10. SettleInv'
  BY <1>2, <1>6, <1>8, <1>9 DEF SettleInv
<1>11. n[2] = "open" => n[1].body # "finished" /\ n[1].op \in HasClean
  BY <1>3, <1>4, <1>5 DEF Settled, HasClean, CallSet, Openers, Closers
<1>12. n[2] = "open" => n[1] \in left'
  BY <1>1, <1>3, <1>4, <1>11 DEF Cleans
<1>13. \A d \in left : d # c => d \in left'
  BY <1>1
<1>14. ASSUME NEW r \in Resources, res'[r] = "open"
       PROVE  Owned(r)' \/ (res[r] = "open" /\ ~Owned(r))
  <2>1. CASE r = c.of
    BY <1>4, <1>6, <1>12, <1>14, <2>1 DEF Owned
  <2>2. CASE r # c.of
    BY <1>2, <1>6, <1>13, <1>14, <2>2 DEF Owned
  <2>3. QED
    BY <2>1, <2>2
<1>15. QED
  BY <1>10, <1>14

\* The second select settles nothing.
LEMMA SelectOwns ==
  ASSUME CallInv, SettleInv, Select
  PROVE  SettleInv' /\ \A r : Owned(r) => Owned(r)'
<1>1. call.main = "select" /\ left' = left /\ res' = res
  BY DEF Select
<1>2. call # NoCall /\ call'.op = call.op /\ call'.of = call.of
  BY SelectStep
<1>3. call \in CallSet /\ call.body # "finished"
  BY <1>1, <1>2 DEF CallInv, CallOK, Decided
<1>4. call'.body = call.body
  BY <1>3, ZenonT(30) DEF Select, CallSet
<1>5. SettleInv'
  BY <1>1, <1>2, <1>3, <1>4 DEF SettleInv, Settled
<1>6. QED
  BY <1>1, <1>2, <1>5 DEF Owned

\* doAsync returns: what is still open of its resource, the goroutine closes, unless
\* the driver gets it back.
LEMMA ReturnOwns ==
  ASSUME CallInv, SettleInv, call # NoCall, MayReturn, Leave, res' = res
  PROVE  /\ left \subseteq left'
         /\ \A c \in left' : c.op # "wait" /\ (Settled(c) => res[c.of] # "open")
         /\ res[call.of] = "open" =>
              \/ \E c \in left' : c.of = call.of
              \/ call.op \in Openers \cup {"start"} /\ call.ret = "ok"
              \/ call.op = "wait"
<1>1. call \in CallSet /\ Decided(call) /\ call.main = "exit" /\ call.ret # "none"
  BY DEF CallInv, CallOK, MayReturn, Decided
<1>2. left' = left \cup {c \in {call} : Matters(c)}
  BY DEF Leave
<1>3. Matters(call) => call \in left' /\ call.op # "wait"
  BY <1>1, <1>2 DEF Matters, Cleans, HasClean
<1>4. \A c \in left' : c.op # "wait" /\ (Settled(c) => res[c.of] # "open")
  BY <1>2, <1>3 DEF SettleInv
<1>5. ASSUME res[call.of] = "open", ~Matters(call), call.op # "wait"
      PROVE  call.op \in Openers \cup {"start"} /\ call.ret = "ok"
  <2>1. call.body # "running"
    BY <1>5 DEF Matters
  <2>2. ~Settled(call)
    BY <1>5 DEF SettleInv
  <2>3. call.op \in Openers \cup {"start"} /\ call.op \in HasClean
    BY <1>1, <1>5, <2>1, <2>2 DEF Settled, CallSet, HasClean, Openers
  <2>4. call.ret # "failed"
    BY <1>5, <2>2, <2>3 DEF Matters, Cleans, Settled
  <2>5. QED
    BY <1>1, <2>3, <2>4 DEF CallSet
<1>6. QED
  BY <1>2, <1>3, <1>4, <1>5

\* A call that begins has not settled.
LEMMA BeginUnsettled ==
  ASSUME NEW o, NEW r, NEW canceled, DoAsync(o, r, canceled)
  PROVE  ~Settled(call')
  BY DEF DoAsync, Settled

\* doAsync returns, and what the driver had it still has, or has passed to a call.
LEMMA ReturnKeeps ==
  ASSUME CallInv, SettleInv, LeakInv, call # NoCall, MayReturn, Leave, res' = res,
         call' = NoCall \/ ~Settled(call'),
         \A r \in Resources : Mine(r) => Mine(r)' \/ Owned(r)' \/ r = call.of,
         (call.op \in Openers \cup {"start"} /\ call.ret = "ok") \/ call.op = "wait" =>
           \A r \in Resources : r = call.of => Mine(r)' \/ call'.of = r
  PROVE  SettleInv' /\ LeakInv'
<1>1. SettleInv'
  BY ReturnOwns DEF SettleInv
<1>2. ASSUME NEW r \in Resources, res'[r] = "open"
      PROVE  Mine(r)' \/ Owned(r)'
  <2>1. Mine(r) \/ Owned(r)
    BY <1>2 DEF LeakInv
  <2>2. CASE r = call.of
    <3>1. \/ \E c \in left' : c.of = call.of
          \/ (call.op \in Openers \cup {"start"} /\ call.ret = "ok") \/ call.op = "wait"
      BY <1>2, <2>2, ReturnOwns
    <3>2. \/ \E c \in left' : c.of = r
          \/ Mine(r)' \/ call'.of = r
      BY <2>2, <3>1
    <3>3. QED
      BY <3>2 DEF Owned
  <2>3. CASE r # call.of /\ \E c \in left : c.of = r
    BY <2>3, ReturnOwns DEF Owned
  <2>4. CASE Mine(r) /\ r # call.of
    BY <2>4
  <2>5. QED
    BY <2>1, <2>2, <2>3, <2>4 DEF Owned
<1>3. LeakInv'
  BY <1>2 DEF LeakInv
<1>4. QED
  BY <1>1, <1>3

\* The driver is in no call, and what it had it still has, or passes to a call.
LEMMA BeginKeeps ==
  ASSUME CallInv, SettleInv, LeakInv, call = NoCall, UNCHANGED <<left, res>>,
         call' = NoCall \/ ~Settled(call'),
         \A r \in Resources : Mine(r) => Mine(r)' \/ call'.of = r
  PROVE  SettleInv' /\ LeakInv'
<1>1. SettleInv'
  BY DEF SettleInv
<1>2. \A r \in Resources : call.of # r
  BY ResourceAssumption DEF NoCall, Resources
<1>3. LeakInv'
  BY <1>2 DEF LeakInv, Owned
<1>4. QED
  BY <1>1, <1>3

-----------------------------------------------------------------------------
\* Nothing is lost when an operation begins.
LEMMA BeginLeaksNothing ==
  ASSUME ResourceInv, SettleInv, LeakInv, New \/ EnsureConn \/ CloseCache \/ StartCommand \/ Wait \/ Replace
  PROVE  SettleInv' /\ LeakInv'
<1>1. CallInv
  BY DEF ResourceInv
<1>2. call = NoCall /\ UNCHANGED <<left, res>>
  BY  DEF ResourceInv, DriverInv, New, EnsureConn, CloseCache, StartCommand, Wait,
         Replace
<1>3. ~Settled(call')
  BY BeginUnsettled DEF New, EnsureConn, Dial, CloseCache, StartCommand, Wait, Replace
<1>4. /\ conn' = conn
      /\ pc \in {"services", "bootID", "replace"} => pc' = pc /\ fresh' = fresh
      /\ pc = "command" => call'.of = sess
  BY DEF New, EnsureConn, CloseCache, StartCommand, Wait, Replace, driver, DoAsync
<1>5. \A r \in Resources : Mine(r) => Mine(r)' \/ call'.of = r
  BY <1>4 DEF Mine
<1>6. QED
  BY <1>1, <1>2, <1>3, <1>5, BeginKeeps

\* newConn returns an error: it has closed what it opened, or a goroutine will.
LEMMA FailureLeaksNothing ==
  ASSUME ResourceInv, SettleInv, LeakInv, pc \in {"dial", "dropNew"}, call.ret # "ok" \/ pc = "dropNew",
         MayReturn, Leave, NewConnFails \/ (\E c : Dial(c)), UNCHANGED <<conn, res>>
  PROVE  SettleInv' /\ LeakInv'
<1>1. CallInv /\ call # NoCall /\ call.op \in {"dial", "closeConn", "dropConn"}
  BY DEF ResourceInv, DriverInv, NoCall
<1>2. call' = NoCall \/ ~Settled(call')
  BY BeginUnsettled DEF NewConnFails, Dial, Return
<1>3. \A r \in Resources : Mine(r) => Mine(r)'
  BY DEF Mine
<1>4. ~((call.op \in Openers \cup {"start"} /\ call.ret = "ok") \/ call.op = "wait")
  BY <1>1 DEF Openers, ResourceInv, DriverInv
<1>5. QED
  BY <1>1, <1>2, <1>3, <1>4, ReturnKeeps

\* Nothing is lost when newConn or NewConnCache goes on or ends.
LEMMA ConnLeaksNothing ==
  ASSUME ResourceInv, SettleInv, LeakInv, ServicesInv,
         Dialed \/ StartServices \/ DroppedNew \/ ReadBootID \/ ConnClosed
  PROVE  SettleInv' /\ LeakInv'
<1>1. CallInv
  BY DEF ResourceInv
<1>2. CASE Dialed /\ call.ret = "ok"
  <2>1. /\ pc = "dial" /\ pc' = "services" /\ MayReturn /\ Leave /\ call' = NoCall
        /\ UNCHANGED <<conn, fresh, res>>
    BY <1>2 DEF Dialed, Return
  <2>2. call # NoCall /\ call.of = fresh
    BY <2>1 DEF ResourceInv, DriverInv, NoCall
  <2>3. \A r \in Resources : Mine(r) => Mine(r)'
    BY <2>1 DEF Mine
  <2>4. \A r \in Resources : r = call.of => Mine(r)'
    BY <2>1, <2>2 DEF Mine
  <2>5. QED
    BY <1>1, <2>1, <2>2, <2>3, <2>4, ReturnKeeps
<1>3. CASE Dialed /\ call.ret # "ok"
  BY <1>3, FailureLeaksNothing DEF Dialed
<1>4. CASE DroppedNew
  BY <1>4, FailureLeaksNothing DEF DroppedNew
<1>5. CASE StartServices
  <2>1. /\ pc = "services" /\ call = NoCall /\ UNCHANGED <<conn, fresh, left, res>>
        /\ \/ pc' \in {"bootID", "replace"} /\ call' = call
           \/ \E o, c : DoAsync(o, fresh, c)
    BY <1>5, ZenonT(30) DEF StartServices, ResourceInv, DriverInv
  <2>2. call' = NoCall \/ ~Settled(call')
    BY <2>1, BeginUnsettled
  <2>3. \A r \in Resources : Mine(r) => Mine(r)' \/ call'.of = r
    BY <2>1 DEF Mine, DoAsync
  <2>4. QED
    BY <1>1, <2>1, <2>2, <2>3, BeginKeeps
<1>6. CASE ReadBootID
  <2>1. /\ pc = "bootID" /\ call = NoCall /\ conn = 0 /\ UNCHANGED <<left, res>>
        /\ \/ conn' = fresh /\ call' = call
           \/ conn' = conn /\ DoAsync("closeConn", fresh, done)
    BY <1>6 DEF ReadBootID, ResourceInv, DriverInv
  <2>2. call' = NoCall \/ ~Settled(call')
    BY <2>1, BeginUnsettled
  <2>3. \A r \in Resources : r # 0
    BY ResourceAssumption DEF Resources
  <2>4. \A r \in Resources : Mine(r) => Mine(r)' \/ call'.of = r
    BY <2>1, <2>3 DEF Mine, DoAsync
  <2>5. QED
    BY <1>1, <2>1, <2>2, <2>4, BeginKeeps
<1>7. CASE ConnClosed
  <2>1. /\ pc \in {"replace", "close"} /\ MayReturn /\ Leave /\ res' = res /\ call' = NoCall
        /\ IF pc = "replace" THEN conn' = fresh ELSE conn' = 0
    BY <1>7 DEF ConnClosed, Return
  <2>2. call # NoCall
    BY <2>1 DEF MayReturn, NoCall
  <2>3. /\ call.op = "closeConn" /\ (conn = 0 \/ call.of = conn)
    BY <2>1, <2>2 DEF ResourceInv, DriverInv, ServicesInv
  <2>4. \A r \in Resources : r # 0
    BY ResourceAssumption DEF Resources
  <2>5. \A r \in Resources : Mine(r) => Mine(r)' \/ r = call.of
    BY <2>1, <2>3, <2>4 DEF Mine
  <2>6. ~((call.op \in Openers \cup {"start"} /\ call.ret = "ok") \/ call.op = "wait")
    BY <2>3 DEF Openers
  <2>7. QED
    BY <1>1, <2>1, <2>2, <2>5, <2>6, ReturnKeeps
<1>8. QED
  BY <1>2, <1>3, <1>4, <1>5, <1>6, <1>7

\* Nothing is lost in a command.
LEMMA CommandLeaksNothing ==
  ASSUME ResourceInv, SettleInv, LeakInv, SessionOpened \/ CommandStarted \/ Waited \/ SessionClosed
  PROVE  SettleInv' /\ LeakInv'
<1>1. /\ call.op \in {"newSession", "start", "wait", "closeSession"}
      /\ MayReturn /\ Leave /\ res' = res /\ conn' = conn
  BY DEF SessionOpened, CommandStarted, Waited, SessionClosed, driver
<1>2. CallInv /\ call # NoCall /\ pc = "command"
  BY <1>1 DEF ResourceInv, DriverInv, NoCall
<1>3. \A r \in Resources : Mine(r) => Mine(r)'
  BY <1>1, <1>2 DEF Mine
<1>4. CASE CommandDone /\ call.op # "wait" /\ (call.ret # "ok" \/ call.op = "closeSession")
  <2>1. call' = NoCall
    BY <1>4 DEF CommandDone, Return
  <2>2. ~((call.op \in Openers \cup {"start"} /\ call.ret = "ok") \/ call.op = "wait")
    BY <1>4 DEF Openers
  <2>3. QED
    BY <1>1, <1>2, <1>3, <2>1, <2>2, ReturnKeeps
<1>5. CASE (SessionOpened /\ call.ret = "ok") \/ Waited
  <2>1. \E o, c : DoAsync(o, call.of, c)
    BY <1>2, <1>5 DEF SessionOpened, Waited, ResourceInv, DriverInv
  <2>2. ~Settled(call') /\ call'.of = call.of
    BY <2>1, BeginUnsettled DEF DoAsync
  <2>3. QED
    BY <1>1, <1>2, <1>3, <2>2, ReturnKeeps
<1>6. CASE CommandStarted /\ call.ret = "ok"
  <2>1. call' = NoCall /\ UNCHANGED <<pc, sess>> /\ call.of = sess
    BY <1>2, <1>6 DEF CommandStarted, Return, cmd, ResourceInv, DriverInv
  <2>2. \A r \in Resources : r = call.of => Mine(r)'
    BY <1>2, <2>1 DEF Mine
  <2>3. QED
    BY <1>1, <1>2, <1>3, <2>1, <2>2, ReturnKeeps
<1>7. QED
  BY <1>4, <1>5, <1>6, ZenonT(30) DEF SessionOpened, CommandStarted, SessionClosed

\* Nor while goroutines and contexts take their steps.
LEMMA BackgroundLeaksNothing ==
  ASSUME ResourceInv, SettleInv, LeakInv,
         Caller \/ Goroutine \/ Propagates \/ AbortCommand \/ ContextStep \/ UNCHANGED vars
  PROVE  SettleInv' /\ LeakInv'
<1>1. CallInv
  BY DEF ResourceInv
<1>2. UNCHANGED <<pc, conn, fresh, sess>>
  BY  DEF Caller, Goroutine, Propagates, AbortCommand, ContextStep, Context,
         DeferredCancel, vars, driver, cmd
<1>3. CASE UNCHANGED <<call, left, res>>
  BY <1>2, <1>3, ZenonT(30) DEF SettleInv, LeakInv, Mine, Owned
<1>4. ASSUME call = NoCall => call' = NoCall
      PROVE  \A r : Mine(r) => Mine(r)'
  BY <1>2, <1>4 DEF Mine
<1>5. ASSUME \A r \in Resources : res'[r] = "open" => Owned(r)' \/ (res[r] = "open" /\ ~Owned(r)),
             call = NoCall => call' = NoCall
      PROVE  LeakInv'
  BY <1>4, <1>5, ZenonT(30) DEF LeakInv
<1>6. CASE Caller
  <2>1. SettleInv' /\ (\A r : Owned(r) => Owned(r)') /\ res' = res /\ call # NoCall
    BY <1>1, <1>6, SelectOwns, SelectStep DEF Caller, Select
  <2>2. \A r \in Resources : Mine(r) => Mine(r)'
    BY <1>4, <2>1
  <2>3. QED
    BY <2>1, <2>2 DEF LeakInv
<1>7. CASE Goroutine
  <2>1. CASE CallGoroutine
    BY <1>1, <1>5, <2>1, CallGoroutineOwns, CallGoroutineStep
  <2>2. ASSUME NEW c \in left, LeftGoroutine(c)
        PROVE  SettleInv' /\ LeakInv'
    BY <1>1, <1>5, <2>2, LeftGoroutineOwns, ZenonT(30) DEF LeftGoroutine
  <2>3. QED
    BY <1>7, <2>1, <2>2 DEF Goroutine
<1>8. CASE Propagates \/ AbortCommand \/ ContextStep \/ UNCHANGED vars
  BY <1>3, <1>8  DEF Propagates, SubCanceled, AbortCommand, Abort, ContextStep, Context,
                    DeferredCancel, asyncVars, vars
<1>9. QED
  BY <1>6, <1>7, <1>8

-----------------------------------------------------------------------------
\* What is called, before and after a call begins.
LEMMA CallOps ==
  NoCall.op = "none" /\ \A o, r, c : DoAsync(o, r, c) => call'.op = o
BY DEF NoCall, DoAsync

\* The calls on a session are made by the goroutine that runs the command.
LEMMA CommandCalls ==
  ASSUME DriverInv, call.op \in {"newSession", "start", "wait", "closeSession"}
  PROVE  pc = "command"
BY CallOps DEF DriverInv

\* The types of sub, aborted, pipes, op, tries and state.
LEMMA TypesKept ==
  ASSUME VarTypes, done \in BOOLEAN, [Next]_vars
  PROVE  VarTypes'
<1>1. sub' \in BOOLEAN
  <2>1. ASSUME NEW canceled, Dial(canceled), canceled \in BOOLEAN
        PROVE  sub' \in BOOLEAN
    BY <2>1 DEF Dial
  <2>2. ASSUME NewConnFails PROVE sub' \in BOOLEAN
    <3>1. op = "ensure" \/ done \in BOOLEAN
      OBVIOUS
    <3>2. QED
      BY <2>1, <2>2, <3>1, ZenonT(30) DEF NewConnFails, Return
  <2>3. CASE New \/ EnsureConn
    BY <2>1, <2>3 DEF New, EnsureConn
  <2>4. CASE Dialed \/ DroppedNew
    BY <2>1, <2>2, <2>4, ZenonT(30) DEF Dialed, DroppedNew, VarTypes, Return
  <2>5. CASE StartServices
    BY <2>5, ZenonT(30) DEF StartServices, VarTypes
  <2>6. CASE ReadBootID \/ Replace \/ CloseCache \/ ConnClosed \/ StartCommand
    BY <2>6, ZenonT(30)  DEF ReadBootID, Replace, CloseCache, ConnClosed, StartCommand,
                            VarTypes, Return
  <2>7. CASE SessionOpened \/ CommandStarted \/ Wait \/ Waited \/ SessionClosed
    BY <2>7, ZenonT(30)  DEF SessionOpened, CommandStarted, Wait, Waited, SessionClosed,
                            CommandDone, VarTypes, Return
  <2>8. CASE Caller \/ Goroutine \/ Propagates \/ AbortCommand \/ ContextStep \/ UNCHANGED vars
    BY <2>8, ZenonT(30)  DEF Caller, Select, Goroutine, CallGoroutine, LeftGoroutine,
                            Propagates, SubCanceled, AbortCommand, Abort, ContextStep,
                            Context, DeferredCancel, asyncVars, vars, VarTypes
  <2>9. QED
    BY <2>3, <2>4, <2>5, <2>6, <2>7, <2>8 DEF Next, Driver
<1>2. aborted' \in BOOLEAN /\ pipes' \in BOOLEAN /\ state' \in {"started", "closing", "done"}
  <2>1. CASE New \/ EnsureConn \/ Dialed \/ DroppedNew \/ StartServices
    BY <2>1, ZenonT(30)  DEF New, EnsureConn, Dialed, DroppedNew, StartServices,
                            VarTypes, cmd
  <2>2. CASE ReadBootID \/ Replace \/ CloseCache \/ ConnClosed \/ StartCommand
    BY <2>2, ZenonT(30)  DEF ReadBootID, Replace, CloseCache, ConnClosed, StartCommand,
                            VarTypes, cmd
  <2>3. CASE SessionOpened \/ CommandStarted \/ Wait \/ Waited \/ SessionClosed
    BY <2>3, ZenonT(30)  DEF SessionOpened, CommandStarted, Wait, Waited, SessionClosed,
                            CommandDone, VarTypes, cmd
  <2>4. CASE Caller \/ Goroutine \/ Propagates \/ AbortCommand \/ ContextStep \/ UNCHANGED vars
    BY <2>4, ZenonT(30)  DEF Caller, Select, Goroutine, CallGoroutine, LeftGoroutine,
                            Propagates, SubCanceled, AbortCommand, Abort, ContextStep,
                            Context, DeferredCancel, asyncVars, vars, VarTypes, cmd
  <2>5. QED
    BY <2>1, <2>2, <2>3, <2>4 DEF Next, Driver
<1>3. op' \in {"none", "new", "ensure"} /\ tries' \in 0 .. Retries
  <2>1. 0 \in 0 .. Retries /\ (tries < Retries => tries + 1 \in 0 .. Retries)
    BY RetriesAssumption DEF VarTypes
  <2>2. \/ op' = op \/ op' \in {"none", "new", "ensure"}
    BY ZenonT(30)  DEF Next, Driver, New, EnsureConn, Dialed, NewConnFails, Local,
                      DroppedNew, StartServices, ReadBootID, Replace, CloseCache,
                      ConnClosed, StartCommand, SessionOpened, CommandStarted, Wait,
                      Waited, SessionClosed, Caller, Goroutine, Propagates,
                      AbortCommand, ContextStep, Context, DeferredCancel, vars, driver
  <2>3. tries' \in {tries, 0} \/ (tries < Retries /\ tries' = tries + 1)
    BY ZenonT(30)  DEF Next, Driver, New, EnsureConn, Dialed, NewConnFails, Local,
                      DroppedNew, StartServices, ReadBootID, Replace, CloseCache,
                      ConnClosed, StartCommand, SessionOpened, CommandStarted, Wait,
                      Waited, SessionClosed, Caller, Goroutine, Propagates,
                      AbortCommand, ContextStep, Context, DeferredCancel, vars, driver
  <2>4. QED
    BY <2>1, <2>2, <2>3 DEF VarTypes
<1>4. QED
  BY <1>1, <1>2, <1>3 DEF VarTypes

\* The services that run are those of the connection the driver goes on with.
LEMMA ServicesKept ==
  ASSUME ResourceInv, ServicesInv, [Next]_vars
  PROVE  ServicesInv'
<1>1. DriverInv /\ 0 \notin Conns
  BY ResourceAssumption DEF ResourceInv
<1>2. CASE New \/ EnsureConn
  BY <1>1, <1>2 DEF New, EnsureConn, Dial, ServicesInv
<1>3. CASE Dialed \/ DroppedNew
  <2>1. pc \in {"dial", "dropNew"} /\ pc' \in {"dial", "services", "idle", "ended"} /\ UNCHANGED <<conn, svcs>>
    BY <1>3, ZenonT(30) DEF Dialed, DroppedNew, NewConnFails, Dial
  <2>2. QED
    BY <2>1 DEF ServicesInv
<1>4. CASE StartServices
  <2>1. pc = "services" /\ call = NoCall /\ UNCHANGED <<conn, fresh>>
    BY <1>1, <1>4 DEF StartServices, DriverInv
  <2>2. \/ svcs' = svcs \cup {fresh} /\ pc' \in {"bootID", "replace"} /\ call' = call
        \/ svcs' = svcs /\ pc' = "dropNew"
    BY <1>4, ZenonT(30) DEF StartServices
  <2>3. QED
    BY <2>1, <2>2 DEF ServicesInv
<1>5. CASE ReadBootID
  <2>1. pc = "bootID" /\ call = NoCall /\ conn = 0 /\ fresh \in Conns
    BY <1>1, <1>5 DEF ReadBootID, DriverInv, Held, Free, Resources
  <2>2. svcs = {fresh}
    BY <2>1 DEF ServicesInv
  <2>3. \/ conn' = fresh /\ pc' = "idle" /\ svcs' = svcs
        \/ svcs' = svcs \ {fresh} /\ pc' = "close" /\ conn' = conn
    BY <1>5 DEF ReadBootID
  <2>4. QED
    BY <1>1, <2>1, <2>2, <2>3 DEF ServicesInv
<1>6. CASE Replace
  <2>1. pc = "replace" /\ call = NoCall /\ pc' = pc /\ conn # 0 /\ conn # fresh
        /\ UNCHANGED <<conn, fresh>> /\ svcs' = svcs \ {conn} /\ call'.op = "closeConn"
    BY <1>1, <1>6 DEF Replace, DriverInv, DoAsync
  <2>2. svcs = {conn, fresh}
    BY <2>1 DEF ServicesInv
  <2>3. call' # NoCall
    BY <2>1 DEF NoCall
  <2>4. QED
    BY <2>1, <2>2, <2>3 DEF ServicesInv
<1>7. CASE CloseCache
  <2>1. pc = "idle" /\ pc' = "close" /\ conn' = conn /\ svcs' = svcs \ {conn} /\ call'.of = conn
    BY <1>7 DEF CloseCache, DoAsync
  <2>2. QED
    BY <2>1 DEF ServicesInv
<1>8. CASE ConnClosed
  <2>1. pc \in {"replace", "close"} /\ call # NoCall /\ svcs' = svcs
    BY <1>8 DEF ConnClosed, MayReturn, NoCall
  <2>2. IF pc = "replace" THEN pc' = "idle" /\ conn' = fresh ELSE pc' = "ended" /\ conn' = 0
    BY <1>8 DEF ConnClosed
  <2>3. pc = "replace" => fresh # 0 /\ svcs = {fresh}
    BY <1>1, <2>1, ResourceAssumption DEF DriverInv, ServicesInv, Held, Free, Resources
  <2>4. QED
    BY <2>1, <2>2, <2>3 DEF ServicesInv
<1>9. CASE StartCommand \/ SessionOpened \/ CommandStarted \/ Wait \/ Waited \/ SessionClosed
  <2>1. pc \in {"idle", "command"}
    BY <1>1, <1>9, CommandCalls  DEF StartCommand, SessionOpened, CommandStarted, Wait,
                                    Waited, SessionClosed
  <2>2. pc' \in {"idle", "command"} /\ UNCHANGED <<conn, svcs>>
    BY <1>9, <2>1  DEF StartCommand, SessionOpened, CommandStarted, Wait, Waited,
                      SessionClosed, CommandDone, driver
  <2>3. QED
    BY <2>1, <2>2 DEF ServicesInv
<1>10. CASE Caller \/ Goroutine \/ Propagates \/ AbortCommand \/ ContextStep \/ UNCHANGED vars
  <2>1. UNCHANGED <<pc, conn, fresh, svcs>>
    BY <1>10  DEF Caller, Goroutine, Propagates, AbortCommand, ContextStep, Context,
                 DeferredCancel, vars, driver
  <2>2. CallInv
    BY DEF ResourceInv
  <2>3. (call' = NoCall <=> call = NoCall) /\ call'.of = call.of
    BY <1>10, <2>2, SelectStep, CallGoroutineStep, LeftGoroutineStep
       DEF Caller, Goroutine, Propagates, SubCanceled, AbortCommand, Abort, ContextStep,
           Context, DeferredCancel, vars, asyncVars
  <2>4. QED
    BY <2>1, <2>3 DEF ServicesInv
<1>11. QED
  BY <1>2, <1>3, <1>4, <1>5, <1>6, <1>7, <1>8, <1>9, <1>10 DEF Next, Driver

\* The pipes of a command are closed before its session is.
LEMMA CommandKept ==
  ASSUME ResourceInv, CommandInv, VarTypes, [Next]_vars
  PROVE  CommandInv'
<1>1. DriverInv
  BY DEF ResourceInv
<1>2. CASE New \/ EnsureConn \/ Dialed \/ DroppedNew
  <2>1. UNCHANGED <<state, pipes>>
    BY <1>2 DEF New, EnsureConn, Dialed, DroppedNew, cmd
  <2>2. (\E c : Dial(c)) \/ (Return /\ pc' \in {"services", "ended", "idle"})
    BY <1>2, ZenonT(30) DEF New, EnsureConn, Dialed, DroppedNew, NewConnFails
  <2>3. pc' # "command" /\ call'.op # "closeSession"
    BY <2>2, CallOps DEF Dial, Return
  <2>4. QED
    BY <2>1, <2>3 DEF CommandInv
<1>3. CASE StartServices \/ ReadBootID \/ Replace \/ CloseCache \/ ConnClosed
  <2>1. UNCHANGED <<state, pipes>> /\ pc' # "command"
    BY <1>3, ZenonT(30)  DEF StartServices, ReadBootID, Replace, CloseCache, ConnClosed,
                            cmd
  <2>2. \/ call' = call /\ call = NoCall
        \/ call' = NoCall
        \/ \E o \in Closers \ {"closeSession"} : \E r, c : DoAsync(o, r, c)
    BY <1>1, <1>3, ZenonT(30)  DEF StartServices, ReadBootID, Replace, CloseCache,
                                  ConnClosed, DriverInv, Return, Closers
  <2>3. call'.op # "closeSession"
    BY <2>2, CallOps DEF Closers
  <2>4. QED
    BY <2>1, <2>3 DEF CommandInv
<1>4. CASE StartCommand
  BY <1>4, CallOps DEF StartCommand, CommandInv
<1>5. CASE SessionOpened \/ CommandStarted \/ SessionClosed
  <2>1. pc = "command"
    BY <1>1, <1>5, CommandCalls DEF SessionOpened, CommandStarted, SessionClosed
  <2>2. \/ UNCHANGED <<pc, state, pipes>> /\ call'.op # "closeSession"
        \/ pc' = "idle" /\ call' = NoCall /\ (pipes' = FALSE \/ (pipes' = pipes /\ ~pipes))
    <3>1. CASE SessionOpened
      BY <3>1, CallOps DEF SessionOpened, CommandDone, Return
    <3>2. CASE CommandStarted
      BY <3>2, CallOps DEF CommandStarted, CommandDone, Return, cmd
    <3>3. CASE SessionClosed
      BY <3>3 DEF SessionClosed, CommandDone, Return, CommandInv
    <3>4. QED
      BY <1>5, <3>1, <3>2, <3>3, ZenonT(30)
  <2>3. QED
    BY <2>1, <2>2, CallOps DEF CommandInv
<1>6. CASE Wait \/ Waited
  <2>1. pc = "command" /\ pc' = pc
    BY <1>1, <1>6, CommandCalls DEF Wait, Waited, driver
  <2>2. \/ state' = "closing" /\ call'.op = "wait"
        \/ state' = state /\ pipes' = FALSE
    BY <1>6, CallOps DEF Wait, Waited
  <2>3. QED
    BY <2>1, <2>2 DEF CommandInv
<1>7. CASE Caller \/ Goroutine \/ Propagates \/ AbortCommand \/ ContextStep \/ UNCHANGED vars
  <2>1. UNCHANGED <<pc, state>> /\ (pipes' = pipes \/ pipes' = FALSE)
    BY <1>7  DEF Caller, Goroutine, Propagates, AbortCommand, ContextStep, Context,
                DeferredCancel, vars, driver, cmd
  <2>2. CallInv
    BY DEF ResourceInv
  <2>3. call'.op = call.op
    BY <1>7, <2>2, SelectStep, CallGoroutineStep, LeftGoroutineStep
       DEF Caller, Goroutine, Propagates, SubCanceled, AbortCommand, Abort, ContextStep,
           Context, DeferredCancel, vars, asyncVars
  <2>4. QED
    BY <2>1, <2>3 DEF CommandInv
<1>8. QED
  BY <1>2, <1>3, <1>4, <1>5, <1>6, <1>7 DEF Next, Driver

\* Everything that is open is somebody's, always.
LEMMA NothingLeaks == Spec => []NoLeakInv
<1>1. Init => NoLeakInv
  <2> SUFFICES ASSUME Init PROVE NoLeakInv
    OBVIOUS
  <2>1. CauseInv
    BY CauseInit DEF Init
  <2>2. ResourceInv
    BY  DEF Init, AsyncInit, ResourceInv, CallInv, LeftOK, CallOK, DriverInv, Resources,
           Values
  <2>3. SettleInv /\ LeakInv
    BY DEF Init, AsyncInit, SettleInv, LeakInv, Resources
  <2>4. CacheInv
    <3>1. 0 \in 0 .. Retries
      BY RetriesAssumption
    <3>2. VarTypes
      BY <3>1, ZenonT(30) DEF Init, AsyncInit, VarTypes
    <3>3. ServicesInv
      BY DEF Init, ServicesInv
    <3>4. CommandInv
      BY DEF Init, CommandInv
    <3>5. QED
      BY <3>2, <3>3, <3>4 DEF CacheInv
  <2>5. QED
    BY <2>1, <2>2, <2>3, <2>4 DEF NoLeakInv
<1>2. NoLeakInv /\ [Next]_vars => NoLeakInv'
  <2> SUFFICES ASSUME NoLeakInv, [Next]_vars PROVE NoLeakInv'
    OBVIOUS
  <2> USE DEF NoLeakInv
  <2>1. CauseInv'
    BY CauseStep, OnlyContextSteps
  <2>2. ResourceInv'
    BY BeginActions, ConnActions, CommandActions, BackgroundActions DEF Next, Driver
  <2>3. VarTypes /\ ServicesInv /\ CommandInv /\ done \in BOOLEAN
    BY DEF CacheInv, CauseInv, ContextTypeOK
  <2>4. SettleInv' /\ LeakInv'
    BY <2>3, BeginLeaksNothing, ConnLeaksNothing, CommandLeaksNothing,
       BackgroundLeaksNothing
       DEF Next, Driver
  <2>5. CacheInv'
    BY <2>3, TypesKept, ServicesKept, CommandKept DEF CacheInv
  <2>6. QED
    BY <2>1, <2>2, <2>4, <2>5
<1>3. QED
  BY <1>1, <1>2, PTL DEF Spec

\* OnlyCachedConn: whatever calls were canceled and however late their goroutines
\* are, between operations nothing is open but the cached connection and what a
\* goroutine is about to close, and only the services of that connection run.
THEOREM OnlyCachedConnHolds == Spec => []OnlyCachedConn
<1>1. NoLeakInv => OnlyCachedConn
  <2> SUFFICES ASSUME NoLeakInv PROVE OnlyCachedConn
    OBVIOUS
  <2>1. /\ CauseInv /\ CallInv /\ DriverInv /\ SettleInv /\ LeakInv
        /\ VarTypes /\ ServicesInv /\ CommandInv
    BY DEF NoLeakInv, ResourceInv, CacheInv
  <2>2. \A c \in left : c \in CallSet /\ c.ret = "failed" /\ c.body # "finished" /\ c.op # "wait"
    BY <2>1 DEF CallInv, LeftOK, SettleInv
  <2>3. \A c \in left : c.op \in Closers \/ (c.op \in HasClean /\ c.ret = "failed" /\ c.body # "finished")
    BY <2>2 DEF CallSet, Openers, Closers, HasClean
  <2>4. \A r : (\E c \in left : c.of = r) \/ (call.of = r /\ call.op \in Closers) => Reclaimed(r)
    BY <2>3 DEF Reclaimed, Closers
  <2>5. AsyncTypeOK
    <3>1. call.main \in {"none", "select", "exit"}
      BY <2>1 DEF CallInv, CallOK, CallSet, NoCall
    <3>2. \A c \in left : c.op \in HasClean \cup {"wait", "closeConn", "dropConn", "closeSession"}
      BY <2>2 DEF CallSet, Openers, Closers, HasClean
    <3>3. res \in [Conns \cup Sessions -> {"none", "open", "closed", "twice"}]
      BY <2>1 DEF CallInv, LeftOK, Resources, Values
    <3>4. QED
      BY <2>1, <3>1, <3>2, <3>3 DEF AsyncTypeOK, VarTypes
  <2>6. svcs \subseteq Conns
    <3>1. conn \in Conns \cup {0}
      BY <2>1 DEF DriverInv
    <3>2. pc \in {"bootID", "replace"} => fresh \in Conns
      BY <2>1, ResourceAssumption DEF DriverInv, Held, Free, Resources
    <3>3. pc = "bootID" => call = NoCall
      BY <2>1 DEF DriverInv
    <3>4. QED
      BY <2>1, <3>1, <3>2, <3>3 DEF ServicesInv
  <2>7. TypeOK
    BY <2>1, <2>5, <2>6 DEF TypeOK, CauseInv, DriverInv, VarTypes
  <2>8. ASSUME pc \in {"idle", "command", "ended"}
        PROVE  /\ conn # 0 => res[conn] = "open"
               /\ svcs = {conn} \ {0}
               /\ \A r \in Conns : res[r] = "open" => r = conn \/ Reclaimed(r)
    <3>1. (conn # 0 => res[conn] = "open") /\ svcs = {conn} \ {0}
      BY <2>1, <2>8 DEF DriverInv, Held, Free, ServicesInv
    <3>2. call = NoCall \/ call.of \in Sessions \cup {0}
      BY <2>1, <2>8 DEF DriverInv
    <3>3. call.of \notin Conns
      BY <3>2, ResourceAssumption DEF NoCall
    <3>4. \A r \in Conns : r # sess /\ r \in Resources
      BY <2>1, ResourceAssumption DEF DriverInv, Resources
    <3>5. \A r \in Conns : res[r] = "open" => r = conn \/ Reclaimed(r)
      BY <2>1, <2>4, <2>8, <3>3, <3>4 DEF LeakInv, Mine, Owned
    <3>6. QED
      BY <3>1, <3>5
  <2>9. ASSUME state = "done"
        PROVE  ~pipes /\ \A r \in Sessions : res[r] = "open" => Reclaimed(r)
    <3>1. ~pipes /\ pc # "command"
      BY <2>1, <2>9 DEF CommandInv
    <3>2. \A r \in Sessions : r \notin Conns \cup {0} /\ r \in Resources
      BY ResourceAssumption DEF Resources
    <3>3. call = NoCall \/ call.op \in Closers \/ call.of \in Conns \cup {0}
      BY <2>1, <3>1 DEF DriverInv, Closers
    <3>4. \A r \in Sessions : call.of = r => Reclaimed(r)
      BY <2>4, <3>2, <3>3 DEF NoCall
    <3>5. \A r \in Sessions : ~Mine(r)
      BY <2>1, <3>1, <3>2 DEF DriverInv, Mine
    <3>6. QED
      BY <2>1, <2>4, <3>1, <3>2, <3>4, <3>5 DEF LeakInv, Owned
  <2>10. QED
    BY <2>7, <2>8, <2>9 DEF OnlyCachedConn
<1>2. QED
  BY <1>1, NothingLeaks, PTL
=============================================================================
