---------------------------- MODULE Connections ----------------------------
(***************************************************************************)
(* The connection to the DUT (internal/minidriver/target) and the commands *)
(* run over it (ssh/exec_ctx.go): ConnCache creates a connection with its  *)
(* forwarded services, replaces it when a ping fails and closes it; a      *)
(* command opens a session, starts, is waited for and closes the session.  *)
(* Every blocking step is a doAsync under the context of the tast command. *)
(*                                                                         *)
(* Abstractions: which services are forwarded, the reading of the boot id  *)
(* (a command whose outcome alone matters), and DUTs reached through adb,  *)
(* whose connection is made without doAsync and has nothing to close.      *)
(***************************************************************************)
EXTENDS SshAsync

CONSTANTS
  Retries,      \* Config.Retries
  MaxPolls,     \* bound: attempts to reconnect after a reboot
  MaxOps        \* bound: operations begun

ASSUME RetriesAssumption == Retries \in Nat

VARIABLES
  pc,       \* where the driver is
  op,       \* "new" or "ensure": who calls newConn
  conn,     \* ConnCache.conn, 0 if there is none
  fresh,    \* the connection newConn is making
  tries,    \* connection attempts ssh.New has made
  polls,    \* calls of newConn in this operation
  svcs,     \* connections whose services run
  sess,     \* Cmd.sess
  state,    \* Cmd.state
  pipes,    \* the pipes of the command are open
  ops       \* operations begun

driver == <<pc, op, conn, fresh, tries, polls, svcs, ops>>
cmd == <<sess, state, pipes>>
vars == <<parentErr, expired, err, done, req, watcher, cancelAt,
          call, left, res, sub, aborted, pc, op, conn, fresh, tries, polls, svcs,
          sess, state, pipes, ops>>

\* Identities that no connection or session, and no goroutine, has.
Unused(S) ==
  {r \in S : res[r] = "none" /\ \A c \in left \cup {call} : c.of = r => c.body = "finished"}

Fresh(S) == CHOOSE r \in Unused(S) : TRUE

Init ==
  /\ NewContext /\ AsyncInit
  /\ pc = "start" /\ op = "none" /\ conn = 0 /\ fresh = 0
  /\ tries = 0 /\ polls = 0 /\ svcs = {} /\ ops = 0
  /\ sess = 0 /\ state = "done" /\ pipes = FALSE

-----------------------------------------------------------------------------
\* The variables of an operation go out of scope.
Local == op' = "none" /\ fresh' = 0 /\ tries' = 0 /\ polls' = 0

(* newConn                                                                  *)

\* dialSSH and ssh.New: an attempt to connect.
Dial(canceled) ==
  /\ pc' = "dial" /\ sub' = canceled
  /\ fresh' = Fresh(Conns)
  /\ DoAsync("dial", Fresh(Conns), canceled)

\* NewConnCache.
New ==
  /\ pc = "start" /\ Unused(Conns) # {}
  /\ op' = "new" /\ polls' = 1
  /\ Dial(done)
  /\ UNCHANGED <<conn, tries, svcs, ops, cmd, left, res, aborted, ctxVars>>

\* newConn returned an error: NewConnCache calls it once more; EnsureConn
\* reboots the DUT, if it has a way and was asked to, and polls for a while.
NewConnFails ==
  \/ /\ polls < (IF op = "new" THEN 2 ELSE 1 + MaxPolls) /\ Unused(Conns) # {}
     /\ polls' = polls + 1 /\ tries' = 0
     /\ \E canceled \in {done, op = "ensure" \/ done} : Dial(canceled)
     /\ UNCHANGED op
  \/ /\ op = "new" => polls = 2 \/ Unused(Conns) = {}
     /\ pc' = IF op = "new" THEN "ended" ELSE "idle"
     /\ Local /\ Return

\* The loop of ssh.New goes on unless the context of dialSSH is canceled.
Dialed ==
  /\ pc = "dial" /\ MayReturn /\ Leave
  /\ CASE call.ret = "ok" ->
            pc' = "services" /\ Return /\ UNCHANGED <<op, fresh, tries, polls>>
       [] call.ret = "failed" /\ ~sub /\ tries < Retries /\ Unused(Conns) # {} ->
            tries' = tries + 1 /\ Dial(sub) /\ UNCHANGED <<op, polls>>
       [] OTHER -> NewConnFails
  /\ UNCHANGED <<conn, svcs, ops, cmd, res, aborted, ctxVars>>

\* startServices; on an error newConn closes the connection, under the context
\* of the polling if there is one.
StartServices ==
  /\ pc = "services"
  /\ \/ /\ svcs' = svcs \cup {fresh}
        /\ pc' = IF op = "new" THEN "bootID" ELSE "replace"
        /\ UNCHANGED <<call, sub>>
     \/ /\ pc' = "dropNew"
        /\ IF op = "ensure" /\ polls > 1
           THEN \E canceled \in {done, TRUE} :
                  DoAsync("dropConn", fresh, canceled) /\ sub' = canceled
           ELSE DoAsync("closeConn", fresh, done) /\ UNCHANGED sub
        /\ UNCHANGED svcs
  /\ UNCHANGED <<op, conn, fresh, tries, polls, ops, cmd, left, res, aborted, ctxVars>>

DroppedNew ==
  /\ pc = "dropNew" /\ MayReturn /\ Leave
  /\ NewConnFails
  /\ UNCHANGED <<conn, svcs, ops, cmd, res, aborted, ctxVars>>

-----------------------------------------------------------------------------
(* ConnCache                                                                *)

\* Mutant: NewConnCache does not close the connection when it returns an error.
ReadBootID_Leaks ==
  /\ pc = "bootID" /\ Local
  /\ \/ conn' = fresh /\ pc' = "idle" /\ UNCHANGED <<svcs, call>>
     \/ /\ svcs' = svcs \ {fresh} /\ pc' = "ended"
        /\ UNCHANGED <<conn, call>>
  /\ UNCHANGED <<ops, cmd, left, res, sub, aborted, ctxVars>>

\* NewConnCache returns, or closes the connection with its services.
ReadBootID ==
  /\ pc = "bootID" /\ Local
  /\ \/ conn' = fresh /\ pc' = "idle" /\ UNCHANGED <<svcs, call>>
     \/ /\ svcs' = svcs \ {fresh} /\ pc' = "close"
        /\ DoAsync("closeConn", fresh, done) /\ UNCHANGED conn
  /\ UNCHANGED <<ops, cmd, left, res, sub, aborted, ctxVars>>

\* EnsureConn: the ping was answered, or a new connection is tried.
EnsureConn ==
  /\ pc = "idle" /\ ops < MaxOps /\ Unused(Conns) # {}
  /\ ops' = ops + 1
  /\ op' = "ensure" /\ polls' = 1
  /\ Dial(done)
  /\ UNCHANGED <<conn, tries, svcs, cmd, left, res, aborted, ctxVars>>

\* EnsureConn has a new connection and closes the old one with its services.
Replace ==
  /\ pc = "replace" /\ call = NoCall
  /\ svcs' = svcs \ {conn}
  /\ DoAsync("closeConn", conn, done)
  /\ UNCHANGED <<pc, op, conn, fresh, tries, polls, ops, cmd, left, res, sub, aborted, ctxVars>>

\* ConnCache.Close.
CloseCache ==
  /\ pc = "idle"
  /\ pc' = "close" /\ svcs' = svcs \ {conn}
  /\ DoAsync("closeConn", conn, done)
  /\ UNCHANGED <<op, conn, fresh, tries, polls, ops, cmd, left, res, sub, aborted, ctxVars>>

\* Whether or not the connection was closed cleanly.
ConnClosed ==
  /\ pc \in {"replace", "close"} /\ MayReturn /\ Leave /\ Return /\ Local
  /\ IF pc = "replace" THEN pc' = "idle" /\ conn' = fresh
                       ELSE pc' = "ended" /\ conn' = 0
  /\ UNCHANGED <<svcs, ops, cmd, res, aborted, ctxVars>>

-----------------------------------------------------------------------------
(* Cmd                                                                      *)

\* Cmd.Start: startSession opens a session on the cached connection.
StartCommand ==
  /\ pc = "idle" /\ ops < MaxOps /\ Unused(Sessions) # {}
  /\ ops' = ops + 1
  /\ pc' = "command" /\ state' = "started" /\ pipes' = TRUE
  /\ DoAsync("newSession", Fresh(Sessions), done)
  /\ UNCHANGED <<op, conn, fresh, tries, polls, svcs, sess, left, res, sub, aborted, ctxVars>>

\* The command is done: its object is dropped.
CommandDone == pc' = "idle" /\ state' = "done" /\ sess' = 0 /\ aborted' = FALSE /\ Return

\* startSession returned; sess.Start is next.  On an error the pipes are closed.
SessionOpened ==
  /\ call.op = "newSession" /\ MayReturn /\ Leave
  /\ IF call.ret = "ok"
     THEN /\ sess' = call.of /\ DoAsync("start", call.of, done)
          /\ UNCHANGED <<pc, state, pipes, sub, aborted>>
     ELSE CommandDone /\ pipes' = FALSE
  /\ UNCHANGED <<op, conn, fresh, tries, polls, svcs, ops, res, ctxVars>>

CommandStarted ==
  /\ call.op = "start" /\ MayReturn /\ Leave
  /\ IF call.ret = "ok" THEN Return /\ UNCHANGED <<pc, cmd, aborted>>
                        ELSE CommandDone /\ pipes' = FALSE
  /\ UNCHANGED <<op, conn, fresh, tries, polls, svcs, ops, res, ctxVars>>

\* Wait: waitAndClose first waits for the remote process.
Wait ==
  /\ pc = "command" /\ state = "started" /\ call = NoCall
  /\ state' = "closing"
  /\ DoAsync("wait", sess, done) /\ sub' = done
  /\ UNCHANGED <<driver, sess, pipes, left, res, aborted, ctxVars>>

\* Then it closes the pipes, kills the process and closes the session.
Waited ==
  /\ call.op = "wait" /\ MayReturn /\ Leave
  /\ pipes' = FALSE
  /\ DoAsync("closeSession", sess, sub)
  /\ UNCHANGED <<driver, state, sess, res, sub, aborted, ctxVars>>

SessionClosed ==
  /\ call.op = "closeSession" /\ MayReturn /\ Leave
  /\ CommandDone
  /\ UNCHANGED <<op, conn, fresh, tries, polls, svcs, ops, pipes, res, ctxVars>>

AbortCommand ==
  /\ pc = "command" /\ Abort /\ pipes' = FALSE
  /\ UNCHANGED <<driver, sess, state, ctxVars>>

-----------------------------------------------------------------------------
Caller == Select /\ UNCHANGED <<driver, cmd, ctxVars>>

Driver ==
  \/ Caller
  \/ New \/ Dialed \/ StartServices \/ DroppedNew \/ ReadBootID
  \/ Replace \/ CloseCache \/ ConnClosed
  \/ SessionOpened \/ CommandStarted \/ Wait \/ Waited \/ SessionClosed

\* The goroutine of a call ends when the remote side answers.
Goroutine ==
  /\ CallGoroutine \/ \E c \in left : LeftGoroutine(c)
  /\ UNCHANGED <<driver, cmd, ctxVars>>

\* All but the wait for a remote process, which may never exit, come to an end.
Answered ==
  /\ \/ call.op # "wait" /\ CallGoroutine
     \/ \E c \in left : LeftGoroutine(c)
  /\ UNCHANGED <<driver, cmd, ctxVars>>

Propagates == SubCanceled /\ UNCHANGED <<driver, cmd, ctxVars>>

Context(A) == A /\ UNCHANGED <<asyncVars, driver, cmd>>

\* runCmd.Execute and run.Run defer the calls of cancel, each for a context of its
\* own; here they share one, as the callers that CancelFunc allows may.
DeferredCancel == pc = "ended" /\ \E c \in Cancelers : Context(CallCancel(c))

ContextStep == Context(ContextNext) \/ DeferredCancel

Next ==
  \/ Driver \/ EnsureConn \/ StartCommand \/ AbortCommand \/ Goroutine \/ Propagates
  \/ ContextStep

\* The driver and the goroutines of the program run, it ends up closing the
\* cache, and SSH operations other than the wait for a process are answered.
Fairness ==
  /\ WF_vars(Driver) /\ WF_vars(Answered) /\ WF_vars(Propagates)
  /\ WF_vars(Context(Watcher))
  /\ \A c \in Cancelers : WF_vars(Context(Cancel(c)))

Spec == Init /\ [][Next]_vars /\ Fairness

-----------------------------------------------------------------------------
\* Every variable has its type, and ssh.New makes at most Retries + 1 attempts.
TypeOK ==
  /\ ContextTypeOK /\ AsyncTypeOK
  /\ pc \in {"start", "dial", "services", "dropNew", "bootID", "replace", "close",
             "idle", "command", "ended"}
  /\ op \in {"none", "new", "ensure"}
  /\ conn \in Conns \cup {0} /\ fresh \in Conns \cup {0} /\ sess \in Sessions \cup {0}
  /\ tries \in 0..Retries /\ svcs \subseteq Conns /\ pipes \in BOOLEAN
  /\ state \in {"started", "closing", "done"}

\* Nothing is closed twice, by a caller and by the clean function of a goroutine
\* it left, or by two callers.
ClosedOnce == \A r \in DOMAIN res : res[r] # "twice"

\* Between operations the cached connection is one that the program has not closed,
\* and its services are the only ones that run.  Whatever else is open, connection
\* or session of a command that is done, belongs to a goroutine that is about to
\* close it, and the pipes of that command are closed, so that their readers see
\* the end.
\* The type invariant is checked with it.
OnlyCachedConn ==
  /\ TypeOK
  /\ pc \in {"idle", "command", "ended"} =>
       /\ conn # 0 => res[conn] = "open"
       /\ svcs = {conn} \ {0}
       /\ \A r \in Conns : res[r] = "open" => r = conn \/ Reclaimed(r)
  /\ state = "done" =>
       /\ ~pipes
       /\ \A r \in Sessions : res[r] = "open" => Reclaimed(r)

\* The session of a command that was started and not waited for is open.
SessionHeld ==
  pc = "command" /\ state = "started" /\ call = NoCall => res[sess] = "open"

\* Once the context is canceled, or the command aborted while it is waited for,
\* the call in doAsync returns, also if the remote side never answers.
CanceledCallReturns == ((done \/ (aborted /\ Abortable)) /\ call # NoCall) ~> (call = NoCall)

\* Everything that was opened is closed in the end.
AllClosed == (pc = "ended") ~> (\A r \in DOMAIN res : res[r] # "open")
=============================================================================
