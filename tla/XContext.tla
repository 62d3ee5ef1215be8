------------------------------ MODULE XContext ------------------------------
(***************************************************************************)
(* internal/xcontext/xcontext.go: a context that is canceled with a given  *)
(* error, by its parent, its own deadline or calls of cancel from several  *)
(* goroutines.  A watcher goroutine turns the first signal it receives     *)
(* into Err and then closes Done.  The tast command runs under one.        *)
(***************************************************************************)
CONSTANTS
  Cancelers,    \* goroutines that call cancel, each with an error of its own
  newDeadline   \* the context has a deadline earlier than its parent's

ASSUME ContextAssumption == newDeadline \in BOOLEAN /\ Cancelers \cap {"nil", "parent", "deadline"} = {}

VARIABLES
  parentErr,    \* parent.Err()
  expired,      \* that deadline has passed
  err,          \* errValue
  done,         \* Done is closed
  req,          \* the error in the channel req, which has capacity 1
  watcher,      \* the background goroutine
  cancelAt      \* where each caller of cancel is

ctxVars == <<parentErr, expired, err, done, req, watcher, cancelAt>>

Nil == "nil"

\* newContext: a parent that is canceled, or a deadline that has passed, cancels
\* the context at once and no goroutine is started.
NewContext ==
  /\ parentErr \in {Nil, "parent"} /\ expired \in {FALSE, newDeadline}
  /\ IF parentErr # Nil \/ expired
     THEN /\ err = IF parentErr # Nil THEN parentErr ELSE "deadline"
          /\ done = TRUE /\ watcher = "exited"
     ELSE err = Nil /\ done = FALSE /\ watcher = "new"
  /\ req = Nil
  /\ cancelAt = [c \in Cancelers |-> "idle"]

\* The signals of the parent and of the timer; nobody listens to them once the
\* watcher has exited.
ParentCanceled ==
  /\ parentErr = Nil /\ watcher # "exited" /\ parentErr' = "parent"
  /\ UNCHANGED <<expired, err, done, req, watcher, cancelAt>>

DeadlinePasses ==
  /\ newDeadline /\ ~expired /\ watcher # "exited" /\ expired' = TRUE
  /\ UNCHANGED <<parentErr, err, done, req, watcher, cancelAt>>

WatcherStarts ==
  /\ watcher = "new" /\ watcher' = "select"
  /\ UNCHANGED <<parentErr, expired, err, done, req, cancelAt>>

\* The select: any of the channels that are ready.  Then Err has a value, before
\* Done is closed.
WatcherSelects ==
  /\ watcher = "select" /\ watcher' = "close"
  /\ \/ parentErr # Nil /\ err' = parentErr /\ UNCHANGED req
     \/ expired /\ err' = "deadline" /\ UNCHANGED req
     \/ req # Nil /\ err' = req /\ req' = Nil
  /\ UNCHANGED <<parentErr, expired, done, cancelAt>>

WatcherCloses ==
  /\ watcher = "close" /\ watcher' = "exited"
  /\ done' = TRUE
  /\ UNCHANGED <<parentErr, expired, err, req, cancelAt>>

\* Mutant: the send waits for room in the channel.
SendCancel_Blocking(c) ==
  /\ cancelAt[c] = "send" /\ req = Nil
  /\ cancelAt' = [cancelAt EXCEPT ![c] = "wait"] /\ req' = c
  /\ UNCHANGED <<parentErr, expired, err, done, watcher>>

\* cancel: the error is sent unless an earlier one is still in the channel, which
\* may be for ever; then cancel waits until the context is canceled.
CallCancel(c) ==
  /\ cancelAt[c] = "idle" /\ cancelAt' = [cancelAt EXCEPT ![c] = "send"]
  /\ UNCHANGED <<parentErr, expired, err, done, req, watcher>>

SendCancel(c) ==
  /\ cancelAt[c] = "send" /\ cancelAt' = [cancelAt EXCEPT ![c] = "wait"]
  /\ req' = IF req = Nil THEN c ELSE req
  /\ UNCHANGED <<parentErr, expired, err, done, watcher>>

CancelReturns(c) ==
  /\ cancelAt[c] = "wait" /\ done
  /\ cancelAt' = [cancelAt EXCEPT ![c] = "returned"]
  /\ UNCHANGED <<parentErr, expired, err, done, req, watcher>>

Cancel(c) == SendCancel(c) \/ CancelReturns(c)

Watcher == WatcherStarts \/ WatcherSelects \/ WatcherCloses

\* The steps of the context; the program decides when cancel is called.
ContextNext ==
  \/ ParentCanceled \/ DeadlinePasses \/ Watcher
  \/ \E c \in Cancelers : Cancel(c)

ContextTypeOK ==
  /\ parentErr \in {Nil, "parent"} /\ expired \in BOOLEAN
  /\ err \in {Nil, "parent", "deadline"} \cup Cancelers
  /\ done \in BOOLEAN /\ req \in {Nil} \cup Cancelers
  /\ watcher \in {"new", "select", "close", "exited"}
  /\ cancelAt \in [Cancelers -> {"idle", "send", "wait", "returned"}]

-----------------------------------------------------------------------------
\* Whoever sees Done closed gets an error from Err, and that error names a signal
\* that was given: the parent's, the deadline's, or one passed to cancel.
DoneHasCause ==
  /\ done => err # Nil
  /\ err = "parent" => parentErr # Nil
  /\ err = "deadline" => expired
  /\ err \in Cancelers => cancelAt[err] \in {"wait", "returned"}

Calling(c) == cancelAt[c] \in {"send", "wait"}

\* Every call of cancel returns, also when another call's error fills the channel,
\* another signal came first, or the context was canceled at birth, and nobody
\* ever receives from req.
CancelAlwaysReturns ==
  (\E c \in Cancelers : Calling(c)) ~> (\A c \in Cancelers : ~Calling(c))
=============================================================================
