---------------------------- MODULE BundleServer ----------------------------
(***************************************************************************)
(* One RunTests call of a test bundle (internal/bundle): the handler, the  *)
(* heartbeat goroutine and the goroutines of user code share one           *)
(* eventWriter, whose mutex serializes the gRPC stream to the client.  The *)
(* handler acquires connections and the test environment step by step,     *)
(* runs the planner and releases everything through its deferred calls.    *)
(* The planner is abstracted to the events and the stack operations it     *)
(* sends and to whether it fails; its own modules are Planner and RunTest. *)
(***************************************************************************)
EXTENDS Naturals, Sequences, Functions, FiniteSets

CONSTANTS
  Recursives,   \* the values of RunTestsInit.Recursive to consider
  Duts,         \* the companion DUTs of the bundle configuration, a sequence
  Users,        \* goroutines of user code and of the pass-through of events
  Window,       \* messages the stream holds before Send blocks
  MaxEvents     \* bound: events and operations begun, heartbeats excluded

ASSUME BundleAssumption ==
  /\ Users \cap {"main", "hb", "none", "done"} = {}
  /\ Recursives \subseteq BOOLEAN /\ Window \in Nat /\ MaxEvents \in Nat
  /\ Duts \in Seq(STRING) /\ IsInjective(Duts)
  /\ Range(Duts) \cap {"primary", "tempDir", "TMPDIR", "hook"} = {}

VARIABLES
  cfg,      \* the call: recursive?, own temporary directory?, run hook?
  pc,       \* where the handler is
  held,     \* what the handler acquired and has not released
  inner,    \* deferred releases of the set-up function being executed
  defers,   \* deferred calls of the handler: "conn" and "env"
  err,      \* retErr # nil
  closeErr, \* env.close returned an error
  at,       \* where each goroutine is in a method of eventWriter
  job,      \* "event" or "op": what it sends
  mu,       \* holder of eventWriter.mu
  down,     \* stream to the client
  up,       \* stream from the client
  answer,   \* whose answer the goroutine's last StackOperation returned
  client,   \* NoOne when reading, the requester while handling, or "done"
  broken,   \* the stream failed or its context was cancelled
  begun     \* events begun so far

main == <<cfg, pc, held, inner, defers, err, closeErr>>
writer == <<at, job, mu, answer, begun>>
stream == <<down, up, client, broken>>
vars == <<cfg, pc, held, inner, defers, err, closeErr, at, job, mu, answer,
          begun, down, up, client, broken>>

NoOne == "none"
Goroutines == {"main", "hb"} \cup Users

\* Deferred calls run in the reverse order: the last one, and those before it.
Last(s) == s[Len(s)]
Front(s) == SubSeq(s, 1, Len(s) - 1)

\* A finished or broken stream makes Send and Recv return an error.
Dead == broken \/ pc = "returned"

Init ==
  /\ cfg \in [recursive : Recursives, ownTemp : BOOLEAN, hook : BOOLEAN]
  /\ pc = "init" /\ held = {} /\ inner = <<>> /\ defers = <<>>
  /\ err = FALSE /\ closeErr = FALSE
  /\ at = [g \in Goroutines |-> IF g = "main" THEN "idle" ELSE "exited"]
  /\ job = [g \in Goroutines |-> "event"]
  /\ mu = NoOne /\ answer = [g \in Goroutines |-> NoOne] /\ begun = 0
  /\ down = <<>> /\ up = <<>> /\ client = NoOne /\ broken = FALSE

-----------------------------------------------------------------------------
(* eventWriter: every method locks mu, sends, and unlocks on return.        *)

Begin(g, what) ==
  /\ begun < MaxEvents
  /\ g = "main" => pc \notin {"init", "stop", "returned"}
  /\ at[g] = "idle"
  /\ at' = [at EXCEPT ![g] = "lock"]
  /\ job' = [job EXCEPT ![g] = what]
  /\ answer' = [answer EXCEPT ![g] = NoOne]
  /\ begun' = begun + 1
  /\ UNCHANGED <<mu, main, stream>>

Lock(g) ==
  /\ at[g] = "lock" /\ mu = NoOne
  /\ mu' = g
  /\ at' = [at EXCEPT ![g] = "send"]
  /\ UNCHANGED <<job, answer, begun, main, stream>>

\* Mutant: StackOperation unlocks before it waits for the response.
Send_Unlocks(g) ==
  /\ at[g] = "send" /\ (Dead \/ Len(down) < Window)
  /\ down' = IF Dead THEN down ELSE Append(down, [kind |-> job[g], of |-> g])
  /\ at' = [at EXCEPT ![g] = IF job[g] = "op" /\ ~Dead THEN "recv" ELSE "idle"]
  /\ mu' = NoOne
  /\ UNCHANGED <<job, answer, begun, main, up, client, broken>>

\* srv.Send, and the return of every method but StackOperation.
Send(g) ==
  /\ at[g] = "send" /\ (Dead \/ Len(down) < Window)
  /\ down' = IF Dead THEN down ELSE Append(down, [kind |-> job[g], of |-> g])
  /\ IF job[g] = "op" /\ ~Dead
     THEN at' = [at EXCEPT ![g] = "recv"] /\ mu' = mu
     ELSE at' = [at EXCEPT ![g] = "idle"] /\ mu' = NoOne
  /\ UNCHANGED <<job, answer, begun, main, up, client, broken>>

\* Mutant: the error of Recv is returned without unlocking.
Recv_KeepsLock(g) ==
  /\ at[g] = "recv" /\ (Dead \/ up # <<>>)
  /\ at' = [at EXCEPT ![g] = "idle"]
  /\ mu' = IF Dead THEN mu ELSE NoOne
  /\ IF Dead THEN UNCHANGED <<up, answer>>
             ELSE /\ answer' = [answer EXCEPT ![g] = Head(up)]
                  /\ up' = Tail(up)
  /\ UNCHANGED <<job, begun, main, down, client, broken>>

\* srv.Recv of StackOperation and its return.
Recv(g) ==
  /\ at[g] = "recv" /\ (Dead \/ up # <<>>)
  /\ at' = [at EXCEPT ![g] = "idle"]
  /\ mu' = NoOne
  /\ IF Dead THEN UNCHANGED <<up, answer>>
             ELSE /\ answer' = [answer EXCEPT ![g] = Head(up)]
                  /\ up' = Tail(up)
  /\ UNCHANGED <<job, begun, main, down, client, broken>>

-----------------------------------------------------------------------------
(* The handler.                                                             *)

Idle == at["main"] = "idle"

\* What the set-up functions acquire, in this order.
Wanted(f) ==
  IF f = "conn" THEN <<"primary">> \o Duts
  ELSE (IF cfg.ownTemp THEN <<"tempDir">> ELSE <<>>) \o <<"TMPDIR">>
       \o (IF cfg.hook THEN <<"hook">> ELSE <<>>)

After(f) ==
  CASE f = "list" -> IF cfg.recursive THEN "conn" ELSE "env"
    [] f = "conn" -> IF cfg.recursive THEN "env" ELSE "run"
    [] f = "env"  -> IF cfg.recursive THEN "run" ELSE "conn"

\* RunTests: receive the initial request; runTests and runTestsRecursive then
\* start the heartbeat goroutine, which writes its first message at once.
ReceiveInit ==
  /\ pc = "init"
  /\ IF broken
     THEN pc' = "returned" /\ err' = TRUE /\ UNCHANGED at
     ELSE pc' = "list" /\ at' = [at EXCEPT !["hb"] = "lock"] /\ UNCHANGED err
  /\ UNCHANGED <<cfg, held, inner, defers, closeErr, job, mu, answer, begun, stream>>

\* testsToRun, or the connection to the target's bundle and its entities.
List ==
  /\ pc = "list" /\ Idle
  /\ \/ pc' = After("list") /\ UNCHANGED err
     \/ pc' = "return" /\ err' = TRUE
  /\ UNCHANGED <<cfg, held, inner, defers, closeErr, writer, stream>>

\* setUpConnection and setUpTestEnvironment: acquire the next resource ...
Acquire ==
  /\ pc \in {"conn", "env"} /\ Idle
  /\ Len(inner) < Len(Wanted(pc))
  /\ LET r == Wanted(pc)[Len(inner) + 1]
     IN held' = held \cup {r} /\ inner' = Append(inner, r)
  /\ UNCHANGED <<cfg, pc, defers, err, closeErr, writer, stream>>

\* Mutant: an error return of a set-up function runs no deferred release.
AcquireFails_Leaks ==
  /\ pc \in {"conn", "env"} /\ Idle
  /\ Len(inner) < Len(Wanted(pc))
  /\ err' = TRUE /\ pc' = "return" /\ inner' = <<>>
  /\ UNCHANGED <<cfg, held, defers, closeErr, writer, stream>>

\* ... or fail to, which returns an error and runs the releases deferred so far,
AcquireFails ==
  /\ pc \in {"conn", "env"} /\ Idle
  /\ Len(inner) < Len(Wanted(pc))
  /\ err' = TRUE /\ pc' = "unwind"
  /\ UNCHANGED <<cfg, held, inner, defers, closeErr, writer, stream>>

\* the last registered first,
Unwind ==
  /\ pc = "unwind" /\ Idle
  /\ IF inner = <<>> THEN pc' = "return" /\ UNCHANGED <<held, inner>>
     ELSE held' = held \ {Last(inner)} /\ inner' = Front(inner) /\ UNCHANGED pc
  /\ UNCHANGED <<cfg, defers, err, closeErr, writer, stream>>

\* or return successfully, which leaves the release to the caller's defer.  The
\* second success starts the planner, which starts goroutines of user code.
SetUpDone ==
  /\ pc \in {"conn", "env"} /\ Idle
  /\ Len(inner) = Len(Wanted(pc))
  /\ inner' = <<>> /\ defers' = Append(defers, pc) /\ pc' = After(pc)
  /\ at' = [g \in Goroutines |->
             IF g \in Users /\ pc' = "run" THEN "idle" ELSE at[g]]
  /\ UNCHANGED <<cfg, held, err, closeErr, job, mu, answer, begun, stream>>

\* The planner returns, with or without an error.
RunEnds ==
  /\ pc = "run" /\ Idle
  /\ err' \in BOOLEAN
  /\ pc' = "return"
  /\ UNCHANGED <<cfg, held, inner, defers, closeErr, writer, stream>>

\* The deferred calls of the handler, the last registered first.
Deferred ==
  /\ pc = "return" /\ Idle
  /\ IF defers = <<>> THEN pc' = "stop" /\ UNCHANGED defers
     ELSE pc' = (IF Last(defers) = "conn" THEN "closeConn" ELSE "closeEnv")
          /\ defers' = Front(defers)
  /\ UNCHANGED <<cfg, held, inner, err, closeErr, writer, stream>>

\* connectionEnv.close: the primary DUT, then the companions, in any order.
CloseConn ==
  /\ pc = "closeConn" /\ Idle
  /\ LET left == held \cap Range(Wanted("conn"))
     IN IF left = {} THEN pc' = "return" /\ UNCHANGED held
        ELSE \E d \in left :
               /\ "primary" \in left => d = "primary"
               /\ held' = held \ {d} /\ UNCHANGED pc
  /\ UNCHANGED <<cfg, inner, defers, err, closeErr, writer, stream>>

\* Mutant: the temporary directory is removed first.
CloseOrder_DirFirst == <<"tempDir", "hook", "TMPDIR">>

\* testEnv.close: postRunFunc, restoreTempDir, os.RemoveAll.
CloseOrder == <<"hook", "TMPDIR", "tempDir">>

\* The first error of env.close becomes the error of runTests if it has none;
\* runTestsRecursive only looks at it when it already returns an error.
CloseEnv ==
  /\ pc = "closeEnv" /\ Idle
  /\ IF held \cap Range(CloseOrder) = {}
     THEN /\ pc' = "return" /\ UNCHANGED <<held, closeErr>>
          /\ err' = (err \/ (closeErr /\ ~cfg.recursive))
     ELSE \E i \in DOMAIN CloseOrder :
          /\ CloseOrder[i] \in held /\ \A j \in 1..i-1 : CloseOrder[j] \notin held
          /\ \/ UNCHANGED closeErr
             \/ CloseOrder[i] # "TMPDIR" /\ closeErr' = TRUE
          /\ held' = held \ {CloseOrder[i]} /\ UNCHANGED <<pc, err>>
  /\ UNCHANGED <<cfg, inner, defers, writer, stream>>

-----------------------------------------------------------------------------
(* heartbeatWriter.                                                         *)

Tick ==
  /\ at["hb"] = "idle"
  /\ at' = [at EXCEPT !["hb"] = "lock"]
  /\ UNCHANGED <<job, mu, answer, begun, main, stream>>

\* Stop sends on the unbuffered channel fin, which only the select receives.
Stop ==
  /\ pc = "stop" /\ at["hb"] = "idle"
  /\ pc' = "returned"
  /\ at' = [at EXCEPT !["hb"] = "exited"]
  /\ UNCHANGED <<cfg, held, inner, defers, err, closeErr, job, mu, answer, begun,
                 stream>>

-----------------------------------------------------------------------------
(* The client, which handles the messages one after the other.              *)

ClientReads ==
  /\ client = NoOne /\ down # <<>> /\ ~broken
  /\ client' = IF Head(down).kind = "op" THEN Head(down).of ELSE NoOne
  /\ down' = Tail(down)
  /\ UNCHANGED <<up, broken, main, writer>>

ClientAnswers ==
  /\ client \in Goroutines /\ ~broken
  /\ up' = Append(up, client) /\ client' = NoOne
  /\ UNCHANGED <<down, broken, main, writer>>

\* The client gives up, crashes, or its context is cancelled.
Break ==
  /\ ~broken /\ pc # "returned"
  /\ broken' = TRUE /\ client' = "done" /\ down' = <<>> /\ up' = <<>>
  /\ UNCHANGED <<main, writer>>

-----------------------------------------------------------------------------
HandlerNext ==
  \/ ReceiveInit \/ List \/ Acquire \/ AcquireFails \/ Unwind \/ SetUpDone
  \/ RunEnds \/ Deferred \/ CloseConn \/ CloseEnv

Next ==
  \/ HandlerNext
  \/ Tick \/ Stop
  \/ \E g \in Goroutines : Lock(g) \/ Send(g) \/ Recv(g)
  \/ \E g \in {"main"} \cup Users, what \in {"event", "op"} : Begin(g, what)
  \/ ClientReads \/ ClientAnswers \/ Break

\* The Go scheduler runs every runnable goroutine; a mutex in starvation mode
\* hands itself to the longest waiter and select picks a ready case at random,
\* hence strong fairness of Lock and Stop.  The client handles what it reads.
\* Nothing makes user code begin an event, the ticker fire or the stream break.
Fairness ==
  /\ WF_vars(HandlerNext) /\ SF_vars(Stop)
  /\ \A g \in Goroutines : SF_vars(Lock(g)) /\ WF_vars(Send(g)) /\ WF_vars(Recv(g))
  /\ WF_vars(ClientReads) /\ WF_vars(ClientAnswers)

Spec == Init /\ [][Next]_vars /\ Fairness

-----------------------------------------------------------------------------
\* Every variable has its type; outside a set-up function nothing is armed.
TypeOK ==
  /\ cfg \in [recursive : BOOLEAN, ownTemp : BOOLEAN, hook : BOOLEAN]
  /\ pc \in {"init", "list", "conn", "env", "unwind", "run", "return",
             "closeConn", "closeEnv", "stop", "returned"}
  /\ held \subseteq {"primary", "tempDir", "TMPDIR", "hook"} \cup Range(Duts)
  /\ Range(inner) \subseteq held
  /\ Range(defers) \subseteq {"conn", "env"}
  /\ err \in BOOLEAN /\ closeErr \in BOOLEAN /\ broken \in BOOLEAN
  /\ at \in [Goroutines -> {"idle", "lock", "send", "recv", "exited"}]
  /\ job \in [Goroutines -> {"event", "op"}]
  /\ mu \in Goroutines \cup {NoOne}
  /\ answer \in [Goroutines -> Goroutines \cup {NoOne}]
  /\ client \in Goroutines \cup {NoOne, "done"}
  /\ begun \in 0..MaxEvents /\ Len(down) <= Window

\* A goroutine that asked for a stack operation gets the answer to its own
\* request, although the stream carries no request identifiers and the
\* goroutines of user code ask at any time (eventWriter.StackOperation).
AnswerMatches == \A g \in Goroutines : answer[g] \in {NoOne, g}

\* gRPC allows one SendMsg and one RecvMsg at a time on a stream: no two
\* goroutines are ever inside Send, nor inside Recv (eventWriter.mu).
StreamExclusive ==
  \A g, h \in Goroutines :
    at[g] = at[h] /\ at[g] \in {"send", "recv"} => g = h

\* When RunTests returns, everything the handler acquired is released, whatever
\* step of the set-up failed and whether or not the run did.
ReleasedOnReturn == pc \in {"stop", "returned"} => held = {} /\ inner = <<>>

\* TMPDIR never names a directory already removed; the post-run function runs
\* with TMPDIR still set, and with the DUTs still connected when the call is
\* recursive; no companion outlives the primary while a set-up unwinds.
\* The type invariant is checked with it.
ReleasedInOrder ==
  /\ TypeOK
  /\ "TMPDIR" \in held /\ cfg.ownTemp => "tempDir" \in held
  /\ "hook" \in held => "TMPDIR" \in held
  /\ "hook" \in held /\ cfg.recursive => {"primary"} \cup Range(Duts) \subseteq held
  /\ pc = "unwind" /\ held \cap Range(Duts) # {} => "primary" \in held

\* "Once this method returns, heartbeat messages are no longer written."
NoHeartbeatAfterStop == pc = "returned" => at["hb"] \notin {"lock", "send"}

\* RunTests returns, even if the client vanishes in the middle of a stack
\* operation or the heartbeat goroutine is blocked on a full stream.
Returns == <>(pc = "returned")

\* An error of the test environment's close is an error of the harness, and
\* is returned to the client.
HarnessErrorReturned == pc = "returned" /\ closeErr => err
=============================================================================
