------------------------- MODULE BundleServerProofs -------------------------
(***************************************************************************)
(* Three arguments about BundleServer, for any number of goroutines of     *)
(* user code, of events and of companion DUTs.                             *)
(*                                                                         *)
(* The stream of a RunTests call is used by one goroutine at a time, every *)
(* stack operation gets its own answer, and no heartbeat follows Stop.     *)
(*                                                                         *)
(* Everything a RunTests call acquires it releases before it returns,      *)
(* wherever its set-up fails.                                              *)
(*                                                                         *)
(* It releases them in the reverse order: nothing goes before what was set *)
(* up on top of it.                                                        *)
(***************************************************************************)
EXTENDS BundleServer, TLAPS

Messages == [kind : {"event", "op"}, of : Goroutines]

\* The types of what the event writer and the stream hold.
StreamTypes ==
  /\ at \in [Goroutines -> {"idle", "lock", "send", "recv", "exited"}]
  /\ job \in [Goroutines -> {"event", "op"}]
  /\ answer \in [Goroutines -> Goroutines \cup {NoOne}]
  /\ mu \in Goroutines \cup {NoOne}
  /\ down \in Seq(Messages)
  /\ up \in Seq(Goroutines)
  /\ client \in Goroutines \cup {NoOne, "done"}

\* Whoever is sending or receiving holds the mutex.
Mutex == \A g \in Goroutines : at[g] \in {"send", "recv"} => mu = g

\* At most one stack operation is under way, in the stream to the client, at the
\* client, or in the stream back, and the goroutine that asked for it is waiting.
OneOperation ==
  ~Dead =>
    /\ \A i \in DOMAIN down : down[i].kind = "op" =>
         /\ at[down[i].of] = "recv" /\ client \notin Goroutines /\ up = <<>>
         /\ \A j \in DOMAIN down : down[j].kind = "op" => i = j
    /\ client \in Goroutines => at[client] = "recv" /\ up = <<>>
    /\ Len(up) <= 1 /\ \A i \in DOMAIN up : at[up[i]] = "recv"

\* User code runs only under the planner, the heartbeat between its start and Stop.
Running ==
  /\ pc \in {"init", "list", "conn", "env"} => \A u \in Users : at[u] = "exited"
  /\ pc \in {"init", "returned"} => at["hb"] = "exited"

StreamInv == StreamTypes /\ Mutex /\ OneOperation /\ Running /\ AnswerMatches

\* What the types say of the elements of the two streams.
LEMMA StreamElements ==
    ASSUME StreamTypes
    PROVE  /\ \A i \in DOMAIN down : down[i].of \in Goroutines
           /\ \A i \in DOMAIN up : up[i] \in Goroutines
<1>1. \A i \in DOMAIN down : down[i] \in Messages
  BY DEF StreamTypes
<1>2. \A i \in DOMAIN up : up[i] \in Goroutines
  BY DEF StreamTypes
<1> QED  BY <1>1, <1>2 DEF Messages

\* A sequence of one element.
LEMMA OneElement ==
    ASSUME NEW S, NEW s \in Seq(S), s # <<>>, Len(s) <= 1
    PROVE  Len(s) = 1 /\ Head(s) = s[1] /\ s[1] \in S /\ 1 \in DOMAIN s /\ Tail(s) = <<>>
<1>1. Len(s) \in Nat /\ Len(s) # 0
  OBVIOUS
<1>2. Len(s) = 1
  BY <1>1
<1>3. Head(s) = s[1] /\ s[1] \in S /\ 1 \in DOMAIN s
  BY <1>2
<1>4. Tail(s) \in Seq(S) /\ Len(Tail(s)) = 0
  BY <1>2
<1>5. Tail(s) = <<>>
  BY <1>4
<1> QED  BY <1>2, <1>3, <1>5

\* Before the handler runs, the stream is unused.
LEMMA StreamInit == Init => StreamInv
<1> SUFFICES ASSUME Init PROVE StreamInv
  OBVIOUS
<1> USE DEF Init
<1>1. StreamTypes
  BY DEF StreamTypes, Goroutines, NoOne
<1>2. Mutex
  BY DEF Mutex
<1>3. OneOperation
  BY BundleAssumption DEF OneOperation, Goroutines, NoOne
<1>4. Running /\ AnswerMatches
  BY BundleAssumption DEF Running, AnswerMatches, Goroutines
<1> QED  BY <1>1, <1>2, <1>3, <1>4 DEF StreamInv

\* Every step of the handler, the heartbeats, the users and the client keeps the
\* stream with one goroutine.
LEMMA StreamStep == StreamInv /\ [Next]_vars => StreamInv'
<1> SUFFICES ASSUME StreamInv, [Next]_vars PROVE StreamInv'
  OBVIOUS
<1> USE DEF StreamInv
<1>1. ASSUME NEW g \in Goroutines, NEW what \in {"event", "op"}, Begin(g, what)
      PROVE  StreamInv'
  <2> USE <1>1 DEF Begin, main, stream
  <2>1. StreamTypes'
    BY DEF StreamTypes
  <2>2. Mutex'
    BY DEF Mutex, StreamTypes
  <2>3. OneOperation'
    BY DEF OneOperation, StreamTypes, Dead
  <2>4. Running' /\ AnswerMatches'
    BY BundleAssumption DEF Running, AnswerMatches, StreamTypes, Goroutines
  <2> QED  BY <2>1, <2>2, <2>3, <2>4
<1>2. ASSUME NEW g \in Goroutines, Lock(g) PROVE StreamInv'
  <2> USE <1>2 DEF Lock, main, stream
  <2>1. StreamTypes'
    BY DEF StreamTypes
  <2>2. Mutex'
    BY BundleAssumption DEF Mutex, StreamTypes, Goroutines, NoOne
  <2>3. OneOperation'
    BY DEF OneOperation, StreamTypes, Dead
  <2>4. Running' /\ AnswerMatches'
    BY BundleAssumption DEF Running, AnswerMatches, StreamTypes, Goroutines
  <2> QED  BY <2>1, <2>2, <2>3, <2>4
<1>3. ASSUME NEW g \in Goroutines, Send(g) PROVE StreamInv'
  <2> USE <1>3 DEF Send, main
  <2>1. StreamTypes'
    <3>1. [kind |-> job[g], of |-> g] \in Messages
      BY DEF StreamTypes, Messages
    <3>2. down' \in Seq(Messages)
      BY <3>1 DEF StreamTypes
    <3> QED  BY <3>2, ZenonT(30) DEF StreamTypes
  <2>2. Mutex'
    BY BundleAssumption DEF Mutex, StreamTypes, Goroutines, NoOne
  <2>3. \A h \in Goroutines : at[h] # "recv"
    BY DEF Mutex
  <2>4. OneOperation'
    <3> SUFFICES ASSUME ~Dead PROVE OneOperation'
      BY DEF OneOperation, Dead
    <3>1. up = <<>> /\ client \notin Goroutines /\ \A i \in DOMAIN down : down[i].kind # "op"
      <4>1. DOMAIN up = {} /\ client \notin Goroutines /\ \A i \in DOMAIN down : down[i].kind # "op"
        BY <2>3, StreamElements, ZenonT(30) DEF OneOperation
      <4> QED  BY <4>1 DEF StreamTypes
    <3>2. \A i \in DOMAIN down' : i # Len(down) + 1 => i \in DOMAIN down /\ down'[i] = down[i]
      BY DEF StreamTypes
    <3>3. /\ down'[Len(down) + 1] = [kind |-> job[g], of |-> g]
          /\ DOMAIN down' = 1 .. Len(down) + 1 /\ Len(down) \in Nat
      BY DEF StreamTypes
    <3>4. job[g] = "op" => at'[g] = "recv"
      BY DEF StreamTypes
    <3>5. up' = up /\ client' = client
      OBVIOUS
    <3> QED  BY <3>1, <3>2, <3>3, <3>4, <3>5 DEF OneOperation
  <2>5. Running' /\ AnswerMatches'
    BY BundleAssumption, ZenonT(30) DEF Running, AnswerMatches, StreamTypes, Goroutines
  <2> QED  BY <2>1, <2>2, <2>4, <2>5
<1>4. ASSUME NEW g \in Goroutines, Recv(g) PROVE StreamInv'
  <2> USE <1>4 DEF Recv, main
  <2>1. \A h \in Goroutines : at[h] = "recv" => h = g
    BY DEF Mutex
  <2>2. ~Dead => up # <<>> /\ Len(up) = 1 /\ Head(up) = g /\ Tail(up) = <<>>
    <3> SUFFICES ASSUME ~Dead PROVE up # <<>> /\ Len(up) = 1 /\ Head(up) = g /\ Tail(up) = <<>>
      OBVIOUS
    <3>1. up # <<>> /\ up \in Seq(Goroutines) /\ Len(up) <= 1
      BY DEF OneOperation, StreamTypes
    <3>2. Len(up) = 1 /\ Head(up) = up[1] /\ up[1] \in Goroutines /\ 1 \in DOMAIN up /\ Tail(up) = <<>>
      BY <3>1, OneElement
    <3>3. up[1] = g
      BY <2>1, <3>2 DEF OneOperation
    <3> QED  BY <3>1, <3>2, <3>3
  <2>3. StreamTypes'
    BY <2>2 DEF StreamTypes
  <2>4. Mutex'
    BY <2>1 DEF Mutex, StreamTypes
  <2>5. OneOperation'
    BY <2>2 DEF OneOperation, StreamTypes, Dead
  <2>6. "hb" \notin Users /\ "main" \notin Users
    BY BundleAssumption
  <2>7. Running'
    BY <2>6 DEF Running, StreamTypes, Goroutines
  <2>8. AnswerMatches'
    BY <2>2 DEF AnswerMatches, StreamTypes
  <2> QED  BY <2>3, <2>4, <2>5, <2>7, <2>8
<1>5. CASE HandlerNext
  <2>1. CASE ReceiveInit
    <3> USE <2>1 DEF ReceiveInit, stream
    <3>1. StreamTypes'
      BY DEF StreamTypes
    <3>2. "hb" \in Goroutines /\ at["hb"] = "exited"
      BY DEF Running, Goroutines
    <3>3. Mutex'
      BY <3>2 DEF Mutex, StreamTypes
    <3>4. OneOperation'
      <4>1. \A g \in Goroutines : at[g] = "recv" => at'[g] = "recv"
        BY <3>2 DEF StreamTypes
      <4>2. Dead => Dead'
        BY DEF Dead
      <4> QED  BY <4>1, <4>2, StreamElements DEF OneOperation
    <3>5. Running'
      <4>1. \A u \in Users : u \in Goroutines /\ u # "hb" /\ at'[u] = at[u]
        BY BundleAssumption, ZenonT(30) DEF StreamTypes, Goroutines
      <4> QED  BY <3>2, <4>1 DEF Running
    <3>6. AnswerMatches'
      BY DEF AnswerMatches
    <3> QED  BY <3>1, <3>3, <3>4, <3>5, <3>6
  <2>2. CASE SetUpDone
    <3> USE <2>2 DEF SetUpDone, stream
    <3>1. \A g \in Goroutines :
            at'[g] = at[g] \/ (g \in Users /\ at[g] = "exited" /\ at'[g] = "idle")
      BY DEF Running
    <3>2. StreamTypes'
      BY DEF StreamTypes
    <3>3. Mutex' /\ OneOperation'
      <4>1. Mutex'
        BY <3>1 DEF Mutex
      <4>2. OneOperation'
        BY <3>1, StreamElements DEF OneOperation, Dead
      <4> QED  BY <4>1, <4>2
    <3>4. Running' /\ AnswerMatches'
      BY <3>1, BundleAssumption DEF Running, AnswerMatches, StreamTypes, Goroutines,
                                    After
    <3> QED  BY <3>2, <3>3, <3>4
  <2>3. CASE List \/ Acquire \/ AcquireFails \/ Unwind \/ RunEnds \/ Deferred
             \/ CloseConn \/ CloseEnv
    <3>1. UNCHANGED <<writer, stream>>
      BY <2>3 DEF List, Acquire, AcquireFails, Unwind, RunEnds, Deferred, CloseConn,
                  CloseEnv
    <3>2. /\ pc # "returned" /\ pc' # "returned" /\ pc' # "init"
          /\ pc' \in {"list", "conn", "env"} => pc \in {"list", "conn", "env"}
      BY <2>3 DEF List, Acquire, AcquireFails, Unwind, RunEnds, Deferred, CloseConn,
                  CloseEnv, After
    <3>3. StreamTypes' /\ Mutex' /\ OneOperation' /\ AnswerMatches'
      BY <3>1, <3>2 DEF writer, stream, StreamTypes, Mutex, OneOperation,
                        AnswerMatches, Dead
    <3>4. Running'
      BY <3>1, <3>2 DEF writer, Running
    <3> QED  BY <3>3, <3>4
  <2> QED  BY <1>5, <2>1, <2>2, <2>3 DEF HandlerNext
<1>6. CASE Tick
  <2> USE <1>6 DEF Tick, main, stream
  <2>1. StreamTypes'
    BY ZenonT(30) DEF StreamTypes
  <2>2. Mutex' /\ OneOperation'
    BY DEF Mutex, OneOperation, StreamTypes, Dead
  <2>3. Running' /\ AnswerMatches'
    BY BundleAssumption DEF Running, AnswerMatches, StreamTypes, Goroutines
  <2> QED  BY <2>1, <2>2, <2>3
<1>7. CASE Stop
  <2> USE <1>7 DEF Stop, stream
  <2>1. StreamTypes'
    BY ZenonT(30) DEF StreamTypes
  <2>2. Mutex' /\ OneOperation'
    BY DEF Mutex, OneOperation, StreamTypes, Dead
  <2>3. Running' /\ AnswerMatches'
    BY BundleAssumption DEF Running, AnswerMatches, StreamTypes, Goroutines
  <2> QED  BY <2>1, <2>2, <2>3
<1>8. CASE ClientReads
  <2> USE <1>8 DEF ClientReads, main, writer
  <2>1. /\ Head(down) = down[1] /\ 1 \in DOMAIN down
        /\ \A i \in DOMAIN down' : i + 1 \in DOMAIN down /\ down'[i] = down[i + 1] /\ i + 1 # 1
    BY DEF StreamTypes
  <2>2. StreamTypes'
    <3>1. down[1].of \in Goroutines
      BY <2>1, StreamElements
    <3>2. down' \in Seq(Messages)
      BY DEF StreamTypes
    <3> QED  BY <2>1, <3>1, <3>2 DEF StreamTypes
  <2>3. OneOperation'
    <3> SUFFICES ASSUME ~Dead PROVE OneOperation'
      BY DEF OneOperation, Dead
    <3>1. CASE down[1].kind = "op"
      <4>1. \A i \in DOMAIN down' : down'[i].kind # "op"
        BY <2>1, <3>1 DEF OneOperation
      <4>2. client' = down[1].of /\ at[down[1].of] = "recv" /\ up = <<>>
        BY <2>1, <3>1 DEF OneOperation
      <4> QED  BY <4>1, <4>2 DEF OneOperation
    <3>2. CASE down[1].kind # "op"
      <4>1. client' = client
        BY <2>1, <3>2
      <4>2. /\ \A i \in DOMAIN down' : down'[i].kind = "op" =>
                 /\ at[down'[i].of] = "recv" /\ client \notin Goroutines /\ up = <<>>
                 /\ \A j \in DOMAIN down' : down'[j].kind = "op" => i + 1 = j + 1
        BY <2>1 DEF OneOperation
      <4>3. \A i, j \in DOMAIN down' : i + 1 = j + 1 => i = j
        BY <2>2 DEF StreamTypes
      <4> QED  BY <4>1, <4>2, <4>3 DEF OneOperation
    <3> QED  BY <3>1, <3>2
  <2>4. Mutex' /\ Running' /\ AnswerMatches'
    BY DEF Mutex, Running, AnswerMatches
  <2> QED  BY <2>2, <2>3, <2>4
<1>9. CASE ClientAnswers
  <2> USE <1>9 DEF ClientAnswers, main, writer
  <2>1. StreamTypes'
    BY DEF StreamTypes
  <2>2. OneOperation'
    BY BundleAssumption DEF OneOperation, StreamTypes, Dead, Goroutines, NoOne
  <2>3. Mutex' /\ Running' /\ AnswerMatches'
    BY DEF Mutex, Running, AnswerMatches
  <2> QED  BY <2>1, <2>2, <2>3
<1>10. CASE Break
  <2> USE <1>10 DEF Break, main, writer
  <2>1. StreamTypes' /\ OneOperation'
    BY DEF StreamTypes, OneOperation, Dead
  <2>2. Mutex' /\ Running' /\ AnswerMatches'
    BY DEF Mutex, Running, AnswerMatches
  <2> QED  BY <2>1, <2>2
<1>11. CASE UNCHANGED vars
  BY <1>11 DEF vars, StreamTypes, Mutex, OneOperation, Running, AnswerMatches, Dead
<1> QED
  BY <1>1, <1>2, <1>3, <1>4, <1>5, <1>6, <1>7, <1>8, <1>9, <1>10, <1>11
     DEF Next, Goroutines

\* StreamInv always holds.
LEMMA StreamAlways == Spec => []StreamInv
  BY StreamInit, StreamStep, PTL DEF Spec

\* eventWriter.mu: no two goroutines are in Send, or in Recv, of the stream.
THEOREM StreamIsExclusive == Spec => []StreamExclusive
<1>1. StreamInv => StreamExclusive
  BY DEF StreamInv, Mutex, StreamExclusive
<1> QED  BY <1>1, StreamAlways, PTL

\* eventWriter.StackOperation returns the answer to its own request.
THEOREM AnswersMatch == Spec => []AnswerMatches
<1>1. StreamInv => AnswerMatches
  BY DEF StreamInv
<1> QED  BY <1>1, StreamAlways, PTL

\* heartbeatWriter.Stop: no heartbeat is being written once the handler returned.
THEOREM HeartbeatStops == Spec => []NoHeartbeatAfterStop
<1>1. StreamInv => NoHeartbeatAfterStop
  BY DEF StreamInv, Running, NoHeartbeatAfterStop
<1> QED  BY <1>1, StreamAlways, PTL

-----------------------------------------------------------------------------
(* The release of what the handler acquires. *)

Resources == {"primary", "hook", "TMPDIR", "tempDir"} \cup Range(Duts)

\* What the deferred call f of the handler releases.
Releases(f) ==
  IF f = "conn" THEN {"primary"} \cup Range(Duts) ELSE {"hook", "TMPDIR", "tempDir"}

\* What a deferred call that is being executed releases.
Closing ==
  IF pc = "closeConn" THEN Releases("conn")
  ELSE IF pc = "closeEnv" THEN Releases("env") ELSE {}

\* Whatever is held, some call that has been deferred and not executed, or is being
\* executed, releases: one of a set-up function or one of the handler.
ReleaseInv ==
  /\ inner \in Seq(Resources) /\ defers \in Seq({"conn", "env"})
  /\ \A r \in held :
       \/ \E i \in DOMAIN inner : inner[i] = r
       \/ \E i \in DOMAIN defers : r \in Releases(defers[i])
       \/ r \in Closing
  /\ pc \notin {"conn", "env", "unwind"} => inner = <<>>
  /\ pc \in {"conn", "env"} => \A i \in DOMAIN inner : inner[i] \in Releases(pc)
  /\ pc \in {"init", "list", "stop", "returned"} => defers = <<>>

\* What a set-up function acquires, the matching close releases.
LEMMA WantedReleased ==
    ASSUME NEW f \in {"conn", "env"}
    PROVE  /\ Wanted(f) \in Seq(Resources)
           /\ \A i \in DOMAIN Wanted(f) : Wanted(f)[i] \in Releases(f)
           /\ Releases("conn") = Range(Wanted("conn"))
           /\ Releases("env") = Range(CloseOrder)
<1> DEFINE Env == {"hook", "TMPDIR", "tempDir"}
<1>1. ASSUME NEW S, NEW a \in Seq(S), NEW b \in Seq(S) PROVE a \o b \in Seq(S)
  OBVIOUS
<1>2. Wanted("env") \in Seq(Env)
  <2>1. <<>> \in Seq(Env) /\ <<"tempDir">> \in Seq(Env) /\ <<"TMPDIR">> \in Seq(Env)
        /\ <<"hook">> \in Seq(Env)
    OBVIOUS
  <2> DEFINE a == IF cfg.ownTemp THEN <<"tempDir">> ELSE <<>>
             c == IF cfg.hook THEN <<"hook">> ELSE <<>>
  <2>2. a \in Seq(Env) /\ c \in Seq(Env)
    <3> HIDE DEF Env
    <3> QED  BY <2>1
  <2>3. Wanted("env") = a \o <<"TMPDIR">> \o c
    BY DEF Wanted
  <2> HIDE DEF Env, a, c
  <2>4. a \o <<"TMPDIR">> \in Seq(Env)
    BY <2>1, <2>2, <1>1
  <2> QED  BY <2>2, <2>3, <2>4, <1>1, ZenonT(30)
<1>3. Duts \in Seq(Resources)
  <2>1. ASSUME NEW S, NEW s \in Seq(S), NEW T, Range(s) \subseteq T PROVE s \in Seq(T)
    BY <2>1 DEF Range
  <2> QED  BY <2>1, BundleAssumption DEF Resources
<1>4. Wanted("conn") \in Seq(Resources)
  <2>1. <<"primary">> \in Seq(Resources) /\ Duts \in Seq(Resources)
    BY <1>3 DEF Resources
  <2>2. Wanted("conn") = <<"primary">> \o Duts
    BY DEF Wanted
  <2> QED  BY <2>1, <2>2, <1>1, ZenonT(30)
<1>5. ASSUME NEW s \in Seq(Env) PROVE s \in Seq(Resources) /\ \A i \in DOMAIN s : s[i] \in Env
  <2>1. Env \subseteq Resources
    BY DEF Resources
  <2> HIDE DEF Env
  <2> QED  BY <2>1
<1>6. Wanted(f) \in Seq(Resources)
  <2> HIDE DEF Env
  <2> QED  BY <1>2, <1>4, <1>5
<1>7. Releases("env") = Range(CloseOrder)
  <2>1. DOMAIN CloseOrder = 1 .. 3
    BY DEF CloseOrder
  <2> QED  BY <2>1 DEF Releases, CloseOrder, Range
<1>8. Releases("conn") = Range(Wanted("conn"))
  <2>1. Wanted("conn") = <<"primary">> \o Duts
    BY DEF Wanted
  <2>2. ASSUME NEW S, NEW s \in Seq(S), NEW x \in S
        PROVE  Range(<<x>> \o s) = {x} \cup Range(s)
    <3>1. /\ Len(s) \in Nat /\ DOMAIN s = 1 .. Len(s)
          /\ DOMAIN (<<x>> \o s) = 1 .. Len(s) + 1 /\ (<<x>> \o s)[1] = x
          /\ \A i \in 1 .. Len(s) : (<<x>> \o s)[i + 1] = s[i]
      OBVIOUS
    <3>2. \A i \in 1 .. Len(s) + 1 : i = 1 \/ \E j \in 1 .. Len(s) : i = j + 1
      <4> SUFFICES ASSUME NEW i \in 1 .. Len(s) + 1, i # 1
                   PROVE  \E j \in 1 .. Len(s) : i = j + 1
        OBVIOUS
      <4>1. i - 1 \in 1 .. Len(s) /\ i = (i - 1) + 1
        BY <3>1
      <4> QED  BY <4>1
    <3>3. \A i \in 1 .. Len(s) : i + 1 \in 1 .. Len(s) + 1
      BY <3>1
    <3>4. 1 \in 1 .. Len(s) + 1
      BY <3>1
    <3> DEFINE t == <<x>> \o s
    <3>5. \A i \in DOMAIN t : t[i] = x \/ \E j \in DOMAIN s : t[i] = s[j]
      BY <3>1, <3>2
    <3>6. (\E i \in DOMAIN t : t[i] = x) /\ \A j \in DOMAIN s : \E i \in DOMAIN t : t[i] = s[j]
      BY <3>1, <3>3, <3>4, ZenonT(30)
    <3> HIDE DEF t
    <3>7. Range(t) = {x} \cup Range(s)
      BY <3>5, <3>6 DEF Range
    <3> QED  BY <3>7 DEF t
  <2>3. Duts \in Seq(Resources) /\ "primary" \in Resources
    BY <1>3 DEF Resources
  <2> QED  BY <2>1, <2>2, <2>3, ZenonT(30) DEF Releases
<1>9. CASE f = "conn"
  BY <1>6, <1>7, <1>8, <1>9 DEF Range
<1>10. CASE f = "env"
  <2>1. Releases("env") = Env
    BY DEF Releases
  <2> HIDE DEF Env
  <2> QED  BY <1>6, <1>7, <1>8, <1>10, <1>2, <1>5, <2>1
<1> QED  BY <1>6, <1>7, <1>8, <1>9, <1>10

\* Appending to and removing from the end of a sequence.
LEMMA EndOfSequence ==
    ASSUME NEW S, NEW s \in Seq(S)
    PROVE  /\ \A e \in S : /\ Append(s, e) \in Seq(S)
                          /\ DOMAIN Append(s, e) = 1 .. Len(s) + 1
                          /\ DOMAIN s = 1 .. Len(s)
                          /\ Append(s, e)[Len(s) + 1] = e
                          /\ \A i \in DOMAIN s : Append(s, e)[i] = s[i]
           /\ s # <<>> => /\ Last(s) \in S /\ Front(s) \in Seq(S)
                          /\ \A i \in DOMAIN s : s[i] = Last(s) \/ i \in DOMAIN Front(s)
                          /\ \A i \in DOMAIN Front(s) : i \in DOMAIN s /\ Front(s)[i] = s[i]
<1>1. Len(s) \in Nat /\ DOMAIN s = 1 .. Len(s)
  OBVIOUS
<1>2. ASSUME s # <<>>
      PROVE  /\ Len(s) >= 1 /\ Last(s) \in S
             /\ Front(s) \in Seq(S) /\ DOMAIN Front(s) = 1 .. Len(s) - 1
             /\ \A i \in 1 .. Len(s) - 1 : Front(s)[i] = s[i]
  BY <1>1, <1>2 DEF Front, Last
<1>3. ASSUME NEW e \in S
      PROVE  /\ Append(s, e) \in Seq(S) /\ DOMAIN Append(s, e) = 1 .. Len(s) + 1
             /\ Append(s, e)[Len(s) + 1] = e
             /\ \A i \in DOMAIN s : Append(s, e)[i] = s[i]
  OBVIOUS
<1>4. ASSUME s # <<>>, NEW i \in DOMAIN s
      PROVE  s[i] = Last(s) \/ i \in DOMAIN Front(s)
  BY <1>1, <1>2, <1>4 DEF Last
<1> QED  BY <1>1, <1>2, <1>3, <1>4

\* At first nothing is acquired.
LEMMA ReleaseInit == Init => ReleaseInv
  BY DEF Init, ReleaseInv

\* Every step keeps the account of what is acquired and when it is released.
LEMMA ReleaseStep == ReleaseInv /\ [Next]_vars => ReleaseInv'
<1> SUFFICES ASSUME ReleaseInv, [Next]_vars PROVE ReleaseInv'
  OBVIOUS
<1> USE DEF ReleaseInv
<1>1. CASE ReceiveInit \/ List \/ RunEnds
  BY <1>1 DEF ReceiveInit, List, RunEnds, After, Closing
<1>2. CASE Acquire
  <2> DEFINE r == Wanted(pc)[Len(inner) + 1]
  <2>1. /\ pc' = pc /\ defers' = defers /\ inner' = Append(inner, r) /\ held' = held \cup {r}
        /\ pc \in {"conn", "env"} /\ Len(inner) < Len(Wanted(pc))
    BY <1>2 DEF Acquire
  <2>2. r \in Resources /\ r \in Releases(pc)
    BY <2>1, WantedReleased
  <2>3. /\ inner' \in Seq(Resources) /\ Len(inner) + 1 \in DOMAIN inner'
        /\ inner'[Len(inner) + 1] = r
        /\ \A i \in DOMAIN inner : i \in DOMAIN inner' /\ inner'[i] = inner[i]
        /\ \A i \in DOMAIN inner' : i = Len(inner) + 1 \/ i \in DOMAIN inner
    <3> HIDE DEF r
    <3> QED  BY <2>1, <2>2
  <2> HIDE DEF r
  <2> QED  BY <2>1, <2>2, <2>3 DEF Closing
<1>3. CASE AcquireFails
  BY <1>3 DEF AcquireFails, Closing
<1>4. CASE Unwind
  <2>1. /\ pc = "unwind" /\ defers' = defers
        /\ IF inner = <<>> THEN pc' = "return" /\ held' = held /\ inner' = inner
           ELSE held' = held \ {Last(inner)} /\ inner' = Front(inner) /\ pc' = pc
    BY <1>4 DEF Unwind
  <2>2. CASE inner = <<>>
    BY <2>1, <2>2 DEF Closing
  <2>3. CASE inner # <<>>
    <3>1. /\ inner' \in Seq(Resources)
          /\ \A i \in DOMAIN inner : inner[i] # Last(inner) =>
               i \in DOMAIN inner' /\ inner'[i] = inner[i]
      BY <2>1, <2>3, EndOfSequence
    <3> QED  BY <2>1, <2>3, <3>1 DEF Closing
  <2> QED  BY <2>2, <2>3
<1>5. CASE SetUpDone
  <2>1. /\ pc \in {"conn", "env"} /\ pc' \in {"conn", "env", "run"} /\ held' = held
        /\ inner' = <<>> /\ defers' = Append(defers, pc)
    BY <1>5 DEF SetUpDone, After
  <2>2. /\ defers' \in Seq({"conn", "env"}) /\ Len(defers) + 1 \in DOMAIN defers'
        /\ defers'[Len(defers) + 1] = pc
        /\ \A i \in DOMAIN defers : i \in DOMAIN defers' /\ defers'[i] = defers[i]
    BY <2>1
  <2>3. <<>> \in Seq(Resources) /\ DOMAIN <<>> = {}
    OBVIOUS
  <2> QED  BY <2>1, <2>2, <2>3 DEF Closing
<1>6. CASE Deferred
  BY <1>6, EndOfSequence DEF Deferred, Closing
<1>7. CASE CloseConn
  BY <1>7, WantedReleased DEF CloseConn, Closing
<1>8. CASE CloseEnv
  BY <1>8, WantedReleased DEF CloseEnv, Closing
<1>9. CASE Stop
  BY <1>9 DEF Stop, Closing
<1>10. CASE UNCHANGED main
  BY <1>10 DEF main, Closing
<1>11. CASE UNCHANGED vars
  BY <1>11, <1>10 DEF vars, main
<1>12. \/ ReceiveInit \/ List \/ RunEnds \/ Acquire \/ AcquireFails \/ Unwind
       \/ SetUpDone \/ Deferred \/ CloseConn \/ CloseEnv \/ Stop \/ UNCHANGED main
       \/ UNCHANGED vars
  BY ZenonT(30) DEF Next, HandlerNext, Tick, Lock, Send, Recv, Begin, ClientReads,
                    ClientAnswers, Break, main
<1> QED
  BY <1>1, <1>2, <1>3, <1>4, <1>5, <1>6, <1>7, <1>8, <1>9, <1>10, <1>11, <1>12

\* The deferred calls of RunTests and of its set-up functions release everything,
\* whichever step failed.
THEOREM EverythingReleased == Spec => []ReleasedOnReturn
<1>1. ReleaseInv => ReleasedOnReturn
  BY DEF ReleaseInv, ReleasedOnReturn, Closing
<1> QED  BY <1>1, ReleaseInit, ReleaseStep, PTL DEF Spec

-----------------------------------------------------------------------------
(* The order of the releases. *)

\* The set-up functions are called, and their releases deferred, in this order.
First == IF cfg.recursive THEN "conn" ELSE "env"
Second == IF cfg.recursive THEN "env" ELSE "conn"

\* The set-up function that is under way, or has failed.
Current == IF Len(defers) = 0 THEN First ELSE Second

\* The release of the connections is deferred, and has not begun.
ConnDeferred == Len(defers) >= (IF cfg.recursive THEN 1 ELSE 2)

\* Which deferred calls are left, by where the handler is.
DefersInv ==
  /\ Len(defers) <= 2
  /\ Len(defers) >= 1 => defers[1] = First
  /\ Len(defers) >= 2 => defers[2] = Second
  /\ pc \in {"init", "list"} => Len(defers) = 0
  /\ pc \in {"conn", "env"} => pc = Current
  /\ pc \in {"conn", "env", "unwind"} => Len(defers) < 2
  /\ pc = "closeConn" => Len(defers) = (IF cfg.recursive THEN 0 ELSE 1)
  /\ pc = "closeEnv" => Len(defers) = (IF cfg.recursive THEN 1 ELSE 0)

\* A set-up function has what it acquired first, and what it arms it has.
PrefixInv ==
  /\ pc \in {"conn", "env", "unwind"} =>
       /\ Len(inner) <= Len(Wanted(Current))
       /\ \A i \in DOMAIN inner : inner[i] = Wanted(Current)[i]
  /\ \A i \in DOMAIN inner : inner[i] \in held

\* The environment is released before the connections if it was set up after them.
NestedInv ==
  /\ ConnDeferred => Releases("conn") \subseteq held
  /\ "hook" \in held /\ cfg.recursive => ConnDeferred
  /\ "TMPDIR" \in held /\ cfg.ownTemp => "tempDir" \in held
  /\ "hook" \in held => "TMPDIR" \in held

\* The types of what the other arguments do not need.
PlainTypes ==
  /\ cfg \in [recursive : BOOLEAN, ownTemp : BOOLEAN, hook : BOOLEAN]
  /\ pc \in {"init", "list", "conn", "env", "unwind", "run", "return",
             "closeConn", "closeEnv", "stop", "returned"}
  /\ held \subseteq Resources
  /\ err \in BOOLEAN /\ closeErr \in BOOLEAN /\ broken \in BOOLEAN
  /\ begun \in 0 .. MaxEvents /\ Len(down) <= Window

OrderInv == StreamInv /\ ReleaseInv /\ PlainTypes /\ DefersInv /\ PrefixInv /\ NestedInv

\* A concatenation, element by element.
LEMMA ConcatElements ==
  ASSUME NEW S, NEW s \in Seq(S), NEW t \in Seq(S)
  PROVE  /\ s \o t \in Seq(S) /\ Len(s \o t) = Len(s) + Len(t)
         /\ Len(s) \in Nat /\ Len(t) \in Nat /\ DOMAIN s = 1 .. Len(s)
         /\ \A i \in 1 .. Len(s) : (s \o t)[i] = s[i]
         /\ \A i \in 1 .. Len(t) : (s \o t)[Len(s) + i] = t[i]
  OBVIOUS

\* The order in which setUpTestEnvironment acquires.
LEMMA EnvOrder ==
  LET W == Wanted("env")
  IN /\ Len(W) \in Nat
     /\ cfg.ownTemp => /\ Len(W) \in {2, 3} /\ W[1] = "tempDir" /\ W[2] = "TMPDIR"
                       /\ Len(W) = 3 => W[3] = "hook"
     /\ ~cfg.ownTemp => /\ Len(W) \in {1, 2} /\ W[1] = "TMPDIR"
                        /\ Len(W) = 2 => W[2] = "hook"
<1> DEFINE a == IF cfg.ownTemp THEN <<"tempDir">> ELSE <<>>
           b == <<"TMPDIR">>
           c == IF cfg.hook THEN <<"hook">> ELSE <<>>
           Env == {"hook", "TMPDIR", "tempDir"}
<1>1. /\ a \in Seq(Env) /\ b \in Seq(Env) /\ c \in Seq(Env)
  <2>1. <<>> \in Seq(Env) /\ <<"tempDir">> \in Seq(Env) /\ <<"TMPDIR">> \in Seq(Env)
        /\ <<"hook">> \in Seq(Env)
    OBVIOUS
  <2> HIDE DEF Env
  <2>2. QED
    BY <2>1
<1>2. /\ Len(a) = (IF cfg.ownTemp THEN 1 ELSE 0) /\ (cfg.ownTemp => a[1] = "tempDir")
  OBVIOUS
<1>3. /\ Len(b) = 1 /\ b[1] = "TMPDIR"
  OBVIOUS
<1>4. /\ Len(c) = (IF cfg.hook THEN 1 ELSE 0) /\ (cfg.hook => c[1] = "hook")
  OBVIOUS
<1>5. Wanted("env") = (a \o b) \o c
  BY DEF Wanted
<1> HIDE DEF a, b, c, Env
<1>6. /\ (a \o b) \in Seq(Env) /\ Len(a \o b) = Len(a) + Len(b)
      /\ \A i \in 1 .. Len(a) : (a \o b)[i] = a[i]
      /\ \A i \in 1 .. Len(b) : (a \o b)[Len(a) + i] = b[i]
  BY <1>1, ConcatElements
<1> DEFINE ab == a \o b
<1>7. /\ Len(ab \o c) = Len(ab) + Len(c)
      /\ \A i \in 1 .. Len(ab) : (ab \o c)[i] = ab[i]
      /\ \A i \in 1 .. Len(c) : (ab \o c)[Len(ab) + i] = c[i]
  <2>1. ab \in Seq(Env)
    BY <1>6
  <2> HIDE DEF ab
  <2>2. QED
    BY <1>1, <2>1, ConcatElements
<1> DEFINE W == ab \o c
<1>8. W = Wanted("env")
  BY <1>5
<1>9. CASE cfg.ownTemp
  <2>1. Len(a) = 1 /\ Len(ab) = 2 /\ ab[1] = "tempDir" /\ ab[2] = "TMPDIR"
    <3>1. Len(a) = 1 /\ a[1] = "tempDir"
      BY <1>2, <1>9
    <3>2. QED
      BY <1>3, <1>6, <3>1
  <2> HIDE DEF ab
  <2>2. W[1] = "tempDir" /\ W[2] = "TMPDIR"
    BY <1>7, <2>1
  <2>3. CASE cfg.hook
    <3>1. Len(W) = 3 /\ W[3] = "hook"
      BY <1>4, <1>7, <2>1, <2>3
    <3> HIDE DEF W
    <3>2. QED
      BY <1>8, <1>9, <2>2, <3>1
  <2>4. CASE ~cfg.hook
    <3>1. Len(W) = 2
      BY <1>4, <1>7, <2>1, <2>4
    <3> HIDE DEF W
    <3>2. QED
      BY <1>8, <1>9, <2>2, <3>1
  <2>5. QED
    BY <2>3, <2>4
<1>10. CASE ~cfg.ownTemp
  <2>1. Len(a) = 0 /\ Len(ab) = 1 /\ ab[1] = "TMPDIR"
    <3>1. Len(a) = 0
      BY <1>2, <1>10
    <3>2. 1 \in 1 .. Len(b)
      BY <1>3
    <3>3. (a \o b)[Len(a) + 1] = b[1]
      BY <1>6, <3>2
    <3>4. Len(a) + 1 = 1 /\ Len(a) + Len(b) = 1
      BY <1>3, <3>1
    <3>5. QED
      BY <1>3, <1>6, <3>1, <3>3, <3>4, ZenonT(30)
  <2> HIDE DEF ab
  <2>2. W[1] = "TMPDIR"
    BY <1>7, <2>1
  <2>3. CASE cfg.hook
    <3>1. Len(W) = 2 /\ W[2] = "hook"
      BY <1>4, <1>7, <2>1, <2>3
    <3> HIDE DEF W
    <3>2. QED
      BY <1>8, <1>10, <2>2, <3>1
  <2>4. CASE ~cfg.hook
    <3>1. Len(W) = 1
      BY <1>4, <1>7, <2>1, <2>4
    <3> HIDE DEF W
    <3>2. QED
      BY <1>8, <1>10, <2>2, <3>1
  <2>5. QED
    BY <2>3, <2>4
<1>11. QED
  BY <1>9, <1>10

\* The order in which setUpConnection acquires: the primary DUT first, and no DUT
\* twice.
LEMMA ConnOrder ==
  LET W == Wanted("conn")
  IN /\ Len(W) \in Nat /\ Len(W) >= 1 /\ W[1] = "primary"
     /\ \A i \in 1 .. Len(W) : W[i] \in {"primary"} \cup Range(Duts)
     /\ \A i, j \in 1 .. Len(W) : W[i] = W[j] => i = j
<1> DEFINE p == <<"primary">>
           W == p \o Duts
<1> DEFINE S == {"primary"} \cup Range(Duts)
<1>1. p \in Seq(S) /\ Len(p) = 1 /\ p[1] = "primary"
  OBVIOUS
<1>2. Duts \in Seq(S) /\ Len(Duts) \in Nat /\ DOMAIN Duts = 1 .. Len(Duts)
  <2>1. ASSUME NEW T, NEW s \in Seq(T), NEW U, Range(s) \subseteq U
        PROVE  s \in Seq(U) /\ Len(s) \in Nat /\ DOMAIN s = 1 .. Len(s)
    BY <2>1 DEF Range
  <2>2. QED
    BY <2>1, BundleAssumption
<1> HIDE DEF S
<1>3. Wanted("conn") = W
  BY DEF Wanted
<1> HIDE DEF p
<1>4. /\ Len(W) = 1 + Len(Duts) /\ W[1] = "primary"
      /\ \A i \in 1 .. Len(Duts) : W[1 + i] = Duts[i]
  <2>1. ASSUME NEW d \in Seq(S)
        PROVE  /\ Len(p \o d) = Len(p) + Len(d)
               /\ \A i \in 1 .. Len(p) : (p \o d)[i] = p[i]
               /\ \A i \in 1 .. Len(d) : (p \o d)[Len(p) + i] = d[i]
    <3>1. p \in Seq(S)
      BY <1>1
    <3>2. QED
      BY <3>1, ConcatElements
  <2>2. /\ Len(W) = Len(p) + Len(Duts)
        /\ \A i \in 1 .. Len(p) : W[i] = p[i]
        /\ \A i \in 1 .. Len(Duts) : W[Len(p) + i] = Duts[i]
    BY <1>2, <2>1, ZenonT(30)
  <2> HIDE DEF W
  <2>3. 1 \in 1 .. Len(p)
    BY <1>1
  <2>4. QED
    BY <1>1, <2>2, <2>3
<1> HIDE DEF W
<1>5. \A i \in 1 .. Len(W) : i = 1 \/ (i - 1 \in 1 .. Len(Duts) /\ W[i] = Duts[i - 1])
  BY <1>2, <1>4
<1>6. \A i \in 1 .. Len(Duts) : Duts[i] \in Range(Duts) /\ Duts[i] # "primary"
  BY <1>2, BundleAssumption DEF Range
<1>7. \A i, j \in 1 .. Len(Duts) : Duts[i] = Duts[j] => i = j
  BY <1>2, BundleAssumption DEF IsInjective
<1>8. \A i \in 1 .. Len(W) : W[i] \in {"primary"} \cup Range(Duts)
  BY <1>4, <1>5, <1>6
<1>9. ASSUME NEW i \in 1 .. Len(W), NEW j \in 1 .. Len(W), W[i] = W[j]
      PROVE  i = j
  <2>1. CASE i = 1 \/ j = 1
    BY <1>4, <1>5, <1>6, <1>9, <2>1
  <2>2. CASE i # 1 /\ j # 1
    <3>1. i - 1 = j - 1
      BY <1>5, <1>7, <1>9, <2>2
    <3>2. QED
      BY <1>2, <1>4, <3>1
  <2>3. QED
    BY <2>1, <2>2
<1>10. QED
  BY <1>2, <1>3, <1>4, <1>8, <1>9

\* A set-up function acquires nothing twice.
LEMMA WantedDistinct ==
  ASSUME NEW f \in {"conn", "env"}
  PROVE  LET W == Wanted(f)
         IN /\ Len(W) \in Nat /\ DOMAIN W = 1 .. Len(W)
            /\ \A i, j \in 1 .. Len(W) : W[i] = W[j] => i = j
<1>1. Len(Wanted(f)) \in Nat /\ DOMAIN Wanted(f) = 1 .. Len(Wanted(f))
  BY WantedReleased
<1>2. CASE f = "conn"
  BY <1>1, <1>2, ConnOrder
<1>3. CASE f = "env" /\ cfg.ownTemp
  BY <1>1, <1>3, EnvOrder
<1>4. CASE f = "env" /\ ~cfg.ownTemp
  BY <1>1, <1>4, EnvOrder
<1>5. QED
  BY <1>2, <1>3, <1>4

\* The length of a sequence, one element more and one less.
LEMMA EndLengths ==
  ASSUME NEW S, NEW s \in Seq(S)
  PROVE  /\ Len(s) \in Nat /\ DOMAIN s = 1 .. Len(s) /\ (s = <<>> <=> Len(s) = 0)
         /\ \A e \in S : Len(Append(s, e)) = Len(s) + 1
         /\ s # <<>> => /\ Len(s) >= 1 /\ Last(s) = s[Len(s)]
                        /\ Front(s) \in Seq(S) /\ Len(Front(s)) = Len(s) - 1
                        /\ DOMAIN Front(s) = 1 .. Len(s) - 1
                        /\ \A i \in 1 .. Len(s) - 1 : Front(s)[i] = s[i]
<1>1. Len(s) \in Nat /\ DOMAIN s = 1 .. Len(s) /\ (s = <<>> <=> Len(s) = 0)
  OBVIOUS
<1>2. ASSUME s # <<>>
      PROVE  /\ Len(s) >= 1 /\ Last(s) = s[Len(s)]
             /\ Front(s) \in Seq(S) /\ Len(Front(s)) = Len(s) - 1
             /\ DOMAIN Front(s) = 1 .. Len(s) - 1
             /\ \A i \in 1 .. Len(s) - 1 : Front(s)[i] = s[i]
  BY <1>1, <1>2 DEF Front, Last
<1>3. \A e \in S : Len(Append(s, e)) = Len(s) + 1
  OBVIOUS
<1>4. QED
  BY <1>1, <1>2, <1>3, ZenonT(30)

\* The parameters of the call do not change.
LEMMA CallIsFixed == [Next]_vars => cfg' = cfg
  BY ZenonT(30) DEF Next, vars, main, HandlerNext, ReceiveInit, List, Acquire,
                    AcquireFails, Unwind, SetUpDone, RunEnds, Deferred, CloseConn,
                    CloseEnv, Stop, Tick, Lock, Send, Recv, Begin, ClientReads,
                    ClientAnswers, Break

\* The handler registers its deferred calls in the order of the set-up functions,
\* and executes them the other way round.
LEMMA DefersStep ==
  ASSUME ReleaseInv, PlainTypes, DefersInv, HandlerNext \/ Stop
  PROVE  DefersInv'
<1>1. cfg' = cfg
  BY CallIsFixed DEF Next
<1>2. First' = First /\ Second' = Second
  BY <1>1 DEF First, Second
<1>3. /\ defers \in Seq({"conn", "env"}) /\ Len(defers) \in Nat
      /\ (defers = <<>> <=> Len(defers) = 0)
  BY EndLengths DEF ReleaseInv
<1>4. CASE ReceiveInit \/ List
  <2>1. /\ pc \in {"init", "list"} /\ defers' = defers
        /\ pc' \in {"returned", "list", "return"} \/ pc' = First
    BY <1>4 DEF ReceiveInit, List, After, First
  <2>2. QED
    BY <1>1, <1>2, <2>1 DEF DefersInv, Current, First
<1>5. CASE Acquire \/ AcquireFails \/ Unwind \/ RunEnds \/ CloseConn \/ CloseEnv \/ Stop
  <2>1. /\ defers' = defers
        /\ \/ pc' = pc \/ pc' \in {"return", "returned"}
           \/ pc \in {"conn", "env"} /\ pc' = "unwind"
    BY <1>5 DEF Acquire, AcquireFails, Unwind, RunEnds, CloseConn, CloseEnv, Stop
  <2>2. QED
    BY <1>1, <1>2, <2>1 DEF DefersInv, Current
<1>6. CASE SetUpDone
  <2>1. /\ pc = Current /\ pc \in {"conn", "env"} /\ Len(defers) < 2
        /\ defers' = Append(defers, pc) /\ pc' = After(pc)
    BY <1>6 DEF SetUpDone, DefersInv
  <2>2. /\ Len(defers') = Len(defers) + 1 /\ defers'[Len(defers) + 1] = pc
        /\ \A i \in 1 .. Len(defers) : defers'[i] = defers[i]
    BY <1>3, <2>1
  <2>3. CASE Len(defers) = 0
    <3>1. pc = First /\ pc' = Second
      BY <2>1, <2>3 DEF Current, First, Second, After
    <3>2. QED
      BY <1>2, <2>2, <2>3, <3>1 DEF DefersInv, Current, First, Second
  <2>4. CASE Len(defers) = 1
    <3>1. pc = Second /\ pc' = "run"
      BY <2>1, <2>4 DEF Current, First, Second, After
    <3>2. defers'[1] = First /\ defers'[2] = Second /\ Len(defers') = 2
      BY <2>2, <2>4, <3>1 DEF DefersInv
    <3>3. QED
      BY <1>2, <3>1, <3>2 DEF DefersInv
  <2>5. \A n \in Nat : n < 2 => n = 0 \/ n = 1
    OBVIOUS
  <2>6. QED
    BY <1>3, <2>1, <2>3, <2>4, <2>5, ZenonT(30)
<1>7. CASE Deferred
  <2>1. CASE defers = <<>>
    BY <1>1, <1>2, <1>7, <2>1 DEF Deferred, DefersInv
  <2>2. CASE defers # <<>>
    <3>1. /\ pc' = (IF Last(defers) = "conn" THEN "closeConn" ELSE "closeEnv")
          /\ defers' = Front(defers)
      BY <1>7, <2>2 DEF Deferred
    <3>2. /\ Len(defers) >= 1 /\ Last(defers) = defers[Len(defers)]
          /\ Len(defers') = Len(defers) - 1
          /\ \A i \in 1 .. Len(defers) - 1 : defers'[i] = defers[i]
      BY <1>3, <2>2, <3>1, EndLengths
    <3>3. CASE Len(defers) = 1
      <4>1. Last(defers) = First /\ Len(defers') = 0
        BY <3>2, <3>3 DEF DefersInv
      <4>2. QED
        BY <1>1, <3>1, <4>1 DEF DefersInv, First
    <3>4. CASE Len(defers) = 2
      <4>1. Last(defers) = Second /\ Len(defers') = 1 /\ defers'[1] = First
        BY <3>2, <3>4 DEF DefersInv
      <4>2. QED
        BY <1>1, <1>2, <3>1, <4>1 DEF DefersInv, Second
    <3>5. QED
      BY <1>3, <3>2, <3>3, <3>4 DEF DefersInv
  <2>3. QED
    BY <2>1, <2>2
<1>8. QED
  BY <1>4, <1>5, <1>6, <1>7 DEF HandlerNext

\* The sets of resources of the two set-up functions are disjoint.
LEMMA Apart ==
  /\ Releases("conn") \cap Releases("env") = {}
  /\ "primary" \in Releases("conn") /\ Range(Duts) \subseteq Releases("conn")
  /\ Releases("env") = {"hook", "TMPDIR", "tempDir"}
  BY BundleAssumption DEF Releases

\* The function under way is one of the two, and its releases are not deferred yet.
LEMMA CurrentIsNew ==
  ASSUME ReleaseInv, DefersInv, PlainTypes, pc \in {"conn", "env", "unwind"}
  PROVE  /\ Current \in {"conn", "env"}
         /\ \A i \in DOMAIN defers : defers[i] \in {"conn", "env"} /\ defers[i] # Current
         /\ Current = "env" /\ cfg.recursive => ConnDeferred
         /\ ConnDeferred => Current = "env"
<1>1. Len(defers) \in Nat /\ DOMAIN defers = 1 .. Len(defers)
  BY EndLengths DEF ReleaseInv
<1>2. Len(defers) < 2
  BY DEF DefersInv
<1>3. Current \in {"conn", "env"}
  BY DEF Current, First, Second
<1>4. \A i \in DOMAIN defers : i = 1 /\ Len(defers) = 1 /\ defers[i] = First
  BY <1>1, <1>2 DEF DefersInv
<1>5. \A i \in DOMAIN defers : defers[i] \in {"conn", "env"} /\ defers[i] # Current
  BY <1>4 DEF Current, First, Second
<1>6. Current = "env" /\ cfg.recursive => ConnDeferred
  BY <1>1 DEF Current, First, ConnDeferred
<1>7. ConnDeferred => Current = "env"
  BY <1>1, <1>2 DEF Current, Second, ConnDeferred
<1>8. QED
  BY <1>3, <1>5, <1>6, <1>7

\* What the function under way has not armed, its counterpart will release.
LEMMA HeldByCurrent ==
  ASSUME ReleaseInv, DefersInv, PlainTypes, pc \in {"conn", "env", "unwind"},
         NEW r \in held, r \in Releases(Current)
  PROVE  \E i \in DOMAIN inner : inner[i] = r
<1>1. \A i \in DOMAIN defers : r \notin Releases(defers[i])
  BY CurrentIsNew, Apart
<1>2. QED
  BY <1>1 DEF ReleaseInv, Closing

\* A set-up function has its resources from the first to the last acquired.
LEMMA PrefixStep ==
  ASSUME ReleaseInv, ReleaseInv', PlainTypes, DefersInv, PrefixInv, HandlerNext \/ Stop
  PROVE  PrefixInv'
<1>1. cfg' = cfg
  BY CallIsFixed DEF Next
<1>2. \A f \in {"conn", "env"} : Wanted(f)' = Wanted(f)
  BY <1>1 DEF Wanted
<1>3. inner \in Seq(Resources) /\ Len(inner) \in Nat /\ DOMAIN inner = 1 .. Len(inner)
  BY EndLengths DEF ReleaseInv
<1>4. /\ Current' \in {"conn", "env"}
      /\ \A f \in {"conn", "env"} : Len(Wanted(f)) \in Nat
  BY WantedDistinct DEF Current, First, Second
<1>5. CASE inner' = <<>>
  <2>1. DOMAIN inner' = {} /\ Len(inner') = 0
    BY <1>5
  <2>2. Wanted(Current)' = Wanted(Current')
    BY <1>1 DEF Wanted, Current, First, Second
  <2>3. 0 <= Len(Wanted(Current'))
    BY <1>2, <1>4
  <2>4. QED
    BY <2>1, <2>2, <2>3 DEF PrefixInv
<1>6. CASE pc \in {"conn", "env", "unwind"} /\ defers' = defers
  <2>1. Current' = Current /\ Wanted(Current)' = Wanted(Current) /\ Current \in {"conn", "env"}
    BY <1>1, <1>6 DEF Current, First, Second, Wanted
  <2> DEFINE W == Wanted(Current)
  <2>2. /\ Len(W) \in Nat /\ DOMAIN W = 1 .. Len(W)
        /\ \A i, j \in 1 .. Len(W) : W[i] = W[j] => i = j
    BY <2>1, WantedDistinct
  <2>3. Len(inner) <= Len(W) /\ \A i \in DOMAIN inner : inner[i] = W[i] /\ inner[i] \in held
    BY <1>6 DEF PrefixInv
  <2>4. CASE Acquire
    <3>1. /\ pc = Current /\ pc' = pc /\ Len(inner) < Len(W)
          /\ held' = held \cup {W[Len(inner) + 1]} /\ inner' = Append(inner, W[Len(inner) + 1])
      BY <2>4 DEF Acquire, DefersInv
    <3> HIDE DEF W
    <3>2. /\ Len(inner') = Len(inner) + 1 /\ DOMAIN inner' = 1 .. Len(inner) + 1
          /\ inner'[Len(inner) + 1] = W[Len(inner) + 1]
          /\ \A i \in DOMAIN inner : inner'[i] = inner[i]
      BY <1>3, <3>1
    <3>3. \A i \in DOMAIN inner' : i \in DOMAIN inner \/ i = Len(inner) + 1
      BY <1>3, <3>2
    <3>4. Len(inner') <= Len(W) /\ \A i \in DOMAIN inner' : inner'[i] = W[i] /\ inner'[i] \in held'
      BY <1>3, <2>2, <2>3, <3>1, <3>2, <3>3
    <3>5. QED
      BY <2>1, <3>4 DEF PrefixInv, W
  <2>5. CASE AcquireFails \/ (Unwind /\ inner = <<>>)
    <3>1. inner' = inner /\ held' = held
      BY <2>5 DEF AcquireFails, Unwind
    <3>2. QED
      BY <2>1, <2>3, <3>1 DEF PrefixInv
  <2>6. CASE Unwind /\ inner # <<>>
    <3>1. held' = held \ {Last(inner)} /\ inner' = Front(inner)
      BY <2>6 DEF Unwind
    <3>2. /\ Len(inner) >= 1 /\ Last(inner) = inner[Len(inner)]
          /\ Len(inner') = Len(inner) - 1 /\ DOMAIN inner' = 1 .. Len(inner) - 1
          /\ \A i \in 1 .. Len(inner) - 1 : inner'[i] = inner[i]
      BY <1>3, <2>6, <3>1, EndLengths, ZenonT(30)
    <3> HIDE DEF W
    <3>3. \A i \in DOMAIN inner' : i \in DOMAIN inner /\ i # Len(inner)
      BY <1>3, <3>2
    <3>4. Len(inner) \in DOMAIN inner
      BY <1>3, <3>2
    <3>5. \A i \in DOMAIN inner : i \in 1 .. Len(W)
      BY <1>3, <2>2, <2>3
    <3>6. \A i \in DOMAIN inner' : inner'[i] = W[i] /\ inner'[i] # Last(inner) /\ inner'[i] \in held'
      BY <2>2, <2>3, <3>1, <3>2, <3>3, <3>4, <3>5
    <3>7. Len(inner') <= Len(W)
      BY <1>3, <2>2, <2>3, <3>2
    <3>8. QED
      BY <2>1, <3>6, <3>7 DEF PrefixInv, W
  <2>7. Acquire \/ AcquireFails \/ Unwind
    BY <1>6 DEF HandlerNext, Stop, ReceiveInit, List, SetUpDone, RunEnds, Deferred,
                CloseConn, CloseEnv
  <2>8. QED
    BY <2>4, <2>5, <2>6, <2>7
<1>7. QED
  BY <1>5, <1>6, ZenonT(30) DEF HandlerNext, Stop, ReceiveInit, List, Acquire,
                                AcquireFails, Unwind, SetUpDone, RunEnds, Deferred,
                                CloseConn, CloseEnv, ReleaseInv

\* What must outlive something else is acquired before it and released after it.
LEMMA NestedStep ==
  ASSUME ReleaseInv, PlainTypes, DefersInv, PrefixInv, NestedInv, HandlerNext \/ Stop
  PROVE  NestedInv'
<1>1. cfg' = cfg
  BY CallIsFixed DEF Next
<1>2. inner \in Seq(Resources) /\ Len(inner) \in Nat /\ DOMAIN inner = 1 .. Len(inner)
  BY EndLengths DEF ReleaseInv
<1>3. Len(defers) \in Nat /\ DOMAIN defers = 1 .. Len(defers) /\ defers \in Seq({"conn", "env"})
      /\ (defers = <<>> <=> Len(defers) = 0)
  BY EndLengths DEF ReleaseInv
<1>4. CASE UNCHANGED <<held, defers>>
  BY <1>1, <1>4 DEF NestedInv, ConnDeferred
<1>5. CASE Acquire
  <2> DEFINE W == Wanted(Current)
             r == W[Len(inner) + 1]
  <2>1. /\ pc = Current /\ pc \in {"conn", "env"} /\ Len(inner) < Len(W)
        /\ held' = held \cup {r} /\ defers' = defers
    BY <1>5 DEF Acquire, DefersInv
  <2>2. \A i \in 1 .. Len(inner) : inner[i] = W[i] /\ inner[i] \in held
    BY <1>2, <2>1 DEF PrefixInv
  <2>3. CASE Current = "conn"
    <3>1. r \in Releases("conn")
      BY <1>2, <2>1, <2>3, WantedReleased
    <3> HIDE DEF r
    <3>2. r \notin {"hook", "TMPDIR", "tempDir"}
      BY <3>1, Apart
    <3>3. QED
      BY <1>1, <2>1, <3>2 DEF NestedInv, ConnDeferred
  <2>4. CASE Current = "env"
    <3>1. r = "TMPDIR" /\ cfg.ownTemp => "tempDir" \in held
      BY <1>2, <2>1, <2>2, <2>4, EnvOrder
    <3>2. r = "hook" => "TMPDIR" \in held
      <4>1. CASE cfg.ownTemp
        BY <1>2, <2>1, <2>2, <2>4, <4>1, EnvOrder
      <4>2. CASE ~cfg.ownTemp
        BY <1>2, <2>1, <2>2, <2>4, <4>2, EnvOrder
      <4>3. QED
        BY <4>1, <4>2
    <3>3. cfg.recursive => ConnDeferred
      BY <2>1, <2>4, CurrentIsNew
    <3> HIDE DEF r
    <3>4. QED
      BY <1>1, <2>1, <3>1, <3>2, <3>3 DEF NestedInv, ConnDeferred
  <2>5. QED
    BY <2>1, <2>3, <2>4
<1>6. CASE Unwind /\ inner # <<>>
  <2> DEFINE W == Wanted(Current)
             n == Len(inner)
  <2>1. pc = "unwind" /\ held' = held \ {Last(inner)} /\ defers' = defers
    BY <1>6 DEF Unwind
  <2>2. n >= 1 /\ n \in DOMAIN inner /\ Last(inner) = inner[n]
    <3>1. Len(inner) >= 1 /\ Last(inner) = inner[Len(inner)]
      BY <1>2, <1>6, EndLengths, ZenonT(30)
    <3>2. Len(inner) \in 1 .. Len(inner)
      BY <1>2, <3>1
    <3>3. QED
      BY <1>2, <3>1, <3>2
  <2>3. /\ n <= Len(W) /\ Current \in {"conn", "env"}
        /\ \A i \in DOMAIN inner : inner[i] = W[i] /\ inner[i] \in held
    BY <2>1, CurrentIsNew DEF PrefixInv
  <2>4. /\ Len(W) \in Nat /\ DOMAIN W = 1 .. Len(W)
        /\ \A i \in 1 .. Len(W) : W[i] \in Releases(Current)
    BY <2>3, WantedDistinct, WantedReleased
  <2>5. Last(inner) \in Releases(Current)
    BY <1>2, <2>2, <2>3, <2>4
  <2>6. ConnDeferred => Current = "env"
    BY <2>1, CurrentIsNew
  <2>7. ConnDeferred' => Releases("conn") \subseteq held'
    BY <1>1, <2>1, <2>5, <2>6, Apart DEF NestedInv, ConnDeferred
  <2>8. CASE Current = "conn"
    <3>1. Last(inner) \notin {"hook", "TMPDIR", "tempDir"}
      BY <2>5, <2>8, Apart
    <3>2. QED
      BY <1>1, <2>1, <2>7, <3>1 DEF NestedInv, ConnDeferred
  <2>9. CASE Current = "env"
    <3>1. \A r \in held \cap {"hook", "TMPDIR"} : \E i \in 1 .. n : W[i] = r
      BY <1>2, <2>1, <2>3, <2>9, HeldByCurrent, Apart
    <3>2. ASSUME "TMPDIR" \in held', cfg.ownTemp
          PROVE  "tempDir" \in held'
      <4>1. "tempDir" \in held /\ "TMPDIR" \in held /\ Last(inner) # "TMPDIR"
        BY <2>1, <3>2 DEF NestedInv
      <4>2. PICK i \in 1 .. n : W[i] = "TMPDIR"
        BY <3>1, <4>1
      <4>3. W[1] = "tempDir" /\ W[2] = "TMPDIR" /\ Len(W) \in {2, 3} /\ (Len(W) = 3 => W[3] = "hook")
        BY <2>9, <3>2, EnvOrder
      <4>4. n # 1
        BY <2>2, <2>4, <4>2, <4>3
      <4>5. Last(inner) # "tempDir"
        BY <1>2, <2>2, <2>3, <4>3, <4>4
      <4>6. QED
        BY <2>1, <4>1, <4>5
    <3>3. ASSUME "hook" \in held'
          PROVE  "TMPDIR" \in held'
      <4>1. "hook" \in held /\ "TMPDIR" \in held /\ Last(inner) # "hook"
        BY <2>1, <3>3 DEF NestedInv
      <4>2. PICK i \in 1 .. n : W[i] = "hook"
        BY <3>1, <4>1
      <4>3. W[n] # "hook"
        BY <2>2, <2>3, <4>1
      <4>4. CASE cfg.ownTemp
        <5>1. W[1] = "tempDir" /\ W[2] = "TMPDIR" /\ Len(W) \in {2, 3} /\ (Len(W) = 3 => W[3] = "hook")
          BY <2>9, <4>4, EnvOrder
        <5>2. QED
          BY <1>2, <2>3, <2>4, <4>2, <4>3, <5>1
      <4>5. CASE ~cfg.ownTemp
        <5>1. W[1] = "TMPDIR" /\ Len(W) \in {1, 2} /\ (Len(W) = 2 => W[2] = "hook")
          BY <2>9, <4>5, EnvOrder
        <5>2. QED
          BY <1>2, <2>3, <2>4, <4>2, <4>3, <5>1
      <4>6. QED
        BY <4>4, <4>5
    <3>4. "hook" \in held' /\ cfg'.recursive => ConnDeferred'
      BY <1>1, <2>1 DEF NestedInv, ConnDeferred
    <3>5. QED
      BY <1>1, <2>7, <3>2, <3>3, <3>4 DEF NestedInv
  <2>10. QED
    BY <2>3, <2>8, <2>9
<1>7. CASE SetUpDone
  <2>1. /\ pc = Current /\ pc \in {"conn", "env"} /\ Len(inner) = Len(Wanted(pc)) /\ held' = held
        /\ defers' = Append(defers, pc) /\ Len(defers) < 2
    BY <1>7 DEF SetUpDone, DefersInv
  <2>2. Len(defers') = Len(defers) + 1
    BY <1>3, <2>1, EndLengths
  <2>3. ASSUME ConnDeferred', ~ConnDeferred
        PROVE  Releases("conn") \subseteq held
    <3>1. pc = "conn"
      BY <1>1, <1>3, <2>1, <2>2, <2>3 DEF ConnDeferred, Current, First, Second
    <3>2. \A i \in DOMAIN Wanted("conn") : Wanted("conn")[i] \in held
      BY <1>2, <2>1, <3>1, WantedDistinct DEF PrefixInv
    <3>3. QED
      BY <3>2, WantedReleased DEF Range
  <2>4. ConnDeferred => ConnDeferred'
    BY <1>1, <1>3, <2>2 DEF ConnDeferred
  <2>5. QED
    BY <1>1, <2>1, <2>3, <2>4 DEF NestedInv
<1>8. CASE Deferred /\ defers # <<>>
  <2>1. /\ pc = "return" /\ held' = held /\ defers' = Front(defers)
    BY <1>8 DEF Deferred
  <2>2. /\ Len(defers') = Len(defers) - 1 /\ Len(defers) >= 1
    BY <1>3, <1>8, <2>1, EndLengths, ZenonT(30)
  <2>3. ConnDeferred' => ConnDeferred
    BY <1>1, <1>3, <2>2 DEF ConnDeferred
  <2>4. ASSUME cfg.recursive, "hook" \in held
        PROVE  ConnDeferred'
    <3>1. PICK i \in DOMAIN defers : "hook" \in Releases(defers[i])
      BY <2>1, <2>4 DEF ReleaseInv, Closing
    <3>2. defers[i] # "conn"
      BY <3>1, Apart
    <3>3. i # 1
      BY <1>3, <2>4, <3>1, <3>2 DEF DefersInv, First
    <3>4. Len(defers) >= 2
      BY <1>3, <3>1, <3>3
    <3>5. QED
      BY <1>1, <1>3, <2>2, <2>4, <3>4 DEF ConnDeferred
  <2>5. QED
    BY <1>1, <2>1, <2>3, <2>4 DEF NestedInv
<1>9. CASE CloseConn
  <2>1. /\ pc = "closeConn" /\ defers' = defers
        /\ held' = held \/ \E d \in Releases("conn") : held' = held \ {d}
    BY <1>9, WantedReleased DEF CloseConn
  <2>2. ~ConnDeferred
    BY <2>1 DEF DefersInv, ConnDeferred
  <2>3. \A d \in Releases("conn") : d \notin {"hook", "TMPDIR", "tempDir"}
    BY Apart
  <2>4. held' \subseteq held /\ \A r \in {"hook", "TMPDIR", "tempDir"} : r \in held => r \in held'
    BY <2>1, <2>3
  <2>5. QED
    BY <1>1, <2>1, <2>2, <2>4 DEF NestedInv, ConnDeferred
<1>10. CASE CloseEnv
  <2>1. /\ defers' = defers
        /\ \/ held' = held
           \/ held' = held \ {"hook"}
           \/ held' = held \ {"TMPDIR"} /\ "hook" \notin held
           \/ held' = held \ {"tempDir"} /\ "hook" \notin held /\ "TMPDIR" \notin held
    <3>1. DOMAIN CloseOrder = {1, 2, 3}
      BY DEF CloseOrder
    <3>2. CASE held' # held
      <4>1. PICK i \in DOMAIN CloseOrder : /\ \A j \in 1 .. i - 1 : CloseOrder[j] \notin held
                                           /\ held' = held \ {CloseOrder[i]}
        BY <1>10, <3>2, ZenonT(30) DEF CloseEnv
      <4>2. CASE i = 1
        BY <1>10, <4>1, <4>2 DEF CloseOrder, CloseEnv
      <4>3. CASE i = 2
        <5>1. 1 \in 1 .. i - 1
          BY <4>3
        <5>2. QED
          BY <1>10, <4>1, <4>3, <5>1 DEF CloseOrder, CloseEnv
      <4>4. CASE i = 3
        <5>1. 1 \in 1 .. i - 1 /\ 2 \in 1 .. i - 1
          BY <4>4
        <5>2. QED
          BY <1>10, <4>1, <4>4, <5>1 DEF CloseOrder, CloseEnv
      <4>5. QED
        BY <3>1, <4>2, <4>3, <4>4
    <3>3. QED
      BY <1>10, <3>2 DEF CloseEnv
  <2>2. \A r \in Releases("conn") : r \in held => r \in held'
    BY <2>1, Apart
  <2>3. QED
    BY <1>1, <2>1, <2>2 DEF NestedInv, ConnDeferred
<1>11. QED
  BY <1>4, <1>5, <1>6, <1>7, <1>8, <1>9, <1>10, ZenonT(30)
     DEF HandlerNext, ReceiveInit, List, AcquireFails, Unwind, RunEnds, Deferred, Stop

\* The types of the handler's variables and the bounds of the stream.
LEMMA PlainStep ==
  ASSUME StreamTypes, ReleaseInv, PlainTypes, [Next]_vars
  PROVE  PlainTypes'
<1>1. cfg' = cfg
  BY CallIsFixed
<1>2. \/ pc' = pc
      \/ pc' \in {"list", "conn", "env", "unwind", "run", "return", "closeConn", "closeEnv",
                  "stop", "returned"}
  BY ZenonT(30) DEF Next, vars, main, HandlerNext, ReceiveInit, List, Acquire,
                    AcquireFails, Unwind, SetUpDone, RunEnds, Deferred, CloseConn,
                    CloseEnv, Stop, Tick, Lock, Send, Recv, Begin, ClientReads,
                    ClientAnswers, Break, After
<1>3. held' \subseteq Resources
  <2>1. CASE Acquire
    <3>1. /\ pc \in {"conn", "env"} /\ Len(inner) < Len(Wanted(pc))
          /\ held' = held \cup {Wanted(pc)[Len(inner) + 1]}
      BY <2>1 DEF Acquire
    <3>2. /\ Wanted(pc) \in Seq(Resources) /\ inner \in Seq(Resources)
      BY <3>1, WantedReleased DEF ReleaseInv
    <3>3. QED
      BY <3>1, <3>2 DEF PlainTypes
  <2>2. CASE ~Acquire
    <3>1. held' \subseteq held
      BY <2>2, ZenonT(30) DEF Next, vars, main, HandlerNext, ReceiveInit, List,
                              AcquireFails, Unwind, SetUpDone, RunEnds, Deferred,
                              CloseConn, CloseEnv, Stop, Tick, Lock, Send, Recv, Begin,
                              ClientReads, ClientAnswers, Break
    <3>2. QED
      BY <3>1 DEF PlainTypes
  <2>3. QED
    BY <2>1, <2>2
<1>4. err' \in BOOLEAN /\ closeErr' \in BOOLEAN /\ broken' \in BOOLEAN
  <2>1. CASE HandlerNext
    BY <2>1, ZenonT(30) DEF HandlerNext, ReceiveInit, List, Acquire, AcquireFails,
                            Unwind, SetUpDone, RunEnds, Deferred, CloseConn, CloseEnv,
                            stream, PlainTypes
  <2>2. CASE ~HandlerNext
    BY <2>2, ZenonT(30) DEF Next, vars, main, stream, Stop, Tick, Lock, Send, Recv,
                            Begin, ClientReads, ClientAnswers, Break, PlainTypes
  <2>3. QED
    BY <2>1, <2>2
<1>5. begun' \in 0 .. MaxEvents
  <2>1. begun' = begun \/ (begun < MaxEvents /\ begun' = begun + 1)
    BY ZenonT(30) DEF Next, vars, writer, HandlerNext, ReceiveInit, List, Acquire,
                      AcquireFails, Unwind, SetUpDone, RunEnds, Deferred, CloseConn,
                      CloseEnv, Stop, Tick, Lock, Send, Recv, Begin, ClientReads,
                      ClientAnswers, Break
  <2>2. QED
    BY <2>1, BundleAssumption DEF PlainTypes
<1>6. Len(down') <= Window
  <2>1. \/ down' = down \/ down' = <<>>
        \/ down # <<>> /\ down' = Tail(down)
        \/ \E m \in Messages : Len(down) < Window /\ down' = Append(down, m)
    <3>1. ASSUME NEW g \in Goroutines, Send(g)
          PROVE  \/ down' = down
                 \/ \E m \in Messages : Len(down) < Window /\ down' = Append(down, m)
      BY <3>1 DEF Send, Messages, StreamTypes
    <3>2. QED
      BY <3>1, ZenonT(30) DEF Next, vars, stream, HandlerNext, ReceiveInit, List,
                              Acquire, AcquireFails, Unwind, SetUpDone, RunEnds,
                              Deferred, CloseConn, CloseEnv, Stop, Tick, Lock, Recv,
                              Begin, ClientReads, ClientAnswers, Break
  <2>2. down \in Seq(Messages) /\ Len(down) <= Window /\ Window \in Nat
    BY BundleAssumption DEF StreamTypes, PlainTypes
  <2> HIDE DEF Messages
  <2>3. CASE down' = down \/ down' = <<>>
    BY <2>2, <2>3
  <2>4. CASE down # <<>> /\ down' = Tail(down)
    BY <2>2, <2>4
  <2>5. ASSUME NEW m \in Messages, Len(down) < Window, down' = Append(down, m)
        PROVE  Len(down') <= Window
    BY <2>2, <2>5
  <2>6. QED
    BY <2>1, <2>3, <2>4, <2>5
<1>7. QED
  BY <1>1, <1>2, <1>3, <1>4, <1>5, <1>6 DEF PlainTypes

\* The invariant of the releases holds always.
LEMMA OrderAlways == Spec => []OrderInv
<1>1. Init => OrderInv
  <2> SUFFICES ASSUME Init PROVE OrderInv
    OBVIOUS
  <2>1. DOMAIN <<>> = {} /\ Len(<<>>) = 0 /\ 0 <= Window /\ 0 \in 0 .. MaxEvents
    BY BundleAssumption
  <2>2. cfg \in [recursive : BOOLEAN, ownTemp : BOOLEAN, hook : BOOLEAN]
    BY BundleAssumption DEF Init
  <2>3. PlainTypes
    BY <2>1, <2>2, ZenonT(30) DEF Init, PlainTypes
  <2>4. DefersInv /\ PrefixInv /\ NestedInv
    BY <2>1 DEF Init, DefersInv, PrefixInv, NestedInv, ConnDeferred
  <2>5. QED
    BY <2>3, <2>4, StreamInit, ReleaseInit DEF OrderInv
<1>2. OrderInv /\ [Next]_vars => OrderInv'
  <2> SUFFICES ASSUME OrderInv, [Next]_vars PROVE OrderInv'
    OBVIOUS
  <2>1. StreamInv /\ ReleaseInv /\ PlainTypes /\ DefersInv /\ PrefixInv /\ NestedInv
    BY DEF OrderInv
  <2>2. StreamInv' /\ ReleaseInv'
    BY <2>1, StreamStep, ReleaseStep
  <2>3. PlainTypes'
    BY <2>1, PlainStep DEF StreamInv
  <2>4. CASE HandlerNext \/ Stop
    BY <2>1, <2>2, <2>3, <2>4, DefersStep, PrefixStep, NestedStep DEF OrderInv
  <2>5. CASE UNCHANGED main
    <3>1. UNCHANGED <<cfg, pc, held, inner, defers>>
      BY <2>5 DEF main
    <3>2. Current' = Current /\ ConnDeferred' = ConnDeferred /\ Wanted(Current)' = Wanted(Current)
      BY <3>1 DEF ConnDeferred, Current, First, Second, Wanted
    <3>3. DefersInv'
      BY <2>1, <3>1, <3>2 DEF DefersInv, First, Second
    <3>4. PrefixInv'
      BY <2>1, <3>1, <3>2 DEF PrefixInv
    <3>5. NestedInv'
      BY <2>1, <3>1, <3>2 DEF NestedInv
    <3>6. QED
      BY <2>2, <2>3, <3>3, <3>4, <3>5 DEF OrderInv
  <2>6. HandlerNext \/ Stop \/ UNCHANGED main
    BY ZenonT(30) DEF Next, vars, main, Tick, Lock, Send, Recv, Begin, ClientReads,
                      ClientAnswers, Break
  <2>7. QED
    BY <2>4, <2>5, <2>6
<1>3. QED
  BY <1>1, <1>2, PTL DEF Spec

\* ReleasedInOrder: nothing is released before what depends on it, whichever step of
\* the set-up failed, for any number of companion DUTs.
THEOREM ReleasedInOrderHolds == Spec => []ReleasedInOrder
<1>1. OrderInv => ReleasedInOrder
  <2> SUFFICES ASSUME OrderInv PROVE ReleasedInOrder
    OBVIOUS
  <2>1. StreamTypes /\ ReleaseInv /\ PlainTypes /\ DefersInv /\ PrefixInv /\ NestedInv
    BY DEF OrderInv, StreamInv
  <2>2. Resources = {"primary", "tempDir", "TMPDIR", "hook"} \cup Range(Duts)
    BY DEF Resources
  <2>3. Range(inner) \subseteq held /\ Range(defers) \subseteq {"conn", "env"}
    BY <2>1 DEF PrefixInv, ReleaseInv, Range
  <2>4. TypeOK
    BY <2>1, <2>2, <2>3 DEF TypeOK, StreamTypes, PlainTypes
  <2>5. "hook" \in held /\ cfg.recursive => {"primary"} \cup Range(Duts) \subseteq held
    BY <2>1, Apart DEF NestedInv
  <2>6. ASSUME pc = "unwind", NEW d \in held \cap Range(Duts)
        PROVE  "primary" \in held
    <3>1. Current \in {"conn", "env"}
      BY <2>1, <2>6, CurrentIsNew
    <3>2. CASE \E i \in DOMAIN inner : inner[i] = d
      <4>1. PICK i \in DOMAIN inner : inner[i] = d
        BY <3>2
      <4>2. /\ d = Wanted(Current)[i] /\ i \in 1 .. Len(inner) /\ Len(inner) \in Nat
            /\ Len(inner) <= Len(Wanted(Current)) /\ DOMAIN inner = 1 .. Len(inner)
        BY <2>1, <2>6, <4>1, EndLengths DEF PrefixInv, ReleaseInv
      <4>3. d \in Releases(Current)
        BY <3>1, <4>2, WantedReleased
      <4>4. Current = "conn"
        BY <2>6, <3>1, <4>3, Apart
      <4>5. 1 \in DOMAIN inner
        BY <4>2
      <4>6. inner[1] = "primary" /\ inner[1] \in held
        BY <2>1, <2>6, <4>4, <4>5, ConnOrder DEF PrefixInv
      <4>7. QED
        BY <4>6
    <3>3. CASE \E i \in DOMAIN defers : d \in Releases(defers[i])
      <4>1. PICK i \in DOMAIN defers : d \in Releases(defers[i])
        BY <3>3
      <4>2. defers[i] = "conn"
        BY <2>1, <2>6, <4>1, Apart, CurrentIsNew
      <4>3. ConnDeferred
        BY <2>1, <2>6, <4>1, <4>2, CurrentIsNew, EndLengths
           DEF ConnDeferred, DefersInv, First, ReleaseInv
      <4>4. QED
        BY <2>1, <4>3, Apart DEF NestedInv
    <3>4. QED
      BY <2>1, <2>6, <3>2, <3>3 DEF ReleaseInv, Closing
  <2>7. QED
    BY <2>1, <2>4, <2>5, <2>6 DEF ReleasedInOrder, NestedInv
<1>2. QED
  BY <1>1, OrderAlways, PTL
=============================================================================
