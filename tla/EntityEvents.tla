---------------------------- MODULE EntityEvents ----------------------------
(***************************************************************************)
(* The events of entities (tests and fixtures) on their way to the tast    *)
(* command.  The local bundle reports to the mini driver of the remote     *)
(* bundle, whose passThroughHandler first copies the output files of an    *)
(* entity to the host, in a goroutine, and only then passes EntityCopyEnd  *)
(* on; the other events it passes at once.  The remote bundle mixes in the *)
(* events of its own fixture.  The processor of the tast command gives     *)
(* every entity a directory, a logger, a timing stage and a record of the  *)
(* results file, and moves the files in goroutines of its own.             *)
(*                                                                         *)
(* A run is one start of an entity and stands for its output directory on  *)
(* the side that ran it; events carry the name of the entity only, except  *)
(* EntityStart.  The local bundle may crash between any two events, and so *)
(* may the remote bundle; each is started again on what it left behind.    *)
(*                                                                         *)
(* Abstractions: the stream from the local bundle is read as soon as it is *)
(* written (the goroutines may take as long as they like, so no order of   *)
(* events is lost); contents of files, logs, errors and times are left     *)
(* out.  MiniDriver has the results and the failure limit.                 *)
(***************************************************************************)
EXTENDS Naturals, Sequences, FiniteSets, SequencesExt

CONSTANTS Tests,         \* tests of the local bundle
          LocalFixture,  \* a fixture of the local bundle
          RemoteFixture, \* a fixture of the remote bundle
          None,
          maxAttempts,   \* directory names tried by createOutDir (20 in the code)
          MaxRuns,       \* bound on the starts of one entity
          MaxStarts,     \* bound on the starts of all entities
          MaxStream,     \* events the stream holds; its flow control stops the sender
          MaxCrashes     \* bound on the attempts of either mini driver that fail

Names == Tests \cup {LocalFixture, RemoteFixture}
Runs == [name : Names, n : 1 .. MaxRuns, skip : BOOLEAN]
Dirs == [name : Names, n : Nat]

ASSUME NamesAssumption ==
    /\ LocalFixture \notin Tests /\ RemoteFixture \notin Tests \cup {LocalFixture}
    /\ None \notin Runs /\ maxAttempts \in Nat \ {0}

VARIABLES
    runs,       \* history: starts of each entity
    again,      \* history of this attempt: fixtures that one local bundle started twice
    crashes,    \* attempts that failed
    inner,      \* attempt at the remote bundle: "idle", "run" or "runEnd"
    started,    \* entities started in this attempt
    remote,     \* running entities of the remote bundle itself
    stack,      \* preprocessor.stack of the remote bundle
    pullers,    \* runs whose files passThroughHandler is copying
    pulled,     \* history of this attempt: runs whose files are complete on the host
    stream,     \* events sent to the tast command
    pc,         \* the tast command: "run", "runEnd", or "done"
    clean,      \* the stream ended without an error
    cliStack,   \* preprocessor.stack of the tast command: run and directory
    cliCopying, \* preprocessor.copying
    seenTimes,  \* preprocessor.seenTimes
    loggers,    \* loggingHandler.loggers, attached to the multiplexer
    stage,      \* timingHandler.stage
    file,       \* streamed_results.jsonl: the test of a record and if it is final
    lastOffset, \* StreamedWriter.lastOffset, in records
    dirs,       \* directories that exist
    placed,     \* history: run and directory of every entity
    begun,      \* history: runs of tests, in the order in which they started
    cliPullers, \* moves of copyOutputHandler that are not finished
    moved,      \* history of this attempt: moves that are
    past        \* history: runs and directories of earlier attempts

bundleVars == <<runs, again, inner, started, remote, stack, pullers, pulled>>
procVars == <<cliStack, cliCopying, seenTimes, loggers, stage, file, lastOffset, dirs,
              placed, begun>>
pullVars == <<cliPullers, moved, past>>
vars == <<bundleVars, crashes, stream, pc, clean, procVars, pullVars>>

\* The remote bundle is connected to the tast command and can send k events.
CanSend(k) == pc = "run" /\ Len(stream) + k <= MaxStream

Start(r) == [type |-> "start", run |-> r]
End(r) == [type |-> "end", name |-> r.name, skip |-> r.skip]
CopyEnd(n) == [type |-> "copyEnd", name |-> n]

Nothing == [n \in Names |-> None]

Init ==
    /\ runs = [n \in Names |-> 0] /\ again = {} /\ crashes = 0
    /\ inner = "idle" /\ started = {} /\ remote = <<>>
    /\ stack = <<>> /\ pullers = {} /\ pulled = {}
    /\ stream = <<>> /\ pc = "run" /\ clean = TRUE
    /\ cliStack = <<>> /\ cliCopying = Nothing /\ seenTimes = [n \in Names |-> 0]
    /\ loggers = <<>> /\ stage = None
    /\ file = <<>> /\ lastOffset = 0
    /\ dirs = {} /\ placed = {} /\ begun = <<>> /\ cliPullers = {} /\ moved = {} /\ past = {}
-----------------------------------------------------------------------------
\* A run of n begins.
NewRun(n, skip) == [name |-> n, n |-> runs[n] + 1, skip |-> skip]
Count(n) == /\ runs[n] < MaxRuns /\ SumFunction(runs) < MaxStarts
            /\ runs' = [runs EXCEPT ![n] = @ + 1]

\* eventWriter of the remote bundle: the start and the end of its own fixture.
\* The files are on the host already, so EntityCopyEnd follows EntityEnd.
RemoteStart ==
    /\ CanSend(1) /\ inner = "idle" /\ remote = <<>>
    /\ Count(RemoteFixture)
    /\ remote' = <<NewRun(RemoteFixture, FALSE)>>
    /\ stream' = Append(stream, Start(NewRun(RemoteFixture, FALSE)))
    /\ UNCHANGED <<again, inner, started, stack, pullers, pulled, crashes, pc, clean, procVars, pullVars>>

RemoteEnd ==
    /\ CanSend(2) /\ inner = "idle" /\ remote # <<>>
    /\ LET r == Last(remote)
       IN  /\ stream' = stream \o <<End(r), CopyEnd(r.name)>>
           /\ pulled' = pulled \cup {r}
    /\ remote' = Front(remote)
    /\ UNCHANGED <<runs, again, inner, started, stack, pullers, crashes, pc, clean, procVars, pullVars>>

\* runLocalTestsOnce: a new processor for a new attempt.
LocalAttempt ==
    /\ CanSend(0) /\ inner = "idle"
    /\ inner' = "run" /\ started' = {} /\ stack' = <<>>
    /\ UNCHANGED <<runs, again, remote, pullers, pulled, crashes, stream, pc, clean, procVars, pullVars>>

\* The local bundle starts a test, once in an attempt, or its fixture, again
\* after a failed Reset; preprocessor and passThroughHandler pass it on.  A test
\* that is skipped comes before all others.
LocalStart(n, skip) ==
    /\ CanSend(1) /\ inner = "run"
    /\ IF n = LocalFixture
       THEN stack = <<>> /\ ~skip
       ELSE /\ n \in Tests \ started
            /\ skip => stack = <<>> /\ started = {}
            /\ \A k \in DOMAIN stack : stack[k].name = LocalFixture
    /\ Count(n)
    /\ started' = started \cup {n}
    /\ again' = IF n \in started THEN again \cup {n} ELSE again
    /\ stack' = Append(stack, NewRun(n, skip))
    /\ stream' = Append(stream, Start(NewRun(n, skip)))
    /\ UNCHANGED <<inner, remote, pullers, pulled, crashes, pc, clean, procVars, pullVars>>

\* The local bundle ends its top entity (a skipped one at once) and, the files
\* being ready, sends EntityCopyEnd, for which passThroughHandler starts a
\* goroutine.  A crash may come between the two events.
LocalEnd(crash) ==
    /\ CanSend(1) /\ inner = "run" /\ stack # <<>>
    /\ LET r == Last(stack)
       IN  /\ stream' = Append(stream, End(r))
           /\ pullers' = IF crash THEN pullers ELSE pullers \cup {r}
    /\ stack' = Front(stack)
    /\ IF crash
       THEN crashes < MaxCrashes /\ crashes' = crashes + 1 /\ inner' = "runEnd"
       ELSE UNCHANGED <<crashes, inner>>
    /\ UNCHANGED <<runs, again, started, remote, pulled, pc, clean, procVars, pullVars>>

\* The goroutine of passThroughHandler.EntityCopyEnd: the files of the run are
\* copied (a skipped test has none, and an error is only logged), then the event
\* is passed.
PullDone(r) ==
    /\ CanSend(1) /\ r \in pullers
    /\ pullers' = pullers \ {r}
    /\ pulled' = pulled \cup {r}
    /\ stream' = Append(stream, CopyEnd(r.name))
    /\ UNCHANGED <<runs, again, inner, started, remote, stack, crashes, pc, clean, procVars, pullVars>>

\* The local bundle exits, or crashes.
LocalEOF ==
    /\ CanSend(0) /\ inner = "run" /\ stack = <<>>
    /\ inner' = "runEnd"
    /\ UNCHANGED <<runs, again, started, remote, stack, pullers, pulled, crashes, stream, pc, clean, procVars, pullVars>>

LocalCrash ==
    /\ CanSend(0) /\ inner = "run" /\ crashes < MaxCrashes
    /\ inner' = "runEnd" /\ crashes' = crashes + 1
    /\ UNCHANGED <<runs, again, started, remote, stack, pullers, pulled, stream, pc, clean, procVars, pullVars>>

\* preprocessor.RunEnd at the remote bundle: orphans end, and no EntityCopyEnd
\* follows; then passThroughHandler.RunEnd waits for its goroutines.
LocalOrphan ==
    /\ CanSend(1) /\ inner = "runEnd" /\ stack # <<>>
    /\ stream' = Append(stream, End([Last(stack) EXCEPT !.skip = FALSE]))
    /\ stack' = Front(stack)
    /\ UNCHANGED <<runs, again, inner, started, remote, pullers, pulled, crashes, pc, clean, procVars, pullVars>>

\* Mutant: RunEnd does not wait for the goroutines that copy files.
LocalRunEnd_NoWait ==
    /\ CanSend(0) /\ inner = "runEnd" /\ stack = <<>>
    /\ inner' = "idle"
    /\ UNCHANGED <<runs, again, started, remote, stack, pullers, pulled, crashes, stream, pc, clean, procVars, pullVars>>

LocalRunEnd ==
    /\ CanSend(0) /\ inner = "runEnd" /\ stack = <<>> /\ pullers = {}
    /\ inner' = "idle"
    /\ UNCHANGED <<runs, again, started, remote, stack, pullers, pulled, crashes, stream, pc, clean, procVars, pullVars>>
-----------------------------------------------------------------------------
\* Mutant: one name less is tried.
OutDir_OneLess(n) ==
    LET first == seenTimes[n]
        free == {k \in first .. first + maxAttempts - 1 : [name |-> n, n |-> k] \notin dirs}
    IN  [name |-> n, n |-> IF free = {} THEN first + maxAttempts - 1 ELSE Min(free)]

\* createOutDir: the first of maxAttempts names that does not exist, and the one
\* after them, exists or not.  n = 0 is the name without a number.
OutDir(n) ==
    LET first == seenTimes[n]
        free == {k \in first .. first + maxAttempts - 1 : [name |-> n, n |-> k] \notin dirs}
    IN  [name |-> n, n |-> IF free = {} THEN first + maxAttempts ELSE Min(free)]

\* StreamedWriter.Write.
Write(t) == /\ lastOffset' = Len(file)
            /\ file' = Append(file, [test |-> t, final |-> FALSE])
WriteUpdate(t) == /\ file' = Append(SubSeq(file, 1, lastOffset), [test |-> t, final |-> TRUE])
                  /\ UNCHANGED lastOffset

Receive == /\ pc = "run" /\ stream # <<>>
           /\ stream' = Tail(stream)

\* loggingHandler: every entity that starts gets a logger.
LogStart(d) == loggers' = Append(loggers, d)

\* Mutant: the logger that is taken off is the oldest.
LogEnd_Oldest(skip) == loggers' = IF skip THEN loggers ELSE Tail(loggers)

\* No logger is taken off if the test was skipped.
LogEnd(skip) == loggers' = IF skip THEN loggers ELSE Front(loggers)

\* timingHandler: a test that starts gets a stage.
StageStart(n) == stage' = IF n \in Tests THEN n ELSE stage

\* The stage ends, whichever entity ended.
StageEnd == stage' = None

\* streamedResultsHandler: a test has one record, which is replaced when it ends.
RecordStart(n) == IF n \in Tests THEN Write(n) ELSE UNCHANGED <<file, lastOffset>>

\* Mutant: a record is not replaced, another is added.
RecordEnd_Appends(n) ==
    IF n \in Tests
    THEN file' = Append(file, [test |-> n, final |-> TRUE]) /\ UNCHANGED lastOffset
    ELSE UNCHANGED <<file, lastOffset>>

RecordEnd(n) == IF n \in Tests THEN WriteUpdate(n) ELSE UNCHANGED <<file, lastOffset>>

\* preprocessor.EntityStart and the handlers.
EntityStart ==
    /\ Receive /\ Head(stream).type = "start"
    /\ LET r == Head(stream).run
           d == OutDir(r.name)
       IN  /\ dirs' = dirs \cup {d}
           /\ placed' = placed \cup {<<r, d>>}
           /\ begun' = IF r.name \in Tests THEN Append(begun, r) ELSE begun
           /\ seenTimes' = [seenTimes EXCEPT ![r.name] = @ + 1]
           /\ cliStack' = Append(cliStack, [run |-> r, dir |-> d])
           /\ LogStart(d) /\ StageStart(r.name) /\ RecordStart(r.name)
    /\ UNCHANGED <<bundleVars, crashes, pc, clean, cliCopying, pullVars>>

\* preprocessor.EntityEnd and the handlers, for the top entity.
EndTop(skip) ==
    LET e == Last(cliStack) IN
    /\ cliStack' = Front(cliStack)
    /\ cliCopying' = [cliCopying EXCEPT ![e.run.name] = e]
    /\ LogEnd(skip) /\ StageEnd /\ RecordEnd(e.run.name)

EntityEnd ==
    /\ Receive /\ Head(stream).type = "end"
    /\ Last(cliStack).run.name = Head(stream).name
    /\ EndTop(Head(stream).skip)
    /\ UNCHANGED <<bundleVars, crashes, pc, clean, seenTimes, dirs, placed, begun, pullVars>>

\* The tast command stops reading; the remote bundle is killed.
Abort ==
    /\ pc' = "runEnd" /\ clean' = FALSE
    /\ stream' = <<>> /\ inner' = "idle" /\ remote' = <<>> /\ stack' = <<>> /\ pullers' = {}
    /\ UNCHANGED <<runs, again, started, pulled>>

\* preprocessor.EntityCopyEnd and copyOutputHandler, which starts a goroutine, for a
\* skipped test too: passThroughHandler gave its start a directory.  An entity that
\* is not waiting for its copy is an error.
EntityCopyEnd ==
    /\ pc = "run" /\ stream # <<>> /\ Head(stream).type = "copyEnd"
    /\ LET n == Head(stream).name
           e == cliCopying[n]
       IN  IF e = None
           THEN Abort /\ UNCHANGED <<cliCopying, cliPullers>>
           ELSE /\ cliCopying' = [cliCopying EXCEPT ![n] = None]
                /\ cliPullers' = cliPullers \cup {e}
                /\ stream' = Tail(stream)
                /\ UNCHANGED <<bundleVars, pc, clean>>
    /\ UNCHANGED <<crashes, cliStack, seenTimes, loggers, stage, file, lastOffset, dirs, placed,
                   begun, moved, past>>

\* moveTestOutputData of one goroutine is done.
MoveDone(e) ==
    /\ e \in cliPullers
    /\ cliPullers' = cliPullers \ {e}
    /\ moved' = moved \cup {<<e.run, e.dir>>}
    /\ UNCHANGED <<bundleVars, crashes, stream, pc, clean, procVars, past>>

\* The remote bundle is done, or its connection breaks.
EOF ==
    /\ pc = "run" /\ stream = <<>> /\ inner = "idle" /\ remote = <<>>
    /\ pc' = "runEnd" /\ clean' = TRUE
    /\ UNCHANGED <<bundleVars, crashes, stream, procVars, pullVars>>

StreamBreaks ==
    /\ pc = "run" /\ crashes < MaxCrashes /\ crashes' = crashes + 1
    /\ Abort
    /\ UNCHANGED <<procVars, pullVars>>

\* preprocessor.RunEnd: the orphans end, then copyOutputHandler waits.
EndOrphan ==
    /\ pc = "runEnd" /\ cliStack # <<>>
    /\ EndTop(FALSE)
    /\ UNCHANGED <<bundleVars, crashes, stream, pc, clean, seenTimes, dirs, placed, begun, pullVars>>

\* Mutant: RunEnd does not wait for the moves.
RunEnd_NoWait ==
    /\ pc = "runEnd" /\ cliStack = <<>>
    /\ pc' = "done"
    /\ UNCHANGED <<bundleVars, crashes, stream, clean, procVars, pullVars>>

RunEnd ==
    /\ pc = "runEnd" /\ cliStack = <<>> /\ cliPullers = {}
    /\ pc' = "done"
    /\ UNCHANGED <<bundleVars, crashes, stream, clean, procVars, pullVars>>

\* The next attempt has a new processor, and the files of the last.
NextAttempt ==
    /\ pc = "done"
    /\ pc' = "run" /\ clean' = TRUE
    /\ cliCopying' = Nothing /\ seenTimes' = [n \in Names |-> 0]
    /\ loggers' = <<>> /\ stage' = None /\ lastOffset' = Len(file)
    /\ again' = {} /\ pulled' = {} /\ moved' = {} /\ past' = placed
    /\ UNCHANGED <<runs, inner, started, remote, stack, pullers, crashes, stream, cliStack,
                   file, dirs, placed, begun, cliPullers>>

BundleNext ==
    \/ RemoteStart \/ RemoteEnd \/ LocalAttempt
    \/ \E n \in Names, skip \in BOOLEAN : LocalStart(n, skip)
    \/ \E crash \in BOOLEAN : LocalEnd(crash)
    \/ \E r \in pullers : PullDone(r)
    \/ LocalEOF \/ LocalCrash \/ LocalOrphan \/ LocalRunEnd

CliNext ==
    \/ EntityStart \/ EntityEnd \/ EntityCopyEnd
    \/ \E e \in cliPullers : MoveDone(e)
    \/ EOF \/ StreamBreaks \/ EndOrphan \/ RunEnd \/ NextAttempt

Next == BundleNext \/ CliNext

Spec == Init /\ [][Next]_vars

-----------------------------------------------------------------------------
\* Every variable has its type.
TypeOK ==
    /\ runs \in [Names -> 0 .. MaxRuns] /\ again \subseteq {LocalFixture}
    /\ crashes \in 0 .. MaxCrashes
    /\ inner \in {"idle", "run", "runEnd"} /\ started \subseteq Names \ {RemoteFixture}
    /\ remote \in Seq(Runs) /\ stack \in Seq(Runs)
    /\ pullers \subseteq Runs /\ pulled \subseteq Runs
    /\ pc \in {"run", "runEnd", "done"} /\ clean \in BOOLEAN
    /\ cliStack \in Seq([run : Runs, dir : Dirs])
    /\ cliCopying \in [Names -> [run : Runs, dir : Dirs] \cup {None}]
    /\ seenTimes \in [Names -> Nat] /\ loggers \in Seq(Dirs) /\ stage \in Tests \cup {None}
    /\ file \in Seq([test : Tests, final : BOOLEAN]) /\ lastOffset \in 0 .. Len(file)
    /\ cliPullers \subseteq [run : Runs, dir : Dirs] /\ begun \in Seq(Runs)

\* No two runs of an entity, in one attempt or in several, get the same output
\* directory, unless there were more of them than names are tried.
OutDirsDistinct ==
    \A p, q \in placed : p[2] = q[2] /\ p # q =>
        Cardinality({d \in dirs : d.name = p[2].name}) > maxAttempts

\* The results file has one record for every start of a test, in the order of
\* the starts, whatever crashed, in one attempt or in several: each names the test
\* that started, and is final exactly if that run of the test has ended.
OneRecordPerStart ==
    /\ Len(file) = Len(begun)
    /\ \A k \in DOMAIN file :
           /\ file[k].test = begun[k].name
           /\ file[k].final <=> \A j \in DOMAIN cliStack : cliStack[j].run # begun[k]

\* Whatever crashed, every running entity has its logger, so none of its logs is
\* lost (a skipped test leaves its logger behind), and a timing stage is open
\* exactly if a test is running, so that two are never found to run at once.
\* The type invariant is checked with it.
RunningAreTracked ==
    /\ TypeOK
    /\ \A k \in DOMAIN cliStack : cliStack[k].dir \in Range(loggers)
    /\ stage # None <=> \E k \in DOMAIN cliStack : cliStack[k].run.name \in Tests

\* Files are moved only when they are complete on the host, and an
\* EntityCopyEnd is never unexpected, for all entities that the local bundle did
\* not start twice in one attempt.
CopyEndMatches ==
    /\ \A e \in cliPullers : e.run.name \notin again => e.run \in pulled
    /\ pc = "run" /\ stream # <<>> /\ Head(stream).type = "copyEnd" =>
           Head(stream).name \in again \/ cliCopying[Head(stream).name] # None

\* When the tast command is done without an error, the files of every run that
\* ended are in the directory of that run, for all entities that the local
\* bundle did not start twice in one attempt.
AllMoved ==
    pc = "done" /\ clean =>
        \A p \in placed \ past : p[1] \in pulled /\ p[1].name \notin again => p \in moved
=============================================================================
