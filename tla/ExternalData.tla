---------------------------- MODULE ExternalData ----------------------------
(***************************************************************************)
(* External data files (internal/extdata, internal/planner/downloader.go): *)
(* a bundle process prepares, downloads, checks and releases the data      *)
(* files of its entities, over several processes that share one data       *)
(* directory and may crash.  Downloads go through the client of Devserver. *)
(* The entities are nested as the planner nests them: fixtures, then one   *)
(* test, whose hook may purge the files that the manager calls purgeable.  *)
(***************************************************************************)
EXTENDS Devserver, SequencesExt

CONSTANTS
  Data,         \* entity -> its data files, a sequence of paths
  Tests,        \* the entities that are tests; the others are fixtures
  LinkSets,     \* the external link files to consider: path -> LinkData
  Builds,       \* build artifact URLs, UnknownBuild among them
  Modes,        \* download modes: "BATCH", "LAZY"
  Parallelism,  \* goroutines of RunDownloads
  MaxStarts,    \* bound: bundle processes
  MaxEntities,  \* bound: entities begun by a process
  MaxFaults     \* bound: crashes and failed file operations

VARIABLES
  link,     \* the link files
  mode, build,
  pc,       \* where the planner is
  todo,     \* data files PrepareDownloads has still to look at
  jobs,     \* url -> DownloadJob
  inuse,    \* Manager.inuse
  running,  \* entities begun and not finished, outermost first
  purgeable,\* what the hook of the running test may delete
  file,     \* path -> content
  errf,     \* paths with an .external-error file
  rec,      \* path -> URL in the .external-url file
  stranded, \* history: linked, but the URL record was not written after that
  kept,     \* history: left in place by PrepareDownloads, which failed before it
            \* knew the file or could remove it
  starts, begun, faults

disk == <<file, errf, rec, stranded, kept>>
manager == <<link, mode, build, todo, jobs, inuse>>
plan == <<pc, running, purgeable, starts, begun>>
vars == <<link, mode, build, pc, todo, jobs, inuse, running, purgeable, file,
          errf, rec, stranded, kept, starts, begun, faults, up, xfer>>

Paths == DOMAIN file
NoUrl == <<>>
Missing == [url |-> NoUrl, exact |-> FALSE, ranged |-> FALSE]
External(d) == link[d].kind # "none"
UnknownBuild == ""

\* loadLink and newLink: whether the link file is well formed and, for an
\* artifact, whether the URL of the build is known.
Loadable(d) == \/ link[d].kind = "static"
               \/ link[d].kind = "artifact" /\ build # UnknownBuild

\* newLink: the URL is the link's own, or that of a build artifact.
ComputedURL(d) ==
  IF link[d].kind = "static" THEN <<"gs", link[d].name>> ELSE <<build, link[d].name>>

Init ==
  /\ link \in LinkSets
  /\ pc = "down" /\ mode \in Modes /\ build \in Builds
  /\ todo = <<>> /\ jobs = <<>> /\ running = <<>> /\ purgeable = {}
  /\ inuse = [d \in DOMAIN link |-> 0]
  /\ file = [d \in DOMAIN link |-> Missing]
  /\ rec = [d \in DOMAIN link |-> NoUrl]
  /\ errf = {} /\ stranded = {} /\ kept = {}
  /\ starts = 0 /\ begun = 0 /\ faults = 0
  /\ up = {} /\ xfer = <<>>

Fault == faults < MaxFaults /\ faults' = faults + 1

-----------------------------------------------------------------------------
(* The process: newDownloader and BeforeRun, the end of the run, a crash.   *)

AllData == FlattenSeq(SetToSeq({Data[e] : e \in DOMAIN Data}))

Start ==
  /\ pc = "down" /\ starts < MaxStarts
  /\ starts' = starts + 1 /\ begun' = 0
  /\ build' \in Builds
  /\ NewRealClient
  /\ IF mode = "BATCH" THEN pc' = "prepare" /\ todo' = AllData
                       ELSE pc' = "idle" /\ todo' = <<>>
  /\ UNCHANGED <<link, mode, jobs, inuse, running, purgeable, disk, faults, xfer>>

Gone ==
  /\ pc' = "down" /\ up' = {} /\ xfer' = <<>>
  /\ todo' = <<>> /\ jobs' = <<>> /\ running' = <<>> /\ purgeable' = {}
  /\ inuse' = [d \in Paths |-> 0]
  /\ UNCHANGED <<link, mode, build, disk, starts, begun>>

Finish == pc = "idle" /\ running = <<>> /\ Gone /\ UNCHANGED faults
Crash == pc # "down" /\ Fault /\ Gone

-----------------------------------------------------------------------------
(* PrepareDownloads                                                         *)

\* verify: artifacts are not verified.
Verify(content, l) == l.kind = "artifact" \/ (content.exact /\ content.url[2] = l.sum)

\* An artifact is stale unless its URL record names the URL of this build; a
\* static file is stale unless it verifies.
ShouldDownload(d) ==
  \/ file[d] = Missing
  \/ IF link[d].kind = "artifact" THEN rec[d] # ComputedURL(d)
     ELSE ~Verify(file[d], link[d])

\* The part of a job's link that DeepEqual compares: the link data and the URL.
LinkOf(d) == [data |-> link[d], url |-> ComputedURL(d)]

AddDest(d, needed) ==
  LET u == ComputedURL(d)
      old == IF u \in DOMAIN jobs THEN jobs[u].dests ELSE <<>>
      new == IF needed /\ ~Contains(old, d) THEN Append(old, d) ELSE old
  IN [v \in DOMAIN jobs \cup {u} |->
        IF v = u THEN [link |-> LinkOf(d), dests |-> new] ELSE jobs[v]]

Conflict(d) ==
  ComputedURL(d) \in DOMAIN jobs /\ jobs[ComputedURL(d)].link # LinkOf(d)

\* In the lazy mode the release function undoes the count when the entity ends;
\* in the batch mode BeforeRun drops it.
Hold(d) ==
  /\ inuse' = [inuse EXCEPT ![d] = @ + 1]
  /\ running' = IF mode = "LAZY" THEN [running EXCEPT ![Len(running)].held = Append(@, d)]
                                 ELSE running

\* One data file of one entity.  Its error file is removed first.  A link file
\* that cannot be loaded leaves a new one and the file as it is, which then is not
\* in use either; so do a file that cannot be opened, a stale one that cannot be
\* removed, and a link that contradicts another one of the same URL.
PrepareFile ==
  LET d == Head(todo)
      needed == ShouldDownload(d)
  IN /\ pc = "prepare" /\ todo # <<>>
     /\ todo' = Tail(todo)
     /\ \/ /\ ~External(d)
           /\ errf' = errf \ {d}
           /\ UNCHANGED <<inuse, running, jobs, file, stranded, kept, faults>>
        \/ /\ External(d)
           /\ IF Loadable(d) THEN Fault ELSE UNCHANGED faults
           /\ errf' = errf \cup {d} /\ kept' = kept \cup {d}
           /\ UNCHANGED <<inuse, running, jobs, file, stranded>>
        \/ /\ Loadable(d) /\ Hold(d) /\ Fault
           /\ errf' = errf \cup {d} /\ kept' = kept \cup {d}
           /\ UNCHANGED <<jobs, file, stranded>>
        \/ /\ Loadable(d) /\ Hold(d)
           /\ file' = IF needed THEN [file EXCEPT ![d] = Missing] ELSE file
           /\ stranded' = IF needed THEN stranded \ {d} ELSE stranded
           /\ kept' = kept \ {d}
           /\ IF Conflict(d)
              THEN errf' = errf \cup {d} /\ UNCHANGED jobs
              ELSE errf' = errf \ {d} /\ jobs' = AddDest(d, needed)
           /\ UNCHANGED faults
     /\ UNCHANGED <<link, mode, build, pc, purgeable, rec, starts, begun, client>>

Ready == IF running = <<>> THEN "idle" ELSE "check"

\* The jobs with destinations are handed to RunDownloads, if there are any.
PrepareEnd ==
  LET due == {u \in DOMAIN jobs : jobs[u].dests # <<>>} IN
  /\ pc = "prepare" /\ todo = <<>>
  /\ pc' = IF due = {} THEN Ready ELSE "download"
  /\ jobs' = [u \in due |-> jobs[u]]
  /\ xfer' = [u \in due |-> Idle]
  /\ UNCHANGED <<link, mode, build, todo, inuse, running, purgeable, starts, begun,
                 disk, faults, up>>

-----------------------------------------------------------------------------
(* RunDownloads                                                             *)

Active == {u \in DOMAIN xfer : xfer[u].pc \notin {"queued", "linked", "failed", "reported"}}

\* A goroutine takes the next job from jobCh.
TakeJob(u) ==
  /\ xfer[u].pc = "queued" /\ Cardinality(Active) < Parallelism
  /\ To(u, "find")
  /\ UNCHANGED <<manager, plan, disk, faults, up>>

Transfer(u) == ClientStep(u) /\ UNCHANGED <<manager, plan, disk, faults>>

Received(u) == [url |-> u, exact |-> Exact(u), ranged |-> xfer[u].server \in RangeServers]

VerifyFile(u) ==
  /\ xfer[u].pc = "copied"
  /\ IF Verify(Received(u), jobs[u].link.data) THEN To(u, "link") ELSE Ended(u, "failed")
  /\ UNCHANGED <<manager, plan, disk, faults, up>>

\* runDownload replaces the destinations one after the other; dests keeps all
\* of them for the report, so the next one is the first that is not replaced.
LinkDest(u) ==
  LET left == SelectSeq(jobs[u].dests, LAMBDA d : file[d] # Received(u)) IN
  /\ xfer[u].pc = "link"
  /\ IF left = <<>>
     THEN Ended(u, "linked") /\ UNCHANGED <<file, stranded, kept, faults>>
     ELSE \/ /\ file' = [file EXCEPT ![Head(left)] = Received(u)]
             /\ stranded' = IF jobs[u].link.data.kind = "artifact"
                            THEN stranded \cup {Head(left)} ELSE stranded
             /\ kept' = kept \ {Head(left)}
             /\ UNCHANGED <<xfer, faults>>
          \/ Fault /\ Ended(u, "failed") /\ UNCHANGED <<file, stranded, kept>>
  /\ UNCHANGED <<manager, plan, errf, rec, up>>

\* Mutant: a failed download leaves no error file.
Collect_Silent(u) ==
  LET dests == ToSet(jobs[u].dests) IN
  /\ xfer[u].pc \in {"linked", "failed"}
  /\ Ended(u, "reported")
  /\ IF xfer[u].pc = "failed" \/ jobs[u].link.data.kind = "static"
     THEN UNCHANGED <<errf, rec, stranded>>
     ELSE /\ rec' = [d \in Paths |-> IF d \in dests THEN u ELSE rec[d]]
          /\ stranded' = stranded \ dests /\ UNCHANGED errf
  /\ UNCHANGED <<manager, plan, file, kept, up, faults>>

\* RunDownloads receives a result: error files for all destinations, or the
\* URL record of an artifact (writeExternalURLRecord), whose failure is only
\* logged.
Collect(u) ==
  LET dests == ToSet(jobs[u].dests) IN
  /\ xfer[u].pc \in {"linked", "failed"}
  /\ Ended(u, "reported")
  /\ \/ /\ xfer[u].pc = "failed"
        /\ errf' = errf \cup dests /\ UNCHANGED <<rec, stranded, faults>>
     \/ /\ xfer[u].pc = "linked" /\ jobs[u].link.data.kind = "static"
        /\ UNCHANGED <<errf, rec, stranded, faults>>
     \/ /\ xfer[u].pc = "linked" /\ jobs[u].link.data.kind = "artifact"
        /\ \/ /\ rec' = [d \in Paths |-> IF d \in dests THEN u ELSE rec[d]]
              /\ stranded' = stranded \ dests /\ UNCHANGED faults
           \/ Fault /\ UNCHANGED <<rec, stranded>>
        /\ UNCHANGED errf
  /\ UNCHANGED <<manager, plan, file, kept, up>>

\* The last result has been received.
DownloadsEnd ==
  /\ pc = "download" /\ \A u \in DOMAIN xfer : xfer[u].pc = "reported"
  /\ pc' = Ready
  /\ jobs' = <<>> /\ xfer' = <<>>
  /\ UNCHANGED <<link, mode, build, todo, inuse, running, purgeable, starts, begun,
                 disk, faults, up>>

-----------------------------------------------------------------------------
(* Entities: BeforeEntity, PreCheck, the test hook, release.                *)

IsTest(r) == r.e \in Tests

\* runFixtTree before Push, runTest before the status check.
BeforeEntity(e) ==
  /\ pc = "idle" /\ begun < MaxEntities
  /\ \A i \in DOMAIN running : running[i].e # e /\ ~IsTest(running[i])
  /\ begun' = begun + 1
  /\ running' = Append(running, [e |-> e, held |-> <<>>, ok |-> FALSE, sure |-> {}])
  /\ IF mode = "LAZY" THEN pc' = "prepare" /\ todo' = Data[e] /\ jobs' = <<>>
                      ELSE pc' = "check" /\ UNCHANGED <<todo, jobs>>
  /\ UNCHANGED <<link, mode, build, inuse, purgeable, starts, disk, faults, client>>

\* Mutant: a file counts as purgeable when this test does not use it.
Purgeable_OfTest ==
  {d \in Paths : External(d) /\ file[d] # Missing
                 /\ ~Contains(Data[running[Len(running)].e], d)}

Purgeable == {d \in Paths : External(d) /\ inuse[d] = 0 /\ file[d] # Missing}

\* SetUp of a fixture or the start of a test checks that the files are there,
\* unless the stack is red.  Error files are not looked at, so a file that
\* PrepareDownloads left in place passes.  sure is history: the files that are
\* neither kept nor stranded.
PreCheck ==
  LET top == running[Len(running)]
      below == \A i \in 1..Len(running) - 1 : running[i].ok
      there == \A d \in ToSet(Data[top.e]) : External(d) => file[d] # Missing
  IN /\ pc = "check"
     /\ pc' = "idle"
     /\ running' = [running EXCEPT
          ![Len(running)].ok = below /\ there,
          ![Len(running)].sure = ToSet(Data[top.e]) \ (stranded \cup kept)]
     /\ purgeable' = IF IsTest(top) /\ below /\ there THEN Purgeable ELSE {}
     /\ UNCHANGED <<manager, starts, begun, disk, faults, client>>

\* The hook of a test deletes a purgeable file.
Purge(d) ==
  /\ pc = "idle" /\ d \in purgeable
  /\ file' = [file EXCEPT ![d] = Missing]
  /\ stranded' = stranded \ {d} /\ kept' = kept \ {d}
  /\ purgeable' = purgeable \ {d}
  /\ UNCHANGED <<manager, pc, running, starts, begun, errf, rec, faults, client>>

\* The innermost entity ends and its release function runs: once per count.
Release ==
  /\ pc = "idle" /\ running # <<>>
  /\ LET held == running[Len(running)].held
     IN inuse' = [d \in Paths |-> inuse[d] - Len(SelectSeq(held, LAMBDA x : x = d))]
  /\ running' = Front(running) /\ purgeable' = {}
  /\ UNCHANGED <<link, mode, build, todo, jobs, pc, starts, begun, disk, faults, client>>

DownloadStep ==
  \E u \in DOMAIN xfer : \/ TakeJob(u) \/ Transfer(u) \/ VerifyFile(u)
                         \/ LinkDest(u) \/ Collect(u)

Next ==
  \/ Start \/ Finish \/ Crash
  \/ PrepareFile \/ PrepareEnd \/ DownloadStep \/ DownloadsEnd
  \/ \E e \in DOMAIN Data : BeforeEntity(e)
  \/ PreCheck \/ Release
  \/ \E d \in Paths : Purge(d)

\* The goroutines of RunDownloads and the loop that receives their results run.
Fairness ==
  /\ WF_vars(DownloadStep) /\ WF_vars(DownloadsEnd)

Spec == Init /\ [][Next]_vars /\ Fairness

-----------------------------------------------------------------------------
\* Every variable has its type; no count of Manager.inuse is negative.
TypeOK ==
  /\ ClientTypeOK
  /\ pc \in {"down", "idle", "prepare", "download", "check"}
  /\ mode \in Modes /\ build \in Builds
  /\ inuse \in [Paths -> Nat]
  /\ errf \subseteq Paths /\ stranded \subseteq Paths /\ kept \subseteq Paths
  /\ purgeable \subseteq Paths /\ ToSet(todo) \subseteq Paths
  /\ DOMAIN xfer \subseteq DOMAIN jobs
  /\ \A i \in DOMAIN running : running[i].e \in DOMAIN Data /\ running[i].ok \in BOOLEAN

\* The file is what the link asks for.  An artifact is not verified, so a
\* transfer resumed from a server that ignores ranges can garble it.
Current(d) ==
  /\ file[d].url = ComputedURL(d)
  /\ link[d].kind = "static" => file[d].exact /\ link[d].sum = link[d].name
  /\ file[d].ranged => file[d].exact

\* While an entity that passed PreCheck runs, each of its external data files is
\* there and is what its link file asks for in this build, across downloads for
\* the entities it encloses, purges, crashes and changes of the build.
\* PrepareDownloads says that it "removes stale files so they are never used"; the
\* code leaves open two exceptions.  A file is kept when its link cannot be loaded
\* (an artifact in a build whose URL is unknown, for one), or when it cannot be
\* opened or removed.  An artifact is stranded if its URL record was not written
\* after it was replaced.
\* The type invariant is checked with it.
UsedIsCurrent ==
  /\ TypeOK
  /\ \A i \in DOMAIN running : running[i].ok =>
       \A d \in ToSet(Data[running[i].e]) :
         External(d) /\ d \in running[i].sure => Current(d)

\* A data file that PreCheck is about to find missing has an error file that
\* says why, whichever step failed on the way (reportErr, RunDownloads).  The
\* error files themselves are taken to be written; the code ignores if they are not.
MissingIsExplained ==
  pc = "check" =>
    \A d \in ToSet(Data[running[Len(running)].e]) :
      External(d) /\ file[d] = Missing => d \in errf

\* RunDownloads returns: retries of stage requests and of broken streams end.  The
\* one exception is a server that ignores ranges: each time it breaks off, the file
\* starts again, and resumingReader gives up only if no data came in between.
DownloadsReturn ==
  <>[](pc = "download") =>
    []<><<\E u \in DOMAIN xfer : xfer[u].server \notin RangeServers /\ ReadBroken(u)>>_vars
=============================================================================
