----------------------------- MODULE Devserver -----------------------------
(***************************************************************************)
(* The devserver client (internal/devserver/real.go): RealClient.Open      *)
(* finds or stages a file on a devserver and reads it through a            *)
(* resumingReader.  A file is a sequence of Size chunks; a transfer is the *)
(* client's part of one download job, named by the file's URL.             *)
(***************************************************************************)
EXTENDS Naturals, Sequences, FiniteSets

CONSTANTS
  Servers,        \* the devservers
  RangeServers,   \* those that honour the Range header; others send the file
                  \* from its start, with status 200
  Score(_, _),    \* the score chooseServer gives a file on a server
  StageRetries,   \* len(stageRetryWaits)
  Size            \* chunks of a file

VARIABLES
  up,       \* servers whose err is nil
  xfer      \* url -> the transfer of the job for that url

client == <<up, xfer>>

Steps == {"queued", "find", "stage", "check", "open", "read", "copied", "link",
          "linked", "failed", "reported"}

\* reader is the chunk the underlying stream sends next, reopened the flag of
\* resumingReader.Read, pos the number of chunks read, and exact says whether they
\* are the first chunks of the file in order.  Only a server that ignores ranges
\* sends more than Size, and then nothing depends on how many more.
Idle == [pc |-> "queued", server |-> CHOOSE s \in Servers : TRUE, tries |-> 0,
         reader |-> 1, reopened |-> FALSE, pos |-> 0, exact |-> TRUE]

ClientTypeOK ==
  /\ up \subseteq Servers
  /\ \A u \in DOMAIN xfer :
       /\ xfer[u].pc \in Steps /\ xfer[u].server \in Servers
       /\ xfer[u].tries \in 0..StageRetries /\ xfer[u].reader \in 1..Size + 1
       /\ xfer[u].reopened \in BOOLEAN
       /\ xfer[u].pos \in 0..Size + 1 /\ xfer[u].exact \in BOOLEAN

\* NewRealClient: every server answers the health check in time, or is down.
NewRealClient == up' \in SUBSET Servers

To(u, pc) == xfer' = [xfer EXCEPT ![u].pc = pc]
Ended(u, pc) == xfer' = [xfer EXCEPT ![u] = [Idle EXCEPT !.pc = pc]]

\* findStaged and the choice that follows it in Stage: a server says that it
\* has the file, or none does in time and chooseServer decides.  What a server
\* has staged is its own affair, so it may answer either way.  Without a server
\* that is up, Stage returns an error.
FindStaged(u) ==
  /\ xfer[u].pc = "find"
  /\ IF up = {} THEN Ended(u, "failed")
     ELSE \/ \E s \in up : xfer' = [xfer EXCEPT ![u].pc = "open", ![u].server = s]
          \/ LET best == CHOOSE s \in up : \A r \in up : Score(u, s) <= Score(u, r)
             IN xfer' = [xfer EXCEPT ![u].pc = "stage", ![u].server = best]
  /\ UNCHANGED up

\* stage and sendStageRequest: the server stages the file, says that there is
\* no such file, or the request fails and is retried.
SendStageRequest(u) ==
  /\ xfer[u].pc = "stage"
  /\ \/ To(u, "check")
     \/ Ended(u, "failed")
     \/ /\ xfer[u].tries < StageRetries
        /\ xfer' = [xfer EXCEPT ![u].tries = @ + 1]
  /\ UNCHANGED up

\* checkStaged after staging.
CheckStaged(u) ==
  /\ xfer[u].pc = "check"
  /\ To(u, "open") \/ Ended(u, "failed")
  /\ UNCHANGED up

\* openStaged(0) of newResumingReader.
Open(u) ==
  /\ xfer[u].pc = "open"
  /\ \/ xfer' = [xfer EXCEPT ![u].pc = "read", ![u].reader = 1,
                             ![u].reopened = FALSE, ![u].pos = 0, ![u].exact = TRUE]
     \/ Ended(u, "failed")
  /\ UNCHANGED up

\* The result of open(offset): the rest of the file, or the whole file from a
\* server that ignores the range.  A range past the end is refused.
Reopened(u, offset) ==
  IF xfer[u].server \notin RangeServers THEN {1}
  ELSE IF offset < Size THEN {offset + 1} ELSE {}

\* The chunk that the stream sends has been read.
Got(x) ==
  [x EXCEPT !.pos = IF @ <= Size THEN @ + 1 ELSE @, !.exact = @ /\ x.reader = x.pos + 1]

\* Read returns data, or the end of the file, to io.Copy.
ReadChunk(u) ==
  LET x == xfer[u] IN
  /\ x.pc = "read"
  /\ \/ /\ x.reader <= Size
        /\ xfer' = [xfer EXCEPT ![u] = [Got(x) EXCEPT !.reader = @ + 1, !.reopened = FALSE]]
     \/ x.reader > Size /\ To(u, "copied")
     \/ Ended(u, "failed")               \* an error that is not resumable
  /\ UNCHANGED up

\* Mutant: the flag is cleared by a second reopening, so Read never gives up.
ReadBroken_NoGiveUp(u) ==
  LET x == xfer[u] IN
  /\ x.pc = "read"
  /\ \E n \in 0..1 :
       LET y == IF n = 1 THEN Got(x) ELSE x
       IN /\ n = 1 => x.reader <= Size
          /\ \/ \E r \in Reopened(u, y.pos) :
                  xfer' = [xfer EXCEPT ![u] = [y EXCEPT !.reader = r,
                                                        !.reopened = n = 0 /\ ~@]]
             \/ Ended(u, "failed")
  /\ UNCHANGED up

\* The stream ends early, after n chunks (io.ErrUnexpectedEOF): Read reopens it
\* at pos.  It gives up when the reopened stream breaks at once, or cannot be
\* opened.
ReadBroken(u) ==
  LET x == xfer[u] IN
  /\ x.pc = "read"
  /\ \E n \in 0..1 :
       LET y == IF n = 1 THEN Got(x) ELSE x
       IN /\ n = 1 => x.reader <= Size
          /\ IF x.reopened /\ n = 0 THEN Ended(u, "failed")
             ELSE \/ \E r \in Reopened(u, y.pos) :
                       xfer' = [xfer EXCEPT ![u] = [y EXCEPT !.reader = r, !.reopened = n = 0]]
                  \/ Ended(u, "failed")
  /\ UNCHANGED up

ClientStep(u) ==
  FindStaged(u) \/ SendStageRequest(u) \/ CheckStaged(u) \/ Open(u)
    \/ ReadChunk(u) \/ ReadBroken(u)

\* The file arrived complete and in order.
Exact(u) == xfer[u].exact /\ xfer[u].pos = Size

-----------------------------------------------------------------------------
=============================================================================
