# TLA+ models of Tast

Tast runs integration tests on ChromeOS devices.  This directory models the part
of it that decides *which* test runs *when*, on *which* fixtures, and *what* is
reported: the planner inside a test bundle, the protocol between a remote and a
local bundle, and the driver that restarts bundles that crash; and around it the
parts that hold resources: the server of a bundle, the event processor with its output
files, external data files, contexts and SSH connections.  Paths below are relative to
`src/src/go.chromium.org/tast/core/`.

## 1. The system

    tast command (cmd/tast)                     on the host
      driver: order of bundles, results, limit of failures
        | gRPC stream of events, minidriver/processor
      remote bundle (internal/bundle, internal/planner)   on the host
        fixture tree, remote fixtures, remote tests
        | gRPC stream of events up, stack operations up, answers down
      local bundle                                on the device under test (DUT)
        fixture tree below a remote fixture, local fixtures, local tests

| Part | State | Operations | Hard behaviour |
|---|---|---|---|
| `InternalStack` (planner/internal/fixture) | fixtures on the path from the root, each green, red or yellow; dirty flag | Push, Pop, Reset, PreTest, MarkDirty | failed SetUp, failed Reset, user code that never returns |
| `runFixtTree`, `prePlan.run` (planner/run.go) | the tree of the tests that are left, recursion | run tests, recurse, restart after a failed Reset | which tests are left after an abort, when to reset |
| `runTestWithConfig` (planner/run.go) | condition and output of the test, hooks | PreCheck, Prepare, PreTest, test, PostTest, Close | errors from goroutines that outlive their hook |
| `SafeCall` (usercode) | token, two goroutines | call with timeout | timeout against panic |
| `CombinedStack`, `ExternalStack`, `StackServer` | local stack, cached status, pending PostTest | stack operations as requests | crash of the local bundle between two requests |
| `RunTestsWithRetry`, `preprocessor` (minidriver) | tests without a result, retries, running entities | attempts, events, RunEnd | crash between two events, limit of failures |
| `eventWriter`, `heartbeatWriter`, test environment (bundle) | stream, mutex, what is held | send events, wait for answers, set up, close | a wait with the mutex held, a set-up that fails half way |
| processors and their handlers (minidriver/processor) | running entities, output directories, copying, loggers, stages, results file | start, end, copy end, RunEnd in two processes | order of pullers, crashes, retries |
| `buildStartFixtureMap`, `buildPlan`, sharding | registries, start fixtures, plans of both bundles | list, select, plan | one test planned by two bundles, missing fixtures |
| `extdata.Manager`, `downloader`, devserver client | data directory, files in use, download jobs | prepare, download, check, release, purge | stale files after crashes and changes of the build, broken streams |
| `xcontext`, `doAsync`, `ssh.Conn`, `Cmd`, `ConnCache` | contexts, connections, sessions | cancel, dial, run a command, replace a connection | late goroutines of calls that were canceled |

`PROJECT.json` lists every part with its status, and the hazards with the line at
which they bite.

What makes a run of Tast correct, and what the properties below state piece by
piece: every requested test gets exactly one result, or the run reports an error;
a test runs only on fixtures that are set up and that were reset since the last
test; what was set up for a test is undone after it; a test that did not run never
looks passed; a test finds the data files of its build and leaves its output files in a
directory of its own; what is acquired is released once; nothing waits or loops forever.

## 2. Modules

| Module | Models | Checked by |
|---|---|---|
| `InternalStack` | the stack as a value: operators `Push`, `Pop`, `Reset`, `Status`, `Errors` | with the modules that use it |
| `FixtureStack` | the stack with an arbitrary caller | `MCFixtureStack` |
| `TestSchedule` | what the planner promises to tests | as an abstract specification |
| `Planner` | `plan.run`, `fixtPlan.run`, `runFixtTree`, `prePlan.run` | `MCPlanner` |
| `RunTest`, `RunTestProofs` | `runTest`, `runTestWithConfig`, PreTest and PostTest of the stack | `MCRunTest`, TLAPS |
| `CallOutcome` | what a caller of `SafeCall` may rely on | as an abstract specification |
| `SafeCall` | the two goroutines of `SafeCall` | `MCSafeCall` |
| `UserCodeProofs` | theorems about `FixtureStack` and, through an instance, `SafeCall` | TLAPS |
| `MiniDriver`, `MiniDriverProofs` | `RunTestsWithRetry`, the event loop, `preprocessor`, failfast, results | `MCMiniDriver`, TLAPS |
| `RemoteRun`, `RemoteRunProofs` | remote bundle, stack server, local bundle, retries: the composition | `MCRemoteRun`, TLAPS |
| `EntityEvents` | events of both bundles through the two processors and their handlers: the composition | `MCEntityEvents` |
| `BundleServer`, `BundleServerProofs` | one `RunTests` call of a bundle: stream, heartbeats, set-up and release | `MCBundleServer`, TLAPS |
| `Sharding` | `ComputeAlpha`, `ComputeHash` as operators | with `PlanBuilder` |
| `OperatorProofs` | lemmas about the operators of `InternalStack`, theorems about `Sharding` | TLAPS |
| `PlanBuilder` | listing, sharding, and the plans of the remote and of the local bundle | `MCPlanBuilder` |
| `Devserver` | the devserver client: search, staging, resumed reads | with `ExternalData` |
| `ExternalData` | `extdata.Manager`, `RunDownloads`, `downloader` over several processes | `MCExternalData` |
| `XContext` | `newContext` and `cancel` | with `Connections` |
| `SshAsync` | `doAsync` and what its goroutines open and close | with `Connections` |
| `Connections`, `ConnectionsProofs`, `ConnectionLeakProofs` | `ConnCache`, `ssh.New` and `Cmd`, on the two modules above | `MCConnections`, TLAPS |

Correspondence of state and steps:

* **User code** is everything a test author writes.  `SafeCall` reduces a call of it
  to three outcomes, which `CallOutcome` states and `UserCodeProofs` proves: it
  succeeded, it reported errors (a panic is one), or it is abandoned and its caller gets an
  error.  The panic of `ForceErrorForTesting` returns an error too.  All other modules use
  just these three.
* **FixtureStack**: one action per method.  Every method may be called at any time,
  because `StackServer` goes on after an error.
* **Planner**: `frames` is the Go call stack of `runFixtTree`; `pc` in a frame is the
  place in its body, so each loop test, call and Reset is a step.  `tests`,
  `externalTests` and `children` are the fields of `fixtTree`, which shrink.  A call
  of `runExternalTests` is one step here, with the outcomes `MiniDriver` and
  `RemoteRun` justify.  `log` and `clean` are history.
* **RunTest**: `pc` is the next call of `runTestWithConfig`; `AsyncRecord` and
  `AsyncEmit` are the two halves of `Error` called from a goroutine left behind.
* **MiniDriver**: the bundle is the environment; `stack` and `results` are fields of
  the preprocessor and of the results handler, the loop variables those of
  `RunTestsWithRetry`.
* **RemoteRun**: `rpc`/`r…` is the remote bundle, `lpc`/`l…` the local one, `estatus`
  and `eerrors` what it caches.  A request and its answer are one step, because the
  local bundle waits.  A local SetUp that is abandoned ends the bundle, which is a
  crash here; a remote one ends the run and is left out.  Which fixtures an abandoned
  remote Reset got to is not tracked.
* **EntityEvents**: `stream` carries the events of the remote bundle, in which those of
  the local bundle are passed through; `stack` and `copying` are the fields of the
  intermediate preprocessor, `cliStack` and `cliCopying` those of the tast command's.
  A start or an end is one action with all handlers in their order; a puller of files is an
  action of its own.  A name of a run is an entity and a number, so that a copy of the
  wrong run can be told.
* **BundleServer**: `pc` is the place of the handler, `defers` and `inner` its deferred
  calls, `held` what it has acquired; `at` says where each goroutine is in a method of
  `eventWriter`.  Lock, Send and Recv are separate steps.  The planner is reduced to the
  events and operations it sends (`Planner` and `RunTest` have the rest).
* **PlanBuilder**: `Init` takes every registry and every declaration of tests that
  registration accepts.  A plan is a record of what `buildPlan` computes; the plans of the
  two bundles are computed one from the other, as in a run.
* **ExternalData**: `file`, `rec` and `errf` are the data directory, which outlives the
  process; `jobs`, `inuse` and `running` belong to it.  Each loop iteration of
  `PrepareDownloads`, each attempt of the client and each link is a step, so a crash or a
  failed file operation can come between any two.  A file is known by its URL and by
  whether its chunks arrived exactly.
* **Connections**: `pc` is the place in `ConnCache` or `Cmd`; `call` is the `doAsync` the
  program waits in, `left` the calls it left whose goroutines may still open or close
  something, `res` the connections and sessions.  The first select of `doAsync`, which
  follows the start of the goroutine at once, is one step with it.  A derived context
  (timeout of a dial, of the polling, or of `Abort`) is canceled asynchronously (`sub`).
  A body may fail with its resource open (the CloudBots proxy is connected, the connection
  through it is not), and `Cleans` says when the clean function has something to close.

## 3. Runs

Passing runs:

* `fixture_stack`: two fixtures, stacks up to height 4 (a fixture may be pushed
  twice; nothing in the stack compares them), one error.  `StackShape` is the pair of
  invariants the type documents, `StatusDiagram` its transition diagram.  That a red stack
  has errors for its tests to report (`ErrorsExplainRed`) is proved.
* `planner`: a tree of four fixtures, three deep, every one with direct tests and one
  with external tests too, a skipped and an orphaned test and two prePlans.  At depth
  three a Reset can fail at the current node, at its parent and at the root, so the
  restart begins zero, one or two calls further out.  `NoStaleFixture` is about resets,
  `AllSettled` about the restart after a failed one, which ends with every test settled,
  `NoBug` says that no check of the stack ever fails, `ImplementsSchedule` is refinement of
  `TestSchedule`: each test is settled once, and runs on exactly the fixtures from the root
  to its own.
* `run_test`: three fixtures, two tests, either on fixtures or on a precondition.
  Three is the least height at which a PostTest has one below and one above it.
  `NoSilentPass` says when the test function may be left out, `HooksUndone` and
  `ClosedOnce` what is set up before it and undone afterwards.
* `safe_call`: complete, there is nothing to bound.  `ImplementsOutcome` is what the
  callers rely on, as a refinement, and `Returns` that the call ends.  `ReturnMeaning` and
  `NoLateHandler` say parts of it directly and are proved.
* `mini_driver`: three tests, one retry, a limit of three failures; the limit can be
  reached in the first attempt, in the second, and by an orphan.
  `StartedHaveResults` is about crashes, `ResultsComplete` about what retries leave, `NoStartAfterLimit` about the limit, `Terminates` about the loop.
* `remote_run`: two remote fixtures, the stub of the start fixture and one local
  fixture, two tests, one retry, two crashes: a crash can come before, between and
  after tests, and again in the retry.  `NoTestOnBrokenStack` is about the cached
  status and errors, `PreTestsPaired` about the PostTest a crash leaves
  due, which costs one later test its PreTest and no more, `ResetBetweenTests` about remote fixtures within one attempt, `AllSettled` about
  the nested loops.
* `entity_events`: two tests, a local and a remote fixture, four starts, up to three of
  one entity, one crash of either bundle, a stream of two events.  `OutDirsDistinct` and
  `OneRecordPerStart` are about what a retry or a restart could overwrite (the records are
  compared with the starts one by one),
  `RunningAreTracked` about the loggers and stages the handlers open and end,
  `CopyEndMatches` and `AllMoved` about files that arrive after their test has ended.
* `bundle_server`: one companion DUT, one goroutine of user code beside the handler and
  the heartbeat, two events, a stream of one message.  `AnswerMatches` says what the
  mutex is for, `ReleasedOnReturn` and `ReleasedInOrder` what becomes of a set-up that
  fails at any step, `Returns` that nothing hangs if the client vanishes.  The proofs add
  `StreamExclusive` and `NoHeartbeatAfterStop`, which quotes `heartbeatWriter.Stop`.
* `plan_builder`: one remote and two local fixtures and a missing one, with every
  assignment of parents, two tests with every fixture, place and state of dependencies,
  both ways of sharding.  `EveryTestOnce`, `RunsOnItsFixtures` and `OrphansMissAFixture`
  compare the plans of both bundles, and with them the start fixtures found while listing,
  with what a test needs, defined on the registry, the last one in both directions: no
  other test is an orphan, and no test without one of its fixtures is planned;
  `ShardsPartition` is about all shards of
  lists up to four tests.
* `external_data`: a fixture and two tests with two files, four sets of link files (static,
  artifact, a wrong checksum, a malformed one), two builds and an unknown one, two processes, one crash or
  failed file operation, two servers of which one ignores ranges.  `UsedIsCurrent` is what
  the tests rely on: it fails if files in use are miscounted, purged or removed, or if a
  resumed read repeats or loses a chunk.  `MissingIsExplained` is what their authors see,
  and `DownloadsReturn` that retries of requests and of broken streams end: the only
  download that never returns is one whose server ignores ranges and breaks off again and
  again.
* `connections`: two connections, one session, one retry, one poll, two operations, two
  callers of cancel against a deadline and a parent.  The program defers its calls of
  cancel, so they come when it has ended (`DeferredCancel`); two are enough for the second
  to find the channel full, with and without a watcher that empties it.  `CancelAlwaysReturns` is about
  contexts; `ClosedOnce`, `OnlyCachedConn` and `AllClosed` say who owns what is open;
  `CanceledCallReturns` that no call waits for a remote side that does not answer.  The
  proofs add `DoneHasCause` and `SessionHeld`.

The type invariant `TypeOK` of a module is a conjunct of one of its invariants above; those
of `FixtureStack` and `SafeCall` are proved.

One violation run states what a comment says and shows that the code does otherwise.
`bundle_server_close`: `runTestsRecursive` says that an error of the test harness is
returned, but the deferred close of the environment tests `err != nil && retErr != nil`
(internal/bundle/run_tests_recursive.go:110), so that its error is dropped when the run
itself went well.  `runTests` in run_tests.go returns it.

**Where comments and code part.**  The modules follow the code in the following places
too; no run is kept for them, and the properties above exclude these cases by name where
they touch them.

* Fixtures.  PostTest "is always called in a pair with a successful PreTest call"
  (internal/testing/fixt.go:437), but `RunPreTest` (internal_stack.go:554) returns no hook
  if a goroutine of an earlier hook reported an error meanwhile.  `Error` records an error
  before it emits it (internal/testing/state.go:485), so a test can be left out for an error
  that never reaches its output.  "If a test is going to be skipped, don't run fixture
  setup" (planner/run.go:374): the fixture is in the tree already, as an empty subtree,
  which run.go:299 forbids, and is set up.
* Remote fixtures.  `StackServer` puts its errors into `FatalError` of an answer, which
  `ExternalStack` never reads (external_stack.go:88, 105): a remote Reset or PreTest that
  ignored its timeout is taken for success, and the test runs.  The remote stack is not
  reset between two attempts of `RunTestsWithRetry`, and a `StackServer` with a PostTest due
  outlives a local bundle that crashed and refuses the next PreTest, whose test runs without
  it; combined_stack.go:142
  says "make sure Reset is called for sure between tests".  `ResetBetweenTests` holds for
  the rest: within one attempt, while no remote Reset is abandoned.
  `CombinedStack.Push` (combined_stack.go:66) looks at the local part only, so a local
  fixture is set up on a red combined stack, other than "See InternalStack.Push" promises.
* Mini driver.  A limit of failures reached by an orphan in `RunEnd` is not a fatal error
  (preprocessor.go:291 against the comment at 312); no test starts after it all the same.
  A test among the `unstarted` ones of `runExternalTests` may have run before (planner/external.go:131),
  and then gets more results than `retryn + 1`.  `runFixtTree` says that a stack that was
  green is dirty on return; after a failed Reset it is yellow and clean.
* Processor.  Copying is keyed by name (preprocessor.go:170): if the local bundle starts a
  fixture twice in one attempt, the second end overwrites the entry of the first, files are
  moved before they are complete ("Tast CLI may see incomplete output files",
  handler_output.go:36), and the second copy end is unexpected.  `CopyEndMatches` and
  `AllMoved` are about all others.  `loggingHandler.EntityEnd` returns early for a skipped
  test and leaves its logger (handler_logging.go:116).  After `maxAttempts` names
  `createOutDir` takes the next one unchecked.
* Selection.  `TestNamesToSkip` are "tests that match patterns but are not sent to runners"
  (cmd/tast/internal/run/config/config.go:406), but `runTests` sends all of `shard.Included`
  (cmd/tast/internal/run/run.go:416).  Listing takes an error of a dependency check for
  "not skipped"; the bundle reports it later.
* External data.  `PrepareDownloads` "also removes stale files so they are never used even
  if we fail to download them later" (extdata.go:186), but one whose link it cannot load
  (an artifact of an unknown build, for one) or that it cannot open or remove stays, and
  is used; an artifact that was linked
  before its URL record could be written is trusted when the build of the old record
  returns; a file that a running fixture uses can be removed by `PrepareDownloads` for a
  test it encloses; a server that ignores a range answers 200, which `openStaged` accepts
  for a resumed read (internal/devserver/real.go:418), and an artifact is not verified.
  `resumingReader.Read` reopens once "to avoid entering an infinite loop of retries"
  (real.go:491), but each reopening of such a stream delivers data from the start.
* SSH.  `Forwarder` has a mutex that "protects errFunc" (ssh/forwarder.go:33) and reads it
  outside (56).  A pipe of a command "is closed automatically when the context deadline is
  reached" (ssh/exec_ctx.go:215), but nothing watches the context between Start and Wait.

Deadlock checking is off where the system ends: a call that returned takes no further
step.  `fixture_stack` checks it.

**Bounds.**  `MaxDepth` (FixtureStack) bounds the height of a stack; at height 4 a
yellow fixture or the lowest red one can have two fixtures below and one above it, and the
proofs cover every height.  `MaxCrashes` (RemoteRun) bounds crashes; two let the retry crash
as well.  `MaxRuns`, `MaxStarts`, `MaxStream` and `MaxCrashes` (EntityEvents) let a test run
in two attempts and once more in one of them, with copies of the first still under way;
`maxAttempts` is 1 there, so that the limit of `createOutDir` is reached.  `MaxEvents` and
`Window` (BundleServer) let two goroutines wait for the mutex while a third waits for an
answer on a full stream; the proofs cover every number of them.  `MaxList` and `MaxShards`
(PlanBuilder) include more shards than tests; the proofs cover all.  `MaxStarts`,
`MaxEntities` and `MaxFaults` (ExternalData) give a crash in one process and its
consequence in the next.  Reopenings are not bounded: the position of a reader is counted
up to one past the end of the file, where nothing more can be told.  `Parallelism` is 1: the jobs of a run have different URLs and files, and each
result is received by the one loop, so two workers only multiply states.  `Retries`,
`MaxPolls` and `MaxOps` (Connections) let a replaced connection, a failed dial and a
command follow each other.  The others are sizes of the input: `Depth` and `NumTests`
(RunTest), the tree of `MCPlanner`, `retryn` (MiniDriver, RemoteRun), `threshold`
(MiniDriver), the fixtures and tests of `PlanBuilder` and the files of `ExternalData`.

**Fairness.**  `Planner` and `RemoteRun` assume that some step is taken while one is
possible (`WF(Next)`): user code is cut off by `SafeCall`, and requests are answered or
the stream breaks.  `SafeCall` assumes that the timer fires and that the goroutines run,
but not that the user function ends.  `MiniDriver` assumes that an attempt ends (the
bundle exits, or the connection breaks or times out) and that the driver goes on, but
nothing of what the bundle reports before.  `BundleServer` assumes that the goroutines run,
that a mutex and a select are not unfair forever, and that the client handles what it reads;
not that the stream stays whole or that user code sends anything.  `ExternalData` assumes
that the download goroutines run.  `Connections` assumes that the program and its goroutines
run, that it closes its cache in the end, and that SSH operations are answered, except the
wait for a remote process, which may never exit; `CanceledCallReturns` does not rest on an
answer of the process.  `EntityEvents` and `PlanBuilder` state safety only.

## 4. Proofs

Each theorem holds for every value of the constants that satisfies the named assumptions
below.

### Stack and sharding operators: `OperatorProofs`

The lemmas say what `Status` and `Errors` return (a bottom-most fixture of a kind exists if
there is any), and what `Push`, `Pop` and `Reset` do to the shape of a stack; the theorems on
`FixtureStack` and `RemoteRun` use them.  `AlphaIsPartition` and `HashIsPartition` say that
each test is in exactly one shard, for every number of tests and shards and all hashes.  The
spans of `ComputeAlpha` are rounded up, so the proof shows that consecutive spans touch and
that the last one ends the list.

### Fixture stack and user code: `UserCodeProofs`

* `Invariance`: `IInv == TypeOK /\ StackShape /\ ErrorsExplainRed` is inductive, with no
  further strengthening.  The shape is preserved because a Push is refused on a yellow
  stack and adds a red fixture to a red one, and because a Reset changes only a stack that
  is green throughout.  Given the shape, `Status` has a simple meaning (yellow if some
  fixture is yellow, else red if some is red), and the proof reads the guards and
  `Errors` through that (lemmas `StatusMeaning` and `ExplainedMeaning`).
* `TypeCorrect`, `ShapeHolds`, `RedIsExplained` follow; `DiagramHolds` is the action
  property.
* `TokenInvariance`: `TypeOK /\ TokenDecides` of `SafeCall` (the instance `Call`) is
  inductive.  `ReturnMeaning` alone is not: it needs that the token is taken if and only if
  the goroutine is past `recover` or the call was abandoned, and that only a goroutine which
  took it touches `callErr` and calls the handler.  From it follow `ReturnMeaningHolds`,
  `HandlerIsNotLate` and `OutcomeRefined` (the refinement of `CallOutcome`, by cases on the
  actions).

### One test: `RunTestProofs`

For every height of the stack and number of tests.  A goroutine may add an error between
any two steps, so `RunTestInv` says at each call of `runTestWithConfig` both what has been
done if there is no error so far (`SetUpInv`, `RanInv`) and what holds whatever the errors
(`UndoInv`: after PostTest of the fixtures above `i`, exactly the hooks above `i` are
undone).  `StreamInv` ties a recorded error to the output, and `PreInv` ties Close to the last
test.  `NoSilentPassHolds`, `HooksUndoneHolds` and `ClosedOnceHolds` follow.

### Retries and results: `MiniDriverProofs`

For every set of tests, number of retries and failure limit.  `DriverInv` keeps account of
each test: it is with the loop, with the attempt (on the preprocessor's stack or among the
results), or judged (`LoopInv`, `AttemptInv`).  `CountInv` is what the bound on the runs
of a test needs: the times it was started and the retries it has left add up to
`retryn`, or to one more while it waits for its verdict or has it.  `ResultsCompleteHolds`,
`StartedHaveResultsHolds` and the action property `NoStartAfterLimitHolds` follow.

### Remote fixtures: `RemoteRunProofs`

For every chain of remote fixtures, set of tests, number of retries and of crashes.  The local
bundle decides from a copy of the remote status; `CopyInv` says that the copy is right
as long as a local bundle runs, and that a red one has errors.  It is inductive
only with `StacksInv` (the shape of both stacks, from the lemmas on the operators),
`LocalInv` (what the local bundle has found out at each step) and, for
`ResetBetweenTestsHolds`, `CleanInv`.  `NoTestOnBrokenStackHolds` follows too.
`PreTestsPaired` is inductive given these: a step that leaves the stack server alone
keeps it (`QuietKeepsPaired`), and PreTest, PostTest and a crash are the only others.

### Serving RunTests: `BundleServerProofs`

For every number of goroutines, companion DUTs and events and every window.

* `StreamInv` ties the mutex to the stream: only its holder is in Send or Recv, and
  requests and answers under way are those of the holder.  `AnswerMatches` alone is not
  inductive, since it does not say whose request the client is handling.
  `StreamIsExclusive`, `AnswersMatch` and `HeartbeatStops` follow.
* `EverythingReleased` rests on `ReleaseInv`, which accounts for each thing held, at every
  place of the handler, by a deferred call that will release it.
* `ReleasedInOrderHolds` rests on `OrderInv`, which adds the order: the deferred calls of the
  handler are the first ones of a fixed list (`DefersInv`), those of the set-up function
  in progress are the first ones of what it acquires (`PrefixInv`), and what is held on
  top of something else is held with it (`NestedInv`).

### Connections: `ConnectionsProofs`, `ConnectionLeakProofs`

For every number of connections, sessions, callers of cancel, retries and operations.

* `CanceledWithCause`: a context that is done has an error, from an invariant on the
  goroutine of `newContext`.
* `ResourceInv == CallInv /\ DriverInv`: every open connection and session has at most one
  owner, the program or one goroutine that was left, and what is not yet used is unopened.
  `ClosedOnce` needs it because a late goroutine closes what it opened when nobody else
  knows of it; until it has, what it opened is open or was never opened (`Fits`).  `NothingClosedTwice` and `SessionIsHeld` follow.
* `OnlyCachedConnHolds`: `NoLeakInv` adds that there is at least one owner (`LeakInv`),
  that a call which is over has closed what it was to close (`SettleInv`), and which services
  run and which pipes are open at each place (`CacheInv`).

### Assumptions

All are named assumptions on constants, which the runs evaluate on their instances:
`MaxDepthAssumption`, `SizeAssumption` (there is a test), `ConstantAssumption` (the fixture
is no test), `ConfigAssumption` (the chain of remote fixtures is not empty),
`BundleAssumption` (the names of goroutines differ, and so do those of the DUTs and of the
other things a call acquires), `ContextAssumption`, `ResourceAssumption` (identities differ) and
`RetriesAssumption` (a number).  `SafeCall` and `Sharding` have none.

### Only model-checked

* All liveness (`Terminates`, `AllSettled`, `AllClosed` and the like): it needs fairness and
  ENABLED, which the prover does not handle.
* `PlanBuilder`: its operators are recursive, and what they compute for every registry needs
  an induction over data.
* `Planner` and its refinement of `TestSchedule`, `EntityEvents` and `ExternalData`: no
  obstacle in principle.  Their inductive invariants have not been worked out: for `Planner`
  it has to describe the whole stack of frames, for `EntityEvents` the queue of events
  between the two processors, for `ExternalData` the directory after a crash at any step.

## 5. Not modelled

The components marked `not_modelled` in `PROJECT.json`, and what `partly` leaves out:

* Generated code (protocol buffers, tables of hardware) and test doubles, a large part of
  the lines of the repository.
* Input and output: processes of the runner, file copying, port forwarding, key exchange,
  gRPC transport and remote logging, build, prepare, symbolize, servo.  Their state is in
  systems outside the repository.
* Pure predicates and conversions: hardware and software dependencies, attribute
  expressions, capabilities, validation of declarations, lint, which works on Go syntax
  trees.  A model would repeat the code and have nothing to be checked against.
* The legacy fixture service, clients of a single request, and sequential glue of the tast
  command.

So the modelled code is the stateful core, a small share of all lines; the rest is
of one of these kinds.  Fixture and precondition values, log lines, times and the wording
of errors are left out everywhere: no decision depends on them.
