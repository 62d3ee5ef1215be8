----------------------------- MODULE PlanBuilder -----------------------------
(***************************************************************************)
(* How a set of tests becomes execution plans: the tast command lists the  *)
(* tests and takes its shard (cmd/tast/internal/run); the remote bundle    *)
(* lists the entities of both bundles with the start fixture of every      *)
(* local test (internal/bundle) and builds two plans (internal/planner),   *)
(* one of the local tests and one of its own; the local bundle builds a    *)
(* plan for every fixture under which the remote bundle runs local tests.  *)
(* The computation is sequential; the initial states are its inputs.       *)
(* Planner executes the plans.                                             *)
(*                                                                         *)
(* Abstractions: the two registries have distinct fixture names and no     *)
(* cycle of parents; all tests have the same precondition, if any; the     *)
(* order of siblings is left out; all tests match the patterns.            *)
(***************************************************************************)
EXTENDS Sharding, Sequences, SequencesExt, FiniteSets, TLC

CONSTANTS
  RootFixture,     \* tastRootRemoteFixture, the default parent
  RemoteFixtures,  \* the other fixtures of the remote bundle
  LocalFixtures,   \* fixtures of the local bundle
  Missing,         \* a fixture name that no bundle has
  N,               \* number of tests, which are 0..N-1 in the order of names
  MaxShards,       \* bound: number of shards
  MaxList,         \* bound: tests and shards of ShardsPartition
  Hash             \* SHA-256 of the test names (external)

Start == ""        \* the unnamed start fixture of a run
Remotes == {RootFixture} \cup RemoteFixtures
Fixtures == Remotes \cup LocalFixtures
Names == Fixtures \cup {Missing, Start}
Tests == 0..N-1

VARIABLES
  parent,     \* FixtureInstance.Parent
  decl,       \* the tests: where, which fixture, are dependencies satisfied
  starts,     \* memo of buildStartFixtureMap in the local bundle
  included,   \* tests sent to the bundles
  plans       \* plans built so far, by the bundle and start fixture they are for

vars == <<parent, decl, starts, included, plans>>

\* The fixture reached from f by at most n links while in fs (the code has no such
\* function; the registries and a property are stated with it).
RECURSIVE Climb(_, _, _, _)
Climb(p, f, fs, n) == IF f \notin fs \/ n = 0 THEN f ELSE Climb(p, p[f], fs, n - 1)

\* Fixture.instantiate gives every other fixture a parent.
Registries ==
  {p \in [Fixtures -> Names] :
     \A f \in Fixtures :
       /\ p[f] = Start <=> f = RootFixture
       /\ Climb(p, f, Fixtures, Cardinality(Fixtures)) \notin Fixtures}

\* A test has a fixture, its own or the default one, or a precondition, which
\* leaves its fixture empty.  Deps().Check may find reasons to skip or fail.
Declarations == [local : BOOLEAN, fixture : Names, dep : {"ok", "skip", "error"}]

Init ==
  /\ parent \in Registries
  /\ decl \in [Tests -> Declarations]
  /\ starts = <<>> /\ included = {} /\ plans = <<>>

-----------------------------------------------------------------------------
(* internal/bundle/service.go                                               *)

\* buildStartFixtureMap: findStart, called in the order of a map iteration and
\* recursively, sets the start of a fixture after its parent's.
FindStart(f) ==
  /\ f \in LocalFixtures \ DOMAIN starts
  /\ parent[f] \in LocalFixtures => parent[f] \in DOMAIN starts
  /\ starts' = (f :> IF parent[f] \in LocalFixtures THEN starts[parent[f]]
                     ELSE parent[f]) @@ starts
  /\ UNCHANGED <<parent, decl, included, plans>>

\* listEntities: ResolvedEntity.StartFixtureName and Skip of a local test.
StartFixtureName(t) ==
  IF decl[t].fixture \in DOMAIN starts THEN starts[decl[t].fixture]
  ELSE decl[t].fixture
Skip(t) == decl[t].dep = "skip"

-----------------------------------------------------------------------------
(* cmd/tast/internal/run/run.go, runTests                                   *)

Shard(method, i, k) ==
  IF method = "hash" THEN ComputeHash(N, Hash, i, k) ELSE ComputeAlpha(N, i, k)

\* The tests of the shard are sent to the bundles, if there is one to run;
\* excludeSkipped takes part in the condition only.
SelectTests(method, i, k, excludeSkipped) ==
  /\ DOMAIN starts = LocalFixtures /\ included = {} /\ plans = <<>>
  /\ included' = Shard(method, i, k)
  /\ \E t \in included' : ~(excludeSkipped /\ Skip(t))
  /\ UNCHANGED <<parent, decl, starts, plans>>

-----------------------------------------------------------------------------
(* internal/planner/run.go                                                  *)

\* traverse of buildFixtPlan: is there a path from the fixture f to the start
\* fixture, and if not, which fixture is missing?  New fixtures of a complete
\* path are added to the graph, below their parents.
RECURSIVE Traverse(_, _, _, _)
\* Mutant: only the fixture itself is added.
Traverse_DropsParents(f, known, start, added) ==
  IF f = start \/ f \in added THEN [rooted |-> TRUE, missing |-> Start, added |-> added]
  ELSE IF f \notin known THEN [rooted |-> FALSE, missing |-> f, added |-> added]
  ELSE LET r == Traverse(parent[f], known, start, added)
       IN IF r.rooted THEN [r EXCEPT !.added = added \cup {f}] ELSE r

Traverse(f, known, start, added) ==
  IF f = start \/ f \in added THEN [rooted |-> TRUE, missing |-> Start, added |-> added]
  ELSE IF f \notin known THEN [rooted |-> FALSE, missing |-> f, added |-> added]
  ELSE LET r == Traverse(parent[f], known, start, added)
       IN IF r.rooted THEN [r EXCEPT !.added = @ \cup {f}] ELSE r

\* fixtTreeParent, and the place of a test whose fixture is rooted: a skipped
\* external test goes to the root.
TreeParent(t, external) ==
  IF external THEN StartFixtureName(t) ELSE decl[t].fixture
TreeNode(t, external) ==
  IF external /\ Skip(t) THEN Start ELSE TreeParent(t, external)

\* The loop of buildFixtPlan.
AddTest(plan, t) ==
  LET r == Traverse(TreeParent(t, plan.external), plan.known, plan.start, plan.added)
  IN IF r.rooted
     THEN [plan EXCEPT !.added = r.added,
                       !.placed = @ \cup {<<TreeNode(t, plan.external), t>>}]
     ELSE [plan EXCEPT !.orphans = @ \cup {<<r.missing, t>>}]

\* Mutant: a test that is skipped is also put in the tree.
BuildPlan_KeepsSkips(ts, external, known, start) ==
  LET skips == {t \in ts : ~external /\ decl[t].dep # "ok"}
      pres == {t \in ts \ skips : ~external /\ decl[t].fixture = Start}
      Empty == [external |-> external, known |-> known, start |-> start,
                skips |-> skips, pres |-> pres, orphans |-> {}, placed |-> {},
                added |-> {}]
  IN FoldLeft(AddTest, Empty, SetToSortSeq(ts \ pres, <))

\* buildPlan for the tests ts of a bundle that has the fixtures known.  Only
\* the bundle that has a test looks at its dependencies and preconditions.
BuildPlan(ts, external, known, start) ==
  LET skips == {t \in ts : ~external /\ decl[t].dep # "ok"}
      pres == {t \in ts \ skips : ~external /\ decl[t].fixture = Start}
      Empty == [external |-> external, known |-> known, start |-> start,
                skips |-> skips, pres |-> pres, orphans |-> {}, placed |-> {},
                added |-> {}]
  IN FoldLeft(AddTest, Empty, SetToSortSeq(ts \ (skips \cup pres), <))

\* fixtTree of a plan.
TestsAt(plan, f) == {t \in Tests : <<f, t>> \in plan.placed}
Nodes(plan) == {plan.start} \cup plan.added

-----------------------------------------------------------------------------
(* internal/bundle/run_tests_recursive.go                                   *)

\* The remote bundle plans the tests that are one hop away, then its own.
PlanExternal ==
  /\ included # {} /\ plans = <<>>
  /\ plans' = [k \in {"external"} |->
                 BuildPlan({t \in included : decl[t].local}, TRUE, Remotes, Start)]
  /\ UNCHANGED <<parent, decl, starts, included>>

PlanInternal ==
  /\ "external" \in DOMAIN plans /\ "internal" \notin DOMAIN plans
  /\ plans' = ("internal" :>
                 BuildPlan({t \in included : ~decl[t].local}, FALSE, Remotes, Start))
              @@ plans
  /\ UNCHANGED <<parent, decl, starts, included>>

\* Mutant: the local bundle is not told the start fixture.
PlanLocal_NoStart(f) ==
  /\ "external" \in DOMAIN plans /\ f \notin DOMAIN plans
  /\ TestsAt(plans["external"], f) # {}
  /\ plans' = (f :> BuildPlan(TestsAt(plans["external"], f), FALSE, LocalFixtures, Start))
              @@ plans
  /\ UNCHANGED <<parent, decl, starts, included>>

\* runExternalTests: the local bundle gets the tests of a node, and the top of
\* the stack, the fixture of the node, as its start fixture.
PlanLocal(f) ==
  /\ "external" \in DOMAIN plans /\ f \notin DOMAIN plans
  /\ TestsAt(plans["external"], f) # {}
  /\ plans' = (f :> BuildPlan(TestsAt(plans["external"], f), FALSE, LocalFixtures, f))
              @@ plans
  /\ UNCHANGED <<parent, decl, starts, included>>

Next ==
  \/ \E f \in LocalFixtures : FindStart(f)
  \/ \E method \in {"alpha", "hash"}, k \in 1..MaxShards, x \in BOOLEAN :
       \E i \in 0..k-1 : SelectTests(method, i, k, x)
  \/ PlanExternal \/ PlanInternal
  \/ \E f \in Remotes \cup {Start} : PlanLocal(f)

Spec == Init /\ [][Next]_vars

-----------------------------------------------------------------------------
(* What the plans are checked against.                                      *)

\* The fixtures a test with the fixture f needs, and the first one that the
\* bundle that has to provide it does not have.
RECURSIVE Needs(_, _)
Needs(f, fs) ==
  IF f = Start THEN [fixtures |-> {}, missing |-> Start]
  ELSE IF f \notin fs THEN [fixtures |-> {}, missing |-> f]
  ELSE LET r == Needs(parent[f], IF f \in Remotes THEN Remotes ELSE fs)
       IN [r EXCEPT !.fixtures = @ \cup {f}]

NeedsOf(t) == Needs(decl[t].fixture, IF decl[t].local THEN Fixtures ELSE Remotes)

LocalPlans == {plans[f] : f \in DOMAIN plans \cap (Remotes \cup {Start})}
OwnPlans == LocalPlans \cup {plans[k] : k \in DOMAIN plans \cap {"internal"}}

\* All plans of the run are built.
Done ==
  /\ {"external", "internal"} \subseteq DOMAIN plans
  /\ \A f \in Remotes \cup {Start} :
       TestsAt(plans["external"], f) # {} => f \in DOMAIN plans

\* Every variable has its type; no start fixture is one of the local bundle.
TypeOK ==
  /\ parent \in Registries /\ decl \in [Tests -> Declarations]
  /\ DOMAIN starts \subseteq LocalFixtures
  /\ \A f \in DOMAIN starts : starts[f] \in Names \ LocalFixtures
  /\ included \subseteq Tests
  /\ DOMAIN plans \subseteq {"external", "internal", Start} \cup Remotes

\* Whatever the method, the shards of a list partition its tests, which are
\* those of this bundle and of others: every test is run by exactly one of the
\* tast commands that share the run.
ShardsPartition ==
  DOMAIN starts = LocalFixtures /\ included = {} =>
    \A n \in Cardinality(DOMAIN decl)..MaxList, k \in 1..MaxList :
      AlphaPartitions(n, k) /\ HashPartitions(n, Hash, k)

\* Every test of the shard is reported exactly once: it is skipped, or it is an
\* orphan, or it is run with a precondition or below a fixture of the tree.
\* The type invariant is checked with it.
EveryTestOnce ==
  /\ TypeOK
  /\ Done => \A t \in included :
       LET in(S) == IF t \in S THEN 1 ELSE 0
           Orphaned(p) == in({o[2] : o \in p.orphans})
           Reports(p) == in(p.skips) + in(p.pres) + Orphaned(p)
                         + Cardinality({f \in Nodes(p) : t \in TestsAt(p, f)})
       IN Orphaned(plans["external"]) + MapThenSumSet(Reports, OwnPlans) = 1

\* The fixtures above a test in its trees, of the remote and of the local
\* bundle together, are exactly the fixtures it needs.
RunsOnItsFixtures ==
  \A p \in OwnPlans :
    \A f \in Nodes(p) : \A t \in TestsAt(p, f) :
      LET Above(q, g) == {h \in q.added : \E n \in 0..Cardinality(Fixtures) :
                            Climb(parent, g, q.added, n) = h}
      IN Above(p, f) \cup (IF decl[t].local THEN Above(plans["external"], p.start) ELSE {})
         = NeedsOf(t).fixtures

\* A test is an orphan only if a fixture it needs is missing, and is reported with
\* the name of that fixture; when all plans are built, every test that has a fixture
\* missing is one, unless its dependencies do not hold; the local bundle never finds
\* one that the remote bundle has not found.
OrphansMissAFixture ==
  /\ \A k \in DOMAIN plans : \A o \in plans[k].orphans :
       o[1] = NeedsOf(o[2]).missing /\ o[1] # Start
  /\ Done => \A t \in included :
       NeedsOf(t).missing # Start /\ decl[t].dep = "ok" =>
         \E k \in DOMAIN plans : <<NeedsOf(t).missing, t>> \in plans[k].orphans
  /\ \A p \in LocalPlans : p.orphans = {}

=============================================================================
