---------------------------- MODULE MCPlanBuilder ----------------------------
EXTENDS PlanBuilder

\* Any values do: the shards of a test follow from its remainders.
SomeHash == [t \in 0..MaxList |-> 7 * t * t + 4]
=============================================================================
