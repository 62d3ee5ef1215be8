------------------------------ MODULE Sharding ------------------------------
(***************************************************************************)
(* cmd/tast/internal/run/sharding: which of the n listed tests belong to a *)
(* shard.  Tests are named by their index in the list, from 0.             *)
(***************************************************************************)
EXTENDS Integers

\* The number of tests of a shard, rounded up.
ShardSpan(n, totalShards) ==
  IF n % totalShards > 0 THEN n \div totalShards + 1 ELSE n \div totalShards

\* Mutant: the last shard is no exception and the bound is exclusive.
ComputeAlpha_Exclusive(n, shardIndex, totalShards) ==
  LET span == ShardSpan(n, totalShards)
  IN {i \in 0..n-1 : i >= shardIndex * span /\ i < (shardIndex + 1) * span - 1}

\* Included of ComputeAlpha; the others are Excluded.
ComputeAlpha(n, shardIndex, totalShards) ==
  LET span == ShardSpan(n, totalShards)
      startIdx == shardIndex * span
      endIdx == IF shardIndex + 1 = totalShards THEN n - 1
                ELSE (shardIndex + 1) * span - 1
  IN {i \in 0..n-1 : i >= startIdx /\ i <= endIdx}

\* Included of ComputeHash, where hash[i] is the SHA-256 of the name of test i.
ComputeHash(n, hash, shardIndex, totalShards) ==
  {i \in 0..n-1 : hash[i] % totalShards = shardIndex}

-----------------------------------------------------------------------------
\* Every test is in exactly one shard: the tast commands that share a run, each
\* given its own shard index, run it once between them.
AlphaPartitions(n, totalShards) ==
  \A i \in 0..n-1 : \E s \in 0..totalShards-1 : \A t \in 0..totalShards-1 :
    i \in ComputeAlpha(n, t, totalShards) <=> t = s

HashPartitions(n, hash, totalShards) ==
  \A i \in 0..n-1 : \E s \in 0..totalShards-1 : \A t \in 0..totalShards-1 :
    i \in ComputeHash(n, hash, t, totalShards) <=> t = s
=============================================================================
