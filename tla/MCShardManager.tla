---------------------------- MODULE MCShardManager ----------------------------
(***************************************************************************)
(* Constants for model-checking ShardManager: two organizations on the one *)
(* shard of the default configuration, and ids nobody can serve.           *)
(***************************************************************************)
EXTENDS ShardManager

CONSTANTS r1, r2, a, b, c

TwoRequests == {r1, r2}
Id(parts, region, name) == [parts |-> parts, region |-> region, shard |-> 0, name |-> name]
SomeOrgs == {Id(3, 0, a), Id(3, 0, b), Id(3, NaN, c), Id(2, 0, c), Id(3, 1, c)}
=============================================================================
