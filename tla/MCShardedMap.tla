---------------------------- MODULE MCShardedMap ----------------------------
(* A small instance of the sharded map for TLC: two shards, the first with  *)
(* two keys, the second with one; the first key has two entries of          *)
(* different weight, so that replacing one by the other moves the counters. *)
EXTENDS ShardedMap

CONSTANTS t1, t2, k1, k2, k3, e1, e2, e3, e4, small, big

MCShardOf     == (k1 :> 0) @@ (k2 :> 0) @@ (k3 :> 1)
MCKeyOf       == (e1 :> k1) @@ (e2 :> k1) @@ (e3 :> k2) @@ (e4 :> k3)
MCWeight      == (small :> 1) @@ (big :> 2)
MCInitPayload == (e1 :> small) @@ (e2 :> big) @@ (e3 :> big) @@ (e4 :> small)

ThreadSymmetry == Permutations(Threads)
=============================================================================
