------------------------------ MODULE MCStorage ------------------------------
(* Small instances of the storage for TLC.  The keys share one shard; two   *)
(* requests (ask, ask2) collide on the first key, and the first of them has *)
(* a light and a heavy answer.                                              *)
EXTENDS Storage

CONSTANTS t1, t2, k1, k2, e1, e2, e3, e4, ask, ask2, other, light, heavy, alien, plain

MCShardOf     == (k1 :> 0) @@ (k2 :> 0)
MCKeyOf       == (e1 :> k1) @@ (e2 :> k1) @@ (e3 :> k1) @@ (e4 :> k2)
MCPrintOf     == (e1 :> ask) @@ (e2 :> ask) @@ (e3 :> ask2) @@ (e4 :> other)
MCAnswerTo    == (light :> ask) @@ (heavy :> ask) @@ (alien :> ask2) @@ (plain :> other)
MCWeight      == (light :> 1) @@ (heavy :> 2) @@ (alien :> 1) @@ (plain :> 1)
MCInitPayload == (e1 :> light) @@ (e2 :> heavy) @@ (e3 :> alien) @@ (e4 :> plain)
MCDeltas      == -2..2

ThreadSymmetry == Permutations(Threads)
=============================================================================
