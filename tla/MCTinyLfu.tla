----------------------------- MODULE MCTinyLfu -----------------------------
(* A small instance of the admission filter for TLC. *)
EXTENDS TinyLfu, TLC

CONSTANTS a, b, c

\* Three hashes of one shard that overlap in the door, each with a bit of its
\* own, and in the sketch.
OneShard   == (a :> 0) @@ (b :> 0) @@ (c :> 0)
MCProbes   == (a :> {0, 1}) @@ (b :> {1, 2, 4}) @@ (c :> {2, 3})
MCIndices  == (a :> <<0, 1>>) @@ (b :> <<1, 2>>) @@ (c :> <<2, 2>>)
=============================================================================
