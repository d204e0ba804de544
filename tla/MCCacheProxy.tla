---------------------------- MODULE MCCacheProxy ----------------------------
(* CacheProxy for TLC: requests and operators are interchangeable, and the   *)
(* run checks invariants only.                                              *)
EXTENDS CacheProxy, TLC

Symmetry == Permutations(Requests) \cup Permutations(Operators)
=============================================================================
