------------------------------ MODULE MCLruList ------------------------------
(* Small instances of the pointer list for TLC: one address more than keys, *)
(* so that a freed address may be handed out again or left for another.     *)
EXTENDS LruList, TLC

AddrSymmetry == Permutations(Addrs)
=============================================================================
