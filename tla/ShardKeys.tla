------------------------------ MODULE ShardKeys ------------------------------
(* The keys that a shard, its list and its refresh queue work with. *)

CONSTANT Keys  \* u64 keys
=============================================================================
