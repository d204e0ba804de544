--------------------------- MODULE MCRefreshCycle ---------------------------
(* Two rules.  That of k1 has no TTL of its own and coefficient zero: the     *)
(* scan may pick it before it has expired.  That of k2 has a longer TTL than  *)
(* the global one and coefficient one: to a hit it has expired before the     *)
(* scan may pick it.                                                          *)
EXTENDS RefreshCycle, TLC

CONSTANTS k1, k2

MCRuleTtl == k1 :> 0 @@ k2 :> 3
MCMinStale == k1 :> 0 @@ k2 :> 3
=============================================================================
