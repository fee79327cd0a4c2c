--------------------------- MODULE MCCacheBreaker ---------------------------
(* Three tasks share a breaker that opens after two failures.              *)
EXTENDS CacheBreaker
=============================================================================
