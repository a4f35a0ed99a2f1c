-------------------------- MODULE MCConnectionPool --------------------------
(* Small instances of ConnectionPool for TLC. *)
EXTENDS ConnectionPool

CONSTANTS r1, r2, r3

\* Queries that differ in case share a cache key.
MCCacheKey == [q \in Queries |-> "alice"]
MCMatches == {<<"x", "y">>}
=============================================================================
