-------------------------- MODULE MCSearchService --------------------------
(* Small instances of SearchService for TLC. *)
EXTENDS SearchService, TLC

CONSTANTS r1, r2, r3

\* Queries that differ in case share a cache key; the others have their own.
MCCacheKey == [q \in Queries |-> IF q = "ALICE" THEN "alice" ELSE q]

\* Nothing matched; more than a page, with a repeated record; a wide record.
MCMatchesRich == {<<>>, <<"x", "x", "y">>, <<"y", "wide">>}
MCMatchesLean == {<<"x", "y">>, <<"y">>}
MCMatchesOne  == {<<"x">>}

\* The requests are interchangeable in the runs that check safety only.
MCSymmetry == Permutations(Requests)
=============================================================================
