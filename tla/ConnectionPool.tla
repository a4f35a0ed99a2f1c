--------------------------- MODULE ConnectionPool ---------------------------
(***************************************************************************)
(* The search path with the connections it runs on.  A session takes a     *)
(* connection from the pool of the engine with the first statement of a    *)
(* transaction and keeps it until the transaction ends: a request that     *)
(* misses the cache holds its connection while it waits for the upstream   *)
(* API.  The page commits before it reads, so it asks the pool twice.      *)
(* The pool is SQLAlchemy's: it gives out a bounded number of connections, *)
(* lets the others wait, and raises an error if that takes too long.       *)
(***************************************************************************)
EXTENDS SearchService

CONSTANT
    PoolLimit   \* pool_size and max_overflow together

ASSUME PoolAssumption == PoolLimit \in Nat \ {0}

VARIABLE
    connections \* the requests whose session holds a connection

pooledVars == <<vars, connections>>

PooledInit == Init /\ connections = {}

-----------------------------------------------------------------------------
(* Connections come and go with transactions *)

\* Where the next statement opens a transaction, and where one is open.
Opening == {"lookup", "ledger"}
Opened == {"existing", "copy", "call", "reply", "records", "audit", "commit",
           "profile"}

Waits(r) == pc[r] \in Opening /\ r \notin connections
Exhausted == Cardinality(connections) >= PoolLimit

Connect(r) ==
    /\ Waits(r)
    /\ ~ Exhausted
    /\ connections' = connections \cup {r}
    /\ UNCHANGED vars

\* Slip: the page takes the pool's error for a failed search.
PoolTimeoutMapped(r) ==
    /\ Waits(r)
    /\ Exhausted
    /\ Fail(r, StatusOf(req[r].surface, "api"))
    /\ UNCHANGED connections

\* The wait is over without a connection: no route handles the error.
PoolTimeout(r) ==
    /\ Waits(r)
    /\ Exhausted
    /\ Fail(r, "500")
    /\ UNCHANGED connections

\* Slip: the session is closed by hand where a request succeeds.
ReturnOnSuccess(r) ==
    connections' = IF pc'[r] \notin Opened /\ outcome'[r] \in {"none", "ok"}
                   THEN connections \ {r} ELSE connections

\* Slip: the connection goes back before the upstream call.
ReturnEarly(r) ==
    connections' = IF pc'[r] \in Opened \ {"call"}
                   THEN connections ELSE connections \ {r}

\* Commit, rollback and close give the connection back, an exception or not.
Return(r) ==
    connections' = IF pc'[r] \in Opened THEN connections ELSE connections \ {r}

-----------------------------------------------------------------------------
(* The steps of SearchService on a connection *)

PooledStep(r) ==
    /\ pc[r] \in Opening => r \in connections
    /\ Step(r)
    /\ Return(r)

PooledFault(r) == (DbError(r) \/ LostCommit(r)) /\ Return(r)

PooledCrash == Crash /\ connections' = {}

PooledNext ==
    \/ \E r \in Requests :
         \/ (Arrive(r) \/ RejectField(r)) /\ UNCHANGED connections
         \/ Connect(r) \/ PoolTimeout(r)
         \/ PooledStep(r) \/ PooledFault(r)
    \/ Recharge /\ UNCHANGED connections
    \/ PooledCrash
    \/ Quiet /\ UNCHANGED connections

\* A coroutine that can run does, and the pool answers a request that waits:
\* with a connection, or with an error after pool_timeout.
PooledSpec ==
    /\ PooledInit /\ [][PooledNext]_pooledVars
    /\ \A r \in Requests :
         WF_pooledVars(PooledStep(r) \/ Connect(r) \/ PoolTimeout(r))

-----------------------------------------------------------------------------
(* Properties *)

\* No connection is lost: who holds one is in the middle of a transaction or
\* about to open one, so an idle server has all its connections back, however
\* its requests ended (the sessions of get_session).
ConnectionsReturn ==
    connections \subseteq {r \in Requests : pc[r] \in Opening \cup Opened}

\* No more requests are between their lookup and their commit than the pool has
\* connections, so no more calls to the upstream API are out (run_search calls
\* in the middle of the transaction that find_by_cache_key has opened).
TransactionsBounded ==
    Cardinality({r \in Requests : pc[r] \in Opened}) <= PoolLimit

\* However many requests ask for a key at once, no more of them pay for it and
\* store it than the pool has connections: who misses the cache keeps one until
\* it commits, and after the first commit nobody misses (run_search).
SearchesPerKeyBounded ==
    \A key \in {CacheKey[q] : q \in Queries} :
        Cardinality({s \in searches : s.key = key}) <= PoolLimit

\* Who filed a row: the request that copied it last, or the one that fetched it.
FilerOf(o) == IF o.via = <<>> THEN o.search ELSE o.via[Len(o.via)]

\* However many requests find nothing of a search under a target at once, no
\* more of them file its rows there than the pool has connections: after the
\* first commit the others find rows and skip (copy_records_for_target).
FilersBounded ==
    \A s \in searches, t \in TargetIds :
        Cardinality({FilerOf(o) : o \in RowsUnder(s.id, t)}) <= PoolLimit

Unpooled == INSTANCE SearchService WITH Faults <- Faults \cup {"db"}

\* The pool adds no behaviour but statements that fail: whatever holds of the
\* search path under database errors holds on a pool of any size.
UnpooledSpec == Unpooled!Spec
=============================================================================
