# Verification of the DeHashed OSINT platform

TLA+ models of the platform's own logic, the TLC runs that check them on small
instances, and TLAPS proofs of the properties that matter most. Definitions
keep the names of the source; `PROJECT.json` maps each of them to its lines.

## The system

A FastAPI application over PostgreSQL. Analysts create investigations and
targets, search a paid upstream API for identifiers, and read the records found
for a target as a ledger, a profile, a graph, an export or a report.

| component | state it keeps | operations | what makes it correct | module |
|---|---|---|---|---|
| search path (`search_service`, `repositories/searches`, `api/v1/searches`, `search_ui`) | `searches`, `result_records`, `audit_log`; the session of each request | look up, copy on a hit; call, guard, three flushes on a miss; commit, answer | whole or absent, complete answers, free repeats, refusals without a trace | `SearchService`, `SearchLedger` |
| DeHashed client (`repositories/external/dehashed`) | loop counter of a call | post, back off, return, raise | one charge per call, every pause before giving up, every call ends | `DehashedClient`, `UpstreamCall` |
| engine, sessions and pool (`core/db`) | who holds a connection | take one with the first statement, give it back with the transaction | none lost, none exceeded, every request gets one or an error | `ConnectionPool` |
| encryption at rest (`core/crypto`, `models`, the migration of `raw_json`) | key of the process, key of each cell, release | start, stop, upgrade, downgrade, encrypt, decrypt | what was stored is destroyed by no key change and no release, a reader is complete or fails | `AtRest` |
| ledger, profile, graph (`records_for_target`, `correlation_service`, `get_graph`) | none: computed on read | deduplicate, merge, count, draw | tells the committed exposures, each once | `Correlation` |
| audit page (`list_audit`) | none: computed on read | newest 200 lines | what was read stays in its order | `Correlation` |
| investigations and targets | `users`, `investigations`, `targets` | create, list, show, report | what was announced can be used and is shown | `Workspace` |
| cache key and query builder | none | whitelist, quote, normalise, hash | which queries share a search | constants of `SearchService` |
| exports and report | none | read and lay out | as what they read | `Correlation`, `Workspace` (layout: no) |
| gate, wiring, configuration, logging, pivot suggestion, templates, scripts | none worth a model | | | not modelled |

How they interact: a route opens one session per request, which is one
transaction from its first statement to the commit in the route; concurrent
requests meet only in committed rows (READ COMMITTED), in the connections of the
pool and in the credits of the one upstream account. The search path calls the
client between two statements of an open transaction. Profile, graph, exports
and pages read what the search path committed. The database outlives the
process, its key and its release.

What is hard to test, line by line, is the `hazards` list of `PROJECT.json`:
the check-then-act of the cache and of the copy, charges that come before
refusals, failures between the flushes, a commit whose acknowledgement is lost,
retries, connections held across the upstream call, ids and audit lines that
become visible out of order, restarts with another key, rows older than a
migration, and the seed user.

## The modules

**`SearchService`** — a request is a process; `pc` is the statement it is about
to send. An action is one statement with what the code does about its result,
up to the next `await`:

| place | actions | code |
|---|---|---|
| idle | `Arrive`, `RejectField` | routes, `build_query` |
| lookup | `LookupHit`, `LookupMiss` | `find_by_cache_key` |
| existing, copy | `FindExisting`; `CopyRows`, `CopyRefused` | `copy_records_for_target` |
| call | `Serve`, `Refuse` (external) | the client's call, whole |
| reply | `ReceiveError`, `GuardRefuses`, `CreateSearch`, `CreateRefused` | exception mapping, credit guard, `create` |
| records, audit | `AddRecords`, `AddRefused`; `WriteAudit` | `add_records`, `write_audit` |
| commit | `Commit`, `LostCommit` | `session.commit()` |
| respond; ledger, profile | `Respond`; `ReadLedger`, `ReadProfile` | the JSON answer; the page's two reads |

`session[r]` holds what the transaction has flushed; it reaches the tables at
`Publish` and is dropped by every other end of the request, which is what
closing the session does. `DbError` fails any statement, the first `INSERT` after
the upstream call included (at `reply`, once the guard has passed); `Crash` ends
every request in progress. The upstream API charges one credit for each query it
runs; it may then answer, omit its balance (which reads as 0, `Unreported`) or
send something unusable. The `total` it reports is a field apart from the
records, 0 when it is omitted: any member of `Totals` comes with any records, and
`CostOf` is what the code makes of it. The account is a paid one whose owner may
buy credits between any two steps (`Recharge`). A row is known by its search, its position in the page
and the requests that copied it (`via`), so that equal records stay distinct
rows. Queries, contents and targets are members of small sets: `CacheKey` is the
digest of the normalised query, `Wide` what a column cannot hold, `Targets` the
targets that exist. The audit line's owner needs no case of its own: a target
has an investigation, whose owner is the same seed user (`Workspace`).
`charged` and `seen` are history.

**`SearchLedger`** is what clients may rely on: one effect per request, all at
once, and answers that tell it. **`UpstreamCall`** is the contract of one
upstream call. `SearchService` is shown to implement both (`LedgerSpec`,
`UpstreamSpec`), `DehashedClient` implements the second (`ContractSpec`): that is
why `SearchService` may treat the whole retry loop as one step.

**`ConnectionPool`** composes `SearchService` with the connections its
transactions run on. A request asks the pool before the first statement of a
transaction (`lookup`, and `ledger` for the page, which commits before it reads)
and gives the connection back with the commit, the rollback or the close; it
keeps it while it waits for the upstream API. `PoolTimeout` is the error of a
request that waited too long, which no route handles: a 500, also for a page
whose search is stored by then. `UnpooledSpec` says that the pool adds nothing
to the search path but statements that fail, so that what holds of
`SearchService` under database errors holds on any pool.

**`DehashedClient`** — the loop of `search`, for concurrent calls on one
account. A post comes back with what the API did (`Ran`: charged, even when the
answer is lost or unusable) or did not do (`NotRun`). `waited` records the pauses
by their exponent; pause *n* lasts `backoff_base * 2^n`.

**`AtRest`** — a row's two kinds of encrypted cells, by the key they are under:
`raw` (the column `raw_json`) and `secret` (the sensitive columns, NULL where a
record has none). A process has one key from its start to its end; the operator
may stop it, change the key, and migrate up or down. A row is loaded as a whole,
so one cell that does not pass the authentication fails the statement: that is
`Readable`, and the guard of `Hit` and `Read`. Searches are whole, which
`SearchService` shows. The release before the migration is not in the
repository; that it kept `raw_json` as text is known from the initial schema and
from the plan it was written to
(`docs/superpowers/plans/2026-06-18-dehashed-osint-platform.md:606`), and it is
external.

**`Correlation`** — the rows of one target in the order of their ids and the
audit lines in the order of their transactions' start, written by concurrent
transactions row by row, and a reader who is shown the ledger, the profile and
the audit page. A text field is the sequence of values it was joined from, so
that the joining of lists is modelled by what it does. The fields no profile
lists are one field, `other`. The graph is computed from the profile shown. What
is picked from a sequence (a column, the values of a list, the committed rows,
the lines of a page) is picked by the positions it has there (`Rank`, `Nth`,
`Pick`) and not by recursion, so that it can be reasoned about.

**`Workspace`** — creation of investigations and targets on both surfaces,
searches for targets that come into being meanwhile, and the readers that list
them or walk between them. `known` are the requests that had been answered with
success when a request arrived: what its client can have been told. A search
stands for what `SearchLedger` promises of one that finds records. `Users` is
what the installation has: the tests insert the seed user, the migrations do
not.

**`*Proofs`** hold the theorems: `SearchServiceProofs` the invariants of the
search path, `SearchAnswersProofs` what they say of its answers, its rows and
its upstream calls, `SearchLedgerProofs` the refinement of the ledger,
`ConnectionPoolProofs` what a pool of any size keeps and what it bounds; `DehashedClientProofs`, `CorrelationProofs`, `AtRestProofs` and
`WorkspaceProofs` are about the modules they are named for. **`MC*`** are the
small instances. Operators marked `Slip` are plausible mistakes in the code they
stand next to; each property fails when its slip replaces the original.

## The runs

| run | instance | shows |
|---|---|---|
| `search_faults` | 2 requests, 2 targets and a missing one, 4 queries (two of one key, one too wide, one disallowed), matches of 0, 2 and 3 records of which a page holds 2, totals 0 and 3, a balance of 2 that is bought up to 3, threshold 1, every fault | `TypeOK`, `SearchWholeOrAbsent`, `RepeatIsFree`, `EveryRowAsked`, `RefusedLeaveNoTrace`; `LedgerSpec`, `UpstreamSpec` |
| `search_race` | 3 requests, 2 targets, 2 queries of one key, pages of 1 and of 2 records, both surfaces, no faults | `AnsweredComplete`, `ViewConsistent` |
| `search_pooled` | 3 requests of the page on 2 connections, 2 targets, one query of 2 records, 2 credits that can be bought again, database errors, crashes | `SearchesPerKeyBounded`, `FilersBounded`, `ConnectionsReturn`, `TransactionsBounded`; `UnpooledSpec`, `EveryRequestAnswered` |
| `client` | 3 calls, 2 retries, 2 credits | `TypeOK`, `ChargedAtMostOnce`, `RateAfterAllRetries`; `ContractSpec`, `EveryCallEnds` |
| `profile` | 3 transactions, 3 rows of 5 kinds (repeated, unsourced, blank, differing in an unlisted field), an audit page of 2 lines | `TypeOK`, `ProfileTellsExposures`, `GraphIsStar`; `EvidenceGrows`, `ListsOnlyExtend`, `AuditOnlyMovesDown` |
| `workspace` | 3 requests, a name that fits and one that does not, every fault | `TypeOK`, `AnnouncedIsUsable`, `AnnouncedIsShown`, `ReportHasInvestigation` |
| `at_rest` | 2 keys and one that is none, 2 targets, 2 searches of 1 and 2 records, both releases | `TypeOK`, `StoredIsRecoverable`, `AnsweredIsShown`; `NoTextAdded` |

Runs that must find a violation; each is a place where the code does not do what
its comments or documents say, quoted under `findings`:

| run | the repository says | the code |
|---|---|---|
| `every_search_audited` | every search is written to the audit log | not one that was charged and refused by the guard |
| `copies_multiply` | existing rows are skipped to avoid duplicates | copies are copied again for a third target |
| `unparseable_body` | an unparseable body is a domain error | not one that is not JSON |
| `upgrade_readable` | `raw_json` is encrypted, the ORM decrypts it on read | the migration leaves the text in it, which no key decrypts |
| `fresh_install` | `users` is seeded | by the tests only |

**Where properties stop.** The code checks the cache before the upstream call and
fills it after, and it looks for rows under a target before it copies: requests
may both look before either commits, and then both spend and both store a search,
or both copy. What bounds the damage is the pool, since who has looked keeps its
connection until it commits, and after the first commit nobody misses any more:
`SearchesPerKeyBounded` and `FilersBounded`, with 5 connections and 10 of overflow
in the default engine (`db.py:17`), for each server process: the models have one,
as the repository's README starts it. `search_pooled` reaches both bounds with two
connections, so neither could be 1. `RepeatIsFree` is what one request can count
on: it does not pay for a search that was committed when it looked. `FilersBounded`
counts who files rows and not the rows, because copies are copied again
(`copies_multiply`), which one request at a time is enough for. A charged search
that fails later is charged again when it is repeated, on any pool.

A refused request leaves no search and no row; `RefusedLeaveNoTrace` allows it an
audit line if it was charged, which the documents promise and the code does not
write (`every_search_audited`). The balance stored with a search says nothing of
the account when the page shows it again: later searches make it too high,
credits bought meanwhile too low.

`AtRest` shows what a changed key costs. Rows of two keys under one target are
readable under neither, so a target that is searched again after a key change
cannot be read at all. A cached search under the old key answers every repeat of
its query with a 500 and never falls back to the API (`HitFails`).
`StoredIsRecoverable` says what is left: all rows of one search, copies included,
are as one release stored them under one key, so putting back that key and that
release reads them. The key alone does not, once text has been migrated
(`upgrade_readable`), and there may be no pair that reads two searches.

Other places where code and words part, visible in a definition of the models
and not given a run: the guard forgets its refusal, so the next miss is charged
again (`GuardRefuses`; the comment at `search_service.py:88` speaks of future
calls); the stored cost is the total that the API reports, or 1 if it reports
none, not the number of records returned (`CostOf`; comment at
`search_service.py:98`); server errors are not retried
(`RaiseApi`; the design document asks for 429/5xx); a password that one source
lists together with another is not compared alone (`FlattenToStr`,
`PwBreaches`; comment at `correlation_service.py:58`).

**Bounds.** `Requests` bounds how many requests a behaviour has, `MaxInFlight`
how many at a time. Two requests are enough for every two-party race; three let
one commit, one copy and one read interleave. Three targets are the least for a
copy of a copy. `PageSize` 2 with a match of 3 has records past the page, and
`Totals` 0 and 3 a total below and above what came with it. `InitBalance` 2 and
`MaxBalance` 3 with threshold 1 have charged calls on both sides of the guard, and
credits bought between two of them. `MaxBalance` bounds what is bought; the runs
whose properties no balance can touch give it no more than `InitBalance`.
`PoolLimit` 2 lets two of three requests race while the third waits and times out,
in both transactions of a page; the theorems cover every other pool.
`search_pooled` has one query because its questions are about requests that share
a key; spellings are in `search_race`. It has no API errors but the one of an
account that is empty, and no text too wide: those are in `search_faults`. In
`DehashedClient`, fewer credits than calls make an account run dry. `MaxRows` 3 lets each of three transactions write a row whose id lies
between those of others, and `AuditLimit` 2 pushes a line off the page (the code
shows 200). In `AtRest` two keys, two searches and two targets give a target
rows of both keys; queries stand for cache keys there. Runs that check no
liveness use the symmetry of requests or transactions; the refinements that
`search_faults` checks treat all requests alike. `profile` and `at_rest` never
stop, because their readers do not. No run turns deadlock checking off: `Quiet` and `AllEnded` are the
states in which there is nothing left to do.

**Fairness.** `PooledSpec` assumes weak fairness, for each request, of its next
statement or an answer of the pool: the event loop runs every coroutine that can
run, a post ends within its timeout, PostgreSQL answers a statement or fails it,
and the pool gives a waiter a connection or, after `pool_timeout`, an error.
Nothing is assumed of which one it gives: a request that is overtaken again and
again still ends, by the error. `DehashedClient!FairSpec` assumes the same of the
steps of each call (httpx ends a post within its timeout, `asyncio.sleep`
returns). Arrivals, faults and crashes are not fair. The other specifications
state none and are checked for safety.

## What is proved

For every number of requests, targets, queries, records, rows, transactions,
keys, connections and retries, every page size, length of the audit page, balance
and threshold, and every choice of faults:

| theorem | property | argument |
|---|---|---|
| `SearchServiceProofs!TypeCorrect` | `TypeOK` | inductive by itself |
| `RepeatsAreFree` | `RepeatIsFree` | `PathInv` |
| `AllOrNothing` | `SearchWholeOrAbsent` | `PathInv`, `WholeInv` |
| `SuccessIsComplete` | `AnsweredComplete` | `PathInv`, `WholeInv`, `CoverInv` |
| `SearchAnswersProofs!RowsAreAskedFor` | `EveryRowAsked` | itself, over `PathInv` |
| `RefusalsLeaveNoTrace` | `RefusedLeaveNoTrace` | `WholeInv`, `TraceInv` |
| `PagesAreConsistent` | `ViewConsistent` | `CoverInv`, `ViewInv` |
| `UsesOneCall` | `UpstreamSpec` | step by step, over `CallInv` |
| `SearchLedgerProofs!ImplementsLedger` | `LedgerSpec` | step by step, over `LedgerInv` |
| `ConnectionPoolProofs!NoConnectionLost` | `ConnectionsReturn` | `HoldInv` |
| `PoolBounds` | `TransactionsBounded` | `HoldInv`, `CountInv` |
| `ImplementsUnpooled` | `UnpooledSpec` | step by step |
| `PoolKeepsThePath` | `SearchWholeOrAbsent`, `AnsweredComplete`, `RepeatIsFree`, `EveryRowAsked`, `RefusedLeaveNoTrace`, `ViewConsistent`, on any pool | the theorems above, with database errors among the faults |
| `PoolImplementsLedger`, `PoolImplementsUpstream` | `LedgerSpec`, `UpstreamSpec`, on any pool | the same |
| `PoolBoundsSearches` | `SearchesPerKeyBounded` | `TableInv`, `HoldInv`, `CountInv`, `StoringInv` |
| `PoolBoundsCopies` | `FilersBounded` | the same with `FilingInv` |
| `DehashedClientProofs!TypeCorrect` | `TypeOK` | `RoundsInv` |
| `NeverChargedTwice` | `ChargedAtMostOnce` | `ChargeInv` |
| `BacksOffFully` | `RateAfterAllRetries` | `RoundsInv`, `PauseInv` |
| `ImplementsContract` | `ContractSpec` | step by step, over `ChargeInv` |
| `CorrelationProofs!TypeCorrect` | `TypeOK` | inductive by itself |
| `ProfilesAreTrue`, `GraphsAreStars` | `ProfileTellsExposures`, `GraphIsStar` | `ShownInv` |
| `EvidenceOnlyGrows`, `ReadersKeepTheirPlace` | `EvidenceGrows`, `ListsOnlyExtend` | `ShownInv`, step by step |
| `AuditKeepsItsOrder` | `AuditOnlyMovesDown` | `ShownInv`, `PageInv`, step by step |
| `WorkspaceProofs!TypeCorrect` | `TypeOK` | inductive by itself |
| `UsableOnceAnnounced`, `ShownOnceAnnounced`, `ReportsAreHeaded` | `AnnouncedIsUsable`, `AnnouncedIsShown`, `ReportHasInvestigation` | `RowsInv`, `Local` |
| `AtRestProofs!TypeCorrect` | `TypeOK` | inductive by itself |
| `KeyChangeDestroysNothing` | `StoredIsRecoverable` | `AnsweredInv`, `StoredInv` |
| `ReadersAreComplete` | `AnsweredIsShown` | `AnsweredInv` |
| `TextIsOld` | `NoTextAdded` | `StoredInv`, step by step |

None of the properties is inductive: they speak of tables and answers, and a
step out of an unreachable session could break them.

* `PathInv` follows a request: what its session holds at each place, that a hit
  has a committed search of its key, and that what it saw at the lookup is still
  all it saw when it spent. Its second part says that a committed search is what
  its request would write, and that this request will not write again. The proof
  separates what a request does to itself from the other requests, which stand
  by (`Bystander`, `PrivateStep`, `PublishStep`).
* `WholeInv` says of the tables what `SearchWholeOrAbsent` says of searches, in
  terms that a transaction keeps: rows no copy made, and audit lines, are those
  of committed searches, and every committed search has all of its own.
* `CoverInv` is the reason why one existing row is enough to skip the copy: any
  row of a search under a target comes with the whole page under that target,
  because a transaction publishes a page, or a copy of everything, at once.
* `TraceInv` says who can be named in the tables: requests that have committed,
  and after its commit a request is answered with success or an internal error,
  never with a refusal.
* `CopyInv` says that every row, and every copy a session is about to publish, is
  a record of the page of its search; with the parts above, `LedgerInv`, it makes
  each commit one step of the ledger and every other statement a stutter.
* `CallInv` says that no answer is there before the call, `ViewInv` that what a
  page has read is still there when it reads on.
* `HoldInv` says that whoever is in a transaction holds a connection; `CountInv`
  that there are no more of them than the pool has. `StoringInv` counts for each
  key who has stored it together with who has missed the cache and may still
  store it. The set grows only when a request misses, and then no search of the
  key is committed, so that all its members are in transactions and `CountInv`
  bounds them. `FilingInv` does the same for who has filed rows of a search under
  a target and who has found none there and may still file them. Both need `TableInv`, the invariants of the search
  path's own tables under a pool.
* The proofs for a pool of any size use the theorems themselves: a request that
  waits too long for a connection fails as it does by a database error, so every
  behaviour on a pool is one of the search path with `db` among its faults, and
  the theorems hold for every set of faults.
* `ShownInv` says that what a reader was shown is the ledger of rows that are
  committed and stay, and the profile of that ledger. What the profile of a
  ledger tells is a fact about its operators (`ProfileTells`): the places of a
  value in a column correspond one to one to the exposures that have it, so
  counting either gives the same number. Ranks and positions are each other's
  inverse and keep the order (`NthOfRank`, `RankOfNth`, `RankOrder`), which is
  where an induction over the sequence would otherwise be; committed rows that
  all follow those shown make the older ledger a prefix of the newer, and so
  each of its lists (`PickPrefix`, `ColumnPrefix`, `DedupPrefix`).
* `PageInv` says that a page shows committed lines of transactions that had
  started, and that a transaction starts once. A later page lists what came last
  first and everything above what it still lists, so what it keeps of an earlier
  page is a prefix of that (`KeptIsPrefix`).
* `RowsInv` says that every target has its investigation and that an id names one
  row; `Local` says of each request what it has checked, what its session holds,
  and what it was told or shown. Tables only grow, so none of that goes stale.
* `WholeInv` of `AtRest`: a search is stored whole, and so it is under every
  target it has rows under; `AnsweredInv` that it has them under every target it
  was answered for. `StoredInv`: one release stored all its rows under one key,
  since only a process that reads the original can copy it, and then it copies
  cell by cell. `SecretInv` says which cells are empty.
* `ChargeInv` ties the charges of a call to its last response; `RoundsInv` leaves
  a sleeping call a round; `PauseInv` counts its pauses.

Assumptions: `ConstantsAssumption`, `ClientAssumption`, `PoolAssumption`,
`EntriesAssumption`, `WorkspaceAssumption` and `AtRestAssumption`, which the runs
evaluate. They say what the constants are and nothing about the code.

**Model-checked only.** Liveness (`EveryRequestAnswered`, `EveryCallEnds`) is out
of the prover's reach, and the five runs that find a violation are instances.
Every other property of the runs is a theorem.

## What is not modelled

Text: quoting and hashing of queries, layout of exports, pages and reports, the
regular expressions of `identify_hash_type`, redaction of logs. Stateless parts:
the authorization gate, wiring, configuration. Code nobody calls: `add_selector`,
`suggest_pivot`. AES-GCM is what its authentication accepts. The isolation of
statements, the order of ids and the pool's queue are PostgreSQL's and
SQLAlchemy's. In `SearchService` the targets are those that exist from the start;
searches for targets that come into being are in `Workspace`. The first migration
runs once, on an empty database, and `alembic/env.py` only calls Alembic.

## Plan

Done, in this order: `SearchService`, `DehashedClient`, `SearchLedger` and
`UpstreamCall`, `Correlation`, `Workspace`; `ConnectionPool`, `AtRest`, the audit
page, searches in `Workspace`; the proofs listed above, those of `Correlation`
and of the search path on a pool last.

Left: nothing of the system's own state. The parts that are not modelled are text
and stateless checks; the two properties that are not proved are liveness.
