--------------------------- MODULE SearchService ---------------------------
(***************************************************************************)
(* The search path of the platform: what happens between a POST to         *)
(* /v1/targets/{id}/searches or /ui/targets/{id}/search and its answer.    *)
(*                                                                         *)
(* Every request runs in its own database session (READ COMMITTED, one     *)
(* transaction, committed by the route), so a request is a process whose   *)
(* steps are the statements it sends: each sees what is committed at that  *)
(* moment, and its own writes reach the tables at Commit and nowhere else. *)
(* The upstream search API is external: it charges one credit for each     *)
(* query it runs and may answer, refuse or garble.  The retry loop in      *)
(* front of it is module DehashedClient.                                   *)
(*                                                                         *)
(* A search is identified by the request that created it, a row by the     *)
(* position it had in the fetched page and the requests that copied it.    *)
(***************************************************************************)
EXTENDS Integers, Sequences, FiniteSets

CONSTANTS
    Requests,       \* the search requests of a behaviour
    TargetIds,      \* the target ids a URL can name
    Targets,        \* those of them that have a row in the table targets
    Queries,        \* the (field, value) pairs a client can send
    Disallowed,     \* those whose field is not in ALLOWED_FIELDS
    CacheKey,       \* [Queries -> keys]: the digest of the normalised query
    Contents,       \* what a result record can say (its _DEDUP_FIELDS)
    Wide,           \* the queries and contents a VARCHAR column cannot hold
    Matches,        \* the sequences of records the upstream API can match
    PageSize,       \* records in the one page a search fetches
    Totals,         \* what the API can report as the total, 0 if it omits it
    InitBalance,    \* credits of the account at the start
    MaxBalance,     \* bound: credits the owner buys up to
    Threshold,      \* credit_guard_threshold
    Surfaces,       \* the surfaces in use, a subset of {"v1", "ui"}
    Faults,         \* the faults that can happen, a subset of FaultKinds
    MaxInFlight,    \* bound: requests in progress at a time (1: sequential)
    NoSearch        \* not a request: no search answers the request yet

Errors == {"auth", "rate", "api", "raw"}    \* how a call can fail
FaultKinds == Errors \cup {"nobalance", "db", "crash"}

\* What a request asks: by which surface, for which target, with which query.
Ask == [surface : Surfaces, target : TargetIds, query : Queries]

\* What the constants are.
ConstantsOK ==
    /\ Targets \subseteq TargetIds /\ TargetIds # {}
    /\ Disallowed \subseteq Queries /\ Queries # {}
    /\ DOMAIN CacheKey = Queries
    /\ Matches \subseteq Seq(Contents)
    /\ PageSize \in Nat \ {0}
    /\ Totals \subseteq Nat
    /\ InitBalance \in Nat /\ MaxBalance \in Nat /\ Threshold \in Nat
    /\ Surfaces \subseteq {"v1", "ui"} /\ Surfaces # {}
    /\ Faults \subseteq FaultKinds
    /\ MaxInFlight \in Nat \ {0}
    /\ NoSearch \notin Requests /\ NoSearch \notin Ask

ASSUME ConstantsAssumption == ConstantsOK

VARIABLES
    searches,   \* committed rows of the table searches
    rows,       \* committed rows of the table result_records
    audit,      \* committed rows of the table audit_log
    balance,    \* credits left at the upstream API
    charged,    \* history: the requests whose call was charged
    pc,         \* where each request is
    req,        \* what each request asks: surface, target and query
    seen,       \* history: the searches committed when the request looked up
    source,     \* the search that answers the request
    reply,      \* what the upstream call of the request came back with
    session,    \* the uncommitted writes of the request's transaction
    view,       \* what the page of a "ui" request shows
    outcome     \* the answer of the request

tables  == <<searches, rows, audit>>
account == <<balance, charged>>
vars == <<searches, rows, audit, balance, charged, pc, req, seen, source,
          reply, session, view, outcome>>

-----------------------------------------------------------------------------
(* Data *)

KeyOf(r) == CacheKey[req[r].query]

NoWrites == [searches |-> {}, rows |-> {}, audit |-> {}]

\* The entries of the response: its first page of the records it matched.
FirstPage(matches) ==
    [i \in 1 .. (IF Len(matches) <= PageSize THEN Len(matches) ELSE PageSize)
       |-> matches[i]]

\* The cost recorded is the total the response reports, a field of its own:
\* one that is omitted reads as 0 and costs 1, whatever entries came with it.
CostOf(total) == IF total >= 1 THEN total ELSE 1

NewSearch(r) ==
    [id |-> r, target |-> req[r].target, query |-> req[r].query,
     key |-> KeyOf(r), cost |-> CostOf(reply[r].total),
     balance |-> reply[r].balance]

NewRow(r, i) ==
    [search |-> r, index |-> i, via |-> <<>>, target |-> req[r].target,
     entry |-> FirstPage(reply[r].matches)[i]]

NewRows(r) == {NewRow(r, i) : i \in DOMAIN FirstPage(reply[r].matches)}

NewAudit(r) ==
    [by |-> r, query |-> req[r].query, cost |-> CostOf(reply[r].total)]

\* Slip: the copy is filed under the request's own search.
CopyOfRefiled(o, r) ==
    [search |-> r, index |-> o.index, via |-> Append(o.via, r),
     target |-> req[r].target, entry |-> o.entry]

CopyOf(o, r) ==
    [search |-> o.search, index |-> o.index, via |-> Append(o.via, r),
     target |-> req[r].target, entry |-> o.entry]

RowsOf(s) == {o \in rows : o.search = s}
RowsUnder(s, t) == {o \in rows : o.search = s /\ o.target = t}

\* records_for_target and what build_profile merges: each content once.
ContentsOf(t) == {o.entry : o \in {p \in rows : p.target = t}}

\* Slip: the status table is forgotten.
StatusOfUnmapped(surface, error) == IF surface = "ui" THEN "fragment" ELSE error

\* The answer a surface gives to a domain error; the page catches them all.
StatusOf(surface, error) ==
    IF surface = "ui" THEN "fragment"
    ELSE IF error = "credits" THEN "402"
    ELSE IF error = "rate" THEN "503"
    ELSE "502"

-----------------------------------------------------------------------------
(* Initial state *)

Init ==
    /\ searches = {} /\ rows = {} /\ audit = {}
    /\ balance = InitBalance
    /\ charged = {}
    /\ pc = [r \in Requests |-> "idle"]
    /\ req = [r \in Requests |-> CHOOSE a \in Ask : TRUE]
    /\ seen = [r \in Requests |-> {}]
    /\ source = [r \in Requests |-> NoSearch]
    /\ reply = [r \in Requests |->
                  [kind |-> "none", matches |-> <<>>, total |-> 0,
                   balance |-> InitBalance]]
    /\ session = [r \in Requests |-> NoWrites]
    /\ view = [r \in Requests |-> [ledger |-> {}, profile |-> {}]]
    /\ outcome = [r \in Requests |-> "none"]

-----------------------------------------------------------------------------
(* Steps every request is made of *)

InFlight == {r \in Requests : pc[r] \notin {"idle", "done"}}

At(r, from) == pc[r] = from
GoTo(r, to) == pc' = [pc EXCEPT ![r] = to]

\* The request is answered; its session closes and takes its writes with it.
Answer(r, status) ==
    /\ GoTo(r, "done")
    /\ outcome' = [outcome EXCEPT ![r] = status]
    /\ session' = [session EXCEPT ![r] = NoWrites]

\* An answer that leaves the database, the account and the view alone.
Fail(r, status) ==
    /\ Answer(r, status)
    /\ UNCHANGED <<tables, account, req, seen, source, reply, view>>

-----------------------------------------------------------------------------
(* A request arrives *)

Arrive(r) ==
    /\ At(r, "idle")
    /\ Cardinality(InFlight) < MaxInFlight
    /\ \E a \in Ask :
         /\ a.query \notin Disallowed
         /\ req' = [req EXCEPT ![r] = a]
    /\ GoTo(r, "lookup")
    /\ UNCHANGED <<tables, account, seen, source, reply, session, view,
                   outcome>>

\* build_query raises ValueError: mapped by /v1, not caught by the page.
RejectField(r) ==
    /\ At(r, "idle")
    /\ Cardinality(InFlight) < MaxInFlight
    /\ \E a \in Ask :
         /\ a.query \in Disallowed
         /\ req' = [req EXCEPT ![r] = a]
         /\ Answer(r, IF a.surface = "v1" THEN "422" ELSE "500")
    /\ UNCHANGED <<tables, account, seen, source, reply, view>>

-----------------------------------------------------------------------------
(* The cache: find_by_cache_key, then copy_records_for_target on a hit *)

Look(r) ==
    /\ At(r, "lookup")
    /\ seen' = [seen EXCEPT ![r] = {s.id : s \in searches}]
    /\ UNCHANGED <<tables, account, req, reply, session, view, outcome>>

\* Slip: the lookup forgets its WHERE clause.
LookupHitAny(r) ==
    /\ Look(r)
    /\ \E s \in searches : source' = [source EXCEPT ![r] = s.id]
    /\ GoTo(r, "existing")

\* LIMIT 1 without an order: any row with the key may be the one returned.
LookupHit(r) ==
    /\ Look(r)
    /\ \E s \in searches :
         /\ s.key = KeyOf(r)
         /\ source' = [source EXCEPT ![r] = s.id]
    /\ GoTo(r, "existing")

\* Slip: the lookup compares queries before they are normalised.
LookupMissRaw(r) ==
    /\ Look(r)
    /\ \A s \in searches : s.query # req[r].query
    /\ GoTo(r, "call")
    /\ UNCHANGED source

LookupMiss(r) ==
    /\ Look(r)
    /\ \A s \in searches : s.key # KeyOf(r)
    /\ GoTo(r, "call")
    /\ UNCHANGED source

\* Slip: any row of the search will do, whatever its target.
FindExistingAnywhere(r) ==
    /\ At(r, "existing")
    /\ GoTo(r, IF RowsOf(source[r]) # {} THEN "commit" ELSE "copy")
    /\ UNCHANGED <<tables, account, req, seen, source, reply, session, view,
                   outcome>>

\* Slip: the copy is made without looking.
FindExistingNever(r) ==
    /\ At(r, "existing")
    /\ GoTo(r, "copy")
    /\ UNCHANGED <<tables, account, req, seen, source, reply, session, view,
                   outcome>>

\* First statement of the copy: does the target have rows of the search?
FindExisting(r) ==
    /\ At(r, "existing")
    /\ GoTo(r, IF RowsUnder(source[r], req[r].target) # {}
               THEN "commit" ELSE "copy")
    /\ UNCHANGED <<tables, account, req, seen, source, reply, session, view,
                   outcome>>

\* Second statement: every row of the search, under whatever target it is.
CopyRows(r) ==
    /\ At(r, "copy")
    /\ RowsOf(source[r]) = {} \/ req[r].target \in Targets
    /\ session' = [session EXCEPT ![r].rows =
                     {CopyOf(o, r) : o \in RowsOf(source[r])}]
    /\ GoTo(r, "commit")
    /\ UNCHANGED <<tables, account, req, seen, source, reply, view, outcome>>

\* The foreign key of result_records.target_id refuses the copies.
CopyRefused(r) ==
    /\ At(r, "copy")
    /\ RowsOf(source[r]) # {} /\ req[r].target \notin Targets
    /\ Fail(r, "500")

-----------------------------------------------------------------------------
(* The upstream API (external), and what the request makes of its answer *)

\* A response that omits its balance reads as one of 0.
Unreported == IF "nobalance" \in Faults THEN {0} ELSE {}

\* The query runs and is charged; its answer may still be unusable.
Serve(r) ==
    /\ At(r, "call")
    /\ balance > 0
    /\ balance' = balance - 1
    /\ charged' = charged \cup {r}
    /\ \/ \E m \in Matches, n \in Totals, left \in {balance - 1} \cup Unreported :
            reply' = [reply EXCEPT ![r] =
              [kind |-> "entries", matches |-> m, total |-> n, balance |-> left]]
       \/ \E kind \in Faults \cap {"api", "raw"} :
            reply' = [reply EXCEPT ![r].kind = kind]
    /\ GoTo(r, "reply")
    /\ UNCHANGED <<tables, req, seen, source, session, view, outcome>>

\* The query does not run: bad key, rate limit, server error, no connection.
Refuse(r) ==
    /\ At(r, "call")
    /\ \E kind \in Errors :
         /\ kind \in Faults \/ (balance = 0 /\ kind = "auth")
         /\ reply' = [reply EXCEPT ![r].kind = kind]
    /\ GoTo(r, "reply")
    /\ UNCHANGED <<tables, account, req, seen, source, session, view, outcome>>

\* The owner buys credits: the account grows between any two steps.
Recharge ==
    /\ \E b \in balance + 1 .. MaxBalance : balance' = b
    /\ UNCHANGED <<tables, charged, pc, req, seen, source, reply, session, view,
                   outcome>>

\* Slip: the service calls again after a domain error.
ReceiveErrorRetried(r) ==
    /\ At(r, "reply")
    /\ reply[r].kind \in Errors
    /\ IF reply[r].kind = "raw"
       THEN Fail(r, "500")
       ELSE /\ GoTo(r, "call")
            /\ UNCHANGED <<tables, account, req, seen, source, reply, session,
                           view, outcome>>

\* Domain errors are mapped; anything else leaves the route as a 500.
ReceiveError(r) ==
    /\ At(r, "reply")
    /\ reply[r].kind \in Errors
    /\ Fail(r, IF reply[r].kind = "raw" THEN "500"
               ELSE StatusOf(req[r].surface, reply[r].kind))

\* Slip: what was paid for is stored, and the request refused nevertheless.
GuardRefusesStored(r) ==
    /\ At(r, "reply")
    /\ reply[r].kind = "entries"
    /\ reply[r].balance <= Threshold
    /\ searches' = searches \cup {NewSearch(r)}
    /\ rows' = rows \cup NewRows(r)
    /\ audit' = audit \cup {NewAudit(r)}
    /\ Answer(r, StatusOf(req[r].surface, "credits"))
    /\ UNCHANGED <<account, req, seen, source, reply, view>>

\* The guard sees the balance after the charge: nothing is persisted.
GuardRefuses(r) ==
    /\ At(r, "reply")
    /\ reply[r].kind = "entries"
    /\ reply[r].balance <= Threshold
    /\ Fail(r, StatusOf(req[r].surface, "credits"))

-----------------------------------------------------------------------------
(* Persisting a new search: three flushes in one transaction *)

GuardPasses(r) ==
    /\ At(r, "reply")
    /\ reply[r].kind = "entries"
    /\ reply[r].balance > Threshold

\* The row of searches fits its columns and its foreign key.
Storable(r) == req[r].target \in Targets /\ req[r].query \notin Wide

CreateSearch(r) ==
    /\ GuardPasses(r)
    /\ Storable(r)
    /\ session' = [session EXCEPT ![r].searches = {NewSearch(r)}]
    /\ source' = [source EXCEPT ![r] = r]
    /\ GoTo(r, "records")
    /\ UNCHANGED <<tables, account, req, seen, reply, view, outcome>>

CreateRefused(r) ==
    /\ GuardPasses(r)
    /\ ~ Storable(r)
    /\ Fail(r, "500")

\* Slip: the search is committed before its records are added.
AddRecordsLate(r) ==
    /\ At(r, "records")
    /\ \A o \in NewRows(r) : o.entry \notin Wide
    /\ searches' = searches \cup session[r].searches
    /\ session' = [session EXCEPT ![r].rows = NewRows(r)]
    /\ GoTo(r, "audit")
    /\ UNCHANGED <<rows, audit, account, req, seen, source, reply, view, outcome>>

AddRecords(r) ==
    /\ At(r, "records")
    /\ \A o \in NewRows(r) : o.entry \notin Wide
    /\ session' = [session EXCEPT ![r].rows = NewRows(r)]
    /\ GoTo(r, "audit")
    /\ UNCHANGED <<tables, account, req, seen, source, reply, view, outcome>>

AddRefused(r) ==
    /\ At(r, "records")
    /\ \E o \in NewRows(r) : o.entry \in Wide
    /\ Fail(r, "500")

WriteAudit(r) ==
    /\ At(r, "audit")
    /\ session' = [session EXCEPT ![r].audit = {NewAudit(r)}]
    /\ GoTo(r, "commit")
    /\ UNCHANGED <<tables, account, req, seen, source, reply, view, outcome>>

-----------------------------------------------------------------------------
(* Commit and answer *)

Publish(r) ==
    /\ At(r, "commit")
    /\ searches' = searches \cup session[r].searches
    /\ rows' = rows \cup session[r].rows
    /\ audit' = audit \cup session[r].audit

Commit(r) ==
    /\ Publish(r)
    /\ session' = [session EXCEPT ![r] = NoWrites]
    /\ GoTo(r, IF req[r].surface = "v1" THEN "respond" ELSE "ledger")
    /\ UNCHANGED <<account, req, seen, source, reply, view, outcome>>

\* /v1 answers with the search it was given, new or cached.
Respond(r) ==
    /\ At(r, "respond")
    /\ Fail(r, "ok")

\* The page reads the rows of the target twice, in two statements.
ReadLedger(r) ==
    /\ At(r, "ledger")
    /\ view' = [view EXCEPT ![r].ledger = ContentsOf(req[r].target)]
    /\ GoTo(r, "profile")
    /\ UNCHANGED <<tables, account, req, seen, source, reply, session, outcome>>

\* Slip: the profile is built from the records of the search alone.
ReadProfileOfSearch(r) ==
    /\ At(r, "profile")
    /\ view' = [view EXCEPT ![r].profile =
                  {o.entry : o \in RowsUnder(source[r], req[r].target)}]
    /\ Answer(r, "ok")
    /\ UNCHANGED <<tables, account, req, seen, source, reply>>

ReadProfile(r) ==
    /\ At(r, "profile")
    /\ view' = [view EXCEPT ![r].profile = ContentsOf(req[r].target)]
    /\ Answer(r, "ok")
    /\ UNCHANGED <<tables, account, req, seen, source, reply>>

-----------------------------------------------------------------------------
(* Faults of the database and of the process *)

\* A statement fails (or no connection is free): the route answers 500.
DbError(r) ==
    /\ "db" \in Faults
    /\ \/ pc[r] \in {"lookup", "existing", "copy", "records", "audit", "commit",
                     "ledger", "profile"}
       \/ GuardPasses(r)
    /\ Fail(r, "500")

\* The commit takes effect but its acknowledgement does not arrive.
LostCommit(r) ==
    /\ "db" \in Faults
    /\ Publish(r)
    /\ Answer(r, "500")
    /\ UNCHANGED <<account, req, seen, source, reply, view>>

\* The process dies: open transactions are rolled back, clients get nothing.
Crash ==
    /\ "crash" \in Faults
    /\ InFlight # {}
    /\ pc' = [r \in Requests |-> IF r \in InFlight THEN "done" ELSE pc[r]]
    /\ outcome' = [r \in Requests |->
                     IF r \in InFlight THEN "dropped" ELSE outcome[r]]
    /\ session' = [r \in Requests |-> NoWrites]
    /\ UNCHANGED <<tables, account, req, seen, source, reply, view>>

-----------------------------------------------------------------------------
(* Specification *)

\* The steps of a request that its coroutine takes by itself.
Step(r) ==
    \/ LookupHit(r) \/ LookupMiss(r)
    \/ FindExisting(r) \/ CopyRows(r) \/ CopyRefused(r)
    \/ Serve(r) \/ Refuse(r) \/ ReceiveError(r) \/ GuardRefuses(r)
    \/ CreateSearch(r) \/ CreateRefused(r)
    \/ AddRecords(r) \/ AddRefused(r) \/ WriteAudit(r)
    \/ Commit(r) \/ Respond(r) \/ ReadLedger(r) \/ ReadProfile(r)

AllDone == \A r \in Requests : pc[r] = "done"

\* No request is left: the server waits, which is not a deadlock.
Quiet == AllDone /\ UNCHANGED vars

Next ==
    \/ \E r \in Requests :
         Arrive(r) \/ RejectField(r) \/ Step(r) \/ DbError(r) \/ LostCommit(r)
    \/ Recharge
    \/ Crash
    \/ Quiet

Spec == Init /\ [][Next]_vars

-----------------------------------------------------------------------------
(* Type invariant *)

Search == [id : Requests, target : TargetIds, query : Queries,
           key : {CacheKey[q] : q \in Queries}, cost : Nat, balance : Nat]
Row == [search : Requests, index : Nat, via : Seq(Requests),
        target : TargetIds, entry : Contents]
AuditLine == [by : Requests, query : Queries, cost : Nat]

Places == {"idle", "lookup", "existing", "copy", "call", "reply", "records",
           "audit", "commit", "respond", "ledger", "profile", "done"}
Refusals == {"402", "422", "502", "503", "fragment"}
Statuses == Refusals \cup {"none", "ok", "500", "dropped"}

\* Every variable keeps its shape: what the tables, the sessions, the calls
\* and the answers of the routes can hold.
TypeOK ==
    /\ searches \subseteq Search /\ rows \subseteq Row
    /\ audit \subseteq AuditLine
    /\ balance \in Nat /\ charged \subseteq Requests
    /\ pc \in [Requests -> Places]
    /\ req \in [Requests -> Ask]
    /\ seen \in [Requests -> SUBSET Requests]
    /\ source \in [Requests -> Requests \cup {NoSearch}]
    /\ reply \in [Requests -> [kind : Errors \cup {"none", "entries"},
                               matches : Seq(Contents), total : Nat,
                               balance : Nat]]
    /\ session \in [Requests -> [searches : SUBSET Search, rows : SUBSET Row,
                                 audit : SUBSET AuditLine]]
    /\ view \in [Requests -> [ledger : SUBSET Contents,
                              profile : SUBSET Contents]]
    /\ outcome \in [Requests -> Statuses]

-----------------------------------------------------------------------------
(* Safety *)

PageOf(s) == FirstPage(reply[s.id].matches)

\* A committed search comes with exactly the rows of the page it fetched,
\* under its own target, and exactly one audit line that repeats its query and
\* its cost; no row and no audit line outlives a search that was not committed
\* (search_service.run_search with the commit of the routes).
SearchWholeOrAbsent ==
    /\ \A s \in searches :
         /\ {a \in audit : a.by = s.id} =
              {[by |-> s.id, query |-> s.query, cost |-> s.cost]}
         /\ {o \in RowsOf(s.id) : o.via = <<>>} =
              {[search |-> s.id, index |-> i, via |-> <<>>,
                target |-> s.target, entry |-> PageOf(s)[i]] :
                  i \in DOMAIN PageOf(s)}
    /\ \A o \in rows : \E s \in searches : s.id = o.search
    /\ \A a \in audit : \E s \in searches : s.id = a.by

\* A client told of success finds under the target it named every record of
\* the page of the search that answers it, and that search has the key of its
\* query, whichever requests fetched and copied it meanwhile
\* (copy_records_for_target on a hit, add_records on a miss).
AnsweredComplete ==
    \A r \in Requests :
        outcome[r] = "ok" =>
            \E s \in searches :
                /\ s.id = source[r] /\ s.key = KeyOf(r)
                /\ \A i \in DOMAIN PageOf(s) :
                     \E o \in RowsUnder(s.id, req[r].target) :
                         o.entry = PageOf(s)[i]

\* No credit is spent on a query whose search was committed when the request
\* looked it up: two searches of one key are possible only between requests
\* that both looked before either committed (find_by_cache_key).
RepeatIsFree ==
    \A r \in charged : \A s \in searches :
        s.key = KeyOf(r) => s.id \notin seen[r]

\* Every record filed under a target was asked for that target: some request
\* named the target and a query of the same key as the record's search.
EveryRowAsked ==
    \A o \in rows : \E r \in Requests, s \in searches :
        /\ pc[r] # "idle" /\ req[r].target = o.target
        /\ s.id = o.search /\ s.key = KeyOf(r)

\* An answer that names a failure of the search (a mapped status of /v1 or
\* the error fragment of the page) leaves no search and no row of the request:
\* "the result is NOT persisted in this case" (run_search).  Only a request
\* that was charged may be on the audit log for all that.
RefusedLeaveNoTrace ==
    \A r \in Requests :
        outcome[r] \in Refusals =>
            /\ \A s \in searches : s.id # r
            /\ \A o \in rows : o.search # r /\ \A i \in DOMAIN o.via : o.via[i] # r
            /\ \A a \in audit : a.by = r => r \in charged

\* The results page shows at least the page of the search it answers with, and
\* its profile, read after its ledger, knows every record the ledger lists.
ViewConsistent ==
    \A r \in Requests :
        (outcome[r] = "ok" /\ req[r].surface = "ui") =>
            /\ \A s \in searches : s.id = source[r] =>
                 \A i \in DOMAIN PageOf(s) : PageOf(s)[i] \in view[r].ledger
            /\ view[r].ledger \subseteq view[r].profile

-----------------------------------------------------------------------------
(* What the repository says and the code does not do *)

\* A target holds each record of a search once: "Rows that already exist (same
\* search_id + target_id) are skipped to avoid duplicates"
\* (copy_records_for_target).
NoDuplicateRows ==
    \A o1, o2 \in rows :
        (o1.search = o2.search /\ o1.target = o2.target /\ o1.index = o2.index)
            => o1 = o2

\* "Every search is written to the audit log": every search that was run and
\* charged, once its request is answered (templates/authorize.html).
EverySearchAudited ==
    \A r \in charged : pc[r] = "done" => \E a \in audit : a.by = r

-----------------------------------------------------------------------------
(* Liveness *)

\* Every request that arrives is answered, whatever the upstream API answers
\* and however the requests interleave and wait for connections.
EveryRequestAnswered ==
    \A r \in Requests : pc[r] # "idle" ~> pc[r] = "done"

-----------------------------------------------------------------------------
(* Refinement *)

Ledger == INSTANCE SearchLedger WITH
    Asks <- Ask,
    Statuses <- Statuses \ {"none", "ok"},
    Unasked <- NoSearch,
    asked <- [r \in Requests |-> IF pc[r] = "idle" THEN NoSearch ELSE req[r]]

\* The statements and faults of the search path add up to what SearchLedger
\* promises: one effect per request, all at once, and answers that tell it.
LedgerSpec == Ledger!Spec

Upstream == INSTANCE UpstreamCall WITH
    Calls <- Requests,
    result <- [r \in Requests |-> reply[r].kind]

\* The search path uses the upstream API within the contract that the client's
\* retry loop provides: one call per request, charged once at most.
UpstreamSpec == Upstream!Spec
=============================================================================
