---------------------------- MODULE SearchLedger ----------------------------
(***************************************************************************)
(* What the search path promises to its clients, whatever statements,      *)
(* interleavings and faults it is made of: each request has at most one    *)
(* effect on the tables, all at once.  It publishes a search with its page *)
(* of records and its audit line, or files the records of an earlier       *)
(* search of the same key under its own target, or does nothing.  Success  *)
(* is answered only when the target holds the page of such a search, and a *)
(* refusal only by a request without effect.  Nothing is ever removed.     *)
(***************************************************************************)
EXTENDS Naturals, Sequences, FiniteSets

CONSTANTS
    Requests,   \* the search requests
    Asks,       \* what a request can ask, records with a target and a query
    CacheKey,   \* [queries -> keys]: the queries that share a search
    Statuses,   \* the answers other than success
    Refusals,   \* those that promise that nothing was stored
    Unasked     \* not an ask: the request has not arrived

VARIABLES
    asked,      \* what each request asks, Unasked before it arrives
    searches, rows, audit,      \* the tables
    outcome     \* the answer of each request, "none" before it

vars == <<asked, searches, rows, audit, outcome>>
tables == <<searches, rows, audit>>

Init ==
    /\ asked = [r \in Requests |-> Unasked]
    /\ searches = {} /\ rows = {} /\ audit = {}
    /\ outcome = [r \in Requests |-> "none"]

Open(r) == asked[r] # Unasked /\ outcome[r] = "none"
KeyOf(r) == CacheKey[asked[r].query]

\* The records a search fetched, and whether a target holds them all.
PageOf(s, table) ==
    {o.entry : o \in {p \in table : p.search = s.id /\ p.via = <<>>}}
Holds(t, s, table) ==
    PageOf(s, table) \subseteq
      {o.entry : o \in {p \in table : p.search = s.id /\ p.target = t}}

\* The requests that have put something in the tables.
Authors ==
    {s.id : s \in searches}
      \cup {o.search : o \in rows} \cup {a.by : a \in audit}
      \cup UNION {{o.via[i] : i \in DOMAIN o.via} : o \in rows}

Take(r) ==
    /\ asked[r] = Unasked
    /\ \E a \in Asks : asked' = [asked EXCEPT ![r] = a]
    /\ UNCHANGED tables

\* A request publishes its own search: row, page and audit line together.
PublishSearch(r) ==
    /\ Open(r) /\ r \notin Authors
    /\ \E s \in searches' :
         /\ searches' = searches \cup {s}
         /\ s.id = r /\ s.target = asked[r].target /\ s.query = asked[r].query
         /\ s.key = KeyOf(r)
         /\ audit' = audit \cup {[by |-> r, query |-> s.query, cost |-> s.cost]}
         /\ s.cost \in Nat \ {0}
    /\ rows \subseteq rows'
    /\ \A o \in rows' \ rows :
         /\ o.search = r /\ o.target = asked[r].target /\ o.via = <<>>
         /\ o.index \in 1 .. Cardinality(rows' \ rows)
    /\ asked' = asked

\* A request files the records of a search of its key under its target.
PublishCopies(r) ==
    /\ Open(r) /\ r \notin Authors
    /\ rows \subseteq rows' /\ rows' # rows
    /\ \E s \in searches :
         /\ s.key = KeyOf(r)
         /\ \A o \in rows' \ rows :
              /\ o.search = s.id /\ o.target = asked[r].target
              /\ o.entry \in PageOf(s, rows)
              /\ o.via[Len(o.via)] = r
         /\ Holds(asked[r].target, s, rows')
    /\ UNCHANGED <<asked, searches, audit>>

\* Success: a search of the key exists and the target holds its page.
Succeed(r) ==
    /\ Open(r)
    /\ \E s \in searches : s.key = KeyOf(r) /\ Holds(asked[r].target, s, rows)
    /\ outcome' = [outcome EXCEPT ![r] = "ok"]
    /\ UNCHANGED <<asked, tables>>

\* Failure; a refusal comes only from a request without effect.
GiveUp(r) ==
    /\ asked'[r] # Unasked /\ outcome[r] = "none"
    /\ \E status \in Statuses :
         /\ status \in Refusals => r \notin Authors
         /\ outcome' = [outcome EXCEPT ![r] = status]

\* The process dies: the requests in progress are never answered.
Drop ==
    /\ outcome' = [r \in Requests |-> IF Open(r) THEN "dropped" ELSE outcome[r]]
    /\ UNCHANGED <<asked, tables>>

Next ==
    \/ \E r \in Requests :
         \/ Take(r) /\ (UNCHANGED outcome \/ GiveUp(r))
         \/ (PublishSearch(r) \/ PublishCopies(r))
              /\ (UNCHANGED outcome \/ outcome' = [outcome EXCEPT ![r] = "500"])
         \/ Succeed(r)
         \/ GiveUp(r) /\ UNCHANGED <<asked, tables>>
    \/ Drop

Spec == Init /\ [][Next]_vars
=============================================================================
