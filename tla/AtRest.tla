------------------------------- MODULE AtRest -------------------------------
(***************************************************************************)
(* What the stored records are worth after a restart: the columns that     *)
(* EncryptedString encrypts, the key each process reads them with, and the *)
(* migration that made raw_json one of those columns.                      *)
(*                                                                         *)
(* A process has one key, read from its environment when it starts, and    *)
(* the database outlives it.  The release before the migration kept        *)
(* raw_json as text; it is known from the initial schema alone (external). *)
(* Searches are whole here: SearchService has shown that their statements  *)
(* add up to one effect.  A query stands for its cache key.                *)
(***************************************************************************)
CONSTANTS
    Keys,       \* the values of ENCRYPTION_KEY that decode to 32 bytes
    BadKeys,    \* those that do not
    Targets,    \* rows of the table targets
    Queries,    \* what is searched for
    Entries,    \* result records
    Secretive,  \* those of them with a value in a sensitive column
    Page,       \* [Queries -> SUBSET Entries]: what the upstream API returns
    Plain,      \* not a key: the cell holds its text as it is
    Null,       \* not a key: the cell holds nothing
    NoKey       \* not a key: no process runs

ASSUME AtRestAssumption ==
    /\ Keys \cap BadKeys = {}
    /\ {Plain, Null, NoKey} \cap (Keys \cup BadKeys) = {}
    /\ Plain # Null /\ Plain # NoKey /\ Null # NoKey
    /\ Secretive \subseteq Entries
    /\ Page \in [Queries -> SUBSET Entries]

VARIABLES
    release,    \* "text" or "encrypted": the deployed code and its schema
    process,    \* "up", "down" or "failed" (it could not start)
    key,        \* the key of the running process
    searches,   \* the queries with a row in the table searches
    rows,       \* result_records, each cell by what it is encrypted under
    answered,   \* history: the searches answered with success, and for whom
    last        \* the last answer: its target, its status, what it shows

vars == <<release, process, key, searches, rows, answered, last>>

-----------------------------------------------------------------------------
(* Cells *)

RowsUnder(q, t) == {o \in rows : o.search = q /\ o.target = t}
RowsOf(q) == {o \in rows : o.search = q}

\* The ORM decrypts every cell of a row it loads; NULL stays NULL, and text,
\* or the ciphertext of another key, does not pass the authentication.
Readable(o) ==
    /\ o.secret \in {key, Null}
    /\ release = "encrypted" => o.raw = key

Secret(e) == IF e \in Secretive THEN key ELSE Null

\* Slip: the column of raw_json has lost its type.
NewRowUntyped(q, t, e) ==
    [search |-> q, target |-> t, entry |-> e, raw |-> Plain,
     secret |-> Secret(e)]

NewRow(q, t, e) ==
    [search |-> q, target |-> t, entry |-> e,
     raw |-> IF release = "encrypted" THEN key ELSE Plain,
     secret |-> Secret(e)]

\* A copy holds what was read, encrypted again; text is copied as it is.
CopyOf(o, t) ==
    [o EXCEPT !.target = t,
              !.raw = IF release = "encrypted" THEN key ELSE @,
              !.secret = Secret(o.entry)]

Told(t, status, entries) ==
    [target |-> t, status |-> status, shows |-> entries]

-----------------------------------------------------------------------------
(* Processes and releases *)

Init ==
    /\ release \in {"text", "encrypted"}
    /\ process = "down" /\ key = NoKey
    /\ searches = {} /\ rows = {} /\ answered = {}
    /\ \E t \in Targets : last = Told(t, "none", {})

\* Slip: the cipher takes a key of any length.
StartUnchecked(k) ==
    /\ process # "up"
    /\ process' = "up" /\ key' \in BadKeys \cup {k}
    /\ UNCHANGED <<release, searches, rows, answered, last>>

\* create_app builds the cipher before anything else that can answer.
Start(k) ==
    /\ process # "up"
    /\ process' = "up" /\ key' = k
    /\ UNCHANGED <<release, searches, rows, answered, last>>

\* FieldCipher raises ValueError: there is no application.
StartFails ==
    /\ process # "up"
    /\ BadKeys # {}
    /\ process' = "failed"
    /\ UNCHANGED <<release, key, searches, rows, answered, last>>

\* An operator stops the process, or it crashes: what was open is rolled back.
Stop ==
    /\ process = "up"
    /\ process' = "down" /\ key' = NoKey
    /\ UNCHANGED <<release, searches, rows, answered, last>>

\* The migration alters the type of the column and none of its rows.
Upgrade ==
    /\ process # "up"
    /\ release = "text"
    /\ release' = "encrypted"
    /\ UNCHANGED <<process, key, searches, rows, answered, last>>

Downgrade ==
    /\ process # "up"
    /\ release = "encrypted"
    /\ release' = "text"
    /\ UNCHANGED <<process, key, searches, rows, answered, last>>

-----------------------------------------------------------------------------
(* Searches and readers of a running process *)

\* A new search: its page is stored under its target.
Miss(q, t) ==
    /\ process = "up"
    /\ q \notin searches
    /\ searches' = searches \cup {q}
    /\ rows' = rows \cup {NewRow(q, t, e) : e \in Page[q]}
    /\ answered' = answered \cup {<<q, t>>}
    /\ last' = Told(t, "ok", {})
    /\ UNCHANGED <<release, process, key>>

\* What a cached search loads: its rows under the target or, if there are none,
\* its rows under any target, to copy them.
Loaded(q, t) == IF RowsUnder(q, t) # {} THEN RowsUnder(q, t) ELSE RowsOf(q)

Copies(q, t) ==
    IF RowsUnder(q, t) # {} THEN {} ELSE {CopyOf(o, t) : o \in RowsOf(q)}

\* Slip: the rows that cannot be decrypted are left out of the copy.
HitSkipping(q, t) ==
    /\ process = "up"
    /\ q \in searches
    /\ rows' = rows \cup {c \in Copies(q, t) :
                 \E o \in Loaded(q, t) : o.entry = c.entry /\ Readable(o)}
    /\ answered' = answered \cup {<<q, t>>}
    /\ last' = Told(t, "ok", {})
    /\ UNCHANGED <<release, process, key, searches>>

Hit(q, t) ==
    /\ process = "up"
    /\ q \in searches
    /\ \A o \in Loaded(q, t) : Readable(o)
    /\ rows' = rows \cup Copies(q, t)
    /\ answered' = answered \cup {<<q, t>>}
    /\ last' = Told(t, "ok", {})
    /\ UNCHANGED <<release, process, key, searches>>

\* No route handles the error, and the search is not repeated upstream.
HitFails(q, t) ==
    /\ process = "up"
    /\ q \in searches
    /\ \E o \in Loaded(q, t) : ~ Readable(o)
    /\ last' = Told(t, "500", {})
    /\ UNCHANGED <<release, process, key, searches, rows, answered>>

\* Slip: the reader shows what it can decrypt.
ReadSkipping(t) ==
    /\ process = "up"
    /\ last' = Told(t, "read",
                    {o.entry : o \in {p \in rows : p.target = t /\ Readable(p)}})
    /\ UNCHANGED <<release, process, key, searches, rows, answered>>

\* records_for_target: the ledger, the profile, the graph and the exports.
Read(t) ==
    /\ process = "up"
    /\ \A o \in rows : o.target = t => Readable(o)
    /\ last' = Told(t, "read", {o.entry : o \in {p \in rows : p.target = t}})
    /\ UNCHANGED <<release, process, key, searches, rows, answered>>

ReadFails(t) ==
    /\ process = "up"
    /\ \E o \in rows : o.target = t /\ ~ Readable(o)
    /\ last' = Told(t, "500", {})
    /\ UNCHANGED <<release, process, key, searches, rows, answered>>

Next ==
    \/ \E k \in Keys : Start(k)
    \/ StartFails \/ Stop \/ Upgrade \/ Downgrade
    \/ \E q \in Queries, t \in Targets : Miss(q, t) \/ Hit(q, t) \/ HitFails(q, t)
    \/ \E t \in Targets : Read(t) \/ ReadFails(t)

Spec == Init /\ [][Next]_vars

-----------------------------------------------------------------------------
(* Properties *)

Row == [search : Queries, target : Targets, entry : Entries,
        raw : Keys \cup {Plain}, secret : Keys \cup {Null}]

\* Every variable keeps its shape; only a running process has a key.
TypeOK ==
    /\ release \in {"text", "encrypted"}
    /\ process \in {"up", "down", "failed"}
    /\ key \in Keys \cup {NoKey} /\ (process = "up" <=> key # NoKey)
    /\ searches \subseteq Queries /\ rows \subseteq Row
    /\ answered \subseteq Queries \X Targets
    /\ last \in [target : Targets, status : {"none", "ok", "read", "500"},
                 shows : SUBSET Entries]

\* The row is as the release stores it under the key.
StoredBy(o, k, form) ==
    /\ o.secret \in {k, Null}
    /\ o.raw = IF form = "encrypted" THEN k ELSE Plain

\* Neither a key change nor a release destroys what is stored: whatever restarts,
\* migrations, copies and failures came between, the rows of a search answered
\* with success are all there under the target, and all rows of a search, copies
\* included, are as one release stored them under one key, so that both together,
\* put back, read the whole of it (copy_records_for_target, add_records).  The
\* key alone is not enough: text cells need the release that wrote them.
StoredIsRecoverable ==
    /\ \A qt \in answered : \A e \in Page[qt[1]] :
         \E o \in RowsUnder(qt[1], qt[2]) : o.entry = e
    /\ \A q \in searches : \E k \in Keys, form \in {"text", "encrypted"} :
         \A o \in RowsOf(q) : StoredBy(o, k, form)

\* A reader is complete or it fails: it never shows a part of what earlier
\* searches were answered with (records_for_target loads every row).
AnsweredIsShown ==
    last.status = "read" =>
        \A qt \in answered : qt[2] = last.target => Page[qt[1]] \subseteq last.shows

\* "raw_json must be stored encrypted": text enters the column through the
\* release before the migration alone, and no restart, downgrade or copy turns
\* a record of an encrypted search back into text.
NoTextAdded ==
    [][\A o \in rows' \ rows :
          o.raw = Plain =>
              /\ release = "text"
              /\ \A p \in rows : p.search = o.search => p.raw = Plain]_vars

\* "ORM must decrypt on read" (tests/repositories/test_repositories.py): this
\* release decrypts every row of the table, at least while the key is the same.
StoredRowsReadable ==
    (process = "up" /\ release = "encrypted") => \A o \in rows : Readable(o)
=============================================================================
