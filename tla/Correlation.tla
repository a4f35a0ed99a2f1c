---------------------------- MODULE Correlation ----------------------------
(***************************************************************************)
(* What is read of a target: its ledger of records, the profile that       *)
(* CorrelationService computes from it, and the pivot graph drawn from the *)
(* profile; and the audit page.  All are computed when they are read, from *)
(* the rows that are committed at that moment, in the order of their ids   *)
(* or, the audit lines, of their timestamps.  Rows come from transactions  *)
(* of concurrent searches: an id is taken when the row is flushed, a       *)
(* timestamp when the transaction starts, and both are seen when it        *)
(* commits, so rows may appear before rows that were read already.         *)
(*                                                                         *)
(* A field of a record is the sequence of the values it was joined from:   *)
(* <<"a", "b">> stands for the text "a, b" and <<>> for NULL.              *)
(***************************************************************************)
EXTENDS Naturals, SequencesExt

CONSTANTS
    Writers,        \* transactions that add rows under the target
    Entries,        \* records as the upstream API sends them
    MaxRows,        \* bound: ids handed out
    AuditLimit      \* the lines of the audit page: limit of list_audit

\* The fields a profile lists, and the rest of _DEDUP_FIELDS as one field.
Listed == {"email", "username", "password", "ip_address"}
Fields == Listed \cup {"database_name", "other"}

Null == <<>>

ASSUME EntriesAssumption ==
    /\ \A e \in Entries : DOMAIN e = Fields /\ \A f \in Fields : e[f] \in Seq(STRING)
    /\ MaxRows \in Nat /\ AuditLimit \in Nat \ {0}

VARIABLES
    slots,      \* rows in the order of their ids: writer and record
    status,     \* of each transaction: idle, open, committed, rolled back
    starts,     \* the transactions in the order in which they started
    audited,    \* those that have written their audit line
    shown       \* what the last reader was shown

vars == <<slots, status, starts, audited, shown>>

-----------------------------------------------------------------------------
(* Lists in order *)

Rank(I, i) == Cardinality({j \in I : j <= i})
Nth(I, n) == CHOOSE i \in I : Rank(I, i) = n

\* The elements of a sequence at some of its positions, in their order.
Pick(s, I) == [n \in 1 .. Cardinality(I) |-> s[Nth(I, n)]]

\* Each element once, where it came first.
Firsts(s) == {i \in DOMAIN s : \A j \in 1 .. i - 1 : s[j] # s[i]}
Unique(s) == Pick(s, Firsts(s))

Column(field, records) == [i \in DOMAIN records |-> records[i][field]]

-----------------------------------------------------------------------------
(* Reading *)

\* Slip: blanks are joined like values.
FlattenToStrBlank(values) == values

\* A list of values becomes one text; blanks are dropped, none is NULL.
FlattenToStr(values) == Pick(values, {i \in DOMAIN values : values[i] # ""})

RawEntry(e) == [f \in Fields |-> FlattenToStr(e[f])]

CommittedIds == {i \in DOMAIN slots : status[slots[i].by] = "committed"}

\* What a SELECT ... ORDER BY id sees of the table.
CommittedRows == Pick(Column("record", slots), CommittedIds)

\* The first page of a list: LIMIT.
Latest(lines) == SubSeq(lines, 1, Min({AuditLimit, Len(lines)}))

\* Slip: the ledger is paged as the audit lines are: its newest rows.
RecordsForTargetPaged == Reverse(Latest(Reverse(Unique(CommittedRows))))

\* Slip: a repeated record is kept where it came last.
RecordsForTargetLatest == Reverse(Unique(Reverse(CommittedRows)))

\* The ledger of the target: each exposure once.
RecordsForTarget == Unique(CommittedRows)

AuditIds ==
    {i \in DOMAIN starts : starts[i] \in audited /\ status[starts[i]] = "committed"}
AuditLines == Pick(starts, AuditIds)

\* Slip: the order is ascending.
ListAuditOldest == Latest(AuditLines)

\* The audit page: the newest lines first.
ListAudit == Latest(Reverse(AuditLines))

NonNull(values) == {i \in DOMAIN values : values[i] # Null}

\* Slip: empty values are dropped, repeated ones are not.
DedupPreserveNot(values) == Pick(values, NonNull(values))

DedupPreserve(values) == Unique(Pick(values, NonNull(values)))

-----------------------------------------------------------------------------
(* The profile *)

\* Slip: a password without a breach source counts as a source of its own.
PwBreachesUnsourced(records) ==
    [p \in {r.password : r \in ToSet(records)} \ {Null} |->
       {r.database_name : r \in {x \in ToSet(records) : x.password = p}}]

\* Each password with the breach sources it was seen in.
PwBreaches(records) ==
    LET sourced == {r \in ToSet(records) : r.password # Null /\ r.database_name # Null}
    IN  [p \in {r.password : r \in sourced} |->
           {r.database_name : r \in {x \in sourced : x.password = p}}]

\* Counter(): how many records of the ledger each breach source has.
BreachSources(records) ==
    LET sources == Column("database_name", records)
        named   == Pick(sources, NonNull(sources))
    IN  [d \in ToSet(named) |-> Cardinality({i \in DOMAIN named : named[i] = d})]

BuildProfile(records) ==
    LET breaches == PwBreaches(records)
        sourced  == Pick(records, NonNull(Column("database_name", records)))
        listed   == DedupPreserve(Column("password", sourced))
        reused   == Pick(listed, {i \in DOMAIN listed :
                                    Cardinality(breaches[listed[i]]) > 1})
    IN  [lists |-> [f \in Listed |-> DedupPreserve(Column(f, records))],
         reused_passwords |-> reused,
         reuse_counts |-> [p \in ToSet(reused) |-> Cardinality(breaches[p])],
         breach_sources |-> BreachSources(records)]

-----------------------------------------------------------------------------
(* The pivot graph: the target and a node for each selector of its profile *)

Root == <<"target", Null>>

Graph(profile) ==
    LET NodesOf(field) == [i \in DOMAIN profile.lists[field] |->
                             <<field, profile.lists[field][i]>>]
        selectors == NodesOf("email") \o NodesOf("username") \o NodesOf("ip_address")
    IN  [nodes |-> <<Root>> \o selectors,
         edges |-> [i \in DOMAIN selectors |-> <<Root, selectors[i]>>]]

-----------------------------------------------------------------------------
(* Rows come and go with their transactions *)

Init ==
    /\ slots = <<>>
    /\ status = [w \in Writers |-> "idle"]
    /\ starts = <<>> /\ audited = {}
    /\ shown = [records |-> <<>>, profile |-> BuildProfile(<<>>), ids |-> {},
                audit |-> <<>>, started |-> 0]

Begin(w) ==
    /\ status[w] = "idle"
    /\ status' = [status EXCEPT ![w] = "open"]
    /\ starts' = Append(starts, w)
    /\ UNCHANGED <<slots, audited, shown>>

\* add_records and copy_records_for_target insert rows; the inserts of two
\* transactions may take their ids in turns.
AddRow(w) ==
    /\ status[w] = "open" /\ w \notin audited
    /\ Len(slots) < MaxRows
    /\ \E e \in Entries : slots' = Append(slots, [by |-> w, record |-> RawEntry(e)])
    /\ UNCHANGED <<status, starts, audited, shown>>

\* After its records, and not for the copies of a cached search.
WriteAudit(w) ==
    /\ status[w] = "open" /\ w \notin audited
    /\ audited' = audited \cup {w}
    /\ UNCHANGED <<slots, status, starts, shown>>

Commit(w) ==
    /\ status[w] = "open"
    /\ status' = [status EXCEPT ![w] = "committed"]
    /\ UNCHANGED <<slots, starts, audited, shown>>

Rollback(w) ==
    /\ status[w] = "open"
    /\ status' = [status EXCEPT ![w] = "rolled back"]
    /\ audited' = audited \ {w}
    /\ UNCHANGED <<slots, starts, shown>>

\* A reader is shown the ledger (an export, the target's page), the profile
\* computed from it, and the audit page; the ids of the rows tell what was there
\* to be seen, and started how many transactions there were.
Read ==
    /\ shown' = [records |-> RecordsForTarget,
                 profile |-> BuildProfile(RecordsForTarget),
                 ids |-> CommittedIds,
                 audit |-> ListAudit,
                 started |-> Len(starts)]
    /\ UNCHANGED <<slots, status, starts, audited>>

Next ==
    \/ \E w \in Writers : Begin(w) \/ AddRow(w) \/ WriteAudit(w) \/ Commit(w)
                          \/ Rollback(w)
    \/ Read

Spec == Init /\ [][Next]_vars

-----------------------------------------------------------------------------
(* Properties *)

Record == [Fields -> Seq(STRING \ {""})]

\* The rows of the target are records of non-empty texts.
TypeOK ==
    /\ slots \in Seq([by : Writers, record : Record])
    /\ status \in [Writers -> {"idle", "open", "committed", "rolled back"}]
    /\ starts \in Seq(Writers) /\ audited \subseteq Writers
    /\ shown.records \in Seq(Record) /\ shown.ids \subseteq DOMAIN slots
    /\ shown.audit \in Seq(Writers) /\ shown.started \in 0 .. Len(starts)

\* What the last reader could see.
Exposures == {slots[i].record : i \in shown.ids}

Sources(p) ==
    {r.database_name : r \in {x \in Exposures :
                                x.password = p /\ x.database_name # Null}}

\* The profile says of the committed exposures what its fields are named for,
\* however often each exposure is stored and in whatever order it arrived:
\* lists without repetition or blanks, passwords of more than one breach source
\* with the number of those sources, and breach sources with the number of
\* distinct exposures each contributed (CorrelationService.build_profile).
ProfileTellsExposures ==
    LET profile == shown.profile
        reused  == {p \in {r.password : r \in Exposures} \ {Null} :
                      Cardinality(Sources(p)) > 1}
    IN  /\ \A f \in Listed :
             /\ ToSet(profile.lists[f]) = {r[f] : r \in Exposures} \ {Null}
             /\ IsInjective(profile.lists[f])
        /\ ToSet(profile.reused_passwords) = reused
        /\ IsInjective(profile.reused_passwords)
        /\ profile.reuse_counts = [p \in reused |-> Cardinality(Sources(p))]
        /\ profile.breach_sources =
             [d \in {r.database_name : r \in Exposures} \ {Null} |->
                Cardinality({r \in Exposures : r.database_name = d})]

\* Unless a row surfaces before one that was read already, because its
\* transaction took the id first and committed last, what an analyst has read
\* keeps its place: the ledger and the lists of the profile only grow at their
\* end (rows are read and deduplicated in the order of their ids).
ListsOnlyExtend ==
    [][(\A i \in shown.ids, j \in shown'.ids \ shown.ids : i < j)
         => /\ IsPrefix(shown.records, shown'.records)
            /\ \A f \in Listed :
                 IsPrefix(shown.profile.lists[f], shown'.profile.lists[f])]_vars

\* However transactions interleave, a password once reported as reused stays so
\* and no count goes down: later rows never take evidence away.
EvidenceGrows ==
    [][LET now == shown.profile  later == shown'.profile
       IN  /\ \A p \in DOMAIN now.reuse_counts :
                p \in DOMAIN later.reuse_counts
                  /\ later.reuse_counts[p] >= now.reuse_counts[p]
           /\ \A d \in DOMAIN now.breach_sources :
                d \in DOMAIN later.breach_sources
                  /\ later.breach_sources[d] >= now.breach_sources[d]]_vars

\* What an analyst has read on the audit page stays there in its order until
\* newer lines push it off the end; a line that comes up below it is that of a
\* search that was running at the time, however long the search took (lines are
\* ordered by the start of their transaction, list_audit).
AuditOnlyMovesDown ==
    [][LET now == shown.audit  later == shown'.audit
           kept == Pick(later, {i \in DOMAIN later : later[i] \in ToSet(now)})
       IN  /\ IsPrefix(kept, now)
           /\ kept # now => Len(later) = AuditLimit
           /\ \A i, j \in DOMAIN later :
                (i < j /\ later[i] \in ToSet(now) /\ later[j] \notin ToSet(now))
                  => later[j] \in ToSet(SubSeq(starts, 1, shown.started))]_vars

\* The graph is a star that its viewer can draw: node ids are unique, the
\* target is one of them, and every other node hangs on it by one edge.
GraphIsStar ==
    LET graph == Graph(shown.profile)
    IN  /\ IsInjective(graph.nodes) /\ Root \in ToSet(graph.nodes)
        /\ IsInjective(graph.edges)
        /\ {Root} \X (ToSet(graph.nodes) \ {Root}) = ToSet(graph.edges)
=============================================================================
