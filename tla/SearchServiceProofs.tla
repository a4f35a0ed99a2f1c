------------------------ MODULE SearchServiceProofs ------------------------
(***************************************************************************)
(* Proofs about the search path, for any set of requests, targets and      *)
(* queries, any page size, any balance and any combination of faults.      *)
(***************************************************************************)
EXTENDS SearchService, SequenceTheorems, TLAPS

-----------------------------------------------------------------------------
(* The data that requests write *)

\* The entries of a response are records that the API matched.
LEMMA FirstPageType ==
    ASSUME NEW m \in Seq(Contents), NEW i \in DOMAIN FirstPage(m)
    PROVE  FirstPage(m)[i] \in Contents
  BY ConstantsAssumption DEF ConstantsOK, FirstPage

\* A search costs at least one credit, whatever total was reported.
LEMMA CostType ==
    ASSUME NEW total \in Nat
    PROVE  CostOf(total) \in Nat \ {0}
  BY DEF CostOf

\* What a request writes for a new search fits the tables.
LEMMA NewTypes ==
    ASSUME TypeOK, NEW r \in Requests
    PROVE  /\ NewSearch(r) \in Search
           /\ NewRows(r) \subseteq Row
           /\ NewAudit(r) \in AuditLine
<1> DEFINE m == reply[r].matches
<1>1. /\ m \in Seq(Contents) /\ reply[r].balance \in Nat /\ reply[r].total \in Nat
      /\ req[r].target \in TargetIds /\ req[r].query \in Queries
  BY DEF TypeOK, Ask
<1>2. CostOf(reply[r].total) \in Nat
  BY <1>1, CostType
<1>3. NewSearch(r) \in Search
  BY <1>1, <1>2 DEF NewSearch, Search, KeyOf
<1>4. NewAudit(r) \in AuditLine
  BY <1>1, <1>2 DEF NewAudit, AuditLine
<1>5. ASSUME NEW i \in DOMAIN FirstPage(m)
      PROVE  NewRow(r, i) \in Row
  <2>1. i \in Nat
    BY <1>1, <1>5, ConstantsAssumption DEF ConstantsOK, FirstPage
  <2>2. FirstPage(m)[i] \in Contents
    BY <1>1, <1>5, FirstPageType
  <2> QED
    BY <1>1, <2>1, <2>2 DEF NewRow, Row
<1> QED
  BY <1>3, <1>4, <1>5 DEF NewRows

\* So does a copy of a row.
LEMMA CopyType ==
    ASSUME NEW o \in Row, NEW r \in Requests, req[r].target \in TargetIds
    PROVE  CopyOf(o, r) \in Row
<1>1. Append(o.via, r) \in Seq(Requests)
  BY DEF Row
<1> QED
  BY <1>1 DEF CopyOf, Row

\* What the page reads of a target are records.
LEMMA ContentsType ==
    ASSUME TypeOK, NEW t
    PROVE  ContentsOf(t) \subseteq Contents
  BY DEF TypeOK, ContentsOf, Row

-----------------------------------------------------------------------------
(* Type correctness *)

\* No table, session or answer holds anything at the start.
LEMMA TypeInit == Init => TypeOK
<1> SUFFICES ASSUME Init PROVE TypeOK
  OBVIOUS
<1>1. \E a \in Ask : TRUE
  <2>1. PICK s \in Surfaces, t \in TargetIds, q \in Queries : TRUE
    BY ConstantsAssumption DEF ConstantsOK
  <2>2. [surface |-> s, target |-> t, query |-> q] \in Ask
    BY DEF Ask
  <2> QED
    BY <2>2
<1>2. (CHOOSE a \in Ask : TRUE) \in Ask
  BY <1>1
<1>3. req \in [Requests -> Ask]
  BY <1>2 DEF Init
<1>4. <<>> \in Seq(Contents) /\ InitBalance \in Nat
  BY ConstantsAssumption DEF ConstantsOK
<1>5. reply \in [Requests -> [kind : Errors \cup {"none", "entries"},
                              matches : Seq(Contents), total : Nat,
                              balance : Nat]]
  BY <1>4 DEF Init
<1>6. /\ session \in [Requests -> [searches : SUBSET Search,
                        rows : SUBSET Row, audit : SUBSET AuditLine]]
      /\ view \in [Requests -> [ledger : SUBSET Contents,
                                profile : SUBSET Contents]]
  BY DEF Init, NoWrites
<1> QED
  BY <1>3, <1>4, <1>5, <1>6 DEF Init, TypeOK, Places, Statuses

\* Answering a request keeps the places, sessions and answers in shape.
LEMMA AnswerType ==
    ASSUME TypeOK, NEW r \in Requests, NEW status \in Statuses,
           Answer(r, status)
    PROVE  /\ pc' \in [Requests -> Places]
           /\ outcome' \in [Requests -> Statuses]
           /\ session' \in [Requests -> [searches : SUBSET Search,
                              rows : SUBSET Row, audit : SUBSET AuditLine]]
  BY DEF TypeOK, Answer, GoTo, NoWrites, Places

\* So does an answer that leaves everything else alone.
LEMMA FailType ==
    ASSUME TypeOK, NEW r \in Requests, NEW status \in Statuses,
           Fail(r, status)
    PROVE  TypeOK'
<1>1. /\ pc' \in [Requests -> Places]
      /\ outcome' \in [Requests -> Statuses]
      /\ session' \in [Requests -> [searches : SUBSET Search,
                         rows : SUBSET Row, audit : SUBSET AuditLine]]
  BY AnswerType DEF Fail
<1> QED
  BY <1>1 DEF TypeOK, Fail, tables, account

\* Publishing moves rows of the right shape into the tables.
LEMMA PublishType ==
    ASSUME TypeOK, NEW r \in Requests, Publish(r)
    PROVE  /\ searches' \subseteq Search /\ rows' \subseteq Row
           /\ audit' \subseteq AuditLine
  BY DEF TypeOK, Publish

\* A surface answers a domain error with one of the refusals.
LEMMA StatusType ==
    ASSUME NEW surface, NEW error
    PROVE  StatusOf(surface, error) \in Refusals
  BY DEF StatusOf, Refusals

\* Every step of a request, and every fault, keeps the types.
LEMMA TypeStep == TypeOK /\ [Next]_vars => TypeOK'
<1> SUFFICES ASSUME TypeOK, [Next]_vars PROVE TypeOK'
  OBVIOUS
<1>1. ASSUME NEW r \in Requests, Arrive(r) PROVE TypeOK'
  BY <1>1 DEF Arrive, GoTo, TypeOK, Places, tables, account
<1>2. ASSUME NEW r \in Requests, RejectField(r) PROVE TypeOK'
  <2>1. PICK a \in Ask : /\ req' = [req EXCEPT ![r] = a]
                         /\ Answer(r, IF a.surface = "v1" THEN "422" ELSE "500")
    BY <1>2 DEF RejectField
  <2>2. (IF a.surface = "v1" THEN "422" ELSE "500") \in Statuses
    BY DEF Statuses, Refusals
  <2> QED
    BY <1>2, <2>1, <2>2, AnswerType DEF RejectField, TypeOK, tables, account
<1>3. ASSUME NEW r \in Requests, LookupHit(r) \/ LookupMiss(r) PROVE TypeOK'
  <2>1. \A s \in searches : s.id \in Requests
    BY DEF TypeOK, Search
  <2>2. source' \in [Requests -> Requests \cup {NoSearch}]
    BY <1>3, <2>1 DEF LookupHit, LookupMiss, TypeOK
  <2>3. \E ids \in SUBSET Requests : seen' = [seen EXCEPT ![r] = ids]
    <3>1. {s.id : s \in searches} \in SUBSET Requests
      BY <2>1
    <3>2. seen' = [seen EXCEPT ![r] = {s.id : s \in searches}]
      BY <1>3 DEF LookupHit, LookupMiss, Look
    <3> QED
      BY <3>1, <3>2
  <2>4. seen' \in [Requests -> SUBSET Requests]
    BY <2>3 DEF TypeOK
  <2>5. /\ pc' \in [Requests -> Places]
        /\ UNCHANGED <<tables, account, req, reply, session, view, outcome>>
    BY <1>3 DEF LookupHit, LookupMiss, Look, GoTo, TypeOK, Places
  <2> QED
    BY <2>2, <2>4, <2>5 DEF TypeOK, tables, account
<1>4. ASSUME NEW r \in Requests, FindExisting(r) PROVE TypeOK'
  BY <1>4 DEF FindExisting, GoTo, TypeOK, Places, tables, account
<1>5. ASSUME NEW r \in Requests, CopyRows(r) PROVE TypeOK'
  <2>1. req[r].target \in TargetIds
    BY DEF TypeOK, Ask
  <2>2. {CopyOf(o, r) : o \in RowsOf(source[r])} \subseteq Row
    BY <2>1, CopyType DEF RowsOf, TypeOK
  <2>3. session' \in [Requests -> [searches : SUBSET Search,
                        rows : SUBSET Row, audit : SUBSET AuditLine]]
    BY <1>5, <2>2 DEF CopyRows, TypeOK
  <2> QED
    BY <1>5, <2>3 DEF CopyRows, GoTo, TypeOK, Places, tables, account
<1>6. ASSUME NEW r \in Requests, Serve(r) PROVE TypeOK'
  <2> DEFINE Replies == [kind : Errors \cup {"none", "entries"},
                         matches : Seq(Contents), total : Nat, balance : Nat]
  <2>1. balance - 1 \in Nat /\ reply \in [Requests -> Replies]
    BY <1>6 DEF Serve, TypeOK
  <2>2. ASSUME NEW m \in Matches, NEW n \in Totals,
               NEW left \in {balance - 1} \cup Unreported,
               reply' = [reply EXCEPT ![r] = [kind |-> "entries", matches |-> m,
                                              total |-> n, balance |-> left]]
        PROVE  reply' \in [Requests -> Replies]
    <3>1. left \in Nat /\ m \in Seq(Contents) /\ n \in Nat
      BY <2>1, ConstantsAssumption DEF ConstantsOK, Unreported
    <3> QED
      BY <2>1, <2>2, <3>1
  <2>3. ASSUME NEW kind \in Faults \cap {"api", "raw"},
               reply' = [reply EXCEPT ![r].kind = kind]
        PROVE  reply' \in [Requests -> Replies]
    BY <2>1, <2>3 DEF Errors
  <2>4. reply' \in [Requests -> Replies]
    BY <1>6, <2>2, <2>3 DEF Serve
  <2> QED
    BY <1>6, <2>1, <2>4 DEF Serve, GoTo, TypeOK, Places, tables
<1>7. ASSUME NEW r \in Requests, Refuse(r) PROVE TypeOK'
  <2>1. PICK kind \in Errors : reply' = [reply EXCEPT ![r].kind = kind]
    BY <1>7 DEF Refuse
  <2>2. reply' \in [Requests -> [kind : Errors \cup {"none", "entries"},
                      matches : Seq(Contents), total : Nat, balance : Nat]]
    BY <2>1 DEF TypeOK
  <2> QED
    BY <1>7, <2>2 DEF Refuse, GoTo, TypeOK, Places, tables, account
<1>8. ASSUME NEW r \in Requests,
             CopyRefused(r) \/ ReceiveError(r) \/ GuardRefuses(r)
               \/ CreateRefused(r) \/ AddRefused(r) \/ Respond(r) \/ DbError(r)
      PROVE  TypeOK'
  <2>1. \E status \in Statuses : Fail(r, status)
    BY <1>8, StatusType
    DEF CopyRefused, ReceiveError, GuardRefuses, CreateRefused, AddRefused,
        Respond, DbError, Statuses
  <2> QED
    BY <2>1, FailType
<1>9. ASSUME NEW r \in Requests, CreateSearch(r) PROVE TypeOK'
  <2>1. session' \in [Requests -> [searches : SUBSET Search,
                        rows : SUBSET Row, audit : SUBSET AuditLine]]
    BY <1>9, NewTypes DEF CreateSearch, TypeOK
  <2> QED
    BY <1>9, <2>1 DEF CreateSearch, GoTo, TypeOK, Places, tables, account
<1>10. ASSUME NEW r \in Requests, AddRecords(r) PROVE TypeOK'
  <2>1. session' \in [Requests -> [searches : SUBSET Search,
                        rows : SUBSET Row, audit : SUBSET AuditLine]]
    BY <1>10, NewTypes DEF AddRecords, TypeOK
  <2> QED
    BY <1>10, <2>1 DEF AddRecords, GoTo, TypeOK, Places, tables, account
<1>11. ASSUME NEW r \in Requests, WriteAudit(r) PROVE TypeOK'
  <2>1. session' \in [Requests -> [searches : SUBSET Search,
                        rows : SUBSET Row, audit : SUBSET AuditLine]]
    BY <1>11, NewTypes DEF WriteAudit, TypeOK
  <2> QED
    BY <1>11, <2>1 DEF WriteAudit, GoTo, TypeOK, Places, tables, account
<1>12. ASSUME NEW r \in Requests, Commit(r) PROVE TypeOK'
  <2>1. Publish(r)
    BY <1>12 DEF Commit
  <2>2. session' \in [Requests -> [searches : SUBSET Search,
                        rows : SUBSET Row, audit : SUBSET AuditLine]]
    BY <1>12 DEF Commit, TypeOK, NoWrites
  <2> QED
    BY <1>12, <2>1, <2>2, PublishType DEF Commit, GoTo, TypeOK, Places, account
<1>13. ASSUME NEW r \in Requests, ReadLedger(r) PROVE TypeOK'
  <2>1. view' \in [Requests -> [ledger : SUBSET Contents,
                                profile : SUBSET Contents]]
    BY <1>13, ContentsType DEF ReadLedger, TypeOK
  <2> QED
    BY <1>13, <2>1 DEF ReadLedger, GoTo, TypeOK, Places, tables, account
<1>14. ASSUME NEW r \in Requests, ReadProfile(r) PROVE TypeOK'
  <2>1. view' \in [Requests -> [ledger : SUBSET Contents,
                                profile : SUBSET Contents]]
    BY <1>14, ContentsType DEF ReadProfile, TypeOK
  <2>2. "ok" \in Statuses
    BY DEF Statuses
  <2> QED
    BY <1>14, <2>1, <2>2, AnswerType DEF ReadProfile, TypeOK, tables, account
<1>15. ASSUME NEW r \in Requests, LostCommit(r) PROVE TypeOK'
  <2>1. "500" \in Statuses
    BY DEF Statuses
  <2> QED
    BY <1>15, <2>1, AnswerType, PublishType DEF LostCommit, TypeOK, account
<1>16. CASE Crash
  BY <1>16 DEF Crash, TypeOK, InFlight, Places, Statuses, NoWrites, tables, account
<1>17. CASE Recharge
  <2>1. balance' \in Nat
    BY <1>17, ConstantsAssumption DEF ConstantsOK, Recharge, TypeOK
  <2> QED
    BY <1>17, <2>1 DEF Recharge, TypeOK, tables
<1>18. CASE UNCHANGED vars
  BY <1>18 DEF vars, TypeOK
<1> QED
  BY <1>1, <1>2, <1>3, <1>4, <1>5, <1>6, <1>7, <1>8, <1>9, <1>10, <1>11,
     <1>12, <1>13, <1>14, <1>15, <1>16, <1>17, <1>18
  DEF Next, Step, Quiet

\* Type correctness of the search path: in particular no row, audit line or
\* answer of a shape the schema does not have is ever produced.
THEOREM TypeCorrect == Spec => []TypeOK
  BY TypeInit, TypeStep, PTL DEF Spec

-----------------------------------------------------------------------------
(***************************************************************************)
(* The invariant of the path.  Its first part follows one request through  *)
(* its transaction: what its session holds at every place, which search    *)
(* answers it, and what it knew when it decided to spend.  Its second part *)
(* says where a committed search comes from.                               *)
(***************************************************************************)

Settled == {"respond", "ledger", "profile", "done"}

\* The request copies the rows of somebody else's search.
Copying(r) ==
    pc[r] \in {"existing", "copy"} \/ (pc[r] = "commit" /\ source[r] # r)

\* The writes of the transaction, place by place.
SessionInv(r) ==
    /\ pc[r] \notin {"records", "audit", "commit"} => session[r] = NoWrites
    /\ pc[r] \in {"records", "audit"} =>
         /\ source[r] = r
         /\ session[r].searches = {NewSearch(r)} /\ session[r].audit = {}
    /\ pc[r] = "records" => session[r].rows = {}
    /\ pc[r] = "audit" => session[r].rows = NewRows(r)
    /\ (pc[r] = "commit" /\ source[r] = r) =>
         /\ session[r].searches = {NewSearch(r)}
         /\ session[r].rows = NewRows(r)
         /\ session[r].audit = {NewAudit(r)}
    /\ (pc[r] = "commit" /\ source[r] # r) =>
         /\ session[r].searches = {} /\ session[r].audit = {}
         /\ \A o \in session[r].rows :
              o.search = source[r] /\ o.target = req[r].target /\ o.via # <<>>

\* What the request read before it spent is still true of what it saw.
SpendInv(r) ==
    /\ pc[r] \in {"idle", "lookup", "existing", "copy", "call"} => r \notin charged
    /\ \A id \in seen[r] : \E s \in searches : s.id = id
    /\ (pc[r] = "call" \/ r \in charged) =>
         \A s \in searches : s.key = KeyOf(r) => s.id \notin seen[r]

SourceInv(r) ==
    Copying(r) => \E s \in searches : s.id = source[r] /\ s.key = KeyOf(r)

RequestInv(r) == SessionInv(r) /\ SpendInv(r) /\ SourceInv(r)

CommittedInv ==
    \A s \in searches :
        s = NewSearch(s.id) /\ source[s.id] = s.id /\ pc[s.id] \in Settled

PathInv == (\A r \in Requests : RequestInv(r)) /\ CommittedInv

\* The invariant of the path holds before any request arrives.
LEMMA PathInit == Init => PathInv
  BY DEF Init, PathInv, RequestInv, SessionInv, SpendInv, SourceInv, Copying,
         CommittedInv

\* What a request would write depends on its question and its reply only.
LEMMA SameWrites ==
    ASSUME NEW q \in Requests, req'[q] = req[q], reply'[q] = reply[q]
    PROVE  /\ NewSearch(q)' = NewSearch(q) /\ NewRows(q)' = NewRows(q)
           /\ NewAudit(q)' = NewAudit(q) /\ KeyOf(q)' = KeyOf(q)
  BY DEF NewSearch, NewRows, NewRow, NewAudit, KeyOf

\* A request that does not move keeps its part of the invariant, though other
\* requests publish searches it had not seen.
LEMMA Bystander ==
    ASSUME NEW q \in Requests, RequestInv(q),
           pc'[q] = pc[q], req'[q] = req[q], seen'[q] = seen[q],
           source'[q] = source[q], reply'[q] = reply[q],
           session'[q] = session[q], q \in charged' <=> q \in charged,
           searches \subseteq searches',
           \A s \in searches' : s \in searches \/ s.id \notin seen[q]
    PROVE  RequestInv(q)'
<1> USE SameWrites DEF RequestInv
<1>1. SessionInv(q)'
  BY DEF SessionInv
<1>2. SpendInv(q)'
  BY DEF SpendInv
<1>3. SourceInv(q)'
  BY DEF SourceInv, Copying
<1> QED
  BY <1>1, <1>2, <1>3

\* The committed searches keep theirs as long as their authors stay settled
\* and nobody rewrites a question or a reply.
LEMMA CommittedStays ==
    ASSUME TypeOK, CommittedInv, searches' = searches,
           \A q \in Requests : pc[q] \in Settled =>
               /\ pc'[q] \in Settled /\ source'[q] = source[q]
               /\ req'[q] = req[q] /\ reply'[q] = reply[q]
    PROVE  CommittedInv'
<1> SUFFICES ASSUME NEW s \in searches
             PROVE  /\ s = NewSearch(s.id)' /\ source'[s.id] = s.id
                    /\ pc'[s.id] \in Settled
  BY DEF CommittedInv
<1>1. s.id \in Requests
  BY DEF TypeOK, Search
<1> QED
  BY <1>1, SameWrites DEF CommittedInv

\* A step of one request that publishes nothing: it suffices to look at that
\* request, the others stand by.
LEMMA PrivateStep ==
    ASSUME TypeOK, PathInv, NEW r \in Requests, RequestInv(r)',
           UNCHANGED tables, pc[r] \notin Settled,
           \A q \in Requests : q # r =>
               /\ pc'[q] = pc[q] /\ req'[q] = req[q] /\ seen'[q] = seen[q]
               /\ source'[q] = source[q] /\ reply'[q] = reply[q]
               /\ session'[q] = session[q] /\ (q \in charged' <=> q \in charged)
    PROVE  PathInv'
<1>1. searches' = searches
  BY DEF tables
<1>2. ASSUME NEW q \in Requests, q # r PROVE RequestInv(q)'
  BY <1>1, <1>2, Bystander DEF PathInv
<1>3. CommittedInv'
  BY <1>1, CommittedStays DEF PathInv
<1> QED
  BY <1>2, <1>3 DEF PathInv

\* A settled request that reads or answers keeps its part.
LEMMA SettledStep ==
    ASSUME TypeOK, PathInv, NEW r \in Requests, UNCHANGED <<tables, charged>>,
           pc[r] \in Settled, pc'[r] \in Settled, session'[r] = NoWrites,
           \A q \in Requests : q # r =>
               pc'[q] = pc[q] /\ session'[q] = session[q],
           UNCHANGED <<req, seen, source, reply>>
    PROVE  PathInv'
<1>1. searches' = searches
  BY DEF tables
<1>2. ASSUME NEW q \in Requests, q # r PROVE RequestInv(q)'
  BY <1>1, <1>2, Bystander DEF PathInv
<1>3. RequestInv(r)'
  BY <1>1, SameWrites
  DEF PathInv, RequestInv, SessionInv, SpendInv, SourceInv, Copying, Settled, TypeOK
<1>4. CommittedInv'
  BY <1>1, CommittedStays DEF PathInv
<1> QED
  BY <1>2, <1>3, <1>4 DEF PathInv

\* An answer without effect, whoever gives it.
LEMMA FailStep ==
    ASSUME TypeOK, PathInv, NEW r \in Requests, NEW status, Fail(r, status)
    PROVE  PathInv'
<1> USE DEF Fail, Answer, GoTo, account
<1>1. pc'[r] = "done" /\ session'[r] = NoWrites
  BY DEF TypeOK
<1>2. CASE pc[r] \in Settled
  BY <1>1, <1>2, SettledStep DEF Settled, TypeOK
<1>3. CASE pc[r] \notin Settled
  <2>1. RequestInv(r)'
    BY <1>1, SameWrites
    DEF PathInv, RequestInv, SessionInv, SpendInv, SourceInv, Copying, tables
  <2> QED
    BY <1>3, <2>1, PrivateStep DEF TypeOK
<1> QED
  BY <1>2, <1>3

\* What a commit publishes: the request's own new search, of which there was
\* none before, or nothing but copies.
LEMMA Published ==
    ASSUME TypeOK, PathInv, NEW r \in Requests, Publish(r)
    PROVE  /\ \A s \in searches : s.id # r
           /\ source[r] = r => /\ searches' = searches \cup {NewSearch(r)}
                               /\ rows' = rows \cup NewRows(r)
                               /\ audit' = audit \cup {NewAudit(r)}
           /\ source[r] # r => /\ searches' = searches /\ audit' = audit
                               /\ rows' = rows \cup session[r].rows
  BY DEF PathInv, RequestInv, SessionInv, CommittedInv, Publish, At, Settled

\* A transaction that publishes keeps the invariant, whoever else is under way.
LEMMA PublishStep ==
    ASSUME TypeOK, PathInv, NEW r \in Requests, Publish(r),
           pc' = [pc EXCEPT ![r] = pc'[r]], pc'[r] \in Settled,
           session' = [session EXCEPT ![r] = NoWrites],
           UNCHANGED <<charged, req, seen, source, reply>>
    PROVE  PathInv'
<1>1. /\ pc[r] = "commit"
      /\ searches' = searches \/ (searches' = searches \cup {NewSearch(r)}
                                    /\ source[r] = r)
      /\ \A s \in searches : s.id # r
  BY Published DEF Publish, At
<1>2. NewSearch(r).id = r
  BY DEF NewSearch
<1>3. ASSUME NEW q \in Requests PROVE r \notin seen[q]
  BY <1>1 DEF PathInv, RequestInv, SpendInv
<1>4. ASSUME NEW q \in Requests, q # r PROVE RequestInv(q)'
  <2>1. pc'[q] = pc[q] /\ session'[q] = session[q]
    BY <1>4 DEF TypeOK
  <2> QED
    BY <1>1, <1>2, <1>3, <2>1, Bystander DEF PathInv
<1>5. RequestInv(r)'
  <2>1. pc'[r] \notin {"idle", "lookup", "existing", "copy", "call", "records",
                       "audit", "commit"}
    BY DEF Settled
  <2>2. session'[r] = NoWrites
    BY DEF TypeOK
  <2>3. SpendInv(r)'
    BY <1>1, <1>2, <1>3, <2>1, SameWrites DEF PathInv, RequestInv, SpendInv
  <2> QED
    BY <2>1, <2>2, <2>3 DEF RequestInv, SessionInv, SourceInv, Copying
<1>6. CommittedInv'
  <2> SUFFICES ASSUME NEW s \in searches'
               PROVE  /\ s = NewSearch(s.id)' /\ source'[s.id] = s.id
                      /\ pc'[s.id] \in Settled
    BY DEF CommittedInv
  <2>1. CASE s \in searches
    <3>1. s.id \in Requests /\ s.id # r
      BY <1>1, <2>1 DEF TypeOK, Search
    <3> QED
      BY <2>1, <3>1, SameWrites DEF PathInv, CommittedInv, TypeOK
  <2>2. CASE s = NewSearch(r) /\ source[r] = r
    BY <1>2, <2>2, SameWrites
  <2> QED
    BY <1>1, <2>1, <2>2
<1> QED
  BY <1>4, <1>5, <1>6 DEF PathInv

\* Every step keeps the invariant of the path.
LEMMA PathStep == TypeOK /\ PathInv /\ [Next]_vars => PathInv'
<1> SUFFICES ASSUME TypeOK, PathInv, [Next]_vars PROVE PathInv'
  OBVIOUS
<1> DEFINE Frame(r) == \A q \in Requests : q # r =>
               /\ pc'[q] = pc[q] /\ req'[q] = req[q] /\ seen'[q] = seen[q]
               /\ source'[q] = source[q] /\ reply'[q] = reply[q]
               /\ session'[q] = session[q] /\ (q \in charged' <=> q \in charged)
<1>1. ASSUME NEW r \in Requests, Arrive(r) PROVE PathInv'
  <2>1. UNCHANGED tables /\ pc[r] \notin Settled /\ Frame(r)
    BY <1>1 DEF Arrive, At, GoTo, Settled, TypeOK, account
  <2>2. RequestInv(r)'
    <3>1. /\ pc[r] = "idle" /\ pc'[r] = "lookup" /\ searches' = searches
          /\ UNCHANGED <<charged, seen, session>>
      BY <1>1 DEF Arrive, At, GoTo, TypeOK, tables, account
    <3> QED
      BY <3>1 DEF PathInv, RequestInv, SessionInv, SpendInv, SourceInv, Copying
  <2> QED
    BY <2>1, <2>2, PrivateStep
<1>2. ASSUME NEW r \in Requests, RejectField(r) PROVE PathInv'
  <2>1. UNCHANGED tables /\ pc[r] \notin Settled /\ Frame(r)
    BY <1>2 DEF RejectField, Answer, At, GoTo, Settled, TypeOK, account
  <2>2. RequestInv(r)'
    BY <1>2, <2>1 DEF RejectField, Answer, At, GoTo, TypeOK, account, tables,
       PathInv, RequestInv, SessionInv, SpendInv, SourceInv, Copying
  <2> QED
    BY <2>1, <2>2, PrivateStep
<1>3. ASSUME NEW r \in Requests, LookupHit(r) PROVE PathInv'
  <2>1. UNCHANGED tables /\ pc[r] \notin Settled /\ Frame(r)
    BY <1>3 DEF LookupHit, Look, At, GoTo, Settled, TypeOK, account
  <2>2. RequestInv(r)'
    <3>1. /\ pc[r] = "lookup" /\ pc'[r] = "existing" /\ searches' = searches
          /\ UNCHANGED <<charged, session>> /\ KeyOf(r)' = KeyOf(r)
          /\ seen'[r] = {s.id : s \in searches}
          /\ \E s \in searches : s.key = KeyOf(r) /\ source'[r] = s.id
      BY <1>3 DEF LookupHit, Look, At, GoTo, TypeOK, tables, account, KeyOf
    <3>2. session[r] = NoWrites /\ r \notin charged
      BY <3>1 DEF PathInv, RequestInv, SessionInv, SpendInv
    <3> QED
      BY <3>1, <3>2 DEF RequestInv, SessionInv, SpendInv, SourceInv, Copying
  <2> QED
    BY <2>1, <2>2, PrivateStep
<1>4. ASSUME NEW r \in Requests, LookupMiss(r) PROVE PathInv'
  <2>1. UNCHANGED tables /\ pc[r] \notin Settled /\ Frame(r)
    BY <1>4 DEF LookupMiss, Look, At, GoTo, Settled, TypeOK, account
  <2>2. RequestInv(r)'
    <3>1. /\ pc[r] = "lookup" /\ pc'[r] = "call" /\ searches' = searches
          /\ UNCHANGED <<charged, session>> /\ KeyOf(r)' = KeyOf(r)
          /\ seen'[r] = {s.id : s \in searches}
          /\ \A s \in searches : s.key # KeyOf(r)
      BY <1>4 DEF LookupMiss, Look, At, GoTo, TypeOK, tables, account, KeyOf
    <3>2. session[r] = NoWrites /\ r \notin charged
      BY <3>1 DEF PathInv, RequestInv, SessionInv, SpendInv
    <3> QED
      BY <3>1, <3>2 DEF RequestInv, SessionInv, SpendInv, SourceInv, Copying
  <2> QED
    BY <2>1, <2>2, PrivateStep
<1>5. ASSUME NEW r \in Requests, FindExisting(r) PROVE PathInv'
  <2>1. UNCHANGED tables /\ pc[r] \notin Settled /\ Frame(r)
    BY <1>5 DEF FindExisting, At, GoTo, Settled, TypeOK, account
  <2>2. source[r] # r
    BY <1>5 DEF FindExisting, At, PathInv, RequestInv, SourceInv, Copying,
       CommittedInv, Settled
  <2>3. RequestInv(r)'
    <3>1. /\ pc[r] = "existing" /\ pc'[r] \in {"commit", "copy"}
          /\ searches' = searches /\ UNCHANGED <<charged, session, seen, source>>
          /\ KeyOf(r)' = KeyOf(r)
      BY <1>5 DEF FindExisting, At, GoTo, TypeOK, tables, account, KeyOf
    <3>2. session[r] = NoWrites /\ r \notin charged
      BY <3>1 DEF PathInv, RequestInv, SessionInv, SpendInv
    <3>3. SessionInv(r)'
      BY <2>2, <3>1, <3>2 DEF SessionInv, NoWrites
    <3>4. SpendInv(r)' /\ SourceInv(r)'
      BY <3>1, <3>2 DEF PathInv, RequestInv, SpendInv, SourceInv, Copying
    <3> QED
      BY <3>3, <3>4 DEF RequestInv
  <2> QED
    BY <2>1, <2>3, PrivateStep
<1>6. ASSUME NEW r \in Requests, CopyRows(r) PROVE PathInv'
  <2>1. UNCHANGED tables /\ pc[r] \notin Settled /\ Frame(r)
    BY <1>6 DEF CopyRows, At, GoTo, Settled, TypeOK, account
  <2>2. source[r] # r
    BY <1>6 DEF CopyRows, At, PathInv, RequestInv, SourceInv, Copying,
       CommittedInv, Settled
  <2>3. ASSUME NEW o \in RowsOf(source[r])
        PROVE  /\ CopyOf(o, r).search = source[r] /\ CopyOf(o, r).via # <<>>
               /\ CopyOf(o, r).target = req[r].target
    <3>1. o.via \in Seq(Requests)
      BY DEF RowsOf, TypeOK, Row
    <3>2. Append(o.via, r) # <<>>
      BY <3>1, AppendProperties
    <3> QED
      BY <3>2 DEF RowsOf, CopyOf
  <2>4. /\ session'[r].searches = {} /\ session'[r].audit = {}
        /\ session'[r].rows = {CopyOf(o, r) : o \in RowsOf(source[r])}
    <3>1. session[r] = NoWrites
      BY <1>6 DEF CopyRows, At, PathInv, RequestInv, SessionInv
    <3> QED
      BY <1>6, <3>1 DEF CopyRows, TypeOK, NoWrites
  <2>5. /\ pc'[r] = "commit" /\ source'[r] = source[r] /\ req'[r] = req[r]
        /\ searches' = searches /\ seen'[r] = seen[r] /\ reply'[r] = reply[r]
        /\ charged' = charged /\ pc[r] = "copy"
    BY <1>6 DEF CopyRows, At, GoTo, TypeOK, tables, account
  <2>6. SessionInv(r)'
    BY <2>2, <2>3, <2>4, <2>5 DEF SessionInv
  <2>7. SpendInv(r)' /\ SourceInv(r)'
    BY <2>5, SameWrites DEF PathInv, RequestInv, SpendInv, SourceInv, Copying
  <2> QED
    BY <2>1, <2>6, <2>7, PrivateStep DEF RequestInv
<1>7. ASSUME NEW r \in Requests, Serve(r) PROVE PathInv'
  <2>1. UNCHANGED tables /\ pc[r] \notin Settled /\ Frame(r)
    BY <1>7 DEF Serve, At, GoTo, Settled, TypeOK
  <2>2. /\ pc[r] = "call" /\ pc'[r] = "reply" /\ KeyOf(r)' = KeyOf(r)
        /\ searches' = searches /\ seen' = seen /\ session' = session
    BY <1>7 DEF Serve, At, GoTo, TypeOK, tables, KeyOf
  <2>3. RequestInv(r)'
    BY <2>2 DEF PathInv, RequestInv, SessionInv, SpendInv, SourceInv, Copying
  <2> QED
    BY <2>1, <2>3, PrivateStep
<1>8. ASSUME NEW r \in Requests, Refuse(r) PROVE PathInv'
  <2>1. UNCHANGED tables /\ pc[r] \notin Settled /\ Frame(r)
    BY <1>8 DEF Refuse, At, GoTo, Settled, TypeOK, account
  <2>2. /\ pc[r] = "call" /\ pc'[r] = "reply" /\ KeyOf(r)' = KeyOf(r)
        /\ searches' = searches /\ seen' = seen /\ session' = session
        /\ charged' = charged
    BY <1>8 DEF Refuse, At, GoTo, TypeOK, tables, account, KeyOf
  <2>3. RequestInv(r)'
    BY <2>2 DEF PathInv, RequestInv, SessionInv, SpendInv, SourceInv, Copying
  <2> QED
    BY <2>1, <2>3, PrivateStep
<1>9. ASSUME NEW r \in Requests,
             CopyRefused(r) \/ ReceiveError(r) \/ GuardRefuses(r)
               \/ CreateRefused(r) \/ AddRefused(r) \/ Respond(r) \/ DbError(r)
      PROVE  PathInv'
  BY <1>9, FailStep DEF CopyRefused, ReceiveError, GuardRefuses, CreateRefused,
     AddRefused, Respond, DbError
<1>10. ASSUME NEW r \in Requests, CreateSearch(r) PROVE PathInv'
  <2>1. UNCHANGED tables /\ pc[r] \notin Settled /\ Frame(r)
    BY <1>10 DEF CreateSearch, GuardPasses, At, GoTo, Settled, TypeOK, account
  <2>2. /\ pc[r] = "reply" /\ pc'[r] = "records" /\ source'[r] = r
        /\ session'[r].searches = {NewSearch(r)}
        /\ session'[r].rows = {} /\ session'[r].audit = {}
        /\ searches' = searches /\ UNCHANGED <<req, reply, seen, charged>>
    <3>1. session[r] = NoWrites
      BY <1>10 DEF CreateSearch, GuardPasses, At, PathInv, RequestInv, SessionInv
    <3> QED
      BY <1>10, <3>1
      DEF CreateSearch, GuardPasses, At, GoTo, TypeOK, tables, account, NoWrites
  <2>3. RequestInv(r)'
    BY <2>2, SameWrites DEF PathInv, RequestInv, SessionInv, SpendInv, SourceInv, Copying
  <2> QED
    BY <2>1, <2>3, PrivateStep
<1>11. ASSUME NEW r \in Requests, AddRecords(r) PROVE PathInv'
  <2>1. UNCHANGED tables /\ pc[r] \notin Settled /\ Frame(r)
    BY <1>11 DEF AddRecords, At, GoTo, Settled, TypeOK, account
  <2>2. /\ pc[r] = "records" /\ pc'[r] = "audit" /\ source'[r] = source[r]
        /\ session'[r].searches = session[r].searches
        /\ session'[r].audit = session[r].audit
        /\ session'[r].rows = NewRows(r)
        /\ searches' = searches /\ UNCHANGED <<req, reply, seen, charged>>
    BY <1>11 DEF AddRecords, At, GoTo, TypeOK, tables, account
  <2>3. RequestInv(r)'
    BY <2>2, SameWrites DEF PathInv, RequestInv, SessionInv, SpendInv, SourceInv, Copying
  <2> QED
    BY <2>1, <2>3, PrivateStep
<1>12. ASSUME NEW r \in Requests, WriteAudit(r) PROVE PathInv'
  <2>1. UNCHANGED tables /\ pc[r] \notin Settled /\ Frame(r)
    BY <1>12 DEF WriteAudit, At, GoTo, Settled, TypeOK, account
  <2>2. /\ pc[r] = "audit" /\ pc'[r] = "commit" /\ source'[r] = source[r]
        /\ session'[r].searches = session[r].searches
        /\ session'[r].rows = session[r].rows
        /\ session'[r].audit = {NewAudit(r)}
        /\ searches' = searches /\ UNCHANGED <<req, reply, seen, charged>>
    BY <1>12 DEF WriteAudit, At, GoTo, TypeOK, tables, account
  <2>3. RequestInv(r)'
    BY <2>2, SameWrites DEF PathInv, RequestInv, SessionInv, SpendInv, SourceInv, Copying
  <2> QED
    BY <2>1, <2>3, PrivateStep
<1>13. ASSUME NEW r \in Requests, Commit(r) PROVE PathInv'
  <2>1. /\ pc' = [pc EXCEPT ![r] = pc'[r]] /\ pc'[r] \in Settled
        /\ session' = [session EXCEPT ![r] = NoWrites]
        /\ UNCHANGED <<charged, req, seen, source, reply>>
    BY <1>13 DEF Commit, GoTo, TypeOK, Settled, account
  <2> QED
    BY <1>13, <2>1, PublishStep DEF Commit
<1>14. ASSUME NEW r \in Requests, LostCommit(r) PROVE PathInv'
  <2>1. /\ pc' = [pc EXCEPT ![r] = pc'[r]] /\ pc'[r] \in Settled
        /\ session' = [session EXCEPT ![r] = NoWrites]
        /\ UNCHANGED <<charged, req, seen, source, reply>>
    BY <1>14 DEF LostCommit, Answer, GoTo, TypeOK, Settled, account
  <2> QED
    BY <1>14, <2>1, PublishStep DEF LostCommit
<1>15. ASSUME NEW r \in Requests, ReadLedger(r) PROVE PathInv'
  BY <1>15, SettledStep DEF ReadLedger, At, GoTo, Settled, TypeOK, account,
     PathInv, RequestInv, SessionInv
<1>16. ASSUME NEW r \in Requests, ReadProfile(r) PROVE PathInv'
  BY <1>16, SettledStep DEF ReadProfile, Answer, At, GoTo, Settled, TypeOK, account
<1>17. CASE Crash
  <2>1. /\ searches' = searches /\ UNCHANGED <<charged, req, seen, source, reply>>
        /\ \A q \in Requests : session'[q] = NoWrites
        /\ \A q \in Requests :
             pc'[q] = "done" \/ (pc'[q] = pc[q] /\ pc[q] = "idle")
    BY <1>17 DEF Crash, InFlight, TypeOK, tables, account
  <2>2. ASSUME NEW q \in Requests PROVE RequestInv(q)'
    BY <2>1, SameWrites DEF PathInv, RequestInv, SessionInv, SpendInv, SourceInv, Copying
  <2>3. CommittedInv'
    BY <2>1, CommittedStays DEF PathInv, Settled
  <2> QED
    BY <2>2, <2>3 DEF PathInv
<1>18. CASE Recharge \/ UNCHANGED vars
  <2>1. searches' = searches /\ UNCHANGED <<charged, pc, req, seen, source, reply, session>>
    BY <1>18 DEF Recharge, vars, tables
  <2>2. ASSUME NEW q \in Requests PROVE RequestInv(q)'
    BY <2>1, Bystander DEF PathInv
  <2>3. CommittedInv'
    BY <2>1, CommittedStays DEF PathInv
  <2> QED
    BY <2>2, <2>3 DEF PathInv
<1> QED
  BY <1>1, <1>2, <1>3, <1>4, <1>5, <1>6, <1>7, <1>8, <1>9, <1>10, <1>11,
     <1>12, <1>13, <1>14, <1>15, <1>16, <1>17, <1>18
  DEF Next, Step, Quiet

\* The invariant of the path holds in every reachable state: what a session
\* holds, what a request knew when it spent, and where committed searches come
\* from (run_search between its flushes, and the commit of the routes).
THEOREM PathCorrect == Spec => [](TypeOK /\ PathInv)
<1>1. Init => TypeOK /\ PathInv
  BY TypeInit, PathInit
<1>2. TypeOK /\ PathInv /\ [Next]_vars => (TypeOK /\ PathInv)'
  BY TypeStep, PathStep
<1> QED
  BY <1>1, <1>2, PTL DEF Spec

\* No request is charged for a query whose search was committed when it looked
\* in the cache, for any number of requests interleaved in any way.
THEOREM RepeatsAreFree == Spec => []RepeatIsFree
<1>1. TypeOK /\ PathInv => RepeatIsFree
  BY DEF TypeOK, PathInv, RequestInv, SpendInv, RepeatIsFree
<1> QED
  BY <1>1, PathCorrect, PTL

-----------------------------------------------------------------------------
(***************************************************************************)
(* All or nothing.  The tables change only when a request publishes, and   *)
(* what it publishes is the whole of its search or nothing but copies.     *)
(***************************************************************************)

\* Rows that no copy made and audit lines are those of committed searches.
WholeInv ==
    /\ \A o \in rows : \E s \in searches : s.id = o.search
    /\ \A o \in rows : o.via = <<>> => o \in NewRows(o.search)
    /\ \A s \in searches : NewRows(s.id) \subseteq rows
    /\ \A a \in audit : a = NewAudit(a.by) /\ \E s \in searches : s.id = a.by
    /\ \A s \in searches : NewAudit(s.id) \in audit

\* The tables are empty at the start, which is all or nothing.
LEMMA WholeInit == Init => WholeInv
  BY DEF Init, WholeInv

\* A step changes the tables only by publishing the session of a request.
LEMMA TablesStep ==
    ASSUME [Next]_vars
    PROVE  UNCHANGED tables \/ \E r \in Requests : Publish(r)
  BY DEF Next, Step, vars, tables, Quiet, Crash, Arrive, RejectField, LookupHit,
     LookupMiss, Look, FindExisting, CopyRows, CopyRefused, Serve, Refuse,
     ReceiveError, GuardRefuses, CreateSearch, CreateRefused, AddRecords,
     AddRefused, WriteAudit, Commit, Respond, ReadLedger, ReadProfile, DbError,
     LostCommit, Recharge, Fail

\* The question and the reply of a request that has published, or is about to,
\* are not written any more.
LEMMA StableWrites ==
    ASSUME TypeOK, [Next]_vars, NEW q \in Requests,
           pc[q] \in Settled \cup {"commit"}
    PROVE  req'[q] = req[q] /\ reply'[q] = reply[q]
<1>1. ASSUME NEW r \in Requests, Arrive(r) \/ RejectField(r) PROVE req'[q] = req[q] /\ reply'[q] = reply[q]
  BY <1>1 DEF Arrive, RejectField, At, Settled, TypeOK
<1>2. ASSUME NEW r \in Requests, Serve(r) \/ Refuse(r) PROVE req'[q] = req[q] /\ reply'[q] = reply[q]
  BY <1>2 DEF Serve, Refuse, At, Settled, TypeOK
<1>3. CASE UNCHANGED <<req, reply>>
  BY <1>3
<1> QED
  BY <1>1, <1>2, <1>3
  DEF Next, Step, vars, Quiet, Crash, LookupHit, LookupMiss, Look, FindExisting,
      CopyRows, CopyRefused, ReceiveError, GuardRefuses, CreateSearch,
      CreateRefused, AddRecords, AddRefused, WriteAudit, Commit, Respond,
      ReadLedger, ReadProfile, DbError, LostCommit, Recharge, Fail

\* So what a committed search stands for never changes.
LEMMA StableSearches ==
    ASSUME TypeOK, PathInv, [Next]_vars, NEW s \in searches
    PROVE  /\ s.id \in Requests
           /\ NewRows(s.id)' = NewRows(s.id)
           /\ NewAudit(s.id)' = NewAudit(s.id)
           /\ reply'[s.id] = reply[s.id]
<1>1. s.id \in Requests /\ pc[s.id] \in Settled
  BY DEF TypeOK, Search, PathInv, CommittedInv
<1>2. req'[s.id] = req[s.id] /\ reply'[s.id] = reply[s.id]
  BY <1>1, StableWrites
<1> QED
  BY <1>1, <1>2, SameWrites

\* Every step leaves the tables whole.
LEMMA WholeStep == TypeOK /\ PathInv /\ WholeInv /\ [Next]_vars => WholeInv'
<1> SUFFICES ASSUME TypeOK, PathInv, WholeInv, [Next]_vars PROVE WholeInv'
  OBVIOUS
<1>1. \A s \in searches : /\ NewRows(s.id)' = NewRows(s.id)
                          /\ NewAudit(s.id)' = NewAudit(s.id)
  BY StableSearches
<1>2. CASE UNCHANGED tables
  <2>1. searches' = searches /\ rows' = rows /\ audit' = audit
    BY <1>2 DEF tables
  <2>2. \A o \in rows : o.via = <<>> => o \in NewRows(o.search)'
    BY <1>1 DEF WholeInv
  <2>3. \A a \in audit : a = NewAudit(a.by)'
    BY <1>1 DEF WholeInv
  <2> QED
    BY <1>1, <2>1, <2>2, <2>3 DEF WholeInv
<1>3. ASSUME NEW r \in Requests, Publish(r), source[r] = r PROVE WholeInv'
  <2>1. /\ searches' = searches \cup {NewSearch(r)}
        /\ rows' = rows \cup NewRows(r) /\ audit' = audit \cup {NewAudit(r)}
    BY <1>3, Published
  <2>2. NewRows(r)' = NewRows(r) /\ NewAudit(r)' = NewAudit(r)
    BY <1>3, StableWrites, SameWrites DEF Publish, At
  <2>3. /\ NewSearch(r).id = r /\ NewAudit(r).by = r
        /\ \A o \in NewRows(r) : o.search = r
    BY DEF NewSearch, NewAudit, NewRows, NewRow
  <2>4. \A o \in rows' : \E s \in searches' : s.id = o.search
    BY <2>1, <2>3 DEF WholeInv
  <2>5. \A o \in rows' : o.via = <<>> => o \in NewRows(o.search)'
    BY <1>1, <2>1, <2>2, <2>3 DEF WholeInv
  <2>6. \A s \in searches' : NewRows(s.id)' \subseteq rows' /\ NewAudit(s.id)' \in audit'
    BY <1>1, <2>1, <2>2, <2>3 DEF WholeInv
  <2>7. \A a \in audit' : a = NewAudit(a.by)' /\ \E s \in searches' : s.id = a.by
    BY <1>1, <2>1, <2>2, <2>3 DEF WholeInv
  <2> QED
    BY <2>4, <2>5, <2>6, <2>7 DEF WholeInv
<1>4. ASSUME NEW r \in Requests, Publish(r), source[r] # r PROVE WholeInv'
  <2>1. /\ searches' = searches /\ audit' = audit
        /\ rows' = rows \cup session[r].rows
    BY <1>4, Published
  <2>2. /\ \A o \in session[r].rows : o.search = source[r] /\ o.via # <<>>
        /\ \E s \in searches : s.id = source[r]
    BY <1>4 DEF Publish, At, PathInv, RequestInv, SessionInv, SourceInv, Copying
  <2>3. \A o \in rows' : \E s \in searches' : s.id = o.search
    BY <2>1, <2>2 DEF WholeInv
  <2>4. \A o \in rows' : o.via = <<>> => o \in NewRows(o.search)'
    BY <1>1, <2>1, <2>2 DEF WholeInv
  <2>5. \A a \in audit : a = NewAudit(a.by)'
    BY <1>1 DEF WholeInv
  <2> QED
    BY <1>1, <2>1, <2>3, <2>4, <2>5 DEF WholeInv
<1> QED
  BY <1>2, <1>3, <1>4, TablesStep

\* The invariant says what SearchWholeOrAbsent says, row by row.
LEMMA WholeIsWhole == TypeOK /\ PathInv /\ WholeInv => SearchWholeOrAbsent
<1> SUFFICES ASSUME TypeOK, PathInv, WholeInv, NEW s \in searches
             PROVE  /\ {a \in audit : a.by = s.id} =
                         {[by |-> s.id, query |-> s.query, cost |-> s.cost]}
                    /\ {o \in RowsOf(s.id) : o.via = <<>>} =
                         {[search |-> s.id, index |-> i, via |-> <<>>,
                           target |-> s.target, entry |-> PageOf(s)[i]] :
                             i \in DOMAIN PageOf(s)}
  BY DEF WholeInv, SearchWholeOrAbsent
<1>1. s = NewSearch(s.id) /\ s.id \in Requests
  BY DEF PathInv, CommittedInv, TypeOK, Search
<1>2. NewAudit(s.id) = [by |-> s.id, query |-> s.query, cost |-> s.cost]
  BY <1>1 DEF NewAudit, NewSearch
<1>3. {a \in audit : a.by = s.id} = {NewAudit(s.id)}
  <2>1. NewAudit(s.id).by = s.id
    BY DEF NewAudit
  <2> QED
    BY <2>1 DEF WholeInv
<1>4. {o \in RowsOf(s.id) : o.via = <<>>} = NewRows(s.id)
  <2>1. \A o \in NewRows(s.id) : o.search = s.id /\ o.via = <<>>
    BY DEF NewRows, NewRow
  <2> QED
    BY <2>1 DEF WholeInv, RowsOf
<1>5. s.target = req[s.id].target
  BY <1>1 DEF NewSearch
<1>6. NewRows(s.id) = {[search |-> s.id, index |-> i, via |-> <<>>,
                        target |-> s.target, entry |-> PageOf(s)[i]] :
                          i \in DOMAIN PageOf(s)}
  BY <1>5 DEF NewRows, NewRow, PageOf
<1> QED
  BY <1>2, <1>3, <1>4, <1>6

\* Whole tables are an invariant, of every interleaving and every fault.
THEOREM WholeCorrect == Spec => [](TypeOK /\ PathInv /\ WholeInv)
<1>1. Init => WholeInv
  BY WholeInit
<1>2. TypeOK /\ PathInv /\ WholeInv /\ [Next]_vars => WholeInv'
  BY WholeStep
<1> QED
  BY <1>1, <1>2, PathCorrect, PTL DEF Spec

\* Whatever fails and whenever the process dies, a search is in the tables with
\* its whole page and its one audit line, or nothing of it is.
THEOREM AllOrNothing == Spec => []SearchWholeOrAbsent
  BY WholeIsWhole, WholeCorrect, PTL

-----------------------------------------------------------------------------
(***************************************************************************)
(* Complete answers.  A target that holds any row of a search holds its    *)
(* whole page: rows come under a target with a whole transaction only.     *)
(* That is why one existing row is enough for a hit to skip the copy.      *)
(***************************************************************************)

\* The table has every record of the page of search id under target t.
Covers(id, t, table) ==
    \A i \in DOMAIN FirstPage(reply[id].matches) :
        \E o \in table :
            /\ o.search = id /\ o.target = t
            /\ o.entry = FirstPage(reply[id].matches)[i]

\* The request has an answer, or is about to give one without another check.
Answering(r) ==
    pc[r] \in {"respond", "ledger", "profile"} \/ outcome[r] = "ok"

RowsCovered == \A o \in rows : Covers(o.search, o.target, rows)

RequestCovered(r) ==
    /\ (pc[r] = "commit" /\ source[r] # r) =>
         Covers(source[r], req[r].target, rows \cup session[r].rows)
    /\ Answering(r) =>
         /\ \E s \in searches : s.id = source[r] /\ s.key = KeyOf(r)
         /\ Covers(source[r], req[r].target, rows)
    /\ outcome[r] # "none" => pc[r] = "done"

CoverInv == RowsCovered /\ \A r \in Requests : RequestCovered(r)

\* Nothing needs to be covered at the start.
LEMMA CoverInit == Init => CoverInv
  BY DEF Init, CoverInv, RowsCovered, RequestCovered, Answering

\* A page once covered stays covered: tables only grow, replies are settled.
LEMMA CoverGrows ==
    ASSUME NEW id, NEW t, NEW table, NEW larger, table \subseteq larger,
           reply'[id] = reply[id], Covers(id, t, table)
    PROVE  Covers(id, t, larger)'
  BY DEF Covers

\* Rows and searches are never removed.
LEMMA TablesGrow ==
    ASSUME [Next]_vars
    PROVE  searches \subseteq searches' /\ rows \subseteq rows'
  BY TablesStep DEF Publish, tables

\* The page of a search covers itself, and a copy of all rows covers it too.
LEMMA PageCovers ==
    ASSUME NEW r \in Requests, NEW table, NewRows(r) \subseteq table
    PROVE  Covers(r, req[r].target, table)
<1> SUFFICES ASSUME NEW i \in DOMAIN FirstPage(reply[r].matches)
             PROVE  \E o \in table :
                      /\ o.search = r /\ o.target = req[r].target
                      /\ o.entry = FirstPage(reply[r].matches)[i]
  BY DEF Covers
<1>1. NewRow(r, i) \in table
  BY DEF NewRows
<1> QED
  BY <1>1 DEF NewRow

\* A copy of every row of a covered search covers its page for the new target.
LEMMA CopyCovers ==
    ASSUME TypeOK, PathInv, WholeInv, NEW r \in Requests, NEW s \in searches
    PROVE  Covers(s.id, req[r].target, {CopyOf(o, r) : o \in RowsOf(s.id)})
<1> SUFFICES ASSUME NEW i \in DOMAIN FirstPage(reply[s.id].matches)
             PROVE  \E c \in {CopyOf(o, r) : o \in RowsOf(s.id)} :
                      /\ c.search = s.id /\ c.target = req[r].target
                      /\ c.entry = FirstPage(reply[s.id].matches)[i]
  BY DEF Covers
<1>1. NewRow(s.id, i) \in NewRows(s.id)
  BY DEF NewRows
<1>2. NewRow(s.id, i) \in RowsOf(s.id)
  BY <1>1 DEF WholeInv, RowsOf, NewRow
<1> DEFINE c == CopyOf(NewRow(s.id, i), r)
<1>3. c \in {CopyOf(o, r) : o \in RowsOf(s.id)}
  BY <1>2
<1>4. /\ c.search = s.id /\ c.target = req[r].target
      /\ c.entry = FirstPage(reply[s.id].matches)[i]
  BY DEF CopyOf, NewRow
<1> HIDE DEF c
<1> QED
  BY <1>3, <1>4

\* Rows of a covered search: an existing row under the target is enough.
LEMMA ExistingCovers ==
    ASSUME CoverInv, NEW id, NEW t, RowsUnder(id, t) # {}
    PROVE  Covers(id, t, rows)
  BY DEF CoverInv, RowsCovered, RowsUnder

\* What a transaction that publishes leaves behind is covered.
LEMMA PublishCovers ==
    ASSUME TypeOK, PathInv, WholeInv, CoverInv, [Next]_vars,
           NEW r \in Requests, Publish(r),
           NEW id, NEW t, id = source[r], t = req[r].target
    PROVE  /\ \E s \in searches' : s.id = id /\ s.key = KeyOf(r)
           /\ Covers(id, t, rows)'
           /\ RowsCovered'
<1>1. pc[r] = "commit" /\ req'[r] = req[r] /\ reply'[r] = reply[r]
  BY StableWrites DEF Publish, At
<1>2. rows \subseteq rows' /\ searches \subseteq searches'
  BY TablesGrow
<1>3. ASSUME NEW o \in rows PROVE Covers(o.search, o.target, rows)'
  <2>1. \E s \in searches : s.id = o.search
    BY DEF WholeInv
  <2>2. reply'[o.search] = reply[o.search]
    BY <2>1, StableSearches
  <2> QED
    BY <1>2, <1>3, <2>2, CoverGrows DEF CoverInv, RowsCovered
<1>4. CASE source[r] = r
  <2>1. searches' = searches \cup {NewSearch(r)} /\ rows' = rows \cup NewRows(r)
    BY <1>4, Published
  <2>2. NewSearch(r).id = id /\ NewSearch(r).key = KeyOf(r)
    BY <1>4 DEF NewSearch
  <2>3. Covers(id, t, rows \cup NewRows(r))
    BY <1>4, PageCovers
  <2>4. Covers(id, t, rows)'
    BY <1>1, <1>4, <2>1, <2>3 DEF Covers
  <2>5. ASSUME NEW o \in NewRows(r) PROVE o.search = id /\ o.target = t
    BY <1>4 DEF NewRows, NewRow
  <2>6. \A o \in rows' : Covers(o.search, o.target, rows)'
    BY <1>3, <2>1, <2>4, <2>5
  <2> QED
    BY <2>1, <2>2, <2>4, <2>6 DEF RowsCovered
<1>5. CASE source[r] # r
  <2>1. searches' = searches /\ rows' = rows \cup session[r].rows
    BY <1>5, Published
  <2>2. PICK s \in searches : s.id = id /\ s.key = KeyOf(r)
    BY <1>1, <1>5 DEF PathInv, RequestInv, SourceInv, Copying
  <2>3. reply'[id] = reply[id]
    BY <2>2, StableSearches
  <2>4. Covers(id, t, rows \cup session[r].rows)
    BY <1>1, <1>5 DEF CoverInv, RequestCovered
  <2>5. Covers(id, t, rows)'
    BY <2>1, <2>3, <2>4 DEF Covers
  <2>6. ASSUME NEW o \in session[r].rows PROVE o.search = id /\ o.target = t
    BY <1>1, <1>5 DEF PathInv, RequestInv, SessionInv
  <2>7. \A o \in rows' : Covers(o.search, o.target, rows)'
    BY <1>3, <2>1, <2>5, <2>6
  <2> QED
    BY <2>1, <2>2, <2>5, <2>7 DEF RowsCovered
<1> QED
  BY <1>4, <1>5

\* Rows that are covered stay so, published or not.
LEMMA RowsStayCovered ==
    ASSUME TypeOK, PathInv, WholeInv, CoverInv, [Next]_vars
    PROVE  RowsCovered'
<1>1. CASE UNCHANGED tables
  <2>1. rows' = rows
    BY <1>1 DEF tables
  <2>2. ASSUME NEW o \in rows PROVE Covers(o.search, o.target, rows)'
    <3>1. \E s \in searches : s.id = o.search
      BY DEF WholeInv
    <3>2. reply'[o.search] = reply[o.search]
      BY <3>1, StableSearches
    <3> QED
      BY <2>1, <3>2, CoverGrows DEF CoverInv, RowsCovered
  <2> QED
    BY <2>1, <2>2 DEF RowsCovered
<1>2. ASSUME NEW r \in Requests, Publish(r) PROVE RowsCovered'
  <2> DEFINE id == source[r]
             t == req[r].target
  <2> QED
    BY <1>2, PublishCovers
<1> QED
  BY <1>1, <1>2, TablesStep

\* A request that does not move keeps its part, and so does one that only goes
\* on answering.
LEMMA StillCovered ==
    ASSUME TypeOK, PathInv, CoverInv, [Next]_vars, NEW q \in Requests,
           source'[q] = source[q], req'[q] = req[q],
           outcome'[q] \notin {"none", outcome[q]} => pc'[q] = "done",
           outcome[q] # "none" => pc'[q] = "done",
           Answering(q)' => Answering(q),
           pc'[q] = "commit" => pc[q] = "commit" /\ session'[q] = session[q]
    PROVE  RequestCovered(q)'
<1>1. rows \subseteq rows' /\ searches \subseteq searches'
  BY TablesGrow
<1>2. KeyOf(q)' = KeyOf(q)
  BY DEF KeyOf
<1>3. ASSUME NEW table, NEW larger, table \subseteq larger,
             \E s \in searches : s.id = source[q],
             Covers(source[q], req[q].target, table)
      PROVE  Covers(source[q], req[q].target, larger)'
  <2> DEFINE id == source[q]
             t == req[q].target
  <2>1. reply'[id] = reply[id]
    BY <1>3, StableSearches
  <2> QED
    BY <1>3, <2>1 DEF Covers
<1>4. ASSUME pc'[q] = "commit" /\ source'[q] # q
      PROVE  Covers(source[q], req[q].target, rows \cup session[q].rows)'
  <2>1. pc[q] = "commit" /\ source[q] # q /\ session'[q] = session[q]
    BY <1>4
  <2>2. \E s \in searches : s.id = source[q]
    BY <2>1 DEF PathInv, RequestInv, SourceInv, Copying
  <2>3. Covers(source[q], req[q].target, rows \cup session[q].rows)
    BY <2>1 DEF CoverInv, RequestCovered
  <2>4. rows \cup session[q].rows \subseteq rows' \cup session'[q].rows
    BY <1>1, <2>1
  <2> QED
    BY <1>3, <2>2, <2>3, <2>4
<1>5. ASSUME Answering(q)'
      PROVE  /\ \E s \in searches' : s.id = source'[q] /\ s.key = KeyOf(q)'
             /\ Covers(source[q], req[q].target, rows)'
  BY <1>1, <1>2, <1>3, <1>5 DEF CoverInv, RequestCovered
<1> QED
  BY <1>4, <1>5 DEF RequestCovered

\* Nothing is asked of a request that neither commits a copy nor answers "ok".
LEMMA NothingToCover ==
    ASSUME NEW q \in Requests,
           pc'[q] = "commit" => source'[q] = q,
           pc'[q] \notin {"respond", "ledger", "profile"},
           outcome'[q] # "ok", outcome'[q] # "none" => pc'[q] = "done"
    PROVE  RequestCovered(q)'
  BY DEF RequestCovered, Answering

\* Every step keeps what is answered, or about to be, covered.
LEMMA CoverStep == TypeOK /\ PathInv /\ WholeInv /\ CoverInv /\ [Next]_vars => CoverInv'
<1> SUFFICES ASSUME TypeOK, PathInv, WholeInv, CoverInv, [Next]_vars
             PROVE  \A q \in Requests : RequestCovered(q)'
  BY RowsStayCovered DEF CoverInv
<1> DEFINE Same(q) == /\ pc'[q] = pc[q] /\ req'[q] = req[q]
                      /\ source'[q] = source[q] /\ session'[q] = session[q]
                      /\ outcome'[q] = outcome[q]
<1>1. ASSUME NEW q \in Requests, Same(q) PROVE RequestCovered(q)'
  BY <1>1, StillCovered DEF CoverInv, RequestCovered, Answering
<1>2. ASSUME NEW r \in Requests, RequestCovered(r)',
             \A q \in Requests : q # r => Same(q)
      PROVE  \A q \in Requests : RequestCovered(q)'
  BY <1>1, <1>2
<1>3. ASSUME NEW r \in Requests, pc[r] # "done" PROVE outcome[r] = "none"
  BY <1>3 DEF CoverInv, RequestCovered
<1>4. ASSUME NEW r \in Requests, Arrive(r) \/ RejectField(r)
      PROVE  \A q \in Requests : RequestCovered(q)'
  <2>1. \A q \in Requests : q # r => Same(q)
    BY <1>4 DEF Arrive, RejectField, Answer, GoTo, TypeOK
  <2>2. RequestCovered(r)'
    BY <1>3, <1>4, NothingToCover DEF Arrive, RejectField, Answer, At, GoTo, TypeOK
  <2> QED
    BY <1>2, <2>1, <2>2
<1>5. ASSUME NEW r \in Requests, LookupHit(r) \/ LookupMiss(r)
      PROVE  \A q \in Requests : RequestCovered(q)'
  <2>1. \A q \in Requests : q # r => Same(q)
    BY <1>5 DEF LookupHit, LookupMiss, Look, GoTo, TypeOK
  <2>2. RequestCovered(r)'
    BY <1>3, <1>5, NothingToCover DEF LookupHit, LookupMiss, Look, At, GoTo, TypeOK
  <2> QED
    BY <1>2, <2>1, <2>2
<1>6. ASSUME NEW r \in Requests, FindExisting(r)
      PROVE  \A q \in Requests : RequestCovered(q)'
  <2>1. \A q \in Requests : q # r => Same(q)
    BY <1>6 DEF FindExisting, GoTo, TypeOK
  <2>2. /\ pc[r] = "existing" /\ pc'[r] \in {"commit", "copy"}
        /\ UNCHANGED <<req, source, reply, session, outcome, rows>>
        /\ pc'[r] = "commit" => RowsUnder(source[r], req[r].target) # {}
    <3>1. /\ pc[r] = "existing"
          /\ UNCHANGED <<req, source, reply, session, outcome, rows>>
      BY <1>6 DEF FindExisting, At, tables
    <3>2. CASE RowsUnder(source[r], req[r].target) # {}
      BY <1>6, <3>1, <3>2 DEF FindExisting, GoTo, TypeOK
    <3>3. CASE RowsUnder(source[r], req[r].target) = {}
      <4>1. pc' = [pc EXCEPT ![r] = "copy"]
        BY <1>6, <3>3 DEF FindExisting, GoTo
      <4> QED
        BY <3>1, <4>1 DEF TypeOK
    <3> QED
      BY <3>2, <3>3
  <2>3. CASE pc'[r] = "copy"
    <3>1. outcome'[r] = "none"
      BY <1>3, <2>2
    <3>2. RequestCovered(r)'
      BY <2>3, <3>1 DEF RequestCovered, Answering
    <3> QED
      BY <1>2, <2>1, <3>2
  <2>4. CASE pc'[r] = "commit"
    <3>1. Covers(source[r], req[r].target, rows)
      BY <2>2, <2>4, ExistingCovers
    <3>2. Covers(source[r], req[r].target, rows \cup session[r].rows)'
      BY <2>2, <3>1 DEF Covers
    <3>3. outcome'[r] = "none"
      BY <1>3, <2>2
    <3> QED
      BY <1>2, <2>1, <2>4, <3>2, <3>3 DEF RequestCovered, Answering
  <2> QED
    BY <1>2, <2>1, <2>2, <2>3, <2>4
<1>7. ASSUME NEW r \in Requests, CopyRows(r)
      PROVE  \A q \in Requests : RequestCovered(q)'
  <2>1. \A q \in Requests : q # r => Same(q)
    BY <1>7 DEF CopyRows, GoTo, TypeOK
  <2>2. /\ pc[r] = "copy" /\ pc'[r] = "commit"
        /\ UNCHANGED <<req, source, reply, outcome, rows>>
        /\ session'[r].rows = {CopyOf(o, r) : o \in RowsOf(source[r])}
    BY <1>7 DEF CopyRows, At, GoTo, TypeOK, tables
  <2>3. PICK s \in searches : s.id = source[r]
    BY <2>2 DEF PathInv, RequestInv, SourceInv, Copying
  <2>4. Covers(source[r], req[r].target, {CopyOf(o, r) : o \in RowsOf(source[r])})
    BY <2>3, CopyCovers
  <2>5. Covers(source[r], req[r].target, rows \cup session[r].rows)'
    BY <2>2, <2>4 DEF Covers
  <2>6. outcome'[r] = "none"
    BY <1>3, <2>2
  <2> QED
    BY <1>2, <2>1, <2>2, <2>5, <2>6 DEF RequestCovered, Answering
<1>8. ASSUME NEW r \in Requests,
             Serve(r) \/ Refuse(r) \/ CreateSearch(r) \/ AddRecords(r)
      PROVE  \A q \in Requests : RequestCovered(q)'
  <2>1. \A q \in Requests : q # r => Same(q)
    BY <1>8 DEF Serve, Refuse, CreateSearch, AddRecords, GoTo, TypeOK
  <2>2. /\ pc[r] # "done" /\ outcome' = outcome
        /\ pc'[r] \in {"reply", "records", "audit"}
    BY <1>8 DEF Serve, Refuse, CreateSearch, GuardPasses, AddRecords, At, GoTo, TypeOK
  <2> QED
    BY <1>2, <1>3, <2>1, <2>2, NothingToCover
<1>9. ASSUME NEW r \in Requests, WriteAudit(r)
      PROVE  \A q \in Requests : RequestCovered(q)'
  <2>1. \A q \in Requests : q # r => Same(q)
    BY <1>9 DEF WriteAudit, GoTo, TypeOK
  <2>2. /\ pc[r] = "audit" /\ outcome' = outcome /\ pc'[r] = "commit"
        /\ source' = source
    BY <1>9 DEF WriteAudit, At, GoTo, TypeOK
  <2>3. source'[r] = r
    BY <2>2 DEF PathInv, RequestInv, SessionInv
  <2> QED
    BY <1>2, <1>3, <2>1, <2>2, <2>3, NothingToCover
<1>10. ASSUME NEW r \in Requests, NEW status, status # "ok", Fail(r, status)
       PROVE  \A q \in Requests : RequestCovered(q)'
  <2>1. \A q \in Requests : q # r => Same(q)
    BY <1>10 DEF Fail, Answer, GoTo, TypeOK
  <2>2. RequestCovered(r)'
    BY <1>10, NothingToCover DEF Fail, Answer, GoTo, TypeOK
  <2> QED
    BY <1>2, <2>1, <2>2
<1>11. ASSUME NEW r \in Requests, Respond(r) \/ ReadLedger(r) \/ ReadProfile(r)
       PROVE  \A q \in Requests : RequestCovered(q)'
  <2>1. \A q \in Requests : q # r => Same(q)
    BY <1>11 DEF Respond, ReadLedger, ReadProfile, Fail, Answer, GoTo, TypeOK
  <2>2. /\ pc[r] \in {"respond", "ledger", "profile"}
        /\ UNCHANGED <<req, source>> /\ pc'[r] # "commit"
        /\ pc'[r] = "done" \/ outcome' = outcome
    BY <1>11 DEF Respond, ReadLedger, ReadProfile, Fail, Answer, At, GoTo, TypeOK
  <2>3. outcome[r] = "none" /\ Answering(r)
    BY <1>3, <2>2 DEF Answering
  <2>4. RequestCovered(r)'
    BY <2>2, <2>3, StillCovered
  <2> QED
    BY <1>2, <2>1, <2>4
<1>12. ASSUME NEW r \in Requests, Commit(r)
       PROVE  \A q \in Requests : RequestCovered(q)'
  <2>1. \A q \in Requests : q # r => Same(q)
    BY <1>12 DEF Commit, GoTo, TypeOK
  <2>2. /\ pc[r] = "commit" /\ pc'[r] \in {"respond", "ledger"}
        /\ UNCHANGED <<req, source, outcome>> /\ Publish(r)
    BY <1>12 DEF Commit, Publish, At, GoTo, TypeOK
  <2> DEFINE id == source[r]
             t == req[r].target
  <2>3. /\ \E s \in searches' : s.id = id /\ s.key = KeyOf(r)
        /\ Covers(id, t, rows)'
    BY <2>2, PublishCovers
  <2>4. KeyOf(r)' = KeyOf(r)
    BY <2>2 DEF KeyOf
  <2>5. outcome'[r] = "none"
    BY <1>3, <2>2
  <2>6. RequestCovered(r)'
    BY <2>2, <2>3, <2>4, <2>5 DEF RequestCovered
  <2> QED
    BY <1>2, <2>1, <2>6
<1>13. ASSUME NEW r \in Requests, LostCommit(r)
       PROVE  \A q \in Requests : RequestCovered(q)'
  <2>1. \A q \in Requests : q # r => Same(q)
    BY <1>13 DEF LostCommit, Answer, GoTo, TypeOK
  <2>2. RequestCovered(r)'
    BY <1>13, NothingToCover DEF LostCommit, Answer, GoTo, TypeOK
  <2> QED
    BY <1>2, <2>1, <2>2
<1>14. CASE Crash
  <2> SUFFICES ASSUME NEW q \in Requests PROVE RequestCovered(q)'
    OBVIOUS
  <2>1. CASE q \in InFlight
    BY <1>14, <2>1, NothingToCover DEF Crash
  <2>2. CASE q \notin InFlight
    <3>1. /\ pc'[q] = pc[q] /\ outcome'[q] = outcome[q] /\ pc[q] \in {"idle", "done"}
          /\ UNCHANGED <<req, source>>
      BY <1>14, <2>2 DEF Crash, InFlight
    <3>2. outcome[q] # "none" => pc[q] = "done"
      BY DEF CoverInv, RequestCovered
    <3> QED
      BY <3>1, <3>2, StillCovered DEF Answering
  <2> QED
    BY <2>1, <2>2
<1>15. CASE Recharge \/ UNCHANGED vars
  BY <1>1, <1>15 DEF Recharge, vars
<1> QED
  <2>1. \A surface, error : StatusOf(surface, error) # "ok"
    BY DEF StatusOf
  <2>2. ASSUME NEW r \in Requests,
               CopyRefused(r) \/ ReceiveError(r) \/ GuardRefuses(r)
                 \/ CreateRefused(r) \/ AddRefused(r) \/ DbError(r)
        PROVE  \E status : status # "ok" /\ Fail(r, status)
    BY <2>1, <2>2 DEF CopyRefused, ReceiveError, GuardRefuses, CreateRefused,
       AddRefused, DbError
  <2> QED
    BY <1>4, <1>5, <1>6, <1>7, <1>8, <1>9, <1>10, <1>11, <1>12, <1>13, <1>14,
       <1>15, <2>2
    DEF Next, Step, Quiet

\* Covered answers are an invariant: what FindExisting concludes from a single
\* row, and CopyRows from what it copied, holds until the answer and after it.
THEOREM CoverCorrect == Spec => [](TypeOK /\ PathInv /\ WholeInv /\ CoverInv)
<1>1. Init => CoverInv
  BY CoverInit
<1>2. TypeOK /\ PathInv /\ WholeInv /\ CoverInv /\ [Next]_vars => CoverInv'
  BY CoverStep
<1> QED
  BY <1>1, <1>2, WholeCorrect, PTL DEF Spec

\* Success is complete: the target named by the request holds every record of
\* the page of a search of its key, however the copies and fetches of other
\* requests fell between its statements.
THEOREM SuccessIsComplete == Spec => []AnsweredComplete
<1>1. CoverInv => AnsweredComplete
  <2> SUFFICES ASSUME CoverInv, NEW r \in Requests, outcome[r] = "ok"
               PROVE  \E s \in searches :
                        /\ s.id = source[r] /\ s.key = KeyOf(r)
                        /\ \A i \in DOMAIN PageOf(s) :
                             \E o \in RowsUnder(s.id, req[r].target) :
                               o.entry = PageOf(s)[i]
    BY DEF AnsweredComplete
  <2>1. PICK s \in searches : s.id = source[r] /\ s.key = KeyOf(r)
    BY DEF CoverInv, RequestCovered, Answering
  <2>2. Covers(s.id, req[r].target, rows)
    BY <2>1 DEF CoverInv, RequestCovered, Answering
  <2> QED
    BY <2>1, <2>2 DEF Covers, PageOf, RowsUnder
<1> QED
  BY <1>1, CoverCorrect, PTL
=============================================================================
