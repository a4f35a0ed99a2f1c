------------------------- MODULE SearchLedgerProofs -------------------------
(***************************************************************************)
(* The search path implements SearchLedger: whatever statements, faults    *)
(* and interleavings a request is made of, clients and tables see one      *)
(* effect at most, and answers that tell it.                               *)
(***************************************************************************)
EXTENDS SearchAnswersProofs, FunctionTheorems, FiniteSetTheorems

-----------------------------------------------------------------------------
(***************************************************************************)
(* Copies are true: what a transaction copies, and what the tables hold,   *)
(* are records of the page of the search they are filed under.             *)
(***************************************************************************)

PageEntries(id) ==
    {FirstPage(reply[id].matches)[i] : i \in DOMAIN FirstPage(reply[id].matches)}

CopyInv ==
    /\ \A o \in rows : o.entry \in PageEntries(o.search)
    /\ \A r \in Requests : (pc[r] = "commit" /\ source[r] # r) =>
         \A o \in session[r].rows :
             /\ o.via # <<>> /\ o.via[Len(o.via)] = r
             /\ o.entry \in PageEntries(source[r])

LEMMA CopyInit == Init => CopyInv
  BY DEF Init, CopyInv

\* A transaction comes to its commit by a copy, by finding that there is
\* nothing to copy, or by its audit line.
LEMMA CommitSteps ==
    ASSUME TypeOK, [Next]_vars, NEW q \in Requests, pc'[q] = "commit"
    PROVE  \/ pc[q] = "commit" /\ UNCHANGED <<source[q], session[q]>>
           \/ CopyRows(q) \/ FindExisting(q) \/ WriteAudit(q)
<1> DEFINE Same == pc[q] = "commit" /\ UNCHANGED <<source[q], session[q]>>
<1>1. ASSUME NEW r \in Requests, NEW status, Answer(r, status),
             r # q => source'[q] = source[q]
      PROVE  Same
  BY <1>1 DEF Answer, GoTo, TypeOK
<1>2. ASSUME NEW r \in Requests, NEW place, GoTo(r, place), place # "commit",
             r # q => UNCHANGED <<source[q], session[q]>>
      PROVE  Same
  BY <1>2 DEF GoTo, TypeOK
<1>3. ASSUME NEW r \in Requests, r # q,
             CopyRows(r) \/ FindExisting(r) \/ WriteAudit(r)
      PROVE  Same
  BY <1>3 DEF CopyRows, FindExisting, WriteAudit, GoTo, TypeOK
<1> HIDE DEF Same
<1>4. ASSUME NEW r \in Requests,
             \/ RejectField(r) \/ CopyRefused(r) \/ ReceiveError(r)
             \/ GuardRefuses(r) \/ CreateRefused(r) \/ AddRefused(r)
             \/ Respond(r) \/ ReadProfile(r) \/ DbError(r) \/ LostCommit(r)
      PROVE  Same
  <2>1. source' = source /\ \E status : Answer(r, status)
    BY <1>4 DEF RejectField, CopyRefused, ReceiveError, GuardRefuses,
                CreateRefused, AddRefused, Respond, ReadProfile, DbError,
                LostCommit, Fail
  <2> QED
    BY <1>1, <2>1
<1>5. ASSUME NEW r \in Requests,
             \/ Arrive(r) \/ LookupHit(r) \/ LookupMiss(r) \/ Serve(r)
             \/ Refuse(r) \/ CreateSearch(r) \/ AddRecords(r) \/ Commit(r)
             \/ ReadLedger(r)
      PROVE  Same
  <2>1. \E place \in {"lookup", "existing", "call", "reply", "records", "audit",
                      "respond", "ledger", "profile"} : GoTo(r, place)
    BY <1>5 DEF Arrive, LookupHit, LookupMiss, Serve, Refuse, CreateSearch,
                AddRecords, Commit, ReadLedger
  <2>2. r # q => source'[q] = source[q]
    BY <1>5 DEF Arrive, LookupHit, LookupMiss, Look, Serve, Refuse,
                CreateSearch, AddRecords, Commit, ReadLedger, TypeOK
  <2>3. r # q => session'[q] = session[q]
    BY <1>5 DEF Arrive, LookupHit, LookupMiss, Look, Serve, Refuse,
                CreateSearch, AddRecords, Commit, ReadLedger, TypeOK
  <2> QED
    BY <1>2, <2>1, <2>2, <2>3
<1>6. ASSUME Crash PROVE FALSE
  BY <1>6 DEF Crash, InFlight
<1>7. ASSUME Recharge \/ UNCHANGED vars PROVE Same
  BY <1>7 DEF Recharge, vars, Same
<1>8. Same \/ CopyRows(q) \/ FindExisting(q) \/ WriteAudit(q)
  BY <1>3, <1>4, <1>5, <1>6, <1>7 DEF Next, Step, Quiet
<1> QED
  BY <1>8 DEF Same

\* The page of a committed search is what it was.
LEMMA PageStays ==
    ASSUME TypeOK, PathInv, [Next]_vars, NEW id, \E s \in searches : s.id = id
    PROVE  PageEntries(id)' = PageEntries(id)
<1>1. PICK s \in searches : s.id = id
  OBVIOUS
<1>2. reply'[s.id] = reply[s.id]
  BY StableSearches
<1> QED
  BY <1>1, <1>2 DEF PageEntries

LEMMA CopyStep ==
    TypeOK /\ PathInv /\ WholeInv /\ CopyInv /\ [Next]_vars => CopyInv'
<1> SUFFICES ASSUME TypeOK, PathInv, WholeInv, CopyInv, [Next]_vars
             PROVE  CopyInv'
  OBVIOUS
<1>1. ASSUME NEW o \in rows PROVE o.entry \in PageEntries(o.search)'
  <2>1. \E s \in searches : s.id = o.search
    BY DEF WholeInv
  <2> QED
    BY <2>1, PageStays DEF CopyInv
<1>2. ASSUME NEW r \in Requests, Publish(r), NEW o \in rows', o \notin rows
      PROVE  o.entry \in PageEntries(o.search)'
  <2>1. pc[r] = "commit"
    BY <1>2 DEF Publish, At
  <2>2. CASE source[r] = r
    <3>1. o \in NewRows(r)
      BY <1>2, <2>2, Published
    <3>2. o.search = r /\ o.entry \in PageEntries(r)
      BY <3>1 DEF NewRows, NewRow, PageEntries
    <3>3. reply'[r] = reply[r]
      BY <2>1, StableWrites
    <3> QED
      BY <3>2, <3>3 DEF PageEntries
  <2>3. CASE source[r] # r
    <3>1. o \in session[r].rows
      BY <1>2, <2>3, Published
    <3>2. o.search = source[r] /\ o.entry \in PageEntries(source[r])
      BY <2>1, <2>3, <3>1 DEF PathInv, RequestInv, SessionInv, CopyInv
    <3>3. \E s \in searches : s.id = source[r]
      BY <2>1, <2>3 DEF PathInv, RequestInv, SourceInv, Copying
    <3> QED
      BY <3>2, <3>3, PageStays
  <2> QED
    BY <2>2, <2>3
<1>3. ASSUME NEW o \in rows' PROVE o.entry \in PageEntries(o.search)'
  <2>1. o \in rows \/ \E r \in Requests : Publish(r)
    BY <1>3, TablesStep DEF tables
  <2> QED
    BY <1>1, <1>2, <1>3, <2>1
<1>4. ASSUME NEW r \in Requests, pc'[r] = "commit", source'[r] # r,
             NEW o \in session'[r].rows
      PROVE  /\ o.via # <<>> /\ o.via[Len(o.via)] = r
             /\ o.entry \in PageEntries(source[r])' /\ source'[r] = source[r]
  <2>1. ASSUME Copying(r)
        PROVE  PageEntries(source[r])' = PageEntries(source[r])
                 \/ source'[r] # source[r]
    BY <2>1, PageStays DEF PathInv, RequestInv, SourceInv
  <2>2. CASE pc[r] = "commit" /\ UNCHANGED <<source[r], session[r]>>
    <3>1. /\ o.via # <<>> /\ o.via[Len(o.via)] = r
          /\ o.entry \in PageEntries(source[r])
      BY <1>4, <2>2 DEF CopyInv
    <3> QED
      BY <1>4, <2>1, <2>2, <3>1 DEF Copying
  <2>3. CASE CopyRows(r)
    <3>1. /\ pc[r] = "copy" /\ source' = source
          /\ session'[r].rows = {CopyOf(p, r) : p \in RowsOf(source[r])}
      BY <2>3 DEF CopyRows, At, TypeOK
    <3>2. PICK p \in RowsOf(source[r]) : o = CopyOf(p, r)
      BY <1>4, <3>1
    <3>3. /\ p \in rows /\ p.search = source[r] /\ p.via \in Seq(Requests)
      BY DEF RowsOf, TypeOK, Row
    <3>4. o.via = Append(p.via, r) /\ o.entry = p.entry
      BY <3>2 DEF CopyOf
    <3>5. o.via # <<>> /\ o.via[Len(o.via)] = r
      BY <3>3, <3>4
    <3>6. o.entry \in PageEntries(source[r])
      BY <3>3, <3>4 DEF CopyInv
    <3> QED
      BY <2>1, <3>1, <3>5, <3>6 DEF Copying
  <2>4. CASE FindExisting(r)
    <3>1. pc[r] = "existing" /\ session' = session
      BY <2>4 DEF FindExisting, At
    <3>2. session[r].rows = {}
      BY <3>1 DEF PathInv, RequestInv, SessionInv, NoWrites
    <3> QED
      BY <1>4, <3>1, <3>2
  <2>5. CASE WriteAudit(r)
    BY <1>4, <2>5 DEF WriteAudit, At, PathInv, RequestInv, SessionInv
  <2> QED
    BY <1>4, <2>2, <2>3, <2>4, <2>5, CommitSteps
<1> QED
  BY <1>3, <1>4 DEF CopyInv

-----------------------------------------------------------------------------
(* What the abstract ledger sees of a state *)

\* A request without a commit has put its name nowhere.
LEMMA NoAuthor ==
    ASSUME WholeInv, TraceInv, NEW r \in Requests, pc[r] \notin Settled
    PROVE  r \notin Ledger!Authors
<1>1. \A s \in searches : s.id # r
  BY DEF TraceInv, Kept
<1>2. /\ \A o \in rows : o.search # r
      /\ \A a \in audit : a.by # r
  BY <1>1 DEF WholeInv
<1>3. \A o \in rows : \A i \in DOMAIN o.via : o.via[i] # r
  BY DEF TraceInv, Kept
<1> QED
  BY <1>1, <1>2, <1>3 DEF Ledger!Authors

\* Rows that no copy made are the page of their search; copies add nothing.
LEMMA LedgerPage ==
    ASSUME WholeInv, NEW s \in searches, NEW table, rows \subseteq table,
           \A o \in table \ rows : o.via # <<>>
    PROVE  Ledger!PageOf(s, table) = PageEntries(s.id)
<1>1. ASSUME NEW o \in table, o.search = s.id, o.via = <<>>
      PROVE  o.entry \in PageEntries(s.id)
  <2>1. o \in NewRows(s.id)
    BY <1>1 DEF WholeInv
  <2> QED
    BY <2>1 DEF NewRows, NewRow, PageEntries
<1>2. ASSUME NEW i \in DOMAIN FirstPage(reply[s.id].matches)
      PROVE  FirstPage(reply[s.id].matches)[i] \in Ledger!PageOf(s, table)
  <2>1. NewRow(s.id, i) \in table
    BY <1>2 DEF WholeInv, NewRows
  <2>2. /\ NewRow(s.id, i).search = s.id /\ NewRow(s.id, i).via = <<>>
        /\ NewRow(s.id, i).entry = FirstPage(reply[s.id].matches)[i]
    BY DEF NewRow
  <2> QED
    BY <2>1, <2>2 DEF Ledger!PageOf
<1>3. Ledger!PageOf(s, table) \subseteq PageEntries(s.id)
  BY <1>1 DEF Ledger!PageOf
<1> QED
  BY <1>2, <1>3 DEF PageEntries

\* A target that covers the page of a search holds it.
LEMMA LedgerHolds ==
    ASSUME WholeInv, NEW s \in searches, NEW t, NEW table, rows \subseteq table,
           \A o \in table \ rows : o.via # <<>>, Covers(s.id, t, table)
    PROVE  Ledger!Holds(t, s, table)
<1>1. Ledger!PageOf(s, table) = PageEntries(s.id)
  BY LedgerPage
<1>2. \A e \in PageEntries(s.id) : \E o \in table :
        o.search = s.id /\ o.target = t /\ o.entry = e
  BY DEF Covers, PageEntries
<1> QED
  BY <1>1, <1>2 DEF Ledger!Holds

\* Sets are counted alike on both sides.
LEMMA SameCount ==
    ASSUME NEW S
    PROVE  Ledger!Cardinality(S) = Cardinality(S)
  BY DEF Ledger!Cardinality, Cardinality

\* The new rows of a request are as many as the entries of its page.
LEMMA NewRowsCount ==
    ASSUME TypeOK, NEW r \in Requests
    PROVE  /\ DOMAIN FirstPage(reply[r].matches) = 1 .. Cardinality(NewRows(r))
           /\ Cardinality(NewRows(r)) \in Nat
<1> DEFINE m == reply[r].matches
           n == IF Len(m) <= PageSize THEN Len(m) ELSE PageSize
           f == [i \in 1 .. n |-> NewRow(r, i)]
<1>1. m \in Seq(Contents) /\ Len(m) \in Nat /\ PageSize \in Nat
  BY ConstantsAssumption DEF ConstantsOK, TypeOK
<1>2. n \in Nat /\ n <= Len(m)
  BY <1>1
<1>3. DOMAIN FirstPage(m) = 1 .. n
  BY DEF FirstPage
<1>4. IsFiniteSet(1 .. n) /\ Cardinality(1 .. n) = n
  BY <1>2, FS_Interval
<1>5. f \in Bijection(1 .. n, NewRows(r))
  <2>1. f \in [1 .. n -> NewRows(r)]
    BY <1>3 DEF NewRows
  <2>2. \A i, j \in 1 .. n : f[i] = f[j] => i = j
    BY DEF NewRow
  <2>3. \A o \in NewRows(r) : \E i \in 1 .. n : f[i] = o
    BY <1>3 DEF NewRows
  <2> HIDE DEF f, n
  <2> QED
    BY <2>1, <2>2, <2>3, Fun_IsBij
<1>6. Cardinality(NewRows(r)) = n
  <2> HIDE DEF f, n
  <2>1. ExistsBijection(1 .. n, NewRows(r))
    BY <1>5, Fun_ExistsBij
  <2> QED
    BY <1>4, <2>1, FS_Bijection
<1> QED
  BY <1>2, <1>3, <1>6

-----------------------------------------------------------------------------
(* The steps *)

\* What the abstract ledger knows of the questions: those that have arrived.
Asked == [r \in Requests |-> IF pc[r] = "idle" THEN NoSearch ELSE req[r]]

LedgerInv == TypeOK /\ PathInv /\ WholeInv /\ CoverInv /\ TraceInv /\ CopyInv

LEMMA LedgerInit == Init => Ledger!Init
  BY DEF Init, Ledger!Init

\* A question that has arrived is an ask, and its key is the same on both sides.
LEMMA AskedIs ==
    ASSUME TypeOK, NEW r \in Requests, pc[r] # "idle"
    PROVE  /\ Asked[r] = req[r] /\ Asked[r] # NoSearch
           /\ Ledger!KeyOf(r) = KeyOf(r)
           /\ outcome[r] = "none" => Ledger!Open(r)
  BY ConstantsAssumption
  DEF ConstantsOK, TypeOK, Asked, KeyOf, Ledger!KeyOf, Ledger!Open

\* Questions stay where a request that has arrived moves.
LEMMA AskedStays ==
    ASSUME TypeOK, NEW r \in Requests, NEW place, pc[r] # "idle",
           place # "idle", GoTo(r, place), req' = req
    PROVE  Asked' = Asked
  BY DEF TypeOK, Asked, GoTo

\* A request arrives, and may be refused at once.
LEMMA LedgerTakes ==
    ASSUME LedgerInv, NEW r \in Requests, Arrive(r) \/ RejectField(r)
    PROVE  Ledger!Next
<1>1. /\ pc[r] = "idle" /\ outcome[r] = "none" /\ UNCHANGED tables
      /\ r \notin Ledger!Authors
  BY NoAuthor DEF LedgerInv, TraceInv, Arrive, RejectField, At, Settled
<1>2. PICK a \in Ask : /\ req' = [req EXCEPT ![r] = a]
                       /\ pc' = [pc EXCEPT ![r] = pc'[r]] /\ pc'[r] # "idle"
                       /\ \/ outcome' = outcome
                          \/ outcome' = [outcome EXCEPT ![r] = "422"]
                          \/ outcome' = [outcome EXCEPT ![r] = "500"]
  <2>1. CASE Arrive(r)
    BY <2>1 DEF Arrive, GoTo, LedgerInv, TypeOK
  <2>2. CASE RejectField(r)
    <3>1. PICK a \in Ask : /\ req' = [req EXCEPT ![r] = a]
                           /\ Answer(r, IF a.surface = "v1" THEN "422" ELSE "500")
      BY <2>2 DEF RejectField
    <3> QED
      BY <3>1 DEF Answer, GoTo, LedgerInv, TypeOK
  <2> QED
    BY <2>1, <2>2
<1>3. /\ Asked[r] = NoSearch /\ Asked' = [Asked EXCEPT ![r] = a]
      /\ Asked'[r] # NoSearch
  BY <1>1, <1>2, ConstantsAssumption DEF ConstantsOK, LedgerInv, TypeOK, Asked
<1>4. Ledger!Take(r)
  BY <1>1, <1>3 DEF Ledger!Take, Asked, tables, Ledger!tables
<1>5. outcome' = outcome \/ Ledger!GiveUp(r)
  BY <1>1, <1>2, <1>3 DEF Ledger!GiveUp, Asked, Statuses, Refusals
<1> QED
  BY <1>4, <1>5 DEF Ledger!Next

\* A request that fails before its commit is given up, refused or not; after
\* it, it is given up without a refusal.
LEMMA LedgerGivesUp ==
    ASSUME LedgerInv, NEW r \in Requests, NEW status,
           status \in Statuses \ {"none", "ok"}, pc[r] \notin {"idle", "done"},
           status \in Refusals => pc[r] \notin Settled,
           Answer(r, status), UNCHANGED <<tables, req>>
    PROVE  Ledger!Next
<1>1. Asked' = Asked /\ Asked[r] # NoSearch /\ outcome[r] = "none"
  BY AskedIs, AskedStays DEF LedgerInv, TraceInv, Answer
<1>2. status \in Refusals => r \notin Ledger!Authors
  BY NoAuthor DEF LedgerInv
<1>3. Ledger!GiveUp(r)
  BY <1>1, <1>2 DEF Ledger!GiveUp, Asked, Answer
<1> QED
  BY <1>1, <1>3 DEF Ledger!Next, Asked, tables, Ledger!tables

\* A request that is told of success has a search of its key, whose page its
\* target holds.
LEMMA LedgerSucceeds ==
    ASSUME LedgerInv, NEW r \in Requests, Respond(r) \/ ReadProfile(r)
    PROVE  Ledger!Next
<1>1. /\ pc[r] \in {"respond", "profile"} /\ UNCHANGED <<tables, req>>
      /\ Answer(r, "ok")
  BY DEF Respond, ReadProfile, Fail, At
<1>2. PICK s \in searches : s.id = source[r] /\ s.key = KeyOf(r)
  BY <1>1 DEF LedgerInv, CoverInv, RequestCovered, Answering
<1>3. Covers(s.id, req[r].target, rows)
  BY <1>1, <1>2 DEF LedgerInv, CoverInv, RequestCovered, Answering
<1>4. Ledger!Holds(req[r].target, s, rows)
  BY <1>3, LedgerHolds DEF LedgerInv
<1>5. /\ Asked' = Asked /\ Asked[r] = req[r] /\ Ledger!Open(r)
      /\ Ledger!KeyOf(r) = KeyOf(r)
  BY <1>1, AskedIs, AskedStays DEF LedgerInv, TraceInv, Answer
<1>6. Ledger!Succeed(r)
  BY <1>1, <1>2, <1>4, <1>5 DEF Ledger!Succeed, Asked, Answer, tables, Ledger!tables
<1> QED
  BY <1>6 DEF Ledger!Next

\* A transaction publishes a search with its page and its audit line, or the
\* copies of a page, or nothing.
LEMMA LedgerPublishes ==
    ASSUME LedgerInv, NEW r \in Requests, Publish(r), Asked' = Asked
    PROVE  UNCHANGED tables \/ Ledger!PublishSearch(r) \/ Ledger!PublishCopies(r)
<1>1. /\ pc[r] = "commit" /\ outcome[r] = "none"
  BY DEF Publish, At, LedgerInv, TraceInv
<1>2. /\ Ledger!Open(r) /\ r \notin Ledger!Authors
      /\ Asked[r] = req[r] /\ Ledger!KeyOf(r) = KeyOf(r)
  BY <1>1, NoAuthor, AskedIs DEF LedgerInv, Settled
<1>3. CASE source[r] = r
  <2> DEFINE s == NewSearch(r)
             new == rows' \ rows
  <2>1. /\ searches' = searches \cup {s} /\ rows' = rows \cup NewRows(r)
        /\ audit' = audit \cup {NewAudit(r)} /\ \A t \in searches : t.id # r
    BY <1>3, Published DEF LedgerInv
  <2>2. \A o \in NewRows(r) : o \notin rows
    <3>1. \A o \in NewRows(r) : o.search = r
      BY DEF NewRows, NewRow
    <3> QED
      BY <2>1, <3>1 DEF LedgerInv, WholeInv
  <2>3. new = NewRows(r)
    BY <2>1, <2>2
  <2>4. /\ s.id = r /\ s.target = req[r].target /\ s.query = req[r].query
        /\ s.key = KeyOf(r) /\ s.cost = CostOf(reply[r].total)
        /\ NewAudit(r) = [by |-> r, query |-> s.query, cost |-> s.cost]
    BY DEF NewSearch, NewAudit
  <2>5. s.cost \in Nat \ {0}
    <3>1. reply[r].total \in Nat
      BY DEF LedgerInv, TypeOK
    <3> QED
      BY <2>4, <3>1, CostType
  <2>6. ASSUME NEW o \in new
        PROVE  /\ o.search = r /\ o.target = req[r].target /\ o.via = <<>>
               /\ o.index \in 1 .. Cardinality(new)
    <3>1. PICK i \in DOMAIN FirstPage(reply[r].matches) : o = NewRow(r, i)
      BY <2>3 DEF NewRows
    <3>2. i \in 1 .. Cardinality(new)
      BY <2>3, NewRowsCount DEF LedgerInv
    <3> QED
      BY <3>1, <3>2 DEF NewRow
  <2> HIDE DEF s, new
  <2>7. \E t \in searches' :
          /\ searches' = searches \cup {t}
          /\ t.id = r /\ t.target = Asked[r].target /\ t.query = Asked[r].query
          /\ t.key = Ledger!KeyOf(r)
          /\ audit' = audit \cup {[by |-> r, query |-> t.query, cost |-> t.cost]}
          /\ t.cost \in Nat \ {0}
    BY <1>2, <2>1, <2>4, <2>5
  <2>8. Ledger!PublishSearch(r)
    BY <1>2, <2>1, <2>6, <2>7, SameCount
    DEF Ledger!PublishSearch, Asked, new
  <2> QED
    BY <2>8
<1>4. CASE source[r] # r /\ rows' # rows
  <2>1. /\ searches' = searches /\ audit' = audit
        /\ rows' = rows \cup session[r].rows
    BY <1>4, Published DEF LedgerInv
  <2>2. PICK s \in searches : s.id = source[r] /\ s.key = KeyOf(r)
    BY <1>1, <1>4 DEF LedgerInv, PathInv, RequestInv, SourceInv, Copying
  <2>3. ASSUME NEW o \in session[r].rows
        PROVE  /\ o.search = s.id /\ o.target = req[r].target
               /\ o.via # <<>> /\ o.via[Len(o.via)] = r
               /\ o.entry \in PageEntries(s.id)
    BY <1>1, <1>4, <2>2
    DEF LedgerInv, PathInv, RequestInv, SessionInv, CopyInv
  <2>4. Ledger!PageOf(s, rows) = PageEntries(s.id)
    BY LedgerPage DEF LedgerInv
  <2>5. Covers(s.id, req[r].target, rows')
    BY <1>1, <1>4, <2>1, <2>2 DEF LedgerInv, CoverInv, RequestCovered
  <2>6. Ledger!Holds(req[r].target, s, rows')
    BY <2>1, <2>3, <2>5, LedgerHolds DEF LedgerInv
  <2>7. Ledger!PublishCopies(r)
    BY <1>2, <1>4, <2>1, <2>2, <2>3, <2>4, <2>6 DEF Ledger!PublishCopies, Asked
  <2> QED
    BY <2>7
<1>5. CASE source[r] # r /\ rows' = rows
  BY <1>5, Published DEF LedgerInv, tables
<1> QED
  BY <1>3, <1>4, <1>5

\* Every step is one of the abstract ledger, or invisible in it.
LEMMA LedgerStep == LedgerInv /\ [Next]_vars => [Ledger!Next]_(Ledger!vars)
<1> SUFFICES ASSUME LedgerInv, [Next]_vars
             PROVE  [Ledger!Next]_(Ledger!vars)
  OBVIOUS
<1>1. TypeOK
  BY DEF LedgerInv
<1>2. ASSUME Asked' = Asked, UNCHANGED <<tables, outcome>>
      PROVE  UNCHANGED Ledger!vars
  BY <1>2 DEF Asked, tables, Ledger!vars
<1> HIDE DEF Ledger!vars
<1>3. ASSUME NEW r \in Requests,
             \/ LookupHit(r) \/ LookupMiss(r) \/ FindExisting(r) \/ CopyRows(r)
             \/ Serve(r) \/ Refuse(r) \/ CreateSearch(r) \/ AddRecords(r)
             \/ WriteAudit(r) \/ ReadLedger(r)
      PROVE  UNCHANGED Ledger!vars
  <2>1. /\ pc[r] # "idle" /\ UNCHANGED <<tables, outcome>> /\ req' = req
        /\ \E place \in {"existing", "copy", "call", "commit", "reply",
                         "records", "audit", "profile"} : GoTo(r, place)
    BY <1>3 DEF LookupHit, LookupMiss, Look, FindExisting, CopyRows, Serve,
                Refuse, CreateSearch, GuardPasses, AddRecords, WriteAudit,
                ReadLedger, At
  <2> QED
    BY <1>1, <1>2, <2>1, AskedStays
<1>4. ASSUME NEW r \in Requests,
             \/ CopyRefused(r) \/ ReceiveError(r) \/ GuardRefuses(r)
             \/ CreateRefused(r) \/ AddRefused(r)
      PROVE  Ledger!Next
  <2>1. /\ pc[r] \in {"copy", "reply", "records"}
        /\ \E status \in Refusals \cup {"500"} : Fail(r, status)
    BY <1>4, StatusType DEF CopyRefused, ReceiveError, GuardRefuses,
                CreateRefused, AddRefused, GuardPasses, At
  <2> QED
    BY <2>1, LedgerGivesUp DEF Fail, Settled, Statuses, Refusals
<1>5. ASSUME NEW r \in Requests, DbError(r) PROVE Ledger!Next
  BY <1>5, LedgerGivesUp DEF DbError, GuardPasses, At, Fail, Statuses, Refusals
<1>6. ASSUME NEW r \in Requests, Commit(r) \/ LostCommit(r)
      PROVE  Ledger!Next \/ UNCHANGED Ledger!vars
  <2>1. Publish(r) /\ pc[r] = "commit" /\ req' = req
    BY <1>6 DEF Commit, LostCommit, Publish, At
  <2>2. \E place \in {"respond", "ledger", "done"} : GoTo(r, place)
    BY <1>6 DEF Commit, LostCommit, Answer
  <2>3. Asked' = Asked
    BY <1>1, <2>1, <2>2, AskedStays
  <2>4. \/ outcome' = outcome
        \/ LostCommit(r) /\ outcome' = [outcome EXCEPT ![r] = "500"]
    BY <1>6 DEF Commit, LostCommit, Answer
  <2>5. CASE Ledger!PublishSearch(r) \/ Ledger!PublishCopies(r)
    BY <2>4, <2>5 DEF Ledger!Next
  <2>6. CASE UNCHANGED tables /\ outcome' = outcome
    BY <1>2, <2>3, <2>6
  <2>7. CASE UNCHANGED tables /\ LostCommit(r)
    BY <2>1, <2>7, LedgerGivesUp DEF LostCommit, Statuses, Refusals
  <2> QED
    BY <2>1, <2>3, <2>4, <2>5, <2>6, <2>7, LedgerPublishes
<1>7. ASSUME Crash PROVE Ledger!Next
  <2>1. \A r \in Requests : outcome[r] # "none" => pc[r] = "done"
    BY DEF LedgerInv, TraceInv
  <2>2. Asked' = Asked
    BY <1>1, <1>7 DEF Crash, InFlight, Asked
  <2>3. ASSUME NEW r \in Requests PROVE r \in InFlight <=> Ledger!Open(r)
    <3>1. pc[r] \notin {"idle", "done"} => Ledger!Open(r)
      BY <1>1, <2>1, AskedIs
    <3>2. Ledger!Open(r) => pc[r] # "idle" /\ outcome[r] = "none"
      BY DEF Ledger!Open
    <3>3. pc[r] = "done" => outcome[r] # "none"
      BY DEF LedgerInv, TraceInv
    <3> QED
      BY <3>1, <3>2, <3>3 DEF InFlight
  <2>4. Ledger!Drop
    BY <1>7, <2>2, <2>3 DEF Crash, Ledger!Drop, Asked, tables, Ledger!tables
  <2> QED
    BY <2>4 DEF Ledger!Next
<1>8. ASSUME Recharge \/ UNCHANGED vars PROVE UNCHANGED Ledger!vars
  BY <1>2, <1>8 DEF Recharge, vars, Asked, tables
<1> QED
  BY <1>3, <1>4, <1>5, <1>6, <1>7, <1>8, LedgerTakes, LedgerSucceeds
  DEF Next, Step, Quiet

\* The search path implements what SearchLedger promises, for any requests,
\* any page size and any faults: one effect per request, all at once, success
\* only where the target holds the page, a refusal only without effect.
THEOREM ImplementsLedger == Spec => LedgerSpec
<1>1. Spec => []LedgerInv
  <2>1. Init => TraceInv /\ CopyInv
    BY TraceInit, CopyInit
  <2>2. TypeOK /\ PathInv /\ WholeInv /\ TraceInv /\ CopyInv /\ [Next]_vars
          => TraceInv' /\ CopyInv'
    BY TraceStep, CopyStep
  <2> QED
    BY <2>1, <2>2, CoverCorrect, PTL DEF Spec, LedgerInv
<1> QED
  BY <1>1, LedgerInit, LedgerStep, PTL DEF Spec, LedgerSpec, Ledger!Spec
=============================================================================
