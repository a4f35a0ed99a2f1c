-------------------------- MODULE WorkspaceProofs --------------------------
(***************************************************************************)
(* Proofs about investigations, targets and their readers, for any         *)
(* requests, users, names and faults.                                      *)
(***************************************************************************)
EXTENDS Workspace, TLAPS

-----------------------------------------------------------------------------
(* The inductive invariant: what is said of the tables, and of each request *)

\* Ids name one investigation, of a request that has ended, and a target has
\* its investigation.
RowsInv ==
    /\ \A i, j \in investigations : i.id = j.id => i = j
    /\ \A i \in investigations : i.id = Earlier \/ pc[i.id] = "done"
    /\ \A t \in targets : t.investigation \in Ids(investigations)

\* Who is past its check has found what it looked for; who has ended has an
\* answer.
PathOf(r) ==
    /\ At(r, "read", {"investigation_page"}) => req[r].on \in Ids(investigations)
    /\ At(r, "read", TargetReaders) => req[r].on \in Ids(targets)
    /\ pc[r] = "get" => req[r].kind # "search"
    /\ answer[r] = "none" <=> pc[r] # "done"

\* What a request inserts.
RowFor(r) ==
    [investigations |->
       IF req[r].kind = "investigation"
       THEN {[id |-> r, owner |-> SeedUser, name |-> req[r].name]} ELSE {},
     targets |->
       IF req[r].kind \in NewTarget
       THEN {[id |-> r, investigation |-> req[r].on, label |-> req[r].name]} ELSE {},
     searches |->
       IF req[r].kind = "search" THEN {[id |-> r, target |-> req[r].on]} ELSE {}]

SessionOf(r) ==
    pc[r] = "commit" => /\ session[r] = RowFor(r) /\ Storable(r)
                        /\ req[r].kind \notin Readers

\* What was answered with success is stored.
StoredOf(r) ==
    answer[r] = "ok" =>
        /\ IsInvestigation(r) => r \in Ids(investigations)
        /\ IsTarget(r) => \E t \in targets : t.id = r /\ t.investigation = req[r].on
        /\ req[r].kind = "search" => \E s \in searches : s.id = r /\ s.target = req[r].on

KnownOf(r) == \A a \in known[r] : a \in Requests /\ answer[a] = "ok"

UsableOf(r) ==
    \A a \in known[r] :
        /\ req[r].on = a
        /\ (IsTarget(a) /\ OnTarget(r))
             \/ (IsInvestigation(a) /\ req[r].kind \in NewTarget \cup {"investigation_page"})
        => answer[r] # "404" /\ (pc[r] = "insert" => Present(r))

ShownOf(r) ==
    \A a \in known[r] :
        answer[r] = "ok" =>
            /\ (req[r].kind = "home" /\ IsInvestigation(a))
                 => a \in Ids(shown[r].investigations)
            /\ (req[r].kind = "investigation_page" /\ IsTarget(a)
                  /\ req[a].on = req[r].on) => a \in Ids(shown[r].targets)
            /\ (req[r].kind \in TargetReaders /\ req[a].kind = "search"
                  /\ req[a].on = req[r].on) => a \in Ids(shown[r].searches)

HeadedOf(r) ==
    (answer[r] = "ok" /\ req[r].kind \in {"report", "investigation_page"}) =>
        \E i \in Investigation :
            /\ shown[r].investigations = {i}
            /\ \A t \in shown[r].targets : t.investigation = i.id

Local(r) == /\ PathOf(r) /\ SessionOf(r) /\ StoredOf(r) /\ KnownOf(r)
            /\ UsableOf(r) /\ ShownOf(r) /\ HeadedOf(r)

IInv == TypeOK /\ RowsInv /\ \A r \in Requests : Local(r)

LEMMA InvImpliesProperties ==
    IInv => /\ TypeOK /\ AnnouncedIsUsable /\ AnnouncedIsShown
            /\ ReportHasInvestigation
  BY DEF IInv, Local, UsableOf, ShownOf, HeadedOf, AnnouncedIsUsable,
         AnnouncedIsShown, ReportHasInvestigation

-----------------------------------------------------------------------------
(* Initial states *)

LEMMA NameExists == SomeName \in Names \ WideNames
  BY WorkspaceAssumption DEF SomeName

LEMMA InitIInv == Init => IInv
<1> SUFFICES ASSUME Init PROVE IInv
  OBVIOUS
<1>1. TypeOK
  BY NameExists
  DEF Init, TypeOK, Ask, Named, NewTarget, Readers, TargetReaders, Rows, Nothing,
      Investigation, Target, Search
<1>2. RowsInv
  BY DEF Init, RowsInv, Ids
<1>3. \A r \in Requests : Local(r)
  BY DEF Init, Local, PathOf, SessionOf, StoredOf, KnownOf, UsableOf, ShownOf,
         HeadedOf, At
<1> QED
  BY <1>1, <1>2, <1>3 DEF IInv

-----------------------------------------------------------------------------
(* One request moves, the others stand by *)

\* What a step may do to the requests that do not make it: nothing; the tables
\* only grow, and who has ended stays as it is.
Growing ==
    /\ investigations \subseteq investigations' /\ targets \subseteq targets'
    /\ searches \subseteq searches'
    /\ \A a \in Requests : pc[a] = "done" =>
         pc'[a] = "done" /\ req'[a] = req[a] /\ answer'[a] = answer[a]

StandsBy(b) ==
    /\ pc'[b] = pc[b] /\ req'[b] = req[b] /\ known'[b] = known[b]
    /\ session'[b] = session[b] /\ shown'[b] = shown[b] /\ answer'[b] = answer[b]

\* A request that was known to succeed has ended and stays as it is.
LEMMA KnownStays ==
    ASSUME IInv, Growing, NEW r \in Requests, NEW a \in known[r]
    PROVE  /\ a \in Requests /\ answer[a] = "ok" /\ answer'[a] = "ok"
           /\ pc[a] = "done" /\ req'[a] = req[a]
<1>1. a \in Requests /\ answer[a] = "ok"
  BY DEF IInv, Local, KnownOf
<1>2. pc[a] = "done"
  BY <1>1 DEF IInv, Local, PathOf
<1> QED
  BY <1>1, <1>2 DEF Growing

LEMMA Bystander ==
    ASSUME IInv, Growing, NEW b \in Requests, StandsBy(b)
    PROVE  Local(b)'
<1>1. Local(b)
  BY DEF IInv
<1>2. \A a \in known[b] : /\ a \in Requests /\ answer'[a] = "ok"
                          /\ req'[a] = req[a]
  BY KnownStays
<1>3. /\ Ids(investigations) \subseteq Ids(investigations)'
      /\ Ids(targets) \subseteq Ids(targets)'
  BY DEF Growing, Ids
<1>4. Present(b) => Present(b)'
  BY <1>3 DEF StandsBy, Present
<1>5. PathOf(b)'
  BY <1>1, <1>3 DEF Local, PathOf, StandsBy, At
<1>6. SessionOf(b)'
  BY <1>1, <1>4 DEF Local, SessionOf, StandsBy, Storable, RowFor
<1>7. StoredOf(b)'
  <2>1. (IsInvestigation(b)' <=> IsInvestigation(b)) /\ (IsTarget(b)' <=> IsTarget(b))
    BY DEF StandsBy, IsInvestigation, IsTarget
  <2> QED
    BY <1>1, <1>3, <2>1 DEF Local, StoredOf, StandsBy, Growing
<1>8. KnownOf(b)'
  BY <1>2 DEF KnownOf, StandsBy
<1>9. UsableOf(b)'
  BY <1>1, <1>2, <1>4 DEF Local, UsableOf, StandsBy, IsTarget, IsInvestigation, OnTarget
<1>10. ShownOf(b)'
  BY <1>1, <1>2 DEF Local, ShownOf, StandsBy, IsTarget, IsInvestigation
<1>11. HeadedOf(b)'
  BY <1>1 DEF Local, HeadedOf, StandsBy
<1> QED
  BY <1>5, <1>6, <1>7, <1>8, <1>9, <1>10, <1>11 DEF Local

\* A step of one request keeps the invariant if it does so for that request and
\* for the tables.
LEMMA Mover ==
    ASSUME IInv, Growing, NEW r \in Requests,
           \A b \in Requests \ {r} : StandsBy(b),
           Local(r)', RowsInv', TypeOK'
    PROVE  IInv'
<1>1. \A b \in Requests \ {r} : Local(b)'
  BY Bystander
<1> QED
  BY <1>1 DEF IInv

\* Steps that leave the tables alone.
LEMMA RowsStay ==
    ASSUME IInv, Growing, UNCHANGED tables
    PROVE  RowsInv'
<1>1. \A i \in investigations : i.id = Earlier \/ i.id \in Requests
  BY DEF IInv, TypeOK, Investigation, Named
<1> QED
  BY <1>1 DEF IInv, RowsInv, Growing, tables, Ids

-----------------------------------------------------------------------------
(* Steps on the way to an answer *)

LEMMA ArriveStep ==
    ASSUME IInv, NEW r \in Requests, Arrive(r)
    PROVE  IInv'
<1>1. PICK a \in Ask : req' = [req EXCEPT ![r] = a] /\ GoTo(r, First(a.kind))
  BY DEF Arrive
<1>2. TypeOK
  BY DEF IInv
<1>3. /\ pc[r] = "idle" /\ req'[r] = a /\ pc'[r] = First(a.kind)
      /\ known'[r] = {b \in Requests : answer[b] = "ok"}
      /\ UNCHANGED <<tables, session, shown, answer>>
  BY <1>1, <1>2 DEF Arrive, GoTo, TypeOK
<1>4. Growing /\ \A b \in Requests \ {r} : StandsBy(b)
  BY <1>1, <1>2, <1>3 DEF Arrive, GoTo, TypeOK, Growing, StandsBy, tables
<1>5. First(a.kind) \in {"get", "insert", "read"}
  BY DEF First
<1>6. TypeOK'
  BY <1>1, <1>2, <1>3, <1>5 DEF Arrive, GoTo, TypeOK, tables
<1>7. RowsInv'
  BY <1>3, <1>4, RowsStay
<1>8. answer'[r] = "none"
  BY <1>3 DEF IInv, Local, PathOf
<1>9. PathOf(r)'
  BY <1>3, <1>5, <1>8 DEF PathOf, At, First, Readers, TargetReaders, NewTarget
<1>10. KnownOf(r)'
  BY <1>3 DEF KnownOf
<1>11. \A b \in known'[r] : /\ b \in Requests /\ req'[b] = req[b] /\ StoredOf(b)
                            /\ answer[b] = "ok"
  BY <1>3, <1>4, <1>8 DEF StandsBy, IInv, Local
<1>12. UsableOf(r)'
  <2> SUFFICES ASSUME NEW b \in known'[r], a.on = b, First(a.kind) = "insert",
                      \/ IsTarget(b)' /\ OnTarget(r)'
                      \/ IsInvestigation(b)'
                           /\ a.kind \in NewTarget \cup {"investigation_page"}
               PROVE  Present(r)'
    BY <1>3, <1>8 DEF UsableOf
  <2>1. (IsTarget(b)' <=> IsTarget(b)) /\ (IsInvestigation(b)' <=> IsInvestigation(b))
    BY <1>11 DEF IsTarget, IsInvestigation
  <2>2. \/ IsTarget(b) /\ a.kind = "search"
        \/ IsInvestigation(b) /\ a.kind \in NewTarget
    BY <1>3, <2>1 DEF First, OnTarget, Readers, TargetReaders
  <2>3. \/ b \in Ids(targets) /\ a.kind = "search"
        \/ b \in Ids(investigations) /\ a.kind \in NewTarget
    BY <1>11, <2>2 DEF StoredOf, Ids
  <2> QED
    BY <1>3, <2>3 DEF Present, NewTarget, tables, Ids
<1>13. SessionOf(r)' /\ StoredOf(r)' /\ ShownOf(r)' /\ HeadedOf(r)'
  BY <1>3, <1>5, <1>8 DEF SessionOf, StoredOf, ShownOf, HeadedOf
<1> QED
  BY <1>4, <1>6, <1>7, <1>9, <1>10, <1>12, <1>13, Mover DEF Local

\* The table a request touches, the others left empty.
LEMMA NothingBut ==
    ASSUME NEW X
    PROVE  /\ [Nothing EXCEPT !.investigations = X] =
                [investigations |-> X, targets |-> {}, searches |-> {}]
           /\ [Nothing EXCEPT !.targets = X] =
                [investigations |-> {}, targets |-> X, searches |-> {}]
           /\ [Nothing EXCEPT !.searches = X] =
                [investigations |-> {}, targets |-> {}, searches |-> X]
  BY DEF Nothing

\* A lookup that finds its row, or an insert: the request goes on, and what is
\* said of answers says nothing yet.
LEMMA OnTheWay ==
    ASSUME IInv, NEW r \in Requests, pc[r] \in {"get", "insert"},
           NEW place \in {"insert", "commit", "read"}, GoTo(r, place),
           UNCHANGED <<tables, req, known, shown, answer>>,
           session' \in [Requests -> Rows],
           \A b \in Requests \ {r} : session'[b] = session[b],
           PathOf(r)', SessionOf(r)', place = "insert" => pc[r] = "get" /\ Present(r)
    PROVE  IInv'
<1>1. TypeOK
  BY DEF IInv
<1>2. Growing /\ \A b \in Requests \ {r} : StandsBy(b)
  BY <1>1 DEF GoTo, TypeOK, Growing, StandsBy, tables
<1>3. pc'[r] = place /\ answer'[r] = "none" /\ answer[r] = "none"
  BY <1>1 DEF GoTo, TypeOK, IInv, Local, PathOf
<1>4. TypeOK'
  BY <1>1 DEF GoTo, TypeOK, tables
<1>5. RowsInv'
  BY <1>2, RowsStay
<1>6. KnownOf(r)'
  BY DEF KnownOf, IInv, Local
<1>7. UsableOf(r)'
  BY <1>3 DEF UsableOf, Present, tables, Ids
<1>8. StoredOf(r)' /\ ShownOf(r)' /\ HeadedOf(r)'
  BY <1>3 DEF StoredOf, ShownOf, HeadedOf
<1> QED
  BY <1>2, <1>4, <1>5, <1>6, <1>7, <1>8, Mover DEF Local

LEMMA GetInvestigationStep ==
    ASSUME IInv, NEW r \in Requests, GetInvestigation(r)
    PROVE  IInv'
<1> DEFINE place == IF req[r].kind = "ui_target" THEN "insert" ELSE "read"
<1>1. TypeOK
  BY DEF IInv
<1>2. pc'[r] = place /\ answer'[r] = "none" /\ req'[r] = req[r]
  BY <1>1 DEF GetInvestigation, At, GoTo, TypeOK, IInv, Local, PathOf
<1>3. PathOf(r)' /\ SessionOf(r)'
  BY <1>2 DEF GetInvestigation, PathOf, SessionOf, At, tables, Ids, TargetReaders
<1>4. req[r].kind = "ui_target" => Present(r)
  BY DEF GetInvestigation, Present, NewTarget
<1> QED
  BY <1>1, <1>3, <1>4, OnTheWay DEF GetInvestigation, At, TypeOK

LEMMA GetTargetStep ==
    ASSUME IInv, NEW r \in Requests, GetTarget(r)
    PROVE  IInv'
<1>1. TypeOK
  BY DEF IInv
<1>2. pc'[r] = "read" /\ answer'[r] = "none" /\ req'[r] = req[r]
  BY <1>1 DEF GetTarget, At, GoTo, TypeOK, IInv, Local, PathOf
<1>3. PathOf(r)' /\ SessionOf(r)'
  BY <1>2 DEF GetTarget, PathOf, SessionOf, At, tables, Ids, TargetReaders
<1> QED
  BY <1>1, <1>3, OnTheWay DEF GetTarget, At, TypeOK

LEMMA InsertStep ==
    ASSUME IInv, NEW r \in Requests,
           InsertInvestigation(r) \/ InsertTarget(r) \/ InsertSearch(r)
    PROVE  IInv'
<1>1. TypeOK /\ pc[r] = "insert" /\ Storable(r)
  BY DEF IInv, InsertInvestigation, InsertTarget, InsertSearch, At
<1>2. req[r] \in Ask
  BY <1>1 DEF TypeOK
<1>3. Insert(r, RowFor(r)) /\ req[r].kind \in {"investigation", "search"} \cup NewTarget
  <2>1. CASE InsertInvestigation(r)
    <3>1. req[r].kind = "investigation"
      BY <2>1 DEF InsertInvestigation, At
    <3>2. RowFor(r) = [Nothing EXCEPT !.investigations =
                         {[id |-> r, owner |-> SeedUser, name |-> req[r].name]}]
      BY <3>1, NothingBut DEF RowFor, NewTarget
    <3> QED
      BY <2>1, <3>1, <3>2 DEF InsertInvestigation
  <2>2. CASE InsertTarget(r)
    <3>1. req[r].kind \in NewTarget
      BY <2>2 DEF InsertTarget, At
    <3>2. RowFor(r) = [Nothing EXCEPT !.targets =
             {[id |-> r, investigation |-> req[r].on, label |-> req[r].name]}]
      BY <3>1, NothingBut DEF RowFor, NewTarget
    <3> QED
      BY <2>2, <3>1, <3>2 DEF InsertTarget
  <2>3. CASE InsertSearch(r)
    <3>1. req[r].kind = "search"
      BY <2>3 DEF InsertSearch, At
    <3>2. RowFor(r) = [Nothing EXCEPT !.searches =
                         {[id |-> r, target |-> req[r].on]}]
      BY <3>1, NothingBut DEF RowFor, NewTarget
    <3> QED
      BY <2>3, <3>1, <3>2 DEF InsertSearch
  <2> QED
    BY <2>1, <2>2, <2>3
<1>4. RowFor(r) \in Rows
  <2>1. req[r].on \in Named /\ req[r].name \in Names \ WideNames
    BY <1>1, <1>2 DEF Ask, Storable, Named
  <2> QED
    BY <2>1 DEF RowFor, Rows, Investigation, Target, Search, Named
<1>5. /\ session' \in [Requests -> Rows] /\ session'[r] = RowFor(r)
      /\ \A b \in Requests \ {r} : session'[b] = session[b]
  BY <1>1, <1>3, <1>4 DEF Insert, TypeOK
<1>6. pc'[r] = "commit" /\ answer'[r] = "none" /\ req'[r] = req[r]
  BY <1>1, <1>3 DEF Insert, GoTo, TypeOK, IInv, Local, PathOf
<1>7. PathOf(r)'
  BY <1>6 DEF PathOf, At
<1>8. SessionOf(r)'
  <2>1. Storable(r)'
    BY <1>1, <1>3, <1>6 DEF Insert, Storable, Present, tables, Ids
  <2>2. RowFor(r)' = RowFor(r)
    BY <1>6 DEF RowFor
  <2> QED
    BY <1>3, <1>5, <1>6, <2>1, <2>2
    DEF SessionOf, Readers, TargetReaders, NewTarget
<1> QED
  BY <1>1, <1>3, <1>5, <1>7, <1>8, OnTheWay DEF Insert

-----------------------------------------------------------------------------
(* Answers *)

LEMMA NothingType == Nothing \in Rows
  BY DEF Nothing, Rows

\* What any answer does to the request that is answered.
LEMMA AnswerFacts ==
    ASSUME TypeOK, NEW r \in Requests, NEW status \in {"ok", "404", "500"},
           Answer(r, status), req' = req, known' = known
    PROVE  /\ pc'[r] = "done" /\ answer'[r] = status
           /\ pc' \in [Requests -> {"idle", "get", "insert", "commit", "read", "done"}]
           /\ answer' \in [Requests -> {"none", "ok", "404", "500", "dropped"}]
           /\ session' \in [Requests -> Rows]
           /\ \A b \in Requests \ {r} : /\ pc'[b] = pc[b] /\ answer'[b] = answer[b]
                                       /\ session'[b] = session[b]
           /\ PathOf(r)' /\ SessionOf(r)'
<1>1. /\ pc' = [pc EXCEPT ![r] = "done"] /\ answer' = [answer EXCEPT ![r] = status]
      /\ session' = [session EXCEPT ![r] = Nothing]
  BY DEF Answer, GoTo
<1>2. pc'[r] = "done" /\ answer'[r] = status
  BY <1>1 DEF TypeOK
<1> QED
  BY <1>1, <1>2, NothingType DEF TypeOK, PathOf, SessionOf, At

\* A request that ends without success; it says "does not exist" of nothing that
\* was announced to it.
LEMMA FailStep ==
    ASSUME IInv, NEW r \in Requests, NEW status \in {"404", "500"},
           pc[r] # "done", Fail(r, status),
           status = "404" =>
             \A a \in known[r] :
               ~ /\ req[r].on = a
                 /\ \/ IsTarget(a) /\ OnTarget(r)
                    \/ IsInvestigation(a)
                         /\ req[r].kind \in NewTarget \cup {"investigation_page"}
    PROVE  IInv'
<1>1. TypeOK /\ Answer(r, status) /\ UNCHANGED <<tables, req, known, shown>>
  BY DEF IInv, Fail
<1>2. /\ answer'[r] = status /\ pc'[r] = "done"
      /\ pc' \in [Requests -> {"idle", "get", "insert", "commit", "read", "done"}]
      /\ answer' \in [Requests -> {"none", "ok", "404", "500", "dropped"}]
      /\ session' \in [Requests -> Rows]
      /\ \A b \in Requests \ {r} : /\ pc'[b] = pc[b] /\ answer'[b] = answer[b]
                                  /\ session'[b] = session[b]
      /\ PathOf(r)' /\ SessionOf(r)'
  BY <1>1, AnswerFacts
<1>3. Growing /\ \A b \in Requests \ {r} : StandsBy(b)
  BY <1>1, <1>2 DEF Growing, StandsBy, tables
<1>4. TypeOK'
  BY <1>1, <1>2 DEF TypeOK, tables
<1>5. RowsInv'
  BY <1>1, <1>3, RowsStay
<1>6. KnownOf(r)'
  BY <1>1, <1>3, KnownStays DEF KnownOf
<1>7. UsableOf(r)'
  BY <1>1, <1>2 DEF UsableOf, IsTarget, IsInvestigation, OnTarget
<1>8. StoredOf(r)' /\ ShownOf(r)' /\ HeadedOf(r)'
  BY <1>2 DEF StoredOf, ShownOf, HeadedOf
<1> QED
  BY <1>2, <1>3, <1>4, <1>5, <1>6, <1>7, <1>8, Mover DEF Local

LEMMA NotFoundStep ==
    ASSUME IInv, NEW r \in Requests, NotFound(r)
    PROVE  IInv'
<1>1. ASSUME NEW a \in known[r], req[r].on = a,
             \/ IsTarget(a) /\ OnTarget(r)
             \/ IsInvestigation(a)
                  /\ req[r].kind \in NewTarget \cup {"investigation_page"}
      PROVE  FALSE
  <2>1. a \in Requests /\ answer[a] = "ok" /\ StoredOf(a)
    BY DEF IInv, Local, KnownOf
  <2>2. \/ a \in Ids(targets) /\ OnTarget(r)
        \/ a \in Ids(investigations)
             /\ req[r].kind \in NewTarget \cup {"investigation_page"}
    BY <1>1, <2>1 DEF StoredOf, Ids
  <2>3. CASE req[r].kind \in TargetReaders
    BY <1>1, <2>2, <2>3 DEF NotFound, NewTarget, TargetReaders
  <2>4. CASE req[r].kind = "search"
    BY <2>4 DEF NotFound, IInv, Local, PathOf
  <2>5. CASE req[r].kind \in NewTarget \cup {"investigation_page"}
    BY <1>1, <2>2, <2>5 DEF NotFound, NewTarget, TargetReaders, OnTarget
  <2> QED
    BY <2>2, <2>3, <2>4, <2>5 DEF OnTarget
<1> QED
  BY <1>1, FailStep DEF NotFound

\* The commit of a request puts the row it inserted into the tables.
LEMMA PublishStep ==
    ASSUME IInv, NEW r \in Requests, Commit(r) \/ LostCommit(r)
    PROVE  IInv'
<1>1. PICK status \in {"ok", "500"} : Answer(r, status)
  BY DEF Commit, LostCommit
<1>2. TypeOK /\ pc[r] = "commit" /\ Publish(r) /\ UNCHANGED <<req, known, shown>>
  BY DEF IInv, Commit, LostCommit, Publish
<1>3. /\ session[r] = RowFor(r) /\ Storable(r) /\ req[r].kind \notin Readers
      /\ session[r] \in Rows /\ answer[r] = "none"
  BY <1>2 DEF IInv, Local, SessionOf, PathOf, TypeOK
<1>4. /\ answer'[r] = status /\ pc'[r] = "done"
      /\ pc' \in [Requests -> {"idle", "get", "insert", "commit", "read", "done"}]
      /\ answer' \in [Requests -> {"none", "ok", "404", "500", "dropped"}]
      /\ session' \in [Requests -> Rows]
      /\ \A b \in Requests \ {r} : /\ pc'[b] = pc[b] /\ answer'[b] = answer[b]
                                  /\ session'[b] = session[b]
      /\ PathOf(r)' /\ SessionOf(r)'
  BY <1>1, <1>2, AnswerFacts
<1>5. Growing /\ \A b \in Requests \ {r} : StandsBy(b)
  BY <1>2, <1>4 DEF Growing, StandsBy, Publish
<1>6. TypeOK'
  BY <1>2, <1>3, <1>4 DEF TypeOK, Publish, Rows
<1>7. RowsInv'
  <2>1. RowsInv
    BY DEF IInv
  <2>2. /\ \A i \in session[r].investigations :
             i = [id |-> r, owner |-> SeedUser, name |-> req[r].name]
        /\ \A t \in session[r].targets : t.investigation \in Ids(investigations)
    BY <1>3 DEF RowFor, Storable, Present
  <2>3. \A i \in investigations : i.id # r
    BY <1>2, <2>1, WorkspaceAssumption DEF RowsInv
  <2>4. \A i, j \in investigations' : i.id = j.id => i = j
    BY <1>2, <2>1, <2>2, <2>3 DEF RowsInv, Publish
  <2>5. \A i \in investigations : i.id = Earlier \/ pc'[i.id] = "done"
    BY <1>2, <1>5, <2>1 DEF RowsInv, Growing, TypeOK, Investigation, Named
  <2>6. \A i \in investigations' : i.id = Earlier \/ pc'[i.id] = "done"
    BY <1>2, <1>4, <2>2, <2>5 DEF Publish
  <2>7. \A t \in targets' : t.investigation \in Ids(investigations)'
    BY <1>2, <2>1, <2>2 DEF RowsInv, Publish, Ids
  <2> QED
    BY <2>4, <2>6, <2>7 DEF RowsInv
<1>8. StoredOf(r)'
  <2>0. /\ RowFor(r).investigations \subseteq investigations'
        /\ RowFor(r).targets \subseteq targets'
        /\ RowFor(r).searches \subseteq searches'
    BY <1>2, <1>3 DEF Publish
  <2>1. ASSUME IsInvestigation(r) PROVE r \in Ids(investigations)'
    <3>1. [id |-> r, owner |-> SeedUser, name |-> req[r].name] \in investigations'
      BY <2>0, <2>1 DEF RowFor, IsInvestigation
    <3> QED
      BY <3>1 DEF Ids
  <2>2. ASSUME IsTarget(r)
        PROVE  \E t \in targets' : t.id = r /\ t.investigation = req[r].on
    <3>1. [id |-> r, investigation |-> req[r].on, label |-> req[r].name] \in targets'
      BY <2>0, <2>2 DEF RowFor, IsTarget
    <3> QED
      BY <3>1
  <2>3. ASSUME req[r].kind = "search"
        PROVE  \E s \in searches' : s.id = r /\ s.target = req[r].on
    <3>1. [id |-> r, target |-> req[r].on] \in searches'
      BY <2>0, <2>3 DEF RowFor
    <3> QED
      BY <3>1
  <2> QED
    BY <1>2, <2>1, <2>2, <2>3 DEF StoredOf, IsInvestigation, IsTarget
<1>9. KnownOf(r)'
  BY <1>2, <1>5, KnownStays DEF KnownOf
<1>10. UsableOf(r)'
  BY <1>4 DEF UsableOf
<1>11. ShownOf(r)' /\ HeadedOf(r)'
  BY <1>2, <1>3 DEF ShownOf, HeadedOf, Readers, TargetReaders
<1> QED
  BY <1>4, <1>5, <1>6, <1>7, <1>8, <1>9, <1>10, <1>11, Mover DEF Local
-----------------------------------------------------------------------------
(* Readers *)

\* A reader that is shown rows of the tables: with its heading, and with
\* everything that was announced before it came.
LEMMA ShowsStep ==
    ASSUME IInv, NEW r \in Requests, NEW rows \in Rows,
           pc[r] = "read", Shows(r, rows), req[r].kind \in Readers,
           req[r].kind = "home" => rows.investigations = investigations,
           req[r].kind = "investigation_page" =>
             rows.targets = {t \in targets : t.investigation = req[r].on},
           req[r].kind \in TargetReaders => rows.searches = SearchesOf(req[r].on),
           req[r].kind \in {"report", "investigation_page"} =>
             \E i \in Investigation : /\ rows.investigations = {i}
                                      /\ \A t \in rows.targets : t.investigation = i.id
    PROVE  IInv'
<1>1. /\ TypeOK /\ Answer(r, "ok") /\ UNCHANGED <<tables, req, known>>
      /\ shown' \in [Requests -> Rows] /\ shown'[r] = rows
      /\ \A b \in Requests \ {r} : shown'[b] = shown[b]
  BY DEF IInv, Shows, TypeOK
<1>2. /\ answer'[r] = "ok" /\ pc'[r] = "done"
      /\ pc' \in [Requests -> {"idle", "get", "insert", "commit", "read", "done"}]
      /\ answer' \in [Requests -> {"none", "ok", "404", "500", "dropped"}]
      /\ session' \in [Requests -> Rows]
      /\ \A b \in Requests \ {r} : /\ pc'[b] = pc[b] /\ answer'[b] = answer[b]
                                  /\ session'[b] = session[b]
      /\ PathOf(r)' /\ SessionOf(r)'
  BY <1>1, AnswerFacts
<1>3. Growing /\ \A b \in Requests \ {r} : StandsBy(b)
  BY <1>1, <1>2 DEF Growing, StandsBy, tables
<1>4. TypeOK'
  BY <1>1, <1>2 DEF TypeOK, tables
<1>5. RowsInv'
  BY <1>1, <1>3, RowsStay
<1>6. StoredOf(r)'
  BY <1>1 DEF StoredOf, IsInvestigation, IsTarget, Readers, TargetReaders, NewTarget
<1>7. KnownOf(r)'
  BY <1>1, <1>3, KnownStays DEF KnownOf
<1>8. UsableOf(r)'
  BY <1>2 DEF UsableOf
<1>9. ShownOf(r)'
  <2> SUFFICES ASSUME NEW a \in known[r]
               PROVE  /\ (req[r].kind = "home" /\ IsInvestigation(a))
                           => a \in Ids(rows.investigations)
                      /\ (req[r].kind = "investigation_page" /\ IsTarget(a)
                            /\ req[a].on = req[r].on) => a \in Ids(rows.targets)
                      /\ (req[r].kind \in TargetReaders /\ req[a].kind = "search"
                            /\ req[a].on = req[r].on) => a \in Ids(rows.searches)
    BY <1>1 DEF ShownOf, IsInvestigation, IsTarget
  <2>1. StoredOf(a) /\ answer[a] = "ok"
    BY DEF IInv, Local, KnownOf
  <2>2. (req[r].kind = "home" /\ IsInvestigation(a)) => a \in Ids(rows.investigations)
    BY <2>1 DEF StoredOf
  <2>3. ASSUME req[r].kind = "investigation_page", IsTarget(a), req[a].on = req[r].on
        PROVE  a \in Ids(rows.targets)
    BY <2>1, <2>3 DEF StoredOf, Ids
  <2>4. ASSUME req[r].kind \in TargetReaders, req[a].kind = "search",
               req[a].on = req[r].on
        PROVE  a \in Ids(rows.searches)
    BY <2>1, <2>4 DEF StoredOf, Ids, SearchesOf
  <2> QED
    BY <2>2, <2>3, <2>4
<1>10. HeadedOf(r)'
  BY <1>1 DEF HeadedOf
<1> QED
  BY <1>2, <1>3, <1>4, <1>5, <1>6, <1>7, <1>8, <1>9, <1>10, Mover DEF Local

\* An id that some investigation has is that of one.
LEMMA OneInvestigation ==
    ASSUME IInv, NEW id \in Ids(investigations)
    PROVE  \E i \in Investigation :
             i.id = id /\ {j \in investigations : j.id = id} = {i}
<1>1. PICK i \in investigations : i.id = id
  BY DEF Ids
<1>2. i \in Investigation
  BY DEF IInv, TypeOK
<1>3. \A j \in investigations : j.id = id <=> j = i
  BY <1>1 DEF IInv, RowsInv
<1> QED
  BY <1>1, <1>2, <1>3

LEMMA ReaderStep ==
    ASSUME IInv, NEW r \in Requests,
           ShowHome(r) \/ ShowInvestigation(r) \/ ShowTarget(r) \/ ShowReport(r)
    PROVE  IInv'
<1>1. /\ investigations \subseteq Investigation /\ targets \subseteq Target
      /\ searches \subseteq Search
  BY DEF IInv, TypeOK
<1>2. CASE ShowHome(r)
  <2> DEFINE rows == [investigations |-> investigations, targets |-> {},
                      searches |-> {}]
  <2>1. rows \in Rows
    BY <1>1 DEF Rows
  <2>2. pc[r] = "read" /\ req[r].kind = "home" /\ Shows(r, rows)
    BY <1>2, NothingBut DEF ShowHome, At
  <2> HIDE DEF rows
  <2>3. rows.investigations = investigations
    BY DEF rows
  <2> QED
    BY <2>1, <2>2, <2>3, ShowsStep DEF Readers, TargetReaders
<1>3. CASE ShowInvestigation(r)
  <2> DEFINE rows == [investigations |-> {i \in investigations : i.id = req[r].on},
                      targets |-> {t \in targets : t.investigation = req[r].on},
                      searches |-> {}]
  <2>1. rows \in Rows
    BY <1>1 DEF Rows
  <2>2. pc[r] = "read" /\ req[r].kind = "investigation_page" /\ Shows(r, rows)
    BY <1>3 DEF ShowInvestigation, At
  <2>3. \E i \in Investigation : /\ rows.investigations = {i}
                                 /\ \A t \in rows.targets : t.investigation = i.id
    <3>1. req[r].on \in Ids(investigations)
      BY <2>2 DEF IInv, Local, PathOf, At
    <3> QED
      BY <3>1, OneInvestigation
  <2>4. rows.targets = {t \in targets : t.investigation = req[r].on}
    OBVIOUS
  <2> HIDE DEF rows
  <2> QED
    BY <2>1, <2>2, <2>3, <2>4, ShowsStep DEF Readers, TargetReaders
<1>4. CASE ShowTarget(r)
  <2> DEFINE rows == [investigations |-> {},
                      targets |-> {t \in targets : t.id = req[r].on},
                      searches |-> SearchesOf(req[r].on)]
  <2>1. rows \in Rows
    BY <1>1 DEF Rows, SearchesOf
  <2>2. pc[r] = "read" /\ req[r].kind = "target_page" /\ Shows(r, rows)
    BY <1>4 DEF ShowTarget, At
  <2>3. rows.searches = SearchesOf(req[r].on)
    OBVIOUS
  <2> HIDE DEF rows
  <2> QED
    BY <2>1, <2>2, <2>3, ShowsStep DEF Readers, TargetReaders
<1>5. CASE ShowReport(r)
  <2>1. PICK t \in targets :
          /\ t.id = req[r].on
          /\ Shows(r, [investigations |->
                          {i \in investigations : i.id = t.investigation},
                       targets |-> {t}, searches |-> SearchesOf(t.id)])
    BY <1>5 DEF ShowReport
  <2> DEFINE rows == [investigations |->
                        {i \in investigations : i.id = t.investigation},
                      targets |-> {t}, searches |-> SearchesOf(t.id)]
  <2>2. rows \in Rows
    BY <1>1 DEF Rows, SearchesOf
  <2>3. pc[r] = "read" /\ req[r].kind = "report"
    BY <1>5 DEF ShowReport, At
  <2>4. \E i \in Investigation : /\ rows.investigations = {i}
                                 /\ \A u \in rows.targets : u.investigation = i.id
    BY OneInvestigation DEF IInv, RowsInv
  <2>5. rows.searches = SearchesOf(req[r].on)
    BY <2>1
  <2>6. Shows(r, rows)
    BY <2>1
  <2> HIDE DEF rows
  <2> QED
    BY <2>2, <2>3, <2>4, <2>5, <2>6, ShowsStep DEF Readers, TargetReaders
<1> QED
  BY <1>2, <1>3, <1>4, <1>5

-----------------------------------------------------------------------------
(* Crashes, and the theorems *)

LEMMA CrashStep ==
    ASSUME IInv, Crash
    PROVE  IInv'
<1> DEFINE dropped == {r \in Requests : pc[r] \notin {"idle", "done"}}
<1>1. /\ pc' = [r \in Requests |-> IF r \in dropped THEN "done" ELSE pc[r]]
      /\ answer' = [r \in Requests |-> IF r \in dropped THEN "dropped" ELSE answer[r]]
      /\ session' = [r \in Requests |-> Nothing]
      /\ UNCHANGED <<tables, req, known, shown>>
  BY DEF Crash
<1>2. TypeOK
  BY DEF IInv
<1>3. TypeOK'
  BY <1>1, <1>2, NothingType DEF TypeOK, tables
<1>4. Growing
  BY <1>1, <1>2 DEF Growing, tables
<1>5. RowsInv'
  BY <1>1, <1>4, RowsStay
<1>6. ASSUME NEW r \in Requests
      PROVE  Local(r)'
  <2>1. Local(r)
    BY DEF IInv
  <2>2. KnownOf(r)'
    BY <1>1, <1>4, KnownStays DEF KnownOf
  <2>3. CASE r \in dropped
    <3>1. pc'[r] = "done" /\ answer'[r] = "dropped"
      BY <1>1, <2>3
    <3> QED
      BY <2>2, <3>1 DEF Local, PathOf, SessionOf, StoredOf, UsableOf, ShownOf,
                        HeadedOf, At
  <2>4. CASE r \notin dropped
    <3>1. /\ pc'[r] = pc[r] /\ answer'[r] = answer[r]
          /\ pc[r] \in {"idle", "done"}
      BY <1>1, <2>4
    <3>2. PathOf(r)' /\ SessionOf(r)' /\ StoredOf(r)'
      BY <1>1, <2>1, <3>1 DEF Local, PathOf, SessionOf, StoredOf, At, tables, Ids,
                              IsInvestigation, IsTarget
    <3>3. UsableOf(r)' /\ ShownOf(r)' /\ HeadedOf(r)'
      BY <1>1, <2>1, <3>1 DEF Local, UsableOf, ShownOf, HeadedOf, IsInvestigation,
                              IsTarget, OnTarget
    <3> QED
      BY <2>2, <3>2, <3>3 DEF Local
  <2> QED
    BY <2>3, <2>4
<1> QED
  BY <1>3, <1>5, <1>6 DEF IInv

LEMMA StutterStep ==
    ASSUME IInv, UNCHANGED vars
    PROVE  IInv'
<1>1. Growing /\ TypeOK' /\ \A r \in Requests : StandsBy(r)
  BY DEF IInv, TypeOK, vars, tables, Growing, StandsBy
<1>2. RowsInv'
  BY <1>1, RowsStay DEF vars, tables
<1> QED
  BY <1>1, <1>2, Bystander DEF IInv

LEMMA NextIInv == IInv /\ [Next]_vars => IInv'
<1> SUFFICES ASSUME IInv, [Next]_vars PROVE IInv'
  OBVIOUS
<1>1. ASSUME NEW r \in Requests, DbError(r) PROVE IInv'
  BY <1>1, FailStep DEF DbError
<1>2. ASSUME NEW r \in Requests, InsertRefused(r) PROVE IInv'
  BY <1>2, FailStep DEF InsertRefused
<1> QED
  BY <1>1, <1>2, ArriveStep, GetInvestigationStep, GetTargetStep, NotFoundStep,
     InsertStep, PublishStep, ReaderStep, CrashStep, StutterStep
  DEF Next, Quiet

THEOREM Invariance == Spec => []IInv
  BY InitIInv, NextIInv, PTL DEF Spec

\* Every row fits its column and every request keeps its shape (the models and
\* the routes), for any requests, users, names and faults.
THEOREM TypeCorrect == Spec => []TypeOK
  BY Invariance, InvImpliesProperties, PTL

\* An id that was announced is refused by no route and by no foreign key, on
\* either surface and under every fault (commit before the answer).
THEOREM UsableOnceAnnounced == Spec => []AnnouncedIsUsable
  BY Invariance, InvImpliesProperties, PTL

\* What was announced is on every later page of what it belongs to (the listings
\* of home, investigation_page, target_page and report_pdf).
THEOREM ShownOnceAnnounced == Spec => []AnnouncedIsShown
  BY Invariance, InvImpliesProperties, PTL

\* A report, and the page of an investigation, shows the one investigation that
\* owns the targets it shows (report_pdf, investigation_page).
THEOREM ReportsAreHeaded == Spec => []ReportHasInvestigation
  BY Invariance, InvImpliesProperties, PTL
=============================================================================
