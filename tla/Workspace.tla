----------------------------- MODULE Workspace -----------------------------
(***************************************************************************)
(* Investigations, their targets and the searches stored for a target: the *)
(* routes of /v1 and of the pages that create them, and the readers that   *)
(* list them or walk from a target to its investigation.  Requests run     *)
(* concurrently, each in a session of its own, one statement at a time;    *)
(* nothing is ever deleted.  A row is identified by the request that       *)
(* created it.  The owner of an investigation is the user with id          *)
(* SEED_USER_ID, whom only the tests insert.                               *)
(*                                                                         *)
(* A search stands for what SearchLedger promises of one that is new and   *)
(* finds records: its rows appear at once or not at all.                   *)
(***************************************************************************)
EXTENDS Naturals, FiniteSets

CONSTANTS
    Requests,   \* the requests of a behaviour
    Users,      \* the users the installation has
    SeedUser,   \* SEED_USER_ID
    Earlier,    \* not a request: it created what was there before
    Names,      \* names and labels a client can send
    WideNames,  \* those that VARCHAR(200) cannot hold
    Faults      \* the faults that can happen, a subset of {"db", "crash"}

ASSUME WorkspaceAssumption ==
    /\ WideNames \subseteq Names /\ Names \ WideNames # {}
    /\ Faults \subseteq {"db", "crash"}
    /\ Earlier \notin Requests

VARIABLES
    investigations, \* committed rows of the table investigations
    targets,        \* committed rows of the table targets
    searches,       \* committed rows of the table searches, with their records
    pc,             \* where each request is
    req,            \* what each request asks: its kind, the id it names, a name
    known,          \* history: the requests answered with success before it
    session,        \* the rows the request has inserted and not committed
    shown,          \* the rows a reader was shown
    answer          \* the status of the response

tables == <<investigations, targets, searches>>
vars == <<investigations, targets, searches, pc, req, known, session, shown,
          answer>>

NewTarget == {"v1_target", "ui_target"}
TargetReaders == {"target_page", "report"}
Readers == {"home", "investigation_page"} \cup TargetReaders

\* The rows a request can name by their id.
Named == Requests \cup {Earlier}

Ask ==
    [kind : {"investigation"}, on : {Earlier}, name : Names]
      \cup [kind : NewTarget, on : Named, name : Names]
      \cup [kind : {"search"} \cup (Readers \ {"home"}), on : Named,
            name : Names \ WideNames]
      \cup [kind : {"home"}, on : {Earlier}, name : Names \ WideNames]

Nothing == [investigations |-> {}, targets |-> {}, searches |-> {}]

Ids(table) == {row.id : row \in table}

SomeName == CHOOSE n \in Names \ WideNames : TRUE

\* An installation that can store an investigation has one from before.
Init ==
    /\ investigations =
         IF SeedUser \in Users
         THEN {[id |-> Earlier, owner |-> SeedUser, name |-> SomeName]} ELSE {}
    /\ targets = {} /\ searches = {}
    /\ pc = [r \in Requests |-> "idle"]
    /\ req = [r \in Requests |-> [kind |-> "home", on |-> Earlier,
                                  name |-> SomeName]]
    /\ known = [r \in Requests |-> {}]
    /\ session = [r \in Requests |-> Nothing]
    /\ shown = [r \in Requests |-> Nothing]
    /\ answer = [r \in Requests |-> "none"]

-----------------------------------------------------------------------------
(* Steps of the routes *)

At(r, place, kinds) == pc[r] = place /\ req[r].kind \in kinds
GoTo(r, place) == pc' = [pc EXCEPT ![r] = place]

Answer(r, status) ==
    /\ GoTo(r, "done")
    /\ answer' = [answer EXCEPT ![r] = status]
    /\ session' = [session EXCEPT ![r] = Nothing]

Fail(r, status) == Answer(r, status) /\ UNCHANGED <<tables, req, known, shown>>

\* Where a route begins: some look a row up, some write at once, the list of
\* investigations is only read.
First(kind) ==
    IF kind = "home" THEN "read"
    ELSE IF kind \in Readers \cup {"ui_target"} THEN "get" ELSE "insert"

Arrive(r) ==
    /\ pc[r] = "idle"
    /\ \E a \in Ask : req' = [req EXCEPT ![r] = a] /\ GoTo(r, First(a.kind))
    /\ known' = [known EXCEPT ![r] = {a \in Requests : answer[a] = "ok"}]
    /\ UNCHANGED <<tables, session, shown, answer>>

GetInvestigation(r) ==
    /\ At(r, "get", {"ui_target", "investigation_page"})
    /\ req[r].on \in Ids(investigations)
    /\ GoTo(r, IF req[r].kind = "ui_target" THEN "insert" ELSE "read")
    /\ UNCHANGED <<tables, req, known, session, shown, answer>>

GetTarget(r) ==
    /\ At(r, "get", TargetReaders)
    /\ req[r].on \in Ids(targets)
    /\ GoTo(r, "read")
    /\ UNCHANGED <<tables, req, known, session, shown, answer>>

\* Slip: the target is looked for among the investigations.
NotFoundElsewhere(r) ==
    /\ pc[r] = "get"
    /\ req[r].on \notin Ids(investigations)
    /\ Fail(r, "404")

NotFound(r) ==
    /\ pc[r] = "get"
    /\ req[r].on \notin Ids(IF req[r].kind \in TargetReaders
                            THEN targets ELSE investigations)
    /\ Fail(r, "404")

-----------------------------------------------------------------------------
(* Writes *)

\* Foreign keys: the owner of an investigation, the investigation of a target,
\* the target of a search and its records.
Present(r) ==
    /\ req[r].kind = "investigation" => SeedUser \in Users
    /\ req[r].kind \in NewTarget => req[r].on \in Ids(investigations)
    /\ req[r].kind = "search" => req[r].on \in Ids(targets)

\* Slip: the columns take names of any width.
StorableAnyWidth(r) == Present(r)

Storable(r) == Present(r) /\ req[r].name \notin WideNames

Insert(r, rows) ==
    /\ session' = [session EXCEPT ![r] = rows]
    /\ GoTo(r, "commit")
    /\ UNCHANGED <<tables, req, known, shown, answer>>

InsertInvestigation(r) ==
    /\ At(r, "insert", {"investigation"})
    /\ Storable(r)
    /\ Insert(r, [Nothing EXCEPT !.investigations =
                    {[id |-> r, owner |-> SeedUser, name |-> req[r].name]}])

\* Slip: the table has no foreign key to investigations.
InsertTargetUnchecked(r) ==
    /\ At(r, "insert", NewTarget)
    /\ req[r].name \notin WideNames
    /\ Insert(r, [Nothing EXCEPT !.targets =
                    {[id |-> r, investigation |-> req[r].on, label |-> req[r].name]}])

InsertTarget(r) ==
    /\ At(r, "insert", NewTarget)
    /\ Storable(r)
    /\ Insert(r, [Nothing EXCEPT !.targets =
                    {[id |-> r, investigation |-> req[r].on, label |-> req[r].name]}])

\* The target is not looked for before the upstream API is asked and paid.
InsertSearch(r) ==
    /\ At(r, "insert", {"search"})
    /\ Storable(r)
    /\ Insert(r, [Nothing EXCEPT !.searches = {[id |-> r, target |-> req[r].on]}])

InsertRefused(r) ==
    /\ pc[r] = "insert" /\ ~ Storable(r)
    /\ Fail(r, "500")

Publish(r) ==
    /\ pc[r] = "commit"
    /\ investigations' = investigations \cup session[r].investigations
    /\ targets' = targets \cup session[r].targets
    /\ searches' = searches \cup session[r].searches
    /\ UNCHANGED <<req, known, shown>>

\* Slip: the answer is given before the commit, which then does not happen.
CommitForgotten(r) ==
    /\ pc[r] = "commit"
    /\ Fail(r, "ok")

\* The answer carries the id of the row, which is committed by then.
Commit(r) == Publish(r) /\ Answer(r, "ok")

-----------------------------------------------------------------------------
(* Readers *)

Shows(r, rows) ==
    /\ shown' = [shown EXCEPT ![r] = rows]
    /\ Answer(r, "ok")
    /\ UNCHANGED <<tables, req, known>>

\* list_all, for the first page and for /v1/investigations.
ShowHome(r) ==
    /\ At(r, "read", {"home"})
    /\ Shows(r, [Nothing EXCEPT !.investigations = investigations])

\* The page lists the targets of the investigation it found.
ShowInvestigation(r) ==
    /\ At(r, "read", {"investigation_page"})
    /\ Shows(r, [investigations |-> {i \in investigations : i.id = req[r].on},
                 targets |-> {t \in targets : t.investigation = req[r].on},
                 searches |-> {}])

SearchesOf(id) == {s \in searches : s.target = id}

ShowTarget(r) ==
    /\ At(r, "read", {"target_page"})
    /\ Shows(r, [investigations |-> {},
                 targets |-> {t \in targets : t.id = req[r].on},
                 searches |-> SearchesOf(req[r].on)])

\* The report of a target is headed by the name of its investigation.
ShowReport(r) ==
    /\ At(r, "read", {"report"})
    /\ \E t \in targets :
         /\ t.id = req[r].on
         /\ Shows(r, [investigations |-> {i \in investigations : i.id = t.investigation},
                      targets |-> {t}, searches |-> SearchesOf(t.id)])

-----------------------------------------------------------------------------
(* Faults *)

DbError(r) ==
    /\ "db" \in Faults /\ pc[r] \notin {"idle", "done"}
    /\ Fail(r, "500")

LostCommit(r) == "db" \in Faults /\ Publish(r) /\ Answer(r, "500")

Crash ==
    LET dropped == {r \in Requests : pc[r] \notin {"idle", "done"}}
    IN  /\ "crash" \in Faults /\ dropped # {}
        /\ pc' = [r \in Requests |-> IF r \in dropped THEN "done" ELSE pc[r]]
        /\ answer' = [r \in Requests |->
                        IF r \in dropped THEN "dropped" ELSE answer[r]]
        /\ session' = [r \in Requests |-> Nothing]
        /\ UNCHANGED <<tables, req, known, shown>>

Quiet == (\A r \in Requests : pc[r] = "done") /\ UNCHANGED vars

Next ==
    \/ \E r \in Requests :
         \/ Arrive(r) \/ GetInvestigation(r) \/ GetTarget(r) \/ NotFound(r)
         \/ InsertInvestigation(r) \/ InsertTarget(r) \/ InsertSearch(r)
         \/ InsertRefused(r) \/ Commit(r)
         \/ ShowHome(r) \/ ShowInvestigation(r) \/ ShowTarget(r) \/ ShowReport(r)
         \/ DbError(r) \/ LostCommit(r)
    \/ Crash
    \/ Quiet

Spec == Init /\ [][Next]_vars

-----------------------------------------------------------------------------
(* Properties *)

Investigation == [id : Named, owner : {SeedUser}, name : Names \ WideNames]
Target == [id : Requests, investigation : Named, label : Names \ WideNames]
Search == [id : Requests, target : Named]
Rows == [investigations : SUBSET Investigation, targets : SUBSET Target,
         searches : SUBSET Search]

\* The tables hold rows that fit their columns; requests keep their shape.
TypeOK ==
    /\ investigations \subseteq Investigation /\ targets \subseteq Target
    /\ searches \subseteq Search
    /\ pc \in [Requests -> {"idle", "get", "insert", "commit", "read", "done"}]
    /\ req \in [Requests -> Ask]
    /\ known \in [Requests -> SUBSET Requests]
    /\ session \in [Requests -> Rows] /\ shown \in [Requests -> Rows]
    /\ answer \in [Requests -> {"none", "ok", "404", "500", "dropped"}]

IsTarget(a) == req[a].kind \in NewTarget
IsInvestigation(a) == req[a].kind = "investigation"
OnTarget(r) == req[r].kind \in TargetReaders \cup {"search"}

\* Who was told of an id can use it, from then on and under any fault: no route
\* answers that it does not exist, and no foreign key refuses it after it was
\* paid for (the routes answer after their commit).
AnnouncedIsUsable ==
    \A r \in Requests : \A a \in known[r] :
        /\ req[r].on = a
        /\ (IsTarget(a) /\ OnTarget(r))
             \/ (IsInvestigation(a) /\ req[r].kind \in NewTarget \cup {"investigation_page"})
        => answer[r] # "404" /\ (pc[r] = "insert" => Present(r))

\* Who was told that something is stored finds it on every page of what it
\* belongs to: investigations on the first page, targets on the page of their
\* investigation, searches on the page of their target and in its report.
AnnouncedIsShown ==
    \A r \in Requests : \A a \in known[r] :
        answer[r] = "ok" =>
            /\ (req[r].kind = "home" /\ IsInvestigation(a))
                 => a \in Ids(shown[r].investigations)
            /\ (req[r].kind = "investigation_page" /\ IsTarget(a)
                  /\ req[a].on = req[r].on) => a \in Ids(shown[r].targets)
            /\ (req[r].kind \in TargetReaders /\ req[a].kind = "search"
                  /\ req[a].on = req[r].on) => a \in Ids(shown[r].searches)

\* "investigation should always exist if target exists": a report is headed by
\* the investigation of its target, and the page of an investigation shows that
\* one with the targets it owns (report_pdf, investigation_page).
ReportHasInvestigation ==
    \A r \in Requests :
        (answer[r] = "ok" /\ req[r].kind \in {"report", "investigation_page"}) =>
            \E i \in Investigation :
                /\ shown[r].investigations = {i}
                /\ \A t \in shown[r].targets : t.investigation = i.id

\* "a users stub table seeded with a single local user": an installation that
\* was migrated stores the investigations it is asked for (no fault intervenes).
InstallationStores ==
    \A r \in Requests :
        (IsInvestigation(r) /\ req[r].name \notin WideNames)
            => answer[r] # "500"
=============================================================================
