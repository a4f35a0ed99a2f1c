------------------------ MODULE SearchAnswersProofs ------------------------
(***************************************************************************)
(* More proofs about the search path: what a request pays and is told,     *)
(* and what its refusal leaves behind.  They rest on the invariants of     *)
(* SearchServiceProofs.                                                    *)
(***************************************************************************)
EXTENDS SearchServiceProofs

-----------------------------------------------------------------------------
(***************************************************************************)
(* What is filed under a target was asked for it: rows arrive with the     *)
(* request that names the target and a search of the key it asked.         *)
(***************************************************************************)

\* A request that has arrived stays, and so does its question.
LEMMA ArrivedStays ==
    ASSUME TypeOK, [Next]_vars, NEW q \in Requests, pc[q] # "idle"
    PROVE  pc'[q] # "idle" /\ req'[q] = req[q]
<1>1. ASSUME NEW r \in Requests, Arrive(r) \/ RejectField(r)
      PROVE  pc'[q] # "idle" /\ req'[q] = req[q]
  BY <1>1 DEF Arrive, RejectField, Answer, GoTo, At, TypeOK
<1>2. ASSUME NEW r \in Requests, NEW place, place # "idle",
             GoTo(r, place), req' = req
      PROVE  pc'[q] # "idle" /\ req'[q] = req[q]
  BY <1>2 DEF GoTo, TypeOK
<1>3. CASE Recharge \/ UNCHANGED <<pc, req>>
  BY <1>3 DEF Recharge
<1>4. CASE Crash
  BY <1>4 DEF Crash
<1>5. ASSUME NEW r \in Requests, Step(r) \/ DbError(r) \/ LostCommit(r)
      PROVE  \E place : place # "idle" /\ GoTo(r, place) /\ req' = req
  <2>1. ASSUME NEW status, Fail(r, status)
        PROVE  \E place : place # "idle" /\ GoTo(r, place) /\ req' = req
    BY <2>1 DEF Fail, Answer
  <2>2. ASSUME NEW status, Answer(r, status), req' = req
        PROVE  \E place : place # "idle" /\ GoTo(r, place) /\ req' = req
    BY <2>2 DEF Answer
  <2>3. CASE \/ CopyRefused(r) \/ ReceiveError(r) \/ GuardRefuses(r)
             \/ CreateRefused(r) \/ AddRefused(r) \/ Respond(r) \/ DbError(r)
    BY <2>1, <2>3 DEF CopyRefused, ReceiveError, GuardRefuses, CreateRefused,
                      AddRefused, Respond, DbError
  <2>4. CASE ReadProfile(r) \/ LostCommit(r)
    BY <2>2, <2>4 DEF ReadProfile, LostCommit
  <2>5. CASE FindExisting(r) \/ Commit(r)
    <3>1. \E place \in {"commit", "copy", "respond", "ledger"} :
            GoTo(r, place) /\ req' = req
      BY <2>5 DEF FindExisting, Commit
    <3> QED
      BY <3>1
  <2>6. CASE LookupHit(r) \/ LookupMiss(r) \/ CopyRows(r)
    BY <2>6 DEF LookupHit, LookupMiss, Look, CopyRows
  <2>7. CASE Serve(r) \/ Refuse(r)
    BY <2>7 DEF Serve, Refuse
  <2>8. CASE CreateSearch(r) \/ AddRecords(r) \/ WriteAudit(r) \/ ReadLedger(r)
    BY <2>8 DEF CreateSearch, AddRecords, WriteAudit, ReadLedger
  <2> QED
    BY <1>5, <2>3, <2>4, <2>5, <2>6, <2>7, <2>8 DEF Step
<1> QED
  BY <1>1, <1>2, <1>3, <1>4, <1>5 DEF Next, vars, Quiet

LEMMA AskedStep == TypeOK /\ PathInv /\ EveryRowAsked /\ [Next]_vars => EveryRowAsked'
<1> SUFFICES ASSUME TypeOK, PathInv, EveryRowAsked, [Next]_vars, NEW o \in rows'
             PROVE  \E r \in Requests, s \in searches' :
                      /\ pc'[r] # "idle" /\ req'[r].target = o.target
                      /\ s.id = o.search /\ s.key = KeyOf(r)'
  BY DEF EveryRowAsked
<1>1. searches \subseteq searches'
  BY TablesGrow
<1>2. ASSUME NEW r \in Requests, NEW s \in searches', pc[r] # "idle",
             req[r].target = o.target, s.id = o.search, s.key = KeyOf(r)
      PROVE  /\ pc'[r] # "idle" /\ req'[r].target = o.target
             /\ s.id = o.search /\ s.key = KeyOf(r)'
  BY <1>2, ArrivedStays DEF KeyOf
<1>3. CASE o \in rows
  BY <1>1, <1>2, <1>3 DEF EveryRowAsked
<1>4. ASSUME NEW r \in Requests, Publish(r), o \notin rows
      PROVE  /\ pc[r] # "idle" /\ req[r].target = o.target
             /\ \E s \in searches' : s.id = o.search /\ s.key = KeyOf(r)
  <2>1. pc[r] = "commit"
    BY <1>4 DEF Publish, At
  <2>2. CASE source[r] = r
    <3>1. searches' = searches \cup {NewSearch(r)} /\ o \in NewRows(r)
      BY <1>4, <2>2, Published
    <3>2. o.search = r /\ o.target = req[r].target
      BY <3>1 DEF NewRows, NewRow
    <3>3. NewSearch(r).id = r /\ NewSearch(r).key = KeyOf(r)
      BY DEF NewSearch
    <3> QED
      BY <2>1, <3>1, <3>2, <3>3
  <2>3. CASE source[r] # r
    <3>1. o \in session[r].rows
      BY <1>4, <2>3, Published
    <3>2. o.search = source[r] /\ o.target = req[r].target
      BY <2>1, <2>3, <3>1 DEF PathInv, RequestInv, SessionInv
    <3> QED
      BY <1>1, <2>1, <2>3, <3>2 DEF PathInv, RequestInv, SourceInv, Copying
  <2> QED
    BY <2>2, <2>3
<1>5. o \in rows \/ \E r \in Requests : Publish(r)
  BY TablesStep DEF tables
<1> QED
  BY <1>2, <1>3, <1>4, <1>5

\* Whatever the spelling of the queries and however often a search is copied, a
\* record lies under a target only if someone asked its key for that target.
THEOREM RowsAreAskedFor == Spec => []EveryRowAsked
<1>1. Init => EveryRowAsked
  BY DEF Init, EveryRowAsked
<1> QED
  BY <1>1, AskedStep, PathCorrect, PTL DEF Spec
-----------------------------------------------------------------------------
(***************************************************************************)
(* A refusal leaves nothing behind.  Whoever has put a name in the tables  *)
(* has committed, and after its commit a request is told of success or of  *)
(* an internal error, never of a refusal.                                  *)
(***************************************************************************)

\* The request has committed, and its answer does not deny it.
Kept(r) == pc[r] \in Settled /\ outcome[r] \notin Refusals

\* A session copies for its own request, or repeats copies that were kept.
TraceInv ==
    /\ \A r \in Requests : pc[r] = "done" <=> outcome[r] # "none"
    /\ \A s \in searches : Kept(s.id)
    /\ \A o \in rows : \A i \in DOMAIN o.via : Kept(o.via[i])
    /\ \A r \in Requests : \A o \in session[r].rows : \A i \in DOMAIN o.via :
         o.via[i] = r \/ Kept(o.via[i])

LEMMA TraceInit == Init => TraceInv
  BY DEF Init, TraceInv, NoWrites

\* A step of a request moves it to a place, and answers it only as it is done.
LEMMA MoveStep ==
    ASSUME TypeOK, [Next]_vars
    PROVE  \/ UNCHANGED <<pc, outcome>> \/ Crash
           \/ \E r \in Requests : \E place :
                /\ pc[r] # "done" /\ GoTo(r, place)
                /\ place # "done" /\ outcome' = outcome
                /\ pc[r] \in Settled \cup {"commit"} => place \in Settled
           \/ \E r \in Requests : \E status :
                /\ pc[r] # "done" /\ Answer(r, status) /\ status # "none"
                /\ pc[r] \in Settled \cup {"commit"} => status \in {"ok", "500"}
<1> DEFINE Moves == \E r \in Requests : \E place :
              /\ pc[r] # "done" /\ GoTo(r, place)
              /\ place # "done" /\ outcome' = outcome
              /\ pc[r] \in Settled \cup {"commit"} => place \in Settled
           Ends == \E r \in Requests : \E status :
              /\ pc[r] # "done" /\ Answer(r, status) /\ status # "none"
              /\ pc[r] \in Settled \cup {"commit"} => status \in {"ok", "500"}
<1>1. ASSUME NEW r \in Requests, NEW status, Answer(r, status), pc[r] # "done",
             status # "none", pc[r] \in Settled \cup {"commit"} => status \in {"ok", "500"}
      PROVE  Ends
  BY <1>1
<1>2. ASSUME NEW r \in Requests, NEW place, GoTo(r, place), pc[r] # "done",
             place # "done", outcome' = outcome,
             pc[r] \in Settled \cup {"commit"} => place \in Settled
      PROVE  Moves
  BY <1>2
<1> HIDE DEF Moves, Ends
<1>3. ASSUME NEW r \in Requests,
             \/ RejectField(r) \/ CopyRefused(r) \/ ReceiveError(r)
             \/ GuardRefuses(r) \/ CreateRefused(r) \/ AddRefused(r)
      PROVE  Ends
  <2>1. /\ \E status : Answer(r, status) /\ status # "none"
        /\ pc[r] \in {"idle", "copy", "reply", "records"}
    BY <1>3, StatusType DEF Refusals, RejectField, CopyRefused, ReceiveError, GuardRefuses,
                CreateRefused, AddRefused, GuardPasses, Fail, At
  <2> QED
    BY <1>1, <2>1 DEF Settled
<1>4. ASSUME NEW r \in Requests,
             Respond(r) \/ ReadProfile(r) \/ DbError(r) \/ LostCommit(r)
      PROVE  Ends
  <2>1. pc[r] # "done" /\ (Answer(r, "ok") \/ Answer(r, "500"))
    BY <1>4 DEF Respond, ReadProfile, DbError, GuardPasses, LostCommit, Publish,
                Fail, At
  <2> QED
    BY <1>1, <2>1
<1>5. ASSUME NEW r \in Requests, Commit(r) \/ ReadLedger(r)
      PROVE  Moves
  <2>1. /\ pc[r] # "done" /\ outcome' = outcome
        /\ \E place \in {"respond", "ledger", "profile"} : GoTo(r, place)
    BY <1>5 DEF Commit, Publish, ReadLedger, At
  <2> QED
    BY <1>2, <2>1 DEF Settled
<1>6. ASSUME NEW r \in Requests,
             \/ Arrive(r) \/ LookupHit(r) \/ LookupMiss(r) \/ FindExisting(r)
             \/ CopyRows(r) \/ Serve(r) \/ Refuse(r) \/ CreateSearch(r)
             \/ AddRecords(r) \/ WriteAudit(r)
      PROVE  Moves
  <2>1. /\ pc[r] \in {"idle", "lookup", "existing", "copy", "call", "reply",
                      "records", "audit"}
        /\ outcome' = outcome
        /\ \E place \in {"lookup", "existing", "copy", "call", "commit",
                         "reply", "records", "audit"} : GoTo(r, place)
    BY <1>6 DEF Arrive, LookupHit, LookupMiss, Look, FindExisting, CopyRows,
                Serve, Refuse, CreateSearch, GuardPasses, AddRecords, WriteAudit, At
  <2> QED
    BY <1>2, <2>1 DEF Settled
<1>7. ASSUME Recharge \/ UNCHANGED vars PROVE UNCHANGED <<pc, outcome>>
  BY <1>7 DEF Recharge, vars
<1>8. UNCHANGED <<pc, outcome>> \/ Crash \/ Moves \/ Ends
  BY <1>3, <1>4, <1>5, <1>6, <1>7 DEF Next, Step, Quiet
<1> QED
  BY <1>8 DEF Moves, Ends

\* What is kept stays kept.
LEMMA KeptStays ==
    ASSUME TypeOK, [Next]_vars, NEW q \in Requests, Kept(q)
    PROVE  Kept(q)'
<1>1. CASE Crash
  BY <1>1 DEF Crash, Kept, Settled, Refusals, InFlight, TypeOK
<1>2. CASE UNCHANGED <<pc, outcome>>
  BY <1>2 DEF Kept
<1>3. ASSUME NEW r \in Requests, NEW status, pc[r] # "done", Answer(r, status),
             pc[r] \in Settled \cup {"commit"} => status \in {"ok", "500"}
      PROVE  Kept(q)'
  BY <1>3 DEF Answer, GoTo, Kept, Settled, Refusals, TypeOK
<1>4. ASSUME NEW r \in Requests, NEW place, GoTo(r, place), outcome' = outcome,
             pc[r] \in Settled \cup {"commit"} => place \in Settled
      PROVE  Kept(q)'
  BY <1>4 DEF GoTo, Kept, TypeOK
<1> QED
  BY <1>1, <1>2, <1>3, <1>4, MoveStep

\* A session gains its own new rows, or copies of what the table holds.
LEMMA SessionRows ==
    ASSUME TypeOK, [Next]_vars, NEW r \in Requests, NEW o \in session'[r].rows
    PROVE  o \in session[r].rows \cup NewRows(r) \cup {CopyOf(p, r) : p \in rows}
<1> DEFINE Gains == session[r].rows \cup NewRows(r) \cup {CopyOf(p, r) : p \in rows}
<1>1. ASSUME NEW q \in Requests, CopyRows(q) PROVE o \in Gains
  <2>1. q = r => session'[r].rows = {CopyOf(p, r) : p \in RowsOf(source[r])}
    BY <1>1 DEF CopyRows, TypeOK
  <2>2. q # r => session'[r] = session[r]
    BY <1>1 DEF CopyRows, TypeOK
  <2> QED
    BY <2>1, <2>2 DEF RowsOf
<1>2. ASSUME NEW q \in Requests, AddRecords(q) PROVE o \in Gains
  BY <1>2 DEF AddRecords, TypeOK
<1>3. ASSUME NEW q \in Requests, CreateSearch(q) \/ WriteAudit(q)
      PROVE  o \in Gains
  <2>1. CreateSearch(q) => session'[r].rows = session[r].rows
    BY DEF CreateSearch, TypeOK
  <2>2. WriteAudit(q) => session'[r].rows = session[r].rows
    BY DEF WriteAudit, TypeOK
  <2> QED
    BY <1>3, <2>1, <2>2
<1>4. CASE session' = session
  BY <1>4
<1>5. ASSUME NEW q \in Requests, session' = [session EXCEPT ![q] = NoWrites]
      PROVE  o \in Gains
  BY <1>5 DEF TypeOK, NoWrites
<1>6. CASE Crash
  BY <1>6 DEF Crash, NoWrites
<1>7. \/ session' = session \/ Crash
      \/ \E q \in Requests : \/ CreateSearch(q) \/ CopyRows(q) \/ AddRecords(q)
                             \/ WriteAudit(q)
                             \/ session' = [session EXCEPT ![q] = NoWrites]
  BY DEF Next, Step, vars, Quiet, Arrive, RejectField, LookupHit, LookupMiss,
         Look, FindExisting, CopyRefused, Serve, Refuse, ReceiveError,
         GuardRefuses, CreateRefused, AddRefused, Commit, Respond, ReadLedger,
         ReadProfile, DbError, LostCommit, Recharge, Fail, Answer
<1> QED
  BY <1>1, <1>2, <1>3, <1>4, <1>5, <1>6, <1>7

\* The tables change only where a transaction of a request commits.
LEMMA PublishingStep ==
    ASSUME [Next]_vars
    PROVE  UNCHANGED tables \/ \E r \in Requests : Commit(r) \/ LostCommit(r)
  BY DEF Next, Step, vars, tables, Quiet, Crash, Arrive, RejectField, LookupHit,
     LookupMiss, Look, FindExisting, CopyRows, CopyRefused, Serve, Refuse,
     ReceiveError, GuardRefuses, CreateSearch, CreateRefused, AddRecords,
     AddRefused, WriteAudit, Respond, ReadLedger, ReadProfile, DbError,
     Recharge, Fail

LEMMA TraceStep ==
    TypeOK /\ PathInv /\ TraceInv /\ [Next]_vars => TraceInv'
<1> SUFFICES ASSUME TypeOK, PathInv, TraceInv, [Next]_vars
             PROVE  TraceInv'
  OBVIOUS
<1>1. ASSUME NEW r \in Requests PROVE pc'[r] = "done" <=> outcome'[r] # "none"
  <2>1. ASSUME NEW q \in Requests, NEW status, Answer(q, status), status # "none"
        PROVE  pc'[r] = "done" <=> outcome'[r] # "none"
    BY <1>1, <2>1 DEF Answer, GoTo, TraceInv, TypeOK
  <2>2. ASSUME NEW q \in Requests, NEW place, GoTo(q, place), pc[q] # "done",
               place # "done", outcome' = outcome
        PROVE  pc'[r] = "done" <=> outcome'[r] # "none"
    BY <1>1, <2>2 DEF GoTo, TraceInv, TypeOK
  <2>3. CASE Crash
    BY <1>1, <2>3 DEF Crash, InFlight, TraceInv
  <2>4. CASE UNCHANGED <<pc, outcome>>
    BY <1>1, <2>4 DEF TraceInv
  <2> QED
    BY <2>1, <2>2, <2>3, <2>4, MoveStep
<1>2. ASSUME NEW q \in Requests, Commit(q) \/ LostCommit(q) PROVE Kept(q)'
  <2>1. pc[q] = "commit" /\ outcome[q] = "none"
    BY <1>2 DEF Commit, LostCommit, Publish, At, TraceInv
  <2>2. CASE Commit(q)
    BY <2>1, <2>2 DEF Commit, GoTo, Kept, Settled, Refusals, TypeOK
  <2>3. CASE LostCommit(q)
    BY <2>3 DEF LostCommit, Answer, GoTo, Kept, Settled, Refusals, TypeOK
  <2> QED
    BY <1>2, <2>2, <2>3
<1>3. \A q \in Requests : Kept(q) => Kept(q)'
  BY KeptStays
<1>4. ASSUME NEW s \in searches' PROVE Kept(s.id)'
  <2>1. CASE s \in searches
    BY <1>3, <2>1 DEF TraceInv, TypeOK, Search
  <2>2. ASSUME NEW q \in Requests, Commit(q) \/ LostCommit(q), s \notin searches
        PROVE  Kept(s.id)'
    <3>1. Publish(q)
      BY <2>2 DEF Commit, LostCommit
    <3>2. s = NewSearch(q)
      BY <1>4, <2>2, <3>1, Published
    <3> QED
      BY <1>2, <2>2, <3>2 DEF NewSearch
  <2> QED
    BY <2>1, <2>2, <1>4, PublishingStep DEF tables
<1>5. ASSUME NEW r \in Requests, NEW o \in session[r].rows, NEW i \in DOMAIN o.via
      PROVE  o.via[i] = r \/ Kept(o.via[i])'
  <2>1. o.via[i] \in Requests
    BY DEF TypeOK, Row
  <2> QED
    BY <1>3, <2>1 DEF TraceInv
<1>6. ASSUME NEW o \in rows, NEW i \in DOMAIN o.via PROVE Kept(o.via[i])'
  <2>1. o.via[i] \in Requests
    BY DEF TypeOK, Row
  <2> QED
    BY <1>3, <2>1 DEF TraceInv
<1>7. ASSUME NEW o \in rows', NEW i \in DOMAIN o.via PROVE Kept(o.via[i])'
  <2>1. CASE o \in rows
    BY <1>6, <2>1
  <2>2. ASSUME NEW q \in Requests, Commit(q) \/ LostCommit(q), o \notin rows
        PROVE  Kept(o.via[i])'
    <3>1. o \in session[q].rows
      BY <1>7, <2>2 DEF Commit, LostCommit, Publish
    <3> QED
      BY <1>2, <1>5, <2>2, <3>1
  <2> QED
    BY <2>1, <2>2, <1>7, PublishingStep DEF tables
<1>8. ASSUME NEW r \in Requests, NEW o \in session'[r].rows, NEW i \in DOMAIN o.via
      PROVE  o.via[i] = r \/ Kept(o.via[i])'
  <2>1. CASE o \in session[r].rows
    BY <1>5, <2>1
  <2>2. CASE o \in NewRows(r)
    <3>1. o.via = <<>>
      BY <2>2 DEF NewRows, NewRow
    <3> QED
      BY <1>8, <3>1
  <2>3. ASSUME NEW p \in rows, o = CopyOf(p, r)
        PROVE  o.via[i] = r \/ Kept(o.via[i])'
    <3>1. p.via \in Seq(Requests) /\ o.via = Append(p.via, r)
      BY <2>3 DEF CopyOf, TypeOK, Row
    <3>2. o.via[i] = r \/ (i \in DOMAIN p.via /\ o.via[i] = p.via[i])
      BY <1>8, <3>1
    <3> QED
      BY <1>6, <3>2
  <2> QED
    BY <1>8, <2>1, <2>2, <2>3, SessionRows
<1> QED
  BY <1>1, <1>4, <1>7, <1>8 DEF TraceInv

\* A failure that a client is told of by name has left nothing in the tables,
\* whoever else was copying the same search meanwhile.
THEOREM RefusalsLeaveNoTrace == Spec => []RefusedLeaveNoTrace
<1>1. WholeInv /\ TraceInv => RefusedLeaveNoTrace
  BY DEF WholeInv, TraceInv, Kept, RefusedLeaveNoTrace
<1> QED
  BY <1>1, TraceInit, TraceStep, WholeCorrect, PTL DEF Spec
-----------------------------------------------------------------------------
(***************************************************************************)
(* The search path keeps to the contract of the upstream call: it takes    *)
(* one answer for each call, and a call that was refused has paid nothing. *)
(***************************************************************************)

\* No answer is there before the request has called.
CallInv ==
    \A r \in Requests :
        pc[r] \in {"idle", "lookup", "existing", "copy", "call"} =>
            reply[r].kind = "none"

LEMMA CallInit == Init => CallInv
  BY DEF Init, CallInv

LEMMA CallStep == TypeOK /\ CallInv /\ [Next]_vars => CallInv'
<1> SUFFICES ASSUME TypeOK, CallInv, [Next]_vars PROVE CallInv'
  OBVIOUS
<1>1. ASSUME NEW r \in Requests, Serve(r) \/ Refuse(r) PROVE CallInv'
  <2>1. /\ pc' = [pc EXCEPT ![r] = "reply"]
        /\ \A q \in Requests : q # r => reply'[q] = reply[q]
    BY <1>1 DEF Serve, Refuse, GoTo, TypeOK
  <2> QED
    BY <2>1 DEF CallInv, TypeOK
<1>2. CASE Crash
  BY <1>2 DEF Crash, CallInv, InFlight
<1>3. ASSUME NEW r \in Requests, NEW place, GoTo(r, place), reply' = reply,
             \/ pc[r] \in {"idle", "lookup", "existing", "copy"}
             \/ place \notin {"idle", "lookup", "existing", "copy", "call"}
      PROVE  CallInv'
  BY <1>3 DEF GoTo, CallInv, TypeOK
<1>4. ASSUME NEW r \in Requests, NEW status, Answer(r, status), reply' = reply
      PROVE  CallInv'
  BY <1>3, <1>4 DEF Answer
<1>5. ASSUME NEW r \in Requests,
             Arrive(r) \/ LookupHit(r) \/ LookupMiss(r) \/ CopyRows(r)
      PROVE  CallInv'
  BY <1>3, <1>5 DEF Arrive, LookupHit, LookupMiss, Look, CopyRows, At
<1>6. ASSUME NEW r \in Requests, FindExisting(r) \/ Commit(r)
      PROVE  CallInv'
  <2>1. CASE FindExisting(r)
    <3>1. /\ pc[r] = "existing" /\ reply' = reply
          /\ \E place : GoTo(r, place)
      BY <2>1 DEF FindExisting, At
    <3> QED
      BY <1>3, <3>1
  <2>2. CASE Commit(r)
    <3>1. /\ reply' = reply
          /\ \E place \in {"respond", "ledger"} : GoTo(r, place)
      BY <2>2 DEF Commit
    <3> QED
      BY <1>3, <3>1
  <2> QED
    BY <1>6, <2>1, <2>2
<1>7. ASSUME NEW r \in Requests,
             CreateSearch(r) \/ AddRecords(r) \/ WriteAudit(r) \/ ReadLedger(r)
      PROVE  CallInv'
  BY <1>3, <1>7 DEF CreateSearch, AddRecords, WriteAudit, ReadLedger
<1>8. ASSUME NEW r \in Requests,
             \/ RejectField(r) \/ CopyRefused(r) \/ ReceiveError(r)
             \/ GuardRefuses(r) \/ CreateRefused(r) \/ AddRefused(r)
             \/ Respond(r) \/ ReadProfile(r) \/ DbError(r) \/ LostCommit(r)
      PROVE  CallInv'
  <2>1. reply' = reply /\ \E status : Answer(r, status)
    BY <1>8 DEF RejectField, CopyRefused, ReceiveError, GuardRefuses,
                CreateRefused, AddRefused, Respond, ReadProfile, DbError,
                LostCommit, Fail
  <2> QED
    BY <1>4, <2>1
<1>9. CASE Recharge \/ UNCHANGED vars
  BY <1>9 DEF Recharge, vars, CallInv
<1> QED
  BY <1>1, <1>2, <1>5, <1>6, <1>7, <1>8, <1>9 DEF Next, Step, Quiet

LEMMA UpstreamInit == Init => Upstream!Init
  BY DEF Init, Upstream!Init

\* Serve is a charge that ends the call, Refuse an end, Recharge a gain; the
\* rest is invisible.
LEMMA UpstreamStep ==
    TypeOK /\ PathInv /\ CallInv /\ [Next]_vars => [Upstream!Next]_(Upstream!vars)
<1> SUFFICES ASSUME TypeOK, PathInv, CallInv, [Next]_vars
             PROVE  [Upstream!Next]_(Upstream!vars)
  OBVIOUS
<1> DEFINE Result(table) == [r \in Requests |-> table[r].kind]
<1>1. ASSUME NEW r \in Requests, Serve(r) PROVE Upstream!Next
  <2>1. /\ pc[r] = "call" /\ balance > 0
        /\ balance' = balance - 1 /\ charged' = charged \cup {r}
    BY <1>1 DEF Serve, At
  <2>2. PICK kind \in {"entries", "api", "raw"} :
          Result(reply') = [Result(reply) EXCEPT ![r] = kind]
    <3>1. ASSUME NEW m \in Matches, NEW n \in Totals,
                 NEW left \in {balance - 1} \cup Unreported,
                 reply' = [reply EXCEPT ![r] = [kind |-> "entries", matches |-> m,
                                                total |-> n, balance |-> left]]
          PROVE  Result(reply') = [Result(reply) EXCEPT ![r] = "entries"]
      BY <3>1 DEF TypeOK
    <3>2. ASSUME NEW kind \in Faults \cap {"api", "raw"},
                 reply' = [reply EXCEPT ![r].kind = kind]
          PROVE  Result(reply') = [Result(reply) EXCEPT ![r] = kind]
      BY <3>2 DEF TypeOK
    <3> HIDE DEF Result
    <3> QED
      BY <1>1, <3>1, <3>2 DEF Serve
  <2>3. r \notin charged /\ reply[r].kind = "none"
    BY <2>1 DEF PathInv, RequestInv, SpendInv, CallInv
  <2>5. Upstream!Pays(r)
    BY <2>1, <2>3 DEF Upstream!Pays
  <2>6. Upstream!Ends(r)
    BY <2>1, <2>2 DEF Upstream!Ends, Upstream!Results
  <2> QED
    BY <2>3, <2>5, <2>6 DEF Upstream!Next
<1>2. ASSUME NEW r \in Requests, Refuse(r) PROVE Upstream!Next
  <2>1. pc[r] = "call" /\ UNCHANGED <<balance, charged>>
    BY <1>2 DEF Refuse, At, account
  <2>2. PICK kind \in Errors : reply' = [reply EXCEPT ![r].kind = kind]
    BY <1>2 DEF Refuse
  <2>3. r \notin charged /\ reply[r].kind = "none"
    BY <2>1 DEF PathInv, RequestInv, SpendInv, CallInv
  <2>4. Result(reply') = [Result(reply) EXCEPT ![r] = kind]
    BY <2>2 DEF TypeOK
  <2>5. Upstream!Ends(r)
    BY <2>1, <2>2, <2>3, <2>4 DEF Upstream!Ends, Upstream!Results, Errors
  <2> QED
    BY <2>1, <2>3, <2>5 DEF Upstream!Next
<1>3. CASE UNCHANGED <<account, reply>>
  BY <1>3 DEF account, Upstream!vars
<1>4. CASE Recharge
  <2>1. balance \in Nat /\ balance' \in Nat
    BY TypeStep DEF TypeOK
  <2>2. balance' > balance /\ UNCHANGED <<charged, reply>>
    BY <1>4, <2>1 DEF Recharge
  <2> QED
    BY <2>1, <2>2 DEF Upstream!Next, Upstream!Gains
<1>5. \/ UNCHANGED <<account, reply>> \/ Recharge
      \/ \E r \in Requests : Serve(r) \/ Refuse(r)
  BY DEF Next, Step, vars, account, Quiet, Crash, Arrive, RejectField, LookupHit,
         LookupMiss, Look, FindExisting, CopyRows, CopyRefused,
         ReceiveError, GuardRefuses, CreateSearch, CreateRefused, AddRecords,
         AddRefused, WriteAudit, Commit, Respond, ReadLedger, ReadProfile, DbError,
         LostCommit, Fail
<1> QED
  BY <1>1, <1>2, <1>3, <1>4, <1>5

\* The search path uses the API as the retry loop provides it: each call is
\* charged once at most and answered once, however requests interleave.
THEOREM UsesOneCall == Spec => UpstreamSpec
<1> QED
  BY UpstreamInit, UpstreamStep, CallInit, CallStep, PathCorrect, PTL
  DEF Spec, UpstreamSpec, Upstream!Spec
-----------------------------------------------------------------------------
(***************************************************************************)
(* The results page.  It reads its ledger after the commit, when the       *)
(* target holds the page of the search, and its profile after the ledger,  *)
(* when the target holds at least what the ledger lists.                   *)
(***************************************************************************)

\* The ledger the page has read lists the page of the search that answers it.
Lists(r) ==
    \A i \in DOMAIN FirstPage(reply[source[r]].matches) :
        FirstPage(reply[source[r]].matches)[i] \in view[r].ledger

PageInv(r) ==
    /\ pc[r] = "respond" => req[r].surface = "v1"
    /\ pc[r] = "profile" =>
         Lists(r) /\ view[r].ledger \subseteq ContentsOf(req[r].target)
    /\ (outcome[r] = "ok" /\ req[r].surface = "ui") =>
         Lists(r) /\ view[r].ledger \subseteq view[r].profile

ViewInv == \A r \in Requests : PageInv(r)

LEMMA ViewInit == Init => ViewInv
  BY DEF Init, ViewInv, PageInv

\* A step moves a request towards its answer, answers it, or passes it by.
LEMMA PageSteps ==
    ASSUME TypeOK, CoverInv, [Next]_vars, NEW q \in Requests
    PROVE  \/ UNCHANGED <<pc[q], req[q], source[q], view[q], outcome[q]>>
           \/ Commit(q) \/ Respond(q) \/ ReadLedger(q) \/ ReadProfile(q)
           \/ /\ pc'[q] \notin {"respond", "profile"} /\ outcome'[q] # "ok"
<1> DEFINE Same == UNCHANGED <<pc[q], req[q], source[q], view[q], outcome[q]>>
           Early == pc'[q] \notin {"respond", "profile"} /\ outcome'[q] # "ok"
<1>1. outcome[q] # "none" => pc[q] = "done"
  BY DEF CoverInv, RequestCovered
<1>2. ASSUME NEW r \in Requests, NEW status, status # "ok", Answer(r, status),
             r # q => UNCHANGED <<req[q], source[q], view[q]>>
      PROVE  Same \/ Early
  BY <1>2 DEF Answer, GoTo, TypeOK
<1>3. ASSUME NEW r \in Requests, NEW place, place \notin {"respond", "profile"},
             GoTo(r, place), pc[r] # "done", outcome' = outcome,
             r # q => UNCHANGED <<req[q], source[q], view[q]>>
      PROVE  Same \/ Early
  BY <1>1, <1>3 DEF GoTo, TypeOK
<1>4. ASSUME NEW r \in Requests, r # q,
             Commit(r) \/ Respond(r) \/ ReadLedger(r) \/ ReadProfile(r)
      PROVE  Same
  BY <1>4 DEF Commit, Respond, ReadLedger, ReadProfile, Fail, Answer, GoTo, TypeOK
<1> HIDE DEF Same, Early
<1>5. ASSUME NEW r \in Requests,
             \/ RejectField(r) \/ CopyRefused(r) \/ ReceiveError(r)
             \/ GuardRefuses(r) \/ CreateRefused(r) \/ AddRefused(r)
             \/ DbError(r) \/ LostCommit(r)
      PROVE  Same \/ Early
  <2>1. \A surface, error : StatusOf(surface, error) # "ok"
    BY DEF StatusOf
  <2>2. CASE RejectField(r)
    <3>1. PICK a \in Ask : /\ req' = [req EXCEPT ![r] = a]
                           /\ Answer(r, IF a.surface = "v1" THEN "422" ELSE "500")
      BY <2>2 DEF RejectField
    <3>2. \E status : status # "ok" /\ Answer(r, status)
      BY <3>1
    <3>3. r # q => UNCHANGED <<req[q], source[q], view[q]>>
      BY <2>2, <3>1 DEF RejectField, TypeOK
    <3> QED
      BY <1>2, <3>2, <3>3
  <2>3. CASE ~ RejectField(r)
    <3>1. \E status : status # "ok" /\ Answer(r, status)
      BY <1>5, <2>1, <2>3 DEF CopyRefused, ReceiveError, GuardRefuses,
             CreateRefused, AddRefused, DbError, LostCommit, Fail
    <3>2. UNCHANGED <<req, source, view>>
      BY <1>5, <2>3 DEF CopyRefused, ReceiveError, GuardRefuses, CreateRefused,
             AddRefused, DbError, LostCommit, Fail
    <3> QED
      BY <1>2, <3>1, <3>2
  <2> QED
    BY <2>2, <2>3
<1>6. ASSUME NEW r \in Requests,
             \/ Arrive(r) \/ LookupHit(r) \/ LookupMiss(r) \/ FindExisting(r)
             \/ CopyRows(r) \/ Serve(r) \/ Refuse(r) \/ CreateSearch(r)
             \/ AddRecords(r) \/ WriteAudit(r)
      PROVE  Same \/ Early
  <2>1. /\ pc[r] # "done" /\ outcome' = outcome /\ view' = view
        /\ \E place \in {"lookup", "existing", "copy", "call", "commit",
                         "reply", "records", "audit"} : GoTo(r, place)
    BY <1>6 DEF Arrive, LookupHit, LookupMiss, Look, FindExisting, CopyRows,
                Serve, Refuse, CreateSearch, GuardPasses, AddRecords, WriteAudit, At
  <2>2. r # q => UNCHANGED <<req[q], source[q]>>
    BY <1>6 DEF Arrive, LookupHit, LookupMiss, Look, FindExisting, CopyRows,
                Serve, Refuse, CreateSearch, AddRecords, WriteAudit, TypeOK
  <2> QED
    BY <1>3, <2>1, <2>2
<1>7. ASSUME Crash PROVE Same \/ Early
  BY <1>1, <1>7 DEF Crash, InFlight, Same, Early
<1>8. ASSUME Recharge \/ UNCHANGED vars PROVE Same
  BY <1>8 DEF Recharge, vars, Same
<1>9. \/ Same \/ Early
      \/ Commit(q) \/ Respond(q) \/ ReadLedger(q) \/ ReadProfile(q)
  BY <1>4, <1>5, <1>6, <1>7, <1>8 DEF Next, Step, Quiet
<1> QED
  BY <1>9 DEF Same, Early

LEMMA ViewStep ==
    TypeOK /\ PathInv /\ CoverInv /\ ViewInv /\ [Next]_vars => ViewInv'
<1> SUFFICES ASSUME TypeOK, PathInv, CoverInv, ViewInv, [Next]_vars,
                    NEW q \in Requests
             PROVE  PageInv(q)'
  BY DEF ViewInv
<1>1. ASSUME NEW t PROVE ContentsOf(t) \subseteq ContentsOf(t)'
  BY TablesGrow DEF ContentsOf
<1>2. ASSUME Answering(q), source'[q] = source[q]
      PROVE  reply'[source'[q]] = reply[source[q]]
  <2>1. PICK s \in searches : s.id = source[q]
    BY <1>2 DEF CoverInv, RequestCovered
  <2>2. reply'[s.id] = reply[s.id]
    BY StableSearches
  <2> QED
    BY <1>2, <2>1, <2>2
<1>3. CASE UNCHANGED <<pc[q], req[q], source[q], view[q], outcome[q]>>
  <2>1. ASSUME Answering(q), Lists(q) PROVE Lists(q)'
    BY <1>2, <1>3, <2>1 DEF Lists
  <2> QED
    BY <1>1, <1>3, <2>1 DEF ViewInv, PageInv, Answering
<1>4. CASE Commit(q)
  <2>1. /\ pc[q] = "commit" /\ UNCHANGED <<req, outcome>>
        /\ pc'[q] = IF req[q].surface = "v1" THEN "respond" ELSE "ledger"
    BY <1>4 DEF Commit, Publish, At, GoTo, TypeOK
  <2>2. outcome[q] = "none"
    BY <2>1 DEF CoverInv, RequestCovered
  <2> QED
    BY <2>1, <2>2 DEF PageInv
<1>5. CASE Respond(q)
  <2>1. /\ pc[q] = "respond" /\ pc'[q] = "done" /\ req'[q] = req[q]
    BY <1>5 DEF Respond, Fail, Answer, At, GoTo, TypeOK
  <2> QED
    BY <2>1 DEF ViewInv, PageInv
<1>6. CASE ReadLedger(q)
  <2>1. /\ pc[q] = "ledger" /\ pc'[q] = "profile" /\ outcome' = outcome
        /\ UNCHANGED <<rows, req, source>>
        /\ view'[q].ledger = ContentsOf(req[q].target)
    BY <1>6 DEF ReadLedger, At, GoTo, TypeOK, tables
  <2>2. Covers(source[q], req[q].target, rows) /\ outcome[q] = "none"
    BY <2>1 DEF CoverInv, RequestCovered, Answering
  <2>3. reply'[source'[q]] = reply[source[q]]
    BY <1>2, <2>1 DEF Answering
  <2>4. Lists(q)'
    BY <2>1, <2>2, <2>3 DEF Lists, Covers, ContentsOf
  <2>5. view'[q].ledger \subseteq ContentsOf(req[q].target)'
    BY <2>1 DEF ContentsOf
  <2> QED
    BY <2>1, <2>2, <2>4, <2>5 DEF PageInv
<1>7. CASE ReadProfile(q)
  <2>1. /\ pc[q] = "profile" /\ pc'[q] = "done"
        /\ UNCHANGED <<req, source>> /\ view'[q].ledger = view[q].ledger
        /\ view'[q].profile = ContentsOf(req[q].target)
    BY <1>7 DEF ReadProfile, Answer, At, GoTo, TypeOK
  <2>2. Lists(q) /\ view[q].ledger \subseteq ContentsOf(req[q].target)
    BY <2>1 DEF ViewInv, PageInv
  <2>3. Lists(q)'
    BY <1>2, <2>1, <2>2 DEF Lists, Answering
  <2> QED
    BY <2>1, <2>2, <2>3 DEF PageInv
<1>8. CASE pc'[q] \notin {"respond", "profile"} /\ outcome'[q] # "ok"
  BY <1>8 DEF PageInv
<1> QED
  BY <1>3, <1>4, <1>5, <1>6, <1>7, <1>8, PageSteps

\* What a results page shows hangs together: its ledger lists the page of the
\* search it answers with, and its profile knows all the ledger lists.
THEOREM PagesAreConsistent == Spec => []ViewConsistent
<1>1. CoverInv /\ ViewInv => ViewConsistent
  BY DEF CoverInv, ViewInv, PageInv, ViewConsistent, Lists, PageOf
<1> QED
  BY <1>1, ViewInit, ViewStep, CoverCorrect, PTL DEF Spec
=============================================================================
