------------------------ MODULE ConnectionPoolProofs ------------------------
(***************************************************************************)
(* Proofs about the search path on a pool of connections, for any number   *)
(* of requests and any size of the pool: what the path promises still      *)
(* holds, and the size of the pool bounds what its races can cost, the     *)
(* searches stored of one key and the copies filed under one target.       *)
(***************************************************************************)
EXTENDS ConnectionPool, SearchLedgerProofs

-----------------------------------------------------------------------------
(* Where requests are *)

\* Each request has a place and the places are spelled as they are, so a step
\* of one request leaves the others where they were.
PlaceInv == pc \in [Requests -> Places]

\* A request keeps its connection from its first statement to the end of its
\* transaction, and between transactions it has none, or one to begin with.
HoldInv ==
    /\ connections \subseteq Requests
    /\ \A r \in connections : pc[r] \in Opening \cup Opened
    /\ \A r \in Requests : pc[r] \in Opened => r \in connections

CountInv == IsFiniteSet(connections) /\ Cardinality(connections) <= PoolLimit

IInv == PlaceInv /\ HoldInv /\ CountInv

\* One request moves, to the place its answer or its next statement has.
Moves(r) == \E p \in Places : pc' = [pc EXCEPT ![r] = p]

LEMMA StepMoves ==
    ASSUME NEW r \in Requests,
           Step(r) \/ DbError(r) \/ LostCommit(r)
    PROVE  Moves(r)
<1> USE DEF Moves, GoTo, Answer, Fail, Places
<1>1. CASE LookupHit(r) \/ LookupMiss(r) \/ FindExisting(r) \/ CopyRows(r)
             \/ CopyRefused(r)
  BY <1>1 DEF LookupHit, LookupMiss, FindExisting, CopyRows, CopyRefused
<1>2. CASE Serve(r) \/ Refuse(r) \/ ReceiveError(r) \/ GuardRefuses(r)
  BY <1>2 DEF Serve, Refuse, ReceiveError, GuardRefuses
<1>3. CASE CreateSearch(r) \/ CreateRefused(r) \/ AddRecords(r) \/ AddRefused(r)
             \/ WriteAudit(r)
  BY <1>3 DEF CreateSearch, CreateRefused, AddRecords, AddRefused, WriteAudit
<1>4. CASE Commit(r) \/ Respond(r) \/ ReadLedger(r) \/ ReadProfile(r)
  BY <1>4 DEF Commit, Respond, ReadLedger, ReadProfile
<1>5. CASE DbError(r) \/ LostCommit(r)
  BY <1>5 DEF DbError, LostCommit
<1> QED
  BY <1>1, <1>2, <1>3, <1>4, <1>5 DEF Step

\* A step starts where a transaction may open, where one is open, or at the
\* answer that needs none.
LEMMA StepFrom ==
    ASSUME NEW r \in Requests, Step(r)
    PROVE  pc[r] \in Opening \cup Opened \cup {"respond"}
  BY DEF Opening, Opened, Step, At, Look, LookupHit, LookupMiss, FindExisting,
         CopyRows, CopyRefused, Serve, Refuse, ReceiveError, GuardRefuses,
         GuardPasses, CreateSearch, CreateRefused, AddRecords, AddRefused,
         WriteAudit, Publish, Commit, Respond, ReadLedger, ReadProfile

\* Only a lookup opens the transaction that the other statements run in, and
\* only the first read of the page the one of the second.
LEMMA StepOpens ==
    ASSUME NEW r \in Requests, Step(r), PlaceInv, pc[r] = "respond"
    PROVE  pc'[r] = "done"
  BY DEF PlaceInv, Step, At, Look, GoTo, Fail, Answer, LookupHit, LookupMiss,
         FindExisting, CopyRows, CopyRefused, Serve, Refuse, ReceiveError,
         GuardRefuses, GuardPasses, CreateSearch, CreateRefused, AddRecords,
         AddRefused, WriteAudit, Publish, Commit, Respond, ReadLedger, ReadProfile

-----------------------------------------------------------------------------
(* Connections *)

\* Giving connections back keeps their number within the limit.
LEMMA ReturnCount ==
    ASSUME CountInv, NEW r, connections' \in {connections, connections \ {r}}
    PROVE  CountInv'
<1>1. connections' \subseteq connections
  OBVIOUS
<1>2. IsFiniteSet(connections') /\ Cardinality(connections') <= Cardinality(connections)
  BY <1>1, FS_Subset DEF CountInv
<1>3. Cardinality(connections') \in Nat /\ Cardinality(connections) \in Nat
  BY <1>2, FS_CardinalityType DEF CountInv
<1> QED
  BY <1>2, <1>3, PoolAssumption DEF CountInv

LEMMA InitIInv == PooledInit => IInv
<1> SUFFICES ASSUME PooledInit PROVE IInv
  OBVIOUS
<1>1. IsFiniteSet({}) /\ Cardinality({}) = 0
  BY FS_EmptySet
<1> QED
  BY <1>1, PoolAssumption
  DEF PooledInit, Init, IInv, PlaceInv, HoldInv, CountInv, Places, Opened, Opening

\* A request that moves and gives back what it no longer needs keeps the
\* invariant, provided it held a connection where it needed one.
LEMMA MoveKeeps ==
    ASSUME IInv, NEW r \in Requests, Moves(r), Return(r),
           pc'[r] \in Opened => r \in connections
    PROVE  IInv'
<1>1. PICK p \in Places : pc' = [pc EXCEPT ![r] = p]
  BY DEF Moves
<1>2. /\ PlaceInv' /\ pc'[r] = p
      /\ \A q \in Requests : q # r => pc'[q] = pc[q]
  BY <1>1 DEF IInv, PlaceInv
<1>3. HoldInv'
  <2>1. CASE p \in Opened
    BY <1>2, <2>1 DEF IInv, HoldInv, Return
  <2>2. CASE p \notin Opened
    BY <1>2, <2>2 DEF IInv, HoldInv, Return
  <2> QED
    BY <2>1, <2>2
<1>4. CountInv'
  BY ReturnCount DEF IInv, Return
<1> QED
  BY <1>2, <1>3, <1>4 DEF IInv

\* One step per action.
LEMMA NextIInv == IInv /\ [PooledNext]_pooledVars => IInv'
<1> SUFFICES ASSUME IInv, [PooledNext]_pooledVars PROVE IInv'
  OBVIOUS
<1>1. ASSUME NEW r \in Requests, Arrive(r) \/ RejectField(r),
             UNCHANGED connections
      PROVE  IInv'
  <2>1. pc[r] = "idle" /\ (pc' = [pc EXCEPT ![r] = "lookup"]
                            \/ pc' = [pc EXCEPT ![r] = "done"])
    BY <1>1 DEF Arrive, RejectField, At, GoTo, Answer
  <2>2. PlaceInv' /\ \A q \in Requests : q # r => pc'[q] = pc[q]
    BY <2>1 DEF IInv, PlaceInv, Places
  <2>3. r \notin connections /\ pc'[r] \notin Opened
    BY <2>1 DEF IInv, PlaceInv, HoldInv, Opening, Opened
  <2>4. HoldInv' /\ CountInv'
    BY <1>1, <2>2, <2>3 DEF IInv, HoldInv, CountInv
  <2> QED
    BY <2>2, <2>4 DEF IInv
<1>2. ASSUME NEW r \in Requests, Connect(r) PROVE IInv'
  <2>1. r \notin connections /\ pc[r] \in Opening /\ pc' = pc
        /\ connections' = connections \cup {r}
    BY <1>2 DEF Connect, Waits, vars
  <2>2. Cardinality(connections) \in Nat
    BY FS_CardinalityType DEF IInv, CountInv
  <2>3. IsFiniteSet(connections') /\ Cardinality(connections') = Cardinality(connections) + 1
    BY <2>1, FS_AddElement DEF IInv, CountInv
  <2>4. Cardinality(connections) < PoolLimit
    BY <1>2, <2>2, PoolAssumption DEF Connect, Exhausted
  <2>5. CountInv'
    BY <2>2, <2>3, <2>4, PoolAssumption DEF CountInv
  <2>6. PlaceInv' /\ HoldInv'
    BY <2>1 DEF IInv, PlaceInv, HoldInv
  <2> QED
    BY <2>5, <2>6 DEF IInv
<1>3. ASSUME NEW r \in Requests, PoolTimeout(r) PROVE IInv'
  <2>1. Moves(r) /\ pc'[r] = "done" /\ Return(r)
    BY <1>3 DEF PoolTimeout, Waits, Fail, Answer, GoTo, Moves, Places, Return,
                Opened, IInv, PlaceInv
  <2> QED
    BY <2>1, MoveKeeps DEF Opened
<1>4. ASSUME NEW r \in Requests, PooledStep(r) PROVE IInv'
  <2>1. Moves(r) /\ Return(r)
    BY <1>4, StepMoves DEF PooledStep
  <2>2. r \in connections \/ pc'[r] = "done"
    BY <1>4, StepFrom, StepOpens DEF PooledStep, IInv, HoldInv
  <2> QED
    BY <2>1, <2>2, MoveKeeps DEF Opened
<1>5. ASSUME NEW r \in Requests, PooledFault(r) PROVE IInv'
  <2>1. Moves(r) /\ Return(r)
    BY <1>5, StepMoves DEF PooledFault
  <2>2. pc'[r] = "done"
    BY <1>5 DEF PooledFault, DbError, LostCommit, Fail, Answer, GoTo, IInv, PlaceInv
  <2> QED
    BY <2>1, <2>2, MoveKeeps DEF Opened
<1>6. CASE PooledCrash
  <2>1. PlaceInv' /\ \A r \in Requests : pc'[r] \notin Opened
    BY <1>6 DEF PooledCrash, Crash, InFlight, IInv, PlaceInv, Places, Opened
  <2>2. IsFiniteSet({}) /\ Cardinality({}) = 0
    BY FS_EmptySet
  <2> QED
    BY <1>6, <2>1, <2>2, PoolAssumption DEF PooledCrash, IInv, HoldInv, CountInv
<1>7. CASE \/ (Recharge \/ Quiet) /\ UNCHANGED connections
           \/ UNCHANGED pooledVars
  BY <1>7 DEF Recharge, Quiet, vars, pooledVars, IInv, PlaceInv, HoldInv, CountInv
<1> QED
  BY <1>1, <1>2, <1>3, <1>4, <1>5, <1>6, <1>7 DEF PooledNext

-----------------------------------------------------------------------------
(* Theorems about connections *)

\* The inductive invariant holds in every reachable state.
THEOREM Invariance == PooledSpec => []IInv
  BY InitIInv, NextIInv, PTL DEF PooledSpec

\* No request loses a connection, however it ends (get_session).
THEOREM NoConnectionLost == PooledSpec => []ConnectionsReturn
<1>1. IInv => ConnectionsReturn
  BY DEF IInv, HoldInv, ConnectionsReturn
<1> QED
  BY <1>1, Invariance, PTL

\* The size of the pool bounds the open transactions, and with them the calls
\* to the upstream API that are out (make_engine, run_search).
THEOREM PoolBounds == PooledSpec => []TransactionsBounded
<1>1. IInv => TransactionsBounded
  <2> SUFFICES ASSUME IInv PROVE TransactionsBounded
    OBVIOUS
  <2> DEFINE Open == {r \in Requests : pc[r] \in Opened}
  <2>1. Open \subseteq connections
    BY DEF IInv, HoldInv
  <2>2. IsFiniteSet(Open) /\ Cardinality(Open) <= Cardinality(connections)
    BY <2>1, FS_Subset DEF IInv, CountInv
  <2>3. Cardinality(Open) \in Nat /\ Cardinality(connections) \in Nat
    BY <2>2, FS_CardinalityType DEF IInv, CountInv
  <2> QED
    BY <2>2, <2>3, PoolAssumption DEF IInv, CountInv, TransactionsBounded
<1> QED
  BY <1>1, Invariance, PTL
-----------------------------------------------------------------------------
(* The pool adds database errors and nothing else *)

\* The statements of the search path are the same whether faults of the
\* database are switched on or not.
LEMMA SameSteps ==
    ASSUME NEW r \in Requests
    PROVE  /\ Arrive(r) => Unpooled!Arrive(r)
           /\ RejectField(r) => Unpooled!RejectField(r)
           /\ Step(r) => Unpooled!Step(r)
<1> USE DEF At, Unpooled!At, GoTo, Unpooled!GoTo, tables, Unpooled!tables,
            account, Unpooled!account, NoWrites, Unpooled!NoWrites,
            Answer, Unpooled!Answer, Fail, Unpooled!Fail, KeyOf, Unpooled!KeyOf,
            StatusOf, Unpooled!StatusOf
<1>1. /\ Arrive(r) => Unpooled!Arrive(r)
      /\ RejectField(r) => Unpooled!RejectField(r)
  <2>1. Unpooled!InFlight = InFlight /\ Unpooled!Ask = Ask
    BY DEF InFlight, Unpooled!InFlight, Ask, Unpooled!Ask
  <2>2. Unpooled!Cardinality(InFlight) = Cardinality(InFlight)
    BY DEF Cardinality, Unpooled!Cardinality
  <2>3. Arrive(r) => Unpooled!Arrive(r)
    BY <2>1, <2>2 DEF Arrive, Unpooled!Arrive
  <2>4. RejectField(r) => Unpooled!RejectField(r)
    BY <2>1, <2>2 DEF RejectField, Unpooled!RejectField
  <2> QED
    BY <2>3, <2>4
<1>2. /\ LookupHit(r) => Unpooled!LookupHit(r)
      /\ LookupMiss(r) => Unpooled!LookupMiss(r)
  BY DEF Look, Unpooled!Look, LookupHit, Unpooled!LookupHit,
         LookupMiss, Unpooled!LookupMiss
<1>3. /\ FindExisting(r) => Unpooled!FindExisting(r)
      /\ CopyRows(r) => Unpooled!CopyRows(r)
      /\ CopyRefused(r) => Unpooled!CopyRefused(r)
  BY DEF FindExisting, Unpooled!FindExisting, CopyRows, Unpooled!CopyRows,
         CopyRefused, Unpooled!CopyRefused, RowsUnder, Unpooled!RowsUnder,
         RowsOf, Unpooled!RowsOf, CopyOf, Unpooled!CopyOf
<1>4. Serve(r) => Unpooled!Serve(r)
  <2>1. /\ Faults \cap {"api", "raw"} = (Faults \cup {"db"}) \cap {"api", "raw"}
        /\ Unreported = Unpooled!Unreported
    BY DEF Unreported, Unpooled!Unreported
  <2> QED
    BY <2>1 DEF Serve, Unpooled!Serve
<1>5. Refuse(r) => Unpooled!Refuse(r)
  BY DEF Refuse, Unpooled!Refuse, Errors, Unpooled!Errors
<1>6. /\ ReceiveError(r) => Unpooled!ReceiveError(r)
      /\ GuardRefuses(r) => Unpooled!GuardRefuses(r)
  BY DEF ReceiveError, Unpooled!ReceiveError, GuardRefuses, Unpooled!GuardRefuses,
         Errors, Unpooled!Errors
<1> USE DEF FirstPage, Unpooled!FirstPage, CostOf, Unpooled!CostOf,
            NewSearch, Unpooled!NewSearch, NewRow, Unpooled!NewRow,
            NewRows, Unpooled!NewRows, NewAudit, Unpooled!NewAudit
<1>7. /\ CreateSearch(r) => Unpooled!CreateSearch(r)
      /\ CreateRefused(r) => Unpooled!CreateRefused(r)
  BY DEF CreateSearch, Unpooled!CreateSearch, CreateRefused, Unpooled!CreateRefused,
         GuardPasses, Unpooled!GuardPasses, Storable, Unpooled!Storable
<1>8. /\ AddRecords(r) => Unpooled!AddRecords(r)
      /\ AddRefused(r) => Unpooled!AddRefused(r)
      /\ WriteAudit(r) => Unpooled!WriteAudit(r)
  BY DEF AddRecords, Unpooled!AddRecords, AddRefused, Unpooled!AddRefused,
         WriteAudit, Unpooled!WriteAudit
<1>9. /\ Commit(r) => Unpooled!Commit(r)
      /\ Respond(r) => Unpooled!Respond(r)
      /\ ReadLedger(r) => Unpooled!ReadLedger(r)
      /\ ReadProfile(r) => Unpooled!ReadProfile(r)
  BY DEF Publish, Unpooled!Publish, Commit, Unpooled!Commit,
         Respond, Unpooled!Respond, ReadLedger, Unpooled!ReadLedger,
         ReadProfile, Unpooled!ReadProfile, ContentsOf, Unpooled!ContentsOf
<1>10. Step(r) => Unpooled!Step(r)
  BY <1>2, <1>3, <1>4, <1>5, <1>6, <1>7, <1>8, <1>9 DEF Step, Unpooled!Step
<1> QED
  BY <1>1, <1>10

\* Every step is one of the search path under database errors, or none of it.
LEMMA UnpooledStep == [PooledNext]_pooledVars => [Unpooled!Next]_(Unpooled!vars)
<1> SUFFICES ASSUME [PooledNext]_pooledVars
             PROVE  [Unpooled!Next]_(Unpooled!vars)
  OBVIOUS
<1>1. ASSUME NEW r \in Requests, Arrive(r) \/ RejectField(r) \/ PooledStep(r)
      PROVE  Unpooled!Next
  BY <1>1, SameSteps DEF PooledStep, Unpooled!Next
<1>2. ASSUME NEW r \in Requests, Connect(r) PROVE UNCHANGED Unpooled!vars
  BY <1>2 DEF Connect, vars, Unpooled!vars
<1>3. ASSUME NEW r \in Requests, PoolTimeout(r) PROVE Unpooled!Next
  <2>1. Unpooled!DbError(r)
    BY <1>3 DEF PoolTimeout, Waits, Opening, Fail, Answer, GoTo, NoWrites,
                tables, account, Unpooled!DbError, Unpooled!Fail,
                Unpooled!Answer, Unpooled!GoTo, Unpooled!NoWrites,
                Unpooled!tables, Unpooled!account
  <2> QED
    BY <2>1 DEF Unpooled!Next
<1>4. ASSUME NEW r \in Requests, PooledFault(r) PROVE Unpooled!Next
  <2>1. Unpooled!DbError(r) \/ Unpooled!LostCommit(r)
    BY <1>4 DEF PooledFault, DbError, GuardPasses, Unpooled!GuardPasses,
                LostCommit, Publish, At, Fail, Answer, GoTo, NoWrites, tables,
                account,
                Unpooled!DbError, Unpooled!LostCommit, Unpooled!Publish,
                Unpooled!At, Unpooled!Fail, Unpooled!Answer, Unpooled!GoTo,
                Unpooled!NoWrites, Unpooled!tables, Unpooled!account
  <2> QED
    BY <2>1 DEF Unpooled!Next
<1>5. CASE PooledCrash
  <2>1. Unpooled!Crash
    BY <1>5 DEF PooledCrash, Crash, InFlight, NoWrites, tables, account,
                Unpooled!Crash, Unpooled!InFlight, Unpooled!NoWrites,
                Unpooled!tables, Unpooled!account
  <2> QED
    BY <2>1 DEF Unpooled!Next
<1>6. CASE Recharge
  <2>1. Unpooled!Recharge
    BY <1>6 DEF Recharge, Unpooled!Recharge, tables, Unpooled!tables
  <2> QED
    BY <2>1 DEF Unpooled!Next
<1>7. CASE (Quiet /\ UNCHANGED connections) \/ UNCHANGED pooledVars
  BY <1>7 DEF Quiet, vars, pooledVars, Unpooled!vars
<1> QED
  BY <1>1, <1>2, <1>3, <1>4, <1>5, <1>6, <1>7 DEF PooledNext

\* Whatever holds of the search path under database errors holds on a pool of
\* any size: waiting for a connection, and for too long, is all the pool adds.
THEOREM ImplementsUnpooled == PooledSpec => UnpooledSpec
<1>1. PooledInit => Unpooled!Init
  BY DEF PooledInit, Init, Unpooled!Init, NoWrites, Unpooled!NoWrites,
         Ask, Unpooled!Ask
<1> QED
  BY <1>1, UnpooledStep, PTL DEF PooledSpec, UnpooledSpec, Unpooled!Spec

-----------------------------------------------------------------------------
(***************************************************************************)
(* What the search path promises, on a pool: the theorems of the modules   *)
(* before this one hold for every set of faults, so they hold with         *)
(* database errors among them, and a pool adds nothing else.               *)
(***************************************************************************)

Path == INSTANCE SearchLedgerProofs WITH Faults <- Faults \cup {"db"}

\* A database that fails is one of the faults the constants allow.
LEMMA PathConstants == Path!ConstantsOK
  BY ConstantsAssumption
  DEF ConstantsOK, Path!ConstantsOK, Ask, Path!Ask,
      FaultKinds, Path!FaultKinds, Errors, Path!Errors

\* Unpooled and Path are the same module with the same faults: what one
\* expands to is what the other does.
LEMMA SamePath ==
    /\ Unpooled!Init => Path!Init
    /\ Unpooled!Next => Path!Next
<1>1. Unpooled!Init => Path!Init
  BY DEF Unpooled!Init, Path!Init, Unpooled!NoWrites, Path!NoWrites, Unpooled!Ask,
      Path!Ask
<1>2. Unpooled!Next => Path!Next
  BY Zenon
  DEF Unpooled!InFlight, Path!InFlight, Unpooled!At, Path!At, Unpooled!GoTo,
      Path!GoTo, Unpooled!tables, Path!tables, Unpooled!account, Path!account,
      Unpooled!NoWrites, Path!NoWrites, Unpooled!Answer, Path!Answer,
      Unpooled!Fail, Path!Fail, Unpooled!KeyOf, Path!KeyOf, Unpooled!StatusOf,
      Path!StatusOf, Unpooled!Ask, Path!Ask, Unpooled!Arrive, Path!Arrive,
      Unpooled!RejectField, Path!RejectField, Unpooled!Look, Path!Look,
      Unpooled!LookupHit, Path!LookupHit, Unpooled!LookupMiss, Path!LookupMiss,
      Unpooled!RowsOf, Path!RowsOf, Unpooled!RowsUnder, Path!RowsUnder,
      Unpooled!CopyOf, Path!CopyOf, Unpooled!FindExisting, Path!FindExisting,
      Unpooled!CopyRows, Path!CopyRows, Unpooled!CopyRefused, Path!CopyRefused,
      Unpooled!Unreported, Path!Unreported,
      Unpooled!Serve, Path!Serve, Unpooled!Refuse, Path!Refuse,
      Unpooled!Recharge, Path!Recharge,
      Unpooled!Errors, Path!Errors, Unpooled!ReceiveError, Path!ReceiveError,
      Unpooled!GuardRefuses, Path!GuardRefuses, Unpooled!GuardPasses,
      Path!GuardPasses, Unpooled!FirstPage, Path!FirstPage, Unpooled!CostOf,
      Path!CostOf, Unpooled!NewSearch, Path!NewSearch, Unpooled!NewRow,
      Path!NewRow, Unpooled!NewRows, Path!NewRows, Unpooled!NewAudit,
      Path!NewAudit, Unpooled!Storable, Path!Storable, Unpooled!CreateSearch,
      Path!CreateSearch, Unpooled!CreateRefused, Path!CreateRefused,
      Unpooled!AddRecords, Path!AddRecords, Unpooled!AddRefused,
      Path!AddRefused, Unpooled!WriteAudit, Path!WriteAudit, Unpooled!Publish,
      Path!Publish, Unpooled!Commit, Path!Commit, Unpooled!Respond,
      Path!Respond, Unpooled!ReadLedger, Path!ReadLedger, Unpooled!ReadProfile,
      Path!ReadProfile, Unpooled!ContentsOf, Path!ContentsOf, Unpooled!Step,
      Path!Step, Unpooled!DbError, Path!DbError, Unpooled!LostCommit,
      Path!LostCommit, Unpooled!Crash, Path!Crash, Unpooled!AllDone,
      Path!AllDone, Unpooled!Quiet, Path!Quiet, Unpooled!vars, Path!vars,
      Unpooled!Next, Path!Next, Unpooled!Cardinality, Path!Cardinality
<1> QED
  BY <1>1, <1>2

\* A behaviour on a pool is one that the theorems of the search path are about.
LEMMA PooledPath == PooledSpec => Path!Spec
<1>1. [Unpooled!Next]_(Unpooled!vars) => [Path!Next]_(Path!vars)
  BY SamePath DEF Unpooled!vars, Path!vars
<1> QED
  BY <1>1, SamePath, ImplementsUnpooled, PTL
  DEF UnpooledSpec, Unpooled!Spec, Path!Spec

\* What the properties say does not depend on which faults there are.
LEMMA SameWords ==
    /\ Path!SearchWholeOrAbsent => SearchWholeOrAbsent
    /\ Path!AnsweredComplete => AnsweredComplete
    /\ Path!RepeatIsFree => RepeatIsFree
    /\ Path!EveryRowAsked => EveryRowAsked
    /\ Path!RefusedLeaveNoTrace => RefusedLeaveNoTrace
    /\ Path!ViewConsistent => ViewConsistent
<1> USE DEF PageOf, Path!PageOf, FirstPage, Path!FirstPage, RowsOf, Path!RowsOf,
            RowsUnder, Path!RowsUnder, KeyOf, Path!KeyOf
<1>1. Path!SearchWholeOrAbsent => SearchWholeOrAbsent
  BY DEF SearchWholeOrAbsent, Path!SearchWholeOrAbsent
<1>2. Path!AnsweredComplete => AnsweredComplete
  BY DEF AnsweredComplete, Path!AnsweredComplete
<1>3. Path!RepeatIsFree => RepeatIsFree
  BY DEF RepeatIsFree, Path!RepeatIsFree
<1>4. Path!EveryRowAsked => EveryRowAsked
  BY DEF EveryRowAsked, Path!EveryRowAsked
<1>5. Path!RefusedLeaveNoTrace => RefusedLeaveNoTrace
  BY DEF RefusedLeaveNoTrace, Path!RefusedLeaveNoTrace, Refusals, Path!Refusals
<1>6. Path!ViewConsistent => ViewConsistent
  BY DEF ViewConsistent, Path!ViewConsistent
<1> QED
  BY <1>1, <1>2, <1>3, <1>4, <1>5, <1>6

\* Everything proved of the search path holds on a pool of any size, where a
\* request may also wait for a connection, get none, and lose what it did: a
\* search is stored whole or not at all, success is complete, a repeat spends
\* nothing, rows are asked for, refusals leave nothing and pages are consistent
\* (run_search on the sessions of get_session).
THEOREM PoolKeepsThePath ==
    PooledSpec => [](/\ SearchWholeOrAbsent /\ AnsweredComplete /\ RepeatIsFree
                     /\ EveryRowAsked /\ RefusedLeaveNoTrace
                     /\ ViewConsistent)
<1>1. Path!Spec => [](/\ Path!SearchWholeOrAbsent /\ Path!AnsweredComplete
                      /\ Path!RepeatIsFree)
  BY PathConstants, Path!AllOrNothing, Path!SuccessIsComplete,
     Path!RepeatsAreFree, PTL
<1>2. Path!Spec => [](/\ Path!EveryRowAsked /\ Path!RefusedLeaveNoTrace
                      /\ Path!ViewConsistent)
  BY PathConstants, Path!RowsAreAskedFor, Path!RefusalsLeaveNoTrace,
     Path!PagesAreConsistent, PTL
<1> QED
  BY <1>1, <1>2, PooledPath, SameWords, PTL

\* Waiting for connections does not make a request call the API twice
\* (run_search calls once, within the contract of DehashedClient.search).
THEOREM PoolImplementsUpstream == PooledSpec => UpstreamSpec
<1>1. Path!Upstream!Init => Upstream!Init
  BY DEF Upstream!Init, Path!Upstream!Init
<1>2. [Path!Upstream!Next]_(Path!Upstream!vars) => [Upstream!Next]_(Upstream!vars)
  BY DEF Upstream!Next, Path!Upstream!Next,
      Upstream!vars, Path!Upstream!vars, Upstream!Results,
      Path!Upstream!Results, Upstream!Gains,
      Path!Upstream!Gains, Upstream!Pays, Path!Upstream!Pays, Upstream!Ends,
      Path!Upstream!Ends
<1> QED
  BY PathConstants, <1>1, <1>2, PooledPath, Path!UsesOneCall, PTL
  DEF UpstreamSpec, Path!UpstreamSpec, Upstream!Spec, Path!Upstream!Spec

\* On a pool of any size the search path is still what it promises its
\* clients: one effect per request, all at once, and answers that tell it.
THEOREM PoolImplementsLedger == PooledSpec => LedgerSpec
<1>1. Path!Ledger!Init => Ledger!Init
  BY DEF Ledger!Init, Path!Ledger!Init
<1>2. [Path!Ledger!Next]_(Path!Ledger!vars) => [Ledger!Next]_(Ledger!vars)
  BY DEF Ledger!Next, Path!Ledger!Next,
      Ledger!vars, Path!Ledger!vars, Ledger!Open, Path!Ledger!Open,
      Ledger!KeyOf, Path!Ledger!KeyOf, Ledger!PageOf, Path!Ledger!PageOf,
      Ledger!Holds, Path!Ledger!Holds, Ledger!Authors, Path!Ledger!Authors,
      Ledger!Take, Path!Ledger!Take, Ledger!PublishSearch,
      Path!Ledger!PublishSearch, Ledger!PublishCopies,
      Path!Ledger!PublishCopies, Ledger!Succeed, Path!Ledger!Succeed,
      Ledger!GiveUp, Path!Ledger!GiveUp, Ledger!Drop, Path!Ledger!Drop,
      Ledger!tables, Path!Ledger!tables, Ledger!Cardinality,
      Path!Ledger!Cardinality, Ask, Path!Ask, Refusals, Path!Refusals,
      Statuses, Path!Statuses
<1> QED
  BY PathConstants, <1>1, <1>2, PooledPath, Path!ImplementsLedger, PTL
  DEF LedgerSpec, Path!LedgerSpec, Ledger!Spec, Path!Ledger!Spec

-----------------------------------------------------------------------------
(***************************************************************************)
(* The invariants of the search path hold on a pool.                       *)
(***************************************************************************)

\* A wait that ends without a connection fails like a statement.
LEMMA PooledSteps ==
    ASSUME [PooledNext]_pooledVars
    PROVE  [Next]_vars \/ \E r \in Requests : PoolTimeout(r)
  BY DEF PooledNext, pooledVars, PooledStep, PooledFault, PooledCrash, Connect, Next

\* What is known of the tables and of those that write them.
TableInv == TypeOK /\ PathInv /\ WholeInv /\ CopyInv

LEMMA TableInit == PooledInit => TableInv
  BY TypeInit, PathInit, WholeInit, CopyInit DEF PooledInit, TableInv

\* A request that is told of a failure leaves the tables whole.
LEMMA FailLeavesTables ==
    ASSUME TableInv, NEW r \in Requests, NEW status, Fail(r, status)
    PROVE  WholeInv' /\ CopyInv'
<1>1. UNCHANGED <<searches, rows, audit, req, source, reply>>
  BY DEF Fail, tables
<1>2. \A q \in Requests : pc'[q] = "commit" => pc[q] = "commit" /\ session'[q] = session[q]
  BY DEF Fail, Answer, GoTo, TableInv, TypeOK
<1>3. WholeInv'
  BY <1>1 DEF TableInv, WholeInv, NewRows, NewRow, NewAudit
<1>4. CopyInv'
  <2>1. \A id : PageEntries(id)' = PageEntries(id)
    BY <1>1 DEF PageEntries
  <2> QED
    BY <1>1, <1>2, <2>1 DEF TableInv, CopyInv
<1> QED
  BY <1>3, <1>4

LEMMA TableStep == TableInv /\ [PooledNext]_pooledVars => TableInv'
<1> SUFFICES ASSUME TableInv, [PooledNext]_pooledVars PROVE TableInv'
  OBVIOUS
<1>1. ASSUME NEW r \in Requests, PoolTimeout(r) PROVE TableInv'
  <2>1. Fail(r, "500")
    BY <1>1 DEF PoolTimeout
  <2>2. TypeOK' /\ PathInv'
    BY <2>1, FailType, FailStep DEF TableInv, Statuses
  <2> QED
    BY <2>1, <2>2, FailLeavesTables DEF TableInv
<1>2. CASE [Next]_vars
  BY <1>2, TypeStep, PathStep, WholeStep, CopyStep DEF TableInv
<1> QED
  BY <1>1, <1>2, PooledSteps

\* A part of a set that the pool bounds is bounded too.
LEMMA FewerBounded ==
    ASSUME NEW S, IsFiniteSet(S), Cardinality(S) <= PoolLimit,
           NEW T, T \subseteq S
    PROVE  IsFiniteSet(T) /\ Cardinality(T) <= PoolLimit
<1>1. IsFiniteSet(T) /\ Cardinality(T) <= Cardinality(S)
  BY FS_Subset
<1>2. Cardinality(T) \in Nat /\ Cardinality(S) \in Nat
  BY <1>1, FS_CardinalityType
<1> QED
  BY <1>1, <1>2, PoolAssumption

-----------------------------------------------------------------------------
(***************************************************************************)
(* How often a key is stored.  Until its first commit, who may store it is *)
(* in the middle of a transaction, and the pool bounds those; after it     *)
(* nobody misses the cache any more, so no one joins them.                 *)
(***************************************************************************)

\* The request has missed the cache and has not committed what it fetched.
Uncached(r) ==
    \/ pc[r] \in {"call", "reply"}
    \/ pc[r] \in {"records", "audit", "commit"} /\ source[r] = r

\* Who has stored the key, or may still do so.
Storing(key) ==
    {r \in Requests : Uncached(r) /\ KeyOf(r) = key}
      \cup {s.id : s \in {p \in searches : p.key = key}}

StoringInv ==
    \A key : IsFiniteSet(Storing(key)) /\ Cardinality(Storing(key)) <= PoolLimit

\* A request misses the cache at its lookup and nowhere else.
LEMMA UncachedSteps ==
    ASSUME TypeOK, PathInv, [Next]_vars \/ (\E r \in Requests : PoolTimeout(r)),
           NEW q \in Requests, Uncached(q)'
    PROVE  (Uncached(q) /\ KeyOf(q)' = KeyOf(q)) \/ LookupMiss(q)
<1> DEFINE Stays == pc[q] # "idle" /\ Uncached(q) /\ req'[q] = req[q]
<1>1. ASSUME NEW r \in Requests, NEW status, Answer(r, status),
             r # q => UNCHANGED <<req[q], source[q]>>
      PROVE  Stays
  BY <1>1 DEF Answer, GoTo, Uncached, TypeOK
<1>2. ASSUME NEW r \in Requests, NEW place, GoTo(r, place),
             place \notin {"call", "reply", "records", "audit", "commit"},
             r # q => UNCHANGED <<req[q], source[q]>>
      PROVE  Stays
  BY <1>2 DEF GoTo, Uncached, TypeOK
<1>3. ASSUME NEW r \in Requests, NEW place, GoTo(r, place), r # q,
             UNCHANGED <<req[q], source[q]>>
      PROVE  Stays
  BY <1>3 DEF GoTo, Uncached, TypeOK
<1> HIDE DEF Stays
<1>4. ASSUME NEW r \in Requests, FindExisting(r) \/ CopyRows(r) PROVE Stays
  <2>1. /\ pc[r] \in {"existing", "copy"} /\ UNCHANGED <<req, source>>
        /\ \E place \in {"copy", "commit"} : GoTo(r, place)
    BY <1>4 DEF FindExisting, CopyRows, At
  <2>2. source[r] # r
    BY <2>1 DEF PathInv, RequestInv, SourceInv, Copying, CommittedInv, Settled
  <2>3. r # q
    BY <2>1, <2>2 DEF Uncached, GoTo, TypeOK
  <2> QED
    BY <1>3, <2>1, <2>3
<1>5. ASSUME NEW r \in Requests, LookupMiss(r), r # q PROVE Stays
  BY <1>3, <1>5 DEF LookupMiss, Look
<1>6. ASSUME NEW r \in Requests,
             \/ Serve(r) \/ Refuse(r) \/ CreateSearch(r) \/ AddRecords(r)
             \/ WriteAudit(r)
      PROVE  Stays
  <2>1. Uncached(r) /\ pc[r] # "idle"
    BY <1>6 DEF Serve, Refuse, CreateSearch, GuardPasses, AddRecords, WriteAudit,
                At, Uncached, PathInv, RequestInv, SessionInv
  <2>2. /\ req' = req /\ \E place : GoTo(r, place)
        /\ r # q => source'[q] = source[q]
    BY <1>6 DEF Serve, Refuse, CreateSearch, AddRecords, WriteAudit, TypeOK
  <2> QED
    BY <1>3, <2>1, <2>2 DEF Stays
<1>7. ASSUME NEW r \in Requests,
             Arrive(r) \/ LookupHit(r) \/ Commit(r) \/ ReadLedger(r)
      PROVE  Stays
  <2>1. \E place \in {"lookup", "existing", "respond", "ledger", "profile"} :
          GoTo(r, place)
    BY <1>7 DEF Arrive, LookupHit, Commit, ReadLedger
  <2>2. r # q => UNCHANGED <<req[q], source[q]>>
    BY <1>7 DEF Arrive, LookupHit, Look, Commit, ReadLedger, TypeOK
  <2> QED
    BY <1>2, <2>1, <2>2
<1>8. ASSUME NEW r \in Requests,
             \/ RejectField(r) \/ CopyRefused(r) \/ ReceiveError(r)
             \/ GuardRefuses(r) \/ CreateRefused(r) \/ AddRefused(r)
             \/ Respond(r) \/ ReadProfile(r) \/ DbError(r) \/ LostCommit(r)
             \/ PoolTimeout(r)
      PROVE  Stays
  <2>1. \E status : Answer(r, status)
    BY <1>8 DEF RejectField, CopyRefused, ReceiveError, GuardRefuses,
                CreateRefused, AddRefused, Respond, ReadProfile, DbError,
                LostCommit, PoolTimeout, Fail
  <2>2. r # q => UNCHANGED <<req[q], source[q]>>
    BY <1>8 DEF RejectField, CopyRefused, ReceiveError, GuardRefuses,
                CreateRefused, AddRefused, Respond, ReadProfile, DbError,
                LostCommit, PoolTimeout, Fail, TypeOK
  <2> QED
    BY <1>1, <2>1, <2>2
<1>9. ASSUME Crash PROVE FALSE
  BY <1>9 DEF Crash, InFlight, Uncached
<1>10. ASSUME Recharge \/ UNCHANGED vars
       PROVE  Uncached(q) /\ KeyOf(q)' = KeyOf(q)
  BY <1>10 DEF Recharge, vars, Uncached, KeyOf
<1>11. Stays \/ LookupMiss(q) \/ (Uncached(q) /\ KeyOf(q)' = KeyOf(q))
  BY <1>4, <1>5, <1>6, <1>7, <1>8, <1>9, <1>10 DEF Next, Step, Quiet
<1> QED
  BY <1>11 DEF Stays, KeyOf

\* Once the key is stored nobody joins those who store it.
LEMMA StoringShrinks ==
    ASSUME TypeOK, PathInv, [PooledNext]_pooledVars, NEW key,
           \E s \in searches' : s.key = key
    PROVE  Storing(key)' \subseteq Storing(key)
<1>1. [Next]_vars \/ \E r \in Requests : PoolTimeout(r)
  BY PooledSteps
<1>2. ASSUME NEW r \in Requests, Uncached(r)', KeyOf(r)' = key
      PROVE  r \in Storing(key)
  <2>1. CASE Uncached(r) /\ KeyOf(r)' = KeyOf(r)
    BY <1>2, <2>1 DEF Storing
  <2>2. ASSUME LookupMiss(r) PROVE FALSE
    <3>1. searches' = searches /\ KeyOf(r)' = KeyOf(r)
      BY <2>2 DEF LookupMiss, Look, tables, KeyOf
    <3> QED
      BY <1>2, <2>2, <3>1 DEF LookupMiss
  <2> QED
    BY <1>1, <1>2, <2>1, <2>2, UncachedSteps
<1>3. ASSUME NEW s \in searches', s.key = key
      PROVE  s.id \in Storing(key)
  <2>1. CASE s \in searches
    BY <1>3, <2>1 DEF Storing
  <2>2. ASSUME NEW q \in Requests, Publish(q), s \notin searches
        PROVE  s.id \in Storing(key)
    <3>1. pc[q] = "commit" /\ source[q] = q /\ s = NewSearch(q)
      BY <1>3, <2>2, Published DEF Publish, At
    <3>2. Uncached(q) /\ KeyOf(q) = key /\ s.id = q
      BY <1>3, <3>1 DEF Uncached, NewSearch
    <3> QED
      BY <3>2 DEF Storing
  <2>3. searches' = searches \/ \E q \in Requests : Publish(q)
    BY <1>1, TablesStep DEF PoolTimeout, Fail, tables
  <2> QED
    BY <1>3, <2>1, <2>2, <2>3
<1> QED
  BY <1>2, <1>3 DEF Storing

LEMMA StoringStep ==
    TypeOK /\ PathInv /\ IInv /\ IInv' /\ StoringInv /\ [PooledNext]_pooledVars
      => StoringInv'
<1> SUFFICES ASSUME TypeOK, PathInv, IInv, IInv', StoringInv,
                    [PooledNext]_pooledVars, NEW key
             PROVE  /\ IsFiniteSet(Storing(key)')
                    /\ Cardinality(Storing(key)') <= PoolLimit
  BY DEF StoringInv
<1>1. CASE \E s \in searches' : s.key = key
  <2>1. Storing(key)' \subseteq Storing(key)
    BY <1>1, StoringShrinks
  <2> QED
    BY <2>1, FewerBounded DEF StoringInv
<1>2. CASE \A s \in searches' : s.key # key
  <2>1. \A r \in Storing(key)' : r \in connections'
    BY <1>2 DEF Storing, Uncached, IInv, HoldInv, Opened
  <2> QED
    BY <2>1, FewerBounded DEF IInv, CountInv
<1> QED
  BY <1>1, <1>2

\* A key is stored no more often than the pool has connections, however many
\* requests ask for it and however their lookups and commits fall: the race of
\* run_search is bounded by make_engine's pool and by nothing else.
THEOREM PoolBoundsSearches == PooledSpec => []SearchesPerKeyBounded
<1>1. PooledInit => StoringInv
  <2> SUFFICES ASSUME PooledInit, NEW key PROVE Storing(key) = {}
    BY FS_EmptySet, PoolAssumption DEF StoringInv
  <2> QED
    BY DEF PooledInit, Init, Storing, Uncached
<1>2. TableInv /\ StoringInv => SearchesPerKeyBounded
  <2> SUFFICES ASSUME TableInv, StoringInv, NEW key
               PROVE  Cardinality({s \in searches : s.key = key}) <= PoolLimit
    BY DEF SearchesPerKeyBounded
  <2> DEFINE S == {s \in searches : s.key = key}
             f == [s \in S |-> s.id]
  <2>1. \A s1, s2 \in S : f[s1] = f[s2] => s1 = s2
    BY DEF TableInv, PathInv, CommittedInv
  <2>2. f \in [S -> Storing(key)]
    BY DEF Storing
  <2> HIDE DEF S, f
  <2>3. f \in Injection(S, Storing(key))
    BY <2>1, <2>2, Fun_IsInj
  <2>4. IsFiniteSet(S) /\ Cardinality(S) <= Cardinality(Storing(key))
    BY <2>3, FS_Injection DEF StoringInv
  <2>5. Cardinality(S) \in Nat /\ Cardinality(Storing(key)) \in Nat
    BY <2>4, FS_CardinalityType DEF StoringInv
  <2> QED
    BY <2>4, <2>5, PoolAssumption DEF StoringInv, S
<1>3. TableInv => TypeOK /\ PathInv
  BY DEF TableInv
<1> QED
  BY <1>1, <1>2, <1>3, TableInit, TableStep, StoringStep, InitIInv, NextIInv, PTL
  DEF PooledSpec

-----------------------------------------------------------------------------
(***************************************************************************)
(* How often the rows of a search are filed under a target.  Until the     *)
(* first commit, who may file them is in the middle of a transaction;      *)
(* after it everyone finds rows there, and skips.                          *)
(***************************************************************************)

\* The request copies the search for the target, or stores it under it.
Files(r, id, t) ==
    /\ pc[r] \in {"copy", "records", "audit", "commit"}
    /\ source[r] = id /\ req[r].target = t
    /\ pc[r] = "commit" => session[r].rows # {}

\* Who has filed rows of the search under the target, or may still do so.
Filing(id, t) ==
    {r \in Requests : Files(r, id, t)} \cup {FilerOf(o) : o \in RowsUnder(id, t)}

FilingInv ==
    \A id, t : IsFiniteSet(Filing(id, t)) /\ Cardinality(Filing(id, t)) <= PoolLimit

\* A request comes to a write by the statement before it, and keeps until then
\* what it has.
LEMMA WritingSteps ==
    ASSUME TypeOK, [Next]_vars \/ (\E r \in Requests : PoolTimeout(r)),
           NEW q \in Requests, pc'[q] \in {"copy", "records", "audit", "commit"}
    PROVE  \/ /\ pc'[q] = pc[q]
              /\ UNCHANGED <<req[q], source[q], session[q]>>
           \/ FindExisting(q) \/ CopyRows(q) \/ CreateSearch(q)
           \/ AddRecords(q) \/ WriteAudit(q)
<1> DEFINE Same == pc'[q] = pc[q] /\ UNCHANGED <<req[q], source[q], session[q]>>
<1>1. ASSUME NEW r \in Requests, NEW status, Answer(r, status),
             r # q => UNCHANGED <<req[q], source[q]>>
      PROVE  Same
  BY <1>1 DEF Answer, GoTo, TypeOK
<1>2. ASSUME NEW r \in Requests, NEW place, GoTo(r, place),
             r = q => place \notin {"copy", "records", "audit", "commit"},
             r # q => UNCHANGED <<req[q], source[q], session[q]>>
      PROVE  Same
  BY <1>2 DEF GoTo, TypeOK
<1> HIDE DEF Same
<1>3. ASSUME NEW r \in Requests, r # q,
             \/ FindExisting(r) \/ CopyRows(r) \/ CreateSearch(r)
             \/ AddRecords(r) \/ WriteAudit(r)
      PROVE  Same
  <2>1. /\ req' = req /\ \E place : GoTo(r, place)
        /\ source'[q] = source[q] /\ session'[q] = session[q]
    BY <1>3 DEF FindExisting, CopyRows, CreateSearch, AddRecords, WriteAudit, TypeOK
  <2> QED
    BY <1>2, <1>3, <2>1
<1>4. ASSUME NEW r \in Requests,
             \/ RejectField(r) \/ CopyRefused(r) \/ ReceiveError(r)
             \/ GuardRefuses(r) \/ CreateRefused(r) \/ AddRefused(r)
             \/ Respond(r) \/ ReadProfile(r) \/ DbError(r) \/ LostCommit(r)
             \/ PoolTimeout(r)
      PROVE  Same
  <2>1. \E status : Answer(r, status)
    BY <1>4 DEF RejectField, CopyRefused, ReceiveError, GuardRefuses,
                CreateRefused, AddRefused, Respond, ReadProfile, DbError,
                LostCommit, PoolTimeout, Fail
  <2>2. r # q => UNCHANGED <<req[q], source[q]>>
    BY <1>4 DEF RejectField, CopyRefused, ReceiveError, GuardRefuses,
                CreateRefused, AddRefused, Respond, ReadProfile, DbError,
                LostCommit, PoolTimeout, Fail, TypeOK
  <2> QED
    BY <1>1, <2>1, <2>2
<1>5. ASSUME NEW r \in Requests,
             \/ Arrive(r) \/ LookupHit(r) \/ LookupMiss(r) \/ Serve(r)
             \/ Refuse(r) \/ Commit(r) \/ ReadLedger(r)
      PROVE  Same
  <2>1. \E place \in {"lookup", "existing", "call", "reply", "respond", "ledger",
                      "profile"} : GoTo(r, place)
    BY <1>5 DEF Arrive, LookupHit, LookupMiss, Serve, Refuse, Commit, ReadLedger
  <2>2. r # q => req'[q] = req[q] /\ source'[q] = source[q]
    BY <1>5 DEF Arrive, LookupHit, LookupMiss, Look, Serve, Refuse, Commit,
                ReadLedger, TypeOK
  <2>3. r # q => session'[q] = session[q]
    BY <1>5 DEF Arrive, LookupHit, LookupMiss, Look, Serve, Refuse, Commit,
                ReadLedger, TypeOK
  <2> QED
    BY <1>2, <2>1, <2>2, <2>3
<1>6. ASSUME Crash PROVE FALSE
  BY <1>6 DEF Crash, InFlight
<1>7. ASSUME Recharge \/ UNCHANGED vars PROVE Same
  BY <1>7 DEF Recharge, vars, Same
<1>8. \/ Same \/ FindExisting(q) \/ CopyRows(q) \/ CreateSearch(q)
      \/ AddRecords(q) \/ WriteAudit(q)
  BY <1>3, <1>4, <1>5, <1>6, <1>7 DEF Next, Step, Quiet
<1> QED
  BY <1>8 DEF Same

\* Once the target has rows of the search nobody joins those who file them.
LEMMA FilingShrinks ==
    ASSUME TableInv, [PooledNext]_pooledVars, NEW id, NEW t,
           RowsUnder(id, t)' # {}
    PROVE  Filing(id, t)' \subseteq Filing(id, t)
<1> USE DEF TableInv
<1>1. [Next]_vars \/ \E r \in Requests : PoolTimeout(r)
  BY PooledSteps
<1>2. ASSUME NEW r \in Requests, Files(r, id, t)'
      PROVE  Files(r, id, t)
  <2>1. CASE pc'[r] = pc[r] /\ UNCHANGED <<req[r], source[r], session[r]>>
    BY <1>2, <2>1 DEF Files
  <2>2. ASSUME FindExisting(r) PROVE FALSE
    <3>1. /\ pc[r] = "existing" /\ session' = session
          /\ UNCHANGED <<rows, req, source>>
          /\ pc'[r] = IF RowsUnder(source[r], req[r].target) # {}
                      THEN "commit" ELSE "copy"
      BY <2>2 DEF FindExisting, At, GoTo, TypeOK, tables
    <3>2. RowsUnder(source[r], req[r].target) = RowsUnder(id, t)'
      BY <1>2, <3>1 DEF Files, RowsUnder
    <3>3. session[r].rows = {}
      BY <3>1 DEF PathInv, RequestInv, SessionInv, NoWrites
    <3> QED
      BY <1>2, <3>1, <3>2, <3>3 DEF Files
  <2>3. CASE CopyRows(r)
    BY <1>2, <2>3 DEF CopyRows, At, Files
  <2>4. ASSUME CreateSearch(r) PROVE FALSE
    <3>1. pc[r] = "reply" /\ source'[r] = r /\ rows' = rows
      BY <2>4 DEF CreateSearch, GuardPasses, At, TypeOK, tables
    <3>2. PICK o \in rows : o.search = r
      BY <1>2, <3>1 DEF Files, RowsUnder
    <3>3. PICK s \in searches : s.id = r
      BY <3>2 DEF WholeInv
    <3> QED
      BY <3>1, <3>3 DEF PathInv, CommittedInv, Settled
  <2>5. CASE AddRecords(r)
    BY <1>2, <2>5 DEF AddRecords, At, Files
  <2>6. CASE WriteAudit(r)
    BY <1>2, <2>6 DEF WriteAudit, At, Files
  <2>7. pc'[r] \in {"copy", "records", "audit", "commit"}
    BY <1>2 DEF Files
  <2> QED
    BY <1>1, <2>1, <2>2, <2>3, <2>4, <2>5, <2>6, <2>7, WritingSteps
<1>3. ASSUME NEW q \in Requests, Publish(q), NEW o \in session[q].rows
      PROVE  Files(q, o.search, o.target) /\ FilerOf(o) = q
  <2>1. pc[q] = "commit"
    BY <1>3 DEF Publish, At
  <2>2. CASE source[q] = q
    <3>1. o \in NewRows(q)
      BY <1>3, <2>1, <2>2 DEF PathInv, RequestInv, SessionInv
    <3>2. o.search = q /\ o.target = req[q].target /\ o.via = <<>>
      BY <3>1 DEF NewRows, NewRow
    <3> QED
      BY <1>3, <2>1, <2>2, <3>2 DEF Files, FilerOf
  <2>3. CASE source[q] # q
    <3>1. /\ o.search = source[q] /\ o.target = req[q].target
          /\ o.via # <<>> /\ o.via[Len(o.via)] = q
      BY <1>3, <2>1, <2>3 DEF PathInv, RequestInv, SessionInv, CopyInv
    <3> QED
      BY <1>3, <2>1, <3>1 DEF Files, FilerOf
  <2> QED
    BY <2>2, <2>3
<1>4. ASSUME NEW o \in RowsUnder(id, t)'
      PROVE  FilerOf(o) \in Filing(id, t)
  <2>1. o \in rows' /\ o.search = id /\ o.target = t
    BY <1>4 DEF RowsUnder
  <2>2. CASE o \in rows
    BY <2>1, <2>2 DEF Filing, RowsUnder
  <2>3. ASSUME NEW q \in Requests, Publish(q), o \notin rows
        PROVE  FilerOf(o) \in Filing(id, t)
    <3>1. o \in session[q].rows
      BY <2>1, <2>3 DEF Publish
    <3> QED
      BY <1>3, <2>1, <2>3, <3>1 DEF Filing
  <2>4. rows' = rows \/ \E q \in Requests : Publish(q)
    BY <1>1, TablesStep DEF PoolTimeout, Fail, tables
  <2> QED
    BY <2>1, <2>2, <2>3, <2>4
<1> QED
  BY <1>2, <1>4 DEF Filing, FilerOf

LEMMA FilingStep ==
    TableInv /\ IInv /\ IInv' /\ FilingInv /\ [PooledNext]_pooledVars => FilingInv'
<1> SUFFICES ASSUME TableInv, IInv, IInv', FilingInv, [PooledNext]_pooledVars,
                    NEW id, NEW t
             PROVE  /\ IsFiniteSet(Filing(id, t)')
                    /\ Cardinality(Filing(id, t)') <= PoolLimit
  BY DEF FilingInv
<1>1. CASE RowsUnder(id, t)' # {}
  <2>1. Filing(id, t)' \subseteq Filing(id, t)
    BY <1>1, FilingShrinks
  <2> QED
    BY <2>1, FewerBounded DEF FilingInv
<1>2. CASE RowsUnder(id, t)' = {}
  <2>1. \A r \in Filing(id, t)' : r \in connections'
    BY <1>2 DEF Filing, Files, IInv, HoldInv, Opened
  <2> QED
    BY <2>1, FewerBounded DEF IInv, CountInv
<1> QED
  BY <1>1, <1>2

\* The rows of a search are filed under a target by no more requests than the
\* pool has connections, copies of copies included: what two hits at a time do
\* in copy_records_for_target is bounded by make_engine's pool.
THEOREM PoolBoundsCopies == PooledSpec => []FilersBounded
<1>1. PooledInit => FilingInv
  <2> SUFFICES ASSUME PooledInit, NEW id, NEW t PROVE Filing(id, t) = {}
    BY FS_EmptySet, PoolAssumption DEF FilingInv
  <2> QED
    BY DEF PooledInit, Init, Filing, Files, RowsUnder
<1>2. FilingInv => FilersBounded
  <2> SUFFICES ASSUME FilingInv, NEW id, NEW t
               PROVE  Cardinality({FilerOf(o) : o \in RowsUnder(id, t)}) <= PoolLimit
    BY DEF FilersBounded
  <2>1. {FilerOf(o) : o \in RowsUnder(id, t)} \subseteq Filing(id, t)
    BY DEF Filing
  <2> QED
    BY <2>1, FewerBounded DEF FilingInv
<1> QED
  BY <1>1, <1>2, TableInit, TableStep, FilingStep, InitIInv, NextIInv, PTL
  DEF PooledSpec
=============================================================================
