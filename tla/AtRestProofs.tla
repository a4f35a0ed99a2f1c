---------------------------- MODULE AtRestProofs ----------------------------
(***************************************************************************)
(* Proofs about the stored records, for any set of keys, targets, queries  *)
(* and pages.                                                              *)
(***************************************************************************)
EXTENDS AtRest, TLAPS

-----------------------------------------------------------------------------
(* The inductive invariant *)

\* A cell of a sensitive column is empty where the record has no such value.
SecretInv == \A o \in rows : o.secret = Null <=> o.entry \notin Secretive

\* A search is stored whole, and so is it under every target it has rows under.
WholeInv ==
    /\ \A q \in searches : \A e \in Page[q] : \E o \in RowsOf(q) : o.entry = e
    /\ \A o \in rows : o.search \in searches
    /\ \A o \in rows : \A e \in Page[o.search] :
         \E p \in RowsUnder(o.search, o.target) : p.entry = e
    /\ answered \subseteq searches \X Targets

AnsweredInv ==
    \A qt \in answered : \A e \in Page[qt[1]] :
        \E o \in RowsUnder(qt[1], qt[2]) : o.entry = e

\* One release stored the rows of a search, under one key.
StoredInv ==
    \A q \in searches : \E k \in Keys, form \in {"text", "encrypted"} :
        \A o \in RowsOf(q) : StoredBy(o, k, form)

IInv == TypeOK /\ SecretInv /\ WholeInv /\ AnsweredInv /\ StoredInv
            /\ AnsweredIsShown

-----------------------------------------------------------------------------
(* What is written *)

\* Every row of a new search is as the release stores it under the key.
LEMMA NewRowFacts ==
    ASSUME TypeOK, process = "up",
           NEW q \in Queries, NEW t \in Targets, NEW e \in Page[q]
    PROVE  /\ NewRow(q, t, e) \in Row
           /\ NewRow(q, t, e).search = q /\ NewRow(q, t, e).target = t
           /\ NewRow(q, t, e).entry = e
           /\ NewRow(q, t, e).secret = Null <=> e \notin Secretive
           /\ StoredBy(NewRow(q, t, e), key, release)
           /\ NewRow(q, t, e).raw = Plain <=> release = "text"
<1>1. e \in Entries /\ key \in Keys /\ key # Null /\ key # Plain
  BY AtRestAssumption DEF TypeOK
<1> QED
  BY <1>1, AtRestAssumption DEF TypeOK, NewRow, Row, Secret, StoredBy

\* A copy of a row that could be read keeps its cells, under another target.
LEMMA CopyFacts ==
    ASSUME TypeOK, SecretInv, process = "up",
           NEW o \in rows, NEW t \in Targets, Readable(o)
    PROVE  CopyOf(o, t) = [o EXCEPT !.target = t]
<1>1. key \in Keys /\ key # Null /\ key # Plain
  BY AtRestAssumption DEF TypeOK
<1>2. o \in Row
  BY DEF TypeOK
<1>3. Secret(o.entry) = o.secret
  BY <1>1 DEF SecretInv, Readable, Secret
<1>4. release = "encrypted" => o.raw = key
  BY DEF Readable
<1> QED
  BY <1>2, <1>3, <1>4 DEF CopyOf, Row

\* What a cached search adds: its rows once more, under the target it lacked.
LEMMA HitFacts ==
    ASSUME IInv, NEW q \in Queries, NEW t \in Targets, Hit(q, t)
    PROVE  \/ RowsUnder(q, t) # {} /\ rows' = rows
           \/ /\ RowsUnder(q, t) = {}
              /\ \A o \in RowsOf(q) : Readable(o)
              /\ rows' = rows \cup {[o EXCEPT !.target = t] : o \in RowsOf(q)}
<1>1. CASE RowsUnder(q, t) # {}
  BY <1>1 DEF Hit, Copies
<1>2. CASE RowsUnder(q, t) = {}
  <2>1. \A o \in RowsOf(q) : Readable(o)
    BY <1>2 DEF Hit, Loaded
  <2>2. \A o \in RowsOf(q) : CopyOf(o, t) = [o EXCEPT !.target = t]
    BY <2>1, CopyFacts DEF RowsOf, IInv, Hit
  <2>3. rows' = rows \cup {CopyOf(o, t) : o \in RowsOf(q)}
    BY <1>2 DEF Hit, Copies
  <2>4. {CopyOf(o, t) : o \in RowsOf(q)} =
          {[o EXCEPT !.target = t] : o \in RowsOf(q)}
    BY <2>2
  <2> QED
    BY <1>2, <2>1, <2>3, <2>4
<1> QED
  BY <1>1, <1>2

-----------------------------------------------------------------------------
(* Initial states and steps *)

LEMMA InitIInv == Init => IInv
  BY AtRestAssumption
  DEF Init, IInv, TypeOK, SecretInv, WholeInv, AnsweredInv, StoredInv,
      AnsweredIsShown, Told

\* Steps that leave the tables alone keep what is said of the tables.
LEMMA TablesSame ==
    ASSUME IInv, UNCHANGED <<searches, rows, answered>>
    PROVE  SecretInv' /\ WholeInv' /\ AnsweredInv' /\ StoredInv'
  BY DEF IInv, SecretInv, WholeInv, AnsweredInv, StoredInv, RowsOf, RowsUnder

\* A new search is stored whole, under the key of the process.
LEMMA MissStep ==
    ASSUME IInv, NEW q \in Queries, NEW t \in Targets, Miss(q, t)
    PROVE  IInv'
<1> DEFINE New == {NewRow(q, t, e) : e \in Page[q]}
<1>1. /\ process = "up" /\ q \notin searches
      /\ searches' = searches \cup {q} /\ rows' = rows \cup New
      /\ answered' = answered \cup {<<q, t>>}
      /\ last' = [target |-> t, status |-> "ok", shows |-> {}]
      /\ UNCHANGED <<release, process, key>>
  BY DEF Miss, Told
<1>2. /\ New \subseteq Row
      /\ \A n \in New :
           /\ n.search = q /\ n.target = t /\ n.entry \in Page[q]
           /\ n.secret = Null <=> n.entry \notin Secretive
           /\ StoredBy(n, key, release)
           /\ n.raw = Plain <=> release = "text"
      /\ \A e \in Page[q] : \E n \in New : n.entry = e
  BY <1>1, NewRowFacts DEF IInv
<1>3. \A o \in rows : o.search # q
  BY <1>1 DEF IInv, WholeInv
<1> HIDE DEF New
<1>4. TypeOK'
  BY <1>1, <1>2 DEF IInv, TypeOK
<1>5. SecretInv'
  BY <1>1, <1>2 DEF IInv, SecretInv
<1>6. WholeInv'
  <2>1. \A p \in searches' : \A e \in Page[p] : \E o \in RowsOf(p)' : o.entry = e
    BY <1>1, <1>2 DEF IInv, WholeInv, RowsOf
  <2>2. \A o \in rows' : o.search \in searches'
    BY <1>1, <1>2 DEF IInv, WholeInv
  <2>3. \A o \in rows' : \A e \in Page[o.search] :
           \E p \in RowsUnder(o.search, o.target)' : p.entry = e
    BY <1>1, <1>2 DEF IInv, WholeInv, RowsUnder
  <2> QED
    BY <1>1, <2>1, <2>2, <2>3 DEF IInv, WholeInv
<1>7. AnsweredInv'
  BY <1>1, <1>2 DEF IInv, AnsweredInv, RowsUnder
<1>8. StoredInv'
  <2>1. ASSUME NEW p \in searches
        PROVE  \E k \in Keys, form \in {"text", "encrypted"} :
                 \A o \in RowsOf(p)' : StoredBy(o, k, form)
    <3>1. RowsOf(p)' = RowsOf(p)
      BY <1>1, <1>2 DEF RowsOf
    <3> QED
      BY <3>1 DEF IInv, StoredInv
  <2>2. RowsOf(q)' = New
    BY <1>1, <1>2, <1>3 DEF RowsOf
  <2>3. key \in Keys /\ release \in {"text", "encrypted"}
    BY <1>1 DEF IInv, TypeOK
  <2> QED
    BY <1>1, <1>2, <2>1, <2>2, <2>3 DEF StoredInv, StoredBy
<1>9. AnsweredIsShown'
  BY <1>1 DEF AnsweredIsShown
<1> QED
  BY <1>4, <1>5, <1>6, <1>7, <1>8, <1>9 DEF IInv

\* A cached search adds whole copies, cell by cell what it read.
LEMMA HitStep ==
    ASSUME IInv, NEW q \in Queries, NEW t \in Targets, Hit(q, t)
    PROVE  IInv'
<1>1. /\ process = "up" /\ q \in searches /\ searches' = searches
      /\ answered' = answered \cup {<<q, t>>}
      /\ last' = [target |-> t, status |-> "ok", shows |-> {}]
      /\ UNCHANGED <<release, process, key>>
  BY DEF Hit, Told
<1>2. AnsweredIsShown'
  BY <1>1 DEF AnsweredIsShown
<1>3. CASE RowsUnder(q, t) # {} /\ rows' = rows
  <2>1. PICK o \in rows : o.search = q /\ o.target = t
    BY <1>3 DEF RowsUnder
  <2>2. \A e \in Page[q] : \E p \in RowsUnder(q, t) : p.entry = e
    BY <2>1 DEF IInv, WholeInv
  <2>3. TypeOK'
    BY <1>1, <1>3 DEF IInv, TypeOK
  <2>4. AnsweredInv'
    BY <1>1, <1>3, <2>2 DEF IInv, AnsweredInv, RowsUnder
  <2>5. SecretInv' /\ WholeInv' /\ StoredInv'
    BY <1>1, <1>3 DEF IInv, SecretInv, WholeInv, StoredInv, RowsOf, RowsUnder
  <2> QED
    BY <1>2, <2>3, <2>4, <2>5 DEF IInv
<1>4. CASE /\ RowsUnder(q, t) = {}
           /\ \A o \in RowsOf(q) : Readable(o)
           /\ rows' = rows \cup {[o EXCEPT !.target = t] : o \in RowsOf(q)}
  <2> DEFINE New == {[o EXCEPT !.target = t] : o \in RowsOf(q)}
  <2>0. ASSUME NEW o \in RowsOf(q)
        PROVE  LET n == [o EXCEPT !.target = t] IN
                 /\ o \in rows /\ o.search = q /\ n.search = q /\ n.target = t
                 /\ n.entry = o.entry /\ n.raw = o.raw /\ n.secret = o.secret
                 /\ n \in Row
    BY <2>0 DEF IInv, TypeOK, Row, RowsOf
  <2>1. \A n \in New : \E o \in rows :
          /\ o.search = q /\ n.search = q /\ n.target = t
          /\ n.entry = o.entry /\ n.raw = o.raw /\ n.secret = o.secret
          /\ n \in Row
    BY <2>0, Zenon
  <2>2. \A o \in RowsOf(q) : \E n \in New :
          n.search = q /\ n.target = t /\ n.entry = o.entry
    <3> TAKE o \in RowsOf(q)
    <3> DEFINE c == [o EXCEPT !.target = t]
    <3>1. c \in New
      OBVIOUS
    <3>2. c.search = q /\ c.target = t /\ c.entry = o.entry
      BY <2>0
    <3> HIDE DEF c, New
    <3> QED
      BY <3>1, <3>2
  <2>3. rows' = rows \cup New
    BY <1>4
  <2> HIDE DEF New
  <2>4. \A e \in Page[q] : \E n \in New :
          n.search = q /\ n.target = t /\ n.entry = e
    BY <1>1, <2>2 DEF IInv, WholeInv
  <2>5. TypeOK'
    BY <1>1, <2>1, <2>3 DEF IInv, TypeOK
  <2>6. SecretInv'
    BY <2>1, <2>3 DEF IInv, SecretInv
  <2>7. WholeInv'
    <3>1. \A p \in searches' : \A e \in Page[p] : \E o \in RowsOf(p)' : o.entry = e
      BY <1>1, <2>3 DEF IInv, WholeInv, RowsOf
    <3>2. \A o \in rows' : o.search \in searches'
      BY <1>1, <2>1, <2>3 DEF IInv, WholeInv
    <3>3. \A o \in rows' : \A e \in Page[o.search] :
             \E p \in RowsUnder(o.search, o.target)' : p.entry = e
      BY <2>1, <2>4, <2>3 DEF IInv, WholeInv, RowsUnder
    <3> QED
      BY <1>1, <3>1, <3>2, <3>3 DEF IInv, WholeInv
  <2>8. AnsweredInv'
    BY <1>1, <2>4, <2>3 DEF IInv, AnsweredInv, RowsUnder
  <2>9. StoredInv'
    <3> SUFFICES ASSUME NEW p \in searches
                 PROVE  \E k \in Keys, form \in {"text", "encrypted"} :
                          \A o \in RowsOf(p)' : StoredBy(o, k, form)
      BY <1>1 DEF StoredInv, StoredBy
    <3>1. PICK k \in Keys, form \in {"text", "encrypted"} :
            \A o \in RowsOf(p) : StoredBy(o, k, form)
      BY DEF IInv, StoredInv
    <3>2. \A n \in RowsOf(p)' : \E o \in RowsOf(p) :
            n.raw = o.raw /\ n.secret = o.secret
      BY <2>1, <2>3 DEF RowsOf
    <3> QED
      BY <3>1, <3>2 DEF StoredBy
  <2> QED
    BY <1>2, <2>5, <2>6, <2>7, <2>8, <2>9 DEF IInv
<1> QED
  BY <1>3, <1>4, HitFacts

\* One step per action.
LEMMA NextIInv == IInv /\ [Next]_vars => IInv'
<1> SUFFICES ASSUME IInv, [Next]_vars PROVE IInv'
  OBVIOUS
<1> USE DEF IInv
<1>1. ASSUME NEW k \in Keys, Start(k) PROVE IInv'
  BY <1>1, TablesSame, AtRestAssumption DEF Start, TypeOK, AnsweredIsShown
<1>2. CASE StartFails
  BY <1>2, TablesSame, AtRestAssumption DEF StartFails, TypeOK, AnsweredIsShown
<1>3. CASE Stop
  BY <1>3, TablesSame DEF Stop, TypeOK, AnsweredIsShown
<1>4. CASE Upgrade \/ Downgrade
  BY <1>4, TablesSame DEF Upgrade, Downgrade, TypeOK, AnsweredIsShown
<1>5. ASSUME NEW q \in Queries, NEW t \in Targets, Miss(q, t) PROVE IInv'
  BY <1>5, MissStep
<1>6. ASSUME NEW q \in Queries, NEW t \in Targets, Hit(q, t) PROVE IInv'
  BY <1>6, HitStep
<1>7. ASSUME NEW q \in Queries, NEW t \in Targets, HitFails(q, t) PROVE IInv'
  BY <1>7, TablesSame DEF HitFails, Told, TypeOK, AnsweredIsShown
<1>8. ASSUME NEW t \in Targets, Read(t) PROVE IInv'
  <2>1. SecretInv' /\ WholeInv' /\ AnsweredInv' /\ StoredInv'
    BY <1>8, TablesSame DEF Read
  <2>2. {o.entry : o \in {p \in rows : p.target = t}} \subseteq Entries
    BY DEF TypeOK, Row
  <2>3. TypeOK'
    BY <1>8, <2>2 DEF Read, Told, TypeOK
  <2>4. AnsweredIsShown'
    BY <1>8 DEF Read, Told, AnsweredIsShown, AnsweredInv, RowsUnder
  <2> QED
    BY <2>1, <2>3, <2>4
<1>9. ASSUME NEW t \in Targets, ReadFails(t) PROVE IInv'
  BY <1>9, TablesSame DEF ReadFails, Told, TypeOK, AnsweredIsShown
<1>10. CASE UNCHANGED vars
  BY <1>10, TablesSame DEF vars, TypeOK, AnsweredIsShown
<1> QED
  BY <1>1, <1>2, <1>3, <1>4, <1>5, <1>6, <1>7, <1>8, <1>9, <1>10 DEF Next

-----------------------------------------------------------------------------
(* Theorems *)

\* The inductive invariant holds in every reachable state.
THEOREM Invariance == Spec => []IInv
  BY InitIInv, NextIInv, PTL DEF Spec

\* The tables and the answers keep their shape for every set of keys and pages
\* (EncryptedString, FieldCipher and the routes that use them).
THEOREM TypeCorrect == Spec => []TypeOK
<1>1. IInv => TypeOK
  BY DEF IInv
<1> QED
  BY <1>1, Invariance, PTL

\* However often the key and the release change, what was answered with success
\* is stored whole, and one key with one release reads all of a search, text
\* cells and ciphertext alike (copy_records_for_target, add_records).
THEOREM KeyChangeDestroysNothing == Spec => []StoredIsRecoverable
<1>1. IInv => StoredIsRecoverable
  BY DEF IInv, AnsweredInv, StoredInv, StoredIsRecoverable
<1> QED
  BY <1>1, Invariance, PTL

\* No reader shows a part of what earlier searches were answered with.
THEOREM ReadersAreComplete == Spec => []AnsweredIsShown
<1>1. IInv => AnsweredIsShown
  BY DEF IInv
<1> QED
  BY <1>1, Invariance, PTL

\* Text enters raw_json through the old release alone, and never for a search
\* that is encrypted.
THEOREM TextIsOld == Spec => NoTextAdded
<1> DEFINE A == \A o \in rows' \ rows :
                  o.raw = Plain =>
                      /\ release = "text"
                      /\ \A p \in rows : p.search = o.search => p.raw = Plain
<1>1. IInv /\ [Next]_vars => [A]_vars
  <2> SUFFICES ASSUME IInv, [Next]_vars, rows' # rows PROVE A
    BY DEF vars
  <2>1. ASSUME NEW q \in Queries, NEW t \in Targets, Miss(q, t) PROVE A
    <3>1. \A p \in rows : p.search # q
      BY <2>1 DEF Miss, IInv, WholeInv
    <3>2. \A o \in rows' \ rows :
            o.search = q /\ (o.raw = Plain => release = "text")
      BY <2>1, NewRowFacts DEF Miss, IInv
    <3> QED
      BY <3>1, <3>2
  <2>2. ASSUME NEW q \in Queries, NEW t \in Targets, Hit(q, t) PROVE A
    <3>1. /\ \A o \in RowsOf(q) : Readable(o)
          /\ rows' = rows \cup {[o EXCEPT !.target = t] : o \in RowsOf(q)}
      BY <2>2, HitFacts
    <3>2. \A n \in rows' \ rows : \E o \in rows :
            o.search = q /\ n.search = q /\ n.raw = o.raw /\ Readable(o)
      BY <3>1 DEF IInv, TypeOK, Row, RowsOf
    <3>3. key # Plain /\ release \in {"text", "encrypted"}
      BY AtRestAssumption DEF IInv, TypeOK
    <3>4. PICK k \in Keys, form \in {"text", "encrypted"} :
            \A o \in RowsOf(q) : StoredBy(o, k, form)
      BY <2>2 DEF Hit, IInv, StoredInv
    <3>5. k # Plain
      BY AtRestAssumption
    <3>6. \A o \in rows : o.search = q /\ o.raw = Plain =>
            \A p \in rows : p.search = q => p.raw = Plain
      BY <3>4, <3>5 DEF StoredBy, RowsOf
    <3> QED
      BY <3>2, <3>3, <3>6 DEF Readable
  <2> QED
    BY <2>1, <2>2
    DEF Next, vars, Start, StartFails, Stop, Upgrade, Downgrade, HitFails, Read,
        ReadFails
<1> QED
  BY <1>1, Invariance, PTL DEF Spec, NoTextAdded
=============================================================================
