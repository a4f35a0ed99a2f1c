------------------------ MODULE DehashedClientProofs ------------------------
(* Proofs about the retry loop, for any number of calls and of retries. *)
EXTENDS DehashedClient, TLAPS

\* A call has paid exactly when its last post ran, and it never posts again
\* after that; its result tells which of the two happened.
ChargeInv ==
    \A c \in Calls :
        /\ pc[c] \in {"idle", "posted", "asleep"} =>
             charges[c] = 0 /\ result[c] = "none"
        /\ pc[c] = "answered" => result[c] = "none"
        /\ pc[c] \in {"answered", "done"} =>
             \/ response[c] \in Ran /\ charges[c] = 1
             \/ response[c] \in NotRun /\ charges[c] = 0
        /\ pc[c] = "done" =>
             \/ result[c] = "entries" /\ response[c] = "page"
             \/ result[c] \in {"auth", "rate"} /\ response[c] \in NotRun
             \/ result[c] \in {"api", "raw"}

\* A call sleeps only when another round of the loop is left.
RoundsInv == \A c \in Calls : pc[c] = "asleep" => attempt[c] < MaxRetries

IInv == TypeOK /\ RoundsInv /\ ChargeInv

\* A call starts unpaid, in the first round of its loop.
LEMMA InitIInv == Init => IInv
  BY ClientAssumption
  DEF Init, IInv, TypeOK, RoundsInv, ChargeInv, Ran, NotRun

\* Every step of the loop and of the API keeps the invariant.
LEMMA NextIInv == IInv /\ [Next]_vars => IInv'
<1> SUFFICES ASSUME IInv, [Next]_vars PROVE IInv'
  OBVIOUS
<1> USE ClientAssumption
        DEF IInv, TypeOK, RoundsInv, ChargeInv, Ran, NotRun
<1>1. ASSUME NEW c \in Calls, Begin(c) PROVE IInv'
  BY <1>1 DEF Begin
<1>2. ASSUME NEW c \in Calls, UpstreamRuns(c) PROVE IInv'
  BY <1>2 DEF UpstreamRuns, ComesBack
<1>3. ASSUME NEW c \in Calls, UpstreamRefuses(c) PROVE IInv'
  BY <1>3 DEF UpstreamRefuses, ComesBack
<1>4. ASSUME NEW c \in Calls, ReturnPage(c) PROVE IInv'
  BY <1>4 DEF ReturnPage, Ends
<1>5. ASSUME NEW c \in Calls, RaiseApi(c) PROVE IInv'
  BY <1>5 DEF RaiseApi, Ends
<1>6. ASSUME NEW c \in Calls, RaiseAuth(c) PROVE IInv'
  BY <1>6 DEF RaiseAuth, Ends
<1>7. ASSUME NEW c \in Calls, RaiseRate(c) PROVE IInv'
  BY <1>7 DEF RaiseRate, Ends
<1>8. ASSUME NEW c \in Calls, EscapeRaw(c) PROVE IInv'
  BY <1>8 DEF EscapeRaw, Ends
<1>9. ASSUME NEW c \in Calls, Backoff(c) PROVE IInv'
  <2>1. Append(waited[c], attempt[c]) \in Seq(Nat)
    OBVIOUS
  <2>2. waited' \in [Calls -> Seq(Nat)]
    BY <1>9, <2>1 DEF Backoff
  <2> QED
    BY <1>9, <2>2 DEF Backoff
<1>10. ASSUME NEW c \in Calls, Retry(c) PROVE IInv'
  BY <1>10 DEF Retry
<1>11. CASE Recharge
  <2>1. balance' \in Nat
    BY <1>11 DEF Recharge
  <2> QED
    BY <1>11, <2>1 DEF Recharge
<1>12. CASE UNCHANGED vars
  BY <1>12 DEF vars
<1> QED
  BY <1>1, <1>2, <1>3, <1>4, <1>5, <1>6, <1>7, <1>8, <1>9, <1>10, <1>11, <1>12
  DEF Next, Step, AllEnded

\* The invariant of the loop holds in every reachable state, for every number
\* of concurrent calls and every max_retries.
THEOREM Invariance == Spec => []IInv
  BY InitIInv, NextIInv, PTL DEF Spec

\* Type correctness of the retry loop: in particular its counter never passes
\* max_retries, so a call posts at most 1 + max_retries times.
THEOREM TypeCorrect == Spec => []TypeOK
<1>1. IInv => TypeOK
  BY DEF IInv
<1> QED
  BY <1>1, Invariance, PTL

\* A call is charged once at most, not at all when it ends in an authentication
\* or a rate-limit error, and exactly once when it returns a page.
THEOREM NeverChargedTwice == Spec => []ChargedAtMostOnce
<1>1. IInv => ChargedAtMostOnce
  <2> SUFFICES ASSUME IInv, NEW c \in Calls
               PROVE  /\ charges[c] <= 1
                      /\ result[c] \in {"auth", "rate"} => charges[c] = 0
                      /\ result[c] = "entries" => charges[c] = 1
    BY DEF ChargedAtMostOnce
  <2>0. /\ charges[c] \in Nat
        /\ pc[c] \in {"idle", "posted", "answered", "asleep", "done"}
    BY DEF IInv, TypeOK
  <2> USE DEF IInv, ChargeInv, Ran, NotRun
  <2>1. CASE pc[c] = "done"
    BY <2>1
  <2>2. CASE pc[c] = "answered"
    BY <2>2
  <2>3. CASE pc[c] \in {"idle", "posted", "asleep"}
    BY <2>3
  <2> QED
    BY <2>0, <2>1, <2>2, <2>3
<1> QED
  BY <1>1, Invariance, PTL

-----------------------------------------------------------------------------
(* The pauses of the back-off *)

\* The pauses slept are those of the rounds left behind, in their order, and
\* the pause of the round a sleeping call is in.
PauseInv ==
    \A c \in Calls :
        /\ waited[c] = [i \in 1 .. Len(waited[c]) |-> i - 1]
        /\ Len(waited[c]) = IF pc[c] = "asleep" THEN attempt[c] + 1
                                              ELSE attempt[c]
        /\ result[c] = "rate" => attempt[c] = MaxRetries
        /\ pc[c] # "done" => result[c] = "none"

\* No pause has been slept when a call starts.
LEMMA InitPause == Init => PauseInv
<1>1. Len(<<>>) = 0 /\ <<>> = [i \in 1 .. 0 |-> i - 1]
  OBVIOUS
<1> QED
  BY <1>1 DEF Init, PauseInv

\* Only the back-off adds a pause, and it adds the one of its round.
LEMMA NextPause == IInv /\ PauseInv /\ [Next]_vars => PauseInv'
<1> SUFFICES ASSUME IInv, PauseInv, [Next]_vars PROVE PauseInv'
  OBVIOUS
<1> DEFINE Counters ==
        /\ attempt \in [Calls -> Nat]
        /\ DOMAIN waited = Calls /\ \A c \in Calls : waited[c] \in Seq(Nat)
        /\ DOMAIN pc = Calls /\ DOMAIN result = Calls
<1>0. Counters
  BY ClientAssumption DEF IInv, TypeOK
<1> USE <1>0 DEF PauseInv
<1>1. ASSUME NEW c \in Calls, Begin(c) PROVE PauseInv'
  BY <1>1 DEF Begin
<1>2. ASSUME NEW c \in Calls, UpstreamRuns(c) \/ UpstreamRefuses(c) PROVE PauseInv'
  BY <1>2 DEF UpstreamRuns, UpstreamRefuses, ComesBack
<1>3. ASSUME NEW c \in Calls, ReturnPage(c) \/ RaiseApi(c) \/ RaiseAuth(c) \/ EscapeRaw(c)
      PROVE  PauseInv'
  BY <1>3 DEF ReturnPage, RaiseApi, RaiseAuth, EscapeRaw, Ends
<1>4. ASSUME NEW c \in Calls, RaiseRate(c) PROVE PauseInv'
  BY <1>4 DEF RaiseRate, Ends
<1>5. ASSUME NEW c \in Calls, Backoff(c) PROVE PauseInv'
  <2>1. /\ Len(waited[c]) = attempt[c] /\ waited[c] \in Seq(Nat)
        /\ waited' = [waited EXCEPT ![c] = Append(waited[c], attempt[c])]
    BY <1>5 DEF Backoff
  <2>2. /\ Len(waited'[c]) = attempt[c] + 1
        /\ waited'[c] = [i \in 1 .. attempt[c] + 1 |-> i - 1]
    <3>1. waited[c] = [i \in 1 .. attempt[c] |-> i - 1]
      BY <2>1
    <3>2. waited'[c] = Append(waited[c], attempt[c])
      BY <2>1
    <3>3. Len(waited'[c]) = attempt[c] + 1 /\ waited'[c] \in Seq(Nat)
      BY <2>1, <3>2
    <3>4. \A i \in 1 .. attempt[c] + 1 : waited'[c][i] = i - 1
      BY <2>1, <3>1, <3>2
    <3> DEFINE w == waited'[c]
               n == attempt[c] + 1
    <3>5. w \in Seq(Nat) /\ Len(w) = n /\ \A i \in 1 .. n : w[i] = i - 1
      BY <3>3, <3>4
    <3> HIDE DEF PauseInv, w, n
    <3>6. w = [i \in 1 .. n |-> i - 1]
      BY ONLY <3>5
    <3> QED
      BY <3>5, <3>6 DEF w, n
  <2>3. \A d \in Calls \ {c} : waited'[d] = waited[d] /\ pc'[d] = pc[d]
    BY <2>1, <1>5 DEF Backoff
  <2> QED
    BY <2>2, <2>3, <1>5 DEF Backoff
<1>6. ASSUME NEW c \in Calls, Retry(c) PROVE PauseInv'
  BY <1>6 DEF Retry
<1>7. CASE Recharge \/ UNCHANGED vars
  BY <1>7 DEF Recharge, vars
<1> QED
  BY <1>1, <1>2, <1>3, <1>4, <1>5, <1>6, <1>7 DEF Next, Step, AllEnded

\* A rate-limit error is raised only after every pause of the doubling
\* back-off, for every max_retries and however many calls run.
THEOREM BacksOffFully == Spec => []RateAfterAllRetries
<1>1. ASSUME IInv, PauseInv PROVE RateAfterAllRetries
  <2> SUFFICES ASSUME NEW c \in Calls
               PROVE  /\ waited[c] = [i \in 1 .. Len(waited[c]) |-> i - 1]
                      /\ Len(waited[c]) <= MaxRetries
                      /\ result[c] = "rate" => Len(waited[c]) = MaxRetries
    BY DEF RateAfterAllRetries
  <2>1. /\ attempt[c] \in 0 .. MaxRetries
        /\ pc[c] = "asleep" => attempt[c] < MaxRetries
    BY <1>1 DEF IInv, TypeOK, RoundsInv
  <2>2. /\ waited[c] = [i \in 1 .. Len(waited[c]) |-> i - 1]
        /\ Len(waited[c]) = IF pc[c] = "asleep" THEN attempt[c] + 1 ELSE attempt[c]
        /\ result[c] = "rate" => attempt[c] = MaxRetries
    BY <1>1 DEF PauseInv
  <2> QED
    BY <2>1, <2>2, ClientAssumption
<1> QED
  BY <1>1, Invariance, InitPause, NextPause, PTL DEF Spec

-----------------------------------------------------------------------------
(* The loop implements the contract of one upstream call *)

\* A call that has not begun has no result and has paid nothing.
LEMMA ContractInit == Init => Contract!Init
  BY DEF Init, Contract!Init

\* Every step is a charge, an end, a gain, or a stutter of the contract.
LEMMA ContractStep == IInv /\ IInv' /\ [Next]_vars => [Contract!Next]_(Contract!vars)
<1> SUFFICES ASSUME IInv, IInv', [Next]_vars
             PROVE  [Contract!Next]_(Contract!vars)
  OBVIOUS
<1>0. /\ charges \in [Calls -> Nat]
      /\ DOMAIN result = Calls /\ DOMAIN pc = Calls /\ DOMAIN response = Calls
  BY DEF IInv, TypeOK
<1> USE <1>0 DEF IInv, ChargeInv, Ran, NotRun, Contract!vars
<1>1. ASSUME NEW c \in Calls, UpstreamRuns(c) PROVE Contract!Next
  <2>1. result[c] = "none" /\ charges[c] = 0 /\ charges'[c] = 1
    BY <1>1 DEF UpstreamRuns, ComesBack
  <2>2. \A d \in Calls : d # c => charges'[d] = charges[d]
    BY <1>1 DEF UpstreamRuns
  <2>3. {d \in Calls : charges'[d] > 0} = {d \in Calls : charges[d] > 0} \cup {c}
    BY <2>1, <2>2
  <2> QED
    BY <1>1, <2>1, <2>3 DEF UpstreamRuns, ComesBack, Contract!Next, Contract!Pays
<1>2. ASSUME NEW c \in Calls, NEW how \in Contract!Results, Ends(c, how),
             how = "entries" => charges[c] > 0,
             how \in {"auth", "rate"} => charges[c] = 0
      PROVE  Contract!Next
  <2>1. result[c] = "none"
    BY <1>2 DEF Ends
  <2>2. result' = [result EXCEPT ![c] = how] /\ UNCHANGED <<balance, charges>>
    BY <1>2 DEF Ends
  <2>3. {d \in Calls : charges[d] > 0}' = {d \in Calls : charges[d] > 0}
    BY <2>2
  <2>4. /\ how = "entries" => c \in {d \in Calls : charges[d] > 0}
        /\ how \in {"auth", "rate"} => c \notin {d \in Calls : charges[d] > 0}
    BY <1>2
  <2>5. Contract!Ends(c)
    BY ONLY <2>2, <2>3, <2>4, how \in Contract!Results DEF Contract!Ends
  <2> QED
    BY <2>1, <2>2, <2>3, <2>5 DEF Contract!Next
<1>3. ASSUME NEW c \in Calls, Begin(c) \/ UpstreamRefuses(c) \/ Backoff(c) \/ Retry(c)
      PROVE  UNCHANGED Contract!vars
  BY <1>3 DEF Begin, UpstreamRefuses, ComesBack, Backoff, Retry
<1>4. ASSUME NEW c \in Calls, ReturnPage(c) PROVE Contract!Next
  <2>1. charges[c] = 1 /\ Ends(c, "entries")
    BY <1>4 DEF ReturnPage, Ends
  <2> QED
    BY <1>2, <2>1 DEF Contract!Results
<1>5. ASSUME NEW c \in Calls, RaiseAuth(c) PROVE Contract!Next
  <2>1. charges[c] = 0 /\ Ends(c, "auth")
    BY <1>5 DEF RaiseAuth, Ends
  <2> QED
    BY <1>2, <2>1 DEF Contract!Results
<1>6. ASSUME NEW c \in Calls, RaiseRate(c) PROVE Contract!Next
  <2>1. charges[c] = 0 /\ Ends(c, "rate")
    BY <1>6 DEF RaiseRate, Ends
  <2> QED
    BY <1>2, <2>1 DEF Contract!Results
<1>7. ASSUME NEW c \in Calls, RaiseApi(c) PROVE Contract!Next
  BY <1>2, <1>7 DEF RaiseApi, Contract!Results
<1>8. ASSUME NEW c \in Calls, EscapeRaw(c) PROVE Contract!Next
  BY <1>2, <1>8 DEF EscapeRaw, Contract!Results
<1>9. CASE Recharge
  <2>1. balance \in Nat /\ balance' \in Nat
    BY DEF TypeOK
  <2>2. balance' > balance /\ UNCHANGED <<charges, result>>
    BY <1>9, <2>1 DEF Recharge
  <2> QED
    BY <2>1, <2>2 DEF Contract!Next, Contract!Gains
<1>10. CASE UNCHANGED vars
  BY <1>10 DEF vars
<1> QED
  BY <1>1, <1>3, <1>4, <1>5, <1>6, <1>7, <1>8, <1>9, <1>10 DEF Next, Step, AllEnded

\* The retry loop implements the contract of one upstream call: every step of
\* it is a charge, an end, or invisible to the caller, whatever credits are
\* bought meanwhile.
THEOREM ImplementsContract == Spec => ContractSpec
<1>1. Init => Contract!Init
  BY ContractInit
<1>2. IInv /\ IInv' /\ [Next]_vars => [Contract!Next]_(Contract!vars)
  BY ContractStep
<1> QED
  BY <1>1, <1>2, Invariance, PTL DEF Spec, ContractSpec, Contract!Spec
=============================================================================
