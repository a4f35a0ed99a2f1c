---------------------------- MODULE UpstreamCall ----------------------------
(***************************************************************************)
(* The contract of one call of the upstream search API as its caller sees  *)
(* it: a call is charged at most once, in the moment the API runs its      *)
(* query, and ends at most once.  Entries come from a charged call only;   *)
(* an authentication or a rate-limit error from a call that was not.       *)
(* The account is the owner's, who may buy credits at any time.            *)
(* DehashedClient provides this contract and SearchService relies on it.   *)
(***************************************************************************)
EXTENDS Naturals

CONSTANTS
    Calls,          \* the calls
    InitBalance     \* credits of the account at the start

VARIABLES
    balance,        \* credits left
    charged,        \* the calls that were charged
    result          \* how each call ended, "none" before it did

vars == <<balance, charged, result>>

Init ==
    /\ balance = InitBalance
    /\ charged = {}
    /\ result = [c \in Calls |-> "none"]

Results == {"entries", "auth", "rate", "api", "raw"}

Pays(c) ==
    /\ c \notin charged /\ balance > 0
    /\ balance' = balance - 1
    /\ charged' = charged \cup {c}

Ends(c) ==
    \E how \in Results :
        /\ how = "entries" => c \in charged'
        /\ how \in {"auth", "rate"} => c \notin charged'
        /\ result' = [result EXCEPT ![c] = how]

\* The owner buys credits; no call pays or ends by it.
Gains ==
    /\ balance' \in Nat /\ balance' > balance
    /\ UNCHANGED <<charged, result>>

Next ==
    \/ \E c \in Calls :
         /\ result[c] = "none"
         /\ Pays(c) \/ UNCHANGED <<balance, charged>>
         /\ Ends(c) \/ UNCHANGED result
    \/ Gains

Spec == Init /\ [][Next]_vars
=============================================================================
