--------------------------- MODULE DehashedClient ---------------------------
(***************************************************************************)
(* The retry loop of DehashedClient.search, for calls that run             *)
(* concurrently against one upstream account.  A call posts its query; a   *)
(* 429 is retried after a pause that doubles, MaxRetries times; everything *)
(* else ends the call.  The upstream API is external: a query it runs is   *)
(* charged one credit, whatever becomes of the response.                   *)
(***************************************************************************)
EXTENDS Naturals, Sequences

CONSTANTS
    Calls,          \* the calls, one per search request that misses the cache
    MaxRetries,     \* max_retries of the client
    InitBalance,    \* credits of the account at the start
    MaxBalance      \* bound: credits the owner buys up to

ASSUME ClientAssumption ==
    MaxRetries \in Nat /\ InitBalance \in Nat /\ MaxBalance \in Nat

\* What a post can come back with.  A query that ran gives a page, a 200 whose
\* JSON is not a response, a 200 that is not JSON, or an answer that is lost;
\* one that did not run gives a status, or no connection.
Ran    == {"page", "misfit", "notjson", "lost"}
NotRun == {"401", "403", "429", "5xx", "unreachable"}

VARIABLES
    balance,    \* credits left
    charges,    \* history: how often each call was charged
    pc,         \* where each call is in its loop
    attempt,    \* the loop counter
    response,   \* the last thing a post came back with
    waited,     \* history: the pauses so far; pause n lasts backoff_base * 2^n
    result      \* what the call returned or raised

vars == <<balance, charges, pc, attempt, response, waited, result>>

Init ==
    /\ balance = InitBalance
    /\ charges = [c \in Calls |-> 0]
    /\ pc = [c \in Calls |-> "idle"]
    /\ attempt = [c \in Calls |-> 0]
    /\ response = [c \in Calls |-> "none"]
    /\ waited = [c \in Calls |-> <<>>]
    /\ result = [c \in Calls |-> "none"]

Begin(c) ==
    /\ pc[c] = "idle"
    /\ pc' = [pc EXCEPT ![c] = "posted"]
    /\ UNCHANGED <<balance, charges, attempt, response, waited, result>>

-----------------------------------------------------------------------------
(* The upstream API (external) *)

ComesBack(c, answers) ==
    /\ pc[c] = "posted"
    /\ \E a \in answers : response' = [response EXCEPT ![c] = a]
    /\ pc' = [pc EXCEPT ![c] = "answered"]
    /\ UNCHANGED <<attempt, waited, result>>

UpstreamRuns(c) ==
    /\ ComesBack(c, Ran)
    /\ balance > 0
    /\ balance' = balance - 1
    /\ charges' = [charges EXCEPT ![c] = @ + 1]

UpstreamRefuses(c) ==
    /\ ComesBack(c, NotRun)
    /\ UNCHANGED <<balance, charges>>

\* The owner buys credits, at any time.
Recharge ==
    /\ \E b \in balance + 1 .. MaxBalance : balance' = b
    /\ UNCHANGED <<charges, pc, attempt, response, waited, result>>

-----------------------------------------------------------------------------
(* The client's handling of a response *)

\* The loop is left, by the return of a page or by an exception.
Ends(c, how) ==
    /\ pc[c] = "answered"
    /\ result' = [result EXCEPT ![c] = how]
    /\ pc' = [pc EXCEPT ![c] = "done"]
    /\ UNCHANGED <<balance, charges, attempt, response, waited>>

ReturnPage(c) == response[c] = "page" /\ Ends(c, "entries")

\* ValidationError becomes DehashedAPIError, like any status not named.
RaiseApi(c) == response[c] \in {"misfit", "5xx"} /\ Ends(c, "api")

RaiseAuth(c) == response[c] \in {"401", "403"} /\ Ends(c, "auth")

\* Slip: the first 429 is raised.
RaiseRateAtOnce(c) == response[c] = "429" /\ Ends(c, "rate")

RaiseRate(c) ==
    /\ response[c] = "429"
    /\ attempt[c] = MaxRetries
    /\ Ends(c, "rate")

\* Nothing catches the JSON decoder's error, nor httpx's.
EscapeRaw(c) ==
    response[c] \in {"notjson", "lost", "unreachable"} /\ Ends(c, "raw")

\* Slip: an answer that was lost is asked for again.
BackoffOnTimeout(c) ==
    /\ pc[c] = "answered"
    /\ response[c] \in {"429", "lost"}
    /\ attempt[c] < MaxRetries
    /\ waited' = [waited EXCEPT ![c] = Append(@, attempt[c])]
    /\ pc' = [pc EXCEPT ![c] = "asleep"]
    /\ UNCHANGED <<balance, charges, attempt, response, result>>

\* Slip: one round too many.
BackoffOnceMore(c) ==
    /\ pc[c] = "answered"
    /\ response[c] = "429"
    /\ attempt[c] <= MaxRetries
    /\ waited' = [waited EXCEPT ![c] = Append(@, attempt[c])]
    /\ pc' = [pc EXCEPT ![c] = "asleep"]
    /\ UNCHANGED <<balance, charges, attempt, response, result>>

Backoff(c) ==
    /\ pc[c] = "answered"
    /\ response[c] = "429"
    /\ attempt[c] < MaxRetries
    /\ waited' = [waited EXCEPT ![c] = Append(@, attempt[c])]
    /\ pc' = [pc EXCEPT ![c] = "asleep"]
    /\ UNCHANGED <<balance, charges, attempt, response, result>>

\* Slip: after the pause the search is called anew instead of going on.
RetryAfresh(c) ==
    /\ pc[c] = "asleep"
    /\ attempt' = [attempt EXCEPT ![c] = 0]
    /\ waited' = [waited EXCEPT ![c] = <<>>]
    /\ pc' = [pc EXCEPT ![c] = "posted"]
    /\ UNCHANGED <<balance, charges, response, result>>

\* The pause is over: next round of the loop.
Retry(c) ==
    /\ pc[c] = "asleep"
    /\ attempt' = [attempt EXCEPT ![c] = @ + 1]
    /\ pc' = [pc EXCEPT ![c] = "posted"]
    /\ UNCHANGED <<balance, charges, response, waited, result>>

-----------------------------------------------------------------------------
(* Specification *)

Step(c) ==
    \/ UpstreamRuns(c) \/ UpstreamRefuses(c)
    \/ ReturnPage(c) \/ RaiseApi(c) \/ RaiseAuth(c) \/ RaiseRate(c)
    \/ EscapeRaw(c) \/ Backoff(c) \/ Retry(c)

\* Every call has ended: there is nothing left to do.
AllEnded == (\A c \in Calls : pc[c] = "done") /\ UNCHANGED vars

Next == (\E c \in Calls : Begin(c) \/ Step(c)) \/ Recharge \/ AllEnded

Spec == Init /\ [][Next]_vars

\* A post ends by httpx's timeouts, asyncio.sleep returns, coroutines run.
FairSpec == Spec /\ \A c \in Calls : WF_vars(Step(c))

-----------------------------------------------------------------------------
(* Properties *)

\* The loop counter stays in range(max_retries + 1), and what is posted, slept
\* and returned keeps its shape.
TypeOK ==
    /\ balance \in Nat
    /\ charges \in [Calls -> Nat]
    /\ pc \in [Calls -> {"idle", "posted", "answered", "asleep", "done"}]
    /\ attempt \in [Calls -> 0 .. MaxRetries]
    /\ response \in [Calls -> Ran \cup NotRun \cup {"none"}]
    /\ waited \in [Calls -> Seq(Nat)]
    /\ result \in [Calls -> {"none", "entries", "auth", "rate", "api", "raw"}]

\* However often it is retried, a call is charged at most once, and a call that
\* ends in an authentication or rate-limit error was not charged at all: the
\* loop never posts again what the API has run.
ChargedAtMostOnce ==
    \A c \in Calls :
        /\ charges[c] <= 1
        /\ result[c] \in {"auth", "rate"} => charges[c] = 0
        /\ result[c] = "entries" => charges[c] = 1

\* DehashedRateLimitError is raised only "when retries are exhausted": the call
\* has slept through every pause of the back-off, each twice as long as the one
\* before, and so has posted 1 + MaxRetries times; no call sleeps more often or
\* out of turn.
RateAfterAllRetries ==
    \A c \in Calls :
        /\ waited[c] = [i \in 1 .. Len(waited[c]) |-> i - 1]
        /\ Len(waited[c]) <= MaxRetries
        /\ result[c] = "rate" => Len(waited[c]) = MaxRetries

\* Every call ends: in a page or in one of the errors.
EveryCallEnds == \A c \in Calls : pc[c] = "posted" ~> pc[c] = "done"

Contract == INSTANCE UpstreamCall WITH
    charged <- {c \in Calls : charges[c] > 0}

\* The loop provides the contract of one upstream call: the retries are
\* invisible, and the account pays for each call once at most.
ContractSpec == Contract!Spec

\* A 200 body that is "Unexpected/unparseable" is to be surfaced "as a domain
\* error" (the comment in DehashedClient.search).
UnparseableIsDomainError ==
    \A c \in Calls :
        (pc[c] = "done" /\ response[c] \in {"misfit", "notjson"})
            => result[c] = "api"
=============================================================================
