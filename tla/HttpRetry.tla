------------------------------ MODULE HttpRetry ------------------------------
(***************************************************************************)
(* One call of _request_with_retry (data/http_client.py), the loop every   *)
(* HTTP request of the scanner goes through.  An action is one trip round  *)
(* the loop: a request, the reply it got, and what the code does with it.  *)
(* Times are whole seconds, the jitter included.                           *)
(***************************************************************************)
EXTENDS Naturals

CONSTANTS
    MaxAttempts,    \* max_attempts, 4 in the code
    BaseBackoff,    \* base_backoff, 1 s in the code
    RetryAfters     \* Retry-After values a 429 may carry, 0 for none or unreadable

ASSUME RetryAssumption ==
    /\ MaxAttempts \in Nat \ {0}
    /\ BaseBackoff \in Nat
    /\ RetryAfters \subseteq Nat

VARIABLES
    attempt,    \* the number of the next request
    outcome,    \* "none" while looping, then how the call ended
    slept,      \* time spent in time.sleep so far
    asked,      \* history: the Retry-After times the server asked for in between
    lost        \* history: requests the server carried out without a good reply

httpVars == <<attempt, outcome, slept, asked, lost>>

\* The subclasses of DataProviderError, and the exception of
\* raise_for_status, which is not one of them.
ProviderErrors ==
    {"AuthenticationError", "RateLimitError", "TransientProviderError"}
Outcomes == {"response", "HTTPError"} \cup ProviderErrors

-----------------------------------------------------------------------------
(* Waiting *)

\* Faulty: the server's wish replaces the backoff only when it is shorter.
BackoffCapped(n, jitter, floor) ==
    LET wait == BaseBackoff * 2 ^ (n - 1) + jitter
    IN  IF floor < wait THEN floor ELSE wait

\* Faulty: the exponent one too high.
BackoffDoubled(n, jitter, floor) ==
    LET wait == BaseBackoff * 2 ^ n + jitter
    IN  IF floor > wait THEN floor ELSE wait

\* _sleep_backoff: exponential backoff plus jitter, at least the floor.
Backoff(n, jitter, floor) ==
    LET wait == BaseBackoff * 2 ^ (n - 1) + jitter
    IN  IF floor > wait THEN floor ELSE wait

\* Faulty: an off-by-one that lets the loop go round once more.
TryAgainOnceTooOften(floor, error) ==
    IF attempt > MaxAttempts
    THEN outcome' = error /\ UNCHANGED <<attempt, slept>>
    ELSE /\ attempt' = attempt + 1
         /\ \E jitter \in 0..BaseBackoff :
                slept' = slept + Backoff(attempt, jitter, floor)
         /\ UNCHANGED outcome

\* Faulty: a loop that starts over, without a pause, instead of raising.
TryAgainForever(floor, error) ==
    /\ attempt' = IF attempt = MaxAttempts THEN 1 ELSE attempt + 1
    /\ UNCHANGED <<outcome, slept>>

\* The last attempt raises, an earlier one sleeps and goes round again.
TryAgain(floor, error) ==
    IF attempt = MaxAttempts
    THEN outcome' = error /\ UNCHANGED <<attempt, slept>>
    ELSE /\ attempt' = attempt + 1
         /\ \E jitter \in 0..BaseBackoff :
                slept' = slept + Backoff(attempt, jitter, floor)
         /\ UNCHANGED outcome

-----------------------------------------------------------------------------
(* One trip round the loop for each kind of reply *)

HttpInit ==
    /\ attempt = 1 /\ outcome = "none"
    /\ slept = 0 /\ asked = 0 /\ lost = 0

\* No reply: the request may or may not have reached the server.
NetworkError(carriedOut) ==
    /\ TryAgain(0, "TransientProviderError")
    /\ lost' = lost + carriedOut
    /\ UNCHANGED asked

\* 5xx: the server may have carried out the request before it failed.
ServerError(carriedOut) ==
    /\ TryAgain(0, "TransientProviderError")
    /\ lost' = lost + carriedOut
    /\ UNCHANGED asked

\* 429, with or without a Retry-After header
RateLimited(retryAfter) ==
    /\ TryAgain(retryAfter, "RateLimitError")
    /\ asked' = IF attempt < MaxAttempts THEN asked + retryAfter ELSE asked
    /\ UNCHANGED lost

\* 401 and 403
Unauthorized ==
    /\ outcome' = "AuthenticationError"
    /\ UNCHANGED <<attempt, slept, asked, lost>>

\* Every other 4xx: raise_for_status
Refused ==
    /\ outcome' = "HTTPError"
    /\ UNCHANGED <<attempt, slept, asked, lost>>

Answered ==
    /\ outcome' = "response"
    /\ UNCHANGED <<attempt, slept, asked, lost>>

Request ==
    /\ outcome = "none"
    /\ \/ \E carriedOut \in {0, 1} :
              NetworkError(carriedOut) \/ ServerError(carriedOut)
       \/ \E retryAfter \in RetryAfters : RateLimited(retryAfter)
       \/ Unauthorized
       \/ Refused
       \/ Answered

HttpSpec == HttpInit /\ [][Request]_httpVars

-----------------------------------------------------------------------------
(* Properties *)

\* A call makes between one and MaxAttempts requests; each but the last may
\* have been carried out and repeated.
HttpTypeOK ==
    /\ attempt \in 1..MaxAttempts
    /\ outcome \in Outcomes \cup {"none"}
    /\ slept \in Nat /\ asked \in Nat
    /\ lost \in 0..MaxAttempts

\* The call keeps to the server's wishes: it never sleeps less, over the whole
\* call, than the Retry-After headers it was sent add up to.
WishesRespected == slept >= asked

\* Doubling and jitter together: without a Retry-After the call sleeps less
\* than (2^(MaxAttempts - 1) + MaxAttempts) * BaseBackoff, so the four-attempt
\* calls of the scan are over within 10 s of sleep.  A Retry-After has no such
\* limit: it comes on top.
WaitLimited ==
    slept <= asked + (2 ^ (attempt - 1) - 1 + (attempt - 1)) * BaseBackoff

=============================================================================
