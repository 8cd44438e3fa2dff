-------------------------- MODULE ClientCallProofs --------------------------
(***************************************************************************)
(* For any number of attempts, backoff and Retry-After values: how often a *)
(* call asks, how long it sleeps, and that every client keeps its promise. *)
(* The bounds on the sleep are inductive as they stand; the promise needs  *)
(* to know that at most one request per attempt is lost, and that a call   *)
(* that was answered, or refused, has not lost its last one.               *)
(*                                                                         *)
(* None of the provers knows anything of powers: what is used of them is   *)
(* stated as the hypothesis PowersOfTwo.                                   *)
(***************************************************************************)
EXTENDS ClientCall, Integers, TLAPS

PowersOfTwo ==
    /\ 2 ^ 0 = 1
    /\ \A n \in Nat : 2 ^ n \in Nat /\ 2 ^ (n + 1) = 2 * 2 ^ n

-----------------------------------------------------------------------------
(* Attempts and copies *)

\* Every attempt before the current one may have been lost, the current one
\* only if the loop gave up on it.
AttemptInv ==
    /\ attempt \in 1..MaxAttempts
    /\ outcome \in Outcomes \cup {"none"}
    /\ lost \in Nat
    /\ lost <= (IF outcome \in {"RateLimitError", "TransientProviderError"}
                THEN attempt ELSE attempt - 1)
    /\ client \in Clients

\* The last attempt raises, an earlier one is followed by the next.
LEMMA LastOrNext ==
    ASSUME AttemptInv, NEW floor, NEW error, TryAgain(floor, error)
    PROVE  \/ attempt = MaxAttempts /\ attempt' = attempt /\ outcome' = error
           \/ /\ attempt < MaxAttempts /\ attempt' = attempt + 1
              /\ outcome' = outcome
BY RetryAssumption DEF TryAgain, AttemptInv

LEMMA RequestKeepsAttempts ==
    ASSUME AttemptInv, Request, client' = client
    PROVE  AttemptInv'
<1> USE RetryAssumption DEF AttemptInv
<1>1. outcome = "none" /\ lost <= attempt - 1
  BY DEF Request
<1>2. ASSUME NEW carriedOut \in {0, 1},
             NetworkError(carriedOut) \/ ServerError(carriedOut)
      PROVE  AttemptInv'
  <2>1. TryAgain(0, "TransientProviderError") /\ lost' = lost + carriedOut
    BY <1>2 DEF NetworkError, ServerError
  <2> QED BY <1>1, <2>1, LastOrNext DEF Outcomes, ProviderErrors
<1>3. ASSUME NEW retryAfter \in RetryAfters, RateLimited(retryAfter)
      PROVE  AttemptInv'
  <2>1. TryAgain(retryAfter, "RateLimitError") /\ lost' = lost
    BY <1>3 DEF RateLimited
  <2> QED BY <1>1, <2>1, LastOrNext DEF Outcomes, ProviderErrors
<1>4. CASE Unauthorized \/ Refused \/ Answered
  BY <1>1, <1>4 DEF Unauthorized, Refused, Answered, Outcomes, ProviderErrors
<1> QED BY <1>2, <1>3, <1>4 DEF Request

\* The outcomes a caller reckons with cover what a client makes of any body.
LEMMA AnswerHonoursContract ==
    ASSUME AttemptInv, ReadAnswer
    PROVE  HonoursContract'
<1>1. PICK body \in Bodies : /\ verdict' = Judged(body)
                             /\ copies' \in {lost + n : n \in CopiesBehind(body)}
  BY DEF ReadAnswer
<1>2. client' = client /\ lost \in Nat /\ lost + 1 <= MaxAttempts
      /\ MaxAttempts \in Nat
  BY RetryAssumption DEF ReadAnswer, AttemptInv, httpVars
<1>3. CASE client = "sendMessage"
  <2>1. verdict' = SendVerdict(body)
    BY <1>1, <1>3 DEF Judged
  <2>2. CASE body = "good"
    <3>1. verdict' = "sent" /\ copies' = lost + 1
      BY <1>1, <2>1, <2>2 DEF SendVerdict, CopiesBehind
    <3> QED BY <1>2, <1>3, <3>1 DEF HonoursContract, SendOutcomes
  <2>3. CASE body # "good"
    <3>1. verdict' \in {"failed", "raised"} /\ copies' \in {lost, lost + 1}
      BY <1>1, <1>2, <2>1, <2>3 DEF SendVerdict, CopiesBehind, Bodies
    <3>2. copies' \in 0..MaxAttempts
      BY <1>2, <3>1
    <3> QED BY <1>2, <1>3, <3>1, <3>2 DEF HonoursContract, SendOutcomes
  <2> QED BY <2>2, <2>3
<1>4. CASE client # "sendMessage"
  <2>1. verdict' \in FetchOutcomes(client)
    BY <1>1, <1>4 DEF AttemptInv, Clients, NotifierCalls, Fetches, Judged,
       UpdatesVerdict, KlinesVerdict, PairsVerdict, RankingVerdict, Bodies,
       FetchOutcomes
  <2> QED BY <1>2, <1>4, <2>1 DEF HonoursContract
<1> QED BY <1>3, <1>4

LEMMA ErrorHonoursContract ==
    ASSUME AttemptInv, CatchProviderError \/ PassProviderError \/ LetThrough
    PROVE  HonoursContract'
<1>1. client' = client /\ copies' = lost /\ lost \in 0..MaxAttempts
  <2>1. lost \in 0..MaxAttempts
    BY RetryAssumption DEF AttemptInv
  <2>2. client' = client /\ copies' = lost
    BY DEF CatchProviderError, PassProviderError, LetThrough
  <2> QED BY <2>1, <2>2
<1>2. client = "sendMessage" => verdict' \in {"failed", "raised"}
  BY DEF CatchProviderError, PassProviderError, LetThrough, Fetches
<1>3. client # "sendMessage" => verdict' \in FetchOutcomes(client)
  BY DEF CatchProviderError, PassProviderError, LetThrough, NotifierCalls,
         FetchOutcomes
<1> QED BY <1>1, <1>2, <1>3 DEF HonoursContract, SendOutcomes

ContractInv == AttemptInv /\ HonoursContract

LEMMA ContractInvHolds == Spec => []ContractInv
<1>1. Init => ContractInv
  BY RetryAssumption DEF Init, HttpInit, ContractInv, AttemptInv, HonoursContract
<1>2. ContractInv /\ [Next]_vars => ContractInv'
  <2> SUFFICES ASSUME ContractInv, [Next]_vars
               PROVE  ContractInv'
    OBVIOUS
  <2> USE DEF ContractInv
  <2>1. CASE Send
    <3>1. client' = client /\ verdict' = verdict /\ copies' = copies /\ Request
      BY <2>1 DEF Send
    <3> QED BY <3>1, RequestKeepsAttempts DEF HonoursContract
  <2>2. CASE ReadAnswer
    BY <2>2, AnswerHonoursContract DEF ReadAnswer, AttemptInv, httpVars
  <2>3. CASE CatchProviderError \/ PassProviderError \/ LetThrough
    <3>1. AttemptInv'
      BY <2>3 DEF CatchProviderError, PassProviderError, LetThrough, AttemptInv,
                  httpVars
    <3> QED BY <2>3, <3>1, ErrorHonoursContract
  <2>4. CASE UNCHANGED vars
    BY <2>4 DEF vars, AttemptInv, HonoursContract
  <2> QED BY <2>1, <2>2, <2>3, <2>4 DEF Next
<1> QED BY <1>1, <1>2, PTL DEF Spec

\* notifier.py:111 and what the scan reckons with: for any number of attempts,
\* whatever happens on the way, a client's call comes to one of the outcomes
\* its contract lists.
THEOREM ContractHonoured == Spec => []HonoursContract
<1>1. ContractInv => HonoursContract
  BY DEF ContractInv
<1> QED BY <1>1, ContractInvHolds, PTL

-----------------------------------------------------------------------------
(* Running down *)

\* The client makes something of a request only once the loop is over.
VerdictComesLast == verdict # "none" => outcome # "none"

LEMMA VerdictComesLastHolds == Spec => []VerdictComesLast
<1>1. Init => VerdictComesLast
  BY DEF Init, VerdictComesLast
<1>2. VerdictComesLast /\ [Next]_vars => VerdictComesLast'
  <2> SUFFICES ASSUME VerdictComesLast, [Next]_vars
               PROVE  VerdictComesLast'
    OBVIOUS
  <2> USE DEF VerdictComesLast
  <2>1. CASE Send
    BY <2>1 DEF Send, Request
  <2>2. CASE ReadAnswer \/ CatchProviderError \/ PassProviderError \/ LetThrough
    BY <2>2 DEF ReadAnswer, CatchProviderError, PassProviderError, LetThrough,
       ProviderErrors, httpVars
  <2>3. CASE UNCHANGED vars
    BY <2>3 DEF vars
  <2> QED BY <2>1, <2>2, <2>3 DEF Next
<1> QED BY <1>1, <1>2, PTL DEF Spec

\* A request that is not answered uses up an attempt, every other one ends the
\* loop.
LEMMA RequestRunsDown ==
    ASSUME AttemptInv, Request
    PROVE  \/ outcome' # "none"
           \/ attempt' = attempt + 1 /\ outcome' = "none"
<1>1. ASSUME NEW floor, NEW error \in ProviderErrors, TryAgain(floor, error)
      PROVE  outcome' # "none" \/ (attempt' = attempt + 1 /\ outcome' = "none")
  BY <1>1, LastOrNext DEF Request, ProviderErrors
<1>2. ASSUME NEW carriedOut \in {0, 1},
             NetworkError(carriedOut) \/ ServerError(carriedOut)
      PROVE  outcome' # "none" \/ (attempt' = attempt + 1 /\ outcome' = "none")
  BY <1>1, <1>2 DEF NetworkError, ServerError, ProviderErrors
<1>3. ASSUME NEW retryAfter \in RetryAfters, RateLimited(retryAfter)
      PROVE  outcome' # "none" \/ (attempt' = attempt + 1 /\ outcome' = "none")
  BY <1>1, <1>3 DEF RateLimited, ProviderErrors
<1>4. CASE Unauthorized \/ Refused \/ Answered
  BY <1>4 DEF Unauthorized, Refused, Answered
<1> QED BY <1>2, <1>3, <1>4 DEF Request

\* http_client.py:74-115: for any number of attempts and any replies, every
\* step of a call uses up one of the MaxAttempts + 1 it has at most, so the
\* retry loop never takes a call back to where it was.
THEOREM CallIsShort == Spec => CallRunsDown /\ [](Left \in 0..(MaxAttempts + 1))
<1>1. AttemptInv => Left \in 0..(MaxAttempts + 1)
  BY RetryAssumption DEF AttemptInv, Left
<1>2. /\ AttemptInv /\ AttemptInv' /\ VerdictComesLast
      /\ [Next]_vars
      => [Left' < Left]_vars
  <2> SUFFICES ASSUME AttemptInv, AttemptInv', VerdictComesLast, Next
               PROVE  Left' < Left
    OBVIOUS
  <2>1. /\ MaxAttempts \in Nat
        /\ attempt \in 1..MaxAttempts /\ attempt' \in 1..MaxAttempts
    BY RetryAssumption DEF AttemptInv
  <2>2. CASE Send
    <3>1. outcome = "none" /\ verdict' = verdict /\ Request
      BY <2>2 DEF Send, Request
    <3>2. verdict = "none" /\ verdict' = "none"
      BY <3>1 DEF VerdictComesLast
    <3>3. Left = 2 + MaxAttempts - attempt
      BY <3>1, <3>2 DEF Left
    <3>4. CASE outcome' # "none"
      BY <2>1, <3>2, <3>3, <3>4 DEF Left
    <3>5. CASE attempt' = attempt + 1 /\ outcome' = "none"
      BY <2>1, <3>2, <3>3, <3>5 DEF Left
    <3> QED BY <3>1, <3>4, <3>5, RequestRunsDown
  <2>3. CASE ReadAnswer
    <3>1. client \in Clients
      BY DEF AttemptInv
    <3>2. verdict' # "none"
      BY <2>3, <3>1 DEF ReadAnswer, Judged, Clients, NotifierCalls, Fetches,
         SendVerdict, UpdatesVerdict, KlinesVerdict, PairsVerdict, RankingVerdict
    <3>3. verdict = "none" /\ outcome # "none"
      BY <2>3 DEF ReadAnswer
    <3> QED BY <3>2, <3>3 DEF Left
  <2>4. CASE CatchProviderError \/ PassProviderError \/ LetThrough
    <3>1. verdict = "none" /\ outcome # "none" /\ verdict' # "none"
      BY <2>4 DEF CatchProviderError, PassProviderError, LetThrough, ProviderErrors
    <3> QED BY <3>1 DEF Left
  <2> QED BY <2>2, <2>3, <2>4 DEF Next
<1>3. ContractInv => AttemptInv
  BY DEF ContractInv
<1> QED BY <1>1, <1>2, <1>3, ContractInvHolds, VerdictComesLastHolds, PTL
        DEF Spec, CallRunsDown

-----------------------------------------------------------------------------
(* Waiting *)

\* What a sleep is worth: at least the floor, and at most the floor on top of
\* the doubled backoff and the jitter.
LEMMA BackoffBounds ==
    ASSUME PowersOfTwo, NEW n \in Nat \ {0}, NEW jitter \in 0..BaseBackoff,
           NEW floor \in Nat
    PROVE  /\ Backoff(n, jitter, floor) \in Nat
           /\ Backoff(n, jitter, floor) >= floor
           /\ Backoff(n, jitter, floor)
                  <= floor + BaseBackoff * 2 ^ (n - 1) + BaseBackoff
<1> DEFINE power == 2 ^ (n - 1)
           wait == BaseBackoff * power + jitter
<1>1. power \in Nat
  BY DEF PowersOfTwo
<1> HIDE DEF power
<1>2. BaseBackoff * power \in Nat
  BY <1>1, RetryAssumption
<1>3. wait \in Nat /\ wait <= BaseBackoff * power + BaseBackoff
  BY <1>2, RetryAssumption
<1>4. Backoff(n, jitter, floor) = IF floor > wait THEN floor ELSE wait
  BY DEF Backoff, power
<1>5. BaseBackoff * 2 ^ (n - 1) = BaseBackoff * power
  BY DEF power
<1> HIDE DEF wait
<1> QED BY <1>2, <1>3, <1>4, <1>5, RetryAssumption

SleepInv ==
    /\ AttemptInv
    /\ slept \in Nat /\ asked \in Nat
    /\ WishesRespected /\ WaitLimited

\* One more sleep keeps both bounds on the sleep.
LEMMA SleepKeepsBounds ==
    ASSUME PowersOfTwo, SleepInv, NEW floor \in Nat, NEW jitter \in 0..BaseBackoff,
           attempt' = attempt + 1,
           slept' = slept + Backoff(attempt, jitter, floor),
           asked' = asked + floor
    PROVE  slept' \in Nat /\ asked' \in Nat /\ WishesRespected' /\ WaitLimited'
<1> DEFINE power == 2 ^ (attempt - 1)
           sleep == Backoff(attempt, jitter, floor)
<1>1. attempt \in Nat \ {0} /\ attempt - 1 \in Nat
  BY RetryAssumption DEF SleepInv, AttemptInv
<1>2. power \in Nat /\ 2 ^ (attempt' - 1) = 2 * power
  <2>1. attempt' - 1 = (attempt - 1) + 1
    BY <1>1
  <2> QED BY <1>1, <2>1 DEF PowersOfTwo
<1>3. /\ sleep \in Nat /\ sleep >= floor
      /\ sleep <= floor + BaseBackoff * power + BaseBackoff
  BY <1>1, BackoffBounds
<1>4. slept <= asked + (power - 1 + (attempt - 1)) * BaseBackoff
  BY DEF SleepInv, WaitLimited
<1>5. slept \in Nat /\ asked \in Nat /\ slept >= asked
  BY DEF SleepInv, WishesRespected
<1> HIDE DEF power, sleep
<1>6. slept' = slept + sleep
  BY DEF sleep
<1>7. slept' \in Nat /\ asked' \in Nat /\ WishesRespected'
  BY <1>3, <1>5, <1>6 DEF WishesRespected
<1>8. BaseBackoff \in Nat
  BY RetryAssumption
<1>9. (power - 1 + (attempt - 1)) * BaseBackoff + BaseBackoff * power + BaseBackoff
        = (2 * power - 1 + (attempt' - 1)) * BaseBackoff
  BY <1>1, <1>2, <1>8
<1>10. (power - 1 + (attempt - 1)) * BaseBackoff \in Int
       /\ BaseBackoff * power \in Int
  BY <1>1, <1>2, <1>8
<1>11. slept' <= asked' + (2 * power - 1 + (attempt' - 1)) * BaseBackoff
  BY <1>3, <1>4, <1>5, <1>6, <1>8, <1>9, <1>10
<1> QED BY <1>2, <1>7, <1>11 DEF WaitLimited

LEMMA RequestKeepsBounds ==
    ASSUME PowersOfTwo, SleepInv, Request
    PROVE  slept' \in Nat /\ asked' \in Nat /\ WishesRespected' /\ WaitLimited'
<1> DEFINE Goal == slept' \in Nat /\ asked' \in Nat /\ WishesRespected' /\ WaitLimited'
<1>1. ASSUME attempt' = attempt, slept' = slept, asked' = asked
      PROVE  Goal
  BY <1>1 DEF SleepInv, WishesRespected, WaitLimited
<1>2. ASSUME NEW floor \in Nat, NEW error, TryAgain(floor, error),
             asked' = IF attempt < MaxAttempts THEN asked + floor ELSE asked
      PROVE  Goal
  <2>1. CASE attempt = MaxAttempts
    BY <1>1, <1>2, <2>1, RetryAssumption DEF TryAgain, SleepInv, AttemptInv
  <2>2. CASE attempt # MaxAttempts
    <3>1. PICK jitter \in 0..BaseBackoff :
              slept' = slept + Backoff(attempt, jitter, floor)
      BY <1>2, <2>2 DEF TryAgain
    <3>2. attempt' = attempt + 1 /\ asked' = asked + floor
      BY <1>2, <2>2, RetryAssumption DEF TryAgain, SleepInv, AttemptInv
    <3> QED BY <3>1, <3>2, SleepKeepsBounds
  <2> QED BY <2>1, <2>2
<1>3. ASSUME NEW carriedOut \in {0, 1},
             NetworkError(carriedOut) \/ ServerError(carriedOut)
      PROVE  Goal
  <2>1. TryAgain(0, "TransientProviderError") /\ asked' = asked
    BY <1>3 DEF NetworkError, ServerError
  <2>2. asked + 0 = asked
    BY DEF SleepInv
  <2> QED BY <1>2, <2>1, <2>2
<1>4. ASSUME NEW retryAfter \in RetryAfters, RateLimited(retryAfter)
      PROVE  Goal
  BY <1>2, <1>4, RetryAssumption DEF RateLimited
<1>5. CASE Unauthorized \/ Refused \/ Answered
  BY <1>1, <1>5 DEF Unauthorized, Refused, Answered
<1> QED BY <1>3, <1>4, <1>5 DEF Request

LEMMA SleepInvHolds == PowersOfTwo => (Spec => []SleepInv)
<1> SUFFICES ASSUME PowersOfTwo
             PROVE  Spec => []SleepInv
  OBVIOUS
<1>1. Init => SleepInv
  <2> SUFFICES ASSUME Init PROVE SleepInv
    OBVIOUS
  <2>1. AttemptInv /\ attempt = 1 /\ slept = 0 /\ asked = 0
    BY RetryAssumption DEF Init, HttpInit, AttemptInv
  <2>2. 2 ^ (attempt - 1) = 1
    BY <2>1 DEF PowersOfTwo
  <2>3. (2 ^ (attempt - 1) - 1 + (attempt - 1)) * BaseBackoff = 0
    BY <2>1, <2>2, RetryAssumption
  <2> QED BY <2>1, <2>3 DEF SleepInv, WishesRespected, WaitLimited
<1>2. ContractInv /\ ContractInv' /\ SleepInv /\ [Next]_vars => SleepInv'
  <2> SUFFICES ASSUME ContractInv', SleepInv, [Next]_vars
               PROVE  SleepInv'
    OBVIOUS
  <2>1. AttemptInv'
    BY DEF ContractInv
  <2>2. CASE Send
    BY <2>1, <2>2, RequestKeepsBounds DEF Send, SleepInv
  <2>3. CASE UNCHANGED httpVars
    BY <2>1, <2>3 DEF httpVars, SleepInv, WishesRespected, WaitLimited
  <2> QED BY <2>2, <2>3 DEF Next, ReadAnswer, CatchProviderError,
             PassProviderError, LetThrough, vars, httpVars
<1> QED BY <1>1, <1>2, ContractInvHolds, PTL DEF Spec

\* http_client.py:71-115: the retry loop's variables keep their types.
THEOREM RetryTypeCorrect == PowersOfTwo => (Spec => []HttpTypeOK)
<1>1. SleepInv => HttpTypeOK
  BY RetryAssumption DEF SleepInv, AttemptInv, HttpTypeOK
<1> QED BY <1>1, SleepInvHolds, PTL

\* A trip round the loop sleeps at least what the reply asked for.
LEMMA RequestRespectsWish ==
    ASSUME PowersOfTwo, SleepInv, Request
    PROVE  slept' + asked >= slept + asked'
<1>1. slept \in Nat /\ asked \in Nat
  BY DEF SleepInv
<1>2. ASSUME NEW floor \in Nat, NEW error, TryAgain(floor, error),
             asked' = IF attempt < MaxAttempts THEN asked + floor ELSE asked
      PROVE  slept' + asked >= slept + asked'
  <2>1. CASE attempt = MaxAttempts
    BY <1>1, <1>2, <2>1, RetryAssumption DEF TryAgain
  <2>2. CASE attempt # MaxAttempts
    <3>1. PICK jitter \in 0..BaseBackoff :
              slept' = slept + Backoff(attempt, jitter, floor)
      BY <1>2, <2>2 DEF TryAgain
    <3>2. asked' = asked + floor /\ attempt \in Nat \ {0}
      BY <1>2, <2>2, RetryAssumption DEF SleepInv, AttemptInv
    <3>3. /\ Backoff(attempt, jitter, floor) \in Nat
          /\ Backoff(attempt, jitter, floor) >= floor
      BY <3>2, BackoffBounds
    <3> QED BY <1>1, <3>1, <3>2, <3>3
  <2> QED BY <2>1, <2>2
<1>3. ASSUME NEW carriedOut \in {0, 1},
             NetworkError(carriedOut) \/ ServerError(carriedOut)
      PROVE  slept' + asked >= slept + asked'
  <2>1. TryAgain(0, "TransientProviderError") /\ asked' = asked
    BY <1>3 DEF NetworkError, ServerError
  <2>2. asked + 0 = asked
    BY <1>1
  <2> QED BY <1>2, <2>1, <2>2
<1>4. ASSUME NEW retryAfter \in RetryAfters, RateLimited(retryAfter)
      PROVE  slept' + asked >= slept + asked'
  BY <1>2, <1>4, RetryAssumption DEF RateLimited
<1>5. CASE Unauthorized \/ Refused \/ Answered
  BY <1>1, <1>5 DEF Unauthorized, Refused, Answered
<1> QED BY <1>3, <1>4, <1>5 DEF Request

\* http_client.py:99: for any Retry-After values, no sleep is shorter than the
\* server asked for with the reply before it, so the sleeps of a call add up to
\* no less than all its wishes do.
THEOREM WishesKept ==
    PowersOfTwo => (Spec => /\ []WishesRespected
                            /\ [][slept' + asked >= slept + asked']_vars)
<1> SUFFICES ASSUME PowersOfTwo
             PROVE  Spec => /\ []WishesRespected
                            /\ [][slept' + asked >= slept + asked']_vars
  OBVIOUS
<1>1. SleepInv => WishesRespected
  BY DEF SleepInv
<1>2. SleepInv /\ [Next]_vars => [slept' + asked >= slept + asked']_vars
  <2> SUFFICES ASSUME SleepInv, Next
               PROVE  slept' + asked >= slept + asked'
    BY DEF vars
  <2>1. CASE Send
    BY <2>1, RequestRespectsWish DEF Send
  <2>2. CASE UNCHANGED httpVars
    BY <2>2 DEF httpVars, SleepInv
  <2> QED BY <2>1, <2>2 DEF Next, ReadAnswer, CatchProviderError,
             PassProviderError, LetThrough
<1> QED BY <1>1, <1>2, SleepInvHolds, PTL DEF Spec

\* http_client.py:128-134: for any number of attempts and any base, doubling
\* and jitter stay within the bound.
THEOREM WaitBounded == PowersOfTwo => (Spec => []WaitLimited)
<1>1. SleepInv => WaitLimited
  BY DEF SleepInv
<1> QED BY <1>1, SleepInvHolds, PTL

=============================================================================
