----------------------------- MODULE ClientCall -----------------------------
(***************************************************************************)
(* One call of a provider client: a request through the retry loop, and    *)
(* what the client makes of the reply.  The clients are send_text and      *)
(* get_updates of TelegramNotifier, get_klines and                         *)
(* get_tradable_spot_symbols of BinanceClient, get_top_n of                *)
(* CoinMarketCapClient and either request of CoinGeckoClient.get_top_n.    *)
(***************************************************************************)
EXTENDS HttpRetry, SendContract, FetchContract

VARIABLES
    client,     \* whose call it is
    verdict,    \* "none", then what the caller gets to see
    copies      \* history: how often the server did what was asked of it

vars == <<attempt, outcome, slept, asked, lost, client, verdict, copies>>

NotifierCalls == {"sendMessage", "getUpdates"}
Fetches == {"klines", "exchangeInfo", "markets", "listings"}
Clients == NotifierCalls \cup Fetches

-----------------------------------------------------------------------------
(* The body of a 2xx answer *)

\* "good": as documented; "refusal": an object that says no in the way the
\* client looks for, by "ok", by "code" or by the key it lacks; "empty": no
\* entries; "malformed": JSON of any other shape; "unreadable": not JSON.
Bodies == {"good", "refusal", "empty", "malformed", "unreadable"}

\* Faulty: any JSON answer with a 2xx status counts as a delivery.
SendVerdictByStatus(body) == IF body = "unreadable" THEN "raised" ELSE "sent"

\* send_text counts only "ok": true; {} is no such answer.
SendVerdict(body) ==
    CASE body = "good"               -> "sent"
      [] body \in {"refusal", "empty"} -> "failed"
      [] OTHER                         -> "raised"

\* get_updates: [] unless "ok": true
UpdatesVerdict(body) ==
    CASE body = "good"               -> "data"
      [] body \in {"refusal", "empty"} -> "nothing"
      [] OTHER                         -> "raised"

\* get_klines: an error code and an empty list are provider errors.
KlinesVerdict(body) ==
    CASE body = "good"               -> "data"
      [] body \in {"refusal", "empty"} -> "provider error"
      [] OTHER                         -> "raised"

\* get_tradable_spot_symbols: an answer without "symbols" has no symbols.
PairsVerdict(body) ==
    CASE body = "good"               -> "data"
      [] body \in {"refusal", "empty"} -> "nothing"
      [] OTHER                         -> "raised"

\* get_top_n of either client: a refusal is a provider error, entries that
\* lack a key are skipped, an entry that is no object raises.
RankingVerdict(body) ==
    CASE body = "good"    -> "data"
      [] body = "refusal" -> "provider error"
      [] body = "empty"   -> "nothing"
      [] OTHER            -> "raised"

\* What the client makes of a 2xx answer.
Judged(body) ==
    CASE client = "sendMessage"           -> SendVerdict(body)
      [] client = "getUpdates"            -> UpdatesVerdict(body)
      [] client = "klines"                -> KlinesVerdict(body)
      [] client = "exchangeInfo"          -> PairsVerdict(body)
      [] client \in {"markets", "listings"} -> RankingVerdict(body)

\* Whether the server did what was asked after such an answer; a body that
\* cannot be read says nothing.
CopiesBehind(body) ==
    CASE body = "good"                -> {1}
      [] body \in {"refusal", "empty"} -> {0}
      [] OTHER                          -> {0, 1}

-----------------------------------------------------------------------------
(* The call *)

Init == HttpInit /\ client \in Clients /\ verdict = "none" /\ copies = 0

\* get_with_retry, post_with_retry
Send == Request /\ UNCHANGED <<client, verdict, copies>>

ReadAnswer ==
    /\ verdict = "none" /\ outcome = "response"
    /\ \E body \in Bodies :
           /\ verdict' = Judged(body)
           /\ copies' \in {lost + n : n \in CopiesBehind(body)}
    /\ UNCHANGED <<httpVars, client>>

\* except DataProviderError: the notifier logs it and answers False or [].
CatchProviderError ==
    /\ verdict = "none" /\ outcome \in ProviderErrors
    /\ client \in NotifierCalls
    /\ verdict' = IF client = "sendMessage" THEN "failed" ELSE "nothing"
    /\ copies' = lost
    /\ UNCHANGED <<httpVars, client>>

\* The market data clients leave it to their caller.
PassProviderError ==
    /\ verdict = "none" /\ outcome \in ProviderErrors
    /\ client \in Fetches
    /\ verdict' = "provider error" /\ copies' = lost
    /\ UNCHANGED <<httpVars, client>>

\* requests.HTTPError is not a DataProviderError: nobody catches it.
LetThrough ==
    /\ verdict = "none" /\ outcome = "HTTPError"
    /\ verdict' = "raised" /\ copies' = lost
    /\ UNCHANGED <<httpVars, client>>

Next ==
    \/ Send \/ ReadAnswer
    \/ CatchProviderError \/ PassProviderError \/ LetThrough

Spec == Init /\ [][Next]_vars /\ WF_vars(Next)

-----------------------------------------------------------------------------
(* Properties *)

\* True "on confirmed delivery": whatever happened on the way, the outcome of
\* a send is one the scan is modelled to cope with, and what a data client
\* comes to is one of the outcomes its caller reckons with; in particular a
\* candle frame is never empty.
HonoursContract ==
    /\ client = "sendMessage" /\ verdict # "none" =>
           [verdict |-> verdict, copies |-> copies] \in SendOutcomes(MaxAttempts)
    /\ client # "sendMessage" /\ verdict # "none" =>
           verdict \in FetchOutcomes(client)

\* The caller gets an answer.
CallEnds == <>(verdict # "none")

\* Steps a call may still take: a request per attempt left, and the reading of
\* what came of them.
Left ==
    IF verdict # "none" THEN 0
    ELSE IF outcome # "none" THEN 1 ELSE 2 + MaxAttempts - attempt

\* No reply, and no order of replies, sends a call back to where it was: every
\* step uses one up, so that max_attempts (http_client.py:74) bounds the
\* whole call, what the client does with the answer included.
CallRunsDown == [][Left' < Left]_vars

\* A failure stays inside: notifier.py:111-112 and 137 promise it of sends and
\* polls ("logged, not raised"), run_scheduled_scan.py:24-25 of candles ("a
\* single symbol failing mid-scan is logged and skipped, not fatal").
NeverRaises == client \in NotifierCalls \cup {"klines"} => verdict # "raised"

=============================================================================
