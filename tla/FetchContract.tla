---------------------------- MODULE FetchContract ----------------------------
(***************************************************************************)
(* What a call of a market data client may come to, as the scan sees it.   *)
(* ClientCall shows that the code stays within it.                         *)
(***************************************************************************)

\* "data": there is something to work with; "nothing": an answer with nothing
\* in it, taken as such; "provider error": a DataProviderError; "raised": any
\* other exception, which no caller in the scan catches.  A candle frame is
\* never empty: get_klines raises instead.
FetchOutcomes(client) ==
    {"data", "provider error", "raised"} \cup
    (IF client = "klines" THEN {} ELSE {"nothing"})

=============================================================================
