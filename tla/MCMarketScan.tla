---------------------------- MODULE MCMarketScan ----------------------------
EXTENDS MarketScan, TLC

CONSTANTS c1, c2, c3

MCCoins == {c1, c2, c3}

\* Two coins share a ticker.
MCTicker == c1 :> "BTC" @@ c2 :> "ETH" @@ c3 :> "ETH"

=============================================================================
