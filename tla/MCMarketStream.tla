-------------------------- MODULE MCMarketStream ----------------------------
EXTENDS MarketStream
=============================================================================
