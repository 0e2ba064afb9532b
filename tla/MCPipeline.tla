----------------------------- MODULE MCPipeline -----------------------------
\* Instances of Pipeline for TLC.
EXTENDS Pipeline

CONSTANTS b1, b2, i1

TwoStrategies == <<b1, b2>>
BuyOrSellTwo == {2, -2}
=============================================================================
