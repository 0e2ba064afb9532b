----------------------------- MODULE MCRiskMath -----------------------------
\* Instances of RiskMath for TLC.
EXTENDS RiskMath
=============================================================================
