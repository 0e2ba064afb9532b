-------------------------- MODULE MCLogRefinement --------------------------
\* Instances of LogRefinement for TLC.
EXTENDS LogRefinement, TLC
=============================================================================
