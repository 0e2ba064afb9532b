----------------------------- MODULE MCReplica -----------------------------
\* Instances of Replica for TLC.
EXTENDS Replica

CONSTANTS b1, b2, i1

\* The primary may have been restarted with one more book in its seed.
GrownRosterEvents == {Fill(b1, i1, 1, 2), Fill(b2, i1, 1, 2)}

OneEvent == {Fill(b1, i1, 1, 2)}
=============================================================================
