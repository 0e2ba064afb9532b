--------------------------- MODULE MCApplication ---------------------------
\* An instance of Application for TLC.
EXTENDS Application, TLC

CONSTANTS c1, c2, i1, i2

\* Two orders in one instrument, or one in each; the other half is symmetric.
AskedOf == (c1 :> {i1}) @@ (c2 :> {i1, i2})
=============================================================================
