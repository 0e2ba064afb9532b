--------------------------- MODULE MCFillAdmission ---------------------------
\* Instances of FillAdmission for TLC.
EXTENDS FillAdmission, TLC

\* EventLog is used through its actions, each with the event it appends.
AnyFill == [trade : 0..MaxTrades, qty : -MaxTrades..MaxTrades, ts : 1..MaxTime]
=============================================================================
