---------------------------- MODULE MCOkxOrders ----------------------------
\* Instances of OkxOrders for TLC.
EXTENDS OkxOrders

CONSTANTS b1, b2

\* The private and the public client as the adapter makes them, and a client with
\* a limit on its attempts.
AllConfigs ==
  {[private |-> TRUE, reconnect |-> TRUE, limit |-> NoLimit],
   [private |-> FALSE, reconnect |-> TRUE, limit |-> NoLimit],
   [private |-> FALSE, reconnect |-> TRUE, limit |-> 1]}
=============================================================================
