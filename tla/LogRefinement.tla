--------------------------- MODULE LogRefinement ---------------------------
(***************************************************************************)
(* LogWriter implements EventLog.  The abstract log is what the writer has *)
(* appended while there is a writer, and what the scan of the next         *)
(* __init__ will recover while there is none.                              *)
(*                                                                         *)
(* One thing stands in the way: a frame that the kernel wrote before its   *)
(* commit can outlive a power loss behind a gap, and a later scan reads it *)
(* once the gap is filled again, because scan_ahead does not look at       *)
(* sequence numbers.  Two history variables say when that can be.          *)
(***************************************************************************)
EXTENDS LogWriter, Sequences

VARIABLES
  wroteEarly,  \* history: the kernel has written a frame back unasked
  lostPower    \* history: there was a power loss

refVars == <<logVars, wroteEarly, lostPower>>

RefInit == LogInit /\ wroteEarly = FALSE /\ lostPower = FALSE
RefNext ==
  /\ LogNext
  /\ wroteEarly' = (wroteEarly \/ \E i \in Slots : Writeback(i))
  /\ lostPower' = (lostPower \/ PowerLoss)
RefSpec == RefInit /\ [][RefNext]_refVars

Recoverable ==
  IF Opened THEN w.writeOffset
  ELSE IF Readable(hdr) THEN CHOOSE n \in 0..MaxSlots : ScanStopsAt(cache, hdr, n)
  ELSE 0

logBar == [i \in 1..Recoverable |-> cache[i].event]
durableBar == IF Readable(dhdr) THEN dhdr.committed ELSE 0

ELog == INSTANCE EventLog WITH log <- logBar, durable <- durableBar

StaleFrames == wroteEarly /\ lostPower

\* The one step that EventLog does not know: after a crash the scan may read
\* stale frames, though never in place of a committed one.
Resurrects ==
  /\ StaleFrames
  /\ pc' = "down"
  /\ durableBar' = durableBar /\ Recoverable' >= durableBar
  /\ \A i \in 1..durableBar : logBar'[i] = logBar[i]

\* Every step of the writer, the kernel, a kill and a power loss is a step of
\* the abstract log or none at all: appends are atomic, a kill at any point of
\* append, grow or commit adds no event and reorders none, and whatever is lost
\* was behind the durable prefix.  Only an early page together with an earlier
\* power loss makes an exception.
ImplementsEventLog ==
  ELog!AInit /\ [][ELog!ANext \/ Resurrects]_<<logBar, durableBar>>

\* What a scan finds after a kill is what this writer appended or recovered, and
\* nothing else: no frame lies right behind the writer's end, unless it is one of
\* the stale ones.
ScanFindsOnlyAppended ==
  (Opened /\ ~ StaleFrames) => ScanStopsAt(cache, hdr, w.writeOffset)
=============================================================================
