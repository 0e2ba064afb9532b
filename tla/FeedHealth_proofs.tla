-------------------------- MODULE FeedHealth_proofs --------------------------
(***************************************************************************)
(* Proofs about FeedHealth, for any threshold, with or without an operator *)
(* and power losses.                                                       *)
(***************************************************************************)
EXTENDS FeedHealth, TLAPS

\* What the two properties of the switch need to be inductive: a watchdog that
\* has not tripped although the threshold is over still has its check ahead.
FeedInv ==
  /\ FeedTypeOK
  /\ WatchdogOwnsSwitch
  /\ (pc = "up" /\ ~ due /\ lastSeen = Threshold) => stale

\* The three positions of the switch are different strings.
LEMMA Positions == Off # FeedStale /\ Off # Manual /\ FeedStale # Manual
  BY DEF Off, FeedStale, Manual

\* Ages stay within the threshold when they grow.
LEMMA OlderAges == \A age \in Ages \cup {Never} : Older(age) \in Ages \cup {Never}
  BY FeedAssumption DEF Older, Ages, Never

LEMMA FeedInitInv == FeedInit => FeedInv
<1> SUFFICES ASSUME FeedInit PROVE FeedInv
  OBVIOUS
<1>1. FeedTypeOK
  BY DEF FeedInit, FeedTypeOK
<1> QED BY <1>1 DEF FeedInit, FeedInv, WatchdogOwnsSwitch

LEMMA FeedStepInv == FeedInv /\ [FeedNext]_feedVars => FeedInv'
<1> SUFFICES ASSUME FeedInv, [FeedNext]_feedVars PROVE FeedInv'
  OBVIOUS
<1> USE FeedAssumption, Positions
<1>1. CASE Start
  <2>1. Never # Threshold
    BY DEF Never
  <2>2. stale' = (desk' = FeedStale) /\ pc' = "up" /\ lastSeen' = Never /\ byHand' = FALSE
    BY <1>1 DEF Start, BuildMonitor
  <2>3. FeedTypeOK'
    BY <1>1, <2>2 DEF Start, BuildMonitor, FeedInv, FeedTypeOK
  <2>4. WatchdogOwnsSwitch'
    BY <2>2 DEF WatchdogOwnsSwitch
  <2> QED BY <2>1, <2>2, <2>3, <2>4 DEF FeedInv
<1>2. CASE MessageArrives
  <2>1. lastSeen' = 0 /\ 0 \in Ages /\ lastSeen' # Threshold /\ stale' = FALSE
    BY <1>2 DEF MessageArrives, OnMessage, Ages
  <2>2. pc = "up" /\ UNCHANGED <<pc, due>> /\ byHand' = FALSE
    BY <1>2 DEF MessageArrives
  <2>3. desk' # FeedStale /\ FeedTypeOK'
    <3>1. CASE stale
      BY <1>2, <2>1, <2>2, <3>1 DEF MessageArrives, OnMessage, Toggle, FeedInv, FeedTypeOK
    <3>2. CASE ~ stale
      <4>1. UNCHANGED <<desk, survivors>>
        BY <1>2, <3>2 DEF MessageArrives, OnMessage
      <4>2. desk # FeedStale
        BY <2>2, <3>2 DEF FeedInv, WatchdogOwnsSwitch
      <4> QED BY <2>1, <2>2, <4>1, <4>2 DEF FeedInv, FeedTypeOK
    <3> QED BY <3>1, <3>2
  <2> QED BY <2>1, <2>3 DEF FeedInv, WatchdogOwnsSwitch
<1>3. CASE Check
  <2>1. CASE GoesStale
    <3>1. stale' = TRUE /\ desk' = FeedStale /\ survivors' = survivors \cup {FeedStale}
      BY <1>3, <2>1 DEF Check, Toggle
    <3>2. UNCHANGED <<pc, lastSeen>> /\ due' = FALSE /\ byHand' = FALSE
      BY <1>3, <2>1 DEF Check
    <3> QED BY <3>1, <3>2 DEF FeedInv, FeedTypeOK, WatchdogOwnsSwitch
  <2>2. CASE ~ GoesStale
    <3>1. UNCHANGED <<pc, desk, survivors, lastSeen>> /\ due' = FALSE
      BY <1>3, <2>2 DEF Check
    <3>2. (stale' <=> stale) /\ (byHand' <=> byHand)
      BY <1>3, <2>2 DEF Check
    <3>3. stale' \in BOOLEAN /\ byHand' \in BOOLEAN
      BY <1>3 DEF Check, FeedInv, FeedTypeOK
    <3>4. FeedTypeOK'
      BY <3>1, <3>3 DEF FeedInv, FeedTypeOK
    <3>5. WatchdogOwnsSwitch'
      BY <3>1, <3>2 DEF FeedInv, WatchdogOwnsSwitch
    <3>6. lastSeen = Threshold => stale
      BY <2>2 DEF GoesStale
    <3> QED BY <3>1, <3>2, <3>4, <3>5, <3>6 DEF FeedInv
  <2> QED BY <2>1, <2>2
<1>4. CASE Commit
  BY <1>4 DEF Commit, FeedInv, FeedTypeOK, WatchdogOwnsSwitch
<1>5. CASE ClockTick
  <2>1. FeedTypeOK'
    BY <1>5, OlderAges DEF ClockTick, FeedInv, FeedTypeOK
  <2> QED BY <1>5, <2>1 DEF ClockTick, FeedInv, FeedTypeOK, WatchdogOwnsSwitch
<1>6. CASE OperatorHalt
  BY <1>6 DEF OperatorHalt, Toggle, FeedInv, FeedTypeOK, WatchdogOwnsSwitch
<1>7. CASE OperatorResume
  BY <1>7 DEF OperatorResume, Toggle, FeedInv, FeedTypeOK, WatchdogOwnsSwitch
<1>8. CASE Kill
  BY <1>8 DEF Kill, Stop, FeedInv, FeedTypeOK, WatchdogOwnsSwitch
<1>9. CASE PowerLoss
  BY <1>9 DEF PowerLoss, Stop, FeedInv, FeedTypeOK, WatchdogOwnsSwitch
<1>10. CASE UNCHANGED feedVars
  BY <1>10 DEF feedVars, FeedInv, FeedTypeOK, WatchdogOwnsSwitch
<1> QED
  BY <1>1, <1>2, <1>3, <1>4, <1>5, <1>6, <1>7, <1>8, <1>9, <1>10 DEF FeedNext

LEMMA FeedInvariant == FeedSpec => []FeedInv
  BY FeedInitInv, FeedStepInv, PTL DEF FeedSpec

\* Every variable keeps to its type.
THEOREM FeedTypeCorrect == FeedSpec => []FeedTypeOK
<1>1. FeedInv => FeedTypeOK
  BY DEF FeedInv
<1> QED BY <1>1, FeedInvariant, PTL

\* The watchdog and the switch agree through stops, kills, power losses and
\* restarts: a desk killed for a stale feed has a watchdog that the next message
\* wakes, and a watchdog that waits has the desk killed, except after somebody has
\* just moved the switch by hand.
THEOREM SwitchMatchesWatchdog == FeedSpec => []WatchdogOwnsSwitch
<1>1. FeedInv => WatchdogOwnsSwitch
  BY DEF FeedInv
<1> QED BY <1>1, FeedInvariant, PTL

\* A feed that has been silent for the threshold finds the gate shut at the next
\* poll, for every threshold, unless it was opened by hand since.
THEOREM SilentFeedShutsGate == FeedSpec => []SilenceShutsGate
<1>1. FeedInv => SilenceShutsGate
  BY Positions DEF FeedInv, WatchdogOwnsSwitch, SilenceShutsGate, GateOpen
<1> QED BY <1>1, FeedInvariant, PTL

\* Nothing but a message lifts a feed-stale switch, except that a power loss may
\* undo it.
THEOREM OnlyAMessageLifts == FeedSpec => OnlyMessageLifts
<1> DEFINE Lifts == (desk = FeedStale /\ desk' = Off) => (lastSeen' = 0 \/ PowerLoss)
<1>1. [FeedNext]_feedVars => [Lifts]_feedVars
  <2> SUFFICES ASSUME FeedNext, desk = FeedStale, desk' = Off, ~ PowerLoss
               PROVE  lastSeen' = 0
    OBVIOUS
  <2> USE Positions
  <2>1. ~ (Start \/ Commit \/ ClockTick \/ Kill)
    BY DEF Start, BuildMonitor, Commit, ClockTick, Kill
  <2>2. ~ (Check \/ OperatorHalt \/ OperatorResume)
    BY DEF Check, OperatorHalt, OperatorResume, Toggle
  <2> QED BY <2>1, <2>2 DEF FeedNext, MessageArrives, OnMessage
<1> QED BY <1>1, PTL DEF FeedSpec, OnlyMessageLifts
=============================================================================
