----------------------------- MODULE FeedHealth -----------------------------
(***************************************************************************)
(* The feed-stale kill switch: StalenessWatchdog (hobo/risk/staleness.py)  *)
(* and FeedHealthMonitor (hobo/core/health.py), fed by the market events   *)
(* of the bus, checked by a periodic task of hobo/application.py, and      *)
(* rebuilt at every start from the kill switch that recovery returns.      *)
(*                                                                         *)
(* Time passes in poll intervals of one second: the check task runs once   *)
(* between two ticks of the clock.  Ages stop at Threshold, past which     *)
(* nothing tells them apart.  Of the log only the desk kill switch is      *)
(* kept: `desk` is what a reopened log would replay to (append comes       *)
(* before fold, so it is also the running state's), and `survivors` what   *)
(* it may be after a power loss.                                           *)
(***************************************************************************)
EXTENDS Integers

CONSTANTS
  Threshold,     \* DEFAULT_STALENESS_THRESHOLD_S, in poll intervals
  Operator,      \* may an operator halt the desk by hand?
  PowerLosses    \* may power losses happen, besides kills?

ASSUME FeedAssumption ==
  /\ Threshold \in Nat \ {0}
  /\ Operator \in BOOLEAN /\ PowerLosses \in BOOLEAN

VARIABLES
  pc,         \* down or up
  desk,       \* desk.kill_switch and kill_switch_reason
  survivors,  \* the switch positions a power loss may bring back
  stale,      \* StalenessWatchdog.stale
  lastSeen,   \* time since StalenessWatchdog._last_seen, or Never (None)
  due,        \* the check task has yet to run in this interval
  byHand      \* history: an operator moved the switch, and since then no start,
              \* message or trip has brought it and the watchdog back together

feedVars == <<pc, desk, survivors, stale, lastSeen, due, byHand>>

Off == "off"
FeedStale == "feed stale"
Manual == "manual halt"

Never == -1
Ages == 0..Threshold
Older(age) == IF age \in {Never, Threshold} THEN age ELSE age + 1

FeedInit ==
  /\ pc = "down" /\ desk = Off /\ survivors = {Off}
  /\ stale = FALSE /\ lastSeen = Never /\ due = FALSE /\ byHand = FALSE

\* Mutant: the switch is folded and not appended.
ToggleUnlogged(position) ==
  /\ desk' = position
  /\ UNCHANGED survivors

\* FeedHealthMonitor._toggle: StoreRecord a KILL_SWITCH event, which folds.
Toggle(position) ==
  /\ desk' = position
  /\ survivors' = survivors \cup {position}

-----------------------------------------------------------------------------
(* The engine *)

\* Mutants: the watchdog is not seeded; a restart resets the switch with it.
BuildMonitorUnseeded == stale' = FALSE /\ lastSeen' = Never /\ UNCHANGED desk
BuildMonitorResetting ==
  /\ stale' = FALSE /\ lastSeen' = Never
  /\ desk' = IF desk = FeedStale THEN Off ELSE desk

\* A fresh watchdog, stale from the start if the desk was recovered with the
\* switch the monitor owns.
BuildMonitor == stale' = (desk = FeedStale) /\ lastSeen' = Never /\ UNCHANGED desk

\* Opening the log commits what it replays, unless a kill within a commit has left a
\* mapped header that counts it already.
Start ==
  /\ pc = "down"
  /\ pc' = "up"
  /\ survivors' \in {survivors, {desk}}
  /\ BuildMonitor
  /\ due' = FALSE /\ byHand' = FALSE

\* Mutant: record_message forgets to reset `stale`, so check trips only once.
OnMessageTripOnce ==
  /\ lastSeen' = 0
  /\ UNCHANGED stale
  /\ IF stale THEN Toggle(Off) ELSE UNCHANGED <<desk, survivors>>

\* StalenessWatchdog.record_message, and FeedHealthMonitor.on_message.
OnMessage ==
  /\ lastSeen' = 0
  /\ stale' = FALSE
  /\ IF stale THEN Toggle(Off) ELSE UNCHANGED <<desk, survivors>>

\* A mark or a funding update of any instrument: one watchdog serves them all.
MessageArrives ==
  /\ pc = "up"
  /\ OnMessage
  /\ byHand' = FALSE
  /\ UNCHANGED <<pc, due>>

\* StalenessWatchdog.check would trip now.
GoesStale == lastSeen = Threshold /\ ~ stale

Check ==
  /\ pc = "up" /\ due
  /\ due' = FALSE
  /\ stale' = (stale \/ GoesStale)
  /\ IF GoesStale THEN Toggle(FeedStale) ELSE UNCHANGED <<desk, survivors>>
  /\ byHand' = (byHand /\ ~ GoesStale)
  /\ UNCHANGED <<pc, lastSeen>>

\* The commit task of the log.
Commit ==
  /\ pc = "up" /\ survivors # {desk}
  /\ survivors' = {desk}
  /\ UNCHANGED <<pc, desk, stale, lastSeen, due, byHand>>

\* KillSwitchCheck, the first check of the gate, lets an order through.
GateOpen == pc = "up" /\ desk = Off

-----------------------------------------------------------------------------
(* The environment *)

\* The event loop keeps its one-second period while the engine is up.
ClockTick ==
  /\ ~ due
  /\ due' = (pc = "up")
  /\ lastSeen' = Older(lastSeen)
  /\ UNCHANGED <<pc, desk, survivors, stale, byHand>>

\* "A manual operator action" (docs/architecture.md) is one more KILL_SWITCH
\* event; the operator lifts what the operator imposed.
OperatorHalt ==
  /\ Operator /\ pc = "up" /\ desk # Manual
  /\ Toggle(Manual)
  /\ byHand' = TRUE
  /\ UNCHANGED <<pc, stale, lastSeen, due>>

OperatorResume ==
  /\ Operator /\ pc = "up" /\ desk = Manual
  /\ Toggle(Off)
  /\ byHand' = TRUE
  /\ UNCHANGED <<pc, stale, lastSeen, due>>

Stop ==
  /\ pc' = "down" /\ stale' = FALSE /\ lastSeen' = Never
  /\ due' = FALSE /\ byHand' = FALSE

\* kill -9 or a stop: what was appended stays in the page cache.
Kill ==
  /\ pc = "up"
  /\ Stop
  /\ UNCHANGED <<desk, survivors>>

PowerLoss ==
  /\ PowerLosses
  /\ desk' \in survivors
  /\ survivors' = {desk'}
  /\ Stop

FeedNext ==
  \/ Start \/ MessageArrives \/ Check \/ Commit \/ ClockTick
  \/ OperatorHalt \/ OperatorResume \/ Kill \/ PowerLoss

FeedSpec == FeedInit /\ [][FeedNext]_feedVars

\* The feed is alive, and whoever runs the engine starts it.
FairFeedSpec == FeedSpec /\ WF_feedVars(Start) /\ SF_feedVars(MessageArrives)

-----------------------------------------------------------------------------
(* Properties *)

FeedTypeOK ==
  /\ pc \in {"down", "up"}
  /\ desk \in {Off, FeedStale, Manual}
  /\ survivors \subseteq {Off, FeedStale, Manual} /\ desk \in survivors
  /\ stale \in BOOLEAN /\ due \in BOOLEAN /\ byHand \in BOOLEAN
  /\ lastSeen \in Ages \cup {Never}

\* The in-memory watchdog and the event-sourced switch agree, across any number
\* of stops, kills, power losses and changes by hand: a desk killed for "feed
\* stale" always has a watchdog that the next message wakes, and a watchdog that
\* waits has the desk killed for it, unless an operator has just moved the switch.
\* A halt by hand that a restart finds is not taken for the monitor's own.
WatchdogOwnsSwitch ==
  pc = "up" =>
    /\ desk = FeedStale => stale
    /\ stale /\ ~ byHand => desk = FeedStale

\* "Sustained staleness halts new approvals": once a feed that has been heard
\* from falls silent for the threshold, the gate is shut by the next poll, and
\* stays shut, whatever restarts and messages came before; only the operator may
\* open it by hand.
SilenceShutsGate ==
  (pc = "up" /\ ~ due /\ lastSeen = Threshold /\ ~ byHand) => ~ GateOpen

\* "A genuinely dead feed keeps it set": only a message that has just arrived
\* lifts a feed-stale switch.  A stop, a kill or a restart never does; a power
\* loss may undo its uncommitted event.
OnlyMessageLifts ==
  [][(desk = FeedStale /\ desk' = Off) => (lastSeen' = 0 \/ PowerLoss)]_feedVars

\* "Without leaving a healthy desk stuck killed": while messages keep coming, a
\* feed-stale switch is lifted in the end, through any number of restarts.
HealthyDeskTrades == desk = FeedStale ~> desk # FeedStale
=============================================================================
