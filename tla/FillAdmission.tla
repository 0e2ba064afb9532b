---------------------------- MODULE FillAdmission ----------------------------
(***************************************************************************)
(* How executions of the exchange become FILL events: the private          *)
(* WebSocket delivers each at most once to hobo/core/fill_ingestor.py, the *)
(* REST backstop of hobo/core/fill_reconciler.py looks for those it lost,  *)
(* and scripts/reconcile.py patches the log by hand.  The log is EventLog, *)
(* which LogWriter implements.                                             *)
(*                                                                         *)
(* Abstractions: one book and one instrument; every execution buys one     *)
(* contract, so a position is a count; the exchange names its executions   *)
(* 1, 2, 3, ... in the order it makes them.  An execution is the engine's  *)
(* own if its client order id can be attributed to a book.                 *)
(***************************************************************************)
EXTENDS EventLog, Integers

CONSTANTS
  MaxTrades,    \* bound: executions
  MaxTime,      \* bound: the clock
  Slack,        \* BASELINE_SLACK_NS
  MinAge,       \* MIN_FILL_AGE_NS
  MaxDelay,     \* the WebSocket delivers an execution this late, or never
  Reach,        \* MAX_PAGES times the page size of the exchange
  BusDrops,     \* may a published fill be lost in the bus or its handlers?
  PowerLosses,  \* may power losses happen, besides kills?
  Patches,      \* does anybody run scripts/reconcile.py --apply?
  PreHistory    \* may there be own executions from before the log began?

ASSUME FillAssumption ==
  /\ MaxTrades \in Nat /\ MaxTime \in Nat \ {0}
  /\ Slack \in Nat /\ MinAge \in Nat /\ MaxDelay \in Nat /\ Reach \in Nat \ {0}
  /\ BusDrops \in BOOLEAN /\ PowerLosses \in BOOLEAN
  /\ Patches \in BOOLEAN /\ PreHistory \in BOOLEAN

VARIABLES
  now,         \* the clock, the exchange's and the engine's
  fills,       \* the executions on the account: time, and whether own
  inFlight,    \* executions the WebSocket has yet to deliver
  up,          \* is the engine running?
  seen,        \* FillIngestor._seen
  baseline,    \* FillReconciler._baseline_ns
  poll,        \* idle, fetching (in the executor thread), submitting
  seenCopy,    \* the frozen snapshot the thread works with
  collected,   \* what the thread returned and is still to be submitted
  firstStart   \* when an engine first started on this log, 0 if never

engineVars == <<up, seen, baseline, poll, seenCopy, collected>>
fillVars == <<log, durable, now, fills, inFlight, engineVars, firstStart>>

\* A FILL event: its trade_id, its quantity and the time it was recorded.
FillEvent(trade, qty) == [trade |-> trade, qty |-> qty, ts |-> now]
NoTradeId == 0

Trades == 1..Len(fills)
LoggedTrades == {log[n].trade : n \in DOMAIN log} \ {NoTradeId}

EnginePosition ==
  LET sum[n \in 0..Len(log)] == IF n = 0 THEN 0 ELSE sum[n - 1] + log[n].qty
  IN  sum[Len(log)]
ExchangePosition == Len(fills)

FillInit ==
  /\ AInit
  /\ now = 1 /\ fills = <<>> /\ inFlight = {}
  /\ up = FALSE /\ seen = {} /\ baseline = 0
  /\ poll = "idle" /\ seenCopy = {} /\ collected = {}
  /\ firstStart = 0

-----------------------------------------------------------------------------
(* The exchange and the network *)

\* An order of the engine, or of somebody else on the account, is executed.  The
\* WebSocket carries it only to the process that placed the order, if to any.
Execute(own) ==
  /\ Len(fills) < MaxTrades /\ now < MaxTime
  /\ own => PreHistory \/ firstStart # 0
  /\ fills' = Append(fills, [ts |-> now, own |-> own])
  /\ \/ UNCHANGED inFlight
     \/ own /\ up /\ inFlight' = inFlight \cup {Len(fills) + 1}
  /\ UNCHANGED <<log, durable, now, engineVars, firstStart>>

WsDrops(t) ==
  /\ t \in inFlight
  /\ inFlight' = inFlight \ {t}
  /\ UNCHANGED <<log, durable, now, fills, engineVars, firstStart>>

ClockTick ==
  /\ now < MaxTime /\ poll # "submitting"
  /\ now' = now + 1
  /\ UNCHANGED <<log, durable, fills, inFlight, engineVars, firstStart>>

-----------------------------------------------------------------------------
(* FillIngestor *)

\* Mutant: the trade is published and not remembered.
Forget(t) == UNCHANGED seen

Remember(t) == seen' = seen \cup {t}

\* submit: the trade counts as seen before it is published; publishing runs the
\* Recorder, unless the bus is full or the handler raises.
Submit(t) ==
  IF t \in seen THEN UNCHANGED <<log, durable, seen>>
  ELSE /\ Remember(t)
       /\ \/ AAppend(FillEvent(t, 1))
          \/ BusDrops /\ UNCHANGED <<log, durable>>

WsDelivers(t) ==
  /\ up /\ t \in inFlight /\ poll # "submitting"
  /\ now - fills[t].ts <= MaxDelay
  /\ inFlight' = inFlight \ {t}
  /\ Submit(t)
  /\ UNCHANGED <<now, fills, up, baseline, poll, seenCopy, collected, firstStart>>

-----------------------------------------------------------------------------
(* The engine's life *)

\* last_fill_ns: of the fills with a trade id, the newest record time.
LastFillTime ==
  LET real == {n \in DOMAIN log : log[n].trade # NoTradeId}
  IN  IF real = {} THEN 0 ELSE CHOOSE ts \in 0..MaxTime :
        /\ \E n \in real : log[n].ts = ts
        /\ \A n \in real : log[n].ts <= ts

\* Mutant: the ingestor starts with nothing seen.
SeedFromNothing == {}

SeedFromLog == LoggedTrades

\* The log is opened, and committed unless the mapped header counts all of it
\* already; the ingestor is seeded from it; the reconciler takes its baseline.
\* No execution shares its nanosecond with that.
Start ==
  /\ ~ up /\ \A t \in Trades : fills[t].ts # now
  /\ up' = TRUE
  /\ durable' \in {durable, Len(log)}
  /\ seen' = SeedFromLog
  /\ baseline' = IF LastFillTime # 0 THEN LastFillTime - Slack ELSE now
  /\ firstStart' = IF firstStart = 0 THEN now ELSE firstStart
  /\ UNCHANGED <<log, now, fills, inFlight, poll, seenCopy, collected>>

Commit ==
  /\ up /\ durable < Len(log)
  /\ durable' = Len(log)
  /\ UNCHANGED <<log, now, fills, inFlight, engineVars, firstStart>>

GoDown ==
  /\ up' = FALSE /\ seen' = {} /\ baseline' = 0
  /\ poll' = "idle" /\ seenCopy' = {} /\ collected' = {}
  /\ inFlight' = {}
  /\ UNCHANGED <<now, fills, firstStart>>

Kill ==
  /\ up
  /\ GoDown
  /\ UNCHANGED <<log, durable>>

PowerLoss ==
  /\ PowerLosses /\ durable < Len(log)
  /\ ALoseTail
  /\ GoDown

-----------------------------------------------------------------------------
(* FillReconciler.run: one poll after the other *)

PollBegin ==
  /\ up /\ poll = "idle"
  /\ poll' = "fetching" /\ seenCopy' = seen
  /\ UNCHANGED <<log, durable, now, fills, inFlight, up, seen, baseline, collected, firstStart>>

\* Mutant: an execution at the very baseline is left out.
MissingAfter == {t \in Trades : /\ t > Len(fills) - Reach
                                /\ fills[t].ts > baseline
                                /\ t \notin seenCopy}

\* Mutant: the baseline is not looked at.
MissingEver == {t \in Trades : t > Len(fills) - Reach /\ t \notin seenCopy}

\* _fetch_new, in its thread: pages from the newest execution on.
Missing == {t \in Trades : /\ t > Len(fills) - Reach
                           /\ fills[t].ts >= baseline
                           /\ t \notin seenCopy}

PollFetch ==
  /\ poll = "fetching"
  /\ collected' = Missing
  /\ poll' = "submitting"
  /\ UNCHANGED <<log, durable, now, fills, inFlight, up, seen, baseline, seenCopy, firstStart>>

\* A REST call raised: the poll is given up.
PollFails ==
  /\ poll = "fetching"
  /\ poll' = "idle" /\ seenCopy' = {}
  /\ UNCHANGED <<log, durable, now, fills, inFlight, up, seen, baseline, collected, firstStart>>

\* One round of _submit, oldest first; nothing but a kill comes between rounds.
Adoptable(t) == now - fills[t].ts >= MinAge /\ fills[t].own

PollSubmit(t) ==
  /\ poll = "submitting"
  /\ t \in collected /\ \A u \in collected : t <= u
  /\ collected' = collected \ {t}
  /\ IF Adoptable(t) THEN Submit(t) ELSE UNCHANGED <<log, durable, seen>>
  /\ UNCHANGED <<now, fills, inFlight, up, baseline, poll, seenCopy, firstStart>>

PollEnd ==
  /\ poll = "submitting" /\ collected = {}
  /\ poll' = "idle" /\ seenCopy' = {}
  /\ UNCHANGED <<log, durable, now, fills, inFlight, up, seen, baseline, collected, firstStart>>

-----------------------------------------------------------------------------
(* scripts/reconcile.py --apply, with the engine stopped *)

NetPatch ==
  /\ Patches /\ ~ up
  /\ EnginePosition # ExchangePosition
  /\ log' = Append(log, FillEvent(NoTradeId, ExchangePosition - EnginePosition))
  /\ durable' = Len(log')
  /\ UNCHANGED <<now, fills, inFlight, engineVars, firstStart>>

-----------------------------------------------------------------------------
FillNext ==
  \/ \E own \in BOOLEAN : Execute(own)
  \/ \E t \in 1..MaxTrades : WsDrops(t) \/ WsDelivers(t) \/ PollSubmit(t)
  \/ ClockTick \/ Start \/ Commit \/ Kill \/ PowerLoss
  \/ PollBegin \/ PollFetch \/ PollFails \/ PollEnd
  \/ NetPatch

FillSpec == FillInit /\ [][FillNext]_fillVars

\* The clock runs, and the reconciler polls for as long as the engine is up; a
\* REST query that is tried again and again succeeds in the end.
FairFillSpec ==
  /\ FillSpec
  /\ WF_fillVars(PollBegin) /\ WF_fillVars(PollEnd)
  /\ SF_fillVars(ClockTick) /\ SF_fillVars(PollFetch)
  /\ \A t \in 1..MaxTrades : WF_fillVars(PollSubmit(t))

-----------------------------------------------------------------------------
(* Properties *)

FillTypeOK ==
  /\ now \in 1..MaxTime
  /\ fills \in Seq([ts : 1..MaxTime, own : BOOLEAN])
  /\ inFlight \subseteq Trades
  /\ log \in Seq([trade : Trades \cup {NoTradeId}, qty : Int, ts : 1..MaxTime])
  /\ durable \in 0..Len(log)
  /\ up \in BOOLEAN
  /\ seen \subseteq Trades /\ seenCopy \subseteq Trades /\ collected \subseteq Trades
  /\ poll \in {"idle", "fetching", "submitting"}
  /\ firstStart \in 0..now

\* "A fill is admitted exactly once, whichever source delivers it first": no
\* trade is twice in the log, though the WebSocket delivers while the backstop's
\* thread holds an old copy of the seen set, and though kills, power losses and
\* restarts forget that set.
OncePerTrade ==
  \A m, n \in DOMAIN log :
    (log[m].trade = log[n].trade /\ log[m].trade # NoTradeId) => m = n

\* While an engine runs, its seen set misses no trade that is in its log,
\* whatever of the log survived.  This is what makes OncePerTrade inductive.
SeenCoversLog == up => LoggedTrades \subseteq seen

\* What the WebSocket lost is adopted: an execution of the engine's own that its
\* present baseline covers is taken up in the end, if the engine lives that long,
\* the pages reach back to it and the clock has time left.  Taken up is what the
\* backstop answers for: the trade is in the seen set, also if the bus then drops it.
Covered(t) ==
  /\ t \in Trades /\ up /\ fills[t].own /\ t > MaxTrades - Reach
  /\ fills[t].ts >= baseline /\ fills[t].ts + MinAge <= MaxTime
MissedIsAdopted ==
  \A t \in 1..MaxTrades : Covered(t) ~> (t \in seen \/ ~ up)

\* "Forward-only": nothing executed before the first start on this log is
\* adopted, but for what the slack of a later start's baseline reaches behind it,
\* whatever power losses and patches did to the log in between.
ForwardOnly ==
  FillTypeOK /\ \A t \in LoggedTrades : fills[t].ts + Slack >= firstStart

\* "The engine's aggregate matches the exchange" after a patch, and is never
\* more than what was executed.  A patch includes what the backstop still adopts.
NeverOvercounts == EnginePosition <= ExchangePosition
=============================================================================
