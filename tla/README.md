# A TLA+ model of hobo

hobo is an event-sourced trading engine for perpetual swaps: everything that
changes what it knows is appended to a memory-mapped log before it is folded into
the in-memory state, and a restart rebuilds the state from a snapshot and the tail
of that log.  This directory models the parts whose correctness depends on the
order in which things happen (appends, commits, kills, power losses, late and
lost messages, restarts), checks them with TLC, and proves some results about
them with TLAPS.

`PROJECT.json` names, for every definition, the source lines it models; for every
run, the properties it checks; for every property, a mutated definition that it
catches; and for every proved theorem, its module.

## 1. Inventory

### Components, their state, operations and interactions

| Component (src/hobo) | State | Operations | Talks to |
|---|---|---|---|
| Event log: `log/writer.py`, `log/format.py` | file header (capacity, committed offset, last seq), frames; write offset, last seq | create, open (scan ahead and re-commit), append, grow, commit, close | the page cache and the medium; read by recovery, replica, `scripts/reconcile.py` |
| Fold: `risk/fold.py`, `risk/state.py`, `risk/model/portfolio.py` | desk, books, positions, marks, funding, limits, kill switches, high-water marks | one handler per event type | called by state store, recovery, replica |
| Snapshots and recovery: `log/snapshot.py`, `log/recovery.py`, `builder.py`, `domain/seed.py` | snapshot files; roster | write and prune, load newest, replay newer events, reconcile roster and marks | log, seed file, REST mark |
| Application: `application.py` | stop flag, tasks, last snapshot seq | periodic commit, snapshot and staleness tasks; signal, teardown in a fixed order | everything |
| Shadow replica: `replica/tail.py`, `log/reader.py`, `application.py` | mapping, folded offset, its own state | build, wait for the file, poll (header, remap, fold), stop | reads the live log of another process |
| Feed health: `core/health.py`, `risk/staleness.py` | watchdog in memory, kill switch in the log | on_message, check, seed at start | bus, state store, the gate's first check |
| Fill admission: `core/fill_ingestor.py`, `core/fill_reconciler.py`, `adapters/okx/account.py` | seen trade ids, baseline | submit, seed from log, poll | private WebSocket, REST, bus |
| Net patch: `scripts/reconcile.py` | none | compare positions, append patch fills | log, with the engine stopped |
| Bus, recorder, store: `core/bus.py`, `core/recorder.py`, `core/state_store.py` | bounded FIFO, "draining" flag | publish, drain, record = append then fold | all handlers, on one event loop |
| Gateway and gate: `core/gateway.py`, `risk/gate/*` | none | place: log request, preview, check, log decision, submit | state, execution |
| Execution: `execution/*`, `adapters/okx/execution.py` | OKX: order table, client order id counter, both lost at a restart | submit, order updates | private WebSocket, fill ingestor |
| Strategies: `core/strategy_runner.py`, `strategies/oscillator.py` | own position count, last side, tick count | handle event, place | bus, gateway |
| Dashboard orders: `core/order_bridge.py` | loop reference | schedule `place` from another thread, wait 5 s | gateway |
| Exchange reconciler: `core/exchange_reconciler.py` | last report | poll in a thread, copy the positions, compare | state (unlocked), REST |
| WebSocket: `adapters/transport/ws_base.py`, `adapters/okx/websocket.py` | connection, attempt count, login flag | connect, login, subscribe, dispatch, read timeout, back off, stop | market data, execution |
| PnL arithmetic: `risk/math.py` | none | simulate_fill, unrealized_pnl | fold, gate |
| Blotter, metrics, server, config, REST signing, parsing | views or none | | |

### What is hard about it

* *Two copies of the log.*  The page cache survives a kill, only flushed pages
  survive a power loss, the kernel may flush any page at any time, and the header
  and the frames are separate pages.
* *Three carriers of one state.*  Log, snapshot and memory become durable at
  different moments; a restart combines them.
* *Two processes on one file*, with no lock and no message between them.
* *Two sources of one fill*, one of them lossy and late and the other polling
  across an `await`, and a third, the patch, that carries no trade id.
* *State that persists next to state that does not*: kill switch and watchdog,
  book position and the strategy's own count, log and client order ids.
* *Re-entrant publishing*: a fill waits behind the event that caused it, and the
  gate reads the state in between.
* *Threads beside one event loop*: dashboard callers that stop waiting, a reconciler
  that iterates over what the loop changes, a shutdown in the middle of both.
* *Connections that break between any two messages* of login, acknowledgement,
  subscription, order and update, under a client that keeps a flag and a counter.

### What makes each component correct

Log: what the header claims is durable; what was appended survives a kill;
committed frames never change; the scan finds only what was appended.  Recovery:
the state is the fold of the log whatever snapshot it started from; no traded book
is dropped; every snapshot is the fold of a prefix.  Replica: never ahead of what
is durable, every event once, catches up.  Feed health: switch and watchdog agree
over restarts; silence shuts the gate, only a message opens it, and it does open.
Fills: each trade at most once, none that the baseline covers is missed, none
from before the log is adopted.  Pipeline: a checked order is still within limits
when it is folded; the queue stays short; a strategy knows its own book's position.
Process: what a caller is told is true, nothing is sent that the log does not hold,
a clean exit leaves everything durable, a mismatch with the exchange is shown.
WebSocket and orders: a private channel is subscribed on a logged-in connection only;
a reachable venue serves the client in the end; a fill is booked on the book, and on
the order, whose execution it is.

The hazards behind these, each at its line, are in `PROJECT.json`.

## 2. Modules

| Module | Models | Composed with |
|---|---|---|
| `EventLog` | what the log promises: a sequence with a durable prefix | implemented by `LogWriter`; used by `Recovery`, `FillAdmission` |
| `LogWriter` | the writer, page cache and medium | |
| `LogRefinement` | refinement mapping from `LogWriter` to `EventLog`, early writeback included | both |
| `RiskFold`, `RiskFold_proofs` | `apply_event` and replay, as operators | used by `Recovery`, `Replica`, `Pipeline` |
| `RiskMath` | `simulate_fill` against a cash book | justifies `RiskFold`'s positions |
| `Recovery`, `Recovery_proofs` | start-up, snapshots, commit, teardown, kills, power loss, seed edits | `EventLog`, `RiskFold`; proofs build on those of `RiskFold` |
| `Replica` | the tailing process beside a live writer | `LogWriter`, `RiskFold` |
| `Log_proofs` | the writer, its refinement and the replica: one invariant carries all three | `LogRefinement`, `Replica` |
| `FeedHealth`, `FeedHealth_proofs` | watchdog, monitor, switch, operator | |
| `FillAdmission` | WebSocket, ingestor, backstop, patch | `EventLog` |
| `Fill_proofs` | proofs of `FillAdmission` and of `RiskMath` | both |
| `Pipeline`, `Pipeline_proofs` | bus, recorder, gate, paper execution, strategies | `RiskFold`; proofs build on those of `RiskFold` |
| `ExchangeReconciler` | the comparing thread and the positions it shares with the loop | part of `Application` |
| `Application`, `Application_proofs` | one life of the process: loop, commit task, dashboard callers and their bridge, reconciler thread, signal, teardown, failing disk | `ExchangeReconciler` |
| `WsClient` | one WebSocket client and the venue's side of its connection | part of `OkxOrders` |
| `OkxOrders`, `OkxOrders_proofs` | the OKX execution client over it, the venue's orders, restarts | `WsClient` |
| `MC*` | event sets and rosters for TLC | |

### How the modules correspond to the code

**LogWriter.**  `cache` and `hdr` are the mapped file, `disk` and `dhdr` the medium,
`w` the fields of the Python object.  `LogWriter.__init__` is four actions
(`CreateFile`, `WriteHeader`, `SyncHeader`, `Open`) because a kill can fall between
its system calls; `commit` is three (`CommitFlush`, `CommitClaim`, `CommitSync`),
as `_do_commit` flushes the frames, rewrites the header and flushes again.
`append` is one action with growing inside it, plus `CrashMidAppend` for the kill
that leaves a partial frame.  `Writeback` and `WritebackHeader` are the kernel.
Abstractions: a frame is one slot, the header page is written atomically, the file
is as long as its capacity.  `LogRefinement` maps the abstract log to what the writer
has appended, or, while there is no writer, to what the scan of the next `__init__`
would find.  Its exception `Resurrects` is the one step `EventLog` does not know: after
an early page and a power loss a scan may read a stale frame (see Findings), never in
place of a committed one.

**RiskFold.**  A state is a record; `ApplyEvent` is `apply_event`.  A position is a
quantity and the cash its fills moved.  `RiskMath` shows that this loses nothing:
the code's realised and unrealised PnL add up to that cash at any mark.  The
contract multiplier is 1; `limit[x]` stands for one limit per book or desk.  `Payload`
is every event a log of this engine may hold, at any whole price; `Event`, the events a run
takes from it, is a constant of the modules that fold a log.

**RiskMath.**  Prices are whole numbers scaled so that no average is ever rounded: a price
that `n` more fills may divide is a multiple of `Grain[n]`.  The code has floats there;
their rounding is not modelled.

**Recovery.**  One action for each of: opening and replaying (`Recover`, or
`RecoverRaises` for the KeyError; opening commits only if the scan found frames past
the claim of the mapped header, which a kill may have left ahead of the medium, so
`OpenLog` may or may not make the rest durable), recording the reconciliation warnings, recording
an event (append then fold), commit task, snapshot task, the two halves of
teardown, and the environment.  The rename of a snapshot is durable at once, and
write and prune are one step.  An edit of the seed adds books to the roster or drops
them, which are two hazards.  `world`, which never changes, says which hazards a
behaviour may meet, so that one run covers them side by side; `outrun` remembers that
a power loss has left a snapshot ahead of the log.

**Replica.**  `poll_once` is two actions, `PollHeader` (read the committed offset,
remap) and `PollFold` (decode and fold), so that the primary can commit and grow the
file in between; `PollRaises` is a batch whose n-th event raises after the others
were folded.  The state handed to `ReplicaTail` is either recovered first, as
`_build_replica` does, or fresh, as `tests/test_replica.py` does; `base` remembers
it.  Primary and replica share a machine; power loss is left to the other modules.

**FeedHealth.**  One-second poll intervals; ages stop counting at the threshold.
`desk` is the event-sourced switch, `survivors` the positions it can have after a
power loss.  Operator actions are external (`docs/architecture.md:73`): hobo has the
event but no command for it yet, so the watchdog is the only writer of the switch in the
code, and an operator is the environment's.

**FillAdmission.**  Executions are numbered in order, each buys one contract, one
book.  `PollBegin`, `PollFetch`, `PollSubmit`, `PollEnd` follow
`FillReconciler.run`: the seen set is copied, the thread fetches, and the
submissions happen on the loop later.  `PollSubmit` excludes `WsDelivers` and the
clock, because the loop does not yield there.  `Reach` is `MAX_PAGES` pages.

**Pipeline.**  One synchronous drain, step by step.  The handlers run in the order
in which `builder.py` subscribes them.  The strategy's tick counter and the feed's
staleness are choices.  A kill loses queue and strategy memory and keeps the state,
which `Recovery` justifies.  The paper backend only: with an asynchronous venue
`risk/gate/engine.py:9-11` says itself that open orders are not reserved for.

**Application and ExchangeReconciler.**  Whatever the loop runs between two awaits is
one step: a `_place` with both its appends, a fill, a commit, and the snapshot, close
and stops of `_teardown`.  The HTTP threads, the reconciler thread and the exchange
interleave with all of it.  A caller makes one call: `Place` is
`run_coroutine_threadsafe`, `TimeOut` the five seconds of `OrderBridge.place`, after
which the call stays scheduled and `RunPlace` may still run it, also after the log is
closed.  The writer is "broken" once growing the file has failed, since the mapping is
closed by then (`log/writer.py:77`).  The reconciler reads the account, then begins to iterate over the positions, then copies
one entry at a time, and dies if a first fill in an instrument changes the dictionary's size; one book, quantities
counted in fills.  The end of the process after the teardown is not a step.

**WsClient and OkxOrders.**  There is no clock: a session that ends has lasted
`reconnect_reset_after_secs` or has not.  Pings are not messages: on a live link the
pongs keep the read timeout off, so only a silent one meets it.  Connecting, sending the
handshake and entering `_run_io` is one step, as is dispatching one frame.  The venue
reads and answers frames in order; a link may break or fall silent with any part of
them on its way.  An order is its number; an id is `<<book, number>>`, which stands for
the padded string.  `Restart` forgets counter and table and keeps what is on its way.
Cancels are left out: they change nothing in the client.

## 3. Runs

| Run | Asks | Bounds |
|---|---|---|
| `LogRefinement` | is what a header claims durable; does the writer implement `EventLog` | 4 slots, capacity 1 to 2 to 4, two events under symmetry, early writeback |
| `RecoveryReplay` | is the recovered state the fold of the log | 3 events of 5 kinds, 2 books under symmetry, 2 snapshots kept, one power loss, two worlds: marks seeded at start-up; books added and dropped together with power losses |
| `RecoveryOnboard` | does a start always succeed after a book was added to the seed: **violated** | 4 events, one snapshot, the roster only grows |
| `ReplicaTail` | never ahead, each event once on top of the state it started from, catches up | 4 slots, two remaps, 2 events, one of an unknown book, one failed poll |
| `ReplicaDoubleFold` | does the served position equal the primary's: **violated** | 2 slots |
| `FeedWatch` | do switch and watchdog agree; silence and resumption | threshold of 5 polls, as configured; operators and power losses |
| `FillOnce` | once each, none missed, none from before | 3 executions, 3 instants, a page reach of 2, slack 1, everything enabled |
| `FillPatchRepeats` | does a patch leave engine and exchange equal: **violated** | 3 executions, 4 instants |
| `RiskMath` | PnL equals cash | 4 fills, 3 contracts, 3 prices: every way to open, add, reduce, close, flip |
| `PipelinePaper` | limits, queue, strategy count | 2 strategies, 2 books, 2 marks, manual orders, kills, 11 events |
| `OkxSession` | handshake in order, fills of the right order, served in the end | 2 books, 2 orders of one contract, 1 restart, 3 failures, three client configurations, `MaxExponent` 1 |
| `EngineLife` | honest answers, nothing sent unlogged, complete exits, mismatches shown | 2 callers, 2 instruments, 1 failure of disk or REST |

*Why the bounds are enough.*  The log needs two growths and one event beyond a
commit for every phase of append, grow and commit to meet every crash; slots and
payloads are otherwise alike.  Recovery needs more events than snapshots it keeps.  Its second world has
every behaviour without edits or losses too, since a hazard only adds steps.  Its five
kinds of events are a mark, a fill of either book, funding and an order that changes
nothing; limits and kill switches, which their events overwrite, are left to the
theorems, which know every event.
Three executions are one before a gap, one in it and one after it, and one more
than the pages reach.  The pipeline's run passes a limit check with room to spare,
exactly, and not at all, with either strategy first.  `Pipeline`'s bound on the log
only stops new inputs; whatever is queued is still delivered.  `OkxSession` needs two
orders for a late fill to meet a reused id, one restart to reuse it, and more failures
than `MaxExponent`, which stands for the 1023 of a double, for the backoff to overflow.
`EngineLife` needs two callers for one to be answered while the other waits, and two
instruments for a comparison that a first fill breaks; one failure is enough, since the
writer stays broken.

Deadlock checking is off in three runs, where the system really stops: `RiskMath` after
its last fill, `OkxSession` when the client has returned, given up or raised, and
`EngineLife` when the process has ended.  All other runs check it.

The type invariants `RecTypeOK`, `RepTypeOK`, `FillTypeOK` and `PipeTypeOK` are conjuncts
of `SnapshotsArePrefixes`, `NeverAhead`, `ForwardOnly` and `QueueStaysShort`.

*A bound that is tight.*  In `FillsWithinLimits` the desk may exceed its limit by
one order of every strategy but the last, each worth the order quantity at the mark.  With one unit of notional less TLC finds a
violation, so this is the most the code guarantees.

## 4. Fairness

* `FairRepSpec`: weak fairness of starting the tail and of both halves of a poll;
  the loop polls every 20 ms while the process runs.  No fairness of the primary or
  of the operator who starts processes.
* `FairFeedSpec`: weak fairness of `Start` (a supervisor restarts the engine), strong
  fairness of `MessageArrives`: the feed is alive, though kills interrupt it.  None
  of the check task: it is not needed for the desk to reopen.
* `FairFillSpec`: weak fairness of the reconciler's loop steps; strong fairness of the
  clock, which cannot tick while submissions hold the loop, and of `PollFetch`, since
  a REST query may fail many times and is tried again.  None of the WebSocket.
* `FairOkxSpec`: weak fairness of the client's own tasks and of a venue that answers
  what it reads.  None of failures, orders, executions, `Stop` and `Restart`: failures
  are bounded, so from some time on the network behaves, which is what
  `ServedInTheEnd` supposes.
* `FairAppSpec`: weak fairness of the commit tick, of the steps of a teardown once a
  signal has come, and of the reconciler thread.  None of the signal, callers or the
  exchange.

## 5. Proofs

All proofs hold for every value of the constants under the named assumptions, which the
modules declare and TLC evaluates on every run.  Every safety property, action property and
refinement that a passing run checks is stated by a theorem.

* **`Log_proofs`** (under `LogAssumption`; for the replica's state also `FoldAssumption` and
  `ReplicaAssumption`, which says that the events of the log are events `apply_event` knows,
  at whole prices).
  *Writer.*  `LogInv` is inductive.  It says where frames may lie (every slot up to the
  write offset holds a frame, with its own sequence number), that medium and cache agree
  wherever a readable header claims, and what each phase of creating and committing has
  already done; the claim on the medium alone is not inductive, because `WritebackHeader`
  may write the header at any moment, which is safe only if the frames below it were
  flushed first.  From it: `ClaimedIsDurable`, `AppendedSurvivesKill`,
  `UnreadableClaimsNothing`, and the action property `CommittedNeverChanges`.
  *Scan.*  `ScanFindsOnlyAppended` speaks of the slot the scan would stop at and is not
  inductive (and claims nothing once an early page and a power loss may have left stale
  frames, `StaleFrames`): a kill in the middle of an append puts a partial frame there, and a power loss
  replaces the cache by the medium.  `RefInv` adds that, while no stale frame can exist,
  frames are packed from the first slot on, on the medium too, and none lies behind the
  writer's end.
  *Refinement.*  `LogImplementsEventLog` takes the steps of the writer one by one: an append is
  an `AAppend`, a header that reaches the medium an `AMakeDurable`, a power loss an
  `ALoseTail`, everything else a stutter; with stale frames about, a crash may be
  `Resurrects`.  `EndKnown` says where the abstract log ends, in every phase.
  *Replica.*  `RepInv` is `LogInv`, reused with its lemmas, and where the tail may stand:
  folded and target offsets were claimed by the mapped header, which only grows while the
  machine has power, and the mapping reaches the target.  `NeverAhead` follows since what
  a header claims is durable.  For `TailIsFold`, which speaks of what is folded on top of `base`, the state the tail started
  from, and until a poll raises, `FoldInv` adds what the state is before
  the first poll and during one; a poll then folds on where the last one stopped, over
  slots that `CommittedNeverChanges` has kept as they were.
* **`RiskFold_proofs`** (under `FoldAssumption`): what the proofs about folded states need.
  Induction over the length of a log is not to be had from the library's theorem, which
  takes an operator as a parameter; it is derived for a property given as a *set* of
  numbers, from the well-foundedness of `<` and a least counterexample (`LeastElement`,
  `Induction`).  With it the LET-bound recursive functions of `Replay` are unfolded, and a
  sum over a finite set is shown not to depend on its order.  From it `ReplayResumes`: a
  replay that starts from the state of a prefix ends with the state of the whole log; that
  rosters do not matter to the books both have; and how one event moves a sum of exposures.
* **`Recovery_proofs`** (under `FoldAssumption` and `RecoveryAssumption`): `RecInv` says, besides
  the types, that snapshots have distinct sequence numbers and each is the fold of a prefix of the
  *present* log, and that the running state is the fold of all of it, unless `outrun`.  That
  the running state is a fold is not inductive by itself, since the next start takes up a
  snapshot.  From it `PositionsAreFold`, `StateIsFold`, `TradedBooksKept`,
  `SnapshotsArePrefixes`; and `RecoveryUsesTheLog`: every step of the engine does to the log
  what `EventLog` allows, so that what `LogImplementsEventLog` shows of the writer is all that
  recovery relies on.
* **`FeedHealth_proofs`** (under `FeedAssumption`): `FeedInv` adds to
  `WatchdogOwnsSwitch` that a silent feed without a pending check is already stale.
  From it: `SilenceShutsGate`; and `OnlyMessageLifts`, by looking at each step.
* **`Fill_proofs`**.
  *`FillAdmission`* (under `FillAssumption`): `FillInv` joins uniqueness in the log with "the
  seen set covers the log while the engine runs"; the seen set is what makes uniqueness
  inductive, and it survives a restart because it is seeded from the log, also from one
  that a power loss cut.  `BackstopInv` is what `ForwardOnly` needs beside itself: no trade in
  flight or collected, and no baseline, reaches further back than the first start less the
  slack, and every record time in the log is of after it, because the next baseline is
  taken from those.
  *`RiskMath`* (under `MathAssumption`): `BooksInv` says that realised PnL less the entry value
  of the position is the cash its fills moved, and that the entry price is a multiple of
  what the remaining fills may divide; without that no average is exact and nothing
  balances.  From it `PnlIsCash` and `EntryAmongPaid`.
* **`Application_proofs`** (under `AppAssumption`): `AppInv` is inductive:
  `AppTypeOK`, `CallsAgree` (a call's future, its order at the client and its events in
  the log go together; a call that has not run has no event), `ClosedForGood` (after a
  clean teardown nothing is appended, although calls may still run) and
  `NothingSentUnlogged`, which needs `CallsAgree` to know that no other call's events
  disturb the pair it speaks of.  From it `AnswerIsHonest` and `CleanExitIsComplete`.
* **`OkxOrders_proofs`** (under `WsAssumption` and `OrdersAssumption`): `OkxInv` adds
  what the properties lack: which frames may be in flight, that a login is the first
  frame and the only one of its kind on a connection, so that an acknowledgement in
  flight means a logged-in venue; that client order ids are unique within one process;
  that the table, and every update in flight, names the order whose id it carries.  From
  it `HandshakeInOrder`, `FillOfItsBook` and `FillOfItsOrder`.  `RaisesOnlyAfterStreak`
  follows from `BackoffInv`: the counter never exceeds the sessions in a row that did
  not last.  `OkxTypeOK` bounds counters, so it needs more than types: `TroubleInv` (each session
  that does not last has spent a failure) and `ProgressInv` (an order on its way to the venue
  is on its way once, and nothing has become of it yet).
* **`Pipeline_proofs`** (under `FoldAssumption` and `PipelineAssumption`, which gives each
  strategy a book of its own, as `builder.py:185` has it): `PipeInv` says that the queue holds
  one input that was just published, or nothing but fills, at most one of each strategy that
  has had the event in hand; and that a strategy's count differs from its book by the
  fill in hand alone, from the recorder's turn to its own.  The second half is what
  `StrategyTracksBook` needs between two empty queues.  From it `QueueStaysShort` too,
  with the module's types.  `FillsWithinLimits` speaks of the fold of a fill that was checked
  several steps before.  `LimitInv` carries the gate's verdict to it: every fill in the queue is
  still admitted, with room at the desk for one order less per fill ahead of it, and the
  fills that wait together are of different books, so that folding one leaves the others'
  books alone.  Sums over books and what one event adds to them are `RiskFold_proofs`'.

`LimitInv`, `SessionInv`, `TroubleInv`, `ProgressInv` and `CountsInv` were checked by TLC as
invariants of their runs before they were proved.

Only model-checked: liveness under fairness, which the prover does not handle
(`TailCatchesUp`, `HealthyDeskTrades`, `MissedIsAdopted`, `ServedInTheEnd`,
`AppendedGetsDurable`, `MismatchShown`).  The three violated properties (`StartSucceeds`,
`CaughtUpAgrees`, `NeverOvercounts`) are refuted by TLC; there is nothing to prove of them.

`FillAdmission` builds on `EventLog` as well, but `NetPatch` appends and closes in one step,
which is two of the abstract log's, so no step-by-step refinement is stated for it.

## 6. Findings

Three runs show the code doing other than its documents say.

1. *`RecoveryOnboard`*: replay runs before the roster is reconciled.  A book that
   joined the seed after the last snapshot, was onboarded by a start and traded before
   the next snapshot makes every start after a kill raise KeyError, because the snapshot's
   roster does not have it (`log/recovery.py:73-74`: it "is onboarded fresh").
2. *`ReplicaDoubleFold`*: the replica recovers the whole log into its state and then
   tails from offset 0, so every event is folded twice.
3. *`FillPatchRepeats`*: a net patch leaves the trade ids it stands for unseen, and
   the backstop adopts those executions again.

Seen while modelling, each within a property that holds up to it:

* `log/recovery.py:42`: with no snapshot yet, replay knows the books of the present seed
  alone, so a book that traded and was then dropped from the seed makes every start raise
  KeyError before it could be "kept but flagged" (`log/recovery.py:74-75`).  It is the same
  fault as finding 1, met from the other side: TLC finds it with
  `Worlds = {{"booksDropped"}}` in the same configuration.
* `log/recovery.py:49`, `application.py:114`: snapshots are made durable without
  committing the log first.  After a power loss the newest one may be ahead of the log,
  and replay then skips the new events that take the lost ones' sequence numbers.
  `PositionsAreFold`, `StateIsFold`, `TradedBooksKept` and `SnapshotsArePrefixes` hold in
  every other behaviour: `outrun` marks this one.
* `log/format.py:116`: with early writeback and a power loss, `scan_ahead` can take a
  stale frame behind a new one for the next event, as it does not look at sequence
  numbers (`log/writer.py:5-7` calls the scan safe).  `ImplementsEventLog` allows that
  step and no other (`Resurrects`); committed events are safe from it.
* `log/recovery.py:123`: the mark fetched at start-up changes the state without an
  event (`docs/architecture.md:77`).  `StateIsFold` excludes that world; positions do
  not depend on it, which `PositionsAreFold` checks.
* `replica/tail.py:40`: a poll that raises half way has folded the first half and
  folds it again later.  `TailIsFold` holds until the first such poll.
* `builder.py:146`: the replica does not wait for the log file but raises
  (`docs/running.md:72`): action `BuildRaises`.
* `core/health.py:30` and `:34`: should a command for a halt by hand come, the monitor
  would overwrite the halt when the feed goes stale and clear it on the next message
  (`tests/test_health.py:74-75`).  `WatchdogOwnsSwitch` says what is still true with an
  operator.
* `risk/staleness.py:35`: one watchdog serves all instruments, and none before the
  first message, so a single instrument's mark can be old with the gate open.
* `core/fill_reconciler.py:45`: the baseline is a record time less a minute; a gap
  before a fill recorded late is out of reach (`README.md:54`), and the slack reaches
  behind the first start (`docs/reconciliation.md:48`).  `ForwardOnly` and
  `MissedIsAdopted` state the reach that is guaranteed.
* `core/bus.py:53`: two strategies react to one mark, and the second order is checked
  while the first one's paper fill is still queued, so both pass the desk limit, which
  `docs/design-notes.md:86` says "does not depend on how many books are trading";
  `risk/gate/engine.py:9-10` knows of such a window for asynchronous fills only.
  `FillsWithinLimits` states by how much.  The shipped roster has one strategy and does
  not meet this.
* `adapters/transport/ws_base.py:117`: `2 ** attempt` times a float raises
  OverflowError at attempt 1024, outside the `try`, and `run()` ends; a client without
  an attempt limit gets there after as many sessions in a row that do not last (hours
  of an unreachable venue at the cap).  `tests/test_ws_base.py:84` has "large attempt
  saturates at the cap", with a small large attempt.  `RaisesOnlyAfterStreak` says that
  nothing else leads there.
* `adapters/transport/ws_base.py:108`: the limit on attempts is checked before a session
  that lasted resets the counter, so a client with a limit may give up after a long
  healthy session.
* `adapters/transport/ws_base.py:174`: a refused login or subscription is only logged,
  and pongs keep the useless session alive; `ServedInTheEnd` excepts it.
* `adapters/okx/websocket.py:66-67` says that nothing is sent before the login has
  succeeded; `place_order` does not look.  `HandshakeInOrder` is therefore about
  subscriptions, and the venue rejects the order.
* `adapters/okx/execution.py:46`: a late update of an earlier process that meets a reused
  client order id takes side and instrument of the new order; its book is right
  (`FillOfItsBook`).  `FillOfItsOrder` is about orders of the same process.
* `core/order_bridge.py:33`: a timeout is reported like a failure although the order may
  still go out; `AnswerIsHonest` leaves that one answer open.
* `application.py:59`: a periodic task that an exception ends is not noticed before the
  teardown.  `AppendedGetsDurable` excepts it.
* `core/exchange_reconciler.py:61-62`: the thread dies of "dictionary changed size during
  iteration", and the dashboard goes on showing its last report.  `MismatchShown`
  excepts it.
* `strategies/oscillator.py:33`: the strategy's band is around the position at its
  last restart and not around flat; `StrategyTracksBook` says so.

## 7. Not modelled, and the plan

Done in this order: log, its refinement and proofs; fold and recovery; replica; feed
health and proofs; fill admission and proofs; arithmetic; pipeline; process and
reconciler, with proofs; WebSocket and orders, with proofs; proofs about the replica and the
pipeline; proofs of the fold, recovery, the refinement, the backstop's reach, the arithmetic
and the limits.  Every safety property, action property and refinement that a passing run
checks is now a theorem.

Next models: drift of the instrument spec across restarts in `Recovery`
(`recovery.py:97-111`: specs are constant in the model); an asynchronous venue behind
the gate of `Pipeline`; `scripts/reconcile.py` run beside a live engine, which nothing in
the code prevents and its documentation forbids.

Next proofs: that the bound of `FillsWithinLimits` is met with equality, by a theorem about
the gate; one-step neutrality of `SimulateFill` as a theorem of its own; the safety half of
the liveness properties (what a step towards them never undoes).

Left out for good: REST clients, message parsing and signing (stateless; what a call may
return or raise is in the modules that make it), metrics, HTTP server, logging and
blotter (views), most of configuration and construction (what they admit are the
CONSTANTS; the client's options are in `OkxSession`), liquidation prices (shown, never
acted on).
