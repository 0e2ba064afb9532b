------------------------------ MODULE Pipeline ------------------------------
(***************************************************************************)
(* The live path of one process: EventBus (hobo/core/bus.py), Recorder,    *)
(* StrategyRunner with OscillatorStrategy, OrderGateway, the checks of     *)
(* hobo/risk/gate and the paper execution client, whose fills come back    *)
(* through the bus.  Everything runs on one event loop: what is modelled   *)
(* as separate steps is one synchronous drain, and only a kill gets in.    *)
(*                                                                         *)
(* Abstractions, besides those of RiskFold: limit[x] is the notional limit *)
(* of a book or the desk, the only one that LIMIT_CHANGE would move here;  *)
(* the strategy's tick counter is a choice of whether this mark is due;    *)
(* whether the feed is stale is FeedHealth's business and a choice here.   *)
(***************************************************************************)
EXTENDS RiskFold

CONSTANTS
  Strategies,     \* the books with a strategy, in the order they are run
  Price,          \* what a mark may be
  OrderQty,       \* DEFAULT_ORDER_QTY
  Band,           \* DEFAULT_POSITION_BAND
  ManualQty,      \* signed sizes that the dashboard may order
  PositionLimit,  \* per book and instrument
  DrawdownLimit,  \* of each book and of the desk
  MaxOrderSize,   \* DEFAULT_MAX_ORDER_SIZE
  MaxQueue,       \* DEFAULT_MAX_QUEUE_SIZE
  MaxEvents,      \* bound: events in the log when the last input arrives
  Kills           \* may the process be killed and restarted?

ASSUME PipelineAssumption ==
  /\ Strategies \in Seq(Book) /\ ManualQty \subseteq Int /\ Price \subseteq Int
  /\ \A m, n \in DOMAIN Strategies : Strategies[m] = Strategies[n] => m = n
  /\ OrderQty \in Nat \ {0} /\ Band \in Nat
  /\ PositionLimit \in Nat /\ DrawdownLimit \in Nat /\ MaxOrderSize \in Nat
  /\ MaxQueue \in Nat \ {0} /\ MaxEvents \in Nat /\ Kills \in BOOLEAN

VARIABLES
  state,    \* StateStore.state
  queue,    \* EventBus._queue
  event,    \* the event that is being delivered, or NoEvent
  stage,    \* the handler it is with: 0 Recorder, 1 monitor, k + 1 strategy k
  memory,   \* of each strategy: its own position count, and its last side
  atStart   \* history: the positions the present process started with

pipeVars == <<state, queue, event, stage, memory, atStart>>

NoEvent == [type |-> "NONE"]
Magnitude(n) == IF n < 0 THEN -n ELSE n

BlankMemory == [position |-> [i \in Instrument |-> 0], last |-> [i \in Instrument |-> -1]]

Positions(s) == [b \in Book |-> [i \in Instrument |-> s.pos[b][i].qty]]

PipeInit ==
  /\ \E marks \in [Instrument -> Price] : state = [Fresh(Book) EXCEPT !.marks = marks]
  /\ queue = <<>> /\ event = NoEvent /\ stage = 0
  /\ memory = [b \in Book |-> BlankMemory]
  /\ atStart = Positions(state)

Idle == event = NoEvent /\ queue = <<>>

\* StateStore.record.
StoreRecord(s, e) == ApplyEvent(s, s.lastSeq + 1, e)

\* EventBus.publish: dropped if the queue is full.
Publish(q, e) == IF Len(q) < MaxQueue THEN Append(q, e) ELSE q

-----------------------------------------------------------------------------
(* The pre-trade gate *)

BookNotional(s, b) ==
  SumOver(Instrument, [i \in Instrument |-> Magnitude(s.pos[b][i].qty) * s.marks[i]])
DeskGrossNotional(s) == SumOver(s.books, [b \in s.books |-> BookNotional(s, b)])

\* Mutant: the order's own effect is left out of the preview.
PreviewIgnoringOrder(s, b, i, delta) == s

\* build_order_context: the aggregates as they would be after a fill at the mark.
Preview(s, b, i, delta) ==
  [s EXCEPT !.pos[b][i].qty = @ + delta,
            !.pos[b][i].cash = @ - delta * s.marks[i]]

\* default_checks, in one conjunction: the first that fails rejects.
Approves(s, b, i, delta) ==
  LET after == Preview(s, b, i, delta)
  IN  /\ ~ s.kill[Desk] /\ ~ s.kill[b]
      /\ Magnitude(delta) <= MaxOrderSize
      /\ Magnitude(after.pos[b][i].qty) <= PositionLimit
      /\ BookNotional(after, b) <= s.limit[b]
      /\ s.hwm[b] - BookTotalPnl(after, b) <= DrawdownLimit
      /\ DeskGrossNotional(after) <= s.limit[Desk]
      /\ s.hwm[Desk] - DeskTotalPnl(after) <= DrawdownLimit

\* Mutant: the fill is published by the client and again by its manager.
EmitFillTwice(q, fill) == Publish(Publish(q, fill), fill)

\* PaperExecutionClient.submit, OrderManager, and the ingestor, which admits
\* every fill that has no trade id.
EmitFill(q, fill) == Publish(q, fill)

\* OrderGateway.place: log the request, check it, log the decision, submit.
Place(b, i, delta) ==
  LET requested == StoreRecord(state, Audit)
      approved  == Approves(requested, b, i, delta)
  IN  /\ state' = StoreRecord(requested, Audit)
      /\ queue' = IF approved THEN EmitFill(queue, Fill(b, i, delta, state.marks[i])) ELSE queue

-----------------------------------------------------------------------------
(* Inputs: each arrives when the loop is free *)

MayArrive == Idle /\ state.lastSeq < MaxEvents

MarketData ==
  /\ MayArrive
  /\ \E i \in Instrument :
       \/ \E p \in Price : queue' = Publish(queue, MarkUpdate(i, p))
       \/ queue' = Publish(queue, FundingUpdate(i, 1))
  /\ UNCHANGED <<state, event, stage, memory, atStart>>

\* OrderBridge.place, once its coroutine runs on the loop.
ManualOrder ==
  /\ MayArrive
  /\ \E b \in Book, i \in Instrument, delta \in ManualQty : Place(b, i, delta)
  /\ UNCHANGED <<event, stage, memory, atStart>>

\* FeedHealthMonitor.check trips.
FeedGoesStale ==
  /\ MayArrive /\ ~ state.kill[Desk]
  /\ state' = StoreRecord(state, KillSwitch(Desk, TRUE))
  /\ UNCHANGED <<queue, event, stage, memory, atStart>>

-----------------------------------------------------------------------------
(* EventBus._deliver: the topology that the builder subscribes *)

Deliver ==
  /\ event = NoEvent /\ queue # <<>>
  /\ event' = Head(queue) /\ queue' = Tail(queue) /\ stage' = 0
  /\ UNCHANGED <<state, memory, atStart>>

RunRecorder ==
  /\ event # NoEvent /\ stage = 0
  /\ state' = StoreRecord(state, event)
  /\ stage' = 1
  /\ UNCHANGED <<queue, event, memory, atStart>>

\* FeedHealthMonitor.on_message lifts a switch of its own.
RunMonitor ==
  /\ event # NoEvent /\ stage = 1
  /\ \/ UNCHANGED state
     \/ /\ event.type \in {"MARK_UPDATE", "FUNDING_UPDATE"} /\ state.kill[Desk]
        /\ state' = StoreRecord(state, KillSwitch(Desk, FALSE))
  /\ stage' = 2
  /\ UNCHANGED <<queue, event, memory, atStart>>

Turn(b) ==
  /\ event # NoEvent /\ stage - 1 \in DOMAIN Strategies
  /\ b = Strategies[stage - 1]
  /\ stage' = stage + 1
  /\ UNCHANGED <<event, atStart>>

\* Mutant: fills go to every strategy.
NobodyElses(b) == FALSE

BelongsToOtherBook(b) == event.type = "FILL" /\ event.scope # b

\* Buy below the band, sell above it, and take turns inside it.
NextSide(m, i) ==
  IF m.position[i] >= Band THEN -1
  ELSE IF m.position[i] <= -Band THEN 1
  ELSE -m.last[i]

\* OscillatorStrategy.on_event for a fill of its own book.
StrategyFill(b) ==
  /\ Turn(b) /\ event.type = "FILL" /\ ~ BelongsToOtherBook(b)
  /\ memory' = [memory EXCEPT ![b].position[event.instrument] = @ + event.delta]
  /\ UNCHANGED <<state, queue>>

\* ... and for a mark: every interval_ticks-th of them is due an order.
StrategyMark(b) ==
  /\ Turn(b) /\ event.type = "MARK_UPDATE"
  /\ LET i == event.instrument
         side == NextSide(memory[b], i)
     IN  /\ memory' = [memory EXCEPT ![b].last[i] = side]
         /\ Place(b, i, side * OrderQty)

StrategyIgnores(b) ==
  /\ Turn(b)
  /\ event.type \in {"MARK_UPDATE", "FUNDING_UPDATE"} \/ BelongsToOtherBook(b)
  /\ UNCHANGED <<state, queue, memory>>

Delivered ==
  /\ event # NoEvent /\ stage - 1 = Len(Strategies) + 1
  /\ event' = NoEvent /\ stage' = 0
  /\ UNCHANGED <<state, queue, memory, atStart>>

\* A kill loses the queue and the strategies' memory.  The state comes back from
\* the log, where every step above put it before it was folded.
KillAndRestart ==
  /\ Kills
  /\ queue' = <<>> /\ event' = NoEvent /\ stage' = 0
  /\ memory' = [b \in Book |-> BlankMemory]
  /\ atStart' = Positions(state)
  /\ UNCHANGED state

-----------------------------------------------------------------------------
PipeNext ==
  \/ MarketData \/ ManualOrder \/ FeedGoesStale
  \/ Deliver \/ RunRecorder \/ RunMonitor \/ Delivered
  \/ \E b \in Book : StrategyFill(b) \/ StrategyMark(b) \/ StrategyIgnores(b)
  \/ KillAndRestart

PipeSpec == PipeInit /\ [][PipeNext]_pipeVars

-----------------------------------------------------------------------------
(* Properties *)

\* The most orders that one event can lead to.
MostAtOnce == Higher(1, Len(Strategies))

PipeTypeOK ==
  /\ state.books = Book
  /\ \A b \in Book, i \in Instrument : state.pos[b][i].qty \in Int /\ state.marks[i] \in Price
  /\ Len(queue) <= MaxQueue
  /\ event = NoEvent \/ event.type \in {"MARK_UPDATE", "FUNDING_UPDATE", "FILL"}
  /\ stage \in 0..(Len(Strategies) + 2)
  /\ \A b \in Book, i \in Instrument :
       memory[b].position[i] \in Int /\ memory[b].last[i] \in {-1, 1}

\* What the gate approved is still within its book's limits when it is folded:
\* between the check and the fold of the paper fill nothing else moves the book or
\* the marks, although the fill waits in the queue.  The desk is another matter:
\* strategies that react to one mark are all checked before the first of their
\* fills leaves the queue, so its limit may be passed, by one order of each but
\* the last.
WithinLimits(s, b, i) ==
  /\ Magnitude(s.pos[b][i].qty) <= PositionLimit
  /\ BookNotional(s, b) <= s.limit[b]
  /\ DeskGrossNotional(s)
       <= s.limit[Desk] + (MostAtOnce - 1) * OrderQty * Magnitude(s.marks[i])
FillsWithinLimits ==
  [][(RunRecorder /\ event.type = "FILL") =>
       WithinLimits(state', event.scope, event.instrument)]_pipeVars

\* A strategy's private count of its position is what its book has moved since the
\* process started, whenever the bus is empty: fills of manual orders reach it,
\* fills of other books do not, and a kill takes a queued fill from both.
StrategyTracksBook ==
  Idle => \A k \in DOMAIN Strategies, i \in Instrument :
            LET b == Strategies[k]
            IN  memory[b].position[i] = state.pos[b][i].qty - atStart[b][i]

\* "Depth is ~1 in steady state": re-entrant publishing never queues more than
\* one fill per strategy, so a full queue is never reached by normal operation.
QueueStaysShort == PipeTypeOK /\ Len(queue) <= MostAtOnce
=============================================================================
