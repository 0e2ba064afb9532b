------------------------------ MODULE RiskFold ------------------------------
(***************************************************************************)
(* The event fold of hobo/risk/fold.py over the State of                   *)
(* hobo/risk/state.py: what one logged event does to the risk state, and   *)
(* what replaying a log does.  No variables: Recovery, Replica and the     *)
(* modules that run the engine use these operators.                        *)
(*                                                                         *)
(* Abstractions: contract multiplier 1; a position keeps its quantity and  *)
(* the cash its fills moved (realized PnL, less fees, less quantity times  *)
(* average entry price), which is all the PnL queries of State depend on:  *)
(* RiskMath shows that simulate_fill keeps that sum.  One limit per book   *)
(* and one for the desk stand for the limit table.                         *)
(***************************************************************************)
EXTENDS Integers, Sequences, FiniteSets

CONSTANTS
  Book,         \* every book a seed file may name
  Instrument,   \* the configured universe
  SeedLimit     \* the limit the seed file gives every scope

Desk == "DESK"
Scope == Book \cup {Desk}

\* A scope is a kind and an id, so the desk is none of the books.
ASSUME FoldAssumption ==
  /\ IsFiniteSet(Book) /\ IsFiniteSet(Instrument)
  /\ Desk \notin Book
  /\ SeedLimit \in Int

FlatPosition == [qty |-> 0, cash |-> 0, funding |-> 0]

\* State.initial: the configured books, flat, and no marks (mark() reads 0).
Fresh(books) ==
  [lastSeq |-> 0,
   books   |-> books,
   marks   |-> [i \in Instrument |-> 0],
   pos     |-> [b \in Book |-> [i \in Instrument |-> FlatPosition]],
   hwm     |-> [x \in Scope |-> 0],
   limit   |-> [x \in Scope |-> SeedLimit],
   kill    |-> [x \in Scope |-> FALSE]]

-----------------------------------------------------------------------------
(* Queries of State *)

SumOver(S, f) ==
  LET sum[T \in SUBSET S] ==
        IF T = {} THEN 0 ELSE LET x == CHOOSE x \in T : TRUE IN f[x] + sum[T \ {x}]
  IN  sum[S]

BookTotalPnl(s, b) ==
  SumOver(Instrument, [i \in Instrument |->
    s.pos[b][i].cash + s.pos[b][i].qty * s.marks[i] + s.pos[b][i].funding])

DeskTotalPnl(s) == SumOver(s.books, [b \in s.books |-> BookTotalPnl(s, b)])

Higher(m, n) == IF m >= n THEN m ELSE n

\* Every mark, fill and funding event ends with this.
UpdateHighWaterMarks(s) ==
  [s EXCEPT !.hwm = [x \in Scope |->
     IF x = Desk THEN Higher(s.hwm[x], DeskTotalPnl(s))
     ELSE IF x \in s.books THEN Higher(s.hwm[x], BookTotalPnl(s, x))
     ELSE s.hwm[x]]]

-----------------------------------------------------------------------------
(* Events: the payloads of hobo/log/events.py *)

MarkUpdate(i, price) == [type |-> "MARK_UPDATE", instrument |-> i, price |-> price]
FundingUpdate(i, rate) == [type |-> "FUNDING_UPDATE", instrument |-> i, rate |-> rate]
Fill(b, i, delta, price) ==
  [type |-> "FILL", scope |-> b, instrument |-> i, delta |-> delta, price |-> price]
LimitChange(x, new) == [type |-> "LIMIT_CHANGE", scope |-> x, new |-> new]
KillSwitch(x, enabled) == [type |-> "KILL_SWITCH", scope |-> x, enabled |-> enabled]
\* ORDER_REQUEST, GATE_DECISION and RECONCILIATION_WARNING: logged, not folded.
Audit == [type |-> "AUDIT"]

\* What the log of this engine may hold.
Payload ==
  [type : {"MARK_UPDATE"}, instrument : Instrument, price : Int]
  \cup [type : {"FUNDING_UPDATE"}, instrument : Instrument, rate : Int]
  \cup [type : {"FILL"}, scope : Book, instrument : Instrument, delta : Int, price : Int]
  \cup [type : {"LIMIT_CHANGE"}, scope : Scope, new : Int]
  \cup [type : {"KILL_SWITCH"}, scope : Scope, enabled : BOOLEAN]
  \cup {Audit}

\* A handler looks its book up before it changes anything: KeyError if the
\* roster does not have it.
Raises(s, e) ==
  /\ e.type \in {"FILL", "LIMIT_CHANGE", "KILL_SWITCH"}
  /\ e.scope \notin s.books \cup {Desk}

ApplyMark(s, e) ==
  UpdateHighWaterMarks([s EXCEPT !.marks[e.instrument] = e.price])

ApplyFill(s, e) ==
  UpdateHighWaterMarks(
    [s EXCEPT !.pos[e.scope][e.instrument].qty = @ + e.delta,
              !.pos[e.scope][e.instrument].cash = @ - e.delta * e.price])

\* Positive rates: longs pay shorts, at the mark in force.
ApplyFunding(s, e) ==
  LET charged(b, i) == b \in s.books /\ i = e.instrument
      payment(b, i) == s.pos[b][i].qty * s.marks[i] * e.rate
  IN  UpdateHighWaterMarks(
        [s EXCEPT !.pos = [b \in Book |-> [i \in Instrument |->
           IF charged(b, i)
             THEN [s.pos[b][i] EXCEPT !.funding = @ - payment(b, i)]
             ELSE s.pos[b][i]]]])

\* apply_event: the handler of the event's type, then last_seq.
ApplyEvent(s, seq, e) ==
  LET folded ==
        CASE e.type = "MARK_UPDATE"    -> ApplyMark(s, e)
          [] e.type = "FILL"           -> ApplyFill(s, e)
          [] e.type = "FUNDING_UPDATE" -> ApplyFunding(s, e)
          [] e.type = "LIMIT_CHANGE"   -> [s EXCEPT !.limit[e.scope] = e.new]
          [] e.type = "KILL_SWITCH"    -> [s EXCEPT !.kill[e.scope] = e.enabled]
          [] e.type = "AUDIT"          -> s
  IN  [folded EXCEPT !.lastSeq = seq]

-----------------------------------------------------------------------------
(* Replaying a log, whose n-th event has sequence number n *)

\* Mutant: off by one, the last event of the snapshot is replayed again.
NewerOrSame(n, s) == n >= s.lastSeq

Newer(n, s) == n > s.lastSeq

\* recover_state's loop: only what is newer than the state it starts from.
Replay(s, events) ==
  LET after[n \in 0..Len(events)] ==
        IF n = 0 THEN s
        ELSE LET acc == after[n - 1]
             IN  IF Newer(n, acc) THEN ApplyEvent(acc, n, events[n]) ELSE acc
  IN  after[Len(events)]

\* Folding never changes the roster, so this tells whether the loop raises.
ReplayRaises(s, events) ==
  \E n \in DOMAIN events : n > s.lastSeq /\ Raises(s, events[n])
=============================================================================
