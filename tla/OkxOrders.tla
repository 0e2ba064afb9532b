----------------------------- MODULE OkxOrders -----------------------------
(***************************************************************************)
(* Orders on OKX: OkxExecutionClient (okx/execution.py) over the private   *)
(* WebSocket client, the parsing of order updates (okx/parsing.py), the    *)
(* venue's order book (external), and restarts of the process, which       *)
(* forget the client order id counter and the table of orders.             *)
(*                                                                         *)
(* An order is its number in `placed`, which counts over all processes; of *)
(* its content only the book is kept, and it executes one contract at a    *)
(* time.  A client order id is a book and a number: the code glues the two *)
(* together with ten digits, which can be taken apart again.  Cancels are  *)
(* left out: they change nothing in the client, and no strategy asks for   *)
(* one.                                                                    *)
(***************************************************************************)
EXTENDS WsClient

CONSTANTS
  Book,
  OrderSize,    \* contracts of an order
  MaxOrders,    \* bound: orders over all processes
  MaxRestarts   \* bound: restarts of the process

ASSUME OrdersAssumption ==
  OrderSize \in Nat \ {0} /\ MaxOrders \in Nat /\ MaxRestarts \in Nat

VARIABLES
  seq,       \* OkxExecutionClient._seq
  table,     \* _orders_by_clordid, and _clordid_by_order_id the other way round
  epoch,     \* history: restarts so far
  placed,    \* history: the orders, with what has become of each at the venue
  trades,    \* history: of every execution, whose it was
  emitted    \* history: the fills handed to the ingestor

orderVars == <<seq, table, epoch, placed, trades, emitted>>
okxVars == <<wsVars, orderVars>>

NoOrders == [id \in {} |-> 0]

PlaceOrder(k) == [type |-> "order", order |-> k]
Entry(id, trade) == [id |-> id, trade |-> trade]
Updates(entries) == [type |-> "updates", entries |-> entries]

OkxInit ==
  /\ WsInit
  /\ seq = 0 /\ table = NoOrders /\ epoch = 0
  /\ placed = <<>> /\ trades = <<>> /\ emitted = {}

-----------------------------------------------------------------------------
(* OkxExecutionClient *)

\* Mutants: an id without its book; the counter of before the increment; a counter
\* that stands still.
IdWithoutBook(b, n) == <<CHOOSE any \in Book : TRUE, n>>
IdBeforeIncrement(b, n) == <<b, n - 1>>
SameSeq == 1

ClOrdId(b, n) == <<b, n>>
NextSeq == seq + 1

\* The order is in the table before the frame is sent.  place_order looks neither
\* at logged_in nor at the connection: the send may fail with nobody to notice.
Submit(b) ==
  /\ conf.private /\ Len(placed) < MaxOrders
  /\ LET id == ClOrdId(b, NextSeq)
         k  == Len(placed) + 1
     IN  /\ table' = [any \in DOMAIN table \cup {id} |-> IF any = id THEN k ELSE table[any]]
         /\ placed' = Append(placed, [book |-> b, id |-> id, epoch |-> epoch,
                                      state |-> "sent", filled |-> 0])
         /\ toVenue' = Sent(PlaceOrder(k))
  /\ seq' = NextSeq
  /\ UNCHANGED <<clientVars, link, fromVenue, venue, trouble, epoch, trades, emitted>>

OrderOf(id) == table[id]

\* parse_private keeps the first entry of a message; _on_order_update finds the
\* order by its id and emits the fill.
DispatchUpdates ==
  /\ Receives("updates")
  /\ fromVenue' = Tail(fromVenue)
  /\ LET entry == Head(Head(fromVenue).entries)
     IN  emitted' = IF entry.id \in DOMAIN table
                    THEN emitted \cup {[trade |-> entry.trade, order |-> OrderOf(entry.id), epoch |-> epoch]}
                    ELSE emitted
  /\ UNCHANGED <<clientVars, link, toVenue, venue, trouble, seq, table, epoch, placed, trades>>

\* A kill, or a shutdown that has come to its end, and the next start.  What the
\* old process sent may still be on its way.
Restart ==
  /\ epoch < MaxRestarts
  /\ epoch' = epoch + 1
  /\ seq' = 0 /\ table' = NoOrders
  /\ pc' = "connecting" /\ attempt' = 0 /\ stopping' = FALSE
  /\ loggedIn' = FALSE /\ link' = "none" /\ fromVenue' = <<>> /\ streak' = 0
  /\ UNCHANGED <<conf, toVenue, venue, trouble, placed, trades, emitted>>

-----------------------------------------------------------------------------
(* The venue *)

Open(id) == {k \in DOMAIN placed : placed[k].id = id /\ placed[k].state = "open"}

VenueAcceptsOrder ==
  /\ VenueReads("order")
  /\ LET k == Head(toVenue).order
     IN  /\ venue.auth = "ok" /\ Open(placed[k].id) = {}
         /\ placed' = [placed EXCEPT ![k].state = "open"]
  /\ toVenue' = Tail(toVenue)
  /\ UNCHANGED <<clientVars, link, fromVenue, venue, trouble, seq, table, epoch, trades, emitted>>

\* It must without a login or with the id of an open order; it may anyhow.  The
\* error in the answer is only logged.
VenueRejectsOrder ==
  /\ VenueReads("order")
  /\ placed' = [placed EXCEPT ![Head(toVenue).order].state = "rejected"]
  /\ toVenue' = Tail(toVenue)
  /\ fromVenue' = Pushed(ErrorFrame)
  /\ UNCHANGED <<clientVars, link, venue, trouble, seq, table, epoch, trades, emitted>>

\* A subscriber whose connection still lives is told; two updates may share a frame.
Told(entry) ==
  IF link # "up" \/ ~ venue.subscribed THEN {fromVenue}
  ELSE {Append(fromVenue, Updates(<<entry>>))}
       \cup {SubSeq(fromVenue, 1, n - 1) \o <<Updates(Append(fromVenue[n].entries, entry))>> :
               n \in {m \in DOMAIN fromVenue : m = Len(fromVenue) /\ fromVenue[m].type = "updates"}}

VenueExecutes(k) ==
  /\ placed[k].state = "open"
  /\ LET filled == placed[k].filled + 1
     IN  placed' = [placed EXCEPT ![k].filled = filled,
                                  ![k].state = IF filled = OrderSize THEN "done" ELSE "open"]
  /\ trades' = Append(trades, k)
  /\ fromVenue' \in Told(Entry(placed[k].id, Len(trades) + 1))
  /\ UNCHANGED <<clientVars, link, toVenue, venue, trouble, seq, table, epoch, emitted>>

OkxNext ==
  \/ WsNext /\ UNCHANGED orderVars
  \/ \E b \in Book : Submit(b)
  \/ DispatchUpdates \/ Restart
  \/ VenueAcceptsOrder \/ VenueRejectsOrder
  \/ \E k \in DOMAIN placed : VenueExecutes(k)

OkxSpec == OkxInit /\ [][OkxNext]_okxVars

\* The tasks of a process that keeps running, and a venue that answers.
ClientRuns ==
  \/ /\ Connect \/ Wake \/ SessionEnds \/ ReadTimeout \/ DispatchLoginAck \/ DispatchError
     /\ UNCHANGED orderVars
  \/ DispatchUpdates
VenueAnswers ==
  \/ VenueAcceptsLogin /\ UNCHANGED orderVars
  \/ VenueSubscribes /\ UNCHANGED orderVars
  \/ VenueAcceptsOrder \/ VenueRejectsOrder

FairOkxSpec == OkxSpec /\ WF_okxVars(ClientRuns) /\ WF_okxVars(VenueAnswers)

-----------------------------------------------------------------------------
(* Properties *)

Order == [book : Book, id : Book \X Nat, epoch : 0..MaxRestarts,
          state : {"sent", "open", "done", "rejected"}, filled : 0..OrderSize]

OkxTypeOK ==
  /\ WsTypeOK
  /\ seq \in 0..Len(placed) /\ epoch \in 0..MaxRestarts
  /\ placed \in Seq(Order)
  /\ DOMAIN table \subseteq Book \X (1..seq)
  /\ \A id \in DOMAIN table : table[id] \in DOMAIN placed
  /\ trades \in Seq(DOMAIN placed)
  /\ emitted \subseteq [trade : DOMAIN trades, order : DOMAIN placed, epoch : 0..epoch]

Executed(fill) == trades[fill.trade]

\* Every fill that reaches the log is booked on the book whose order executed,
\* also one that comes late, after a restart has handed its client order id out
\* again: the id begins with the book.
FillOfItsBook ==
  \A fill \in emitted : placed[fill.order].book = placed[Executed(fill)].book

\* ... and it is the fill of its very order, with that order's side and instrument,
\* if this process has placed it.  A late fill of an earlier process takes those of
\* the new order that has the same id; what is ignored is left to the backstop.
FillOfItsOrder ==
  \A fill \in emitted :
    placed[Executed(fill)].epoch = fill.epoch => fill.order = Executed(fill)
=============================================================================
