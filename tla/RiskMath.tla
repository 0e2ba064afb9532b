------------------------------ MODULE RiskMath ------------------------------
(***************************************************************************)
(* simulate_fill of hobo/risk/math.py, applied to one position by fill     *)
(* after fill as _apply_fill of hobo/risk/fold.py does, next to a cash     *)
(* book that only knows what each fill paid.  RiskFold keeps positions as  *)
(* such a cash book; this module shows that the two agree.                 *)
(*                                                                         *)
(* Prices are whole multiples of Scale, which every quantity within reach  *)
(* divides once per fill: average entry prices come out whole, and the     *)
(* model's arithmetic is exact where the program rounds.  Multiplier 1.    *)
(***************************************************************************)
EXTENDS Integers

CONSTANTS
  MaxQty,     \* bound: contracts held, either side
  MaxFills,   \* bound: fills
  Quote,      \* the prices, in whole units
  QtyMultiple \* a common multiple of 1..MaxQty

ASSUME MathAssumption ==
  /\ MaxQty \in Nat \ {0} /\ MaxFills \in Nat
  /\ Quote \subseteq Nat
  /\ QtyMultiple \in Nat /\ \A q \in 1..MaxQty : QtyMultiple % q = 0

\* What prices are multiples of if n more fills may divide them.
Grain[n \in 0..MaxFills] == IF n = 0 THEN 1 ELSE QtyMultiple * Grain[n - 1]
Scale == Grain[MaxFills]
Price == {q * Scale : q \in Quote}

VARIABLES
  pos,     \* qty, avg_entry_price and realized_pnl of a Position
  cash,    \* reference: what the fills moved in and out
  paid,    \* reference: prices paid for the side held now
  count    \* fills so far

mathVars == <<pos, cash, paid, count>>

Abs(n) == IF n < 0 THEN -n ELSE n
UnrealizedPnl(qty, entry, mark) == qty * (mark - entry)

-----------------------------------------------------------------------------
SameDirection(qty, delta) == qty = 0 \/ ((qty > 0) = (delta > 0))

\* Adding to a position averages the entry price.
AveragedEntry(qty, entry, delta, price) ==
  IF qty + delta = 0 THEN entry
  ELSE (Abs(qty) * entry + Abs(delta) * price) \div Abs(qty + delta)

\* Mutant: what flips the side keeps its entry price.
ReducedEntryKept(qty, entry, delta, price) == IF qty + delta = 0 THEN 0 ELSE entry

\* Reducing keeps it, closing clears it, and what flips the side opens at price.
ReducedEntry(qty, entry, delta, price) ==
  IF Abs(delta) > Abs(qty) THEN price
  ELSE IF qty + delta = 0 THEN 0
  ELSE entry

\* Mutant: the whole delta counts as closed.
ClosedAmountAll(qty, delta) == (IF qty > 0 THEN 1 ELSE -1) * Abs(delta)

ClosedAmount(qty, delta) ==
  (IF qty > 0 THEN 1 ELSE -1) * (IF Abs(delta) < Abs(qty) THEN Abs(delta) ELSE Abs(qty))

SimulateFill(qty, entry, delta, price) ==
  IF SameDirection(qty, delta)
  THEN [qty |-> qty + delta, entry |-> AveragedEntry(qty, entry, delta, price), realized |-> 0]
  ELSE [qty |-> qty + delta, entry |-> ReducedEntry(qty, entry, delta, price),
        realized |-> UnrealizedPnl(ClosedAmount(qty, delta), entry, price)]

MathInit ==
  /\ pos = [qty |-> 0, entry |-> 0, realized |-> 0]
  /\ cash = 0 /\ paid = {} /\ count = 0

ApplyFill(delta, price) ==
  LET after == SimulateFill(pos.qty, pos.entry, delta, price)
  IN  /\ count < MaxFills /\ Abs(after.qty) <= MaxQty
      /\ pos' = [qty |-> after.qty, entry |-> after.entry,
                 realized |-> pos.realized + after.realized]
      /\ cash' = cash - delta * price
      /\ paid' = IF SameDirection(pos.qty, delta) THEN paid \cup {price}
                 ELSE CASE Abs(delta) > Abs(pos.qty) -> {price}
                        [] Abs(delta) = Abs(pos.qty) -> {}
                        [] OTHER                     -> paid
      /\ count' = count + 1

MathNext == \E delta \in (-2 * MaxQty)..(2 * MaxQty) \ {0}, price \in Price : ApplyFill(delta, price)

MathSpec == MathInit /\ [][MathNext]_mathVars

-----------------------------------------------------------------------------
(* Properties *)

\* At every mark, realized plus unrealized PnL is the cash moved plus what the
\* position is worth: no order of adding, reducing, closing and flipping makes
\* or loses money.
PnlIsCash ==
  \A mark \in Price \cup {0} :
    pos.realized + UnrealizedPnl(pos.qty, pos.entry, mark) = cash + pos.qty * mark

\* The average entry price lies among the prices paid for the side now held: a
\* flip does not drag the old side's entry along, and a flat position has none.
EntryAmongPaid ==
  IF pos.qty = 0 THEN pos.entry = 0
  ELSE /\ \E p \in paid : p <= pos.entry
       /\ \E p \in paid : pos.entry <= p
=============================================================================
