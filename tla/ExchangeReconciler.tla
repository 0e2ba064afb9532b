-------------------------- MODULE ExchangeReconciler --------------------------
(***************************************************************************)
(* The thread that compares the engine's positions with the exchange's     *)
(* account for the dashboard (core/exchange_reconciler.py).  It shares the *)
(* risk state with the engine loop and takes no lock: between two entries  *)
(* of the book's positions the loop may fold a fill.                       *)
(*                                                                         *)
(* Abstractions: one book; a quantity is a number of fills, so `matched`   *)
(* within the tolerance is equality; the balance is left out, except that  *)
(* reading it may fail.                                                    *)
(***************************************************************************)
EXTENDS Integers, FiniteSets

CONSTANT Instr

VARIABLES
  positions,  \* book.positions: an entry is made by the instrument's first fill
  account,    \* external: the exchange's quantities
  poller,     \* the thread: between two polls, fetched, comparing, or dead of an exception
  scan,       \* its locals: exchange_positions, engine, and the iterator's size
  latest,     \* _latest
  polled      \* the reconciler's _stop is not set: the thread polls again

reconVars == <<positions, account, poller, scan, latest, polled>>

NoEntries == [i \in {} |-> 0]
NoScan == [exchange |-> NoEntries, engine |-> NoEntries, size |-> 0]

ReconInit ==
  /\ positions = NoEntries
  /\ account = [i \in Instr |-> 0]
  /\ poller = "idle" /\ scan = NoScan
  /\ latest = [kind |-> "none", diverging |-> {}]
  /\ polled = TRUE

With(f, i, q) == [j \in DOMAIN f \cup {i} |-> IF j = i THEN q ELSE f[j]]
Qty(f, i) == IF i \in DOMAIN f THEN f[i] ELSE 0

\* What the loop's fold of a fill does to the shared positions.
FoldPosition(i) ==
  /\ positions' = With(positions, i, Qty(positions, i) + 1)
  /\ UNCHANGED <<account, poller, scan, latest, polled>>

AccountMoves(i) ==
  /\ account' = [account EXCEPT ![i] = @ + 1]
  /\ UNCHANGED <<positions, poller, scan, latest, polled>>

-----------------------------------------------------------------------------
(* _loop and _poll *)

\* The positions are answered, and after them the balance.
ReadAccount ==
  /\ poller = "idle" /\ polled
  /\ poller' = "fetched"
  /\ scan' = [NoScan EXCEPT !.exchange = [i \in {j \in Instr : account[j] # 0} |-> account[i]]]
  /\ UNCHANGED <<positions, account, latest, polled>>

\* The iteration over the book's positions begins.
BeginScan ==
  /\ poller = "fetched"
  /\ poller' = "comparing"
  /\ scan' = [scan EXCEPT !.size = Cardinality(DOMAIN positions)]
  /\ UNCHANGED <<positions, account, latest, polled>>

\* The one failure the loop is protected from.
ReadFails ==
  /\ poller = "idle" /\ polled
  /\ latest' = [kind |-> "failed", diverging |-> {}]
  /\ UNCHANGED <<positions, account, poller, scan, polled>>

SameSize == Cardinality(DOMAIN positions) = scan.size

CopyEntry(i) ==
  /\ poller = "comparing" /\ SameSize
  /\ i \in DOMAIN positions \ DOMAIN scan.engine
  /\ scan' = [scan EXCEPT !.engine = With(@, i, positions[i])]
  /\ UNCHANGED <<positions, account, poller, latest, polled>>

\* "dictionary changed size during iteration", outside the try: nobody sees the
\* thread end, and the dashboard goes on showing the last report.
PollerDies ==
  /\ poller = "comparing" /\ ~ SameSize
  /\ poller' = "dead"
  /\ UNCHANGED <<positions, account, scan, latest, polled>>

\* Mutant: only what the engine has traded is compared.
ComparedEngineOnly == DOMAIN scan.engine

Compared == DOMAIN scan.engine \cup DOMAIN scan.exchange

Report ==
  /\ poller = "comparing" /\ SameSize /\ DOMAIN scan.engine = DOMAIN positions
  /\ latest' = [kind |-> "report",
                diverging |-> {i \in Compared : Qty(scan.engine, i) # Qty(scan.exchange, i)}]
  /\ poller' = "idle" /\ scan' = NoScan
  /\ UNCHANGED <<positions, account, polled>>

Poll == ReadAccount \/ BeginScan \/ (\E i \in Instr : CopyEntry(i)) \/ PollerDies \/ Report

-----------------------------------------------------------------------------
(* Properties *)

ReconTypeOK ==
  /\ DOMAIN positions \subseteq Instr
  /\ poller \in {"idle", "fetched", "comparing", "dead"}
  /\ DOMAIN scan = {"exchange", "engine", "size"} 
  /\ DOMAIN scan.engine \subseteq DOMAIN positions /\ DOMAIN scan.exchange \subseteq Instr
  /\ latest.kind \in {"none", "failed", "report"} /\ latest.diverging \subseteq Instr
  /\ polled \in BOOLEAN

Diverging == {i \in Instr : Qty(positions, i) # account[i]}
=============================================================================
