------------------------------ MODULE EventLog ------------------------------
(***************************************************************************)
(* What the append-only event log of hobo/log promises to the engine       *)
(* above it, with no files, pages or headers: a sequence of events that    *)
(* only grows, except that a power loss may cut an uncommitted tail off,   *)
(* and a durable prefix that nothing ever cuts (the docstring of           *)
(* hobo/log/writer.py: "a crash loses at most the uncommitted tail").      *)
(* LogWriter implements this module.                                       *)
(***************************************************************************)
EXTENDS Naturals, Sequences

CONSTANT Event

VARIABLES
  log,       \* the events a reopening of the log would return, in order
  durable    \* how many of them the on-disk header vouches for

alogVars == <<log, durable>>

AInit ==
  /\ log = <<>>
  /\ durable = 0

\* LogWriter.append: the event is part of the log at once, and not durable yet.
\* An append that grows the file flushes it, which can complete a commit that a
\* kill had cut short, so earlier events may become durable with it.
AAppend(e) ==
  /\ log' = Append(log, e)
  /\ durable' \in durable..Len(log)

\* LogWriter.commit, or the operating system writing the header page early.
AMakeDurable ==
  /\ durable' \in (durable + 1)..Len(log)
  /\ UNCHANGED log

\* A power loss keeps the durable prefix and perhaps some of the tail.
ALoseTail ==
  /\ \E n \in durable..Len(log) : log' = SubSeq(log, 1, n)
  /\ UNCHANGED durable

ANext ==
  \/ \E e \in Event : AAppend(e)
  \/ AMakeDurable
  \/ ALoseTail

ASpec == AInit /\ [][ANext]_alogVars
=============================================================================
