------------------------------ MODULE Recovery ------------------------------
(***************************************************************************)
(* The life of the primary engine as far as its durable state goes: start  *)
(* (LogWriter, then recover_state of hobo/log/recovery.py), events         *)
(* recorded by StateStore.record, the periodic commit and snapshot tasks   *)
(* of hobo/application.py, orderly shutdown, kills at any point and power  *)
(* losses.  The log underneath is EventLog, which LogWriter implements.    *)
(***************************************************************************)
EXTENDS EventLog, RiskFold, FiniteSets

CONSTANTS
  Price,          \* what a mark may be
  KeepLast,       \* DEFAULT_KEEP_LAST snapshots survive a prune
  MaxLog,         \* bound: events in the log
  MaxLosses,      \* bound: power losses
  Worlds          \* the surroundings to consider: each one a set of Hazards

\* What a run of the engine may meet, besides kills: a market client that start-up
\* asks for a mark, an operator who adds books to the roster between runs or takes
\* them off it, power losses.
Hazards == {"marketClient", "booksAdded", "booksDropped", "powerLosses"}

ASSUME RecoveryAssumption ==
  /\ Event \subseteq Payload /\ Audit \in Event /\ Price \subseteq Int
  /\ KeepLast \in Nat \ {0} /\ MaxLog \in Nat /\ MaxLosses \in Nat
  /\ Worlds \subseteq SUBSET Hazards

VARIABLES
  pc,               \* down, recovered, up, stopping; failed: start-up raised
  state,            \* the State object of the running engine
  warnings,         \* reconciliation warnings start-up has yet to record
  lastSnapshotSeq,  \* Application._last_snapshot_seq
  snaps,            \* the snapshot files: states, one per last_seq
  seedBooks,        \* the books the desk seed file names
  losses,           \* power losses so far
  outrun,           \* history: a power loss has left a snapshot ahead of the log
  world             \* the hazards of this behaviour; never changes

engineVars == <<pc, state, warnings, lastSnapshotSeq>>
lossVars == <<losses, outrun>>
recVars == <<log, durable, engineVars, snaps, seedBooks, lossVars, world>>

NoState == Fresh({})
MarkClient == "marketClient" \in world
BooksAdded == "booksAdded" \in world
BooksDropped == "booksDropped" \in world
PowerLosses == "powerLosses" \in world
Running == pc \in {"recovered", "up", "stopping"}

RecInit ==
  /\ AInit
  /\ pc = "down" /\ state = NoState /\ warnings = 0 /\ lastSnapshotSeq = 0
  /\ snaps = {} /\ losses = 0 /\ outrun = FALSE
  /\ world \in Worlds
  /\ seedBooks \in IF BooksAdded \/ BooksDropped THEN SUBSET Book \ {{}} ELSE {Book}

-----------------------------------------------------------------------------
(* Start-up *)

Latest == CHOOSE s \in snaps : \A t \in snaps : t.lastSeq <= s.lastSeq
StartingState == IF snaps = {} THEN Fresh(seedBooks) ELSE Latest

\* Mutant: the roster is what the seed says.
OnboardOnlySeed(s) == [s EXCEPT !.books = seedBooks]

\* _reconcile_books: books new in the seed join flat, dropped ones stay.
OnboardBooks(s) == [s EXCEPT !.books = @ \cup seedBooks]
BookWarnings(s) == Cardinality(seedBooks \ s.books) + Cardinality(s.books \ seedBooks)

\* _reconcile_mark_freshness: an instrument with no mark, or an old one, takes
\* the REST price.  Nothing is logged and no high-water mark is touched.
NeverMarked(s) == {i \in Instrument : s.marks[i] = 0}
SeedMarks(s, stale, price) ==
  [s EXCEPT !.marks = [i \in Instrument |-> IF i \in stale THEN price ELSE @[i]]]

\* The writer opens first and commits the tail a kill may have left, so the
\* replay, which stops at the committed offset, reads all of the log.  There is
\* nothing to commit if the mapped header counts everything already, although a
\* kill between the claim of a commit and its flush has left the medium behind.
OpenLog == durable' \in {durable, Len(log)} /\ UNCHANGED log

Recover ==
  /\ pc \in {"down", "failed"}
  /\ ~ ReplayRaises(StartingState, log)
  /\ OpenLog
  /\ \E stale \in IF MarkClient THEN SUBSET Instrument ELSE {{}} :
     \E price \in Price :
       LET replayed == Replay(StartingState, log)
       IN  /\ MarkClient => NeverMarked(replayed) \subseteq stale
           /\ state' = SeedMarks(OnboardBooks(replayed), stale, price)
           /\ warnings' = BookWarnings(replayed) + Cardinality(stale)
  /\ pc' = "recovered"
  /\ UNCHANGED <<lastSnapshotSeq, snaps, seedBooks, lossVars, world>>

\* KeyError: an event of a book that the roster does not have with which the replay
\* starts, the snapshot's if there is one and otherwise the seed's.
RecoverRaises ==
  /\ pc = "down"
  /\ ReplayRaises(StartingState, log)
  /\ OpenLog
  /\ pc' = "failed"
  /\ UNCHANGED <<state, warnings, lastSnapshotSeq, snaps, seedBooks, lossVars, world>>

\* Mutant: off by one in the sequence number of an event.
LastSeq == Len(log)

NextSeq == Len(log) + 1

\* StateStore.record: append, then fold.  Growing the file may flush, as in
\* EventLog.
StoreRecord(e) ==
  /\ Len(log) < MaxLog
  /\ AAppend(e)
  /\ state' = ApplyEvent(state, NextSeq, e)

RecordWarning ==
  /\ pc = "recovered" /\ warnings > 0
  /\ StoreRecord(Audit)
  /\ warnings' = warnings - 1
  /\ UNCHANGED <<pc, lastSnapshotSeq, snaps, seedBooks, lossVars, world>>

Serve ==
  /\ pc = "recovered" /\ warnings = 0
  /\ pc' = "up"
  /\ lastSnapshotSeq' = state.lastSeq
  /\ UNCHANGED <<log, durable, state, warnings, snaps, seedBooks, lossVars, world>>

-----------------------------------------------------------------------------
(* Running *)

Record(e) ==
  /\ pc = "up"
  /\ ~ Raises(state, e)
  /\ StoreRecord(e)
  /\ UNCHANGED <<pc, warnings, lastSnapshotSeq, snaps, seedBooks, lossVars, world>>

Commit ==
  /\ pc = "up"
  /\ durable < Len(log)
  /\ durable' = Len(log)
  /\ UNCHANGED <<log, engineVars, snaps, seedBooks, lossVars, world>>

\* Mutant: prune keeps the oldest.
PruneNewest(files) ==
  {s \in files : Cardinality({t \in files : t.lastSeq < s.lastSeq}) < KeepLast}

Prune(files) ==
  {s \in files : Cardinality({t \in files : t.lastSeq > s.lastSeq}) < KeepLast}

\* write_snapshot: an atomic replace of the file of that last_seq, then prune.
\* Both halves are on the medium when it returns.
WriteSnapshot == snaps' = Prune({s \in snaps : s.lastSeq # state.lastSeq} \cup {state})

SnapshotIfChanged ==
  /\ pc = "up"
  /\ state.lastSeq # lastSnapshotSeq
  /\ WriteSnapshot
  /\ lastSnapshotSeq' = state.lastSeq
  /\ UNCHANGED <<log, durable, pc, state, warnings, seedBooks, lossVars, world>>

\* _teardown: tasks are cancelled, a last snapshot, then the log is closed.
TeardownSnapshot ==
  /\ pc = "up"
  /\ WriteSnapshot
  /\ pc' = "stopping"
  /\ UNCHANGED <<log, durable, state, warnings, lastSnapshotSeq, seedBooks, lossVars, world>>

GoDown ==
  /\ pc' = "down" /\ state' = NoState /\ warnings' = 0 /\ lastSnapshotSeq' = 0
  /\ UNCHANGED <<snaps, seedBooks, world>>

\* close commits; where OpenLog found nothing to commit and nothing was recorded
\* since, it flushes nothing, which leaves what a Kill here leaves.
TeardownClose ==
  /\ pc = "stopping"
  /\ durable' = Len(log)
  /\ GoDown
  /\ UNCHANGED <<log, lossVars>>

-----------------------------------------------------------------------------
(* The environment *)

Kill ==
  /\ Running
  /\ GoDown
  /\ UNCHANGED <<log, durable, lossVars>>

PowerLoss ==
  /\ PowerLosses /\ losses < MaxLosses
  /\ losses' = losses + 1
  /\ ALoseTail
  /\ outrun' = (outrun \/ \E s \in snaps : s.lastSeq > Len(log'))
  /\ GoDown

\* The desk seed file names other books the next time.
EditSeed ==
  /\ ~ Running
  /\ seedBooks' \in SUBSET Book \ {{}, seedBooks}
  /\ BooksAdded \/ seedBooks' \subseteq seedBooks
  /\ BooksDropped \/ seedBooks \subseteq seedBooks'
  /\ UNCHANGED <<log, durable, engineVars, snaps, lossVars, world>>

RecNext ==
  \/ Recover \/ RecoverRaises \/ RecordWarning \/ Serve
  \/ \E e \in Event : Record(e)
  \/ Commit \/ SnapshotIfChanged \/ TeardownSnapshot \/ TeardownClose
  \/ Kill \/ PowerLoss \/ EditSeed

RecSpec == RecInit /\ [][RecNext]_recVars

-----------------------------------------------------------------------------
(* Properties *)

RecTypeOK ==
  /\ log \in Seq(Event)
  /\ durable \in 0..Len(log)
  /\ pc \in {"down", "failed", "recovered", "up", "stopping"}
  /\ state.lastSeq \in 0..MaxLog
  /\ warnings \in Nat
  /\ lastSnapshotSeq \in 0..MaxLog
  /\ Cardinality(snaps) <= KeepLast
  /\ seedBooks \in SUBSET Book
  /\ outrun \in BOOLEAN

\* The fold of the whole log by an engine that had every book from the start.
Reference == Replay(Fresh(Book), log)

\* The engine's positions, limits and kill switches are those of the log, event
\* for event, whichever snapshot it started from, whatever kills, prunes and
\* roster edits came before: nothing is folded twice, and nothing is skipped.
\* The log is the source of truth also for the number the next event gets.  The
\* one exception is a power loss that leaves a snapshot ahead of the log: other
\* power losses are as harmless as kills.
PositionsAreFold ==
  (Running /\ ~ outrun) =>
    LET ref == Reference
    IN  /\ state.lastSeq = Len(log)
        /\ state.limit = ref.limit
        /\ state.kill = ref.kill
        /\ \A b \in state.books, i \in Instrument :
             /\ state.pos[b][i].qty = ref.pos[b][i].qty
             /\ state.pos[b][i].cash = ref.pos[b][i].cash

\* A running engine has every book that ever traded in its roster: a position is
\* never silently dropped, whatever the seed file says by now.  (With a snapshot
\* ahead of the log the first events of a new book may pass for old ones.)
TradedBooksKept ==
  (Running /\ ~ outrun) =>
    \A n \in DOMAIN log : log[n].type = "FILL" => log[n].scope \in state.books

\* Without a mark seeded at start-up, and with no snapshot ahead of the log,
\* everything the gate reads (positions, funding, high-water marks, marks) is a
\* pure function of the log.
PureReplay == ~ MarkClient /\ ~ outrun
StateIsFold ==
  (Running /\ PureReplay) => state = [Reference EXCEPT !.books = state.books]

\* Every snapshot on disk is the fold of a prefix of the present log, so any of
\* them is a sound starting point, unless a power loss has left one ahead.
SameBooks(s, t) ==
  /\ s.kill = t.kill
  /\ \A b \in Book, i \in Instrument :
       s.pos[b][i].qty = t.pos[b][i].qty /\ s.pos[b][i].cash = t.pos[b][i].cash
  /\ PureReplay => s.pos = t.pos /\ s.hwm = t.hwm
SnapshotsArePrefixes ==
  /\ RecTypeOK
  /\ ~ outrun => \A s \in snaps :
       s.lastSeq <= Len(log) /\ SameBooks(s, Replay(Fresh(s.books), SubSeq(log, 1, s.lastSeq)))

\* A start never fails on the log the engine itself wrote, whatever books were added
\* to the seed ("onboarded fresh") or dropped from it ("kept but flagged") since.
StartSucceeds == pc # "failed"
=============================================================================
