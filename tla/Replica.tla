------------------------------ MODULE Replica ------------------------------
(***************************************************************************)
(* The shadow replica: hobo/replica/tail.py, ReplicaApplication of         *)
(* hobo/application.py and _build_replica of hobo/builder.py, reading the  *)
(* log file while LogWriter writes it in another process.                  *)
(*                                                                         *)
(* The replica shares the machine, and so the page cache, with the primary *)
(* (docs/running.md starts both in one checkout).  A power loss takes both *)
(* down; it is left to LogWriter and Recovery, and NeverAhead says what it *)
(* would leave behind.                                                     *)
(***************************************************************************)
EXTENDS LogWriter, RiskFold

CONSTANTS
  Roster,        \* the books of the replica's desk seed
  Price,         \* what fetch_mark may return at start-up
  Builds,        \* what ReplicaTail may be handed: a state just "recovered", as
                 \* _build_replica does, or a "fresh" one, as the tests do
  MaxFailures    \* bound: polls that raise, per start of the replica

ASSUME ReplicaAssumption ==
  /\ Event \subseteq Payload /\ Price \subseteq Int /\ Roster \subseteq Book
  /\ Builds \subseteq {"recovered", "fresh"} /\ MaxFailures \in Nat

VARIABLES
  snap,     \* the newest snapshot of the primary, or NoSnap
  rpc,      \* off, waiting, tailing, polling; failed: start-up raised
  rstate,   \* the State the replica serves
  base,     \* history: the state that ReplicaTail was handed
  folded,   \* ReplicaTail._folded_offset
  mapped,   \* length of ReplicaTail._mm
  target,   \* the committed offset the poll in progress has read
  failures  \* polls that raised since the replica started

tailVars == <<rpc, rstate, base, folded, mapped, target, failures>>
repVars == <<logVars, snap, tailVars>>

NoSnap == Fresh({})

RepInit ==
  /\ LogInit
  /\ snap = NoSnap
  /\ rpc = "off" /\ rstate = Fresh(Roster) /\ base = rstate
  /\ folded = 0 /\ mapped = 0 /\ target = 0 /\ failures = 0

\* The events in slots 1..n, as the mapping shows them.
EventsUpTo(n) == [i \in 1..n |-> cache[i].event]

-----------------------------------------------------------------------------
(* The primary *)

Primary ==
  /\ \/ CreateFile \/ WriteHeader \/ SyncHeader \/ Open
     \/ \E e \in Event : AppendFrame(e)
     \/ CommitFlush \/ CommitClaim \/ CommitSync \/ Close
     \/ Crash
  /\ UNCHANGED <<snap, tailVars>>

\* write_snapshot in the primary, whose state is the fold of all it appended.
PrimarySnapshot ==
  /\ pc = "up" /\ w.lastSeq > snap.lastSeq
  /\ snap' = Replay(Fresh(Book), EventsUpTo(w.writeOffset))
  /\ UNCHANGED <<logVars, tailVars>>

-----------------------------------------------------------------------------
(* The replica *)

\* recover_state for the replica: snapshot or fresh, the committed events that
\* are newer, the roster, and a REST price for marks that are missing or old.
StartingState == IF snap = NoSnap THEN Fresh(Roster) ELSE snap
Recovered(stale, price) ==
  LET replayed == Replay(StartingState, EventsUpTo(hdr.committed))
  IN  [replayed EXCEPT
         !.books = @ \cup Roster,
         !.marks = [i \in Instrument |->
                      IF i \in stale \/ @[i] = 0 THEN price ELSE @[i]]]

\* _build_replica reads the log before anything waits for the file: no file, an
\* unreadable header and a fill of an unknown book each raise.
Buildable == Readable(hdr) /\ ~ ReplayRaises(StartingState, EventsUpTo(hdr.committed))

BuildRecovered ==
  /\ rpc = "off" /\ "recovered" \in Builds /\ Buildable
  /\ \E stale \in SUBSET Instrument, price \in Price : rstate' = Recovered(stale, price)
  /\ base' = rstate'
  /\ rpc' = "waiting"
  /\ UNCHANGED <<logVars, snap, folded, mapped, target, failures>>

BuildRaises ==
  /\ rpc = "off" /\ "recovered" \in Builds /\ ~ Buildable
  /\ rpc' = "failed"
  /\ UNCHANGED <<logVars, snap, rstate, base, folded, mapped, target, failures>>

BuildFresh ==
  /\ rpc = "off" /\ "fresh" \in Builds
  /\ rstate' = Fresh(Roster) /\ base' = rstate'
  /\ rpc' = "waiting"
  /\ UNCHANGED <<logVars, snap, folded, mapped, target, failures>>

FileLength == IF Readable(hdr) THEN hdr.capacity ELSE InitialCapacity

\* _wait_for_log_file, then ReplicaTail.__init__.
StartTail ==
  /\ rpc = "waiting" /\ hdr # Absent
  /\ rpc' = "tailing"
  /\ mapped' = FileLength
  /\ folded' = 0
  /\ UNCHANGED <<logVars, snap, rstate, base, target, failures>>

\* Mutant: the tail trusts whatever decodes past the committed offset.
ReadableOffset == CHOOSE n \in 0..MaxSlots : ScanStopsAt(cache, hdr, n)

CommittedOffset == hdr.committed

\* Mutant: a poll waits for two events.
TwoBehind == CommittedOffset > folded + 1

Behind == CommittedOffset > folded

Remap == mapped' = IF CommittedOffset > mapped THEN FileLength ELSE mapped

\* poll_once reads the header, and maps the file again if it has outgrown the
\* mapping.  A header that is not there yet raises, is logged, and changes
\* nothing.
PollHeader ==
  /\ rpc = "tailing" /\ Readable(hdr)
  /\ Behind
  /\ target' = CommittedOffset
  /\ Remap
  /\ rpc' = "polling"
  /\ UNCHANGED <<logVars, snap, rstate, base, folded, failures>>

\* The batch folds one event after the other, with no look at sequence numbers.
\* If one raises, those before it stay folded, and the offset stays put.
FoldFrom(s, m, n) ==
  LET after[k \in m..n] ==
        IF k = m THEN s
        ELSE LET acc == after[k - 1] IN ApplyEvent(acc, cache[k].seq, cache[k].event)
  IN  after[n]

FirstRaising(n) ==
  /\ n \in (folded + 1)..target
  /\ Raises(rstate, cache[n].event)
  /\ \A k \in (folded + 1)..(n - 1) : ~ Raises(rstate, cache[k].event)

\* Mutant: the last event folded is folded again.
FoldBatchOverlap == FoldFrom(rstate, IF folded = 0 THEN 0 ELSE folded - 1, target)

FoldBatch == FoldFrom(rstate, folded, target)
NextOffset == target

BatchFolds == \A n \in (folded + 1)..target : ~ Raises(rstate, cache[n].event)

PollFold ==
  /\ rpc = "polling" /\ BatchFolds
  /\ rstate' = FoldBatch
  /\ folded' = NextOffset
  /\ rpc' = "tailing"
  /\ target' = 0
  /\ UNCHANGED <<logVars, snap, base, mapped, failures>>

PollRaises ==
  /\ rpc = "polling" /\ failures < MaxFailures
  /\ failures' = failures + 1
  /\ \E n \in (folded + 1)..target :
       /\ FirstRaising(n)
       /\ rstate' = FoldFrom(rstate, folded, n - 1)
  /\ rpc' = "tailing"
  /\ target' = 0
  /\ UNCHANGED <<logVars, snap, base, folded, mapped>>

\* A signal, or a kill, and a later start by hand.
StopReplica ==
  /\ rpc \in {"waiting", "tailing", "polling", "failed"}
  /\ rpc' = "off" /\ rstate' = Fresh(Roster) /\ base' = rstate'
  /\ folded' = 0 /\ mapped' = 0 /\ target' = 0 /\ failures' = 0
  /\ UNCHANGED <<logVars, snap>>

RepNext ==
  \/ Primary \/ PrimarySnapshot
  \/ BuildRecovered \/ BuildRaises \/ BuildFresh
  \/ StartTail \/ PollHeader \/ PollFold \/ PollRaises \/ StopReplica

RepSpec == RepInit /\ [][RepNext]_repVars

\* PollFold or PollRaises, by their guards and their effect on rpc.
PollDone ==
  /\ rpc = "polling" /\ (BatchFolds \/ failures < MaxFailures)
  /\ rpc' = "tailing"

\* The tail loop sleeps 20 ms between polls for as long as the replica runs.
FairRepSpec ==
  /\ RepSpec
  /\ WF_repVars(StartTail) /\ WF_repVars(PollHeader)
  /\ WF_rpc(PollDone)

-----------------------------------------------------------------------------
(* Properties *)

RepTypeOK ==
  /\ rpc \in {"off", "waiting", "tailing", "polling", "failed"}
  /\ folded \in 0..MaxSlots /\ mapped \in 0..MaxSlots /\ target \in 0..MaxSlots

\* "It can never get ahead of what a primary restart would see as durable":
\* every event the tail has folded, or is about to, is on the medium as a whole
\* frame, in reach of the scan of the primary's next start, power loss or not;
\* also while a commit has claimed it in the mapped header only.  And no poll
\* decodes past the end of its mapping, however the primary has grown the file
\* between the two halves of the poll.
NeverAhead ==
  /\ RepTypeOK
  /\ rpc \in {"tailing", "polling"} =>
       \A i \in 1..Higher(folded, target) : IsFrame(disk[i]) /\ disk[i] = cache[i]
  /\ rpc = "polling" => target <= mapped

\* Between polls the served state is the one ReplicaTail was handed with exactly
\* the events before the folded offset folded into it, each once, in order; so a
\* fresh one makes the fold of the committed log, and one that was recovered from
\* the log has them twice (CaughtUpAgrees).  (A poll that raised has folded
\* the start of a batch that the next poll folds again.)
TailIsFold ==
  /\ rstate.books \subseteq Book /\ rstate.lastSeq \in 0..MaxSlots
  /\ (rpc = "tailing" /\ failures = 0) => rstate = FoldFrom(base, 0, folded)

\* The positions served are those of the committed log: what comparing
\* :9091/status with :9090/status should show once the replica has caught up
\* (and serves nothing newer, which a snapshot at its start may have held).
CaughtUpAgrees ==
  (rpc = "tailing" /\ Readable(hdr) /\ folded = hdr.committed /\ rstate.lastSeq = folded) =>
    rstate.pos = FoldFrom(Fresh(Book), 0, folded).pos

\* Whatever the header shows as committed is folded a little later, as long as
\* the replica keeps running and no poll raises.
TailCatchesUp ==
  \A n \in 1..MaxSlots :
    (Readable(hdr) /\ hdr.committed >= n /\ rpc = "tailing")
      ~> (folded >= n \/ rpc = "off" \/ failures > 0)
=============================================================================
