----------------------------- MODULE LogWriter -----------------------------
(***************************************************************************)
(* The single-writer memory-mapped event log: hobo/log/writer.py over the  *)
(* frames of hobo/log/format.py.                                           *)
(*                                                                         *)
(* The file exists twice.  `cache` and `hdr` are the pages as every        *)
(* process on the machine sees them (the mmap); `disk` and `dhdr` are what *)
(* is on the medium, and what is left after a power loss.  The kernel may  *)
(* write any dirty page back at any time (EarlyWriteback), in any order,   *)
(* and a frame that crosses a page boundary may reach the disk by half.    *)
(*                                                                         *)
(* Abstractions: every frame takes one slot, so offsets count frames; the  *)
(* payload of a frame is a member of Event; a slot that decode_frame_at    *)
(* rejects is Torn if it holds part of a frame and Zero if the ftruncate   *)
(* that made it is the last thing that wrote there; the file is as long as *)
(* its capacity.  MaxSlots bounds the file.                                *)
(***************************************************************************)
EXTENDS Integers

CONSTANTS
  Event,            \* what may be appended
  MaxSlots,         \* bound: the largest capacity a run grows the file to
  InitialCapacity,  \* DEFAULT_INITIAL_CAPACITY, in slots
  GrowthFactor,     \* DEFAULT_GROWTH_FACTOR
  EarlyWriteback    \* may the kernel write dirty pages back unasked?

ASSUME LogAssumption ==
  /\ MaxSlots \in Nat
  /\ InitialCapacity \in 1..MaxSlots
  /\ GrowthFactor \in Nat /\ GrowthFactor > 1
  /\ EarlyWriteback \in BOOLEAN

VARIABLES
  cache,   \* the data region, as mapped: one cell per slot
  hdr,     \* the header page, as mapped
  disk,    \* the data region on the medium
  dhdr,    \* the header page on the medium
  pc,      \* where the writing process is
  w        \* the fields of the LogWriter object while there is one

logVars == <<cache, hdr, disk, dhdr, pc, w>>

-----------------------------------------------------------------------------
(* Frames and the header page *)

Slots == 1..MaxSlots
Zero == [kind |-> "zero"]
Torn == [kind |-> "torn"]
Frame(seq, e) == [kind |-> "frame", seq |-> seq, event |-> e]
Cell == {Zero, Torn} \cup {Frame(s, e) : s \in Slots, e \in Event}
IsFrame(c) == c.kind = "frame"

\* is_new sees Absent; unpack_header raises CorruptLogError on Blank.
Absent == [state |-> "absent"]
Blank == [state |-> "blank"]
Header(capacity, committed, seq) ==
  [state |-> "ok", capacity |-> capacity, committed |-> committed, seq |-> seq]
HeaderPage ==
  {Absent, Blank}
    \cup {Header(c, n, s) : c \in 1..MaxSlots, n \in 0..MaxSlots, s \in 0..MaxSlots}
Readable(h) == h.state = "ok"

\* The n at which scan_ahead stops: every slot from the committed offset up to
\* n decodes, and the next one does not, or is past the capacity.  Sequence
\* numbers are not looked at.
ScanStopsAt(cells, h, n) ==
  /\ n \in h.committed..h.capacity
  /\ \A i \in (h.committed + 1)..n : IsFrame(cells[i])
  /\ n < h.capacity => ~ IsFrame(cells[n + 1])

\* Mutant: the scan finds the frames and forgets their numbers.
ScanSeqStale(cells, h, n) == h.seq

\* The sequence number scan_ahead returns: that of the last frame it read.
ScanSeq(cells, h, n) == IF n = h.committed THEN h.seq ELSE cells[n].seq

NoWriter == [writeOffset |-> 0, lastSeq |-> 0, committedOffset |-> 0, capacity |-> 0]

LogInit ==
  /\ cache = [i \in Slots |-> Zero]
  /\ hdr = Absent
  /\ disk = cache
  /\ dhdr = Absent
  /\ pc = "down"
  /\ w = NoWriter

\* mmap.flush and fsync: every page of the file is on the medium.
Sync == disk' = cache /\ dhdr' = hdr

-----------------------------------------------------------------------------
(* LogWriter.__init__ *)

\* Mutant: is_new is not looked at, and a file that exists is cut and zeroed.
CreateFileTruncating ==
  /\ pc = "down"
  /\ hdr' = Blank
  /\ pc' = "created"
  /\ UNCHANGED <<cache, disk, dhdr, w>>

\* is_new: os.open creates the file and ftruncate fills it with zeros.  The
\* file then has a size, with no header in it.
CreateFile ==
  /\ pc = "down" /\ hdr = Absent
  /\ hdr' = Blank
  /\ pc' = "created"
  /\ UNCHANGED <<cache, disk, dhdr, w>>

WriteHeader ==
  /\ pc = "created"
  /\ hdr' = Header(InitialCapacity, 0, 0)
  /\ pc' = "headed"
  /\ UNCHANGED <<cache, disk, dhdr, w>>

SyncHeader ==
  /\ pc = "headed"
  /\ Sync
  /\ pc' = "ready"
  /\ UNCHANGED <<cache, hdr, w>>

\* Mutant: no scan ahead.
OpenAtCommitted ==
  /\ pc = "ready" \/ (pc = "down" /\ Readable(hdr))
  /\ w' = [writeOffset |-> hdr.committed, lastSeq |-> hdr.seq,
            committedOffset |-> hdr.committed, capacity |-> hdr.capacity]
  /\ pc' = "up"
  /\ UNCHANGED <<cache, hdr, disk, dhdr>>

\* Map the file, read its header, scan ahead of it.  Frames found past the
\* committed offset are committed before the constructor returns.
Open ==
  /\ pc = "ready" \/ (pc = "down" /\ Readable(hdr))
  /\ \E n \in 0..MaxSlots :
       /\ ScanStopsAt(cache, hdr, n)
       /\ w' = [writeOffset |-> n, lastSeq |-> ScanSeq(cache, hdr, n),
                committedOffset |-> hdr.committed, capacity |-> hdr.capacity]
       /\ pc' = IF n = hdr.committed THEN "up" ELSE "recovering"
  /\ UNCHANGED <<cache, hdr, disk, dhdr>>

-----------------------------------------------------------------------------
(* append, with _ensure_capacity and _grow *)

\* Slots are whole frames, so one round of _grow always makes enough room.
MustGrow == w.writeOffset + 1 > w.capacity
HasRoom == MustGrow => w.capacity * GrowthFactor <= MaxSlots
EnsuredCapacity == IF MustGrow THEN w.capacity * GrowthFactor ELSE w.capacity

\* Mutant: the new capacity is not written in the header.
EnsureCapacityUnwritten ==
  /\ HasRoom
  /\ UNCHANGED hdr
  /\ IF MustGrow THEN Sync ELSE UNCHANGED <<disk, dhdr>>

\* _grow flushes the old mapping, then writes the new capacity in the header.
EnsureCapacity ==
  /\ HasRoom
  /\ hdr' = Header(EnsuredCapacity, hdr.committed, hdr.seq)
  /\ IF MustGrow THEN Sync ELSE UNCHANGED <<disk, dhdr>>

\* Mutant: off by one, the frame lands on the one before.
SlotBeforeLast == w.writeOffset

WriteSlot == w.writeOffset + 1

AppendFrame(e) ==
  /\ pc = "up"
  /\ EnsureCapacity
  /\ cache' = [cache EXCEPT ![WriteSlot] = Frame(w.lastSeq + 1, e)]
  /\ w' = [writeOffset |-> w.writeOffset + 1, lastSeq |-> w.lastSeq + 1,
            committedOffset |-> w.committedOffset, capacity |-> EnsuredCapacity]
  /\ UNCHANGED pc

-----------------------------------------------------------------------------
(* commit: _do_commit one system call at a time.  The writer is single     *)
(* threaded, so nothing is appended in between; a crash, the kernel and    *)
(* readers of the file do get in between.                                  *)

\* Mutant: the header is written before the data is flushed.
CommitUnflushed ==
  /\ \/ pc = "up" /\ w.writeOffset # w.committedOffset
     \/ pc = "recovering"
  /\ pc' = "flushed"
  /\ UNCHANGED <<cache, hdr, disk, dhdr, w>>

CommitFlush ==
  /\ \/ pc = "up" /\ w.writeOffset # w.committedOffset
     \/ pc = "recovering"
  /\ Sync
  /\ pc' = "flushed"
  /\ UNCHANGED <<cache, hdr, w>>

CommitClaim ==
  /\ pc = "flushed"
  /\ hdr' = Header(hdr.capacity, w.writeOffset, w.lastSeq)
  /\ pc' = "claimed"
  /\ UNCHANGED <<cache, disk, dhdr, w>>

CommitSync ==
  /\ pc = "claimed"
  /\ Sync
  /\ w' = [w EXCEPT !.committedOffset = w.writeOffset]
  /\ pc' = "up"
  /\ UNCHANGED <<cache, hdr>>

\* close() commits first: nothing is left uncommitted when the map is closed.
Close ==
  /\ pc = "up" /\ w.writeOffset = w.committedOffset
  /\ pc' = "down"
  /\ w' = NoWriter
  /\ UNCHANGED <<cache, hdr, disk, dhdr>>

-----------------------------------------------------------------------------
(* Failures and the kernel *)

\* kill -9, an unhandled exception: the page cache survives.
Crash ==
  /\ pc # "down"
  /\ pc' = "down"
  /\ w' = NoWriter
  /\ UNCHANGED <<cache, hdr, disk, dhdr>>

\* A kill in the middle of copying a frame into the mapping.
CrashMidAppend ==
  /\ pc = "up"
  /\ EnsureCapacity
  /\ cache' = [cache EXCEPT ![WriteSlot] = Torn]
  /\ pc' = "down"
  /\ w' = NoWriter

\* A file whose creation never reached the medium has no data either.
PowerLoss ==
  /\ disk' = IF dhdr = Absent THEN [i \in Slots |-> Zero] ELSE disk
  /\ cache' = disk'
  /\ hdr' = dhdr
  /\ pc' = "down"
  /\ w' = NoWriter
  /\ UNCHANGED dhdr

Writeback(i) ==
  /\ EarlyWriteback
  /\ disk[i] # cache[i]
  /\ \/ disk' = [disk EXCEPT ![i] = cache[i]]
     \/ IsFrame(cache[i]) /\ disk' = [disk EXCEPT ![i] = Torn]
  /\ UNCHANGED <<cache, hdr, dhdr, pc, w>>

WritebackHeader ==
  /\ EarlyWriteback
  /\ dhdr # hdr
  /\ dhdr' = hdr
  /\ UNCHANGED <<cache, hdr, disk, pc, w>>

-----------------------------------------------------------------------------
LogNext ==
  \/ CreateFile \/ WriteHeader \/ SyncHeader \/ Open
  \/ \E e \in Event : AppendFrame(e)
  \/ CommitFlush \/ CommitClaim \/ CommitSync \/ Close
  \/ Crash \/ CrashMidAppend \/ PowerLoss
  \/ \E i \in Slots : Writeback(i)
  \/ WritebackHeader

LogSpec == LogInit /\ [][LogNext]_logVars

-----------------------------------------------------------------------------
(* Properties *)

\* The LogWriter object exists: __init__ is past its scan.
Opened == pc \in {"up", "recovering", "flushed", "claimed"}

LogTypeOK ==
  /\ cache \in [Slots -> Cell]
  /\ disk \in [Slots -> Cell]
  /\ hdr \in HeaderPage
  /\ dhdr \in HeaderPage
  /\ pc \in {"down", "created", "headed", "ready"}
            \cup {"up", "recovering", "flushed", "claimed"}
  /\ w \in [writeOffset : 0..MaxSlots, lastSeq : 0..MaxSlots,
            committedOffset : 0..MaxSlots, capacity : 0..MaxSlots]

\* "Data is durable before the pointer that claims it": whatever a header
\* counts as committed is on the medium as whole frames in sequence, and reads
\* the same through the mapping, at every instant of append, grow and commit
\* and whatever the kernel wrote back by itself.
Vouches(h) ==
  /\ Readable(h)
  => /\ h.committed <= h.capacity
     /\ h.seq = h.committed
     /\ \A i \in 1..h.committed :
          /\ IsFrame(disk[i])
          /\ disk[i].seq = i
          /\ cache[i] = disk[i]
ClaimedIsDurable ==
  /\ Vouches(hdr)
  /\ Vouches(dhdr)

\* A kill of the process at any point loses nothing that append returned: the
\* frames 1..write_offset are whole, numbered without a gap, and lie where the
\* scan of the next __init__ will look for them.
AppendedSurvivesKill ==
  Opened =>
    /\ Readable(hdr)
    /\ hdr.committed <= w.writeOffset
    /\ w.writeOffset <= hdr.capacity
    /\ w.capacity = hdr.capacity
    /\ w.lastSeq = w.writeOffset
    /\ \A i \in 1..w.writeOffset : IsFrame(cache[i]) /\ cache[i].seq = i

\* A header that __init__ cannot read (it raises CorruptLogError, and the engine
\* never starts on that file again) costs no event that any header ever claimed:
\* the medium holds a readable header before the first claim is made.
UnreadableClaimsNothing ==
  /\ Readable(dhdr) => Readable(hdr)
  /\ Readable(hdr) /\ ~ Readable(dhdr) => hdr.committed = 0 /\ w.committedOffset = 0

\* No step of the writer, the kernel, a kill or a power loss changes a frame the
\* on-disk header vouches for, or makes that header vouch for less.
CommittedNeverChanges ==
  [][Readable(dhdr) =>
       /\ Readable(dhdr')
       /\ dhdr'.committed >= dhdr.committed
       /\ \A i \in 1..dhdr.committed : disk'[i] = disk[i]]_logVars

\* The inductive invariant behind the four above.  What they lack: a frame can
\* only lie in the slot of its own number, anywhere in the file, so what a scan
\* recovers is in sequence; the header on the medium never runs ahead of the
\* mapped one; and between the two flushes of a commit nothing is dirty.
FramesInPlace ==
  \A i \in Slots :
    /\ IsFrame(cache[i]) => cache[i].seq = i
    /\ IsFrame(disk[i]) => disk[i].seq = i
MediumBehind == Readable(dhdr) /\ Readable(hdr) => dhdr.committed <= hdr.committed
CommitPhases ==
  /\ pc = "created" => hdr = Blank
  /\ pc = "headed" => hdr = Header(InitialCapacity, 0, 0)
  /\ pc = "ready" => Readable(hdr)
  /\ pc \in {"flushed", "claimed"} => disk = cache /\ Readable(dhdr)
  /\ pc = "claimed" => hdr.committed = w.writeOffset
  /\ Opened => w.committedOffset <= hdr.committed
  /\ ~ Opened => w = NoWriter
LogInv ==
  /\ LogTypeOK
  /\ ClaimedIsDurable
  /\ AppendedSurvivesKill
  /\ UnreadableClaimsNothing
  /\ FramesInPlace
  /\ MediumBehind
  /\ CommitPhases
=============================================================================
