------------------------------ MODULE Log_proofs ------------------------------
(***************************************************************************)
(* The event log for every set of events, every file size, every growth    *)
(* factor and every behaviour of the kernel: the invariants of LogWriter,  *)
(* that no step changes a frame the header on the medium vouches for, and  *)
(* that the tail of Replica stays behind what is durable, for every roster *)
(* and any number of failed polls.                                         *)
(***************************************************************************)
EXTENDS Replica, LogRefinement, RiskFold_proofs

(* Facts about the operators *)

\* Kinds of cell are told apart by their kind field.
LEMMA CellKinds ==
  /\ ~ IsFrame(Zero)
  /\ ~ IsFrame(Torn)
  /\ \A s, e : /\ IsFrame(Frame(s, e))
               /\ Frame(s, e).seq = s
BY DEF IsFrame, Zero, Torn, Frame

\* A readable header has a capacity, a committed offset and a sequence number.
LEMMA ReadableHeader ==
  ASSUME NEW h \in HeaderPage, Readable(h)
  PROVE  /\ h.capacity \in 1..MaxSlots
         /\ h.committed \in 0..MaxSlots
         /\ h.seq \in 0..MaxSlots
         /\ h = Header(h.capacity, h.committed, h.seq)
BY DEF HeaderPage, Readable, Header, Absent, Blank

\* Header builds a readable page with the fields it is given.
LEMMA HeaderFields ==
  ASSUME NEW c \in 1..MaxSlots, NEW n \in 0..MaxSlots, NEW s \in 0..MaxSlots
  PROVE  /\ Header(c, n, s) \in HeaderPage
         /\ Readable(Header(c, n, s))
         /\ Header(c, n, s).capacity = c
         /\ Header(c, n, s).committed = n
         /\ Header(c, n, s).seq = s
BY DEF HeaderPage, Readable, Header

\* Absent and Blank are pages that cannot be read.
LEMMA UnreadablePages ==
  /\ Absent \in HeaderPage /\ ~ Readable(Absent)
  /\ Blank \in HeaderPage /\ ~ Readable(Blank)
BY DEF HeaderPage, Readable, Absent, Blank

\* One round of _grow makes room for one frame.
LEMMA GrowMakesRoom ==
  ASSUME NEW c \in 1..MaxSlots, c * GrowthFactor <= MaxSlots
  PROVE  c * GrowthFactor \in (c + 1)..MaxSlots
<1>1. /\ GrowthFactor \in Nat /\ GrowthFactor >= 2
      /\ MaxSlots \in Nat
  BY LogAssumption DEF LogAssumption
<1>2. c * (GrowthFactor - 2) >= 0
  BY <1>1
<1>3. c * GrowthFactor = c * (GrowthFactor - 2) + 2 * c
  BY <1>1
<1> QED
  BY <1>1, <1>2, <1>3

\* _ensure_capacity leaves room for one frame in a file no larger than the bound.
LEMMA EnsuredCapacityOK ==
  ASSUME LogInv, pc = "up", HasRoom
  PROVE  /\ EnsuredCapacity \in 1..MaxSlots
         /\ w.writeOffset + 1 <= EnsuredCapacity
         /\ w.capacity <= EnsuredCapacity
<1>1. /\ Readable(hdr) /\ hdr \in HeaderPage
      /\ w.capacity = hdr.capacity
      /\ w.writeOffset \in 0..MaxSlots
      /\ w.writeOffset <= w.capacity
      /\ w.capacity \in 1..MaxSlots
      /\ hdr.committed \in 0..MaxSlots
      /\ hdr.seq \in 0..MaxSlots
  BY ReadableHeader DEF LogInv, LogTypeOK, AppendedSurvivesKill, Opened
<1>2. CASE MustGrow
  <2>1. EnsuredCapacity \in (w.capacity + 1)..MaxSlots
    BY <1>1, <1>2, GrowMakesRoom DEF EnsuredCapacity, HasRoom
  <2> QED
    BY <2>1, <1>1, LogAssumption DEF LogAssumption
<1>3. CASE ~ MustGrow
  BY <1>1, <1>3 DEF EnsuredCapacity, MustGrow
<1> QED
  BY <1>2, <1>3

-----------------------------------------------------------------------------
(* LogInv is inductive: one lemma per group of actions *)

\* The empty machine: no file, no writer.
LEMMA LogInvInit == LogInit => LogInv
<1> SUFFICES ASSUME LogInit PROVE LogInv
  OBVIOUS
<1>1. LogTypeOK
  BY UnreadablePages, LogAssumption DEF LogInit, LogTypeOK, Cell, NoWriter, LogAssumption
<1>2. /\ ClaimedIsDurable
      /\ UnreadableClaimsNothing
      /\ MediumBehind
  BY UnreadablePages DEF LogInit, ClaimedIsDurable, Vouches, UnreadableClaimsNothing, MediumBehind
<1>3. FramesInPlace
  BY CellKinds DEF LogInit, FramesInPlace
<1>4. /\ AppendedSurvivesKill
      /\ CommitPhases
  BY DEF LogInit, AppendedSurvivesKill, CommitPhases, Opened
<1> QED
  BY <1>1, <1>2, <1>3, <1>4 DEF LogInv

\* The first start, up to the first fsync of the header.
LEMMA CreationKeeps ==
  ASSUME LogInv, CreateFile \/ WriteHeader \/ SyncHeader
  PROVE  LogInv'
<1> USE DEF LogInv
<1>1. /\ w' = w /\ w = NoWriter /\ cache' = cache
      /\ ~ Opened /\ ~ Opened'
  BY DEF CreateFile, WriteHeader, SyncHeader, Opened, CommitPhases
<1>2. CASE CreateFile
  <2>1. /\ hdr' = Blank /\ hdr = Absent /\ disk' = disk /\ dhdr' = dhdr /\ pc' = "created"
    BY <1>2 DEF CreateFile
  <2>2. ~ Readable(dhdr) /\ ~ Readable(hdr')
    BY <2>1, UnreadablePages DEF UnreadableClaimsNothing
  <2>3. LogTypeOK'
    BY <1>1, <2>1, UnreadablePages DEF LogTypeOK
  <2> QED
    BY <1>1, <2>1, <2>2, <2>3
    DEF ClaimedIsDurable, Vouches, AppendedSurvivesKill, UnreadableClaimsNothing,
        FramesInPlace, MediumBehind, CommitPhases
<1>3. CASE WriteHeader
  <2>1. /\ hdr' = Header(InitialCapacity, 0, 0) /\ hdr = Blank
        /\ disk' = disk /\ dhdr' = dhdr /\ pc' = "headed"
    BY <1>3 DEF WriteHeader, CommitPhases
  <2>2. /\ hdr' \in HeaderPage
        /\ Readable(hdr')
        /\ hdr'.committed = 0 /\ hdr'.seq = 0 /\ hdr'.capacity \in 1..MaxSlots
        /\ ~ Readable(dhdr)
    BY <2>1, HeaderFields, UnreadablePages, LogAssumption
    DEF UnreadableClaimsNothing, LogAssumption
  <2>3. LogTypeOK'
    BY <1>1, <2>1, <2>2 DEF LogTypeOK
  <2>4. ClaimedIsDurable'
    BY <2>1, <2>2 DEF ClaimedIsDurable, Vouches
  <2> QED
    BY <1>1, <2>1, <2>2, <2>3, <2>4
    DEF AppendedSurvivesKill, UnreadableClaimsNothing, FramesInPlace, MediumBehind,
        CommitPhases, NoWriter
<1>4. CASE SyncHeader
  <2>1. /\ hdr = Header(InitialCapacity, 0, 0) /\ hdr' = hdr
        /\ disk' = cache /\ dhdr' = hdr /\ pc' = "ready"
    BY <1>4 DEF SyncHeader, Sync, CommitPhases
  <2>2. /\ Readable(hdr)
        /\ hdr.committed = 0 /\ hdr.seq = 0 /\ hdr.capacity \in 1..MaxSlots
    BY <2>1, HeaderFields, LogAssumption DEF LogAssumption
  <2>3. LogTypeOK'
    BY <1>1, <2>1 DEF LogTypeOK
  <2>4. ClaimedIsDurable'
    BY <2>1, <2>2 DEF ClaimedIsDurable, Vouches
  <2> QED
    BY <1>1, <2>1, <2>2, <2>3, <2>4
    DEF AppendedSurvivesKill, UnreadableClaimsNothing, FramesInPlace, MediumBehind,
        CommitPhases, NoWriter
<1> QED
  BY <1>2, <1>3, <1>4

\* __init__ of a file with a readable header: the scan.
LEMMA OpenKeeps ==
  ASSUME LogInv, Open
  PROVE  LogInv'
<1> USE DEF LogInv
<1>1. /\ cache' = cache /\ hdr' = hdr /\ disk' = disk /\ dhdr' = dhdr
      /\ Readable(hdr) /\ hdr \in HeaderPage
  BY DEF Open, CommitPhases, LogTypeOK
<1>2. PICK n \in 0..MaxSlots :
        /\ ScanStopsAt(cache, hdr, n)
        /\ w' = [writeOffset |-> n, lastSeq |-> ScanSeq(cache, hdr, n),
                 committedOffset |-> hdr.committed, capacity |-> hdr.capacity]
        /\ pc' = IF n = hdr.committed THEN "up" ELSE "recovering"
  BY DEF Open
<1>3. /\ hdr.capacity \in 1..MaxSlots
      /\ hdr.committed \in 0..MaxSlots
      /\ n \in hdr.committed..hdr.capacity
      /\ hdr.seq = hdr.committed
      /\ pc' \in {"up", "recovering"}
      /\ Opened'
  BY <1>1, <1>2, ReadableHeader DEF ScanStopsAt, ClaimedIsDurable, Vouches, Opened
<1>4. \A i \in 1..n : IsFrame(cache[i]) /\ cache[i].seq = i
  <2> TAKE i \in 1..n
  <2>1. i \in Slots
    BY <1>3, LogAssumption DEF Slots, LogAssumption
  <2>2. IsFrame(cache[i])
    BY <1>1, <1>2, <1>3 DEF ClaimedIsDurable, Vouches, ScanStopsAt
  <2> QED
    BY <2>1, <2>2 DEF FramesInPlace
<1>5. ScanSeq(cache, hdr, n) = n
  BY <1>3, <1>4 DEF ScanSeq
<1>6. LogTypeOK'
  BY <1>1, <1>2, <1>3, <1>5 DEF LogTypeOK
<1>7. AppendedSurvivesKill'
  BY <1>1, <1>2, <1>3, <1>4, <1>5 DEF AppendedSurvivesKill
<1>8. ClaimedIsDurable' /\ UnreadableClaimsNothing'
  BY <1>1, <1>2, <1>3 DEF ClaimedIsDurable, Vouches, UnreadableClaimsNothing
<1>9. FramesInPlace' /\ MediumBehind' /\ CommitPhases'
  BY <1>1, <1>2, <1>3 DEF FramesInPlace, MediumBehind, CommitPhases
<1> QED
  BY <1>6, <1>7, <1>8, <1>9

\* What append and a kill in the middle of it share: room was made, and only
\* the slot after the last frame is written, with a frame in its place or a
\* part of one.
LEMMA OverwriteNextKeeps ==
  ASSUME LogInv, pc = "up", EnsureCapacity,
         NEW c \in Cell, IsFrame(c) => c.seq = w.writeOffset + 1,
         cache' = [cache EXCEPT ![w.writeOffset + 1] = c]
  PROVE  /\ ClaimedIsDurable'
         /\ FramesInPlace'
         /\ MediumBehind'
         /\ w.writeOffset + 1 \in Slots
         /\ cache' \in [Slots -> Cell]
         /\ disk' \in [Slots -> Cell]
         /\ hdr' \in HeaderPage /\ dhdr' \in HeaderPage
         /\ Readable(hdr') /\ (Readable(dhdr) => Readable(dhdr'))
         /\ hdr'.committed = hdr.committed /\ hdr'.capacity = EnsuredCapacity
<1> USE DEF LogInv
<1>1. /\ EnsuredCapacity \in 1..MaxSlots
      /\ w.writeOffset + 1 <= EnsuredCapacity
      /\ w.capacity <= EnsuredCapacity
  BY EnsuredCapacityOK DEF EnsureCapacity
<1>2. /\ Readable(hdr) /\ hdr \in HeaderPage /\ dhdr \in HeaderPage
      /\ hdr.committed \in 0..w.writeOffset
      /\ hdr.seq = hdr.committed
      /\ w.capacity = hdr.capacity
      /\ w.writeOffset \in 0..MaxSlots
      /\ w.capacity \in 0..MaxSlots
      /\ hdr.seq \in 0..MaxSlots
      /\ hdr.committed \in 0..MaxSlots
  BY ReadableHeader
  DEF LogTypeOK, AppendedSurvivesKill, Opened, ClaimedIsDurable, Vouches
<1>3. /\ hdr' = Header(EnsuredCapacity, hdr.committed, hdr.seq)
      /\ hdr' \in HeaderPage /\ Readable(hdr')
      /\ hdr'.committed = hdr.committed
      /\ hdr'.seq = hdr.seq
      /\ hdr'.capacity = EnsuredCapacity
  BY <1>1, <1>2, HeaderFields DEF EnsureCapacity
<1>4. w.writeOffset + 1 \in Slots
  BY <1>1, <1>2, LogAssumption DEF Slots, LogAssumption
<1>5. \/ disk' = cache /\ dhdr' = hdr
      \/ disk' = disk /\ dhdr' = dhdr
  BY DEF EnsureCapacity, Sync
<1>6. /\ cache \in [Slots -> Cell] /\ disk \in [Slots -> Cell]
      /\ \A i \in Slots : i # w.writeOffset + 1 => cache'[i] = cache[i]
      /\ cache'[w.writeOffset + 1] = c
      /\ cache' \in [Slots -> Cell] /\ disk' \in [Slots -> Cell]
      /\ dhdr' \in HeaderPage
      /\ Readable(dhdr) => Readable(dhdr')
  BY <1>2, <1>4, <1>5 DEF LogTypeOK
<1>7. \A i \in 1..hdr.committed :
        /\ IsFrame(disk'[i]) /\ disk'[i].seq = i
        /\ cache'[i] = disk'[i]
  <2> TAKE i \in 1..hdr.committed
  <2>1. i \in Slots /\ i # w.writeOffset + 1
    BY <1>2, <1>4, LogAssumption DEF Slots, LogAssumption
  <2>2. IsFrame(disk[i]) /\ disk[i].seq = i /\ cache[i] = disk[i]
    BY <1>2 DEF ClaimedIsDurable, Vouches
  <2> QED
    BY <2>1, <2>2, <1>5, <1>6
<1>8. Readable(dhdr') => /\ dhdr'.committed \in 0..hdr.committed
                         /\ dhdr'.seq = dhdr'.committed
                         /\ dhdr'.committed <= dhdr'.capacity
  <2>1. CASE dhdr' = hdr
    BY <2>1, <1>2 DEF ClaimedIsDurable, Vouches
  <2>2. CASE dhdr' = dhdr
    BY <2>2, <1>2, ReadableHeader DEF ClaimedIsDurable, Vouches, MediumBehind
  <2> QED
    BY <2>1, <2>2, <1>5
<1>9. ClaimedIsDurable'
  BY <1>1, <1>2, <1>3, <1>7, <1>8 DEF ClaimedIsDurable, Vouches
<1>10. FramesInPlace'
  BY <1>5, <1>6 DEF FramesInPlace
<1>11. MediumBehind'
  BY <1>3, <1>8, <1>2 DEF MediumBehind
<1> QED
  BY <1>3, <1>4, <1>6, <1>9, <1>10, <1>11

\* append: its own frame joins the run of frames a scan would recover.
LEMMA AppendKeeps ==
  ASSUME LogInv, NEW e \in Event, AppendFrame(e)
  PROVE  LogInv'
<1> USE DEF LogInv
<1> DEFINE c == Frame(w.lastSeq + 1, e)
<1>1. /\ pc = "up" /\ pc' = "up" /\ EnsureCapacity /\ HasRoom
      /\ cache' = [cache EXCEPT ![w.writeOffset + 1] = c]
      /\ w' = [writeOffset |-> w.writeOffset + 1, lastSeq |-> w.lastSeq + 1,
                committedOffset |-> w.committedOffset, capacity |-> EnsuredCapacity]
  BY DEF AppendFrame, WriteSlot, EnsureCapacity
<1>2. /\ w.lastSeq = w.writeOffset
      /\ w.writeOffset \in 0..MaxSlots
      /\ w.committedOffset \in 0..MaxSlots
      /\ w.committedOffset <= hdr.committed
      /\ Readable(hdr)
      /\ hdr.committed \in 0..w.writeOffset
      /\ hdr.committed = 0 \/ Readable(dhdr)
      /\ cache \in [Slots -> Cell]
      /\ Opened /\ Opened'
  BY <1>1, ReadableHeader
  DEF LogTypeOK, AppendedSurvivesKill, CommitPhases, UnreadableClaimsNothing, Opened
<1>3. /\ EnsuredCapacity \in 1..MaxSlots
      /\ w.writeOffset + 1 <= EnsuredCapacity
  BY <1>1, EnsuredCapacityOK
<1>4. /\ w' \in [writeOffset : 0..MaxSlots, lastSeq : 0..MaxSlots,
                  committedOffset : 0..MaxSlots, capacity : 0..MaxSlots]
      /\ w'.writeOffset = w.writeOffset + 1
      /\ w'.lastSeq = w.writeOffset + 1
      /\ w'.committedOffset = w.committedOffset
      /\ w'.capacity = EnsuredCapacity
  BY <1>1, <1>2, <1>3, LogAssumption DEF LogTypeOK, LogAssumption
<1>5. w.writeOffset + 1 \in Slots
  BY <1>2, <1>3, LogAssumption DEF Slots, LogAssumption
<1>6. c \in Cell /\ IsFrame(c) /\ c.seq = w.writeOffset + 1
  BY <1>2, <1>5, CellKinds DEF Cell
<1>7. /\ ClaimedIsDurable' /\ FramesInPlace' /\ MediumBehind'
      /\ cache' \in [Slots -> Cell] /\ disk' \in [Slots -> Cell]
      /\ hdr' \in HeaderPage /\ dhdr' \in HeaderPage
      /\ Readable(hdr') /\ (Readable(dhdr) => Readable(dhdr'))
      /\ hdr'.committed = hdr.committed /\ hdr'.capacity = EnsuredCapacity
  <2> HIDE DEF c
  <2> QED
    BY <1>1, <1>6, OverwriteNextKeeps
<1>8. LogTypeOK'
  BY <1>1, <1>4, <1>7 DEF LogTypeOK
<1>9. AppendedSurvivesKill'
  <2>1. \A i \in 1..w'.writeOffset : IsFrame(cache'[i]) /\ cache'[i].seq = i
    <3> TAKE i \in 1..w'.writeOffset
    <3>1. i \in Slots
      BY <1>2, <1>4, <1>5, LogAssumption DEF Slots, LogAssumption
    <3>2. CASE i = w.writeOffset + 1
      BY <3>1, <3>2, <1>1, <1>2, <1>6
    <3>3. CASE i # w.writeOffset + 1
      <4>1. i \in 1..w.writeOffset
        BY <3>3, <1>2, <1>4
      <4>2. IsFrame(cache[i]) /\ cache[i].seq = i
        BY <4>1, <1>2 DEF AppendedSurvivesKill
      <4>3. cache'[i] = cache[i]
        BY <3>1, <3>3, <1>1, <1>2
      <4> QED
        BY <4>2, <4>3
    <3> QED
      BY <3>2, <3>3
  <2> QED
    BY <2>1, <1>2, <1>3, <1>4, <1>7 DEF AppendedSurvivesKill
<1>10. UnreadableClaimsNothing'
  BY <1>2, <1>4, <1>7 DEF UnreadableClaimsNothing
<1>11. CommitPhases'
  BY <1>1, <1>2, <1>4, <1>7 DEF CommitPhases
<1> QED
  BY <1>7, <1>8, <1>9, <1>10, <1>11

\* The three steps of a commit.
LEMMA CommitKeeps ==
  ASSUME LogInv, CommitFlush \/ CommitClaim \/ CommitSync
  PROVE  LogInv'
<1> USE DEF LogInv
<1>1. /\ cache' = cache
      /\ Opened /\ Opened'
      /\ Readable(hdr) /\ hdr \in HeaderPage
      /\ hdr.capacity \in 1..MaxSlots
      /\ hdr.committed \in 0..w.writeOffset
      /\ w.writeOffset \in 0..MaxSlots
      /\ w.writeOffset <= hdr.capacity
      /\ w.lastSeq = w.writeOffset
      /\ w.committedOffset \in 0..hdr.committed
      /\ \A i \in 1..w.writeOffset : IsFrame(cache[i]) /\ cache[i].seq = i
  BY ReadableHeader
  DEF CommitFlush, CommitClaim, CommitSync, Opened, LogTypeOK, AppendedSurvivesKill,
      CommitPhases
<1>2. CASE CommitFlush
  <2>1. /\ hdr' = hdr /\ disk' = cache /\ dhdr' = hdr /\ w' = w /\ pc' = "flushed"
    BY <1>2 DEF CommitFlush, Sync
  <2> QED
    BY <1>1, <2>1
    DEF LogTypeOK, ClaimedIsDurable, Vouches, AppendedSurvivesKill,
        UnreadableClaimsNothing, FramesInPlace, MediumBehind, CommitPhases
<1>3. CASE CommitClaim
  <2>1. /\ hdr' = Header(hdr.capacity, w.writeOffset, w.lastSeq)
        /\ disk' = disk /\ dhdr' = dhdr /\ w' = w /\ pc' = "claimed"
        /\ disk = cache /\ Readable(dhdr)
    BY <1>3 DEF CommitClaim, CommitPhases
  <2>2. /\ hdr' \in HeaderPage /\ Readable(hdr')
        /\ hdr'.capacity = hdr.capacity
        /\ hdr'.committed = w.writeOffset /\ hdr'.seq = w.writeOffset
    BY <1>1, <2>1, HeaderFields
  <2>3. /\ dhdr \in HeaderPage /\ dhdr.committed \in 0..MaxSlots
        /\ dhdr.committed <= hdr.committed
    BY <1>1, <2>1, ReadableHeader DEF LogTypeOK, MediumBehind
  <2>4. LogTypeOK'
    BY <1>1, <2>1, <2>2 DEF LogTypeOK
  <2>5. ClaimedIsDurable'
    BY <1>1, <2>1, <2>2 DEF ClaimedIsDurable, Vouches
  <2>6. AppendedSurvivesKill'
    BY <1>1, <2>1, <2>2 DEF AppendedSurvivesKill
  <2>7. UnreadableClaimsNothing' /\ FramesInPlace'
    BY <1>1, <2>1, <2>2 DEF UnreadableClaimsNothing, FramesInPlace
  <2>8. MediumBehind' /\ CommitPhases'
    BY <1>1, <2>1, <2>2, <2>3 DEF MediumBehind, CommitPhases, Opened
  <2> QED
    BY <2>4, <2>5, <2>6, <2>7, <2>8
<1>4. CASE CommitSync
  <2>1. /\ hdr' = hdr /\ disk' = cache /\ dhdr' = hdr /\ pc' = "up"
        /\ w' = [w EXCEPT !.committedOffset = w.writeOffset]
        /\ hdr.committed = w.writeOffset
    BY <1>4 DEF CommitSync, Sync, CommitPhases
  <2>2. /\ w' \in [writeOffset : 0..MaxSlots, lastSeq : 0..MaxSlots,
                    committedOffset : 0..MaxSlots, capacity : 0..MaxSlots]
        /\ w'.writeOffset = w.writeOffset /\ w'.lastSeq = w.lastSeq
        /\ w'.capacity = w.capacity /\ w'.committedOffset = w.writeOffset
    BY <1>1, <2>1 DEF LogTypeOK
  <2> QED
    BY <1>1, <2>1, <2>2
    DEF LogTypeOK, ClaimedIsDurable, Vouches, AppendedSurvivesKill,
        UnreadableClaimsNothing, FramesInPlace, MediumBehind, CommitPhases
<1> QED
  BY <1>2, <1>3, <1>4

\* The writer goes away: a clean close, a kill between two steps, or a kill in
\* the middle of an append.
LEMMA StopKeeps ==
  ASSUME LogInv, Close \/ Crash \/ CrashMidAppend
  PROVE  LogInv'
<1> USE DEF LogInv
<1>1. pc' = "down" /\ w' = NoWriter /\ ~ Opened'
  BY DEF Close, Crash, CrashMidAppend, WriteSlot, Opened
<1>2. /\ w' \in [writeOffset : 0..MaxSlots, lastSeq : 0..MaxSlots,
                  committedOffset : 0..MaxSlots, capacity : 0..MaxSlots]
      /\ w'.committedOffset = 0
  BY <1>1, LogAssumption DEF NoWriter, LogAssumption
<1>3. CASE Close \/ Crash
  <2>1. cache' = cache /\ hdr' = hdr /\ disk' = disk /\ dhdr' = dhdr
    BY <1>3 DEF Close, Crash
  <2> QED
    BY <1>1, <1>2, <2>1
    DEF LogTypeOK, ClaimedIsDurable, Vouches, AppendedSurvivesKill,
        UnreadableClaimsNothing, FramesInPlace, MediumBehind, CommitPhases
<1>4. CASE CrashMidAppend
  <2>1. /\ pc = "up" /\ EnsureCapacity
        /\ cache' = [cache EXCEPT ![w.writeOffset + 1] = Torn]
    BY <1>4 DEF CrashMidAppend, WriteSlot
  <2>2. Torn \in Cell /\ ~ IsFrame(Torn)
    BY CellKinds DEF Cell
  <2>3. /\ ClaimedIsDurable' /\ FramesInPlace' /\ MediumBehind'
        /\ cache' \in [Slots -> Cell] /\ disk' \in [Slots -> Cell]
        /\ hdr' \in HeaderPage /\ dhdr' \in HeaderPage
        /\ Readable(hdr') /\ (Readable(dhdr) => Readable(dhdr'))
        /\ hdr'.committed = hdr.committed
    BY <2>1, <2>2, OverwriteNextKeeps
  <2>4. Readable(hdr) /\ (Readable(dhdr) \/ hdr.committed = 0)
    BY <2>1 DEF AppendedSurvivesKill, UnreadableClaimsNothing, Opened
  <2> QED
    BY <1>1, <1>2, <2>3, <2>4
    DEF LogTypeOK, AppendedSurvivesKill, UnreadableClaimsNothing, CommitPhases
<1> QED
  BY <1>3, <1>4

\* Only what is on the medium is left.
LEMMA PowerLossKeeps ==
  ASSUME LogInv, PowerLoss
  PROVE  LogInv'
<1> USE DEF LogInv
<1>1. /\ pc' = "down" /\ w' = NoWriter /\ ~ Opened'
      /\ cache' = disk' /\ hdr' = dhdr /\ dhdr' = dhdr
      /\ disk' = IF dhdr = Absent THEN [i \in Slots |-> Zero] ELSE disk
  BY DEF PowerLoss, Opened
<1>2. LogTypeOK'
  BY <1>1, LogAssumption DEF LogTypeOK, Cell, NoWriter, LogAssumption
<1>3. ClaimedIsDurable'
  BY <1>1, UnreadablePages DEF ClaimedIsDurable, Vouches
<1>4. FramesInPlace'
  BY <1>1, CellKinds DEF FramesInPlace
<1>5. MediumBehind'
  BY <1>1, ReadableHeader DEF MediumBehind, LogTypeOK
<1> QED
  BY <1>1, <1>2, <1>3, <1>4, <1>5
  DEF AppendedSurvivesKill, UnreadableClaimsNothing, CommitPhases

\* The kernel writes a page back.
LEMMA WritebackKeeps ==
  ASSUME LogInv, (\E i \in Slots : Writeback(i)) \/ WritebackHeader
  PROVE  LogInv'
<1> USE DEF LogInv
<1>1. cache' = cache /\ hdr' = hdr /\ pc' = pc /\ w' = w /\ Opened' = Opened
  BY DEF Writeback, WritebackHeader, Opened
<1>2. ASSUME NEW i \in Slots, Writeback(i) PROVE LogInv'
  <2>1. PICK c \in Cell : /\ disk' = [disk EXCEPT ![i] = c]
                          /\ c = cache[i] \/ c = Torn
    BY <1>2 DEF Writeback, LogTypeOK, Cell
  <2>2. dhdr' = dhdr /\ disk[i] # cache[i] /\ disk \in [Slots -> Cell]
    BY <1>2 DEF Writeback, LogTypeOK
  <2>3. LogTypeOK'
    BY <1>1, <2>1, <2>2 DEF LogTypeOK
  <2>4. ASSUME NEW h \in HeaderPage, Vouches(h), Readable(h) PROVE Vouches(h)'
    <3>1. \A j \in 1..h.committed : j \in Slots /\ disk'[j] = disk[j]
      <4> TAKE j \in 1..h.committed
      <4>1. j \in Slots
        BY <2>4, ReadableHeader, LogAssumption DEF Slots, LogAssumption
      <4>2. j # i
        BY <2>2, <2>4 DEF Vouches
      <4> QED
        BY <4>1, <4>2, <2>1, <2>2
    <3> QED
      BY <3>1, <1>1, <2>4 DEF Vouches
  <2>5. ClaimedIsDurable'
    BY <1>1, <2>2, <2>4 DEF ClaimedIsDurable, LogTypeOK, Vouches
  <2>6. FramesInPlace'
    BY <1>1, <2>1, <2>2, CellKinds DEF FramesInPlace
  <2>7. CommitPhases'
    <3>1. disk = cache => FALSE
      BY <2>2
    <3> QED
      BY <1>1, <2>2, <3>1 DEF CommitPhases
  <2> QED
    BY <1>1, <2>2, <2>3, <2>5, <2>6, <2>7
    DEF AppendedSurvivesKill, UnreadableClaimsNothing, MediumBehind
<1>3. CASE WritebackHeader
  <2>1. disk' = disk /\ dhdr' = hdr
    BY <1>3 DEF WritebackHeader
  <2> QED
    BY <1>1, <2>1, ReadableHeader
    DEF LogTypeOK, ClaimedIsDurable, Vouches, AppendedSurvivesKill,
        UnreadableClaimsNothing, FramesInPlace, MediumBehind, CommitPhases
<1> QED
  BY <1>2, <1>3

-----------------------------------------------------------------------------
(* The theorems *)

\* Every step of the writer, the kernel and the failures keeps LogInv.
LEMMA LogInvNext == LogInv /\ [LogNext]_logVars => LogInv'
<1> SUFFICES ASSUME LogInv, [LogNext]_logVars PROVE LogInv'
  OBVIOUS
<1>1. CASE CreateFile \/ WriteHeader \/ SyncHeader
  BY <1>1, CreationKeeps
<1>2. CASE Open
  BY <1>2, OpenKeeps
<1>3. ASSUME NEW e \in Event, AppendFrame(e) PROVE LogInv'
  BY <1>3, AppendKeeps
<1>4. CASE CommitFlush \/ CommitClaim \/ CommitSync
  BY <1>4, CommitKeeps
<1>5. CASE Close \/ Crash \/ CrashMidAppend
  BY <1>5, StopKeeps
<1>6. CASE PowerLoss
  BY <1>6, PowerLossKeeps
<1>7. CASE (\E i \in Slots : Writeback(i)) \/ WritebackHeader
  BY <1>7, WritebackKeeps
<1>8. CASE UNCHANGED logVars
  BY <1>8
  DEF logVars, LogInv, LogTypeOK, ClaimedIsDurable, Vouches, AppendedSurvivesKill,
      Opened, UnreadableClaimsNothing, FramesInPlace, MediumBehind, CommitPhases
<1> QED
  BY <1>1, <1>2, <1>3, <1>4, <1>5, <1>6, <1>7, <1>8 DEF LogNext

\* The inductive invariant holds in every reachable state.
THEOREM LogInvariant == LogSpec => []LogInv
<1>1. LogInit => LogInv
  BY LogInvInit
<1>2. LogInv /\ [LogNext]_logVars => LogInv'
  BY LogInvNext
<1> QED
  BY <1>1, <1>2, PTL DEF LogSpec

\* Type correctness.
THEOREM LogTypeCorrect == LogSpec => []LogTypeOK
<1>1. LogInv => LogTypeOK
  BY DEF LogInv
<1> QED
  BY <1>1, LogInvariant, PTL

\* What any header, mapped or on the medium, counts as committed is durable,
\* whole and in sequence: the promise of the commit protocol of _do_commit.
THEOREM ClaimsAreDurable == LogSpec => []ClaimedIsDurable
<1>1. LogInv => ClaimedIsDurable
  BY DEF LogInv
<1> QED
  BY <1>1, LogInvariant, PTL

\* A kill of the process loses no event that append returned.
THEOREM KillLosesNothing == LogSpec => []AppendedSurvivesKill
<1>1. LogInv => AppendedSurvivesKill
  BY DEF LogInv
<1> QED
  BY <1>1, LogInvariant, PTL

\* An unreadable header never hides a claimed event.
THEOREM UnreadableHeaderHarmless == LogSpec => []UnreadableClaimsNothing
<1>1. LogInv => UnreadableClaimsNothing
  BY DEF LogInv
<1> QED
  BY <1>1, LogInvariant, PTL

\* The durable prefix never changes and never shrinks, power losses included.
THEOREM CommittedForever == LogSpec => CommittedNeverChanges
<1> DEFINE Kept ==
      Readable(dhdr) =>
        /\ Readable(dhdr')
        /\ dhdr'.committed >= dhdr.committed
        /\ \A i \in 1..dhdr.committed : disk'[i] = disk[i]
<1>1. ASSUME LogInv, [LogNext]_logVars PROVE Kept
  <2> SUFFICES ASSUME Readable(dhdr) PROVE Kept
    OBVIOUS
  <2>1. /\ dhdr \in HeaderPage /\ hdr \in HeaderPage /\ Readable(hdr)
        /\ dhdr.committed \in 0..hdr.committed
        /\ hdr.committed \in 0..MaxSlots
        /\ dhdr # Absent
        /\ \A i \in 1..dhdr.committed : i \in Slots /\ cache[i] = disk[i]
    BY <1>1, ReadableHeader, UnreadablePages, LogAssumption
    DEF LogInv, LogTypeOK, UnreadableClaimsNothing, MediumBehind, ClaimedIsDurable,
        Vouches, Slots, LogAssumption
  <2>2. CASE disk' = disk /\ dhdr' = dhdr
    BY <2>1, <2>2
  <2>3. CASE Sync
    BY <2>1, <2>3 DEF Sync
  <2>4. ASSUME NEW i \in Slots, Writeback(i) PROVE Kept
    <3>1. dhdr' = dhdr /\ disk[i] # cache[i]
      BY <2>4 DEF Writeback
    <3>2. \A j \in Slots : j # i => disk'[j] = disk[j]
      BY <1>1, <2>4 DEF Writeback, LogInv, LogTypeOK
    <3> QED
      BY <2>1, <3>1, <3>2
  <2>5. CASE WritebackHeader
    BY <2>1, <2>5 DEF WritebackHeader
  <2>6. \/ disk' = disk /\ dhdr' = dhdr
        \/ Sync
        \/ \E i \in Slots : Writeback(i)
        \/ WritebackHeader
    BY <1>1, <2>1
    DEF LogNext, logVars, CreateFile, WriteHeader, SyncHeader, Open, AppendFrame, WriteSlot,
        EnsureCapacity, CommitFlush, CommitClaim, CommitSync, Close, Crash,
        CrashMidAppend, PowerLoss
  <2> QED
    BY <2>2, <2>3, <2>4, <2>5, <2>6
<1>2. LogInv /\ [LogNext]_logVars => [Kept]_logVars
  BY <1>1
<1> QED
  BY <1>2, LogInvariant, PTL DEF LogSpec, CommittedNeverChanges

-----------------------------------------------------------------------------
(* The replica *)

\* What the tail has folded or is about to fold was claimed in the mapped header.
TailClaimed ==
  rpc \in {"tailing", "polling"} =>
    \A n \in {folded, target} : n > 0 => Readable(hdr) /\ n <= hdr.committed

\* A target is known during a poll only, and the mapping reaches it.
TailMapped ==
  /\ rpc # "polling" => target = 0
  /\ rpc = "polling" => target <= mapped

\* The inductive invariant: that of the log file, and where the tail may stand.
\* NeverAhead follows, since what the mapped header claims is durable; by itself
\* it says nothing of the header the next poll reads.
TailInv == RepTypeOK /\ TailClaimed /\ TailMapped
RepInv == LogInv /\ TailInv

-----------------------------------------------------------------------------
\* Short of a power loss the mapped header never becomes unreadable again and
\* never claims less.
LEMMA ClaimsOnlyGrow ==
  ASSUME LogInv, Primary, Readable(hdr)
  PROVE  Readable(hdr') /\ hdr'.committed >= hdr.committed
<1> USE DEF LogInv
<1>1. /\ hdr \in HeaderPage /\ hdr # Absent /\ hdr # Blank
      /\ hdr.committed \in 0..MaxSlots
      /\ hdr.capacity \in 1..MaxSlots
      /\ hdr.seq \in 0..MaxSlots
  BY ReadableHeader, UnreadablePages DEF LogTypeOK
<1>2. CASE UNCHANGED hdr
  BY <1>1, <1>2
<1>3. ASSUME NEW e \in Event, AppendFrame(e)
      PROVE  Readable(hdr') /\ hdr'.committed >= hdr.committed
  <2>1. pc = "up" /\ HasRoom /\ hdr' = Header(EnsuredCapacity, hdr.committed, hdr.seq)
    BY <1>3 DEF AppendFrame, EnsureCapacity
  <2>2. EnsuredCapacity \in 1..MaxSlots
    BY <2>1, EnsuredCapacityOK
  <2> QED
    BY <1>1, <2>1, <2>2, HeaderFields
<1>4. CASE CommitClaim
  <2>1. pc = "flushed" /\ hdr' = Header(hdr.capacity, w.writeOffset, w.lastSeq)
    BY <1>4 DEF CommitClaim
  <2>2. w.writeOffset \in 0..MaxSlots /\ w.lastSeq \in 0..MaxSlots
    BY DEF LogTypeOK
  <2>3. hdr.committed <= w.writeOffset
    BY <2>1 DEF AppendedSurvivesKill, Opened
  <2> QED
    BY <1>1, <2>1, <2>2, <2>3, HeaderFields
<1>5. ~ CreateFile /\ ~ WriteHeader
  BY <1>1 DEF CreateFile, WriteHeader, CommitPhases
<1> QED
  BY <1>2, <1>3, <1>4, <1>5
  DEF Primary, SyncHeader, Open, CommitFlush, CommitSync, Close, Crash

\* Primary's actions are actions of the log.
LEMMA PrimaryKeepsLog ==
  ASSUME LogInv, Primary
  PROVE  LogInv'
<1>1. LogNext
  BY DEF Primary, LogNext
<1> QED
  BY <1>1, LogInvNext

\* While the primary runs, the tail's claims stay good.
LEMMA PrimaryKeepsTail ==
  ASSUME RepInv, Primary
  PROVE  TailInv'
<1>1. /\ rpc' = rpc /\ folded' = folded /\ mapped' = mapped /\ target' = target
  BY DEF Primary, tailVars
<1>2. RepTypeOK' /\ TailMapped'
  BY <1>1 DEF RepInv, TailInv, RepTypeOK, TailMapped
<1>3. TailClaimed'
  <2> SUFFICES ASSUME rpc \in {"tailing", "polling"}, NEW n \in {folded, target}, n > 0
               PROVE  Readable(hdr') /\ n <= hdr'.committed
    BY <1>1 DEF TailClaimed
  <2>1. Readable(hdr) /\ n <= hdr.committed /\ n \in 0..MaxSlots
    BY DEF RepInv, TailInv, TailClaimed, RepTypeOK
  <2>2. Readable(hdr') /\ hdr'.committed >= hdr.committed
    BY <2>1, ClaimsOnlyGrow DEF RepInv
  <2>3. hdr.committed \in 0..MaxSlots /\ hdr'.committed \in 0..MaxSlots
    BY <2>1, <2>2, PrimaryKeepsLog, ReadableHeader DEF RepInv, LogInv, LogTypeOK
  <2> QED
    BY <2>1, <2>2, <2>3, LogAssumption DEF LogAssumption
<1> QED
  BY <1>2, <1>3 DEF TailInv

\* The replica writes nothing to the file.
LEMMA TailKeepsLog ==
  ASSUME LogInv, UNCHANGED logVars
  PROVE  LogInv'
BY LogInvNext

\* A file has room for what its header claims.
LEMMA MappingReaches ==
  ASSUME LogInv
  PROVE  /\ FileLength \in 0..MaxSlots
         /\ Readable(hdr) => hdr.committed <= FileLength
<1>1. CASE Readable(hdr)
  BY <1>1, ReadableHeader, LogAssumption
  DEF FileLength, LogInv, LogTypeOK, ClaimedIsDurable, Vouches, LogAssumption
<1>2. CASE ~ Readable(hdr)
  BY <1>2, LogAssumption DEF FileLength, LogAssumption
<1> QED
  BY <1>1, <1>2

\* Nor do its own steps take it past the claim it read.
LEMMA ReplicaKeepsTail ==
  ASSUME RepInv,
         \/ BuildRecovered \/ BuildRaises \/ BuildFresh
         \/ StartTail \/ PollHeader \/ PollFold \/ PollRaises \/ StopReplica
  PROVE  RepInv'
<1> USE DEF RepInv, TailInv
<1>1. LogInv' /\ hdr' = hdr
  <2>1. UNCHANGED logVars
    BY DEF BuildRecovered, BuildRaises, BuildFresh, StartTail, PollHeader, PollFold,
           PollRaises, StopReplica
  <2> QED
    BY <2>1, TailKeepsLog DEF logVars
<1>2. folded \in 0..MaxSlots /\ mapped \in 0..MaxSlots /\ target \in 0..MaxSlots
  BY DEF RepTypeOK
<1>3. CASE BuildRecovered \/ BuildRaises \/ BuildFresh
  <2>1. /\ rpc = "off" /\ rpc' \in {"waiting", "failed"}
        /\ folded' = folded /\ mapped' = mapped /\ target' = target
    BY <1>3 DEF BuildRecovered, BuildRaises, BuildFresh
  <2> QED
    BY <1>1, <1>2, <2>1 DEF RepTypeOK, TailClaimed, TailMapped
<1>4. CASE StartTail
  <2>1. /\ rpc = "waiting" /\ rpc' = "tailing"
        /\ folded' = 0 /\ mapped' = FileLength /\ target' = target
    BY <1>4 DEF StartTail
  <2>2. target = 0
    BY <2>1 DEF TailMapped
  <2> QED
    BY <1>1, <1>2, <2>1, <2>2, MappingReaches DEF RepTypeOK, TailClaimed, TailMapped
<1>5. CASE PollHeader
  <2>1. /\ rpc = "tailing" /\ rpc' = "polling" /\ Readable(hdr)
        /\ folded' = folded /\ target' = hdr.committed
        /\ mapped' = IF hdr.committed > mapped THEN FileLength ELSE mapped
    BY <1>5 DEF PollHeader, Remap, CommittedOffset
  <2>2. hdr.committed \in 0..MaxSlots
    BY <2>1, ReadableHeader DEF LogInv, LogTypeOK
  <2>3. mapped' \in 0..MaxSlots /\ target' <= mapped'
    BY <1>2, <2>1, <2>2, MappingReaches
  <2>4. RepTypeOK' /\ TailMapped'
    BY <1>2, <2>1, <2>2, <2>3 DEF RepTypeOK, TailMapped
  <2>5. TailClaimed'
    BY <1>1, <1>2, <2>1, <2>2 DEF TailClaimed
  <2> QED
    BY <1>1, <2>4, <2>5
<1>6. CASE PollFold
  <2>1. /\ rpc = "polling" /\ rpc' = "tailing"
        /\ folded' = target /\ target' = 0 /\ mapped' = mapped
    BY <1>6 DEF PollFold, NextOffset
  <2>2. RepTypeOK' /\ TailMapped'
    BY <1>2, <2>1, LogAssumption DEF RepTypeOK, TailMapped, LogAssumption
  <2>3. TailClaimed'
    <3>1. target > 0 => Readable(hdr) /\ target <= hdr.committed
      BY <2>1 DEF TailClaimed
    <3> QED
      BY <1>1, <2>1, <3>1 DEF TailClaimed
  <2> QED
    BY <1>1, <2>2, <2>3
<1>7. CASE PollRaises
  <2>1. /\ rpc = "polling" /\ rpc' = "tailing"
        /\ folded' = folded /\ target' = 0 /\ mapped' = mapped
    BY <1>7 DEF PollRaises
  <2>2. RepTypeOK' /\ TailMapped'
    BY <1>2, <2>1, LogAssumption DEF RepTypeOK, TailMapped, LogAssumption
  <2>3. TailClaimed'
    <3>1. folded > 0 => Readable(hdr) /\ folded <= hdr.committed
      BY <2>1 DEF TailClaimed
    <3> QED
      BY <1>1, <2>1, <3>1 DEF TailClaimed
  <2> QED
    BY <1>1, <2>2, <2>3
<1>8. CASE StopReplica
  <2>1. rpc' = "off" /\ folded' = 0 /\ target' = 0 /\ mapped' = 0
    BY <1>8 DEF StopReplica
  <2>2. RepTypeOK' /\ TailMapped'
    BY <2>1, LogAssumption DEF RepTypeOK, TailMapped, LogAssumption
  <2>3. TailClaimed'
    BY <2>1 DEF TailClaimed
  <2> QED
    BY <1>1, <2>2, <2>3
<1> QED
  BY <1>3, <1>4, <1>5, <1>6, <1>7, <1>8

-----------------------------------------------------------------------------
\* RepInv holds initially.
LEMMA RepInvInit == RepInit => RepInv
<1> SUFFICES ASSUME RepInit PROVE RepInv
  OBVIOUS
<1>1. LogInv
  BY LogInvInit DEF RepInit
<1>2. rpc = "off" /\ folded = 0 /\ mapped = 0 /\ target = 0
  BY DEF RepInit
<1> QED
  BY <1>1, <1>2, LogAssumption
  DEF RepInv, TailInv, RepTypeOK, TailClaimed, TailMapped, LogAssumption

\* Every step of primary and replica keeps it.
LEMMA RepInvNext == RepInv /\ [RepNext]_repVars => RepInv'
<1> SUFFICES ASSUME RepInv, [RepNext]_repVars PROVE RepInv'
  OBVIOUS
<1>1. CASE Primary
  BY <1>1, PrimaryKeepsLog, PrimaryKeepsTail DEF RepInv
<1>2. CASE PrimarySnapshot \/ UNCHANGED repVars
  <2>1. UNCHANGED logVars /\ UNCHANGED tailVars
    BY <1>2 DEF PrimarySnapshot, repVars
  <2>2. LogInv' /\ hdr' = hdr
    BY <2>1, TailKeepsLog DEF RepInv, logVars
  <2> QED
    BY <2>1, <2>2 DEF RepInv, TailInv, RepTypeOK, TailClaimed, TailMapped, tailVars
<1>3. CASE \/ BuildRecovered \/ BuildRaises \/ BuildFresh
           \/ StartTail \/ PollHeader \/ PollFold \/ PollRaises \/ StopReplica
  BY <1>3, ReplicaKeepsTail
<1> QED
  BY <1>1, <1>2, <1>3 DEF RepNext

\* The inductive invariant holds in every reachable state.
THEOREM ReplicaInvariant == RepSpec => []RepInv
<1> QED
  BY RepInvInit, RepInvNext, PTL DEF RepSpec

\* The replica "can never get ahead of what a primary restart would see as
\* durable" (replica/tail.py), nor read past its mapping, for every log size.
THEOREM ReplicaNeverAhead == RepSpec => []NeverAhead
<1>1. ASSUME RepInv PROVE NeverAhead
  <2>1. LogInv /\ RepTypeOK /\ TailClaimed /\ TailMapped
    BY <1>1 DEF RepInv, TailInv
  <2>2. ASSUME rpc \in {"tailing", "polling"}, NEW i \in 1..Higher(folded, target)
        PROVE  IsFrame(disk[i]) /\ disk[i] = cache[i]
    <3>1. folded \in 0..MaxSlots /\ target \in 0..MaxSlots
      BY <2>1 DEF RepTypeOK
    <3>2. PICK n \in {folded, target} : i \in 1..n
      BY <2>2, <3>1 DEF Higher
    <3>3. Readable(hdr) /\ n <= hdr.committed
      BY <2>1, <2>2, <3>1, <3>2 DEF TailClaimed
    <3>4. i \in 1..hdr.committed
      BY <2>1, <3>1, <3>2, <3>3, ReadableHeader DEF LogInv, LogTypeOK
    <3> QED
      BY <2>1, <3>3, <3>4 DEF LogInv, ClaimedIsDurable, Vouches
  <2> QED
    BY <2>1, <2>2 DEF NeverAhead, TailMapped
<1> QED
  BY <1>1, ReplicaInvariant, PTL

-----------------------------------------------------------------------------
(* What a scan may find: LogRefinement *)

\* A run of frames from the first slot on, within the capacity; no frames at all
\* without a readable header.
Packed(cells, h) ==
  \A i \in Slots : IsFrame(cells[i]) =>
    /\ Readable(h) /\ i <= h.capacity
    /\ \A j \in 1..i : IsFrame(cells[j])

\* Before there is a header no frame is in sight.
NoFramesYet ==
  hdr = Absent \/ pc \in {"created", "headed"} => \A i \in Slots : ~ IsFrame(cache[i])

\* The file on the medium is no longer than the one that is mapped.
CapacityBehind == Readable(dhdr) => dhdr.capacity <= hdr.capacity

\* While no stale frame can exist, the frames are what was appended, those on the
\* medium are among the mapped ones, and none lies behind the writer's end.
NothingBehind ==
  /\ Packed(cache, hdr)
  /\ \A i \in Slots : IsFrame(disk[i]) => cache[i] = disk[i]
  /\ Opened => \A i \in Slots : IsFrame(cache[i]) => i <= w.writeOffset

\* The inductive invariant of LogRefinement.  By itself ScanFindsOnlyAppended
\* says nothing of the second slot behind the writer's end, which a crash in the
\* middle of an append leaves in reach, nor of what is on the medium.
RefInv ==
  /\ LogInv
  /\ wroteEarly \in BOOLEAN /\ lostPower \in BOOLEAN
  /\ NoFramesYet
  /\ CapacityBehind
  /\ ~ wroteEarly => Packed(disk, dhdr)
  /\ ~ StaleFrames => NothingBehind

\* What a step says of the history variables.
LEMMA HistoryGrows ==
  ASSUME RefInv, RefNext
  PROVE  /\ LogNext /\ LogInv /\ LogInv'
         /\ wroteEarly' \in BOOLEAN /\ lostPower' \in BOOLEAN
         /\ ~ wroteEarly' => ~ wroteEarly /\ \A i \in Slots : ~ Writeback(i)
         /\ ~ StaleFrames' => ~ StaleFrames
         /\ PowerLoss => (~ StaleFrames' => ~ wroteEarly)
<1>1. LogNext /\ LogInv /\ LogInv'
  BY LogInvNext DEF RefInv, RefNext
<1>2. /\ wroteEarly' = (wroteEarly \/ \E i \in Slots : Writeback(i))
      /\ lostPower' = (lostPower \/ PowerLoss)
      /\ wroteEarly \in BOOLEAN /\ lostPower \in BOOLEAN
  BY DEF RefInv, RefNext
<1>3. wroteEarly' = TRUE \/ (wroteEarly' = wroteEarly /\ \A i \in Slots : ~ Writeback(i))
  BY <1>2
<1>4. lostPower' = TRUE \/ (lostPower' = lostPower /\ ~ PowerLoss)
  BY <1>2
<1>5. /\ ~ StaleFrames' <=> ~ wroteEarly' \/ ~ lostPower'
      /\ ~ StaleFrames <=> ~ wroteEarly \/ ~ lostPower
  BY DEF StaleFrames
<1>6. /\ wroteEarly' \in BOOLEAN /\ lostPower' \in BOOLEAN
      /\ ~ wroteEarly' => ~ wroteEarly /\ \A i \in Slots : ~ Writeback(i)
      /\ ~ lostPower' => ~ lostPower /\ ~ PowerLoss
  BY <1>2, <1>3, <1>4
<1> QED
  BY <1>1, <1>5, <1>6

\* The first start writes no frame.
LEMMA CreationKeepsRef ==
  ASSUME RefInv, RefNext, CreateFile \/ WriteHeader \/ SyncHeader
  PROVE  RefInv'
<1>1. /\ LogInv /\ LogInv'
      /\ wroteEarly' \in BOOLEAN /\ lostPower' \in BOOLEAN
      /\ ~ wroteEarly' => ~ wroteEarly
      /\ ~ StaleFrames' => ~ StaleFrames
  BY HistoryGrows
<1>2. /\ cache' = cache /\ ~ Opened'
      /\ pc' \in {"created", "headed", "ready"} /\ hdr' # Absent
      /\ \A i \in Slots : ~ IsFrame(cache[i])
  <2>1. hdr' # Absent
    BY <1>1, UnreadablePages, HeaderFields, LogAssumption
    DEF CreateFile, WriteHeader, SyncHeader, LogInv, CommitPhases, LogAssumption, Absent, Blank, Header
  <2> QED
    BY <2>1 DEF CreateFile, WriteHeader, SyncHeader, RefInv, NoFramesYet, Opened
<1>3. \/ disk' = disk /\ dhdr' = dhdr
      \/ disk' = cache /\ dhdr' = hdr'
  BY DEF CreateFile, WriteHeader, SyncHeader, Sync
<1>4. NoFramesYet'
  BY <1>2 DEF NoFramesYet
<1>5. CapacityBehind'
  <2>1. CASE SyncHeader
    <3>1. dhdr' = hdr' /\ hdr' \in HeaderPage
      BY <2>1, <1>1 DEF SyncHeader, Sync, LogInv, LogTypeOK
    <3> QED
      BY <3>1, ReadableHeader DEF CapacityBehind
  <2>2. CASE CreateFile \/ WriteHeader
    <3>1. dhdr' = dhdr /\ ~ Readable(hdr)
      BY <2>2, <1>1, UnreadablePages DEF CreateFile, WriteHeader, LogInv, CommitPhases
    <3>2. ~ Readable(dhdr)
      BY <3>1, <1>1 DEF LogInv, UnreadableClaimsNothing
    <3> QED
      BY <3>1, <3>2 DEF CapacityBehind
  <2> QED
    BY <2>1, <2>2
<1>6. ~ wroteEarly' => Packed(disk', dhdr')
  <2> SUFFICES ASSUME ~ wroteEarly' PROVE Packed(disk', dhdr')
    OBVIOUS
  <2>1. CASE disk' = disk /\ dhdr' = dhdr
    BY <1>1, <2>1 DEF RefInv
  <2>2. CASE disk' = cache /\ dhdr' = hdr'
    BY <1>2, <2>2 DEF Packed
  <2> QED
    BY <1>3, <2>1, <2>2
<1>7. ~ StaleFrames' => NothingBehind'
  <2> SUFFICES ASSUME ~ StaleFrames' PROVE NothingBehind'
    OBVIOUS
  <2>1. NothingBehind
    BY <1>1 DEF RefInv
  <2> QED
    BY <1>2, <1>3, <2>1 DEF NothingBehind, Packed
<1> QED
  BY <1>1, <1>4, <1>5, <1>6, <1>7 DEF RefInv

\* The scan of __init__ reads all frames there are.
LEMMA OpenKeepsRef ==
  ASSUME RefInv, RefNext, Open
  PROVE  RefInv'
<1>1. /\ LogInv /\ LogInv'
      /\ wroteEarly' \in BOOLEAN /\ lostPower' \in BOOLEAN
      /\ ~ wroteEarly' => ~ wroteEarly
      /\ ~ StaleFrames' => ~ StaleFrames
  BY HistoryGrows
<1>2. /\ cache' = cache /\ hdr' = hdr /\ disk' = disk /\ dhdr' = dhdr
      /\ Readable(hdr) /\ hdr \in HeaderPage
      /\ pc' \in {"up", "recovering"}
  BY <1>1 DEF Open, LogInv, LogTypeOK, CommitPhases
<1>3. PICK n \in 0..MaxSlots : ScanStopsAt(cache, hdr, n) /\ w'.writeOffset = n
  BY DEF Open
<1>4. ASSUME ~ StaleFrames', NEW i \in Slots, IsFrame(cache[i]) PROVE i <= n
  <2> SUFFICES ASSUME n < i PROVE FALSE
    BY <1>3, LogAssumption DEF Slots, LogAssumption
  <2>1. i <= hdr.capacity /\ \A j \in 1..i : IsFrame(cache[j])
    BY <1>1, <1>4 DEF RefInv, NothingBehind, Packed
  <2>2. hdr.capacity \in Nat /\ n \in Nat /\ i \in Nat
    BY <1>2, <1>3, ReadableHeader, LogAssumption DEF Slots, LogAssumption
  <2>3. n < hdr.capacity /\ n + 1 \in 1..i
    BY <2>1, <2>2
  <2> QED
    BY <1>3, <2>1, <2>3 DEF ScanStopsAt
<1>5. NoFramesYet' /\ CapacityBehind'
  BY <1>2, UnreadablePages DEF RefInv, NoFramesYet, CapacityBehind
<1>6. ~ wroteEarly' => Packed(disk', dhdr')
  BY <1>1, <1>2 DEF RefInv
<1>7. ~ StaleFrames' => NothingBehind'
  BY <1>1, <1>2, <1>3, <1>4 DEF RefInv, NothingBehind, Packed
<1> QED
  BY <1>1, <1>5, <1>6, <1>7 DEF RefInv

\* Append, or a kill in the middle of one: only the slot after the writer's end
\* changes, where no frame was.
LEMMA OverwriteNextKeepsRef ==
  ASSUME RefInv, RefNext, pc = "up", EnsureCapacity, pc' \in {"up", "down"},
         NEW c \in Cell, IsFrame(c) => c.seq = w.writeOffset + 1,
         cache' = [cache EXCEPT ![w.writeOffset + 1] = c]
  PROVE  /\ NoFramesYet' /\ CapacityBehind'
         /\ ~ wroteEarly' => Packed(disk', dhdr')
         /\ ~ StaleFrames' =>
              /\ Packed(cache', hdr')
              /\ \A i \in Slots : IsFrame(disk'[i]) => cache'[i] = disk'[i]
              /\ \A i \in Slots : IsFrame(cache'[i]) => i <= w.writeOffset + 1
              /\ IsFrame(cache'[w.writeOffset + 1]) => IsFrame(c)
<1>1. /\ LogInv
      /\ ~ wroteEarly' => ~ wroteEarly
      /\ ~ StaleFrames' => ~ StaleFrames
  BY HistoryGrows
<1>2. /\ hdr'.capacity = EnsuredCapacity /\ Readable(hdr') /\ hdr' \in HeaderPage
      /\ w.writeOffset + 1 \in Slots
  BY <1>1, OverwriteNextKeeps
<1>3. /\ EnsuredCapacity \in 1..MaxSlots /\ w.writeOffset + 1 <= EnsuredCapacity
      /\ w.capacity <= EnsuredCapacity
  BY <1>1, EnsuredCapacityOK DEF EnsureCapacity
<1>4. /\ Opened /\ w.writeOffset \in 0..MaxSlots
      /\ Readable(hdr) /\ hdr.capacity = w.capacity /\ w.capacity \in 0..MaxSlots
      /\ cache \in [Slots -> Cell] /\ dhdr \in HeaderPage /\ hdr \in HeaderPage
      /\ \A i \in 1..w.writeOffset : IsFrame(cache[i])
  BY <1>1 DEF LogInv, LogTypeOK, AppendedSurvivesKill, Opened
<1>5. /\ \A i \in Slots : i # w.writeOffset + 1 => cache'[i] = cache[i]
      /\ cache'[w.writeOffset + 1] = c
  BY <1>2, <1>4
<1>6. \/ disk' = disk /\ dhdr' = dhdr
      \/ disk' = cache /\ dhdr' = hdr
  BY DEF EnsureCapacity, Sync
<1>7. NoFramesYet'
  BY <1>2, UnreadablePages DEF NoFramesYet
<1>8. CapacityBehind'
  <2>1. Readable(dhdr') => dhdr'.capacity <= hdr.capacity /\ dhdr'.capacity \in 1..MaxSlots
    BY <1>4, <1>6, ReadableHeader DEF RefInv, CapacityBehind
  <2> QED
    BY <2>1, <1>2, <1>3, <1>4, LogAssumption DEF CapacityBehind, LogAssumption
<1>9. ~ StaleFrames' => NothingBehind
  BY <1>1 DEF RefInv
<1>10. ~ wroteEarly' => Packed(disk', dhdr')
  <2> SUFFICES ASSUME ~ wroteEarly' PROVE Packed(disk', dhdr')
    OBVIOUS
  <2>1. Packed(disk, dhdr) /\ Packed(cache, hdr)
    BY <1>1 DEF RefInv, StaleFrames, NothingBehind
  <2> QED
    BY <2>1, <1>6
<1>11. ASSUME ~ StaleFrames', NEW i \in Slots, IsFrame(cache[i])
       PROVE  i <= w.writeOffset /\ cache'[i] = cache[i]
  <2>1. i <= w.writeOffset
    BY <1>4, <1>9, <1>11 DEF NothingBehind
  <2>2. i # w.writeOffset + 1
    BY <2>1, <1>4
  <2> QED
    BY <2>1, <2>2, <1>5
<1>12. ASSUME ~ StaleFrames', NEW i \in Slots, IsFrame(cache'[i])
       PROVE  /\ i <= w.writeOffset + 1 /\ i <= EnsuredCapacity
              /\ \A j \in 1..i : IsFrame(cache'[j])
  <2>1. i <= w.writeOffset + 1
    <3>1. CASE i # w.writeOffset + 1
      <4>1. i <= w.writeOffset
        BY <3>1, <1>5, <1>11, <1>12
      <4> QED
        BY <4>1, <1>4, LogAssumption DEF Slots, LogAssumption
    <3>2. CASE i = w.writeOffset + 1
      BY <3>2, <1>4
    <3> QED
      BY <3>1, <3>2
  <2>2. ASSUME NEW j \in 1..i PROVE IsFrame(cache'[j])
    <3>1. CASE j = i
      BY <3>1, <1>12
    <3>2. CASE j # i
      <4>1. j \in 1..w.writeOffset /\ j \in Slots /\ j # w.writeOffset + 1
        BY <2>1, <3>2, <1>4, LogAssumption DEF Slots, LogAssumption
      <4> QED
        BY <4>1, <1>4, <1>5
    <3> QED
      BY <3>1, <3>2
  <2>3. i <= EnsuredCapacity
    BY <2>1, <1>3, <1>4, LogAssumption DEF Slots, LogAssumption
  <2> QED
    BY <2>1, <2>2, <2>3
<1>13. ~ StaleFrames' =>
         /\ Packed(cache', hdr')
         /\ \A i \in Slots : IsFrame(cache'[i]) => i <= w.writeOffset + 1
  BY <1>2, <1>12 DEF Packed
<1>14. ASSUME ~ StaleFrames', NEW i \in Slots, IsFrame(disk'[i]) PROVE cache'[i] = disk'[i]
  <2>1. IsFrame(cache[i]) /\ cache[i] = disk'[i]
    BY <1>6, <1>9, <1>14 DEF NothingBehind
  <2> QED
    BY <2>1, <1>11, <1>14
<1> QED
  BY <1>5, <1>7, <1>8, <1>10, <1>13, <1>14

LEMMA AppendKeepsRef ==
  ASSUME RefInv, RefNext, NEW e \in Event, AppendFrame(e)
  PROVE  RefInv'
<1> DEFINE c == Frame(w.lastSeq + 1, e)
<1>1. /\ LogInv /\ LogInv'
      /\ wroteEarly' \in BOOLEAN /\ lostPower' \in BOOLEAN
  BY HistoryGrows
<1>2. /\ pc = "up" /\ pc' = "up" /\ EnsureCapacity /\ HasRoom
      /\ cache' = [cache EXCEPT ![w.writeOffset + 1] = c]
      /\ w'.writeOffset = w.writeOffset + 1
  BY DEF AppendFrame, WriteSlot, EnsureCapacity
<1>3. c \in Cell /\ IsFrame(c) /\ c.seq = w.writeOffset + 1
  <2>1. w.lastSeq = w.writeOffset /\ w.writeOffset \in 0..MaxSlots
    BY <1>1, <1>2 DEF LogInv, LogTypeOK, AppendedSurvivesKill, Opened
  <2>2. w.writeOffset + 1 \in Slots
    BY <2>1, <1>1, <1>2, EnsuredCapacityOK, LogAssumption DEF Slots, LogAssumption
  <2> QED
    BY <2>1, <2>2, CellKinds DEF Cell
<1> HIDE DEF c
<1>4. /\ NoFramesYet' /\ CapacityBehind'
      /\ ~ wroteEarly' => Packed(disk', dhdr')
      /\ ~ StaleFrames' =>
           /\ Packed(cache', hdr')
           /\ \A i \in Slots : IsFrame(disk'[i]) => cache'[i] = disk'[i]
           /\ \A i \in Slots : IsFrame(cache'[i]) => i <= w.writeOffset + 1
  BY <1>2, <1>3, OverwriteNextKeepsRef
<1>5. ~ StaleFrames' => NothingBehind'
  BY <1>2, <1>4 DEF NothingBehind
<1> QED
  BY <1>1, <1>4, <1>5 DEF RefInv

\* A commit makes the medium what the mapping is.
LEMMA CommitKeepsRef ==
  ASSUME RefInv, RefNext, CommitFlush \/ CommitClaim \/ CommitSync
  PROVE  RefInv'
<1>1. /\ LogInv /\ LogInv'
      /\ wroteEarly' \in BOOLEAN /\ lostPower' \in BOOLEAN
      /\ ~ wroteEarly' => ~ wroteEarly
      /\ ~ StaleFrames' => ~ StaleFrames
  BY HistoryGrows
<1>2. /\ cache' = cache /\ Opened
      /\ Readable(hdr) /\ hdr \in HeaderPage /\ hdr.capacity \in 1..MaxSlots
      /\ w.writeOffset \in 0..MaxSlots /\ w.lastSeq \in 0..MaxSlots
      /\ w.writeOffset = w'.writeOffset
      /\ pc' \in {"up", "flushed", "claimed"}
  BY <1>1, ReadableHeader
  DEF CommitFlush, CommitClaim, CommitSync, Opened, LogInv, LogTypeOK, AppendedSurvivesKill
<1>3. Readable(hdr') /\ hdr'.capacity = hdr.capacity
  BY <1>2, HeaderFields DEF CommitFlush, CommitClaim, CommitSync
<1>4. \/ disk' = disk /\ dhdr' = dhdr
      \/ disk' = cache /\ dhdr' = hdr
  BY DEF CommitFlush, CommitClaim, CommitSync, Sync
<1>5. NoFramesYet'
  BY <1>2, <1>3, UnreadablePages DEF NoFramesYet
<1>6. CapacityBehind'
  BY <1>2, <1>3, <1>4 DEF RefInv, CapacityBehind
<1>7. ~ wroteEarly' => Packed(disk', dhdr')
  <2> SUFFICES ASSUME ~ wroteEarly' PROVE Packed(disk', dhdr')
    OBVIOUS
  <2>1. Packed(disk, dhdr) /\ Packed(cache, hdr)
    BY <1>1 DEF RefInv, StaleFrames, NothingBehind
  <2> QED
    BY <2>1, <1>4
<1>8. ~ StaleFrames' => NothingBehind'
  <2> SUFFICES ASSUME ~ StaleFrames' PROVE NothingBehind'
    OBVIOUS
  <2>1. NothingBehind
    BY <1>1 DEF RefInv
  <2>2. Packed(cache', hdr')
    BY <2>1, <1>2, <1>3 DEF NothingBehind, Packed
  <2>3. \A i \in Slots : IsFrame(disk'[i]) => cache'[i] = disk'[i]
    BY <2>1, <1>2, <1>4 DEF NothingBehind
  <2>4. \A i \in Slots : IsFrame(cache'[i]) => i <= w'.writeOffset
    BY <2>1, <1>2 DEF NothingBehind
  <2> QED
    BY <2>2, <2>3, <2>4 DEF NothingBehind
<1> QED
  BY <1>1, <1>5, <1>6, <1>7, <1>8 DEF RefInv

\* The writer goes away and leaves the frames where they are.
LEMMA StopKeepsRef ==
  ASSUME RefInv, RefNext, Close \/ Crash \/ CrashMidAppend
  PROVE  RefInv'
<1>1. /\ LogInv /\ LogInv'
      /\ wroteEarly' \in BOOLEAN /\ lostPower' \in BOOLEAN
      /\ ~ wroteEarly' => ~ wroteEarly
      /\ ~ StaleFrames' => ~ StaleFrames
  BY HistoryGrows
<1>2. pc' = "down" /\ ~ Opened'
  BY DEF Close, Crash, CrashMidAppend, Opened
<1>3. CASE Close \/ Crash
  <2>1. cache' = cache /\ hdr' = hdr /\ disk' = disk /\ dhdr' = dhdr
    BY <1>3 DEF Close, Crash
  <2>2. NoFramesYet' /\ CapacityBehind'
    BY <2>1, <1>2 DEF RefInv, NoFramesYet, CapacityBehind
  <2>3. ~ StaleFrames' => NothingBehind'
    BY <2>1, <1>1, <1>2 DEF RefInv, NothingBehind, Packed
  <2>4. ~ wroteEarly' => Packed(disk', dhdr')
    BY <2>1, <1>1 DEF RefInv
  <2> QED
    BY <2>2, <2>3, <2>4, <1>1 DEF RefInv
<1>4. CASE CrashMidAppend
  <2>1. /\ pc = "up" /\ EnsureCapacity /\ pc' \in {"up", "down"}
        /\ cache' = [cache EXCEPT ![w.writeOffset + 1] = Torn]
    BY <1>4 DEF CrashMidAppend, WriteSlot
  <2>2. Torn \in Cell /\ ~ IsFrame(Torn)
    BY CellKinds DEF Cell
  <2>3. /\ NoFramesYet' /\ CapacityBehind'
        /\ ~ wroteEarly' => Packed(disk', dhdr')
        /\ ~ StaleFrames' =>
             /\ Packed(cache', hdr')
             /\ \A i \in Slots : IsFrame(disk'[i]) => cache'[i] = disk'[i]
    BY <2>1, <2>2, OverwriteNextKeepsRef
  <2>4. ~ StaleFrames' => NothingBehind'
    BY <2>3, <1>2 DEF NothingBehind
  <2> QED
    BY <2>3, <2>4, <1>1 DEF RefInv
<1> QED
  BY <1>3, <1>4

\* Without an early page, what a power loss leaves is what the last fsync saw.
LEMMA PowerLossKeepsRef ==
  ASSUME RefInv, RefNext, PowerLoss
  PROVE  RefInv'
<1>1. /\ LogInv /\ LogInv'
      /\ wroteEarly' \in BOOLEAN /\ lostPower' \in BOOLEAN
      /\ ~ wroteEarly' => ~ wroteEarly
      /\ ~ StaleFrames' => ~ wroteEarly
  BY HistoryGrows
<1>2. /\ pc' = "down" /\ ~ Opened'
      /\ cache' = disk' /\ hdr' = dhdr /\ dhdr' = dhdr
      /\ disk' = IF dhdr = Absent THEN [i \in Slots |-> Zero] ELSE disk
  BY DEF PowerLoss, Opened
<1>3. \A i \in Slots : IsFrame(disk'[i]) => dhdr # Absent /\ disk' = disk
  BY <1>2, CellKinds
<1>4. NoFramesYet'
  BY <1>2, <1>3 DEF NoFramesYet
<1>5. CapacityBehind'
  BY <1>2, ReadableHeader, <1>1 DEF CapacityBehind, LogInv, LogTypeOK
<1>6. ~ wroteEarly => Packed(disk', dhdr')
  <2> SUFFICES ASSUME ~ wroteEarly PROVE Packed(disk', dhdr')
    OBVIOUS
  <2>1. Packed(disk, dhdr)
    BY DEF RefInv
  <2> QED
    BY <2>1, <1>2, <1>3 DEF Packed
<1>7. ~ StaleFrames' => NothingBehind'
  BY <1>1, <1>2, <1>6 DEF NothingBehind
<1> QED
  BY <1>1, <1>4, <1>5, <1>6, <1>7 DEF RefInv

\* The kernel writes a page of the mapping back, whole or in part.
LEMMA WritebackKeepsRef ==
  ASSUME RefInv, RefNext, (\E i \in Slots : Writeback(i)) \/ WritebackHeader
  PROVE  RefInv'
<1>1. /\ LogInv /\ LogInv'
      /\ wroteEarly' \in BOOLEAN /\ lostPower' \in BOOLEAN
      /\ ~ wroteEarly' => ~ wroteEarly /\ \A i \in Slots : ~ Writeback(i)
      /\ ~ StaleFrames' => ~ StaleFrames
  BY HistoryGrows
<1>2. cache' = cache /\ hdr' = hdr /\ pc' = pc /\ w' = w
  BY DEF Writeback, WritebackHeader
<1>3. NoFramesYet'
  BY <1>2 DEF RefInv, NoFramesYet
<1>4. CapacityBehind'
  <2>1. dhdr' = dhdr \/ dhdr' = hdr
    BY DEF Writeback, WritebackHeader
  <2> QED
    BY <2>1, <1>1, <1>2, ReadableHeader DEF RefInv, CapacityBehind, LogInv, LogTypeOK
<1>5. ~ wroteEarly' => Packed(disk', dhdr')
  <2> SUFFICES ASSUME ~ wroteEarly' PROVE Packed(disk', dhdr')
    OBVIOUS
  <2>1. WritebackHeader /\ Packed(disk, dhdr)
    BY <1>1 DEF RefInv
  <2>2. disk' = disk /\ dhdr' = hdr
    BY <2>1 DEF WritebackHeader
  <2>3. ASSUME NEW i \in Slots, IsFrame(disk[i])
        PROVE  /\ Readable(hdr) /\ i <= hdr.capacity
               /\ \A j \in 1..i : IsFrame(disk[j])
    <3>1. Readable(dhdr) /\ i <= dhdr.capacity /\ \A j \in 1..i : IsFrame(disk[j])
      BY <2>1, <2>3 DEF Packed
    <3>2. Readable(hdr) /\ dhdr.capacity <= hdr.capacity
      BY <3>1, <1>1 DEF RefInv, CapacityBehind, LogInv, UnreadableClaimsNothing
    <3>3. dhdr.capacity \in 1..MaxSlots /\ hdr.capacity \in 1..MaxSlots
      BY <3>1, <3>2, <1>1, ReadableHeader DEF LogInv, LogTypeOK
    <3> QED
      BY <3>1, <3>2, <3>3, LogAssumption DEF Slots, LogAssumption
  <2> QED
    BY <2>2, <2>3 DEF Packed
<1>6. ~ StaleFrames' => NothingBehind'
  <2> SUFFICES ASSUME ~ StaleFrames' PROVE NothingBehind'
    OBVIOUS
  <2>1. NothingBehind
    BY <1>1 DEF RefInv
  <2>2. ASSUME NEW i \in Slots, IsFrame(disk'[i]) PROVE cache[i] = disk'[i]
    <3>1. disk'[i] = disk[i] \/ disk'[i] = cache[i]
      BY <1>1, <2>2, CellKinds DEF Writeback, WritebackHeader, LogInv, LogTypeOK
    <3> QED
      BY <2>1, <2>2, <3>1 DEF NothingBehind
  <2> QED
    BY <2>1, <2>2, <1>2 DEF NothingBehind, Packed, Opened
<1> QED
  BY <1>1, <1>3, <1>4, <1>5, <1>6 DEF RefInv

LEMMA RefInvInit == RefInit => RefInv
<1> SUFFICES ASSUME RefInit PROVE RefInv
  OBVIOUS
<1>1. LogInv
  BY LogInvInit DEF RefInit
<1>2. \A i \in Slots : ~ IsFrame(cache[i]) /\ ~ IsFrame(disk[i])
  BY CellKinds DEF RefInit, LogInit
<1>3. ~ Readable(dhdr) /\ ~ Opened
  BY UnreadablePages DEF RefInit, LogInit, Opened
<1>4. NoFramesYet /\ CapacityBehind /\ NothingBehind /\ Packed(disk, dhdr)
  BY <1>2, <1>3 DEF NoFramesYet, CapacityBehind, NothingBehind, Packed
<1> QED
  BY <1>1, <1>4 DEF RefInv, RefInit

\* Every step of the writer, the kernel and the failures keeps RefInv.
LEMMA RefInvNext == RefInv /\ [RefNext]_refVars => RefInv'
<1> SUFFICES ASSUME RefInv, [RefNext]_refVars PROVE RefInv'
  OBVIOUS
<1>1. CASE UNCHANGED refVars
  <2>1. LogInv'
    BY <1>1, LogInvNext DEF RefInv, refVars
  <2>2. /\ UNCHANGED <<cache, hdr, disk, dhdr, pc, w>>
        /\ UNCHANGED <<wroteEarly, lostPower>>
    BY <1>1 DEF refVars, logVars
  <2>3. NoFramesYet' /\ CapacityBehind'
    BY <2>2 DEF RefInv, NoFramesYet, CapacityBehind
  <2>4. (~ wroteEarly => Packed(disk, dhdr))'
    BY <2>2 DEF RefInv, Packed
  <2>5. (~ StaleFrames => NothingBehind)'
    BY <2>2 DEF RefInv, StaleFrames, NothingBehind, Packed, Opened
  <2> QED
    BY <2>1, <2>2, <2>3, <2>4, <2>5 DEF RefInv
<1>2. CASE RefNext
  <2>1. LogNext
    BY <1>2 DEF RefNext
  <2>2. CASE CreateFile \/ WriteHeader \/ SyncHeader
    BY <1>2, <2>2, CreationKeepsRef
  <2>3. CASE Open
    BY <1>2, <2>3, OpenKeepsRef
  <2>4. ASSUME NEW e \in Event, AppendFrame(e) PROVE RefInv'
    BY <1>2, <2>4, AppendKeepsRef
  <2>5. CASE CommitFlush \/ CommitClaim \/ CommitSync
    BY <1>2, <2>5, CommitKeepsRef
  <2>6. CASE Close \/ Crash \/ CrashMidAppend
    BY <1>2, <2>6, StopKeepsRef
  <2>7. CASE PowerLoss
    BY <1>2, <2>7, PowerLossKeepsRef
  <2>8. CASE (\E i \in Slots : Writeback(i)) \/ WritebackHeader
    BY <1>2, <2>8, WritebackKeepsRef
  <2> QED
    BY <2>1, <2>2, <2>3, <2>4, <2>5, <2>6, <2>7, <2>8 DEF LogNext
<1> QED
  BY <1>1, <1>2

\* The inductive invariant holds in every reachable state.
THEOREM ScanInvariant == RefSpec => []RefInv
<1> QED
  BY RefInvInit, RefInvNext, PTL DEF RefSpec

\* The "whole frames past the last commit" that scan_ahead recovers after a kill
\* (log/writer.py) are those that were appended: what lies right behind the
\* writer's end does not decode, for every file size and growth factor, unless an
\* early page and a power loss together have left a stale frame there.
THEOREM ScanStopsAtTheEnd == RefSpec => []ScanFindsOnlyAppended
<1>1. ASSUME RefInv PROVE ScanFindsOnlyAppended
  <2> SUFFICES ASSUME Opened, ~ StaleFrames PROVE ScanStopsAt(cache, hdr, w.writeOffset)
    BY DEF ScanFindsOnlyAppended
  <2>1. /\ LogInv /\ hdr \in HeaderPage /\ w.writeOffset \in 0..MaxSlots
        /\ Readable(hdr) /\ hdr.committed <= w.writeOffset /\ w.writeOffset <= hdr.capacity
        /\ \A i \in 1..w.writeOffset : IsFrame(cache[i])
    BY <1>1 DEF RefInv, LogInv, LogTypeOK, AppendedSurvivesKill
  <2>2. hdr.capacity \in 1..MaxSlots /\ hdr.committed \in 0..MaxSlots
    BY <2>1, ReadableHeader
  <2>3. ASSUME w.writeOffset < hdr.capacity PROVE ~ IsFrame(cache[w.writeOffset + 1])
    <3>1. w.writeOffset + 1 \in Slots /\ ~ (w.writeOffset + 1 <= w.writeOffset)
      BY <2>1, <2>2, <2>3, LogAssumption DEF Slots, LogAssumption
    <3> QED
      BY <3>1, <1>1 DEF RefInv, NothingBehind
  <2> QED
    BY <2>1, <2>2, <2>3 DEF ScanStopsAt
<1> QED
  BY <1>1, ScanInvariant, PTL

-----------------------------------------------------------------------------
(* LogWriter implements EventLog *)

\* scan_ahead stops somewhere, and at one place only.
LEMMA ScanStops ==
  ASSUME NEW cells, NEW h \in HeaderPage, Readable(h), h.committed <= h.capacity
  PROVE  /\ \E n \in 0..MaxSlots : ScanStopsAt(cells, h, n)
         /\ \A n, k \in 0..MaxSlots :
              ScanStopsAt(cells, h, n) /\ ScanStopsAt(cells, h, k) => n = k
<1>1. /\ h.committed \in 0..MaxSlots /\ h.capacity \in 1..MaxSlots /\ MaxSlots \in Nat
      /\ h.committed \in Nat /\ h.capacity \in Nat
  BY ReadableHeader, LogAssumption DEF LogAssumption
<1> DEFINE T == {n \in h.committed..h.capacity : n < h.capacity => ~ IsFrame(cells[n + 1])}
<1>2. PICK m \in T : \A k \in T : m <= k
  <2>1. h.capacity \in T /\ T \in SUBSET Nat
    BY <1>1
  <2> HIDE DEF T
  <2> QED
    BY <2>1, LeastElement
<1>3. \A i \in (h.committed + 1)..m : IsFrame(cells[i])
  <2> SUFFICES ASSUME NEW i \in (h.committed + 1)..m, ~ IsFrame(cells[i]) PROVE FALSE
    OBVIOUS
  <2>1. m \in Nat /\ m <= h.capacity
    BY <1>1, <1>2
  <2>2. i - 1 \in h.committed..h.capacity /\ (i - 1) + 1 = i /\ ~ (m <= i - 1)
    BY <1>1, <2>1
  <2>3. i - 1 \in T
    BY <2>2
  <2> QED
    BY <1>2, <2>2, <2>3
<1>4. m \in 0..MaxSlots /\ ScanStopsAt(cells, h, m)
  BY <1>1, <1>2, <1>3 DEF ScanStopsAt
<1>5. ASSUME NEW n \in 0..MaxSlots, NEW k \in 0..MaxSlots,
             ScanStopsAt(cells, h, n), ScanStopsAt(cells, h, k), n < k
      PROVE  FALSE
  <2>1. n \in h.committed..h.capacity /\ k \in h.committed..h.capacity
    BY <1>5 DEF ScanStopsAt
  <2>2. n < h.capacity /\ n + 1 \in (h.committed + 1)..k
    BY <1>1, <1>5, <2>1
  <2> QED
    BY <1>5, <2>2 DEF ScanStopsAt
<1>6. ASSUME NEW n \in 0..MaxSlots, NEW k \in 0..MaxSlots,
             ScanStopsAt(cells, h, n), ScanStopsAt(cells, h, k)
      PROVE  n = k
  <2>1. n < k \/ k < n \/ n = k
    BY <1>1
  <2> QED
    BY <1>5, <1>6, <2>1
<1> QED
  BY <1>4, <1>6

\* Where the abstract log ends: behind what is committed, and at frames only.
EndKnown ==
  /\ Recoverable \in 0..MaxSlots
  /\ Opened => Recoverable = w.writeOffset
  /\ Readable(hdr) => Recoverable \in hdr.committed..hdr.capacity
  /\ ~ Readable(hdr) => Recoverable = 0
  /\ ~ Opened /\ Readable(hdr) => ScanStopsAt(cache, hdr, Recoverable)
  /\ \A i \in 1..Recoverable : i \in Slots /\ IsFrame(cache[i]) /\ cache[i].event \in Event
  /\ durableBar \in 0..Recoverable
  /\ Readable(dhdr) => durableBar = dhdr.committed

LEMMA EndIsKnown == LogInv => EndKnown
<1> SUFFICES ASSUME LogInv PROVE EndKnown
  OBVIOUS
<1>1. /\ hdr \in HeaderPage /\ dhdr \in HeaderPage /\ cache \in [Slots -> Cell]
      /\ w.writeOffset \in 0..MaxSlots /\ MaxSlots \in Nat
  BY LogAssumption DEF LogInv, LogTypeOK, LogAssumption
<1>2. Readable(hdr) =>
        /\ hdr.committed \in 0..MaxSlots /\ hdr.capacity \in 1..MaxSlots
        /\ hdr.committed <= hdr.capacity
        /\ \A i \in 1..hdr.committed : IsFrame(cache[i])
  BY <1>1, ReadableHeader DEF LogInv, ClaimedIsDurable, Vouches
<1>3. Opened =>
        /\ Readable(hdr) /\ w.writeOffset \in hdr.committed..hdr.capacity
        /\ \A i \in 1..w.writeOffset : IsFrame(cache[i])
  BY <1>1, <1>2 DEF LogInv, AppendedSurvivesKill
<1>4. ~ Opened /\ Readable(hdr) => Recoverable \in 0..MaxSlots /\ ScanStopsAt(cache, hdr, Recoverable)
  <2> SUFFICES ASSUME ~ Opened, Readable(hdr)
               PROVE  Recoverable \in 0..MaxSlots /\ ScanStopsAt(cache, hdr, Recoverable)
    OBVIOUS
  <2>1. Recoverable = CHOOSE n \in 0..MaxSlots : ScanStopsAt(cache, hdr, n)
    BY DEF Recoverable
  <2>2. \E n \in 0..MaxSlots : ScanStopsAt(cache, hdr, n)
    BY <1>1, <1>2, ScanStops
  <2> QED
    BY <2>1, <2>2
<1>5. ~ Readable(hdr) => ~ Opened /\ Recoverable = 0
  BY <1>3 DEF Recoverable
<1>6. Opened => Recoverable = w.writeOffset
  BY DEF Recoverable
<1>7. /\ Recoverable \in 0..MaxSlots
      /\ Readable(hdr) => Recoverable \in hdr.committed..hdr.capacity
  BY <1>1, <1>3, <1>4, <1>5, <1>6 DEF ScanStopsAt
<1>8. \A i \in 1..Recoverable : i \in Slots /\ IsFrame(cache[i]) /\ cache[i].event \in Event
  <2> TAKE i \in 1..Recoverable
  <2>1. i \in Slots
    BY <1>1, <1>7 DEF Slots
  <2>2. IsFrame(cache[i])
    <3>1. CASE Opened
      BY <3>1, <1>3, <1>6
    <3>2. CASE ~ Opened /\ Readable(hdr)
      <4>1. i \in 1..hdr.committed \/ i \in (hdr.committed + 1)..Recoverable
        BY <3>2, <1>2, <1>7
      <4> QED
        BY <4>1, <3>2, <1>2, <1>4 DEF ScanStopsAt
    <3>3. CASE ~ Readable(hdr)
      BY <3>3, <1>5
    <3> QED
      BY <3>1, <3>2, <3>3
  <2> QED
    BY <2>1, <2>2, <1>1 DEF Cell, IsFrame, Zero, Torn, Frame
<1>9. durableBar \in 0..Recoverable /\ (Readable(dhdr) => durableBar = dhdr.committed)
  <2>1. CASE Readable(dhdr)
    <3>1. /\ durableBar = dhdr.committed /\ dhdr.committed \in 0..MaxSlots
          /\ Readable(hdr) /\ dhdr.committed <= hdr.committed
      BY <1>1, <2>1, ReadableHeader
      DEF durableBar, LogInv, UnreadableClaimsNothing, MediumBehind
    <3> QED
      BY <3>1, <1>2, <1>7
  <2>2. CASE ~ Readable(dhdr)
    BY <2>2, <1>7 DEF durableBar
  <2> QED
    BY <2>1, <2>2
<1> QED
  BY <1>4, <1>6, <1>7, <1>5, <1>8, <1>9 DEF EndKnown

LEMMA EndIsKnownNext == LogInv' => EndKnown'
BY EndIsKnown, PTL

\* The abstract log as a sequence of events.
LEMMA BarIsLog ==
  ASSUME EndKnown
  PROVE  /\ logBar \in Seq(Event) /\ Len(logBar) = Recoverable
         /\ \A i \in 1..Recoverable : logBar[i] = cache[i].event
<1>1. Recoverable \in Nat /\ \A i \in 1..Recoverable : cache[i].event \in Event
  BY LogAssumption DEF EndKnown, LogAssumption
<1> QED
  BY <1>1 DEF logBar

LEMMA BarIsLogNext ==
  ASSUME EndKnown'
  PROVE  /\ logBar' \in Seq(Event) /\ Len(logBar') = Recoverable'
         /\ \A i \in 1..Recoverable' : logBar'[i] = cache'[i].event
<1>1. Recoverable' \in Nat /\ \A i \in 1..Recoverable' : cache'[i].event \in Event
  BY LogAssumption DEF EndKnown, LogAssumption
<1> QED
  BY <1>1 DEF logBar

\* While no stale frame can exist, every frame is part of the abstract log.
LEMMA NoFrameBehindEnd ==
  ASSUME RefInv, ~ StaleFrames, NEW i \in Slots, IsFrame(cache[i])
  PROVE  i \in 1..Recoverable
<1>1. /\ EndKnown /\ NothingBehind
      /\ hdr \in HeaderPage
  BY EndIsKnown DEF RefInv, LogInv, LogTypeOK
<1>2. Readable(hdr) /\ i <= hdr.capacity /\ \A j \in 1..i : IsFrame(cache[j])
  BY <1>1 DEF NothingBehind, Packed
<1>3. hdr.capacity \in Nat /\ Recoverable \in Nat /\ i \in Nat /\ i >= 1
  BY <1>1, <1>2, ReadableHeader, LogAssumption DEF EndKnown, Slots, LogAssumption
<1>4. CASE Opened
  BY <1>1, <1>3, <1>4 DEF EndKnown, NothingBehind
<1>5. CASE ~ Opened
  <2> SUFFICES ASSUME Recoverable < i PROVE FALSE
    BY <1>3
  <2>1. Recoverable < hdr.capacity /\ Recoverable + 1 \in 1..i
    BY <1>2, <1>3
  <2> QED
    BY <1>1, <1>2, <1>5, <2>1 DEF EndKnown, ScanStopsAt
<1> QED
  BY <1>4, <1>5

\* A step that leaves the frames up to the end alone and claims no less is one of
\* the abstract log, or none.
LEMMA SameLog ==
  ASSUME EndKnown, EndKnown', Recoverable' = Recoverable, durableBar' >= durableBar,
         \A i \in 1..Recoverable : cache'[i] = cache[i]
  PROVE  ELog!AMakeDurable \/ UNCHANGED <<logBar, durableBar>>
<1>1. logBar' = logBar
  <2>1. \A i \in 1..Recoverable : logBar'[i] = logBar[i]
    BY BarIsLog, BarIsLogNext
  <2>2. /\ logBar \in Seq(Event) /\ logBar' \in Seq(Event)
        /\ Len(logBar) = Recoverable /\ Len(logBar') = Recoverable
    BY BarIsLog, BarIsLogNext
  <2> QED
    BY <2>1, <2>2, SeqEqual
<1>2. durableBar \in 0..Recoverable /\ durableBar' \in 0..Recoverable /\ Recoverable \in Nat
  BY LogAssumption DEF EndKnown, LogAssumption
<1>3. durableBar' = durableBar \/ durableBar' \in (durableBar + 1)..Recoverable
  BY <1>2
<1>4. Len(logBar) = Recoverable
  BY BarIsLog
<1> QED
  BY <1>1, <1>3, <1>4 DEF ELog!AMakeDurable

\* A sync may claim more, never less.
LEMMA SyncClaimsMore ==
  ASSUME LogInv, LogInv', dhdr' \in {dhdr, hdr}
  PROVE  /\ durableBar' >= durableBar
         /\ Readable(hdr) => durableBar' <= hdr.committed
<1>1. /\ hdr \in HeaderPage /\ dhdr \in HeaderPage /\ EndKnown
      /\ Readable(dhdr) => Readable(hdr) /\ dhdr.committed <= hdr.committed
  BY EndIsKnown DEF LogInv, LogTypeOK, UnreadableClaimsNothing, MediumBehind
<1>2. /\ Readable(dhdr) => dhdr.committed \in 0..MaxSlots
      /\ Readable(hdr) => hdr.committed \in 0..MaxSlots
  BY <1>1, ReadableHeader
<1>3. durableBar = (IF Readable(dhdr) THEN dhdr.committed ELSE 0)
      /\ durableBar' = (IF Readable(dhdr') THEN dhdr'.committed ELSE 0)
  BY DEF durableBar
<1>4. CASE dhdr' = dhdr
  BY <1>1, <1>2, <1>3, <1>4, LogAssumption DEF LogAssumption
<1>5. CASE dhdr' = hdr
  BY <1>1, <1>2, <1>3, <1>5, LogAssumption DEF LogAssumption
<1> QED
  BY <1>4, <1>5

\* append adds one event at the end, and growing the file may claim some more.
LEMMA AppendRefines ==
  ASSUME RefInv, RefNext, NEW e \in Event, AppendFrame(e)
  PROVE  ELog!AAppend(e)
<1>1. LogInv /\ LogInv' /\ EndKnown /\ EndKnown'
  BY HistoryGrows, EndIsKnown, EndIsKnownNext
<1>2. /\ pc = "up" /\ pc' = "up"
      /\ cache' = [cache EXCEPT ![w.writeOffset + 1] = Frame(w.lastSeq + 1, e)]
      /\ w'.writeOffset = w.writeOffset + 1
      /\ dhdr' \in {dhdr, hdr}
  BY DEF AppendFrame, WriteSlot, EnsureCapacity, Sync
<1>3. Opened /\ Opened' /\ Readable(hdr)
  BY <1>1, <1>2 DEF Opened, LogInv, AppendedSurvivesKill
<1>4. /\ Recoverable = w.writeOffset /\ Recoverable' = Recoverable + 1
      /\ Recoverable \in Nat
  BY <1>1, <1>2, <1>3, LogAssumption DEF EndKnown, LogAssumption
<1>5. /\ \A i \in 1..Recoverable : cache'[i] = cache[i]
      /\ cache'[Recoverable + 1].event = e
  <2>1. cache \in [Slots -> Cell] /\ cache' \in [Slots -> Cell]
    BY <1>1 DEF LogInv, LogTypeOK
  <2>2. Recoverable + 1 \in Slots /\ \A i \in 1..Recoverable : i \in Slots /\ i # Recoverable + 1
    BY <1>1, <1>4 DEF EndKnown
  <2>3. cache'[Recoverable + 1] = Frame(w.lastSeq + 1, e)
    BY <1>2, <1>4, <2>1, <2>2
  <2> QED
    BY <1>2, <1>4, <2>1, <2>2, <2>3 DEF Frame
<1>6. logBar' = Append(logBar, e)
  <2> DEFINE a == Append(logBar, e)
  <2>1. /\ logBar \in Seq(Event) /\ Len(logBar) = Recoverable
        /\ \A i \in 1..Recoverable : logBar[i] = cache[i].event
    BY <1>1, BarIsLog
  <2>2. /\ logBar' \in Seq(Event) /\ Len(logBar') = Recoverable + 1
        /\ \A i \in 1..(Recoverable + 1) : logBar'[i] = cache'[i].event
    BY <1>1, <1>4, BarIsLogNext
  <2>3. /\ a \in Seq(Event) /\ Len(a) = Recoverable + 1
        /\ \A i \in 1..Recoverable : a[i] = logBar[i]
        /\ a[Recoverable + 1] = e
    BY <2>1, AppendProperties
  <2>4. \A i \in 1..(Recoverable + 1) : logBar'[i] = a[i]
    <3> TAKE i \in 1..(Recoverable + 1)
    <3>1. i \in 1..Recoverable \/ i = Recoverable + 1
      BY <1>4
    <3> HIDE DEF a
    <3> QED
      BY <3>1, <2>1, <2>2, <2>3, <1>5
  <2> HIDE DEF a
  <2>5. logBar' = a
    BY <2>2, <2>3, <2>4, SeqEqual
  <2> QED
    BY <2>5 DEF a
<1>7. durableBar' \in durableBar..Len(logBar)
  <2>1. durableBar' >= durableBar /\ durableBar' <= hdr.committed
    BY <1>1, <1>2, <1>3, SyncClaimsMore
  <2>2. hdr.committed <= w.writeOffset /\ hdr \in HeaderPage
    BY <1>1, <1>3 DEF LogInv, LogTypeOK, AppendedSurvivesKill
  <2>3. /\ durableBar \in Nat /\ durableBar' \in Nat
        /\ hdr.committed \in Nat /\ Len(logBar) = Recoverable
    BY <1>1, <1>3, <2>2, BarIsLog, ReadableHeader, LogAssumption DEF EndKnown, LogAssumption
  <2> QED
    BY <2>1, <2>2, <2>3, <1>4
<1> QED
  BY <1>6, <1>7 DEF ELog!AAppend

\* Creation and the scan are invisible.
LEMMA StartRefines ==
  ASSUME RefInv, RefNext, CreateFile \/ WriteHeader \/ SyncHeader \/ Open
  PROVE  ELog!AMakeDurable \/ UNCHANGED <<logBar, durableBar>>
<1>1. LogInv /\ LogInv' /\ EndKnown /\ EndKnown'
  BY HistoryGrows, EndIsKnown, EndIsKnownNext
<1>2. cache' = cache
  BY DEF CreateFile, WriteHeader, SyncHeader, Open
<1>3. CASE CreateFile \/ WriteHeader \/ SyncHeader
  <2>1. \A i \in Slots : ~ IsFrame(cache[i])
    BY <1>3 DEF RefInv, NoFramesYet, CreateFile, WriteHeader, SyncHeader
  <2>2. ~ (1 \in 1..Recoverable) /\ ~ (1 \in 1..Recoverable')
    BY <1>1, <1>2, <2>1 DEF EndKnown
  <2>3. Recoverable = 0 /\ Recoverable' = 0 /\ durableBar = 0 /\ durableBar' = 0
    BY <1>1, <2>2, LogAssumption DEF EndKnown, LogAssumption
  <2> QED
    BY <1>1, <1>2, <2>3, SameLog
<1>4. CASE Open
  <2>1. /\ hdr' = hdr /\ dhdr' = dhdr /\ Readable(hdr) /\ ~ Opened /\ Opened'
        /\ \E n \in 0..MaxSlots : ScanStopsAt(cache, hdr, n) /\ w'.writeOffset = n
    BY <1>1, <1>4 DEF Open, LogInv, CommitPhases, Opened
  <2>2. hdr \in HeaderPage /\ hdr.committed <= hdr.capacity
    BY <1>1, <2>1 DEF LogInv, LogTypeOK, ClaimedIsDurable, Vouches
  <2>3. /\ Recoverable' = w'.writeOffset
        /\ Recoverable \in 0..MaxSlots /\ ScanStopsAt(cache, hdr, Recoverable)
    BY <1>1, <2>1 DEF EndKnown
  <2>4. Recoverable' = Recoverable
    BY <2>1, <2>2, <2>3, ScanStops
  <2>5. durableBar' >= durableBar
    BY <1>1, <2>1, SyncClaimsMore
  <2> QED
    BY <1>1, <1>2, <2>4, <2>5, SameLog
<1> QED
  BY <1>3, <1>4

\* A commit, or the kernel writing pages back, claims more of the same log.
LEMMA ClaimRefines ==
  ASSUME RefInv, RefNext,
         \/ CommitFlush \/ CommitClaim \/ CommitSync
         \/ (\E i \in Slots : Writeback(i)) \/ WritebackHeader
  PROVE  ELog!AMakeDurable \/ UNCHANGED <<logBar, durableBar>>
<1>1. LogInv /\ LogInv' /\ EndKnown /\ EndKnown'
  BY HistoryGrows, EndIsKnown, EndIsKnownNext
<1>2. cache' = cache /\ dhdr' \in {dhdr, hdr}
  BY DEF CommitFlush, CommitClaim, CommitSync, Writeback, WritebackHeader, Sync
<1>3. Recoverable' = Recoverable
  <2>1. CASE CommitFlush \/ CommitClaim \/ CommitSync
    <3>1. Opened /\ Opened' /\ w'.writeOffset = w.writeOffset
      BY <1>1, <2>1 DEF CommitFlush, CommitClaim, CommitSync, Opened, LogInv, LogTypeOK
    <3> QED
      BY <1>1, <3>1 DEF EndKnown
  <2>2. CASE (\E i \in Slots : Writeback(i)) \/ WritebackHeader
    <3>1. hdr' = hdr /\ pc' = pc /\ w' = w
      BY <2>2 DEF Writeback, WritebackHeader
    <3> QED
      BY <1>2, <3>1 DEF Recoverable, Opened
  <2> QED
    BY <2>1, <2>2
<1>4. durableBar' >= durableBar
  BY <1>1, <1>2, SyncClaimsMore
<1> QED
  BY <1>1, <1>2, <1>3, <1>4, SameLog

\* A close or a kill loses and reorders nothing; the scan may find stale frames.
LEMMA StopRefines ==
  ASSUME RefInv, RefNext, Close \/ Crash \/ CrashMidAppend
  PROVE  ELog!AMakeDurable \/ Resurrects \/ UNCHANGED <<logBar, durableBar>>
<1>1. LogInv /\ LogInv' /\ EndKnown /\ EndKnown'
  BY HistoryGrows, EndIsKnown, EndIsKnownNext
<1>2. pc' = "down" /\ ~ Opened' /\ dhdr' \in {dhdr, hdr}
  BY DEF Close, Crash, CrashMidAppend, Opened, EnsureCapacity, Sync
<1>3. durableBar' >= durableBar
  BY <1>1, <1>2, SyncClaimsMore
<1>4. CASE Close \/ Crash
  <2>1. cache' = cache /\ hdr' = hdr /\ dhdr' = dhdr
    BY <1>4 DEF Close, Crash
  <2>2. CASE ~ Opened
    <3>1. Recoverable' = Recoverable
      BY <1>2, <2>1, <2>2 DEF Recoverable
    <3> QED
      BY <1>1, <1>3, <2>1, <3>1, SameLog
  <2>3. CASE Opened /\ ~ StaleFrames
    <3>1. Recoverable' \in 1..Recoverable \/ Recoverable' = 0
      <4>1. CASE Recoverable' = 0
        BY <4>1
      <4>2. CASE Recoverable' # 0
        <5>1. Recoverable' \in 1..Recoverable'
          BY <1>1, <4>2, LogAssumption DEF EndKnown, LogAssumption
        <5> DEFINE r == Recoverable'
        <5>2. r \in Slots /\ IsFrame(cache[r])
          BY <1>1, <2>1, <5>1 DEF EndKnown
        <5> HIDE DEF r
        <5>3. r \in 1..Recoverable
          BY <5>2, <2>3, NoFrameBehindEnd
        <5> QED
          BY <5>3 DEF r
      <4> QED
        BY <4>1, <4>2
    <3>2. /\ Readable(hdr) /\ hdr \in HeaderPage
          /\ ScanStopsAt(cache, hdr, Recoverable')
          /\ Recoverable \in hdr.committed..hdr.capacity
      BY <1>1, <1>2, <2>1, <2>3 DEF EndKnown, LogInv, LogTypeOK, AppendedSurvivesKill
    <3>3. ~ (Recoverable' < Recoverable)
      <4> SUFFICES ASSUME Recoverable' < Recoverable PROVE FALSE
        OBVIOUS
      <4>1. /\ Recoverable' \in Nat /\ Recoverable \in Nat
            /\ hdr.capacity \in Nat /\ hdr.committed \in Nat
        BY <1>1, <3>2, ReadableHeader, LogAssumption DEF EndKnown, LogAssumption
      <4>2. Recoverable' < hdr.capacity /\ Recoverable' + 1 \in 1..Recoverable
        <5> DEFINE r == Recoverable'
        <5>1. r \in Nat /\ Recoverable <= hdr.capacity /\ r < Recoverable
          BY <3>2, <4>1
        <5> HIDE DEF r
        <5>2. r < hdr.capacity /\ r + 1 \in 1..Recoverable
          BY <4>1, <5>1
        <5> QED
          BY <5>2 DEF r
      <4>3. IsFrame(cache[Recoverable' + 1])
        BY <1>1, <4>2 DEF EndKnown
      <4> QED
        BY <3>2, <4>2, <4>3 DEF ScanStopsAt
    <3>4. Recoverable' = Recoverable
      BY <1>1, <3>1, <3>3, LogAssumption DEF EndKnown, LogAssumption
    <3> QED
      BY <1>1, <1>3, <2>1, <3>4, SameLog
  <2>4. CASE Opened /\ StaleFrames
    <3>1. durableBar' = durableBar /\ durableBar \in 0..Recoverable /\ durableBar' \in 0..Recoverable'
      BY <1>1, <2>1 DEF EndKnown, durableBar
    <3>2. Recoverable' >= durableBar /\ Recoverable \in Nat /\ Recoverable' \in Nat
      BY <1>1, <3>1, LogAssumption DEF EndKnown, LogAssumption
    <3>3. \A i \in 1..durableBar : logBar'[i] = logBar[i]
      <4> TAKE i \in 1..durableBar
      <4>1. i \in 1..Recoverable /\ i \in 1..Recoverable'
        BY <3>1, <3>2
      <4> QED
        BY <1>1, <2>1, <4>1, BarIsLog, BarIsLogNext
    <3> QED
      BY <1>2, <2>4, <3>1, <3>2, <3>3 DEF Resurrects
  <2> QED
    BY <2>2, <2>3, <2>4
<1>5. CASE CrashMidAppend
  <2>1. /\ pc = "up" /\ EnsureCapacity /\ HasRoom
        /\ cache' = [cache EXCEPT ![w.writeOffset + 1] = Torn]
    BY <1>5 DEF CrashMidAppend, WriteSlot, EnsureCapacity
  <2>2. Torn \in Cell /\ ~ IsFrame(Torn)
    BY CellKinds DEF Cell
  <2>3. /\ w.writeOffset + 1 \in Slots /\ Readable(hdr')
        /\ hdr'.committed = hdr.committed /\ hdr'.capacity = EnsuredCapacity
    BY <1>1, <2>1, <2>2, OverwriteNextKeeps
  <2>4. EnsuredCapacity \in 1..MaxSlots /\ w.writeOffset + 1 <= EnsuredCapacity
    BY <1>1, <2>1, EnsuredCapacityOK
  <2>5. /\ Opened /\ Recoverable = w.writeOffset /\ cache \in [Slots -> Cell]
        /\ Recoverable \in 0..MaxSlots /\ Recoverable' \in 0..MaxSlots /\ MaxSlots \in Nat
    BY <1>1, <2>1, LogAssumption DEF Opened, EndKnown, LogInv, LogTypeOK, LogAssumption
  <2>6. /\ \A i \in 1..Recoverable : cache'[i] = cache[i]
        /\ ~ IsFrame(cache'[Recoverable + 1])
    <3>1. \A i \in 1..Recoverable : i \in Slots /\ i # Recoverable + 1
      BY <2>5 DEF Slots
    <3> QED
      BY <2>1, <2>2, <2>3, <2>5, <3>1
  <2>7. ~ (Recoverable + 1 \in 1..Recoverable')
    BY <1>1, <2>6 DEF EndKnown
  <2>8. ~ (Recoverable' < Recoverable)
    <3> SUFFICES ASSUME Recoverable' < Recoverable PROVE FALSE
      OBVIOUS
    <3>1. ScanStopsAt(cache', hdr', Recoverable')
      BY <1>1, <1>2, <2>3 DEF EndKnown
    <3>2. Recoverable' < hdr'.capacity /\ Recoverable' + 1 \in 1..Recoverable
      <4> DEFINE r == Recoverable'
      <4>1. r \in Nat /\ r < Recoverable /\ Recoverable \in Nat
        BY <2>5
      <4>2. Recoverable + 1 <= hdr'.capacity /\ hdr'.capacity \in Nat
        BY <2>3, <2>4, <2>5
      <4> HIDE DEF r
      <4>3. r < hdr'.capacity /\ r + 1 \in 1..Recoverable
        BY <4>1, <4>2
      <4> QED
        BY <4>3 DEF r
    <3>3. IsFrame(cache'[Recoverable' + 1])
      BY <1>1, <2>6, <3>2 DEF EndKnown
    <3> QED
      BY <3>1, <3>2, <3>3 DEF ScanStopsAt
  <2>9. Recoverable' = Recoverable
    BY <2>5, <2>7, <2>8
  <2> QED
    BY <1>1, <1>3, <2>6, <2>9, SameLog
<1> QED
  BY <1>4, <1>5

\* A power loss cuts a tail off, behind what is durable.
LEMMA PowerLossRefines ==
  ASSUME RefInv, RefNext, PowerLoss
  PROVE  ELog!ALoseTail \/ Resurrects
<1>1. LogInv /\ LogInv' /\ EndKnown /\ EndKnown'
  BY HistoryGrows, EndIsKnown, EndIsKnownNext
<1>2. /\ pc' = "down" /\ dhdr' = dhdr /\ cache' = disk' /\ hdr' = dhdr
      /\ disk' = IF dhdr = Absent THEN [i \in Slots |-> Zero] ELSE disk
  BY DEF PowerLoss
<1>3. durableBar' = durableBar
  BY <1>2 DEF durableBar
<1>4. /\ durableBar \in 0..Recoverable /\ durableBar \in 0..Recoverable'
      /\ Recoverable \in Nat /\ Recoverable' \in Nat
  BY <1>1, <1>3, LogAssumption DEF EndKnown, LogAssumption
<1>5. \A i \in 1..Recoverable' : i \in Slots /\ IsFrame(disk[i]) /\ cache'[i] = disk[i]
  <2> TAKE i \in 1..Recoverable'
  <2>1. i \in Slots /\ IsFrame(cache'[i])
    BY <1>1 DEF EndKnown
  <2> QED
    BY <1>2, <2>1, CellKinds
<1>6. CASE ~ StaleFrames
  <2>1. \A i \in 1..Recoverable' : cache'[i] = cache[i] /\ i \in 1..Recoverable
    <3> TAKE i \in 1..Recoverable'
    <3>1. cache[i] = disk[i]
      BY <1>5, <1>6 DEF RefInv, NothingBehind
    <3> QED
      BY <1>5, <1>6, <3>1, NoFrameBehindEnd
  <2>2. Recoverable' <= Recoverable
    <3>1. CASE Recoverable' = 0
      BY <3>1, <1>4
    <3>2. CASE Recoverable' # 0
      <4>1. Recoverable' \in 1..Recoverable'
        BY <3>2, <1>4
      <4>2. Recoverable' \in 1..Recoverable
        BY <2>1, <4>1
      <4> QED
        BY <4>2
    <3> QED
      BY <3>1, <3>2
  <2> DEFINE r == Recoverable'
             cut == SubSeq(logBar, 1, r)
  <2>3. r \in 0..Len(logBar) /\ r \in durableBar..Len(logBar)
    BY <1>1, <1>4, <2>2, BarIsLog
  <2>4. cut \in Seq(Event) /\ Len(cut) = r /\ \A i \in 1..r : cut[i] = logBar[i]
    <3>1. logBar \in Seq(Event)
      BY <1>1, BarIsLog
    <3> HIDE DEF r
    <3> QED
      BY <2>3, <3>1, Prefixes
  <2>5. \A i \in 1..r : logBar'[i] = cut[i]
    <3> TAKE i \in 1..r
    <3>1. logBar'[i] = cache'[i].event /\ logBar[i] = cache[i].event
      BY <1>1, <2>1, BarIsLog, BarIsLogNext
    <3> HIDE DEF r, cut
    <3> QED
      BY <2>1, <2>4, <3>1 DEF r
  <2>6. logBar' \in Seq(Event) /\ Len(logBar') = r
    BY <1>1, BarIsLogNext
  <2> HIDE DEF r, cut
  <2>7. logBar' = cut
    BY <2>4, <2>5, <2>6, SeqEqual
  <2>8. \E n \in durableBar..Len(logBar) : logBar' = SubSeq(logBar, 1, n)
    BY <2>3, <2>7 DEF cut
  <2> QED
    BY <1>3, <2>8 DEF ELog!ALoseTail
<1>7. CASE StaleFrames
  <2>1. \A i \in 1..durableBar : logBar'[i] = logBar[i]
    <3> TAKE i \in 1..durableBar
    <3>1. Readable(dhdr) /\ i \in 1..dhdr.committed
      BY <1>1 DEF EndKnown, durableBar
    <3>2. cache[i] = disk[i]
      BY <1>1, <3>1 DEF LogInv, ClaimedIsDurable, Vouches
    <3>3. i \in 1..Recoverable /\ i \in 1..Recoverable'
      BY <1>4
    <3>4. logBar'[i] = cache'[i].event /\ logBar[i] = cache[i].event
      BY <1>1, <3>3, BarIsLog, BarIsLogNext
    <3> QED
      BY <1>5, <3>2, <3>3, <3>4
  <2> QED
    BY <1>2, <1>3, <1>4, <1>7, <2>1 DEF Resurrects
<1> QED
  BY <1>6, <1>7

\* Every step of the writer, the kernel, a kill and a power loss is one of the
\* abstract log, apart from the scan that reads stale frames.
LEMMA StepRefines ==
  ASSUME RefInv, [RefNext]_refVars
  PROVE  ELog!ANext \/ Resurrects \/ UNCHANGED <<logBar, durableBar>>
<1>1. CASE UNCHANGED refVars
  BY <1>1 DEF refVars, logVars, logBar, durableBar, Recoverable, Opened
<1>2. CASE RefNext
  <2>1. LogNext
    BY <1>2 DEF RefNext
  <2>2. CASE CreateFile \/ WriteHeader \/ SyncHeader \/ Open
    BY <1>2, <2>2, StartRefines DEF ELog!ANext
  <2>3. ASSUME NEW e \in Event, AppendFrame(e) PROVE ELog!ANext
    BY <1>2, <2>3, AppendRefines DEF ELog!ANext
  <2>4. CASE \/ CommitFlush \/ CommitClaim \/ CommitSync
             \/ (\E i \in Slots : Writeback(i)) \/ WritebackHeader
    BY <1>2, <2>4, ClaimRefines DEF ELog!ANext
  <2>5. CASE Close \/ Crash \/ CrashMidAppend
    BY <1>2, <2>5, StopRefines DEF ELog!ANext
  <2>6. CASE PowerLoss
    BY <1>2, <2>6, PowerLossRefines DEF ELog!ANext
  <2> QED
    BY <2>1, <2>2, <2>3, <2>4, <2>5, <2>6 DEF LogNext
<1> QED
  BY <1>1, <1>2

\* LogWriter implements EventLog: "a crash loses at most the uncommitted tail"
\* (the docstring of log/writer.py) and a kill loses nothing, for every set of
\* events, file size, growth factor and behaviour of the kernel.  The one exception
\* is Resurrects: after an early page and a power loss, a crash may turn stale
\* frames into events behind the durable prefix.
THEOREM LogImplementsEventLog == RefSpec => ImplementsEventLog
<1>1. RefInit => ELog!AInit
  <2> SUFFICES ASSUME RefInit PROVE ELog!AInit
    OBVIOUS
  <2>1. ~ Readable(hdr) /\ ~ Readable(dhdr) /\ ~ Opened
    BY UnreadablePages DEF RefInit, LogInit, Opened
  <2>2. Recoverable = 0 /\ durableBar = 0
    BY <2>1 DEF Recoverable, durableBar
  <2>3. logBar = <<>>
    BY <2>2 DEF logBar
  <2> QED
    BY <2>2, <2>3 DEF ELog!AInit
<1>2. RefInv /\ [RefNext]_refVars => [ELog!ANext \/ Resurrects]_<<logBar, durableBar>>
  BY StepRefines
<1> QED
  BY <1>1, <1>2, ScanInvariant, PTL DEF RefSpec, ImplementsEventLog

-----------------------------------------------------------------------------
(* What the replica serves *)

\* The loop of poll_once over cells m + 1 .. n, as FoldFrom has it over the mapping.
TailUnfolds(f, s, cells, m, n) ==
  f = [k \in m..n |-> IF k = m THEN s ELSE ApplyEvent(f[k - 1], cells[k].seq, cells[k].event)]
TailFold(s, cells, m, n) == (CHOOSE f : TailUnfolds(f, s, cells, m, n))[n]

LEMMA TailExists ==
  ASSUME NEW s, NEW cells, NEW m \in Nat, NEW n \in Nat, m <= n
  PROVE  \E f : TailUnfolds(f, s, cells, m, n)
<1> DEFINE P == {d \in Nat : \E f : TailUnfolds(f, s, cells, m, m + d)}
<1>1. 0 \in P
  <2>1. TailUnfolds([k \in m..(m + 0) |-> s], s, cells, m, m + 0)
    BY DEF TailUnfolds
  <2> QED
    BY <2>1
<1>2. ASSUME NEW d \in Nat, d \in P PROVE d + 1 \in P
  <2>1. PICK f : TailUnfolds(f, s, cells, m, m + d)
    BY <1>2
  <2> DEFINE top == m + (d + 1)
             last == ApplyEvent(f[m + d], cells[top].seq, cells[top].event)
             g == [k \in m..top |-> IF k = top THEN last ELSE f[k]]
  <2>2. ASSUME NEW k \in m..top
        PROVE  g[k] = IF k = m THEN s ELSE ApplyEvent(g[k - 1], cells[k].seq, cells[k].event)
    <3>1. CASE k = top
      <4>1. k # m /\ k - 1 = m + d /\ k - 1 \in m..top /\ k - 1 # top
        BY <3>1
      <4>2. g[k] = last /\ g[k - 1] = f[m + d]
        BY <3>1, <4>1
      <4> QED
        BY <3>1, <4>1, <4>2
    <3>2. CASE k # top
      <4>1. k \in m..(m + d) /\ (k # m => k - 1 \in m..top /\ k - 1 # top)
        BY <3>2
      <4>2. g[k] = f[k] /\ (k # m => g[k - 1] = f[k - 1])
        BY <3>2, <4>1
      <4>3. f[k] = IF k = m THEN s ELSE ApplyEvent(f[k - 1], cells[k].seq, cells[k].event)
        BY <2>1, <4>1 DEF TailUnfolds
      <4> QED
        BY <4>2, <4>3
    <3> QED
      BY <3>1, <3>2
  <2>3. TailUnfolds(g, s, cells, m, top)
    <3>1. g = [k \in m..top |-> g[k]]
      OBVIOUS
    <3> HIDE DEF g
    <3> QED
      BY <2>2, <3>1 DEF TailUnfolds
  <2> QED
    BY <2>3
<1>3. P \in SUBSET Nat
  OBVIOUS
<1> HIDE DEF P
<1>4. n - m \in Nat /\ m + (n - m) = n
  OBVIOUS
<1>5. n - m \in P
  BY <1>1, <1>2, <1>3, <1>4, Induction
<1>6. \E f : TailUnfolds(f, s, cells, m, m + (n - m))
  BY <1>5 DEF P
<1> QED
  BY <1>4, <1>6

\* Two loops over the same cells that are in one state somewhere stay together.
LEMMA TailAgrees ==
  ASSUME NEW f, NEW g, NEW a, NEW m \in Nat, NEW n \in Nat, m <= n, f[m] = g[m],
         \A k \in (m + 1)..n :
           /\ f[k] = ApplyEvent(f[k - 1], a[k].seq, a[k].event)
           /\ g[k] = ApplyEvent(g[k - 1], a[k].seq, a[k].event)
  PROVE  f[n] = g[n]
<1> DEFINE P == {d \in Nat : m + d <= n => f[m + d] = g[m + d]}
<1>1. 0 \in P
  OBVIOUS
<1>2. ASSUME NEW d \in Nat, d \in P PROVE d + 1 \in P
  <2> SUFFICES ASSUME m + (d + 1) <= n PROVE f[m + (d + 1)] = g[m + (d + 1)]
    OBVIOUS
  <2> DEFINE k == m + (d + 1)
  <2>1. k \in (m + 1)..n /\ k - 1 = m + d
    OBVIOUS
  <2>2. f[m + d] = g[m + d]
    BY <1>2
  <2> HIDE DEF k
  <2>3. f[k] = g[k]
    BY <2>1, <2>2
  <2> QED
    BY <2>3 DEF k
<1>3. P \in SUBSET Nat
  OBVIOUS
<1> HIDE DEF P
<1>4. n - m \in Nat /\ m + (n - m) = n
  OBVIOUS
<1>5. n - m \in P
  BY <1>1, <1>2, <1>3, <1>4, Induction
<1>6. m + (n - m) <= n => f[m + (n - m)] = g[m + (n - m)]
  BY <1>5 DEF P
<1> QED
  BY <1>4, <1>6

LEMMA TailUnique ==
  ASSUME NEW s, NEW cells, NEW m \in Nat, NEW j \in Nat, NEW n \in Nat, m <= j, j <= n,
         NEW g, TailUnfolds(g, s, cells, m, j), NEW f, TailUnfolds(f, s, cells, m, n)
  PROVE  g[j] = f[j]
<1>1. /\ g[m] = f[m]
      /\ \A k \in (m + 1)..j :
           /\ g[k] = ApplyEvent(g[k - 1], cells[k].seq, cells[k].event)
           /\ f[k] = ApplyEvent(f[k - 1], cells[k].seq, cells[k].event)
  BY DEF TailUnfolds
<1> QED
  BY <1>1, TailAgrees

\* The loop, unfolded.
Runs(f, s, cells, m, n) ==
  /\ f[m] = s
  /\ \A k \in (m + 1)..n : f[k] = ApplyEvent(f[k - 1], cells[k].seq, cells[k].event)
  /\ \A j \in m..n : TailFold(s, cells, m, j) = f[j]

LEMMA TailRun ==
  ASSUME NEW s, NEW cells, NEW m \in Nat, NEW n \in Nat, m <= n
  PROVE  \E f : Runs(f, s, cells, m, n)
<1> DEFINE run(j) == CHOOSE f : TailUnfolds(f, s, cells, m, j)
           f == run(n)
<1>1. \A j \in m..n : TailUnfolds(run(j), s, cells, m, j)
  <2> TAKE j \in m..n
  <2>1. j \in Nat /\ m <= j
    OBVIOUS
  <2>2. \E h : TailUnfolds(h, s, cells, m, j)
    BY <2>1, TailExists
  <2> QED
    BY <2>2
<1>2. \A j \in m..n : TailFold(s, cells, m, j) = run(j)[j]
  BY DEF TailFold
<1>3. n \in m..n
  OBVIOUS
<1> HIDE DEF run
<1>4. \A j \in m..n :
        /\ run(j)[m] = s
        /\ \A k \in (m + 1)..j : run(j)[k] = ApplyEvent(run(j)[k - 1], cells[k].seq, cells[k].event)
  <2> TAKE j \in m..n
  <2>1. TailUnfolds(run(j), s, cells, m, j)
    BY <1>1
  <2> QED
    BY <2>1 DEF TailUnfolds
<1>5. \A j \in m..n : run(j)[j] = f[j]
  <2> TAKE j \in m..n
  <2>1. /\ TailUnfolds(run(j), s, cells, m, j) /\ TailUnfolds(run(n), s, cells, m, n)
        /\ j \in Nat /\ m <= j /\ j <= n
    BY <1>1, <1>3
  <2> QED
    BY <2>1, TailUnique
<1>6. Runs(f, s, cells, m, n)
  BY <1>2, <1>3, <1>4, <1>5 DEF Runs
<1> QED
  BY <1>6

\* Only the cells that are folded matter.
LEMMA TailSameCells ==
  ASSUME NEW s, NEW a, NEW b, NEW m \in Nat, NEW n \in Nat, m <= n,
         \A k \in (m + 1)..n : a[k] = b[k]
  PROVE  TailFold(s, a, m, n) = TailFold(s, b, m, n)
<1>1. PICK f : Runs(f, s, a, m, n)
  BY TailRun
<1>2. PICK g : Runs(g, s, b, m, n)
  BY TailRun
<1>3. /\ f[m] = g[m]
      /\ TailFold(s, a, m, n) = f[n] /\ TailFold(s, b, m, n) = g[n]
      /\ \A k \in (m + 1)..n :
           /\ f[k] = ApplyEvent(f[k - 1], a[k].seq, a[k].event)
           /\ g[k] = ApplyEvent(g[k - 1], a[k].seq, a[k].event)
  BY <1>1, <1>2 DEF Runs
<1>4. f[n] = g[n]
  BY <1>3, TailAgrees
<1> QED
  BY <1>3, <1>4

\* A batch goes on where the one before it stopped.
LEMMA TailGoesOn ==
  ASSUME NEW s, NEW cells, NEW l \in Nat, NEW m \in Nat, NEW n \in Nat, l <= m, m <= n
  PROVE  TailFold(TailFold(s, cells, l, m), cells, m, n) = TailFold(s, cells, l, n)
<1> DEFINE t == TailFold(s, cells, l, m)
<1>1. PICK f : Runs(f, s, cells, l, n)
  <2>1. l <= n
    OBVIOUS
  <2> QED
    BY <2>1, TailRun
<1>2. f[m] = t /\ TailFold(s, cells, l, n) = f[n]
  <2>1. m \in l..n /\ n \in l..n
    OBVIOUS
  <2> QED
    BY <1>1, <2>1 DEF Runs
<1> HIDE DEF t
<1>3. PICK g : Runs(g, t, cells, m, n)
  BY TailRun
<1>4. \A k \in (m + 1)..n : k \in (l + 1)..n
  OBVIOUS
<1>5. /\ g[m] = f[m] /\ TailFold(t, cells, m, n) = g[n]
      /\ \A k \in (m + 1)..n :
           /\ g[k] = ApplyEvent(g[k - 1], cells[k].seq, cells[k].event)
           /\ f[k] = ApplyEvent(f[k - 1], cells[k].seq, cells[k].event)
  BY <1>1, <1>2, <1>3, <1>4 DEF Runs
<1>6. g[n] = f[n]
  BY <1>5, TailAgrees
<1> QED
  BY <1>2, <1>5, <1>6 DEF t

\* Folding keeps the shape of a state, its roster, and the bound on its last event.
LEMMA TailTyped ==
  ASSUME NEW s \in RiskState, NEW cells, NEW m \in Nat, NEW n \in Nat, m <= n,
         s.lastSeq \in 0..MaxSlots,
         \A k \in (m + 1)..n : cells[k].seq \in 0..MaxSlots /\ cells[k].event \in Payload
  PROVE  /\ TailFold(s, cells, m, n) \in RiskState
         /\ TailFold(s, cells, m, n).lastSeq \in 0..MaxSlots
<1>0. PICK f : Runs(f, s, cells, m, n)
  BY TailRun
<1>1. /\ TailFold(s, cells, m, n) = f[n] /\ f[m] = s
      /\ \A k \in (m + 1)..n : f[k] = ApplyEvent(f[k - 1], cells[k].seq, cells[k].event)
  BY <1>0 DEF Runs
<1> DEFINE Good(k) == f[k] \in RiskState /\ f[k].lastSeq \in 0..MaxSlots
           P == {d \in Nat : m + d <= n => Good(m + d)}
<1>2. 0 \in P
  BY <1>1
<1>3. ASSUME NEW d \in Nat, d \in P PROVE d + 1 \in P
  <2> SUFFICES ASSUME m + (d + 1) <= n PROVE Good(m + (d + 1))
    OBVIOUS
  <2> DEFINE k == m + (d + 1)
             e == cells[k].event
             q == cells[k].seq
  <2>1. k \in (m + 1)..n /\ k - 1 = m + d
    OBVIOUS
  <2>2. f[m + d] \in RiskState
    BY <1>3
  <2>3. q \in 0..MaxSlots /\ e \in Payload
    BY <2>1
  <2>4. f[k] = ApplyEvent(f[k - 1], q, e)
    BY <1>1, <2>1
  <2>5. q \in Nat
    BY <2>3, LogAssumption DEF LogAssumption
  <2> HIDE DEF k, e, q
  <2>6. Outcome(f[m + d], q, e, ApplyEvent(f[m + d], q, e))
    BY <2>2, <2>3, <2>5, EventFolds
  <2>7. Good(k)
    BY <2>1, <2>3, <2>4, <2>6 DEF Outcome
  <2> QED
    BY <2>7 DEF k
<1>4. P \in SUBSET Nat
  OBVIOUS
<1>5. n - m \in Nat /\ m + (n - m) = n /\ n <= n
  OBVIOUS
<1> HIDE DEF P
<1>6. n - m \in P
  BY <1>2, <1>3, <1>4, <1>5, Induction
<1>7. m + (n - m) <= n => Good(m + (n - m))
  BY <1>6 DEF P
<1>8. Good(n)
  BY <1>5, <1>7
<1> QED
  BY <1>1, <1>8

\* Nothing to fold.
LEMMA TailNothing ==
  ASSUME NEW s, NEW cells, NEW m \in Nat
  PROVE  TailFold(s, cells, m, m) = s
<1>1. PICK f : Runs(f, s, cells, m, m)
  <2>1. m <= m
    OBVIOUS
  <2> QED
    BY <2>1, TailRun
<1> QED
  BY <1>1 DEF Runs

LEMMA FoldFromIsTailFold ==
  ASSUME NEW s, NEW m, NEW n
  PROVE  FoldFrom(s, m, n) = TailFold(s, cache, m, n)
BY DEF FoldFrom, TailFold, TailUnfolds

\* The inductive invariant of the served state.  By itself TailIsFold says nothing
\* of the state before the first poll and during one, nor that a poll only moves on.
FoldInv ==
  /\ rstate \in RiskState /\ rstate.lastSeq \in 0..MaxSlots
  /\ snap \in RiskState /\ snap.lastSeq \in 0..MaxSlots
  /\ failures \in Nat
  /\ rpc = "waiting" => rstate = base
  /\ rpc = "polling" => folded <= target
  /\ rpc \in {"tailing", "polling"} /\ failures = 0 => rstate = TailFold(base, cache, 0, folded)

\* What the mapped header claims are events in sequence.
LEMMA ClaimedEvents ==
  ASSUME LogInv, Readable(hdr)
  PROVE  /\ hdr.committed \in 0..MaxSlots
         /\ \A k \in 1..hdr.committed : cache[k].seq = k /\ cache[k].event \in Payload
<1>1. hdr \in HeaderPage /\ hdr.committed \in 0..MaxSlots /\ cache \in [Slots -> Cell]
  BY ReadableHeader DEF LogInv, LogTypeOK
<1>2. ASSUME NEW k \in 1..hdr.committed PROVE cache[k].seq = k /\ cache[k].event \in Payload
  <2>1. k \in Slots /\ IsFrame(cache[k]) /\ cache[k].seq = k
    BY <1>1, LogAssumption DEF LogInv, ClaimedIsDurable, Vouches, Slots, LogAssumption
  <2>2. cache[k].event \in Event
    BY <1>1, <2>1 DEF Cell, IsFrame, Zero, Torn, Frame
  <2> QED
    BY <2>1, <2>2, ReplicaAssumption DEF ReplicaAssumption
<1> QED
  BY <1>1, <1>2

\* The claimed part of the mapping stays what it is while the primary runs.
LEMMA ClaimedCellsStay ==
  ASSUME LogInv, Primary, Readable(hdr)
  PROVE  \A k \in 1..hdr.committed : cache'[k] = cache[k]
<1> SUFFICES ASSUME NEW k \in 1..hdr.committed PROVE cache'[k] = cache[k]
  OBVIOUS
<1>1. CASE UNCHANGED cache
  BY <1>1
<1>2. ASSUME NEW e \in Event, AppendFrame(e) PROVE cache'[k] = cache[k]
  <2>1. pc = "up" /\ cache' = [cache EXCEPT ![w.writeOffset + 1] = Frame(w.lastSeq + 1, e)]
    BY <1>2 DEF AppendFrame, WriteSlot
  <2>2. /\ hdr.committed \in 0..MaxSlots /\ w.writeOffset \in 0..MaxSlots
        /\ hdr.committed <= w.writeOffset /\ cache \in [Slots -> Cell]
    BY <2>1, ClaimedEvents DEF LogInv, LogTypeOK, AppendedSurvivesKill, Opened
  <2>3. k # w.writeOffset + 1 /\ k \in Slots
    BY <2>2, LogAssumption DEF Slots, LogAssumption
  <2> QED
    BY <2>1, <2>2, <2>3
<1> QED
  BY <1>1, <1>2
  DEF Primary, CreateFile, WriteHeader, SyncHeader, Open, CommitFlush, CommitClaim,
      CommitSync, Close, Crash

\* The events that recover_state and write_snapshot hand to the fold.
LEMMA EventsAreLog ==
  ASSUME NEW n \in 0..MaxSlots, \A k \in 1..n : cache[k].event \in Payload
  PROVE  EventsUpTo(n) \in Seq(Payload) /\ Len(EventsUpTo(n)) = n
<1>1. n \in Nat
  BY LogAssumption DEF LogAssumption
<1> QED
  BY <1>1 DEF EventsUpTo

\* No replay leaves the bound on sequence numbers.
LEMMA ReplayWithin ==
  ASSUME NEW s \in RiskState, s.lastSeq \in 0..MaxSlots, NEW n \in 0..MaxSlots,
         \A k \in 1..n : cache[k].event \in Payload
  PROVE  /\ Replay(s, EventsUpTo(n)) \in RiskState
         /\ Replay(s, EventsUpTo(n)).lastSeq \in 0..MaxSlots
<1> DEFINE L == EventsUpTo(n)
<1>1. L \in Seq(Payload) /\ Len(L) = n
  BY EventsAreLog
<1> HIDE DEF L
<1>2. Replay(s, L) \in RiskState /\ Replay(s, L).lastSeq = Higher(s.lastSeq, Len(L))
  BY <1>1, ReplayTyped
<1>3. Higher(s.lastSeq, n) \in 0..MaxSlots
  BY DEF Higher
<1> QED
  BY <1>1, <1>2, <1>3 DEF L

\* The primary touches neither the replica's state nor what it has folded.
LEMMA PrimaryKeepsFold ==
  ASSUME RepInv, FoldInv, Primary
  PROVE  FoldInv'
<1>1. UNCHANGED <<snap, rpc, rstate, base, folded, mapped, target, failures>>
  BY DEF Primary, tailVars
<1>2. ASSUME rpc \in {"tailing", "polling"}, failures = 0
      PROVE  rstate = TailFold(base, cache', 0, folded)
  <2>1. folded \in Nat /\ 0 \in Nat /\ 0 <= folded
    BY LogAssumption DEF RepInv, TailInv, RepTypeOK, LogAssumption
  <2>2. \A k \in (0 + 1)..folded : cache[k] = cache'[k]
    <3>1. CASE folded = 0
      BY <3>1
    <3>2. CASE folded > 0
      <4>1. Readable(hdr) /\ folded <= hdr.committed
        BY <1>2, <3>2 DEF RepInv, TailInv, TailClaimed
      <4>2. hdr.committed \in Nat /\ \A k \in 1..hdr.committed : cache'[k] = cache[k]
        BY <4>1, ClaimedCellsStay, ClaimedEvents, LogAssumption DEF RepInv, LogAssumption
      <4> QED
        BY <2>1, <4>1, <4>2
    <3> QED
      BY <2>1, <3>1, <3>2
  <2>3. TailFold(base, cache, 0, folded) = TailFold(base, cache', 0, folded)
    BY <2>1, <2>2, TailSameCells
  <2> QED
    BY <1>2, <2>3 DEF FoldInv
<1> QED
  BY <1>1, <1>2 DEF FoldInv

\* A snapshot of the primary is a state of the right shape.
LEMMA SnapshotKeepsFold ==
  ASSUME RepInv, FoldInv, PrimarySnapshot
  PROVE  FoldInv'
<1>1. /\ UNCHANGED <<logVars, tailVars>>
      /\ pc = "up" /\ snap' = Replay(Fresh(Book), EventsUpTo(w.writeOffset))
  BY DEF PrimarySnapshot
<1>2. w.writeOffset \in 0..MaxSlots /\ \A k \in 1..w.writeOffset : cache[k].event \in Payload
  <2>1. /\ w.writeOffset \in 0..MaxSlots /\ cache \in [Slots -> Cell]
        /\ \A k \in 1..w.writeOffset : IsFrame(cache[k])
    BY <1>1 DEF RepInv, LogInv, LogTypeOK, AppendedSurvivesKill, Opened
  <2>2. \A k \in 1..w.writeOffset : k \in Slots
    BY <2>1, LogAssumption DEF Slots, LogAssumption
  <2>3. \A k \in 1..w.writeOffset : cache[k].event \in Event
    BY <2>1, <2>2 DEF Cell, IsFrame, Zero, Torn, Frame
  <2> QED
    BY <2>1, <2>3, ReplicaAssumption DEF ReplicaAssumption
<1> DEFINE s == Fresh(Book)
<1>3. s \in RiskState /\ s.lastSeq \in 0..MaxSlots
  BY FreshIsState, LogAssumption DEF Fresh, LogAssumption
<1> HIDE DEF s
<1>4. snap' \in RiskState /\ snap'.lastSeq \in 0..MaxSlots
  <2>1. /\ Replay(s, EventsUpTo(w.writeOffset)) \in RiskState
        /\ Replay(s, EventsUpTo(w.writeOffset)).lastSeq \in 0..MaxSlots
    BY <1>2, <1>3, ReplayWithin
  <2> QED
    BY <1>1, <2>1 DEF s
<1>5. UNCHANGED <<cache, rpc, rstate, base, folded, target, failures>>
  BY <1>1 DEF logVars, tailVars
<1> QED
  BY <1>4, <1>5 DEF FoldInv

\* Start-up: what recover_state returns, or a fresh state.
LEMMA BuildKeepsFold ==
  ASSUME RepInv, FoldInv, BuildRecovered \/ BuildRaises \/ BuildFresh
  PROVE  FoldInv'
<1>1. UNCHANGED <<cache, snap, failures>>
  BY DEF BuildRecovered, BuildRaises, BuildFresh, logVars
<1>2. Fresh(Roster) \in RiskState /\ Fresh(Roster).lastSeq \in 0..MaxSlots
  BY FreshIsState, ReplicaAssumption, LogAssumption
  DEF Fresh, LogAssumption, ReplicaAssumption
<1>3. CASE BuildRaises
  BY <1>1, <1>3 DEF BuildRaises, FoldInv
<1>4. CASE BuildFresh
  BY <1>1, <1>2, <1>4 DEF BuildFresh, FoldInv
<1>5. CASE BuildRecovered
  <2>1. PICK stale \in SUBSET Instrument, price \in Price : rstate' = Recovered(stale, price)
    BY <1>5 DEF BuildRecovered
  <2>2. Readable(hdr) /\ rpc' = "waiting" /\ base' = rstate'
    BY <1>5 DEF BuildRecovered, Buildable
  <2>3. StartingState \in RiskState /\ StartingState.lastSeq \in 0..MaxSlots
    BY <1>2 DEF StartingState, FoldInv
  <2> DEFINE t == Replay(StartingState, EventsUpTo(hdr.committed))
             marks == [i \in Instrument |->
                         IF i \in stale \/ t.marks[i] = 0 THEN price ELSE t.marks[i]]
  <2>4. t \in RiskState /\ t.lastSeq \in 0..MaxSlots
    BY <2>2, <2>3, ClaimedEvents, ReplayWithin DEF RepInv
  <2>5. rstate' = [t EXCEPT !.books = t.books \cup Roster, !.marks = marks]
    BY <2>1 DEF Recovered
  <2>6. marks \in [Instrument -> Int] /\ t.books \cup Roster \in SUBSET Book
    <3> HIDE DEF t
    <3> QED
      BY <2>4, ReplicaAssumption DEF RiskState, ReplicaAssumption
  <2> HIDE DEF t, marks
  <2>7. rstate' \in RiskState /\ rstate'.lastSeq = t.lastSeq
    BY <2>4, <2>5, <2>6 DEF RiskState
  <2> QED
    BY <1>1, <2>2, <2>4, <2>7 DEF FoldInv
<1> QED
  BY <1>3, <1>4, <1>5

\* The tail: a poll folds on from where the last one stopped.
LEMMA TailKeepsFold ==
  ASSUME RepInv, FoldInv, StartTail \/ PollHeader \/ PollFold \/ PollRaises \/ StopReplica
  PROVE  FoldInv'
<1>1. cache' = cache /\ snap' = snap
  BY DEF StartTail, PollHeader, PollFold, PollRaises, StopReplica, logVars
<1>2. folded \in 0..MaxSlots /\ target \in 0..MaxSlots /\ folded \in Nat /\ target \in Nat
  BY LogAssumption DEF RepInv, TailInv, RepTypeOK, LogAssumption
<1>3. CASE StartTail
  <2>1. /\ rpc = "waiting" /\ rpc' = "tailing" /\ folded' = 0
        /\ rstate' = rstate /\ base' = base /\ failures' = failures
    BY <1>3 DEF StartTail
  <2>2. TailFold(base, cache, 0, 0) = base
    BY TailNothing
  <2> QED
    BY <1>1, <2>1, <2>2 DEF FoldInv
<1>4. CASE PollHeader
  <2>1. /\ rpc = "tailing" /\ rpc' = "polling" /\ folded' = folded
        /\ Readable(hdr) /\ target' = hdr.committed /\ hdr.committed > folded
        /\ rstate' = rstate /\ base' = base /\ failures' = failures
    BY <1>4 DEF PollHeader, Behind, CommittedOffset
  <2>2. hdr.committed \in 0..MaxSlots
    BY <2>1, ClaimedEvents DEF RepInv
  <2>3. folded <= target'
    BY <1>2, <2>1, <2>2
  <2> QED
    BY <1>1, <2>1, <2>3 DEF FoldInv
<1>5. ASSUME rpc = "polling", NEW n \in folded..target
      PROVE  /\ FoldFrom(rstate, folded, n) \in RiskState
             /\ FoldFrom(rstate, folded, n).lastSeq \in 0..MaxSlots
  <2>1. \A k \in (folded + 1)..n : cache[k].seq \in 0..MaxSlots /\ cache[k].event \in Payload
    <3>1. CASE target = 0
      BY <1>2, <1>5, <3>1
    <3>2. CASE target > 0
      <4>1. Readable(hdr) /\ target <= hdr.committed
        BY <1>5, <3>2 DEF RepInv, TailInv, TailClaimed
      <4>2. /\ hdr.committed \in 0..MaxSlots
            /\ \A k \in 1..hdr.committed : cache[k].seq = k /\ cache[k].event \in Payload
        BY <4>1, ClaimedEvents DEF RepInv
      <4>3. \A k \in (folded + 1)..n : k \in 1..hdr.committed /\ k \in 0..MaxSlots
        BY <1>2, <1>5, <4>1, <4>2, LogAssumption DEF LogAssumption
      <4> QED
        BY <4>2, <4>3
    <3> QED
      BY <1>2, <3>1, <3>2
  <2>2. n \in Nat /\ folded <= n
    BY <1>2, <1>5
  <2>3. rstate \in RiskState /\ rstate.lastSeq \in 0..MaxSlots
    BY DEF FoldInv
  <2>4. /\ TailFold(rstate, cache, folded, n) \in RiskState
        /\ TailFold(rstate, cache, folded, n).lastSeq \in 0..MaxSlots
    BY <1>2, <2>1, <2>2, <2>3, TailTyped
  <2> QED
    BY <2>4, FoldFromIsTailFold
<1>6. CASE PollFold
  <2>1. /\ rpc = "polling" /\ rpc' = "tailing" /\ folded' = target
        /\ rstate' = FoldFrom(rstate, folded, target)
        /\ base' = base /\ failures' = failures
    BY <1>6 DEF PollFold, FoldBatch, NextOffset
  <2>2. folded <= target
    BY <2>1 DEF FoldInv
  <2>3. rstate' \in RiskState /\ rstate'.lastSeq \in 0..MaxSlots
    <3>1. target \in folded..target
      BY <1>2, <2>2
    <3> QED
      BY <1>5, <2>1, <3>1
  <2>4. ASSUME failures = 0 PROVE rstate' = TailFold(base, cache, 0, target)
    <3>1. rstate = TailFold(base, cache, 0, folded)
      BY <2>1, <2>4 DEF FoldInv
    <3>2. rstate' = TailFold(rstate, cache, folded, target)
      BY <2>1, FoldFromIsTailFold
    <3>3. 0 \in Nat /\ 0 <= folded
      BY <1>2
    <3>4. TailFold(TailFold(base, cache, 0, folded), cache, folded, target)
            = TailFold(base, cache, 0, target)
      BY <1>2, <2>2, <3>3, TailGoesOn
    <3> QED
      BY <3>1, <3>2, <3>4
  <2> QED
    BY <1>1, <2>1, <2>3, <2>4 DEF FoldInv
<1>7. CASE PollRaises
  <2>1. PICK n \in (folded + 1)..target : rstate' = FoldFrom(rstate, folded, n - 1)
    BY <1>7 DEF PollRaises
  <2>2. /\ rpc = "polling" /\ rpc' = "tailing" /\ failures' = failures + 1
        /\ failures \in Nat
    BY <1>7 DEF PollRaises, FoldInv
  <2>3. n - 1 \in folded..target
    BY <1>2, <2>1
  <2>4. rstate' \in RiskState /\ rstate'.lastSeq \in 0..MaxSlots
    BY <1>5, <2>1, <2>2, <2>3
  <2>5. failures' \in Nat /\ failures' # 0
    BY <2>2
  <2> QED
    BY <1>1, <2>2, <2>4, <2>5 DEF FoldInv
<1>8. CASE StopReplica
  <2>1. rpc' = "off" /\ rstate' = Fresh(Roster) /\ failures' = 0
    BY <1>8 DEF StopReplica
  <2>2. Fresh(Roster) \in RiskState /\ Fresh(Roster).lastSeq \in 0..MaxSlots
    BY FreshIsState, ReplicaAssumption, LogAssumption
    DEF Fresh, LogAssumption, ReplicaAssumption
  <2> QED
    BY <1>1, <2>1, <2>2 DEF FoldInv
<1> QED
  BY <1>3, <1>4, <1>6, <1>7, <1>8

LEMMA FoldInvInit == RepInit => FoldInv
<1> SUFFICES ASSUME RepInit PROVE FoldInv
  OBVIOUS
<1>1. {} \in SUBSET Book /\ Roster \in SUBSET Book /\ 0 \in 0..MaxSlots
  BY ReplicaAssumption, LogAssumption DEF ReplicaAssumption, LogAssumption
<1>2. /\ Fresh({}) \in RiskState /\ Fresh(Roster) \in RiskState
      /\ Fresh({}).lastSeq = 0 /\ Fresh(Roster).lastSeq = 0
  BY <1>1, FreshIsState DEF Fresh
<1> QED
  BY <1>1, <1>2 DEF RepInit, NoSnap, FoldInv

LEMMA FoldInvNext == RepInv /\ FoldInv /\ [RepNext]_repVars => FoldInv'
<1> SUFFICES ASSUME RepInv, FoldInv, [RepNext]_repVars PROVE FoldInv'
  OBVIOUS
<1>1. CASE UNCHANGED repVars
  BY <1>1 DEF repVars, logVars, tailVars, FoldInv
<1>2. CASE Primary
  BY <1>2, PrimaryKeepsFold
<1>3. CASE PrimarySnapshot
  BY <1>3, SnapshotKeepsFold
<1>4. CASE BuildRecovered \/ BuildRaises \/ BuildFresh
  BY <1>4, BuildKeepsFold
<1>5. CASE StartTail \/ PollHeader \/ PollFold \/ PollRaises \/ StopReplica
  BY <1>5, TailKeepsFold
<1> QED
  BY <1>1, <1>2, <1>3, <1>4, <1>5 DEF RepNext

\* Between polls the replica serves the state it was handed with exactly the
\* committed events before its offset folded into it, each once and in order
\* (ReplicaTail.poll_once), for every log and roster, over any number of restarts
\* of the primary and of the replica, as long as no poll has raised.  What it was
\* handed by _build_replica holds those events already.
THEOREM TailFoldsEachOnce == RepSpec => []TailIsFold
<1>1. RepInit => RepInv /\ FoldInv
  BY RepInvInit, FoldInvInit
<1>2. RepInv /\ FoldInv /\ [RepNext]_repVars => (RepInv /\ FoldInv)'
  BY RepInvNext, FoldInvNext
<1>3. ASSUME RepInv, FoldInv PROVE TailIsFold
  <2>1. rstate \in RiskState /\ rstate.lastSeq \in 0..MaxSlots
    BY <1>3 DEF FoldInv
  <2>2. rstate.books \subseteq Book
    BY <2>1 DEF RiskState
  <2>3. ASSUME rpc = "tailing", failures = 0 PROVE rstate = FoldFrom(base, 0, folded)
    BY <1>3, <2>3, FoldFromIsTailFold DEF FoldInv
  <2> QED
    BY <2>1, <2>2, <2>3 DEF TailIsFold
<1> QED
  BY <1>1, <1>2, <1>3, PTL DEF RepSpec
=============================================================================
