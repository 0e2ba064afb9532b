--------------------------- MODULE Recovery_proofs ---------------------------
(***************************************************************************)
(* Recovery for every roster, set of events, bound and mixture of hazards: *)
(* whatever kills, prunes, roster edits and power losses came before, what *)
(* the engine runs on is the fold of its log, unless a power loss has left *)
(* a snapshot ahead of the log.                                            *)
(***************************************************************************)
EXTENDS Recovery, RiskFold_proofs

SnapsOK ==
  /\ IsFiniteSet(snaps) /\ snaps \subseteq RiskState
  /\ \A s \in snaps : s.lastSeq <= MaxLog
  /\ \A s, t \in snaps : s.lastSeq = t.lastSeq => s = t
  /\ Cardinality(snaps) <= KeepLast

Typed ==
  /\ log \in Seq(Event) /\ Len(log) <= MaxLog
  /\ durable \in 0..Len(log)
  /\ pc \in {"down", "failed", "recovered", "up", "stopping"}
  /\ state \in RiskState /\ state.lastSeq <= MaxLog
  /\ warnings \in Nat
  /\ lastSnapshotSeq \in 0..MaxLog
  /\ seedBooks \in SUBSET Book
  /\ outrun \in BOOLEAN

\* The state s is that of the log L, with marks and all unless start-up seeded some.
Faithful(s, L) == Agrees(s, L) /\ (~ MarkClient => AgreesFully(s, L))

SnapsFaithful ==
  \A s \in snaps : s.lastSeq <= Len(log) /\ Faithful(s, SubSeq(log, 1, s.lastSeq))

\* The inductive invariant.  That the running state is the fold of the log is not
\* enough: the next start takes up a snapshot, so each of them must be the fold of
\* a prefix of what the log holds by then.
RecInv ==
  /\ Typed /\ SnapsOK
  /\ ~ outrun => SnapsFaithful /\ (Running => Faithful(state, log))

-----------------------------------------------------------------------------
(* Snapshot files *)

\* The snapshots newer than s.
NewerThan(files, s) == {t \in files : t.lastSeq > s.lastSeq}

\* One file per last_seq, so the n newest files are at most n.
LEMMA PruneBound ==
  ASSUME NEW files, IsFiniteSet(files), files \subseteq RiskState,
         \A s, t \in files : s.lastSeq = t.lastSeq => s = t
  PROVE  /\ IsFiniteSet(Prune(files)) /\ Prune(files) \subseteq files
         /\ Cardinality(Prune(files)) <= KeepLast
<1> DEFINE kept == Prune(files)
           rank == [s \in kept |-> Cardinality(NewerThan(files, s))]
<1>1. kept \subseteq files /\ \A s \in kept : Cardinality(NewerThan(files, s)) < KeepLast
  BY DEF Prune, NewerThan
<1>2. \A s \in files : IsFiniteSet(NewerThan(files, s)) /\ Cardinality(NewerThan(files, s)) \in Nat
  <2>1. \A s \in files : NewerThan(files, s) \in SUBSET files
    BY DEF NewerThan
  <2> QED
    BY <2>1, FS_Subset, FS_CardinalityType
<1>3. KeepLast \in Nat /\ KeepLast >= 1
  BY RecoveryAssumption DEF RecoveryAssumption
<1> HIDE DEF kept
<1>4. \A s \in kept : rank[s] \in 0..(KeepLast - 1)
  BY <1>1, <1>2, <1>3
<1>5. ASSUME NEW s \in files, NEW t \in files, s.lastSeq < t.lastSeq
      PROVE  Cardinality(NewerThan(files, t)) < Cardinality(NewerThan(files, s))
  <2>1. s.lastSeq \in Nat /\ t.lastSeq \in Nat /\ \A u \in files : u.lastSeq \in Nat
    BY DEF RiskState
  <2>2. t \in NewerThan(files, s) /\ t \notin NewerThan(files, t)
    BY <1>5, <2>1 DEF NewerThan
  <2>3. NewerThan(files, t) \subseteq NewerThan(files, s)
    BY <1>5, <2>1 DEF NewerThan
  <2>4. NewerThan(files, t) \in SUBSET NewerThan(files, s) /\ NewerThan(files, t) # NewerThan(files, s)
    BY <2>2, <2>3
  <2> QED
    BY <1>2, <2>4, FS_Subset, FS_CardinalityType
<1>6. \A s, t \in kept : rank[s] = rank[t] => s = t
  <2> SUFFICES ASSUME NEW s \in kept, NEW t \in kept, rank[s] = rank[t] PROVE s = t
    OBVIOUS
  <2>1. s \in files /\ t \in files /\ s.lastSeq \in Nat /\ t.lastSeq \in Nat
    BY <1>1 DEF RiskState
  <2>2. Cardinality(NewerThan(files, s)) = Cardinality(NewerThan(files, t))
    OBVIOUS
  <2>3. ~ (s.lastSeq < t.lastSeq) /\ ~ (t.lastSeq < s.lastSeq)
    BY <1>2, <1>5, <2>1, <2>2
  <2> QED
    BY <2>1, <2>3
<1> DEFINE range == 0..(KeepLast - 1)
<1>7. rank \in [kept -> range]
  BY <1>4
<1>8. IsFiniteSet(range) /\ Cardinality(range) = KeepLast
  BY <1>3, FS_Interval
<1> HIDE DEF rank, range
<1>9. rank \in Injection(kept, range)
  BY <1>6, <1>7 DEF Injection, IsInjective
<1>10. IsFiniteSet(kept) /\ Cardinality(kept) <= KeepLast
  BY <1>8, <1>9, FS_Injection
<1> QED
  BY <1>1, <1>10 DEF kept

\* write_snapshot.
LEMMA SnapshotsStay ==
  ASSUME RecInv, WriteSnapshot
  PROVE  SnapsOK' /\ \A s \in snaps' : s \in snaps \/ s = state
<1> DEFINE files == {s \in snaps : s.lastSeq # state.lastSeq} \cup {state}
<1>1. /\ IsFiniteSet(snaps) /\ snaps \subseteq RiskState
      /\ \A s \in snaps : s.lastSeq <= MaxLog
      /\ \A s, t \in snaps : s.lastSeq = t.lastSeq => s = t
      /\ state \in RiskState /\ state.lastSeq <= MaxLog
  BY DEF RecInv, SnapsOK, Typed
<1>2. IsFiniteSet(files)
  <2>1. {s \in snaps : s.lastSeq # state.lastSeq} \in SUBSET snaps
    OBVIOUS
  <2>2. IsFiniteSet({s \in snaps : s.lastSeq # state.lastSeq})
    BY <1>1, <2>1, FS_Subset
  <2> QED
    BY <2>2, FS_AddElement
<1>3. /\ files \subseteq RiskState
      /\ \A s \in files : s.lastSeq <= MaxLog /\ (s \in snaps \/ s = state)
      /\ \A s, t \in files : s.lastSeq = t.lastSeq => s = t
  BY <1>1
<1>4. snaps' = Prune(files)
  BY DEF WriteSnapshot
<1> HIDE DEF files
<1>5. /\ IsFiniteSet(snaps') /\ snaps' \subseteq files /\ Cardinality(snaps') <= KeepLast
  BY <1>2, <1>3, <1>4, PruneBound
<1> QED
  BY <1>3, <1>5 DEF SnapsOK

\* The snapshot that a start takes up.
LEMMA LatestIsSnapshot ==
  ASSUME SnapsOK, snaps # {}
  PROVE  Latest \in snaps
<1> DEFINE ages == {MaxLog - s.lastSeq : s \in snaps}
<1>1. MaxLog \in Nat /\ \A s \in snaps : s.lastSeq \in Nat /\ s.lastSeq <= MaxLog
  BY RecoveryAssumption DEF RecoveryAssumption, SnapsOK, RiskState
<1>2. ages \in SUBSET Nat /\ ages # {}
  BY <1>1
<1>3. PICK a \in ages : \A b \in ages : a <= b
  <2> HIDE DEF ages
  <2> QED
    BY <1>2, LeastElement
<1>4. PICK s \in snaps : a = MaxLog - s.lastSeq
  OBVIOUS
<1>5. \A t \in snaps : t.lastSeq <= s.lastSeq
  <2> TAKE t \in snaps
  <2>1. MaxLog - t.lastSeq \in ages
    OBVIOUS
  <2>2. MaxLog - s.lastSeq <= MaxLog - t.lastSeq
    <3> HIDE DEF ages
    <3> QED
      BY <1>3, <1>4, <2>1
  <2> QED
    BY <1>1, <2>2
<1>6. \E u \in snaps : \A t \in snaps : t.lastSeq <= u.lastSeq
  BY <1>5
<1> QED
  BY <1>6 DEF Latest

-----------------------------------------------------------------------------
(* Start-up *)

LEMMA EventsArePayloads ==
  /\ \A L \in Seq(Event) : L \in Seq(Payload)
  /\ \A e \in Event : e \in Payload
  /\ Audit \in Event
BY RecoveryAssumption DEF RecoveryAssumption

\* What recover_state does to the state it has replayed disturbs nothing that the
\* gate reads: new books are flat, and with no market client marks stay as they are.
LEMMA OnboardingFaithful ==
  ASSUME NEW s \in RiskState, NEW stale \in SUBSET Instrument, NEW price \in Int,
         seedBooks \in SUBSET Book
  PROVE  LET t == SeedMarks(OnboardBooks(s), stale, price)
         IN  /\ t \in RiskState /\ t.lastSeq = s.lastSeq
             /\ \A L : Agrees(s, L) => Agrees(t, L)
             /\ \A L : (stale = {} /\ AgreesFully(s, L)) => AgreesFully(t, L)
<1> DEFINE u == OnboardBooks(s)
           t == SeedMarks(u, stale, price)
<1>1. /\ u \in RiskState /\ u.books = s.books \cup seedBooks /\ u.marks = s.marks
      /\ u.lastSeq = s.lastSeq /\ u.pos = s.pos /\ u.hwm = s.hwm
      /\ u.limit = s.limit /\ u.kill = s.kill
  BY DEF OnboardBooks, RiskState
<1> HIDE DEF u
<1>2. /\ t \in RiskState /\ t.books = u.books
      /\ t.marks = [i \in Instrument |-> IF i \in stale THEN price ELSE u.marks[i]]
      /\ t.lastSeq = u.lastSeq /\ t.pos = u.pos /\ t.hwm = u.hwm
      /\ t.limit = u.limit /\ t.kill = u.kill
  BY <1>1 DEF SeedMarks, RiskState
<1> HIDE DEF t
<1>3. stale = {} => t.marks = s.marks
  <2>1. s.marks = [i \in Instrument |-> s.marks[i]]
    BY DEF RiskState
  <2> QED
    BY <1>1, <1>2, <2>1
<1>4. ASSUME NEW L, Agrees(s, L) PROVE Agrees(t, L)
  BY <1>1, <1>2, <1>4 DEF Agrees, Alike, TradesWithin
<1>5. ASSUME NEW L, stale = {}, AgreesFully(s, L) PROVE AgreesFully(t, L)
  <2>1. Agrees(t, L)
    BY <1>4, <1>5 DEF AgreesFully
  <2>2. Trimmed(t, Replay(Fresh(Book), L))
    BY <1>1, <1>2, <1>3, <1>5 DEF AgreesFully, Trimmed
  <2> QED
    BY <2>1, <2>2 DEF AgreesFully
<1> QED
  BY <1>1, <1>2, <1>4, <1>5 DEF u, t

\* The snapshot, or the seed, is the state of a prefix of the log.
LEMMA StartFaithful ==
  ASSUME RecInv
  PROVE  /\ StartingState \in RiskState /\ StartingState.lastSeq <= MaxLog
         /\ ~ outrun => /\ StartingState.lastSeq \in 0..Len(log)
                        /\ Faithful(StartingState, SubSeq(log, 1, StartingState.lastSeq))
<1>1. SnapsOK /\ log \in Seq(Event) /\ seedBooks \in SUBSET Book
  BY DEF RecInv, Typed
<1>2. CASE snaps = {}
  <2> DEFINE s == Fresh(seedBooks)
  <2>1. StartingState = s
    BY <1>2 DEF StartingState
  <2>2. s \in RiskState /\ s.lastSeq = 0
    BY <1>1, FreshIsState DEF Fresh
  <2>3. AgreesFully(s, SubSeq(log, 1, 0))
    BY <1>1, FreshAgrees, Prefixes
  <2>4. 0 <= MaxLog /\ 0 \in 0..Len(log)
    BY <1>1, RecoveryAssumption DEF RecoveryAssumption
  <2> HIDE DEF s
  <2> QED
    BY <2>1, <2>2, <2>3, <2>4 DEF Faithful, AgreesFully
<1>3. CASE snaps # {}
  <2>1. StartingState \in snaps
    BY <1>1, <1>3, LatestIsSnapshot DEF StartingState
  <2>2. StartingState.lastSeq \in Nat
    BY <1>1, <2>1 DEF SnapsOK, RiskState
  <2> QED
    BY <1>1, <2>1, <2>2 DEF RecInv, SnapsOK, SnapsFaithful
<1> QED
  BY <1>2, <1>3

\* recover_state: replay, onboarding and marks.
LEMMA RecoverKeeps ==
  ASSUME RecInv, Recover
  PROVE  RecInv'
<1> DEFINE s == StartingState
           replayed == Replay(s, log)
<1>1. /\ Typed /\ SnapsOK
      /\ log' = log /\ durable' \in {durable, Len(log)} /\ pc' = "recovered"
      /\ UNCHANGED <<lastSnapshotSeq, snaps, seedBooks, outrun, world>>
  BY DEF RecInv, Recover, OpenLog, lossVars
<1>2. PICK stale \in IF MarkClient THEN SUBSET Instrument ELSE {{}}, price \in Price :
        /\ state' = SeedMarks(OnboardBooks(replayed), stale, price)
        /\ warnings' = BookWarnings(replayed) + Cardinality(stale)
  BY DEF Recover
<1>3. ~ ReplayRaises(s, log)
  BY DEF Recover
<1>4. /\ s \in RiskState /\ s.lastSeq <= MaxLog
      /\ ~ outrun => s.lastSeq \in 0..Len(log) /\ Faithful(s, SubSeq(log, 1, s.lastSeq))
  BY StartFaithful
<1> HIDE DEF s
<1>5. log \in Seq(Payload) /\ log \in Seq(Event) /\ Len(log) <= MaxLog /\ Len(log) \in Nat
  BY <1>1, EventsArePayloads DEF Typed
<1>6. /\ replayed \in RiskState /\ replayed.lastSeq <= MaxLog
  <2>1. replayed \in RiskState /\ replayed.lastSeq = Higher(s.lastSeq, Len(log))
    BY <1>4, <1>5, ReplayTyped
  <2> QED
    BY <1>4, <1>5, <2>1 DEF Higher
<1>7. ~ outrun => Faithful(replayed, log)
  <2> SUFFICES ASSUME ~ outrun PROVE Faithful(replayed, log)
    OBVIOUS
  <2>1. s.lastSeq \in 0..Len(log) /\ Faithful(s, SubSeq(log, 1, s.lastSeq))
    BY <1>4
  <2>2. TradesWithin(log, s.books)
    <3> SUFFICES ASSUME NEW n \in DOMAIN log, log[n].type = "FILL"
                 PROVE  log[n].scope \in s.books
      BY DEF TradesWithin
    <3>1. n \in 1..Len(log) /\ log[n] \in Payload
      BY <1>5
    <3>2. CASE n > s.lastSeq
      <4>1. log[n].scope \in s.books \cup {Desk}
        BY <1>3, <3>2 DEF ReplayRaises, Raises
      <4>2. log[n].scope \in Book
        BY <3>1 DEF Payload, Audit
      <4> QED
        BY <4>1, <4>2, FoldAssumption DEF FoldAssumption
    <3>3. CASE ~ (n > s.lastSeq)
      <4> DEFINE M == SubSeq(log, 1, s.lastSeq)
      <4>1. n \in DOMAIN M /\ M[n] = log[n]
        BY <1>5, <2>1, <3>1, <3>3
      <4>2. TradesWithin(M, s.books)
        BY <2>1 DEF Faithful, Agrees
      <4> HIDE DEF M
      <4> QED
        BY <4>1, <4>2 DEF TradesWithin
    <3> QED
      BY <3>2, <3>3
  <2>3. Agrees(s, SubSeq(log, 1, s.lastSeq))
    BY <2>1 DEF Faithful
  <2>4. /\ Agrees(replayed, log)
        /\ AgreesFully(s, SubSeq(log, 1, s.lastSeq)) => AgreesFully(replayed, log)
    BY <1>5, <2>1, <2>2, <2>3, ReplayResumes
  <2> HIDE DEF replayed
  <2> QED
    BY <2>1, <2>4 DEF Faithful
<1> HIDE DEF replayed
<1>8. stale \in SUBSET Instrument /\ price \in Int /\ (~ MarkClient => stale = {})
  BY RecoveryAssumption DEF RecoveryAssumption
<1>9. seedBooks \in SUBSET Book
  BY <1>1 DEF Typed
<1>10. /\ state' \in RiskState /\ state'.lastSeq = replayed.lastSeq
       /\ \A L : Agrees(replayed, L) => Agrees(state', L)
       /\ \A L : (stale = {} /\ AgreesFully(replayed, L)) => AgreesFully(state', L)
  BY <1>2, <1>6, <1>8, <1>9, OnboardingFaithful
<1>11. warnings' \in Nat
  <2>1. seedBooks \ replayed.books \in SUBSET Book /\ replayed.books \ seedBooks \in SUBSET Book
    BY <1>6, <1>9 DEF RiskState
  <2>2. /\ Cardinality(seedBooks \ replayed.books) \in Nat
        /\ Cardinality(replayed.books \ seedBooks) \in Nat /\ Cardinality(stale) \in Nat
    BY <1>8, <2>1, FS_Subset, FS_CardinalityType, FoldAssumption DEF FoldAssumption
  <2> QED
    BY <1>2, <2>2 DEF BookWarnings
<1>12. Typed'
  BY <1>1, <1>5, <1>6, <1>10, <1>11 DEF Typed
<1>13. SnapsOK'
  BY <1>1 DEF SnapsOK
<1>14. ~ outrun => SnapsFaithful'
  BY <1>1 DEF RecInv, SnapsFaithful, Faithful, MarkClient
<1>15. ~ outrun => Faithful(state, log)'
  BY <1>1, <1>7, <1>8, <1>10 DEF Faithful, MarkClient
<1> QED
  BY <1>1, <1>12, <1>13, <1>14, <1>15 DEF RecInv

-----------------------------------------------------------------------------
(* One event more *)

\* StateStore.record: what it appends is folded, and no prefix changes.
LEMMA StoreRecordKeeps ==
  ASSUME RecInv, Running, NEW e \in Event, ~ Raises(state, e), StoreRecord(e),
         pc' \in {"recovered", "up", "stopping"}, warnings' \in Nat,
         UNCHANGED <<lastSnapshotSeq, snaps, seedBooks, outrun, world>>
  PROVE  RecInv'
<1>1. /\ Typed /\ SnapsOK
      /\ log' = Append(log, e) /\ durable' \in durable..Len(log) /\ Len(log) < MaxLog
      /\ state' = ApplyEvent(state, Len(log) + 1, e)
  BY DEF RecInv, StoreRecord, AAppend, NextSeq
<1>2. /\ log \in Seq(Event) /\ log \in Seq(Payload) /\ e \in Payload /\ MaxLog \in Nat
      /\ state \in RiskState /\ durable \in 0..Len(log)
  BY <1>1, EventsArePayloads, RecoveryAssumption DEF Typed, RecoveryAssumption
<1>3. log' \in Seq(Event) /\ Len(log') = Len(log) + 1 /\ Len(log') <= MaxLog
  BY <1>1, <1>2
<1>4. state' \in RiskState /\ state'.lastSeq = Len(log) + 1
  <2> DEFINE n == Len(log) + 1
             t == ApplyEvent(state, n, e)
  <2>1. n \in Nat /\ state' = t
    BY <1>1, <1>2
  <2>2. Outcome(state, n, e, t)
    BY <1>2, <2>1, EventFolds
  <2> HIDE DEF n, t
  <2> QED
    BY <2>1, <2>2 DEF Outcome, n
<1>5. Typed'
  <2>1. durable' \in 0..Len(log')
    BY <1>1, <1>2, <1>3
  <2>2. state'.lastSeq <= MaxLog
    BY <1>3, <1>4
  <2> QED
    BY <1>1, <1>3, <1>4, <2>1, <2>2 DEF Typed
<1>6. SnapsOK'
  BY <1>1 DEF SnapsOK
<1>7. ~ outrun => SnapsFaithful'
  <2> SUFFICES ASSUME ~ outrun, NEW s \in snaps
               PROVE  s.lastSeq <= Len(log') /\ Faithful(s, SubSeq(log', 1, s.lastSeq))
    BY DEF SnapsFaithful, Faithful, MarkClient
  <2>1. s.lastSeq <= Len(log) /\ Faithful(s, SubSeq(log, 1, s.lastSeq)) /\ s.lastSeq \in Nat
    BY <1>1 DEF RecInv, SnapsFaithful, SnapsOK, RiskState
  <2>2. SubSeq(log', 1, s.lastSeq) = SubSeq(log, 1, s.lastSeq)
    BY <1>1, <1>2, <2>1, PrefixOfAppend
  <2>3. s.lastSeq <= Len(log')
    BY <1>2, <1>3, <2>1
  <2> QED
    BY <2>1, <2>2, <2>3
<1>8. ~ outrun => Faithful(state, log)'
  <2> SUFFICES ASSUME ~ outrun PROVE Faithful(state, log)'
    OBVIOUS
  <2>1. Faithful(state, log)
    BY DEF RecInv
  <2>2. e.type = "FILL" => e.scope \in state.books
    BY <1>2, FoldAssumption DEF Raises, Payload, Audit, FoldAssumption
  <2>3. Agrees(state, log)
    BY <2>1 DEF Faithful
  <2> DEFINE t == ApplyEvent(state, Len(log) + 1, e)
  <2>4. Agrees(t, Append(log, e)) /\ (AgreesFully(state, log) => AgreesFully(t, Append(log, e)))
    BY <1>2, <2>2, <2>3, AgreesStep
  <2> HIDE DEF t
  <2> QED
    BY <1>1, <2>1, <2>4 DEF t, Faithful, MarkClient
<1> QED
  BY <1>5, <1>6, <1>7, <1>8 DEF RecInv

LEMMA RecordWarningKeeps ==
  ASSUME RecInv, RecordWarning
  PROVE  RecInv'
<1>1. /\ pc = "recovered" /\ pc' = pc /\ StoreRecord(Audit)
      /\ warnings > 0 /\ warnings' = warnings - 1 /\ warnings \in Nat
      /\ UNCHANGED <<lastSnapshotSeq, snaps, seedBooks, outrun, world>>
  BY DEF RecordWarning, RecInv, Typed, lossVars
<1>2. ~ Raises(state, Audit)
  BY DEF Raises, Audit
<1>3. Running /\ pc' \in {"recovered", "up", "stopping"} /\ warnings' \in Nat
  BY <1>1 DEF Running
<1> QED
  BY <1>1, <1>2, <1>3, EventsArePayloads, StoreRecordKeeps

LEMMA RecordKeeps ==
  ASSUME RecInv, NEW e \in Event, Record(e)
  PROVE  RecInv'
<1>1. /\ pc = "up" /\ pc' = pc /\ StoreRecord(e) /\ ~ Raises(state, e)
      /\ warnings' = warnings /\ warnings \in Nat
      /\ UNCHANGED <<lastSnapshotSeq, snaps, seedBooks, outrun, world>>
  BY DEF Record, RecInv, Typed, lossVars
<1>2. Running /\ pc' \in {"recovered", "up", "stopping"} /\ warnings' \in Nat
  BY <1>1 DEF Running
<1> QED
  BY <1>1, <1>2, StoreRecordKeeps

-----------------------------------------------------------------------------
(* Snapshots, shutdown and the environment *)

\* The periodic snapshot and the one of a shutdown.
LEMMA SnapshotKeeps ==
  ASSUME RecInv, SnapshotIfChanged \/ TeardownSnapshot
  PROVE  RecInv'
<1>1. /\ WriteSnapshot /\ Running /\ pc' \in {"up", "stopping"}
      /\ lastSnapshotSeq' \in {lastSnapshotSeq, state.lastSeq}
      /\ UNCHANGED <<log, durable, state, warnings, seedBooks, outrun, world>>
  BY DEF SnapshotIfChanged, TeardownSnapshot, lossVars, Running
<1>2. SnapsOK' /\ \A s \in snaps' : s \in snaps \/ s = state
  BY <1>1, SnapshotsStay
<1>3. Typed'
  <2>1. state.lastSeq \in 0..MaxLog
    BY RecoveryAssumption DEF RecInv, Typed, RiskState, RecoveryAssumption
  <2> QED
    BY <1>1, <2>1 DEF RecInv, Typed
<1>4. ~ outrun => Faithful(state, log)'
  BY <1>1 DEF RecInv, Faithful, MarkClient
<1>5. ~ outrun => SnapsFaithful'
  <2> SUFFICES ASSUME ~ outrun, NEW s \in snaps'
               PROVE  s.lastSeq <= Len(log) /\ Faithful(s, SubSeq(log, 1, s.lastSeq))
    BY <1>1 DEF SnapsFaithful, Faithful, MarkClient
  <2>1. CASE s \in snaps
    BY <2>1 DEF RecInv, SnapsFaithful
  <2>2. CASE s = state
    <3>1. Faithful(state, log) /\ log \in Seq(Payload)
      BY <1>1, EventsArePayloads DEF RecInv, Typed
    <3>2. state.lastSeq = Len(log)
      BY <3>1, ReferenceTyped DEF Faithful, Agrees, Alike
    <3>3. SubSeq(log, 1, Len(log)) = log /\ Len(log) <= Len(log)
      BY <3>1, Prefixes
    <3> QED
      BY <2>2, <3>1, <3>2, <3>3
  <2> QED
    BY <1>2, <2>1, <2>2
<1> QED
  BY <1>1, <1>2, <1>3, <1>4, <1>5 DEF RecInv

\* Whatever takes the engine down leaves its files as they are, or cuts the log.
LEMMA GoDownKeeps ==
  ASSUME RecInv, GoDown, NEW n \in 0..Len(log), log' = SubSeq(log, 1, n),
         durable' \in 0..n, outrun' \in BOOLEAN, ~ outrun' => ~ outrun,
         ~ outrun' => \A s \in snaps : s.lastSeq <= n
  PROVE  RecInv'
<1>1. /\ Typed /\ SnapsOK
      /\ pc' = "down" /\ state' = NoState /\ warnings' = 0 /\ lastSnapshotSeq' = 0
      /\ UNCHANGED <<snaps, seedBooks, world>>
  BY DEF RecInv, GoDown
<1>2. log' \in Seq(Event) /\ Len(log') = n /\ n <= MaxLog
  BY <1>1, Prefixes, RecoveryAssumption DEF Typed, RecoveryAssumption
<1>3. NoState \in RiskState /\ NoState.lastSeq = 0 /\ 0 \in 0..MaxLog /\ 0 <= MaxLog
  BY FreshIsState, RecoveryAssumption DEF NoState, Fresh, RecoveryAssumption
<1>4. Typed'
  BY <1>1, <1>2, <1>3 DEF Typed
<1>5. SnapsOK'
  BY <1>1 DEF SnapsOK
<1>6. ~ outrun' => SnapsFaithful'
  <2> SUFFICES ASSUME ~ outrun', NEW s \in snaps
               PROVE  s.lastSeq <= Len(log') /\ Faithful(s, SubSeq(log', 1, s.lastSeq))
    BY <1>1 DEF SnapsFaithful, Faithful, MarkClient
  <2>1. s.lastSeq <= n /\ Faithful(s, SubSeq(log, 1, s.lastSeq)) /\ s.lastSeq \in Nat
    BY <1>1 DEF RecInv, SnapsFaithful, SnapsOK, RiskState
  <2>2. SubSeq(log', 1, s.lastSeq) = SubSeq(log, 1, s.lastSeq)
    BY <1>1, <2>1, PrefixOfPrefix DEF Typed
  <2> QED
    BY <1>1, <1>2, <2>1, <2>2 DEF Faithful, MarkClient
<1>7. ~ Running'
  BY <1>1 DEF Running
<1> QED
  BY <1>4, <1>5, <1>6, <1>7 DEF RecInv

LEMMA DownKeeps ==
  ASSUME RecInv, TeardownClose \/ Kill \/ PowerLoss
  PROVE  RecInv'
<1>1. log \in Seq(Event) /\ durable \in 0..Len(log) /\ outrun \in BOOLEAN
  BY DEF RecInv, Typed
<1>2. SubSeq(log, 1, Len(log)) = log /\ Len(log) \in 0..Len(log)
  BY <1>1
<1>3. CASE TeardownClose \/ Kill
  <2>1. GoDown /\ log' = log /\ durable' \in 0..Len(log) /\ outrun' = outrun
    BY <1>1, <1>3 DEF TeardownClose, Kill, lossVars
  <2>2. ~ outrun => \A s \in snaps : s.lastSeq <= Len(log)
    BY DEF RecInv, SnapsFaithful
  <2> QED
    BY <1>1, <1>2, <2>1, <2>2, GoDownKeeps
<1>4. CASE PowerLoss
  <2>1. PICK n \in durable..Len(log) : log' = SubSeq(log, 1, n)
    BY <1>4 DEF PowerLoss, ALoseTail
  <2>2. /\ GoDown /\ durable' = durable
        /\ outrun' = (outrun \/ \E s \in snaps : s.lastSeq > Len(log'))
    BY <1>4 DEF PowerLoss, ALoseTail
  <2>3. n \in 0..Len(log) /\ durable' \in 0..n /\ Len(log') = n
    BY <1>1, <2>1, <2>2
  <2>4. outrun' \in BOOLEAN
    BY <1>1, <2>2, Zenon
  <2>5. (~ outrun' => ~ outrun) /\ (~ outrun' => \A s \in snaps : ~ (s.lastSeq > n))
    BY <2>2, <2>3
  <2>6. ~ outrun' => \A s \in snaps : s.lastSeq <= n
    BY <2>3, <2>5 DEF RecInv, SnapsOK, RiskState
  <2> QED
    BY <2>1, <2>2, <2>3, <2>4, <2>5, <2>6, GoDownKeeps
<1> QED
  BY <1>3, <1>4

\* Steps that touch neither the log's contents, nor the state, nor a snapshot.
LEMMA QuietKeeps ==
  ASSUME RecInv, UNCHANGED <<log, state, snaps, outrun, world>>,
         Running' => Running,
         pc' \in {"down", "failed", "recovered", "up", "stopping"},
         durable' \in 0..Len(log), warnings' \in Nat, lastSnapshotSeq' \in 0..MaxLog,
         seedBooks' \in SUBSET Book
  PROVE  RecInv'
<1>1. Typed' /\ SnapsOK'
  BY DEF RecInv, Typed, SnapsOK
<1>2. ~ outrun => SnapsFaithful' /\ (Running' => Faithful(state, log)')
  BY DEF RecInv, SnapsFaithful, Faithful, MarkClient
<1> QED
  BY <1>1, <1>2 DEF RecInv

-----------------------------------------------------------------------------
LEMMA RecInvInit == RecInit => RecInv
<1> SUFFICES ASSUME RecInit PROVE RecInv
  OBVIOUS
<1>1. /\ log = <<>> /\ durable = 0 /\ pc = "down" /\ state = NoState /\ warnings = 0
      /\ lastSnapshotSeq = 0 /\ snaps = {} /\ outrun = FALSE /\ seedBooks \in SUBSET Book
  BY DEF RecInit, AInit
<1>2. NoState \in RiskState /\ NoState.lastSeq = 0
  BY FreshIsState DEF NoState, Fresh
<1>3. Typed
  <2>1. <<>> \in Seq(Event) /\ Len(<<>>) = 0
    OBVIOUS
  <2>2. MaxLog \in Nat
    BY RecoveryAssumption DEF RecoveryAssumption
  <2>3. 0 <= MaxLog /\ 0 \in 0..MaxLog /\ 0 \in 0..0
    BY <2>2
  <2> QED
    BY <1>1, <1>2, <2>1, <2>3 DEF Typed
<1>4. SnapsOK
  BY <1>1, FS_EmptySet, RecoveryAssumption DEF SnapsOK, RecoveryAssumption
<1> QED
  BY <1>1, <1>3, <1>4 DEF RecInv, SnapsFaithful, Running

LEMMA RecInvNext == RecInv /\ [RecNext]_recVars => RecInv'
<1> SUFFICES ASSUME RecInv, [RecNext]_recVars PROVE RecInv'
  OBVIOUS
<1>1. CASE Recover
  BY <1>1, RecoverKeeps
<1>2. CASE RecordWarning
  BY <1>2, RecordWarningKeeps
<1>3. ASSUME NEW e \in Event, Record(e) PROVE RecInv'
  BY <1>3, RecordKeeps
<1>4. CASE SnapshotIfChanged \/ TeardownSnapshot
  BY <1>4, SnapshotKeeps
<1>5. CASE TeardownClose \/ Kill \/ PowerLoss
  BY <1>5, DownKeeps
<1>6. CASE \/ RecoverRaises \/ Serve \/ Commit \/ EditSeed \/ UNCHANGED recVars
  <2>1. /\ log \in Seq(Event) /\ durable \in 0..Len(log) /\ warnings \in Nat
        /\ lastSnapshotSeq \in 0..MaxLog /\ state.lastSeq \in 0..MaxLog
        /\ seedBooks \in SUBSET Book
        /\ pc \in {"down", "failed", "recovered", "up", "stopping"}
    BY RecoveryAssumption DEF RecInv, Typed, RiskState, RecoveryAssumption
  <2>2. Len(log) \in 0..Len(log)
    BY <2>1
  <2>3. /\ UNCHANGED <<log, state, snaps, outrun, world>> /\ (Running' => Running)
        /\ pc' \in {"down", "failed", "recovered", "up", "stopping"}
        /\ durable' \in {durable, Len(log)} /\ warnings' = warnings
        /\ lastSnapshotSeq' \in {lastSnapshotSeq, state.lastSeq}
        /\ seedBooks' \in SUBSET Book
    BY <1>6, <2>1
    DEF RecoverRaises, OpenLog, Serve, Commit, EditSeed, recVars, engineVars, lossVars, Running
  <2> QED
    BY <2>1, <2>2, <2>3, QuietKeeps
<1> QED
  BY <1>1, <1>2, <1>3, <1>4, <1>5, <1>6 DEF RecNext

\* The inductive invariant holds in every reachable state.
THEOREM RecoveryInvariant == RecSpec => []RecInv
<1> QED
  BY RecInvInit, RecInvNext, PTL DEF RecSpec

-----------------------------------------------------------------------------
(* What follows for the engine that runs *)

LEMMA RunningAgrees ==
  ASSUME RecInv, Running, ~ outrun
  PROVE  /\ Agrees(state, log) /\ (~ MarkClient => AgreesFully(state, log))
         /\ log \in Seq(Payload) /\ state \in RiskState
         /\ Reference \in RiskState /\ Reference.lastSeq = Len(log)
<1>1. Faithful(state, log) /\ log \in Seq(Payload)
  BY EventsArePayloads DEF RecInv, Typed
<1> QED
  BY <1>1, ReferenceTyped DEF Faithful, Agrees, Reference

\* Positions, limits and kill switches are those of the log, event for event: a
\* replay from a snapshot folds nothing twice and skips nothing, for every number
\* of snapshots kept, every log and every interleaving of kills, prunes, edits of
\* the roster and power losses, short of a snapshot ahead of the log.
THEOREM PositionsFollowLog == RecSpec => []PositionsAreFold
<1>1. ASSUME RecInv PROVE PositionsAreFold
  <2> SUFFICES ASSUME Running, ~ outrun
               PROVE  /\ state.lastSeq = Len(log)
                      /\ state.limit = Reference.limit /\ state.kill = Reference.kill
                      /\ \A b \in state.books, i \in Instrument :
                           /\ state.pos[b][i].qty = Reference.pos[b][i].qty
                           /\ state.pos[b][i].cash = Reference.pos[b][i].cash
    BY DEF PositionsAreFold
  <2>1. Alike(state, Reference) /\ Reference.lastSeq = Len(log) /\ state.books \subseteq Book
    BY <1>1, RunningAgrees DEF Agrees, Reference, RiskState
  <2> QED
    BY <2>1 DEF Alike
<1> QED
  BY <1>1, RecoveryInvariant, PTL

\* With no mark seeded at start-up, and no snapshot that a power loss has left ahead
\* of the log, the whole state is a pure function of the log.
THEOREM StateFollowsLog == RecSpec => []StateIsFold
<1>1. ASSUME RecInv PROVE StateIsFold
  <2> SUFFICES ASSUME Running, ~ outrun, ~ MarkClient
               PROVE  state = [Reference EXCEPT !.books = state.books]
    BY DEF StateIsFold, PureReplay
  <2>1. /\ state \in RiskState /\ Reference \in RiskState
        /\ Alike(state, Reference) /\ Trimmed(state, Reference)
    BY <1>1, RunningAgrees DEF AgreesFully, Agrees, Reference
  <2> DEFINE ref == Reference
             books == state.books
             t == [ref EXCEPT !.books = books]
  <2>2. books \in SUBSET Book
    BY <2>1 DEF RiskState
  <2> HIDE DEF ref, books
  <2>3. /\ t \in RiskState /\ t.books = books
        /\ t.lastSeq = ref.lastSeq /\ t.marks = ref.marks /\ t.pos = ref.pos
        /\ t.hwm = ref.hwm /\ t.limit = ref.limit /\ t.kill = ref.kill
    <3>1. ref \in RiskState
      BY <2>1 DEF ref
    <3> QED
      BY <2>2, <3>1 DEF RiskState
  <2> HIDE DEF t
  <2>4. state = t
    <3>1. /\ state.lastSeq = t.lastSeq /\ state.books = t.books /\ state.marks = t.marks
          /\ state.pos = t.pos /\ state.hwm = t.hwm /\ state.limit = t.limit
          /\ state.kill = t.kill
      BY <2>1, <2>3 DEF Trimmed, ref, books
    <3> QED
      BY <2>1, <2>3, <3>1, SameFields
  <2> QED
    BY <2>4 DEF t, ref, books
<1> QED
  BY <1>1, RecoveryInvariant, PTL

\* Whatever the seed file names by now, a book with a fill in the log is in the
\* roster of every engine that starts, unless a snapshot is ahead of the log.
THEOREM TradedBooksStay == RecSpec => []TradedBooksKept
<1>1. ASSUME RecInv PROVE TradedBooksKept
  BY <1>1, RunningAgrees DEF TradedBooksKept, Agrees, TradesWithin
<1> QED
  BY <1>1, RecoveryInvariant, PTL

\* Any of the snapshot files, not only the newest, is a sound starting point, unless
\* a power loss has left one ahead of the log; and there are never more of them than
\* are to be kept.
THEOREM SnapshotsFollowLog == RecSpec => []SnapshotsArePrefixes
<1>1. ASSUME RecInv PROVE SnapshotsArePrefixes
  <2>1. RecTypeOK
    <3>1. state.lastSeq \in 0..MaxLog
      BY <1>1, RecoveryAssumption DEF RecInv, Typed, RiskState, RecoveryAssumption
    <3> QED
      BY <1>1, <3>1 DEF RecInv, Typed, SnapsOK, RecTypeOK
  <2> SUFFICES ASSUME ~ outrun, NEW s \in snaps
               PROVE  /\ s.lastSeq <= Len(log)
                      /\ SameBooks(s, Replay(Fresh(s.books), SubSeq(log, 1, s.lastSeq)))
    BY <2>1 DEF SnapshotsArePrefixes
  <2> DEFINE L == SubSeq(log, 1, s.lastSeq)
             r == Replay(Fresh(s.books), L)
             ref == Replay(Fresh(Book), L)
  <2>2. s.lastSeq <= Len(log) /\ Faithful(s, L) /\ s.lastSeq \in 0..Len(log)
    BY <1>1 DEF RecInv, SnapsFaithful, SnapsOK, RiskState
  <2>3. L \in Seq(Payload)
    <3>1. log \in Seq(Payload)
      BY <1>1, EventsArePayloads DEF RecInv, Typed
    <3> QED
      BY <2>2, <3>1, Prefixes
  <2>4. s.books \in SUBSET Book /\ TradesWithin(L, s.books)
    BY <2>2 DEF Faithful, Agrees, RiskState
  <2> HIDE DEF L
  <2>5. AgreesFully(r, L)
    BY <2>3, <2>4, RosterApart
  <2>6. Alike(s, ref) /\ Alike(r, ref)
    BY <2>2, <2>5 DEF Faithful, AgreesFully, Agrees
  <2>7. PureReplay => Trimmed(s, ref) /\ Trimmed(r, ref)
    BY <2>2, <2>5 DEF Faithful, AgreesFully, PureReplay
  <2> HIDE DEF r, ref
  <2>8. SameBooks(s, r)
    BY <2>6, <2>7 DEF SameBooks, Alike, Trimmed
  <2> QED
    BY <2>2, <2>8 DEF r, L
<1> QED
  BY <1>1, RecoveryInvariant, PTL

-----------------------------------------------------------------------------
(* The log underneath *)

\* Starts, appends, commits, closes, kills and power losses of the engine do to the
\* log what EventLog allows, in single steps, and nothing else: LogWriter implements
\* all that recovery relies on (LogImplementsEventLog), and no start, snapshot or
\* edit of the roster takes a committed event back.
THEOREM RecoveryUsesTheLog == RecSpec => ASpec
<1>1. RecInit => AInit
  BY DEF RecInit
<1>2. RecInv /\ [RecNext]_recVars => [ANext]_alogVars
  <2> SUFFICES ASSUME RecInv, [RecNext]_recVars PROVE [ANext]_alogVars
    OBVIOUS
  <2>1. durable \in Nat /\ Len(log) \in Nat /\ durable <= Len(log) /\ Audit \in Event
    BY RecoveryAssumption, LenProperties DEF RecInv, Typed, RecoveryAssumption
  <2>2. ASSUME durable' \in {durable, Len(log)}, UNCHANGED log PROVE [ANext]_alogVars
    <3>1. CASE durable' = durable
      BY <2>2, <3>1 DEF alogVars
    <3>2. CASE durable' # durable
      <4>1. durable' \in (durable + 1)..Len(log)
        BY <2>1, <2>2, <3>2
      <4> QED
        BY <2>2, <4>1 DEF AMakeDurable, ANext
    <3> QED
      BY <2>1, <3>1, <3>2
  <2>3. ASSUME NEW e \in Event, StoreRecord(e) PROVE [ANext]_alogVars
    BY <2>3 DEF StoreRecord, ANext
  <2>4. CASE Recover \/ RecoverRaises
    BY <2>2, <2>4 DEF Recover, RecoverRaises, OpenLog
  <2>5. CASE Commit \/ TeardownClose
    BY <2>2, <2>5 DEF Commit, TeardownClose
  <2>6. CASE RecordWarning
    BY <2>1, <2>3, <2>6 DEF RecordWarning
  <2>7. ASSUME NEW e \in Event, Record(e) PROVE [ANext]_alogVars
    BY <2>3, <2>7 DEF Record
  <2>8. CASE PowerLoss
    BY <2>8 DEF PowerLoss, ANext
  <2>9. CASE Serve \/ SnapshotIfChanged \/ TeardownSnapshot \/ Kill \/ EditSeed \/ UNCHANGED recVars
    BY <2>9 DEF Serve, SnapshotIfChanged, TeardownSnapshot, Kill, EditSeed, recVars, alogVars
  <2> QED
    BY <2>4, <2>5, <2>6, <2>7, <2>8, <2>9 DEF RecNext
<1> QED
  BY <1>1, <1>2, RecoveryInvariant, PTL DEF RecSpec, ASpec
=============================================================================
