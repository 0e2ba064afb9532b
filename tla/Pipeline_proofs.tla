--------------------------- MODULE Pipeline_proofs ---------------------------
(***************************************************************************)
(* Pipeline for any strategies, books, instruments, limits and queue size: *)
(* how long the queue gets, that a strategy knows its book's position, and *)
(* that what the gate approves is within the limits when it is folded.     *)
(***************************************************************************)
EXTENDS Pipeline, RiskFold_proofs

-----------------------------------------------------------------------------
(* States *)

Sound(s) == s \in RiskState /\ s.books = Book /\ s.marks \in [Instrument -> Price]

SameHoldings(s, t) ==
  \A b \in Book, i \in Instrument : t.pos[b][i].qty = s.pos[b][i].qty

\* What a limit is checked against, besides the positions.
SameTerms(s, t) == t.marks = s.marks /\ t.limit = s.limit

\* StateStore.record, of what this process logs.
LEMMA RecordFolds ==
  ASSUME NEW s, Sound(s), NEW e \in Payload, e.type = "MARK_UPDATE" => e.price \in Price
  PROVE  LET t == StoreRecord(s, e)
         IN  /\ Sound(t)
             /\ e.type # "MARK_UPDATE" => t.marks = s.marks
             /\ e.type # "LIMIT_CHANGE" => t.limit = s.limit
             /\ \A b \in Book, i \in Instrument : t.pos[b][i].qty = QtyAfter(s, e, b, i)
<1> DEFINE n == s.lastSeq + 1
           t == ApplyEvent(s, n, e)
<1>1. n \in Nat /\ s \in RiskState
  BY DEF Sound, RiskState
<1>2. Outcome(s, n, e, t)
  <2> HIDE DEF n
  <2> QED
    BY <1>1, EventFolds
<1>3. t = StoreRecord(s, e)
  BY DEF StoreRecord
<1> HIDE DEF t, n
<1>4. t \in RiskState /\ t.books = Book
  BY <1>2 DEF Outcome, Sound
<1>5. t.marks = MarksAfter(s, e) /\ t.limit = LimitAfter(s, e) /\ t.pos = PosAfter(s, e)
  BY <1>2 DEF Outcome
<1>6. t.marks \in [Instrument -> Price] /\ (e.type # "MARK_UPDATE" => t.marks = s.marks)
  <2>1. CASE e.type = "MARK_UPDATE"
    BY <1>5, <2>1 DEF MarksAfter, Sound
  <2>2. CASE e.type # "MARK_UPDATE"
    BY <1>5, <2>2 DEF MarksAfter, Sound
  <2> QED
    BY <2>1, <2>2
<1>7. e.type # "LIMIT_CHANGE" => t.limit = s.limit
  BY <1>5 DEF LimitAfter
<1>8. \A b \in Book, i \in Instrument : t.pos[b][i].qty = QtyAfter(s, e, b, i)
  BY <1>5 DEF PosAfter
<1> QED
  BY <1>3, <1>4, <1>6, <1>7, <1>8 DEF Sound

\* Audit events and kill switches leave alone what limits are about.
LEMMA AuditFolds ==
  ASSUME NEW s, Sound(s)
  PROVE  LET t == StoreRecord(s, Audit)
         IN  Sound(t) /\ SameHoldings(s, t) /\ SameTerms(s, t)
<1>1. Audit \in Payload /\ Audit.type = "AUDIT"
  BY DEF Payload, Audit
<1> QED
  BY <1>1, RecordFolds DEF SameHoldings, SameTerms, QtyAfter, Fills

LEMMA SwitchFolds ==
  ASSUME NEW s, Sound(s), NEW v \in BOOLEAN
  PROVE  LET t == StoreRecord(s, KillSwitch(Desk, v))
         IN  Sound(t) /\ SameHoldings(s, t) /\ SameTerms(s, t)
<1> DEFINE e == KillSwitch(Desk, v)
<1>1. e \in Payload /\ e.type = "KILL_SWITCH"
  BY DEF Payload, KillSwitch, Scope
<1> HIDE DEF e
<1> QED
  BY <1>1, RecordFolds DEF SameHoldings, SameTerms, QtyAfter, Fills, e

-----------------------------------------------------------------------------
(* What travels on the bus *)

FillMessages == [type : {"FILL"}, scope : Book, instrument : Instrument, delta : Int, price : Price]
MarkMessages == [type : {"MARK_UPDATE"}, instrument : Instrument, price : Price]
FundingMessages == [type : {"FUNDING_UPDATE"}, instrument : Instrument, rate : Int]
Message == FillMessages \cup MarkMessages \cup FundingMessages

\* By how much a message moves a book's position.
Moved(e, b, i) ==
  IF e.type = "FILL" /\ e.scope = b /\ e.instrument = i THEN e.delta ELSE 0

LEMMA MessagesArePayload ==
  ASSUME NEW e \in Message
  PROVE  /\ e \in Payload /\ e.type \in {"MARK_UPDATE", "FUNDING_UPDATE", "FILL"}
         /\ e.type = "MARK_UPDATE" => e \in MarkMessages /\ e.price \in Price
         /\ e.type = "FILL" => e \in FillMessages
<1>1. Price \subseteq Int
  BY PipelineAssumption DEF PipelineAssumption
<1>2. CASE e \in FillMessages
  BY <1>1, <1>2 DEF FillMessages, Payload
<1>3. CASE e \in MarkMessages
  BY <1>1, <1>3 DEF MarkMessages, Payload
<1>4. CASE e \in FundingMessages
  BY <1>4 DEF FundingMessages, Payload
<1> QED
  BY <1>2, <1>3, <1>4 DEF Message

\* Quantities are integers.
LEMMA HeldIsInt ==
  ASSUME NEW s, Sound(s), NEW b \in Book, NEW i \in Instrument
  PROVE  /\ s.pos[b][i].qty \in Int /\ s.marks[i] \in Price /\ s.marks[i] \in Int
         /\ s.limit[b] \in Int /\ s.limit[Desk] \in Int
<1>1. /\ s.pos \in [Book -> [Instrument -> Position]] /\ s.marks \in [Instrument -> Price]
      /\ s.limit \in [Scope -> Int]
  BY DEF Sound, RiskState
<1> QED
  BY <1>1, PipelineAssumption DEF PipelineAssumption, Position, Scope

\* What recording a message does to the positions.
LEMMA MessageFolds ==
  ASSUME NEW s, Sound(s), NEW e \in Message
  PROVE  /\ Sound(StoreRecord(s, e))
         /\ \A b \in Book, i \in Instrument :
              /\ s.pos[b][i].qty \in Int
              /\ StoreRecord(s, e).pos[b][i].qty = s.pos[b][i].qty + Moved(e, b, i)
         /\ e.type # "MARK_UPDATE" => SameTerms(s, StoreRecord(s, e))
<1> DEFINE t == StoreRecord(s, e)
<1>1. /\ Sound(t) /\ (e.type # "MARK_UPDATE" => t.marks = s.marks) /\ t.limit = s.limit
      /\ \A b \in Book, i \in Instrument : t.pos[b][i].qty = QtyAfter(s, e, b, i)
  BY MessagesArePayload, RecordFolds
<1> HIDE DEF t
<1>2. ASSUME NEW b \in Book, NEW i \in Instrument
      PROVE  s.pos[b][i].qty \in Int /\ t.pos[b][i].qty = s.pos[b][i].qty + Moved(e, b, i)
  BY <1>1, HeldIsInt DEF QtyAfter, Fills, Moved
<1> QED
  BY <1>1, <1>2 DEF t, SameTerms

-----------------------------------------------------------------------------
(* What a fill does to the exposures the gate looks at *)

LEMMA BookNotionalInt ==
  ASSUME NEW s, Sound(s), NEW b \in Book
  PROVE  BookNotional(s, b) \in Int
<1> DEFINE f == [i \in Instrument |-> Magnitude(s.pos[b][i].qty) * s.marks[i]]
<1>1. \A i \in Instrument : f[i] \in Int
  <2> TAKE i \in Instrument
  <2>1. s.pos[b][i].qty \in Int /\ s.marks[i] \in Int
    BY HeldIsInt
  <2>2. \A x, y \in Int : Magnitude(x) * y \in Int
    BY DEF Magnitude
  <2> QED
    BY <2>1, <2>2
<1>2. BookNotional(s, b) = SumOver(Instrument, f)
  BY DEF BookNotional
<1> HIDE DEF f
<1> QED
  BY <1>1, <1>2, SumInt, FoldAssumption DEF FoldAssumption

LEMMA DeskNotionalInt ==
  ASSUME NEW s, Sound(s)
  PROVE  DeskGrossNotional(s) \in Int
<1> DEFINE f == [b \in Book |-> BookNotional(s, b)]
<1>1. \A b \in Book : f[b] \in Int
  BY BookNotionalInt
<1>2. DeskGrossNotional(s) = SumOver(Book, f)
  BY DEF DeskGrossNotional, Sound
<1> HIDE DEF f
<1> QED
  BY <1>1, <1>2, SumInt, FoldAssumption DEF FoldAssumption

\* A sum with one term changed.
LEMMA SumMoves ==
  ASSUME NEW S, IsFiniteSet(S), NEW x \in S, NEW f, NEW g, NEW d \in Int,
         \A y \in S : f[y] \in Int, g[x] = f[x] + d, \A y \in S \ {x} : g[y] = f[y]
  PROVE  SumOver(S, g) = SumOver(S, f) + d
<1> DEFINE T == S \ {x}
<1>1. IsFiniteSet(T) /\ T \subseteq S
  BY FS_Subset
<1>2. SumOver(S, f) = f[x] + SumOver(T, f)
  BY SumRemove
<1>3. SumOver(S, g) = g[x] + SumOver(T, g)
  <2>1. \A y \in S : g[y] \in Int
    OBVIOUS
  <2> QED
    BY <2>1, SumRemove
<1>4. SumOver(T, g) = SumOver(T, f)
  <2>1. \A y \in T : g[y] = f[y] /\ f[y] \in Int
    OBVIOUS
  <2>2. T \in SUBSET T /\ T \ T = {}
    OBVIOUS
  <2> HIDE DEF T
  <2> QED
    BY <1>1, <2>1, <2>2, SumTrim
<1>5. SumOver(T, f) \in Int
  BY <1>1, SumInt
<1> HIDE DEF T
<1> QED
  BY <1>2, <1>3, <1>4, <1>5

\* What d more of a position held adds to its notional, at the mark m.
Rises(held, d, m) == (Magnitude(held + d) - Magnitude(held)) * m

LEMMA RiseFacts ==
  ASSUME NEW held \in Int, NEW d \in Int, NEW m \in Int
  PROVE  /\ Rises(held, d, m) \in Int
         /\ Rises(held, d, m) <= Magnitude(d) * Magnitude(m)
         /\ Magnitude(held + d) * m = Magnitude(held) * m + Rises(held, d, m)
         /\ Magnitude(d) \in Nat /\ Magnitude(m) \in Nat
<1> DEFINE p == Magnitude(held + d)
           q == Magnitude(held)
<1>1. p \in Nat /\ q \in Nat /\ Magnitude(d) \in Nat /\ Magnitude(m) \in Nat
  BY DEF Magnitude
<1>2. p - q <= Magnitude(d) /\ q - p <= Magnitude(d)
  BY DEF Magnitude
<1>3. Magnitude(m) = m \/ Magnitude(m) = -m
  BY DEF Magnitude
<1> DEFINE a == Magnitude(d)
           v == Magnitude(m)
<1>4. Rises(held, d, m) = (p - q) * m
  BY DEF Rises
<1> HIDE DEF p, q, a, v
<1>5. (p - q) * m \in Int /\ p * m = q * m + (p - q) * m
  BY <1>1
<1>6. (p - q) * m <= a * v
  <2>1. \A x, y \in Nat : x * y >= 0
    OBVIOUS
  <2>2. (a - (p - q)) * v >= 0 /\ (a - (q - p)) * v >= 0
    <3>1. a - (p - q) \in Nat /\ a - (q - p) \in Nat /\ v \in Nat
      BY <1>1, <1>2 DEF a, v
    <3> QED
      BY <2>1, <3>1
  <2>3. (a - (p - q)) * v = a * v - (p - q) * v /\ (a - (q - p)) * v = a * v - (q - p) * v
    BY <1>1 DEF a, v
  <2>4. (p - q) * m = (p - q) * v \/ (p - q) * m = (q - p) * v
    <3>1. CASE v = m
      BY <3>1
    <3>2. CASE v = -m
      BY <1>1, <3>2
    <3> QED
      BY <1>3, <3>1, <3>2 DEF v
  <2>5. a * v \in Int /\ (p - q) * v \in Int /\ (q - p) * v \in Int
    BY <1>1 DEF a, v
  <2> QED
    BY <2>2, <2>3, <2>4, <2>5
<1> QED
  BY <1>1, <1>4, <1>5, <1>6 DEF p, q, a, v

\* t is s, but that book b holds d more of i.
Traded(s, t, b, i, d) ==
  /\ t.books = s.books /\ t.marks = s.marks /\ t.limit = s.limit
  /\ \A c \in Book, j \in Instrument :
       t.pos[c][j].qty = s.pos[c][j].qty + (IF c = b /\ j = i THEN d ELSE 0)

\* The exposure of its book and that of the desk rise by the same, no other does.
LEMMA ExposureMoves ==
  ASSUME NEW s, Sound(s), NEW b \in Book, NEW i \in Instrument, NEW d \in Int,
         NEW t, Traded(s, t, b, i, d)
  PROVE  LET rise == Rises(s.pos[b][i].qty, d, s.marks[i])
         IN  /\ t.pos[b][i].qty = s.pos[b][i].qty + d
             /\ BookNotional(t, b) = BookNotional(s, b) + rise
             /\ DeskGrossNotional(t) = DeskGrossNotional(s) + rise
             /\ \A c \in Book \ {b} : BookNotional(t, c) = BookNotional(s, c)
<1> DEFINE rise == Rises(s.pos[b][i].qty, d, s.marks[i])
<1>1. /\ \A c \in Book, j \in Instrument : s.pos[c][j].qty \in Int
      /\ \A j \in Instrument : s.marks[j] \in Int
  BY HeldIsInt
<1>2. rise \in Int
  BY <1>1, RiseFacts
<1>3. t.pos[b][i].qty = s.pos[b][i].qty + d
  BY DEF Traded
<1>4. \A c \in Book, j \in Instrument :
        c # b \/ j # i => t.pos[c][j].qty = s.pos[c][j].qty
  BY <1>1 DEF Traded
<1>5. t.books = Book /\ s.books = Book /\ t.marks = s.marks
  BY DEF Traded, Sound
<1> DEFINE f(c) == [j \in Instrument |-> Magnitude(s.pos[c][j].qty) * s.marks[j]]
           g(c) == [j \in Instrument |-> Magnitude(t.pos[c][j].qty) * s.marks[j]]
<1>6. \A c \in Book : BookNotional(s, c) = SumOver(Instrument, f(c)) /\ BookNotional(t, c) = SumOver(Instrument, g(c))
  BY <1>5 DEF BookNotional
<1>7. \A c \in Book \ {b} : BookNotional(t, c) = BookNotional(s, c)
  <2> TAKE c \in Book \ {b}
  <2>1. f(c) = g(c)
    BY <1>4
  <2> QED
    BY <1>6, <2>1
<1>8. BookNotional(t, b) = BookNotional(s, b) + rise
  <2> DEFINE F == f(b)
             G == g(b)
  <2>1. \A j \in Instrument : F[j] \in Int
    <3> TAKE j \in Instrument
    <3>1. \A x, y \in Int : Magnitude(x) * y \in Int
      BY DEF Magnitude
    <3> QED
      BY <1>1, <3>1
  <2>2. \A j \in Instrument \ {i} : G[j] = F[j]
    BY <1>4
  <2>3. G[i] = F[i] + rise
    <3>1. G[i] = Magnitude(s.pos[b][i].qty + d) * s.marks[i] /\ F[i] = Magnitude(s.pos[b][i].qty) * s.marks[i]
      BY <1>3
    <3> QED
      BY <1>1, <3>1, RiseFacts
  <2>4. BookNotional(s, b) = SumOver(Instrument, F) /\ BookNotional(t, b) = SumOver(Instrument, G)
    BY <1>6
  <2>5. IsFiniteSet(Instrument)
    BY FoldAssumption DEF FoldAssumption
  <2> HIDE DEF F, G, rise
  <2>6. SumOver(Instrument, G) = SumOver(Instrument, F) + rise
    BY <1>2, <2>1, <2>2, <2>3, <2>5, SumMoves
  <2> QED
    BY <2>4, <2>6
<1>9. DeskGrossNotional(t) = DeskGrossNotional(s) + rise
  <2> DEFINE F == [c \in Book |-> BookNotional(s, c)]
             G == [c \in Book |-> BookNotional(t, c)]
  <2>1. DeskGrossNotional(s) = SumOver(Book, F) /\ DeskGrossNotional(t) = SumOver(Book, G)
    BY <1>5 DEF DeskGrossNotional
  <2>2. \A c \in Book : F[c] \in Int
    BY BookNotionalInt
  <2> HIDE DEF rise
  <2>3. G[b] = F[b] + rise /\ \A c \in Book \ {b} : G[c] = F[c]
    BY <1>7, <1>8
  <2>4. IsFiniteSet(Book)
    BY FoldAssumption DEF FoldAssumption
  <2> HIDE DEF F, G
  <2>5. SumOver(Book, G) = SumOver(Book, F) + rise
    BY <1>2, <2>2, <2>3, <2>4, SumMoves
  <2> QED
    BY <2>1, <2>5
<1> QED
  BY <1>3, <1>7, <1>8, <1>9

LEMMA ExposureStays ==
  ASSUME NEW s, Sound(s), NEW t, Sound(t), SameHoldings(s, t), SameTerms(s, t)
  PROVE  /\ \A b \in Book : BookNotional(t, b) = BookNotional(s, b)
         /\ DeskGrossNotional(t) = DeskGrossNotional(s)
<1>1. ASSUME NEW b \in Book PROVE BookNotional(t, b) = BookNotional(s, b)
  BY DEF SameHoldings, SameTerms, BookNotional
<1>2. s.books = Book /\ t.books = Book
  BY DEF Sound
<1> QED
  BY <1>1, <1>2 DEF DeskGrossNotional

-----------------------------------------------------------------------------
(* The inductive invariant *)

Memory == [position : [Instrument -> Int], last : [Instrument -> {-1, 1}]]

BusTyped ==
  /\ Sound(state)
  /\ memory \in [Book -> Memory]
  /\ atStart \in [Book -> [Instrument -> Int]]
  /\ queue \in Seq(Message) /\ Len(queue) <= MaxQueue
  /\ event \in Message \cup {NoEvent}
  /\ stage \in 0..(Len(Strategies) + 2)

\* The queue holds one input that was just published, or the fills of the orders
\* that the event in hand has led to so far: of a mark, one of each strategy it has
\* been with.
QueueOfFills ==
  /\ \A n \in DOMAIN queue : queue[n] \in FillMessages
  /\ Len(queue) <= MostAtOnce
  /\ event.type = "MARK_UPDATE" => Len(queue) <= Higher(0, stage - 2)
QueueInv == (event = NoEvent /\ Len(queue) <= 1) \/ QueueOfFills

\* What separates a strategy's count from its book is the fill in hand, after the
\* recorder and before the strategy has seen it.
Pending(k, i) ==
  IF stage \in 1..(k + 1) THEN Moved(event, Strategies[k], i) ELSE 0
Tracks(k, i) ==
  LET b == Strategies[k]
  IN  state.pos[b][i].qty - atStart[b][i] = memory[b].position[i] + Pending(k, i)
TrackInv == \A k \in DOMAIN Strategies, i \in Instrument : Tracks(k, i)

PipeInv == BusTyped /\ QueueInv /\ TrackInv

-----------------------------------------------------------------------------
\* A book's strategy, and how many there are.
LEMMA StrategyFacts ==
  /\ Len(Strategies) \in Nat /\ DOMAIN Strategies = 1..Len(Strategies)
  /\ \A k \in DOMAIN Strategies : Strategies[k] \in Book
  /\ MostAtOnce \in Nat /\ MostAtOnce >= 1 /\ MostAtOnce >= Len(Strategies)
BY PipelineAssumption DEF PipelineAssumption, MostAtOnce, Higher

\* One message more at the end of the queue.
LEMMA Published ==
  ASSUME queue \in Seq(Message), Len(queue) <= MaxQueue, NEW e \in Message
  PROVE  /\ Publish(queue, e) \in Seq(Message) /\ Len(Publish(queue, e)) <= MaxQueue
         /\ Len(Publish(queue, e)) <= Len(queue) + 1
         /\ \A n \in DOMAIN Publish(queue, e) :
              Publish(queue, e)[n] = e \/ (n \in DOMAIN queue /\ Publish(queue, e)[n] = queue[n])
<1>1. CASE Len(queue) < MaxQueue
  <2>1. Publish(queue, e) = Append(queue, e)
    BY <1>1 DEF Publish
  <2>2. Append(queue, e) \in Seq(Message) /\ Len(Append(queue, e)) = Len(queue) + 1
    OBVIOUS
  <2>3. \A n \in DOMAIN Append(queue, e) :
          Append(queue, e)[n] = e \/ (n \in DOMAIN queue /\ Append(queue, e)[n] = queue[n])
    <3>1. /\ \A n \in 1..Len(queue) : Append(queue, e)[n] = queue[n]
          /\ Append(queue, e)[Len(queue) + 1] = e
      OBVIOUS
    <3>2. /\ DOMAIN Append(queue, e) = 1..(Len(queue) + 1)
          /\ DOMAIN queue = 1..Len(queue) /\ Len(queue) \in Nat
      BY <2>2, LenProperties
    <3> DEFINE longer == Append(queue, e)
    <3> HIDE DEF longer
    <3>3. \A n \in DOMAIN longer : n \in 1..Len(queue) \/ n = Len(queue) + 1
      BY <3>2 DEF longer
    <3>4. \A n \in 1..Len(queue) : longer[n] = queue[n] /\ n \in DOMAIN queue
      BY <3>1, <3>2 DEF longer
    <3>5. longer[Len(queue) + 1] = e
      BY <3>1 DEF longer
    <3>6. \A n \in DOMAIN longer : longer[n] = e \/ (n \in DOMAIN queue /\ longer[n] = queue[n])
      <4> TAKE n \in DOMAIN longer
      <4>1. CASE n \in 1..Len(queue)
        BY <4>1, <3>4
      <4>2. CASE n = Len(queue) + 1
        <5>1. longer[n] = e
          BY <4>2, <3>5, Zenon
        <5> QED
          BY <5>1, Zenon
      <4> QED
        BY <4>1, <4>2, <3>3
    <3> QED
      BY <3>6 DEF longer
  <2> QED
    BY <1>1, <2>1, <2>2, <2>3, PipelineAssumption DEF PipelineAssumption
<1>2. CASE ~ Len(queue) < MaxQueue
  <2>1. Publish(queue, e) = queue /\ Len(queue) \in Nat
    BY <1>2 DEF Publish
  <2> QED
    BY <2>1
<1> QED
  BY <1>1, <1>2

\* The gateway records two events that move nothing, and publishes one fill at most.
LEMMA PlaceKeeps ==
  ASSUME BusTyped, NEW b \in Book, NEW i \in Instrument, NEW d \in Int, Place(b, i, d)
  PROVE  /\ Sound(state') /\ SameHoldings(state, state')
         /\ queue' \in Seq(Message) /\ Len(queue') <= MaxQueue
         /\ Len(queue') <= Len(queue) + 1
         /\ \A n \in DOMAIN queue' :
              queue'[n] \in FillMessages \/ (n \in DOMAIN queue /\ queue'[n] = queue[n])
<1> DEFINE requested == StoreRecord(state, Audit)
           fill == Fill(b, i, d, state.marks[i])
<1>1. Sound(requested) /\ SameHoldings(state, requested)
  BY AuditFolds DEF BusTyped
<1>2. state' = StoreRecord(requested, Audit)
  BY DEF Place
<1> HIDE DEF requested
<1>3. Sound(StoreRecord(requested, Audit)) /\ SameHoldings(requested, StoreRecord(requested, Audit))
  BY <1>1, AuditFolds
<1>4. Sound(state') /\ SameHoldings(state, state')
  BY <1>1, <1>2, <1>3 DEF SameHoldings
<1>5. fill \in FillMessages /\ fill \in Message
  BY HeldIsInt DEF BusTyped, Fill, FillMessages, Message
<1>6. queue' = queue \/ queue' = Publish(queue, fill)
  BY DEF Place, EmitFill
<1> HIDE DEF fill
<1>7. queue \in Seq(Message) /\ Len(queue) <= MaxQueue /\ Len(queue) \in Nat
  BY DEF BusTyped
<1>8. CASE queue' = queue
  BY <1>4, <1>7, <1>8
<1>9. CASE queue' = Publish(queue, fill)
  BY <1>4, <1>5, <1>7, <1>9, Published
<1> QED
  BY <1>6, <1>8, <1>9

-----------------------------------------------------------------------------
(* The steps *)

\* Inputs come to an empty queue, and move no position.
LEMMA InputsKeep ==
  ASSUME PipeInv, MarketData \/ ManualOrder \/ FeedGoesStale
  PROVE  PipeInv'
<1> USE DEF PipeInv
<1>1. /\ event' = event /\ stage' = stage /\ memory' = memory /\ atStart' = atStart
      /\ event = NoEvent /\ queue = <<>> /\ Len(queue) = 0
  BY DEF MarketData, ManualOrder, FeedGoesStale, MayArrive, Idle
<1>2. Sound(state') /\ SameHoldings(state, state') /\ queue' \in Seq(Message)
      /\ Len(queue') <= MaxQueue /\ Len(queue') <= 1
  <2>1. CASE MarketData
    <3>1. PICK e \in Message : queue' = Publish(queue, e)
      <4>1. 1 \in Int
        OBVIOUS
      <4>2. PICK i \in Instrument :
              \/ \E p \in Price : queue' = Publish(queue, MarkUpdate(i, p))
              \/ queue' = Publish(queue, FundingUpdate(i, 1))
        BY <2>1 DEF MarketData
      <4>3. FundingUpdate(i, 1) \in Message /\ \A p \in Price : MarkUpdate(i, p) \in Message
        BY <4>1 DEF FundingUpdate, MarkUpdate, Message, MarkMessages, FundingMessages
      <4> QED
        BY <4>2, <4>3
    <3>2. state' = state
      BY <2>1 DEF MarketData
    <3> QED
      BY <3>1, <3>2, <1>1, Published DEF BusTyped, SameHoldings
  <2>2. CASE ManualOrder
    <3>1. PICK b \in Book, i \in Instrument, d \in Int : Place(b, i, d)
      BY <2>2, PipelineAssumption DEF ManualOrder, PipelineAssumption
    <3> QED
      BY <3>1, <1>1, PlaceKeeps
  <2>3. CASE FeedGoesStale
    <3>1. state' = StoreRecord(state, KillSwitch(Desk, TRUE)) /\ queue' = queue
      BY <2>3 DEF FeedGoesStale
    <3>2. Sound(state') /\ SameHoldings(state, state')
      BY <3>1, SwitchFolds DEF BusTyped
    <3>3. queue \in Seq(Message) /\ Len(queue) <= MaxQueue
      BY DEF BusTyped
    <3>4. Len(queue') = 0
      BY <3>1, <1>1, Zenon
    <3>5. queue' \in Seq(Message) /\ Len(queue') <= MaxQueue
      BY <3>1, <3>3, Zenon
    <3> QED
      BY <3>2, <3>4, <3>5
  <2> QED
    BY <2>1, <2>2, <2>3
<1>3. BusTyped'
  BY <1>1, <1>2 DEF BusTyped
<1>4. QueueInv'
  BY <1>1, <1>2 DEF QueueInv
<1>5. TrackInv'
  BY <1>1, <1>2, StrategyFacts DEF TrackInv, Tracks, Pending, SameHoldings
<1> QED
  BY <1>3, <1>4, <1>5

\* The head of the queue is taken in hand.
LEMMA DeliverKeeps ==
  ASSUME PipeInv, Deliver
  PROVE  PipeInv'
<1> USE DEF PipeInv
<1>1. /\ event = NoEvent /\ queue # <<>>
      /\ event' = Head(queue) /\ queue' = Tail(queue) /\ stage' = 0
      /\ state' = state /\ memory' = memory /\ atStart' = atStart
  BY DEF Deliver
<1>2. queue \in Seq(Message) /\ Len(queue) <= MaxQueue
  BY DEF BusTyped
<1>3. /\ Len(queue) \in Nat /\ Len(queue) >= 1 /\ DOMAIN queue = 1..Len(queue)
      /\ Head(queue) = queue[1] /\ Head(queue) \in Message
  BY <1>1, <1>2
<1>4. /\ Tail(queue) \in Seq(Message) /\ Len(Tail(queue)) = Len(queue) - 1
      /\ \A n \in 1..(Len(queue) - 1) : Tail(queue)[n] = queue[n + 1]
      /\ DOMAIN Tail(queue) = 1..(Len(queue) - 1)
  BY <1>1, <1>2, HeadTailProperties
<1>5. BusTyped'
  <2>1. queue' \in Seq(Message) /\ Len(queue') <= MaxQueue /\ event' \in Message
    BY <1>1, <1>2, <1>3, <1>4, PipelineAssumption DEF PipelineAssumption
  <2>2. stage' \in 0..(Len(Strategies) + 2)
    BY <1>1, StrategyFacts
  <2> QED
    BY <1>1, <2>1, <2>2 DEF BusTyped
<1>6. QueueInv'
  <2>1. CASE Len(queue) <= 1
    <3>1. Len(queue') = 0 /\ DOMAIN queue' = {}
      BY <1>1, <1>3, <1>4, <2>1
    <3>2. Len(queue') <= MostAtOnce
      BY <3>1, StrategyFacts
    <3>3. Len(queue') <= Higher(0, stage' - 2)
      <4>1. stage' = 0
        BY <1>1
      <4> QED
        BY <3>1, <4>1 DEF Higher
    <3> QED
      BY <3>1, <3>2, <3>3 DEF QueueInv, QueueOfFills, MostAtOnce
  <2>2. CASE QueueOfFills
    <3>1. \A n \in DOMAIN queue' : queue'[n] \in FillMessages
      BY <1>1, <1>3, <1>4, <2>2 DEF QueueOfFills
    <3>2. event'.type = "FILL"
      BY <1>1, <1>3, <2>2 DEF QueueOfFills, FillMessages
    <3>3. Len(queue') <= MostAtOnce
      BY <1>1, <1>3, <1>4, <2>2, StrategyFacts DEF QueueOfFills
    <3> QED
      BY <3>1, <3>2, <3>3 DEF QueueInv, QueueOfFills, MostAtOnce
  <2> QED
    BY <2>1, <2>2 DEF QueueInv
<1>7. TrackInv'
  <2>1. \A k, i : Pending(k, i) = 0
    BY <1>1 DEF Pending, Moved, NoEvent
  <2>2. \A k, i : Pending(k, i)' = 0
    BY <1>1 DEF Pending
  <2> QED
    BY <1>1, <2>1, <2>2 DEF TrackInv, Tracks
<1> QED
  BY <1>5, <1>6, <1>7

\* The recorder folds the event in hand: from now until its strategy has seen it,
\* a fill is pending.
LEMMA RecorderKeeps ==
  ASSUME PipeInv, RunRecorder
  PROVE  PipeInv'
<1> USE DEF PipeInv
<1>1. /\ event # NoEvent /\ stage = 0 /\ stage' = 1 /\ state' = StoreRecord(state, event)
      /\ queue' = queue /\ event' = event /\ memory' = memory /\ atStart' = atStart
  BY DEF RunRecorder
<1>2. /\ Sound(state')
      /\ \A b \in Book, i \in Instrument :
           /\ state.pos[b][i].qty \in Int
           /\ state'.pos[b][i].qty = state.pos[b][i].qty + Moved(event, b, i)
  BY <1>1, MessageFolds DEF BusTyped
<1>3. BusTyped'
  BY <1>1, <1>2, StrategyFacts DEF BusTyped
<1>4. QueueInv'
  BY <1>1 DEF QueueInv, QueueOfFills, Higher
<1>5. TrackInv'
  <2> SUFFICES ASSUME NEW k \in DOMAIN Strategies, NEW i \in Instrument
               PROVE  Tracks(k, i)'
    BY DEF TrackInv
  <2> DEFINE b == Strategies[k]
  <2>1. b \in Book /\ k \in Nat /\ k >= 1
    BY StrategyFacts
  <2>2. Pending(k, i) = 0 /\ Pending(k, i)' = Moved(event, b, i)
    BY <1>1, <2>1 DEF Pending
  <2>3. state.pos[b][i].qty - atStart[b][i] = memory[b].position[i] + 0
    BY <2>2 DEF TrackInv, Tracks
  <2>4. /\ atStart[b][i] \in Int /\ memory[b].position[i] \in Int
        /\ Moved(event, b, i) \in Int
    BY <1>1, <2>1 DEF BusTyped, Memory, Moved, Message, FillMessages, MarkMessages, FundingMessages
  <2>5. state'.pos[b][i].qty - atStart[b][i] = memory[b].position[i] + Moved(event, b, i)
    BY <1>2, <2>1, <2>3, <2>4
  <2> QED
    BY <1>1, <2>2, <2>5 DEF Tracks
<1> QED
  BY <1>3, <1>4, <1>5

\* The monitor, and the end of a delivery.
LEMMA MonitorKeeps ==
  ASSUME PipeInv, RunMonitor \/ Delivered
  PROVE  PipeInv'
<1> USE DEF PipeInv
<1>1. queue' = queue /\ memory' = memory /\ atStart' = atStart /\ event # NoEvent
  BY DEF RunMonitor, Delivered
<1>2. \/ stage = 1 /\ stage' = 2 /\ event' = event
      \/ stage = Len(Strategies) + 2 /\ stage' = 0 /\ event' = NoEvent
  <2>1. Len(Strategies) \in Nat /\ stage \in Int
    BY StrategyFacts DEF BusTyped
  <2>2. CASE RunMonitor
    BY <2>2 DEF RunMonitor
  <2>3. CASE Delivered
    BY <2>1, <2>3 DEF Delivered
  <2> QED
    BY <2>2, <2>3
<1>3. Sound(state') /\ SameHoldings(state, state')
  <2>1. CASE state' = state
    BY <2>1 DEF BusTyped, SameHoldings
  <2>2. CASE state' = StoreRecord(state, KillSwitch(Desk, FALSE))
    BY <2>2, SwitchFolds DEF BusTyped
  <2> QED
    BY <2>1, <2>2 DEF RunMonitor, Delivered
<1>4. BusTyped'
  BY <1>1, <1>2, <1>3, StrategyFacts DEF BusTyped
<1>5. QueueInv'
  BY <1>1, <1>2, StrategyFacts DEF QueueInv, QueueOfFills, Higher, NoEvent
<1>6. \A k \in DOMAIN Strategies, i \in Instrument : Pending(k, i)' = Pending(k, i)
  BY <1>2, StrategyFacts DEF Pending, Moved, NoEvent
<1>7. TrackInv'
  BY <1>1, <1>3, <1>6, StrategyFacts DEF TrackInv, Tracks, SameHoldings
<1> QED
  BY <1>4, <1>5, <1>7

\* A strategy's turn: it ignores the event, takes note of its own book's fill, or
\* places an order on a mark.
LEMMA TurnFacts ==
  ASSUME BusTyped, NEW b \in Book, Turn(b)
  PROVE  /\ stage - 1 \in DOMAIN Strategies /\ b = Strategies[stage - 1]
         /\ stage \in 2..(Len(Strategies) + 1) /\ stage' = stage + 1
         /\ stage' \in 0..(Len(Strategies) + 2)
         /\ event' = event /\ event \in Message /\ atStart' = atStart
BY StrategyFacts DEF Turn, BusTyped

\* Once a strategy has had its turn, nothing is pending for it; for the others
\* nothing changes.
LEMMA PendingAfterTurn ==
  ASSUME BusTyped, NEW b \in Book, Turn(b), NEW k \in DOMAIN Strategies, NEW i \in Instrument
  PROVE  /\ Strategies[k] = b => Pending(k, i)' = 0 /\ Pending(k, i) = Moved(event, b, i)
         /\ Strategies[k] # b => Pending(k, i)' = Pending(k, i)
<1>1. /\ stage - 1 \in DOMAIN Strategies /\ b = Strategies[stage - 1]
      /\ stage' = stage + 1 /\ event' = event /\ stage \in Int /\ stage >= 2
      /\ k \in Int /\ k >= 1
  BY TurnFacts, StrategyFacts
<1>2. Strategies[k] = b => k = stage - 1
  BY <1>1, PipelineAssumption DEF PipelineAssumption
<1>3. Strategies[k] # b => k # stage - 1
  BY <1>1
<1>4. stage' \in 1..(k + 1) <=> stage \in 1..(k + 1) /\ k # stage - 1
  BY <1>1
<1>5. k = stage - 1 => stage \in 1..(k + 1)
  BY <1>1
<1> QED
  BY <1>1, <1>2, <1>3, <1>4, <1>5 DEF Pending

LEMMA IgnoreKeeps ==
  ASSUME PipeInv, NEW b \in Book, StrategyIgnores(b)
  PROVE  PipeInv'
<1> USE DEF PipeInv
<1>1. Turn(b) /\ state' = state /\ queue' = queue /\ memory' = memory
  BY DEF StrategyIgnores
<1>2. BusTyped'
  BY <1>1, TurnFacts DEF BusTyped
<1>3. QueueInv'
  <2>1. event # NoEvent
    BY <1>1 DEF Turn
  <2>2. stage \in Int /\ stage' = stage + 1 /\ event' = event
    BY <1>1, TurnFacts
  <2>3. Len(queue) \in Nat
    BY DEF BusTyped
  <2> QED
    BY <1>1, <2>1, <2>2, <2>3 DEF QueueInv, QueueOfFills, Higher, MostAtOnce
<1>4. TrackInv'
  <2> SUFFICES ASSUME NEW k \in DOMAIN Strategies, NEW i \in Instrument
               PROVE  Tracks(k, i)'
    BY DEF TrackInv
  <2>1. Moved(event, b, i) = 0
    BY DEF StrategyIgnores, BelongsToOtherBook, Moved
  <2>2. Pending(k, i)' = Pending(k, i)
    BY <1>1, <2>1, PendingAfterTurn
  <2>3. Tracks(k, i) /\ atStart' = atStart
    BY <1>1, TurnFacts DEF TrackInv
  <2> QED
    BY <1>1, <2>2, <2>3 DEF Tracks
<1> QED
  BY <1>2, <1>3, <1>4

LEMMA FillKeeps ==
  ASSUME PipeInv, NEW b \in Book, StrategyFill(b)
  PROVE  PipeInv'
<1> USE DEF PipeInv
<1>1. Turn(b) /\ event.type = "FILL" /\ event.scope = b /\ state' = state /\ queue' = queue
  BY DEF StrategyFill, BelongsToOtherBook
<1>2. event \in FillMessages /\ event.instrument \in Instrument /\ event.delta \in Int
  <2>1. event \in FillMessages
    BY <1>1, TurnFacts DEF Message, FillMessages, MarkMessages, FundingMessages
  <2> QED
    BY <2>1 DEF FillMessages
<1>3. /\ memory \in [Book -> Memory]
      /\ memory' = [memory EXCEPT ![b].position[event.instrument] = @ + event.delta]
  BY DEF BusTyped, StrategyFill
<1>4. /\ memory' \in [Book -> Memory]
      /\ \A c \in Book, i \in Instrument :
           /\ memory[c].position[i] \in Int
           /\ memory'[c].position[i]
                = IF c = b /\ i = event.instrument THEN memory[c].position[i] + event.delta
                  ELSE memory[c].position[i]
  BY <1>2, <1>3 DEF Memory
<1>5. BusTyped'
  BY <1>1, <1>4, TurnFacts DEF BusTyped
<1>6. QueueInv'
  <2>1. event # NoEvent /\ event' = event
    BY <1>1 DEF Turn
  <2> QED
    BY <1>1, <2>1 DEF QueueInv, QueueOfFills, MostAtOnce
<1>7. TrackInv'
  <2> SUFFICES ASSUME NEW k \in DOMAIN Strategies, NEW i \in Instrument
               PROVE  Tracks(k, i)'
    BY DEF TrackInv
  <2> DEFINE c == Strategies[k]
  <2>1. c \in Book /\ Tracks(k, i) /\ atStart' = atStart
    BY <1>1, StrategyFacts, TurnFacts DEF TrackInv
  <2>2. CASE c = b
    <3>1. Pending(k, i)' = 0 /\ Pending(k, i) = Moved(event, b, i)
      BY <1>1, <2>2, PendingAfterTurn
    <3>2. Moved(event, b, i) = IF i = event.instrument THEN event.delta ELSE 0
      BY <1>1 DEF Moved
    <3>3. memory'[c].position[i] + 0 = memory[c].position[i] + Moved(event, b, i)
      BY <1>2, <1>4, <2>1, <2>2, <3>2
    <3> QED
      BY <1>1, <2>1, <2>2, <3>1, <3>3 DEF Tracks
  <2>3. CASE c # b
    <3>1. Pending(k, i)' = Pending(k, i)
      BY <1>1, <2>3, PendingAfterTurn
    <3>2. memory'[c].position[i] = memory[c].position[i]
      BY <1>4, <2>1, <2>3
    <3> QED
      BY <1>1, <2>1, <3>1, <3>2 DEF Tracks
  <2> QED
    BY <2>2, <2>3
<1> QED
  BY <1>5, <1>6, <1>7

LEMMA MarkKeeps ==
  ASSUME PipeInv, NEW b \in Book, StrategyMark(b)
  PROVE  PipeInv'
<1> USE DEF PipeInv
<1> DEFINE i == event.instrument
           side == NextSide(memory[b], i)
<1>1. /\ Turn(b) /\ event.type = "MARK_UPDATE"
      /\ memory' = [memory EXCEPT ![b].last[i] = side] /\ Place(b, i, side * OrderQty)
  BY DEF StrategyMark
<1>2. i \in Instrument
  <2>1. event \in MarkMessages
    BY <1>1, TurnFacts DEF Message, FillMessages, MarkMessages, FundingMessages
  <2> QED
    BY <2>1 DEF MarkMessages
<1>3. memory \in [Book -> Memory]
  BY DEF BusTyped
<1>4. side \in {-1, 1}
  <2>1. memory[b].last[i] \in {-1, 1}
    BY <1>2, <1>3 DEF Memory
  <2> QED
    BY <2>1 DEF NextSide
<1>5. side * OrderQty \in Int
  BY <1>4, PipelineAssumption DEF PipelineAssumption
<1>6. /\ Sound(state') /\ SameHoldings(state, state')
      /\ queue' \in Seq(Message) /\ Len(queue') <= MaxQueue /\ Len(queue') <= Len(queue) + 1
      /\ \A n \in DOMAIN queue' : queue'[n] \in FillMessages \/ (n \in DOMAIN queue /\ queue'[n] = queue[n])
  BY <1>1, <1>2, <1>5, PlaceKeeps
<1> HIDE DEF side
<1>7. /\ memory' \in [Book -> Memory]
      /\ \A c \in Book, j \in Instrument : memory'[c].position[j] = memory[c].position[j]
  BY <1>1, <1>2, <1>3, <1>4 DEF Memory
<1>8. BusTyped'
  BY <1>1, <1>6, <1>7, TurnFacts DEF BusTyped
<1>9. QueueInv'
  <2>1. event # NoEvent
    BY <1>1 DEF Turn
  <2>2. QueueOfFills
    BY <2>1 DEF QueueInv
  <2>3. stage \in 2..(Len(Strategies) + 1) /\ stage' = stage + 1 /\ Len(queue) \in Nat
        /\ Len(queue') \in Nat /\ Len(Strategies) \in Nat
    BY <1>1, <1>6, TurnFacts, StrategyFacts DEF BusTyped
  <2>4. Len(queue) <= stage - 2
    BY <1>1, <2>2, <2>3 DEF QueueOfFills, Higher
  <2>5. Len(queue') <= Len(queue) + 1
    BY <1>6
  <2>6. Len(queue') <= stage' - 2 /\ Len(queue') <= Len(Strategies)
    BY <2>3, <2>4, <2>5
  <2>7. Len(queue') <= MostAtOnce
    BY <2>3, <2>6, StrategyFacts
  <2>8. Len(queue') <= Higher(0, stage' - 2)
    BY <2>3, <2>6 DEF Higher
  <2>9. \A n \in DOMAIN queue' : queue'[n] \in FillMessages
    BY <1>6, <2>2 DEF QueueOfFills
  <2> QED
    BY <2>7, <2>8, <2>9 DEF QueueInv, QueueOfFills, MostAtOnce
<1>10. TrackInv'
  <2> SUFFICES ASSUME NEW k \in DOMAIN Strategies, NEW j \in Instrument
               PROVE  Tracks(k, j)'
    BY DEF TrackInv
  <2>1. Strategies[k] \in Book /\ Tracks(k, j) /\ atStart' = atStart
    BY <1>1, StrategyFacts, TurnFacts DEF TrackInv
  <2>2. Moved(event, b, j) = 0
    BY <1>1 DEF Moved
  <2>3. Pending(k, j)' = Pending(k, j)
    BY <1>1, <2>2, PendingAfterTurn
  <2> QED
    BY <1>6, <1>7, <2>1, <2>3 DEF Tracks, SameHoldings
<1> QED
  BY <1>8, <1>9, <1>10

\* A kill: the counts start again from the positions there are.
LEMMA KillKeeps ==
  ASSUME PipeInv, KillAndRestart
  PROVE  PipeInv'
<1> USE DEF PipeInv
<1>1. /\ queue' = <<>> /\ event' = NoEvent /\ stage' = 0 /\ state' = state
      /\ memory' = [b \in Book |-> BlankMemory] /\ atStart' = Positions(state)
  BY DEF KillAndRestart
<1>2. BlankMemory \in Memory /\ \A i \in Instrument : BlankMemory.position[i] = 0
  BY DEF BlankMemory, Memory
<1>3. /\ Positions(state) \in [Book -> [Instrument -> Int]]
      /\ \A b \in Book, i \in Instrument :
           /\ state.pos[b][i].qty \in Int /\ Positions(state)[b][i] = state.pos[b][i].qty
  BY HeldIsInt DEF Positions, BusTyped
<1>4. Len(queue') = 0 /\ queue' \in Seq(Message)
  BY <1>1
<1>5. BusTyped'
  <2>1. memory' \in [Book -> Memory] /\ atStart' \in [Book -> [Instrument -> Int]]
    BY <1>1, <1>2, <1>3
  <2>2. Len(queue') <= MaxQueue /\ stage' \in 0..(Len(Strategies) + 2)
    BY <1>1, <1>4, StrategyFacts, PipelineAssumption DEF PipelineAssumption
  <2> QED
    BY <1>1, <1>4, <2>1, <2>2 DEF BusTyped
<1>6. QueueInv'
  BY <1>1, <1>4 DEF QueueInv
<1>7. TrackInv'
  <2> SUFFICES ASSUME NEW k \in DOMAIN Strategies, NEW i \in Instrument
               PROVE  Tracks(k, i)'
    BY DEF TrackInv
  <2>1. Strategies[k] \in Book
    BY StrategyFacts
  <2>2. Pending(k, i)' = 0
    BY <1>1 DEF Pending
  <2>3. memory'[Strategies[k]].position[i] = 0
    BY <1>1, <1>2, <2>1
  <2>4. state'.pos[Strategies[k]][i].qty - atStart'[Strategies[k]][i] = 0
    BY <1>1, <1>3, <2>1
  <2> QED
    BY <2>2, <2>3, <2>4 DEF Tracks
<1> QED
  BY <1>5, <1>6, <1>7

LEMMA PipeInvInit ==
  ASSUME PipeInit
  PROVE  PipeInv
<1>1. PICK marks \in [Instrument -> Price] : state = [Fresh(Book) EXCEPT !.marks = marks]
  BY DEF PipeInit
<1>2. Sound(state) /\ \A b \in Book, i \in Instrument : state.pos[b][i].qty = 0
  <2> DEFINE pos == [b \in Book |-> [i \in Instrument |-> FlatPosition]]
  <2>1. FlatPosition \in Position /\ FlatPosition.qty = 0
    BY DEF FlatPosition, Position
  <2>2. /\ pos \in [Book -> [Instrument -> Position]]
        /\ \A b \in Book, i \in Instrument : pos[b][i].qty = 0
    BY <2>1
  <2> HIDE DEF pos
  <2>3. state = [lastSeq |-> 0, books |-> Book, marks |-> marks, pos |-> pos,
                 hwm |-> [x \in Scope |-> 0], limit |-> [x \in Scope |-> SeedLimit],
                 kill |-> [x \in Scope |-> FALSE]]
    BY <1>1 DEF Fresh, pos
  <2>4. state.books = Book /\ state.marks = marks /\ state.pos = pos
    BY <2>3
  <2>5. marks \in [Instrument -> Int] /\ SeedLimit \in Int
    BY <1>1, PipelineAssumption, FoldAssumption DEF PipelineAssumption, FoldAssumption
  <2>6. state \in RiskState
    BY <2>2, <2>3, <2>5 DEF RiskState
  <2> QED
    BY <1>1, <2>2, <2>4, <2>6 DEF Sound
<1>3. /\ queue = <<>> /\ event = NoEvent /\ stage = 0
      /\ memory = [b \in Book |-> BlankMemory] /\ atStart = Positions(state)
  BY DEF PipeInit
<1>4. BlankMemory \in Memory /\ \A i \in Instrument : BlankMemory.position[i] = 0
  BY DEF BlankMemory, Memory
<1>5. /\ Positions(state) \in [Book -> [Instrument -> Int]]
      /\ \A b \in Book, i \in Instrument : Positions(state)[b][i] = 0
  BY <1>2 DEF Positions
<1>6. Len(queue) = 0 /\ queue \in Seq(Message)
  BY <1>3
<1>7. BusTyped
  <2>1. memory \in [Book -> Memory] /\ atStart \in [Book -> [Instrument -> Int]]
    BY <1>3, <1>4, <1>5
  <2>2. Len(queue) <= MaxQueue /\ stage \in 0..(Len(Strategies) + 2)
    BY <1>3, <1>6, StrategyFacts, PipelineAssumption DEF PipelineAssumption
  <2> QED
    BY <1>2, <1>3, <1>6, <2>1, <2>2 DEF BusTyped
<1>8. QueueInv
  BY <1>3, <1>6 DEF QueueInv
<1>9. TrackInv
  <2> SUFFICES ASSUME NEW k \in DOMAIN Strategies, NEW i \in Instrument
               PROVE  Tracks(k, i)
    BY DEF TrackInv
  <2>1. Strategies[k] \in Book
    BY StrategyFacts
  <2>2. Pending(k, i) = 0 /\ memory[Strategies[k]].position[i] = 0
    BY <1>3, <1>4, <2>1 DEF Pending
  <2>3. state.pos[Strategies[k]][i].qty - atStart[Strategies[k]][i] = 0
    BY <1>2, <1>3, <1>5, <2>1
  <2> QED
    BY <2>2, <2>3 DEF Tracks
<1> QED
  BY <1>7, <1>8, <1>9 DEF PipeInv

LEMMA PipeInvNext ==
  ASSUME PipeInv, [PipeNext]_pipeVars
  PROVE  PipeInv'
<1>1. CASE MarketData \/ ManualOrder \/ FeedGoesStale
  BY <1>1, InputsKeep
<1>2. CASE Deliver
  BY <1>2, DeliverKeeps
<1>3. CASE RunRecorder
  BY <1>3, RecorderKeeps
<1>4. CASE RunMonitor \/ Delivered
  BY <1>4, MonitorKeeps
<1>5. CASE \E b \in Book : StrategyFill(b) \/ StrategyMark(b) \/ StrategyIgnores(b)
  BY <1>5, FillKeeps, MarkKeeps, IgnoreKeeps
<1>6. CASE KillAndRestart
  BY <1>6, KillKeeps
<1>7. CASE UNCHANGED pipeVars
  BY <1>7 DEF pipeVars, PipeInv, BusTyped, QueueInv, QueueOfFills, TrackInv, Tracks, Pending
<1> QED
  BY <1>1, <1>2, <1>3, <1>4, <1>5, <1>6, <1>7 DEF PipeNext

-----------------------------------------------------------------------------
(* Fills on their way: the invariant behind the limits *)

\* What folding a fill will add to the notional of its book, and of the desk.
Rise(s, f) == Rises(s.pos[f.scope][f.instrument].qty, f.delta, s.marks[f.instrument])

\* The fill f may be folded: its book will be within its limits, and the desk but for
\* an order of each of so many other strategies.
Admitted(s, f, others) ==
  /\ Magnitude(s.pos[f.scope][f.instrument].qty + f.delta) <= PositionLimit
  /\ BookNotional(s, f.scope) + Rise(s, f) <= s.limit[f.scope]
  /\ DeskGrossNotional(s) + Rise(s, f)
       <= s.limit[Desk] + others * OrderQty * Magnitude(s.marks[f.instrument])

\* Fills of the orders that different strategies placed on one mark.
Apart(e, f) ==
  /\ e.scope # f.scope /\ e.instrument = f.instrument
  /\ Magnitude(e.delta) = OrderQty /\ Magnitude(f.delta) = OrderQty

\* A fill in hand that is not folded yet.
InHand == event.type = "FILL" /\ stage = 0
Ahead == IF InHand THEN 1 ELSE 0

HandInv == InHand => Admitted(state, event, MostAtOnce - 1)
\* The n-th fill is behind at least as many as the queue is short of it.
FillsInv ==
  \A n \in DOMAIN queue : queue[n].type = "FILL" =>
    /\ Admitted(state, queue[n], MostAtOnce - n - Ahead)
    /\ InHand => Apart(event, queue[n])
    /\ \A m \in 1..(n - 1) : Apart(queue[m], queue[n])
\* While a mark is in hand: fills of the strategies it has been with.
MarkInv ==
  event.type = "MARK_UPDATE" =>
    \A n \in DOMAIN queue :
      /\ queue[n].instrument = event.instrument /\ Magnitude(queue[n].delta) = OrderQty
      /\ \E k \in DOMAIN Strategies : k <= stage - 2 /\ queue[n].scope = Strategies[k]
LimitInv == HandInv /\ FillsInv /\ MarkInv

\* Nothing but fills and marks changes what a fill was admitted on.
LEMMA AdmittedStays ==
  ASSUME NEW s, Sound(s), NEW t, Sound(t), SameHoldings(s, t), SameTerms(s, t),
         NEW f \in FillMessages, NEW n \in Int, Admitted(s, f, n)
  PROVE  Admitted(t, f, n)
<1>1. f.scope \in Book /\ f.instrument \in Instrument
  BY DEF FillMessages
<1>2. BookNotional(t, f.scope) = BookNotional(s, f.scope) /\ DeskGrossNotional(t) = DeskGrossNotional(s)
  BY <1>1, ExposureStays
<1>3. /\ t.pos[f.scope][f.instrument].qty = s.pos[f.scope][f.instrument].qty
      /\ t.marks = s.marks /\ t.limit = s.limit
  BY <1>1 DEF SameHoldings, SameTerms
<1> QED
  BY <1>2, <1>3 DEF Admitted, Rise

\* Room for more is room enough.
LEMMA AdmittedWeaker ==
  ASSUME NEW s, Sound(s), NEW f \in FillMessages, NEW m \in Int, NEW n \in Int, m <= n,
         Admitted(s, f, m)
  PROVE  Admitted(s, f, n)
<1>1. f.scope \in Book /\ f.instrument \in Instrument /\ f.delta \in Int
  BY DEF FillMessages
<1>2. /\ s.pos[f.scope][f.instrument].qty \in Int /\ s.marks[f.instrument] \in Int
      /\ s.limit[Desk] \in Int
  BY <1>1, HeldIsInt
<1>3. Rise(s, f) \in Int /\ Magnitude(s.marks[f.instrument]) \in Nat
  BY <1>1, <1>2, RiseFacts DEF Rise
<1>4. OrderQty \in Nat
  BY PipelineAssumption DEF PipelineAssumption
<1> DEFINE v == Magnitude(s.marks[f.instrument])
<1>5. m * OrderQty * v <= n * OrderQty * v /\ m * OrderQty * v \in Int /\ n * OrderQty * v \in Int
  <2> HIDE DEF v
  <2>1. OrderQty * v \in Nat /\ n - m \in Nat /\ v \in Nat
    BY <1>3, <1>4 DEF v
  <2>2. \A x, y \in Nat : x * y >= 0
    OBVIOUS
  <2>3. (n - m) * (OrderQty * v) >= 0
    BY <2>1, <2>2
  <2>4. (n - m) * (OrderQty * v) = n * OrderQty * v - m * OrderQty * v
    BY <2>1, <1>4
  <2>5. m * OrderQty * v \in Int /\ n * OrderQty * v \in Int
    BY <2>1, <1>4
  <2> QED
    BY <2>3, <2>4, <2>5
<1>6. DeskGrossNotional(s) \in Int
  BY DeskNotionalInt
<1>7. DeskGrossNotional(s) + Rise(s, f) <= s.limit[Desk] + m * OrderQty * v
  BY DEF Admitted
<1> DEFINE lo == m * OrderQty * v
           hi == n * OrderQty * v
<1>8. DeskGrossNotional(s) + Rise(s, f) <= s.limit[Desk] + hi
  <2>1. lo <= hi /\ lo \in Int /\ hi \in Int /\ DeskGrossNotional(s) + Rise(s, f) <= s.limit[Desk] + lo
    BY <1>5, <1>7
  <2> HIDE DEF lo, hi
  <2> QED
    BY <1>2, <1>3, <1>6, <2>1
<1> QED
  BY <1>8 DEF Admitted

\* Folding a fill leaves the state as it was, but for its book's position.
LEMMA FillTrades ==
  ASSUME NEW s, Sound(s), NEW f \in FillMessages
  PROVE  /\ Sound(StoreRecord(s, f))
         /\ Traded(s, StoreRecord(s, f), f.scope, f.instrument, f.delta)
         /\ f.scope \in Book /\ f.instrument \in Instrument /\ f.delta \in Int
<1> DEFINE t == StoreRecord(s, f)
<1>1. f \in Message /\ f.type = "FILL" /\ f.scope \in Book /\ f.instrument \in Instrument /\ f.delta \in Int
  BY DEF Message, FillMessages
<1>2. /\ Sound(t) /\ SameTerms(s, t)
      /\ \A b \in Book, i \in Instrument :
           t.pos[b][i].qty = s.pos[b][i].qty + Moved(f, b, i)
  BY <1>1, MessageFolds
<1> HIDE DEF t
<1>3. \A b \in Book, i \in Instrument :
        Moved(f, b, i) = IF b = f.scope /\ i = f.instrument THEN f.delta ELSE 0
  BY <1>1 DEF Moved
<1>4. t.books = s.books
  BY <1>2 DEF Sound
<1> QED
  BY <1>1, <1>2, <1>3, <1>4 DEF Traded, SameTerms, t

\* A fill of another book on the same mark takes the room of one order at the desk.
LEMMA AdmittedAfterOther ==
  ASSUME NEW s, Sound(s), NEW e \in FillMessages, NEW f \in FillMessages, Apart(e, f),
         NEW n \in Int, Admitted(s, f, n)
  PROVE  Admitted(StoreRecord(s, e), f, n + 1)
<1> DEFINE t == StoreRecord(s, e)
           i == f.instrument
           b == f.scope
           v == Magnitude(s.marks[i])
           step == Rises(s.pos[e.scope][i].qty, e.delta, s.marks[i])
<1>1. /\ Sound(t) /\ Traded(s, t, e.scope, i, e.delta)
      /\ e.scope \in Book /\ i \in Instrument /\ e.delta \in Int
      /\ b \in Book /\ b # e.scope
  BY FillTrades DEF Apart, FillMessages
<1>2. s.marks[i] \in Int /\ s.pos[e.scope][i].qty \in Int /\ s.pos[b][i].qty \in Int /\ s.limit[Desk] \in Int
  BY <1>1, HeldIsInt
<1> HIDE DEF t
<1>3. /\ DeskGrossNotional(t) = DeskGrossNotional(s) + step
      /\ BookNotional(t, b) = BookNotional(s, b)
  BY <1>1, ExposureMoves
<1>4. t.pos[b][i].qty = s.pos[b][i].qty /\ t.marks = s.marks /\ t.limit = s.limit
  BY <1>1, <1>2 DEF Traded
<1>5. step \in Int /\ step <= OrderQty * v /\ v \in Nat
  BY <1>1, <1>2, RiseFacts DEF Apart
<1>6. Rise(t, f) = Rise(s, f) /\ Rise(s, f) \in Int
  <2>1. f.delta \in Int
    BY DEF FillMessages
  <2> QED
    BY <1>2, <1>4, <2>1, RiseFacts DEF Rise
<1>7. DeskGrossNotional(t) + Rise(t, f) <= t.limit[Desk] + (n + 1) * OrderQty * v
  <2> DEFINE lo == n * OrderQty * v
             one == OrderQty * v
             hi == (n + 1) * OrderQty * v
  <2>1. OrderQty \in Nat
    BY PipelineAssumption DEF PipelineAssumption
  <2>2. hi = lo + one /\ lo \in Int /\ one \in Int
    <3> HIDE DEF v
    <3> QED
      BY <1>5, <2>1
  <2>3. DeskGrossNotional(s) \in Int
    BY DeskNotionalInt
  <2>4. DeskGrossNotional(s) + Rise(s, f) <= s.limit[Desk] + lo /\ step <= one
    BY <1>5 DEF Admitted
  <2> HIDE DEF lo, one, hi, step
  <2>5. DeskGrossNotional(s) + step + Rise(s, f) <= s.limit[Desk] + hi
    BY <1>2, <1>5, <1>6, <2>2, <2>3, <2>4
  <2>6. DeskGrossNotional(t) + Rise(t, f) <= t.limit[Desk] + hi
    BY <1>3, <1>4, <1>6, <2>5
  <2> QED
    BY <2>6 DEF hi
<1>8. /\ Magnitude(t.pos[b][i].qty + f.delta) <= PositionLimit
      /\ BookNotional(t, b) + Rise(t, f) <= t.limit[b]
  BY <1>3, <1>4, <1>6 DEF Admitted
<1>9. Admitted(t, f, n + 1)
  BY <1>4, <1>7, <1>8 DEF Admitted
<1> QED
  BY <1>9 DEF t

\* An admitted fill leaves its book within its limits.
LEMMA AdmittedFolds ==
  ASSUME NEW s, Sound(s), NEW f \in FillMessages, Admitted(s, f, MostAtOnce - 1)
  PROVE  WithinLimits(StoreRecord(s, f), f.scope, f.instrument)
<1> DEFINE t == StoreRecord(s, f)
<1>1. /\ Sound(t) /\ Traded(s, t, f.scope, f.instrument, f.delta)
      /\ f.scope \in Book /\ f.instrument \in Instrument /\ f.delta \in Int
  BY FillTrades
<1> HIDE DEF t
<1>2. /\ t.pos[f.scope][f.instrument].qty = s.pos[f.scope][f.instrument].qty + f.delta
      /\ BookNotional(t, f.scope) = BookNotional(s, f.scope) + Rise(s, f)
      /\ DeskGrossNotional(t) = DeskGrossNotional(s) + Rise(s, f)
  BY <1>1, ExposureMoves DEF Rise
<1>3. t.marks = s.marks /\ t.limit = s.limit
  BY <1>1 DEF Traded
<1>4. WithinLimits(t, f.scope, f.instrument)
  BY <1>2, <1>3 DEF Admitted, WithinLimits
<1> QED
  BY <1>4 DEF t

\* What default_checks let through is admitted.
LEMMA ApprovedIsAdmitted ==
  ASSUME NEW s, Sound(s), NEW b \in Book, NEW i \in Instrument, NEW d \in Int, NEW p \in Price,
         Approves(s, b, i, d)
  PROVE  Admitted(s, Fill(b, i, d, p), 0)
<1> DEFINE t == Preview(s, b, i, d)
           f == Fill(b, i, d, p)
<1>1. /\ f.scope = b /\ f.instrument = i /\ f.delta = d
  BY DEF Fill
<1>2. Traded(s, t, b, i, d)
  <2>1. s.pos \in [Book -> [Instrument -> Position]] /\ s \in RiskState
    BY DEF Sound, RiskState
  <2>2. /\ t.books = s.books /\ t.marks = s.marks /\ t.limit = s.limit
    BY <2>1 DEF Preview, RiskState
  <2>3. \A c \in Book, j \in Instrument :
          t.pos[c][j].qty = IF c = b /\ j = i THEN s.pos[c][j].qty + d ELSE s.pos[c][j].qty
    BY <2>1 DEF Preview, RiskState, Position
  <2>4. \A c \in Book, j \in Instrument : s.pos[c][j].qty \in Int
    BY HeldIsInt
  <2> HIDE DEF t
  <2> QED
    BY <2>2, <2>3, <2>4 DEF Traded
<1>3. /\ Magnitude(t.pos[b][i].qty) <= PositionLimit
      /\ BookNotional(t, b) <= s.limit[b]
      /\ DeskGrossNotional(t) <= s.limit[Desk]
  BY DEF Approves
<1> HIDE DEF t, f
<1>4. /\ t.pos[b][i].qty = s.pos[b][i].qty + d
      /\ BookNotional(t, b) = BookNotional(s, b) + Rise(s, f)
      /\ DeskGrossNotional(t) = DeskGrossNotional(s) + Rise(s, f)
  BY <1>1, <1>2, ExposureMoves DEF Rise
<1>5. s.limit[Desk] \in Int /\ OrderQty \in Nat /\ Magnitude(s.marks[i]) \in Nat
  <2>1. s.marks[i] \in Int
    BY HeldIsInt
  <2> QED
    BY <2>1, HeldIsInt, PipelineAssumption DEF PipelineAssumption, Magnitude
<1>6. s.limit[Desk] + 0 * OrderQty * Magnitude(s.marks[i]) = s.limit[Desk]
  BY <1>5
<1>7. Admitted(s, f, 0)
  BY <1>1, <1>3, <1>4, <1>6 DEF Admitted
<1> QED
  BY <1>7 DEF f

LEMMA Stays ==
  ASSUME NEW s, Sound(s)
  PROVE  SameHoldings(s, s) /\ SameTerms(s, s)
BY DEF SameHoldings, SameTerms

LEMMA QueueFills ==
  ASSUME BusTyped, NEW n \in DOMAIN queue, queue[n].type = "FILL"
  PROVE  queue[n] \in FillMessages /\ n \in Int
<1>1. queue \in Seq(Message)
  BY DEF BusTyped
<1>2. queue[n] \in Message /\ n \in Int
  BY <1>1
<1> QED
  BY <1>2, MessagesArePayload

\* Steps that leave alone the queue and whatever limits are about.
LEMMA QuietKeepsLimits ==
  ASSUME BusTyped, LimitInv, Sound(state'), SameHoldings(state, state'), SameTerms(state, state'),
         queue' = queue, ~ InHand, ~ InHand',
         event'.type = "MARK_UPDATE" => event' = event /\ stage \in Int /\ stage' \in Int /\ stage <= stage'
  PROVE  LimitInv'
<1>1. HandInv'
  BY DEF HandInv
<1>2. FillsInv'
  <2>1. Ahead = 0 /\ Ahead' = 0
    BY DEF Ahead
  <2>2. ASSUME NEW n \in DOMAIN queue, queue[n].type = "FILL"
        PROVE  Admitted(state', queue[n], MostAtOnce - n - 0)
    <3> DEFINE f == queue[n]
               k == MostAtOnce - n - 0
    <3>1. f \in FillMessages /\ k \in Int
      BY <2>2, QueueFills, StrategyFacts
    <3>2. Admitted(state, f, k)
      BY <2>1, <2>2 DEF LimitInv, FillsInv
    <3>3. Sound(state)
      BY DEF BusTyped
    <3> HIDE DEF f, k
    <3>4. Admitted(state', f, k)
      BY <3>1, <3>2, <3>3, AdmittedStays
    <3> QED
      BY <3>4 DEF f, k
  <2>3. ASSUME NEW n \in DOMAIN queue, queue[n].type = "FILL"
        PROVE  \A m \in 1..(n - 1) : Apart(queue[m], queue[n])
    BY <2>3 DEF LimitInv, FillsInv
  <2> QED
    BY <2>1, <2>2, <2>3 DEF FillsInv
<1>3. MarkInv'
  <2> SUFFICES ASSUME event'.type = "MARK_UPDATE" PROVE MarkInv'
    BY DEF MarkInv
  <2>1. event' = event /\ stage \in Int /\ stage' \in Int /\ stage <= stage'
    OBVIOUS
  <2>2. \A k \in DOMAIN Strategies : k <= stage - 2 => k <= stage' - 2
    BY <2>1, StrategyFacts
  <2> QED
    BY <2>1, <2>2 DEF LimitInv, MarkInv
<1> QED
  BY <1>1, <1>2, <1>3 DEF LimitInv

\* With nothing queued and nothing in hand there is nothing to admit.
LEMMA EmptyKeepsLimits ==
  ASSUME queue' = <<>>, event' = NoEvent
  PROVE  LimitInv'
BY DEF LimitInv, HandInv, FillsInv, MarkInv, InHand, NoEvent

\* OrderGateway.place: a fill that it queues was admitted, in the state it leaves.
LEMMA PlaceAdmits ==
  ASSUME BusTyped, NEW b \in Book, NEW i \in Instrument, NEW d \in Int, Place(b, i, d)
  PROVE  /\ Sound(state') /\ SameHoldings(state, state') /\ SameTerms(state, state')
         /\ \/ queue' = queue
            \/ \E f \in FillMessages :
                 /\ f.scope = b /\ f.instrument = i /\ f.delta = d
                 /\ Admitted(state', f, 0) /\ queue' = Append(queue, f)
<1> DEFINE requested == StoreRecord(state, Audit)
           f == Fill(b, i, d, state.marks[i])
<1>1. Sound(requested) /\ SameHoldings(state, requested) /\ SameTerms(state, requested)
  BY AuditFolds DEF BusTyped
<1>2. /\ state' = StoreRecord(requested, Audit)
      /\ queue' = queue \/ (Approves(requested, b, i, d) /\ queue' = Append(queue, f))
  BY DEF Place, EmitFill, Publish
<1> HIDE DEF requested
<1>3. /\ Sound(StoreRecord(requested, Audit))
      /\ SameHoldings(requested, StoreRecord(requested, Audit))
      /\ SameTerms(requested, StoreRecord(requested, Audit))
  BY <1>1, AuditFolds
<1>4. Sound(state') /\ SameHoldings(requested, state') /\ SameTerms(requested, state')
  BY <1>2, <1>3
<1>5. SameHoldings(state, state') /\ SameTerms(state, state')
  BY <1>1, <1>4 DEF SameHoldings, SameTerms
<1>6. state.marks[i] \in Price
  BY HeldIsInt DEF BusTyped
<1>7. f \in FillMessages /\ f.scope = b /\ f.instrument = i /\ f.delta = d
  BY <1>6 DEF Fill, FillMessages
<1>8. ASSUME Approves(requested, b, i, d) PROVE Admitted(state', f, 0)
  <2>1. Admitted(requested, f, 0)
    BY <1>1, <1>6, <1>8, ApprovedIsAdmitted
  <2> HIDE DEF f
  <2>2. 0 \in Int
    OBVIOUS
  <2> QED
    BY <1>1, <1>4, <1>7, <2>1, <2>2, AdmittedStays
<1> HIDE DEF f
<1> QED
  BY <1>2, <1>4, <1>5, <1>7, <1>8

LEMMA InputsKeepLimits ==
  ASSUME PipeInv, LimitInv, MarketData \/ ManualOrder \/ FeedGoesStale
  PROVE  LimitInv'
<1>1. event' = NoEvent /\ queue = <<>> /\ Len(queue) = 0 /\ BusTyped
  BY DEF PipeInv, MarketData, ManualOrder, FeedGoesStale, MayArrive, Idle
<1>2. CASE FeedGoesStale
  BY <1>1, <1>2, EmptyKeepsLimits DEF FeedGoesStale
<1>3. CASE MarketData
  <2>1. PICK e \in MarkMessages \cup FundingMessages : queue' = Publish(queue, e)
    <3>1. 1 \in Int
      OBVIOUS
    <3>2. PICK i \in Instrument :
            \/ \E p \in Price : queue' = Publish(queue, MarkUpdate(i, p))
            \/ queue' = Publish(queue, FundingUpdate(i, 1))
      BY <1>3 DEF MarketData
    <3>3. FundingUpdate(i, 1) \in FundingMessages /\ \A p \in Price : MarkUpdate(i, p) \in MarkMessages
      BY <3>1 DEF FundingUpdate, MarkUpdate, MarkMessages, FundingMessages
    <3> QED
      BY <3>2, <3>3
  <2>2. e.type # "FILL"
    BY DEF MarkMessages, FundingMessages
  <2>3. \A n \in DOMAIN queue' : queue'[n] = e
    <3>1. e \in Message
      BY DEF Message
    <3>2. queue \in Seq(Message) /\ Len(queue) <= MaxQueue
      BY <1>1 DEF BusTyped
    <3>3. \A n \in DOMAIN Publish(queue, e) : Publish(queue, e)[n] = e \/ n \in DOMAIN queue
      BY <3>1, <3>2, Published
    <3>4. DOMAIN queue = {}
      BY <1>1
    <3> QED
      BY <2>1, <3>3, <3>4
  <2> QED
    BY <1>1, <2>2, <2>3 DEF LimitInv, HandInv, FillsInv, MarkInv, InHand, NoEvent
<1>4. CASE ManualOrder
  <2>1. PICK b \in Book, i \in Instrument, d \in Int : Place(b, i, d)
    BY <1>4, PipelineAssumption DEF ManualOrder, PipelineAssumption
  <2>2. CASE queue' = queue
    BY <1>1, <2>2, EmptyKeepsLimits
  <2>3. CASE queue' # queue
    <3>1. PICK f \in FillMessages : Admitted(state', f, 0) /\ queue' = Append(queue, f)
      BY <1>1, <2>1, <2>3, PlaceAdmits
    <3>2. Sound(state')
      BY <1>1, <2>1, PlaceAdmits
    <3>3. DOMAIN queue' = {1} /\ queue'[1] = f
      BY <1>1, <3>1
    <3>4. MostAtOnce - 1 - 0 \in Int /\ 0 <= MostAtOnce - 1 - 0
      BY StrategyFacts
    <3>5. Admitted(state', f, MostAtOnce - 1 - 0)
      BY <3>1, <3>2, <3>4, AdmittedWeaker
    <3>6. ~ InHand' /\ Ahead' = 0
      BY <1>1 DEF InHand, Ahead, NoEvent
    <3>7. FillsInv'
      BY <3>3, <3>5, <3>6 DEF FillsInv
    <3> QED
      BY <1>1, <3>6, <3>7 DEF LimitInv, HandInv, MarkInv, NoEvent
  <2> QED
    BY <2>2, <2>3
<1> QED
  BY <1>2, <1>3, <1>4

LEMMA DeliverKeepsLimits ==
  ASSUME PipeInv, LimitInv, Deliver
  PROVE  LimitInv'
<1>1. /\ event = NoEvent /\ queue # <<>>
      /\ event' = Head(queue) /\ queue' = Tail(queue) /\ stage' = 0 /\ state' = state
  BY DEF Deliver
<1>2. BusTyped /\ queue \in Seq(Message) /\ Sound(state)
  BY DEF PipeInv, BusTyped
<1>3. Len(queue) \in Nat /\ Len(queue) >= 1 /\ DOMAIN queue = 1..Len(queue) /\ event' = queue[1]
  BY <1>1, <1>2
<1>4. /\ \A n \in 1..(Len(queue) - 1) : queue'[n] = queue[n + 1]
      /\ DOMAIN queue' = 1..(Len(queue) - 1)
  BY <1>1, <1>2, HeadTailProperties
<1>5. ~ InHand /\ Ahead = 0
  BY <1>1 DEF InHand, Ahead, NoEvent
<1>6. 1 \in DOMAIN queue /\ \A n \in DOMAIN queue' : n + 1 \in DOMAIN queue /\ n \in Int /\ n >= 1
  BY <1>3, <1>4
<1>7. HandInv'
  <2> SUFFICES ASSUME queue[1].type = "FILL" PROVE Admitted(state, queue[1], MostAtOnce - 1)
    BY <1>1, <1>3 DEF HandInv, InHand
  <2>1. Admitted(state, queue[1], MostAtOnce - 1 - 0)
    BY <1>5, <1>6 DEF LimitInv, FillsInv
  <2>2. MostAtOnce - 1 - 0 = MostAtOnce - 1
    BY StrategyFacts
  <2> QED
    BY <2>1, <2>2
<1>8. FillsInv'
  <2> SUFFICES ASSUME NEW n \in DOMAIN queue', queue'[n].type = "FILL"
               PROVE  /\ Admitted(state', queue'[n], (MostAtOnce - n - Ahead)')
                      /\ InHand' => Apart(event', queue'[n])
                      /\ \A m \in 1..(n - 1) : Apart(queue'[m], queue'[n])
    BY DEF FillsInv
  <2> DEFINE f == queue[n + 1]
             k == MostAtOnce - (n + 1) - 0
             l == MostAtOnce - n - Ahead'
  <2>1. queue'[n] = f /\ f.type = "FILL" /\ n + 1 \in DOMAIN queue
    BY <1>4, <1>6
  <2>2. f \in FillMessages
    BY <1>2, <2>1, QueueFills
  <2>3. Admitted(state, f, k) /\ \A m \in 1..((n + 1) - 1) : Apart(queue[m], f)
    BY <1>5, <2>1 DEF LimitInv, FillsInv
  <2>4. k \in Int /\ l \in Int /\ k <= l
    BY <1>6, StrategyFacts DEF Ahead
  <2>5. \A m \in 1..(n - 1) : queue'[m] = queue[m + 1] /\ m + 1 \in 1..((n + 1) - 1)
    BY <1>3, <1>4
  <2>6. 1 \in 1..((n + 1) - 1)
    BY <1>6
  <2>7. Apart(queue[1], f)
    BY <2>3, <2>6
  <2>8. \A m \in 1..(n - 1) : Apart(queue'[m], f)
    BY <2>3, <2>5
  <2> HIDE DEF f, k, l
  <2>9. Admitted(state', f, l)
    BY <1>1, <1>2, <2>2, <2>3, <2>4, AdmittedWeaker
  <2> QED
    BY <1>3, <2>1, <2>7, <2>8, <2>9 DEF l
<1>9. MarkInv'
  <2> SUFFICES ASSUME queue[1].type = "MARK_UPDATE" PROVE DOMAIN queue' = {}
    BY <1>3 DEF MarkInv
  <2>1. Len(queue) <= 1
    BY <1>6 DEF PipeInv, QueueInv, QueueOfFills, FillMessages
  <2> QED
    BY <1>3, <1>4, <2>1
<1> QED
  BY <1>7, <1>8, <1>9 DEF LimitInv

LEMMA RecorderKeepsLimits ==
  ASSUME PipeInv, LimitInv, RunRecorder
  PROVE  LimitInv'
<1>1. /\ event # NoEvent /\ stage = 0 /\ stage' = 1 /\ state' = StoreRecord(state, event)
      /\ queue' = queue /\ event' = event
  BY DEF RunRecorder
<1>2. BusTyped /\ Sound(state) /\ event \in Message /\ queue \in Seq(Message)
  BY <1>1 DEF PipeInv, BusTyped
<1>3. ~ InHand' /\ Ahead' = 0
  BY <1>1 DEF InHand, Ahead
<1>4. event.type = "MARK_UPDATE" => DOMAIN queue = {}
  <2> SUFFICES ASSUME event.type = "MARK_UPDATE" PROVE DOMAIN queue = {}
    OBVIOUS
  <2>1. Len(queue) <= Higher(0, stage - 2)
    BY <1>1 DEF PipeInv, QueueInv, QueueOfFills
  <2>2. Higher(0, stage - 2) = 0
    BY <1>1 DEF Higher
  <2>3. Len(queue) \in Nat /\ DOMAIN queue = 1..Len(queue)
    BY <1>2
  <2> QED
    BY <2>1, <2>2, <2>3
<1>5. CASE event.type = "MARK_UPDATE"
  BY <1>1, <1>3, <1>4, <1>5 DEF LimitInv, HandInv, FillsInv, MarkInv
<1>6. CASE event.type = "FILL"
  <2>1. event \in FillMessages /\ InHand /\ Ahead = 1
    BY <1>1, <1>2, <1>6, MessagesArePayload DEF InHand, Ahead
  <2>2. ASSUME NEW n \in DOMAIN queue, queue[n].type = "FILL"
        PROVE  Admitted(state', queue[n], MostAtOnce - n - 0)
    <3> DEFINE f == queue[n]
               k == MostAtOnce - n - 1
    <3>1. f \in FillMessages /\ n \in Int /\ k \in Int /\ k + 1 = MostAtOnce - n - 0
      BY <1>2, <2>2, QueueFills, StrategyFacts
    <3>2. Admitted(state, f, k) /\ Apart(event, f)
      BY <2>1, <2>2 DEF LimitInv, FillsInv
    <3> HIDE DEF f, k
    <3>3. Admitted(state', f, k + 1)
      BY <1>1, <1>2, <2>1, <3>1, <3>2, AdmittedAfterOther
    <3> QED
      BY <3>1, <3>3 DEF f
  <2>3. ASSUME NEW n \in DOMAIN queue, queue[n].type = "FILL"
        PROVE  \A m \in 1..(n - 1) : Apart(queue[m], queue[n])
    BY <2>3 DEF LimitInv, FillsInv
  <2>4. FillsInv'
    BY <1>1, <1>3, <2>2, <2>3 DEF FillsInv
  <2> QED
    BY <1>1, <1>3, <1>6, <2>4 DEF LimitInv, HandInv, MarkInv
<1>7. CASE event.type # "MARK_UPDATE" /\ event.type # "FILL"
  <2>1. Sound(state') /\ SameHoldings(state, state') /\ SameTerms(state, state')
    <3>1. \A b \in Book, i \in Instrument : Moved(event, b, i) = 0
      BY <1>7 DEF Moved
    <3>2. /\ Sound(state') /\ SameTerms(state, state')
          /\ \A b \in Book, i \in Instrument :
               /\ state.pos[b][i].qty \in Int
               /\ state'.pos[b][i].qty = state.pos[b][i].qty + Moved(event, b, i)
      BY <1>1, <1>2, <1>7, MessageFolds
    <3> QED
      BY <3>1, <3>2 DEF SameHoldings
  <2>2. ~ InHand
    BY <1>7 DEF InHand
  <2> QED
    BY <1>1, <1>2, <1>3, <1>7, <2>1, <2>2, QuietKeepsLimits
<1> QED
  BY <1>5, <1>6, <1>7

LEMMA MonitorKeepsLimits ==
  ASSUME PipeInv, LimitInv, RunMonitor \/ Delivered
  PROVE  LimitInv'
<1>1. queue' = queue /\ BusTyped /\ Sound(state)
  BY DEF PipeInv, BusTyped, RunMonitor, Delivered
<1>2. \/ stage = 1 /\ stage' = 2 /\ event' = event
      \/ stage = Len(Strategies) + 2 /\ event' = NoEvent
  <2>1. Len(Strategies) \in Nat /\ stage \in Int
    BY <1>1, StrategyFacts DEF BusTyped
  <2>2. CASE RunMonitor
    BY <2>2 DEF RunMonitor
  <2>3. CASE Delivered
    BY <2>1, <2>3 DEF Delivered
  <2> QED
    BY <2>2, <2>3
<1>3. Sound(state') /\ SameHoldings(state, state') /\ SameTerms(state, state')
  <2>1. CASE state' = state
    BY <1>1, <2>1, Stays
  <2>2. CASE state' = StoreRecord(state, KillSwitch(Desk, FALSE))
    BY <1>1, <2>2, SwitchFolds
  <2> QED
    BY <2>1, <2>2 DEF RunMonitor, Delivered
<1>4. ~ InHand /\ ~ InHand'
  BY <1>2, StrategyFacts DEF InHand, NoEvent
<1>5. event'.type = "MARK_UPDATE" =>
        event' = event /\ stage \in Int /\ stage' \in Int /\ stage <= stage'
  BY <1>2 DEF NoEvent
<1> QED
  BY <1>1, <1>3, <1>4, <1>5, QuietKeepsLimits

LEMMA TurnKeepsLimits ==
  ASSUME PipeInv, LimitInv, NEW b \in Book, StrategyIgnores(b) \/ StrategyFill(b)
  PROVE  LimitInv'
<1>1. Turn(b) /\ state' = state /\ queue' = queue /\ BusTyped /\ Sound(state)
  BY DEF PipeInv, BusTyped, StrategyIgnores, StrategyFill
<1>2. /\ stage \in 2..(Len(Strategies) + 1) /\ stage' = stage + 1 /\ event' = event
      /\ Len(Strategies) \in Nat
  BY <1>1, TurnFacts, StrategyFacts
<1>3. ~ InHand /\ ~ InHand' /\ stage \in Int /\ stage' \in Int /\ stage <= stage'
  BY <1>2 DEF InHand
<1>4. Sound(state') /\ SameHoldings(state, state') /\ SameTerms(state, state')
  BY <1>1, Stays
<1> QED
  BY <1>1, <1>2, <1>3, <1>4, QuietKeepsLimits

\* One fill more, of a strategy that the mark has not been with.
LEMMA MarkKeepsLimits ==
  ASSUME PipeInv, LimitInv, NEW b \in Book, StrategyMark(b)
  PROVE  LimitInv'
<1> DEFINE i == event.instrument
           d == NextSide(memory[b], i) * OrderQty
<1>1. Turn(b) /\ event.type = "MARK_UPDATE" /\ Place(b, i, d) /\ BusTyped /\ Sound(state)
  BY DEF StrategyMark, PipeInv, BusTyped
<1>2. i \in Instrument
  <2>1. event \in MarkMessages
    BY <1>1, TurnFacts, MessagesArePayload
  <2> QED
    BY <2>1 DEF MarkMessages
<1>3. d \in Int /\ Magnitude(d) = OrderQty
  <2>1. memory[b].last[i] \in {-1, 1}
    BY <1>1, <1>2 DEF BusTyped, Memory
  <2>2. NextSide(memory[b], i) \in {-1, 1}
    BY <2>1 DEF NextSide
  <2> DEFINE side == NextSide(memory[b], i)
  <2> HIDE DEF side
  <2>3. side \in {-1, 1} /\ OrderQty \in Nat \ {0}
    BY <2>2, PipelineAssumption DEF side, PipelineAssumption
  <2>4. side * OrderQty \in Int /\ Magnitude(side * OrderQty) = OrderQty
    BY <2>3 DEF Magnitude
  <2> QED
    BY <2>4 DEF side
<1> HIDE DEF d
<1>4. /\ stage - 1 \in DOMAIN Strategies /\ b = Strategies[stage - 1]
      /\ stage \in 2..(Len(Strategies) + 1) /\ stage' = stage + 1 /\ event' = event
      /\ Len(Strategies) \in Nat /\ DOMAIN Strategies = 1..Len(Strategies)
  BY <1>1, TurnFacts, StrategyFacts
<1>5. ~ InHand /\ ~ InHand' /\ Ahead = 0 /\ Ahead' = 0
  BY <1>1, <1>4 DEF InHand, Ahead
<1>6. Sound(state') /\ SameHoldings(state, state') /\ SameTerms(state, state')
  BY <1>1, <1>2, <1>3, PlaceAdmits
<1>7. CASE queue' = queue
  <2>1. stage \in Int /\ stage' \in Int /\ stage <= stage'
    BY <1>4
  <2> QED
    BY <1>1, <1>4, <1>5, <1>6, <1>7, <2>1, QuietKeepsLimits
<1>8. CASE queue' # queue
  <2>1. PICK f \in FillMessages :
          /\ f.scope = b /\ f.instrument = i /\ f.delta = d
          /\ Admitted(state', f, 0) /\ queue' = Append(queue, f)
    BY <1>1, <1>2, <1>3, <1>8, PlaceAdmits
  <2>2. queue \in Seq(Message) /\ f \in Message /\ f.type = "FILL"
    BY <1>1 DEF BusTyped, Message, FillMessages
  <2> DEFINE last == Len(queue) + 1
  <2>3. /\ Len(queue) \in Nat /\ DOMAIN queue = 1..Len(queue) /\ DOMAIN queue' = 1..last
        /\ queue'[last] = f /\ \A n \in 1..Len(queue) : queue'[n] = queue[n]
    <3>1. /\ \A n \in 1..Len(queue) : Append(queue, f)[n] = queue[n]
          /\ Append(queue, f)[Len(queue) + 1] = f
      BY <2>2
    <3>2. Len(queue) \in Nat /\ DOMAIN queue = 1..Len(queue)
      BY <2>2
    <3>3. DOMAIN Append(queue, f) = 1..last
      BY <2>2
    <3> QED
      BY <2>1, <3>1, <3>2, <3>3
  <2>4. last <= stage - 1 /\ last <= MostAtOnce /\ last \in Nat
    <3>1. Len(queue) <= Higher(0, stage - 2)
      BY <1>1 DEF PipeInv, QueueInv, QueueOfFills, Turn
    <3> QED
      BY <1>4, <2>3, <3>1, StrategyFacts DEF Higher
  <2>5. \A n \in DOMAIN queue' : n = last \/ n \in 1..Len(queue)
    BY <2>3
  <2>6. \A m \in 1..Len(queue) : Apart(queue[m], f)
    <3> TAKE m \in 1..Len(queue)
    <3>1. /\ queue[m].instrument = i /\ Magnitude(queue[m].delta) = OrderQty
          /\ \E k \in DOMAIN Strategies : k <= stage - 2 /\ queue[m].scope = Strategies[k]
      BY <1>1, <2>3 DEF LimitInv, MarkInv
    <3>2. PICK k \in DOMAIN Strategies : k <= stage - 2 /\ queue[m].scope = Strategies[k]
      BY <3>1
    <3>3. k # stage - 1
      BY <1>4, <3>2
    <3>4. queue[m].scope # b
      BY <1>4, <3>2, <3>3, PipelineAssumption DEF PipelineAssumption
    <3> QED
      BY <1>3, <2>1, <3>1, <3>4 DEF Apart
  <2> HIDE DEF last
  <2>7. FillsInv'
    <3>1. ASSUME NEW n \in 1..Len(queue), queue[n].type = "FILL"
          PROVE  /\ Admitted(state', queue[n], MostAtOnce - n - 0)
                 /\ \A m \in 1..(n - 1) : Apart(queue'[m], queue[n])
      <4> DEFINE e == queue[n]
                 k == MostAtOnce - n - 0
      <4>1. e \in FillMessages /\ k \in Int
        BY <1>1, <2>3, <3>1, QueueFills, StrategyFacts
      <4>2. Admitted(state, e, k) /\ \A m \in 1..(n - 1) : Apart(queue[m], e)
        BY <1>5, <2>3, <3>1 DEF LimitInv, FillsInv
      <4>3. \A m \in 1..(n - 1) : queue'[m] = queue[m]
        BY <2>3
      <4>4. \A m \in 1..(n - 1) : Apart(queue'[m], e)
        BY <4>2, <4>3
      <4> HIDE DEF e, k
      <4>5. Admitted(state', e, k)
        BY <1>1, <1>6, <4>1, <4>2, AdmittedStays
      <4> QED
        BY <4>4, <4>5 DEF e, k
    <3>2. Admitted(state', f, MostAtOnce - last - 0)
      <4> DEFINE k == MostAtOnce - last - 0
      <4>1. k \in Int /\ 0 <= k
        BY <2>4, StrategyFacts
      <4> HIDE DEF k
      <4>2. Admitted(state', f, k)
        BY <1>6, <2>1, <4>1, AdmittedWeaker
      <4> QED
        BY <4>2 DEF k
    <3>3. \A m \in 1..(last - 1) : Apart(queue'[m], f)
      <4>1. last - 1 = Len(queue)
        BY <2>3 DEF last
      <4> QED
        BY <2>3, <2>6, <4>1
    <3> SUFFICES ASSUME NEW n \in DOMAIN queue', queue'[n].type = "FILL"
                 PROVE  /\ Admitted(state', queue'[n], (MostAtOnce - n - Ahead)')
                        /\ \A m \in 1..(n - 1) : Apart(queue'[m], queue'[n])
      BY <1>5 DEF FillsInv
    <3>4. CASE n = last
      BY <1>5, <2>3, <3>2, <3>3, <3>4
    <3>5. CASE n \in 1..Len(queue)
      BY <1>5, <2>3, <3>1, <3>5
    <3> QED
      BY <2>5, <3>4, <3>5
  <2>8. MarkInv'
    <3> SUFFICES ASSUME NEW n \in DOMAIN queue'
                 PROVE  /\ queue'[n].instrument = event.instrument
                        /\ Magnitude(queue'[n].delta) = OrderQty
                        /\ \E k \in DOMAIN Strategies :
                             k <= stage' - 2 /\ queue'[n].scope = Strategies[k]
      BY <1>4 DEF MarkInv
    <3>1. CASE n = last
      <4>1. stage - 1 <= stage' - 2
        BY <1>4
      <4> QED
        BY <1>3, <1>4, <2>1, <2>3, <3>1, <4>1
    <3>2. CASE n \in 1..Len(queue)
      <4>1. /\ queue[n].instrument = event.instrument /\ Magnitude(queue[n].delta) = OrderQty
            /\ \E k \in DOMAIN Strategies : k <= stage - 2 /\ queue[n].scope = Strategies[k]
        BY <1>1, <2>3, <3>2 DEF LimitInv, MarkInv
      <4>2. \A k \in DOMAIN Strategies : k <= stage - 2 => k <= stage' - 2
        BY <1>4
      <4> QED
        BY <2>3, <3>2, <4>1, <4>2
    <3> QED
      BY <2>5, <3>1, <3>2
  <2> QED
    BY <1>5, <2>7, <2>8 DEF LimitInv, HandInv
<1> QED
  BY <1>7, <1>8

LEMMA LimitInvNext ==
  ASSUME PipeInv, LimitInv, [PipeNext]_pipeVars
  PROVE  LimitInv'
<1>1. CASE MarketData \/ ManualOrder \/ FeedGoesStale
  BY <1>1, InputsKeepLimits
<1>2. CASE Deliver
  BY <1>2, DeliverKeepsLimits
<1>3. CASE RunRecorder
  BY <1>3, RecorderKeepsLimits
<1>4. CASE RunMonitor \/ Delivered
  BY <1>4, MonitorKeepsLimits
<1>5. CASE \E b \in Book : StrategyFill(b) \/ StrategyMark(b) \/ StrategyIgnores(b)
  BY <1>5, TurnKeepsLimits, MarkKeepsLimits
<1>6. CASE KillAndRestart
  BY <1>6, EmptyKeepsLimits DEF KillAndRestart
<1>7. CASE UNCHANGED pipeVars
  BY <1>7 DEF pipeVars, LimitInv, HandInv, FillsInv, MarkInv, InHand, Ahead
<1> QED
  BY <1>1, <1>2, <1>3, <1>4, <1>5, <1>6, <1>7 DEF PipeNext

-----------------------------------------------------------------------------
(* The theorems *)

\* The bus and what its handlers keep are of their types, the queue holds what the
\* event in hand can have caused, and every strategy's count is its book's, but for
\* the fill in hand (EventBus._drain, Recorder, OscillatorStrategy).
THEOREM PipeInvariant == PipeSpec => []PipeInv
<1>1. PipeInit => PipeInv
  BY PipeInvInit
<1>2. PipeInv /\ [PipeNext]_pipeVars => PipeInv'
  BY PipeInvNext
<1> QED
  BY <1>1, <1>2, PTL DEF PipeSpec

\* However many strategies there are, the bus never holds more than one fill of each
\* of them: with a queue of that size EventBus.publish drops nothing.
THEOREM PipeQueueStaysShort == PipeSpec => []QueueStaysShort
<1>1. PipeInv => QueueStaysShort
  <2> SUFFICES ASSUME PipeInv PROVE QueueStaysShort
    OBVIOUS
  <2> QED
    <3>1. PipeTypeOK
      <4>1. \A b \in Book, i \in Instrument : state.pos[b][i].qty \in Int /\ state.marks[i] \in Price
        BY HeldIsInt DEF PipeInv, BusTyped
      <4>2. event = NoEvent \/ event.type \in {"MARK_UPDATE", "FUNDING_UPDATE", "FILL"}
        BY DEF PipeInv, BusTyped, Message, FillMessages, MarkMessages, FundingMessages
      <4>3. \A b \in Book, i \in Instrument :
              memory[b].position[i] \in Int /\ memory[b].last[i] \in {-1, 1}
        BY DEF PipeInv, BusTyped, Memory
      <4>4. state.books = Book /\ Len(queue) <= MaxQueue /\ stage \in 0..(Len(Strategies) + 2)
        BY DEF PipeInv, BusTyped, Sound
      <4> QED
        BY <4>1, <4>2, <4>3, <4>4 DEF PipeTypeOK
    <3>2. Len(queue) <= MostAtOnce
      <4>1. Len(queue) \in Nat
        BY DEF PipeInv, BusTyped
      <4> QED
        BY <4>1, StrategyFacts DEF PipeInv, QueueInv, QueueOfFills
    <3> QED
      BY <3>1, <3>2 DEF QueueStaysShort
<1> QED
  BY <1>1, PipeInvariant, PTL

\* A strategy's private count is what its book has moved since the process started,
\* whenever the bus is empty, after any number of kills.
THEOREM PipeStrategyTracksBook == PipeSpec => []StrategyTracksBook
<1>1. PipeInv => StrategyTracksBook
  <2> SUFFICES ASSUME PipeInv, Idle, NEW k \in DOMAIN Strategies, NEW i \in Instrument
               PROVE  memory[Strategies[k]].position[i]
                        = state.pos[Strategies[k]][i].qty - atStart[Strategies[k]][i]
    BY DEF StrategyTracksBook
  <2>1. Pending(k, i) = 0
    BY DEF Idle, Pending, Moved, NoEvent
  <2>2. Tracks(k, i) /\ Strategies[k] \in Book
    BY StrategyFacts DEF PipeInv, TrackInv
  <2>3. memory[Strategies[k]].position[i] \in Int
    BY <2>2 DEF PipeInv, BusTyped, Memory
  <2> QED
    BY <2>1, <2>2, <2>3 DEF Tracks
<1> QED
  BY <1>1, PipeInvariant, PTL

\* Every fill that is folded leaves its book within its limits, and the desk but for
\* one order of each strategy that was checked on the same mark (OrderGateway.place,
\* default_checks, PaperExecutionClient): what the gate looked at stays as it was
\* while the fill is queued.
THEOREM PipeFillsWithinLimits == PipeSpec => FillsWithinLimits
<1>1. PipeInit => LimitInv
  BY DEF PipeInit, LimitInv, HandInv, FillsInv, MarkInv, InHand, NoEvent
<1>2. PipeInv /\ LimitInv /\ [PipeNext]_pipeVars => LimitInv'
  BY LimitInvNext
<1>3. PipeInv /\ LimitInv /\ [PipeNext]_pipeVars
        => [(RunRecorder /\ event.type = "FILL") =>
              WithinLimits(state', event.scope, event.instrument)]_pipeVars
  <2> SUFFICES ASSUME PipeInv, LimitInv, RunRecorder, event.type = "FILL"
               PROVE  WithinLimits(state', event.scope, event.instrument)
    OBVIOUS
  <2>1. event # NoEvent /\ stage = 0 /\ state' = StoreRecord(state, event)
    BY DEF RunRecorder
  <2>2. event \in FillMessages /\ Sound(state)
    BY <2>1, MessagesArePayload DEF PipeInv, BusTyped
  <2>3. Admitted(state, event, MostAtOnce - 1)
    BY <2>1 DEF LimitInv, HandInv, InHand
  <2> QED
    BY <2>1, <2>2, <2>3, AdmittedFolds
<1> QED
  BY <1>1, <1>2, <1>3, PipeInvariant, PTL DEF PipeSpec, FillsWithinLimits
=============================================================================
