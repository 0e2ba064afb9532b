---------------------------- MODULE Fill_proofs ----------------------------
(***************************************************************************)
(* Proofs about a fill on its way into the books: that FillAdmission takes *)
(* it up once and only forward, for any number of executions, any clock,   *)
(* slack and page depth, with or without losses in the bus and of power;   *)
(* and that RiskMath keeps its account, for any number of fills, contracts *)
(* and prices.  The two modules share no state.                            *)
(***************************************************************************)
EXTENDS FillAdmission, RiskMath, SequenceTheorems, WellFoundedInduction, TLAPS

-----------------------------------------------------------------------------
(* Admitted once *)

\* The inductive invariant: besides the two properties, that the log is a
\* sequence, that an engine which is down submits nothing, and that what is
\* submitted has a trade id.
FillInv ==
  /\ \E S : log \in Seq(S)
  /\ durable \in Nat
  /\ up \in BOOLEAN
  /\ poll # "idle" => up
  /\ OncePerTrade
  /\ SeenCoversLog

\* Appending a FILL of a trade that the log does not have keeps each trade once.
LEMMA AppendOnce ==
  ASSUME NEW S, log \in Seq(S), OncePerTrade, NEW e,
         log' = Append(log, e),
         e.trade = NoTradeId \/ e.trade \notin LoggedTrades
  PROVE  /\ log' \in Seq(S \cup {e})
         /\ OncePerTrade'
         /\ LoggedTrades' = (LoggedTrades \cup {e.trade}) \ {NoTradeId}
<1>1. log \in Seq(S \cup {e})
  OBVIOUS
<1>2. /\ log' \in Seq(S \cup {e})
      /\ Len(log') = Len(log) + 1
      /\ \A n \in 1..Len(log) : log'[n] = log[n]
      /\ log'[Len(log) + 1] = e
  BY <1>1
<1>3. DOMAIN log = 1..Len(log) /\ DOMAIN log' = 1..(Len(log) + 1) /\ Len(log) \in Nat
  BY <1>1, <1>2
<1>4. \A n \in DOMAIN log : log[n].trade # NoTradeId => log[n].trade \in LoggedTrades
  BY DEF LoggedTrades
<1>5. OncePerTrade'
  <2> SUFFICES ASSUME NEW m \in DOMAIN log', NEW n \in DOMAIN log',
                      log'[m].trade = log'[n].trade, log'[m].trade # NoTradeId
               PROVE  m = n
    BY DEF OncePerTrade, NoTradeId
  <2>1. CASE m \in DOMAIN log /\ n \in DOMAIN log
    BY <1>2, <1>3, <2>1 DEF OncePerTrade
  <2>2. CASE m \in DOMAIN log /\ n = Len(log) + 1
    BY <1>2, <1>3, <1>4, <2>2
  <2>3. CASE m = Len(log) + 1 /\ n \in DOMAIN log
    BY <1>2, <1>3, <1>4, <2>3
  <2>4. CASE m = Len(log) + 1 /\ n = Len(log) + 1
    BY <2>4
  <2> QED BY <1>3, <2>1, <2>2, <2>3, <2>4
<1>6. LoggedTrades' = (LoggedTrades \cup {e.trade}) \ {NoTradeId}
  <2>1. \A x : (\E n \in DOMAIN log' : x = log'[n].trade)
               <=> (\E n \in DOMAIN log : x = log[n].trade) \/ x = e.trade
    BY <1>2, <1>3
  <2> QED BY <2>1 DEF LoggedTrades, NoTradeId
<1> QED BY <1>2, <1>5, <1>6

\* Whatever submit does with a trade, the fill is in the log at most once, and
\* the seen set covers the log.
LEMMA SubmitInv ==
  ASSUME FillInv, up, NEW t \in 1..MaxTrades, Submit(t), UNCHANGED up,
         poll' # "idle" => poll # "idle" \/ up
  PROVE  FillInv'
<1> PICK S : log \in Seq(S)
  BY DEF FillInv
<1>1. CASE UNCHANGED log /\ seen \subseteq seen' /\ UNCHANGED durable
  BY <1>1 DEF FillInv, OncePerTrade, SeenCoversLog, LoggedTrades, NoTradeId
<1>2. CASE t \notin seen /\ seen' = seen \cup {t} /\ AAppend(FillEvent(t, 1))
  <2>1. FillEvent(t, 1).trade = t
    BY DEF FillEvent
  <2>2. t \notin LoggedTrades
    BY <1>2 DEF FillInv, SeenCoversLog
  <2>3. OncePerTrade /\ log' = Append(log, FillEvent(t, 1))
    BY <1>2 DEF FillInv, AAppend
  <2>4. /\ log' \in Seq(S \cup {FillEvent(t, 1)})
        /\ OncePerTrade'
        /\ LoggedTrades' = (LoggedTrades \cup {FillEvent(t, 1).trade}) \ {NoTradeId}
    BY <2>1, <2>2, <2>3, AppendOnce
  <2>5. SeenCoversLog'
    BY <1>2, <2>1, <2>4 DEF FillInv, SeenCoversLog
  <2>6. durable' \in Nat
    BY <1>2 DEF AAppend, FillInv
  <2> QED BY <2>4, <2>5, <2>6 DEF FillInv
<1> QED BY <1>1, <1>2 DEF Submit, Remember

\* A step that leaves the log alone, and takes nothing out of the seen set.
LEMMA QuietInv ==
  ASSUME FillInv, UNCHANGED log, durable' \in Nat, up' \in BOOLEAN,
         poll' # "idle" => up',
         up' => LoggedTrades \subseteq seen'
  PROVE  FillInv'
BY DEF FillInv, OncePerTrade, SeenCoversLog, LoggedTrades, NoTradeId

LEMMA FillInitInv == FillInit => FillInv
<1> SUFFICES ASSUME FillInit PROVE FillInv
  OBVIOUS
<1>1. log = <<>> /\ log \in Seq({}) /\ DOMAIN log = {}
  BY DEF FillInit, AInit
<1> QED BY <1>1 DEF FillInit, AInit, FillInv, OncePerTrade, SeenCoversLog

LEMMA FillStepInv == FillInv /\ [FillNext]_fillVars => FillInv'
<1> SUFFICES ASSUME FillInv, [FillNext]_fillVars PROVE FillInv'
  OBVIOUS
<1>0. PICK S : log \in Seq(S)
  BY DEF FillInv
<1>1. ASSUME NEW own \in BOOLEAN, Execute(own) PROVE FillInv'
  BY <1>1, QuietInv DEF Execute, engineVars, FillInv, SeenCoversLog
<1>2. ASSUME NEW t \in 1..MaxTrades, WsDrops(t) PROVE FillInv'
  BY <1>2, QuietInv DEF WsDrops, engineVars, FillInv, SeenCoversLog
<1>3. ASSUME NEW t \in 1..MaxTrades, WsDelivers(t) PROVE FillInv'
  BY <1>3, SubmitInv DEF WsDelivers
<1>4. ASSUME NEW t \in 1..MaxTrades, PollSubmit(t) PROVE FillInv'
  <2>1. up
    BY <1>4 DEF PollSubmit, FillInv
  <2>2. CASE Adoptable(t)
    BY <1>4, <2>1, <2>2, SubmitInv DEF PollSubmit
  <2>3. CASE ~ Adoptable(t)
    BY <1>4, <2>3, QuietInv DEF PollSubmit, FillInv, SeenCoversLog
  <2> QED BY <2>2, <2>3
<1>5. CASE ClockTick
  BY <1>5, QuietInv DEF ClockTick, engineVars, FillInv, SeenCoversLog
<1>6. CASE Start
  <2>1. Len(log) \in Nat
    BY <1>0
  <2> QED BY <1>6, <2>1, QuietInv DEF Start, SeedFromLog, FillInv
<1>7. CASE Commit
  <2>1. Len(log) \in Nat
    BY <1>0
  <2> QED BY <1>7, <2>1, QuietInv DEF Commit, engineVars, FillInv, SeenCoversLog
<1>8. CASE Kill
  BY <1>8, QuietInv DEF Kill, GoDown, FillInv
<1>9. CASE PowerLoss
  <2>1. PICK n \in durable..Len(log) : log' = SubSeq(log, 1, n)
    BY <1>9 DEF PowerLoss, ALoseTail
  <2>2. n \in 0..Len(log) /\ Len(log) \in Nat
    BY <1>0 DEF FillInv
  <2>3. /\ log' \in Seq(S)
        /\ DOMAIN log' \subseteq DOMAIN log
        /\ \A k \in DOMAIN log' : log'[k] = log[k]
    BY <1>0, <2>1, <2>2
  <2>4. OncePerTrade'
    BY <2>3 DEF FillInv, OncePerTrade, NoTradeId
  <2> QED BY <1>9, <2>3, <2>4 DEF PowerLoss, ALoseTail, GoDown, FillInv, SeenCoversLog
<1>10. CASE PollBegin
  BY <1>10, QuietInv DEF PollBegin, FillInv, SeenCoversLog
<1>11. CASE PollFetch
  BY <1>11, QuietInv DEF PollFetch, FillInv, SeenCoversLog
<1>12. CASE PollFails
  BY <1>12, QuietInv DEF PollFails, FillInv, SeenCoversLog
<1>13. CASE PollEnd
  BY <1>13, QuietInv DEF PollEnd, FillInv, SeenCoversLog
<1>14. CASE NetPatch
  <2> DEFINE e == FillEvent(NoTradeId, ExchangePosition - EnginePosition)
  <2>1. log' = Append(log, e) /\ e.trade = NoTradeId /\ OncePerTrade
    BY <1>14 DEF NetPatch, FillEvent, FillInv
  <2>2. log' \in Seq(S \cup {e}) /\ OncePerTrade'
    BY <1>0, <2>1, AppendOnce
  <2>3. durable' \in Nat
    BY <1>14, <2>2 DEF NetPatch
  <2>4. up' \in BOOLEAN /\ ~ up' /\ poll' = "idle"
    BY <1>14 DEF NetPatch, engineVars, FillInv
  <2> QED BY <2>2, <2>3, <2>4 DEF FillInv, SeenCoversLog
<1>15. CASE UNCHANGED fillVars
  BY <1>15, QuietInv DEF fillVars, engineVars, FillInv, SeenCoversLog
<1> QED
  BY <1>1, <1>2, <1>3, <1>4, <1>5, <1>6, <1>7, <1>8, <1>9, <1>10, <1>11, <1>12,
     <1>13, <1>14, <1>15 DEF FillNext

LEMMA FillInvariant == FillSpec => []FillInv
  BY FillInitInv, FillStepInv, PTL DEF FillSpec

\* A fill is admitted exactly once: no trade of the exchange is twice in the log,
\* whatever the WebSocket, the backstop, net patches, lost events, kills, power
\* losses and restarts do, and in whatever order.
THEOREM AdmittedOnce == FillSpec => []OncePerTrade
<1>1. FillInv => OncePerTrade
  BY DEF FillInv
<1> QED BY <1>1, FillInvariant, PTL

\* The seen set of a running engine covers the log it writes.
THEOREM SeenSetCoversLog == FillSpec => []SeenCoversLog
<1>1. FillInv => SeenCoversLog
  BY DEF FillInv
<1> QED BY <1>1, FillInvariant, PTL

-----------------------------------------------------------------------------
(* Induction, from the well-founded order of the natural numbers *)

\* A set of natural numbers has a least element.
LEMMA LeastElement ==
  ASSUME NEW T \in SUBSET Nat, T # {}
  PROVE  \E m \in T : \A k \in T : m <= k
<1> DEFINE R == OpToRel(<, Nat)
<1>1. IsWellFoundedOn(R, Nat)
  BY NatLessThanWellFounded
<1>2. \A x, y \in Nat : <<y, x>> \in R <=> y < x
  BY DEF OpToRel
<1> HIDE DEF R
<1>3. PICK m \in T : \A y \in T : ~ (<<y, m>> \in R)
  <2>1. \E x \in T : \A y \in T : ~ (<<y, x>> \in R)
    BY <1>1, WFMin
  <2> QED
    BY <2>1
<1>4. \A k \in T : ~ (k < m)
  BY <1>2, <1>3, Zenon
<1>5. \A k \in T : m <= k
  BY <1>4
<1> QED
  BY <1>5

\* A set of natural numbers below a bound has a greatest element.
LEMMA GreatestElement ==
  ASSUME NEW bound \in Nat, NEW T \in SUBSET (0..bound), T # {}
  PROVE  \E m \in T : \A k \in T : k <= m
<1> DEFINE Gap == {bound - k : k \in T}
<1>1. Gap \in SUBSET Nat /\ Gap # {}
  <2>1. \A k \in T : bound - k \in Nat
    OBVIOUS
  <2> QED
    BY <2>1
<1>2. PICK gap \in Gap : \A other \in Gap : gap <= other
  BY <1>1, LeastElement
<1>3. PICK m \in T : gap = bound - m
  BY <1>2
<1>4. \A k \in T : bound - m <= bound - k /\ k \in Nat /\ m \in Nat
  BY <1>2, <1>3
<1>5. \A k \in T : k <= m
  BY <1>4
<1> QED
  BY <1>5

\* Induction, of a property given as a set.
LEMMA Induction ==
  ASSUME NEW P \in SUBSET Nat, 0 \in P, \A n \in Nat : n \in P => n + 1 \in P
  PROVE  \A n \in Nat : n \in P
<1> SUFFICES ASSUME Nat \ P # {} PROVE FALSE
  OBVIOUS
<1>1. PICK m \in Nat \ P : \A k \in Nat \ P : m <= k
  BY LeastElement
<1>2. m # 0 /\ m - 1 \in Nat
  BY <1>1
<1>3. m - 1 \in P
  BY <1>1, <1>2
<1> QED
  BY <1>1, <1>2, <1>3

-----------------------------------------------------------------------------
(* The engine's position *)

FillRecord == [trade : Trades \cup {NoTradeId}, qty : Int, ts : 1..MaxTime]

Sums(f, s, m) == f = [n \in 0..m |-> IF n = 0 THEN 0 ELSE f[n - 1] + s[n].qty]

LEMMA SumsExist ==
  ASSUME NEW s, NEW m \in Nat
  PROVE  \E f : Sums(f, s, m)
<1> DEFINE P == {n \in Nat : \E f : Sums(f, s, n)}
<1>1. 0 \in P
  <2>1. Sums([n \in 0..0 |-> 0], s, 0)
    BY DEF Sums
  <2> QED
    BY <2>1
<1>2. ASSUME NEW n \in Nat, n \in P PROVE n + 1 \in P
  <2>1. PICK f : Sums(f, s, n)
    BY <1>2
  <2> DEFINE g == [k \in 0..(n + 1) |-> IF k = n + 1 THEN f[n] + s[n + 1].qty ELSE f[k]]
  <2>2. ASSUME NEW k \in 0..(n + 1)
        PROVE  g[k] = IF k = 0 THEN 0 ELSE g[k - 1] + s[k].qty
    <3>1. CASE k = n + 1
      BY <3>1
    <3>2. CASE k # n + 1
      <4>1. k \in 0..n /\ g[k] = f[k] /\ (k # 0 => g[k - 1] = f[k - 1])
        BY <3>2
      <4>2. f[k] = IF k = 0 THEN 0 ELSE f[k - 1] + s[k].qty
        BY <2>1, <4>1 DEF Sums
      <4> QED
        BY <4>1, <4>2
    <3> QED
      BY <3>1, <3>2
  <2>3. Sums(g, s, n + 1)
    <3>1. g = [k \in 0..(n + 1) |-> g[k]]
      OBVIOUS
    <3> HIDE DEF g
    <3> QED
      BY <2>2, <3>1 DEF Sums
  <2> QED
    BY <2>3
<1>3. P \in SUBSET Nat
  OBVIOUS
<1> HIDE DEF P
<1>4. \A n \in Nat : n \in P
  BY <1>1, <1>2, <1>3, Induction
<1> QED
  BY <1>4 DEF P

LEMMA LogRecords ==
  ASSUME log \in Seq(FillRecord)
  PROVE  /\ Len(log) \in Nat /\ DOMAIN log = 1..Len(log)
         /\ \A n \in 1..Len(log) : log[n] \in FillRecord
  BY LenProperties

\* The engine's position is a number, whatever was patched into the log.
LEMMA EnginePositionTyped ==
  ASSUME log \in Seq(FillRecord)
  PROVE  EnginePosition \in Int
<1> DEFINE f == CHOOSE f : Sums(f, log, Len(log))
           P == {n \in Nat : n <= Len(log) => f[n] \in Int}
<1>1. Len(log) \in Nat /\ \A n \in 1..Len(log) : log[n].qty \in Int
  BY LogRecords DEF FillRecord
<1>2. EnginePosition = f[Len(log)]
  BY DEF EnginePosition, Sums
<1>3. Sums(f, log, Len(log))
  BY <1>1, SumsExist
<1> HIDE DEF f
<1>4. 0 \in P
  BY <1>1, <1>3 DEF Sums
<1>5. ASSUME NEW n \in Nat, n \in P PROVE n + 1 \in P
  <2> SUFFICES ASSUME n + 1 <= Len(log) PROVE f[n + 1] \in Int
    OBVIOUS
  <2>1. f[n] \in Int /\ log[n + 1].qty \in Int
    BY <1>1, <1>5
  <2>2. f[n + 1] = f[n] + log[n + 1].qty
    BY <1>1, <1>3 DEF Sums
  <2> QED
    BY <2>1, <2>2
<1>6. P \in SUBSET Nat
  OBVIOUS
<1> HIDE DEF P
<1>7. \A n \in Nat : n \in P
  BY <1>4, <1>5, <1>6, Induction
<1>8. Len(log) \in P
  BY <1>1, <1>7
<1> QED
  BY <1>1, <1>2, <1>8 DEF P

\* The record time that a baseline starts from is that of a fill with a trade id.
LEMMA LastFillTimeFound ==
  ASSUME log \in Seq(FillRecord)
  PROVE  /\ LoggedTrades = {} => LastFillTime = 0
         /\ LoggedTrades # {} => \E n \in DOMAIN log : log[n].trade # NoTradeId
                                                      /\ LastFillTime = log[n].ts
<1> DEFINE real == {n \in DOMAIN log : log[n].trade # NoTradeId}
           T == {log[n].ts : n \in real}
<1>1. \A n \in DOMAIN log : log[n].ts \in 0..MaxTime /\ log[n].ts \in Nat
  BY LogRecords, FillAssumption DEF FillRecord
<1>2. LoggedTrades = {} <=> real = {}
  BY DEF LoggedTrades
<1>3. CASE real = {}
  BY <1>2, <1>3 DEF LastFillTime
<1>4. CASE real # {}
  <2>1. T \in SUBSET (0..MaxTime) /\ T # {} /\ MaxTime \in Nat
    BY <1>1, <1>4, FillAssumption
  <2>2. PICK ts \in T : \A k \in T : k <= ts
    BY <2>1, GreatestElement
  <2>3. \E ts0 \in 0..MaxTime : /\ \E n \in real : log[n].ts = ts0
                                /\ \A n \in real : log[n].ts <= ts0
    BY <2>1, <2>2
  <2>4. \E n \in real : log[n].ts = LastFillTime
    BY <1>4, <2>3 DEF LastFillTime
  <2> QED
    BY <1>2, <1>4, <2>4
<1> QED
  BY <1>3, <1>4

-----------------------------------------------------------------------------
(* The backstop looks forward *)

\* The inductive invariant.  That a log event says nothing of before the first start
\* is not enough: what the WebSocket carries, what the thread has collected and the
\* baseline it will collect from must not either, and the baseline of the next start
\* comes from the record times in the log.
BackstopInv ==
  /\ FillTypeOK
  /\ baseline \in Int
  /\ ~ up => inFlight = {} /\ collected = {}
  /\ firstStart = 0 => ~ up /\ LoggedTrades = {}
  /\ \A n \in DOMAIN log : log[n].trade # NoTradeId => log[n].ts >= firstStart
  /\ \A t \in LoggedTrades \cup collected : fills[t].ts + Slack >= firstStart
  /\ \A t \in inFlight : fills[t].ts >= firstStart
  /\ up => baseline + Slack >= firstStart

Execution == [ts : 1..MaxTime, own : BOOLEAN]

\* The times as numbers.
LEMMA TimesTyped ==
  ASSUME BackstopInv
  PROVE  /\ now \in Nat /\ now >= 1 /\ now <= MaxTime /\ MaxTime \in Nat
         /\ firstStart \in Nat /\ firstStart <= now /\ Slack \in Nat /\ baseline \in Int
         /\ fills \in Seq(Execution) /\ Len(fills) \in Nat /\ Trades = DOMAIN fills
         /\ \A t \in Trades : fills[t] \in Execution /\ fills[t].ts \in Nat
         /\ log \in Seq(FillRecord) /\ Len(log) \in Nat /\ DOMAIN log = 1..Len(log)
         /\ \A n \in DOMAIN log : log[n] \in FillRecord /\ log[n].ts \in Nat
         /\ LoggedTrades \subseteq Trades
<1>1. /\ now \in 1..MaxTime /\ firstStart \in 0..now /\ fills \in Seq(Execution)
      /\ log \in Seq(FillRecord) /\ baseline \in Int
  BY DEF BackstopInv, FillTypeOK, Execution, FillRecord
<1>2. MaxTime \in Nat /\ Slack \in Nat
  BY FillAssumption
<1>3. Len(fills) \in Nat /\ Trades = DOMAIN fills /\ \A t \in Trades : fills[t] \in Execution
  BY <1>1, LenProperties DEF Trades
<1>4. \A t \in Trades : fills[t].ts \in Nat
  BY <1>2, <1>3 DEF Execution
<1>5. /\ Len(log) \in Nat /\ DOMAIN log = 1..Len(log)
      /\ \A n \in DOMAIN log : log[n] \in FillRecord
  BY <1>1, LogRecords
<1>6. \A n \in DOMAIN log : log[n].ts \in Nat /\ log[n].trade \in Trades \cup {NoTradeId}
  BY <1>2, <1>5 DEF FillRecord
<1>7. LoggedTrades \subseteq Trades
  BY <1>6 DEF LoggedTrades
<1> QED
  BY <1>1, <1>2, <1>3, <1>4, <1>5, <1>6, <1>7

\* What becomes of the log when one more fill is recorded.
LEMMA RecordedFill ==
  ASSUME BackstopInv, NEW t \in Trades \cup {NoTradeId}, NEW qty \in Int,
         log' = Append(log, FillEvent(t, qty)),
         UNCHANGED <<now, fills, firstStart>>
  PROVE  /\ log' \in Seq(FillRecord) /\ Len(log') = Len(log) + 1
         /\ LoggedTrades' \subseteq LoggedTrades \cup ({t} \ {NoTradeId})
         /\ \A n \in DOMAIN log' : log'[n].trade # NoTradeId => log'[n].ts >= firstStart
<1> DEFINE e == FillEvent(t, qty)
<1>1. e \in FillRecord /\ e.trade = t /\ e.ts = now
  BY TimesTyped DEF FillEvent, FillRecord
<1> HIDE DEF e
<1>2. /\ log' \in Seq(FillRecord) /\ Len(log') = Len(log) + 1
      /\ \A n \in 1..Len(log) : log'[n] = log[n]
      /\ log'[Len(log) + 1] = e
  BY <1>1, TimesTyped DEF e
<1>3. DOMAIN log = 1..Len(log) /\ DOMAIN log' = 1..(Len(log) + 1) /\ Len(log) \in Nat
  BY <1>2, TimesTyped, LenProperties
<1>4. \A n \in DOMAIN log' : (n \in DOMAIN log /\ log'[n] = log[n]) \/ log'[n] = e
  BY <1>2, <1>3
<1>5. LoggedTrades' \subseteq LoggedTrades \cup ({t} \ {NoTradeId})
  BY <1>1, <1>4 DEF LoggedTrades, NoTradeId
<1>6. ASSUME NEW n \in DOMAIN log', log'[n].trade # NoTradeId PROVE log'[n].ts >= firstStart
  BY <1>1, <1>4, <1>6, TimesTyped DEF BackstopInv
<1> QED
  BY <1>2, <1>5, <1>6

\* submit, whoever calls it, of an execution that is not from before the first start.
LEMMA SubmitForward ==
  ASSUME BackstopInv, NEW t \in Trades, Submit(t), up, firstStart # 0,
         fills[t].ts + Slack >= firstStart,
         inFlight' \subseteq inFlight, collected' \subseteq collected,
         UNCHANGED <<now, fills, up, baseline, poll, seenCopy, firstStart>>
  PROVE  BackstopInv'
<1>1. CASE UNCHANGED log /\ UNCHANGED durable /\ seen' \in {seen, seen \cup {t}}
  <2>1. FillTypeOK'
    BY <1>1 DEF BackstopInv, FillTypeOK, Trades
  <2>2. LoggedTrades' = LoggedTrades
    BY <1>1 DEF LoggedTrades
  <2> QED
    BY <1>1, <2>1, <2>2 DEF BackstopInv
<1>2. CASE t \notin seen /\ seen' = seen \cup {t} /\ AAppend(FillEvent(t, 1))
  <2>1. log' = Append(log, FillEvent(t, 1)) /\ durable' \in durable..Len(log)
    BY <1>2 DEF AAppend
  <2>2. /\ log' \in Seq(FillRecord) /\ Len(log') = Len(log) + 1
        /\ LoggedTrades' \subseteq LoggedTrades \cup ({t} \ {NoTradeId})
        /\ \A n \in DOMAIN log' : log'[n].trade # NoTradeId => log'[n].ts >= firstStart
    BY <2>1, RecordedFill
  <2>3. durable' \in 0..Len(log')
    <3>1. durable \in 0..Len(log) /\ Len(log) \in Nat
      BY TimesTyped DEF BackstopInv, FillTypeOK
    <3> QED
      BY <2>1, <2>2, <3>1
  <2>4. log' \in Seq([trade : Trades' \cup {NoTradeId}, qty : Int, ts : 1..MaxTime])
    BY <2>2 DEF FillRecord, Trades
  <2>5. FillTypeOK'
    BY <1>2, <2>3, <2>4 DEF BackstopInv, FillTypeOK, Trades
  <2>6. \A u \in LoggedTrades' \cup collected' : fills'[u].ts + Slack >= firstStart'
    BY <2>2 DEF BackstopInv
  <2>7. \A n \in DOMAIN log' : log'[n].trade # NoTradeId => log'[n].ts >= firstStart'
    BY <2>2
  <2>8. /\ baseline' \in Int /\ (up' => baseline' + Slack >= firstStart')
        /\ \A u \in inFlight' : fills'[u].ts >= firstStart'
        /\ up' /\ firstStart' # 0
    BY DEF BackstopInv
  <2> QED
    BY <2>5, <2>6, <2>7, <2>8 DEF BackstopInv, NoTradeId
<1> QED
  BY <1>1, <1>2, Zenon DEF Submit, Remember

\* The steps that leave the log, the executions and the clock's past alone.
LEMMA QuietForward ==
  ASSUME BackstopInv,
         UNCHANGED <<log, durable, now, fills, firstStart>>,
         seen' \subseteq Trades, seenCopy' \subseteq Trades, collected' \subseteq Trades,
         up' \in BOOLEAN, poll' \in {"idle", "fetching", "submitting"},
         inFlight' \subseteq inFlight, baseline' \in Int,
         ~ up' => inFlight' = {} /\ collected' = {},
         up' => up /\ baseline' = baseline,
         \A t \in collected' : fills[t].ts + Slack >= firstStart
  PROVE  BackstopInv'
<1>1. FillTypeOK'
  BY DEF BackstopInv, FillTypeOK, Trades
<1>2. LoggedTrades' = LoggedTrades
  BY DEF LoggedTrades
<1> QED
  BY <1>1, <1>2 DEF BackstopInv

\* An execution is of now; none of the old ones changes.
LEMMA ExecuteForward ==
  ASSUME BackstopInv, NEW own \in BOOLEAN, Execute(own)
  PROVE  BackstopInv'
<1> DEFINE e == [ts |-> now, own |-> own]
<1>1. /\ fills' = Append(fills, e) /\ inFlight' \subseteq inFlight \cup {Len(fills) + 1}
      /\ inFlight' = inFlight \/ up
      /\ UNCHANGED <<log, durable, now, up, seen, baseline, poll, seenCopy, collected, firstStart>>
  BY DEF Execute, engineVars
<1>2. e \in Execution /\ e.ts = now
  BY TimesTyped DEF Execution
<1> HIDE DEF e
<1>3. /\ fills' \in Seq(Execution) /\ Len(fills') = Len(fills) + 1
      /\ \A t \in 1..Len(fills) : fills'[t] = fills[t]
      /\ fills'[Len(fills) + 1] = e
  BY <1>1, <1>2, TimesTyped
<1>4. Trades \subseteq Trades' /\ Len(fills) + 1 \in Trades' /\ \A t \in Trades : fills'[t] = fills[t]
  <2>1. Len(fills) \in Nat /\ Trades' = 1..(Len(fills) + 1) /\ Trades = 1..Len(fills)
    BY <1>3, TimesTyped DEF Trades
  <2> QED
    BY <1>3, <2>1
<1>5. FillTypeOK'
  <2>1. log' \in Seq([trade : Trades' \cup {NoTradeId}, qty : Int, ts : 1..MaxTime])
    <3>1. FillRecord \subseteq [trade : Trades' \cup {NoTradeId}, qty : Int, ts : 1..MaxTime]
      BY <1>4 DEF FillRecord
    <3>2. log' \in Seq(FillRecord)
      BY <1>1, TimesTyped
    <3> QED
      BY <3>1, <3>2, SeqMonotonic
  <2>2. fills' \in Seq([ts : 1..MaxTime, own : BOOLEAN])
    BY <1>3 DEF Execution
  <2>3. /\ inFlight' \subseteq Trades'
        /\ seen' \subseteq Trades' /\ seenCopy' \subseteq Trades' /\ collected' \subseteq Trades'
    BY <1>1, <1>4 DEF BackstopInv, FillTypeOK
  <2>4. /\ now' \in 1..MaxTime /\ durable' \in 0..Len(log') /\ up' \in BOOLEAN
        /\ poll' \in {"idle", "fetching", "submitting"} /\ firstStart' \in 0..now'
    BY <1>1 DEF BackstopInv, FillTypeOK
  <2> QED
    BY <2>1, <2>2, <2>3, <2>4 DEF FillTypeOK, NoTradeId
<1>6. LoggedTrades' = LoggedTrades /\ LoggedTrades \cup collected \subseteq Trades
  BY <1>1, TimesTyped DEF LoggedTrades, BackstopInv, FillTypeOK
<1>7. \A t \in LoggedTrades' \cup collected' : fills'[t].ts + Slack >= firstStart'
  BY <1>1, <1>4, <1>6 DEF BackstopInv
<1>8. \A t \in inFlight' : fills'[t].ts >= firstStart'
  <2>1. inFlight \subseteq Trades
    BY DEF BackstopInv, FillTypeOK
  <2> QED
    BY <1>1, <1>2, <1>3, <1>4, <2>1, TimesTyped DEF BackstopInv
<1> QED
  BY <1>1, <1>5, <1>6, <1>7, <1>8 DEF BackstopInv, NoTradeId

\* The baseline of a start: the newest record time less the slack, which does not
\* reach further behind the first start than the slack; or the first start itself.
LEMMA StartForward ==
  ASSUME BackstopInv, Start
  PROVE  BackstopInv'
<1>1. /\ ~ up /\ up' = TRUE /\ durable' \in {durable, Len(log)} /\ seen' = LoggedTrades
      /\ baseline' = IF LastFillTime # 0 THEN LastFillTime - Slack ELSE now
      /\ firstStart' = IF firstStart = 0 THEN now ELSE firstStart
      /\ UNCHANGED <<log, now, fills, inFlight, poll, seenCopy, collected>>
  BY DEF Start, SeedFromLog
<1>2. inFlight = {} /\ collected = {}
  BY <1>1 DEF BackstopInv
<1>3. LoggedTrades' = LoggedTrades
  BY <1>1 DEF LoggedTrades
<1>4. CASE LoggedTrades = {}
  <2>1. baseline' = now /\ firstStart' \in Nat /\ firstStart' <= now /\ firstStart' # 0
    BY <1>1, <1>4, LastFillTimeFound, TimesTyped
  <2>2. baseline' \in Int /\ baseline' + Slack >= firstStart'
    BY <2>1, TimesTyped
  <2>3. FillTypeOK'
    BY <1>1, <1>4, <2>1, TimesTyped DEF BackstopInv, FillTypeOK, Trades
  <2>4. \A n \in DOMAIN log : log[n].trade = NoTradeId
    BY <1>4 DEF LoggedTrades
  <2> QED
    BY <1>1, <1>2, <1>3, <1>4, <2>1, <2>2, <2>3, <2>4 DEF BackstopInv, NoTradeId
<1>5. CASE LoggedTrades # {}
  <2>1. firstStart # 0 /\ firstStart' = firstStart
    BY <1>1, <1>5 DEF BackstopInv
  <2>2. PICK n \in DOMAIN log : log[n].trade # NoTradeId /\ LastFillTime = log[n].ts
    BY <1>5, LastFillTimeFound, TimesTyped
  <2>3. LastFillTime \in Nat /\ LastFillTime >= firstStart /\ LastFillTime # 0
    BY <2>1, <2>2, TimesTyped DEF BackstopInv
  <2>4. baseline' \in Int /\ baseline' + Slack >= firstStart
    BY <1>1, <2>3, TimesTyped
  <2>5. durable' \in 0..Len(log') /\ firstStart' \in 0..now' /\ seen' \subseteq Trades
    BY <1>1, <2>1, TimesTyped DEF BackstopInv, FillTypeOK
  <2>6. FillTypeOK'
    BY <1>1, <2>5 DEF BackstopInv, FillTypeOK, Trades
  <2> QED
    BY <1>1, <1>2, <1>3, <2>1, <2>4, <2>6 DEF BackstopInv, NoTradeId
<1> QED
  BY <1>4, <1>5

\* A loss of power leaves a prefix of the log, and no engine.
LEMMA PowerLossForward ==
  ASSUME BackstopInv, PowerLoss
  PROVE  BackstopInv'
<1>1. PICK n \in durable..Len(log) : log' = SubSeq(log, 1, n)
  BY DEF PowerLoss, ALoseTail
<1>2. n \in 0..Len(log) /\ durable \in 0..n /\ n \in Nat
  BY TimesTyped DEF BackstopInv, FillTypeOK
<1>3. /\ log' \in Seq(FillRecord) /\ Len(log') = n /\ DOMAIN log' = 1..n
      /\ \A k \in 1..n : k \in DOMAIN log /\ log'[k] = log[k]
  <2>1. log \in Seq(FillRecord) /\ DOMAIN log = 1..Len(log) /\ Len(log) \in Nat
    BY TimesTyped
  <2> QED
    BY <1>1, <1>2, <2>1
<1>4. /\ up' = FALSE /\ seen' = {} /\ baseline' = 0 /\ poll' = "idle" /\ seenCopy' = {}
      /\ collected' = {} /\ inFlight' = {} /\ UNCHANGED <<durable, now, fills, firstStart>>
  BY DEF PowerLoss, ALoseTail, GoDown
<1>5. LoggedTrades' \subseteq LoggedTrades
  BY <1>3 DEF LoggedTrades, NoTradeId
<1>6. FillTypeOK'
  BY <1>2, <1>3, <1>4 DEF BackstopInv, FillTypeOK, Trades, FillRecord
<1>7. \A k \in DOMAIN log' : log'[k].trade # NoTradeId => log'[k].ts >= firstStart'
  BY <1>3, <1>4 DEF BackstopInv
<1> QED
  BY <1>4, <1>5, <1>6, <1>7 DEF BackstopInv, NoTradeId

\* The thread collects nothing older than the baseline.
LEMMA PollForward ==
  ASSUME BackstopInv, FillInv, PollBegin \/ PollFetch \/ PollFails \/ PollEnd
  PROVE  BackstopInv'
<1>1. /\ UNCHANGED <<log, durable, now, fills, inFlight, up, seen, baseline, firstStart>>
      /\ poll' \in {"idle", "fetching", "submitting"} /\ seenCopy' \in {seen, seenCopy, {}}
  BY DEF PollBegin, PollFetch, PollFails, PollEnd
<1>2. CASE PollFetch
  <2>1. up /\ collected' = Missing
    BY <1>2 DEF PollFetch, FillInv
  <2>2. \A t \in Missing : t \in Trades /\ fills[t].ts >= baseline
    BY DEF Missing
  <2>3. \A t \in Missing : fills[t].ts + Slack >= firstStart
    BY <2>1, <2>2, TimesTyped DEF BackstopInv
  <2> QED
    BY <1>1, <2>1, <2>2, <2>3, QuietForward DEF BackstopInv, FillTypeOK
<1>3. CASE PollBegin \/ PollFails \/ PollEnd
  <2>1. UNCHANGED collected
    BY <1>3 DEF PollBegin, PollFails, PollEnd
  <2> QED
    BY <1>1, <2>1, QuietForward DEF BackstopInv, FillTypeOK
<1> QED
  BY <1>2, <1>3

LEMMA StepForward == BackstopInv /\ FillInv /\ [FillNext]_fillVars => BackstopInv'
<1> SUFFICES ASSUME BackstopInv, FillInv, [FillNext]_fillVars PROVE BackstopInv'
  OBVIOUS
<1>0. \A t \in 1..MaxTrades : t \in inFlight \cup collected => t \in Trades
  BY DEF BackstopInv, FillTypeOK
<1>1. ASSUME NEW t \in 1..MaxTrades, WsDrops(t) PROVE BackstopInv'
  <2>1. inFlight' = inFlight \ {t} /\ UNCHANGED <<log, durable, now, fills, engineVars, firstStart>>
    BY <1>1 DEF WsDrops
  <2> QED
    BY <2>1, QuietForward DEF engineVars, BackstopInv, FillTypeOK
<1>2. ASSUME NEW t \in 1..MaxTrades, WsDelivers(t) PROVE BackstopInv'
  <2>1. /\ up /\ t \in inFlight /\ inFlight' = inFlight \ {t} /\ Submit(t)
        /\ UNCHANGED <<now, fills, up, baseline, poll, seenCopy, collected, firstStart>>
    BY <1>2 DEF WsDelivers
  <2>2. t \in Trades /\ firstStart # 0 /\ fills[t].ts >= firstStart
    BY <1>0, <2>1 DEF BackstopInv
  <2>3. fills[t].ts + Slack >= firstStart
    BY <2>2, TimesTyped
  <2> QED
    BY <2>1, <2>2, <2>3, SubmitForward
<1>3. ASSUME NEW t \in 1..MaxTrades, PollSubmit(t) PROVE BackstopInv'
  <2>1. /\ up /\ t \in collected /\ collected' = collected \ {t}
        /\ UNCHANGED <<now, fills, inFlight, up, baseline, poll, seenCopy, firstStart>>
    BY <1>3 DEF PollSubmit, FillInv
  <2>2. t \in Trades /\ firstStart # 0 /\ fills[t].ts + Slack >= firstStart
    BY <1>0, <2>1 DEF BackstopInv
  <2>3. CASE Submit(t)
    BY <2>1, <2>2, <2>3, SubmitForward
  <2>4. CASE UNCHANGED <<log, durable, seen>>
    BY <2>1, <2>4, QuietForward DEF BackstopInv, FillTypeOK
  <2> QED
    BY <1>3, <2>3, <2>4 DEF PollSubmit
<1>4. CASE ClockTick
  <2>1. /\ now < MaxTime /\ now' = now + 1
        /\ UNCHANGED <<log, durable, fills, inFlight, engineVars, firstStart>>
    BY <1>4 DEF ClockTick
  <2>2. now' \in 1..MaxTime /\ firstStart' \in 0..now'
    BY <2>1, TimesTyped
  <2>3. FillTypeOK' /\ LoggedTrades' = LoggedTrades
    BY <2>1, <2>2 DEF engineVars, BackstopInv, FillTypeOK, Trades, LoggedTrades
  <2> QED
    BY <2>1, <2>3 DEF engineVars, BackstopInv
<1>5. CASE Commit
  <2>1. durable' = Len(log) /\ UNCHANGED <<log, now, fills, inFlight, engineVars, firstStart>>
    BY <1>5 DEF Commit
  <2>2. durable' \in 0..Len(log')
    BY <2>1, TimesTyped
  <2>3. FillTypeOK' /\ LoggedTrades' = LoggedTrades
    BY <2>1, <2>2 DEF engineVars, BackstopInv, FillTypeOK, Trades, LoggedTrades
  <2> QED
    BY <2>1, <2>3 DEF engineVars, BackstopInv
<1>6. CASE Kill
  <2>1. /\ up' = FALSE /\ seen' = {} /\ baseline' = 0 /\ poll' = "idle" /\ seenCopy' = {}
        /\ collected' = {} /\ inFlight' = {}
        /\ UNCHANGED <<log, durable, now, fills, firstStart>>
    BY <1>6 DEF Kill, GoDown
  <2>2. /\ seen' \subseteq Trades /\ seenCopy' \subseteq Trades /\ collected' \subseteq Trades
        /\ inFlight' \subseteq inFlight /\ baseline' \in Int
        /\ \A t \in collected' : fills[t].ts + Slack >= firstStart
    BY <2>1
  <2>3. up' \in BOOLEAN /\ poll' \in {"idle", "fetching", "submitting"} /\ ~ up'
    BY <2>1, Zenon
  <2> QED
    BY <2>1, <2>2, <2>3, QuietForward
<1>7. CASE NetPatch
  <2> DEFINE qty == ExchangePosition - EnginePosition
  <2>1. /\ ~ up /\ log' = Append(log, FillEvent(NoTradeId, qty)) /\ durable' = Len(log')
        /\ UNCHANGED <<now, fills, inFlight, engineVars, firstStart>>
    BY <1>7 DEF NetPatch
  <2>2. qty \in Int
    BY EnginePositionTyped, TimesTyped DEF ExchangePosition
  <2> HIDE DEF qty
  <2>3. /\ log' \in Seq(FillRecord) /\ Len(log') = Len(log) + 1
        /\ LoggedTrades' \subseteq LoggedTrades
        /\ \A n \in DOMAIN log' : log'[n].trade # NoTradeId => log'[n].ts >= firstStart
    BY <2>1, <2>2, RecordedFill
  <2>4. durable' \in 0..Len(log')
    BY <2>1, <2>3, TimesTyped
  <2>5. FillTypeOK'
    BY <2>1, <2>3, <2>4 DEF engineVars, BackstopInv, FillTypeOK, Trades, FillRecord
  <2> QED
    BY <2>1, <2>3, <2>5 DEF engineVars, BackstopInv, NoTradeId
<1>8. CASE UNCHANGED fillVars
  BY <1>8, QuietForward DEF fillVars, engineVars, BackstopInv, FillTypeOK
<1> QED
  BY <1>1, <1>2, <1>3, <1>4, <1>5, <1>6, <1>7, <1>8, ExecuteForward, StartForward,
     PowerLossForward, PollForward DEF FillNext

LEMMA InitForward == FillInit => BackstopInv
<1> SUFFICES ASSUME FillInit PROVE BackstopInv
  OBVIOUS
<1>1. /\ log = <<>> /\ durable = 0 /\ now = 1 /\ fills = <<>> /\ inFlight = {} /\ up = FALSE
      /\ seen = {} /\ baseline = 0 /\ poll = "idle" /\ seenCopy = {} /\ collected = {}
      /\ firstStart = 0
  BY DEF FillInit, AInit
<1>2. FillTypeOK
  <2>1. /\ fills \in Seq([ts : 1..MaxTime, own : BOOLEAN])
        /\ log \in Seq([trade : Trades \cup {NoTradeId}, qty : Int, ts : 1..MaxTime])
        /\ now \in 1..MaxTime /\ durable \in 0..Len(log) /\ firstStart \in 0..now
    BY <1>1, FillAssumption
  <2> QED
    BY <1>1, <2>1 DEF FillTypeOK
<1>3. LoggedTrades = {} /\ DOMAIN log = {}
  BY <1>1 DEF LoggedTrades
<1> QED
  BY <1>1, <1>2, <1>3 DEF BackstopInv

\* Nothing that was executed before the first start on this log, less the slack, is
\* adopted: whatever kills, power losses, later starts and patches do to the log that
\* the baselines are taken from.
THEOREM AdoptionIsForwardOnly == FillSpec => []ForwardOnly
<1>1. BackstopInv => ForwardOnly
  BY DEF BackstopInv, ForwardOnly
<1> QED
  BY <1>1, InitForward, StepForward, FillInvariant, PTL DEF FillSpec

-----------------------------------------------------------------------------
(* Whole numbers *)

\* A quantity within reach divides what a fill may still divide.
LEMMA QuantityDivides ==
  ASSUME NEW n \in 1..MaxQty
  PROVE  \E k \in Int : QtyMultiple = n * k
<1>1. QtyMultiple \in Nat /\ QtyMultiple % n = 0 /\ n \in Nat \ {0}
  BY MathAssumption
<1>2. QtyMultiple = n * (QtyMultiple \div n) + (QtyMultiple % n) /\ QtyMultiple \div n \in Int
  BY <1>1
<1>3. QtyMultiple = n * (QtyMultiple \div n)
  BY <1>1, <1>2
<1> QED
  BY <1>2, <1>3

LEMMA ExactDivision ==
  ASSUME NEW n \in Nat \ {0}, NEW x \in Int
  PROVE  (n * x) \div n = x
OBVIOUS

LEMMA Distributes ==
  ASSUME NEW a \in Int, NEW b \in Int, NEW c \in Int
  PROVE  /\ a * (b + c) = a * b + a * c /\ a * (b - c) = a * b - a * c
         /\ (a + b) * c = a * c + b * c /\ (a - b) * c = a * c - b * c
         /\ (-a) * b = -(a * b) /\ a * b = b * a
         /\ (a * b) * c = a * (b * c) /\ a * b \in Int
OBVIOUS

LEMMA KeepsOrder ==
  ASSUME NEW n \in Nat, NEW a \in Int, NEW b \in Int, a <= b
  PROVE  n * a <= n * b
OBVIOUS

LEMMA KeepsOrderBack ==
  ASSUME NEW n \in Nat \ {0}, NEW a \in Int, NEW b \in Int, n * a <= n * b
  PROVE  a <= b
OBVIOUS

-----------------------------------------------------------------------------
(* Grains *)

Grains(f, m) == f = [n \in 0..m |-> IF n = 0 THEN 1 ELSE QtyMultiple * f[n - 1]]

LEMMA GrainsExist ==
  ASSUME NEW m \in Nat
  PROVE  \E f : Grains(f, m)
<1> DEFINE P == {n \in Nat : \E f : Grains(f, n)}
<1>1. 0 \in P
  <2>1. Grains([n \in 0..0 |-> 1], 0)
    BY DEF Grains
  <2> QED
    BY <2>1
<1>2. ASSUME NEW n \in Nat, n \in P PROVE n + 1 \in P
  <2>1. PICK f : Grains(f, n)
    BY <1>2
  <2> DEFINE g == [k \in 0..(n + 1) |-> IF k = n + 1 THEN QtyMultiple * f[n] ELSE f[k]]
  <2>2. ASSUME NEW k \in 0..(n + 1)
        PROVE  g[k] = IF k = 0 THEN 1 ELSE QtyMultiple * g[k - 1]
    <3>1. CASE k = n + 1
      BY <3>1
    <3>2. CASE k # n + 1
      <4>1. k \in 0..n /\ g[k] = f[k] /\ (k # 0 => g[k - 1] = f[k - 1])
        BY <3>2
      <4>2. f[k] = IF k = 0 THEN 1 ELSE QtyMultiple * f[k - 1]
        BY <2>1, <4>1 DEF Grains
      <4> QED
        BY <4>1, <4>2
    <3> QED
      BY <3>1, <3>2
  <2>3. Grains(g, n + 1)
    <3>1. g = [k \in 0..(n + 1) |-> g[k]]
      OBVIOUS
    <3> HIDE DEF g
    <3> QED
      BY <2>2, <3>1 DEF Grains
  <2> QED
    BY <2>3
<1>3. P \in SUBSET Nat
  OBVIOUS
<1> HIDE DEF P
<1>4. \A n \in Nat : n \in P
  BY <1>1, <1>2, <1>3, Induction
<1> QED
  BY <1>4 DEF P

\* Each grain is the multiple of the one before.
LEMMA GrainUnfolds ==
  /\ \A n \in 1..MaxFills : Grain[n] = QtyMultiple * Grain[n - 1]
  /\ \A n \in 0..MaxFills : Grain[n] \in Int
  /\ MaxFills \in Nat /\ QtyMultiple \in Int /\ MaxQty \in Nat \ {0} /\ Scale \in Int
<1>1. MaxFills \in Nat /\ QtyMultiple \in Int /\ MaxQty \in Nat \ {0}
  BY MathAssumption
<1>2. Grains(Grain, MaxFills)
  <2>1. Grain = CHOOSE f : Grains(f, MaxFills)
    BY DEF Grain, Grains
  <2> QED
    BY <1>1, <2>1, GrainsExist
<1>3. Grain[0] = 1 /\ \A n \in 1..MaxFills : Grain[n] = QtyMultiple * Grain[n - 1]
  BY <1>1, <1>2 DEF Grains
<1> DEFINE P == {n \in Nat : n <= MaxFills => Grain[n] \in Int}
<1>4. 0 \in P
  BY <1>3
<1>5. ASSUME NEW n \in Nat, n \in P PROVE n + 1 \in P
  <2> SUFFICES ASSUME n + 1 <= MaxFills PROVE Grain[n + 1] \in Int
    OBVIOUS
  <2>1. Grain[n] \in Int /\ Grain[n + 1] = QtyMultiple * Grain[n]
    BY <1>1, <1>3, <1>5
  <2> QED
    BY <1>1, <2>1
<1>6. P \in SUBSET Nat
  OBVIOUS
<1> HIDE DEF P
<1>7. \A n \in Nat : n \in P
  BY <1>4, <1>5, <1>6, Induction
<1>8. \A n \in 0..MaxFills : Grain[n] \in Int
  BY <1>7 DEF P
<1> QED
  BY <1>1, <1>3, <1>8 DEF Scale

Multiples(n) == {z * Grain[n] : z \in Int}

\* What is a multiple of a grain is one of the grain before.
LEMMA CoarserIsFiner ==
  ASSUME NEW n \in 1..MaxFills, NEW x \in Multiples(n)
  PROVE  x \in Multiples(n - 1)
<1>1. PICK z \in Int : x = z * Grain[n]
  BY DEF Multiples
<1>2. Grain[n] = QtyMultiple * Grain[n - 1] /\ QtyMultiple \in Int /\ Grain[n - 1] \in Int
  <2>1. n - 1 \in 0..MaxFills
    BY GrainUnfolds
  <2> QED
    BY <2>1, GrainUnfolds
<1>3. x = (z * QtyMultiple) * Grain[n - 1] /\ z * QtyMultiple \in Int
  BY <1>1, <1>2, Distributes
<1> QED
  BY <1>3 DEF Multiples

\* Prices are multiples of every grain.
LEMMA PricesAreMultiples ==
  ASSUME NEW price \in Price, NEW n \in 0..MaxFills
  PROVE  price \in Multiples(n) /\ price \in Int
<1> DEFINE P == {k \in Nat : k <= MaxFills => price \in Multiples(MaxFills - k)}
<1>0. PICK z \in Nat : price = z * Scale
  BY MathAssumption DEF Price
<1>1. 0 \in P
  BY <1>0, GrainUnfolds DEF Multiples, Scale
<1>2. ASSUME NEW k \in Nat, k \in P PROVE k + 1 \in P
  <2> SUFFICES ASSUME k + 1 <= MaxFills PROVE price \in Multiples(MaxFills - (k + 1))
    OBVIOUS
  <2> DEFINE m == MaxFills - k
  <2>1. m \in 1..MaxFills /\ price \in Multiples(m) /\ MaxFills - (k + 1) = m - 1
    BY <1>2, GrainUnfolds
  <2> HIDE DEF m
  <2> QED
    BY <2>1, CoarserIsFiner
<1>3. P \in SUBSET Nat
  OBVIOUS
<1> HIDE DEF P
<1>4. \A k \in Nat : k \in P
  BY <1>1, <1>2, <1>3, Induction
<1>5. MaxFills - n \in P /\ MaxFills - n \in Nat /\ MaxFills - (MaxFills - n) = n /\ MaxFills - n <= MaxFills
  BY <1>4, GrainUnfolds
<1>6. price \in Multiples(n)
  BY <1>5 DEF P
<1> QED
  BY <1>0, <1>6, GrainUnfolds

-----------------------------------------------------------------------------
(* What a fill does to a position *)

Average(a, e, b, p) == (a * e + b * p) \div (a + b)

\* The average of two prices is exact, and lies between them.
LEMMA AverageIsExact ==
  ASSUME NEW a \in Nat, NEW b \in Nat \ {0}, a + b \in 1..MaxQty, NEW m \in 1..MaxFills,
         NEW e \in Multiples(m), NEW p \in Multiples(m), NEW avg,
         avg = Average(a, e, b, p)
  PROVE  /\ avg \in Multiples(m - 1) /\ avg \in Int
         /\ (a + b) * avg = a * e + b * p
<1> DEFINE n == a + b
           H == Grain[m - 1]
<1>1. PICK y \in Int : e = y * Grain[m]
  BY DEF Multiples
<1>2. PICK z \in Int : p = z * Grain[m]
  BY DEF Multiples
<1>3. n \in Nat \ {0} /\ n \in 1..MaxQty /\ H \in Int /\ Grain[m] = QtyMultiple * H
  <2>1. m - 1 \in 0..MaxFills
    BY GrainUnfolds
  <2> QED
    BY <2>1, GrainUnfolds
<1>4. PICK k \in Int : QtyMultiple = n * k
  BY <1>3, QuantityDivides
<1> HIDE DEF n, H
<1> DEFINE w == a * y + b * z
           x == (w * k) * H
<1>5. a * e + b * p = w * Grain[m] /\ w \in Int /\ Grain[m] \in Int
  <2>1. Grain[m] \in Int
    BY GrainUnfolds
  <2> QED
    BY <1>1, <1>2, <2>1
<1>6. w * Grain[m] = n * x /\ x \in Int
  <2>1. Grain[m] = (n * k) * H
    BY <1>3, <1>4
  <2> HIDE DEF w
  <2> QED
    BY <1>3, <1>5, <2>1
<1>7. avg = x
  <2> HIDE DEF x, w
  <2> QED
    BY <1>3, <1>5, <1>6, ExactDivision DEF n, Average
<1>8. x \in Multiples(m - 1)
  BY <1>5 DEF Multiples, H
<1> HIDE DEF x, w
<1> QED
  BY <1>5, <1>6, <1>7, <1>8 DEF n

\* What realized and held together are worth moves by what the fill pays: whichever
\* way the fill goes, and whatever it does to the side of the position.
LEMMA FillKeepsBooks ==
  ASSUME NEW q \in Int, NEW d \in Int, d # 0, Abs(q + d) <= MaxQty, NEW m \in 1..MaxFills,
         NEW e \in Multiples(m), e \in Int, NEW p \in Multiples(m), p \in Int,
         q = 0 => e = 0
  PROVE  LET after == SimulateFill(q, e, d, p)
         IN  /\ after.qty = q + d
             /\ after.entry \in Int /\ after.realized \in Int
             /\ after.entry \in Multiples(m - 1)
             /\ after.realized - after.qty * after.entry = -(q * e) - d * p
             /\ SameDirection(q, d) => /\ q + d # 0
                                       /\ q = 0 => after.entry = p
                                       /\ \/ e <= after.entry /\ after.entry <= p
                                          \/ p <= after.entry /\ after.entry <= e
             /\ ~ SameDirection(q, d) => after.entry = ReducedEntry(q, e, d, p)
<1> DEFINE after == SimulateFill(q, e, d, p)
<1>0. MaxQty \in Nat \ {0}
  BY MathAssumption
<1>1. CASE SameDirection(q, d)
  <2> DEFINE a == Abs(q)
             b == Abs(d)
             avg == (a * e + b * p) \div Abs(q + d)
  <2>1. /\ a \in Nat /\ b \in Nat \ {0} /\ a + b = Abs(q + d) /\ a + b \in 1..MaxQty
        /\ q + d # 0 /\ (q = 0 => a = 0)
        /\ (q = a /\ d = b) \/ (q = -a /\ d = -b)
    BY <1>0, <1>1 DEF SameDirection, Abs
  <2>2. after = [qty |-> q + d, entry |-> avg, realized |-> 0]
    BY <1>1, <2>1 DEF SimulateFill, AveragedEntry
  <2> HIDE DEF after
  <2>3. avg = Average(a, e, b, p)
    BY <2>1 DEF Average
  <2> HIDE DEF a, b, avg
  <2>4. avg \in Multiples(m - 1) /\ avg \in Int /\ (a + b) * avg = a * e + b * p
    BY <2>1, <2>3, AverageIsExact
  <2>9. a + b \in Nat \ {0} /\ avg \in Int
    BY <2>1, <2>4
  <2>5. (q + d) * avg = q * e + d * p
    <3>1. CASE q = a /\ d = b
      BY <2>4, <3>1
    <3>2. CASE q = -a /\ d = -b
      <4>1. (q + d) * avg = -((a + b) * avg) /\ q * e + d * p = -(a * e + b * p)
        BY <2>1, <2>4, <3>2
      <4> QED
        BY <2>4, <4>1
    <3> QED
      BY <2>1, <3>1, <3>2
  <2>6. (e <= avg /\ avg <= p) \/ (p <= avg /\ avg <= e)
    <3>1. CASE e <= p
      <4>1. a * e <= a * p /\ b * e <= b * p
        BY <2>1, <3>1, KeepsOrder
      <4>2. (a + b) * e = a * e + b * e /\ (a + b) * p = a * p + b * p
        BY <2>1, Distributes
      <4>3. (a + b) * e <= (a + b) * avg /\ (a + b) * avg <= (a + b) * p
        BY <2>1, <2>4, <4>1, <4>2
      <4> QED
        BY <2>9, <4>3, KeepsOrderBack, Zenon
    <3>2. CASE p <= e
      <4>1. a * p <= a * e /\ b * p <= b * e
        BY <2>1, <3>2, KeepsOrder
      <4>2. (a + b) * e = a * e + b * e /\ (a + b) * p = a * p + b * p
        BY <2>1, Distributes
      <4>3. (a + b) * p <= (a + b) * avg /\ (a + b) * avg <= (a + b) * e
        BY <2>1, <2>4, <4>1, <4>2
      <4> QED
        BY <2>9, <4>3, KeepsOrderBack, Zenon
    <3> QED
      BY <3>1, <3>2
  <2>7. q = 0 => avg = p
    <3> SUFFICES ASSUME q = 0 PROVE avg = p
      OBVIOUS
    <3>1. a + b = b /\ a * e = 0
      BY <2>1
    <3>2. b * avg = b * p
      BY <2>1, <2>4, <3>1
    <3>3. b * avg <= b * p /\ b * p <= b * avg
      BY <2>1, <2>4, <3>2
    <3> QED
      BY <2>1, <2>9, <3>3, KeepsOrderBack
  <2>8. 0 - (q + d) * avg = -(q * e) - d * p
    BY <2>4, <2>5
  <2> QED
    BY <1>1, <2>1, <2>2, <2>4, <2>6, <2>7, <2>8 DEF after
<1>2. CASE ~ SameDirection(q, d)
  <2> DEFINE entry == ReducedEntry(q, e, d, p)
             closed == ClosedAmount(q, d)
  <2>1. after = [qty |-> q + d, entry |-> entry, realized |-> closed * (p - e)]
    BY <1>2 DEF SimulateFill, UnrealizedPnl
  <2>2. \/ entry = p /\ closed = q
        \/ entry = 0 /\ closed = -d /\ q + d = 0
        \/ entry = e /\ closed = -d
    BY <1>2 DEF SameDirection, ReducedEntry, ClosedAmount, Abs
  <2> HIDE DEF after, entry, closed
  <2>3. entry \in Int /\ closed \in Int /\ closed * (p - e) \in Int
    BY <2>2
  <2>4. entry \in Multiples(m - 1)
    <3>1. 0 \in Multiples(m - 1)
      <4>1. m - 1 \in 0..MaxFills
        BY GrainUnfolds
      <4>2. 0 = 0 * Grain[m - 1]
        BY <4>1, GrainUnfolds
      <4> QED
        BY <4>2 DEF Multiples
    <3> QED
      BY <2>2, <3>1, CoarserIsFiner
  <2>5. closed * (p - e) - (q + d) * entry = -(q * e) - d * p
    <3>1. CASE entry = p /\ closed = q
      BY <3>1
    <3>2. CASE entry = 0 /\ closed = -d /\ q + d = 0
      BY <3>2
    <3>3. CASE entry = e /\ closed = -d
      BY <3>3
    <3> QED
      BY <2>2, <3>1, <3>2, <3>3
  <2> QED
    BY <1>2, <2>1, <2>3, <2>4, <2>5 DEF after, entry
<1> QED
  BY <1>1, <1>2

\* The inductive invariant.  The entry price is a multiple of what the fills still
\* to come may divide; without that no average would be exact.
BooksInv ==
  /\ pos.qty \in Int /\ pos.entry \in Int /\ pos.realized \in Int
  /\ cash \in Int /\ paid \subseteq Int /\ count \in 0..MaxFills
  /\ pos.entry \in Multiples(MaxFills - count)
  /\ pos.realized - pos.qty * pos.entry = cash
  /\ EntryAmongPaid

LEMMA BooksInit == MathInit => BooksInv
<1> SUFFICES ASSUME MathInit PROVE BooksInv
  OBVIOUS
<1>1. /\ pos.qty = 0 /\ pos.entry = 0 /\ pos.realized = 0
      /\ cash = 0 /\ paid = {} /\ count = 0
  BY DEF MathInit
<1>2. 0 \in Multiples(MaxFills - 0) /\ count \in 0..MaxFills
  <2>1. MaxFills \in 0..MaxFills /\ MaxFills - 0 = MaxFills /\ 0 \in 0..MaxFills
    BY GrainUnfolds
  <2>2. 0 = 0 * Grain[MaxFills]
    BY <2>1, GrainUnfolds
  <2> QED
    BY <1>1, <2>1, <2>2 DEF Multiples
<1> QED
  BY <1>1, <1>2 DEF BooksInv, EntryAmongPaid

LEMMA BooksStep == BooksInv /\ [MathNext]_mathVars => BooksInv'
<1> SUFFICES ASSUME BooksInv, [MathNext]_mathVars PROVE BooksInv'
  OBVIOUS
<1>1. CASE UNCHANGED mathVars
  BY <1>1 DEF mathVars, BooksInv, EntryAmongPaid
<1>2. ASSUME NEW d \in Int, d # 0, NEW p \in Price, ApplyFill(d, p)
      PROVE  BooksInv'
  <2> DEFINE q == pos.qty
             e == pos.entry
             after == SimulateFill(q, e, d, p)
             m == MaxFills - count
  <2>1. /\ count < MaxFills /\ Abs(after.qty) <= MaxQty
        /\ pos' = [qty |-> after.qty, entry |-> after.entry, realized |-> pos.realized + after.realized]
        /\ cash' = cash - d * p /\ count' = count + 1
        /\ paid' = IF SameDirection(q, d) THEN paid \cup {p}
                   ELSE CASE Abs(d) > Abs(q) -> {p}
                          [] Abs(d) = Abs(q) -> {}
                          [] OTHER           -> paid
    BY <1>2 DEF ApplyFill
  <2>2. /\ q \in Int /\ e \in Int /\ pos.realized \in Int /\ cash \in Int /\ paid \subseteq Int
        /\ pos.realized - q * e = cash /\ (q = 0 => e = 0)
        /\ (q # 0 => (\E x \in paid : x <= e) /\ (\E x \in paid : e <= x))
    BY DEF BooksInv, EntryAmongPaid
  <2>3. m \in 1..MaxFills /\ m - 1 = MaxFills - count' /\ count' \in 0..MaxFills /\ e \in Multiples(m)
    BY <2>1, GrainUnfolds DEF BooksInv
  <2>4. p \in Multiples(m) /\ p \in Int
    <3>1. m \in 0..MaxFills
      BY <2>3, GrainUnfolds
    <3> QED
      BY <3>1, PricesAreMultiples
  <2>5. after.qty = q + d
    BY DEF SimulateFill
  <2> HIDE DEF after, m
  <2>6. /\ after.entry \in Int /\ after.realized \in Int
        /\ after.entry \in Multiples(m - 1)
        /\ after.realized - after.qty * after.entry = -(q * e) - d * p
        /\ SameDirection(q, d) => /\ q + d # 0
                                  /\ q = 0 => after.entry = p
                                  /\ \/ e <= after.entry /\ after.entry <= p
                                     \/ p <= after.entry /\ after.entry <= e
        /\ ~ SameDirection(q, d) => after.entry = ReducedEntry(q, e, d, p)
    BY <1>2, <2>1, <2>2, <2>3, <2>4, <2>5, FillKeepsBooks DEF after
  <2> HIDE DEF q, e
  <2>7. /\ pos'.qty = q + d /\ pos'.entry = after.entry /\ pos'.realized = pos.realized + after.realized
        /\ pos'.qty \in Int /\ pos'.entry \in Int /\ pos'.realized \in Int
    BY <1>2, <2>1, <2>2, <2>5, <2>6
  <2>8. pos'.realized - pos'.qty * pos'.entry = cash' /\ cash' \in Int
    <3> DEFINE worth == (q + d) * after.entry
               held == q * e
               moved == d * p
    <3>1. worth \in Int /\ held \in Int /\ moved \in Int
      BY <1>2, <2>2, <2>4, <2>6
    <3>2. after.realized - worth = -held - moved /\ pos.realized - held = cash /\ cash' = cash - moved
      BY <2>1, <2>2, <2>5, <2>6
    <3>3. pos'.realized - pos'.qty * pos'.entry = (pos.realized + after.realized) - worth
      BY <2>7
    <3>4. after.realized \in Int /\ pos.realized \in Int /\ cash \in Int
      BY <2>2, <2>6
    <3> HIDE DEF worth, held, moved
    <3>5. cash' \in Int /\ (pos.realized + after.realized) - worth = cash'
      BY <3>1, <3>2, <3>4
    <3> QED
      BY <3>3, <3>5
  <2>9. paid' \subseteq Int /\ EntryAmongPaid'
    <3>1. CASE SameDirection(q, d)
      <4>1. paid' = paid \cup {p} /\ q + d # 0
        BY <2>1, <2>6, <3>1
      <4>2. (\E x \in paid' : x <= after.entry) /\ (\E x \in paid' : after.entry <= x)
        <5>1. CASE q = 0
          BY <2>4, <2>6, <3>1, <4>1, <5>1
        <5>2. CASE q # 0
          <6>1. PICK low \in paid : low <= e
            BY <2>2, <5>2
          <6>2. PICK high \in paid : e <= high
            BY <2>2, <5>2
          <6>3. \/ e <= after.entry /\ after.entry <= p
                \/ p <= after.entry /\ after.entry <= e
            BY <2>6, <3>1
          <6>4. low \in Int /\ high \in Int
            BY <2>2
          <6>5. CASE e <= after.entry /\ after.entry <= p
            <7>1. low <= after.entry
              BY <2>2, <2>6, <6>1, <6>4, <6>5
            <7> QED
              BY <4>1, <6>5, <7>1
          <6>6. CASE p <= after.entry /\ after.entry <= e
            <7>1. after.entry <= high
              BY <2>2, <2>6, <6>2, <6>4, <6>6
            <7> QED
              BY <4>1, <6>6, <7>1
          <6> QED
            BY <6>3, <6>5, <6>6
        <5> QED
          BY <5>1, <5>2
      <4> QED
        BY <2>2, <2>4, <2>7, <4>1, <4>2 DEF EntryAmongPaid
    <3>2. CASE ~ SameDirection(q, d)
      <4>1. after.entry = ReducedEntry(q, e, d, p)
        BY <2>6, <3>2
      <4>2. CASE Abs(d) > Abs(q)
        <5>1. paid' = {p} /\ after.entry = p /\ q + d # 0
          BY <1>2, <2>1, <2>2, <3>2, <4>1, <4>2 DEF ReducedEntry, Abs
        <5> QED
          BY <2>4, <2>7, <5>1 DEF EntryAmongPaid
      <4>3. CASE Abs(d) = Abs(q)
        <5>1. paid' = {} /\ q + d = 0 /\ after.entry = 0
          BY <1>2, <2>1, <2>2, <3>2, <4>1, <4>3 DEF SameDirection, ReducedEntry, Abs
        <5> QED
          BY <2>7, <5>1 DEF EntryAmongPaid
      <4>4. CASE Abs(d) < Abs(q)
        <5>1. paid' = paid /\ q + d # 0 /\ q # 0 /\ after.entry = e
          BY <1>2, <2>1, <2>2, <3>2, <4>1, <4>4 DEF ReducedEntry, Abs
        <5> QED
          BY <2>2, <2>7, <5>1 DEF EntryAmongPaid
      <4> QED
        BY <1>2, <2>2, <4>2, <4>3, <4>4 DEF Abs
    <3> QED
      BY <3>1, <3>2
  <2>10. pos'.entry \in Multiples(MaxFills - count')
    BY <2>3, <2>6, <2>7
  <2> QED
    BY <2>3, <2>7, <2>8, <2>9, <2>10 DEF BooksInv, Multiples
<1>3. \A d \in (-2 * MaxQty)..(2 * MaxQty) : d \in Int
  BY GrainUnfolds
<1> QED
  BY <1>1, <1>2, <1>3 DEF MathNext

LEMMA BooksInvariant == MathSpec => []BooksInv
  BY BooksInit, BooksStep, PTL DEF MathSpec

\* No order of opening, adding, reducing, closing and flipping makes or loses money:
\* what a position realized and what it would at any mark is the cash it moved and
\* what it holds.
THEOREM NoMoneyMade == MathSpec => []PnlIsCash
<1>1. BooksInv => PnlIsCash
  <2> SUFFICES ASSUME BooksInv, NEW mark \in Price \cup {0}
               PROVE  pos.realized + UnrealizedPnl(pos.qty, pos.entry, mark)
                        = cash + pos.qty * mark
    BY DEF PnlIsCash
  <2>1. mark \in Int
    <3>1. 0 \in 0..MaxFills
      BY GrainUnfolds
    <3> QED
      BY <3>1, PricesAreMultiples
  <2>2. /\ pos.qty \in Int /\ pos.entry \in Int /\ pos.realized \in Int /\ cash \in Int
        /\ pos.realized - pos.qty * pos.entry = cash
    BY DEF BooksInv
  <2>3. pos.qty * (mark - pos.entry) = pos.qty * mark - pos.qty * pos.entry
    BY <2>1, <2>2
  <2>4. pos.qty * mark \in Int /\ pos.qty * pos.entry \in Int
    BY <2>1, <2>2
  <2> QED
    BY <2>2, <2>3, <2>4 DEF UnrealizedPnl
<1> QED
  BY <1>1, BooksInvariant, PTL

\* The average entry price lies among the prices paid for the side now held.
THEOREM EntryStaysAmongPaid == MathSpec => []EntryAmongPaid
<1>1. BooksInv => EntryAmongPaid
  BY DEF BooksInv
<1> QED
  BY <1>1, BooksInvariant, PTL
=============================================================================
