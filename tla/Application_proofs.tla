------------------------- MODULE Application_proofs -------------------------
(***************************************************************************)
(* Proofs about Application, for any callers, instruments and failures:    *)
(* what callers are told, what goes out, and what a clean end leaves.      *)
(***************************************************************************)
EXTENDS Application, SequenceTheorems, TLAPS

\* What an append of several events does to the log, element by element.
LEMMA Concatenation ==
  ASSUME NEW S, NEW s \in Seq(S), NEW t \in Seq(S)
  PROVE  /\ s \o t \in Seq(S)
         /\ Len(s \o t) = Len(s) + Len(t)
         /\ DOMAIN (s \o t) = 1..(Len(s) + Len(t))
         /\ \A k \in 1..Len(s) : (s \o t)[k] = s[k]
         /\ \A k \in 1..Len(t) : (s \o t)[Len(s) + k] = t[k]
         /\ t = <<>> => s \o t = s
<1>1. /\ s \o t \in Seq(S) /\ Len(s \o t) = Len(s) + Len(t)
      /\ \A k \in 1..Len(s) + Len(t) : (s \o t)[k] = IF k <= Len(s) THEN s[k] ELSE t[k - Len(s)]
  BY ConcatProperties
<1>2. Len(s) \in Nat /\ Len(t) \in Nat
  OBVIOUS
<1>3. \A k \in 1..Len(s) : (s \o t)[k] = s[k]
  BY <1>1, <1>2
<1>4. \A k \in 1..Len(t) : (s \o t)[Len(s) + k] = t[k]
  BY <1>1, <1>2
<1>5. t = <<>> => s \o t = s
  BY ConcatEmptySeq
<1> QED
  BY <1>1, <1>3, <1>4, <1>5

\* The events of the gate: none, the request, or both.
IsRecord(events, c, verdict, appends) ==
  /\ events \in Seq(Events) /\ Len(events) = appends
  /\ \A k \in 1..appends : events[k] = Event(IF k = 1 THEN "request" ELSE verdict, c)
  /\ appends = 0 => events = <<>>

LEMMA GateRecords ==
  \A c \in Caller, verdict \in {"approved", "rejected"}, appends \in 0..2 :
    IsRecord(GateEvents(c, verdict, appends), c, verdict, appends)
<1> TAKE c \in Caller, verdict \in {"approved", "rejected"}, appends \in 0..2
<1>1. \A k \in 1..appends : Event(IF k = 1 THEN "request" ELSE verdict, c) \in Events
  BY DEF Event, Events
<1>2. GateEvents(c, verdict, appends) \in [1..appends -> Events]
  BY <1>1 DEF GateEvents
<1>3. GateEvents(c, verdict, appends) \in Seq(Events) /\ Len(GateEvents(c, verdict, appends)) = appends
  BY <1>2
<1>4. \A k \in 1..appends :
        GateEvents(c, verdict, appends)[k] = Event(IF k = 1 THEN "request" ELSE verdict, c)
  BY DEF GateEvents
<1>5. appends = 0 => GateEvents(c, verdict, appends) = <<>>
  BY <1>3
<1> QED
  BY <1>3, <1>4, <1>5, Zenon DEF IsRecord

\* An order's approval stays in the log as it grows, if of that order only fills
\* are appended.
LEMMA ApprovalStays ==
  ASSUME NEW s \in Seq(Events), NEW t \in Seq(Events), NEW c \in Caller,
         ApprovedIn(s, c),
         \A k \in DOMAIN t : t[k].of = c => t[k].type = "fill"
  PROVE  ApprovedIn(s \o t, c)
<1>1. PICK m \in DOMAIN s, n \in DOMAIN s :
        /\ m < n /\ s[m] = Event("request", c) /\ s[n] = Event("approved", c)
        /\ \A k \in DOMAIN s \ {m, n} : s[k].of = c => s[k].type = "fill" /\ k > n
  BY DEF ApprovedIn
<1> DEFINE l == s \o t
<1>2. /\ DOMAIN l = 1..(Len(s) + Len(t))
      /\ \A k \in 1..Len(s) : l[k] = s[k]
      /\ \A k \in 1..Len(t) : l[Len(s) + k] = t[k]
  BY Concatenation
<1>3. DOMAIN s = 1..Len(s) /\ DOMAIN t = 1..Len(t) /\ Len(s) \in Nat /\ Len(t) \in Nat
  OBVIOUS
<1>4. m \in DOMAIN l /\ n \in DOMAIN l /\ l[m] = s[m] /\ l[n] = s[n]
  BY <1>2, <1>3
<1>5. ASSUME NEW k \in DOMAIN l \ {m, n}, l[k].of = c
      PROVE  l[k].type = "fill" /\ k > n
  <2>1. CASE k \in 1..Len(s)
    BY <1>1, <1>2, <1>3, <1>5, <2>1
  <2>2. CASE k \notin 1..Len(s)
    <3>1. k - Len(s) \in 1..Len(t) /\ k = Len(s) + (k - Len(s)) /\ k > n
      BY <1>2, <1>3, <2>2
    <3>2. l[k] = t[k - Len(s)]
      BY <1>2, <3>1
    <3> QED
      BY <1>3, <1>5, <3>1, <3>2
  <2> QED
    BY <2>1, <2>2
<1> HIDE DEF l
<1>6. ApprovedIn(l, c)
  BY <1>1, <1>4, <1>5 DEF ApprovedIn
<1> QED
  BY <1>6 DEF l

\* Every initial state satisfies the inductive invariant.
LEMMA AppInitInv == AppInit => AppInv
<1> SUFFICES ASSUME AppInit PROVE AppInv
  OBVIOUS
<1>1. ReconTypeOK
  BY DEF AppInit, ReconInit, ReconTypeOK, NoEntries, NoScan
<1>2. log = <<>> /\ sent = {} /\ executed = {} /\ ingested = {}
  BY DEF AppInit
<1>8. log \in Seq(Events) /\ DOMAIN log = {}
  BY <1>2
<1>3. /\ main = "running" /\ task = "live" /\ writer = "open" /\ trouble = 0
      /\ order = [c \in Caller |-> "no call"] /\ result = [c \in Caller |-> "none"]
      /\ answer = [c \in Caller |-> "none"]
  BY DEF AppInit
<1>4. durable \in BOOLEAN /\ snapshot \in BOOLEAN
  BY Zenon DEF AppInit
<1>9. /\ order \in [Caller -> Instr \cup {"no call", "invalid"}]
      /\ result \in [Caller -> {"none", "approved", "rejected", "error"}]
      /\ answer \in [Caller -> {"none", "approved", "rejected", "error", "timeout"}]
  BY <1>3
<1>10. sent \subseteq Caller /\ executed \subseteq sent /\ ingested \subseteq executed
  BY <1>2
<1>11. MaxTrouble \in Nat /\ trouble = 0
  BY AppAssumption DEF AppInit
<1>12. trouble \in 0..MaxTrouble
  BY <1>11
<1>13. /\ main \in {"running", "stopping", "draining", "closed", "failed"}
      /\ task \in {"live", "dead", "cancelled"} /\ writer \in {"open", "broken", "closed"}
  BY <1>3
<1>5. AppTypeOK
  BY <1>1, <1>8, <1>9, <1>10, <1>13, <1>4, <1>12, Zenon DEF AppTypeOK
<1>14. \A c \in Caller : result[c] = "none" /\ answer[c] = "none"
  BY <1>3
<1>6. CallsAgree
  BY <1>2, <1>8, <1>14 DEF CallsAgree, CallAgrees
<1>7. ClosedForGood /\ NothingSentUnlogged
  BY <1>2, <1>3 DEF ClosedForGood, NothingSentUnlogged
<1> QED
  BY <1>5, <1>6, <1>7 DEF AppInv

\* A step of a caller's thread, or a call canceled, leaves log and orders alone.
LEMMA CallStepInv ==
  ASSUME AppInv, NEW c \in Caller,
         \/ \E i \in Asked[c] : Place(c, i)
         \/ PlaceInvalid(c) \/ GetResult(c) \/ TimeOut(c) \/ CancelPlace(c)
  PROVE  AppInv'
<1> USE DEF AppInv
<1>1. UNCHANGED <<lifeVars, log, sent, fillVars, trouble, reconVars>>
  BY DEF Place, PlaceInvalid, GetResult, TimeOut, CancelPlace
<1>2. UNCHANGED <<main, task, writer, durable, snapshot, log, sent, executed, ingested, trouble,
                  positions, account, poller, scan, latest, polled>>
  BY <1>1 DEF lifeVars, fillVars, reconVars
<1>3. ReconTypeOK' /\ ClosedForGood' /\ NothingSentUnlogged'
  BY <1>2 DEF AppTypeOK, ReconTypeOK, ClosedForGood, NothingSentUnlogged
<1>4. /\ order \in [Caller -> Instr \cup {"no call", "invalid"}]
      /\ result \in [Caller -> {"none", "approved", "rejected", "error"}]
      /\ answer \in [Caller -> {"none", "approved", "rejected", "error", "timeout"}]
      /\ {"no call", "invalid"} \cap Instr = {} /\ Asked \in [Caller -> SUBSET Instr]
  BY AppAssumption DEF AppTypeOK
<1>5. /\ order' \in [Caller -> Instr \cup {"no call", "invalid"}]
      /\ result' \in [Caller -> {"none", "approved", "rejected", "error"}]
      /\ answer' \in [Caller -> {"none", "approved", "rejected", "error", "timeout"}]
      /\ CallsAgree'
  <2>1. CASE \E i \in Asked[c] : Place(c, i)
    <3>1. PICK i \in Asked[c] : order' = [order EXCEPT ![c] = i]
      BY <2>1 DEF Place
    <3>2. i \in Instr /\ order[c] = "no call" /\ UNCHANGED <<result, answer, sent, log>>
      BY <1>2, <1>4, <2>1 DEF Place, Calls
    <3>3. \A d \in Caller : order'[d] = IF d = c THEN i ELSE order[d]
      BY <1>4, <3>1
    <3> QED
      BY <1>4, <3>1, <3>2, <3>3 DEF CallsAgree, CallAgrees
  <2>2. CASE PlaceInvalid(c)
    <3>1. /\ order' = [order EXCEPT ![c] = "invalid"] /\ answer' = [answer EXCEPT ![c] = "error"]
          /\ order[c] = "no call" /\ UNCHANGED <<result, sent, log>>
      BY <1>2, <2>2 DEF PlaceInvalid, Calls
    <3>2. \A d \in Caller : /\ order'[d] = IF d = c THEN "invalid" ELSE order[d]
                            /\ answer'[d] = IF d = c THEN "error" ELSE answer[d]
      BY <1>4, <3>1
    <3>3. result[c] = "none"
      <4>1. "no call" \notin Instr
        BY AppAssumption
      <4> QED
        BY <3>1, <4>1 DEF CallsAgree, CallAgrees
    <3>4. UNCHANGED <<result, sent, log>>
      BY <3>1
    <3>5. ASSUME NEW d \in Caller PROVE CallAgrees(d)'
      BY <3>2, <3>3, <3>4 DEF CallsAgree, CallAgrees
    <3>6. CallsAgree'
      BY <3>5 DEF CallsAgree
    <3> QED
      BY <1>4, <3>1, <3>6
  <2>3. CASE GetResult(c)
    <3>1. /\ answer' = [answer EXCEPT ![c] = result[c]]
          /\ result[c] # "none" /\ UNCHANGED <<order, result, sent, log>>
      BY <1>2, <2>3 DEF GetResult
    <3>2. \A d \in Caller : answer'[d] = IF d = c THEN result[c] ELSE answer[d]
      BY <1>4, <3>1
    <3>3. answer' \in [Caller -> {"none", "approved", "rejected", "error", "timeout"}]
      <4>1. result[c] \in {"none", "approved", "rejected", "error"}
        BY <1>4
      <4> QED
        BY <1>4, <3>1, <4>1
    <3>4. CallsAgree'
      BY <3>1, <3>2 DEF CallsAgree, CallAgrees
    <3> QED
      BY <1>4, <3>1, <3>3, <3>4
  <2>4. CASE TimeOut(c)
    <3>1. answer' = [answer EXCEPT ![c] = "timeout"] /\ UNCHANGED <<order, result, sent, log>>
      BY <1>2, <2>4 DEF TimeOut
    <3>2. \A d \in Caller : answer'[d] = IF d = c THEN "timeout" ELSE answer[d]
      BY <1>4, <3>1
    <3> QED
      BY <1>4, <3>1, <3>2 DEF CallsAgree, CallAgrees
  <2>5. CASE CancelPlace(c)
    <3>1. /\ result' = [result EXCEPT ![c] = "error"] /\ result[c] = "none" /\ order[c] \in Instr
          /\ UNCHANGED <<order, answer, sent, log>>
      BY <1>2, <2>5 DEF CancelPlace, Scheduled
    <3>2. \A d \in Caller : result'[d] = IF d = c THEN "error" ELSE result[d]
      BY <1>4, <3>1
    <3> QED
      BY <1>4, <3>1, <3>2 DEF CallsAgree, CallAgrees
  <2> QED
    BY <2>1, <2>2, <2>3, <2>4, <2>5
<1>6. AppTypeOK'
  BY <1>2, <1>3, <1>5 DEF AppTypeOK
<1> QED
  BY <1>3, <1>5, <1>6

\* The reconciler and the exchange leave calls, log and writer alone.
LEMMA OutsideStepInv ==
  ASSUME AppInv, PollStep \/ PollFails \/ \E c \in Caller : Execute(c)
  PROVE  AppInv'
<1> USE DEF AppInv
<1>1. UNCHANGED <<main, task, writer, durable, snapshot, log, order, result, answer, sent, ingested>>
  BY DEF PollStep, PollFails, Execute, lifeVars, callVars, fillVars
<1>2. CallsAgree' /\ ClosedForGood' /\ NothingSentUnlogged'
  BY <1>1 DEF CallsAgree, CallAgrees, ClosedForGood, NothingSentUnlogged
<1>3. ReconTypeOK
  BY DEF AppTypeOK
<1>4. ReconTypeOK' /\ executed' \subseteq sent /\ ingested \subseteq executed' /\ trouble' \in 0..MaxTrouble
  <2>1. CASE PollStep
    <3>1. UNCHANGED <<executed, trouble>>
      BY <2>1 DEF PollStep, fillVars
    <3>2. ReconTypeOK'
      <4>1. CASE ReadAccount
        <5>1. /\ scan' = [NoScan EXCEPT !.exchange = [i \in {j \in Instr : account[j] # 0} |-> account[i]]]
              /\ poller' = "fetched" /\ UNCHANGED <<positions, latest, polled>>
          BY <4>1 DEF ReadAccount
        <5>2. /\ DOMAIN scan'.exchange \subseteq Instr /\ scan'.engine = NoEntries
              /\ DOMAIN scan' = {"exchange", "engine", "size"} /\ DOMAIN NoEntries = {}
          BY <5>1 DEF NoScan, NoEntries
        <5> QED
          BY <1>3, <5>1, <5>2 DEF ReconTypeOK
      <4>5. CASE BeginScan
        BY <1>3, <4>5 DEF BeginScan, ReconTypeOK
      <4>2. ASSUME NEW i \in Instr, CopyEntry(i) PROVE ReconTypeOK'
        <5>1. /\ i \in DOMAIN positions
              /\ scan' = [scan EXCEPT !.engine = With(@, i, positions[i])]
              /\ UNCHANGED <<positions, poller, latest, polled>>
          BY <4>2 DEF CopyEntry
        <5>2. /\ DOMAIN scan' = DOMAIN scan /\ scan'.engine = With(scan.engine, i, positions[i])
              /\ scan'.exchange = scan.exchange
          BY <1>3, <5>1 DEF ReconTypeOK
        <5>3. DOMAIN scan'.engine = {i} \cup DOMAIN scan.engine
          BY <5>2 DEF With
        <5> QED
          BY <1>3, <5>1, <5>2, <5>3 DEF ReconTypeOK
      <4>3. CASE PollerDies
        BY <1>3, <4>3 DEF PollerDies, ReconTypeOK
      <4>4. CASE Report
        <5>1. /\ poller' = "idle" /\ scan' = NoScan /\ UNCHANGED <<positions, polled>>
              /\ latest'.kind = "report" /\ latest'.diverging \subseteq Compared
          BY <4>4 DEF Report
        <5>2. Compared \subseteq Instr
          BY <1>3 DEF Compared, ReconTypeOK
        <5>3. DOMAIN NoScan = {"exchange", "engine", "size"} /\ DOMAIN NoScan.engine = {} /\ DOMAIN NoScan.exchange = {}
          BY DEF NoScan, NoEntries
        <5> QED
          BY <1>3, <5>1, <5>2, <5>3 DEF ReconTypeOK
      <4> QED
        BY <2>1, <4>1, <4>2, <4>3, <4>4, <4>5 DEF PollStep, Poll
    <3> QED
      BY <3>1, <3>2 DEF AppTypeOK
  <2>2. CASE PollFails
    <3>1. trouble' \in 0..MaxTrouble
      <4>1. trouble < MaxTrouble /\ trouble' = trouble + 1 /\ trouble \in 0..MaxTrouble /\ MaxTrouble \in Nat
        BY <2>2, AppAssumption DEF PollFails, HappensTrouble, AppTypeOK
      <4> QED
        BY <4>1
    <3>2. ReconTypeOK'
      BY <1>3, <2>2 DEF PollFails, ReadFails, ReconTypeOK
    <3> QED
      BY <2>2, <3>1, <3>2 DEF PollFails, fillVars, AppTypeOK
  <2>3. ASSUME NEW c \in Caller, Execute(c)
        PROVE  ReconTypeOK' /\ executed' \subseteq sent /\ ingested \subseteq executed' /\ UNCHANGED trouble
    BY <1>3, <2>3 DEF Execute, AccountMoves, AppTypeOK, ReconTypeOK
  <2> QED
    BY <2>1, <2>2, <2>3 DEF AppTypeOK
<1>5. AppTypeOK'
  BY <1>1, <1>4 DEF AppTypeOK
<1> QED
  BY <1>2, <1>5

\* A failure of an append keeps the writer and the count of failures typed.
LEMMA AppendOutcome ==
  ASSUME AppTypeOK, AppendWorks \/ AppendFails
  PROVE  /\ writer' \in {"open", "broken", "closed"} /\ trouble' \in 0..MaxTrouble
         /\ writer = "closed" => writer' = "closed"
<1>1. writer \in {"open", "broken", "closed"} /\ trouble \in 0..MaxTrouble /\ MaxTrouble \in Nat
  BY AppAssumption DEF AppTypeOK
<1>2. CASE AppendWorks
  BY <1>1, <1>2 DEF AppendWorks
<1>3. CASE AppendFails
  <2>1. CASE writer = "open"
    BY <1>1, <1>3, <2>1 DEF AppendFails, HappensTrouble
  <2>2. CASE writer # "open"
    BY <1>1, <1>3, <2>2 DEF AppendFails
  <2> QED
    BY <2>1, <2>2
<1> QED
  BY <1>2, <1>3

\* The tasks, the signal and the teardown leave calls and log alone.
LEMMA LifeStepInv ==
  ASSUME AppInv, CommitTick \/ CommitRaises \/ Shutdown \/ CancelTasks \/ Teardown \/ TeardownRaises
  PROVE  AppInv'
<1> USE DEF AppInv
<1>1. UNCHANGED <<log, order, result, answer, sent, executed, ingested, positions, poller, scan, latest>>
  BY DEF CommitTick, CommitRaises, Shutdown, CancelTasks, Teardown, TeardownRaises,
         callVars, fillVars, reconVars
<1>2. CallsAgree' /\ NothingSentUnlogged'
  BY <1>1 DEF CallsAgree, CallAgrees, NothingSentUnlogged
<1>3. polled' \in BOOLEAN
  BY Zenon DEF CommitTick, CommitRaises, Shutdown, CancelTasks, Teardown, TeardownRaises,
         reconVars, AppTypeOK, ReconTypeOK
<1>4. ReconTypeOK'
  BY <1>1, <1>3, Zenon DEF AppTypeOK, ReconTypeOK
<1>5. /\ writer \in {"open", "broken", "closed"} /\ task \in {"live", "dead", "cancelled"}
      /\ main \in {"running", "stopping", "draining", "closed", "failed"}
  BY DEF AppTypeOK
<1>6. /\ main' \in {"running", "stopping", "draining", "closed", "failed"}
      /\ task' \in {"live", "dead", "cancelled"} /\ writer' \in {"open", "broken", "closed"}
  BY <1>5 DEF CommitTick, CommitRaises, Shutdown, CancelTasks, Teardown, TeardownRaises, CloseWriter
<1>7. trouble' \in 0..MaxTrouble
  <2>1. trouble \in 0..MaxTrouble /\ MaxTrouble \in Nat
    BY AppAssumption DEF AppTypeOK
  <2>2. UNCHANGED trouble \/ HappensTrouble
    BY DEF CommitTick, CommitRaises, Shutdown, CancelTasks, Teardown, TeardownRaises
  <2> QED
    BY <2>1, <2>2 DEF HappensTrouble
<1>8. durable' \in BOOLEAN /\ snapshot' \in BOOLEAN
  BY Zenon DEF CommitTick, CommitRaises, Shutdown, CancelTasks, Teardown, TeardownRaises,
         CloseWriter, AppTypeOK
<1>9. AppTypeOK'
  BY <1>1, <1>4, <1>6, <1>7, <1>8, Zenon DEF AppTypeOK
<1>10. ClosedForGood'
  <2>1. CASE Teardown
    BY <2>1, Zenon DEF Teardown, CloseWriter, ClosedForGood
  <2>2. CASE ~ Teardown
    <3>1. main' # "closed"
      BY <2>2 DEF CommitTick, CommitRaises, Shutdown, CancelTasks, TeardownRaises, Ticks
    <3> QED
      BY <3>1, Zenon DEF ClosedForGood
  <2> QED
    BY <2>1, <2>2
<1> QED
  BY <1>2, <1>9, <1>10

\* A call run by the loop, the log being open, broken or closed.
LEMMA RunPlaceInv ==
  ASSUME AppInv, NEW c \in Caller, RunPlace(c)
  PROVE  AppInv'
<1> USE DEF AppInv
<1>1. PICK verdict \in {"approved", "rejected"}, appends \in 0..2 :
        /\ appends > 0 => writer = "open"
        /\ IF appends = 2 THEN AppendWorks ELSE AppendFails
        /\ Recorded(GateEvents(c, verdict, appends))
        /\ sent' = SentBy(c, appends, verdict = "approved")
        /\ result' = [result EXCEPT ![c] = ResultOf(appends, verdict)]
  BY DEF RunPlace
<1> DEFINE events == GateEvents(c, verdict, appends)
<1>2. /\ UNCHANGED <<main, task, order, answer, executed, ingested>>
      /\ UNCHANGED <<positions, account, poller, scan, latest, polled>>
      /\ result[c] = "none" /\ order[c] \in Instr
  BY DEF RunPlace, fillVars, reconVars, Scheduled
<1>3. /\ events \in Seq(Events) /\ Len(events) = appends
      /\ \A k \in 1..appends : events[k] = Event(IF k = 1 THEN "request" ELSE verdict, c)
      /\ appends = 0 => events = <<>>
  <2>1. IsRecord(events, c, verdict, appends)
    BY GateRecords, Zenon
  <2> QED
    BY <2>1, Zenon DEF IsRecord
<1>4. log \in Seq(Events) /\ log' = log \o events
  BY <1>1 DEF Recorded, AppTypeOK
<1>5. /\ log' \in Seq(Events) /\ DOMAIN log' = 1..(Len(log) + appends) /\ DOMAIN log = 1..Len(log)
      /\ Len(log) \in Nat
      /\ \A k \in 1..Len(log) : log'[k] = log[k]
      /\ \A k \in 1..appends : log'[Len(log) + k] = events[k]
      /\ appends = 0 => log' = log
  BY <1>3, <1>4, Concatenation
<1> HIDE DEF events
<1>6. c \notin sent /\ \A k \in DOMAIN log : log[k].of # c
  BY <1>2 DEF CallsAgree, CallAgrees
<1>7. sent' = IF appends = 2 /\ verdict = "approved" THEN sent \cup {c} ELSE sent
  BY <1>1 DEF SentBy
<1>8. \A d \in Caller :
        result'[d] = IF d # c THEN result[d] ELSE IF appends = 2 THEN verdict ELSE "error"
  BY <1>1 DEF ResultOf, AppTypeOK
<1>9. CallsAgree'
  <2>1. ASSUME NEW d \in Caller, d # c PROVE CallAgrees(d)'
    <3>1. CallAgrees(d)
      BY DEF CallsAgree
    <3>2. result'[d] = result[d] /\ (d \in sent' <=> d \in sent)
      BY <1>7, <1>8, <2>1
    <3>3. ASSUME result[d] = "none", NEW k \in DOMAIN log' PROVE log'[k].of # d
      <4>1. CASE k \in 1..Len(log)
        BY <1>5, <3>1, <3>3, <4>1 DEF CallAgrees
      <4>2. CASE k \notin 1..Len(log)
        <5>1. k - Len(log) \in 1..appends /\ k = Len(log) + (k - Len(log))
          BY <1>5, <4>2
        <5>2. log'[k] = events[k - Len(log)] /\ events[k - Len(log)].of = c
          BY <1>3, <1>5, <5>1 DEF Event
        <5> QED
          BY <2>1, <5>2
      <4> QED
        BY <4>1, <4>2
    <3> QED
      BY <1>2, <3>1, <3>2, <3>3 DEF CallAgrees
  <2>2. CallAgrees(c)'
    <3>1. result'[c] \in {"approved", "rejected", "error"} /\ (c \in sent' <=> result'[c] = "approved")
      BY <1>6, <1>7, <1>8
    <3>2. answer[c] \in {"approved", "rejected"} => FALSE
      BY <1>2 DEF CallsAgree, CallAgrees
    <3>3. answer[c] = "error" => order[c] = "invalid"
      BY <1>2 DEF CallsAgree, CallAgrees
    <3> QED
      BY <1>2, <3>1, <3>2, <3>3 DEF CallAgrees
  <2> QED
    BY <2>1, <2>2 DEF CallsAgree
<1>10. NothingSentUnlogged'
  <2>1. ASSUME NEW d \in sent' PROVE ApprovedIn(log', d)
    <3>1. CASE d # c
      <4>1. d \in sent /\ d \in Caller /\ ApprovedIn(log, d)
        BY <1>7, <2>1, <3>1 DEF NothingSentUnlogged, AppTypeOK
      <4>2. \A k \in DOMAIN events : events[k].of = d => events[k].type = "fill"
        BY <1>3, <3>1 DEF Event
      <4> QED
        BY <1>3, <1>4, <4>1, <4>2, ApprovalStays
    <3>2. CASE d = c
      <4>1. appends = 2 /\ verdict = "approved"
        BY <1>6, <1>7, <2>1, <3>2
      <4> DEFINE m == Len(log) + 1
                 n == Len(log) + 2
      <4>2. /\ m \in DOMAIN log' /\ n \in DOMAIN log' /\ m < n
            /\ log'[m] = Event("request", c) /\ log'[n] = Event("approved", c)
        BY <1>3, <1>5, <4>1
      <4>3. ASSUME NEW k \in DOMAIN log' \ {m, n} PROVE log'[k].of # c
        <5>1. k \in 1..Len(log)
          BY <1>5, <4>1, <4>3
        <5> QED
          BY <1>5, <1>6, <5>1
      <4> QED
        BY <3>2, <4>2, <4>3 DEF ApprovedIn
    <3> QED
      BY <3>1, <3>2
  <2> QED
    BY <2>1 DEF NothingSentUnlogged
<1>11. ClosedForGood'
  <2>1. CASE main = "closed"
    <3>1. writer = "closed" /\ durable /\ snapshot
      BY <2>1 DEF ClosedForGood
    <3>2. appends = 0 /\ AppendFails
      BY <1>1, <3>1
    <3>3. writer' = "closed"
      BY <3>1, <3>2, AppendOutcome
    <3>4. events = <<>>
      BY <1>3, <3>2
    <3>5. durable' /\ snapshot'
      BY <1>1, <3>1, <3>4, Zenon DEF Recorded, events
    <3> QED
      BY <3>3, <3>5, Zenon DEF ClosedForGood
  <2>2. CASE main # "closed"
    BY <1>2, <2>2, Zenon DEF ClosedForGood
  <2> QED
    BY <2>1, <2>2
<1>12. AppTypeOK'
  <2>1. writer' \in {"open", "broken", "closed"} /\ trouble' \in 0..MaxTrouble
    BY <1>1, AppendOutcome
  <2>2. durable' \in BOOLEAN /\ snapshot' \in BOOLEAN
    BY <1>1, Zenon DEF Recorded
  <2>3. ReconTypeOK'
    BY <1>2, Zenon DEF AppTypeOK, ReconTypeOK
  <2>4. result' \in [Caller -> {"none", "approved", "rejected", "error"}]
    <3>1. ResultOf(appends, verdict) \in {"none", "approved", "rejected", "error"}
      BY DEF ResultOf
    <3> QED
      BY <1>1, <3>1 DEF AppTypeOK
  <2>5. sent' \subseteq Caller /\ executed \subseteq sent'
    BY <1>7 DEF AppTypeOK
  <2> QED
    BY <1>2, <1>5, <2>1, <2>2, <2>3, <2>4, <2>5, Zenon DEF AppTypeOK
<1> QED
  BY <1>9, <1>10, <1>11, <1>12

\* A fill, recorded or not.
LEMMA FillInv ==
  ASSUME AppInv, NEW c \in Caller, FillArrives(c)
  PROVE  AppInv'
<1> USE DEF AppInv
<1>1. /\ UNCHANGED <<main, task, order, result, answer, sent, executed>>
      /\ main # "closed" /\ c \in executed /\ ingested' = ingested \cup {c}
  BY DEF FillArrives, callVars
<1>2. c \in sent /\ order[c] \in Instr
  <2>1. c \in sent
    BY <1>1 DEF AppTypeOK
  <2>2. CallAgrees(c)
    BY DEF CallsAgree
  <2>3. result[c] = "approved"
    BY <2>1, <2>2, Zenon DEF CallAgrees
  <2> QED
    BY <2>1, <2>2, <2>3 DEF CallAgrees
<1>3. PICK events \in {<<>>, <<Event("fill", c)>>} :
        Recorded(events) /\ (AppendWorks \/ AppendFails)
  BY DEF FillArrives
<1>4. /\ events \in Seq(Events) /\ \A k \in DOMAIN events : events[k] = Event("fill", c)
      /\ log \in Seq(Events) /\ log' = log \o events
  <2>1. Event("fill", c) \in Events
    BY DEF Event, Events
  <2>2. events = <<>> \/ events = <<Event("fill", c)>>
    BY <1>3
  <2>3. log \in Seq(Events) /\ log' = log \o events
    BY <1>3 DEF Recorded, AppTypeOK
  <2> DEFINE fill == Event("fill", c)
  <2> HIDE DEF fill
  <2>4. fill \in Events /\ (events = <<>> \/ events = <<fill>>)
    BY <2>1, <2>2 DEF fill
  <2>5. events \in Seq(Events) /\ \A k \in DOMAIN events : events[k] = fill
    <3>1. CASE events = <<>>
      BY <3>1
    <3>2. CASE events = <<fill>>
      <4>1. <<fill>> \in Seq(Events)
        BY <2>4
      <4>2. Len(<<fill>>) = 1 /\ <<fill>>[1] = fill
        OBVIOUS
      <4>3. DOMAIN <<fill>> = 1..1
        BY <4>1, <4>2
      <4> QED
        BY <3>2, <4>1, <4>2, <4>3
    <3> QED
      BY <2>4, <3>1, <3>2
  <2> QED
    BY <2>3, <2>5 DEF fill
<1>5. /\ log' \in Seq(Events) /\ DOMAIN log' = 1..(Len(log) + Len(events)) /\ DOMAIN log = 1..Len(log)
      /\ Len(log) \in Nat /\ Len(events) \in Nat /\ DOMAIN events = 1..Len(events)
      /\ \A k \in 1..Len(log) : log'[k] = log[k]
      /\ \A k \in 1..Len(events) : log'[Len(log) + k] = events[k]
  BY <1>4, Concatenation
<1>6. CallsAgree'
  <2>1. ASSUME NEW d \in Caller PROVE CallAgrees(d)'
    <3>1. CallAgrees(d) /\ CallAgrees(c)
      BY DEF CallsAgree
    <3>2. ASSUME result[d] = "none", NEW k \in DOMAIN log' PROVE log'[k].of # d
      <4>1. CASE k \in 1..Len(log)
        BY <1>5, <3>1, <3>2, <4>1 DEF CallAgrees
      <4>2. CASE k \notin 1..Len(log)
        <5>1. k - Len(log) \in 1..Len(events) /\ k = Len(log) + (k - Len(log))
          BY <1>5, <4>2
        <5>2. log'[k] = events[k - Len(log)] /\ events[k - Len(log)].of = c
          BY <1>4, <1>5, <5>1 DEF Event
        <5>3. c # d
          BY <1>2, <3>1, <3>2 DEF CallAgrees
        <5> QED
          BY <5>2, <5>3
      <4> QED
        BY <4>1, <4>2
    <3> QED
      BY <1>1, <3>1, <3>2 DEF CallAgrees
  <2> QED
    BY <2>1 DEF CallsAgree
<1>7. NothingSentUnlogged'
  <2>1. ASSUME NEW d \in sent PROVE ApprovedIn(log', d)
    <3>1. d \in Caller /\ ApprovedIn(log, d)
      BY DEF NothingSentUnlogged, AppTypeOK
    <3>2. \A k \in DOMAIN events : events[k].of = d => events[k].type = "fill"
      BY <1>4 DEF Event
    <3> QED
      BY <1>4, <3>1, <3>2, ApprovalStays
  <2> QED
    BY <1>1, <2>1 DEF NothingSentUnlogged
<1>8. ClosedForGood'
  BY <1>1, Zenon DEF ClosedForGood
<1>9. ReconTypeOK'
  <2>1. ReconTypeOK
    BY DEF AppTypeOK
  <2>2. CASE FoldPosition(order[c])
    <3>1. DOMAIN positions' = DOMAIN positions \cup {order[c]}
      BY <2>2 DEF FoldPosition, With
    <3>2. UNCHANGED <<poller, scan, latest, polled>>
      BY <2>2 DEF FoldPosition
    <3>3. DOMAIN positions' \subseteq Instr /\ DOMAIN positions \subseteq DOMAIN positions'
      BY <1>2, <2>1, <3>1 DEF ReconTypeOK
    <3> QED
      BY <2>1, <3>2, <3>3 DEF ReconTypeOK
  <2>3. CASE UNCHANGED reconVars
    BY <2>1, <2>3 DEF ReconTypeOK, reconVars
  <2> QED
    BY <2>2, <2>3 DEF FillArrives
<1>10. AppTypeOK'
  <2>1. writer' \in {"open", "broken", "closed"} /\ trouble' \in 0..MaxTrouble
    BY <1>3, AppendOutcome
  <2>2. durable' \in BOOLEAN /\ snapshot' \in BOOLEAN
    BY <1>3, Zenon DEF Recorded
  <2>3. ingested' \subseteq executed
    BY <1>1 DEF AppTypeOK
  <2> QED
    BY <1>1, <1>5, <1>9, <2>1, <2>2, <2>3, Zenon DEF AppTypeOK
<1> QED
  BY <1>6, <1>7, <1>8, <1>10

\* Every step keeps the invariant.
LEMMA AppStepInv == AppInv /\ [AppNext]_appVars => AppInv'
<1> SUFFICES ASSUME AppInv, [AppNext]_appVars PROVE AppInv'
  OBVIOUS
<1>1. ASSUME NEW c \in Caller,
             \/ \E i \in Asked[c] : Place(c, i)
             \/ PlaceInvalid(c) \/ GetResult(c) \/ TimeOut(c) \/ CancelPlace(c)
      PROVE  AppInv'
  BY <1>1, CallStepInv
<1>2. ASSUME NEW c \in Caller, RunPlace(c) PROVE AppInv'
  BY <1>2, RunPlaceInv
<1>3. ASSUME NEW c \in Caller, FillArrives(c) PROVE AppInv'
  BY <1>3, FillInv
<1>4. CASE PollStep \/ PollFails \/ \E c \in Caller : Execute(c)
  BY <1>4, OutsideStepInv
<1>5. CASE CommitTick \/ CommitRaises \/ Shutdown \/ CancelTasks \/ Teardown \/ TeardownRaises
  BY <1>5, LifeStepInv
<1>6. CASE UNCHANGED appVars
  <2>1. /\ UNCHANGED <<main, task, writer, durable, snapshot, log, order, result, answer, sent>>
        /\ UNCHANGED <<executed, ingested, trouble, positions, account, poller, scan, latest, polled>>
    BY <1>6 DEF appVars, lifeVars, callVars, fillVars, reconVars
  <2>2. AppTypeOK'
    <3>1. ReconTypeOK'
      BY <2>1, Zenon DEF AppInv, AppTypeOK, ReconTypeOK
    <3> QED
      BY <2>1, <3>1, Zenon DEF AppInv, AppTypeOK
  <2>3. CallsAgree' /\ ClosedForGood' /\ NothingSentUnlogged'
    BY <2>1 DEF AppInv, CallsAgree, CallAgrees, ClosedForGood, NothingSentUnlogged
  <2> QED
    BY <2>2, <2>3 DEF AppInv
<1> QED
  BY <1>1, <1>2, <1>3, <1>4, <1>5, <1>6 DEF AppNext

\* The inductive invariant holds throughout every life of the process.
THEOREM AppInvariant == AppSpec => []AppInv
  BY AppInitInv, AppStepInv, PTL DEF AppSpec

\* What a caller is told agrees with what has gone out, for any number of callers,
\* at any interleaving with the loop, the disk's failures and the shutdown.  An
\* answer that timed out is left open: the order may still go out.
THEOREM AppAnswerIsHonest == AppSpec => []AnswerIsHonest
<1>1. AppInv => AnswerIsHonest
  <2> SUFFICES ASSUME AppInv, NEW c \in Caller
               PROVE  /\ answer[c] = "approved" => c \in sent
                      /\ answer[c] \in {"rejected", "error"} => c \notin sent
    BY DEF AnswerIsHonest
  <2>1. CallAgrees(c) /\ "invalid" \notin Instr
    BY AppAssumption DEF AppInv, CallsAgree
  <2> QED
    BY <2>1 DEF CallAgrees
<1> QED
  BY <1>1, AppInvariant, PTL

\* No order goes out without its request and its approval in the log, in order.
THEOREM AppNothingSentUnlogged == AppSpec => []NothingSentUnlogged
<1>1. AppInv => NothingSentUnlogged
  BY DEF AppInv
<1> QED
  BY <1>1, AppInvariant, PTL

\* A teardown that came to its end leaves all of the log durable and in a snapshot,
\* and it stays all of the log whatever runs after it.
THEOREM AppCleanExitIsComplete == AppSpec => []CleanExitIsComplete
<1>1. AppInv => CleanExitIsComplete
  BY Zenon DEF AppInv, ClosedForGood, CleanExitIsComplete
<1> QED
  BY <1>1, AppInvariant, PTL
=============================================================================
