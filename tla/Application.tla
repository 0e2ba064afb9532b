----------------------------- MODULE Application -----------------------------
(***************************************************************************)
(* One life of the primary process on a real account (application.py): the *)
(* engine loop with its periodic commit, its signal handler and teardown;  *)
(* the threads of the dashboard's HTTP server that place orders through    *)
(* the bridge (obs/server.py, core/order_bridge.py, core/gateway.py); the  *)
(* reconciler thread; and the exchange (external).                         *)
(*                                                                         *)
(* Whatever runs on the loop between two awaits is one step, and so are    *)
(* the synchronous calls of _teardown; the threads interleave with all of  *)
(* it.  The end of the process, soon after the teardown, is not a step.    *)
(* Each caller makes one call.  The log is its sequence of events, here    *)
(* those of orders only; its file is the module LogWriter, what the gate   *)
(* decides the module Pipeline, the staleness check FeedHealth, the fill   *)
(* backstop FillAdmission and the periodic snapshot Recovery.  A writer is *)
(* "broken" when growing the file has failed, which leaves its mapping     *)
(* closed for good.                                                        *)
(***************************************************************************)
EXTENDS ExchangeReconciler, Sequences

CONSTANTS
  Caller,
  Asked,      \* the instruments a caller may ask for
  MaxTrouble  \* bound: failures of the disk and of the REST calls, all told

ASSUME AppAssumption ==
  /\ Asked \in [Caller -> SUBSET Instr] /\ {"no call", "invalid"} \cap Instr = {}
  /\ MaxTrouble \in Nat

VARIABLES
  main,      \* where Application.run is
  task,      \* the task of the periodic commit
  writer,    \* the log writer
  log,       \* its events; the state is their fold
  durable,   \* is all of it committed?
  snapshot,  \* does the snapshot of the teardown cover all of it?
  order,     \* of each call: the instrument; "no call"
  result,    \* of each call: what its future holds; "none" while it has none
  answer,    \* of each call: what the caller was told
  sent,      \* calls whose order was handed to the execution client
  executed,  \* ... whose order the exchange executed
  ingested,  \* ... whose fill has passed the ingestor
  trouble    \* failures so far

lifeVars == <<main, task, writer, durable, snapshot>>
callVars == <<order, result, answer>>
fillVars == <<executed, ingested>>
appVars == <<lifeVars, log, callVars, sent, fillVars, trouble, reconVars>>

Event(type, c) == [type |-> type, of |-> c]

AppInit ==
  /\ ReconInit
  /\ main = "running"
  /\ task = "live"
  /\ writer = "open" /\ log = <<>> /\ durable = TRUE /\ snapshot = FALSE
  /\ order = [c \in Caller |-> "no call"]
  /\ result = [c \in Caller |-> "none"]
  /\ answer = [c \in Caller |-> "none"]
  /\ sent = {} /\ executed = {} /\ ingested = {}
  /\ trouble = 0

HappensTrouble == trouble < MaxTrouble /\ trouble' = trouble + 1

-----------------------------------------------------------------------------
(* The HTTP threads: do_POST and OrderBridge.place *)

Calls(c) == order[c] = "no call"

\* run_coroutine_threadsafe.  The loop is bound before the server starts.
Place(c, i) ==
  /\ Calls(c)
  /\ order' = [order EXCEPT ![c] = i]
  /\ UNCHANGED <<lifeVars, log, result, answer, sent, fillVars, trouble, reconVars>>

\* A request that cannot be read, a side that is none, a quantity not above zero.
PlaceInvalid(c) ==
  /\ Calls(c)
  /\ order' = [order EXCEPT ![c] = "invalid"]
  /\ answer' = [answer EXCEPT ![c] = "error"]
  /\ UNCHANGED <<lifeVars, log, result, sent, fillVars, trouble, reconVars>>

Waiting(c) == order[c] # "no call" /\ answer[c] = "none"

GetResult(c) ==
  /\ Waiting(c) /\ result[c] # "none"
  /\ answer' = [answer EXCEPT ![c] = result[c]]
  /\ UNCHANGED <<lifeVars, log, order, result, sent, fillVars, trouble, reconVars>>

\* future.result(timeout=5) raises; the call stays scheduled.
TimeOut(c) ==
  /\ Waiting(c) /\ result[c] = "none"
  /\ answer' = [answer EXCEPT ![c] = "timeout"]
  /\ UNCHANGED <<lifeVars, log, order, result, sent, fillVars, trouble, reconVars>>

-----------------------------------------------------------------------------
(* The engine loop *)

Scheduled(c) == order[c] \in Instr /\ result[c] = "none"

AppendWorks == writer = "open" /\ UNCHANGED <<writer, trouble>>

\* The file cannot grow: flushing the mapping raised, or enlarging the file after
\* the mapping was closed.  Without a mapping every append raises.
AppendFails ==
  IF writer = "open" THEN HappensTrouble /\ writer' \in {"open", "broken"}
  ELSE UNCHANGED <<writer, trouble>>

Recorded(events) ==
  /\ log' = log \o events
  /\ durable' = (durable /\ events = <<>>) /\ snapshot' = (snapshot /\ events = <<>>)

\* Mutants: the order goes out before the decision is in the log; an append that
\* raises is taken no notice of.
SentBeforeLogged(c, appends, approved) == IF appends >= 1 /\ approved THEN sent \cup {c} ELSE sent
ResultSwallowed(appends, verdict) == verdict

\* OrderGateway.place submits what was approved after both appends; an append that
\* raises ends it, and the future holds the exception.
SentBy(c, appends, approved) == IF appends = 2 /\ approved THEN sent \cup {c} ELSE sent
ResultOf(appends, verdict) == IF appends = 2 THEN verdict ELSE "error"

GateEvents(c, verdict, appends) ==
  [k \in 1..appends |-> Event(IF k = 1 THEN "request" ELSE verdict, c)]

\* _place on the loop: the request and the gate's decision are recorded, as far as
\* the appends work.
RunPlace(c) ==
  /\ Scheduled(c)
  /\ \E verdict \in {"approved", "rejected"}, appends \in 0..2 :
       /\ appends > 0 => writer = "open"
       /\ IF appends = 2 THEN AppendWorks ELSE AppendFails
       /\ Recorded(GateEvents(c, verdict, appends))
       /\ sent' = SentBy(c, appends, verdict = "approved")
       /\ result' = [result EXCEPT ![c] = ResultOf(appends, verdict)]
  /\ UNCHANGED <<main, task, order, answer, fillVars, reconVars>>

\* A fill from the private channel: the ingestor has it as seen and publishes it;
\* if recording it raises, the bus logs that and goes on to the next handler.
FillArrives(c) ==
  /\ main \in {"running", "stopping", "draining"}
  /\ c \in executed \ ingested
  /\ ingested' = ingested \cup {c}
  /\ \/ AppendWorks /\ Recorded(<<Event("fill", c)>>) /\ FoldPosition(order[c])
     \/ AppendFails /\ Recorded(<<>>) /\ UNCHANGED reconVars
  /\ UNCHANGED <<main, task, callVars, sent, executed>>

-----------------------------------------------------------------------------
(* Application *)

Ticks == main \in {"running", "stopping"} /\ task = "live"

CommitTick ==
  /\ Ticks /\ ~ durable /\ writer = "open"
  /\ durable' = TRUE
  /\ UNCHANGED <<main, task, writer, snapshot, log, callVars, sent, fillVars, trouble, reconVars>>

\* The disk refuses, or the mapping is gone: the exception ends the task, and
\* nobody looks at the task before the teardown gathers it.
CommitRaises ==
  /\ Ticks /\ ~ durable
  /\ IF writer = "open" THEN HappensTrouble ELSE UNCHANGED trouble
  /\ task' = "dead"
  /\ UNCHANGED <<main, writer, durable, snapshot, log, callVars, sent, fillVars, reconVars>>

\* _shutdown, on SIGINT or SIGTERM.
Shutdown ==
  /\ main = "running"
  /\ main' = "stopping"
  /\ UNCHANGED <<task, writer, durable, snapshot, log, callVars, sent, fillVars, trouble, reconVars>>

\* run goes on to _teardown, which cancels the tasks and awaits them.
CancelTasks ==
  /\ main = "stopping"
  /\ main' = "draining"
  /\ task' = IF task = "live" THEN "cancelled" ELSE task
  /\ UNCHANGED <<writer, durable, snapshot, log, callVars, sent, fillVars, trouble, reconVars>>

\* Mutants: the writer is left to the end of the process; it is closed without a
\* last commit.
WriterLeftOpen == durable' = TRUE /\ UNCHANGED writer
CloseUncommitted == writer' = "closed" /\ UNCHANGED durable

\* LogWriter.close: a last commit, if there is anything to commit.
CloseWriter ==
  /\ writer = "open" \/ durable
  /\ writer' = "closed"
  /\ durable' = TRUE

\* The rest of _teardown, which awaits nothing: snapshot, close, stop the services.
Teardown ==
  /\ main = "draining"
  /\ main' = "closed"
  /\ snapshot' = TRUE
  /\ CloseWriter
  /\ polled' = FALSE
  /\ UNCHANGED <<task, log, callVars, sent, fillVars, trouble, positions, account, poller, scan, latest>>

\* The snapshot raises, or after it the commit of close: nothing more of it is done.
TeardownRaises ==
  /\ main = "draining"
  /\ main' = "failed"
  /\ \/ HappensTrouble /\ snapshot' \in {snapshot, TRUE}
     \/ writer = "broken" /\ ~ durable /\ snapshot' = TRUE /\ UNCHANGED trouble
  /\ UNCHANGED <<task, writer, durable, log, callVars, sent, fillVars, reconVars>>

\* asyncio.run cancels the tasks that are left, among them calls not started.
CancelPlace(c) ==
  /\ main \in {"closed", "failed"} /\ Scheduled(c)
  /\ result' = [result EXCEPT ![c] = "error"]
  /\ UNCHANGED <<lifeVars, log, order, answer, sent, fillVars, trouble, reconVars>>

-----------------------------------------------------------------------------
(* The reconciler thread and the exchange *)

\* After the teardown neither matters any more.
Up == main \in {"running", "stopping", "draining"}

PollStep ==
  /\ Up /\ Poll
  /\ UNCHANGED <<lifeVars, log, callVars, sent, fillVars, trouble>>

PollFails ==
  /\ Up /\ HappensTrouble /\ ReadFails
  /\ UNCHANGED <<lifeVars, log, callVars, sent, fillVars>>

Execute(c) ==
  /\ Up /\ c \in sent \ executed
  /\ executed' = executed \cup {c}
  /\ AccountMoves(order[c])
  /\ UNCHANGED <<lifeVars, log, callVars, sent, ingested, trouble>>

AppNext ==
  \/ \E c \in Caller :
       \/ \E i \in Asked[c] : Place(c, i)
       \/ PlaceInvalid(c) \/ GetResult(c) \/ TimeOut(c)
       \/ RunPlace(c) \/ CancelPlace(c) \/ FillArrives(c) \/ Execute(c)
  \/ CommitTick \/ CommitRaises
  \/ Shutdown \/ CancelTasks \/ Teardown \/ TeardownRaises
  \/ PollStep \/ PollFails

AppSpec == AppInit /\ [][AppNext]_appVars

\* The loop runs what is ready, the timers fire, and the threads are scheduled.
FairAppSpec ==
  /\ AppSpec
  /\ WF_appVars(CommitTick \/ CommitRaises)
  /\ WF_appVars(CancelTasks \/ Teardown \/ TeardownRaises)
  /\ WF_appVars(PollStep)

-----------------------------------------------------------------------------
(* Properties *)

Events == [type : {"request", "approved", "rejected", "fill"}, of : Caller]

AppTypeOK ==
  /\ ReconTypeOK
  /\ main \in {"running", "stopping", "draining", "closed", "failed"}
  /\ task \in {"live", "dead", "cancelled"}
  /\ writer \in {"open", "broken", "closed"}
  /\ log \in Seq(Events)
  /\ durable \in BOOLEAN /\ snapshot \in BOOLEAN
  /\ order \in [Caller -> Instr \cup {"no call", "invalid"}]
  /\ result \in [Caller -> {"none", "approved", "rejected", "error"}]
  /\ answer \in [Caller -> {"none", "approved", "rejected", "error", "timeout"}]
  /\ sent \subseteq Caller /\ executed \subseteq sent /\ ingested \subseteq executed
  /\ trouble \in 0..MaxTrouble

\* A caller who is told "approved" has an order at the execution client; one who is
\* told "rejected" or that it failed has none and will have none, whatever the disk
\* and the shutdown do to its call.  Only the timeout, which looks like a failure,
\* leaves it open: the call is still scheduled and its order may go out later.
AnswerIsHonest ==
  \A c \in Caller :
    /\ answer[c] = "approved" => c \in sent
    /\ answer[c] \in {"rejected", "error"} => c \notin sent

ApprovedIn(events, c) ==
  \E m, n \in DOMAIN events :
    /\ m < n /\ events[m] = Event("request", c) /\ events[n] = Event("approved", c)
    /\ \A k \in DOMAIN events \ {m, n} : events[k].of = c => events[k].type = "fill" /\ k > n

\* No order reaches the exchange without its request and then its approval in the
\* log, once each: not when the disk fails between the two, nor from a call that
\* the loop runs after the log is closed.
NothingSentUnlogged == \A c \in sent : ApprovedIn(log, c)

\* Inductive, with the parts below: a call's future, its order and its place in the
\* log go together, and after the log is closed nothing is appended.
CallAgrees(c) ==
  /\ c \in sent <=> result[c] = "approved"
  /\ result[c] # "none" => order[c] \in Instr
  /\ answer[c] \in {"approved", "rejected"} => result[c] = answer[c]
  /\ answer[c] = "error" => result[c] = "error" \/ order[c] = "invalid"
  /\ result[c] = "none" => \A k \in DOMAIN log : log[k].of # c

CallsAgree == \A c \in Caller : CallAgrees(c)

ClosedForGood == main = "closed" => writer = "closed" /\ durable /\ snapshot

\* A shutdown that comes to its end leaves a durable log and a snapshot of all of
\* it, also if calls and fills came in while the tasks were being awaited, or run
\* after the teardown.
CleanExitIsComplete ==
  main = "closed" => durable /\ snapshot

AppInv == AppTypeOK /\ CallsAgree /\ ClosedForGood /\ NothingSentUnlogged

\* Every event gets durable in the end, unless the disk has ended the commit task,
\* which nobody notices, or the teardown.
AppendedGetsDurable ==
  ~ durable ~> durable \/ task = "dead" \/ main = "failed"

\* What the dashboard shows of the account is right from some time on, in a process
\* that goes on: each failed read is followed by another.  The exception is a first
\* fill in an instrument during a comparison, which ends the thread.
MismatchShown ==
  <>[](\/ latest = [kind |-> "report", diverging |-> Diverging]
       \/ poller = "dead" \/ main \in {"closed", "failed"})
=============================================================================
