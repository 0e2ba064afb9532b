------------------------------ MODULE WsClient ------------------------------
(***************************************************************************)
(* One WebSocket client: AbstractWebSocketClient (transport/ws_base.py)    *)
(* with the handshakes of OkxPublicClient and OkxPrivateClient             *)
(* (okx/websocket.py), and the venue's side of the connection (external).  *)
(*                                                                         *)
(* Abstractions: there is no clock, and a session that ends may have lasted *)
(* reconnect_reset_after_secs or not; pings are not messages: while a link *)
(* is up the venue's pongs keep the read timeout from firing, so only a    *)
(* silent link ever meets it.  Between two awaits a task is not            *)
(* interrupted: connecting, sending the handshake and entering _run_io are *)
(* one step, as is handling one frame with the send it schedules.  What    *)
(* was sent on an old connection never arrives after a new one is made.    *)
(***************************************************************************)
EXTENDS Integers, Sequences

CONSTANTS
  Configs,      \* the clients to run: private or not, the constructor's options
  MaxExponent,  \* the largest n for which 0.5 * 2 ** n is a float: 1023
  MaxTrouble    \* bound: failures of the network and the venue, all told

NoLimit == -1  \* max_reconnect_attempts is None

ASSUME WsAssumption ==
  /\ Configs \subseteq [private : BOOLEAN, reconnect : BOOLEAN, limit : Int]
  /\ MaxExponent \in Nat /\ MaxTrouble \in Nat

VARIABLES
  conf,       \* the client's configuration; never changes
  pc,         \* where run() is
  attempt,    \* its reconnect counter
  stopping,   \* stop_event
  link,       \* the connection as the client's socket shows it; "none": _ws is None
  loggedIn,   \* OkxPrivateClient.logged_in
  toVenue,    \* frames sent on the latest connection and not read yet
  fromVenue,  \* frames of the present session that were not dispatched yet
  venue,      \* what the venue knows of the latest connection
  trouble,    \* failures so far
  streak      \* history: sessions in a row that did not last

clientVars == <<conf, pc, attempt, stopping, loggedIn, streak>>
wsVars == <<clientVars, link, toVenue, fromVenue, venue, trouble>>

Login == [type |-> "login"]
LoginAck == [type |-> "ack"]
ErrorFrame == [type |-> "error"]
Subscribe == [type |-> "subscribe"]

NewConnection == [auth |-> "none", subscribed |-> FALSE]

WsInit ==
  /\ conf \in Configs
  /\ pc = "connecting" /\ attempt = 0 /\ stopping = FALSE
  /\ link = "none" /\ loggedIn = FALSE
  /\ toVenue = <<>> /\ fromVenue = <<>> /\ venue = NewConnection
  /\ trouble = 0 /\ streak = 0

\* send: without a connection it raises, on a dead one the frame is lost; the
\* caller, a task nobody awaits, takes no notice of either.
Sent(frame) == IF link = "up" THEN Append(toVenue, frame) ELSE toVenue

\* What arrives at a client whose link is no longer up is lost.
Pushed(frame) == IF link = "up" THEN Append(fromVenue, frame) ELSE fromVenue

HappensTrouble ==
  /\ trouble < MaxTrouble
  /\ trouble' = trouble + 1

-----------------------------------------------------------------------------
(* run and _session *)

\* Mutant: the counter is never reset.
AttemptKept(lasted) == attempt

\* A session that lasted starts the backoff over.
AttemptAfter(lasted) == IF lasted THEN 0 ELSE attempt

GivesUp == conf.limit # NoLimit /\ attempt >= conf.limit

\* _reconnect_delay is computed outside the try: int times float raises
\* OverflowError once the power has no float, and run() ends with it.
AfterSession(lasted) ==
  IF stopping \/ ~ conf.reconnect THEN "returned"
  ELSE IF GivesUp THEN "exhausted"
  ELSE IF AttemptAfter(lasted) > MaxExponent THEN "raised"
  ELSE "backoff"

\* The finally of _session, and the rest of the body of run's loop up to its sleep.
EndSession(lasted) ==
  /\ link' = "none" /\ fromVenue' = <<>>
  /\ pc' = AfterSession(lasted)
  /\ attempt' = IF pc' \in {"backoff", "raised"} THEN AttemptAfter(lasted) ELSE attempt
  /\ streak' = IF lasted THEN 0 ELSE streak + 1
  /\ UNCHANGED <<conf, stopping, loggedIn, toVenue, venue>>

\* Mutant: the handshake relies on a login of before.
HandshakeKeepingLogin == UNCHANGED loggedIn

\* _after_connect forgets the login of an earlier connection.
ClearLogin == loggedIn' = FALSE

\* Mutant: only the first connection gets its handshake.
HandshakeOnce ==
  IF attempt > 0 THEN <<>> ELSE IF conf.private THEN <<Login>> ELSE <<Subscribe>>

\* A private client sends its login and subscribes when that is acknowledged; a
\* public one has its subscriptions sent right away.
Handshake == IF conf.private THEN <<Login>> ELSE <<Subscribe>>

Connect ==
  /\ pc = "connecting"
  /\ pc' = "open" /\ link' = "up"
  /\ IF conf.private THEN ClearLogin ELSE UNCHANGED loggedIn
  /\ toVenue' = Handshake /\ venue' = NewConnection
  /\ UNCHANGED <<conf, attempt, stopping, fromVenue, trouble, streak>>

ConnectFails ==
  /\ pc = "connecting"
  /\ HappensTrouble
  /\ EndSession(FALSE)

Wake ==
  /\ pc = "backoff"
  /\ attempt' = attempt + 1
  /\ pc' = IF stopping THEN "returned" ELSE "connecting"
  /\ UNCHANGED <<conf, stopping, link, loggedIn, toVenue, fromVenue, venue, trouble, streak>>

\* Either task of _run_io ends first: recv or the next ping raises on a closed
\* connection, or the receive loop sees stop_event.  Frames not dispatched are lost.
SessionEnds ==
  /\ pc = "open" /\ (link = "closed" \/ stopping)
  /\ \E lasted \in BOOLEAN : EndSession(lasted)
  /\ UNCHANGED trouble

\* Nothing for read_timeout_secs: the client closes the connection itself.
ReadTimeout ==
  /\ pc = "open" /\ link = "silent" /\ fromVenue = <<>>
  /\ \E lasted \in BOOLEAN : EndSession(lasted)
  /\ UNCHANGED trouble

-----------------------------------------------------------------------------
(* _receive_loop and _dispatch *)

Receives(type) ==
  /\ pc = "open" /\ ~ stopping /\ fromVenue # <<>>
  /\ Head(fromVenue).type = type

\* _on_login_ack.  The subscribe is scheduled and sent on the same connection.
DispatchLoginAck ==
  /\ Receives("ack")
  /\ fromVenue' = Tail(fromVenue)
  /\ loggedIn' = TRUE
  /\ toVenue' = Sent(Subscribe)
  /\ UNCHANGED <<conf, pc, attempt, stopping, link, venue, trouble, streak>>

\* An error is logged and that is all, also when it answers the login.
DispatchError ==
  /\ Receives("error")
  /\ fromVenue' = Tail(fromVenue)
  /\ UNCHANGED <<clientVars, link, toVenue, venue, trouble>>

\* A frame that the decoder cannot read raises out of _dispatch.
DispatchRaises ==
  /\ pc = "open" /\ ~ stopping /\ link = "up"
  /\ HappensTrouble
  /\ \E lasted \in BOOLEAN : EndSession(lasted)

\* stop(): Application calls it on a signal and again in its teardown.
Stop ==
  /\ ~ stopping
  /\ stopping' = TRUE
  /\ link' = IF link = "none" THEN "none" ELSE "closed"
  /\ UNCHANGED <<conf, pc, attempt, loggedIn, toVenue, fromVenue, venue, trouble, streak>>

-----------------------------------------------------------------------------
(* The network and the venue *)

\* The connection breaks or falls silent, with some of the frames on their way.
LinkFails ==
  /\ link = "up"
  /\ HappensTrouble
  /\ link' \in {"closed", "silent"}
  /\ \E n \in 0..Len(fromVenue) : fromVenue' = SubSeq(fromVenue, 1, n)
  /\ \E n \in 0..Len(toVenue) : toVenue' = SubSeq(toVenue, 1, n)
  /\ UNCHANGED <<clientVars, venue>>

VenueReads(type) == toVenue # <<>> /\ Head(toVenue).type = type

VenueAcceptsLogin ==
  /\ VenueReads("login")
  /\ toVenue' = Tail(toVenue)
  /\ venue' = [venue EXCEPT !.auth = "ok"]
  /\ fromVenue' = Pushed(LoginAck)
  /\ UNCHANGED <<clientVars, link, trouble>>

VenueRefusesLogin ==
  /\ VenueReads("login")
  /\ HappensTrouble
  /\ toVenue' = Tail(toVenue)
  /\ venue' = [venue EXCEPT !.auth = "refused"]
  /\ fromVenue' = Pushed(ErrorFrame)
  /\ UNCHANGED <<clientVars, link>>

\* Private channels are login-gated.
Entitled == conf.private => venue.auth = "ok"

VenueSubscribes ==
  /\ VenueReads("subscribe")
  /\ toVenue' = Tail(toVenue)
  /\ venue' = [venue EXCEPT !.subscribed = Entitled]
  /\ fromVenue' = IF Entitled THEN fromVenue ELSE Pushed(ErrorFrame)
  /\ UNCHANGED <<clientVars, link, trouble>>

WsNext ==
  \/ Connect \/ ConnectFails \/ Wake \/ SessionEnds \/ ReadTimeout
  \/ DispatchLoginAck \/ DispatchError \/ DispatchRaises \/ Stop
  \/ LinkFails \/ VenueAcceptsLogin \/ VenueRefusesLogin \/ VenueSubscribes

-----------------------------------------------------------------------------
(* Properties *)

WsTypeOK ==
  /\ conf \in Configs
  /\ pc \in {"connecting", "open", "backoff", "returned", "exhausted", "raised"}
  /\ attempt \in 0..(MaxExponent + 1)
  /\ stopping \in BOOLEAN /\ loggedIn \in BOOLEAN
  /\ link \in {"none", "up", "silent", "closed"}
  /\ pc = "open" <=> link # "none"
  /\ venue \in [auth : {"none", "ok", "refused"}, subscribed : BOOLEAN]
  /\ trouble \in 0..MaxTrouble
  /\ streak \in 0..(trouble + 1)

\* "The same handshake re-runs on every reconnect": the login flag is never left
\* over from an earlier connection, and the subscription of a private channel is
\* never sent on a connection that has not logged in, however connections break
\* between the login, its answer and the subscription.
HandshakeInOrder ==
  conf.private =>
    /\ pc = "open" /\ loggedIn => venue.auth = "ok"
    /\ \A n \in DOMAIN toVenue : toVenue[n] = Subscribe => venue.auth = "ok"

\* run() dies of its own backoff only when so many sessions in a row have not
\* lasted that the next power has no float; one that lasted starts it over.
RaisesOnlyAfterStreak == pc = "raised" => streak > MaxExponent

\* When the network and the venue behave from some time on, the client is served
\* from some time on, unless it was stopped, its configuration let it give up, the
\* backoff had raised, or its login was refused: a refusal is only logged, and the
\* pongs of that useless connection keep it from ever being tried again.
Served == link = "up" /\ venue.subscribed
Ended == pc \in {"returned", "exhausted", "raised"}
LoginRefused == pc = "open" /\ venue.auth = "refused"
ServedInTheEnd == <>[](Served \/ Ended \/ LoginRefused)
=============================================================================
