-------------------------- MODULE OkxOrders_proofs --------------------------
(***************************************************************************)
(* Proofs about WsClient and OkxOrders, for any set of books and of        *)
(* configurations, and any number of orders, failures and restarts.        *)
(***************************************************************************)
EXTENDS OkxOrders, SequenceTheorems, TLAPS

-----------------------------------------------------------------------------
(* Sequences as sets of what is in them *)

In(s) == {s[n] : n \in DOMAIN s}

\* What is left of a queue when its head is taken.
LEMMA InTail ==
  ASSUME NEW S, NEW s \in Seq(S), s # <<>>
  PROVE  /\ Tail(s) \in Seq(S) /\ Head(s) \in In(s)
         /\ In(Tail(s)) \subseteq In(s)
         /\ \A n \in DOMAIN Tail(s) : n + 1 \in DOMAIN s /\ Tail(s)[n] = s[n + 1] /\ n >= 1
<1>1. /\ Tail(s) \in Seq(S) /\ Len(Tail(s)) = Len(s) - 1
      /\ \A n \in 1..Len(Tail(s)) : Tail(s)[n] = s[n + 1]
  BY HeadTailProperties
<1>2. DOMAIN Tail(s) = 1..(Len(s) - 1) /\ DOMAIN s = 1..Len(s) /\ Len(s) \in Nat \ {0}
  BY <1>1, LenProperties, EmptySeq
<1>3. \A n \in DOMAIN Tail(s) : n + 1 \in DOMAIN s /\ Tail(s)[n] = s[n + 1] /\ n >= 1
  BY <1>1, <1>2
<1>4. In(Tail(s)) \subseteq In(s)
  BY <1>3 DEF In
<1>5. Head(s) = s[1] /\ 1 \in DOMAIN s
  BY <1>2
<1> QED BY <1>1, <1>3, <1>4, <1>5 DEF In

\* A queue with one more at its end.
LEMMA InAppend ==
  ASSUME NEW S, NEW s \in Seq(S), NEW e \in S
  PROVE  /\ Append(s, e) \in Seq(S)
         /\ In(Append(s, e)) = In(s) \cup {e}
         /\ DOMAIN Append(s, e) = DOMAIN s \cup {Len(s) + 1}
         /\ Append(s, e)[Len(s) + 1] = e /\ Len(s) + 1 \notin DOMAIN s
         /\ \A n \in DOMAIN s : Append(s, e)[n] = s[n]
<1>1. /\ Append(s, e) \in Seq(S) /\ Len(Append(s, e)) = Len(s) + 1
      /\ \A n \in 1..Len(s) : Append(s, e)[n] = s[n]
      /\ Append(s, e)[Len(s) + 1] = e
  OBVIOUS
<1>2. DOMAIN Append(s, e) = 1..(Len(s) + 1) /\ DOMAIN s = 1..Len(s) /\ Len(s) \in Nat
  BY <1>1, LenProperties
<1>3. DOMAIN Append(s, e) = DOMAIN s \cup {Len(s) + 1} /\ Len(s) + 1 \notin DOMAIN s
  BY <1>2
<1>4. In(Append(s, e)) = In(s) \cup {e}
  <2>1. \A x : (\E n \in DOMAIN Append(s, e) : x = Append(s, e)[n])
               <=> (\E n \in DOMAIN s : x = s[n]) \/ x = e
    BY <1>1, <1>2, <1>3
  <2> QED BY <2>1 DEF In
<1> QED BY <1>1, <1>2, <1>3, <1>4

\* What is left of a queue when its end is lost.
LEMMA InPrefix ==
  ASSUME NEW S, NEW s \in Seq(S), NEW n \in 0..Len(s)
  PROVE  /\ SubSeq(s, 1, n) \in Seq(S)
         /\ In(SubSeq(s, 1, n)) \subseteq In(s)
         /\ \A m \in DOMAIN SubSeq(s, 1, n) : m \in DOMAIN s /\ SubSeq(s, 1, n)[m] = s[m]
<1>1. DOMAIN s = 1..Len(s) /\ Len(s) \in Nat /\ \A m \in 1..n : s[m] \in S
  BY LenProperties
<1>2. /\ SubSeq(s, 1, n) \in Seq(S) /\ Len(SubSeq(s, 1, n)) = n
      /\ \A m \in 1..n : SubSeq(s, 1, n)[m] = s[m]
  <2>1. /\ SubSeq(s, 1, n) \in Seq(S)
        /\ Len(SubSeq(s, 1, n)) = IF 1 <= n THEN n - 1 + 1 ELSE 0
        /\ \A i \in 1..(n - 1 + 1) : SubSeq(s, 1, n)[i] = s[1 + i - 1]
    BY <1>1, SubSeqProperties
  <2> QED BY <2>1
<1>3. DOMAIN SubSeq(s, 1, n) = 1..n
  BY <1>2, LenProperties
<1>4. \A m \in DOMAIN SubSeq(s, 1, n) : m \in DOMAIN s /\ SubSeq(s, 1, n)[m] = s[m]
  BY <1>1, <1>2, <1>3
<1> QED BY <1>2, <1>4 DEF In

-----------------------------------------------------------------------------
(* The backoff *)

\* The reconnect counter runs ahead of the sessions that did not last by one at
\* most, and only while a session is being tried: that is what a streak of
\* MaxExponent costs.
BackoffInv ==
  /\ attempt \in Nat /\ streak \in Nat
  /\ pc \in {"connecting", "open"} => attempt <= streak + 1
  /\ pc = "backoff" => attempt <= streak
  /\ pc = "raised" => attempt <= streak /\ attempt > MaxExponent

LEMMA MaxExponentNat == MaxExponent \in Nat
  BY WsAssumption

SomeSessionEnds == \E lasted \in BOOLEAN : EndSession(lasted)

\* Whatever ends a session, and however long it lasted.
LEMMA EndSessionBackoff ==
  SomeSessionEnds /\ BackoffInv /\ pc \in {"connecting", "open"} => BackoffInv'
<1> SUFFICES ASSUME SomeSessionEnds, BackoffInv, pc \in {"connecting", "open"}
             PROVE  BackoffInv'
  OBVIOUS
<1>1. ASSUME NEW lasted \in BOOLEAN, EndSession(lasted)
      PROVE  /\ pc' \in {"returned", "exhausted", "raised", "backoff"}
             /\ streak' = IF lasted THEN 0 ELSE streak + 1
             /\ attempt' = IF pc' \in {"raised", "backoff"} THEN IF lasted THEN 0 ELSE attempt
                                                             ELSE attempt
             /\ pc' = "raised" => (IF lasted THEN 0 ELSE attempt) > MaxExponent
  BY <1>1, Zenon DEF EndSession, AfterSession, AttemptAfter
<1>2. CASE /\ pc' \in {"returned", "exhausted", "raised", "backoff"}
           /\ streak' = 0
           /\ attempt' = IF pc' \in {"raised", "backoff"} THEN 0 ELSE attempt
           /\ pc' = "raised" => 0 > MaxExponent
  BY <1>2, MaxExponentNat DEF BackoffInv
<1>3. CASE /\ pc' \in {"returned", "exhausted", "raised", "backoff"}
           /\ streak' = streak + 1 /\ attempt' = attempt
           /\ pc' = "raised" => attempt > MaxExponent
  BY <1>3, MaxExponentNat DEF BackoffInv
<1> QED BY <1>1, <1>2, <1>3, Zenon DEF SomeSessionEnds

LEMMA BackoffStep == BackoffInv /\ [OkxNext]_okxVars => BackoffInv'
<1> SUFFICES ASSUME BackoffInv, [OkxNext]_okxVars PROVE BackoffInv'
  OBVIOUS
<1>1. CASE UNCHANGED <<pc, attempt, streak>>
  BY <1>1 DEF BackoffInv
<1>3. CASE Connect
  BY <1>3 DEF Connect, BackoffInv
<1>4. CASE Wake
  BY <1>4 DEF Wake, BackoffInv
<1>5. CASE Restart
  BY <1>5 DEF Restart, BackoffInv
<1>6. CASE ConnectFails \/ SessionEnds \/ ReadTimeout \/ DispatchRaises
  <2>1. pc \in {"connecting", "open"} /\ SomeSessionEnds
    BY <1>6, Zenon DEF SomeSessionEnds, ConnectFails, SessionEnds, ReadTimeout, DispatchRaises
  <2> QED BY <2>1, EndSessionBackoff
<1>7. CASE DispatchLoginAck \/ DispatchError \/ Stop \/ LinkFails
           \/ VenueAcceptsLogin \/ VenueRefusesLogin \/ VenueSubscribes
  BY <1>1, <1>7 DEF DispatchLoginAck, DispatchError, Stop, LinkFails,
    VenueAcceptsLogin, VenueRefusesLogin, VenueSubscribes, clientVars
<1>8. CASE DispatchUpdates \/ VenueAcceptsOrder \/ VenueRejectsOrder
  BY <1>1, <1>8 DEF DispatchUpdates, VenueAcceptsOrder, VenueRejectsOrder, clientVars
<1>9. ASSUME NEW b \in Book, Submit(b) PROVE BackoffInv'
  BY <1>1, <1>9 DEF Submit, clientVars
<1>10. ASSUME NEW k \in DOMAIN placed, VenueExecutes(k) PROVE BackoffInv'
  BY <1>1, <1>10 DEF VenueExecutes, clientVars
<1>11. CASE UNCHANGED okxVars
  BY <1>1, <1>11 DEF okxVars, wsVars, clientVars
<1> QED BY <1>3, <1>4, <1>5, <1>6, <1>7, <1>8, <1>9, <1>10, <1>11 DEF OkxNext, WsNext

\* run() dies of its own backoff only after more sessions in a row that did not
\* last than a float has powers of two.
THEOREM OkxRaisesOnlyAfterStreak == OkxSpec => []RaisesOnlyAfterStreak
<1>1. OkxInit => BackoffInv
  BY DEF OkxInit, WsInit, BackoffInv
<1>2. BackoffInv => RaisesOnlyAfterStreak
  BY MaxExponentNat DEF BackoffInv, RaisesOnlyAfterStreak
<1> QED BY <1>1, <1>2, BackoffStep, PTL DEF OkxSpec

-----------------------------------------------------------------------------
(* The frames on their way, and the handshake *)

\* What an entry of an update says is true: its trade has happened, and it was an
\* order with this client order id that executed.
TrueEntries == {Entry(placed[trades[t]].id, t) : t \in DOMAIN trades}

ToVenue == {Login, Subscribe} \cup {PlaceOrder(k) : k \in Nat}
FromVenue(E) == {LoginAck, ErrorFrame} \cup {Updates(es) : es \in Seq(E) \ {<<>>}}

FramesInv ==
  /\ toVenue \in Seq(ToVenue)
  /\ fromVenue \in Seq(FromVenue(TrueEntries))

\* The login is the first frame of a connection and there is no second one, so
\* that the venue's answer to it is final; a subscription and an acknowledgement
\* are only under way on a connection that has logged in; no frame outlives its
\* session.
HandshakeInv ==
  /\ pc = "open" <=> link # "none"
  /\ pc # "open" => fromVenue = <<>>
  /\ \A n \in DOMAIN toVenue : toVenue[n] = Login => n = 1 /\ venue.auth = "none"
  /\ LoginAck \in In(fromVenue) => venue.auth = "ok"
  /\ conf.private /\ Subscribe \in In(toVenue) => venue.auth = "ok"
  /\ conf.private /\ pc = "open" /\ loggedIn => venue.auth = "ok"

\* The kinds of frames are told apart by their types.
LEMMA FrameKinds ==
  /\ \A f \in ToVenue :
       /\ f.type = "login" => f = Login
       /\ f.type = "subscribe" => f = Subscribe
       /\ f.type = "order" => \E k \in Nat : f = PlaceOrder(k)
  /\ \A E : \A f \in FromVenue(E) :
       /\ f.type = "ack" => f = LoginAck
       /\ f.type = "updates" => f.entries \in Seq(E) /\ f.entries # <<>>
  /\ \A k : PlaceOrder(k) # Login /\ PlaceOrder(k) # Subscribe
  /\ \A es : Updates(es) # LoginAck
  /\ Login # Subscribe /\ ErrorFrame # LoginAck
<1>1. ASSUME NEW f \in ToVenue
      PROVE  /\ f.type = "login" => f = Login
             /\ f.type = "subscribe" => f = Subscribe
             /\ f.type = "order" => \E k \in Nat : f = PlaceOrder(k)
  BY <1>1 DEF ToVenue, Login, Subscribe, PlaceOrder
<1>2. ASSUME NEW E, NEW f \in FromVenue(E)
      PROVE  /\ f.type = "ack" => f = LoginAck
             /\ f.type = "updates" => f.entries \in Seq(E) /\ f.entries # <<>>
  <2>1. CASE f = LoginAck \/ f = ErrorFrame
    <3>1. LoginAck.type = "ack" /\ ErrorFrame.type = "error"
      BY DEF LoginAck, ErrorFrame
    <3> QED BY <2>1, <3>1
  <2>2. CASE \E es \in Seq(E) \ {<<>>} : f = Updates(es)
    <3>1. PICK es \in Seq(E) \ {<<>>} : f = Updates(es)
      BY <2>2
    <3> QED BY <3>1 DEF Updates
  <2> QED BY <2>1, <2>2 DEF FromVenue
<1>3. \A k : PlaceOrder(k) # Login /\ PlaceOrder(k) # Subscribe
  <2>1. \A k : PlaceOrder(k).type = "order" /\ Login.type # "order" /\ Subscribe.type # "order"
    BY DEF PlaceOrder, Login, Subscribe
  <2> QED BY <2>1
<1>4. \A es : Updates(es) # LoginAck
  <2>1. (\A es : Updates(es).type = "updates") /\ LoginAck.type # "updates"
    BY DEF Updates, LoginAck
  <2> QED BY <2>1
<1>5. Login # Subscribe /\ ErrorFrame # LoginAck
  BY DEF Login, Subscribe, ErrorFrame, LoginAck
<1> QED BY <1>1, <1>2, <1>3, <1>4, <1>5

\* The entries that were true stay true as orders and trades are added.
LEMMA FramesStay ==
  ASSUME NEW E, NEW F, E \subseteq F, NEW fs \in Seq(FromVenue(E))
  PROVE  fs \in Seq(FromVenue(F))
<1>1. Seq(E) \subseteq Seq(F)
  BY SeqMonotonic
<1>2. FromVenue(E) \subseteq FromVenue(F)
  BY <1>1 DEF FromVenue
<1> QED BY <1>2, SeqMonotonic

\* The steps of the client that neither send nor make the venue think otherwise.
QuietStep ==
  /\ toVenue' = toVenue /\ venue' = venue /\ conf' = conf

\* A session that ends takes its frames with it.
LEMMA EndSessionHandshake == SomeSessionEnds /\ HandshakeInv => HandshakeInv'
<1> SUFFICES ASSUME SomeSessionEnds, HandshakeInv PROVE HandshakeInv'
  OBVIOUS
<1>1. /\ link' = "none" /\ fromVenue' = <<>> /\ QuietStep
      /\ pc' \in {"returned", "exhausted", "raised", "backoff"}
  BY Zenon DEF SomeSessionEnds, EndSession, AfterSession, QuietStep
<1>2. In(fromVenue') = {}
  BY <1>1 DEF In
<1>3. pc' # "open"
  BY <1>1
<1> QED BY <1>1, <1>2, <1>3 DEF HandshakeInv, QuietStep, In

\* A frame the client sends on a link that may be down.
LEMMA SentFrames ==
  ASSUME toVenue \in Seq(ToVenue), NEW f \in ToVenue
  PROVE  /\ Sent(f) \in Seq(ToVenue) /\ In(Sent(f)) \subseteq In(toVenue) \cup {f}
         /\ \A n \in DOMAIN Sent(f) :
              Sent(f)[n] = f \/ (n \in DOMAIN toVenue /\ Sent(f)[n] = toVenue[n])
BY InAppend DEF Sent

\* The steps of the client itself.
LEMMA HandshakeClient ==
  ASSUME FramesInv, HandshakeInv,
         \/ Connect \/ ConnectFails \/ Wake \/ SessionEnds \/ ReadTimeout
         \/ DispatchLoginAck \/ DispatchError \/ DispatchRaises \/ Stop
  PROVE  HandshakeInv'
<1>1. CASE Connect
  <2>1. \A n \in DOMAIN toVenue' : n = 1 /\ (conf.private => toVenue'[n] = Login)
    BY <1>1 DEF Connect, Handshake
  <2>2. In(fromVenue') = {} /\ fromVenue' = fromVenue
    BY <1>1 DEF Connect, HandshakeInv, In
  <2>3. conf.private => Subscribe \notin In(toVenue') /\ loggedIn' = FALSE
    BY <1>1, <2>1, FrameKinds DEF Connect, ClearLogin, In
  <2>4. venue'.auth = "none" /\ pc' = "open" /\ link' = "up" /\ conf' = conf
    BY <1>1 DEF Connect, NewConnection
  <2> QED BY <2>1, <2>2, <2>3, <2>4 DEF HandshakeInv
<1>2. CASE ConnectFails \/ SessionEnds \/ ReadTimeout \/ DispatchRaises
  <2>1. SomeSessionEnds
    BY <1>2, Zenon DEF SomeSessionEnds, ConnectFails, SessionEnds, ReadTimeout, DispatchRaises
  <2> QED BY <2>1, EndSessionHandshake
<1>3. CASE Wake
  <2>1. pc' # "open" /\ pc # "open" /\ UNCHANGED <<link, fromVenue>> /\ QuietStep
    BY <1>3 DEF Wake, QuietStep
  <2> QED BY <2>1 DEF HandshakeInv, QuietStep, In
<1>4. CASE DispatchLoginAck
  <2>1. pc = "open" /\ Head(fromVenue).type = "ack" /\ fromVenue # <<>>
    BY <1>4 DEF DispatchLoginAck, Receives
  <2>2. Head(fromVenue) = LoginAck
    BY <2>1, FrameKinds, HeadTailProperties DEF FramesInv
  <2>3. venue.auth = "ok"
    BY <2>1, <2>2, InTail DEF HandshakeInv, FramesInv
  <2>4. /\ fromVenue' = Tail(fromVenue) /\ toVenue' = Sent(Subscribe)
        /\ UNCHANGED <<conf, pc, link, venue>>
    BY <1>4 DEF DispatchLoginAck
  <2>5. \A n \in DOMAIN toVenue' : toVenue'[n] = Login => n \in DOMAIN toVenue /\ toVenue[n] = Login
    BY <2>4, SentFrames, FrameKinds DEF FramesInv, ToVenue
  <2> QED BY <2>1, <2>3, <2>4, <2>5 DEF HandshakeInv
<1>5. CASE DispatchError
  <2>1. /\ pc = "open" /\ fromVenue # <<>> /\ fromVenue' = Tail(fromVenue)
        /\ UNCHANGED <<pc, link, loggedIn>> /\ QuietStep
    BY <1>5 DEF DispatchError, Receives, clientVars, QuietStep
  <2>2. In(fromVenue') \subseteq In(fromVenue)
    BY <2>1, InTail DEF FramesInv
  <2> QED BY <2>1, <2>2 DEF HandshakeInv, QuietStep, In
<1>6. CASE Stop
  <2>1. UNCHANGED <<pc, fromVenue, loggedIn>> /\ QuietStep /\ (link' # "none" <=> link # "none")
    BY <1>6 DEF Stop, QuietStep
  <2> QED BY <2>1 DEF HandshakeInv, QuietStep, In
<1> QED BY <1>1, <1>2, <1>3, <1>4, <1>5, <1>6

\* An answer or an update to a client whose link may be down.
LEMMA PushedFrames ==
  ASSUME NEW E, fromVenue \in Seq(FromVenue(E)), NEW f \in FromVenue(E)
  PROVE  Pushed(f) \in Seq(FromVenue(E)) /\ In(Pushed(f)) \subseteq In(fromVenue) \cup {f}
BY InAppend DEF Pushed

\* What the venue's end of the handshake does.
LEMMA HandshakeVenue ==
  ASSUME FramesInv, HandshakeInv,
         \/ LinkFails \/ VenueAcceptsLogin \/ VenueRefusesLogin \/ VenueSubscribes
  PROVE  HandshakeInv'
<1> USE DEF FramesInv
<1>1. CASE LinkFails
  <2>1. PICK n \in 0..Len(fromVenue) : fromVenue' = SubSeq(fromVenue, 1, n)
    BY <1>1 DEF LinkFails
  <2>2. PICK m \in 0..Len(toVenue) : toVenue' = SubSeq(toVenue, 1, m)
    BY <1>1 DEF LinkFails
  <2>3. In(fromVenue') \subseteq In(fromVenue) /\ In(toVenue') \subseteq In(toVenue)
    BY <2>1, <2>2, InPrefix
  <2>4. \A k \in DOMAIN toVenue' : k \in DOMAIN toVenue /\ toVenue'[k] = toVenue[k]
    BY <2>2, InPrefix
  <2>5. link # "none" /\ link' # "none" /\ UNCHANGED <<pc, conf, loggedIn, venue>>
    BY <1>1 DEF LinkFails, clientVars
  <2> QED BY <2>3, <2>4, <2>5 DEF HandshakeInv
<1>2. ASSUME toVenue # <<>>, toVenue' = Tail(toVenue)
      PROVE  /\ In(toVenue') \subseteq In(toVenue)
             /\ \A n \in DOMAIN toVenue' : n + 1 \in DOMAIN toVenue /\ toVenue'[n] = toVenue[n + 1]
                                          /\ n >= 1 /\ n \in Nat
  <2>1. Tail(toVenue) \in Seq(ToVenue)
    BY <1>2, InTail
  <2> QED BY <1>2, <2>1, InTail, LenProperties
<1>3. CASE VenueAcceptsLogin \/ VenueRefusesLogin
  <2>1. toVenue # <<>> /\ Head(toVenue) = Login /\ toVenue' = Tail(toVenue)
    BY <1>3, FrameKinds, HeadTailProperties DEF VenueAcceptsLogin, VenueRefusesLogin, VenueReads
  <2>2. toVenue[1] = Login /\ 1 \in DOMAIN toVenue
    BY <2>1, LenProperties, EmptySeq
  <2>3. venue.auth = "none"
    BY <2>2 DEF HandshakeInv
  <2>4. \A n \in DOMAIN toVenue' : toVenue'[n] # Login
    BY <1>2, <2>1 DEF HandshakeInv
  <2>5. UNCHANGED <<pc, conf, loggedIn, link>>
    BY <1>3 DEF VenueAcceptsLogin, VenueRefusesLogin, clientVars
  <2>6. pc # "open" => fromVenue' = <<>>
    BY <1>3 DEF VenueAcceptsLogin, VenueRefusesLogin, Pushed, HandshakeInv
  <2>7. In(toVenue') \subseteq In(toVenue)
    BY <1>2, <2>1
  <2>8. CASE VenueAcceptsLogin
    <3>1. venue'.auth = "ok"
      BY <2>8, <2>3 DEF VenueAcceptsLogin
    <3> QED BY <2>4, <2>5, <2>6, <3>1 DEF HandshakeInv
  <2>9. CASE VenueRefusesLogin
    <3>1. In(fromVenue') \subseteq In(fromVenue) \cup {ErrorFrame}
      BY <2>9, PushedFrames DEF VenueRefusesLogin, FromVenue
    <3> QED BY <2>3, <2>4, <2>5, <2>6, <2>7, <3>1, FrameKinds DEF HandshakeInv
  <2> QED BY <1>3, <2>8, <2>9
<1>4. CASE VenueSubscribes
  <2>1. /\ toVenue # <<>> /\ toVenue' = Tail(toVenue) /\ venue'.auth = venue.auth
        /\ UNCHANGED <<pc, conf, loggedIn, link>>
    BY <1>4 DEF VenueSubscribes, VenueReads, clientVars
  <2>2. fromVenue' \in {fromVenue, Pushed(ErrorFrame)}
    BY <1>4 DEF VenueSubscribes
  <2>3. In(fromVenue') \subseteq In(fromVenue) \cup {ErrorFrame}
    BY <2>2, PushedFrames DEF FromVenue
  <2>4. pc # "open" => fromVenue' = <<>>
    BY <2>2 DEF Pushed, HandshakeInv
  <2>5. \A n \in DOMAIN toVenue' : toVenue'[n] # Login
    BY <1>2, <2>1 DEF HandshakeInv
  <2> QED BY <1>2, <2>1, <2>3, <2>4, <2>5, FrameKinds DEF HandshakeInv
<1> QED BY <1>1, <1>3, <1>4

-----------------------------------------------------------------------------
(* The orders *)

PlacedOrder == [book : Book, id : Book \X Nat, epoch : Nat,
                state : {"sent", "open", "done", "rejected"}, filled : Nat]

OrdersTyped ==
  /\ seq \in Nat /\ epoch \in Nat
  /\ placed \in Seq(PlacedOrder)
  /\ trades \in Seq(DOMAIN placed)

\* A client order id begins with the book; within a process it has been handed out
\* once, and the table knows whose it is.
OrdersInv ==
  /\ \A k \in DOMAIN placed : placed[k].id[1] = placed[k].book
  /\ \A k \in DOMAIN placed :
       /\ placed[k].epoch <= epoch
       /\ placed[k].epoch = epoch =>
            /\ placed[k].id \in DOMAIN table /\ table[placed[k].id] = k
            /\ placed[k].id[2] <= seq
  /\ \A id \in DOMAIN table : table[id] \in DOMAIN placed /\ placed[table[id]].id = id

\* A fill has been booked on an order with the client order id of the one that
\* executed, and on that very order if the process that booked it had placed it.
EmittedInv ==
  \A fill \in emitted :
    /\ fill.trade \in DOMAIN trades /\ fill.order \in DOMAIN placed
    /\ fill.epoch <= epoch /\ fill.epoch \in Nat
    /\ placed[fill.order].id = placed[Executed(fill)].id
    /\ placed[Executed(fill)].epoch = fill.epoch => fill.order = Executed(fill)

OkxInv == FramesInv /\ HandshakeInv /\ OrdersTyped /\ OrdersInv /\ EmittedInv

\* What never changes about an order that was placed and a trade that happened.
HistoryKept ==
  /\ DOMAIN placed \subseteq DOMAIN placed'
  /\ \A k \in DOMAIN placed :
       /\ placed'[k].id = placed[k].id /\ placed'[k].book = placed[k].book
       /\ placed'[k].epoch = placed[k].epoch
  /\ DOMAIN trades \subseteq DOMAIN trades'
  /\ \A t \in DOMAIN trades : trades'[t] = trades[t] /\ trades[t] \in DOMAIN placed

\* So what was said about them stays true.
LEMMA KeptTrue ==
  ASSUME HistoryKept
  PROVE  /\ TrueEntries \subseteq TrueEntries'
         /\ epoch' = epoch \/ (epoch' = epoch + 1 /\ epoch \in Nat) =>
              (EmittedInv /\ emitted' = emitted => EmittedInv')
<1>1. TrueEntries \subseteq TrueEntries'
  BY DEF HistoryKept, TrueEntries, Entry
<1>2. ASSUME epoch' = epoch \/ (epoch' = epoch + 1 /\ epoch \in Nat),
             EmittedInv, emitted' = emitted
      PROVE  EmittedInv'
  <2> SUFFICES ASSUME NEW fill \in emitted
               PROVE  /\ fill.trade \in DOMAIN trades' /\ fill.order \in DOMAIN placed'
                      /\ fill.epoch <= epoch' /\ fill.epoch \in Nat
                      /\ placed'[fill.order].id = placed'[trades'[fill.trade]].id
                      /\ placed'[trades'[fill.trade]].epoch = fill.epoch
                            => fill.order = trades'[fill.trade]
    BY <1>2 DEF EmittedInv, Executed
  <2>1. /\ fill.trade \in DOMAIN trades /\ fill.order \in DOMAIN placed
        /\ fill.epoch <= epoch /\ fill.epoch \in Nat
        /\ placed[fill.order].id = placed[trades[fill.trade]].id
        /\ placed[trades[fill.trade]].epoch = fill.epoch => fill.order = trades[fill.trade]
    BY <1>2 DEF EmittedInv, Executed
  <2>2. fill.epoch <= epoch'
    BY <1>2, <2>1
  <2> QED BY <2>1, <2>2 DEF HistoryKept
<1> QED BY <1>1, <1>2

\* A step that touches no order: what is on the wire is all that can change.
LEMMA OrdersUntouched ==
  ASSUME OrdersTyped, OrdersInv, EmittedInv, UNCHANGED orderVars
  PROVE  OrdersTyped' /\ OrdersInv' /\ EmittedInv' /\ TrueEntries' = TrueEntries
<1>1. /\ seq' = seq /\ table' = table /\ epoch' = epoch
      /\ placed' = placed /\ trades' = trades /\ emitted' = emitted
  BY DEF orderVars
<1> QED BY <1>1 DEF OrdersTyped, OrdersInv, EmittedInv, Executed, TrueEntries

\* The client and the network move frames; they make up none.
LEMMA FramesWs ==
  ASSUME FramesInv, WsNext, TrueEntries' = TrueEntries
  PROVE  FramesInv'
<1> DEFINE F == FromVenue(TrueEntries)
<1>1. toVenue' \in Seq(ToVenue) /\ fromVenue' \in Seq(F)
  <2> USE DEF FramesInv
  <2>1. <<>> \in Seq(F) /\ Login \in ToVenue /\ Subscribe \in ToVenue /\ LoginAck \in F /\ ErrorFrame \in F
    BY DEF FromVenue, ToVenue
  <2> HIDE DEF F
  <2>2. CASE Connect
    BY <2>1, <2>2 DEF Connect, Handshake, F
  <2>3. CASE ConnectFails \/ SessionEnds \/ ReadTimeout \/ DispatchRaises
    <3>1. toVenue' = toVenue /\ fromVenue' = <<>>
      BY <2>3, Zenon DEF EndSession, ConnectFails, SessionEnds, ReadTimeout, DispatchRaises
    <3> QED BY <2>1, <3>1
  <2>4. CASE Wake \/ Stop
    BY <2>4 DEF Wake, Stop, F
  <2>5. CASE DispatchLoginAck \/ DispatchError
    <3>1. fromVenue # <<>> /\ fromVenue' = Tail(fromVenue)
      BY <2>5 DEF DispatchLoginAck, DispatchError, Receives
    <3>2. toVenue' \in {toVenue, Sent(Subscribe)}
      BY <2>5 DEF DispatchLoginAck, DispatchError
    <3>3. fromVenue' \in Seq(F)
      BY <3>1, InTail DEF F
    <3> QED BY <2>1, <3>2, <3>3, SentFrames
  <2>6. CASE LinkFails
    BY <2>6, InPrefix DEF LinkFails, F
  <2>7. CASE VenueAcceptsLogin \/ VenueRefusesLogin \/ VenueSubscribes
    <3>1. toVenue # <<>> /\ toVenue' = Tail(toVenue)
      BY <2>7 DEF VenueAcceptsLogin, VenueRefusesLogin, VenueSubscribes, VenueReads
    <3>2. fromVenue' \in {fromVenue, Pushed(LoginAck), Pushed(ErrorFrame)}
      BY <2>7 DEF VenueAcceptsLogin, VenueRefusesLogin, VenueSubscribes
    <3> QED BY <2>1, <3>1, <3>2, InTail, PushedFrames DEF F
  <2> QED BY <2>2, <2>3, <2>4, <2>5, <2>6, <2>7 DEF WsNext
<1> QED BY <1>1 DEF FramesInv

\* A step of the client, the network or the venue's login.
LEMMA WsStep ==
  ASSUME OkxInv, WsNext, UNCHANGED orderVars
  PROVE  OkxInv'
<1>1. HandshakeInv'
  BY HandshakeClient, HandshakeVenue DEF OkxInv, WsNext
<1> QED BY <1>1, OrdersUntouched, FramesWs DEF OkxInv

\* submit hands out an id that no order of this process has, and enters the order
\* under it; an order of an earlier process that had the id loses its entry to
\* nobody, as the table of its process is gone.
LEMMA SubmitStep ==
  ASSUME OkxInv, NEW b \in Book, Submit(b)
  PROVE  OkxInv'
<1> DEFINE n == seq + 1
           id == <<b, n>>
           k == Len(placed) + 1
           order == [book |-> b, id |-> id, epoch |-> epoch, state |-> "sent", filled |-> 0]
<1>1. /\ placed' = Append(placed, order) /\ seq' = n
      /\ table' = [any \in DOMAIN table \cup {id} |-> IF any = id THEN k ELSE table[any]]
      /\ toVenue' = Sent(PlaceOrder(k))
      /\ UNCHANGED <<conf, pc, loggedIn, link, fromVenue, venue, epoch, trades, emitted>>
  BY DEF Submit, ClOrdId, NextSeq, clientVars
<1>2. order \in PlacedOrder /\ n \in Nat /\ placed \in Seq(PlacedOrder)
  BY DEF OkxInv, OrdersTyped, PlacedOrder
<1> HIDE DEF order
<1>3. /\ placed' \in Seq(PlacedOrder) /\ DOMAIN placed' = DOMAIN placed \cup {k}
      /\ placed'[k] = order /\ k \notin DOMAIN placed /\ k \in Nat
      /\ \A j \in DOMAIN placed : placed'[j] = placed[j]
  BY <1>1, <1>2, InAppend, LenProperties
<1>4. /\ order.book = b /\ order.id = id /\ order.epoch = epoch
  BY DEF order
<1>5. /\ DOMAIN table' = DOMAIN table \cup {id} /\ table'[id] = k
      /\ \A i \in DOMAIN table : i # id => table'[i] = table[i]
  BY <1>1
<1> HIDE DEF k
<1>6. HistoryKept /\ trades' \in Seq(DOMAIN placed')
  <2>1. trades \in Seq(DOMAIN placed) /\ trades' = trades
    BY <1>1 DEF OkxInv, OrdersTyped
  <2>2. \A t \in DOMAIN trades : trades[t] \in DOMAIN placed
    BY <2>1, LenProperties
  <2>3. trades \in Seq(DOMAIN placed')
    BY <1>3, <2>1, SeqMonotonic
  <2> QED BY <1>3, <2>1, <2>2, <2>3 DEF HistoryKept
<1>7. OrdersTyped'
  BY <1>1, <1>2, <1>3, <1>6 DEF OkxInv, OrdersTyped
<1>8. OrdersInv'
  <2>1. \A j \in DOMAIN placed' : placed'[j].id[1] = placed'[j].book
    BY <1>3, <1>4 DEF OkxInv, OrdersInv
  <2>2. ASSUME NEW j \in DOMAIN placed'
        PROVE  /\ placed'[j].epoch <= epoch'
               /\ placed'[j].epoch = epoch' =>
                    /\ placed'[j].id \in DOMAIN table' /\ table'[placed'[j].id] = j
                    /\ placed'[j].id[2] <= seq'
    <3>1. CASE j = k
      <4>1. id[2] = n /\ epoch \in Nat
        BY DEF OkxInv, OrdersTyped
      <4> QED BY <1>1, <1>2, <1>3, <1>4, <1>5, <3>1, <4>1
    <3>2. CASE j \in DOMAIN placed
      <4>1. placed[j] \in PlacedOrder
        BY <1>2, <3>2, LenProperties
      <4>2. placed[j].id[2] \in Nat /\ seq \in Nat
        BY <4>1 DEF PlacedOrder, OkxInv, OrdersTyped
      <4>3. /\ placed[j].epoch <= epoch
            /\ placed[j].epoch = epoch =>
                 /\ placed[j].id \in DOMAIN table /\ table[placed[j].id] = j
                 /\ placed[j].id[2] <= seq
        BY <3>2 DEF OkxInv, OrdersInv
      <4>4. placed[j].epoch = epoch => placed[j].id # id
        BY <4>2, <4>3
      <4>5. placed[j].epoch = epoch => placed[j].id[2] <= n
        BY <4>2, <4>3
      <4> QED BY <1>1, <1>3, <1>5, <3>2, <4>3, <4>4, <4>5
    <3> QED BY <1>3, <3>1, <3>2
  <2>3. \A i \in DOMAIN table' : table'[i] \in DOMAIN placed' /\ placed'[table'[i]].id = i
    BY <1>3, <1>4, <1>5 DEF OkxInv, OrdersInv
  <2> QED BY <2>1, <2>2, <2>3 DEF OrdersInv
<1>9. EmittedInv'
  BY <1>1, <1>6, KeptTrue DEF OkxInv
<1>10. FramesInv' /\ HandshakeInv'
  <2>1. toVenue' = Sent(PlaceOrder(k)) /\ PlaceOrder(k) \in ToVenue
    BY <1>1, <1>3 DEF ToVenue, k
  <2>2. toVenue' \in Seq(ToVenue) /\ In(toVenue') \subseteq In(toVenue) \cup {PlaceOrder(k)}
    BY <2>1, SentFrames DEF OkxInv, FramesInv
  <2>3. \A j \in DOMAIN toVenue' : toVenue'[j] = Login => j \in DOMAIN toVenue /\ toVenue[j] = Login
    BY <2>1, SentFrames, FrameKinds DEF OkxInv, FramesInv
  <2>4. fromVenue' \in Seq(FromVenue(TrueEntries'))
    BY <1>1, <1>6, KeptTrue, FramesStay DEF OkxInv, FramesInv
  <2>5. Subscribe \in In(toVenue') => Subscribe \in In(toVenue)
    BY <2>2, FrameKinds
  <2>6. HandshakeInv'
    BY <1>1, <2>3, <2>5 DEF OkxInv, HandshakeInv
  <2> QED BY <2>2, <2>4, <2>6 DEF FramesInv
<1> QED BY <1>7, <1>8, <1>9, <1>10 DEF OkxInv

\* The client handles an update: the fill goes to the order the table has under
\* the id, and the id is that of the order that executed.
LEMMA DispatchStep ==
  ASSUME OkxInv, DispatchUpdates
  PROVE  OkxInv'
<1> DEFINE entry == Head(Head(fromVenue).entries)
           fill == [trade |-> entry.trade, order |-> OrderOf(entry.id), epoch |-> epoch]
<1>1. /\ pc = "open" /\ fromVenue # <<>> /\ Head(fromVenue).type = "updates"
      /\ fromVenue' = Tail(fromVenue)
      /\ emitted' = IF entry.id \in DOMAIN table THEN emitted \cup {fill} ELSE emitted
      /\ UNCHANGED <<conf, pc, loggedIn, link, toVenue, venue>>
      /\ UNCHANGED <<seq, table, epoch, placed, trades>>
  BY DEF DispatchUpdates, Receives, clientVars
<1>2. entry \in TrueEntries
  <2>1. Head(fromVenue) \in FromVenue(TrueEntries)
    BY <1>1, HeadTailProperties DEF OkxInv, FramesInv
  <2>2. Head(fromVenue).entries \in Seq(TrueEntries) /\ Head(fromVenue).entries # <<>>
    BY <1>1, <2>1, FrameKinds
  <2> QED BY <2>2, HeadTailProperties
<1> HIDE DEF entry
<1>3. PICK t \in DOMAIN trades : entry.trade = t /\ entry.id = placed[trades[t]].id
  <2>1. PICK t \in DOMAIN trades : entry = Entry(placed[trades[t]].id, t)
    BY <1>2 DEF TrueEntries
  <2>2. entry.trade = t /\ entry.id = placed[trades[t]].id
    BY <2>1 DEF Entry
  <2> QED BY <2>2
<1>4. EmittedInv'
  <2>1. ASSUME NEW f \in emitted
        PROVE  /\ f.trade \in DOMAIN trades /\ f.order \in DOMAIN placed
               /\ f.epoch <= epoch /\ f.epoch \in Nat
               /\ placed[f.order].id = placed[trades[f.trade]].id
               /\ placed[trades[f.trade]].epoch = f.epoch => f.order = trades[f.trade]
    BY DEF OkxInv, EmittedInv, Executed
  <2>2. ASSUME entry.id \in DOMAIN table
        PROVE  /\ fill.trade \in DOMAIN trades /\ fill.order \in DOMAIN placed
               /\ fill.epoch <= epoch /\ fill.epoch \in Nat
               /\ placed[fill.order].id = placed[trades[fill.trade]].id
               /\ placed[trades[fill.trade]].epoch = fill.epoch => fill.order = trades[fill.trade]
    <3>1. fill.trade = t /\ fill.order = table[entry.id] /\ fill.epoch = epoch
      BY <1>3 DEF OrderOf
    <3>2. trades[t] \in DOMAIN placed /\ epoch \in Nat
      BY <1>3, LenProperties DEF OkxInv, OrdersTyped
    <3>3. placed[trades[t]].epoch = epoch => table[placed[trades[t]].id] = trades[t]
      BY <3>2 DEF OkxInv, OrdersInv
    <3>4. table[entry.id] \in DOMAIN placed /\ placed[table[entry.id]].id = entry.id
      BY <2>2 DEF OkxInv, OrdersInv
    <3> QED BY <1>3, <3>1, <3>2, <3>3, <3>4
  <2> HIDE DEF fill
  <2>3. \A f \in emitted' : f \in emitted \/ (f = fill /\ entry.id \in DOMAIN table)
    BY <1>1
  <2>4. ASSUME NEW f \in emitted'
        PROVE  /\ f.trade \in DOMAIN trades /\ f.order \in DOMAIN placed
               /\ f.epoch <= epoch /\ f.epoch \in Nat
               /\ placed[f.order].id = placed[trades[f.trade]].id
               /\ placed[trades[f.trade]].epoch = f.epoch => f.order = trades[f.trade]
    BY <2>1, <2>2, <2>3, Zenon
  <2> QED BY <1>1, <2>4 DEF EmittedInv, Executed
<1>5. OrdersTyped' /\ OrdersInv' /\ TrueEntries' = TrueEntries
  BY <1>1 DEF OkxInv, OrdersTyped, OrdersInv, TrueEntries
<1>6. In(fromVenue') \subseteq In(fromVenue) /\ fromVenue' \in Seq(FromVenue(TrueEntries))
  BY <1>1, InTail DEF OkxInv, FramesInv
<1>7. FramesInv' /\ HandshakeInv'
  BY <1>1, <1>5, <1>6 DEF OkxInv, FramesInv, HandshakeInv
<1> QED BY <1>4, <1>5, <1>7 DEF OkxInv

\* The new process has handed out no id; every order it finds is of an earlier one.
LEMMA RestartStep ==
  ASSUME OkxInv, Restart
  PROVE  OkxInv'
<1>1. /\ epoch' = epoch + 1 /\ seq' = 0 /\ table' = NoOrders
      /\ pc' = "connecting" /\ link' = "none" /\ fromVenue' = <<>>
      /\ UNCHANGED <<conf, toVenue, venue, placed, trades, emitted>>
  BY DEF Restart
<1>2. /\ epoch \in Nat /\ placed \in Seq(PlacedOrder) /\ trades \in Seq(DOMAIN placed)
      /\ \A k \in DOMAIN placed : placed[k] \in PlacedOrder
      /\ \A t \in DOMAIN trades : trades[t] \in DOMAIN placed
  BY LenProperties DEF OkxInv, OrdersTyped
<1>3. \A k \in DOMAIN placed : placed[k].epoch <= epoch /\ placed[k].epoch \in Nat
  BY <1>2 DEF OkxInv, OrdersInv, PlacedOrder
<1>4. OrdersTyped'
  BY <1>1, <1>2 DEF OrdersTyped
<1>5. OrdersInv'
  <2>1. \A k \in DOMAIN placed : placed[k].epoch <= epoch' /\ placed[k].epoch # epoch'
    BY <1>1, <1>2, <1>3
  <2>2. DOMAIN table' = {}
    BY <1>1 DEF NoOrders
  <2> QED BY <1>1, <2>1, <2>2 DEF OkxInv, OrdersInv
<1>6. EmittedInv' /\ TrueEntries' = TrueEntries
  <2>1. HistoryKept
    BY <1>1, <1>2 DEF HistoryKept
  <2> QED BY <1>1, <1>2, <2>1, KeptTrue DEF OkxInv, TrueEntries
<1>7. FramesInv' /\ HandshakeInv'
  <2>1. In(fromVenue') = {}
    BY <1>1 DEF In
  <2> QED BY <1>1, <1>6, <2>1 DEF OkxInv, FramesInv, HandshakeInv, In
<1> QED BY <1>4, <1>5, <1>6, <1>7 DEF OkxInv

\* What becomes of an order at the venue leaves its id, book and process alone.
LEMMA ProgressKept ==
  ASSUME placed \in Seq(PlacedOrder), NEW k,
         NEW state \in {"open", "done", "rejected"}, NEW filled \in Nat,
         \/ placed' = [placed EXCEPT ![k].state = state]
         \/ placed' = [placed EXCEPT ![k].filled = filled, ![k].state = state]
  PROVE  /\ placed' \in Seq(PlacedOrder) /\ DOMAIN placed' = DOMAIN placed
         /\ \A j \in DOMAIN placed :
              /\ placed'[j].id = placed[j].id /\ placed'[j].book = placed[j].book
              /\ placed'[j].epoch = placed[j].epoch
<1>1. DOMAIN placed = 1..Len(placed) /\ Len(placed) \in Nat
      /\ \A j \in DOMAIN placed : placed[j] \in PlacedOrder
  BY LenProperties
<1>2. placed' = [j \in DOMAIN placed |-> placed'[j]]
  OBVIOUS
<1>3. ASSUME NEW j \in DOMAIN placed
      PROVE  /\ placed'[j] \in PlacedOrder
             /\ placed'[j].id = placed[j].id /\ placed'[j].book = placed[j].book
             /\ placed'[j].epoch = placed[j].epoch
  <2>1. placed[j] \in PlacedOrder
    BY <1>1
  <2>2. placed'[j] \in {placed[j], [placed[j] EXCEPT !.state = state],
                        [placed[j] EXCEPT !.filled = filled, !.state = state]}
    OBVIOUS
  <2> QED BY <2>1, <2>2 DEF PlacedOrder
<1>4. placed' \in Seq(PlacedOrder)
  BY <1>1, <1>2, <1>3
<1> QED BY <1>2, <1>3, <1>4

\* A step of the venue's order book.
LEMMA BookStep ==
  ASSUME OkxInv,
         placed' \in Seq(PlacedOrder), DOMAIN placed' = DOMAIN placed,
         \A j \in DOMAIN placed :
           /\ placed'[j].id = placed[j].id /\ placed'[j].book = placed[j].book
           /\ placed'[j].epoch = placed[j].epoch,
         UNCHANGED <<seq, table, epoch, emitted>>,
         \/ trades' = trades
         \/ \E k \in DOMAIN placed : trades' = Append(trades, k)
  PROVE  OrdersTyped' /\ OrdersInv' /\ EmittedInv' /\ HistoryKept
<1>1. trades \in Seq(DOMAIN placed)
  BY DEF OkxInv, OrdersTyped
<1>2. /\ trades' \in Seq(DOMAIN placed) /\ DOMAIN trades \subseteq DOMAIN trades'
      /\ \A t \in DOMAIN trades : trades'[t] = trades[t] /\ trades[t] \in DOMAIN placed
  <2>1. CASE trades' = trades
    BY <1>1, <2>1, LenProperties
  <2>2. ASSUME NEW k \in DOMAIN placed, trades' = Append(trades, k)
        PROVE  /\ trades' \in Seq(DOMAIN placed) /\ DOMAIN trades \subseteq DOMAIN trades'
               /\ \A t \in DOMAIN trades : trades'[t] = trades[t]
    BY <1>1, <2>2, InAppend
  <2>3. \A t \in DOMAIN trades : trades[t] \in DOMAIN placed
    BY <1>1, LenProperties
  <2> QED BY <2>1, <2>2, <2>3
<1>3. HistoryKept
  BY <1>2 DEF HistoryKept
<1>4. OrdersTyped'
  BY <1>2 DEF OkxInv, OrdersTyped
<1>5. OrdersInv'
  BY DEF OkxInv, OrdersInv
<1>6. EmittedInv'
  BY <1>3, KeptTrue DEF OkxInv
<1> QED BY <1>3, <1>4, <1>5, <1>6

\* The venue takes an order or turns it down.
LEMMA AnswerStep ==
  ASSUME OkxInv, VenueAcceptsOrder \/ VenueRejectsOrder
  PROVE  OkxInv'
<1>1. /\ toVenue # <<>> /\ toVenue' = Tail(toVenue)
      /\ fromVenue' \in {fromVenue, Pushed(ErrorFrame)}
      /\ UNCHANGED <<conf, pc, loggedIn, link, venue, seq, table, epoch, trades, emitted>>
  BY DEF VenueAcceptsOrder, VenueRejectsOrder, VenueReads, clientVars
<1>2. \E k, state : /\ state \in {"open", "rejected"}
                    /\ placed' = [placed EXCEPT ![k].state = state]
  <2>1. \/ placed' = [placed EXCEPT ![Head(toVenue).order].state = "open"]
        \/ placed' = [placed EXCEPT ![Head(toVenue).order].state = "rejected"]
    BY Zenon DEF VenueAcceptsOrder, VenueRejectsOrder
  <2> QED BY <2>1, Zenon
<1>3. OrdersTyped' /\ OrdersInv' /\ EmittedInv' /\ HistoryKept
  <2>1. PICK k, state : /\ state \in {"open", "rejected"}
                        /\ placed' = [placed EXCEPT ![k].state = state]
    BY <1>2
  <2>2. placed \in Seq(PlacedOrder) /\ 0 \in Nat /\ state \in {"open", "done", "rejected"}
    BY <2>1 DEF OkxInv, OrdersTyped
  <2>3. /\ placed' \in Seq(PlacedOrder) /\ DOMAIN placed' = DOMAIN placed
        /\ \A j \in DOMAIN placed :
             /\ placed'[j].id = placed[j].id /\ placed'[j].book = placed[j].book
             /\ placed'[j].epoch = placed[j].epoch
    BY <2>1, <2>2, ProgressKept
  <2> QED BY <1>1, <2>3, BookStep
<1>4. /\ toVenue' \in Seq(ToVenue) /\ In(toVenue') \subseteq In(toVenue)
      /\ \A n \in DOMAIN toVenue' : n >= 1 /\ n + 1 \in DOMAIN toVenue /\ toVenue'[n] = toVenue[n + 1]
  BY <1>1, InTail DEF OkxInv, FramesInv
<1>5. \A n \in DOMAIN toVenue' : toVenue'[n] # Login
  <2>1. \A n \in DOMAIN toVenue' : n \in Nat
    BY <1>4, LenProperties
  <2> QED BY <1>4, <2>1 DEF OkxInv, HandshakeInv
<1>6. /\ fromVenue' \in Seq(FromVenue(TrueEntries))
      /\ In(fromVenue') \subseteq In(fromVenue) \cup {ErrorFrame}
  <2>1. fromVenue \in Seq(FromVenue(TrueEntries)) /\ ErrorFrame \in FromVenue(TrueEntries)
    BY DEF OkxInv, FramesInv, FromVenue
  <2> QED BY <1>1, <2>1, PushedFrames
<1>7. fromVenue' \in Seq(FromVenue(TrueEntries'))
  BY <1>3, <1>6, KeptTrue, FramesStay
<1>8. pc # "open" => fromVenue' = <<>>
  BY <1>1 DEF OkxInv, HandshakeInv, Pushed
<1>9. FramesInv' /\ HandshakeInv'
  BY <1>1, <1>4, <1>5, <1>6, <1>7, <1>8, FrameKinds DEF OkxInv, FramesInv, HandshakeInv
<1> QED BY <1>3, <1>9 DEF OkxInv

\* An order executes, and its subscriber is told, in a frame of its own or together
\* with the update before.
LEMMA ExecuteStep ==
  ASSUME OkxInv, NEW k \in DOMAIN placed, VenueExecutes(k)
  PROVE  OkxInv'
<1> DEFINE t == Len(trades) + 1
           entry == Entry(placed[k].id, t)
           filled == placed[k].filled + 1
           F == FromVenue(TrueEntries')
<1>1. /\ trades' = Append(trades, k) /\ fromVenue' \in Told(entry)
      /\ UNCHANGED <<conf, pc, loggedIn, link, toVenue, venue, seq, table, epoch, emitted>>
  BY DEF VenueExecutes, clientVars
<1>2. placed' = [placed EXCEPT ![k].filled = filled,
                               ![k].state = IF filled = OrderSize THEN "done" ELSE "open"]
  BY DEF VenueExecutes
<1>3. placed \in Seq(PlacedOrder) /\ trades \in Seq(DOMAIN placed)
  BY DEF OkxInv, OrdersTyped
<1>4. filled \in Nat
  <2>1. placed[k] \in PlacedOrder
    BY <1>3, LenProperties
  <2> QED BY <2>1 DEF PlacedOrder
<1> HIDE DEF filled
<1>5. /\ placed' \in Seq(PlacedOrder) /\ DOMAIN placed' = DOMAIN placed
      /\ \A j \in DOMAIN placed :
           /\ placed'[j].id = placed[j].id /\ placed'[j].book = placed[j].book
           /\ placed'[j].epoch = placed[j].epoch
  BY <1>2, <1>3, <1>4, ProgressKept
<1>6. OrdersTyped' /\ OrdersInv' /\ EmittedInv' /\ HistoryKept
  BY <1>1, <1>5, BookStep
<1>7. entry \in TrueEntries'
  <2>1. t \in DOMAIN trades' /\ trades'[t] = k
    BY <1>1, <1>3, InAppend
  <2> QED BY <1>5, <2>1 DEF TrueEntries
<1> HIDE DEF entry
<1>8. fromVenue \in Seq(F) /\ In(fromVenue) \subseteq F
  <2>1. fromVenue \in Seq(F)
    BY <1>6, KeptTrue, FramesStay DEF OkxInv, FramesInv
  <2> QED BY <2>1, LenProperties DEF In
<1>9. /\ fromVenue' \in Seq(F)
      /\ In(fromVenue') \subseteq In(fromVenue) \cup {Updates(es) : es \in Seq(TrueEntries')}
      /\ link # "up" => fromVenue' = fromVenue
  <2>1. CASE fromVenue' = fromVenue
    BY <1>8, <2>1
  <2>2. CASE link = "up" /\ fromVenue' = Append(fromVenue, Updates(<<entry>>))
    <3>1. <<entry>> \in Seq(TrueEntries') /\ <<entry>> # <<>>
      BY <1>7
    <3>2. Updates(<<entry>>) \in F
      BY <3>1 DEF FromVenue
    <3>3. fromVenue' \in Seq(F) /\ In(fromVenue') = In(fromVenue) \cup {Updates(<<entry>>)}
      BY <1>8, <2>2, <3>2, InAppend
    <3>4. Updates(<<entry>>) \in {Updates(es) : es \in Seq(TrueEntries')}
      BY <3>1
    <3> QED BY <2>2, <3>3, <3>4
  <2>3. ASSUME NEW n \in DOMAIN fromVenue, n = Len(fromVenue), link = "up",
               fromVenue[n].type = "updates",
               fromVenue' = SubSeq(fromVenue, 1, n - 1)
                              \o <<Updates(Append(fromVenue[n].entries, entry))>>
        PROVE  /\ fromVenue' \in Seq(F)
               /\ In(fromVenue') \subseteq In(fromVenue) \cup {Updates(es) : es \in Seq(TrueEntries')}
    <3> DEFINE es == Append(fromVenue[n].entries, entry)
               prefix == SubSeq(fromVenue, 1, n - 1)
    <3>1. fromVenue[n].entries \in Seq(TrueEntries')
      BY <1>8, <2>3, FrameKinds DEF In
    <3>2. es \in Seq(TrueEntries') /\ es # <<>>
      BY <1>7, <3>1
    <3> HIDE DEF es
    <3>3. Updates(es) \in F
      BY <3>2 DEF FromVenue
    <3>4. n - 1 \in 0..Len(fromVenue)
      BY <1>8, <2>3, LenProperties
    <3>5. prefix \in Seq(F) /\ In(prefix) \subseteq In(fromVenue)
      BY <1>8, <3>4, InPrefix
    <3>6. fromVenue' = Append(prefix, Updates(es))
      BY <2>3, <3>3, <3>5 DEF es
    <3> HIDE DEF prefix
    <3>7. fromVenue' \in Seq(F) /\ In(fromVenue') = In(prefix) \cup {Updates(es)}
      BY <3>3, <3>5, <3>6, InAppend
    <3> QED BY <3>2, <3>5, <3>7
  <2> QED BY <1>1, <2>1, <2>2, <2>3 DEF Told
<1>10. LoginAck \in In(fromVenue') => LoginAck \in In(fromVenue)
  BY <1>9, FrameKinds
<1>11. pc # "open" => fromVenue' = <<>>
  BY <1>9 DEF OkxInv, HandshakeInv
<1>12. FramesInv' /\ HandshakeInv'
  BY <1>1, <1>9, <1>10, <1>11 DEF OkxInv, FramesInv, HandshakeInv
<1> QED BY <1>6, <1>12 DEF OkxInv

LEMMA OkxStep == OkxInv /\ [OkxNext]_okxVars => OkxInv'
<1> SUFFICES ASSUME OkxInv, [OkxNext]_okxVars PROVE OkxInv'
  OBVIOUS
<1>1. CASE UNCHANGED okxVars
  <2>1. UNCHANGED orderVars /\ UNCHANGED <<conf, pc, link, loggedIn, toVenue, fromVenue, venue>>
    BY <1>1 DEF okxVars, wsVars, clientVars
  <2>2. TrueEntries' = TrueEntries
    BY <2>1, OrdersUntouched DEF OkxInv
  <2>3. FramesInv' /\ HandshakeInv'
    BY <2>1, <2>2 DEF OkxInv, FramesInv, HandshakeInv, In
  <2> QED BY <2>1, <2>3, OrdersUntouched DEF OkxInv
<1> QED BY <1>1, WsStep, SubmitStep, DispatchStep, RestartStep, AnswerStep, ExecuteStep
        DEF OkxNext

\* The invariant of the client, its orders and the venue.
THEOREM OkxInvariant == OkxSpec => []OkxInv
<1>1. OkxInit => OkxInv
  <2> SUFFICES ASSUME OkxInit PROVE OkxInv
    OBVIOUS
  <2>1. /\ pc = "connecting" /\ link = "none" /\ toVenue = <<>> /\ fromVenue = <<>>
        /\ seq = 0 /\ epoch = 0 /\ table = NoOrders
        /\ placed = <<>> /\ trades = <<>> /\ emitted = {}
    BY DEF OkxInit, WsInit
  <2>2. FramesInv /\ HandshakeInv
    BY <2>1 DEF FramesInv, HandshakeInv, In
  <2>3. OrdersTyped
    BY <2>1 DEF OrdersTyped
  <2>4. OrdersInv /\ EmittedInv
    BY <2>1 DEF OrdersInv, EmittedInv, NoOrders
  <2> QED BY <2>2, <2>3, <2>4 DEF OkxInv
<1> QED BY <1>1, OkxStep, PTL DEF OkxSpec

\* Whatever connections break when, a private channel is subscribed to on a
\* connection that has logged in, and the login flag is of the present one.
THEOREM OkxHandshakeInOrder == OkxSpec => []HandshakeInOrder
<1>1. OkxInv => HandshakeInOrder
  BY DEF OkxInv, HandshakeInv, HandshakeInOrder, In
<1> QED BY <1>1, OkxInvariant, PTL

\* Every fill is booked on the book whose order executed.
THEOREM OkxFillOfItsBook == OkxSpec => []FillOfItsBook
<1>1. OkxInv => FillOfItsBook
  <2> SUFFICES ASSUME OkxInv, NEW fill \in emitted
               PROVE  placed[fill.order].book = placed[Executed(fill)].book
    BY DEF FillOfItsBook
  <2>1. /\ fill.order \in DOMAIN placed /\ trades[fill.trade] \in DOMAIN placed
        /\ placed[fill.order].id = placed[trades[fill.trade]].id
    BY LenProperties DEF OkxInv, EmittedInv, OrdersTyped, Executed
  <2> QED BY <2>1 DEF OkxInv, OrdersInv, Executed
<1> QED BY <1>1, OkxInvariant, PTL

\* ... and on that very order, if the process that books it had placed it.
THEOREM OkxFillOfItsOrder == OkxSpec => []FillOfItsOrder
<1>1. OkxInv => FillOfItsOrder
  BY DEF OkxInv, EmittedInv, FillOfItsOrder
<1> QED BY <1>1, OkxInvariant, PTL

-----------------------------------------------------------------------------
(* Types *)

\* The counter that the backoff raises goes at most one step beyond the last power
\* that is a float.
SessionInv ==
  /\ conf \in Configs
  /\ pc \in {"connecting", "open", "backoff", "returned", "exhausted", "raised"}
  /\ stopping \in BOOLEAN /\ loggedIn \in BOOLEAN
  /\ link \in {"none", "up", "silent", "closed"}
  /\ venue \in [auth : {"none", "ok", "refused"}, subscribed : BOOLEAN]
  /\ attempt \in 0..(MaxExponent + 1)
  /\ pc = "backoff" => attempt <= MaxExponent

\* Every session that does not last has its failure of the network or the venue,
\* which has happened already when the link is down; but the last one may end
\* because the client was stopped.
TroubleInv ==
  /\ trouble \in 0..MaxTrouble
  /\ streak \in 0..(trouble + 1)
  /\ pc \in {"connecting", "open", "backoff"} => streak <= trouble
  /\ ~ stopping /\ link \in {"closed", "silent"} => streak < trouble

LEMMA EndSessionTyped == SomeSessionEnds /\ SessionInv => SessionInv'
<1> SUFFICES ASSUME NEW lasted \in BOOLEAN, EndSession(lasted), SessionInv PROVE SessionInv'
  BY DEF SomeSessionEnds
<1>1. /\ link' = "none" /\ UNCHANGED <<conf, stopping, loggedIn, venue>>
      /\ pc' \in {"returned", "exhausted", "raised", "backoff"}
  BY Zenon DEF EndSession, AfterSession
<1>2. /\ attempt' = IF pc' \in {"backoff", "raised"} THEN AttemptAfter(lasted) ELSE attempt
      /\ pc' = "backoff" => ~ AttemptAfter(lasted) > MaxExponent
  BY Zenon DEF EndSession, AfterSession
<1>3. AttemptAfter(lasted) \in 0..(MaxExponent + 1)
  BY MaxExponentNat DEF AttemptAfter, SessionInv
<1> DEFINE a == AttemptAfter(lasted)
<1> HIDE DEF a
<1>4. attempt' \in 0..(MaxExponent + 1) /\ (pc' = "backoff" => attempt' <= MaxExponent)
  BY <1>2, <1>3, MaxExponentNat DEF SessionInv, a
<1> QED
  BY <1>1, <1>4 DEF SessionInv

LEMMA SessionStep ==
  ASSUME SessionInv, [OkxNext]_okxVars
  PROVE  SessionInv'
<1>1. CASE UNCHANGED <<conf, pc, attempt, stopping, loggedIn, link, venue>>
  BY <1>1 DEF SessionInv
<1>2. CASE Connect
  BY <1>2 DEF Connect, ClearLogin, NewConnection, SessionInv
<1>3. CASE ConnectFails \/ SessionEnds \/ ReadTimeout \/ DispatchRaises
  <2>1. SomeSessionEnds
    BY <1>3, Zenon DEF SomeSessionEnds, ConnectFails, SessionEnds, ReadTimeout, DispatchRaises
  <2> QED
    BY <2>1, EndSessionTyped
<1>4. CASE Wake
  <2>1. attempt' \in 0..(MaxExponent + 1)
    BY <1>4, MaxExponentNat DEF Wake, SessionInv
  <2>2. pc' \in {"returned", "connecting"} /\ UNCHANGED <<conf, stopping, loggedIn, link, venue>>
    BY <1>4, Zenon DEF Wake
  <2> QED
    BY <2>1, <2>2 DEF SessionInv
<1>5. CASE Restart
  <2>1. /\ pc' = "connecting" /\ attempt' = 0 /\ stopping' = FALSE /\ loggedIn' = FALSE
        /\ link' = "none" /\ conf' = conf /\ venue' = venue
    BY <1>5 DEF Restart
  <2>2. attempt' \in 0..(MaxExponent + 1)
    BY <2>1, MaxExponentNat
  <2> QED
    BY <2>1, <2>2 DEF SessionInv
<1>6. CASE DispatchLoginAck
  BY <1>6 DEF DispatchLoginAck, SessionInv
<1>7. CASE Stop
  BY <1>7 DEF Stop, SessionInv
<1>8. CASE LinkFails
  BY <1>8 DEF LinkFails, clientVars, SessionInv
<1>9. CASE VenueAcceptsLogin \/ VenueRefusesLogin
  BY <1>9 DEF VenueAcceptsLogin, VenueRefusesLogin, clientVars, SessionInv
<1>10. CASE VenueSubscribes
  <2>1. Entitled \in BOOLEAN
    BY DEF Entitled, SessionInv
  <2>2. venue' \in [auth : {"none", "ok", "refused"}, subscribed : BOOLEAN]
    BY <1>10, <2>1 DEF VenueSubscribes, SessionInv
  <2> QED
    BY <1>10, <2>2 DEF VenueSubscribes, clientVars, SessionInv
<1>11. CASE DispatchError \/ DispatchUpdates \/ VenueAcceptsOrder \/ VenueRejectsOrder
  BY <1>1, <1>11 DEF DispatchError, DispatchUpdates, VenueAcceptsOrder, VenueRejectsOrder, clientVars
<1>12. ASSUME NEW b \in Book, Submit(b) PROVE SessionInv'
  BY <1>1, <1>12 DEF Submit, clientVars
<1>13. ASSUME NEW k \in DOMAIN placed, VenueExecutes(k) PROVE SessionInv'
  BY <1>1, <1>13 DEF VenueExecutes, clientVars
<1>14. CASE UNCHANGED okxVars
  BY <1>1, <1>14 DEF okxVars, wsVars, clientVars
<1> QED
  BY <1>2, <1>3, <1>4, <1>5, <1>6, <1>7, <1>8, <1>9, <1>10, <1>11, <1>12, <1>13, <1>14
     DEF OkxNext, WsNext

LEMMA MaxTroubleNat == MaxTrouble \in Nat
  BY WsAssumption

\* What a session's end does to the count, by what it cost.
LEMMA EndSessionStreak ==
  ASSUME NEW lasted \in BOOLEAN, EndSession(lasted)
  PROVE  /\ link' = "none" /\ streak' = IF lasted THEN 0 ELSE streak + 1
         /\ stopping' = stopping
         /\ stopping \/ ~ conf.reconnect => pc' = "returned"
         /\ pc' # "connecting" /\ pc' # "open"
BY Zenon DEF EndSession, AfterSession

LEMMA TroubleStep ==
  ASSUME HandshakeInv, TroubleInv, [OkxNext]_okxVars
  PROVE  TroubleInv'
<1>0. trouble \in Nat /\ streak \in Nat /\ MaxTrouble \in Nat
  BY MaxTroubleNat DEF TroubleInv
<1>1. CASE UNCHANGED <<pc, stopping, link, trouble, streak>>
  BY <1>1 DEF TroubleInv
<1>2. CASE Connect
  BY <1>2 DEF Connect, TroubleInv
<1>3. CASE ConnectFails \/ DispatchRaises
  <2>1. pc \in {"connecting", "open"} /\ trouble < MaxTrouble /\ trouble' = trouble + 1
    BY <1>3 DEF ConnectFails, DispatchRaises, HappensTrouble
  <2>2. PICK lasted \in BOOLEAN : EndSession(lasted)
    BY <1>3, Zenon DEF ConnectFails, DispatchRaises
  <2>3. link' = "none" /\ streak' \in {0, streak + 1}
    BY <2>2, EndSessionStreak
  <2>4. streak <= trouble
    BY <2>1 DEF TroubleInv
  <2> QED
    BY <1>0, <2>1, <2>3, <2>4 DEF TroubleInv
<1>4. CASE SessionEnds \/ ReadTimeout
  <2>1. pc = "open" /\ trouble' = trouble /\ (stopping \/ link \in {"closed", "silent"})
    BY <1>4 DEF SessionEnds, ReadTimeout
  <2>2. PICK lasted \in BOOLEAN : EndSession(lasted)
    BY <1>4 DEF SessionEnds, ReadTimeout
  <2>3. /\ link' = "none" /\ streak' \in {0, streak + 1} /\ stopping' = stopping
        /\ stopping => pc' = "returned"
    BY <2>2, EndSessionStreak
  <2>4. streak <= trouble /\ (~ stopping => streak < trouble)
    BY <2>1 DEF TroubleInv
  <2>5. CASE stopping
    BY <1>0, <2>1, <2>3, <2>4, <2>5 DEF TroubleInv
  <2>6. CASE ~ stopping
    BY <1>0, <2>1, <2>3, <2>4, <2>6 DEF TroubleInv
  <2> QED
    BY <2>5, <2>6
<1>5. CASE Wake
  BY <1>5 DEF Wake, TroubleInv
<1>6. CASE Restart
  BY <1>0, <1>6 DEF Restart, TroubleInv
<1>7. CASE Stop
  BY <1>7 DEF Stop, TroubleInv
<1>8. CASE LinkFails
  <2>1. pc = "open"
    BY <1>8 DEF LinkFails, HandshakeInv
  <2>2. trouble < MaxTrouble /\ trouble' = trouble + 1 /\ UNCHANGED <<pc, stopping, streak>>
    BY <1>8 DEF LinkFails, HappensTrouble, clientVars
  <2> QED
    BY <1>0, <2>1, <2>2 DEF TroubleInv
<1>9. CASE VenueRefusesLogin
  <2>1. /\ trouble < MaxTrouble /\ trouble' = trouble + 1 /\ UNCHANGED <<pc, stopping, streak, link>>
    BY <1>9 DEF VenueRefusesLogin, HappensTrouble, clientVars
  <2> QED
    BY <1>0, <2>1 DEF TroubleInv
<1>10. CASE DispatchLoginAck \/ DispatchError \/ VenueAcceptsLogin \/ VenueSubscribes
  BY <1>1, <1>10 DEF DispatchLoginAck, DispatchError, VenueAcceptsLogin, VenueSubscribes, clientVars
<1>11. CASE DispatchUpdates \/ VenueAcceptsOrder \/ VenueRejectsOrder
  BY <1>1, <1>11 DEF DispatchUpdates, VenueAcceptsOrder, VenueRejectsOrder, clientVars
<1>12. ASSUME NEW b \in Book, Submit(b) PROVE TroubleInv'
  BY <1>1, <1>12 DEF Submit, clientVars
<1>13. ASSUME NEW k \in DOMAIN placed, VenueExecutes(k) PROVE TroubleInv'
  BY <1>1, <1>13 DEF VenueExecutes, clientVars
<1>14. CASE UNCHANGED okxVars
  BY <1>1, <1>14 DEF okxVars, wsVars, clientVars
<1> QED
  BY <1>2, <1>3, <1>4, <1>5, <1>6, <1>7, <1>8, <1>9, <1>10, <1>11, <1>12, <1>13, <1>14
     DEF OkxNext, WsNext

-----------------------------------------------------------------------------
(* Orders on their way, and how far they got *)

\* The orders that a queue holds, and that it holds none of them twice.
OrdersIn(s) == {k \in Nat : PlaceOrder(k) \in In(s)}
EachOnce(s) ==
  \A m, n \in DOMAIN s, k \in Nat : s[m] = PlaceOrder(k) /\ s[n] = PlaceOrder(k) => m = n

Waiting(k) == k \in DOMAIN placed /\ placed[k].state = "sent"

\* Of an order that is on its way to the venue nothing has become yet, so that the
\* venue does not take one again that is done; one that waits or is open has
\* contracts left.
ProgressInv ==
  /\ \A k \in OrdersIn(toVenue) : Waiting(k)
  /\ EachOnce(toVenue)
  /\ \A k \in DOMAIN placed :
       /\ placed[k].filled <= OrderSize
       /\ placed[k].state \in {"sent", "open"} => placed[k].filled < OrderSize

LEMMA OrderFrames ==
  /\ \A j, k : PlaceOrder(j) = PlaceOrder(k) => j = k
  /\ \A k : PlaceOrder(k).order = k
  /\ \A k : Login # PlaceOrder(k) /\ Subscribe # PlaceOrder(k)
<1>1. \A k : PlaceOrder(k).order = k
  BY DEF PlaceOrder
<1>2. \A j, k : PlaceOrder(j) = PlaceOrder(k) => j = k
  BY <1>1
<1> QED
  BY <1>1, <1>2, FrameKinds

\* The venue reads a frame: an order that it held is not among the rest.
LEMMA OnceTail ==
  ASSUME NEW s \in Seq(ToVenue), s # <<>>, EachOnce(s)
  PROVE  /\ EachOnce(Tail(s)) /\ OrdersIn(Tail(s)) \subseteq OrdersIn(s)
         /\ \A k \in Nat : Head(s) = PlaceOrder(k) => k \in OrdersIn(s) /\ k \notin OrdersIn(Tail(s))
<1>1. /\ In(Tail(s)) \subseteq In(s) /\ Head(s) \in In(s)
      /\ \A n \in DOMAIN Tail(s) : n + 1 \in DOMAIN s /\ Tail(s)[n] = s[n + 1] /\ n >= 1
  BY InTail
<1>2. Head(s) = s[1] /\ 1 \in DOMAIN s
  BY LenProperties, EmptySeq
<1>3. \A n \in DOMAIN Tail(s) : n \in Nat
  <2>1. Tail(s) \in Seq(ToVenue)
    BY InTail
  <2> QED
    BY <2>1, LenProperties
<1>4. EachOnce(Tail(s))
  <2> SUFFICES ASSUME NEW m \in DOMAIN Tail(s), NEW n \in DOMAIN Tail(s), NEW k \in Nat,
                      Tail(s)[m] = PlaceOrder(k), Tail(s)[n] = PlaceOrder(k)
               PROVE  m = n
    BY DEF EachOnce
  <2>1. m + 1 = n + 1
    BY <1>1 DEF EachOnce
  <2> QED
    BY <1>3, <2>1
<1>5. ASSUME NEW k \in Nat, Head(s) = PlaceOrder(k) PROVE k \in OrdersIn(s) /\ k \notin OrdersIn(Tail(s))
  <2>1. k \in OrdersIn(s)
    BY <1>1, <1>5 DEF OrdersIn
  <2>2. ASSUME NEW n \in DOMAIN Tail(s), Tail(s)[n] = PlaceOrder(k) PROVE FALSE
    <3>1. n + 1 = 1
      BY <1>1, <1>2, <1>5, <2>2 DEF EachOnce
    <3> QED
      BY <1>1, <1>3, <3>1
  <2> QED
    BY <2>1, <2>2 DEF OrdersIn, In
<1> QED
  BY <1>1, <1>4, <1>5 DEF OrdersIn

LEMMA OncePrefix ==
  ASSUME NEW s \in Seq(ToVenue), EachOnce(s), NEW n \in 0..Len(s)
  PROVE  EachOnce(SubSeq(s, 1, n)) /\ OrdersIn(SubSeq(s, 1, n)) \subseteq OrdersIn(s)
<1>1. /\ In(SubSeq(s, 1, n)) \subseteq In(s)
      /\ \A m \in DOMAIN SubSeq(s, 1, n) : m \in DOMAIN s /\ SubSeq(s, 1, n)[m] = s[m]
  BY InPrefix
<1> DEFINE prefix == SubSeq(s, 1, n)
<1> HIDE DEF prefix
<1>2. EachOnce(prefix) /\ OrdersIn(prefix) \subseteq OrdersIn(s)
  BY <1>1 DEF EachOnce, OrdersIn, prefix
<1> QED
  BY <1>2 DEF prefix

\* What is sent, if it is an order, is not on its way already.
LEMMA OnceSent ==
  ASSUME toVenue \in Seq(ToVenue), EachOnce(toVenue), NEW f \in ToVenue,
         \A k \in OrdersIn(toVenue) : f # PlaceOrder(k)
  PROVE  /\ EachOnce(Sent(f))
         /\ \A k \in OrdersIn(Sent(f)) : k \in OrdersIn(toVenue) \/ f = PlaceOrder(k)
<1>1. CASE Sent(f) = toVenue
  BY <1>1
<1>2. CASE Sent(f) = Append(toVenue, f)
  <2> DEFINE s == Append(toVenue, f)
             l == Len(toVenue) + 1
  <2>1. /\ In(s) = In(toVenue) \cup {f} /\ DOMAIN s = DOMAIN toVenue \cup {l} /\ s[l] = f
        /\ \A n \in DOMAIN toVenue : s[n] = toVenue[n]
    BY InAppend
  <2> HIDE DEF s, l
  <2>2. \A k \in OrdersIn(s) : k \in OrdersIn(toVenue) \/ f = PlaceOrder(k)
    BY <2>1 DEF OrdersIn
  <2>3. EachOnce(s)
    <3> SUFFICES ASSUME NEW m \in DOMAIN s, NEW n \in DOMAIN s, NEW k \in Nat,
                        s[m] = PlaceOrder(k), s[n] = PlaceOrder(k)
                 PROVE  m = n
      BY DEF EachOnce
    <3>1. \A j \in DOMAIN toVenue : toVenue[j] = PlaceOrder(k) => f # PlaceOrder(k)
      BY DEF OrdersIn, In
    <3>2. CASE m = l
      BY <2>1, <3>1, <3>2
    <3>3. CASE n = l
      BY <2>1, <3>1, <3>3
    <3>4. CASE m # l /\ n # l
      BY <2>1, <3>4 DEF EachOnce
    <3> QED
      BY <3>2, <3>3, <3>4
  <2> QED
    BY <1>2, <2>2, <2>3 DEF s
<1> QED
  BY <1>1, <1>2 DEF Sent

\* The steps that leave the orders alone: of the queue they leave a part at most.
LEMMA ProgressWs ==
  ASSUME FramesInv, ProgressInv, WsNext, UNCHANGED orderVars
  PROVE  ProgressInv'
<1>1. toVenue \in Seq(ToVenue) /\ EachOnce(toVenue) /\ Login \in ToVenue /\ Subscribe \in ToVenue
  BY DEF FramesInv, ProgressInv, ToVenue
<1>2. EachOnce(toVenue') /\ OrdersIn(toVenue') \subseteq OrdersIn(toVenue)
  <2>1. CASE toVenue' = toVenue
    BY <1>1, <2>1
  <2>2. CASE Connect
    <3>1. toVenue' = <<Login>> \/ toVenue' = <<Subscribe>>
      BY <2>2 DEF Connect, Handshake
    <3>2. \A n \in DOMAIN toVenue' : toVenue'[n] \in {Login, Subscribe}
      BY <3>1
    <3> QED
      BY <3>2, OrderFrames DEF EachOnce, OrdersIn, In
  <2>3. CASE DispatchLoginAck
    <3>1. toVenue' = Sent(Subscribe)
      BY <2>3 DEF DispatchLoginAck
    <3>2. \A k : Subscribe # PlaceOrder(k)
      BY OrderFrames
    <3>3. EachOnce(Sent(Subscribe)) /\ \A k \in OrdersIn(Sent(Subscribe)) : k \in OrdersIn(toVenue)
      BY <1>1, <3>2, OnceSent
    <3> QED
      BY <3>1, <3>3
  <2>4. CASE LinkFails
    <3>1. PICK n \in 0..Len(toVenue) : toVenue' = SubSeq(toVenue, 1, n)
      BY <2>4 DEF LinkFails
    <3> QED
      BY <1>1, <3>1, OncePrefix
  <2>5. CASE VenueAcceptsLogin \/ VenueRefusesLogin \/ VenueSubscribes
    <3>1. toVenue # <<>> /\ toVenue' = Tail(toVenue)
      BY <2>5 DEF VenueAcceptsLogin, VenueRefusesLogin, VenueSubscribes, VenueReads
    <3> QED
      BY <1>1, <3>1, OnceTail
  <2>6. CASE ConnectFails \/ SessionEnds \/ ReadTimeout \/ DispatchRaises
    <3>1. toVenue' = toVenue
      BY <2>6, Zenon DEF EndSession, ConnectFails, SessionEnds, ReadTimeout, DispatchRaises
    <3> QED
      BY <2>1, <3>1
  <2>7. CASE Wake \/ DispatchError \/ Stop
    BY <2>1, <2>7 DEF Wake, DispatchError, Stop
  <2> QED
    BY <2>2, <2>3, <2>4, <2>5, <2>6, <2>7 DEF WsNext
<1>3. placed' = placed
  BY DEF orderVars
<1> QED
  BY <1>2, <1>3 DEF ProgressInv, Waiting

LEMMA ProgressSubmit ==
  ASSUME OkxInv, ProgressInv, NEW b \in Book, Submit(b)
  PROVE  ProgressInv'
<1> DEFINE k == Len(placed) + 1
           order == [book |-> b, id |-> ClOrdId(b, NextSeq), epoch |-> epoch, state |-> "sent", filled |-> 0]
<1>1. placed' = Append(placed, order) /\ toVenue' = Sent(PlaceOrder(k))
  BY DEF Submit
<1>2. order \in PlacedOrder /\ placed \in Seq(PlacedOrder)
  BY DEF OkxInv, OrdersTyped, PlacedOrder, ClOrdId, NextSeq
<1>3. order.state = "sent" /\ order.filled = 0
  OBVIOUS
<1> HIDE DEF order
<1>4. /\ DOMAIN placed' = DOMAIN placed \cup {k} /\ placed'[k] = order /\ k \notin DOMAIN placed /\ k \in Nat
      /\ \A j \in DOMAIN placed : placed'[j] = placed[j]
  BY <1>1, <1>2, InAppend, LenProperties
<1> HIDE DEF k
<1>5. toVenue \in Seq(ToVenue) /\ PlaceOrder(k) \in ToVenue
  BY <1>4 DEF OkxInv, FramesInv, ToVenue
<1>6. \A j \in OrdersIn(toVenue) : PlaceOrder(k) # PlaceOrder(j)
  BY <1>4, OrderFrames DEF ProgressInv, Waiting
<1>7. /\ EachOnce(toVenue')
      /\ \A j \in OrdersIn(toVenue') : j \in OrdersIn(toVenue) \/ j = k
  BY <1>1, <1>5, <1>6, OnceSent, OrderFrames DEF ProgressInv
<1>8. \A j \in OrdersIn(toVenue') : Waiting(j)'
  BY <1>3, <1>4, <1>7 DEF ProgressInv, Waiting
<1>9. ASSUME NEW j \in DOMAIN placed'
      PROVE  /\ placed'[j].filled <= OrderSize
             /\ placed'[j].state \in {"sent", "open"} => placed'[j].filled < OrderSize
  <2>1. CASE j = k
    BY <1>3, <1>4, <2>1, OrdersAssumption DEF OrdersAssumption
  <2>2. CASE j \in DOMAIN placed
    BY <1>4, <2>2 DEF ProgressInv
  <2> QED
    BY <1>4, <2>1, <2>2
<1> QED
  BY <1>7, <1>8, <1>9 DEF ProgressInv

\* What becomes of an order leaves the others alone.
LEMMA ProgressOf ==
  ASSUME placed \in Seq(PlacedOrder), NEW k \in DOMAIN placed,
         NEW state \in {"open", "done", "rejected"}, NEW filled \in Nat,
         \/ placed' = [placed EXCEPT ![k].state = state] /\ filled = placed[k].filled
         \/ placed' = [placed EXCEPT ![k].filled = filled, ![k].state = state]
  PROVE  /\ DOMAIN placed' = DOMAIN placed
         /\ placed'[k].state = state /\ placed'[k].filled = filled
         /\ \A j \in DOMAIN placed : j # k => placed'[j] = placed[j]
<1>1. placed[k] \in PlacedOrder
  BY LenProperties
<1>2. DOMAIN placed' = DOMAIN placed /\ \A j \in DOMAIN placed : j # k => placed'[j] = placed[j]
  OBVIOUS
<1>3. \/ placed'[k] = [placed[k] EXCEPT !.state = state] /\ filled = placed[k].filled
      \/ placed'[k] = [placed[k] EXCEPT !.filled = filled, !.state = state]
  OBVIOUS
<1>4. placed'[k].state = state /\ placed'[k].filled = filled
  BY <1>1, <1>3 DEF PlacedOrder
<1> QED
  BY <1>2, <1>4

LEMMA ProgressAnswer ==
  ASSUME OkxInv, ProgressInv, VenueAcceptsOrder \/ VenueRejectsOrder
  PROVE  ProgressInv'
<1> DEFINE k == Head(toVenue).order
<1>1. /\ toVenue # <<>> /\ Head(toVenue).type = "order" /\ toVenue' = Tail(toVenue)
      /\ toVenue \in Seq(ToVenue)
  BY DEF VenueAcceptsOrder, VenueRejectsOrder, VenueReads, OkxInv, FramesInv
<1>2. k \in Nat /\ Head(toVenue) = PlaceOrder(k)
  <2>1. Head(toVenue) \in ToVenue
    BY <1>1, HeadTailProperties
  <2>2. PICK j \in Nat : Head(toVenue) = PlaceOrder(j)
    BY <1>1, <2>1, FrameKinds
  <2> QED
    BY <2>2, OrderFrames
<1>3. PICK state \in {"open", "rejected"} : placed' = [placed EXCEPT ![k].state = state]
  <2>1. \/ placed' = [placed EXCEPT ![k].state = "open"]
        \/ placed' = [placed EXCEPT ![k].state = "rejected"]
    BY Zenon DEF VenueAcceptsOrder, VenueRejectsOrder
  <2> QED
    BY <2>1
<1> HIDE DEF k
<1>4. /\ EachOnce(toVenue') /\ OrdersIn(toVenue') \subseteq OrdersIn(toVenue)
      /\ k \in OrdersIn(toVenue) /\ k \notin OrdersIn(toVenue')
  BY <1>1, <1>2, OnceTail DEF ProgressInv
<1>5. k \in DOMAIN placed /\ placed[k].state = "sent"
  BY <1>4 DEF ProgressInv, Waiting
<1>6. placed[k].filled < OrderSize /\ placed[k].filled \in Nat /\ placed \in Seq(PlacedOrder)
  <2>1. placed[k] \in PlacedOrder
    BY <1>5, LenProperties DEF OkxInv, OrdersTyped
  <2> QED
    BY <1>5, <2>1 DEF ProgressInv, OkxInv, OrdersTyped, PlacedOrder
<1>7. /\ DOMAIN placed' = DOMAIN placed
      /\ placed'[k].state = state /\ placed'[k].filled = placed[k].filled
      /\ \A j \in DOMAIN placed : j # k => placed'[j] = placed[j]
  <2>1. state \in {"open", "done", "rejected"}
    BY <1>3
  <2> QED
    BY <1>3, <1>5, <1>6, <2>1, ProgressOf
<1>8. \A j \in OrdersIn(toVenue') : Waiting(j)'
  BY <1>4, <1>7 DEF ProgressInv, Waiting
<1>9. ASSUME NEW j \in DOMAIN placed'
      PROVE  /\ placed'[j].filled <= OrderSize
             /\ placed'[j].state \in {"sent", "open"} => placed'[j].filled < OrderSize
  <2>1. CASE j = k
    BY <1>6, <1>7, <2>1, OrdersAssumption DEF OrdersAssumption
  <2>2. CASE j # k
    BY <1>7, <2>2 DEF ProgressInv
  <2> QED
    BY <2>1, <2>2
<1> QED
  BY <1>4, <1>8, <1>9 DEF ProgressInv

LEMMA ProgressExecute ==
  ASSUME OkxInv, ProgressInv, NEW k \in DOMAIN placed, VenueExecutes(k)
  PROVE  ProgressInv'
<1> DEFINE filled == placed[k].filled + 1
           state == IF filled = OrderSize THEN "done" ELSE "open"
<1>1. /\ placed' = [placed EXCEPT ![k].filled = filled, ![k].state = state]
      /\ toVenue' = toVenue /\ placed[k].state = "open"
  BY DEF VenueExecutes
<1>2. placed \in Seq(PlacedOrder) /\ placed[k].filled \in Nat
  <2>1. placed \in Seq(PlacedOrder)
    BY DEF OkxInv, OrdersTyped
  <2>2. placed[k] \in PlacedOrder
    BY <2>1, LenProperties
  <2> QED
    BY <2>1, <2>2 DEF PlacedOrder
<1>3. /\ filled \in Nat /\ filled <= OrderSize
      /\ state \in {"open", "done", "rejected"} /\ (state = "open" => filled < OrderSize)
  <2>1. placed[k].filled < OrderSize /\ OrderSize \in Nat
    BY <1>1, OrdersAssumption DEF ProgressInv, OrdersAssumption
  <2> QED
    BY <1>2, <2>1
<1>4. state # "sent"
  OBVIOUS
<1> HIDE DEF filled, state
<1>5. /\ DOMAIN placed' = DOMAIN placed
      /\ placed'[k].state = state /\ placed'[k].filled = filled
      /\ \A j \in DOMAIN placed : j # k => placed'[j] = placed[j]
  BY <1>1, <1>2, <1>3, ProgressOf
<1>6. \A j \in OrdersIn(toVenue') : Waiting(j)'
  <2>1. \A j \in OrdersIn(toVenue) : Waiting(j) /\ j # k
    BY <1>1 DEF ProgressInv, Waiting
  <2> QED
    BY <1>1, <1>5, <2>1 DEF Waiting
<1>7. ASSUME NEW j \in DOMAIN placed'
      PROVE  /\ placed'[j].filled <= OrderSize
             /\ placed'[j].state \in {"sent", "open"} => placed'[j].filled < OrderSize
  <2>1. CASE j = k
    BY <1>3, <1>4, <1>5, <2>1
  <2>2. CASE j # k
    BY <1>5, <2>2 DEF ProgressInv
  <2> QED
    BY <2>1, <2>2
<1> QED
  BY <1>1, <1>6, <1>7 DEF ProgressInv

LEMMA ProgressStep ==
  ASSUME OkxInv, ProgressInv, [OkxNext]_okxVars
  PROVE  ProgressInv'
<1>1. CASE UNCHANGED <<toVenue, placed>>
  BY <1>1 DEF ProgressInv, Waiting
<1>2. CASE WsNext /\ UNCHANGED orderVars
  BY <1>2, ProgressWs DEF OkxInv
<1>3. CASE DispatchUpdates \/ Restart
  BY <1>1, <1>3 DEF DispatchUpdates, Restart
<1>4. CASE UNCHANGED okxVars
  BY <1>1, <1>4 DEF okxVars, wsVars, orderVars
<1> QED
  BY <1>2, <1>3, <1>4, ProgressSubmit, ProgressAnswer, ProgressExecute DEF OkxNext

-----------------------------------------------------------------------------
(* Counters and tables *)

CountsInv ==
  /\ seq <= Len(placed) /\ epoch <= MaxRestarts
  /\ DOMAIN table \subseteq Book \X (1..seq)
  /\ emitted \subseteq [trade : Nat, order : Nat, epoch : Nat]

LEMMA CountsStep ==
  ASSUME OkxInv, CountsInv, [OkxNext]_okxVars
  PROVE  CountsInv'
<1>1. /\ seq \in Nat /\ epoch \in Nat /\ Len(placed) \in Nat /\ DOMAIN placed = 1..Len(placed)
      /\ MaxRestarts \in Nat /\ placed \in Seq(PlacedOrder) /\ trades \in Seq(DOMAIN placed)
  BY LenProperties, OrdersAssumption DEF OkxInv, OrdersTyped, OrdersAssumption
<1>2. ASSUME UNCHANGED <<seq, epoch, table, emitted>>, Len(placed') = Len(placed) PROVE CountsInv'
  BY <1>2 DEF CountsInv
<1>3. CASE UNCHANGED orderVars
  BY <1>2, <1>3 DEF orderVars
<1>4. ASSUME NEW b \in Book, Submit(b) PROVE CountsInv'
  <2> DEFINE id == <<b, seq + 1>>
             order == [book |-> b, id |-> id, epoch |-> epoch, state |-> "sent", filled |-> 0]
  <2>1. /\ placed' = Append(placed, order) /\ seq' = seq + 1
        /\ DOMAIN table' = DOMAIN table \cup {id} /\ UNCHANGED <<epoch, emitted>>
    BY <1>4 DEF Submit, ClOrdId, NextSeq
  <2>2. order \in PlacedOrder
    BY <1>1 DEF PlacedOrder
  <2> HIDE DEF order
  <2>3. Len(placed') = Len(placed) + 1
    BY <1>1, <2>1, <2>2
  <2>4. DOMAIN table' \subseteq Book \X (1..(seq + 1))
    <3>1. 1..seq \subseteq 1..(seq + 1) /\ seq + 1 \in 1..(seq + 1)
      BY <1>1
    <3> QED
      BY <2>1, <3>1 DEF CountsInv
  <2> QED
    BY <1>1, <2>1, <2>3, <2>4 DEF CountsInv
<1>5. CASE DispatchUpdates
  <2> DEFINE entry == Head(Head(fromVenue).entries)
             fill == [trade |-> entry.trade, order |-> OrderOf(entry.id), epoch |-> epoch]
  <2>1. /\ UNCHANGED <<seq, epoch, table, placed>>
        /\ emitted' = IF entry.id \in DOMAIN table THEN emitted \cup {fill} ELSE emitted
    BY <1>5 DEF DispatchUpdates
  <2>2. entry.id \in DOMAIN table => fill \in [trade : Nat, order : Nat, epoch : Nat]
    <3> SUFFICES ASSUME entry.id \in DOMAIN table
                 PROVE  entry.trade \in Nat /\ OrderOf(entry.id) \in Nat
      BY <1>1
    <3>1. entry.trade \in Nat
      <4>1. fill \in emitted'
        BY <2>1
      <4>2. fill.trade \in DOMAIN trades'
        BY <1>5, <4>1, DispatchStep DEF OkxInv, EmittedInv
      <4>3. trades' = trades
        BY <1>5 DEF DispatchUpdates
      <4>4. fill.trade = entry.trade
        OBVIOUS
      <4> HIDE DEF fill, entry
      <4> QED
        BY <1>1, <4>2, <4>3, <4>4, LenProperties
    <3>2. OrderOf(entry.id) \in DOMAIN placed
      BY DEF OkxInv, OrdersInv, OrderOf
    <3> QED
      BY <1>1, <3>1, <3>2
  <2> HIDE DEF entry, fill
  <2> QED
    BY <2>1, <2>2 DEF CountsInv
<1>6. CASE Restart
  <2>1. epoch < MaxRestarts /\ epoch' = epoch + 1 /\ seq' = 0 /\ table' = NoOrders
        /\ placed' = placed /\ emitted' = emitted
    BY <1>6 DEF Restart
  <2>2. DOMAIN table' = {}
    BY <2>1 DEF NoOrders
  <2> QED
    BY <1>1, <2>1, <2>2 DEF CountsInv
<1>7. CASE VenueAcceptsOrder \/ VenueRejectsOrder
  <2>1. /\ UNCHANGED <<seq, epoch, table, emitted>>
        /\ \E k, state : placed' = [placed EXCEPT ![k].state = state]
    BY <1>7, Zenon DEF VenueAcceptsOrder, VenueRejectsOrder
  <2>2. OkxInv'
    BY <1>7, AnswerStep
  <2>3. placed' \in Seq(PlacedOrder) /\ DOMAIN placed' = DOMAIN placed
    BY <2>1, <2>2 DEF OkxInv, OrdersTyped
  <2>4. Len(placed') = Len(placed)
    BY <1>1, <2>3, LenProperties
  <2> QED
    BY <1>2, <2>1, <2>4
<1>8. ASSUME NEW k \in DOMAIN placed, VenueExecutes(k) PROVE CountsInv'
  <2>1. UNCHANGED <<seq, epoch, table, emitted>> /\ DOMAIN placed' = DOMAIN placed
    BY <1>8 DEF VenueExecutes
  <2>2. OkxInv'
    BY <1>8, ExecuteStep
  <2>3. Len(placed') = Len(placed)
    BY <1>1, <2>1, <2>2, LenProperties DEF OkxInv, OrdersTyped
  <2> QED
    BY <1>2, <2>1, <2>3
<1>9. CASE UNCHANGED okxVars
  BY <1>3, <1>9 DEF okxVars
<1> QED
  BY <1>3, <1>4, <1>5, <1>6, <1>7, <1>8, <1>9 DEF OkxNext

\* Every variable is of its type: the counters of sessions and of client order ids
\* stay in range however connections break and processes restart, the venue never
\* fills more of an order than there is of it, and what the table and the emitted
\* fills refer to exists.
THEOREM OkxTypeCorrect == OkxSpec => []OkxTypeOK
<1> DEFINE Inv == SessionInv /\ TroubleInv /\ ProgressInv /\ CountsInv
<1>1. OkxInit => Inv
  <2> SUFFICES ASSUME OkxInit PROVE Inv
    OBVIOUS
  <2>1. /\ conf \in Configs /\ pc = "connecting" /\ attempt = 0 /\ stopping = FALSE
        /\ link = "none" /\ loggedIn = FALSE
        /\ toVenue = <<>> /\ venue = NewConnection /\ trouble = 0 /\ streak = 0
        /\ seq = 0 /\ table = NoOrders /\ epoch = 0 /\ placed = <<>> /\ emitted = {}
    BY DEF OkxInit, WsInit
  <2>2. SessionInv
    <3>1. attempt \in 0..(MaxExponent + 1)
      BY <2>1, MaxExponentNat
    <3>2. venue \in [auth : {"none", "ok", "refused"}, subscribed : BOOLEAN]
      BY <2>1 DEF NewConnection
    <3> QED
      BY <2>1, <3>1, <3>2 DEF SessionInv
  <2>3. TroubleInv
    BY <2>1, MaxTroubleNat DEF TroubleInv
  <2>4. DOMAIN toVenue = {} /\ DOMAIN placed = {} /\ Len(placed) = 0
    BY <2>1
  <2>5. ProgressInv
    BY <2>4 DEF ProgressInv, OrdersIn, In, EachOnce
  <2>6. CountsInv
    BY <2>1, <2>4, OrdersAssumption DEF CountsInv, NoOrders, OrdersAssumption
  <2> QED
    BY <2>2, <2>3, <2>5, <2>6
<1>2. OkxInv /\ Inv /\ [OkxNext]_okxVars => Inv'
  BY SessionStep, TroubleStep, ProgressStep, CountsStep DEF OkxInv
<1>3. OkxInv /\ Inv => OkxTypeOK
  <2> SUFFICES ASSUME OkxInv, Inv PROVE OkxTypeOK
    OBVIOUS
  <2>1. WsTypeOK
    <3>1. pc = "open" <=> link # "none"
      BY DEF OkxInv, HandshakeInv
    <3> QED
      BY <3>1 DEF WsTypeOK, SessionInv, TroubleInv
  <2>2. /\ seq \in Nat /\ epoch \in Nat /\ Len(placed) \in Nat /\ MaxRestarts \in Nat /\ OrderSize \in Nat
        /\ placed \in Seq(PlacedOrder) /\ DOMAIN placed = 1..Len(placed)
        /\ \A k \in DOMAIN placed : placed[k] \in PlacedOrder
    BY LenProperties, OrdersAssumption DEF OkxInv, OrdersTyped, OrdersAssumption
  <2>3. seq \in 0..Len(placed) /\ epoch \in 0..MaxRestarts
    BY <2>2 DEF CountsInv
  <2>4. \A k \in DOMAIN placed : placed[k] \in Order
    <3> TAKE k \in DOMAIN placed
    <3>1. placed[k] \in PlacedOrder /\ placed[k].epoch <= epoch /\ placed[k].filled <= OrderSize
      BY <2>2 DEF OkxInv, OrdersInv, ProgressInv
    <3>2. /\ placed[k].epoch \in 0..MaxRestarts /\ placed[k].filled \in 0..OrderSize
      BY <2>2, <3>1 DEF PlacedOrder, CountsInv
    <3> QED
      BY <3>1, <3>2 DEF PlacedOrder, Order
  <2>5. placed \in Seq(Order)
    BY <2>2, <2>4
  <2>6. \A id \in DOMAIN table : table[id] \in DOMAIN placed
    BY DEF OkxInv, OrdersInv
  <2>7. emitted \subseteq [trade : DOMAIN trades, order : DOMAIN placed, epoch : 0..epoch]
    <3> SUFFICES ASSUME NEW fill \in emitted
                 PROVE  fill \in [trade : DOMAIN trades, order : DOMAIN placed, epoch : 0..epoch]
      OBVIOUS
    <3>1. /\ fill.trade \in DOMAIN trades /\ fill.order \in DOMAIN placed
          /\ fill.epoch <= epoch /\ fill.epoch \in Nat
      BY DEF OkxInv, EmittedInv
    <3>2. fill.epoch \in 0..epoch
      BY <2>2, <3>1
    <3>3. fill \in [trade : Nat, order : Nat, epoch : Nat]
      BY DEF CountsInv
    <3> QED
      BY <3>1, <3>2, <3>3
  <2>8. trades \in Seq(DOMAIN placed) /\ DOMAIN table \subseteq Book \X (1..seq)
    BY DEF OkxInv, OrdersTyped, CountsInv
  <2> QED
    BY <2>1, <2>3, <2>5, <2>6, <2>7, <2>8 DEF OkxTypeOK
<1> QED
  BY <1>1, <1>2, <1>3, OkxInvariant, PTL DEF OkxSpec
=============================================================================
