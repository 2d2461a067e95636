----------------------------- MODULE Handshake -----------------------------
(***************************************************************************)
(* The QoS 2 handshake of a publisher with a persistent session: PUBLISH,  *)
(* PUBREC, PUBREL, PUBCOMP, across reconnections.  The broker's side is    *)
(* publishHandler, pubrelHandler and connectHandler on the inflight map of *)
(* the ClientSession; the client's side is the protocol, external to the   *)
(* code: it repeats on a new transport what was not answered on the last.  *)
(*                                                                         *)
(* The same client may subscribe: what the broker sends to it and repeats  *)
(* goes through the same inflight map, under identifiers that may be those *)
(* the client publishes under.                                             *)
(*                                                                         *)
(* up holds the packets of a transport that no handler has dealt with yet: *)
(* in the network, in the receive buffer or queued in the pool.  The pool  *)
(* takes them in any order, those of a transport the client has left also  *)
(* after those of the next.  Transports are numbered as they open.         *)
(***************************************************************************)
EXTENDS Integers, Sequences

CONSTANTS
  Id,             \* packet identifiers the client publishes under
  ForeignId,      \* identifiers other publishers use
  Foreign,        \* a message of another publisher
  MaxTransports,  \* bound: connections the client opens
  MaxMessages,    \* bound: messages the client publishes
  MaxAlloc        \* bound: identifiers allocated for messages sent to the client

Message   == 1 .. MaxMessages
NoMessage == 0
NoId      == 0

\* What allocatePacketId returns: it starts at 2 (and does not wrap here)
AllocId == 2 .. MaxAlloc + 1

PacketId == Id \cup ForeignId \cup AllocId

ASSUME HandshakeAssumption ==
  /\ Id \subseteq Nat \ {NoId} /\ ForeignId \subseteq Nat \ {NoId}
  /\ MaxTransports \in Nat /\ MaxMessages \in Nat /\ MaxAlloc \in Nat
  /\ Foreign \notin Nat

VARIABLES
  opened,            \* transports opened; the client listens on the last one
  ready,             \* the client has its CONNACK on that transport
  up, down,          \* packets on their way to the broker and to the client
  waits,             \* what the client waits for, per identifier
  msg,               \* the message it publishes under an identifier
  published,         \* number of messages published so far
  confirmed,         \* messages whose PUBCOMP the client has seen
  registered,        \* the ClientSession is in the registry
  connected,         \* ClientSession::connected
  inflight,          \* ClientSession::inflight
  next_packet_id,    \* ClientSession::next_packet_id
  m_retransmitHeap,  \* identifiers to retransmit, the earliest retry_ms first
  released,          \* history: how often a message went to routePacket
  under,             \* history: the identifier a message was published under
  crossed            \* history: identifiers whose entry in inflight was used for
                     \* something else than the exchange the client is in

client == <<opened, ready, waits, msg, published, confirmed>>
outbound == <<next_packet_id, m_retransmitHeap>>
session == <<registered, connected>>
history == <<released, under, crossed>>
vars == <<client, up, down, session, inflight, outbound, history>>

Packet(type, t, i, m) == [type |-> type, t |-> t, id |-> i, msg |-> m]

Transport == 1 .. MaxTransports

\* "REGISTER" stands for a connectHandler that has found no session
Up   == [type : {"CONNECT", "REGISTER"}, t : Transport, id : {NoId}, msg : {NoMessage}]
        \cup [type : {"PUBLISH"}, t : Transport, id : Id, msg : Message]
        \cup [type : {"PUBREL"}, t : Transport, id : Id, msg : {NoMessage}]
Down == [type : {"CONNACK"}, t : Transport, id : {NoId}, msg : {NoMessage}]
        \cup [type : {"PUBREC", "PUBCOMP"}, t : Transport, id : Nat, msg : {NoMessage}]

TypeOK ==
  /\ opened \in 0 .. MaxTransports /\ ready \in BOOLEAN
  /\ ready => opened # 0
  /\ up \subseteq Up /\ down \subseteq Down
  /\ waits \in [Id -> {"nothing", "PUBREC", "PUBCOMP"}]
  /\ msg \in [Id -> Message \cup {NoMessage}]
  /\ \A i \in Id : waits[i] # "nothing" => msg[i] # NoMessage
  /\ published \in 0 .. MaxMessages /\ confirmed \subseteq Message
  /\ registered \in BOOLEAN /\ connected \in BOOLEAN
  /\ inflight \in [PacketId -> Message \cup {NoMessage, Foreign}]
  /\ next_packet_id \in 1 .. MaxAlloc + 1
  /\ m_retransmitHeap \in Seq(AllocId \cup {NoId})
  /\ released \in [Message -> Nat]
  /\ under \in [Message -> Id \cup {NoId}] /\ crossed \subseteq Id

Init ==
  /\ opened = 0 /\ ready = FALSE /\ up = {} /\ down = {}
  /\ waits = [i \in Id |-> "nothing"] /\ msg = [i \in Id |-> NoMessage]
  /\ published = 0 /\ confirmed = {}
  /\ registered = FALSE /\ connected = FALSE
  /\ inflight = [i \in PacketId |-> NoMessage]
  /\ next_packet_id = 1 /\ m_retransmitHeap = <<>>
  /\ released = [m \in Message |-> 0]
  /\ under = [m \in Message |-> NoId] /\ crossed = {}

-----------------------------------------------------------------------------
(***************************************************************************)
(* The client and the network.                                             *)
(***************************************************************************)

\* The client connects, for the first time or again
Open ==
  /\ opened < MaxTransports
  /\ opened' = opened + 1 /\ ready' = FALSE
  /\ up' = up \cup {Packet("CONNECT", opened', NoId, NoMessage)}
  /\ UNCHANGED <<down, waits, msg, published, confirmed, session, inflight,
                 outbound, history>>

\* A transport the client has left takes an unhandled packet with it
Lose(p) ==
  /\ p.t < opened
  /\ up' = up \ {p}
  /\ UNCHANGED <<client, down, session, inflight, outbound, history>>

\* What the client repeats once it is connected again
Repeats ==
  {Packet("PUBLISH", opened, i, msg[i]) : i \in {j \in Id : waits[j] = "PUBREC"}}
  \cup
  {Packet("PUBREL", opened, i, NoMessage) : i \in {j \in Id : waits[j] = "PUBCOMP"}}

\* The client is at most told the type of an answer: it takes it for the one it
\* waits for.
Get(ack) ==
  /\ ack \in down /\ ack.t = opened
  /\ down' = down \ {ack}

GetConnack(ack) ==
  /\ ack.type = "CONNACK" /\ Get(ack)
  /\ ready' = TRUE
  /\ up' = up \cup Repeats
  /\ UNCHANGED <<opened, waits, msg, published, confirmed, session, inflight,
                 outbound, history>>

\* The client publishes its next message when the last is done, as the
\* repository's test client does
Publish(i) ==
  /\ ready /\ published < MaxMessages
  /\ \A j \in Id : waits[j] = "nothing"
  /\ published' = published + 1
  /\ waits' = [waits EXCEPT ![i] = "PUBREC"]
  /\ msg' = [msg EXCEPT ![i] = published']
  /\ under' = [under EXCEPT ![published'] = i]
  /\ up' = up \cup {Packet("PUBLISH", opened, i, published')}
  /\ UNCHANGED <<opened, ready, down, confirmed, session, inflight, outbound,
                 released, crossed>>

GetPubrec(ack, i) ==
  /\ ack.type = "PUBREC" /\ waits[i] = "PUBREC" /\ Get(ack)
  /\ waits' = [waits EXCEPT ![i] = "PUBCOMP"]
  /\ up' = up \cup {Packet("PUBREL", opened, i, NoMessage)}
  /\ UNCHANGED <<opened, ready, msg, published, confirmed, session, inflight,
                 outbound, history>>

GetPubcomp(ack, i) ==
  /\ ack.type = "PUBCOMP" /\ waits[i] = "PUBCOMP" /\ Get(ack)
  /\ waits' = [waits EXCEPT ![i] = "nothing"]
  /\ confirmed' = confirmed \cup {msg[i]}
  /\ UNCHANGED <<opened, ready, msg, up, published, session, inflight, outbound,
                 history>>

-----------------------------------------------------------------------------
(***************************************************************************)
(* The broker's handlers, run by the pool.                                 *)
(***************************************************************************)

\* What pack_ack sends of an identifier: the uint16_t of Ack::pack, in network
\* order, is pushed as one uint8_t, which keeps its high byte
pack_ack(id) == id \div 256

\* A handler has dealt with packet p and pushed its answer
Answer(p, type) ==
  /\ up' = up \ {p}
  /\ down' = down \cup {Packet(type, p.t, pack_ack(p.id), NoMessage)}

\* The entry of inflight under an identifier in ids is not what the client's
\* exchange makes it
Crosses(ids) == crossed' = crossed \cup (Id \cap ids)

\* connectHandler, its lookup: a session that is found is marked disconnected
\* and keeps its inflight map.
connectHandler(p) ==
  /\ p.type = "CONNECT"
  /\ IF registered THEN connected' = FALSE /\ Answer(p, "CONNACK")
     ELSE /\ up' = (up \ {p}) \cup {Packet("REGISTER", p.t, NoId, NoMessage)}
          /\ UNCHANGED <<connected, down>>
  /\ UNCHANGED <<client, registered, inflight, outbound, history>>

\* connectHandler, where none was found: addToRegistry of a new session.  One
\* that was registered since is replaced, and the retransmissions of that stay
\* on the heap with a dead pointer (NoId).
addToRegistry(p) ==
  /\ p.type = "REGISTER"
  /\ registered' = TRUE /\ connected' = TRUE
  /\ inflight' = [i \in PacketId |-> NoMessage]
  /\ next_packet_id' = 1
  /\ m_retransmitHeap' = [k \in DOMAIN m_retransmitHeap |-> NoId]
  /\ Crosses({i \in Id : inflight[i] # NoMessage})
  /\ Answer(p, "CONNACK")
  /\ UNCHANGED <<client, released, under>>

\* storeInflight: unordered_map::insert keeps what is there
Stored(i, m) ==
  IF inflight[i] = NoMessage THEN [inflight EXCEPT ![i] = m] ELSE inflight

\* routePacket of message m, to the subscribers other than this client
Routed(m) ==
  IF m \in Message THEN [released EXCEPT ![m] = @ + 1] ELSE released

\* The client has moved on since it sent p, and p is handled all the same
Late(p) ==
  \/ p.type = "PUBLISH" /\ ~(waits[p.id] = "PUBREC" /\ msg[p.id] = p.msg)
  \/ p.type = "PUBREL" /\ waits[p.id] = "PUBREC"

\* Mutant of publishHandler: the message is routed at once, as at QoS 1
publishHandler_Early(p) ==
  /\ p.type = "PUBLISH"
  /\ inflight' = Stored(p.id, p.msg)
  /\ released' = Routed(p.msg)
  /\ Crosses(IF Late(p) THEN {p.id} ELSE {})
  /\ Answer(p, "PUBREC")
  /\ UNCHANGED <<client, session, outbound, under>>

\* publishHandler at QoS 2
publishHandler(p) ==
  /\ p.type = "PUBLISH"
  /\ inflight' = Stored(p.id, p.msg)
  /\ Crosses(IF Late(p) THEN {p.id} ELSE {})
  /\ Answer(p, "PUBREC")
  /\ UNCHANGED <<client, session, outbound, released, under>>

\* Mutant of removeFromInflight: the packet is returned and stays
removeFromInflight_Keep(i) == inflight

removeFromInflight(i) == [inflight EXCEPT ![i] = NoMessage]

\* pubrelHandler: what inflight holds under the identifier is routed, and
\* PUBCOMP is sent whether there was something or not
pubrelHandler(p) ==
  /\ p.type = "PUBREL"
  /\ inflight' = removeFromInflight(p.id)
  /\ released' = Routed(inflight[p.id])
  /\ Crosses(IF Late(p) THEN {p.id} ELSE {})
  /\ Answer(p, "PUBCOMP")
  /\ UNCHANGED <<client, session, outbound, under>>

-----------------------------------------------------------------------------
(***************************************************************************)
(* What the broker sends to the client as a subscriber.                    *)
(***************************************************************************)

\* Mutant of Scheduled: next_packet_id++ instead of ++next_packet_id
Scheduled_Post(heap) ==
  /\ next_packet_id < MaxAlloc + 1
  /\ next_packet_id' = next_packet_id + 1
  /\ m_retransmitHeap' = Append(heap, next_packet_id)

\* allocatePacketId and scheduleRetransmission, behind the entries in heap
Scheduled(heap) ==
  /\ next_packet_id < MaxAlloc + 1
  /\ next_packet_id' = next_packet_id + 1
  /\ m_retransmitHeap' = Append(heap, next_packet_id')

\* sendToClient of another publisher's message: the copy that gets the new
\* identifier is dropped, so it is stored under the publisher's identifier i
\* and scheduled under the new one.  The client is sent identifier 0 for it
\* (build_publish), so that its PUBACK removes nothing.
sendToClient(i) ==
  /\ registered /\ connected
  /\ inflight' = Stored(i, Foreign)
  /\ Crosses(IF inflight[i] = NoMessage THEN {i} ELSE {})
  /\ Scheduled(m_retransmitHeap)
  /\ UNCHANGED <<client, up, down, session, released, under>>

\* processRetransmissions, for the entry at the top once it is due: the message
\* in inflight under its identifier, if any, is routed again (a message of
\* another publisher also to this client).  An entry without one is not popped.
retransmit ==
  /\ m_retransmitHeap # <<>>
  /\ LET i == Head(m_retransmitHeap)
     IN  /\ i # NoId /\ inflight[i] # NoMessage
         /\ released' = Routed(inflight[i])
         /\ Crosses(IF inflight[i] \in Message THEN {i} ELSE {})
         /\ IF inflight[i] = Foreign /\ connected
            THEN Scheduled(Tail(m_retransmitHeap))
            ELSE /\ m_retransmitHeap' = Tail(m_retransmitHeap)
                 /\ UNCHANGED next_packet_id
  /\ UNCHANGED <<client, up, down, session, inflight, under>>

Client == \/ \E ack \in down : GetConnack(ack)
          \/ \E i \in Id : Publish(i)
          \/ \E ack \in down, i \in Id : GetPubrec(ack, i)
          \/ \E ack \in down, i \in Id : GetPubcomp(ack, i)

Handler == \/ \E p \in up : connectHandler(p)
           \/ \E p \in up : addToRegistry(p)
           \/ \E p \in up : publishHandler(p)
           \/ \E p \in up : pubrelHandler(p)

Next == \/ Open \/ Client \/ Handler
        \/ \E p \in up : Lose(p)
        \/ \E i \in ForeignId : sendToClient(i)
        \/ retransmit

Spec == Init /\ [][Next]_vars

-----------------------------------------------------------------------------
(***************************************************************************)
(* Properties.                                                             *)
(***************************************************************************)

\* How far a message is
Stage(m) ==
  IF under[m] = NoId THEN "new"
  ELSE IF under[m] \in crossed THEN "spoilt"
  ELSE IF m \notin confirmed /\ released[m] = 0 THEN "sent"
  ELSE IF m \notin confirmed /\ released[m] = 1 THEN "passed on"
  ELSE IF m \in confirmed /\ released[m] = 1 THEN "done"
  ELSE "wrong"

Once == INSTANCE ExactlyOnce WITH stage <- [m \in Message |-> Stage(m)]

\* QoS 2: a message goes to the subscribers once, and it has when the client sees
\* PUBCOMP, however often the client reconnects and repeats packets.  pubrelHandler
\* and storeInflight do that for the messages published under an identifier whose
\* entry in inflight nothing else has touched: no packet handled late, no message
\* sent to the client, no retransmission, no second registration.
DeliversOnce == Once!Spec

\* A message is routed on the client's PUBREL, not before, under such an identifier.
ReleasedOnRequest ==
  \A i \in Id \ crossed : waits[i] = "PUBREC" => released[msg[i]] = 0

-----------------------------------------------------------------------------
(***************************************************************************)
(* What the properties rest on: the parts of HandshakeInv, which is        *)
(* inductive.                                                              *)
(***************************************************************************)

\* The client is in one exchange at a time.
OneAtATime ==
  \A i, j \in Id : waits[i] # "nothing" /\ waits[j] # "nothing" => i = j

\* The transport it listens on carries one packet at a time, of that exchange
\* once the client is connected.
Talk ==
  /\ \A p \in up \cup down : p.t =< opened
  /\ \A p, q \in up \cup down : p.t = opened /\ q.t = opened => p = q
  /\ \A p \in up \cup down : p.t = opened =>
       (ready <=> p.type \notin {"CONNECT", "REGISTER", "CONNACK"})
  /\ \A p \in up \cup down : p.t = opened /\ ready =>
       \E i \in Id : waits[i] # "nothing"

\* What that transport takes to the broker is what the client waits to see
\* answered.
Asked ==
  \A p \in up : p.t = opened =>
    /\ p.type = "PUBLISH" => waits[p.id] = "PUBREC" /\ p.msg = msg[p.id]
    /\ p.type = "PUBREL" => waits[p.id] = "PUBCOMP"

\* Every message is found under its own identifier.
Names ==
  /\ \A m \in Message : under[m] # NoId <=> m =< published
  /\ \A m \in Message : under[m] = NoId => m \notin confirmed /\ released[m] = 0
  /\ \A p \in up : p.type = "PUBLISH" => under[p.msg] = p.id
  /\ \A i \in Id : waits[i] # "nothing" =>
       under[msg[i]] = i /\ msg[i] \notin confirmed
  /\ \A i \in PacketId : inflight[i] \in Message =>
       i \in Id /\ under[inflight[i]] = i

\* Where a message is while the exchange goes on, under an identifier that is not
\* crossed.
Unused == \A i \in Id \ crossed : waits[i] = "nothing" => inflight[i] = NoMessage

Stages ==
  \A i \in Id \ crossed : waits[i] # "nothing" =>
    \/ inflight[i] = msg[i] /\ released[msg[i]] = 0
    \/ inflight[i] = NoMessage /\ released[msg[i]] = 0 /\ waits[i] = "PUBREC"
    \/ inflight[i] = NoMessage /\ released[msg[i]] = 1 /\ waits[i] = "PUBCOMP"

\* What the client is about to be told is how far the broker is.
Answered ==
  \A p \in down, i \in Id : p.t = opened /\ waits[i] # "nothing" =>
    /\ p.type = "PUBREC" =>
         waits[i] = "PUBREC" /\ (i \notin crossed => inflight[i] = msg[i])
    /\ p.type = "PUBCOMP" =>
         waits[i] = "PUBCOMP" /\ (i \notin crossed => released[msg[i]] = 1)

HandshakeInv ==
  TypeOK /\ OneAtATime /\ Talk /\ Asked /\ Names /\ Unused /\ Stages /\ Answered
=============================================================================
