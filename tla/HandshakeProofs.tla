-------------------------- MODULE HandshakeProofs --------------------------
(***************************************************************************)
(* Proofs about Handshake, for every set of identifiers, shared or not,    *)
(* and every bound, with packets handled in any order.                     *)
(***************************************************************************)
EXTENDS Handshake, TLAPS

LEMMA Fields ==
  \A type, t, i, m : LET p == Packet(type, t, i, m)
                     IN  p.type = type /\ p.t = t /\ p.id = i /\ p.msg = m
BY DEF Packet

LEMMA UpShape ==
  ASSUME TypeOK, NEW p \in up
  PROVE  /\ p.t \in Transport
         /\ p = Packet(p.type, p.t, p.id, p.msg)
         /\ \/ p.type \in {"CONNECT", "REGISTER"} /\ p.id = NoId /\ p.msg = NoMessage
            \/ p.type = "PUBLISH" /\ p.id \in Id /\ p.msg \in Message
            \/ p.type = "PUBREL" /\ p.id \in Id /\ p.msg = NoMessage
BY DEF TypeOK, Up, Packet

LEMMA DownShape ==
  ASSUME TypeOK, NEW p \in down
  PROVE  /\ p.t \in Transport
         /\ p = Packet(p.type, p.t, p.id, NoMessage)
         /\ p.type \in {"CONNACK", "PUBREC", "PUBCOMP"}
BY DEF TypeOK, Down, Packet

-----------------------------------------------------------------------------
(***************************************************************************)
(* Types.                                                                  *)
(***************************************************************************)
LEMMA UpType ==
  ASSUME NEW t \in Transport, NEW i \in Id
  PROVE  /\ \A m \in Message : Packet("PUBLISH", t, i, m) \in Up
         /\ Packet("PUBREL", t, i, NoMessage) \in Up
BY DEF Up, Packet

\* The kinds of answers the handlers give
Fits(type, answer) ==
  \/ type \in {"CONNECT", "REGISTER"} /\ answer = "CONNACK"
  \/ type = "PUBLISH" /\ answer = "PUBREC"
  \/ type = "PUBREL" /\ answer = "PUBCOMP"

LEMMA AnswerType ==
  ASSUME TypeOK, NEW p \in up, NEW type, Answer(p, type), Fits(p.type, type)
  PROVE  up' \subseteq Up /\ down' \subseteq Down
<1> DEFINE a == Packet(type, p.t, pack_ack(p.id), NoMessage)
<1>1. a \in Down
  <2>1. CASE p.id = NoId /\ type = "CONNACK"
    <3>1. pack_ack(p.id) = NoId
      BY <2>1 DEF pack_ack, NoId
    <3> QED BY <2>1, <3>1, UpShape DEF Down, Packet
  <2>2. CASE p.id \in Id /\ type \in {"PUBREC", "PUBCOMP"}
    <3>1. p.id \in Nat
      BY <2>2, HandshakeAssumption
    <3>2. pack_ack(p.id) \in Nat
      BY <3>1 DEF pack_ack
    <3> QED BY <2>2, <3>2, UpShape DEF Down, Packet
  <2> QED BY <2>1, <2>2, UpShape DEF Fits
<1> HIDE DEF a
<1>2. up' = up \ {p} /\ down' = down \cup {a}
  BY DEF Answer, a
<1> QED BY <1>1, <1>2 DEF TypeOK

LEMMA RoutedType ==
  ASSUME TypeOK, NEW m
  PROVE  Routed(m) \in [Message -> Nat]
BY DEF TypeOK, Routed

LEMMA StoredType ==
  ASSUME TypeOK, NEW i, NEW m \in Message \cup {Foreign}
  PROVE  Stored(i, m) \in [PacketId -> Message \cup {NoMessage, Foreign}]
BY DEF TypeOK, Stored

LEMMA RemovedType ==
  ASSUME TypeOK, NEW i
  PROVE  removeFromInflight(i) \in [PacketId -> Message \cup {NoMessage, Foreign}]
BY DEF TypeOK, removeFromInflight

LEMMA ScheduledType ==
  ASSUME TypeOK, NEW heap \in Seq(AllocId \cup {NoId}), Scheduled(heap)
  PROVE  /\ next_packet_id' \in 1 .. MaxAlloc + 1
         /\ m_retransmitHeap' \in Seq(AllocId \cup {NoId})
<1>1. next_packet_id' \in AllocId
  BY HandshakeAssumption DEF TypeOK, Scheduled, AllocId
<1> QED
  BY <1>1, HandshakeAssumption DEF Scheduled, AllocId

\* Types are preserved by every step.
LEMMA TypeStep == TypeOK /\ [Next]_vars => TypeOK'
<1> SUFFICES ASSUME TypeOK, [Next]_vars PROVE TypeOK'
  OBVIOUS
<1> USE HandshakeAssumption DEF Message, NoMessage, NoId
<1>1. CASE Open
  <2>1. Packet("CONNECT", opened', NoId, NoMessage) \in Up
    BY <1>1 DEF Open, TypeOK, Up, Packet, Transport
  <2>2. opened' \in 0 .. MaxTransports /\ ready' = FALSE
    BY <1>1 DEF Open, TypeOK
  <2>3. up' \subseteq Up
    BY <1>1, <2>1 DEF Open, TypeOK
  <2> QED BY <1>1, <2>2, <2>3 DEF Open, TypeOK, session, outbound, history
<1>2. ASSUME NEW ack \in down, GetConnack(ack) PROVE TypeOK'
  <2>1. opened \in Transport
    BY <1>2, DownShape DEF GetConnack, Get
  <2>2. Repeats \subseteq Up
    <3>1. ASSUME NEW i \in Id, waits[i] = "PUBREC"
          PROVE  Packet("PUBLISH", opened, i, msg[i]) \in Up
      <4>1. msg[i] \in Message
        BY <3>1 DEF TypeOK
      <4> QED BY <4>1, <2>1, UpType
    <3>2. \A i \in Id : Packet("PUBREL", opened, i, NoMessage) \in Up
      BY <2>1, UpType
    <3> QED BY <3>1, <3>2 DEF Repeats
  <2>3. up' \subseteq Up /\ ready' = TRUE /\ opened' # 0 /\ down' \subseteq Down
    BY <1>2, <2>1, <2>2 DEF GetConnack, Get, TypeOK, Transport
  <2> QED BY <1>2, <2>3 DEF GetConnack, TypeOK, session, outbound, history
<1>3. ASSUME NEW i \in Id, Publish(i) PROVE TypeOK'
  <2>1. opened \in Transport /\ published' \in Message
    BY <1>3 DEF Publish, TypeOK, Transport
  <2>2. Packet("PUBLISH", opened, i, published') \in Up
    BY <2>1, UpType
  <2>3. up' \subseteq Up
    BY <1>3, <2>2 DEF Publish, TypeOK
  <2>4. /\ waits' \in [Id -> {"nothing", "PUBREC", "PUBCOMP"}]
        /\ msg' \in [Id -> Message \cup {NoMessage}]
        /\ \A j \in Id : waits'[j] # "nothing" => msg'[j] # NoMessage
    BY <1>3, <2>1 DEF Publish, TypeOK
  <2>5. published' \in 0 .. MaxMessages /\ under' \in [Message -> Id \cup {NoId}]
    BY <1>3, <2>1 DEF Publish, TypeOK
  <2> QED BY <1>3, <2>3, <2>4, <2>5 DEF Publish, TypeOK, session, outbound
<1>4. ASSUME NEW ack \in down, NEW i \in Id, GetPubrec(ack, i) PROVE TypeOK'
  <2>1. opened \in Transport
    BY <1>4, DownShape DEF GetPubrec, Get
  <2>2. Packet("PUBREL", opened, i, NoMessage) \in Up
    BY <2>1, UpType
  <2> QED BY <1>4, <2>2 DEF GetPubrec, Get, TypeOK, session, outbound, history
<1>5. ASSUME NEW ack \in down, NEW i \in Id, GetPubcomp(ack, i) PROVE TypeOK'
  BY <1>5 DEF GetPubcomp, Get, TypeOK, session, outbound, history
<1>6. ASSUME NEW p \in up, Lose(p) PROVE TypeOK'
  BY <1>6 DEF Lose, TypeOK, client, session, outbound, history
<1>7. ASSUME NEW p \in up, connectHandler(p) PROVE TypeOK'
  <2>1. up' \subseteq Up /\ down' \subseteq Down /\ connected' \in BOOLEAN
    <3>1. CASE registered
      BY <1>7, <3>1, AnswerType DEF connectHandler, Fits
    <3>2. CASE ~registered
      <4>1. Packet("REGISTER", p.t, NoId, NoMessage) \in Up
        BY UpShape DEF Packet, Up
      <4> QED BY <1>7, <3>2, <4>1 DEF connectHandler, TypeOK
    <3> QED BY <3>1, <3>2
  <2> QED BY <1>7, <2>1 DEF connectHandler, TypeOK, client, outbound, history
<1>8. ASSUME NEW p \in up, addToRegistry(p) PROVE TypeOK'
  <2>1. up' \subseteq Up /\ down' \subseteq Down
    BY <1>8, AnswerType DEF addToRegistry, Fits
  <2>2. m_retransmitHeap' \in Seq(AllocId \cup {NoId})
    <3>1. m_retransmitHeap' = [k \in 1 .. Len(m_retransmitHeap) |-> NoId]
      BY <1>8 DEF addToRegistry, TypeOK
    <3>2. Len(m_retransmitHeap) \in Nat
      BY DEF TypeOK
    <3> QED BY <3>1, <3>2
  <2>3. next_packet_id' \in 1 .. MaxAlloc + 1
    BY <1>8 DEF addToRegistry
  <2> QED BY <1>8, <2>1, <2>2, <2>3 DEF addToRegistry, Crosses, TypeOK, client
<1>9. ASSUME NEW p \in up, publishHandler(p) PROVE TypeOK'
  <2>1. p.msg \in Message
    BY <1>9, UpShape DEF publishHandler
  <2>2. up' \subseteq Up /\ down' \subseteq Down
    BY <1>9, AnswerType DEF publishHandler, Fits
  <2>3. inflight' \in [PacketId -> Message \cup {NoMessage, Foreign}]
    BY <1>9, <2>1, StoredType DEF publishHandler
  <2> QED BY <1>9, <2>2, <2>3 DEF publishHandler, Crosses, TypeOK, client, session, outbound
<1>10. ASSUME NEW p \in up, pubrelHandler(p) PROVE TypeOK'
  <2>1. up' \subseteq Up /\ down' \subseteq Down
    BY <1>10, AnswerType DEF pubrelHandler, Fits
  <2>2. inflight' \in [PacketId -> Message \cup {NoMessage, Foreign}]
    BY <1>10, RemovedType DEF pubrelHandler
  <2>3. released' \in [Message -> Nat]
    BY <1>10, RoutedType DEF pubrelHandler
  <2> QED
    BY <1>10, <2>1, <2>2, <2>3
       DEF pubrelHandler, Crosses, TypeOK, client, session, outbound
<1>11. ASSUME NEW i \in ForeignId, sendToClient(i) PROVE TypeOK'
  <2>1. m_retransmitHeap \in Seq(AllocId \cup {NoId})
    BY DEF TypeOK
  <2>2. /\ next_packet_id' \in 1 .. MaxAlloc + 1
        /\ m_retransmitHeap' \in Seq(AllocId \cup {NoId})
    BY <1>11, <2>1, ScheduledType DEF sendToClient
  <2>3. inflight' \in [PacketId -> Message \cup {NoMessage, Foreign}]
    BY <1>11, StoredType DEF sendToClient
  <2> QED
    BY <1>11, <2>2, <2>3 DEF sendToClient, Crosses, TypeOK, client, session
<1>12. CASE retransmit
  <2> DEFINE h == Tail(m_retransmitHeap)
  <2>1. h \in Seq(AllocId \cup {NoId})
    BY <1>12 DEF retransmit, TypeOK
  <2>2. /\ next_packet_id' \in 1 .. MaxAlloc + 1
        /\ m_retransmitHeap' \in Seq(AllocId \cup {NoId})
    <3>1. CASE Scheduled(h)
      BY <3>1, <2>1, ScheduledType
    <3>2. CASE m_retransmitHeap' = h /\ UNCHANGED next_packet_id
      BY <3>2, <2>1 DEF TypeOK
    <3> QED BY <1>12, <3>1, <3>2 DEF retransmit
  <2>3. released' \in [Message -> Nat]
    BY <1>12, RoutedType DEF retransmit
  <2> QED BY <1>12, <2>2, <2>3 DEF retransmit, Crosses, TypeOK, client, session
<1>13. CASE UNCHANGED vars
  BY <1>13 DEF vars, client, session, outbound, history, TypeOK
<1> QED
  BY <1>1, <1>2, <1>3, <1>4, <1>5, <1>6, <1>7, <1>8, <1>9, <1>10, <1>11, <1>12,
     <1>13
     DEF Next, Client, Handler

-----------------------------------------------------------------------------
(***************************************************************************)
(* The inductive invariant: the steps of the client and the network.       *)
(***************************************************************************)
LEMMA OpenStep ==
  ASSUME HandshakeInv, TypeOK', Open
  PROVE  HandshakeInv'
<1> USE HandshakeAssumption DEF HandshakeInv
<1> DEFINE c == Packet("CONNECT", opened + 1, NoId, NoMessage)
<1>1. /\ opened' = opened + 1 /\ ready' = FALSE
      /\ up' = up \cup {c} /\ down' = down
  BY DEF Open
<1>2. c.t = opened + 1 /\ c.type = "CONNECT"
  BY Fields
<1> HIDE DEF c
<1>3. opened \in Nat
  BY DEF TypeOK
<1>4. \A p \in up \cup down : p.t =< opened /\ p.t \in Nat
  BY UpShape, DownShape DEF Talk, Transport
<1>5. \A p \in up \cup down : p.t # opened'
  BY <1>1, <1>3, <1>4
<1>6. Talk'
  <2>1. \A p \in up' \cup down' : p.t =< opened'
    BY <1>1, <1>2, <1>3, <1>4
  <2>2. \A p \in up' \cup down' : p.t = opened' => p = c
    BY <1>1, <1>5
  <2> QED BY <1>1, <1>2, <2>1, <2>2 DEF Talk
<1>7. Asked' /\ Answered'
  BY <1>1, <1>2, <1>5 DEF Asked, Answered
<1>8. Names'
  BY <1>1, <1>2 DEF Names, Open, history
<1>9. OneAtATime' /\ Unused' /\ Stages'
  BY DEF OneAtATime, Unused, Stages, Open, history
<1> QED
  BY <1>6, <1>7, <1>8, <1>9

LEMMA LoseStep ==
  ASSUME HandshakeInv, TypeOK', NEW p \in up, Lose(p)
  PROVE  HandshakeInv'
<1> USE DEF HandshakeInv, Lose, client, session, outbound, history
<1>1. Talk' /\ Asked' /\ Answered'
  BY DEF Talk, Asked, Answered
<1>2. OneAtATime' /\ Names' /\ Unused' /\ Stages'
  BY DEF OneAtATime, Names, Unused, Stages
<1> QED
  BY <1>1, <1>2

LEMMA ConnackStep ==
  ASSUME HandshakeInv, TypeOK', NEW a \in down, GetConnack(a)
  PROVE  HandshakeInv'
<1> USE HandshakeAssumption DEF HandshakeInv
<1>1. /\ a.type = "CONNACK" /\ a.t = opened /\ down' = down \ {a}
      /\ opened' = opened /\ up' = up \cup Repeats /\ ready' = TRUE
      /\ waits' = waits /\ msg' = msg
  BY DEF GetConnack, Get
<1>2. \A p \in up \cup down : p.t = opened => p = a
  BY <1>1 DEF Talk
<1>3. \A p \in up : p.t # opened
  BY <1>1, <1>2, UpShape
<1>4. \A r \in Repeats : \E i \in Id :
        \/ r = Packet("PUBLISH", opened, i, msg[i]) /\ waits[i] = "PUBREC"
        \/ r = Packet("PUBREL", opened, i, NoMessage) /\ waits[i] = "PUBCOMP"
  BY DEF Repeats
<1>5. \A r \in Repeats : /\ r.t = opened /\ r.type \in {"PUBLISH", "PUBREL"}
                         /\ r.id \in Id
                         /\ r.type = "PUBLISH" => waits[r.id] = "PUBREC" /\ r.msg = msg[r.id]
                         /\ r.type = "PUBREL" => waits[r.id] = "PUBCOMP"
  BY <1>4, Fields
<1>6. \A r, q \in Repeats : r = q
  <2> SUFFICES ASSUME NEW r \in Repeats, NEW q \in Repeats PROVE r = q
    OBVIOUS
  <2>1. PICK i \in Id :
        \/ r = Packet("PUBLISH", opened, i, msg[i]) /\ waits[i] = "PUBREC"
        \/ r = Packet("PUBREL", opened, i, NoMessage) /\ waits[i] = "PUBCOMP"
    BY <1>4
  <2>2. PICK j \in Id :
        \/ q = Packet("PUBLISH", opened, j, msg[j]) /\ waits[j] = "PUBREC"
        \/ q = Packet("PUBREL", opened, j, NoMessage) /\ waits[j] = "PUBCOMP"
    BY <1>4
  <2>3. i = j
    BY <2>1, <2>2 DEF OneAtATime
  <2> QED BY <2>1, <2>2, <2>3
<1>7. \A p \in up' \cup down' : p.t = opened => p \in Repeats
  BY <1>1, <1>2, <1>3
<1>8. Talk'
  <2>1. opened \in Nat
    BY DEF TypeOK
  <2>2. \A p \in up' \cup down' : p.t =< opened'
    BY <1>1, <1>5, <2>1 DEF Talk
  <2>3. \A r \in Repeats : \E i \in Id : waits[i] # "nothing"
    BY <1>4
  <2> QED BY <1>1, <1>5, <1>6, <1>7, <2>2, <2>3 DEF Talk
<1>9. Asked'
  BY <1>1, <1>5, <1>7 DEF Asked
<1>10. Answered'
  BY <1>1, <1>2 DEF Answered
<1>11. Names'
  <2>1. \A p \in up' : p.type = "PUBLISH" => under[p.msg] = p.id
    BY <1>1, <1>5 DEF Names
  <2> QED BY <2>1 DEF Names, GetConnack, history
<1>12. OneAtATime' /\ Unused' /\ Stages'
  BY DEF OneAtATime, Unused, Stages, GetConnack, history
<1> QED
  BY <1>8, <1>9, <1>10, <1>11, <1>12

LEMMA PublishStep ==
  ASSUME HandshakeInv, TypeOK', NEW i \in Id, Publish(i)
  PROVE  HandshakeInv'
<1> USE HandshakeAssumption DEF HandshakeInv
<1> DEFINE m == published + 1
           b == Packet("PUBLISH", opened, i, m)
<1>1. /\ ready /\ published' = m /\ up' = up \cup {b} /\ down' = down
      /\ opened' = opened /\ ready' = ready /\ confirmed' = confirmed
      /\ released' = released /\ crossed' = crossed /\ inflight' = inflight
      /\ \A j \in Id : waits[j] = "nothing"
      /\ under' = [under EXCEPT ![m] = i]
      /\ waits' = [waits EXCEPT ![i] = "PUBREC"]
      /\ msg' = [msg EXCEPT ![i] = m]
  BY DEF Publish
<1>2. b.t = opened /\ b.type = "PUBLISH" /\ b.id = i /\ b.msg = m
  BY Fields
<1>3. m \in Message /\ m > published /\ published \in Nat
  BY DEF Publish, TypeOK, Message
<1>4. /\ waits'[i] = "PUBREC" /\ msg'[i] = m /\ under'[m] = i
      /\ \A j \in Id : j # i => waits'[j] = "nothing"
      /\ \A k \in Message : k # m => under'[k] = under[k]
  BY <1>1, <1>3 DEF TypeOK
<1>5. under[m] = NoId /\ i # NoId
  BY <1>3 DEF Names, NoId
<1>6. m \notin confirmed /\ released[m] = 0
  BY <1>3, <1>5 DEF Names
<1> HIDE DEF b, m
<1>7. \A p \in up \cup down : p.t # opened
  BY <1>1 DEF Talk
<1>8. opened \in Nat
  BY DEF TypeOK
<1>9. Talk'
  BY <1>1, <1>2, <1>4, <1>7, <1>8 DEF Talk
<1>10. Asked' /\ Answered'
  BY <1>1, <1>2, <1>4, <1>7 DEF Asked, Answered
<1>11. OneAtATime'
  BY <1>4 DEF OneAtATime
<1>12. Unused' /\ Stages'
  BY <1>1, <1>3, <1>4, <1>6 DEF Unused, Stages
<1>13. Names'
  <2>1. \A k \in Message : under'[k] # NoId <=> k =< published'
    <3>1. \A k \in Message : k =< published' <=> k =< published \/ k = m
      BY <1>1, <1>3 DEF Message, m
    <3> QED BY <1>4, <1>5, <3>1 DEF Names
  <2>2. \A k \in Message : under'[k] = NoId => k \notin confirmed' /\ released'[k] = 0
    BY <1>1, <1>4, <1>5 DEF Names
  <2>3. ASSUME NEW p \in up', p.type = "PUBLISH" PROVE under'[p.msg] = p.id
    <3>1. CASE p = b
      BY <3>1, <1>2, <1>4
    <3>2. CASE p \in up
      <4>1. under[p.msg] = p.id /\ p.msg \in Message /\ p.id \in Id
        BY <2>3, <3>2, UpShape DEF Names
      <4>2. p.msg # m
        BY <4>1, <1>5 DEF NoId
      <4> QED BY <4>1, <4>2, <1>4
    <3> QED BY <2>3, <3>1, <3>2, <1>1
  <2>4. \A j \in Id : waits'[j] # "nothing" =>
          under'[msg'[j]] = j /\ msg'[j] \notin confirmed'
    BY <1>1, <1>4, <1>6
  <2>5. ASSUME NEW j \in PacketId, inflight'[j] \in Message
        PROVE  j \in Id /\ under'[inflight'[j]] = j
    <3>1. j \in Id /\ under[inflight[j]] = j /\ inflight[j] \in Message
      BY <2>5, <1>1 DEF Names
    <3>2. inflight[j] # m
      BY <3>1, <1>5 DEF NoId
    <3> QED BY <3>1, <3>2, <1>1, <1>4
  <2> QED BY <2>1, <2>2, <2>3, <2>4, <2>5 DEF Names
<1> QED
  BY <1>9, <1>10, <1>11, <1>12, <1>13

LEMMA PubrecStep ==
  ASSUME HandshakeInv, TypeOK', NEW a \in down, NEW i \in Id, GetPubrec(a, i)
  PROVE  HandshakeInv'
<1> USE HandshakeAssumption DEF HandshakeInv
<1> DEFINE b == Packet("PUBREL", opened, i, NoMessage)
<1>1. /\ a.type = "PUBREC" /\ a.t = opened /\ waits[i] = "PUBREC"
      /\ down' = down \ {a} /\ up' = up \cup {b}
      /\ opened' = opened /\ ready' = ready /\ msg' = msg
      /\ confirmed' = confirmed /\ published' = published
      /\ inflight' = inflight
      /\ released' = released /\ crossed' = crossed /\ under' = under
      /\ waits' = [waits EXCEPT ![i] = "PUBCOMP"]
  BY DEF GetPubrec, Get, history
<1>2. b.t = opened /\ b.type = "PUBREL" /\ b.id = i
  BY Fields
<1> HIDE DEF b
<1>3. /\ waits'[i] = "PUBCOMP" /\ \A j \in Id : j # i => waits'[j] = waits[j]
      /\ \A j \in Id : j # i => waits[j] = "nothing"
  BY <1>1 DEF OneAtATime, TypeOK
<1>4. \A p \in up \cup down : p.t = opened => p = a
  BY <1>1 DEF Talk
<1>5. \A p \in up : p.t # opened
  BY <1>1, <1>4, UpShape
<1>6. ready /\ opened \in Nat
  <2>1. a.type \notin {"CONNECT", "REGISTER", "CONNACK"}
    BY <1>1
  <2>2. ready
    BY <1>1, <2>1 DEF Talk
  <2>3. opened \in Nat
    BY DEF TypeOK
  <2> QED BY <2>2, <2>3
<1>7. i \notin crossed => inflight[i] = msg[i]
  BY <1>1 DEF Answered
<1>8. Talk'
  <2>1. \A p \in up' \cup down' : p.t = opened' => p = b
    BY <1>1, <1>4, <1>5
  <2>2. \A p \in up' \cup down' : p.t =< opened'
    BY <1>1, <1>2, <1>6 DEF Talk
  <2> QED BY <1>1, <1>2, <1>3, <1>6, <2>1, <2>2 DEF Talk
<1>9. Asked'
  BY <1>1, <1>2, <1>3, <1>5 DEF Asked
<1>10. Answered'
  BY <1>1, <1>4 DEF Answered
<1>11. OneAtATime'
  BY <1>3 DEF OneAtATime
<1>12. Unused' /\ Stages'
  <2>1. msg[i] # NoMessage
    BY <1>1 DEF TypeOK
  <2> QED BY <2>1, <1>1, <1>3, <1>7 DEF Unused, Stages
<1>13. Names'
  BY <1>1, <1>2, <1>3 DEF Names
<1> QED
  BY <1>8, <1>9, <1>10, <1>11, <1>12, <1>13

LEMMA PubcompStep ==
  ASSUME HandshakeInv, TypeOK', NEW a \in down, NEW i \in Id, GetPubcomp(a, i)
  PROVE  HandshakeInv'
<1> USE HandshakeAssumption DEF HandshakeInv
<1>1. /\ a.type = "PUBCOMP" /\ a.t = opened /\ waits[i] = "PUBCOMP"
      /\ down' = down \ {a} /\ up' = up
      /\ opened' = opened /\ ready' = ready /\ msg' = msg
      /\ confirmed' = confirmed \cup {msg[i]} /\ published' = published
      /\ inflight' = inflight
      /\ released' = released /\ crossed' = crossed /\ under' = under
      /\ waits' = [waits EXCEPT ![i] = "nothing"]
  BY DEF GetPubcomp, Get, history
<1>2. \A j \in Id : waits'[j] = "nothing"
  BY <1>1 DEF OneAtATime, TypeOK
<1>3. \A p \in up \cup down : p.t = opened => p = a
  BY <1>1 DEF Talk
<1>4. \A p \in up' \cup down' : p.t # opened
  BY <1>1, <1>3, UpShape
<1>5. i \notin crossed => inflight[i] = NoMessage
  <2>1. i \notin crossed => released[msg[i]] = 1
    BY <1>1 DEF Answered
  <2> QED BY <2>1, <1>1 DEF Stages
<1>6. Talk' /\ Asked' /\ Answered'
  BY <1>1, <1>2, <1>4 DEF Talk, Asked, Answered
<1>7. OneAtATime' /\ Stages'
  BY <1>2 DEF OneAtATime, Stages
<1>8. Unused'
  BY <1>1, <1>5 DEF Unused, TypeOK
<1>9. Names'
  <2>1. under[msg[i]] = i /\ i # NoId
    BY <1>1 DEF Names, NoId
  <2> QED BY <1>1, <1>2, <2>1 DEF Names
<1> QED
  BY <1>6, <1>7, <1>8, <1>9

-----------------------------------------------------------------------------
(***************************************************************************)
(* The inductive invariant: the steps of the handlers.                     *)
(***************************************************************************)

\* An answer takes the place of its packet on the transport.
LEMMA AnswerStep ==
  ASSUME TypeOK, Talk, Asked, NEW p \in up, NEW type, Answer(p, type),
         Fits(p.type, type), UNCHANGED client
  PROVE  /\ Talk' /\ Asked'
         /\ \A q \in down' : q.t = opened =>
              q \in down \/ (q.type = type /\ p.t = opened)
         /\ p.t = opened => \A q \in down : q.t # opened
<1> DEFINE a == Packet(type, p.t, pack_ack(p.id), NoMessage)
<1>1. /\ up' = up \ {p} /\ down' = down \cup {a}
      /\ opened' = opened /\ ready' = ready /\ waits' = waits /\ msg' = msg
  BY DEF Answer, client
<1>2. a.type = type /\ a.t = p.t
  BY Fields
<1> HIDE DEF a
<1>3. \A q \in up \cup down : p.t = opened /\ q.t = opened => q = p
  BY DEF Talk
<1>4. p \notin down
  BY UpShape, DownShape
<1>5. p.t = opened => \A q \in (up \cup down) \ {p} : q.t # opened
  BY <1>3
<1>6. \A q \in up' \cup down' : q.t =< opened
  BY <1>1, <1>2 DEF Talk
<1>7. \A q, r \in up' \cup down' : q.t = opened /\ r.t = opened => q = r
  <2>1. CASE p.t = opened
    BY <2>1, <1>1, <1>4, <1>5
  <2>2. CASE p.t # opened
    BY <2>2, <1>1, <1>2 DEF Talk
  <2> QED BY <2>1, <2>2
<1>8. a.t = opened => (ready <=> a.type \notin {"CONNECT", "REGISTER", "CONNACK"})
  <2>1. p.t = opened => (ready <=> p.type \notin {"CONNECT", "REGISTER", "CONNACK"})
    BY DEF Talk
  <2> QED BY <2>1, <1>2 DEF Fits
<1>9. a.t = opened /\ ready => \E i \in Id : waits[i] # "nothing"
  BY <1>2 DEF Talk
<1>10. Talk'
  BY <1>1, <1>6, <1>7, <1>8, <1>9 DEF Talk
<1>11. Asked'
  BY <1>1 DEF Asked
<1> QED
  BY <1>1, <1>2, <1>4, <1>5, <1>10, <1>11

LEMMA ConnectStep ==
  ASSUME HandshakeInv, TypeOK', NEW p \in up, connectHandler(p)
  PROVE  HandshakeInv'
<1> USE HandshakeAssumption DEF HandshakeInv
<1>1. /\ p.type = "CONNECT" /\ UNCHANGED <<client, inflight, history>>
  BY DEF connectHandler
<1>2. OneAtATime' /\ Unused' /\ Stages'
  BY <1>1 DEF OneAtATime, Unused, Stages, client, history
<1>3. Talk' /\ Asked' /\ Answered' /\ Names'
  <2>1. CASE registered
    <3>1. Answer(p, "CONNACK") /\ Fits(p.type, "CONNACK")
      BY <1>1, <2>1 DEF connectHandler, Fits
    <3>2. up' \subseteq up
      BY <3>1 DEF Answer
    <3>3. /\ Talk' /\ Asked'
          /\ \A q \in down' : q.t = opened => q \in down \/ q.type = "CONNACK"
      BY <1>1, <3>1, AnswerStep
    <3>4. Answered'
      BY <1>1, <3>3 DEF Answered, client, history
    <3>5. Names'
      BY <1>1, <3>2 DEF Names, client, history
    <3> QED BY <3>3, <3>4, <3>5
  <2>2. CASE ~registered
    <3> DEFINE b == Packet("REGISTER", p.t, NoId, NoMessage)
    <3>1. up' = (up \ {p}) \cup {b} /\ down' = down
      BY <2>2 DEF connectHandler
    <3>2. b.type = "REGISTER" /\ b.t = p.t
      BY Fields
    <3> HIDE DEF b
    <3>3. \A q \in up \cup down : p.t = opened /\ q.t = opened => q = p
      BY DEF Talk
    <3>4. p \notin down
      BY <1>1, DownShape
    <3>5. Talk'
      <4>1. \A q \in up' \cup down' : q.t =< opened
        BY <3>1, <3>2 DEF Talk
      <4>2. \A q, r \in up' \cup down' : q.t = opened /\ r.t = opened => q = r
        <5>1. CASE p.t = opened
          BY <5>1, <3>1, <3>3, <3>4
        <5>2. CASE p.t # opened
          BY <5>2, <3>1, <3>2 DEF Talk
        <5> QED BY <5>1, <5>2
      <4>3. b.t = opened => ~ready
        BY <1>1, <3>2 DEF Talk
      <4> QED BY <1>1, <3>1, <3>2, <4>1, <4>2, <4>3 DEF Talk, client
    <3>6. Asked' /\ Answered' /\ Names'
      BY <1>1, <3>1, <3>2 DEF Asked, Answered, Names, client, history
    <3> QED BY <3>5, <3>6
  <2> QED BY <2>1, <2>2
<1> QED BY <1>2, <1>3

LEMMA RegisterStep ==
  ASSUME HandshakeInv, TypeOK', NEW p \in up, addToRegistry(p)
  PROVE  HandshakeInv'
<1> USE HandshakeAssumption DEF HandshakeInv
<1>1. /\ UNCHANGED <<client, released, under>>
      /\ Answer(p, "CONNACK") /\ Fits(p.type, "CONNACK")
      /\ \A i \in PacketId : inflight'[i] = NoMessage
      /\ crossed' = crossed \cup {i \in Id : inflight[i] # NoMessage}
  BY DEF addToRegistry, Fits, Crosses
<1>2. /\ Talk' /\ Asked'
      /\ \A q \in down' : q.t = opened => q \in down \/ q.type = "CONNACK"
  BY <1>1, AnswerStep
<1>3. up' \subseteq up /\ Id \subseteq PacketId /\ NoMessage \notin Message
  BY <1>1 DEF Answer, PacketId, Message, NoMessage
<1>4. Names'
  BY <1>1, <1>3 DEF Names, client
<1>5. OneAtATime'
  BY <1>1 DEF OneAtATime, client
<1>6. \A i \in Id \ crossed' : i \notin crossed /\ inflight[i] = NoMessage /\ inflight'[i] = NoMessage
  BY <1>1, <1>3
<1>7. Unused' /\ Stages'
  BY <1>1, <1>6 DEF Unused, Stages, client
<1>8. Answered'
  BY <1>1, <1>2, <1>6 DEF Answered, client
<1> QED BY <1>2, <1>4, <1>5, <1>7, <1>8

LEMMA PublishHandlerStep ==
  ASSUME HandshakeInv, TypeOK', NEW p \in up, publishHandler(p)
  PROVE  HandshakeInv'
<1> USE HandshakeAssumption DEF HandshakeInv
<1>1. /\ UNCHANGED <<client, released, under>> /\ p.type = "PUBLISH"
      /\ Answer(p, "PUBREC") /\ Fits(p.type, "PUBREC")
      /\ inflight' = Stored(p.id, p.msg)
      /\ crossed' = crossed \cup (IF Late(p) THEN {p.id} ELSE {})
  BY UpShape DEF publishHandler, Fits, Crosses
<1>2. p.id \in Id /\ p.msg \in Message /\ under[p.msg] = p.id
  BY <1>1, UpShape DEF Names
<1>3. /\ Talk' /\ Asked'
      /\ \A q \in down' : q.t = opened =>
           q \in down \/ (q.type = "PUBREC" /\ p.t = opened)
      /\ p.t = opened => \A q \in down : q.t # opened
  BY <1>1, AnswerStep
<1>4. up' \subseteq up /\ Id \subseteq PacketId /\ NoMessage \notin Message
  BY <1>1 DEF Answer, PacketId, Message, NoMessage
<1>5. /\ \A i \in PacketId : i # p.id => inflight'[i] = inflight[i]
      /\ inflight'[p.id] = IF inflight[p.id] = NoMessage THEN p.msg ELSE inflight[p.id]
  BY <1>1, <1>2, <1>4 DEF Stored, TypeOK
<1>6. ~Late(p) => waits[p.id] = "PUBREC" /\ msg[p.id] = p.msg
  BY <1>1 DEF Late
<1>7. crossed \subseteq crossed' /\ (p.id \notin crossed' => ~Late(p))
  BY <1>1
<1>8. OneAtATime'
  BY <1>1 DEF OneAtATime, client
<1>9. Names'
  BY <1>1, <1>2, <1>4, <1>5 DEF Names, client
<1>10. Unused'
  BY <1>1, <1>4, <1>5, <1>6, <1>7 DEF Unused, client
<1>11. ASSUME p.id \notin crossed'
       PROVE  inflight'[p.id] = msg[p.id] /\ released[msg[p.id]] = 0
  <2>1. p.id \notin crossed /\ waits[p.id] = "PUBREC" /\ msg[p.id] = p.msg
    BY <1>6, <1>7, <1>11
  <2> QED BY <2>1, <1>2, <1>4, <1>5 DEF Stages
<1>12. Stages'
  BY <1>1, <1>4, <1>5, <1>7, <1>11 DEF Stages, client
<1>13. Answered'
  <2> SUFFICES ASSUME NEW q \in down', NEW i \in Id, q.t = opened,
                      waits[i] # "nothing"
               PROVE  /\ q.type = "PUBREC" =>
                           waits[i] = "PUBREC" /\ (i \notin crossed' => inflight'[i] = msg[i])
                      /\ q.type = "PUBCOMP" =>
                           waits[i] = "PUBCOMP" /\ (i \notin crossed' => released[msg[i]] = 1)
    BY <1>1 DEF Answered, client
  <2>1. CASE q \in down
    <3>1. i # p.id => inflight'[i] = inflight[i]
      BY <1>4, <1>5
    <3> QED BY <2>1, <3>1, <1>7, <1>11 DEF Answered
  <2>2. CASE q.type = "PUBREC" /\ p.t = opened
    <3>1. waits[p.id] = "PUBREC"
      BY <2>2, <1>1 DEF Asked
    <3>2. i = p.id
      BY <3>1, <1>2 DEF OneAtATime
    <3> QED BY <2>2, <3>1, <3>2, <1>11
  <2> QED BY <1>3, <2>1, <2>2
<1> QED BY <1>3, <1>8, <1>9, <1>10, <1>12, <1>13

LEMMA PubrelHandlerStep ==
  ASSUME HandshakeInv, TypeOK', NEW p \in up, pubrelHandler(p)
  PROVE  HandshakeInv'
<1> USE HandshakeAssumption DEF HandshakeInv
<1>1. /\ UNCHANGED <<client, under>> /\ p.type = "PUBREL"
      /\ Answer(p, "PUBCOMP") /\ Fits(p.type, "PUBCOMP")
      /\ inflight' = removeFromInflight(p.id) /\ released' = Routed(inflight[p.id])
      /\ crossed' = crossed \cup (IF Late(p) THEN {p.id} ELSE {})
  BY UpShape DEF pubrelHandler, Fits, Crosses
<1>2. p.id \in Id
  BY <1>1, UpShape
<1>3. /\ Talk' /\ Asked'
      /\ \A q \in down' : q.t = opened =>
           q \in down \/ (q.type = "PUBCOMP" /\ p.t = opened)
      /\ p.t = opened => \A q \in down : q.t # opened
  BY <1>1, AnswerStep
<1>4. up' \subseteq up /\ Id \subseteq PacketId /\ NoMessage \notin Message
  BY <1>1 DEF Answer, PacketId, Message, NoMessage
<1>5. /\ \A i \in PacketId : i # p.id => inflight'[i] = inflight[i]
      /\ inflight'[p.id] = NoMessage
  BY <1>1, <1>2, <1>4 DEF removeFromInflight, TypeOK
<1>6. \A m \in Message :
        released'[m] = IF m = inflight[p.id] THEN released[m] + 1 ELSE released[m]
  BY <1>1 DEF Routed, TypeOK
<1>7. crossed \subseteq crossed' /\ (p.id \notin crossed' => waits[p.id] # "PUBREC")
  BY <1>1 DEF Late
<1>8. OneAtATime'
  BY <1>1 DEF OneAtATime, client
<1>9. \A m \in Message : under[m] # p.id => released'[m] = released[m]
  BY <1>2, <1>4, <1>6 DEF Names
<1>10. Names'
  <2>1. \A m \in Message : under[m] = NoId => released'[m] = released[m]
    BY <1>2, <1>9 DEF NoId
  <2> QED BY <1>1, <1>4, <1>5, <2>1 DEF Names, client
<1>11. Unused'
  BY <1>1, <1>4, <1>5, <1>7 DEF Unused, client
<1>12. ASSUME p.id \notin crossed', waits[p.id] # "nothing"
       PROVE  waits[p.id] = "PUBCOMP" /\ released'[msg[p.id]] = 1
  <2>1. p.id \notin crossed /\ waits[p.id] = "PUBCOMP" /\ msg[p.id] \in Message
    BY <1>2, <1>7, <1>12 DEF TypeOK
  <2>2. \/ inflight[p.id] = msg[p.id] /\ released[msg[p.id]] = 0
        \/ inflight[p.id] = NoMessage /\ released[msg[p.id]] = 1
    BY <1>2, <2>1 DEF Stages
  <2> QED BY <2>1, <2>2, <1>4, <1>6
<1>13. ASSUME NEW i \in Id, i # p.id, waits[i] # "nothing"
       PROVE  released'[msg[i]] = released[msg[i]] /\ inflight'[i] = inflight[i]
  <2>1. msg[i] \in Message /\ under[msg[i]] = i
    BY <1>13 DEF TypeOK, Names
  <2> QED BY <2>1, <1>4, <1>5, <1>9, <1>13
<1>14. Stages'
  <2> SUFFICES ASSUME NEW i \in Id, i \notin crossed', waits[i] # "nothing"
               PROVE  \/ inflight'[i] = msg[i] /\ released'[msg[i]] = 0
                      \/ inflight'[i] = NoMessage /\ released'[msg[i]] = 0 /\ waits[i] = "PUBREC"
                      \/ inflight'[i] = NoMessage /\ released'[msg[i]] = 1 /\ waits[i] = "PUBCOMP"
    BY <1>1 DEF Stages, client
  <2>1. CASE i = p.id
    BY <2>1, <1>5, <1>12
  <2>2. CASE i # p.id
    BY <2>2, <1>7, <1>13 DEF Stages
  <2> QED BY <2>1, <2>2
<1>15. Answered'
  <2> SUFFICES ASSUME NEW q \in down', NEW i \in Id, q.t = opened,
                      waits[i] # "nothing"
               PROVE  /\ q.type = "PUBREC" =>
                           waits[i] = "PUBREC" /\ (i \notin crossed' => inflight'[i] = msg[i])
                      /\ q.type = "PUBCOMP" =>
                           waits[i] = "PUBCOMP" /\ (i \notin crossed' => released'[msg[i]] = 1)
    BY <1>1 DEF Answered, client
  <2>1. CASE q \in down
    <3>1. CASE i = p.id
      BY <2>1, <3>1, <1>7, <1>12 DEF Answered
    <3>2. CASE i # p.id
      BY <2>1, <3>2, <1>7, <1>13 DEF Answered
    <3> QED BY <3>1, <3>2
  <2>2. CASE q.type = "PUBCOMP" /\ p.t = opened
    <3>1. waits[p.id] = "PUBCOMP"
      BY <2>2, <1>1 DEF Asked
    <3>2. i = p.id
      BY <3>1, <1>2 DEF OneAtATime
    <3> QED BY <2>2, <3>1, <3>2, <1>12
  <2> QED BY <1>3, <2>1, <2>2
<1> QED BY <1>3, <1>8, <1>10, <1>11, <1>14, <1>15

-----------------------------------------------------------------------------
(***************************************************************************)
(* The inductive invariant: what the broker sends, and all steps.          *)
(***************************************************************************)

\* A step that only touches crossed identifiers and their messages.
LEMMA ApartStep ==
  ASSUME HandshakeInv, TypeOK', UNCHANGED <<client, up, down, under>>,
         crossed \subseteq crossed',
         \A i \in Id \ crossed' : inflight'[i] = inflight[i],
         \A i \in PacketId : inflight'[i] \in Message => inflight'[i] = inflight[i],
         \A m \in Message : under[m] \notin crossed' => released'[m] = released[m]
  PROVE  HandshakeInv'
<1> USE HandshakeAssumption DEF HandshakeInv, client
<1>1. OneAtATime' /\ Talk' /\ Asked'
  BY DEF OneAtATime, Talk, Asked
<1>2. Names'
  <2>1. \A m \in Message : under[m] = NoId => released'[m] = released[m]
    BY DEF TypeOK, NoId
  <2> QED BY <2>1 DEF Names
<1>3. \A i \in Id \ crossed' : i \notin crossed
  OBVIOUS
<1>4. \A i \in Id \ crossed' : waits[i] # "nothing" => released'[msg[i]] = released[msg[i]]
  <2> SUFFICES ASSUME NEW i \in Id \ crossed', waits[i] # "nothing"
               PROVE  released'[msg[i]] = released[msg[i]]
    OBVIOUS
  <2>1. msg[i] \in Message /\ under[msg[i]] = i
    BY DEF TypeOK, Names
  <2> QED BY <2>1
<1>5. Unused'
  BY <1>3 DEF Unused
<1>6. Stages'
  BY <1>3, <1>4 DEF Stages
<1>7. Answered'
  BY <1>3, <1>4 DEF Answered
<1> QED BY <1>1, <1>2, <1>5, <1>6, <1>7

LEMMA SendStep ==
  ASSUME HandshakeInv, TypeOK', NEW i \in ForeignId, sendToClient(i)
  PROVE  HandshakeInv'
<1> USE HandshakeAssumption DEF HandshakeInv
<1>1. /\ UNCHANGED <<client, up, down, under, released>>
      /\ crossed' = crossed \cup (Id \cap (IF inflight[i] = NoMessage THEN {i} ELSE {}))
      /\ inflight' = Stored(i, Foreign)
  BY DEF sendToClient, Crosses
<1>2. Foreign \notin Message /\ Id \subseteq PacketId /\ i \in PacketId
  BY DEF Message, PacketId
<1>3. \A j \in PacketId : inflight'[j] = inflight[j]
                           \/ (j = i /\ inflight[i] = NoMessage /\ inflight'[j] = Foreign)
  BY <1>1, <1>2 DEF Stored, TypeOK
<1> QED
  BY <1>1, <1>2, <1>3, ApartStep

LEMMA RetransmitStep ==
  ASSUME HandshakeInv, TypeOK', retransmit
  PROVE  /\ HandshakeInv'
         /\ \A m \in Message : under[m] \notin crossed' => released'[m] = released[m]
<1> USE HandshakeAssumption DEF HandshakeInv
<1> DEFINE i == Head(m_retransmitHeap)
<1>1. /\ UNCHANGED <<client, up, down, under, inflight>>
      /\ crossed' = crossed \cup (Id \cap (IF inflight[i] \in Message THEN {i} ELSE {}))
      /\ released' = Routed(inflight[i])
  BY DEF retransmit, Crosses
<1>2. i \in AllocId
  <2>1. i \in AllocId \cup {NoId} /\ i # NoId
    BY DEF retransmit, TypeOK
  <2> QED BY <2>1
<1> HIDE DEF i
<1>3. i \in PacketId
  BY <1>2 DEF PacketId
<1>4. \A m \in Message : under[m] \notin crossed' => released'[m] = released[m]
  <2>1. CASE inflight[i] \in Message
    <3>1. i \in crossed' /\ under[inflight[i]] = i
      BY <2>1, <1>1, <1>3 DEF Names
    <3>2. \A m \in Message : m # inflight[i] => released'[m] = released[m]
      BY <1>1, <2>1 DEF Routed, TypeOK
    <3> QED BY <3>1, <3>2
  <2>2. CASE inflight[i] \notin Message
    BY <1>1, <2>2 DEF Routed
  <2> QED BY <2>1, <2>2
<1> QED
  BY <1>1, <1>4, ApartStep

LEMMA HandshakeStep == HandshakeInv /\ [Next]_vars => HandshakeInv'
<1> SUFFICES ASSUME HandshakeInv, [Next]_vars PROVE HandshakeInv'
  OBVIOUS
<1>1. TypeOK'
  BY TypeStep DEF HandshakeInv
<1>2. CASE UNCHANGED vars
  BY <1>1, <1>2, ApartStep DEF vars, history
<1>3. CASE Client
  BY <1>1, <1>3, ConnackStep, PublishStep, PubrecStep, PubcompStep DEF Client
<1>4. CASE Handler
  BY <1>1, <1>4, ConnectStep, RegisterStep, PublishHandlerStep, PubrelHandlerStep
     DEF Handler
<1>5. CASE \E i \in ForeignId : sendToClient(i)
  BY <1>1, <1>5, SendStep
<1>6. CASE retransmit
  BY <1>1, <1>6, RetransmitStep
<1>7. CASE Open \/ \E p \in up : Lose(p)
  BY <1>1, <1>7, OpenStep, LoseStep
<1> QED
  BY <1>2, <1>3, <1>4, <1>5, <1>6, <1>7 DEF Next

LEMMA HandshakeInit == Init => HandshakeInv
<1> SUFFICES ASSUME Init PROVE HandshakeInv
  OBVIOUS
<1> USE HandshakeAssumption DEF Init, Message, NoMessage, NoId
<1>1. TypeOK
  <2>1. /\ opened \in 0 .. MaxTransports /\ published \in 0 .. MaxMessages
        /\ next_packet_id \in 1 .. MaxAlloc + 1
    OBVIOUS
  <2>2. m_retransmitHeap \in Seq(AllocId \cup {NoId})
    OBVIOUS
  <2>3. released \in [Message -> Nat] /\ msg \in [Id -> Message \cup {NoMessage}]
    OBVIOUS
  <2> QED BY <2>1, <2>2, <2>3 DEF TypeOK
<1>2. OneAtATime /\ Talk /\ Asked /\ Answered /\ Unused /\ Stages
  BY DEF OneAtATime, Talk, Asked, Answered, Unused, Stages, PacketId
<1>3. Names
  BY DEF Names
<1> QED BY <1>1, <1>2, <1>3 DEF HandshakeInv

-----------------------------------------------------------------------------
(***************************************************************************)
(* The theorems.                                                           *)
(***************************************************************************)

\* The state of the handshake keeps its types, in any order of handlers.
THEOREM HandshakeTypes == Spec => []TypeOK
<1>1. Init => TypeOK
  BY HandshakeInit DEF HandshakeInv
<1> QED BY <1>1, TypeStep, PTL DEF Spec

LEMMA HandshakeAlways == Spec => []HandshakeInv
BY HandshakeInit, HandshakeStep, PTL DEF Spec

\* pubrelHandler, not publishHandler, is what routes a QoS 2 message published
\* under an identifier nothing has crossed.
THEOREM RoutedOnPubrel == Spec => []ReleasedOnRequest
<1>1. HandshakeInv => ReleasedOnRequest
  BY DEF HandshakeInv, Stages, ReleasedOnRequest
<1> QED BY <1>1, HandshakeAlways, PTL

LEMMA OnceInit == Init => Once!Init
BY HandshakeAssumption DEF Init, Once!Init, Stage

\* A step that changes no message but those of crossed identifiers spoils these.
LEMMA SpoilStep ==
  ASSUME TypeOK', UNCHANGED under, crossed \subseteq crossed',
         \A m \in Message : under[m] \notin crossed' =>
           released'[m] = released[m] /\ (m \in confirmed' <=> m \in confirmed)
  PROVE  Once!Next
<1> DEFINE S == {m \in Message : under[m] \in crossed'}
<1>1. NoId \notin crossed'
  BY HandshakeAssumption DEF TypeOK
<1>2. ASSUME NEW m \in Message PROVE Stage(m)' = IF m \in S THEN "spoilt" ELSE Stage(m)
  <2>1. CASE under[m] \in crossed'
    BY <2>1, <1>1 DEF Stage
  <2>2. CASE under[m] \notin crossed'
    <3>1. under[m] \notin crossed
      BY <2>2
    <3> QED BY <2>2, <3>1 DEF Stage
  <2> QED BY <2>1, <2>2
<1>3. Once!Spoil(S)
  BY <1>2 DEF Once!Spoil
<1>4. S \in SUBSET Message
  OBVIOUS
<1> HIDE DEF S
<1> QED BY <1>3, <1>4 DEF Once!Next

\* A step that takes one message a stage further
LEMMA StageStep ==
  ASSUME NEW m \in Message, \A k \in Message \ {m} : Stage(k)' = Stage(k),
         \/ Stage(m) = "new" /\ Stage(m)' = "sent"
         \/ Stage(m) = "sent" /\ Stage(m)' = "passed on"
         \/ Stage(m) = "passed on" /\ Stage(m)' = "done"
  PROVE  Once!Next
<1>1. CASE Stage(m) = "new" /\ Stage(m)' = "sent"
  <2>1. Once!Send(m)
    BY <1>1 DEF Once!Send
  <2> QED BY <2>1 DEF Once!Next
<1>2. CASE Stage(m) = "sent" /\ Stage(m)' = "passed on"
  <2>1. Once!Release(m)
    BY <1>2 DEF Once!Release
  <2> QED BY <2>1 DEF Once!Next
<1>3. CASE Stage(m) = "passed on" /\ Stage(m)' = "done"
  <2>1. Once!Confirm(m)
    BY <1>3 DEF Once!Confirm
  <2> QED BY <2>1 DEF Once!Next
<1> QED BY <1>1, <1>2, <1>3

LEMMA PublishOnce ==
  ASSUME HandshakeInv, TypeOK', NEW i \in Id, Publish(i)
  PROVE  Once!Next
<1> USE HandshakeAssumption DEF HandshakeInv
<1>0. PICK m \in Message : m = published + 1
  BY DEF Publish, TypeOK, Message
<1>1. /\ m \in Message /\ m > published /\ published \in Nat
      /\ released' = released /\ confirmed' = confirmed /\ crossed' = crossed
      /\ under' = [under EXCEPT ![m] = i]
  BY <1>0 DEF Publish, TypeOK, Message
<1>2. under[m] = NoId /\ i # NoId
  <2>1. m \in Message /\ ~(m =< published)
    BY <1>1 DEF Message
  <2>2. under[m] = NoId
    BY <2>1 DEF Names
  <2> QED BY <2>2 DEF NoId
<1>3. released[m] = 0 /\ m \notin confirmed
  BY <1>1, <1>2 DEF Names
<1>4. under'[m] = i /\ \A k \in Message : k # m => under'[k] = under[k]
  BY <1>1 DEF TypeOK
<1>5. \A k \in Message \ {m} : Stage(k)' = Stage(k)
  BY <1>1, <1>4 DEF Stage
<1>6. Stage(m) = "new"
  BY <1>2 DEF Stage
<1>7. CASE i \in crossed
  <2>1. Stage(m)' = "spoilt"
    BY <1>1, <1>2, <1>4, <1>7 DEF Stage
  <2>2. Once!Spoil({m})
    BY <2>1, <1>5 DEF Once!Spoil
  <2>3. {m} \in SUBSET Message
    BY <1>1
  <2> QED BY <2>2, <2>3 DEF Once!Next
<1>8. CASE i \notin crossed
  <2>1. Stage(m)' = "sent"
    BY <1>1, <1>2, <1>3, <1>4, <1>8 DEF Stage
  <2> QED BY <2>1, <1>1, <1>5, <1>6, StageStep
<1> QED BY <1>7, <1>8

LEMMA PubcompOnce ==
  ASSUME HandshakeInv, TypeOK', NEW a \in down, NEW i \in Id, GetPubcomp(a, i)
  PROVE  Once!Next
<1> USE HandshakeAssumption DEF HandshakeInv
<1>1. /\ a.type = "PUBCOMP" /\ a.t = opened /\ waits[i] = "PUBCOMP"
      /\ confirmed' = confirmed \cup {msg[i]}
      /\ released' = released /\ crossed' = crossed /\ under' = under
  BY DEF GetPubcomp, Get, history
<1>2. PICK m \in Message : m = msg[i]
  BY <1>1 DEF TypeOK
<1>3. under[m] = i /\ m \notin confirmed /\ i # NoId
  BY <1>1, <1>2 DEF Names, NoId
<1>4. CASE i \in crossed
  BY <1>1, <1>2, <1>3, <1>4, SpoilStep
<1>5. CASE i \notin crossed
  <2>1. released[m] = 1
    BY <1>1, <1>2, <1>5 DEF Answered
  <2>2. Stage(m) = "passed on" /\ Stage(m)' = "done"
    BY <2>1, <1>1, <1>2, <1>3, <1>5 DEF Stage
  <2>3. \A k \in Message \ {m} : Stage(k)' = Stage(k)
    BY <1>1, <1>2 DEF Stage
  <2> QED BY <2>2, <2>3, StageStep
<1> QED BY <1>4, <1>5

LEMMA PubrelOnce ==
  ASSUME HandshakeInv, TypeOK', NEW p \in up, pubrelHandler(p)
  PROVE  Once!Next
<1> USE HandshakeAssumption DEF HandshakeInv
<1>1. /\ under' = under /\ confirmed' = confirmed /\ p.type = "PUBREL"
      /\ released' = Routed(inflight[p.id])
      /\ crossed' = crossed \cup (IF Late(p) THEN {p.id} ELSE {})
  BY UpShape DEF pubrelHandler, Crosses, client
<1>2. p.id \in Id /\ p.id \in PacketId
  BY <1>1, UpShape DEF PacketId
<1>3. \A k \in Message : k # inflight[p.id] => released'[k] = released[k]
  BY <1>1 DEF Routed, TypeOK
<1>4. CASE inflight[p.id] \notin Message \/ p.id \in crossed'
  <2>1. inflight[p.id] \in Message => under[inflight[p.id]] = p.id
    BY <1>2 DEF Names
  <2> QED BY <2>1, <1>1, <1>3, <1>4, SpoilStep
<1>5. CASE inflight[p.id] \in Message /\ p.id \notin crossed'
  <2>0. PICK m \in Message : m = inflight[p.id]
    BY <1>5
  <2>1. p.id \notin crossed /\ crossed' = crossed /\ m # NoMessage
    BY <1>1, <1>5 DEF Message, NoMessage
  <2>2. waits[p.id] # "nothing"
    BY <2>0, <2>1, <1>2 DEF Unused
  <2>3. m = msg[p.id] /\ released[m] = 0
    BY <2>0, <2>1, <2>2, <1>2 DEF Stages
  <2>4. under[m] = p.id /\ m \notin confirmed /\ p.id # NoId
    BY <2>2, <2>3, <1>2 DEF Names, NoId
  <2>5. released'[m] = 1
    <3>1. released' = [released EXCEPT ![m] = released[m] + 1]
      BY <2>0, <1>1 DEF Routed
    <3>2. m \in DOMAIN released
      BY DEF TypeOK
    <3> QED BY <2>3, <3>1, <3>2
  <2>6. Stage(m) = "sent" /\ Stage(m)' = "passed on"
    BY <2>1, <2>3, <2>4, <2>5, <1>1 DEF Stage
  <2>7. \A k \in Message \ {m} : Stage(k)' = Stage(k)
    BY <2>0, <2>1, <1>1, <1>3 DEF Stage
  <2> QED BY <2>6, <2>7, StageStep
<1> QED BY <1>4, <1>5

LEMMA OnceStep ==
  ASSUME HandshakeInv, [Next]_vars
  PROVE  Once!Next
<1>0. TypeOK'
  BY TypeStep DEF HandshakeInv
<1>1. CASE \/ Open \/ UNCHANGED vars
           \/ \E p \in up : Lose(p) \/ connectHandler(p)
           \/ \E a \in down : GetConnack(a) \/ \E i \in Id : GetPubrec(a, i)
  <2>1. UNCHANGED <<released, under, crossed, confirmed>>
    BY <1>1
       DEF Open, vars, Lose, connectHandler, GetConnack, GetPubrec, client, history
  <2> QED BY <2>1, <1>0, SpoilStep
<1>2. CASE \/ \E p \in up : addToRegistry(p) \/ publishHandler(p)
           \/ \E i \in ForeignId : sendToClient(i)
  <2>1. /\ UNCHANGED <<released, under, confirmed>>
        /\ crossed \subseteq crossed'
    BY <1>2
       DEF addToRegistry, publishHandler, sendToClient, Crosses, client
  <2> QED BY <2>1, <1>0, SpoilStep
<1>3. CASE retransmit
  <2>1. /\ UNCHANGED <<under, confirmed>> /\ crossed \subseteq crossed'
    BY <1>3 DEF retransmit, Crosses, client
  <2>2. \A m \in Message : under[m] \notin crossed' => released'[m] = released[m]
    BY <1>0, <1>3, RetransmitStep
  <2> QED BY <2>1, <2>2, <1>0, SpoilStep
<1>4. CASE \/ \E i \in Id : Publish(i)
           \/ \E a \in down, i \in Id : GetPubcomp(a, i)
           \/ \E p \in up : pubrelHandler(p)
  BY <1>0, <1>4, PublishOnce, PubcompOnce, PubrelOnce
<1> QED
  BY <1>1, <1>2, <1>3, <1>4 DEF Next, Client, Handler

\* However often a client reconnects and repeats its packets, in whatever order
\* the pool takes them, a QoS 2 message is routed once, and has been when the
\* client sees PUBCOMP, unless its identifier was crossed: a packet handled late, a
\* message or a retransmission of the other direction under the same identifier, or
\* a second registration of the client.
THEOREM QoS2DeliversOnce == Spec => DeliversOnce
<1>1. HandshakeInv /\ [Next]_vars => Once!Next
  BY OnceStep
<1> QED
  BY <1>1, OnceInit, HandshakeAlways, PTL DEF Spec, DeliversOnce, Once!Spec
============================================================================
