------------------------------ MODULE Receive ------------------------------
(***************************************************************************)
(* From bytes to handlers: the receive buffer of one transport.  The main  *)
(* thread appends what it reads and queues parseData, once for every       *)
(* event; a worker unpacks the first packet under the buffer's lock, gives *)
(* the lock up, takes it again to erase the packet and calls the handler.  *)
(*                                                                         *)
(* A client writes one packet after the other, and TCP delivers the bytes   *)
(* in pieces.  Reading, the buffer and the pool are the network core's,    *)
(* modelled from their use: an emptied buffer is taken to show the first   *)
(* byte of the packet it held, so that unpack finds it partial, and the    *)
(* pool to survive an exception.                                           *)
(*                                                                         *)
(* Nothing keeps two tasks of one transport apart.  When one unpacks before *)
(* another is done with its packet, the packet may be unpacked twice or    *)
(* handled after the next: that is overlap.  From then on bytes are erased *)
(* that nobody unpacked, so the front of the buffer may be anything: the   *)
(* tasks at work finish, and no further packet is unpacked here.           *)
(***************************************************************************)
EXTENDS Wire, FiniteSets

CONSTANTS
  Packet,      \* what a client may send: its bytes, and what they say or None
  None,        \* says nothing: foreign, wrong, or longer than the code reads
  Past,        \* bytes that may lie behind the end of the buffer
  Worker,      \* the threads of the pool
  Piece,       \* bound: how many bytes TCP may deliver at once
  MaxPackets,  \* bound: packets of a stream
  MaxTasks     \* bound: parseData tasks waiting in the pool

\* A packet as MQTT frames it: first byte, remaining length, body
Frame(h, body) == <<HeaderPack(h)>> \o encode_length(Len(body)) \o body

\* A PUBLISH whose topic and payload have lengths that the wire can carry
Publication(m) ==
  /\ m.header.type = PUBLISH
  /\ m.pkt.topic \in Seq(Byte) /\ Len(m.pkt.topic) < 256 * 256
  /\ m.pkt.payload \in Seq(Byte)
  /\ Len(m.pkt.topic) + Len(m.pkt.payload) + 4 < 128 * 128 * 128
  /\ m = [header |-> m.header,
          pkt |-> [topic |-> m.pkt.topic, packet_id |-> m.pkt.packet_id,
                   payload |-> m.pkt.payload]]

\* The bytes of p frame a body that says what p says; its length takes at most
\* three bytes, and a CONNECT has the strings its flags announce.
Spoken(p) ==
  /\ p.says.header \in Headers /\ p.says.header.type \in Kinds
  /\ \E k \in 3 .. 5 :
       LET body == From(p.bytes, k)
       IN  /\ p.bytes = Frame(p.says.header, body)
           /\ Len(body) < 128 * 128 * 128
           /\ ~Refused(p.says.header, body)
           /\ p.says = [header |-> p.says.header, pkt |-> Body(p.says.header, body)]
           /\ p.says.header.type = CONNECT =>
                Announced(p.says.pkt.cf) =< Len(ConnectStrings(body))
  /\ p.says.header.type = PUBLISH => Publication(p.says)

\* The broker has no function for the type of p.
Foreign(p) == HeaderUnpack(p.bytes[1]).type \notin Kinds

\* The bytes of p frame a body that an unpacker refuses.
Wrong(p) ==
  LET h == HeaderUnpack(p.bytes[1])
  IN  \E k \in 3 .. 5 :
        LET body == From(p.bytes, k)
        IN  /\ h.type \in Kinds /\ p.bytes = Frame(h, body)
            /\ Len(body) < 128 * 128 * 128 /\ Refused(h, body)

\* The length of p takes a fourth byte.
Long(p) == Len(p.bytes) >= 4 /\ \A i \in 2 .. 4 : p.bytes[i] >= 128

ASSUME ReceiveAssumption ==
  /\ \A p \in Packet : p.bytes \in Seq(Byte) /\ p.bytes # <<>>
  /\ \A p \in Packet : IF p.says = None THEN Foreign(p) \/ Wrong(p) \/ Long(p)
                        ELSE Spoken(p)
  /\ Past \subseteq Byte /\ Piece \subseteq Nat \ {0}
  /\ MaxPackets \in Nat /\ MaxTasks \in Nat

VARIABLES
  sent,        \* history: the packets the client has written
  ends,        \* history: where in the stream each of them ends
  stream,      \* their bytes
  read,        \* how many of these the main thread has read
  m_recvBuff,  \* Session::m_recvBuff
  tasks,       \* parseData tasks waiting
  task,        \* the packet a worker has unpacked, and whether it is erased
  handled,     \* history: packets that went to a handler
  open,        \* the transport has not been disconnected
  crashed,     \* the process has ended
  merged,      \* history: an event brought the ends of two packets
  overlap      \* history: a task unpacked while another was at work

client == <<sent, ends, stream>>
vars == <<client, read, m_recvBuff, tasks, task, handled, open, crashed,
          merged, overlap>>

Idle == [at |-> "idle"]
Says == {p.says : p \in Packet}

\* Types, and: the packet a worker is about to erase is in the buffer, unless
\* another has erased it.
TypeOK ==
  /\ sent \in Seq(Packet) /\ Len(sent) =< MaxPackets
  /\ ends \in Seq(Nat) /\ stream \in Seq(Byte)
  /\ read \in 0 .. Len(stream) /\ m_recvBuff \in Seq(Byte)
  /\ tasks \in 0 .. MaxTasks
  /\ DOMAIN task = Worker
  /\ \A w \in Worker :
       \/ task[w] = Idle
       \/ /\ task[w].at = "unpacked" /\ task[w].packet \in Says
          /\ task[w].pkt_len \in Nat \ {0}
          /\ overlap \/ task[w].pkt_len =< Len(m_recvBuff)
       \/ task[w].at = "erased" /\ task[w].packet \in Says
  /\ handled \in Seq(Says)
  /\ open \in BOOLEAN /\ crashed \in BOOLEAN
  /\ merged \in BOOLEAN /\ overlap \in BOOLEAN

Init ==
  /\ sent = <<>> /\ ends = <<>> /\ stream = <<>> /\ read = 0
  /\ m_recvBuff = <<>> /\ tasks = 0 /\ task = [w \in Worker |-> Idle]
  /\ handled = <<>> /\ open = TRUE /\ crashed = FALSE
  /\ merged = FALSE /\ overlap = FALSE

\* The client writes another packet
Send(p) ==
  /\ Len(sent) < MaxPackets
  /\ sent' = Append(sent, p)
  /\ stream' = stream \o p.bytes
  /\ ends' = Append(ends, Len(stream'))
  /\ UNCHANGED <<read, m_recvBuff, tasks, task, handled, open, crashed, merged, overlap>>

\* How many packets end in the next n bytes
Completes(n) == Cardinality({i \in DOMAIN ends : ends[i] \in read + 1 .. read + n})

\* SessionEvent: TCP delivers n more bytes, in one event
SessionEvent(n) ==
  /\ open /\ ~crashed /\ tasks < MaxTasks /\ read + n =< Len(stream)
  /\ read' = read + n
  /\ m_recvBuff' = m_recvBuff \o SubSeq(stream, read + 1, read + n)
  /\ tasks' = tasks + 1
  /\ merged' = (merged \/ Completes(n) > 1)
  /\ UNCHANGED <<client, task, handled, open, crashed, overlap>>

\* What unpack answers to a packet it does not take
Refusals == {"error", "undefined"}

\* The error path of parseData disconnects the client, or dereferences the null
\* pointer it gets for a client without a session (module Sessions).  A wild entry of
\* the table ends the process, or is null and leads to the error path.
Refuse ==
  \/ open' = FALSE /\ UNCHANGED crashed
  \/ crashed' = TRUE /\ UNCHANGED open

\* parseData, first lock: unpack what is at the front.  ~overlap is not in the
\* code: it bounds the model, see above.
Unpack(w) ==
  /\ ~crashed /\ ~overlap /\ tasks > 0 /\ task[w] = Idle
  /\ tasks' = tasks - 1
  /\ \E past \in Past :
       LET r == IF m_recvBuff = <<>> THEN [rc |-> "partial"]
                ELSE unpack(m_recvBuff, past)
       IN  /\ IF r.rc \in Refusals THEN Refuse ELSE UNCHANGED <<open, crashed>>
           /\ task' = IF r.rc # "ok" THEN task
                      ELSE [task EXCEPT ![w] =
                              [at |-> "unpacked", pkt_len |-> r.pkt_len,
                               packet |-> r.packet]]
           /\ overlap' = (/\ r.rc \in Refusals \cup {"ok"}
                          /\ \E v \in Worker : task[v] # Idle)
  /\ UNCHANGED <<client, read, m_recvBuff, handled, merged>>

\* Mutant of Erase: the packet stays in the buffer
Erase_Nothing(w) ==
  /\ ~crashed /\ task[w].at = "unpacked"
  /\ task' = [task EXCEPT ![w] = [at |-> "erased", packet |-> task[w].packet]]
  /\ UNCHANGED <<client, read, m_recvBuff, tasks, handled, open, crashed, merged,
                 overlap>>

\* parseData, second lock: erase pkt_len bytes
Erase(w) ==
  /\ ~crashed /\ task[w].at = "unpacked"
  /\ m_recvBuff' = From(m_recvBuff, task[w].pkt_len + 1)
  /\ task' = [task EXCEPT ![w] = [at |-> "erased", packet |-> task[w].packet]]
  /\ UNCHANGED <<client, read, tasks, handled, open, crashed, merged, overlap>>

\* connectHandler answers MQTT_UNACCEPTABLE_PROTOCOL_VERSION
Unacceptable(m) == m.header.type = CONNECT /\ m.pkt.level # 4

\* parseData: the handler is called, and the client disconnected if it refuses the
\* protocol level.  What is in the buffer by then is still unpacked.
Handle(w) ==
  /\ ~crashed /\ task[w].at = "erased"
  /\ handled' = Append(handled, task[w].packet)
  /\ open' = (open /\ ~Unacceptable(task[w].packet))
  /\ task' = [task EXCEPT ![w] = Idle]
  /\ UNCHANGED <<client, read, m_recvBuff, tasks, crashed, merged, overlap>>

parseData(w) == Unpack(w) \/ Erase(w) \/ Handle(w)

Next == \/ \E p \in Packet : Send(p)
        \/ \E n \in Piece : SessionEvent(n)
        \/ \E w \in Worker : parseData(w)

Spec == Init /\ [][Next]_vars

\* What was sent is delivered in the end, and a worker goes on with its work.
FairSpec == /\ Spec
            /\ WF_vars(\E n \in Piece : SessionEvent(n))
            /\ \A w \in Worker : WF_vars(parseData(w))

-----------------------------------------------------------------------------
(***************************************************************************)
(* Properties.                                                             *)
(***************************************************************************)

\* The handlers got the packets that were sent, each once and in order.
InOrder ==
  /\ Len(handled) =< Len(sent)
  /\ \A i \in DOMAIN handled : handled[i] = sent[i].says

\* However TCP cuts the stream, parseData hands the handlers the packets that were
\* sent, as they were sent, each once and in order, unless two tasks overlapped.
HandledInOrder == overlap \/ InOrder

\* One of the packets handled is a CONNECT of another protocol level than 4.
OtherLevel == \E i \in DOMAIN handled : Unacceptable(handled[i])

\* The transport is disconnected, or the process has ended.
Stopped == ~open \/ crashed

\* A client is disconnected, and the process stopped, for no other reason than a CONNECT
\* of another protocol level, or a packet that the broker has no function for or that
\* an unpacker refuses, and then not before all that was sent ahead of it was handled;
\* unless two tasks overlapped.
NeverRefused ==
  Stopped /\ ~overlap =>
    \/ OtherLevel
    \/ /\ Len(handled) < Len(sent)
       /\ LET p == sent[Len(handled) + 1]
          IN  p.says = None /\ (Foreign(p) \/ Wrong(p))

\* A PUBLISH that was received and is sent on is read by a subscriber as it was
\* published, but for the identifier, whatever lies behind it, unless two tasks
\* overlapped.
SentOnAlike ==
  \A i \in DOMAIN handled : handled[i].header.type = PUBLISH /\ ~overlap =>
    LET bytes == build_publish(handled[i])
    IN  \A past \in Past :
          unpack(bytes, past) = [rc |-> "ok", pkt_len |-> Len(bytes),
                                 packet |-> [handled[i] EXCEPT !.pkt.packet_id = 0]]

\* Everything was read, no task waits and no worker is at work.
Quiet == read = Len(stream) /\ tasks = 0 /\ \A w \in Worker : task[w] = Idle

\* parseData takes one packet for each event, and that is enough: when nothing is
\* left to do, every packet was handled that comes before one without a meaning,
\* unless an event brought the ends of two or two tasks overlapped.
NothingLeft ==
  Quiet => \/ merged \/ overlap \/ Len(handled) = Len(sent)
           \/ sent[Len(handled) + 1].says = None

-----------------------------------------------------------------------------
(***************************************************************************)
(* What the properties rest on: the parts of ReceiveInv, which is          *)
(* inductive.                                                              *)
(***************************************************************************)
\* One worker at most has a packet.
Alone == \A v, w \in Worker : task[v] # Idle /\ task[w] # Idle => v = w

\* Where packet i begins in the stream, less one
Start(i) == IF i = 1 THEN 0 ELSE ends[i - 1]

\* The stream is the packets one behind the other.
Written ==
  /\ Len(ends) = Len(sent) /\ Start(Len(sent) + 1) = Len(stream)
  /\ \A i \in 1 .. Len(sent) :
       /\ ends[i] = Start(i) + Len(sent[i].bytes) /\ ends[i] =< Len(stream)
       /\ \A j \in 1 .. Len(sent[i].bytes) : stream[Start(i) + j] = sent[i].bytes[j]

\* How many packets were taken out of the buffer
Taken == IF \E w \in Worker : task[w].at = "erased" THEN Len(handled) + 1
         ELSE Len(handled)

\* The buffer has what was read behind the packets that were taken.
Buffered ==
  /\ Taken =< Len(sent) /\ Start(Taken + 1) + Len(m_recvBuff) = read
  /\ \A j \in 1 .. Len(m_recvBuff) : m_recvBuff[j] = stream[Start(Taken + 1) + j]

\* What was taken had something to say, and a worker has in its hands what the
\* last packet taken says or what the first in the buffer says.
Spoke ==
  /\ \A i \in 1 .. Taken : sent[i].says # None
  /\ \A w \in Worker :
       /\ task[w].at = "erased" => task[w].packet = sent[Taken].says
       /\ task[w].at = "unpacked" =>
            /\ Taken < Len(sent) /\ sent[Taken + 1].says # None
            /\ task[w].packet = sent[Taken + 1].says
            /\ task[w].pkt_len = Len(sent[Taken + 1].bytes)
       /\ Stopped => OtherLevel \/ task[w] = Idle

ReceiveInv ==
  /\ TypeOK /\ Written /\ HandledInOrder /\ NeverRefused
  /\ overlap \/ (Buffered /\ Alone /\ Spoke)

\* The packets lie one behind the other.
Ordered == \A i, j \in 1 .. Len(sent) : i < j => ends[i] < ends[j]

\* How many packets will have been taken when no task is left
Promised == Taken + tasks + (IF \E w \in Worker : task[w].at = "unpacked" THEN 1 ELSE 0)

\* The first packet that was not taken has no meaning.
Blocked == Taken < Len(sent) /\ sent[Taken + 1].says = None

\* Of what is promised to nobody the end was not read.
Owed == Blocked \/ \A i \in 1 .. Len(sent) : i > Promised => read < ends[i]

OwedInv == ReceiveInv /\ Ordered /\ (overlap \/ merged \/ Owed)

-----------------------------------------------------------------------------
\* Unless two tasks overlap, an event brings the ends of two packets, of which
\* parseData handles one, or the client is disconnected for its protocol level, every
\* packet is handled that can be.
AllHandled ==
  <>[](\/ merged \/ overlap \/ OtherLevel \/ Len(handled) = Len(sent)
      \/ sent[Len(handled) + 1].says = None)
=============================================================================
