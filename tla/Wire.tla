-------------------------------- MODULE Wire --------------------------------
(***************************************************************************)
(* The wire format of MQTT as unpack.cpp, packets.h and packets.cpp read   *)
(* it and build_publish writes it.  A byte is a number below 256, a string *)
(* or payload a sequence of bytes.                                         *)
(*                                                                         *)
(* unpack is given the bytes in the receive buffer.  decode_length counts  *)
(* the first byte of the packet among those that remain, although it has   *)
(* been read, and so may read one byte behind the last: that is past.      *)
(***************************************************************************)
EXTENDS Integers, Sequences

CONNECT == 1
PUBLISH == 3
PUBREL  == 6
SUBSCRIBE == 8
UNSUBSCRIBE == 10

\* The types a client sends that carry more than a length
Kinds == {CONNECT, PUBLISH, 4, 5, PUBREL, 7, SUBSCRIBE, UNSUBSCRIBE}

\* Mutant of unpack_handlers: the jump table ends one entry early
unpack_handlers_Short == [type \in 0 .. 9 |-> type \notin {0, 2, 9}]

\* The jump table: where it is FALSE it has a null pointer.  Nothing is said of types
\* 11 to 15, which unpack looks up as well.
unpack_handlers == [type \in 0 .. 10 |-> type \notin {0, 2, 9}]

Bit(b) == IF b THEN 1 ELSE 0
Flag(byte, weight) == (byte \div weight) % 2 = 1
From(bytes, i) == SubSeq(bytes, i, Len(bytes))

pack_u16(n) == <<n \div 256, n % 256>>
unpack_u16(bytes) == 256 * bytes[1] + bytes[2]
\* The characters only: build_publish packs the length before it
pack_string16(s) == s
unpack_string16(bytes) == SubSeq(bytes, 3, 2 + unpack_u16(bytes))
After16(bytes) == From(bytes, 3 + unpack_u16(bytes))

-----------------------------------------------------------------------------
(***************************************************************************)
(* Fixed header.                                                           *)
(***************************************************************************)
Header(type, dup, qos, retain) ==
  [type |-> type, dup |-> dup, qos |-> qos, retain |-> retain]

HeaderPack(h) == 16 * h.type + 8 * Bit(h.dup) + 2 * h.qos + Bit(h.retain)

HeaderUnpack(byte) ==
  Header(byte \div 16, Flag(byte, 8), (byte \div 2) % 4, Flag(byte, 1))

Byte == 0 .. 255
Headers == [type : 0 .. 15, dup : BOOLEAN, qos : 0 .. 3, retain : BOOLEAN]

\* Least significant seven bits first, the eighth set in all but the last.
\* encodedbyte is never counted up, so the limit of four bytes is never met.
encode_length(len) ==
  LET More(unit) == 128 + ((len \div unit) % 128)
      Two == 128 * 128  Three == 128 * Two  Four == 128 * Three
  IN  IF len < 128 THEN <<len>>
      ELSE IF len < Two THEN <<More(1), len \div 128>>
      ELSE IF len < Three THEN <<More(1), More(128), len \div Two>>
      ELSE IF len < Four THEN <<More(1), More(128), More(Two), len \div Three>>
      ELSE <<More(1), More(128), More(Two), More(Three), len \div Four>>

\* decode_length: rc, the length read and the bytes it took.  The multiplier is
\* tested after the byte is added, so a fourth byte always throws.
decode_length(bytes) ==
  LET Last(n) == n \in 1 .. Len(bytes) /\ bytes[n] < 128
      Value(n) == (bytes[1] % 128)
                  + (IF n > 1 THEN 128 * (bytes[2] % 128) ELSE 0)
                  + (IF n > 2 THEN 128 * 128 * (bytes[3] % 128) ELSE 0)
      Read(n) == [rc |-> "read", len |-> Value(n), n |-> n]
  IN  CASE Last(1) -> Read(1)
        [] ~Last(1) /\ Last(2) -> Read(2)
        [] ~Last(1) /\ ~Last(2) /\ Last(3) -> Read(3)
        [] OTHER -> [rc |-> IF Len(bytes) > 3 THEN "throws" ELSE "partial"]

\* What decode_length is given: all but the first byte, and the byte behind
Remaining(buff, past) == Append(Tail(buff), past)

\* Mutant of is_partial: a packet that fills the buffer counts as partial
is_partial_Full(buff, past) ==
  LET length == decode_length(Remaining(buff, past))
  IN  IF Len(buff) =< 1 THEN [rc |-> "partial"]
      ELSE IF length.rc = "read" /\ 1 + length.n + length.len >= Len(buff)
           THEN [rc |-> "partial"]
           ELSE length

\* is_partial: "read" when the whole packet is in the buffer
is_partial(buff, past) ==
  LET length == decode_length(Remaining(buff, past))
  IN  IF Len(buff) =< 1 THEN [rc |-> "partial"]
      ELSE IF length.rc = "read" /\ 1 + length.n + length.len > Len(buff)
           THEN [rc |-> "partial"]
           ELSE length

-----------------------------------------------------------------------------
(***************************************************************************)
(* Variable header and payload, of packets whose lengths agree.            *)
(***************************************************************************)
ConnectFlags(byte) ==
  [username |-> Flag(byte, 128), passwd |-> Flag(byte, 64),
   will_retain |-> Flag(byte, 32), will_qos |-> (byte \div 8) % 4,
   will |-> Flag(byte, 4), cleansession |-> Flag(byte, 2)]

\* The loops of unpack_subscribe and unpack_unsubscribe: while there are bytes,
\* read what they begin with and go on behind it, with fewer bytes.
Pieces(body, first, rest) ==
  LET f[b \in Seq(Byte)] ==
        IF b = <<>> THEN <<>>
        ELSE <<first[b]>>
             \o (IF rest[b] \in Seq(Byte) /\ Len(rest[b]) < Len(b) THEN f[rest[b]]
                 ELSE <<>>)
  IN  f[body]

\* The strings a body ends with, one behind the other
Strings(body) ==
  Pieces(body, [b \in Seq(Byte) |-> unpack_string16(b)],
               [b \in Seq(Byte) |-> After16(b)])

\* How many strings the flags of a CONNECT announce: client_id, then will topic and
\* message, username and password
Announced(cf) == 1 + 2 * Bit(cf.will) + Bit(cf.username) + Bit(cf.passwd)

\* The strings behind protocol name, level, flags and keep_alive
ConnectStrings(body) == Strings(From(After16(body), 5))

\* unpack_connect reads as many strings as the flags announce, whatever the body holds
unpack_connect(body) ==
  LET rest == After16(body)
      cf == ConnectFlags(rest[2])
  IN  [level |-> rest[1], cf |-> cf, keep_alive |-> unpack_u16(From(rest, 3)),
       strings |-> SubSeq(ConnectStrings(body), 1, Announced(cf))]

unpack_publish(h, body) ==
  LET rest == After16(body)
  IN  [topic |-> unpack_string16(body),
       packet_id |-> IF h.qos > 0 THEN unpack_u16(rest) ELSE 0,
       payload |-> IF h.qos > 0 THEN From(rest, 3) ELSE rest]

unpack_ack(body) == [packet_id |-> unpack_u16(body)]

\* The topics of a SUBSCRIBE, each with the byte of its QoS
Tuples(body) ==
  Pieces(body, [b \in Seq(Byte) |-> [topic |-> unpack_string16(b),
                                     qos |-> After16(b)[1]]],
               [b \in Seq(Byte) |-> Tail(After16(b))])

unpack_subscribe(body) ==
  [packet_id |-> unpack_u16(body), payload |-> Tuples(From(body, 3))]

unpack_unsubscribe(body) ==
  [packet_id |-> unpack_u16(body), topics |-> Strings(From(body, 3))]

Body(h, body) ==
  CASE h.type = CONNECT     -> unpack_connect(body)
    [] h.type = PUBLISH     -> unpack_publish(h, body)
    [] h.type = SUBSCRIBE   -> unpack_subscribe(body)
    [] h.type = UNSUBSCRIBE -> unpack_unsubscribe(body)
    [] OTHER                -> unpack_ack(body)

MQTT == <<77, 81, 84, 84>>

\* What the unpackers refuse once the packet is whole
Refused(h, body) ==
  \/ h.type = CONNECT /\ unpack_string16(body) # MQTT
  \/ h.type = UNSUBSCRIBE /\ h.qos % 2 = 0

\* Mutant of PktLen: the remaining length is taken to be four bytes long
PktLen_Four(length) == 1 + 4 + length.len

\* pkt_len: first byte, remaining length, rest
PktLen(length) == 1 + length.n + length.len

\* unpack and the unpacker it calls.  For a type past the end of the table it reads
\* memory that is not the table's.
unpack(buff, past) ==
  LET h == HeaderUnpack(buff[1])
      length == is_partial(buff, past)
      body == SubSeq(buff, 2 + length.n, 1 + length.n + length.len)
  IN  IF h.type \notin DOMAIN unpack_handlers THEN [rc |-> "undefined"]
      ELSE IF ~unpack_handlers[h.type] THEN [rc |-> "error"]
      ELSE IF length.rc # "read" THEN [rc |-> length.rc]
      ELSE IF Refused(h, body) THEN [rc |-> "error"]
      ELSE [rc |-> "ok", pkt_len |-> PktLen(length),
            packet |-> [header |-> h, pkt |-> Body(h, body)]]

-----------------------------------------------------------------------------
(***************************************************************************)
(* build_publish: what a subscriber is sent.  The identifier is 0.         *)
(***************************************************************************)

\* Mutant of build_publish: an identifier also at QoS 0
build_publish_Always(p) ==
  <<HeaderPack(p.header)>>
  \o encode_length(2 + Len(p.pkt.topic) + Len(p.pkt.payload) + 2)
  \o pack_u16(Len(p.pkt.topic)) \o pack_string16(p.pkt.topic)
  \o pack_u16(0)
  \o p.pkt.payload

build_publish(p) ==
  <<HeaderPack(p.header)>>
  \o encode_length(2 + Len(p.pkt.topic) + Len(p.pkt.payload)
                   + (IF p.header.qos > 0 THEN 2 ELSE 0))
  \o pack_u16(Len(p.pkt.topic)) \o pack_string16(p.pkt.topic)
  \o (IF p.header.qos > 0 THEN pack_u16(0) ELSE <<>>)
  \o p.pkt.payload
=============================================================================
