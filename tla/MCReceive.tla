----------------------------- MODULE MCReceive -----------------------------
(***************************************************************************)
(* Packets for Receive, written as an MQTT client writes them.             *)
(***************************************************************************)
EXTENDS Receive

CONSTANT Payloads  \* the payload lengths of the PUBLISH packets

String(s) == pack_u16(Len(s)) \o s

Sends(h, pkt, body) ==
  [says |-> [header |-> h, pkt |-> pkt], bytes |-> Frame(h, body)]

Nothing(bytes) == [says |-> None, bytes |-> bytes]

Flags == [username |-> TRUE, passwd |-> FALSE, will_retain |-> FALSE,
          will_qos |-> 2, will |-> TRUE, cleansession |-> FALSE]

Connect ==
  Sends(Header(CONNECT, FALSE, 0, FALSE),
        [level |-> 4, cf |-> Flags, keep_alive |-> 300,
         strings |-> << <<97>>, <<116>>, <<>>, <<117>> >>],
        String(MQTT) \o <<4, 148>> \o pack_u16(300)
        \o String(<<97>>) \o String(<<116>>) \o String(<<>>) \o String(<<117>>))

\* A CONNECT of a protocol level the broker does not accept
Connect5 ==
  Sends(Header(CONNECT, FALSE, 0, FALSE),
        [level |-> 5, cf |-> ConnectFlags(0), keep_alive |-> 9, strings |-> << <<>> >>],
        String(MQTT) \o <<5, 0>> \o pack_u16(9) \o String(<<>>))

\* A CONNECT with the protocol name of MQTT 3.1
Connect31 ==
  Nothing(Frame(Header(CONNECT, FALSE, 0, FALSE),
                String(<<77, 81, 73, 115, 100, 112>>) \o <<3, 0, 0, 9, 0, 0>>))

\* The payload looks like the start of another packet
Publish(qos, size) ==
  LET payload == [i \in 1 .. size |-> IF i % 2 = 1 THEN 48 ELSE 130]
  IN  Sends(Header(PUBLISH, FALSE, qos, TRUE),
            [topic |-> <<116>>, packet_id |-> IF qos > 0 THEN 258 ELSE 0,
             payload |-> payload],
            String(<<116>>) \o (IF qos > 0 THEN pack_u16(258) ELSE <<>>) \o payload)

Pubrel == Sends(Header(PUBREL, FALSE, 1, FALSE), [packet_id |-> 258], pack_u16(258))

Subscribe ==
  Sends(Header(SUBSCRIBE, FALSE, 1, FALSE),
        [packet_id |-> 7, payload |-> <<[topic |-> <<116>>, qos |-> 2],
                                        [topic |-> <<>>, qos |-> 0]>>],
        pack_u16(7) \o String(<<116>>) \o <<2>> \o String(<<>>) \o <<0>>)

Unsubscribe ==
  Sends(Header(UNSUBSCRIBE, FALSE, 1, FALSE),
        [packet_id |-> 7, topics |-> << <<116>>, <<117>> >>],
        pack_u16(7) \o String(<<116>>) \o String(<<117>>))

\* An UNSUBSCRIBE without the flags it must have; a type with a null pointer in the
\* table; a type past its end, which a client may send; a length of four bytes
Flagless == Nothing(Frame(Header(UNSUBSCRIBE, FALSE, 0, FALSE), pack_u16(7)))
Connack == Nothing(<<32, 2, 0, 0>>)
Pingreq == Nothing(<<192, 0>>)
LongPublish == Nothing(<<48, 128, 128, 128, 1, 0, 1, 116>>)

MCPacket ==
  {Publish(qos, size) : qos \in {0, 2}, size \in Payloads}
  \cup {Connect, Connect5, Connect31, Pubrel, Subscribe, Unsubscribe, Flagless}
  \cup {Connack, Pingreq, LongPublish}
=============================================================================
