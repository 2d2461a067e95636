------------------------------ MODULE Routing ------------------------------
(***************************************************************************)
(* What the broker sends to its subscribers: routePacket, sendToClient and *)
(* processRetransmissions.  Several threads route at once: the workers,    *)
(* one PUBLISH or PUBREL each, and the main thread, which retransmits      *)
(* holding m_registryMutex, so that no handler that looks a session up     *)
(* starts meanwhile.  A thread takes the subscribers one by one, and lets  *)
(* go of its other locks between its steps.                                *)
(*                                                                         *)
(* All messages have one topic: which subscriptions match it is TopicTree. *)
(* A session is a ClientSession object; it leaves the registry for good,   *)
(* and a client that starts afresh gets another.                           *)
(***************************************************************************)
EXTENDS Integers, Sequences

CONSTANTS
  Session,      \* ClientSession objects
  Worker,       \* threads of the pool
  Main,         \* the thread of Broker::run
  PubQoS,       \* levels publishers use
  SubQoS,       \* levels subscribers ask for
  PubId,        \* identifiers publishers use
  IdSpace,      \* 2^16: the values of a uint16_t
  NoSession,    \* a thread has no session in its hands
  MaxMessages,  \* bound: messages published
  MaxCalls,     \* bound: calls of routePacket
  MaxChanges    \* bound: changes of sessions and subscriptions that exist

QoS      == 0 .. 2
Thread   == Worker \cup {Main}
Message  == 1 .. MaxMessages
PacketId == 1 .. IdSpace - 1

ASSUME RoutingAssumption ==
  /\ Main \notin Worker /\ NoSession \notin Session
  /\ PubQoS \subseteq QoS /\ SubQoS \subseteq QoS
  /\ IdSpace \in Nat /\ IdSpace > 1 /\ PubId \subseteq PacketId
  /\ MaxMessages \in Nat /\ MaxCalls \in Nat /\ MaxChanges \in Nat

VARIABLES
  registered,        \* sessions in m_sessionRegistry
  gone,              \* sessions erased from it
  connected,         \* sessions with ClientSession::connected
  changes,           \* how often sessions and subscriptions changed
  session,           \* sessions whose weak_ptr to the transport can be locked
  subscribers,       \* Node::subscribers of the topic
  inflight,          \* ClientSession::inflight
  message_queue,     \* ClientSession::message_queue
  next_packet_id,    \* ClientSession::next_packet_id
  m_retransmitHeap,  \* entries in the order of their retry_ms
  retries,           \* retransmissions so far
  job,               \* where each thread is in routePacket
  wire,              \* what went to the transport of a session
  pub,               \* history: the messages published
  allocs,            \* history: identifiers allocated for each session
  raced,             \* history: sessions for which two threads allocated at once
  dropped            \* history: messages storeInflight found the identifier taken for

sessions == <<registered, gone, connected, session, changes>>
outbound == <<inflight, message_queue, next_packet_id, m_retransmitHeap>>
ids      == <<allocs, raced, dropped>>
history  == <<pub, ids>>
vars == <<sessions, subscribers, outbound, retries, job, wire, history>>

Packet == [msg : Message, qos : QoS, id : PubId, dup : BOOLEAN]
NoPacket == [msg |-> 0, qos |-> 0, id |-> 0, dup |-> FALSE]
Subscription == [session : Session, qos : SubQoS]
Entry  == [id : PacketId, session : Session]
Idle   == [phase |-> "idle", packet |-> NoPacket, todo |-> {}, at |-> NoSession,
           next |-> 0]
Job    == [phase : {"idle", "route", "store", "push"},
           packet : Packet \cup {NoPacket}, todo : SUBSET Subscription,
           at : Session \cup {NoSession}, next : PacketId \cup {0}]
Record == [qos : QoS, id : PubId, matched : SUBSET Subscription, level : QoS,
           done : BOOLEAN]

TypeOK ==
  /\ registered \subseteq Session /\ gone \subseteq Session \ registered
  /\ connected \subseteq Session /\ session \subseteq Session
  /\ changes \in Nat
  /\ subscribers \subseteq Subscription
  /\ inflight \in [Session -> SUBSET Packet]
  /\ message_queue \in [Session -> Seq(Packet)]
  /\ next_packet_id \in [Session -> PacketId]
  /\ m_retransmitHeap \in Seq(Entry)
  /\ retries \in Nat
  /\ job \in [Thread -> Job]
  /\ wire \in [Session -> Seq(Packet)]
  /\ pub \in Seq(Record) /\ Len(pub) =< MaxMessages
  /\ allocs \in [Session -> Nat] /\ raced \subseteq Session
  /\ dropped \subseteq Session \X Message

Init ==
  /\ registered = {} /\ gone = {}
  /\ connected = {} /\ session = {} /\ changes = 0
  /\ subscribers = {}
  /\ inflight = [o \in Session |-> {}]
  /\ message_queue = [o \in Session |-> <<>>]
  /\ next_packet_id = [o \in Session |-> 1]
  /\ m_retransmitHeap = <<>> /\ retries = 0
  /\ job = [t \in Thread |-> Idle]
  /\ wire = [o \in Session |-> <<>>]
  /\ pub = <<>> /\ allocs = [o \in Session |-> 0] /\ raced = {} /\ dropped = {}

-----------------------------------------------------------------------------
(***************************************************************************)
(* Sessions, as far as routing sees them (module Sessions has the rest).   *)
(***************************************************************************)

\* m_registryMutex is free; the main thread is not in processRetransmissions
Free == job[Main] = Idle

\* sub.session.lock() succeeds: the registry or a thread that routes owns the
\* object.  For a session erased it may succeed as well, as a handler elsewhere may
\* still own it.
Held(o) ==
  \/ o \in registered
  \/ \E t \in Thread : job[t].at = o
  \/ ~Free /\ m_retransmitHeap[1].session = o

\* Another change to a session, by a thread that takes m_registryMutex
Change ==
  /\ Free /\ changes < MaxChanges
  /\ changes' = changes + 1

Others == <<subscribers, outbound, retries, job, wire, history>>

\* connectHandler of a client without a session
connect(o) ==
  /\ Free
  /\ o \notin registered \cup gone
  /\ registered' = registered \cup {o}
  /\ connected' = connected \cup {o} /\ session' = session \cup {o}
  /\ UNCHANGED <<gone, changes, Others>>

\* removeFromRegistry, or not
Erase(o, clean) ==
  IF clean THEN registered' = registered \ {o} /\ gone' = gone \cup {o}
  ELSE UNCHANGED <<registered, gone>>

\* connectHandler of a client with one: the old transport is disconnected; the
\* session is erased, or resumed, but not attached to the new transport.  A client
\* that asks for a clean session is added by connect, unless it is refused;
\* m_registryMutex is free between the two.
reconnect(o, clean) ==
  /\ Change
  /\ o \in registered
  /\ connected' = connected \ {o} /\ session' = session \ {o}
  /\ Erase(o, clean)
  /\ UNCHANGED Others

\* closeConnection: the peer hung up, and no field of the session says so
closeConnection(o) ==
  /\ Change
  /\ session' = session \ {o}
  /\ o \in session
  /\ UNCHANGED <<registered, gone, connected, Others>>

\* processExpiredSessions: a clean session is erased as it is.  Which sessions are
\* clean is left open here.
expire(o, clean) ==
  /\ Change
  /\ o \in registered \cap session \cap connected
  /\ session' = session \ {o}
  /\ connected' = IF clean THEN connected ELSE connected \ {o}
  /\ Erase(o, clean)
  /\ UNCHANGED Others

\* Mutant of Subscribed: a second subscription is kept beside the first
Subscribed_Twice(s) == subscribers \cup {s}

\* Node::subscribe: a session has at most one subscription at a node
Subscribed(s) == {r \in subscribers : r.session # s.session} \cup {s}

\* createSubscription, of a session getSession found a moment ago: m_registryMutex
\* is free again when topicTree.subscribe runs
subscribe(o, q) ==
  /\ o \in registered \cup gone
  /\ IF \E s \in subscribers : s.session = o
     THEN changes < MaxChanges /\ changes' = changes + 1
     ELSE UNCHANGED changes
  /\ subscribers' = Subscribed([session |-> o, qos |-> q])
  /\ UNCHANGED <<registered, gone, connected, session,
                 outbound, retries, job, wire, history>>

-----------------------------------------------------------------------------
(***************************************************************************)
(* routePacket and sendToClient.                                           *)
(***************************************************************************)

\* routePacket(packet) is called: match copies the subscriptions.  A publisher that
\* repeats a message counts as publishing another.
Begin(t, packet) ==
  job' = [job EXCEPT ![t] = [phase |-> "route", packet |-> packet,
                             todo |-> subscribers, at |-> NoSession, next |-> 0]]

\* publishHandler at QoS 0 and 1, pubrelHandler at QoS 2: a worker routes a
\* message published under identifier i
publish(t, q, i) ==
  /\ Free /\ job[t] = Idle
  /\ Len(pub) < MaxMessages /\ Len(pub) + retries < MaxCalls
  /\ Begin(t, [msg |-> Len(pub) + 1, qos |-> q, id |-> i, dup |-> FALSE])
  /\ pub' = Append(pub, [qos |-> q, id |-> i, level |-> q, done |-> FALSE,
                         matched |-> subscribers])
  /\ UNCHANGED <<sessions, subscribers, outbound, retries, wire, ids>>

\* Thread t has subscription s before it
Turn(t, s) == job[t].phase = "route" /\ s \in job[t].todo

\* The session of s is no more
Skip(t, s) ==
  /\ Turn(t, s) /\ ~Held(s.session)
  /\ job' = [job EXCEPT ![t].todo = @ \ {s}]
  /\ UNCHANGED <<sessions, subscribers, outbound, retries, wire, history>>

\* What is sent at QoS 0 is dropped
storeMessage(o, p) ==
  IF p.qos > 0 THEN [message_queue EXCEPT ![o] = Append(@, p)] ELSE message_queue

Offline(t, s) ==
  /\ Turn(t, s) /\ s.session \notin connected
  /\ message_queue' = storeMessage(s.session, job[t].packet)
  /\ job' = [job EXCEPT ![t].todo = @ \ {s}]
  /\ UNCHANGED <<sessions, subscribers, inflight, next_packet_id, m_retransmitHeap,
                 retries, wire, history>>

\* Mutant of Effective: the larger one
Effective_Max(p, s) == IF p < s THEN s ELSE p

\* std::min(packet.header.qos, sub.qos)
Effective(p, s) == IF p < s THEN p ELSE s

\* Mutants of NextId: 0 is handed out, or the identifier stands still
NextId_Zero(n) == (n + 1) % IdSpace
NextId_Same(n) == IF (n + 1) % IdSpace = 0 THEN n ELSE (n + 1) % IdSpace

NextId(n) == IF (n + 1) % IdSpace = 0 THEN 1 ELSE (n + 1) % IdSpace

\* The packet itself is lowered, for the subscribers still to come as well; above
\* QoS 0 allocatePacketId, which has no lock, reads the counter ...
Online(t, s) ==
  /\ Turn(t, s) /\ s.session \in connected
  /\ LET q == Effective(job[t].packet.qos, s.qos)
     IN  job' = [job EXCEPT ![t] =
                   [phase |-> IF q > 0 THEN "store" ELSE "push",
                    packet |-> [job[t].packet EXCEPT !.qos = q],
                    todo |-> job[t].todo \ {s}, at |-> s.session,
                    next |-> IF q > 0 THEN next_packet_id[s.session] ELSE 0]]
  /\ UNCHANGED <<sessions, subscribers, outbound, retries, wire, history>>

\* Mutant of Taken: an identifier is looked for among all sessions
Taken_Any(o, i) == \E x \in Session : \E r \in inflight[x] : r.id = i

\* inflight of session o has a packet under identifier i
Taken(o, i) == \E r \in inflight[o] : r.id = i

\* storeInflight: unordered_map::insert keeps what is there
Stored(o, p) ==
  IF Taken(o, p.id) THEN inflight ELSE [inflight EXCEPT ![o] = @ \cup {p}]

\* The messages of session o under identifier i
Under(o, i) == {r.msg : r \in {x \in inflight[o] : x.id = i}}

\* History: the insert of p fails, and what is there is another message
Dropped(o, p) ==
  IF Under(o, p.id) \subseteq {p.msg} THEN dropped ELSE dropped \cup {<<o, p.msg>>}

\* No other thread has read the counter of session o since thread t did
Alone(t, o) ==
  /\ next_packet_id[o] = job[t].next
  /\ \A u \in Thread \ {t} : job[u].at = o => job[u].phase # "store"

\* ... and writes it.  The packet goes to inflight under its publisher's
\* identifier, and is scheduled under the one allocated.
storeInflight(t) ==
  LET j == job[t]
      n == NextId(j.next)
  IN  /\ j.phase = "store"
      /\ next_packet_id' = [next_packet_id EXCEPT ![j.at] = n]
      /\ allocs' = [allocs EXCEPT ![j.at] = @ + 1]
      /\ raced' = IF Alone(t, j.at) THEN raced ELSE raced \cup {j.at}
      /\ inflight' = Stored(j.at, j.packet)
      /\ dropped' = Dropped(j.at, j.packet)
      /\ m_retransmitHeap' = Append(m_retransmitHeap, [id |-> n, session |-> j.at])
      /\ job' = [job EXCEPT ![t].phase = "push", ![t].next = 0]
      /\ UNCHANGED <<sessions, subscribers, message_queue, retries, wire, pub>>

\* Mutant of push: a thread waits for the transport
push_Wait(t) ==
  LET j == job[t]
  IN  /\ j.phase = "push" /\ j.at \in session
      /\ wire' = [wire EXCEPT ![j.at] = Append(@, j.packet)]
      /\ job' = [job EXCEPT ![t].phase = "route", ![t].at = NoSession]
      /\ UNCHANGED <<sessions, subscribers, outbound, retries, history>>

\* build_publish writes identifier 0; pushDataToSend if the transport is there
push(t) ==
  LET j == job[t]
  IN  /\ j.phase = "push"
      /\ wire' = IF j.at \in session
                 THEN [wire EXCEPT ![j.at] = Append(@, j.packet)] ELSE wire
      /\ job' = [job EXCEPT ![t].phase = "route", ![t].at = NoSession]
      /\ UNCHANGED <<sessions, subscribers, outbound, retries, history>>

\* routePacket returns to the handler
Return(t) ==
  /\ t \in Worker
  /\ job[t].phase = "route" /\ job[t].todo = {}
  /\ job' = [job EXCEPT ![t] = Idle]
  /\ pub' = [pub EXCEPT ![job[t].packet.msg].done = TRUE,
                        ![job[t].packet.msg].level = job[t].packet.qos]
  /\ UNCHANGED <<sessions, subscribers, outbound, retries, wire, ids>>

-----------------------------------------------------------------------------
(***************************************************************************)
(* processRetransmissions: the first entry, once it is due, is sent again  *)
(* to every subscriber, if inflight of its session has a packet under its  *)
(* identifier; if not, it stays and no entry behind it is looked at.       *)
(***************************************************************************)
retransmit(p) ==
  /\ Free /\ Len(pub) + retries < MaxCalls
  /\ m_retransmitHeap # <<>>
  /\ LET e == m_retransmitHeap[1]
     IN  p \in inflight[e.session] /\ p.id = e.id
  /\ Begin(Main, [p EXCEPT !.dup = TRUE])
  /\ retries' = retries + 1
  /\ UNCHANGED <<sessions, subscribers, outbound, wire, history>>

\* routePacket returned: the entry is popped
pop ==
  /\ job[Main].phase = "route" /\ job[Main].todo = {}
  /\ job' = [job EXCEPT ![Main] = Idle]
  /\ m_retransmitHeap' = Tail(m_retransmitHeap)
  /\ UNCHANGED <<sessions, subscribers, inflight, message_queue, next_packet_id,
                 retries, wire, history>>

-----------------------------------------------------------------------------
Route(t) == \/ \E s \in job[t].todo : Skip(t, s) \/ Offline(t, s) \/ Online(t, s)
            \/ storeInflight(t) \/ push(t)

Sessions == \E o \in Session :
              \/ connect(o) \/ closeConnection(o)
              \/ \E clean \in BOOLEAN : reconnect(o, clean) \/ expire(o, clean)
              \/ \E q \in SubQoS : subscribe(o, q)

Next == \/ Sessions
        \/ \E t \in Worker, q \in PubQoS, i \in PubId : publish(t, q, i)
        \/ \E t \in Thread : Route(t)
        \/ \E t \in Worker : Return(t)
        \/ \E o \in Session : \E p \in inflight[o] : retransmit(p)
        \/ pop

Spec == Init /\ [][Next]_vars

\* Each thread of the pool and the main thread go on with the call they are in.
FairSpec ==
  /\ Spec
  /\ \A t \in Worker : WF_vars(Route(t) \/ Return(t))
  /\ WF_vars(Route(Main) \/ pop)
-----------------------------------------------------------------------------
(***************************************************************************)
(* Properties.                                                             *)
(***************************************************************************)

\* Message m reached session o, or is kept for it: in its queue or in inflight
Reached(o, m) ==
  \/ \E k \in DOMAIN wire[o] : wire[o][k].msg = m
  \/ \E k \in DOMAIN message_queue[o] : message_queue[o][k].msg = m
  \/ \E p \in inflight[o] : p.msg = m

\* The message is accounted for: it reached session o or is kept for it, or o had
\* another message in inflight under the identifier its publisher chose.
Accounted(o, m) == Reached(o, m) \/ <<o, m>> \in dropped

\* Whatever threads route at once and sessions do meanwhile: when routePacket has
\* returned and the message was not lowered to QoS 0, every session it matched and
\* that is still registered got it or has it stored, unless another message with the
\* publisher's identifier was in inflight of that session when it was its turn.
Kept ==
  \A m \in DOMAIN pub : pub[m].done /\ pub[m].level > 0 =>
    \A s \in pub[m].matched : s.session \in registered => Accounted(s.session, m)

\* Nothing is sent above the level it was published at, nor, the first time, above
\* the level the subscription it was matched with asks for.
NeverRaised ==
  \A o \in Session : \A k \in DOMAIN wire[o] :
    LET p == wire[o][k]
    IN  /\ p.qos =< pub[p.msg].qos
        /\ p.dup \/ \E s \in pub[p.msg].matched : s.session = o /\ p.qos =< s.qos

\* A client gets a message once without DUP: what the main thread routes again
\* while the workers still route it carries the flag, and subscribing again does
\* not double anything.
OnceFresh ==
  \A o \in Session : \A j, k \in DOMAIN wire[o] :
    /\ ~wire[o][j].dup /\ ~wire[o][k].dup
    /\ wire[o][j].msg = wire[o][k].msg
    => j = k

\* The identifiers on the heap for one session differ as long as fewer than
\* 65536 were allocated, 1 after the wrap included, unless two threads allocated
\* for the session at once.
IdsDistinct ==
  \A j, k \in DOMAIN m_retransmitHeap :
    LET e == m_retransmitHeap[j]
    IN  e = m_retransmitHeap[k] /\ j # k =>
          e.session \in raced \/ allocs[e.session] >= IdSpace

-----------------------------------------------------------------------------
(***************************************************************************)
(* What the properties rest on: the parts of RoutingInv, which is          *)
(* inductive.                                                              *)
(***************************************************************************)
OnePerSession(S) == \A s, r \in S : s.session = r.session => s = r

\* A packet the broker holds for someone is of a published message.
Known(p) ==
  /\ p.msg \in DOMAIN pub
  /\ p.id = pub[p.msg].id /\ p.qos =< pub[p.msg].qos

\* Who can have subscriptions, and how many.
Subscribers ==
  /\ OnePerSession(subscribers)
  /\ \A s \in subscribers : s.session \in registered \cup gone
  /\ \A m \in DOMAIN pub :
       /\ OnePerSession(pub[m].matched)
       /\ \A s \in pub[m].matched : s.session \in registered \cup gone

\* Every packet in a map or on the wire is known.
Stores ==
  \A o \in Session :
    /\ \A p \in inflight[o] : Known(p)
    /\ \A k \in DOMAIN wire[o] : Known(wire[o][k])

\* What a thread has in its hands.
Busy(t) == job[t].phase # "idle"

Jobs ==
  \A t \in Thread :
    /\ job[t].phase = "idle" <=> job[t] = Idle
    /\ job[t].phase \in {"store", "push"} <=> job[t].at # NoSession
    /\ job[t].phase = "store" => job[t].packet.qos > 0 /\ job[t].next \in PacketId
    /\ Busy(t) => /\ job[t].packet \in Packet /\ Known(job[t].packet)
                  /\ job[t].packet.dup <=> t = Main
                  /\ OnePerSession(job[t].todo)
                  /\ \A s \in job[t].todo : s.session # job[t].at

\* A worker serves the subscriptions its message was matched with; no other
\* worker routes the message, then or later.
Work ==
  \A t \in Worker : Busy(t) =>
    LET m == job[t].packet.msg
    IN  /\ ~pub[m].done
        /\ job[t].todo \subseteq pub[m].matched
        /\ \A u \in Worker : Busy(u) /\ job[u].packet.msg = m => u = t
        /\ job[t].at # NoSession =>
             \E s \in pub[m].matched :
               s.session = job[t].at /\ job[t].packet.qos =< s.qos

\* A session that is still to be served has no fresh copy.
NotYet ==
  \A t \in Worker : Busy(t) =>
    \A o \in Session :
      (\E s \in job[t].todo : s.session = o) \/ job[t].at = o =>
        \A k \in DOMAIN wire[o] :
          wire[o][k].msg = job[t].packet.msg => wire[o][k].dup

\* As long as the message is not lowered to QoS 0, the sessions that were served
\* have it.
Served ==
  \A t \in Worker : Busy(t) /\ job[t].packet.qos > 0 =>
    \A s \in pub[job[t].packet.msg].matched \ job[t].todo :
      s.session \in registered =>
        \/ Accounted(s.session, job[t].packet.msg)
        \/ job[t].phase = "store" /\ job[t].at = s.session

\* How far the counter of a session is, and which identifiers are on the heap.
Quiet(o) == o \notin raced /\ allocs[o] < IdSpace

Counter ==
  \A o \in Session : Quiet(o) =>
    next_packet_id[o] = IF allocs[o] = IdSpace - 1 THEN 1 ELSE allocs[o] + 1

HeapIds ==
  \A k \in DOMAIN m_retransmitHeap :
    LET e == m_retransmitHeap[k]
    IN  Quiet(e.session) => IF e.id = 1 THEN allocs[e.session] = IdSpace - 1
                            ELSE e.id =< allocs[e.session] + 1

\* The main thread works for the first entry.
Retransmits == Busy(Main) => m_retransmitHeap # <<>>

RoutingInv ==
  TypeOK /\ Subscribers /\ Stores /\ Jobs /\ Work /\ NotYet /\ Served /\ Counter
  /\ HeapIds /\ Retransmits /\ Kept /\ NeverRaised /\ OnceFresh /\ IdsDistinct

-----------------------------------------------------------------------------
\* Liveness: every call of routePacket ends, and m_registryMutex is let go.
RoutingEnds ==
  /\ \A m \in Message : m \in DOMAIN pub ~> m \in DOMAIN pub /\ pub[m].done
  /\ ~Free ~> Free
=============================================================================
