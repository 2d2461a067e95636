--------------------------- MODULE RoutingProofs ---------------------------
(***************************************************************************)
(* Proofs about Routing, for any sets of sessions, workers, levels and     *)
(* identifiers, any width of the identifiers and any bounds.               *)
(***************************************************************************)
EXTENDS Routing, TLAPS

-----------------------------------------------------------------------------
(***************************************************************************)
(* What each step does to the job of its thread.                           *)
(***************************************************************************)

\* The other threads stay where they are.
Only(t) == \A u \in Thread \ {t} : job'[u] = job[u]

LEMMA BeginShape ==
  ASSUME TypeOK, NEW t \in Thread, NEW p, Begin(t, p)
  PROVE  /\ job'[t].phase = "route" /\ job'[t].packet = p
         /\ job'[t].todo = subscribers /\ job'[t].at = NoSession /\ job'[t].next = 0
         /\ Only(t)
         /\ p \in Packet => job' \in [Thread -> Job]
<1> DEFINE j == [phase |-> "route", packet |-> p, todo |-> subscribers,
                 at |-> NoSession, next |-> 0]
<1>1. job' = [job EXCEPT ![t] = j] /\ job \in [Thread -> Job]
  BY DEF Begin, TypeOK
<1>2. job'[t] = j /\ Only(t)
  BY <1>1 DEF Only
<1>3. p \in Packet => j \in Job
  BY DEF TypeOK, Job
<1> QED BY <1>1, <1>2, <1>3

LEMMA ServeShape ==
  ASSUME TypeOK, NEW t \in Thread, NEW s, Skip(t, s) \/ Offline(t, s)
  PROVE  /\ job'[t].phase = "route" /\ job[t].phase = "route" /\ s \in job[t].todo
         /\ job'[t].packet = job[t].packet /\ job'[t].todo = job[t].todo \ {s}
         /\ job'[t].at = job[t].at /\ job'[t].next = job[t].next
         /\ Only(t)
         /\ job' \in [Thread -> Job]
<1>1. job' = [job EXCEPT ![t].todo = @ \ {s}] /\ Turn(t, s) /\ job \in [Thread -> Job]
  BY DEF Skip, Offline, TypeOK
<1>2. job'[t] = [job[t] EXCEPT !.todo = @ \ {s}] /\ Only(t) /\ job[t] \in Job
  BY <1>1 DEF Only
<1>3. job'[t] \in Job
  BY <1>2 DEF Job
<1> QED BY <1>1, <1>2, <1>3 DEF Turn, Job

LEMMA OnlineShape ==
  ASSUME TypeOK, NEW t \in Thread, NEW s \in Subscription, Online(t, s),
         job[t].packet \in Packet
  PROVE  /\ job[t].phase = "route" /\ s \in job[t].todo
         /\ job'[t].phase = IF job'[t].packet.qos > 0 THEN "store" ELSE "push"
         /\ job'[t].packet \in Packet
         /\ job'[t].packet.msg = job[t].packet.msg
         /\ job'[t].packet.id = job[t].packet.id
         /\ job'[t].packet.dup = job[t].packet.dup
         /\ job'[t].packet.qos =< job[t].packet.qos /\ job'[t].packet.qos =< s.qos
         /\ job'[t].todo = job[t].todo \ {s}
         /\ job'[t].at = s.session
         /\ job'[t].packet.qos > 0 => job'[t].next \in PacketId
         /\ Only(t)
         /\ job' \in [Thread -> Job]
<1> DEFINE q == Effective(job[t].packet.qos, s.qos)
           n == IF q > 0 THEN next_packet_id[s.session] ELSE 0
           p == [job[t].packet EXCEPT !.qos = q]
           j == [phase |-> IF q > 0 THEN "store" ELSE "push", packet |-> p,
                 todo |-> job[t].todo \ {s}, at |-> s.session, next |-> n]
<1>1. job' = [job EXCEPT ![t] = j] /\ Turn(t, s) /\ job \in [Thread -> Job]
  BY DEF Online, TypeOK
<1>2. job'[t] = j /\ Only(t) /\ job[t] \in Job
  BY <1>1 DEF Only
<1>3. /\ job[t].packet.qos \in QoS /\ s.qos \in SubQoS /\ s.qos \in QoS
      /\ s.session \in Session
  BY RoutingAssumption DEF Packet, Subscription
<1>4. q \in QoS /\ q =< job[t].packet.qos /\ q =< s.qos
  BY <1>3 DEF Effective, QoS
<1>5. n \in PacketId \cup {0} /\ (q > 0 => n \in PacketId)
  BY <1>3 DEF TypeOK
<1>6. p \in Packet /\ p.qos = q /\ p.msg = job[t].packet.msg
      /\ p.id = job[t].packet.id /\ p.dup = job[t].packet.dup
  BY <1>4 DEF Packet
<1> HIDE DEF q, n, p
<1>7. j \in Job
  BY <1>2, <1>3, <1>5, <1>6 DEF Job
<1>8. job' \in [Thread -> Job]
  BY <1>1, <1>7
<1> QED BY <1>2, <1>4, <1>5, <1>6, <1>1, <1>8 DEF Turn

LEMMA StoreShape ==
  ASSUME TypeOK, NEW t \in Thread, storeInflight(t)
  PROVE  /\ job[t].phase = "store" /\ job'[t].phase = "push"
         /\ job'[t].packet = job[t].packet /\ job'[t].todo = job[t].todo
         /\ job'[t].at = job[t].at
         /\ Only(t)
         /\ job' \in [Thread -> Job]
<1>1. /\ job' = [job EXCEPT ![t].phase = "push", ![t].next = 0]
      /\ job[t].phase = "store" /\ job \in [Thread -> Job]
  BY DEF storeInflight, TypeOK
<1>2. /\ job'[t] = [job[t] EXCEPT !.phase = "push", !.next = 0]
      /\ Only(t) /\ job[t] \in Job
  BY <1>1 DEF Only
<1>3. job'[t] \in Job
  BY <1>2 DEF Job
<1> QED BY <1>1, <1>2, <1>3 DEF Job

LEMMA PushShape ==
  ASSUME TypeOK, NEW t \in Thread, push(t)
  PROVE  /\ job[t].phase = "push" /\ job'[t].phase = "route"
         /\ job'[t].packet = job[t].packet /\ job'[t].todo = job[t].todo
         /\ job'[t].at = NoSession
         /\ Only(t)
         /\ job' \in [Thread -> Job]
<1>1. /\ job' = [job EXCEPT ![t].phase = "route", ![t].at = NoSession]
      /\ job[t].phase = "push" /\ job \in [Thread -> Job]
  BY DEF push, TypeOK
<1>2. /\ job'[t] = [job[t] EXCEPT !.phase = "route", !.at = NoSession]
      /\ Only(t) /\ job[t] \in Job
  BY <1>1 DEF Only
<1>3. job'[t] \in Job
  BY <1>2 DEF Job
<1> QED BY <1>1, <1>2, <1>3 DEF Job

LEMMA IdleShape ==
  ASSUME TypeOK, NEW t \in Thread, Return(t) \/ (t = Main /\ pop)
  PROVE  /\ job[t].phase = "route" /\ job[t].todo = {}
         /\ job'[t] = Idle /\ job'[t].phase = "idle" /\ job'[t].at = NoSession
         /\ Only(t)
         /\ job' \in [Thread -> Job]
<1>1. /\ job' = [job EXCEPT ![t] = Idle]
      /\ job[t].phase = "route" /\ job[t].todo = {} /\ job \in [Thread -> Job]
  BY DEF Return, pop, TypeOK
<1>2. Idle \in Job /\ Idle.phase = "idle" /\ Idle.at = NoSession
  BY DEF Idle, Job
<1> QED BY <1>1, <1>2 DEF Only

-----------------------------------------------------------------------------
(***************************************************************************)
(* Sessions and subscriptions change.                                      *)
(***************************************************************************)

\* What connect, reconnect, closeConnection and expire have in common: a session
\* that appears has never been in the registry.
SessionStep ==
  /\ UNCHANGED Others
  /\ registered' \subseteq Session /\ gone' \subseteq Session \ registered'
  /\ connected' \subseteq Session /\ session' \subseteq Session /\ changes' \in Nat
  /\ registered \cup gone \subseteq registered' \cup gone'
  /\ \A o \in registered' : o \in registered \/ o \notin gone

LEMMA SessionActions ==
  ASSUME TypeOK, NEW o \in Session, NEW clean,
         \/ connect(o) \/ closeConnection(o)
         \/ reconnect(o, clean) \/ expire(o, clean)
  PROVE  SessionStep
<1>1. /\ registered \subseteq Session /\ gone \subseteq Session \ registered
      /\ connected \subseteq Session /\ session \subseteq Session /\ changes \in Nat
  BY DEF TypeOK
<1>2. CASE connect(o)
  BY <1>1, <1>2 DEF connect, SessionStep, sessions
<1>3. CASE closeConnection(o)
  BY <1>1, <1>3 DEF closeConnection, Change, SessionStep
<1>4. CASE reconnect(o, clean)
  BY <1>1, <1>4 DEF reconnect, Change, Erase, SessionStep
<1>5. CASE expire(o, clean)
  BY <1>1, <1>5 DEF expire, Change, Erase, SessionStep
<1> QED BY <1>2, <1>3, <1>4, <1>5

LEMMA SessionKeeps ==
  ASSUME RoutingInv, SessionStep
  PROVE  RoutingInv'
<1>1. /\ UNCHANGED <<subscribers, inflight, message_queue, next_packet_id>>
      /\ UNCHANGED <<m_retransmitHeap, retries, job, wire, pub, allocs, raced, dropped>>
  BY DEF SessionStep, Others, outbound, history, ids
<1>2. TypeOK'
  BY <1>1 DEF RoutingInv, TypeOK, SessionStep
<1>3. Subscribers'
  BY <1>1 DEF RoutingInv, Subscribers, SessionStep
<1>4. Stores' /\ Jobs' /\ Work' /\ NotYet'
  BY <1>1 DEF RoutingInv, Stores, Jobs, Work, NotYet, Known, Busy
<1>5. \A m \in DOMAIN pub : \A s \in pub[m].matched :
        s.session \in registered' => s.session \in registered
  BY DEF RoutingInv, Subscribers, SessionStep
<1>6. \A t \in Worker : Busy(t) => job[t].packet.msg \in DOMAIN pub
  BY DEF RoutingInv, Jobs, Known, Thread
<1>7. Served'
  BY <1>1, <1>5, <1>6 DEF RoutingInv, Served, Reached, Accounted, Busy
<1>8. Kept'
  BY <1>1, <1>5 DEF RoutingInv, Kept, Reached, Accounted
<1>9. Counter' /\ HeapIds' /\ Retransmits' /\ NeverRaised' /\ OnceFresh' /\ IdsDistinct'
  BY <1>1 DEF RoutingInv, Counter, HeapIds, Retransmits, NeverRaised, OnceFresh,
              IdsDistinct, Quiet, Busy
<1> QED BY <1>2, <1>3, <1>4, <1>7, <1>8, <1>9 DEF RoutingInv

LEMMA SubscribedOnce ==
  ASSUME NEW s, OnePerSession(subscribers)
  PROVE  OnePerSession(Subscribed(s))
BY DEF OnePerSession, Subscribed

LEMMA SubscribeKeeps ==
  ASSUME RoutingInv, NEW o \in Session, NEW q \in SubQoS, subscribe(o, q)
  PROVE  RoutingInv'
<1> DEFINE s == [session |-> o, qos |-> q]
<1>1. /\ UNCHANGED <<registered, gone, connected, session>>
      /\ UNCHANGED <<inflight, message_queue, next_packet_id>>
      /\ UNCHANGED <<m_retransmitHeap, retries, job, wire, pub, allocs, raced, dropped>>
  BY DEF subscribe, outbound, history, ids
<1>2. o \in registered \cup gone /\ subscribers' = Subscribed(s)
  BY DEF subscribe
<1>3. changes' \in Nat
  BY DEF subscribe, RoutingInv, TypeOK
<1>4. s \in Subscription /\ s.session = o
  BY DEF Subscription
<1>5. subscribers' \subseteq Subscription
  BY <1>2, <1>4 DEF RoutingInv, TypeOK, Subscribed
<1>6. TypeOK'
  BY <1>1, <1>3, <1>5 DEF RoutingInv, TypeOK
<1>7. OnePerSession(subscribers')
  BY <1>2, SubscribedOnce DEF RoutingInv, Subscribers
<1>8. \A r \in subscribers' : r.session \in registered \cup gone
  BY <1>2, <1>4 DEF RoutingInv, Subscribers, Subscribed
<1>9. Subscribers'
  BY <1>1, <1>7, <1>8 DEF RoutingInv, Subscribers, OnePerSession
<1>10. Stores' /\ Jobs' /\ Work' /\ NotYet' /\ Served' /\ Kept'
  BY <1>1 DEF RoutingInv, Stores, Jobs, Work, NotYet, Known, Busy, Served, Kept,
              Reached, Accounted
<1>11. Counter' /\ HeapIds' /\ Retransmits' /\ NeverRaised' /\ OnceFresh' /\ IdsDistinct'
  BY <1>1 DEF RoutingInv, Counter, HeapIds, Retransmits, NeverRaised, OnceFresh,
              IdsDistinct, Quiet, Busy
<1> QED BY <1>6, <1>9, <1>10, <1>11 DEF RoutingInv

-----------------------------------------------------------------------------
(***************************************************************************)
(* A worker begins and ends a call of routePacket.                         *)
(***************************************************************************)

\* Messages are added, and what a message was published as stays.
PubKeeps ==
  /\ DOMAIN pub \subseteq DOMAIN pub'
  /\ \A m \in DOMAIN pub : /\ pub'[m].id = pub[m].id /\ pub'[m].qos = pub[m].qos
                           /\ pub'[m].matched = pub[m].matched

\* Known in the next state, for a packet that stays the same.
KnownNext(p) ==
  /\ p.msg \in DOMAIN pub'
  /\ p.id = pub'[p.msg].id /\ p.qos =< pub'[p.msg].qos

LEMMA KnownStays ==
  ASSUME PubKeeps
  PROVE  \A p : Known(p) => KnownNext(p)
BY DEF PubKeeps, Known, KnownNext

LEMMA StoresStay ==
  ASSUME Stores, PubKeeps, UNCHANGED <<inflight, wire>>
  PROVE  Stores'
<1>1. \A p : Known(p) => KnownNext(p)
  BY KnownStays
<1> QED BY <1>1 DEF Stores, Known, KnownNext

\* What a thread in the middle of a call has, in terms of its packet.
LEMMA JobKnown ==
  ASSUME Jobs, TypeOK, NEW t \in Thread, Busy(t)
  PROVE  /\ job[t].packet \in Packet /\ job[t].packet.msg \in DOMAIN pub
         /\ Known(job[t].packet)
         /\ job[t].todo \in SUBSET Subscription
         /\ job[t] \in Job
BY DEF Jobs, TypeOK, Job, Known

LEMMA NeverRaisedStays ==
  ASSUME NeverRaised, Stores, PubKeeps, UNCHANGED wire
  PROVE  NeverRaised'
BY DEF NeverRaised, Stores, Known, PubKeeps

LEMMA PublishKeeps ==
  ASSUME RoutingInv, NEW t \in Worker, NEW q \in PubQoS, NEW i \in PubId,
         publish(t, q, i)
  PROVE  RoutingInv'
<1> DEFINE n == Len(pub) + 1
           p == [msg |-> n, qos |-> q, id |-> i, dup |-> FALSE]
           r == [qos |-> q, id |-> i, level |-> q, done |-> FALSE,
                 matched |-> subscribers]
<1>1. /\ UNCHANGED <<registered, gone, connected, session, changes, subscribers>>
      /\ UNCHANGED <<inflight, message_queue, next_packet_id, m_retransmitHeap>>
      /\ UNCHANGED <<retries, wire, allocs, raced, dropped>>
      /\ pub' = Append(pub, r) /\ Begin(t, p) /\ Free /\ job[t] = Idle
      /\ Len(pub) < MaxMessages
  BY DEF publish, sessions, outbound, ids
<1>2. /\ TypeOK /\ pub \in Seq(Record) /\ t \in Thread /\ t # Main
      /\ subscribers \subseteq Subscription
  BY RoutingAssumption DEF RoutingInv, TypeOK, Thread
<1>3. q \in QoS /\ Len(pub) \in Nat /\ n \in Message
  BY <1>1, <1>2, RoutingAssumption DEF QoS, Message
<1>4. p \in Packet /\ r \in Record
  BY <1>2, <1>3 DEF Packet, Record
<1>5. /\ p.msg = n /\ p.qos = q /\ p.id = i /\ p.dup = FALSE
      /\ r.qos = q /\ r.id = i /\ r.done = FALSE /\ r.matched = subscribers
  OBVIOUS
<1> HIDE DEF n, p, r
<1>6. /\ pub' \in Seq(Record) /\ Len(pub') = n /\ pub'[n] = r
      /\ DOMAIN pub = 1 .. Len(pub) /\ DOMAIN pub' = DOMAIN pub \cup {n}
      /\ n \notin DOMAIN pub /\ \A m \in DOMAIN pub : pub'[m] = pub[m]
  BY <1>1, <1>2, <1>3, <1>4 DEF n
<1>7. PubKeeps
  BY <1>6 DEF PubKeeps
<1>8. /\ job'[t].phase = "route" /\ job'[t].packet = p
      /\ job'[t].todo = subscribers /\ job'[t].at = NoSession
      /\ \A u \in Thread : u # t => job'[u] = job[u]
      /\ job' \in [Thread -> Job]
  BY <1>1, <1>2, <1>4, BeginShape DEF Only
<1>9. TypeOK'
  <2>1. Len(pub') =< MaxMessages
    BY <1>1, <1>3, <1>6, RoutingAssumption DEF n
  <2> QED BY <1>1, <1>2, <1>6, <1>8, <2>1 DEF TypeOK
<1>10. Subscribers'
  <2>1. \A m \in DOMAIN pub' : OnePerSession(pub'[m].matched)
    BY <1>1, <1>5, <1>6 DEF RoutingInv, Subscribers
  <2>2. \A m \in DOMAIN pub' : \A s \in pub'[m].matched : s.session \in registered \cup gone
    BY <1>1, <1>5, <1>6 DEF RoutingInv, Subscribers
  <2> QED BY <1>1, <2>1, <2>2 DEF RoutingInv, Subscribers, OnePerSession
<1>11. Stores' /\ NeverRaised'
  BY <1>1, <1>7, StoresStay, NeverRaisedStays DEF RoutingInv
<1>12. \A u \in Thread \ {t} : Busy(u) => KnownNext(job[u].packet)
  BY <1>7, KnownStays DEF RoutingInv, Jobs
<1>13. \A u \in Thread \ {t} : job[u].packet = NoPacket \/ job[u].packet \in Packet
  BY <1>2 DEF TypeOK, Job
<1>14. \A u \in Thread \ {t} : Busy(u) => job[u].packet.msg \in DOMAIN pub
  BY DEF RoutingInv, Jobs, Known
<1>15. Jobs'
  <2>1. job'[t].packet.msg \in DOMAIN pub' /\ p.id = pub'[n].id /\ p.qos =< pub'[n].qos
    BY <1>3, <1>5, <1>6, <1>8 DEF QoS
  <2>2. OnePerSession(job'[t].todo) /\ \A s \in job'[t].todo : s.session # NoSession
    BY <1>2, <1>8, RoutingAssumption DEF RoutingInv, Subscribers, Subscription
  <2>3. job'[t] # Idle
    BY <1>8 DEF Idle
  <2>4. Jobs
    BY DEF RoutingInv
  <2> QED BY <1>2, <1>4, <1>5, <1>8, <1>12, <2>1, <2>2, <2>3, <2>4
          DEF Jobs, Busy, Known, KnownNext, OnePerSession
<1>16. Work'
  BY <1>2, <1>5, <1>6, <1>8, <1>14 DEF RoutingInv, Work, Busy, Thread
<1>17. \A o \in Session : \A k \in DOMAIN wire[o] : wire[o][k].msg # n
  BY <1>6 DEF RoutingInv, Stores, Known
<1>18. NotYet'
  BY <1>1, <1>2, <1>5, <1>8, <1>17 DEF RoutingInv, NotYet, Busy, Thread
<1>19. Served'
  <2>1. \A o, m : Accounted(o, m) => Accounted(o, m)'
    BY <1>1 DEF Reached, Accounted
  <2>2. \A u \in Worker \ {t} :
           /\ Busy(u)' <=> Busy(u)
           /\ job'[u] = job[u]
           /\ Busy(u) => pub'[job[u].packet.msg].matched = pub[job[u].packet.msg].matched
    BY <1>6, <1>8, <1>14 DEF Busy, Thread
  <2>3. pub'[job'[t].packet.msg].matched \ job'[t].todo = {}
    BY <1>5, <1>6, <1>8
  <2>4. UNCHANGED registered /\ Served
    BY <1>1 DEF RoutingInv
  <2> QED BY <2>1, <2>2, <2>3, <2>4 DEF Served
<1>20. Kept'
  BY <1>1, <1>5, <1>6 DEF RoutingInv, Kept, Reached, Accounted
<1>21. Counter' /\ HeapIds' /\ Retransmits' /\ OnceFresh' /\ IdsDistinct'
  BY <1>1, <1>2, <1>8 DEF RoutingInv, Counter, HeapIds, Retransmits, OnceFresh,
              IdsDistinct, Quiet, Busy, Thread
<1> QED BY <1>9, <1>10, <1>11, <1>15, <1>16, <1>18, <1>19, <1>20, <1>21 DEF RoutingInv

LEMMA ReturnKeeps ==
  ASSUME RoutingInv, NEW t \in Worker, Return(t)
  PROVE  RoutingInv'
<1> DEFINE n == job[t].packet.msg
           r == [pub[n] EXCEPT !.done = TRUE, !.level = job[t].packet.qos]
<1>1. /\ UNCHANGED <<registered, gone, connected, session, changes, subscribers>>
      /\ UNCHANGED <<inflight, message_queue, next_packet_id, m_retransmitHeap>>
      /\ UNCHANGED <<retries, wire, allocs, raced, dropped>>
  BY DEF Return, sessions, outbound, ids
<1>2. TypeOK /\ Jobs /\ pub \in Seq(Record) /\ t \in Thread /\ t # Main
  BY RoutingAssumption DEF RoutingInv, TypeOK, Thread
<1>3. /\ job[t].phase = "route" /\ job[t].todo = {} /\ job'[t] = Idle
      /\ job'[t].phase = "idle" /\ job'[t].at = NoSession
      /\ \A u \in Thread : u # t => job'[u] = job[u]
      /\ job' \in [Thread -> Job]
  BY <1>2, IdleShape DEF Only
<1>4. Busy(t) /\ n \in DOMAIN pub /\ job[t].packet.qos \in QoS
  BY <1>2, <1>3, JobKnown DEF Busy, Packet
<1>5. pub' = [pub EXCEPT ![n] = r]
  BY DEF Return
<1>6. r \in Record /\ r.id = pub[n].id /\ r.qos = pub[n].qos
      /\ r.matched = pub[n].matched /\ r.level = job[t].packet.qos
  <2>1. pub[n] \in Record
    BY <1>2, <1>4
  <2> QED BY <1>4, <2>1 DEF Record
<1> HIDE DEF r, n
<1>7. /\ DOMAIN pub' = DOMAIN pub /\ pub'[n] = r
      /\ \A m \in DOMAIN pub : m # n => pub'[m] = pub[m]
  BY <1>4, <1>5
<1>8. pub' \in Seq(Record) /\ Len(pub') = Len(pub)
  BY <1>2, <1>4, <1>5, <1>6
<1>9. PubKeeps
  BY <1>6, <1>7 DEF PubKeeps
<1>10. TypeOK'
  BY <1>1, <1>2, <1>3, <1>8 DEF TypeOK
<1>11. Subscribers'
  BY <1>1, <1>7, <1>9 DEF RoutingInv, Subscribers, PubKeeps, OnePerSession
<1>12. Stores' /\ NeverRaised'
  BY <1>1, <1>9, StoresStay, NeverRaisedStays DEF RoutingInv
<1>13. Jobs'
  <2>1. \A u \in Thread \ {t} : Busy(u) => KnownNext(job[u].packet)
    BY <1>2, <1>9, KnownStays DEF Jobs
  <2> QED BY <1>2, <1>3, <2>1 DEF Jobs, Busy, Known, KnownNext, OnePerSession
<1>14. \A u \in Worker \ {t} : Busy(u) => job[u].packet.msg \in DOMAIN pub
                                           /\ job[u].packet.msg # n
  BY <1>2, <1>4 DEF RoutingInv, Work, Jobs, Known, Thread, n
<1>15. Work'
  BY <1>2, <1>3, <1>7, <1>14 DEF RoutingInv, Work, Busy, Thread
<1>16. NotYet'
  BY <1>1, <1>2, <1>3 DEF RoutingInv, NotYet, Busy, Thread
<1>17. \A o, m : m \in DOMAIN pub /\ Accounted(o, m) => Accounted(o, m)'
  BY <1>1, <1>9 DEF Reached, Accounted, PubKeeps
<1>18. Served'
  <2> SUFFICES ASSUME NEW u \in Worker, Busy(u)', job'[u].packet.qos > 0,
                      NEW s \in pub'[job'[u].packet.msg].matched \ job'[u].todo,
                      s.session \in registered'
               PROVE  \/ Accounted(s.session, job[u].packet.msg)'
                      \/ job'[u].phase = "store" /\ job'[u].at = s.session
    BY DEF Served
  <2>1. u # t /\ job'[u] = job[u] /\ Busy(u)
    BY <1>2, <1>3 DEF Busy, Thread
  <2>2. pub'[job[u].packet.msg] = pub[job[u].packet.msg]
    BY <1>7, <1>14, <2>1
  <2>3. \/ Accounted(s.session, job[u].packet.msg)
        \/ job[u].phase = "store" /\ job[u].at = s.session
    BY <1>1, <2>1, <2>2 DEF RoutingInv, Served
  <2> QED BY <1>1, <1>14, <2>1, <2>2, <2>3 DEF Reached, Accounted
<1>19. Kept'
  <2> SUFFICES ASSUME NEW m \in DOMAIN pub, pub'[m].done, pub'[m].level > 0,
                      NEW s \in pub'[m].matched, s.session \in registered
               PROVE  Accounted(s.session, m)'
    BY <1>1, <1>7 DEF Kept
  <2>1. CASE m = n
    <3>1. job[t].packet.qos > 0 /\ s \in pub[n].matched \ job[t].todo
      BY <1>3, <1>6, <1>7, <2>1
    <3>2. Accounted(s.session, n)
      BY <1>3, <1>4, <3>1 DEF RoutingInv, Served, n
    <3> QED BY <1>4, <1>17, <2>1, <3>2
  <2>2. CASE m # n
    <3>1. Accounted(s.session, m)
      BY <1>7, <2>2 DEF RoutingInv, Kept
    <3> QED BY <1>17, <3>1
  <2> QED BY <2>1, <2>2
<1>20. Counter' /\ HeapIds' /\ Retransmits' /\ OnceFresh' /\ IdsDistinct'
  BY <1>1, <1>2, <1>3 DEF RoutingInv, Counter, HeapIds, Retransmits, OnceFresh,
              IdsDistinct, Quiet, Busy, Thread
<1> QED BY <1>10, <1>11, <1>12, <1>13, <1>15, <1>16, <1>18, <1>19, <1>20 DEF RoutingInv

-----------------------------------------------------------------------------
(***************************************************************************)
(* A thread takes a subscription that it cannot serve, or not now.         *)
(***************************************************************************)

\* A packet goes to the end of one session's sequence.
Appended(f, o, p) == [f EXCEPT ![o] = Append(@, p)]

AppendedWell(f, o, p) ==
  LET g == Appended(f, o, p)
      n == Len(f[o]) + 1
  IN  /\ g \in [Session -> Seq(Packet)]
      /\ \A r \in Session : \A k \in DOMAIN f[r] : k \in DOMAIN g[r] /\ g[r][k] = f[r][k]
      /\ n \in DOMAIN g[o] /\ g[o][n] = p
      /\ \A r \in Session : \A l \in DOMAIN g[r] : l \in DOMAIN f[r] \/ (r = o /\ l = n)

LEMMA AppendOne ==
  ASSUME NEW f \in [Session -> Seq(Packet)], NEW o \in Session, NEW p \in Packet
  PROVE  AppendedWell(f, o, p)
<1> DEFINE g == Appended(f, o, p)
<1>1. f[o] \in Seq(Packet) /\ g[o] = Append(f[o], p)
  BY DEF Appended
<1>2. \A r \in Session : r # o => g[r] = f[r]
  BY DEF Appended
<1>3. DOMAIN f[o] = 1 .. Len(f[o]) /\ Len(f[o]) \in Nat
  BY <1>1
<1> DEFINE n == Len(f[o]) + 1
<1>4. /\ DOMAIN g[o] = 1 .. n /\ n \in DOMAIN g[o] /\ g[o][n] = p
      /\ \A k \in DOMAIN f[o] : g[o][k] = f[o][k]
      /\ g[o] \in Seq(Packet)
  BY <1>1
<1>5. g \in [Session -> Seq(Packet)]
  BY <1>1 DEF Appended
<1>6. \A r \in Session : \A k \in DOMAIN f[r] :
         k \in DOMAIN g[r] /\ g[r][k] = f[r][k]
  BY <1>2, <1>3, <1>4
<1>7. \A r \in Session : \A l \in DOMAIN g[r] :
         l \in DOMAIN f[r] \/ (r = o /\ l = n)
  BY <1>2, <1>3, <1>4
<1> HIDE DEF g
<1> QED BY <1>4, <1>5, <1>6, <1>7 DEF AppendedWell, g

LEMMA ServeKeeps ==
  ASSUME RoutingInv, NEW t \in Thread, NEW s \in job[t].todo,
         Skip(t, s) \/ Offline(t, s)
  PROVE  RoutingInv'
<1>1. /\ UNCHANGED <<registered, gone, connected, session, changes, subscribers>>
      /\ UNCHANGED <<inflight, next_packet_id, m_retransmitHeap>>
      /\ UNCHANGED <<retries, wire, pub, allocs, raced, dropped>>
  BY DEF Skip, Offline, sessions, outbound, history, ids
<1>2. TypeOK /\ Jobs /\ Subscribers
  BY DEF RoutingInv
<1>3. /\ job[t].phase = "route" /\ job'[t].phase = "route"
      /\ job'[t].packet = job[t].packet /\ job'[t].todo = job[t].todo \ {s}
      /\ job'[t].at = job[t].at /\ job'[t].next = job[t].next
      /\ \A u \in Thread : u # t => job'[u] = job[u]
      /\ job' \in [Thread -> Job]
  BY <1>2, ServeShape DEF Only
<1>4. /\ Busy(t) /\ job[t].packet \in Packet /\ s \in Subscription
      /\ s.session \in Session
  BY <1>2, <1>3, JobKnown DEF Busy, Subscription
<1> DEFINE g == Appended(message_queue, s.session, job[t].packet)
<1>5. \/ Skip(t, s) /\ UNCHANGED message_queue
      \/ ~(job[t].packet.qos > 0) /\ UNCHANGED message_queue
      \/ message_queue' = g
  <2>1. CASE Skip(t, s)
    BY <2>1 DEF Skip, outbound
  <2>2. CASE Offline(t, s)
    BY <2>2 DEF Offline, storeMessage, Appended
  <2> QED BY <2>1, <2>2
<1> HIDE DEF g
<1>6. /\ g \in [Session -> Seq(Packet)]
      /\ \A o \in Session : \A k \in DOMAIN message_queue[o] :
           k \in DOMAIN g[o] /\ g[o][k] = message_queue[o][k]
      /\ \E k \in DOMAIN g[s.session] : g[s.session][k] = job[t].packet
  <2>1. message_queue \in [Session -> Seq(Packet)]
    BY <1>2 DEF TypeOK
  <2>2. AppendedWell(message_queue, s.session, job[t].packet)
    BY <1>4, <2>1, AppendOne
  <2>3. /\ g \in [Session -> Seq(Packet)]
        /\ \A o \in Session : \A k \in DOMAIN message_queue[o] :
             k \in DOMAIN g[o] /\ g[o][k] = message_queue[o][k]
        /\ Len(message_queue[s.session]) + 1 \in DOMAIN g[s.session]
        /\ g[s.session][Len(message_queue[s.session]) + 1] = job[t].packet
    BY <2>2 DEF AppendedWell, g
  <2> QED BY <2>3
<1>7. TypeOK'
  BY <1>1, <1>2, <1>3, <1>5, <1>6 DEF TypeOK
<1>8. Subscribers' /\ Stores' /\ Counter' /\ HeapIds' /\ NeverRaised' /\ OnceFresh'
      /\ IdsDistinct'
  BY <1>1 DEF RoutingInv, Subscribers, Stores, Counter, HeapIds, NeverRaised, OnceFresh,
              IdsDistinct, Known, Quiet
<1>9. Retransmits'
  BY <1>1, <1>3, <1>4 DEF RoutingInv, Retransmits, Busy, Thread
<1>10. \A u \in Thread : /\ job'[u].phase = job[u].phase /\ job'[u].at = job[u].at
                         /\ job'[u].packet = job[u].packet
                         /\ job'[u].next = job[u].next
                         /\ job'[u].todo \subseteq job[u].todo
  BY <1>3
<1>11. Jobs'
  <2>1. job'[t] # Idle
    BY <1>3 DEF Idle
  <2> QED BY <1>1, <1>2, <1>3, <1>4, <2>1 DEF Jobs, Busy, Known, OnePerSession
<1>12. Work'
  BY <1>1, <1>10 DEF RoutingInv, Work, Busy, Thread
<1>13. NotYet'
  BY <1>1, <1>10 DEF RoutingInv, NotYet, Busy, Thread
<1>14. \A o \in Session : \A k \in DOMAIN message_queue[o] :
         k \in DOMAIN message_queue'[o] /\ message_queue'[o][k] = message_queue[o][k]
  BY <1>5, <1>6
<1>15. \A o \in Session : \A m : Accounted(o, m) => Accounted(o, m)'
  BY <1>1, <1>14 DEF Reached, Accounted
<1>16. /\ \A m \in DOMAIN pub : \A r \in pub[m].matched : r.session \in Session
       /\ registered \subseteq Session
  BY <1>2 DEF Subscribers, TypeOK
<1>17. Kept'
  BY <1>1, <1>15, <1>16 DEF RoutingInv, Kept
<1>18. s.session \in registered /\ job[t].packet.qos > 0
         => \A m : m = job[t].packet.msg => Accounted(s.session, m)'
  <2>1. CASE Skip(t, s)
    BY <2>1 DEF Skip, Held
  <2>2. CASE message_queue' = g
    BY <1>6, <2>2 DEF Reached, Accounted
  <2> QED BY <1>5, <2>1, <2>2
<1>19. Served'
  <2> SUFFICES ASSUME NEW u \in Worker, Busy(u), job[u].packet.qos > 0,
                      NEW m, m = job[u].packet.msg,
                      NEW r \in pub[m].matched \ job'[u].todo,
                      r.session \in registered
               PROVE  \/ Accounted(r.session, m)'
                      \/ job[u].phase = "store" /\ job[u].at = r.session
    BY <1>1, <1>10 DEF Served, Reached, Accounted, Busy, Thread
  <2>1. CASE r \notin job[u].todo
    <3>1. \/ Accounted(r.session, m)
          \/ job[u].phase = "store" /\ job[u].at = r.session
      BY <2>1 DEF RoutingInv, Served
    <3> QED BY <1>15, <1>16, <3>1
  <2>2. CASE r \in job[u].todo
    <3>1. u = t /\ r = s
      BY <1>3, <2>2 DEF Thread
    <3> QED BY <1>18, <3>1
  <2> QED BY <2>1, <2>2
<1> QED BY <1>7, <1>8, <1>9, <1>11, <1>12, <1>13, <1>17, <1>19 DEF RoutingInv

-----------------------------------------------------------------------------
(***************************************************************************)
(* A thread serves a subscription: it lowers the packet and takes the      *)
(* session, stores the packet and schedules it, and sends it.              *)
(***************************************************************************)
LEMMA OnlineKeeps ==
  ASSUME RoutingInv, NEW t \in Thread, NEW s \in job[t].todo, Online(t, s)
  PROVE  RoutingInv'
<1>1. /\ UNCHANGED <<registered, gone, connected, session, changes, subscribers>>
      /\ UNCHANGED <<inflight, message_queue, next_packet_id, m_retransmitHeap>>
      /\ UNCHANGED <<retries, wire, pub, allocs, raced, dropped>>
  BY DEF Online, sessions, outbound, history, ids
<1>2. TypeOK /\ Jobs /\ Subscribers
  BY DEF RoutingInv
<1>3. job[t].phase = "route" /\ Busy(t)
  BY DEF Online, Turn, Busy
<1>4. /\ job[t].packet \in Packet /\ Known(job[t].packet)
      /\ s \in Subscription /\ s.session \in Session /\ s.qos \in QoS
  BY <1>2, <1>3, JobKnown, RoutingAssumption DEF Subscription
<1>5. /\ job'[t].phase = IF job'[t].packet.qos > 0 THEN "store" ELSE "push"
      /\ job'[t].packet \in Packet /\ job'[t].packet.msg = job[t].packet.msg
      /\ job'[t].packet.id = job[t].packet.id
      /\ job'[t].packet.dup = job[t].packet.dup
      /\ job'[t].packet.qos =< job[t].packet.qos /\ job'[t].packet.qos =< s.qos
      /\ job'[t].todo = job[t].todo \ {s} /\ job'[t].at = s.session
      /\ job'[t].packet.qos > 0 => job'[t].next \in PacketId
      /\ \A u \in Thread : u # t => job'[u] = job[u]
      /\ job' \in [Thread -> Job]
  BY <1>2, <1>4, OnlineShape DEF Only
<1>6. TypeOK'
  BY <1>1, <1>2, <1>5 DEF TypeOK
<1>7. Subscribers' /\ Stores' /\ Counter' /\ HeapIds' /\ NeverRaised' /\ OnceFresh'
      /\ IdsDistinct' /\ Kept'
  BY <1>1 DEF RoutingInv, Subscribers, Stores, Counter, HeapIds, NeverRaised, OnceFresh,
              IdsDistinct, Known, Quiet, Kept, Reached, Accounted
<1>8. Retransmits'
  BY <1>1, <1>3, <1>5 DEF RoutingInv, Retransmits, Busy, Thread
<1>9. Jobs'
  <2>1. \A u \in Thread : u # t =>
          /\ job[u].phase = "idle" <=> job[u] = Idle
          /\ job[u].phase \in {"store", "push"} <=> job[u].at # NoSession
          /\ job[u].phase = "store" => job[u].packet.qos > 0 /\ job[u].next \in PacketId
          /\ Busy(u) => /\ job[u].packet \in Packet /\ Known(job[u].packet)
                        /\ job[u].packet.dup <=> u = Main
                        /\ OnePerSession(job[u].todo)
                        /\ \A r \in job[u].todo : r.session # job[u].at
    BY <1>2 DEF Jobs
  <2>2. job'[t] # Idle /\ job'[t].phase # "idle" /\ job'[t].at # NoSession
    BY <1>4, <1>5, RoutingAssumption DEF Idle
  <2>3. OnePerSession(job'[t].todo) /\ \A r \in job'[t].todo : r.session # job'[t].at
    BY <1>2, <1>3, <1>5 DEF Jobs, OnePerSession
  <2>4. /\ pub[job[t].packet.msg].qos \in QoS
        /\ job'[t].packet.qos \in QoS /\ job[t].packet.qos \in QoS
    <3>1. pub \in Seq(Record) /\ job[t].packet.msg \in DOMAIN pub
      BY <1>2, <1>4 DEF TypeOK, Known
    <3>2. pub[job[t].packet.msg] \in Record
      BY <3>1
    <3> QED BY <1>4, <1>5, <3>2 DEF Record, Packet
  <2>5. /\ job'[t].packet.msg \in DOMAIN pub'
        /\ job'[t].packet.id = pub'[job'[t].packet.msg].id
        /\ job'[t].packet.qos =< pub'[job'[t].packet.msg].qos
    BY <1>1, <1>4, <1>5, <2>4 DEF Known, QoS
  <2>6. job'[t].packet.dup <=> t = Main
    BY <1>2, <1>3, <1>5 DEF Jobs
  <2> QED BY <1>1, <1>5, <2>1, <2>2, <2>3, <2>5, <2>6 DEF Jobs, Busy, Known, OnePerSession
<1>10. Work'
  <2>1. t \in Worker => s \in pub[job[t].packet.msg].matched
    BY <1>3 DEF RoutingInv, Work
  <2> QED BY <1>1, <1>3, <1>5, <2>1 DEF RoutingInv, Work, Busy, Thread
<1>11. NotYet'
  BY <1>1, <1>3, <1>5 DEF RoutingInv, NotYet, Busy, Thread
<1>12. Served'
  <2> SUFFICES ASSUME NEW u \in Worker, Busy(u)', job'[u].packet.qos > 0,
                      NEW r \in pub[job[u].packet.msg].matched \ job'[u].todo,
                      r.session \in registered
               PROVE  \/ Accounted(r.session, job[u].packet.msg)
                      \/ job'[u].phase = "store" /\ job'[u].at = r.session
    BY <1>1, <1>5 DEF Served, Reached, Accounted, Thread
  <2>1. CASE u # t
    BY <1>5, <2>1 DEF RoutingInv, Served, Busy, Thread
  <2>2. CASE u = t /\ r = s
    BY <1>5, <2>2
  <2>3. CASE u = t /\ r # s
    <3>1. job[t].packet.qos > 0
      BY <1>4, <1>5, <2>3 DEF Packet, QoS
    <3> QED BY <1>3, <1>5, <2>3, <3>1 DEF RoutingInv, Served
  <2> QED BY <2>1, <2>2, <2>3
<1> QED BY <1>6, <1>7, <1>8, <1>9, <1>10, <1>11, <1>12 DEF RoutingInv

LEMMA NextIdValue ==
  ASSUME NEW n \in PacketId
  PROVE  /\ NextId(n) \in PacketId
         /\ NextId(n) = IF n + 1 = IdSpace THEN 1 ELSE n + 1
<1>1. IdSpace \in Nat /\ IdSpace > 1 /\ n \in Nat /\ n + 1 =< IdSpace /\ n >= 1
  BY RoutingAssumption DEF PacketId
<1>2. n + 1 < IdSpace => (n + 1) % IdSpace = n + 1
  BY <1>1
<1>3. n + 1 = IdSpace => (n + 1) % IdSpace = 0
  BY <1>1
<1> QED BY <1>1, <1>2, <1>3 DEF NextId, PacketId

LEMMA StoreKeeps ==
  ASSUME RoutingInv, NEW t \in Thread, storeInflight(t)
  PROVE  RoutingInv'
<1> SUFFICES ASSUME NEW o, o = job[t].at, NEW p, p = job[t].packet,
                    NEW n, n = NextId(job[t].next),
                    NEW e, e = [id |-> n, session |-> o]
             PROVE  RoutingInv'
  OBVIOUS
<1>1. /\ UNCHANGED <<registered, gone, connected, session, changes, subscribers>>
      /\ UNCHANGED <<message_queue, retries, wire, pub>>
      /\ job[t].phase = "store"
      /\ next_packet_id' = [next_packet_id EXCEPT ![o] = n]
      /\ allocs' = [allocs EXCEPT ![o] = @ + 1]
      /\ raced' = IF Alone(t, o) THEN raced ELSE raced \cup {o}
      /\ inflight' = Stored(o, p) /\ dropped' = Dropped(o, p)
      /\ m_retransmitHeap' = Append(m_retransmitHeap, e)
  BY DEF storeInflight, sessions
<1>2. TypeOK /\ Jobs
  BY DEF RoutingInv
<1>3. /\ job'[t].phase = "push"
      /\ job'[t].packet = job[t].packet /\ job'[t].todo = job[t].todo
      /\ job'[t].at = job[t].at
      /\ \A u \in Thread : u # t => job'[u] = job[u]
      /\ job' \in [Thread -> Job]
  BY <1>2, StoreShape DEF Only
<1>4. /\ Busy(t) /\ p \in Packet /\ Known(p) /\ o \in Session
      /\ job[t].next \in PacketId
  BY <1>1, <1>2, JobKnown DEF Jobs, Busy, Job
<1>5. n \in PacketId /\ n = IF job[t].next + 1 = IdSpace THEN 1 ELSE job[t].next + 1
  BY <1>4, NextIdValue
<1>6. e \in Entry /\ e.id = n /\ e.session = o
  BY <1>4, <1>5 DEF Entry
<1>7. /\ inflight' \in [Session -> SUBSET Packet]
      /\ \A q \in Session : inflight[q] \subseteq inflight'[q]
      /\ \A q \in Session : \A r \in inflight'[q] : r \in inflight[q] \/ r = p
      /\ dropped \subseteq dropped' /\ dropped' \subseteq Session \X Message
      /\ (\E r \in inflight'[o] : r.msg = p.msg) \/ <<o, p.msg>> \in dropped'
  <2>1. /\ inflight \in [Session -> SUBSET Packet] /\ dropped \subseteq Session \X Message
        /\ <<o, p.msg>> \in Session \X Message
    BY <1>2, <1>4 DEF TypeOK, Packet
  <2>2. CASE Taken(o, p.id)
    <3>1. inflight' = inflight
      BY <1>1, <2>2 DEF Stored
    <3>2. CASE Under(o, p.id) \subseteq {p.msg}
      <4>1. PICK r \in inflight[o] : r.id = p.id
        BY <2>2 DEF Taken
      <4>2. r.msg \in Under(o, p.id)
        BY <4>1 DEF Under
      <4>3. dropped' = dropped /\ r.msg = p.msg
        BY <1>1, <3>2, <4>2 DEF Dropped
      <4> QED BY <2>1, <3>1, <4>1, <4>3
    <3>3. CASE ~(Under(o, p.id) \subseteq {p.msg})
      <4>1. dropped' = dropped \cup {<<o, p.msg>>}
        BY <1>1, <3>3 DEF Dropped
      <4> QED BY <2>1, <3>1, <4>1
    <3> QED BY <3>2, <3>3
  <2>3. CASE ~Taken(o, p.id)
    <3>1. Under(o, p.id) = {}
      BY <2>3 DEF Taken, Under
    <3>2. dropped' = dropped /\ inflight' = [inflight EXCEPT ![o] = @ \cup {p}]
      BY <1>1, <2>3, <3>1 DEF Stored, Dropped
    <3> QED BY <1>4, <2>1, <3>2
  <2> QED BY <2>2, <2>3
<1>8. /\ next_packet_id' \in [Session -> PacketId] /\ next_packet_id'[o] = n
      /\ \A q \in Session : q # o => next_packet_id'[q] = next_packet_id[q]
  BY <1>1, <1>2, <1>4, <1>5 DEF TypeOK
<1>9. /\ allocs' \in [Session -> Nat] /\ allocs'[o] = allocs[o] + 1
      /\ \A q \in Session : q # o => allocs'[q] = allocs[q]
  BY <1>1, <1>2, <1>4 DEF TypeOK
<1>10. /\ m_retransmitHeap' \in Seq(Entry)
       /\ \A k \in DOMAIN m_retransmitHeap' :
            \/ k \in DOMAIN m_retransmitHeap /\ m_retransmitHeap'[k] = m_retransmitHeap[k]
            \/ k = Len(m_retransmitHeap) + 1 /\ m_retransmitHeap'[k] = e
       /\ m_retransmitHeap' # <<>>
  <2>1. m_retransmitHeap \in Seq(Entry) /\ m_retransmitHeap' = Append(m_retransmitHeap, e)
    BY <1>1, <1>2 DEF TypeOK
  <2>2. /\ DOMAIN m_retransmitHeap = 1 .. Len(m_retransmitHeap)
        /\ DOMAIN m_retransmitHeap' = 1 .. Len(m_retransmitHeap) + 1
        /\ Len(m_retransmitHeap) \in Nat
    BY <1>6, <2>1
  <2>3. m_retransmitHeap' \in Seq(Entry) /\ m_retransmitHeap' # <<>>
    BY <1>6, <2>1
  <2>4. \A k \in 1 .. Len(m_retransmitHeap) + 1 :
          \/ k \in 1 .. Len(m_retransmitHeap) /\ m_retransmitHeap'[k] = m_retransmitHeap[k]
          \/ k = Len(m_retransmitHeap) + 1 /\ m_retransmitHeap'[k] = e
    BY <1>6, <2>1, <2>2
  <2> QED BY <2>2, <2>3, <2>4
<1>11. raced' \subseteq Session
  BY <1>1, <1>2, <1>4 DEF TypeOK
<1>12. TypeOK'
  BY <1>1, <1>2, <1>3, <1>7, <1>8, <1>9, <1>10, <1>11 DEF TypeOK
<1>13. Subscribers' /\ NeverRaised' /\ OnceFresh'
  BY <1>1 DEF RoutingInv, Subscribers, NeverRaised, OnceFresh
<1>14. Stores'
  BY <1>1, <1>4, <1>7 DEF RoutingInv, Stores, Known
<1>15. Jobs'
  <2>1. job'[t] # Idle /\ job'[t].at # NoSession
    BY <1>1, <1>2, <1>3 DEF Jobs, Idle
  <2> QED BY <1>1, <1>2, <1>3, <1>4, <2>1 DEF Jobs, Busy, Known, OnePerSession
<1>16. Work' /\ NotYet'
  <2>1. \A u \in Thread : /\ Busy(u)' <=> Busy(u)
                          /\ job'[u].packet = job[u].packet /\ job'[u].at = job[u].at
                          /\ job'[u].todo = job[u].todo
    BY <1>3, <1>4 DEF Busy
  <2>2. UNCHANGED <<pub, wire>> /\ Work /\ NotYet /\ Worker \subseteq Thread
    BY <1>1 DEF RoutingInv, Thread
  <2>3. Work'
    BY <2>1, <2>2 DEF Work
  <2>4. NotYet'
    BY <2>1, <2>2 DEF NotYet
  <2> QED BY <2>3, <2>4
<1>17. \A q \in Session : \A m : Accounted(q, m) => Accounted(q, m)'
  <2>1. UNCHANGED <<wire, message_queue>>
    BY <1>1
  <2>2. \A q \in Session : inflight[q] \subseteq inflight'[q]
    BY <1>7
  <2>3. \A x : x \in dropped => x \in dropped'
    BY <1>7
  <2> SUFFICES ASSUME NEW q \in Session, NEW m, Accounted(q, m)
               PROVE  Accounted(q, m)'
    OBVIOUS
  <2>4. CASE Reached(q, m)
    BY <2>1, <2>2, <2>4 DEF Reached, Accounted
  <2>5. CASE <<q, m>> \in dropped
    <3>1. <<q, m>> \in dropped'
      BY <2>3, <2>5
    <3> QED BY <3>1 DEF Accounted
  <2> QED BY <2>4, <2>5 DEF Accounted
<1>18. \A m \in DOMAIN pub : \A r \in pub[m].matched : r.session \in Session
  BY DEF RoutingInv, Subscribers, TypeOK
<1>19. Kept'
  <2>1. registered \subseteq Session
    BY <1>2 DEF TypeOK
  <2> QED BY <1>1, <1>17, <2>1 DEF RoutingInv, Kept
<1>20. \A m : m = p.msg => Accounted(o, m)'
  BY <1>7 DEF Reached, Accounted
<1>21. Served'
  <2>1. \A u \in Thread : /\ Busy(u)' => Busy(u)
                          /\ job'[u].packet = job[u].packet
                          /\ job'[u].todo = job[u].todo
    BY <1>3, <1>4 DEF Busy
  <2>2. UNCHANGED <<pub, registered>>
    BY <1>1
  <2> SUFFICES ASSUME NEW u \in Worker, Busy(u), job[u].packet.qos > 0,
                      NEW m, m = job[u].packet.msg,
                      NEW r \in pub[m].matched \ job[u].todo, r.session \in registered
               PROVE  \/ Accounted(r.session, m)'
                      \/ job'[u].phase = "store" /\ job'[u].at = r.session
    BY <2>2, <2>1 DEF Served, Reached, Accounted, Thread
  <2>3. \/ Accounted(r.session, m)
        \/ job[u].phase = "store" /\ job[u].at = r.session
    BY DEF RoutingInv, Served
  <2>4. registered \subseteq Session
    BY <1>2 DEF TypeOK
  <2>5. CASE u # t
    BY <1>3, <1>17, <2>3, <2>4, <2>5 DEF Thread
  <2>6. CASE u = t
    BY <1>17, <1>20, <2>3, <2>4, <2>6
  <2> QED BY <2>5, <2>6
<1>22. Retransmits'
  BY <1>10 DEF Retransmits
<1>23. \A q \in Session : Quiet(q)' => Quiet(q)
  <2>1. IdSpace \in Nat /\ \A q \in Session : allocs[q] \in Nat
    BY <1>2, RoutingAssumption DEF TypeOK
  <2>2. \A q \in Session : allocs'[q] < IdSpace => allocs[q] < IdSpace
    BY <1>4, <1>9, <2>1
  <2>3. raced \subseteq raced'
    BY <1>1
  <2> QED BY <2>2, <2>3 DEF Quiet
<1>24. Quiet(o)' => n = IF allocs[o] + 1 = IdSpace - 1 THEN 1 ELSE allocs[o] + 2
  <2> SUFFICES ASSUME Quiet(o)'
               PROVE  n = IF allocs[o] + 1 = IdSpace - 1 THEN 1 ELSE allocs[o] + 2
    OBVIOUS
  <2>1. Quiet(o) /\ allocs[o] + 1 < IdSpace /\ allocs[o] \in Nat
    BY <1>2, <1>4, <1>9, <1>23 DEF Quiet, TypeOK
  <2>2. next_packet_id[o] = job[t].next
    BY <1>1 DEF Quiet, Alone
  <2>3. next_packet_id[o] = allocs[o] + 1
    BY <1>4, <2>1, RoutingAssumption DEF RoutingInv, Counter
  <2> QED BY <1>5, <2>1, <2>2, <2>3, RoutingAssumption
<1>25. Counter'
  <2> SUFFICES ASSUME NEW q \in Session, Quiet(q)'
               PROVE  next_packet_id'[q] = IF allocs'[q] = IdSpace - 1 THEN 1
                                           ELSE allocs'[q] + 1
    BY DEF Counter
  <2>1. CASE q # o
    BY <1>8, <1>9, <1>23, <2>1 DEF RoutingInv, Counter
  <2>2. CASE q = o
    <3>1. allocs[o] \in Nat
      BY <1>2, <1>4 DEF TypeOK
    <3> QED BY <1>8, <1>9, <1>24, <2>2, <3>1, RoutingAssumption
  <2> QED BY <2>1, <2>2
<1>26. \A k \in DOMAIN m_retransmitHeap :
         /\ m_retransmitHeap[k].session \in Session
         /\ m_retransmitHeap[k].id \in PacketId
  <2>1. m_retransmitHeap \in Seq(Entry)
    BY <1>2 DEF TypeOK
  <2>2. \A k \in DOMAIN m_retransmitHeap : m_retransmitHeap[k] \in Entry
    BY <2>1
  <2> QED BY <2>2 DEF Entry
<1>27. \A k \in DOMAIN m_retransmitHeap :
         m_retransmitHeap[k].session = o /\ Quiet(o)' =>
           m_retransmitHeap[k].id =< allocs[o] + 1 /\ m_retransmitHeap[k].id # n
  <2> SUFFICES ASSUME NEW k \in DOMAIN m_retransmitHeap,
                      m_retransmitHeap[k].session = o, Quiet(o)'
               PROVE  m_retransmitHeap[k].id =< allocs[o] + 1
                      /\ m_retransmitHeap[k].id # n
    OBVIOUS
  <2>1. Quiet(o) /\ allocs[o] + 1 < IdSpace /\ allocs[o] \in Nat
    BY <1>2, <1>4, <1>9, <1>23 DEF Quiet, TypeOK
  <2>2. IF m_retransmitHeap[k].id = 1 THEN allocs[o] = IdSpace - 1
        ELSE m_retransmitHeap[k].id =< allocs[o] + 1
    BY <2>1 DEF RoutingInv, HeapIds
  <2>3. m_retransmitHeap[k].id \in Nat /\ IdSpace \in Nat
    BY <1>26, RoutingAssumption DEF PacketId
  <2>4. m_retransmitHeap[k].id # 1
    BY <2>1, <2>2, <2>3
  <2> QED BY <1>24, <2>1, <2>2, <2>3, <2>4
<1>28. HeapIds'
  <2> SUFFICES ASSUME NEW k \in DOMAIN m_retransmitHeap',
                      NEW f, f = m_retransmitHeap'[k], Quiet(f.session)'
               PROVE  IF f.id = 1 THEN allocs'[f.session] = IdSpace - 1
                      ELSE f.id =< allocs'[f.session] + 1
    BY DEF HeapIds, Quiet
  <2>1. CASE f = e
    <3>1. allocs[o] \in Nat
      BY <1>2, <1>4 DEF TypeOK
    <3> QED BY <1>6, <1>9, <1>24, <2>1, <3>1, RoutingAssumption
  <2>2. CASE f # e
    <3>1. k \in DOMAIN m_retransmitHeap /\ f = m_retransmitHeap[k]
      BY <1>10, <2>2
    <3>2. f.session \in Session /\ f.id \in PacketId
      BY <1>26, <3>1
    <3>3. Quiet(f.session)
      BY <1>23, <3>2
    <3>4. IF f.id = 1 THEN allocs[f.session] = IdSpace - 1
          ELSE f.id =< allocs[f.session] + 1
      BY <3>1, <3>3 DEF RoutingInv, HeapIds
    <3>5. CASE f.session # o
      BY <1>9, <3>2, <3>4, <3>5
    <3>6. CASE f.session = o
      <4>1. allocs[o] \in Nat /\ allocs[o] + 1 < IdSpace
        BY <1>2, <1>4, <1>9, <3>6 DEF Quiet, TypeOK
      <4>2. f.id \in Nat /\ IdSpace \in Nat
        BY <3>2, RoutingAssumption DEF PacketId
      <4> QED BY <1>9, <3>4, <3>6, <4>1, <4>2
    <3> QED BY <3>5, <3>6
  <2> QED BY <2>1, <2>2
<1>29. \A k \in DOMAIN m_retransmitHeap : m_retransmitHeap[k] = e => ~Quiet(o)'
  BY <1>6, <1>27
<1>30. IdsDistinct'
  <2> SUFFICES ASSUME NEW j \in DOMAIN m_retransmitHeap',
                      NEW k \in DOMAIN m_retransmitHeap',
                      NEW f, f = m_retransmitHeap'[j], f = m_retransmitHeap'[k],
                      j # k, Quiet(f.session)'
               PROVE  FALSE
    <3>1. ASSUME NEW f \in Entry
          PROVE  f.session \in raced' \/ allocs'[f.session] >= IdSpace \/ Quiet(f.session)'
      <4>1. allocs'[f.session] \in Nat /\ IdSpace \in Nat
        BY <1>9, RoutingAssumption DEF Entry
      <4> QED BY <4>1 DEF Quiet
    <3>2. \A k \in DOMAIN m_retransmitHeap' : m_retransmitHeap'[k] \in Entry
      BY <1>10
    <3> QED BY <3>1, <3>2 DEF IdsDistinct
  <2>1. CASE f = e
    BY <1>6, <1>10, <1>29, <2>1
  <2>2. CASE f # e
    <3>1. /\ j \in DOMAIN m_retransmitHeap /\ f = m_retransmitHeap[j]
          /\ k \in DOMAIN m_retransmitHeap /\ f = m_retransmitHeap[k]
      BY <1>10, <2>2
    <3>2. Quiet(f.session) /\ f.session \in Session
      BY <1>23, <1>26, <3>1
    <3>3. allocs[f.session] \in Nat /\ IdSpace \in Nat
      BY <1>2, <3>2, RoutingAssumption DEF TypeOK
    <3>4. f.session \in raced \/ allocs[f.session] >= IdSpace
      BY <3>1 DEF RoutingInv, IdsDistinct
    <3> QED BY <3>2, <3>3, <3>4 DEF Quiet
  <2> QED BY <2>1, <2>2
<1> QED BY <1>12, <1>13, <1>14, <1>15, <1>16, <1>19, <1>21, <1>22, <1>25, <1>28, <1>30
        DEF RoutingInv

LEMMA PushKeeps ==
  ASSUME RoutingInv, NEW t \in Thread, push(t)
  PROVE  RoutingInv'
<1> SUFFICES ASSUME NEW o, o = job[t].at, NEW p, p = job[t].packet,
                    NEW n, n = Len(wire[o]) + 1
             PROVE  RoutingInv'
  OBVIOUS
<1>1. /\ UNCHANGED <<registered, gone, connected, session, changes, subscribers>>
      /\ UNCHANGED <<inflight, message_queue, next_packet_id, m_retransmitHeap>>
      /\ UNCHANGED <<retries, pub, allocs, raced, dropped>>
      /\ wire' = wire \/ wire' = Appended(wire, o, p)
  BY DEF push, sessions, outbound, history, ids, Appended
<1>2. TypeOK /\ Jobs /\ Subscribers
  BY DEF RoutingInv
<1>3. /\ job[t].phase = "push" /\ job'[t].phase = "route"
      /\ job'[t].packet = p /\ job'[t].todo = job[t].todo
      /\ job'[t].at = NoSession
      /\ \A u \in Thread : u # t => job'[u] = job[u]
      /\ job' \in [Thread -> Job]
  BY <1>2, PushShape DEF Only
<1>4. Busy(t) /\ p \in Packet /\ Known(p) /\ o \in Session /\ (p.dup <=> t = Main)
  BY <1>2, <1>3, JobKnown DEF Jobs, Busy, Job
<1>5. wire \in [Session -> Seq(Packet)]
  BY <1>2 DEF TypeOK
<1> DEFINE g == Appended(wire, o, p)
<1> HIDE DEF g
<1>6. /\ g \in [Session -> Seq(Packet)]
      /\ \A r \in Session : \A k \in DOMAIN wire[r] :
           k \in DOMAIN g[r] /\ g[r][k] = wire[r][k]
      /\ g[o][n] = p
      /\ \A r \in Session : \A k \in DOMAIN g[r] :
           k \in DOMAIN wire[r] \/ (r = o /\ k = n)
  <2>1. AppendedWell(wire, o, p)
    BY <1>4, <1>5, AppendOne
  <2> QED BY <2>1 DEF AppendedWell, g
<1>7. wire' = wire \/ wire' = g
  BY <1>1 DEF g
<1>8. /\ wire' \in [Session -> Seq(Packet)]
      /\ \A r \in Session : \A k \in DOMAIN wire[r] :
           k \in DOMAIN wire'[r] /\ wire'[r][k] = wire[r][k]
  BY <1>5, <1>6, <1>7
<1>9. \A r \in Session : \A k \in DOMAIN wire'[r] :
        \/ k \in DOMAIN wire[r] /\ wire'[r][k] = wire[r][k]
        \/ r = o /\ k = n /\ wire'[r][k] = p
  BY <1>6, <1>7, <1>8
<1>10. TypeOK'
  BY <1>1, <1>2, <1>3, <1>8 DEF TypeOK
<1>11. Subscribers' /\ Counter' /\ HeapIds' /\ IdsDistinct'
  BY <1>1 DEF RoutingInv, Subscribers, Counter, HeapIds, IdsDistinct, Quiet
<1>12. Stores'
  BY <1>1, <1>4, <1>9 DEF RoutingInv, Stores, Known
<1>13. Retransmits'
  BY <1>1, <1>3, <1>4 DEF RoutingInv, Retransmits, Busy, Thread
<1>14. Jobs'
  <2>1. job'[t] # Idle /\ \A s \in job[t].todo : s.session # NoSession
    <3>1. job[t].todo \in SUBSET Subscription
      BY <1>2, <1>4, JobKnown
    <3> QED BY <1>3, <3>1, RoutingAssumption DEF Idle, Subscription
  <2> QED BY <1>1, <1>2, <1>3, <1>4, <2>1 DEF Jobs, Busy, Known, OnePerSession
<1>15. Work'
  BY <1>1, <1>3, <1>4 DEF RoutingInv, Work, Busy, Thread
<1>16. NotYet'
  <2> SUFFICES ASSUME NEW u \in Worker, Busy(u)', NEW q \in Session,
                      \/ \E s \in job'[u].todo : s.session = q
                      \/ job'[u].at = q,
                      NEW k \in DOMAIN wire'[q], wire'[q][k].msg = job'[u].packet.msg
               PROVE  wire'[q][k].dup
    BY DEF NotYet
  <2>1. CASE u = t
    <3>1. /\ \E s \in job[t].todo : s.session = q
          /\ q # o
      BY <1>2, <1>3, <1>4, <2>1, RoutingAssumption DEF Jobs
    <3> QED BY <1>3, <1>4, <1>9, <2>1, <3>1 DEF RoutingInv, NotYet
  <2>2. CASE u # t
    <3>1. job'[u] = job[u] /\ Busy(u)
      BY <1>3, <2>2 DEF Busy, Thread
    <3>2. CASE k \in DOMAIN wire[q] /\ wire'[q][k] = wire[q][k]
      BY <3>1, <3>2 DEF RoutingInv, NotYet
    <3>3. CASE wire'[q][k] = p
      <4>1. t \notin Worker
        BY <1>4, <2>2, <3>1, <3>3 DEF RoutingInv, Work
      <4> QED BY <1>4, <3>3, <4>1 DEF Thread
    <3> QED BY <1>9, <3>2, <3>3
  <2> QED BY <2>1, <2>2
<1>17. \A q \in Session : \A m : Accounted(q, m) => Accounted(q, m)'
  BY <1>1, <1>8 DEF Reached, Accounted
<1>18. registered \subseteq Session
  BY <1>2 DEF TypeOK
<1>19. Kept'
  BY <1>1, <1>17, <1>18 DEF RoutingInv, Kept
<1>20. Served'
  <2>1. \A u \in Thread : /\ Busy(u)' => Busy(u)
                          /\ job'[u].packet = job[u].packet
                          /\ job'[u].todo = job[u].todo
                          /\ job[u].phase = "store" => job'[u] = job[u]
    BY <1>3, <1>4 DEF Busy
  <2>2. UNCHANGED <<pub, registered>>
    BY <1>1
  <2> SUFFICES ASSUME NEW u \in Worker, Busy(u), job[u].packet.qos > 0,
                      NEW m, m = job[u].packet.msg,
                      NEW r \in pub[m].matched \ job[u].todo, r.session \in registered
               PROVE  \/ Accounted(r.session, m)'
                      \/ job'[u].phase = "store" /\ job'[u].at = r.session
    BY <2>1, <2>2 DEF Served, Reached, Accounted, Thread
  <2>3. \/ Accounted(r.session, m)
        \/ job[u].phase = "store" /\ job[u].at = r.session
    BY DEF RoutingInv, Served
  <2> QED BY <1>17, <1>18, <2>1, <2>3 DEF Thread
<1>21. NeverRaised'
  <2>1. /\ p.qos =< pub[p.msg].qos
        /\ p.dup \/ \E s \in pub[p.msg].matched : s.session = o /\ p.qos =< s.qos
    <3>1. CASE t = Main
      BY <1>4, <3>1 DEF Known
    <3>2. CASE t \in Worker
      BY <1>2, <1>3, <1>4, <3>2 DEF RoutingInv, Work, Jobs, Known
    <3> QED BY <3>1, <3>2 DEF Thread
  <2> QED BY <1>1, <1>9, <2>1 DEF RoutingInv, NeverRaised
<1>22. OnceFresh'
  <2>1. ~p.dup => \A k \in DOMAIN wire[o] : wire[o][k].msg = p.msg => wire[o][k].dup
    BY <1>4 DEF RoutingInv, NotYet, Thread
  <2> QED BY <1>4, <1>9, <2>1 DEF RoutingInv, OnceFresh
<1> QED BY <1>10, <1>11, <1>12, <1>13, <1>14, <1>15, <1>16, <1>19, <1>20, <1>21, <1>22
        DEF RoutingInv

-----------------------------------------------------------------------------
(***************************************************************************)
(* The main thread begins and ends a retransmission.                       *)
(***************************************************************************)
LEMMA RetransmitKeeps ==
  ASSUME RoutingInv, NEW o \in Session, NEW p \in inflight[o], retransmit(p)
  PROVE  RoutingInv'
<1> DEFINE d == [p EXCEPT !.dup = TRUE]
<1>1. /\ UNCHANGED <<registered, gone, connected, session, changes, subscribers>>
      /\ UNCHANGED <<inflight, message_queue, next_packet_id, m_retransmitHeap>>
      /\ UNCHANGED <<wire, pub, allocs, raced, dropped>>
      /\ m_retransmitHeap # <<>> /\ Begin(Main, d) /\ retries' = retries + 1
      /\ job[Main] = Idle
  BY DEF retransmit, sessions, outbound, history, ids, Free
<1>2. /\ TypeOK /\ Jobs /\ Subscribers /\ Main \in Thread
      /\ \A t \in Worker : t \in Thread /\ t # Main
  BY RoutingAssumption DEF RoutingInv, Thread
<1>3. p \in Packet /\ Known(p)
  BY <1>2 DEF RoutingInv, Stores, TypeOK
<1>4. /\ d \in Packet /\ d.msg = p.msg /\ d.qos = p.qos /\ d.id = p.id /\ d.dup = TRUE
  BY <1>3 DEF Packet
<1> HIDE DEF d
<1>5. /\ job'[Main].phase = "route" /\ job'[Main].packet = d
      /\ job'[Main].todo = subscribers /\ job'[Main].at = NoSession
      /\ \A u \in Thread : u # Main => job'[u] = job[u]
      /\ job' \in [Thread -> Job]
  BY <1>1, <1>2, <1>4, BeginShape DEF Only
<1>6. TypeOK'
  BY <1>1, <1>2, <1>5 DEF TypeOK
<1>7. Subscribers' /\ Stores' /\ Counter' /\ HeapIds' /\ NeverRaised' /\ OnceFresh'
      /\ IdsDistinct' /\ Kept'
  BY <1>1 DEF RoutingInv, Subscribers, Stores, Counter, HeapIds, NeverRaised, OnceFresh,
              IdsDistinct, Known, Quiet, Kept, Reached, Accounted
<1>8. Retransmits'
  BY <1>1 DEF Retransmits
<1>9. Jobs'
  <2>1. /\ job'[Main] # Idle
        /\ OnePerSession(subscribers) /\ \A s \in subscribers : s.session # NoSession
    BY <1>2, <1>5, RoutingAssumption DEF Idle, Subscribers, Subscription, TypeOK
  <2>2. d.msg \in DOMAIN pub' /\ d.id = pub'[d.msg].id /\ d.qos =< pub'[d.msg].qos
    BY <1>1, <1>3, <1>4 DEF Known
  <2> QED BY <1>1, <1>2, <1>4, <1>5, <2>1, <2>2 DEF Jobs, Busy, Known, OnePerSession
<1>10. Work' /\ NotYet'
  BY <1>1, <1>2, <1>5 DEF RoutingInv, Work, NotYet, Busy
<1>11. Served'
  BY <1>1, <1>2, <1>5 DEF RoutingInv, Served, Reached, Accounted, Busy
<1> QED BY <1>6, <1>7, <1>8, <1>9, <1>10, <1>11 DEF RoutingInv

LEMMA PopKeeps ==
  ASSUME RoutingInv, pop
  PROVE  RoutingInv'
<1>1. /\ UNCHANGED <<registered, gone, connected, session, changes, subscribers>>
      /\ UNCHANGED <<inflight, message_queue, next_packet_id, retries>>
      /\ UNCHANGED <<wire, pub, allocs, raced, dropped>>
      /\ m_retransmitHeap' = Tail(m_retransmitHeap)
  BY DEF pop, sessions, history, ids
<1>2. /\ TypeOK /\ Jobs /\ Main \in Thread
      /\ \A t \in Worker : t \in Thread /\ t # Main
  BY RoutingAssumption DEF RoutingInv, Thread
<1>3. /\ job[Main].phase = "route" /\ job'[Main] = Idle /\ job'[Main].phase = "idle"
      /\ job'[Main].at = NoSession
      /\ \A u \in Thread : u # Main => job'[u] = job[u]
      /\ job' \in [Thread -> Job]
  BY <1>2, IdleShape DEF Only
<1>4. m_retransmitHeap \in Seq(Entry) /\ m_retransmitHeap # <<>>
  BY <1>2, <1>3 DEF RoutingInv, Retransmits, Busy, TypeOK
<1>5. /\ m_retransmitHeap' \in Seq(Entry)
      /\ \A k \in DOMAIN m_retransmitHeap' :
           k + 1 \in DOMAIN m_retransmitHeap /\ k \in Nat
           /\ m_retransmitHeap'[k] = m_retransmitHeap[k + 1]
  BY <1>1, <1>4
<1>6. TypeOK'
  BY <1>1, <1>2, <1>3, <1>5 DEF TypeOK
<1>7. Subscribers' /\ Stores' /\ Counter' /\ NeverRaised' /\ OnceFresh' /\ Kept'
  BY <1>1 DEF RoutingInv, Subscribers, Stores, Counter, NeverRaised, OnceFresh,
              Known, Quiet, Kept, Reached, Accounted
<1>8. HeapIds'
  BY <1>1, <1>5 DEF RoutingInv, HeapIds, Quiet
<1>9. IdsDistinct'
  BY <1>1, <1>5 DEF RoutingInv, IdsDistinct
<1>10. Retransmits'
  BY <1>3 DEF Retransmits, Busy
<1>11. Jobs'
  BY <1>1, <1>2, <1>3 DEF Jobs, Busy, Known, OnePerSession
<1>12. Work' /\ NotYet'
  BY <1>1, <1>2, <1>3 DEF RoutingInv, Work, NotYet, Busy
<1>13. Served'
  BY <1>1, <1>2, <1>3 DEF RoutingInv, Served, Reached, Accounted, Busy
<1> QED BY <1>6, <1>7, <1>8, <1>9, <1>10, <1>11, <1>12, <1>13 DEF RoutingInv

-----------------------------------------------------------------------------
(***************************************************************************)
(* The theorems.                                                           *)
(***************************************************************************)
LEMMA InitOK == Init => RoutingInv
<1> SUFFICES ASSUME Init PROVE RoutingInv
  OBVIOUS
<1>1. /\ registered = {} /\ gone = {} /\ subscribers = {} /\ pub = <<>>
      /\ connected = {} /\ session = {} /\ changes = 0 /\ retries = 0
      /\ inflight = [o \in Session |-> {}] /\ message_queue = [o \in Session |-> <<>>]
      /\ next_packet_id = [o \in Session |-> 1] /\ m_retransmitHeap = <<>>
      /\ job = [t \in Thread |-> Idle] /\ wire = [o \in Session |-> <<>>]
      /\ allocs = [o \in Session |-> 0] /\ raced = {} /\ dropped = {}
  BY DEF Init
<1>2. /\ \A t \in Thread : job[t] = Idle /\ job[t].phase = "idle"
                           /\ job[t].at = NoSession /\ ~Busy(t)
      /\ Idle \in Job
  BY <1>1 DEF Idle, Job, Busy
<1>3. /\ inflight \in [Session -> SUBSET Packet]
      /\ message_queue \in [Session -> Seq(Packet)] /\ wire \in [Session -> Seq(Packet)]
      /\ next_packet_id \in [Session -> PacketId] /\ allocs \in [Session -> Nat]
      /\ job \in [Thread -> Job]
  BY <1>1, <1>2, RoutingAssumption DEF PacketId
<1>4. pub \in Seq(Record) /\ Len(pub) =< MaxMessages /\ m_retransmitHeap \in Seq(Entry)
  BY <1>1, RoutingAssumption
<1>5. TypeOK
  BY <1>1, <1>3, <1>4 DEF TypeOK
<1>6. DOMAIN pub = {} /\ DOMAIN m_retransmitHeap = {} /\ \A o \in Session : DOMAIN wire[o] = {}
  BY <1>1
<1>7. Subscribers /\ Stores /\ Kept /\ NeverRaised /\ OnceFresh /\ HeapIds /\ IdsDistinct
  BY <1>1, <1>6 DEF Subscribers, OnePerSession, Stores, Kept, NeverRaised, OnceFresh,
                    HeapIds, IdsDistinct
<1>8. Jobs
  BY <1>2 DEF Jobs
<1>9. Work /\ NotYet /\ Served /\ Retransmits
  BY <1>2, RoutingAssumption DEF Work, NotYet, Served, Retransmits, Thread
<1>10. Counter
  BY <1>1, RoutingAssumption DEF Counter, Quiet
<1> QED BY <1>5, <1>7, <1>8, <1>9, <1>10 DEF RoutingInv

LEMMA StepOK == RoutingInv /\ [Next]_vars => RoutingInv'
<1> SUFFICES ASSUME RoutingInv, [Next]_vars PROVE RoutingInv'
  OBVIOUS
<1>1. CASE UNCHANGED vars
  <2>1. /\ UNCHANGED <<registered, gone, connected, session, changes, subscribers>>
        /\ UNCHANGED <<inflight, message_queue, next_packet_id, m_retransmitHeap>>
        /\ UNCHANGED <<retries, job, wire, pub, allocs, raced, dropped>>
    BY <1>1 DEF vars, sessions, outbound, history, ids
  <2>2. TypeOK' /\ Subscribers' /\ Stores' /\ Jobs'
    BY <2>1 DEF RoutingInv, TypeOK, Subscribers, Stores, Jobs, Known, Busy
  <2>3. Work' /\ NotYet' /\ Served' /\ Kept'
    BY <2>1 DEF RoutingInv, Work, NotYet, Served, Kept, Busy, Reached, Accounted
  <2>4. Counter' /\ HeapIds' /\ Retransmits'
    BY <2>1 DEF RoutingInv, Counter, HeapIds, Retransmits, Quiet, Busy
  <2>5. NeverRaised' /\ OnceFresh' /\ IdsDistinct'
    BY <2>1 DEF RoutingInv, NeverRaised, OnceFresh, IdsDistinct
  <2> QED BY <2>2, <2>3, <2>4, <2>5 DEF RoutingInv
<1>2. CASE Sessions
  <2>1. PICK o \in Session : \/ connect(o) \/ closeConnection(o)
                             \/ \E clean \in BOOLEAN : reconnect(o, clean) \/ expire(o, clean)
                             \/ \E q \in SubQoS : subscribe(o, q)
    BY <1>2 DEF Sessions
  <2>2. CASE \E q \in SubQoS : subscribe(o, q)
    BY <2>2, SubscribeKeeps
  <2>3. CASE \E clean \in BOOLEAN : \/ connect(o) \/ closeConnection(o)
                                    \/ reconnect(o, clean) \/ expire(o, clean)
    <3>1. TypeOK
      BY DEF RoutingInv
    <3>2. SessionStep
      BY <2>3, <3>1, SessionActions
    <3> QED BY <3>2, SessionKeeps
  <2> QED BY <2>1, <2>2, <2>3
<1>3. CASE \E t \in Worker, q \in PubQoS, i \in PubId : publish(t, q, i)
  BY <1>3, PublishKeeps
<1>4. CASE \E t \in Thread : Route(t)
  <2>1. PICK t \in Thread : \/ \E s \in job[t].todo : \/ Skip(t, s) \/ Offline(t, s)
                                                      \/ Online(t, s)
                            \/ storeInflight(t) \/ push(t)
    BY <1>4 DEF Route
  <2> QED BY <2>1, ServeKeeps, OnlineKeeps, StoreKeeps, PushKeeps
<1>5. CASE \E t \in Worker : Return(t)
  BY <1>5, ReturnKeeps
<1>6. CASE \E o \in Session : \E p \in inflight[o] : retransmit(p)
  BY <1>6, RetransmitKeeps
<1>7. CASE pop
  BY <1>7, PopKeeps
<1> QED BY <1>1, <1>2, <1>3, <1>4, <1>5, <1>6, <1>7 DEF Next

LEMMA RoutingInvariant == Spec => []RoutingInv
BY InitOK, StepOK, PTL DEF Spec

\* Type correctness: a packet that a thread, a map or the wire holds has an identifier
\* other than 0 and a level no higher than 2, and the counter is never 0.
THEOREM RoutingTypes == Spec => []TypeOK
<1>1. RoutingInv => TypeOK
  BY DEF RoutingInv
<1> QED BY <1>1, RoutingInvariant, PTL

\* routePacket loses nothing that it does not lower to QoS 0, however its calls and
\* the changes of sessions interleave.
THEOREM MessagesKept == Spec => []Kept
<1>1. RoutingInv => Kept
  BY DEF RoutingInv
<1> QED BY <1>1, RoutingInvariant, PTL

\* Lowering the packet in place never raises a level.
THEOREM LevelNeverRaised == Spec => []NeverRaised
<1>1. RoutingInv => NeverRaised
  BY DEF RoutingInv
<1> QED BY <1>1, RoutingInvariant, PTL

\* One copy of a message without DUP for each client.
THEOREM FreshOnce == Spec => []OnceFresh
<1>1. RoutingInv => OnceFresh
  BY DEF RoutingInv
<1> QED BY <1>1, RoutingInvariant, PTL

\* Identifiers on the heap differ until the counter has gone round, for every width
\* of the identifiers.
THEOREM IdentifiersDistinct == Spec => []IdsDistinct
<1>1. RoutingInv => IdsDistinct
  BY DEF RoutingInv
<1> QED BY <1>1, RoutingInvariant, PTL
=============================================================================
