------------------------------ MODULE Sessions ------------------------------
(***************************************************************************)
(* The session layer of the broker: the transports (MqttSession objects),  *)
(* the registry of ClientSession objects, the expiry heap and the main     *)
(* loop of Broker::run, with the handlers run by the worker pool.          *)
(*                                                                         *)
(* The main thread receives a packet and queues a task for the pool        *)
(* (SessionEvent); a worker takes it up later, so everything the main      *)
(* thread does in between (a hang-up, an expiry, another connection) can   *)
(* come first, and tasks of one transport can overtake each other.  A task *)
(* owns its transport: parseData uses shared_from_this().  connectHandler  *)
(* and the error path of parseData take one lock after another: each is a  *)
(* step, and other workers come between them.  What a handler does to      *)
(* messages is the business of other modules; here a handler is what it    *)
(* does to the sessions.                                                   *)
(*                                                                         *)
(* Objects are never reused, so a weak_ptr to a dead object stays dead:    *)
(* the n-th ClientSession made is n, the n-th transport opened is n, and   *)
(* nullptr is 0.  Time counts in the unit of GRACE.  The variable did       *)
(* remembers what happened to a client: no action depends on it, the       *)
(* properties do.                                                          *)
(***************************************************************************)
EXTENDS Integers

CONSTANTS
  Client,         \* client identifiers
  NoClient,       \* the empty client_id of a transport before its CONNECT
  KeepAlive,      \* the keep_alive values clients ask for
  CleanSession,   \* the CleanSession flags clients use
  Level,          \* the protocol levels clients announce
  Route,          \* packets whose handler only calls updateActivity
  Flow,           \* packets whose handler also dereferences the ClientSession
  Unsub,          \* UNSUBSCRIBE packets
  Bad,            \* packets that unpack refuses
  Oob,            \* PINGREQ, DISCONNECT: types past the end of unpack_handlers
  Task,           \* bound: the tasks queued or in progress at a time
  NoPacket,       \* the packet of a task that is not there
  GRACE,          \* time without traffic per keep_alive unit (1500 ms per s)
  MaxTransports,  \* bound: connections accepted
  MaxSessions,    \* bound: ClientSession objects made
  MaxTime         \* bound: clock

Transport == 1 .. MaxTransports
Session   == 1 .. MaxSessions
nullptr   == 0
Forever   == -1

Connect == [client_id : Client, keep_alive : KeepAlive,
            cleansession : CleanSession, level : Level]

Others == Route \cup Flow \cup Unsub \cup Bad \cup Oob

ASSUME ConstantsAssumption ==
  /\ NoClient \notin Client
  /\ KeepAlive \subseteq Nat
  /\ CleanSession \subseteq BOOLEAN
  /\ Level \subseteq Nat
  /\ GRACE \in Nat \ {0}
  /\ MaxTransports \in Nat /\ MaxSessions \in Nat /\ MaxTime \in Nat

ASSUME PacketsAssumption ==
  /\ NoPacket \notin Connect \cup Others
  /\ Connect \cap Others = {}
  /\ Route \cap (Flow \cup Unsub \cup Bad \cup Oob) = {}
  /\ Flow \cap (Unsub \cup Bad \cup Oob) = {}
  /\ Unsub \cap (Bad \cup Oob) = {}
  /\ Bad \cap Oob = {}

VARIABLES
  m_sessions,         \* transports the session manager holds
  m_sessionRegistry,  \* client_id -> ClientSession or nullptr
  m_expiryHeap,       \* ExpiryEntry records
  to_disconnect,      \* sessions processExpiredSessions found silent
  dropping,           \* the one of them it is disconnecting, or nullptr
  new_entries,        \* sessions it has to schedule again
  cs,                 \* the fields of each ClientSession
  client_id,          \* MqttSession::client_id of each transport
  task,               \* the tasks queued for the pool
  opened, made,       \* number of transports and ClientSessions so far
  now,                \* now_ms()
  loop,               \* where the main thread is in Broker::run
  wake,               \* when poll returns if nothing happens
  fault,              \* how the process died
  did                 \* history: what happened to each client

expiry == <<m_expiryHeap, to_disconnect, dropping, new_entries>>
numbers == <<opened, made>>

vars == <<m_sessions, m_sessionRegistry, expiry, cs, client_id, task, numbers,
          now, loop, wake, fault, did>>

ClientSession == [client_id : Client \cup {NoClient}, keep_alive : Nat,
                  cleansession : BOOLEAN, connected : BOOLEAN,
                  session : Transport \cup {nullptr}, last_activity : Nat]

ExpiryEntry == [expiry_ms : Nat, session : Session]

\* Where a worker is with a task: at the start of parseData, between two locks
\* of connectHandler, at the answer to a CONNECT, or in the error path
Stage == {"idle", "parse", "kick", "purge", "resume", "register", "schedule",
          "accept", "refuse", "erase", "drop"}

\* A task: stage, transport, packet, and the ClientSession cs points to
TaskState == [at : Stage, t : Transport \cup {0},
              p : Connect \cup Others \cup {NoPacket},
              o : Session \cup {nullptr}]

(***************************************************************************)
(* The history of a client: one of its CONNECTs asked for a clean session; *)
(* one looked the client up while another was between its look-up and its  *)
(* registration; one found a persistent session and resumed it; a session  *)
(* was erased from the registry by a thread that meant another one.        *)
(***************************************************************************)
Deed == {"clean", "raced", "resumed", "robbed"}

(***************************************************************************)
(* The type invariant.                                                     *)
(***************************************************************************)
TypeOK ==
  /\ m_sessions \subseteq Transport
  /\ m_sessionRegistry \in [Client -> Session \cup {nullptr}]
  /\ m_expiryHeap \subseteq ExpiryEntry
  /\ to_disconnect \subseteq Session /\ new_entries \subseteq Session
  /\ dropping \in Session \cup {nullptr}
  /\ cs \in [Session -> ClientSession]
  /\ client_id \in [Transport -> Client \cup {NoClient}]
  /\ task \in [Task -> TaskState]
  /\ opened \in 0 .. MaxTransports
  /\ made \in 0 .. MaxSessions
  /\ now \in Nat
  /\ loop \in {"top", "poll", "events", "expire", "apply", "spin"}
  /\ wake \in Nat \cup {Forever}
  /\ fault \in {"none", "null", "oob"}
  /\ did \in [Client -> SUBSET Deed]

-----------------------------------------------------------------------------
(***************************************************************************)
(* Helpers.                                                                *)
(***************************************************************************)

\* the process has not crashed
Up == fault = "none"

\* the task is queued or a worker is at it
Busy(k) == task[k].at # "idle"

\* weak_ptr<MqttSession>::lock() would succeed
Alive(t) == t \in Transport /\ (t \in m_sessions \/ \E k \in Task : Busy(k) /\ task[k].t = t)

\* the registry holds the ClientSession
Registered(o) == \E c \in Client : m_sessionRegistry[c] = o

\* weak_ptr<ClientSession>::lock() would succeed in processExpiredSessions
Held(o) == Registered(o) \/ \E k \in Task : task[k].o = o

\* sessionPresent(getClientId()) of a transport
Own(t) == IF client_id[t] = NoClient THEN nullptr
          ELSE m_sessionRegistry[client_id[t]]

Deadline(o) == cs[o].last_activity + cs[o].keep_alive * GRACE

\* Mutants of scheduleExpiry: the grace is taken off, or a unit too long, or
\* keep_alive 0 is scheduled like any other
scheduleExpiry_Minus(o, s) ==
  IF s.keep_alive = 0 THEN {}
  ELSE {[expiry_ms |-> s.last_activity - s.keep_alive * GRACE, session |-> o]}
scheduleExpiry_Late(o, s) ==
  IF s.keep_alive = 0 THEN {}
  ELSE {[expiry_ms |-> s.last_activity + (s.keep_alive + 1) * GRACE,
         session |-> o]}
scheduleExpiry_Zero(o, s) ==
  {[expiry_ms |-> s.last_activity + s.keep_alive * GRACE, session |-> o]}

\* the entries scheduleExpiry pushes for session o with fields s
scheduleExpiry(o, s) ==
  IF s.keep_alive = 0 THEN {}
  ELSE {[expiry_ms |-> s.last_activity + s.keep_alive * GRACE, session |-> o]}

\* Mutant of getNextTimeoutMs: the heap is not consulted
getNextTimeoutMs_Never == {Forever}

\* when poll is told to give up: at the top of the heap, or never
getNextTimeoutMs ==
  IF m_expiryHeap = {} THEN {Forever}
  ELSE LET tops == {e \in m_expiryHeap :
                      \A f \in m_expiryHeap : e.expiry_ms =< f.expiry_ms}
       IN  {IF e.expiry_ms =< now THEN now ELSE e.expiry_ms : e \in tops}

NewClientSession ==
  [client_id |-> NoClient, keep_alive |-> 0, cleansession |-> FALSE,
   connected |-> FALSE, session |-> nullptr, last_activity |-> 0]

Idle == [at |-> "idle", t |-> 0, p |-> NoPacket, o |-> nullptr]

Init ==
  /\ m_sessions = {}
  /\ m_sessionRegistry = [c \in Client |-> nullptr]
  /\ m_expiryHeap = {} /\ to_disconnect = {} /\ new_entries = {}
  /\ dropping = nullptr
  /\ cs = [o \in Session |-> NewClientSession]
  /\ client_id = [t \in Transport |-> NoClient]
  /\ task = [k \in Task |-> Idle]
  /\ opened = 0 /\ made = 0
  /\ now = 0
  /\ loop = "top" /\ wake = Forever
  /\ fault = "none"
  /\ did = [c \in Client |-> {}]

-----------------------------------------------------------------------------
(***************************************************************************)
(* The main thread: Broker::run.                                           *)
(***************************************************************************)

\* int timeout = getNextTimeoutMs(); m_datapoller.poll(timeout) blocks
EnterPoll ==
  /\ Up /\ loop = "top"
  /\ loop' = "poll"
  /\ wake' \in getNextTimeoutMs
  /\ UNCHANGED <<m_sessions, m_sessionRegistry, expiry, cs, client_id, task,
                 numbers, now, fault, did>>

\* poll returns no event once its timeout has passed
PollTimeout ==
  /\ Up /\ loop = "poll" /\ wake # Forever /\ wake =< now
  /\ loop' = "expire" /\ wake' = Forever
  /\ UNCHANGED <<m_sessions, m_sessionRegistry, expiry, cs, client_id, task,
                 numbers, now, fault, did>>

\* poll returned events, and the for loop handles one more of them
Event ==
  /\ Up /\ loop \in {"poll", "events"}
  /\ loop' = "events" /\ wake' = Forever

\* newConnection() -> addSession(fd)
addSession ==
  /\ Event
  /\ opened < MaxTransports
  /\ opened' = opened + 1
  /\ m_sessions' = m_sessions \cup {opened'}
  /\ UNCHANGED <<m_sessionRegistry, expiry, cs, client_id, task, made,
                 now, fault, did>>

\* closeConnection(fd) -> removeSession(fd): the peer hung up
closeConnection(t) ==
  /\ Event
  /\ t \in m_sessions
  /\ m_sessions' = m_sessions \ {t}
  /\ UNCHANGED <<m_sessionRegistry, expiry, cs, client_id, task, numbers,
                 now, fault, did>>

\* SessionEvent(fd): the bytes of packet p are read and a task is queued,
\* whatever the client sent before and whatever still waits for a worker
SessionEvent(t, p, k) ==
  /\ Event
  /\ t \in m_sessions /\ ~Busy(k)
  /\ task' = [task EXCEPT ![k] =
                [at |-> "parse", t |-> t, p |-> p, o |-> nullptr]]
  /\ UNCHANGED <<m_sessions, m_sessionRegistry, expiry, cs, client_id,
                 numbers, now, fault, did>>

EndEvents ==
  /\ Up /\ loop = "events"
  /\ loop' = "expire"
  /\ UNCHANGED <<m_sessions, m_sessionRegistry, expiry, cs, client_id, task,
                 numbers, now, wake, fault, did>>

Due == {e \in m_expiryHeap : e.expiry_ms =< now}

\* A due entry whose ClientSession is gone is never popped, so the loop under
\* m_expiryMutex does not end; what it popped before is behind the mutex.
ExpirySpin ==
  /\ Up /\ loop = "expire"
  /\ \E e \in Due : ~Held(e.session)
  /\ loop' = "spin"
  /\ UNCHANGED <<m_sessions, m_sessionRegistry, expiry, cs, client_id, task,
                 numbers, now, wake, fault, did>>

\* Mutant of collectExpired: an entry whose session is still active stays
collectExpired_NoPop ==
  /\ Up /\ loop = "expire"
  /\ \A e \in Due : Held(e.session)
  /\ loop' = "apply"
  /\ m_expiryHeap' = {e \in m_expiryHeap : e \in Due => Deadline(e.session) > now}
  /\ LET due == {e.session : e \in Due}
     IN  /\ new_entries' = {o \in due : Deadline(o) > now}
         /\ to_disconnect' = {o \in due : Deadline(o) =< now /\ cs[o].connected}
  /\ UNCHANGED <<m_sessions, m_sessionRegistry, dropping, cs, client_id, task,
                 numbers, now, wake, fault, did>>

\* processExpiredSessions(), under m_expiryMutex: pop the due entries and sort
\* their sessions into those still active and those silent for too long
collectExpired ==
  /\ Up /\ loop = "expire"
  /\ \A e \in Due : Held(e.session)
  /\ loop' = "apply"
  /\ m_expiryHeap' = m_expiryHeap \ Due
  /\ LET due == {e.session : e \in Due}
     IN  /\ new_entries' = {o \in due : Deadline(o) > now}
         /\ to_disconnect' = {o \in due : Deadline(o) =< now /\ cs[o].connected}
  /\ UNCHANGED <<m_sessions, m_sessionRegistry, dropping, cs, client_id, task,
                 numbers, now, wake, fault, did>>

\* for (auto& session : to_disconnect): if its transport is still there,
\* transport->forceDisconnect()
disconnectExpired(o) ==
  /\ Up /\ loop = "apply" /\ dropping = nullptr
  /\ o \in to_disconnect
  /\ to_disconnect' = to_disconnect \ {o}
  /\ \/ /\ Alive(cs[o].session)
        /\ m_sessions' = m_sessions \ {cs[o].session}
        /\ dropping' = o
     \/ /\ ~Alive(cs[o].session)
        /\ UNCHANGED <<m_sessions, dropping>>
  /\ UNCHANGED <<m_sessionRegistry, m_expiryHeap, new_entries, cs, client_id,
                 task, numbers, now, loop, wake, fault, did>>

\* Mutant of ToErase: persistent sessions are erased too
ToErase_All(o) == TRUE

\* processExpiredSessions erases the session it has just disconnected
ToErase(o) == cs[o].cleansession

\* then removeFromRegistry(session->client_id), whatever is registered there by
\* now, or session->connected = false
eraseExpired ==
  /\ Up /\ loop = "apply" /\ dropping # nullptr
  /\ dropping' = nullptr
  /\ LET c == cs[dropping].client_id
     IN \/ /\ ToErase(dropping)
           /\ m_sessionRegistry' = [m_sessionRegistry EXCEPT ![c] = nullptr]
           /\ did' = [did EXCEPT ![c] =
                        @ \cup IF m_sessionRegistry[c] = dropping THEN {}
                             ELSE {"robbed"}]
           /\ cs' = cs
        \/ /\ ~ToErase(dropping)
           /\ cs' = [cs EXCEPT ![dropping].connected = FALSE]
           /\ UNCHANGED <<m_sessionRegistry, did>>
  /\ UNCHANGED <<m_sessions, m_expiryHeap, to_disconnect, new_entries,
                 client_id, task, numbers, now, loop, wake, fault>>

\* for (auto& cs : new_entries) scheduleExpiry(cs)
reschedule(o) ==
  /\ Up /\ loop = "apply" /\ to_disconnect = {} /\ dropping = nullptr
  /\ o \in new_entries
  /\ new_entries' = new_entries \ {o}
  /\ m_expiryHeap' = m_expiryHeap \cup scheduleExpiry(o, cs[o])
  /\ UNCHANGED <<m_sessions, m_sessionRegistry, to_disconnect, dropping, cs,
                 client_id, task, numbers, now, loop, wake, fault, did>>

\* and processRetransmissions(): what it sends leaves the sessions as they are
EndExpired ==
  /\ Up /\ loop = "apply"
  /\ to_disconnect = {} /\ dropping = nullptr /\ new_entries = {}
  /\ loop' = "top"
  /\ UNCHANGED <<m_sessions, m_sessionRegistry, expiry, cs, client_id, task,
                 numbers, now, wake, fault, did>>

-----------------------------------------------------------------------------
(***************************************************************************)
(* The workers: parseData and connectHandler.                              *)
(***************************************************************************)

\* the worker is at a stage of task k, and the broker has not crashed
At(k, stage) == Up /\ task[k].at = stage

\* the worker goes on to a stage, its cs pointing to o
Go(k, stage, o) == task' = [task EXCEPT ![k].at = stage, ![k].o = o]

\* the task is over
Done(k) == task' = [task EXCEPT ![k] = Idle]

\* The answer to a CONNECT whose session is not to be registered: level 4 of
\* the protocol is accepted
Answer(p) == IF p.level = 4 THEN "accept" ELSE "refuse"

\* The same for a session that connectHandler has made itself
Register(p) == IF p.level = 4 THEN "register" ELSE "refuse"

\* a task is between the look-up of client c and the registration
Inside(j, c) ==
  /\ task[j].at \in {"kick", "purge", "resume", "register"}
  /\ task[j].p.client_id = c

\* cs = session_manager.sessionPresent(cn_pkt.client_id)
lookup(k) ==
  /\ At(k, "parse") /\ task[k].p \in Connect
  /\ LET p == task[k].p
         c == p.client_id
         o == m_sessionRegistry[c]
     IN  /\ Go(k, IF o # nullptr THEN "kick" ELSE Register(p), o)
         /\ did' = [did EXCEPT ![c] =
                      @ \cup (IF p.cleansession THEN {"clean"} ELSE {})
                        \cup (IF \E j \in Task : Inside(j, c) THEN {"raced"}
                              ELSE {})]
  /\ UNCHANGED <<m_sessions, m_sessionRegistry, expiry, cs, client_id,
                 numbers, now, loop, wake, fault>>

\* Mutant of Kicked: the old transport is left alone
Kicked_None(o) == {}

\* The transports connectHandler disconnects for the session it found
Kicked(o) == IF cs[o].connected THEN {cs[o].session} ELSE {}

\* if (cs->connected) { old_session->forceDisconnect(); cs->connected = false; }
kick(k) ==
  /\ At(k, "kick")
  /\ LET o == task[k].o
     IN  /\ m_sessions' = m_sessions \ Kicked(o)
         /\ cs' = [cs EXCEPT ![o].connected = FALSE]
         /\ Go(k, IF task[k].p.cleansession THEN "purge" ELSE "resume", o)
  /\ UNCHANGED <<m_sessionRegistry, expiry, client_id, numbers, now, loop,
                 wake, fault, did>>

\* cleansession: removeFromRegistry(cn_pkt.client_id), and cs is a new object
purge(k) ==
  /\ At(k, "purge")
  /\ m_sessionRegistry' = [m_sessionRegistry EXCEPT ![task[k].p.client_id] = nullptr]
  /\ Go(k, Register(task[k].p), nullptr)
  /\ UNCHANGED <<m_sessions, expiry, cs, client_id, numbers, now, loop, wake,
                 fault, did>>

\* The fields connectHandler leaves in a session it keeps: nothing sets
\* connected, session or last_activity again.
Resumed(s, p) ==
  [client_id |-> s.client_id, keep_alive |-> p.keep_alive,
   cleansession |-> p.cleansession, connected |-> s.connected /\ p.level = 4,
   session |-> s.session, last_activity |-> s.last_activity]

\* the session found is kept
resume(k) ==
  /\ At(k, "resume")
  /\ LET p == task[k].p
         o == task[k].o
     IN  /\ cs' = [cs EXCEPT ![o] = Resumed(@, p)]
         /\ Go(k, Answer(p), nullptr)
         /\ did' = [did EXCEPT ![p.client_id] = @ \cup {"resumed"}]
  /\ UNCHANGED <<m_sessions, m_sessionRegistry, expiry, client_id, numbers,
                 now, loop, wake, fault>>

\* addToRegistry(cs) of the new session; a session that is there dies
register(k) ==
  /\ At(k, "register")
  /\ made < MaxSessions
  /\ LET p == task[k].p
         n == made + 1
     IN  /\ made' = n
         /\ cs' = [cs EXCEPT ![n] =
                     [client_id |-> p.client_id, keep_alive |-> p.keep_alive,
                      cleansession |-> p.cleansession, connected |-> TRUE,
                      session |-> task[k].t, last_activity |-> now]]
         /\ m_sessionRegistry' = [m_sessionRegistry EXCEPT ![p.client_id] = n]
         /\ Go(k, "schedule", n)
  /\ UNCHANGED <<m_sessions, expiry, client_id, opened, now, loop,
                 wake, fault, did>>

\* scheduleExpiry(cs): it waits for m_expiryMutex unless keep_alive is 0
schedule(k) ==
  /\ At(k, "schedule")
  /\ LET o == task[k].o
     IN  /\ cs[o].keep_alive # 0 => loop # "spin"
         /\ m_expiryHeap' = m_expiryHeap \cup scheduleExpiry(o, cs[o])
  /\ Go(k, "accept", nullptr)
  /\ UNCHANGED <<m_sessions, m_sessionRegistry, to_disconnect, dropping,
                 new_entries, cs, client_id, numbers, now, loop, wake, fault,
                 did>>

\* parseData after MQTT_CONNECTION_ACCEPTED: client_id = cn.client_id
accept(k) ==
  /\ At(k, "accept")
  /\ client_id' = [client_id EXCEPT ![task[k].t] = task[k].p.client_id]
  /\ Done(k)
  /\ UNCHANGED <<m_sessions, m_sessionRegistry, expiry, cs, numbers, now, loop,
                 wake, fault, did>>

\* parseData after MQTT_UNACCEPTABLE_PROTOCOL_VERSION, and after an error once
\* a clean session is erased: forceDisconnect() of the transport itself
forceDisconnect(k) ==
  /\ Up /\ task[k].at \in {"refuse", "drop"}
  /\ m_sessions' = m_sessions \ {task[k].t}
  /\ Done(k)
  /\ UNCHANGED <<m_sessionRegistry, expiry, cs, client_id, numbers, now, loop,
                 wake, fault, did>>

-----------------------------------------------------------------------------
(***************************************************************************)
(* The workers: the other handlers.                                        *)
(***************************************************************************)

updateActivity(t) ==
  cs' = IF Own(t) = nullptr THEN cs
        ELSE [cs EXCEPT ![Own(t)].last_activity = now]

\* publishHandler at QoS 0 and 1, subscribeHandler
HandleRoute(k) ==
  /\ At(k, "parse") /\ task[k].p \in Route
  /\ updateActivity(task[k].t)
  /\ Done(k)
  /\ UNCHANGED <<m_sessions, m_sessionRegistry, expiry, client_id, numbers,
                 now, loop, wake, fault, did>>

\* publishHandler at QoS 2, pubackHandler, pubrecHandler, pubrelHandler,
\* pubcompHandler: they use the ClientSession they look up without a test
HandleFlow(k) ==
  /\ At(k, "parse") /\ task[k].p \in Flow
  /\ updateActivity(task[k].t)
  /\ fault' = IF Own(task[k].t) = nullptr THEN "null" ELSE fault
  /\ Done(k)
  /\ UNCHANGED <<m_sessions, m_sessionRegistry, expiry, client_id, numbers,
                 now, loop, wake, did>>

\* unsubscribeHandler tests for the wrong alternative and returns
HandleUnsub(k) ==
  /\ At(k, "parse") /\ task[k].p \in Unsub
  /\ Done(k)
  /\ UNCHANGED <<m_sessions, m_sessionRegistry, expiry, cs, client_id,
                 numbers, now, loop, wake, fault, did>>

\* Mutant of ErasesSession: persistent sessions are erased too
ErasesSession_All(o) == TRUE

\* the error path of parseData takes the client out of the registry
ErasesSession(o) == cs[o].cleansession

\* parseData after unpack failed: sessionPresent(getClientId()), and
\* cs->cleansession without a test for null
ParseError(k) ==
  LET o == Own(task[k].t)
  IN \/ /\ o = nullptr
        /\ fault' = "null"
        /\ Done(k)
     \/ /\ o # nullptr
        /\ Go(k, IF ErasesSession(o) THEN "erase" ELSE "drop", o)
        /\ fault' = fault

HandleBad(k) ==
  /\ At(k, "parse") /\ task[k].p \in Bad
  /\ ParseError(k)
  /\ UNCHANGED <<m_sessions, m_sessionRegistry, expiry, cs, client_id,
                 numbers, now, loop, wake, did>>

\* unpack reads past unpack_handlers: the sanitizer (or a wild call) ends the
\* process, or the bytes there look like an empty handler
HandleOob(k) ==
  /\ At(k, "parse") /\ task[k].p \in Oob
  /\ \/ ParseError(k)
     \/ fault' = "oob" /\ Done(k)
  /\ UNCHANGED <<m_sessions, m_sessionRegistry, expiry, cs, client_id,
                 numbers, now, loop, wake, did>>

\* removeFromRegistry(getClientId()), whatever is registered there by now
erase(k) ==
  /\ At(k, "erase")
  /\ LET t == task[k].t
         o == task[k].o
         c == client_id[t]
     IN  /\ m_sessionRegistry' = [m_sessionRegistry EXCEPT ![c] = nullptr]
         /\ did' = [did EXCEPT ![c] =
                      @ \cup IF m_sessionRegistry[c] = o /\ cs[o].session = t
                           THEN {} ELSE {"robbed"}]
         /\ Go(k, "drop", o)
  /\ UNCHANGED <<m_sessions, expiry, cs, client_id, numbers, now, loop, wake,
                 fault>>

-----------------------------------------------------------------------------
Tick ==
  /\ Up /\ now < MaxTime
  /\ now' = now + 1
  /\ UNCHANGED <<m_sessions, m_sessionRegistry, expiry, cs, client_id, task,
                 numbers, loop, wake, fault, did>>

Main == \/ EnterPoll \/ PollTimeout \/ EndEvents
        \/ ExpirySpin \/ collectExpired
        \/ \E o \in Session : disconnectExpired(o) \/ reschedule(o)
        \/ eraseExpired \/ EndExpired

Environment == \/ addSession
               \/ \E t \in Transport : closeConnection(t)
               \/ \E t \in Transport, p \in Connect \cup Others, k \in Task :
                    SessionEvent(t, p, k)
               \/ Tick

Worker(k) == \/ lookup(k) \/ kick(k) \/ purge(k) \/ resume(k)
             \/ register(k) \/ schedule(k) \/ accept(k)
             \/ HandleRoute(k) \/ HandleFlow(k) \/ HandleUnsub(k)
             \/ HandleBad(k) \/ HandleOob(k) \/ erase(k)
             \/ forceDisconnect(k)

Next == Main \/ Environment \/ \E k \in Task : Worker(k)

Spec == Init /\ [][Next]_vars

(***************************************************************************)
(* The scheduler runs the main thread and every worker that can take a     *)
(* step, and time passes; clients need not do anything.                    *)
(***************************************************************************)
Fairness == /\ WF_vars(Main)
            /\ \A k \in Task : WF_vars(Worker(k))
            /\ WF_vars(Tick)

FairSpec == Spec /\ Fairness

-----------------------------------------------------------------------------
(***************************************************************************)
(* Safety.                                                                 *)
(***************************************************************************)

\* A ClientSession is in the expiry heap at most once, and not while
\* processExpiredSessions has it aside to schedule it again: the heap does not
\* grow with traffic, and no session is judged twice.
ExpiryUnique ==
  /\ \A e, f \in m_expiryHeap : e.session = f.session => e = f
  /\ \A e \in m_expiryHeap : e.session \notin new_entries

\* A connected client that asked for a keep-alive is watched: the heap has an
\* entry that falls due no later than its deadline, or processExpiredSessions
\* has the session aside, or a worker is about to push its first entry.
Watchable(o) ==
  /\ Registered(o) /\ cs[o].connected /\ cs[o].keep_alive # 0
  /\ Alive(cs[o].session)

Monitored ==
  \A o \in Session : Watchable(o) =>
    \/ o \in new_entries \cup to_disconnect \cup {dropping}
    \/ \E k \in Task : task[k].at = "schedule" /\ task[k].o = o
    \/ \E e \in m_expiryHeap : e.session = o /\ e.expiry_ms =< Deadline(o)

\* keep_alive 0 turns the mechanism off: processExpiredSessions never decides
\* to disconnect a connected client that asked for no keep-alive, whatever its
\* earlier sessions asked for.
ZeroNeverExpires ==
  \A o \in Session : cs[o].connected /\ cs[o].keep_alive = 0 =>
    /\ o \notin to_disconnect
    /\ \A e \in m_expiryHeap : e.session # o

\* none of these things happened to client c
Clear(c, deeds) == did[c] \cap deeds = {}

\* A handler follows a null pointer only for a transport whose CONNECT has not
\* been answered, or for a client that used clean sessions: the session of a
\* client with persistent sessions is there for every packet after CONNACK,
\* whatever hang-ups, expiries and concurrent CONNECTs there are, unless another
\* thread erased it by mistake.
NullOnlyKnown ==
  [][fault # "null" /\ fault' = "null" =>
       \E k \in Task :
         /\ Busy(k) /\ task'[k] = Idle
         /\ \/ client_id[task[k].t] = NoClient
            \/ ~Clear(client_id[task[k].t], {"clean", "robbed"})]_vars

\* No entry of the expiry heap outlives its session, so processExpiredSessions
\* comes to an end, unless the client used a clean session, two of its CONNECTs
\* overlapped or another thread erased its session by mistake.
EntriesLive ==
  \A e \in m_expiryHeap :
    Clear(cs[e.session].client_id, {"clean", "raced", "robbed"}) =>
      Registered(e.session)

\* processExpiredSessions comes to an end.
NoSpin == loop # "spin"

\* The registry leads to the transport of a connected client, so that the next
\* CONNECT with its client_id disconnects that transport.
OneTransportPerClient ==
  \A t \in m_sessions : client_id[t] # NoClient =>
    /\ Own(t) # nullptr
    /\ cs[Own(t)].session = t

\* This holds of every client none of whose CONNECTs overlapped or resumed a
\* session and whose entry no other thread erased by mistake, for each of its
\* transports that is not in the error path: clean sessions, expiries, refused
\* CONNECTs, undecodable packets and second CONNECTs included.
OneTransport ==
  \A t \in m_sessions :
    /\ client_id[t] # NoClient
    /\ Clear(client_id[t], {"raced", "resumed", "robbed"})
    /\ ~\E k \in Task : task[k].t = t /\ task[k].at = "drop"
    => Own(t) # nullptr /\ cs[Own(t)].session = t

\* A client that never asks for a clean session, whose CONNECTs do not overlap
\* and whose entry no other thread erased by mistake keeps its ClientSession,
\* with what it holds, across hang-ups, expiries, undecodable packets and
\* refused or accepted CONNECTs.
SessionKept ==
  [][\A c \in Client :
       /\ m_sessionRegistry[c] # nullptr
       /\ did'[c] \cap {"clean", "raced", "robbed"} = {}
       => m_sessionRegistry'[c] = m_sessionRegistry[c]]_vars

-----------------------------------------------------------------------------
(***************************************************************************)
(* What these rest on.  First the objects and tasks (Shape), and on top of *)
(* it the expiry bookkeeping (WatchInv): both are inductive.               *)
(***************************************************************************)

\* Numbers of transports and sessions are given out once.
Fresh ==
  /\ \A t \in Transport : t \in m_sessions \/ client_id[t] # NoClient => t =< opened
  /\ \A o \in Session : cs[o].session =< opened /\ (cs[o].connected => o =< made)
  /\ \A c \in Client : m_sessionRegistry[c] =< made
  /\ \A o \in to_disconnect \cup new_entries \cup {dropping} : o =< made
  /\ \A e \in m_expiryHeap : e.session =< made
  /\ \A k \in Task : task[k].t =< opened /\ task[k].o =< made

\* The registry files a session under its own client_id.
RegistryKeyed ==
  \A c \in Client : m_sessionRegistry[c] # nullptr =>
    cs[m_sessionRegistry[c]].client_id = c

\* The object of a session has its client_id once it is made.
Named == \A o \in Session : o =< made => cs[o].client_id \in Client

\* What a task at each stage has in hand.
Connecting == {"kick", "purge", "resume", "register", "schedule", "accept", "refuse"}

TaskFine(k) ==
  /\ Busy(k) => task[k].t # nullptr
  /\ task[k].at \in Connecting => task[k].p \in Connect
  /\ task[k].at \in {"kick", "purge", "resume", "schedule"} =>
       /\ task[k].o # nullptr
       /\ cs[task[k].o].client_id = task[k].p.client_id
  /\ task[k].at \in {"purge", "resume"} => ~cs[task[k].o].connected
  /\ task[k].at = "purge" => task[k].p.cleansession
  /\ task[k].at \in {"erase", "drop"} =>
       task[k].o # nullptr /\ client_id[task[k].t] # NoClient

TaskOK == \A k \in Task : TaskFine(k)

\* No activity lies in the future.
ActivityPast == \A o \in Session : cs[o].last_activity =< now

\* processExpiredSessions has sessions aside only between its two halves.
AsideOnlyInApply ==
  loop # "apply" => to_disconnect = {} /\ new_entries = {} /\ dropping = nullptr

\* The entry of a connected session is not later than its deadline.
NotLate ==
  \A e \in m_expiryHeap : cs[e.session].connected =>
    e.expiry_ms =< Deadline(e.session)

\* A session whose first entry is not pushed yet is with one worker only, and
\* neither on the heap nor aside.
Unscheduled ==
  \A k \in Task : task[k].at = "schedule" =>
    /\ \A e \in m_expiryHeap : e.session # task[k].o
    /\ task[k].o \notin to_disconnect \cup new_entries \cup {dropping}
    /\ \A j \in Task \ {k} : task[j].at = "schedule" => task[j].o # task[k].o

Shape == TypeOK /\ TaskOK /\ Fresh /\ Named /\ RegistryKeyed

WatchInv ==
  /\ ActivityPast /\ AsideOnlyInApply /\ ExpiryUnique /\ NotLate
  /\ Unscheduled /\ ZeroNeverExpires /\ Monitored

(***************************************************************************)
(* Then the history: KnownInv and ClaimInv are inductive on top of Shape.  *)
(***************************************************************************)

\* Who has a clean session, or is about to erase one, asked for one.
CleanKnown ==
  /\ \A o \in Session : o =< made /\ cs[o].cleansession =>
       "clean" \in did[cs[o].client_id]
  /\ \A k \in Task :
       /\ task[k].at \in Connecting /\ task[k].p.cleansession =>
            "clean" \in did[task[k].p.client_id]
       /\ task[k].at = "erase" => "clean" \in did[cs[task[k].o].client_id]

\* Only one CONNECT at a time is between look-up and registration.
OneInside ==
  \A c \in Client, j, k \in Task :
    Clear(c, {"raced"}) /\ Inside(j, c) /\ Inside(k, c) => j = k

\* So the client whose new session is about to be registered has none.
RegisterFree ==
  \A k \in Task :
    task[k].at = "register" /\ Clear(task[k].p.client_id, {"clean", "raced"}) =>
      m_sessionRegistry[task[k].p.client_id] = nullptr

\* A session once found, registered or acknowledged stays in the registry.
Found ==
  \A c \in Client :
    /\ Clear(c, {"clean", "robbed"})
    /\ \/ \E t \in Transport : client_id[t] = c
       \/ \E k \in Task : /\ task[k].at \in {"kick", "resume", "schedule", "accept"}
                          /\ task[k].p.client_id = c
    => m_sessionRegistry[c] # nullptr

\* Every session made for an undisturbed client is the registered one.
AllRegistered ==
  \A o \in Session :
    o =< made /\ Clear(cs[o].client_id, {"clean", "raced", "robbed"}) =>
      m_sessionRegistry[cs[o].client_id] = o

KnownInv == /\ CleanKnown /\ OneInside /\ RegisterFree
            /\ Found /\ AllRegistered

Smooth(c) == Clear(c, {"raced", "resumed", "robbed"})

\* Transport t is, or is about to be, the connection of client c.
Claims(t, c) ==
  /\ t \in m_sessions
  /\ ~\E k \in Task : task[k].t = t /\ task[k].at = "drop"
  /\ \/ client_id[t] = c
     \/ \E k \in Task : /\ task[k].t = t /\ task[k].at \in {"schedule", "accept"}
                        /\ task[k].p.client_id = c

\* Its connected session is registered.
OneClaim ==
  \A t \in Transport, c \in Client : Claims(t, c) /\ Smooth(c) =>
    /\ m_sessionRegistry[c] # nullptr
    /\ cs[m_sessionRegistry[c]].session = t
    /\ cs[m_sessionRegistry[c]].connected

\* A CONNECT that found a session to kick finds it registered, or erased.
KickCurrent ==
  \A k \in Task :
    task[k].at = "kick" /\ Clear(task[k].p.client_id, {"raced"}) =>
      m_sessionRegistry[task[k].p.client_id] \in {task[k].o, nullptr}

\* Before the new session is registered no transport is left to the client.
Cleared ==
  \A k \in Task, t \in Transport :
    task[k].at \in {"purge", "register"} /\ Smooth(task[k].p.client_id) =>
      ~Claims(t, task[k].p.client_id)

\* The transport of the session being expired is gone.
Dropped == dropping # nullptr => cs[dropping].session \notin m_sessions

ClaimInv == OneClaim /\ KickCurrent /\ Cleared /\ Dropped

-----------------------------------------------------------------------------
(***************************************************************************)
(* Liveness, under FairSpec.                                               *)
(***************************************************************************)

\* The session is watched and its deadline lies within the bounded clock
Running(o) == Watchable(o) /\ Deadline(o) =< MaxTime /\ Up

Scheduled(o) == \E e \in m_expiryHeap : e.session = o

\* Once the main loop has gone round with a session on the heap, a client that
\* the broker counts as connected and that stays silent is disconnected, unless
\* the main loop hangs on a dead entry.  (A client whose CONNECT resumed its
\* session does not count as connected and is never disconnected.)
KeepAliveEnforced ==
  \A o \in Session :
    (Running(o) /\ Scheduled(o) /\ loop = "top") ~> (~Running(o) \/ loop = "spin")

\* The same without "once the main loop has gone round": every client that
\* stays silent is disconnected.
SilentDisconnected ==
  \A o \in Session : Running(o) ~> ~Running(o)
=============================================================================
