--------------------------- MODULE SessionsProofs ---------------------------
(***************************************************************************)
(* Proofs about Sessions for every set of clients, keep-alives, packets    *)
(* and tasks and every bound.                                              *)
(***************************************************************************)
EXTENDS Sessions, TLAPS

\* A keep-alive is a length of time.
LEMMA GraceNat == \A k \in Nat : k * GRACE \in Nat
  BY ConstantsAssumption, SMT

\* What scheduleExpiry pushes is an entry of its session, if anything.
LEMMA ScheduleType ==
  ASSUME NEW o \in Session, NEW s \in ClientSession
  PROVE  /\ scheduleExpiry(o, s) \subseteq ExpiryEntry
         /\ \A e \in scheduleExpiry(o, s) :
              /\ e.session = o
              /\ e.expiry_ms = s.last_activity + s.keep_alive * GRACE
              /\ s.keep_alive # 0
         /\ s.keep_alive # 0 => scheduleExpiry(o, s) # {}
         /\ \A e, f \in scheduleExpiry(o, s) : e = f
<1>1. s.keep_alive \in Nat /\ s.last_activity \in Nat
  BY DEF ClientSession
<1>2. s.last_activity + s.keep_alive * GRACE \in Nat
  BY <1>1, GraceNat
<1>3. CASE s.keep_alive = 0
  BY <1>3 DEF scheduleExpiry
<1>4. CASE s.keep_alive # 0
  <2> DEFINE e == [expiry_ms |-> s.last_activity + s.keep_alive * GRACE,
                   session |-> o]
  <2>1. scheduleExpiry(o, s) = {e}
    BY <1>4 DEF scheduleExpiry
  <2>2. e \in ExpiryEntry
    BY <1>2 DEF ExpiryEntry
  <2> QED
    BY <1>4, <2>1, <2>2
<1> QED
  BY <1>3, <1>4

\* getNextTimeoutMs yields times or Forever.
LEMMA TimeoutType ==
  ASSUME TypeOK
  PROVE  getNextTimeoutMs \subseteq Nat \cup {Forever}
  BY DEF TypeOK, getNextTimeoutMs, ExpiryEntry

\* A task that goes on keeps its transport and packet, and the others theirs.
LEMMA GoType ==
  ASSUME TypeOK, NEW k \in Task, NEW stage \in Stage,
         NEW o \in Session \cup {nullptr}, Go(k, stage, o)
  PROVE  /\ task' \in [Task -> TaskState]
         /\ task'[k].at = stage /\ task'[k].o = o
         /\ task'[k].t = task[k].t /\ task'[k].p = task[k].p
         /\ \A j \in Task : j # k => task'[j] = task[j]
<1>1. task[k] \in TaskState
  BY DEF TypeOK
<1>2. task'[k] = [at |-> stage, t |-> task[k].t, p |-> task[k].p, o |-> o]
  BY <1>1 DEF Go, TypeOK, TaskState
<1> QED
  BY <1>1, <1>2 DEF Go, TypeOK, TaskState

\* A task that is over leaves the others alone.
LEMMA DoneType ==
  ASSUME TypeOK, NEW k \in Task, Done(k)
  PROVE  /\ task' \in [Task -> TaskState]
         /\ task'[k] = Idle /\ task'[k].at = "idle" /\ ~Busy(k)'
         /\ task'[k].t = 0 /\ task'[k].o = nullptr
         /\ \A j \in Task : j # k => task'[j] = task[j]
  BY DEF Done, TypeOK, TaskState, Stage, Idle, nullptr, Busy

\* The fields of a CONNECT.
LEMMA ConnectFields ==
  ASSUME NEW p \in Connect
  PROVE  /\ p.client_id \in Client /\ p.client_id # NoClient
         /\ p.keep_alive \in Nat /\ p.cleansession \in BOOLEAN
  BY ConstantsAssumption DEF Connect

-----------------------------------------------------------------------------
(***************************************************************************)
(* Type correctness.                                                       *)
(***************************************************************************)

\* The error path of parseData goes on or ends the task.
LEMMA ParseErrorType ==
  ASSUME TypeOK, NEW k \in Task, ParseError(k), task[k].t \in Transport
  PROVE  task' \in [Task -> TaskState] /\ fault' \in {"none", "null", "oob"}
<1> DEFINE o == Own(task[k].t)
<1>1. o \in Session \cup {nullptr}
  BY DEF Own, TypeOK
<1>2. CASE o = nullptr /\ Done(k) /\ fault' = "null"
  BY <1>2, DoneType
<1>3. CASE o # nullptr /\ Go(k, IF ErasesSession(o) THEN "erase" ELSE "drop", o) /\ fault' = fault
  <2>1. (IF ErasesSession(o) THEN "erase" ELSE "drop") \in Stage
    BY DEF Stage
  <2> HIDE DEF o
  <2> QED
    BY <1>1, <1>3, <2>1, GoType DEF TypeOK
<1> QED
  BY <1>2, <1>3 DEF ParseError

\* The fields of a session that is marked disconnected, and of one resumed.
LEMMA Marked ==
  ASSUME NEW s \in ClientSession, NEW r, r = [s EXCEPT !.connected = FALSE]
  PROVE  /\ r \in ClientSession
         /\ r.session = s.session /\ r.client_id = s.client_id
         /\ r.keep_alive = s.keep_alive /\ r.cleansession = s.cleansession
         /\ r.last_activity = s.last_activity /\ ~r.connected
  BY DEF ClientSession

LEMMA ResumedFields ==
  ASSUME NEW s \in ClientSession, NEW p \in Connect, ~s.connected
  PROVE  /\ Resumed(s, p) \in ClientSession
         /\ Resumed(s, p).session = s.session
         /\ Resumed(s, p).client_id = s.client_id
         /\ Resumed(s, p).cleansession = p.cleansession
         /\ Resumed(s, p).last_activity = s.last_activity
         /\ ~Resumed(s, p).connected
<1>1. p.keep_alive \in Nat /\ p.cleansession \in BOOLEAN
  BY ConnectFields
<1>2. s.connected = FALSE
  BY DEF ClientSession
<1>3. (s.connected /\ p.level = 4) = FALSE
  BY <1>2
<1> QED
  BY <1>1, <1>2, <1>3 DEF ClientSession, Resumed

\* The records stay sessions when one is marked disconnected.
LEMMA MarkedType ==
  ASSUME TypeOK, NEW o, cs' = [cs EXCEPT ![o].connected = FALSE]
  PROVE  /\ cs' \in [Session -> ClientSession]
         /\ \A n \in Session :
              /\ cs'[n].session = cs[n].session
              /\ cs'[n].client_id = cs[n].client_id
              /\ cs'[n].keep_alive = cs[n].keep_alive
              /\ cs'[n].cleansession = cs[n].cleansession
              /\ cs'[n].last_activity = cs[n].last_activity
              /\ cs'[n].connected <=> cs[n].connected /\ n # o
<1>1. \A n \in Session : cs'[n] = IF n = o THEN [cs[n] EXCEPT !.connected = FALSE]
                                   ELSE cs[n]
  BY DEF TypeOK
<1>2. \A n \in Session : cs[n] \in ClientSession
  BY DEF TypeOK
<1>3. \A n \in Session : cs[n].connected \in BOOLEAN
  BY <1>2 DEF ClientSession
<1>4. ASSUME NEW n \in Session
      PROVE  /\ cs'[n] \in ClientSession
             /\ cs'[n].session = cs[n].session
             /\ cs'[n].client_id = cs[n].client_id
             /\ cs'[n].keep_alive = cs[n].keep_alive
             /\ cs'[n].cleansession = cs[n].cleansession
             /\ cs'[n].last_activity = cs[n].last_activity
             /\ cs'[n].connected <=> cs[n].connected /\ n # o
  <2>1. CASE n = o
    <3>1. cs'[n] = [cs[n] EXCEPT !.connected = FALSE] /\ cs[n] \in ClientSession
      BY <1>1, <1>2, <2>1
    <3>2. /\ cs'[n] \in ClientSession
          /\ cs'[n].session = cs[n].session
          /\ cs'[n].client_id = cs[n].client_id
          /\ cs'[n].keep_alive = cs[n].keep_alive
          /\ cs'[n].cleansession = cs[n].cleansession
          /\ cs'[n].last_activity = cs[n].last_activity
          /\ ~cs'[n].connected
      BY <3>1, Marked
    <3> QED
      BY <2>1, <3>2
  <2>2. CASE n # o
    BY <1>1, <1>2, <1>3, <2>2
  <2> QED
    BY <2>1, <2>2
<1>5. cs' = [n \in Session |-> cs'[n]]
  BY DEF TypeOK
<1> QED
  BY <1>4, <1>5

\* They do when a session is resumed; it is not connected afterwards.
LEMMA ResumedType ==
  ASSUME TypeOK, TaskOK, NEW k \in Task, resume(k)
  PROVE  /\ cs' \in [Session -> ClientSession]
         /\ task[k].p \in Connect /\ task[k].o \in Session
         /\ \A n \in Session :
              /\ cs'[n].session = cs[n].session
              /\ cs'[n].client_id = cs[n].client_id
              /\ cs'[n].last_activity = cs[n].last_activity
              /\ n = task[k].o => /\ ~cs'[n].connected
                                  /\ cs'[n].cleansession = task[k].p.cleansession
              /\ n # task[k].o => cs'[n] = cs[n]
<1>1. /\ task[k].p \in Connect /\ task[k].o \in Session
      /\ ~cs[task[k].o].connected
  BY DEF resume, At, TaskOK, TaskFine, Connecting, TypeOK, TaskState
<1>2. PICK p \in Connect, o \in Session : p = task[k].p /\ o = task[k].o
  BY <1>1
<1>3. cs[o] \in ClientSession /\ ~cs[o].connected
  BY <1>1, <1>2 DEF TypeOK
<1>4. cs' = [cs EXCEPT ![o] = Resumed(cs[o], p)]
  BY <1>2 DEF resume, TypeOK
<1>5. cs'[o] = Resumed(cs[o], p) /\ \A n \in Session : n # o => cs'[n] = cs[n]
  BY <1>4 DEF TypeOK
<1>6. /\ cs'[o] \in ClientSession /\ ~cs'[o].connected
      /\ cs'[o].cleansession = p.cleansession
      /\ cs'[o].session = cs[o].session /\ cs'[o].client_id = cs[o].client_id
      /\ cs'[o].last_activity = cs[o].last_activity
  BY <1>3, <1>5, ResumedFields
<1>7. cs' \in [Session -> ClientSession]
  BY <1>4, <1>5, <1>6 DEF TypeOK
<1> QED
  BY <1>1, <1>2, <1>5, <1>6, <1>7

LEMMA TypeStep ==
  ASSUME TypeOK, TaskOK, [Next]_vars
  PROVE  TypeOK'
<1> USE DEF TypeOK
<1>s. \A k \in Task : Busy(k) => task[k].t \in Transport
  BY DEF TaskOK, TaskFine, TaskState, nullptr
<1>1. CASE EnterPoll
  BY <1>1, TimeoutType DEF EnterPoll, expiry, numbers
<1>2. CASE PollTimeout \/ EndEvents \/ ExpirySpin \/ EndExpired
  BY <1>2 DEF PollTimeout, EndEvents, ExpirySpin, EndExpired, expiry, numbers
<1>5. CASE collectExpired
  BY <1>5 DEF collectExpired, Due, ExpiryEntry, numbers
<1>6. ASSUME NEW o \in Session, disconnectExpired(o) PROVE TypeOK'
  BY <1>6 DEF disconnectExpired, numbers
<1>7. ASSUME NEW o \in Session, reschedule(o) PROVE TypeOK'
  <2>1. m_expiryHeap' \subseteq ExpiryEntry
    BY <1>7, ScheduleType DEF reschedule
  <2> QED
    BY <1>7, <2>1 DEF reschedule, numbers
<1>8. CASE eraseExpired
  <2>1. cs' \in [Session -> ClientSession]
    BY <1>8, MarkedType DEF eraseExpired
  <2>2. m_sessionRegistry' \in [Client -> Session \cup {nullptr}]
    BY <1>8 DEF eraseExpired
  <2>3. did' \in [Client -> SUBSET Deed]
    BY <1>8 DEF eraseExpired, Deed
  <2> QED
    BY <1>8, <2>1, <2>2, <2>3 DEF eraseExpired, numbers
<1>9. CASE addSession
  BY <1>9, ConstantsAssumption DEF addSession, Event, Transport, expiry
<1>10. ASSUME NEW t \in Transport, closeConnection(t) PROVE TypeOK'
  BY <1>10 DEF closeConnection, Event, expiry, numbers
<1>11. ASSUME NEW t \in Transport, NEW p \in Connect \cup Others, NEW k \in Task,
              SessionEvent(t, p, k)
       PROVE  TypeOK'
  <2>1. [at |-> "parse", t |-> t, p |-> p, o |-> nullptr] \in TaskState
    BY DEF TaskState, Stage
  <2> QED
    BY <1>11, <2>1 DEF SessionEvent, Event, expiry, numbers
<1>12. CASE Tick
  BY <1>12 DEF Tick, expiry, numbers
<1>13. ASSUME NEW k \in Task, lookup(k) PROVE TypeOK'
  <2> DEFINE p == task[k].p
             o == m_sessionRegistry[p.client_id]
             stage == IF o # nullptr THEN "kick" ELSE Register(p)
  <2>1. p \in Connect /\ p.client_id \in Client
    BY <1>13, ConnectFields DEF lookup
  <2>2. o \in Session \cup {nullptr} /\ stage \in Stage /\ Go(k, stage, o)
    BY <1>13, <2>1 DEF lookup, Register, Stage
  <2>3. did' \in [Client -> SUBSET Deed]
    BY <1>13, <2>1 DEF lookup, Deed
  <2> HIDE DEF o, stage
  <2> QED
    BY <1>13, <2>2, <2>3, GoType DEF lookup, expiry, numbers
<1>14. ASSUME NEW k \in Task, kick(k) PROVE TypeOK'
  <2> DEFINE o == task[k].o
             stage == IF task[k].p.cleansession THEN "purge" ELSE "resume"
  <2>1. o \in Session \cup {nullptr} /\ stage \in Stage /\ Go(k, stage, o)
    BY <1>14 DEF kick, Stage, TaskState
  <2>2. cs' \in [Session -> ClientSession]
    BY <1>14, MarkedType DEF kick
  <2> HIDE DEF o, stage
  <2> QED
    BY <1>14, <2>1, <2>2, GoType DEF kick, expiry, numbers
<1>15. ASSUME NEW k \in Task, purge(k) PROVE TypeOK'
  <2> DEFINE stage == Register(task[k].p)
  <2>1. nullptr \in Session \cup {nullptr} /\ stage \in Stage /\ Go(k, stage, nullptr)
    BY <1>15 DEF purge, Stage, Register
  <2>2. m_sessionRegistry' \in [Client -> Session \cup {nullptr}]
    BY <1>15 DEF purge
  <2> HIDE DEF stage
  <2> QED
    BY <1>15, <2>1, <2>2, GoType DEF purge, expiry, numbers
<1>16. ASSUME NEW k \in Task, resume(k) PROVE TypeOK'
  <2> DEFINE stage == Answer(task[k].p)
  <2>1. nullptr \in Session \cup {nullptr} /\ stage \in Stage /\ Go(k, stage, nullptr)
    BY <1>16 DEF resume, Stage, Answer
  <2>2. cs' \in [Session -> ClientSession]
    BY <1>16, ResumedType
  <2>3. did' \in [Client -> SUBSET Deed]
    BY <1>16 DEF resume, Deed
  <2> HIDE DEF stage
  <2> QED
    BY <1>16, <2>1, <2>2, <2>3, GoType DEF resume, expiry, numbers
<1>17. ASSUME NEW k \in Task, register(k) PROVE TypeOK'
  <2> DEFINE n == made + 1
             p == task[k].p
             s == [client_id |-> p.client_id, keep_alive |-> p.keep_alive,
                   cleansession |-> p.cleansession, connected |-> TRUE,
                   session |-> task[k].t, last_activity |-> now]
  <2>1. p \in Connect /\ n \in Session /\ task[k].t \in Transport
    BY <1>17, <1>s, ConstantsAssumption
       DEF register, At, TaskOK, TaskFine, Connecting, Session, Busy
  <2>2. s \in ClientSession
    BY <2>1, ConnectFields DEF ClientSession
  <2>3. cs' \in [Session -> ClientSession]
    BY <1>17, <2>2 DEF register
  <2>4. m_sessionRegistry' \in [Client -> Session \cup {nullptr}]
    BY <1>17, <2>1 DEF register
  <2>5. Go(k, "schedule", n) /\ n \in Session \cup {nullptr} /\ "schedule" \in Stage
    BY <1>17, <2>1 DEF register, Stage
  <2>6. task' \in [Task -> TaskState]
    BY <2>5, GoType
  <2>7. made' \in 0 .. MaxSessions
    BY <1>17, ConstantsAssumption DEF register
  <2> QED
    BY <1>17, <2>3, <2>4, <2>6, <2>7 DEF register, expiry
<1>18. ASSUME NEW k \in Task, schedule(k) PROVE TypeOK'
  <2>0. task[k].o \in Session
    BY <1>18 DEF schedule, At, TaskOK, TaskFine, TaskState
  <2>1. nullptr \in Session \cup {nullptr} /\ "accept" \in Stage /\ Go(k, "accept", nullptr)
    BY <1>18 DEF schedule, Stage
  <2>2. m_expiryHeap' \subseteq ExpiryEntry
    BY <1>18, <2>0, ScheduleType DEF schedule
  <2> QED
    BY <1>18, <2>1, <2>2, GoType DEF schedule, expiry, numbers
<1>19. ASSUME NEW k \in Task, accept(k) PROVE TypeOK'
  <2>0. task[k].p.client_id \in Client
    BY <1>19, ConnectFields DEF accept, At, TaskOK, TaskFine, Connecting
  <2>1. client_id' \in [Transport -> Client \cup {NoClient}]
    BY <1>19, <2>0 DEF accept
  <2> QED
    BY <1>19, <2>1, DoneType DEF accept, expiry, numbers
<1>20. ASSUME NEW k \in Task, forceDisconnect(k) PROVE TypeOK'
  BY <1>20, DoneType DEF forceDisconnect, expiry, numbers
<1>21. ASSUME NEW k \in Task, HandleRoute(k) \/ HandleFlow(k) PROVE TypeOK'
  <2>0. task[k].t \in Transport
    BY <1>21, <1>s DEF HandleRoute, HandleFlow, At, Busy
  <2>1. Own(task[k].t) \in Session \cup {nullptr}
    BY <2>0 DEF Own
  <2>2. cs' \in [Session -> ClientSession]
    BY <1>21, <2>1 DEF HandleRoute, HandleFlow, updateActivity, ClientSession
  <2> QED
    BY <1>21, <2>2, DoneType DEF HandleRoute, HandleFlow, expiry, numbers
<1>22. ASSUME NEW k \in Task, HandleUnsub(k) PROVE TypeOK'
  BY <1>22, DoneType DEF HandleUnsub, expiry, numbers
<1>23. ASSUME NEW k \in Task, HandleBad(k) \/ HandleOob(k) PROVE TypeOK'
  <2>0. task[k].t \in Transport
    BY <1>23, <1>s DEF HandleBad, HandleOob, At, Busy
  <2> QED
    BY <1>23, <2>0, ParseErrorType, DoneType DEF HandleBad, HandleOob, expiry, numbers
<1>24. ASSUME NEW k \in Task, erase(k) PROVE TypeOK'
  <2>1. task[k].o \in Session \cup {nullptr} /\ "drop" \in Stage /\ Go(k, "drop", task[k].o)
    BY <1>24 DEF erase, Stage, TaskState
  <2>2. m_sessionRegistry' \in [Client -> Session \cup {nullptr}]
    BY <1>24 DEF erase
  <2>3. did' \in [Client -> SUBSET Deed]
    BY <1>24 DEF erase, Deed
  <2> QED
    BY <1>24, <2>1, <2>2, <2>3, GoType DEF erase, expiry, numbers
<1>25. CASE UNCHANGED vars
  BY <1>25 DEF vars, expiry, numbers
<1> QED
  BY <1>1, <1>2, <1>5, <1>6, <1>7, <1>8, <1>9, <1>10, <1>11, <1>12,
     <1>13, <1>14, <1>15, <1>16, <1>17, <1>18, <1>19, <1>20, <1>21, <1>22, <1>23,
     <1>24, <1>25
     DEF Next, Main, Environment, Worker
-----------------------------------------------------------------------------
(***************************************************************************)
(* What a step does to the objects: it makes and registers one, or it only *)
(* takes sessions out of service and out of the registry.                  *)
(***************************************************************************)
SteadyCounts == made' = made /\ opened' >= opened /\ now' >= now

SteadySessions ==
  \A n \in Session :
    /\ cs'[n].session = cs[n].session
    /\ cs'[n].client_id = cs[n].client_id
    /\ cs'[n].connected => /\ cs[n].connected
                           /\ cs'[n].keep_alive = cs[n].keep_alive
    /\ cs'[n].last_activity \in {cs[n].last_activity, now}

SteadyRegistry ==
  \A c \in Client : m_sessionRegistry'[c] \in {m_sessionRegistry[c], nullptr}

SteadyTransports ==
  \A t \in m_sessions' : t \in m_sessions \/ (opened < t /\ t =< opened')

SteadyNames ==
  \A t \in Transport :
    /\ client_id[t] # NoClient => client_id'[t] # NoClient
    /\ client_id'[t] # NoClient =>
         client_id[t] # NoClient \/ \E k \in Task : Busy(k) /\ task[k].t = t

Steady == /\ SteadyCounts /\ SteadySessions /\ SteadyRegistry
          /\ SteadyTransports /\ SteadyNames

LEMMA SteadyStep ==
  ASSUME TypeOK, TaskOK, [Next]_vars, \A k \in Task : ~register(k)
  PROVE  Steady
<1>1. SteadyCounts
  <2>0. opened \in Nat /\ now \in Nat
    BY DEF TypeOK
  <2>1. made' = made
    BY DEF Next, Main, Environment, Worker, vars, EnterPoll, PollTimeout,
       EndEvents, ExpirySpin, collectExpired, disconnectExpired, reschedule,
       eraseExpired, EndExpired, addSession, closeConnection, SessionEvent,
       Tick, lookup, kick, purge, resume, schedule, accept, HandleRoute,
       HandleFlow, HandleUnsub, HandleBad, HandleOob, erase, forceDisconnect,
       numbers
  <2>2. opened' \in {opened, opened + 1}
    BY DEF Next, Main, Environment, Worker, vars, EnterPoll, PollTimeout,
       EndEvents, ExpirySpin, collectExpired, disconnectExpired, reschedule,
       eraseExpired, EndExpired, addSession, closeConnection, SessionEvent,
       Tick, lookup, kick, purge, resume, schedule, accept, HandleRoute,
       HandleFlow, HandleUnsub, HandleBad, HandleOob, erase, forceDisconnect,
       numbers
  <2>3. now' \in {now, now + 1}
    BY DEF Next, Main, Environment, Worker, vars, EnterPoll, PollTimeout,
       EndEvents, ExpirySpin, collectExpired, disconnectExpired, reschedule,
       eraseExpired, EndExpired, addSession, closeConnection, SessionEvent,
       Tick, lookup, kick, purge, resume, schedule, accept, HandleRoute,
       HandleFlow, HandleUnsub, HandleBad, HandleOob, erase, forceDisconnect
  <2> QED
    BY <2>0, <2>1, <2>2, <2>3 DEF SteadyCounts
<1>2. SteadySessions
  <2>1. CASE cs' = cs
    BY <2>1 DEF SteadySessions
  <2>2. ASSUME NEW o, cs' = [cs EXCEPT ![o].connected = FALSE]
        PROVE  SteadySessions
    BY <2>2, MarkedType DEF SteadySessions
  <2>3. ASSUME NEW k \in Task, resume(k) PROVE SteadySessions
    BY <2>3, ResumedType DEF SteadySessions
  <2>4. ASSUME NEW k \in Task, HandleRoute(k) \/ HandleFlow(k)
        PROVE  SteadySessions
    <3>0. task[k].t \in Transport
      BY <2>4 DEF HandleRoute, HandleFlow, At, Busy, TaskOK, TaskFine, TypeOK,
         TaskState, nullptr
    <3>1. Own(task[k].t) \in Session \cup {nullptr}
      BY <3>0 DEF Own, TypeOK
    <3>2. PICK o \in Session \cup {nullptr} :
            cs' = IF o = nullptr THEN cs
                  ELSE [cs EXCEPT ![o].last_activity = now]
      BY <2>4, <3>1 DEF HandleRoute, HandleFlow, updateActivity
    <3> QED
      BY <3>2 DEF SteadySessions, TypeOK, ClientSession
  <2>5. ASSUME NEW k \in Task, kick(k) PROVE SteadySessions
    BY <2>2, <2>5 DEF kick
  <2>6. CASE eraseExpired
    BY <2>1, <2>2, <2>6 DEF eraseExpired
  <2> QED
    BY <2>1, <2>3, <2>4, <2>5, <2>6
       DEF Next, Main, Environment, Worker, vars, EnterPoll, PollTimeout,
       EndEvents, ExpirySpin, collectExpired, disconnectExpired, reschedule,
       EndExpired, addSession, closeConnection, SessionEvent,
       Tick, lookup, purge, schedule, accept, HandleUnsub, HandleBad, HandleOob,
       erase, forceDisconnect
<1>3. SteadyRegistry
  <2>1. CASE UNCHANGED m_sessionRegistry
    BY <2>1 DEF SteadyRegistry
  <2>2. ASSUME NEW c, m_sessionRegistry' = [m_sessionRegistry EXCEPT ![c] = nullptr]
        PROVE  SteadyRegistry
    BY <2>2 DEF SteadyRegistry, TypeOK
  <2>3. CASE eraseExpired
    BY <2>1, <2>2, <2>3 DEF eraseExpired
  <2>4. ASSUME NEW k \in Task, purge(k) \/ erase(k) PROVE SteadyRegistry
    BY <2>2, <2>4 DEF purge, erase
  <2> QED
    BY <2>1, <2>3, <2>4
       DEF Next, Main, Environment, Worker, vars, EnterPoll, PollTimeout,
       EndEvents, ExpirySpin, collectExpired, disconnectExpired, reschedule,
       EndExpired, addSession, closeConnection, SessionEvent, Tick, lookup,
       kick, resume, schedule, accept, HandleRoute, HandleFlow, HandleUnsub,
       HandleBad, HandleOob, forceDisconnect
<1>4. SteadyTransports
  <2>1. CASE m_sessions' \subseteq m_sessions
    BY <2>1 DEF SteadyTransports
  <2>2. CASE addSession
    BY <2>2 DEF addSession, SteadyTransports, TypeOK
  <2> QED
    BY <2>1, <2>2
       DEF Next, Main, Environment, Worker, vars, EnterPoll, PollTimeout,
       EndEvents, ExpirySpin, collectExpired, disconnectExpired, reschedule,
       eraseExpired, EndExpired, closeConnection, SessionEvent, Tick, lookup,
       kick, purge, resume, schedule, accept, HandleRoute, HandleFlow,
       HandleUnsub, HandleBad, HandleOob, erase, forceDisconnect
<1>5. SteadyNames
  <2>1. CASE UNCHANGED client_id
    BY <2>1 DEF SteadyNames
  <2>2. ASSUME NEW k \in Task, accept(k) PROVE SteadyNames
    <3>1. task[k].p.client_id \in Client /\ task[k].p.client_id # NoClient
      BY <2>2, ConnectFields DEF accept, At, TaskOK, TaskFine, Connecting
    <3> QED
      BY <2>2, <3>1 DEF accept, At, Busy, SteadyNames, TypeOK
  <2> QED
    BY <2>1, <2>2
       DEF Next, Main, Environment, Worker, vars, EnterPoll, PollTimeout,
       EndEvents, ExpirySpin, collectExpired, disconnectExpired, reschedule,
       eraseExpired, EndExpired, addSession, closeConnection, SessionEvent,
       Tick, lookup, kick, purge, resume, schedule, HandleRoute, HandleFlow,
       HandleUnsub, HandleBad, HandleOob, erase, forceDisconnect
<1> QED
  BY <1>1, <1>2, <1>3, <1>4, <1>5 DEF Steady

\* The session that register makes has not been there before.
LEMMA RegisterFields ==
  ASSUME TypeOK, TaskOK, NEW k \in Task, register(k)
  PROVE  /\ made' = made + 1 /\ made' \in Session /\ made \in Nat
         /\ task[k].p \in Connect /\ task[k].p.client_id \in Client
         /\ task[k].p.client_id # NoClient /\ task[k].p.keep_alive \in Nat
         /\ task[k].t \in Transport
         /\ cs'[made'] = [client_id |-> task[k].p.client_id,
                          keep_alive |-> task[k].p.keep_alive,
                          cleansession |-> task[k].p.cleansession,
                          connected |-> TRUE, session |-> task[k].t,
                          last_activity |-> now]
         /\ \A n \in Session : n # made' => cs'[n] = cs[n]
         /\ \A c \in Client :
              m_sessionRegistry'[c] = IF c = task[k].p.client_id THEN made'
                                      ELSE m_sessionRegistry[c]
         /\ task'[k].at = "schedule" /\ task'[k].o = made'
         /\ task'[k].t = task[k].t /\ task'[k].p = task[k].p
         /\ \A j \in Task : j # k => task'[j] = task[j]
         /\ UNCHANGED <<m_sessions, expiry, client_id, opened, now, loop, did>>
<1>1. task[k].p \in Connect /\ task[k].t \in Transport
  BY DEF register, At, TaskOK, TaskFine, Connecting, Busy, TypeOK, TaskState, nullptr
<1>2. made' = made + 1 /\ made' \in Session /\ made \in Nat
  BY ConstantsAssumption DEF register, TypeOK, Session
<1>3. Go(k, "schedule", made') /\ "schedule" \in Stage
  BY DEF register, Stage
<1>4. /\ task'[k].at = "schedule" /\ task'[k].o = made'
      /\ task'[k].t = task[k].t /\ task'[k].p = task[k].p
      /\ \A j \in Task : j # k => task'[j] = task[j]
  BY <1>2, <1>3, GoType
<1> QED
  BY <1>1, <1>2, <1>4, ConnectFields DEF register, TypeOK

-----------------------------------------------------------------------------
(***************************************************************************)
(* The objects and the tasks: Shape is inductive.                          *)
(***************************************************************************)

\* A task that a step leaves alone stays as it should be.
LEMMA TaskKept ==
  ASSUME TypeOK, TypeOK', TaskOK, [Next]_vars,
         NEW j \in Task, task'[j] = task[j], Fresh
  PROVE  TaskFine(j)'
<1>1. /\ client_id[task[j].t] # NoClient /\ task[j].t \in Transport
         => client_id'[task[j].t] # NoClient
      /\ task[j].o \in Session =>
           /\ cs'[task[j].o].client_id = cs[task[j].o].client_id
           /\ cs'[task[j].o].connected => cs[task[j].o].connected
  <2>1. CASE \A k \in Task : ~register(k)
    BY <2>1, SteadyStep DEF Steady, SteadySessions, SteadyNames
  <2>2. ASSUME NEW k \in Task, register(k)
        PROVE  /\ client_id' = client_id
               /\ task[j].o \in Session => cs'[task[j].o] = cs[task[j].o]
    <3>1. made' = made + 1 /\ made \in Nat /\ client_id' = client_id
          /\ \A n \in Session : n # made' => cs'[n] = cs[n]
      BY <2>2, RegisterFields
    <3>2. task[j].o =< made
      BY DEF Fresh
    <3>3. task[j].o \in Session => task[j].o # made'
      BY <3>1, <3>2 DEF Session
    <3> QED
      BY <3>1, <3>3
  <2> QED
    BY <2>1, <2>2
<1>2. task[j] \in TaskState
  BY DEF TypeOK
<1>3. Busy(j)' <=> Busy(j)
  BY DEF Busy
<1>4. TaskFine(j)
  BY DEF TaskOK
<1>5. task[j].at \in {"erase", "drop"} => task[j].t \in Transport
  BY <1>2, <1>4 DEF TaskFine, Busy, TaskState, nullptr
<1>6. task[j].at \in {"kick", "purge", "resume", "schedule"} => task[j].o \in Session
  BY <1>2, <1>4 DEF TaskFine, TaskState
<1> QED
  BY <1>1, <1>2, <1>3, <1>4, <1>5, <1>6 DEF TaskFine

\* A task that is over, or has just been queued, has nothing in hand.
LEMMA TaskPlain ==
  ASSUME NEW j \in Task, \/ task'[j].at = "idle"
                         \/ task'[j].at = "parse" /\ task'[j].t # nullptr
                            /\ task'[j].p # NoPacket
  PROVE  TaskFine(j)'
  BY DEF TaskFine, Busy, Connecting

LEMMA TaskStep ==
  ASSUME TypeOK, TypeOK', TaskOK, Fresh, RegistryKeyed, [Next]_vars
  PROVE  TaskOK'
<1>k. \A j \in Task : task'[j] = task[j] => TaskFine(j)'
  BY TaskKept
<1>p. NoPacket \notin Connect /\ NoPacket \notin Others
  BY PacketsAssumption
<1>f. \A k \in Task : TaskFine(k) /\ task[k] \in TaskState
  BY DEF TaskOK, TypeOK
<1>c. \A k \in Task : Busy(k) => task[k].t \in Transport
  BY <1>f DEF TaskFine, TaskState, nullptr
<1>1. CASE UNCHANGED task
  BY <1>1, <1>k DEF TaskOK
<1>2. ASSUME NEW k \in Task, Done(k) PROVE TaskOK'
  BY <1>2, <1>k, DoneType, TaskPlain DEF TaskOK
<1>3. ASSUME NEW t \in Transport, NEW p \in Connect \cup Others, NEW k \in Task,
             SessionEvent(t, p, k)
      PROVE  TaskOK'
  <2>1. /\ task'[k] = [at |-> "parse", t |-> t, p |-> p, o |-> nullptr]
        /\ \A j \in Task : j # k => task'[j] = task[j]
    BY <1>3 DEF SessionEvent, TypeOK
  <2>2. t # nullptr /\ p # NoPacket
    BY <1>p DEF Transport, nullptr
  <2>3. TaskFine(k)'
    BY <2>1, <2>2, TaskPlain
  <2> QED
    BY <1>k, <2>1, <2>3 DEF TaskOK
<1>4. ASSUME NEW k \in Task, lookup(k) PROVE TaskOK'
  <2> DEFINE p == task[k].p
             o == m_sessionRegistry[p.client_id]
             stage == IF o # nullptr THEN "kick" ELSE Register(p)
  <2>1. p \in Connect /\ p.client_id \in Client /\ task[k].t # nullptr
    BY <1>4, <1>f, ConnectFields DEF lookup, At, TaskFine, Busy
  <2>2. o \in Session \cup {nullptr} /\ stage \in Stage /\ Go(k, stage, o)
        /\ cs' = cs
    BY <1>4, <2>1 DEF lookup, Register, Stage, TypeOK
  <2>3. o # nullptr => cs[o].client_id = p.client_id
    BY <2>1 DEF RegistryKeyed
  <2>4. stage = "kick" => o # nullptr
    BY DEF Register
  <2>5. stage \in {"kick", "register", "refuse"}
    BY DEF Register
  <2> HIDE DEF o, stage
  <2>6. /\ task'[k].at = stage /\ task'[k].o = o
        /\ task'[k].t = task[k].t /\ task'[k].p = p
        /\ \A j \in Task : j # k => task'[j] = task[j]
    BY <2>2, GoType
  <2> HIDE DEF p
  <2>7. TaskFine(k)'
    BY <1>p, <2>1, <2>2, <2>3, <2>4, <2>5, <2>6 DEF TaskFine, Busy, Connecting
  <2> QED
    BY <1>k, <2>6, <2>7 DEF TaskOK
<1>5. ASSUME NEW k \in Task, kick(k) PROVE TaskOK'
  <2> DEFINE p == task[k].p
             o == task[k].o
             stage == IF p.cleansession THEN "purge" ELSE "resume"
  <2>1. p \in Connect /\ task[k].t # nullptr /\ o \in Session
        /\ cs[o].client_id = p.client_id
    BY <1>5, <1>f DEF kick, At, TaskFine, Busy, Connecting, TaskState
  <2>2. stage \in {"purge", "resume"} /\ stage \in Stage /\ Go(k, stage, o)
    BY <1>5 DEF kick, Stage
  <2>3. stage = "purge" => p.cleansession
    OBVIOUS
  <2>4. cs'[o].client_id = p.client_id /\ ~cs'[o].connected
    BY <1>5, <2>1, MarkedType DEF kick
  <2> HIDE DEF o, stage
  <2>6. /\ task'[k].at = stage /\ task'[k].o = o
        /\ task'[k].t = task[k].t /\ task'[k].p = p
        /\ \A j \in Task : j # k => task'[j] = task[j]
    BY <2>1, <2>2, GoType
  <2> HIDE DEF p
  <2>7. TaskFine(k)'
    <3>1. o # nullptr
      BY <2>1 DEF Session, nullptr
    <3> QED
      BY <1>p, <2>1, <2>2, <2>3, <2>4, <2>6, <3>1 DEF TaskFine, Busy, Connecting
  <2> QED
    BY <1>k, <2>6, <2>7 DEF TaskOK
<1>6. ASSUME NEW k \in Task, NEW stage \in Stage, Go(k, stage, nullptr),
             stage \in {"register", "accept", "refuse"},
             task[k].at \in Connecting
      PROVE  TaskOK'
  <2>1. /\ task'[k].at = stage /\ task'[k].o = nullptr
        /\ task'[k].t = task[k].t /\ task'[k].p = task[k].p
        /\ \A j \in Task : j # k => task'[j] = task[j]
    BY <1>6, GoType
  <2>2. task[k].p \in Connect /\ task[k].t # nullptr
    BY <1>6, <1>f DEF TaskFine, Busy, Connecting
  <2>3. TaskFine(k)'
    BY <1>6, <2>1, <2>2 DEF TaskFine, Busy, Connecting
  <2> QED
    BY <1>k, <2>1, <2>3 DEF TaskOK
<1>7. ASSUME NEW k \in Task, purge(k) \/ resume(k) \/ schedule(k) PROVE TaskOK'
  <2>1. task[k].at \in Connecting
    BY <1>7 DEF purge, resume, schedule, At, Connecting
  <2>2. CASE purge(k)
    BY <2>1, <2>2, <1>6 DEF purge, Register, Stage
  <2>3. CASE resume(k)
    BY <2>1, <2>3, <1>6 DEF resume, Answer, Stage
  <2>4. CASE schedule(k)
    BY <2>1, <2>4, <1>6 DEF schedule, Stage
  <2> QED
    BY <1>7, <2>2, <2>3, <2>4
<1>8. ASSUME NEW k \in Task, register(k) PROVE TaskOK'
  <2>0. /\ made' \in Session /\ task[k].p \in Connect /\ task[k].t \in Transport
        /\ cs'[made'].client_id = task[k].p.client_id
    <3>1. cs'[made'] = [client_id |-> task[k].p.client_id,
                        keep_alive |-> task[k].p.keep_alive,
                        cleansession |-> task[k].p.cleansession,
                        connected |-> TRUE, session |-> task[k].t,
                        last_activity |-> now]
      BY <1>8, RegisterFields
    <3>2. /\ made' \in Session /\ task[k].p \in Connect
          /\ task[k].t \in Transport
      BY <1>8, RegisterFields
    <3> QED
      BY <3>1, <3>2
  <2>1. /\ task'[k].at = "schedule" /\ task'[k].o = made'
        /\ task'[k].t = task[k].t /\ task'[k].p = task[k].p
        /\ \A j \in Task : j # k => task'[j] = task[j]
    BY <1>8, RegisterFields
  <2>2. made' # nullptr /\ task[k].t # nullptr
    BY <2>0 DEF Session, Transport, nullptr
  <2>3. TaskFine(k)'
    BY <1>p, <2>0, <2>1, <2>2 DEF TaskFine, Busy, Connecting
  <2> QED
    BY <1>k, <2>1, <2>3 DEF TaskOK
<1>9. ASSUME NEW k \in Task, NEW o \in Session, NEW stage \in {"erase", "drop"},
             Go(k, stage, o), task[k].t \in Transport,
             client_id'[task[k].t] # NoClient, Busy(k)
      PROVE  TaskOK'
  <2>1. /\ task'[k].at = stage /\ task'[k].o = o
        /\ task'[k].t = task[k].t /\ task'[k].p = task[k].p
        /\ \A j \in Task : j # k => task'[j] = task[j]
    BY <1>9, GoType DEF Stage
  <2>2. o # nullptr /\ task[k].t # nullptr
    BY <1>9 DEF Session, Transport, nullptr
  <2>3. TaskFine(k)'
    BY <1>9, <2>1, <2>2 DEF TaskFine, Busy, Connecting
  <2> QED
    BY <1>k, <2>1, <2>3 DEF TaskOK
<1>10. ASSUME NEW k \in Task, ParseError(k), UNCHANGED client_id, Busy(k)
       PROVE  TaskOK'
  <2> DEFINE o == Own(task[k].t)
  <2>1. task[k].t \in Transport
    BY <1>10, <1>c
  <2>2. o \in Session \cup {nullptr} /\ (o # nullptr => client_id[task[k].t] # NoClient)
    BY <2>1 DEF Own, TypeOK
  <2>3. CASE Done(k)
    BY <1>2, <2>3
  <2>4. CASE o # nullptr /\ Go(k, IF ErasesSession(o) THEN "erase" ELSE "drop", o)
    BY <1>9, <1>10, <2>1, <2>2, <2>4
  <2> QED
    BY <1>10, <2>3, <2>4 DEF ParseError
<1>11. ASSUME NEW k \in Task, HandleBad(k) \/ HandleOob(k) PROVE TaskOK'
  BY <1>2, <1>10, <1>11 DEF HandleBad, HandleOob, At, Busy
<1>12. ASSUME NEW k \in Task, erase(k) PROVE TaskOK'
  <2>1. task[k].o \in Session /\ task[k].t \in Transport
        /\ client_id'[task[k].t] # NoClient /\ Busy(k)
    BY <1>12, <1>f, <1>c DEF erase, At, TaskFine, TaskState, Busy
  <2> QED
    BY <1>9, <1>12, <2>1 DEF erase
<1>13. ASSUME NEW k \in Task,
              \/ accept(k) \/ forceDisconnect(k) \/ HandleRoute(k)
              \/ HandleFlow(k) \/ HandleUnsub(k)
       PROVE  TaskOK'
  BY <1>2, <1>13 DEF accept, forceDisconnect, HandleRoute, HandleFlow, HandleUnsub
<1>14. CASE Main \/ addSession \/ Tick \/ UNCHANGED vars
  BY <1>1, <1>14 DEF Main, EnterPoll, PollTimeout, EndEvents, ExpirySpin,
     collectExpired, disconnectExpired, reschedule, eraseExpired, EndExpired,
     addSession, Event, Tick, vars
<1>15. ASSUME NEW t \in Transport, closeConnection(t) PROVE TaskOK'
  BY <1>1, <1>15 DEF closeConnection
<1> QED
  BY <1>3, <1>4, <1>5, <1>7, <1>8, <1>11, <1>12, <1>13, <1>14, <1>15
     DEF Next, Environment, Worker


-----------------------------------------------------------------------------
\* The numbers of the sessions the expiry bookkeeping speaks of.
Watched == to_disconnect \cup new_entries \cup {dropping}
             \cup {e.session : e \in m_expiryHeap}

\* They are old ones, or the one a worker schedules.
LEMMA WatchedStep ==
  ASSUME TypeOK, TaskOK, [Next]_vars
  PROVE  \A o \in Watched' : o \in Watched \cup {nullptr} \/ \E k \in Task : task[k].o = o
<1> USE DEF Watched
<1>1. CASE UNCHANGED expiry
  BY <1>1 DEF expiry
<1>2. CASE collectExpired
  BY <1>2 DEF collectExpired, Due
<1>3. ASSUME NEW o \in Session, disconnectExpired(o)
      PROVE  \A n \in Watched' : n \in Watched
  BY <1>3 DEF disconnectExpired
<1>4. CASE eraseExpired
  BY <1>4 DEF eraseExpired
<1>5. ASSUME NEW o \in Session, reschedule(o)
      PROVE  \A n \in Watched' : n \in Watched
  <2>1. \A e \in scheduleExpiry(o, cs[o]) : e.session = o
    BY ScheduleType DEF TypeOK
  <2> QED
    BY <1>5, <2>1 DEF reschedule
<1>6. ASSUME NEW k \in Task, schedule(k)
      PROVE  \A n \in Watched' : n \in Watched \/ task[k].o = n
  <2>1. task[k].o \in Session
    BY <1>6 DEF schedule, At, TaskOK, TaskFine, TypeOK, TaskState
  <2>2. \A e \in scheduleExpiry(task[k].o, cs[task[k].o]) : e.session = task[k].o
    BY <2>1, ScheduleType DEF TypeOK
  <2> QED
    BY <1>6, <2>2 DEF schedule
<1> QED
  BY <1>1, <1>2, <1>3, <1>4, <1>5, <1>6
     DEF Next, Main, Environment, Worker, vars, EnterPoll, PollTimeout,
     EndEvents, ExpirySpin, EndExpired, addSession, closeConnection,
     SessionEvent, Tick, lookup, kick, purge, resume, register, accept,
     HandleRoute, HandleFlow, HandleUnsub, HandleBad, HandleOob, erase,
     forceDisconnect

\* What a task has in hand: what it had, or what it takes from the manager.
\* Only the worker that schedules an entry leaves that stage.
Follows(j) ==
  /\ task'[j].t \in {task[j].t, 0} \cup m_sessions
  /\ task'[j].o \in {task[j].o, nullptr} \cup {m_sessionRegistry[c] : c \in Client}
  /\ Busy(j)' => \/ Busy(j) /\ task'[j].t = task[j].t
                 \/ task'[j].t \in m_sessions
  /\ task'[j].at = "schedule" => task'[j] = task[j]
  /\ task[j].at = "schedule" => task'[j] = task[j] \/ schedule(j)

LEMMA InHand ==
  ASSUME TypeOK, TaskOK, [Next]_vars, \A k \in Task : ~register(k), NEW j \in Task
  PROVE  Follows(j)
<1>0. \A k \in Task : ~register(k)
  OBVIOUS
<1>1. ASSUME UNCHANGED task PROVE Follows(j)
  BY <1>1 DEF Follows, Busy
<1>2. ASSUME NEW k \in Task, Done(k), task[k].at # "schedule" PROVE Follows(j)
  BY <1>2, DoneType DEF Follows, Busy
<1>3. ASSUME NEW t \in Transport, NEW p \in Connect \cup Others, NEW k \in Task,
             SessionEvent(t, p, k)
      PROVE  Follows(j)
  <2>1. /\ task'[k] = [at |-> "parse", t |-> t, p |-> p, o |-> nullptr]
        /\ \A n \in Task : n # k => task'[n] = task[n]
        /\ t \in m_sessions /\ task[k].at = "idle"
    BY <1>3 DEF SessionEvent, TypeOK, Busy
  <2> QED
    BY <2>1 DEF Follows, Busy
<1>4. ASSUME NEW k \in Task, NEW stage \in Stage, stage # "schedule",
             NEW o \in {task[k].o, nullptr} \cup {m_sessionRegistry[c] : c \in Client},
             Go(k, stage, o), task[k].at \notin {"idle", "schedule"} \/ schedule(k)
      PROVE  Follows(j)
  <2>1. o \in Session \cup {nullptr}
    BY <1>4 DEF TypeOK, TaskState
  <2>2. Busy(k)
    BY <1>4 DEF Busy, schedule, At
  <2>3. task[k].at = "schedule" => schedule(k)
    BY <1>4
  <2>4. /\ task'[k].at = stage /\ task'[k].o = o
        /\ task'[k].t = task[k].t
        /\ \A n \in Task : n # k => task'[n] = task[n]
    BY <1>4, <2>1, GoType
  <2> QED
    BY <1>4, <2>2, <2>3, <2>4 DEF Follows, Busy
<1>5. ASSUME NEW k \in Task, lookup(k) PROVE Follows(j)
  <2> DEFINE o == m_sessionRegistry[task[k].p.client_id]
             stage == IF o # nullptr THEN "kick" ELSE Register(task[k].p)
  <2>1. task[k].p.client_id \in Client /\ task[k].at = "parse"
    BY <1>5, ConnectFields DEF lookup, At
  <2>2. o \in {m_sessionRegistry[c] : c \in Client} /\ stage \in Stage
        /\ Go(k, stage, o) /\ stage # "schedule"
    BY <1>5, <2>1 DEF lookup, Register, Stage
  <2> HIDE DEF o, stage
  <2> QED
    BY <1>4, <2>1, <2>2
<1>6. ASSUME NEW k \in Task, kick(k) PROVE Follows(j)
  <2> DEFINE stage == IF task[k].p.cleansession THEN "purge" ELSE "resume"
  <2>1. stage \in Stage /\ Go(k, stage, task[k].o) /\ stage # "schedule"
        /\ task[k].at = "kick"
    BY <1>6 DEF kick, Stage, At
  <2> HIDE DEF stage
  <2> QED
    BY <1>4, <2>1
<1>7. ASSUME NEW k \in Task, purge(k) \/ resume(k) \/ schedule(k) PROVE Follows(j)
  <2>1. PICK stage \in Stage : Go(k, stage, nullptr) /\ stage # "schedule"
    BY <1>7 DEF purge, resume, schedule, Register, Answer, Stage
  <2>2. task[k].at \notin {"idle", "schedule"} \/ schedule(k)
    BY <1>7 DEF purge, resume, At
  <2> QED
    BY <1>4, <2>1, <2>2
<1>8. ASSUME NEW k \in Task, ParseError(k), task[k].t \in Transport,
             task[k].at = "parse"
      PROVE  Follows(j)
  <2> DEFINE o == Own(task[k].t)
             stage == IF ErasesSession(o) THEN "erase" ELSE "drop"
  <2>1. o \in {nullptr} \cup {m_sessionRegistry[c] : c \in Client}
    BY <1>8 DEF Own, TypeOK
  <2>2. stage \in Stage /\ stage # "schedule"
    BY DEF Stage
  <2>3. Done(k) \/ Go(k, stage, o)
    BY <1>8 DEF ParseError
  <2> HIDE DEF o, stage
  <2> QED
    BY <1>2, <1>4, <1>8, <2>1, <2>2, <2>3
<1>9. ASSUME NEW k \in Task, HandleBad(k) \/ HandleOob(k) PROVE Follows(j)
  <2>1. task[k].t \in Transport /\ task[k].at = "parse"
    BY <1>9 DEF HandleBad, HandleOob, At, TaskOK, TaskFine, Busy, TypeOK,
       TaskState, nullptr
  <2> QED
    BY <1>2, <1>8, <1>9, <2>1 DEF HandleBad, HandleOob
<1>10. ASSUME NEW k \in Task, erase(k) PROVE Follows(j)
  <2>1. Go(k, "drop", task[k].o) /\ "drop" \in Stage /\ task[k].at = "erase"
    BY <1>10 DEF erase, Stage, At
  <2> QED
    BY <1>4, <2>1
<1>11. ASSUME NEW k \in Task,
              \/ accept(k) \/ forceDisconnect(k) \/ HandleRoute(k)
              \/ HandleFlow(k) \/ HandleUnsub(k)
       PROVE  Follows(j)
  BY <1>2, <1>11 DEF accept, forceDisconnect, HandleRoute, HandleFlow,
     HandleUnsub, At
<1>12. ASSUME Main \/ addSession \/ Tick \/ UNCHANGED vars PROVE Follows(j)
  BY <1>1, <1>12 DEF Main, EnterPoll, PollTimeout, EndEvents, ExpirySpin,
     collectExpired, disconnectExpired, reschedule, eraseExpired, EndExpired,
     addSession, Event, Tick, vars
<1>13. ASSUME NEW t \in Transport, closeConnection(t) PROVE Follows(j)
  BY <1>1, <1>13 DEF closeConnection
<1> QED
  BY <1>0, <1>3, <1>5, <1>6, <1>7, <1>9, <1>10, <1>11, <1>12, <1>13
     DEF Next, Environment, Worker

LEMMA FreshStep ==
  ASSUME TypeOK, TypeOK', TaskOK, Fresh, [Next]_vars
  PROVE  Fresh'
<1>n. opened \in Nat /\ made \in Nat /\ opened' \in Nat /\ made' \in Nat
  BY DEF TypeOK
<1>w. \A o \in Watched' : o =< made
  BY <1>n, WatchedStep DEF Fresh, Watched, nullptr
<1>v. \A o \in (to_disconnect \cup new_entries \cup {dropping})' : o =< made
  BY <1>w DEF Watched
<1>h. \A e \in m_expiryHeap' : e.session =< made
  BY <1>w DEF Watched
<1>1. CASE \A k \in Task : ~register(k)
  <2>s. Steady
    BY <1>1, SteadyStep
  <2>o. opened' >= opened /\ made' = made
    BY <2>s DEF Steady, SteadyCounts
  <2>1. \A t \in Transport : t \in m_sessions' \/ client_id'[t] # NoClient => t =< opened'
    <3>1. ASSUME NEW t \in m_sessions' PROVE t =< opened'
      <4>1. t \in m_sessions \/ t =< opened'
        BY <2>s, <3>1 DEF Steady, SteadyTransports
      <4>2. t \in m_sessions => t =< opened /\ t \in Nat
        BY DEF Fresh, TypeOK, Transport
      <4> QED
        BY <1>n, <2>o, <4>1, <4>2
    <3>2. ASSUME NEW t \in Transport, client_id'[t] # NoClient PROVE t =< opened'
      <4>1. t =< opened
        BY <2>s, <3>2 DEF Steady, SteadyNames, Fresh
      <4> QED
        BY <1>n, <2>o, <4>1 DEF Transport
    <3> QED
      BY <3>1, <3>2
  <2>2. \A o \in Session : cs'[o].session =< opened' /\ (cs'[o].connected => o =< made')
    <3> SUFFICES ASSUME NEW o \in Session
                 PROVE  cs'[o].session =< opened' /\ (cs'[o].connected => o =< made')
      OBVIOUS
    <3>1. cs'[o].session = cs[o].session /\ (cs'[o].connected => cs[o].connected)
      BY <2>s DEF Steady, SteadySessions
    <3>2. cs[o].session =< opened /\ cs[o].session \in Nat /\ (cs[o].connected => o =< made)
      <4>1. cs[o] \in ClientSession
        BY DEF TypeOK
      <4>2. cs[o].session \in Nat
        BY <4>1 DEF ClientSession, Transport, nullptr
      <4> QED
        BY <4>2 DEF Fresh
    <3> QED
      BY <1>n, <2>o, <3>1, <3>2
  <2>3. \A c \in Client : m_sessionRegistry'[c] =< made'
    BY <1>n, <2>s, <2>o DEF Steady, SteadyRegistry, Fresh, nullptr
  <2>4. \A k \in Task : task'[k].t =< opened' /\ task'[k].o =< made'
    <3> SUFFICES ASSUME NEW k \in Task
                 PROVE  task'[k].t =< opened' /\ task'[k].o =< made'
      OBVIOUS
    <3>1. \A t \in m_sessions : t \in Nat /\ t =< opened
      BY DEF Fresh, TypeOK, Transport
    <3>2. task[k].t =< opened /\ task[k].o =< made /\ task[k].t \in Nat
      BY DEF Fresh, TypeOK, TaskState, Transport
    <3>3. \A c \in Client : m_sessionRegistry[c] =< made
      BY DEF Fresh
    <3> QED
      BY <1>1, <1>n, <2>o, <3>1, <3>2, <3>3, InHand DEF Follows, nullptr
  <2> QED
    BY <1>v, <1>h, <2>o, <2>1, <2>2, <2>3, <2>4 DEF Fresh
<1>2. ASSUME NEW k \in Task, register(k) PROVE Fresh'
  <2>1. /\ made' = made + 1 /\ opened' = opened /\ made' \in Session
        /\ task[k].t \in Transport
        /\ UNCHANGED <<m_sessions, client_id>>
        /\ \A n \in Session : n # made' => cs'[n] = cs[n]
        /\ \A c \in Client : m_sessionRegistry'[c] \in {made', m_sessionRegistry[c]}
        /\ task'[k].o = made' /\ task'[k].t = task[k].t
        /\ \A j \in Task : j # k => task'[j] = task[j]
    BY <1>2, RegisterFields
  <2>2. cs'[made'].session = task[k].t
    <3>1. cs'[made'] = [client_id |-> task[k].p.client_id,
                        keep_alive |-> task[k].p.keep_alive,
                        cleansession |-> task[k].p.cleansession,
                        connected |-> TRUE, session |-> task[k].t,
                        last_activity |-> now]
      BY <1>2, RegisterFields
    <3> QED
      BY <3>1
  <2>3. \A o \in Session : cs'[o].session =< opened' /\ (cs'[o].connected => o =< made')
    <3>1. task[k].t =< opened
      BY DEF Fresh
    <3>2. \A o \in Session : o \in Nat /\ cs[o].session =< opened /\ (cs[o].connected => o =< made)
      BY DEF Fresh, Session
    <3> QED
      BY <1>n, <2>1, <2>2, <3>1, <3>2
  <2>4. \A c \in Client : m_sessionRegistry'[c] =< made'
    BY <1>n, <2>1 DEF Fresh, TypeOK, Session, nullptr
  <2>5. \A j \in Task : task'[j].t =< opened' /\ task'[j].o =< made'
    <3>1. \A j \in Task : task[j].t =< opened /\ task[j].o =< made /\ task[j].o \in Nat
      BY DEF Fresh, TypeOK, TaskState, Session, nullptr
    <3> QED
      BY <1>n, <2>1, <3>1
  <2>6. \A t \in Transport : t \in m_sessions' \/ client_id'[t] # NoClient => t =< opened'
    BY <2>1 DEF Fresh
  <2>7. \A o \in (to_disconnect \cup new_entries \cup {dropping})' : o =< made'
    BY <1>v, <1>n, <2>1 DEF TypeOK, Session, nullptr
  <2>8. \A e \in m_expiryHeap' : e.session =< made'
    BY <1>h, <1>n, <2>1 DEF TypeOK, ExpiryEntry, Session
  <2> QED
    BY <2>3, <2>4, <2>5, <2>6, <2>7, <2>8 DEF Fresh
<1> QED
  BY <1>1, <1>2

LEMMA NamedStep ==
  ASSUME TypeOK, TypeOK', TaskOK, Fresh, Named, RegistryKeyed, [Next]_vars
  PROVE  Named' /\ RegistryKeyed'
<1>n. made \in Nat /\ \A o \in Session : o \in Nat
  BY DEF TypeOK, Session
<1>1. CASE \A k \in Task : ~register(k)
  <2>s. Steady
    BY <1>1, SteadyStep
  <2>1. Named'
    BY <2>s DEF Named, Steady, SteadyCounts, SteadySessions
  <2>2. RegistryKeyed'
    BY <2>s DEF RegistryKeyed, Steady, SteadyRegistry, SteadySessions, TypeOK
  <2> QED
    BY <2>1, <2>2
<1>2. ASSUME NEW k \in Task, register(k) PROVE Named' /\ RegistryKeyed'
  <2>1. /\ made' = made + 1 /\ made' \in Session
        /\ \A n \in Session : n # made' => cs'[n] = cs[n]
        /\ task[k].p.client_id \in Client
        /\ \A c \in Client : m_sessionRegistry'[c] = IF c = task[k].p.client_id
                               THEN made' ELSE m_sessionRegistry[c]
    BY <1>2, RegisterFields
  <2>2. cs'[made'].client_id = task[k].p.client_id
    <3>1. cs'[made'] = [client_id |-> task[k].p.client_id,
                        keep_alive |-> task[k].p.keep_alive,
                        cleansession |-> task[k].p.cleansession,
                        connected |-> TRUE, session |-> task[k].t,
                        last_activity |-> now]
      BY <1>2, RegisterFields
    <3> QED
      BY <3>1
  <2>3. Named'
    BY <1>n, <2>1, <2>2 DEF Named
  <2>4. ASSUME NEW c \in Client, m_sessionRegistry'[c] # nullptr
        PROVE  cs'[m_sessionRegistry'[c]].client_id = c
    <3>1. CASE c = task[k].p.client_id
      BY <2>1, <2>2, <3>1
    <3>2. CASE c # task[k].p.client_id
      <4>1. m_sessionRegistry[c] =< made /\ m_sessionRegistry[c] \in Session
        BY <2>1, <2>4, <3>2 DEF Fresh, TypeOK
      <4>2. m_sessionRegistry'[c] = m_sessionRegistry[c] /\ m_sessionRegistry[c] # made'
        BY <1>n, <2>1, <3>2, <4>1
      <4> QED
        BY <2>1, <2>4, <4>1, <4>2 DEF RegistryKeyed
    <3> QED
      BY <3>1, <3>2
  <2>5. RegistryKeyed'
    BY <2>4 DEF RegistryKeyed
  <2> QED
    BY <2>3, <2>5
<1> QED
  BY <1>1, <1>2

LEMMA ShapeStep == Shape /\ [Next]_vars => Shape'
<1> SUFFICES ASSUME Shape, [Next]_vars PROVE Shape'
  OBVIOUS
<1>0. TypeOK /\ TaskOK /\ Fresh /\ Named /\ RegistryKeyed
  BY DEF Shape
<1>1. TypeOK'
  BY <1>0, TypeStep
<1>2. TaskOK' /\ Fresh' /\ Named' /\ RegistryKeyed'
  BY <1>0, <1>1, TaskStep, FreshStep, NamedStep
<1> QED
  BY <1>1, <1>2 DEF Shape

LEMMA ShapeInit == Init => Shape
<1> SUFFICES ASSUME Init PROVE Shape
  OBVIOUS
<1>1. Idle \in TaskState /\ Idle.at = "idle" /\ Idle.t = 0 /\ Idle.o = nullptr
  BY DEF Idle, TaskState, Stage
<1>2. NewClientSession \in ClientSession /\ NewClientSession.session = 0
      /\ NewClientSession.connected = FALSE
  BY DEF NewClientSession, ClientSession, nullptr
<1>3. TypeOK
  BY <1>1, <1>2, ConstantsAssumption DEF Init, TypeOK
<1>4. TaskOK
  BY <1>1 DEF Init, TaskOK, TaskFine, Busy, Connecting
<1>5. Fresh
  BY <1>1, <1>2, <1>3 DEF Init, Fresh, nullptr
<1>6. Named /\ RegistryKeyed
  BY DEF Init, Named, RegistryKeyed, Session
<1> QED
  BY <1>3, <1>4, <1>5, <1>6 DEF Shape

\* Objects and tasks are as they should be in every reachable state.
THEOREM ShapeHolds == Spec => []Shape
  BY ShapeInit, ShapeStep, PTL DEF Spec

\* Every behaviour of the session layer stays within the types: what main loop,
\* workers and clients do to transports, sessions, heap and tasks.
THEOREM TypeCorrect == Spec => []TypeOK
<1>1. Shape => TypeOK
  BY DEF Shape
<1> QED
  BY <1>1, ShapeHolds, PTL

-----------------------------------------------------------------------------
(***************************************************************************)
(* Keep-alive supervision: WatchInv is inductive on top of Shape.          *)
(***************************************************************************)

\* A deadline is a time.
LEMMA DeadlineType ==
  ASSUME TypeOK, NEW o \in Session
  PROVE  Deadline(o) \in Nat
<1>1. cs[o].keep_alive \in Nat /\ cs[o].last_activity \in Nat
  BY DEF TypeOK, ClientSession
<1> QED
  BY <1>1, GraceNat DEF Deadline

\* A step that registers nothing brings no session under supervision and lets
\* no deadline come nearer.
LEMMA WatchableKept ==
  ASSUME Shape, TypeOK', [Next]_vars, \A k \in Task : ~register(k)
  PROVE  \A o \in Session : Watchable(o)' => Watchable(o)
<1> USE DEF Shape
<1>0. \A k \in Task : ~register(k)
  OBVIOUS
<1>1. Steady
  BY <1>0, SteadyStep
<1>2. \A k \in Task : Follows(k)
  BY <1>0, InHand
<1> SUFFICES ASSUME NEW o \in Session, Watchable(o)' PROVE Watchable(o)
  OBVIOUS
<1>3. Registered(o)
  BY <1>1 DEF Watchable, Registered, Steady, SteadyRegistry, Session, nullptr
<1>4. cs[o].connected /\ cs[o].keep_alive # 0 /\ cs'[o].session = cs[o].session
  BY <1>1 DEF Watchable, Steady, SteadySessions
<1>5. PICK t \in Transport : t = cs[o].session /\ t = cs'[o].session /\ Alive(t)'
  BY <1>4 DEF Watchable, Alive
<1>6. cs[o].session =< opened
  BY DEF Fresh
<1>n. opened \in Nat
  BY DEF TypeOK
<1>t. t \in Nat /\ t # 0 /\ t =< opened
  BY <1>5, <1>6 DEF Transport
<1>7. ASSUME t \in m_sessions' PROVE Alive(t)
  <2>1. t \in m_sessions \/ opened < t
    BY <1>1, <1>7 DEF Steady, SteadyTransports
  <2> QED
    BY <1>n, <1>t, <2>1 DEF Alive
<1>8. ASSUME NEW k \in Task, Busy(k)', task'[k].t = t PROVE Alive(t)
  BY <1>2, <1>8 DEF Follows, Alive
<1>9. Alive(t)
  BY <1>5, <1>7, <1>8 DEF Alive
<1> QED
  BY <1>3, <1>4, <1>5, <1>9 DEF Watchable

LEMMA DeadlineKept ==
  ASSUME TypeOK, TypeOK', ActivityPast, SteadySessions
  PROVE  /\ \A o \in Session : cs'[o].connected => Deadline(o) =< Deadline(o)'
         /\ \A o \in Session : Deadline(o) \in Nat /\ Deadline(o)' \in Nat
<1>1. \A o \in Session :
        /\ cs[o].last_activity \in Nat /\ cs'[o].last_activity \in Nat
        /\ cs[o].keep_alive \in Nat /\ cs'[o].keep_alive \in Nat
        /\ cs[o].last_activity =< now /\ now \in Nat
  BY DEF TypeOK, ClientSession, ActivityPast
<1>2. \A o \in Session : cs[o].last_activity =< cs'[o].last_activity
  BY <1>1 DEF SteadySessions
<1>3. \A o \in Session : cs[o].keep_alive * GRACE \in Nat
                         /\ cs'[o].keep_alive * GRACE \in Nat
  BY <1>1, GraceNat
<1>4. \A o \in Session : cs'[o].connected => cs'[o].keep_alive = cs[o].keep_alive
  BY DEF SteadySessions
<1> QED
  BY <1>1, <1>2, <1>3, <1>4 DEF Deadline

LEMMA ActivityStep ==
  ASSUME TypeOK, TypeOK', TaskOK, ActivityPast, [Next]_vars
  PROVE  ActivityPast'
<1>1. \A o \in Session : cs[o].last_activity \in Nat /\ cs'[o].last_activity \in Nat
  BY DEF TypeOK, ClientSession
<1>2. now \in Nat /\ now' \in Nat
  BY DEF TypeOK
<1>3. CASE \A k \in Task : ~register(k)
  <2>1. Steady
    BY <1>3, SteadyStep
  <2> QED
    BY <1>1, <1>2, <2>1 DEF Steady, SteadySessions, SteadyCounts, ActivityPast
<1>4. ASSUME NEW k \in Task, register(k) PROVE ActivityPast'
  <2>1. /\ now' = now /\ made' \in Session
        /\ \A n \in Session : n # made' => cs'[n] = cs[n]
    BY <1>4, RegisterFields
  <2>2. cs'[made'].last_activity = now
    <3>1. cs'[made'] = [client_id |-> task[k].p.client_id,
                        keep_alive |-> task[k].p.keep_alive,
                        cleansession |-> task[k].p.cleansession,
                        connected |-> TRUE, session |-> task[k].t,
                        last_activity |-> now]
      BY <1>4, RegisterFields
    <3> QED
      BY <3>1
  <2> QED
    BY <1>1, <1>2, <2>1, <2>2 DEF ActivityPast
<1> QED
  BY <1>3, <1>4

Aside == to_disconnect \cup new_entries \cup {dropping}

\* A step that pushes nothing and pops nothing, and lets go of a session it has
\* aside only when that session is out of service.
Winding ==
  /\ UNCHANGED <<m_expiryHeap, new_entries>>
  /\ to_disconnect' \subseteq to_disconnect
  /\ dropping' \in to_disconnect \cup {dropping, nullptr}
  /\ \A o \in Session : Watchable(o)' /\ o \in Aside => o \in Aside'
  /\ loop' # "apply" => to_disconnect' = {} /\ new_entries' = {} /\ dropping' = nullptr
  /\ \A k \in Task : ~schedule(k) /\ ~register(k)

LEMMA WindingWatch ==
  ASSUME Shape, Shape', WatchInv, [Next]_vars, Winding
  PROVE  WatchInv'
<1> USE DEF Shape, WatchInv
<1>n. \A k \in Task : ~register(k)
  BY DEF Winding
<1>s. Steady
  BY <1>n, SteadyStep
<1>f. \A k \in Task : Follows(k)
  BY <1>n, InHand
<1>t. \A k \in Task : /\ task[k].at = "schedule" => task'[k] = task[k]
                      /\ task'[k].at = "schedule" => task'[k] = task[k]
  BY <1>f DEF Follows, Winding
<1>w. \A o \in Session : Watchable(o)' => Watchable(o)
  BY <1>n, WatchableKept
<1>d. /\ \A o \in Session : cs'[o].connected => Deadline(o) =< Deadline(o)'
      /\ \A o \in Session : Deadline(o) \in Nat /\ Deadline(o)' \in Nat
  BY <1>s, DeadlineKept DEF Steady
<1>h. \A e \in m_expiryHeap : e.session \in Session /\ e.expiry_ms \in Nat
  BY DEF TypeOK, ExpiryEntry
<1>c. \A o \in Session : cs'[o].connected =>
        cs[o].connected /\ cs'[o].keep_alive = cs[o].keep_alive
  BY <1>s DEF Steady, SteadySessions
<1>1. ActivityPast'
  BY ActivityStep
<1>2. AsideOnlyInApply'
  BY DEF Winding, AsideOnlyInApply
<1>3. ExpiryUnique'
  BY DEF Winding, ExpiryUnique
<1>4. NotLate'
  <2> SUFFICES ASSUME NEW e \in m_expiryHeap, cs'[e.session].connected
               PROVE  e.expiry_ms =< Deadline(e.session)'
    BY DEF NotLate, Winding
  <2>1. PICK o \in Session : o = e.session /\ e.expiry_ms \in Nat
    BY <1>h
  <2>2. e.expiry_ms =< Deadline(o)
    BY <1>c, <2>1 DEF NotLate
  <2>3. e.expiry_ms =< Deadline(o)'
    BY <1>d, <2>1, <2>2
  <2> QED
    BY <2>1, <2>3
<1>5. Unscheduled'
  <2>1. \A o \in (to_disconnect \cup new_entries \cup {dropping})' :
           o \in to_disconnect \cup new_entries \cup {dropping} \/ o = nullptr
    BY DEF Winding
  <2>2. \A k \in Task : task'[k].at = "schedule" => task[k].o # nullptr
    BY <1>t DEF TaskOK, TaskFine
  <2> QED
    BY <1>t, <2>1, <2>2 DEF Winding, Unscheduled
<1>6. ZeroNeverExpires'
  BY <1>c DEF Winding, ZeroNeverExpires
<1>7. Monitored'
  <2> SUFFICES ASSUME NEW o \in Session, Watchable(o)', o \notin Aside',
                      \A k \in Task : ~(task'[k].at = "schedule" /\ task'[k].o = o)
               PROVE  \E e \in m_expiryHeap' : /\ e.session = o
                                               /\ e.expiry_ms =< Deadline(o)'
    BY DEF Monitored, Aside
  <2>1. Watchable(o) /\ o \notin Aside /\ cs'[o].connected
    BY <1>w DEF Winding, Watchable
  <2>2. \A k \in Task : ~(task[k].at = "schedule" /\ task[k].o = o)
    BY <1>t
  <2>3. PICK e \in m_expiryHeap : e.session = o /\ e.expiry_ms =< Deadline(o)
    BY <2>1, <2>2 DEF Monitored, Aside
  <2>4. e.expiry_ms =< Deadline(o)' /\ e \in m_expiryHeap'
    BY <1>d, <1>h, <2>1, <2>3 DEF Winding
  <2> QED
    BY <2>3, <2>4
<1> QED
  BY <1>1, <1>2, <1>3, <1>4, <1>5, <1>6, <1>7

\* collectExpired moves the due entries aside.
LEMMA CollectWatch ==
  ASSUME Shape, Shape', WatchInv, [Next]_vars, collectExpired
  PROVE  WatchInv'
<1> USE DEF Shape, WatchInv
<1>1. /\ UNCHANGED <<cs, m_sessionRegistry, m_sessions, task, dropping, now>>
      /\ loop' = "apply" /\ dropping = nullptr
      /\ to_disconnect = {} /\ new_entries = {}
      /\ \A o \in to_disconnect' \cup new_entries' :
           \E e \in Due : e.session = o
      /\ \A o \in to_disconnect' : Deadline(o) =< now
      /\ Due \subseteq m_expiryHeap /\ m_expiryHeap' = m_expiryHeap \ Due
  BY DEF collectExpired, AsideOnlyInApply, Due
<1>2. ActivityPast' /\ AsideOnlyInApply'
  BY <1>1 DEF ActivityPast, AsideOnlyInApply
<1>3. ExpiryUnique'
  BY <1>1 DEF ExpiryUnique
<1>4. NotLate'
  BY <1>1 DEF NotLate, Deadline
<1>5. ZeroNeverExpires'
  BY <1>1 DEF ZeroNeverExpires
<1>6. \A o \in Session : Watchable(o)' => Watchable(o)
  BY <1>1 DEF Watchable, Registered, Alive, Busy
<1>7. \A e \in Due : cs[e.session].connected =>
        e.session \in new_entries' \cup to_disconnect'
  <2> SUFFICES ASSUME NEW e \in Due, cs[e.session].connected
               PROVE  e.session \in new_entries' \cup to_disconnect'
    OBVIOUS
  <2>1. e.session \in Session
    BY <1>1 DEF TypeOK, ExpiryEntry
  <2>2. Deadline(e.session) > now \/ Deadline(e.session) =< now
    BY <2>1, DeadlineType DEF TypeOK
  <2> QED
    BY <2>2 DEF collectExpired
<1>8. Monitored'
  <2> SUFFICES ASSUME NEW o \in Session, Watchable(o)', o \notin Aside',
                      \A k \in Task : ~(task'[k].at = "schedule" /\ task'[k].o = o)
               PROVE  \E e \in m_expiryHeap' : /\ e.session = o
                                               /\ e.expiry_ms =< Deadline(o)'
    BY DEF Monitored, Aside
  <2>0. o \notin to_disconnect \cup new_entries \cup {dropping}
    BY <1>1 DEF Aside
  <2>1. PICK e \in m_expiryHeap : e.session = o /\ e.expiry_ms =< Deadline(o)
    BY <1>1, <1>6, <2>0 DEF Monitored
  <2>2. e \notin Due
    BY <1>6, <1>7, <2>1 DEF Watchable, Aside
  <2>3. Deadline(o)' = Deadline(o)
    BY <1>1 DEF Deadline
  <2> QED
    BY <1>1, <2>1, <2>2, <2>3
<1>9. Unscheduled'
  <2>1. \A k \in Task : task[k].at = "schedule" => task[k].o # nullptr
    BY DEF TaskOK, TaskFine
  <2> QED
    BY <1>1, <2>1 DEF Unscheduled
<1> QED
  BY <1>2, <1>3, <1>4, <1>5, <1>8, <1>9

\* Pushing the entry of a session that has none, nor is judged: what reschedule
\* and schedule do.
LEMMA PushWatch ==
  ASSUME Shape, Shape', WatchInv, NEW o \in Session,
         m_expiryHeap' = m_expiryHeap \cup scheduleExpiry(o, cs[o]),
         UNCHANGED <<cs, m_sessionRegistry, m_sessions, to_disconnect, dropping, now>>,
         \A e \in m_expiryHeap : e.session # o,
         new_entries' = new_entries \ {o}, o \notin to_disconnect,
         o # dropping, loop' = loop,
         \A k \in Task : /\ task'[k].at = "schedule" =>
                              task'[k] = task[k] /\ task[k].o # o
                         /\ task[k].at = "schedule" =>
                              task'[k] = task[k] \/ task[k].o = o,
         \A n \in Session : Watchable(n)' => Watchable(n)
  PROVE  WatchInv'
<1> USE DEF Shape, WatchInv
<1>1. /\ \A e \in scheduleExpiry(o, cs[o]) :
           e.session = o /\ e.expiry_ms = Deadline(o) /\ cs[o].keep_alive # 0
      /\ cs[o].keep_alive # 0 => scheduleExpiry(o, cs[o]) # {}
      /\ \A e, f \in scheduleExpiry(o, cs[o]) : e = f
  BY ScheduleType DEF TypeOK, Deadline
<1>2. ActivityPast' /\ AsideOnlyInApply'
  BY DEF ActivityPast, AsideOnlyInApply
<1>3. ExpiryUnique'
  BY <1>1 DEF ExpiryUnique
<1>4. \A n \in Session : Deadline(n)' = Deadline(n) /\ Deadline(n) \in Nat
  BY DeadlineType DEF Deadline
<1>5. NotLate'
  <2>1. \A e \in m_expiryHeap : Deadline(e.session)' = Deadline(e.session)
    BY <1>4 DEF TypeOK, ExpiryEntry
  <2> QED
    BY <1>1, <1>4, <2>1 DEF NotLate
<1>6. ZeroNeverExpires'
  BY <1>1 DEF ZeroNeverExpires
<1>7. Monitored'
  <2> SUFFICES ASSUME NEW n \in Session, Watchable(n)', n \notin Aside',
                      \A k \in Task : ~(task'[k].at = "schedule" /\ task'[k].o = n)
               PROVE  \E e \in m_expiryHeap' : /\ e.session = n
                                               /\ e.expiry_ms =< Deadline(n)'
    BY DEF Monitored, Aside
  <2>1. CASE n = o
    <3>1. PICK e \in scheduleExpiry(o, cs[o]) : TRUE
      BY <1>1, <2>1 DEF Watchable
    <3>2. e.session = o /\ e.expiry_ms = Deadline(o) /\ e \in m_expiryHeap'
      BY <1>1, <3>1
    <3> QED
      BY <1>4, <2>1, <3>2
  <2>2. CASE n # o
    <3>1. Watchable(n) /\ n \notin to_disconnect \cup new_entries \cup {dropping}
      BY <2>2 DEF Aside
    <3>2. \A k \in Task : ~(task[k].at = "schedule" /\ task[k].o = n)
      BY <2>2
    <3>3. PICK e \in m_expiryHeap : e.session = n /\ e.expiry_ms =< Deadline(n)
      BY <3>1, <3>2 DEF Monitored
    <3> QED
      BY <1>4, <3>3
  <2> QED
    BY <2>1, <2>2
<1>8. Unscheduled'
  BY <1>1 DEF Unscheduled
<1> QED
  BY <1>2, <1>3, <1>5, <1>6, <1>7, <1>8

LEMMA RescheduleWatch ==
  ASSUME Shape, Shape', WatchInv, [Next]_vars, NEW o \in Session, reschedule(o)
  PROVE  WatchInv'
<1> USE DEF Shape, WatchInv
<1>1. /\ UNCHANGED <<cs, m_sessionRegistry, m_sessions, task, to_disconnect,
                     dropping, now, loop>>
      /\ o \in new_entries /\ new_entries' = new_entries \ {o}
      /\ to_disconnect = {} /\ dropping = nullptr
      /\ m_expiryHeap' = m_expiryHeap \cup scheduleExpiry(o, cs[o])
  BY DEF reschedule
<1>2. \A e \in m_expiryHeap : e.session # o
  BY <1>1 DEF ExpiryUnique
<1>3. \A n \in Session : Watchable(n)' => Watchable(n)
  BY <1>1 DEF Watchable, Registered, Alive, Busy
<1>4. \A k \in Task : task[k].at = "schedule" => task[k].o # o
  BY <1>1 DEF Unscheduled
<1>5. o # dropping /\ o \notin to_disconnect
  BY <1>1 DEF Session, nullptr
<1> QED
  BY <1>1, <1>2, <1>3, <1>4, <1>5, PushWatch

LEMMA ScheduleWatch ==
  ASSUME Shape, Shape', WatchInv, [Next]_vars, NEW k \in Task, schedule(k)
  PROVE  WatchInv'
<1> USE DEF Shape, WatchInv
<1>1. PICK o \in Session : o = task[k].o /\ task[k].at = "schedule"
  BY DEF schedule, At, TaskOK, TaskFine, TypeOK, TaskState
<1>2. /\ UNCHANGED <<cs, m_sessionRegistry, m_sessions, to_disconnect,
                     new_entries, dropping, now, loop>>
      /\ m_expiryHeap' = m_expiryHeap \cup scheduleExpiry(o, cs[o])
  BY <1>1 DEF schedule
<1>3. /\ task'[k].at = "accept" /\ task'[k].t = task[k].t
      /\ \A j \in Task : j # k => task'[j] = task[j]
  BY GoType DEF schedule, Stage
<1>4. /\ \A e \in m_expiryHeap : e.session # o
      /\ o \notin to_disconnect \cup new_entries \cup {dropping}
      /\ \A j \in Task \ {k} : task[j].at = "schedule" => task[j].o # o
  BY <1>1 DEF Unscheduled
<1>5. \A n \in Session : Watchable(n)' => Watchable(n)
  BY <1>1, <1>2, <1>3 DEF Watchable, Registered, Alive, Busy
<1>6. \A j \in Task : /\ task'[j].at = "schedule" =>
                           task'[j] = task[j] /\ task[j].o # o
                      /\ task[j].at = "schedule" =>
                           task'[j] = task[j] \/ task[j].o = o
  BY <1>1, <1>3, <1>4
<1>7. new_entries' = new_entries \ {o}
  BY <1>2, <1>4
<1> QED
  BY <1>2, <1>4, <1>5, <1>6, <1>7, PushWatch

\* A session just registered is with the worker that is to schedule it.
LEMMA RegisterWatch ==
  ASSUME Shape, Shape', WatchInv, [Next]_vars, NEW k \in Task, register(k)
  PROVE  WatchInv'
<1> USE DEF Shape, WatchInv
<1>1. /\ made' = made + 1 /\ made' \in Session /\ made \in Nat
      /\ \A n \in Session : n # made' => cs'[n] = cs[n]
      /\ UNCHANGED <<m_sessions, expiry, now, loop>>
      /\ task'[k].at = "schedule" /\ task'[k].o = made' /\ task'[k].t = task[k].t
      /\ task[k].at = "register"
      /\ \A j \in Task : j # k => task'[j] = task[j]
      /\ \A c \in Client : m_sessionRegistry'[c] \in {made', m_sessionRegistry[c]}
  BY RegisterFields DEF register, At
<1>2. UNCHANGED <<m_expiryHeap, to_disconnect, new_entries, dropping>>
  BY <1>1 DEF expiry
<1>3. /\ \A e \in m_expiryHeap : e.session \in Session /\ e.session # made'
      /\ \A o \in to_disconnect \cup new_entries \cup {dropping} : o # made'
      /\ \A j \in Task : task[j].o # made'
  BY <1>1 DEF Fresh, TypeOK, ExpiryEntry, TaskState, Session, nullptr
<1>4. \A n \in Session : n # made' => Deadline(n)' = Deadline(n)
  BY <1>1 DEF Deadline
<1>5. ActivityPast'
  BY ActivityStep
<1>6. AsideOnlyInApply' /\ ExpiryUnique'
  BY <1>1, <1>2 DEF AsideOnlyInApply, ExpiryUnique
<1>7. NotLate'
  BY <1>1, <1>2, <1>3, <1>4 DEF NotLate
<1>8. ZeroNeverExpires'
  BY <1>1, <1>2, <1>3 DEF ZeroNeverExpires
<1>9. Unscheduled'
  BY <1>1, <1>2, <1>3 DEF Unscheduled
<1>10. Monitored'
  <2> SUFFICES ASSUME NEW n \in Session, Watchable(n)', n \notin Aside',
                      \A j \in Task : ~(task'[j].at = "schedule" /\ task'[j].o = n)
               PROVE  \E e \in m_expiryHeap' : /\ e.session = n
                                               /\ e.expiry_ms =< Deadline(n)'
    BY DEF Monitored, Aside
  <2>1. n # made'
    BY <1>1
  <2>2. cs'[n] = cs[n] /\ Registered(n)
    BY <1>1, <2>1 DEF Watchable, Registered
  <2>3. \A j \in Task : /\ Busy(j)' /\ task'[j].t = cs[n].session
                             => Busy(j) /\ task[j].t = cs[n].session
                        /\ ~(task[j].at = "schedule" /\ task[j].o = n)
    BY <1>1 DEF Busy
  <2>4. Watchable(n)
    BY <1>1, <2>2, <2>3 DEF Watchable, Alive
  <2>5. PICK e \in m_expiryHeap : e.session = n /\ e.expiry_ms =< Deadline(n)
    BY <1>2, <2>3, <2>4 DEF Monitored, Aside
  <2> QED
    BY <1>2, <1>4, <2>1, <2>5
<1> QED
  BY <1>5, <1>6, <1>7, <1>8, <1>9, <1>10

\* Every other step winds.
LEMMA WindingStep ==
  ASSUME Shape, Shape', WatchInv, [Next]_vars, ~collectExpired,
         \A o \in Session : ~reschedule(o),
         \A k \in Task : ~schedule(k) /\ ~register(k)
  PROVE  Winding
<1> USE DEF Shape, WatchInv
<1>0. ~collectExpired /\ (\A o \in Session : ~reschedule(o))
      /\ \A k \in Task : ~schedule(k) /\ ~register(k)
  OBVIOUS
<1>1. ASSUME UNCHANGED expiry, loop' = "apply" <=> loop = "apply" PROVE Winding
  BY <1>0, <1>1 DEF Winding, expiry, AsideOnlyInApply, Aside
<1>2. ASSUME NEW o \in Session, disconnectExpired(o) PROVE Winding
  <2>1. /\ UNCHANGED <<m_expiryHeap, new_entries, cs, task, loop>>
        /\ to_disconnect' = to_disconnect \ {o} /\ o \in to_disconnect
        /\ dropping = nullptr /\ dropping' \in {nullptr, o} /\ loop = "apply"
        /\ m_sessions' \subseteq m_sessions
        /\ dropping' = o \/ ~Alive(cs[o].session)
    BY <1>2 DEF disconnectExpired
  <2>2. dropping' # o => ~Watchable(o)'
    BY <2>1 DEF Watchable, Alive, Busy
  <2>3. \A n \in Session : Watchable(n)' /\ n \in Aside => n \in Aside'
    BY <2>1, <2>2 DEF Aside, Session, nullptr
  <2> QED
    BY <1>0, <2>1, <2>3 DEF Winding
<1>3. CASE eraseExpired
  <2>1. /\ UNCHANGED <<m_expiryHeap, new_entries, to_disconnect, loop>>
        /\ dropping \in Session /\ dropping' = nullptr /\ loop = "apply"
    BY <1>3 DEF eraseExpired, TypeOK
  <2>2. PICK o \in Session : o = dropping
    BY <2>1
  <2>3. (\A c \in Client : m_sessionRegistry'[c] # o) \/ ~cs'[o].connected
    <3>1. CASE ToErase(dropping)
      <4>1. m_sessionRegistry' = [m_sessionRegistry EXCEPT ![cs[dropping].client_id] = nullptr]
            /\ cs' = cs
        BY <1>3, <3>1 DEF eraseExpired
      <4>2. \A c \in Client : m_sessionRegistry'[c] = dropping =>
               m_sessionRegistry[c] = dropping /\ c # cs[dropping].client_id
        BY <2>1, <4>1 DEF TypeOK, Session, nullptr
      <4>3. \A c \in Client : m_sessionRegistry'[c] # dropping
        <5> SUFFICES ASSUME NEW c \in Client, m_sessionRegistry'[c] = dropping
                     PROVE  FALSE
          OBVIOUS
        <5>1. m_sessionRegistry[c] = dropping /\ c # cs[dropping].client_id
          BY <4>2
        <5>2. m_sessionRegistry[c] # nullptr
          BY <2>1, <5>1 DEF Session, nullptr
        <5> QED
          BY <5>1, <5>2 DEF RegistryKeyed
      <4> QED
        BY <2>2, <4>3
    <3>2. CASE ~ToErase(dropping)
      <4>1. cs' = [cs EXCEPT ![dropping].connected = FALSE]
        BY <1>3, <3>2 DEF eraseExpired
      <4> QED
        BY <2>2, <4>1, MarkedType
    <3> QED
      BY <3>1, <3>2
  <2>4. ~Watchable(o)'
    BY <2>3 DEF Watchable, Registered
  <2> QED
    BY <1>0, <2>1, <2>2, <2>4 DEF Winding, Aside, AsideOnlyInApply, Session, nullptr
<1>4. CASE EndExpired
  BY <1>0, <1>4 DEF EndExpired, Winding, expiry, Aside
<1>5. CASE Environment \/ UNCHANGED vars
  BY <1>1, <1>5 DEF Environment, vars, addSession, closeConnection, SessionEvent,
     Event, Tick
<1>6. CASE EnterPoll \/ PollTimeout \/ EndEvents \/ ExpirySpin
  BY <1>1, <1>6 DEF EnterPoll, PollTimeout, EndEvents, ExpirySpin
<1>7. ASSUME NEW k \in Task, Worker(k) PROVE Winding
  BY <1>0, <1>1, <1>7 DEF Worker, lookup, kick, purge, resume, accept,
     HandleRoute, HandleFlow, HandleUnsub, HandleBad, HandleOob, erase,
     forceDisconnect
<1> QED
  BY <1>0, <1>2, <1>3, <1>4, <1>5, <1>6, <1>7 DEF Next, Main

LEMMA WatchStep ==
  ASSUME Shape, Shape', WatchInv, [Next]_vars
  PROVE  WatchInv'
<1>1. CASE collectExpired
  BY <1>1, CollectWatch
<1>2. ASSUME NEW o \in Session, reschedule(o) PROVE WatchInv'
  BY <1>2, RescheduleWatch
<1>3. ASSUME NEW k \in Task, schedule(k) \/ register(k) PROVE WatchInv'
  BY <1>3, ScheduleWatch, RegisterWatch
<1>4. CASE /\ ~collectExpired /\ \A o \in Session : ~reschedule(o)
           /\ \A k \in Task : ~schedule(k) /\ ~register(k)
  BY <1>4, WindingStep, WindingWatch
<1> QED
  BY <1>1, <1>2, <1>3, <1>4

LEMMA WatchInit == Init => WatchInv
<1> SUFFICES ASSUME Init PROVE WatchInv
  OBVIOUS
<1>1. /\ m_expiryHeap = {} /\ to_disconnect = {} /\ new_entries = {}
      /\ dropping = nullptr /\ \A o \in Session : cs[o] = NewClientSession
      /\ \A k \in Task : task[k].at # "schedule"
      /\ now = 0
  BY DEF Init, Idle
<1>2. ~NewClientSession.connected /\ NewClientSession.last_activity = 0
  BY DEF NewClientSession
<1> QED
  BY <1>1, <1>2 DEF WatchInv, ActivityPast, AsideOnlyInApply, ExpiryUnique,
     NotLate, Unscheduled, ZeroNeverExpires, Monitored, Watchable

\* The expiry bookkeeping is as it should be in every reachable state.
THEOREM WatchHolds == Spec => [](Shape /\ WatchInv)
<1>1. Init => Shape /\ WatchInv
  BY ShapeInit, WatchInit
<1>2. Shape /\ WatchInv /\ [Next]_vars => (Shape /\ WatchInv)'
  BY ShapeStep, WatchStep
<1> QED
  BY <1>1, <1>2, PTL DEF Spec

\* Whatever CONNECTs, takeovers, error paths and expiries come between each
\* other, a connected client with a keep-alive has an entry on the heap that
\* falls due by its deadline, or is in the hands of a thread that will see to it.
THEOREM KeepAliveMonitored == Spec => []Monitored
<1>1. WatchInv => Monitored
  BY DEF WatchInv
<1> QED
  BY <1>1, WatchHolds, PTL

\* The expiry heap holds a session at most once, in every interleaving of the
\* main loop's push and pop with the workers that register sessions.
THEOREM HeapHasNoDuplicates == Spec => []ExpiryUnique
<1>1. WatchInv => ExpiryUnique
  BY DEF WatchInv
<1> QED
  BY <1>1, WatchHolds, PTL

\* processExpiredSessions never judges a connected client with keep_alive 0.
THEOREM ZeroKeepAliveNeverExpires == Spec => []ZeroNeverExpires
<1>1. WatchInv => ZeroNeverExpires
  BY DEF WatchInv
<1> QED
  BY <1>1, WatchHolds, PTL

-----------------------------------------------------------------------------
(***************************************************************************)
(* The history: KnownInv is inductive on top of Shape.                     *)
(***************************************************************************)

\* Where a step can take a task.
Goes(j) ==
  /\ task'[j].t = task[j].t /\ task'[j].p = task[j].p
  /\ \/ lookup(j) /\ task'[j].at \in {"kick", "register", "refuse"}
     \/ kick(j) /\ task'[j].at \in {"purge", "resume"} /\ task'[j].o = task[j].o
                /\ (task'[j].at = "purge" => task[j].p.cleansession)
     \/ purge(j) /\ task'[j].at \in {"register", "refuse"}
     \/ resume(j) /\ task'[j].at \in {"accept", "refuse"}
     \/ register(j) /\ task'[j].at = "schedule"
     \/ schedule(j) /\ task'[j].at = "accept"
     \/ /\ task[j].at = "parse"
        /\ task'[j].at = "erase"
        /\ task'[j].o \in Session /\ cs[task'[j].o].cleansession
     \/ task[j].at \in {"parse", "erase"} /\ task'[j].at = "drop"

Moves(j) ==
  \/ task'[j] = task[j]
  \/ task[j].at = "idle" /\ task'[j].at = "parse"
  \/ task'[j].at = "idle" /\ (task[j].at \in {"accept", "parse"} \/ forceDisconnect(j))
  \/ Goes(j)

LEMMA MovesStep ==
  ASSUME TypeOK, TaskOK, [Next]_vars, NEW j \in Task
  PROVE  Moves(j)
<1>1. ASSUME UNCHANGED task PROVE Moves(j)
  BY <1>1 DEF Moves
<1>2. ASSUME NEW k \in Task, Done(k), task[k].at \in {"accept", "parse"} \/ forceDisconnect(k)
      PROVE  Moves(j)
  BY <1>2, DoneType DEF Moves
<1>3. ASSUME NEW t \in Transport, NEW p \in Connect \cup Others, NEW k \in Task,
             SessionEvent(t, p, k)
      PROVE  Moves(j)
  <2>1. /\ task'[k] = [at |-> "parse", t |-> t, p |-> p, o |-> nullptr]
        /\ \A n \in Task : n # k => task'[n] = task[n]
        /\ task[k].at = "idle"
    BY <1>3 DEF SessionEvent, TypeOK, Busy
  <2> QED
    BY <2>1 DEF Moves
<1>4. ASSUME NEW k \in Task, NEW stage \in Stage, NEW o \in Session \cup {nullptr},
             Go(k, stage, o),
             \/ lookup(k) /\ stage \in {"kick", "register", "refuse"}
             \/ kick(k) /\ stage \in {"purge", "resume"} /\ o = task[k].o
                  /\ (stage = "purge" => task[k].p.cleansession)
             \/ purge(k) /\ stage \in {"register", "refuse"}
             \/ resume(k) /\ stage \in {"accept", "refuse"}
             \/ register(k) /\ stage = "schedule"
             \/ schedule(k) /\ stage = "accept"
             \/ /\ task[k].at = "parse" /\ stage = "erase"
                /\ o \in Session /\ cs[o].cleansession
             \/ task[k].at \in {"parse", "erase"} /\ stage = "drop"
      PROVE  Moves(j)
  <2>1. /\ task'[k].at = stage /\ task'[k].o = o
        /\ task'[k].t = task[k].t /\ task'[k].p = task[k].p
        /\ \A n \in Task : n # k => task'[n] = task[n]
    BY <1>4, GoType
  <2>2. Goes(k)
    BY <1>4, <2>1 DEF Goes
  <2> QED
    BY <2>1, <2>2 DEF Moves
<1>5. ASSUME NEW k \in Task, lookup(k) PROVE Moves(j)
  <2> DEFINE o == m_sessionRegistry[task[k].p.client_id]
             stage == IF o # nullptr THEN "kick" ELSE Register(task[k].p)
  <2>1. task[k].p.client_id \in Client
    BY <1>5, ConnectFields DEF lookup
  <2>2. o \in Session \cup {nullptr} /\ stage \in Stage
        /\ Go(k, stage, o) /\ stage \in {"kick", "register", "refuse"}
    BY <1>5, <2>1 DEF lookup, Register, Stage, TypeOK
  <2> HIDE DEF o, stage
  <2> QED
    BY <1>4, <1>5, <2>2
<1>6. ASSUME NEW k \in Task, kick(k) PROVE Moves(j)
  <2> DEFINE stage == IF task[k].p.cleansession THEN "purge" ELSE "resume"
  <2>1. stage \in Stage /\ Go(k, stage, task[k].o) /\ stage \in {"purge", "resume"}
        /\ (stage = "purge" => task[k].p.cleansession)
    BY <1>6 DEF kick, Stage
  <2>2. task[k].o \in Session \cup {nullptr}
    BY DEF TypeOK, TaskState
  <2> HIDE DEF stage
  <2> QED
    BY <1>4, <1>6, <2>1, <2>2
<1>7. ASSUME NEW k \in Task, purge(k) PROVE Moves(j)
  <2>1. PICK stage \in Stage : Go(k, stage, nullptr) /\ stage \in {"register", "refuse"}
    BY <1>7 DEF purge, Register, Stage
  <2> QED
    BY <1>4, <1>7, <2>1
<1>8. ASSUME NEW k \in Task, resume(k) PROVE Moves(j)
  <2>1. PICK stage \in Stage : Go(k, stage, nullptr) /\ stage \in {"accept", "refuse"}
    BY <1>8 DEF resume, Answer, Stage
  <2> QED
    BY <1>4, <1>8, <2>1
<1>9. ASSUME NEW k \in Task, register(k) PROVE Moves(j)
  <2>1. "schedule" \in Stage /\ made + 1 \in Session /\ Go(k, "schedule", made + 1)
    BY <1>9, RegisterFields DEF register, Stage
  <2> QED
    BY <1>4, <1>9, <2>1
<1>10. ASSUME NEW k \in Task, schedule(k) PROVE Moves(j)
  <2>1. "accept" \in Stage /\ Go(k, "accept", nullptr)
    BY <1>10 DEF schedule, Stage
  <2> QED
    BY <1>4, <1>10, <2>1
<1>11. ASSUME NEW k \in Task, ParseError(k), task[k].at = "parse" PROVE Moves(j)
  <2> DEFINE o == Own(task[k].t)
             stage == IF ErasesSession(o) THEN "erase" ELSE "drop"
  <2>1. CASE Done(k)
    BY <1>2, <1>11, <2>1
  <2>2. CASE o # nullptr /\ Go(k, stage, o)
    <3>0. task[k].t \in Transport
      BY <1>11 DEF TaskOK, TaskFine, Busy, TypeOK, TaskState, nullptr
    <3>1. o \in Session
      BY <2>2, <3>0 DEF Own, TypeOK
    <3>2. stage \in Stage /\ stage \in {"erase", "drop"}
          /\ (stage = "erase" => cs[o].cleansession)
      BY DEF Stage, ErasesSession
    <3> HIDE DEF o, stage
    <3> QED
      BY <1>4, <1>11, <2>2, <3>1, <3>2
  <2> QED
    BY <1>11, <2>1, <2>2 DEF ParseError
<1>12. ASSUME NEW k \in Task, HandleBad(k) \/ HandleOob(k) PROVE Moves(j)
  BY <1>2, <1>11, <1>12 DEF HandleBad, HandleOob, At
<1>13. ASSUME NEW k \in Task, erase(k) PROVE Moves(j)
  <2>1. Go(k, "drop", task[k].o) /\ "drop" \in Stage /\ task[k].at = "erase"
        /\ task[k].o \in Session \cup {nullptr}
    BY <1>13 DEF erase, Stage, At, TypeOK, TaskState
  <2> QED
    BY <1>4, <2>1
<1>14. ASSUME NEW k \in Task,
              \/ accept(k) \/ forceDisconnect(k) \/ HandleRoute(k)
              \/ HandleFlow(k) \/ HandleUnsub(k)
       PROVE  Moves(j)
  BY <1>2, <1>14 DEF accept, forceDisconnect, HandleRoute, HandleFlow,
     HandleUnsub, At
<1>15. ASSUME Main \/ addSession \/ Tick \/ UNCHANGED vars PROVE Moves(j)
  BY <1>1, <1>15 DEF Main, EnterPoll, PollTimeout, EndEvents, ExpirySpin,
     collectExpired, disconnectExpired, reschedule, eraseExpired, EndExpired,
     addSession, Event, Tick, vars
<1>16. ASSUME NEW t \in Transport, closeConnection(t) PROVE Moves(j)
  BY <1>1, <1>16 DEF closeConnection
<1> QED
  BY <1>3, <1>5, <1>6, <1>7, <1>8, <1>9, <1>10, <1>12, <1>13, <1>14, <1>15, <1>16
     DEF Next, Environment, Worker

\* A CONNECT looks up and registers under its own client_id.
LEMMA TaskClient ==
  ASSUME TypeOK, TaskOK, NEW k \in Task, task[k].at \in Connecting
  PROVE  task[k].p \in Connect /\ task[k].p.client_id \in Client
         /\ task[k].p.client_id # NoClient
  BY ConnectFields DEF TaskOK, TaskFine

\* The history only grows.
LEMMA DidGrows ==
  ASSUME TypeOK, TaskOK, [Next]_vars
  PROVE  \A c \in Client : did[c] \subseteq did'[c]
<1>1. CASE UNCHANGED did
  BY <1>1
<1>2. CASE eraseExpired
  BY <1>2 DEF eraseExpired, TypeOK
<1>3. ASSUME NEW k \in Task, lookup(k) \/ resume(k) \/ erase(k)
      PROVE  \A c \in Client : did[c] \subseteq did'[c]
  BY <1>3 DEF lookup, resume, erase, TypeOK
<1> QED
  BY <1>1, <1>2, <1>3
     DEF Next, Main, Environment, Worker, vars, EnterPoll, PollTimeout,
     EndEvents, ExpirySpin, collectExpired, disconnectExpired, reschedule,
     EndExpired, addSession, closeConnection, SessionEvent, Tick, kick, purge,
     register, schedule, accept, HandleRoute, HandleFlow, HandleUnsub,
     HandleBad, HandleOob, forceDisconnect

\* A step takes a client out of the registry only if it used a clean session
\* or another thread meant another session.
Excused == \A c \in Client :
  \/ m_sessionRegistry'[c] = m_sessionRegistry[c]
  \/ m_sessionRegistry'[c] = nullptr /\ ~Clear(c, {"clean", "robbed"})'

LEMMA ExcusedStep ==
  ASSUME Shape, CleanKnown, [Next]_vars, \A k \in Task : ~register(k)
  PROVE  Excused
<1> USE DEF Shape
<1>0. \A k \in Task : ~register(k)
  OBVIOUS
<1>g. \A c \in Client : did[c] \subseteq did'[c]
  BY DidGrows
<1>1. ASSUME UNCHANGED m_sessionRegistry PROVE Excused
  BY <1>1 DEF Excused
<1>2. ASSUME NEW b \in Client,
             m_sessionRegistry' = [m_sessionRegistry EXCEPT ![b] = nullptr],
             "clean" \in did'[b] \/ "robbed" \in did'[b]
      PROVE  Excused
  BY <1>2 DEF Excused, TypeOK, Clear
<1>3. ASSUME eraseExpired PROVE Excused
  <2>1. PICK o \in Session : o = dropping /\ o =< made
    BY <1>3 DEF eraseExpired, TypeOK, Fresh
  <2>2. PICK c \in Client : c = cs[o].client_id
    BY <2>1 DEF Named
  <2>3. CASE ToErase(o) /\ m_sessionRegistry[c] = o
    <3>1. "clean" \in did[c]
      BY <2>1, <2>2, <2>3 DEF CleanKnown, ToErase
    <3> QED
      BY <1>1, <1>2, <1>3, <1>g, <2>1, <2>2, <3>1 DEF eraseExpired
  <2>4. CASE ToErase(o) /\ m_sessionRegistry[c] # o
    <3>1. m_sessionRegistry' = [m_sessionRegistry EXCEPT ![c] = nullptr]
          /\ did' = [did EXCEPT ![c] = @ \cup {"robbed"}]
      BY <1>3, <2>1, <2>2, <2>4 DEF eraseExpired
    <3>2. "robbed" \in did'[c]
      BY <3>1 DEF TypeOK
    <3> QED
      BY <1>2, <3>1, <3>2
  <2>5. CASE ~ToErase(o)
    BY <1>1, <1>3, <2>1, <2>5 DEF eraseExpired
  <2> QED
    BY <2>3, <2>4, <2>5
<1>4. ASSUME NEW k \in Task, purge(k) PROVE Excused
  <2>1. task[k].at \in Connecting /\ task[k].p.cleansession
    BY <1>4 DEF purge, At, TaskOK, TaskFine, Connecting
  <2>2. task[k].p.client_id \in Client /\ "clean" \in did[task[k].p.client_id]
    BY <2>1, TaskClient DEF CleanKnown
  <2> QED
    BY <1>2, <1>4, <1>g, <2>2 DEF purge
<1>5. ASSUME NEW k \in Task, erase(k) PROVE Excused
  <2>1. PICK t \in Transport, o \in Session : t = task[k].t /\ o = task[k].o
        /\ client_id[t] # NoClient /\ task[k].at = "erase"
    BY <1>5 DEF erase, At, TaskOK, TaskFine, Busy, TypeOK, TaskState, nullptr
  <2>2. PICK c \in Client : c = client_id[t]
    BY <2>1 DEF TypeOK
  <2>3. /\ m_sessionRegistry' = [m_sessionRegistry EXCEPT ![c] = nullptr]
        /\ did' = [did EXCEPT ![c] =
                     @ \cup IF m_sessionRegistry[c] = o /\ cs[o].session = t
                          THEN {} ELSE {"robbed"}]
    BY <1>5, <2>1, <2>2 DEF erase
  <2>4. CASE m_sessionRegistry[c] = o
    <3>1. cs[o].client_id = c
      BY <2>4 DEF RegistryKeyed, Session, nullptr
    <3>2. "clean" \in did[c]
      BY <2>1, <3>1 DEF CleanKnown
    <3> QED
      BY <1>2, <1>g, <2>3, <3>2
  <2>5. CASE m_sessionRegistry[c] # o
    <3>1. "robbed" \in did'[c]
      BY <2>3, <2>5 DEF TypeOK
    <3> QED
      BY <1>2, <2>3, <3>1
  <2> QED
    BY <2>4, <2>5
<1> QED
  BY <1>0, <1>1, <1>3, <1>4, <1>5
     DEF Next, Main, Environment, Worker, vars, EnterPoll, PollTimeout,
     EndEvents, ExpirySpin, collectExpired, disconnectExpired, reschedule,
     EndExpired, addSession, closeConnection, SessionEvent, Tick, lookup, kick,
     resume, schedule, accept, HandleRoute, HandleFlow, HandleUnsub,
     HandleBad, HandleOob, forceDisconnect

\* cleansession and client_id change where connectHandler and parseData set them.
LEMMA Names ==
  ASSUME Shape, Shape', [Next]_vars, \A k \in Task : ~register(k)
  PROVE  /\ \A o \in Session :
              \/ cs'[o].cleansession = cs[o].cleansession
              \/ \E k \in Task : /\ task[k].at = "resume" /\ task[k].o = o
                                 /\ cs'[o].cleansession = task[k].p.cleansession
         /\ \A t \in Transport :
              \/ client_id'[t] = client_id[t]
              \/ \E k \in Task : /\ task[k].at = "accept" /\ task[k].t = t
                                 /\ client_id'[t] = task[k].p.client_id
<1> USE DEF Shape
<1> DEFINE C == \A o \in Session :
                  \/ cs'[o].cleansession = cs[o].cleansession
                  \/ \E k \in Task : /\ task[k].at = "resume" /\ task[k].o = o
                                     /\ cs'[o].cleansession = task[k].p.cleansession
<1>0. \A k \in Task : ~register(k)
  OBVIOUS
<1>1. C
  <2>1. ASSUME cs' = cs PROVE C
    BY <2>1
  <2>2. ASSUME NEW o, cs' = [cs EXCEPT ![o].connected = FALSE] PROVE C
    BY <2>2, MarkedType
  <2>3. ASSUME NEW k \in Task, resume(k) PROVE C
    <3>1. task[k].at = "resume"
      BY <2>3 DEF resume, At
    <3>2. \A n \in Session :
            /\ n = task[k].o => cs'[n].cleansession = task[k].p.cleansession
            /\ n # task[k].o => cs'[n] = cs[n]
      BY <2>3, ResumedType
    <3> QED
      BY <3>1, <3>2
  <2>4. ASSUME NEW k \in Task, HandleRoute(k) \/ HandleFlow(k) PROVE C
    <3>0. task[k].t \in Transport
      BY <2>4 DEF HandleRoute, HandleFlow, At, Busy, TaskOK, TaskFine, TypeOK,
         TaskState, nullptr
    <3>1. Own(task[k].t) \in Session \cup {nullptr}
      BY <3>0 DEF Own, TypeOK
    <3>2. PICK o \in Session \cup {nullptr} :
            cs' = IF o = nullptr THEN cs
                  ELSE [cs EXCEPT ![o].last_activity = now]
      BY <2>4, <3>1 DEF HandleRoute, HandleFlow, updateActivity
    <3>3. \A n \in Session : cs'[n].cleansession = cs[n].cleansession
      BY <3>2 DEF TypeOK, ClientSession
    <3> QED
      BY <3>3
  <2>5. ASSUME NEW k \in Task, kick(k) PROVE C
    BY <2>2, <2>5 DEF kick
  <2>6. ASSUME eraseExpired PROVE C
    BY <2>1, <2>2, <2>6 DEF eraseExpired
  <2> HIDE DEF C
  <2> QED
    BY <1>0, <2>1, <2>3, <2>4, <2>5, <2>6
       DEF Next, Main, Environment, Worker, vars, EnterPoll, PollTimeout,
       EndEvents, ExpirySpin, collectExpired, disconnectExpired, reschedule,
       EndExpired, addSession, closeConnection, SessionEvent,
       Tick, lookup, purge, schedule, accept, HandleUnsub, HandleBad, HandleOob,
       erase, forceDisconnect
<1>2. \A t \in Transport :
        \/ client_id'[t] = client_id[t]
        \/ \E k \in Task : /\ task[k].at = "accept" /\ task[k].t = t
                           /\ client_id'[t] = task[k].p.client_id
  <2>1. CASE UNCHANGED client_id
    BY <2>1
  <2>2. ASSUME NEW k \in Task, accept(k)
        PROVE  \A t \in Transport :
                 \/ client_id'[t] = client_id[t]
                 \/ /\ task[k].at = "accept" /\ task[k].t = t
                    /\ client_id'[t] = task[k].p.client_id
    BY <2>2 DEF accept, At, TypeOK
  <2> QED
    BY <1>0, <2>1, <2>2
       DEF Next, Main, Environment, Worker, vars, EnterPoll, PollTimeout,
       EndEvents, ExpirySpin, collectExpired, disconnectExpired, reschedule,
       eraseExpired, EndExpired, addSession, closeConnection, SessionEvent,
       Tick, lookup, kick, purge, resume, schedule, HandleRoute, HandleFlow,
       HandleUnsub, HandleBad, HandleOob, erase, forceDisconnect
<1> QED
  BY <1>1, <1>2

\* A look-up puts what happened to the client into the history.
LEMMA LookupFields ==
  ASSUME Shape, NEW k \in Task, lookup(k)
  PROVE  LET c == task[k].p.client_id
         IN  /\ c \in Client /\ task[k].at = "parse" /\ task[k].p \in Connect
             /\ UNCHANGED <<m_sessionRegistry, made, cs, client_id, m_sessions>>
             /\ task'[k].p = task[k].p /\ task'[k].t = task[k].t
             /\ task'[k].o = m_sessionRegistry[c]
             /\ task'[k].at \in {"kick", "register", "refuse"}
             /\ task'[k].at = "kick" <=> m_sessionRegistry[c] # nullptr
             /\ \A j \in Task : j # k => task'[j] = task[j]
             /\ task[k].p.cleansession => "clean" \in did'[c]
             /\ (\E j \in Task : Inside(j, c)) => "raced" \in did'[c]
<1> USE DEF Shape
<1> DEFINE c == task[k].p.client_id
           o == m_sessionRegistry[c]
           stage == IF o # nullptr THEN "kick" ELSE Register(task[k].p)
<1>1. c \in Client /\ task[k].at = "parse" /\ task[k].p \in Connect
  BY ConnectFields DEF lookup, At
<1>2. o \in Session \cup {nullptr} /\ stage \in Stage /\ Go(k, stage, o)
      /\ stage \in {"kick", "register", "refuse"} /\ (stage = "kick" <=> o # nullptr)
  BY <1>1 DEF lookup, Register, Stage, TypeOK
<1>3. /\ UNCHANGED <<m_sessionRegistry, made, cs, client_id, m_sessions>>
      /\ task[k].p.cleansession => "clean" \in did'[c]
      /\ (\E j \in Task : Inside(j, c)) => "raced" \in did'[c]
  BY <1>1 DEF lookup, TypeOK, numbers
<1> HIDE DEF o, stage, c
<1>4. /\ task'[k].at = stage /\ task'[k].o = o
      /\ task'[k].t = task[k].t /\ task'[k].p = task[k].p
      /\ \A j \in Task : j # k => task'[j] = task[j]
  BY <1>2, GoType
<1> QED
  BY <1>1, <1>2, <1>3, <1>4 DEF o, c

LEMMA CleanKnownStep ==
  ASSUME Shape, Shape', KnownInv, [Next]_vars
  PROVE  CleanKnown'
<1> USE DEF Shape, KnownInv
<1>g. \A c \in Client : did[c] \subseteq did'[c]
  BY DidGrows
<1>n. made \in Nat /\ \A o \in Session : o \in Nat
  BY DEF TypeOK, Session
<1>1. \A o \in Session : o =< made' /\ cs'[o].cleansession =>
        "clean" \in did'[cs'[o].client_id]
  <2>1. CASE \A k \in Task : ~register(k)
    <3>1. Steady
      BY <2>1, SteadyStep
    <3> SUFFICES ASSUME NEW o \in Session, o =< made', cs'[o].cleansession
                 PROVE  "clean" \in did'[cs'[o].client_id]
      OBVIOUS
    <3>2. o =< made /\ cs'[o].client_id = cs[o].client_id /\ cs[o].client_id \in Client
      BY <3>1 DEF Steady, SteadyCounts, SteadySessions, Named
    <3>3. CASE cs[o].cleansession
      BY <1>g, <3>2, <3>3 DEF CleanKnown
    <3>4. ASSUME NEW k \in Task, task[k].at = "resume", task[k].o = o,
                 task[k].p.cleansession
          PROVE  "clean" \in did'[cs'[o].client_id]
      <4>1. cs[o].client_id = task[k].p.client_id
        BY <3>4 DEF TaskOK, TaskFine
      <4>2. "clean" \in did[task[k].p.client_id]
        BY <3>4 DEF CleanKnown, Connecting
      <4> QED
        BY <1>g, <3>2, <4>1, <4>2
    <3> QED
      BY <2>1, <3>3, <3>4, Names
  <2>2. ASSUME NEW k \in Task, register(k)
        PROVE  \A o \in Session : o =< made' /\ cs'[o].cleansession =>
                 "clean" \in did'[cs'[o].client_id]
    <3>1. /\ made' = made + 1 /\ made' \in Session /\ did' = did
          /\ \A n \in Session : n # made' => cs'[n] = cs[n]
          /\ task[k].at = "register"
      BY <2>2, RegisterFields DEF register, At
    <3>2. cs'[made'].client_id = task[k].p.client_id
          /\ cs'[made'].cleansession = task[k].p.cleansession
      <4>1. cs'[made'] = [client_id |-> task[k].p.client_id,
                          keep_alive |-> task[k].p.keep_alive,
                          cleansession |-> task[k].p.cleansession,
                          connected |-> TRUE, session |-> task[k].t,
                          last_activity |-> now]
        BY <2>2, RegisterFields
      <4> QED
        BY <4>1
    <3>3. task[k].p.cleansession => "clean" \in did[task[k].p.client_id]
      BY <3>1 DEF CleanKnown, Connecting
    <3> QED
      BY <1>n, <3>1, <3>2, <3>3 DEF CleanKnown
  <2> QED
    BY <2>1, <2>2
<1>2. ASSUME NEW k \in Task, task'[k].at \in Connecting, task'[k].p.cleansession
      PROVE  "clean" \in did'[task'[k].p.client_id]
  <2>1. task'[k].p.client_id \in Client
    BY <1>2, TaskClient DEF Connecting, TaskOK, TaskFine, Connect
  <2>2. CASE lookup(k)
    BY <1>2, <2>2, LookupFields
  <2>3. CASE ~lookup(k)
    <3>1. task[k].at \in Connecting /\ task'[k].p = task[k].p
      BY <1>2, <2>3, MovesStep DEF Moves, Goes, Connecting, kick, purge, resume,
         register, schedule, At
    <3> QED
      BY <1>2, <1>g, <2>1, <3>1 DEF CleanKnown
  <2> QED
    BY <2>2, <2>3
<1>3. ASSUME NEW k \in Task, task'[k].at = "erase"
      PROVE  "clean" \in did'[cs'[task'[k].o].client_id]
  <2>1. task'[k] = task[k] \/ (/\ task[k].at = "parse" /\ task'[k].o \in Session
                               /\ cs[task'[k].o].cleansession)
    BY <1>3, MovesStep DEF Moves, Goes
  <2>2. PICK o \in Session : o = task'[k].o
    BY <1>3 DEF TaskOK, TaskFine, TypeOK, TaskState
  <2>3. o =< made /\ cs'[o].client_id = cs[o].client_id
    <3>1. CASE \A j \in Task : ~register(j)
      <4>1. Steady
        BY <3>1, SteadyStep
      <4>2. o =< made'
        BY <2>2 DEF Fresh
      <4> QED
        BY <4>1, <4>2 DEF Steady, SteadyCounts, SteadySessions
    <3>2. ASSUME NEW j \in Task, register(j)
          PROVE  o =< made /\ cs'[o].client_id = cs[o].client_id
      <4>1. /\ made' = made + 1 /\ task[j].at = "register"
            /\ \A n \in Session : n # made' => cs'[n] = cs[n]
            /\ task'[j].at = "schedule"
            /\ \A i \in Task : i # j => task'[i] = task[i]
        BY <3>2, RegisterFields DEF register, At
      <4>2. task'[k] = task[k]
        BY <1>3, <4>1
      <4>3. o =< made
        BY <2>2, <4>2 DEF Fresh
      <4> QED
        BY <1>n, <4>1, <4>3
    <3> QED
      BY <3>1, <3>2
  <2>4. "clean" \in did[cs[o].client_id]
    BY <1>3, <2>1, <2>2, <2>3 DEF CleanKnown
  <2> QED
    BY <1>g, <2>2, <2>3, <2>4 DEF Named
<1> QED
  BY <1>1, <1>2, <1>3 DEF CleanKnown

\* Who is inside came in by a look-up.
LEMMA InsideKept ==
  ASSUME Shape, [Next]_vars, NEW j \in Task, ~lookup(j), NEW c, Inside(j, c)'
  PROVE  Inside(j, c)
  BY MovesStep DEF Shape, Moves, Goes, Inside, kick, purge, resume, register,
     schedule, At

LEMMA OneInsideStep ==
  ASSUME Shape, Shape', KnownInv, [Next]_vars
  PROVE  OneInside'
<1> USE DEF Shape, KnownInv
<1>g. \A c \in Client : did[c] \subseteq did'[c]
  BY DidGrows
<1> SUFFICES ASSUME NEW c \in Client, NEW j \in Task, NEW k \in Task,
                    Clear(c, {"raced"})', Inside(j, c)', Inside(k, c)', j # k
             PROVE  FALSE
  BY DEF OneInside
<1>1. Clear(c, {"raced"}) /\ "raced" \notin did'[c]
  BY <1>g DEF Clear
<1>2. CASE ~lookup(j) /\ ~lookup(k)
  BY <1>1, <1>2, InsideKept DEF OneInside
<1>3. ASSUME NEW i \in Task, NEW n \in Task, lookup(i), i # n,
             Inside(i, c)', Inside(n, c)'
      PROVE  FALSE
  <2>1. /\ task[i].p.client_id = c /\ task'[n] = task[n]
        /\ (\E m \in Task : Inside(m, c)) => "raced" \in did'[c]
    BY <1>3, LookupFields DEF Inside
  <2>2. Inside(n, c)
    BY <1>3, <2>1 DEF Inside
  <2> QED
    BY <1>1, <2>1, <2>2
<1> QED
  BY <1>2, <1>3

LEMMA RegisterFreeStep ==
  ASSUME Shape, Shape', KnownInv, [Next]_vars
  PROVE  RegisterFree'
<1> USE DEF Shape, KnownInv
<1>g. \A c \in Client : did[c] \subseteq did'[c]
  BY DidGrows
<1> SUFFICES ASSUME NEW k \in Task, task'[k].at = "register",
                    NEW c \in Client, c = task'[k].p.client_id,
                    Clear(c, {"clean", "raced"})'
             PROVE  m_sessionRegistry'[c] = nullptr
  BY TaskClient DEF RegisterFree, Connecting, TaskOK, TaskFine, Connect
<1>1. Clear(c, {"clean", "raced"}) /\ Clear(c, {"raced"})
  BY <1>g DEF Clear
<1>2. CASE lookup(k)
  BY <1>2, LookupFields
<1>3. CASE ~lookup(k)
  <2>1. /\ task'[k].p = task[k].p
        /\ task[k].at = "register" \/ purge(k)
    BY <1>3, MovesStep DEF Moves, Goes
  <2>2. ~purge(k)
    BY <1>1, <2>1 DEF purge, At, TaskOK, TaskFine, Connecting, CleanKnown, Clear
  <2>3. m_sessionRegistry[c] = nullptr /\ task[k].at = "register"
    BY <1>1, <2>1, <2>2 DEF RegisterFree
  <2>4. CASE \A j \in Task : ~register(j)
    BY <2>3, <2>4, ExcusedStep DEF Excused
  <2>5. ASSUME NEW j \in Task, register(j) PROVE m_sessionRegistry'[c] = nullptr
    <3>1. /\ task'[j].at = "schedule" /\ task[j].at = "register"
          /\ \A b \in Client : m_sessionRegistry'[b] =
               IF b = task[j].p.client_id THEN made' ELSE m_sessionRegistry[b]
      BY <2>5, RegisterFields DEF register, At
    <3>2. c # task[j].p.client_id
      BY <1>1, <2>1, <2>3, <3>1 DEF OneInside, Inside
    <3> QED
      BY <2>3, <3>1, <3>2
  <2> QED
    BY <2>4, <2>5
<1> QED
  BY <1>2, <1>3

LEMMA FoundStep ==
  ASSUME Shape, Shape', KnownInv, [Next]_vars
  PROVE  Found'
<1> USE DEF Shape, KnownInv
<1>g. \A c \in Client : did[c] \subseteq did'[c]
  BY DidGrows
<1> DEFINE Has(j, c) == task[j].at \in {"kick", "resume", "schedule", "accept"}
                        /\ task[j].p.client_id = c
<1> SUFFICES ASSUME NEW c \in Client, Clear(c, {"clean", "robbed"})',
                    \/ \E t \in Transport : client_id'[t] = c
                    \/ \E k \in Task : Has(k, c)'
             PROVE  m_sessionRegistry'[c] # nullptr
  BY DEF Found
<1>1. Clear(c, {"clean", "robbed"})
  BY <1>g DEF Clear
<1>2. ASSUME NEW k \in Task, register(k) PROVE m_sessionRegistry'[c] # nullptr
  <2>1. /\ made' \in Session /\ client_id' = client_id
        /\ task'[k].p = task[k].p
        /\ \A j \in Task : j # k => task'[j] = task[j]
        /\ \A b \in Client : m_sessionRegistry'[b] =
             IF b = task[k].p.client_id THEN made' ELSE m_sessionRegistry[b]
    BY <1>2, RegisterFields
  <2>2. made' # nullptr
    BY <2>1 DEF Session, nullptr
  <2>3. CASE c = task[k].p.client_id
    BY <2>1, <2>2, <2>3
  <2>4. CASE c # task[k].p.client_id
    <3>1. \A j \in Task : Has(j, c)' => Has(j, c)
      BY <2>1, <2>4
    <3>2. m_sessionRegistry[c] # nullptr
      BY <1>1, <2>1, <3>1 DEF Found
    <3> QED
      BY <2>1, <2>4, <3>2
  <2> QED
    BY <2>3, <2>4
<1>3. CASE \A k \in Task : ~register(k)
  <2>1. m_sessionRegistry[c] # nullptr
    <3>1. ASSUME NEW t \in Transport, client_id'[t] = c PROVE m_sessionRegistry[c] # nullptr
      BY <1>1, <1>3, <3>1, Names DEF Found
    <3>2. ASSUME NEW k \in Task, Has(k, c)' PROVE m_sessionRegistry[c] # nullptr
      <4>1. CASE lookup(k)
        BY <3>2, <4>1, LookupFields
      <4>2. CASE ~lookup(k)
        <5>1. Has(k, c)
          BY <1>3, <3>2, <4>2, MovesStep DEF Moves, Goes, kick, purge, resume,
             schedule, At
        <5> QED
          BY <1>1, <5>1 DEF Found
      <4> QED
        BY <4>1, <4>2
    <3> HIDE DEF Has
    <3> QED
      BY <3>1, <3>2
  <2> QED
    BY <1>3, <2>1, ExcusedStep DEF Excused
<1> QED
  BY <1>2, <1>3

LEMMA AllRegisteredStep ==
  ASSUME Shape, Shape', KnownInv, [Next]_vars
  PROVE  AllRegistered'
<1> USE DEF Shape, KnownInv
<1>g. \A c \in Client : did[c] \subseteq did'[c]
  BY DidGrows
<1>n. made \in Nat /\ \A o \in Session : o \in Nat /\ o # nullptr
  BY DEF TypeOK, Session, nullptr
<1> SUFFICES ASSUME NEW o \in Session, o =< made', NEW c \in Client,
                    c = cs'[o].client_id,
                    Clear(c, {"clean", "raced", "robbed"})'
             PROVE  m_sessionRegistry'[c] = o
  BY DEF AllRegistered, Named
<1>1. /\ Clear(c, {"clean", "raced", "robbed"}) /\ Clear(c, {"clean", "raced"})
      /\ Clear(c, {"clean", "robbed"})'
  BY <1>g DEF Clear
<1>2. CASE \A k \in Task : ~register(k)
  <2>1. Steady
    BY <1>2, SteadyStep
  <2>2. o =< made /\ c = cs[o].client_id
    BY <2>1 DEF Steady, SteadyCounts, SteadySessions
  <2>3. m_sessionRegistry[c] = o
    BY <1>1, <2>2 DEF AllRegistered
  <2> QED
    BY <1>1, <1>2, <2>3, ExcusedStep DEF Excused
<1>3. ASSUME NEW k \in Task, register(k) PROVE m_sessionRegistry'[c] = o
  <2>1. /\ made' = made + 1 /\ made' \in Session
        /\ \A n \in Session : n # made' => cs'[n] = cs[n]
        /\ \A b \in Client : m_sessionRegistry'[b] =
             IF b = task[k].p.client_id THEN made' ELSE m_sessionRegistry[b]
        /\ task[k].at = "register"
    BY <1>3, RegisterFields DEF register, At
  <2>2. cs'[made'].client_id = task[k].p.client_id
    <3>1. cs'[made'] = [client_id |-> task[k].p.client_id,
                        keep_alive |-> task[k].p.keep_alive,
                        cleansession |-> task[k].p.cleansession,
                        connected |-> TRUE, session |-> task[k].t,
                        last_activity |-> now]
      BY <1>3, RegisterFields
    <3> QED
      BY <3>1
  <2>3. CASE o = made'
    BY <2>1, <2>2, <2>3
  <2>4. CASE o # made'
    <3>1. o =< made /\ c = cs[o].client_id
      BY <1>n, <2>1, <2>4
    <3>2. m_sessionRegistry[c] = o
      BY <1>1, <3>1 DEF AllRegistered
    <3>3. c # task[k].p.client_id
      BY <1>1, <1>n, <2>1, <3>2 DEF RegisterFree
    <3> QED
      BY <2>1, <3>2, <3>3
  <2> QED
    BY <2>3, <2>4
<1> QED
  BY <1>2, <1>3

LEMMA KnownStep ==
  ASSUME Shape, Shape', KnownInv, [Next]_vars
  PROVE  KnownInv'
  BY CleanKnownStep, OneInsideStep, RegisterFreeStep, FoundStep, AllRegisteredStep
     DEF KnownInv

LEMMA KnownInit == Init => KnownInv
<1> SUFFICES ASSUME Init PROVE KnownInv
  OBVIOUS
<1>1. /\ made = 0 /\ \A k \in Task : task[k].at = "idle"
      /\ \A t \in Transport : client_id[t] = NoClient
      /\ NoClient \notin Client /\ \A o \in Session : ~(o =< 0)
  BY ConstantsAssumption DEF Init, Idle, Session
<1> QED
  BY <1>1 DEF KnownInv, CleanKnown, OneInside, RegisterFree, Found,
     AllRegistered, Inside, Connecting

THEOREM KnownHolds == Spec => [](Shape /\ KnownInv)
<1>1. Init => Shape /\ KnownInv
  BY ShapeInit, KnownInit
<1>2. Shape /\ KnownInv /\ [Next]_vars => (Shape /\ KnownInv)'
  BY ShapeStep, KnownStep
<1> QED
  BY <1>1, <1>2, PTL DEF Spec

\* The heap entries of a client that used no clean session, whose CONNECTs did
\* not overlap and whose entry nobody erased by mistake lead to the registered
\* session, so processExpiredSessions can lock and pop them.
THEOREM HeapEntriesLive == Spec => []EntriesLive
<1>1. Shape /\ KnownInv => EntriesLive
  <2> SUFFICES ASSUME Shape, KnownInv, NEW e \in m_expiryHeap,
                      Clear(cs[e.session].client_id, {"clean", "raced", "robbed"})
               PROVE  Registered(e.session)
    BY DEF EntriesLive
  <2>1. e.session \in Session /\ e.session =< made
    BY DEF Shape, TypeOK, Fresh, ExpiryEntry
  <2>2. cs[e.session].client_id \in Client
    BY <2>1 DEF Shape, Named
  <2> QED
    BY <2>1, <2>2 DEF KnownInv, AllRegistered, Registered
<1> QED
  BY <1>1, KnownHolds, PTL

\* The handlers that use the ClientSession without a test find one, for every
\* acknowledged client that used no clean session and was not erased by mistake.
THEOREM NullOnlyKnownHolds == Spec => NullOnlyKnown
<1>1. Shape /\ KnownInv /\ [Next]_vars =>
        (fault # "null" /\ fault' = "null" =>
           \E k \in Task :
             /\ Busy(k) /\ task'[k] = Idle
             /\ \/ client_id[task[k].t] = NoClient
                \/ ~Clear(client_id[task[k].t], {"clean", "robbed"}))
  <2> SUFFICES ASSUME Shape, KnownInv, [Next]_vars, fault # "null", fault' = "null"
               PROVE  \E k \in Task :
                        /\ Busy(k) /\ task'[k] = Idle
                        /\ \/ client_id[task[k].t] = NoClient
                           \/ ~Clear(client_id[task[k].t], {"clean", "robbed"})
    OBVIOUS
  <2>1. PICK k \in Task : /\ task[k].at = "parse" /\ Done(k)
                          /\ Own(task[k].t) = nullptr
    BY DEF Next, Main, Environment, Worker, vars, EnterPoll, PollTimeout,
       EndEvents, ExpirySpin, collectExpired, disconnectExpired, reschedule,
       eraseExpired, EndExpired, addSession, closeConnection, SessionEvent,
       Tick, lookup, kick, purge, resume, register, schedule, accept,
       HandleRoute, HandleFlow, HandleUnsub, HandleBad, HandleOob, ParseError,
       erase, forceDisconnect, At
  <2>2. Busy(k) /\ task'[k] = Idle
    BY <2>1, DoneType DEF Busy, Shape
  <2>3. task[k].t \in Transport
    BY <2>1 DEF Shape, TaskOK, TaskFine, Busy, TypeOK, TaskState, nullptr
  <2>4. ASSUME client_id[task[k].t] # NoClient
        PROVE  ~Clear(client_id[task[k].t], {"clean", "robbed"})
    <3>1. client_id[task[k].t] \in Client
      BY <2>3, <2>4 DEF Shape, TypeOK
    <3>2. m_sessionRegistry[client_id[task[k].t]] = nullptr
      BY <2>1, <2>4 DEF Own
    <3> QED
      BY <2>3, <3>1, <3>2 DEF KnownInv, Found
  <2> QED
    BY <2>2, <2>4
<1> QED
  BY <1>1, KnownHolds, PTL DEF Spec, NullOnlyKnown

\* A client that asks for no clean session, whose CONNECTs do not overlap and
\* whose entry nobody erases by mistake keeps its session for ever.
THEOREM SessionKeptHolds == Spec => SessionKept
<1>1. Shape /\ KnownInv /\ [Next]_vars =>
        \A c \in Client :
          /\ m_sessionRegistry[c] # nullptr
          /\ did'[c] \cap {"clean", "raced", "robbed"} = {}
          => m_sessionRegistry'[c] = m_sessionRegistry[c]
  <2> SUFFICES ASSUME Shape, KnownInv, [Next]_vars, NEW c \in Client,
                      m_sessionRegistry[c] # nullptr,
                      did'[c] \cap {"clean", "raced", "robbed"} = {}
               PROVE  m_sessionRegistry'[c] = m_sessionRegistry[c]
    OBVIOUS
  <2>g. did[c] \subseteq did'[c]
    BY DidGrows DEF Shape
  <2>1. CASE \A k \in Task : ~register(k)
    BY <2>1, ExcusedStep DEF Excused, Clear, KnownInv
  <2>2. ASSUME NEW k \in Task, register(k)
        PROVE  m_sessionRegistry'[c] = m_sessionRegistry[c]
    <3>1. /\ \A b \in Client : m_sessionRegistry'[b] =
               IF b = task[k].p.client_id THEN made' ELSE m_sessionRegistry[b]
          /\ task[k].at = "register"
      BY <2>2, RegisterFields DEF register, At, Shape
    <3>2. c # task[k].p.client_id
      BY <2>g, <3>1 DEF KnownInv, RegisterFree, Clear
    <3> QED
      BY <3>1, <3>2
  <2> QED
    BY <2>1, <2>2
<1> QED
  BY <1>1, KnownHolds, PTL DEF Spec, SessionKept

-----------------------------------------------------------------------------
(***************************************************************************)
(* One transport per client: ClaimInv is inductive on top of KnownInv.     *)
(***************************************************************************)

\* A transport that claims a smooth client did so before, unless it registers.
LEMMA ClaimKept ==
  ASSUME Shape, Shape', [Next]_vars, \A k \in Task : ~register(k),
         NEW t \in Transport, NEW c \in Client, Claims(t, c)', Smooth(c)'
  PROVE  Claims(t, c) /\ Smooth(c)
<1> USE DEF Shape
<1>0. \A k \in Task : ~register(k)
  OBVIOUS
<1>g. Smooth(c)
  BY DidGrows DEF Smooth, Clear
<1>s. Steady
  BY <1>0, SteadyStep
<1>m. \A j \in Task : Moves(j)
  BY MovesStep
<1>1. ASSUME NEW j \in Task, task'[j].t = t, task'[j].at \in {"schedule", "accept"},
             task'[j].p.client_id = c
      PROVE  task[j].t = t /\ task[j].at \in {"schedule", "accept"}
             /\ task[j].p.client_id = c
  <2>1. \/ task'[j] = task[j]
        \/ task'[j].t = task[j].t /\ task'[j].p = task[j].p
             /\ (resume(j) \/ schedule(j))
    BY <1>0, <1>1, <1>m DEF Moves, Goes
  <2>2. ~resume(j) \/ task'[j] = task[j]
    <3> SUFFICES ASSUME resume(j), task'[j].p = task[j].p PROVE FALSE
      BY <2>1
    <3>1. did' = [did EXCEPT ![c] = @ \cup {"resumed"}]
      BY <1>1 DEF resume
    <3>2. "resumed" \in did'[c]
      BY <3>1 DEF TypeOK
    <3> QED
      BY <3>2 DEF Smooth, Clear
  <2>3. schedule(j) => task[j].at = "schedule"
    BY DEF schedule, At
  <2> QED
    BY <1>1, <2>1, <2>2, <2>3
<1>2. t \in m_sessions' /\ (client_id'[t] = c \/
        \E j \in Task : task'[j].t = t /\ task'[j].at \in {"schedule", "accept"}
                        /\ task'[j].p.client_id = c)
  BY DEF Claims
<1>3. /\ \/ client_id[t] = c
         \/ \E j \in Task : task[j].t = t /\ task[j].at \in {"schedule", "accept"}
                            /\ task[j].p.client_id = c
  <2>1. CASE client_id'[t] = c
    BY <1>0, <2>1, Names
  <2> QED
    BY <1>1, <1>2, <2>1
<1>4. t \in m_sessions
  <2>1. t =< opened
    BY <1>3, ConstantsAssumption DEF Fresh
  <2>2. t \in Nat /\ opened \in Nat
    BY DEF Transport, TypeOK
  <2> QED
    BY <1>2, <1>s, <2>1, <2>2 DEF Steady, SteadyTransports
<1>5. ~\E j \in Task : task[j].t = t /\ task[j].at = "drop"
  <2> SUFFICES ASSUME NEW j \in Task, task[j].t = t, task[j].at = "drop"
               PROVE  FALSE
    OBVIOUS
  <2>1. task'[j] = task[j] \/ forceDisconnect(j)
    BY <1>m DEF Moves, Goes, lookup, kick, purge, resume, register, schedule, At
  <2>2. forceDisconnect(j) => t \notin m_sessions'
    BY DEF forceDisconnect
  <2> QED
    BY <1>2, <2>1, <2>2 DEF Claims
<1> QED
  BY <1>g, <1>3, <1>4, <1>5 DEF Claims

\* What a step does to the registered session of a claimed smooth client.
LEMMA OneClaimStep ==
  ASSUME Shape, Shape', KnownInv, ClaimInv, [Next]_vars
  PROVE  OneClaim'
<1> USE DEF Shape, ClaimInv
<1> SUFFICES ASSUME NEW t \in Transport, NEW c \in Client,
                    Claims(t, c)', Smooth(c)'
             PROVE  /\ m_sessionRegistry'[c] # nullptr
                    /\ cs'[m_sessionRegistry'[c]].session = t
                    /\ cs'[m_sessionRegistry'[c]].connected
  BY DEF OneClaim
<1>n. made \in Nat /\ \A o \in Session : o \in Nat /\ o # nullptr
  BY DEF TypeOK, Session, nullptr
<1>1. ASSUME NEW k \in Task, register(k)
      PROVE  /\ m_sessionRegistry'[c] # nullptr
             /\ cs'[m_sessionRegistry'[c]].session = t
             /\ cs'[m_sessionRegistry'[c]].connected
  <2>1. /\ made' = made + 1 /\ made' \in Session /\ task[k].at = "register"
        /\ \A n \in Session : n # made' => cs'[n] = cs[n]
        /\ \A b \in Client : m_sessionRegistry'[b] =
             IF b = task[k].p.client_id THEN made' ELSE m_sessionRegistry[b]
        /\ task'[k].t = task[k].t /\ task'[k].p = task[k].p
        /\ \A j \in Task : j # k => task'[j] = task[j]
        /\ UNCHANGED <<m_sessions, client_id, did>>
    BY <1>1, RegisterFields DEF register, At
  <2>2. cs'[made'].session = task[k].t /\ cs'[made'].connected
    <3>1. cs'[made'] = [client_id |-> task[k].p.client_id,
                        keep_alive |-> task[k].p.keep_alive,
                        cleansession |-> task[k].p.cleansession,
                        connected |-> TRUE, session |-> task[k].t,
                        last_activity |-> now]
      BY <1>1, RegisterFields
    <3> QED
      BY <3>1
  <2>3. Smooth(c)
    BY <2>1 DEF Smooth, Clear
  <2>4. Claims(t, c) \/ (t = task[k].t /\ c = task[k].p.client_id)
    BY <2>1 DEF Claims
  <2>5. CASE c = task[k].p.client_id
    BY <1>n, <2>1, <2>2, <2>3, <2>4, <2>5 DEF Cleared
  <2>6. CASE c # task[k].p.client_id
    <3>1. PICK o \in Session : o = m_sessionRegistry[c] /\ o =< made
      BY <2>3, <2>4, <2>6 DEF OneClaim, TypeOK, Fresh
    <3>2. cs'[o] = cs[o] /\ m_sessionRegistry'[c] = o
      BY <1>n, <2>1, <2>6, <3>1
    <3> QED
      BY <1>n, <2>3, <2>4, <2>6, <3>1, <3>2 DEF OneClaim
  <2> QED
    BY <2>5, <2>6
<1>2. CASE \A k \in Task : ~register(k)
  <2>1. Claims(t, c) /\ Smooth(c)
    BY <1>2, ClaimKept
  <2>s. Steady
    BY <1>2, SteadyStep
  <2>2. PICK o \in Session : /\ o = m_sessionRegistry[c]
                             /\ cs[o].session = t /\ cs[o].connected
    BY <2>1 DEF OneClaim, TypeOK
  <2>3. cs[o].client_id = c /\ cs'[o].session = t /\ t \in m_sessions'
        /\ t \in m_sessions
    BY <1>n, <2>1, <2>2, <2>s DEF RegistryKeyed, Steady, SteadySessions, Claims
  <2>4. o # dropping
    BY <1>n, <2>2, <2>3 DEF Dropped
  <2>5. m_sessionRegistry'[c] = o
    <3>1. CASE UNCHANGED m_sessionRegistry
      BY <2>2, <3>1
    <3>2. CASE eraseExpired
      <4>1. PICK d \in Session : d = dropping
        BY <3>2 DEF eraseExpired, TypeOK
      <4>2. CASE ToErase(d)
        <5>1. /\ m_sessionRegistry' = [m_sessionRegistry EXCEPT ![cs[d].client_id] = nullptr]
              /\ did' = [did EXCEPT ![cs[d].client_id] =
                           @ \cup IF m_sessionRegistry[cs[d].client_id] = d
                                THEN {} ELSE {"robbed"}]
          BY <3>2, <4>1, <4>2 DEF eraseExpired
        <5>2. cs[d].client_id # c
          <6> SUFFICES ASSUME cs[d].client_id = c PROVE FALSE
            OBVIOUS
          <6>1. "robbed" \in did'[c]
            BY <2>2, <2>4, <4>1, <5>1 DEF TypeOK
          <6> QED
            BY <6>1 DEF Smooth, Clear
        <5> QED
          BY <2>2, <5>1, <5>2 DEF TypeOK
      <4>3. CASE ~ToErase(d)
        BY <2>2, <3>2, <4>1, <4>3 DEF eraseExpired
      <4> QED
        BY <4>2, <4>3
    <3>3. ASSUME NEW k \in Task, purge(k) PROVE m_sessionRegistry'[c] = o
      <4>1. c # task[k].p.client_id
        BY <2>1, <3>3 DEF Cleared, purge, At
      <4> QED
        BY <2>2, <3>3, <4>1 DEF purge, TypeOK
    <3>4. ASSUME NEW k \in Task, erase(k) PROVE m_sessionRegistry'[c] = o
      <4>1. PICK u \in Transport, n \in Session :
              u = task[k].t /\ n = task[k].o /\ task[k].at = "erase"
        BY <3>4 DEF erase, At, TaskOK, TaskFine, Busy, TypeOK, TaskState, nullptr
      <4>2. /\ m_sessionRegistry' = [m_sessionRegistry EXCEPT ![client_id[u]] = nullptr]
            /\ did' = [did EXCEPT ![client_id[u]] =
                         @ \cup IF m_sessionRegistry[client_id[u]] = n /\ cs[n].session = u
                              THEN {} ELSE {"robbed"}]
        BY <3>4, <4>1 DEF erase
      <4>3. client_id[u] # c
        <5> SUFFICES ASSUME client_id[u] = c PROVE FALSE
          OBVIOUS
        <5>1. m_sessionRegistry[c] = n /\ cs[n].session = u
          <6> SUFFICES ASSUME ~(m_sessionRegistry[c] = n /\ cs[n].session = u)
                       PROVE  FALSE
            OBVIOUS
          <6>1. "robbed" \in did'[c]
            BY <4>2 DEF TypeOK
          <6> QED
            BY <6>1 DEF Smooth, Clear
        <5>2. u = t
          BY <2>2, <5>1
        <5>3. task'[k].at = "drop" /\ task'[k].t = t
          BY <3>4, <4>1, <5>2, GoType DEF erase, Stage
        <5> QED
          BY <5>3 DEF Claims
      <4> QED
        BY <2>2, <4>2, <4>3 DEF TypeOK
    <3> QED
      BY <1>2, <3>1, <3>2, <3>3, <3>4
         DEF Next, Main, Environment, Worker, vars, EnterPoll, PollTimeout,
         EndEvents, ExpirySpin, collectExpired, disconnectExpired, reschedule,
         EndExpired, addSession, closeConnection, SessionEvent, Tick, lookup,
         kick, resume, schedule, accept, HandleRoute, HandleFlow,
         HandleUnsub, HandleBad, HandleOob, forceDisconnect
  <2>6. cs'[o].connected
    <3>1. ASSUME cs' = cs PROVE cs'[o].connected
      BY <2>2, <3>1
    <3>2. CASE eraseExpired
      <4>1. cs' = cs \/ cs' = [cs EXCEPT ![dropping].connected = FALSE]
        BY <3>2 DEF eraseExpired
      <4> QED
        BY <2>2, <2>4, <4>1, MarkedType
    <3>3. ASSUME NEW k \in Task, kick(k) PROVE cs'[o].connected
      <4>1. task[k].o # o
        <5> SUFFICES ASSUME task[k].o = o PROVE FALSE
          OBVIOUS
        <5>1. t \notin m_sessions'
          BY <2>2, <3>3 DEF kick, Kicked
        <5> QED
          BY <2>3, <5>1
      <4> QED
        BY <2>2, <3>3, <4>1, MarkedType DEF kick
    <3>4. ASSUME NEW k \in Task, resume(k) PROVE cs'[o].connected
      <4>1. task[k].o \in Session /\ ~cs[task[k].o].connected
            /\ \A n \in Session : n # task[k].o => cs'[n] = cs[n]
        BY <3>4, ResumedType DEF resume, At, TaskOK, TaskFine
      <4> QED
        BY <2>2, <4>1
    <3>5. ASSUME NEW k \in Task, HandleRoute(k) \/ HandleFlow(k) PROVE cs'[o].connected
      <4>0. task[k].t \in Transport
        BY <3>5 DEF HandleRoute, HandleFlow, At, Busy, TaskOK, TaskFine, TypeOK,
           TaskState, nullptr
      <4>1. Own(task[k].t) \in Session \cup {nullptr}
        BY <4>0 DEF Own, TypeOK
      <4>2. PICK n \in Session \cup {nullptr} :
              cs' = IF n = nullptr THEN cs
                    ELSE [cs EXCEPT ![n].last_activity = now]
        BY <3>5, <4>1 DEF HandleRoute, HandleFlow, updateActivity
      <4> QED
        BY <2>2, <4>2 DEF TypeOK, ClientSession
    <3> QED
      BY <1>2, <3>1, <3>2, <3>3, <3>4, <3>5
         DEF Next, Main, Environment, Worker, vars, EnterPoll, PollTimeout,
         EndEvents, ExpirySpin, collectExpired, disconnectExpired, reschedule,
         EndExpired, addSession, closeConnection, SessionEvent, Tick, lookup,
         purge, schedule, accept, HandleUnsub, HandleBad, HandleOob, erase,
         forceDisconnect
  <2> QED
    BY <1>n, <2>3, <2>5, <2>6
<1> QED
  BY <1>1, <1>2

LEMMA KickCurrentStep ==
  ASSUME Shape, Shape', KnownInv, ClaimInv, [Next]_vars
  PROVE  KickCurrent'
<1> USE DEF Shape, ClaimInv
<1> SUFFICES ASSUME NEW k \in Task, task'[k].at = "kick",
                    NEW c \in Client, c = task'[k].p.client_id, Clear(c, {"raced"})'
             PROVE  m_sessionRegistry'[c] \in {task'[k].o, nullptr}
  BY TaskClient DEF KickCurrent, Connecting, TaskOK, TaskFine, Connect
<1>1. CASE lookup(k)
  BY <1>1, LookupFields
<1>2. CASE ~lookup(k)
  <2>1. task'[k] = task[k]
    BY <1>2, MovesStep DEF Moves, Goes
  <2>2. c = task[k].p.client_id
    BY <2>1
  <2>3. Clear(c, {"raced"})
    BY <2>1, <2>2, DidGrows DEF Clear
  <2>4. m_sessionRegistry[c] \in {task[k].o, nullptr}
    BY <2>1, <2>2, <2>3 DEF KickCurrent
  <2>5. CASE \A j \in Task : ~register(j)
    BY <2>1, <2>2, <2>4, <2>5, SteadyStep DEF Steady, SteadyRegistry
  <2>6. ASSUME NEW j \in Task, register(j)
        PROVE  m_sessionRegistry'[c] = m_sessionRegistry[c]
    <3>1. /\ task[j].at = "register"
          /\ \A b \in Client : m_sessionRegistry'[b] =
               IF b = task[j].p.client_id THEN made' ELSE m_sessionRegistry[b]
      BY <2>6, RegisterFields DEF register, At
    <3>2. c # task[j].p.client_id
      BY <2>1, <2>2, <2>3, <3>1 DEF KnownInv, OneInside, Inside
    <3> QED
      BY <3>1, <3>2
  <2> QED
    BY <2>1, <2>2, <2>4, <2>5, <2>6
<1> QED
  BY <1>1, <1>2

LEMMA ClearedStep ==
  ASSUME Shape, Shape', KnownInv, ClaimInv, [Next]_vars
  PROVE  Cleared'
<1> USE DEF Shape, ClaimInv
<1> SUFFICES ASSUME NEW k \in Task, NEW t \in Transport,
                    task'[k].at \in {"purge", "register"},
                    NEW c \in Client, c = task'[k].p.client_id,
                    Smooth(c)', Claims(t, c)'
             PROVE  FALSE
  BY TaskClient DEF Cleared, Connecting, TaskOK, TaskFine, Connect
<1>g. Smooth(c) /\ Clear(c, {"raced"}) /\ Clear(c, {"raced"})'
  BY DidGrows DEF Smooth, Clear
<1>1. \A j \in Task : ~register(j)
  <2> SUFFICES ASSUME NEW j \in Task, register(j) PROVE FALSE
    OBVIOUS
  <2>1. /\ task[j].at = "register" /\ task'[j].at = "schedule"
        /\ task'[j].p = task[j].p
        /\ \A i \in Task : i # j => task'[i] = task[i]
        /\ UNCHANGED <<m_sessions, client_id>>
    BY RegisterFields DEF register, At
  <2>2. k # j /\ task'[k] = task[k]
    BY <2>1
  <2>3. task[j].p.client_id # c
    BY <1>g, <2>1, <2>2 DEF KnownInv, OneInside, Inside
  <2>4. Claims(t, c)
    BY <2>1, <2>3 DEF Claims
  <2> QED
    BY <1>g, <2>2, <2>4 DEF Cleared
<1>2. Claims(t, c)
  BY <1>1, ClaimKept
<1>3. ~lookup(k)
  <2> SUFFICES ASSUME lookup(k) PROVE FALSE
    OBVIOUS
  <2>1. m_sessionRegistry[c] = nullptr
    BY LookupFields
  <2> QED
    BY <1>2, <1>g, <2>1 DEF OneClaim
<1>4. ~kick(k)
  <2> SUFFICES ASSUME kick(k), task'[k].p = task[k].p PROVE FALSE
    BY MovesStep DEF Moves, Goes, kick, At
  <2>1. task[k].at = "kick"
    BY DEF kick, At
  <2>2. PICK o \in Session : o = m_sessionRegistry[c] /\ cs[o].session = t
                             /\ cs[o].connected
    BY <1>2, <1>g DEF OneClaim, TypeOK
  <2>3. task[k].o = o
    BY <1>g, <2>1, <2>2 DEF KickCurrent, Session, nullptr
  <2>4. t \notin m_sessions'
    BY <2>2, <2>3 DEF kick, Kicked
  <2> QED
    BY <2>4 DEF Claims
<1>5. task[k].at \in {"purge", "register"} /\ task[k].p = task'[k].p
  BY <1>1, <1>3, <1>4, MovesStep DEF Moves, Goes, purge, At
<1> QED
  BY <1>2, <1>g, <1>5 DEF Cleared

LEMMA DroppedStep ==
  ASSUME Shape, Shape', ClaimInv, [Next]_vars
  PROVE  Dropped'
<1> USE DEF Shape, ClaimInv
<1> SUFFICES ASSUME NEW d \in Session, d = dropping'
             PROVE  cs'[d].session \notin m_sessions'
  BY DEF Dropped, TypeOK
<1>1. cs'[d].session = cs[d].session /\ cs[d].session =< opened
  <2>1. CASE \A k \in Task : ~register(k)
    BY <2>1, SteadyStep DEF Steady, SteadySessions, Fresh
  <2>2. ASSUME NEW k \in Task, register(k)
        PROVE  cs'[d].session = cs[d].session /\ cs[d].session =< opened
    <3>1. /\ made' = made + 1 /\ dropping' = dropping /\ made \in Nat
          /\ \A n \in Session : n # made' => cs'[n] = cs[n]
      BY <2>2, RegisterFields DEF expiry
    <3>2. d =< made /\ d \in Nat
      BY <3>1 DEF Fresh, Session
    <3>3. d # made'
      BY <3>1, <3>2
    <3> QED
      BY <3>1, <3>3 DEF Fresh
  <2> QED
    BY <2>1, <2>2
<1>2. PICK t : t = cs[d].session /\ t =< opened
  BY <1>1
<1>3. t \in Nat /\ opened \in Nat
  <2>1. cs[d] \in ClientSession
    BY DEF TypeOK
  <2> QED
    BY <1>2, <2>1 DEF ClientSession, Transport, nullptr, TypeOK
<1>4. ASSUME dropping' = dropping PROVE t \notin m_sessions'
  <2>1. t \notin m_sessions
    BY <1>2, <1>4 DEF Dropped, Session, nullptr
  <2>2. CASE \A k \in Task : ~register(k)
    <3>1. t \in m_sessions' => opened < t
      BY <2>1, <2>2, SteadyStep DEF Steady, SteadyTransports
    <3> QED
      BY <1>1, <1>2, <1>3, <3>1
  <2>3. ASSUME NEW k \in Task, register(k) PROVE m_sessions' = m_sessions
    BY <2>3, RegisterFields
  <2> QED
    BY <1>1, <1>2, <2>1, <2>2, <2>3
<1>5. ASSUME NEW o \in Session, disconnectExpired(o), dropping' # dropping
      PROVE  t \notin m_sessions'
  BY <1>2, <1>5 DEF disconnectExpired
<1>e. ~eraseExpired
  BY DEF eraseExpired, Session, nullptr
<1>6. dropping' = dropping \/ \E o \in Session : disconnectExpired(o)
  BY <1>e DEF Next, Main, Environment, Worker, vars, EnterPoll, PollTimeout,
     EndEvents, ExpirySpin, collectExpired, reschedule,
     EndExpired, addSession, closeConnection, SessionEvent, Tick, lookup,
     kick, purge, resume, register, schedule, accept, HandleRoute, HandleFlow,
     HandleUnsub, HandleBad, HandleOob, erase, forceDisconnect, expiry
<1> QED
  BY <1>1, <1>2, <1>4, <1>5, <1>6

LEMMA ClaimInit == Init => ClaimInv
<1> SUFFICES ASSUME Init PROVE ClaimInv
  OBVIOUS
<1>1. /\ m_sessions = {} /\ dropping = nullptr
      /\ \A k \in Task : task[k].at = "idle"
  BY DEF Init, Idle
<1> QED
  BY <1>1 DEF ClaimInv, OneClaim, KickCurrent, Cleared, Dropped, Claims

\* The registry leads to the transport of every client none of whose CONNECTs
\* overlapped or resumed a session and whose entry nobody erased by mistake.
THEOREM OneTransportHolds == Spec => []OneTransport
<1>1. Init => Shape /\ KnownInv /\ ClaimInv
  BY ShapeInit, KnownInit, ClaimInit
<1>2. Shape /\ KnownInv /\ ClaimInv /\ [Next]_vars =>
        (Shape /\ KnownInv /\ ClaimInv)'
  <2> SUFFICES ASSUME Shape, KnownInv, ClaimInv, [Next]_vars
               PROVE  (Shape /\ KnownInv /\ ClaimInv)'
    OBVIOUS
  <2>1. Shape'
    BY ShapeStep
  <2>2. KnownInv'
    BY <2>1, KnownStep
  <2>3. ClaimInv'
    BY <2>1, OneClaimStep, KickCurrentStep, ClearedStep, DroppedStep DEF ClaimInv
  <2> QED
    BY <2>1, <2>2, <2>3
<1>3. Shape /\ ClaimInv => OneTransport
  <2> SUFFICES ASSUME Shape, ClaimInv, NEW t \in m_sessions,
                      client_id[t] # NoClient, Smooth(client_id[t]),
                      ~\E k \in Task : task[k].t = t /\ task[k].at = "drop"
               PROVE  Own(t) # nullptr /\ cs[Own(t)].session = t
    BY DEF OneTransport, Smooth
  <2>1. PICK u \in Transport : u = t
    BY DEF Shape, TypeOK
  <2>2. PICK c \in Client : c = client_id[u]
    BY <2>1 DEF Shape, TypeOK
  <2>3. Claims(u, c) /\ Smooth(c)
    BY <2>1, <2>2 DEF Claims
  <2>4. Own(t) = m_sessionRegistry[c]
    BY <2>1, <2>2 DEF Own
  <2> QED
    BY <2>1, <2>3, <2>4 DEF ClaimInv, OneClaim
<1> QED
  BY <1>1, <1>2, <1>3, PTL DEF Spec
=============================================================================
