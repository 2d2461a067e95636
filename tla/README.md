# Culex MQTT broker: TLA+ models, TLC runs and TLAPS proofs

This directory models the Culex MQTT broker (`src/mqtt`) in TLA+, checks the
models with TLC on small instances and proves the main theorems with TLAPS for
all values of the constants. Every definition that stands for code names its
lines in `PROJECT.json` under "map".

## 1. Inventory

The broker is a reactor with a pool. The main thread polls the sockets, reads
bytes and runs the timers; workers unpack packets and run their handlers. The
base classes `TCPServer`, `Session`, `Executor` and `Buffer` live in
`src/core`, a submodule that is empty in this commit; they are external here.

| Component | State | Operations | Talks to |
| --- | --- | --- | --- |
| `Broker` (`broker.h`) | poll set | `run`: timeout, poll, close / accept / read per event, then `processExpiredSessions`, `processRetransmissions` | `ManageSessions`, `MqttSession` |
| `ManageSessions` | `m_sessions` (fd to transport), `m_sessionRegistry` (client id to `ClientSession`), `m_expiryHeap`, `m_retransmitHeap`, each under a mutex | add / remove transport, add / remove / look up session, `updateActivity`, `scheduleExpiry`, `getNextTimeoutMs`, `processExpiredSessions`, `scheduleRetransmission`, `processRetransmissions`, `routePacket`, `sendToClient` | called by the main thread and by every worker |
| `ClientSession` | `connected`, `keep_alive`, `last_activity`, weak pointer to its transport, `inflight`, `inflight_ack`, `message_queue`, `next_packet_id` | store / get / remove in flight, `allocatePacketId` | lives in the registry; weakly referenced by heaps and by the topic tree |
| `MqttSession` | receive buffer, `client_id` | `parseData`, `forceDisconnect` | a worker runs it for each event |
| Packet handlers | none | CONNECT, PUBLISH, PUBACK, PUBREC, PUBREL, PUBCOMP, SUBSCRIBE, UNSUBSCRIBE, PINGREQ, DISCONNECT | `ManageSessions`, `ClientSession` |
| `TopicTree` | trie of nodes, subscribers per node | `subscribe`, `unsubscribe`, `match` over `getNode` / `handleWildCard` | called by workers |
| Wire format (`packets`, `unpack`) | none | length coding, framing, unpackers, `build_*` | `parseData`, handlers |
| Test clients | none | hand-run programs | not modelled |

What is hard here:

* **Two kinds of threads on the same sessions.** The main thread decides what
  expires while workers register, replace and refresh the sessions it decides
  about; it drops the lock between deciding and acting.
* **A heap of deadlines that is never updated**, only popped and pushed: it must
  not be late for anyone, nor hold an entry twice, nor an entry that is dead.
* **Sessions outlive transports**: packets queued for a transport are handled
  after it was closed, replaced or expired.
* **Handlers take one lock after another**: `connectHandler` looks a client up,
  ends its old transport, removes it and registers it in separate critical
  sections, and nothing keeps two tasks of a client, or of a transport, apart.
* **QoS 2 across reconnections**: any packet may be lost with its connection and
  is repeated on the next one, and one `inflight` map serves both directions.
* **TCP cuts the stream anywhere**, and buffer and packet are two critical
  sections.
* **Wildcards are expanded at subscription time** over the nodes that exist.
* **Several threads route at once**, the main thread among them, each one
  subscriber at a time, over sessions that are taken over, expire or hang up
  between two of its steps; a counter of identifiers without a lock.
* **The tree locks one node at a time**: a link may be missed by two threads and
  added twice, and `match` copies the subscribers without a lock.

What would make each component correct: a connected client with a keep-alive is
watched and, silent, disconnected; a client has one transport; a persistent
session is not lost; no handler meets a session that is gone; a QoS 2 message is
routed once; the handlers see the stream that was sent; a publication reaches
the clients whose filters match it and no others. The code keeps several of these
only part of the way. Where it does not, a property names the one thing that spoils
it (a history variable records when that happens) and says that nothing else does.

## 2. Modules

| Module | What it is |
| --- | --- |
| `Sessions` | Main loop, registry, expiry heap, transports, connect handler, error path; `MCSessions` instantiates it, `SessionsProofs` proves about it |
| `Handshake` | QoS 2 from a publisher, with reconnections, and the retransmission heap where it meets the same inflight map; implements `ExactlyOnce`; `HandshakeProofs` |
| `ExactlyOnce` | Abstract promise of QoS 2 |
| `Routing` | `routePacket`, `sendToClient`, identifiers, `processRetransmissions`, with several threads and changing sessions; `MCRouting`, `RoutingProofs` |
| `TopicTree` | Subscribe, unsubscribe, match, each as one step; `TopicWalk` is the walk as the code does it, and `split`; implements `TopicTable`; `MCTopicTree`, `TopicTreeProofs`, `TopicWalkProofs` (the walk and `split`) |
| `TopicTable` | Abstract promise of the tree: a table of subscriptions |
| `TreeThreads` | The tree under the pool: one step for each method of `Node`; `MCTreeThreads`, `TreeThreadsProofs` |
| `Wire` | Length coding, framing, unpackers, `build_publish` as operators |
| `Receive` | A client's packets, TCP pieces, receive buffer, `parseData` on the pool; `MCReceive` supplies the packets, `ReceiveProofs` proves about it and about `Wire` |
| `LeastNumber` | A nonempty set of naturals has a least element: what the proofs use instead of induction |

### Sessions

State: `m_sessions`, `m_sessionRegistry`, `m_expiryHeap` keep their names. A
`ClientSession` object is a number (`made` counts them), so replacing a session
is visible: an entry of the heap refers to the object, as the code's weak
pointer does, and is dead once the registry holds another. The main loop is a
program counter over the phases of `Broker::run`: timeout, poll, one action for
each event, then `processExpiredSessions`: the loop under the lock
(`collectExpired`), and for each expired session its transport
(`disconnectExpired`) and after that its registry entry (`eraseExpired`).

A task of the pool is a record: where it is (`at`), its transport, its packet and
the session its `cs` points to. `SessionEvent` queues one for any transport at any
time, as `Broker::run` does: a packet may come before the CONNECT, behind it while
it is handled, or twice at once. `connectHandler` is split at its locks: `lookup`,
`kick` (the old transport), `purge` or `resume`, `register`, `schedule`, `accept`
(`parseData` sets `client_id` last); so is the error path of `parseData` (`erase`,
`forceDisconnect`). The other handlers take one lock that matters here and are
one step. The packet kinds are those with different effects on a session: CONNECT
(new, resumed, refused), PUBLISH and SUBSCRIBE (`Route`), the acknowledgements and
PUBLISH at QoS 2 (`Flow`, which dereference the session), UNSUBSCRIBE, an
undecodable packet (`Bad`) and a type past the end of `unpack_handlers` (`Oob`).

`did` remembers what happened to a client and no action reads it: a CONNECT asked
for a *clean* session; two of its CONNECTs *raced*, one looking it up while the
other was on its way to `addToRegistry`; a CONNECT *resumed* a session; it was
*robbed*: a thread that meant an earlier session erased the present one. The safety
properties say which of these must have happened before they fail:

| Property | holds unless |
| --- | --- |
| `NullOnlyKnown` | the CONNECT of the transport is not answered, or the client was clean or robbed |
| `EntriesLive` (and so the expiry loop ends) | clean, raced, robbed |
| `OneTransport` | raced, resumed, robbed |
| `SessionKept` | clean, raced, robbed |
| `Monitored`, `ExpiryUnique`, `ZeroNeverExpires` | never |

`Monitored` and `KeepAliveEnforced` are about sessions with `connected`, which a
resumed session never has again: a client that reconnects to its session and goes
silent is not disconnected (section 5).

Assumed of the environment: client ids are not empty; descriptors and objects are
not reused. `client_id` is a `std::string` that one task may write while another
reads it; it is read and written here in one piece. The clock is `Tick` and is
bounded by `MaxTime`.

### Handshake

One publisher with a persistent session and keep-alive off, which is not
subscribed to its own topics. `up` and `down` are sets of packets: the network,
the buffers and the pool's queue together, so packets are handled in any order,
those of a transport the client has left also after those of the next. The client
(external) repeats PUBLISH or PUBREL on a new connection and has one handshake
going, like `src/mqtt/test/publisher/qos2.cpp`.

`pack_ack` pushes the two bytes of an identifier as one `uint8_t`
(packethandlers.cpp:453): an answer carries the high byte only, 0 for all
identifiers below 256, and is a byte short of the length it states. `Answer` sends
just that, and the client of the model takes an answer for the one it waits for,
whatever it carries, as the test client does. A client that reads the identifier,
or the whole packet, never gets on; that a handshake ends is therefore not claimed.

`inflight` is the map of `ClientSession`, `insert` semantics included; messages of
other publishers reach it through `sendToClient` under *their* identifier, which
may be one of the client's, while the retry is scheduled under the allocated one,
which may be as well. Two CONNECTs may both find no session (`connectHandler`,
`addToRegistry`); the second then starts with an empty map. Retries fire at any
time after scheduling (the code's 5 s are abstracted), one heap entry per step.
`released` counts the calls of `routePacket` per message.

`crossed` collects the identifiers whose entry in `inflight` was used for
something else than the exchange the client is in: a packet handled after the
client had moved on (`Late`), a message sent to the client, a retransmission of a
message the client publishes, a second registration. In all these the code does
route twice, early or not at all. `DeliversOnce` says that nothing else leads to
that: a message published under an identifier that is not crossed is routed once,
before the client sees PUBCOMP, however many connections, PUBRECs and PUBCOMPs are
lost.

### Routing

All messages have one topic: which subscriptions match it is `TopicTree`. A
session is a `ClientSession` object; `registered` and `gone` say whether the
registry has it or had it, `connected` is the field of that name, `session` says
whether the weak pointer to its transport can be locked. The two differ: a peer
that hangs up leaves `connected` true. `connect`, `reconnect`, `closeConnection`,
`expire` and `subscribe` are the effects that the handlers and the main loop have
on these (`Sessions` models them in full), each between any two steps of a thread
that routes. `subscribe` does not wait for the registry's mutex:
`createSubscription` has let it go by the time it calls the tree
(managesession.cpp:250-251), so it comes also while the main thread retransmits.

`job` holds where each thread is. `publish` is the call of `routePacket`, with the
copy of the subscriptions that `match` returns; then for each of them, in any
order (the answer is an unordered map), `Skip` (the session is gone), `Offline`
(`storeMessage`) or `Online` (the packet's level is lowered in place,
`allocatePacketId` reads the counter), followed by `storeInflight` (the counter
is written, the packet is inserted under its *publisher's* identifier and
scheduled under the allocated one) and `push`. `Return` or, for the main thread,
`pop` ends the call. The main thread holds `m_registryMutex` for all of a
retransmission, so what needs that mutex waits (`Free`). The heap is in the
order of its pushes: the interval is one constant. Only PUBLISH is ever
scheduled, so the branch of `processRetransmissions` that repeats an
acknowledgement is never taken, and `build_publish` writes identifier 0, so the
acknowledgements of a subscriber find nothing to erase; neither has an action.

`insert` keeps what is there: a packet whose publisher's identifier is taken in
`inflight` of a subscriber is not stored, and if its transport is gone as well, it is
lost. `dropped` records for which session and message that was; `Reached` counts a
message only where that message itself is on the wire, in the queue or in
`inflight`, and `Kept` allows no loss but the recorded ones.

### TopicTree

Topics are sequences of levels. `getNode` descends and creates nodes also when
it only looks; `+` and `#` fan out over the links that exist. `TopicTree` states
the walk in closed form, `TopicWalk` is the loop and recursion of the code (as
recursive functions: `getNode` on the levels to go, `handleWildCard` on the nodes),
and `GetNodeAgrees` says in each reachable tree that the two are the same: theorems
use the closed form, this ties it to the code. `vec` is a vector in the code and a
set here, so `twice` keeps what the code would append a second time: nothing, says
`GetNodeAgrees`, so no client gets a publication twice from one walk.

`split` is the loop over the characters, `Cut` what it does at one of them. It
makes the level "/" of the first character, whatever that is, and no level of a
final "/". `SplitLeads` is about strings that are `Rooted`, with every level written
behind a slash: each leads to the node whose levels it spells, empty ones included,
and to no other. What topictree.h:30 says of a string without the slash in
front, that "home" of "home/livingroom/temp" is a node, is `EachLevelANode`, and does
not hold. `WalkAssumption` says of the filters and topics of the model what `split`
makes true of every one the code walks with: a first level "/", and no "/" in the
others.

### TreeThreads

`Node` objects are numbers, `node` says which of them a path leads to (0: none),
and a thread in `getNode` holds a path and a number, as the code holds a
reference: `Standing` says that the two still agree. `ispresent`, `addLink` and
`getLink` are the three calls of the loop of `getNode`, each with its own lock;
`addLink` assigns a new `Node`, which destroys the one there with all below it.
`subscribe` and `unsubscribe` are the calls on the node reached; `match` and
`answer` are the begin and the end of the copy, which has no lock. Undefined
behaviour is a choice: a copy that another thread disturbs (`torn`) gives any
part of what was there before or after, or a fault; a thread on a destroyed node
is a fault (`dangle`), after which nothing is said. Links, filters and topics
have no wildcards here. `removeSubscription` is reached by no handler (the
UNSUBSCRIBE handler never comes to it), so `unsubscribe` models the method of
`TopicTree`, not a packet.

### Wire and Receive

Bytes are numbers below 256. `encode_length` and `decode_length` loop over at
most three bytes, so they are written out instead of recursive and can be proved
about; the loops over the bodies of SUBSCRIBE and UNSUBSCRIBE are one recursive
function, `Pieces`: what a body begins with, then the same of the bytes behind,
which are fewer.
`decode_length` throws when it reads a fourth length byte, and may read one byte
past the buffer, whose value `Past` leaves open. Bodies whose inner lengths
contradict the remaining length are not modelled (the unpackers do not look).

A client writes packets (`Send`) one behind the other into `stream`; `ends` says
where each ends and `read` how far the main thread is. `SessionEvent` appends a
piece of the stream to the buffer and queues a `parseData`, which is split at its
locks: `Unpack`, `Erase`, `Handle`. What a packet may be is an assumption
(`ReceiveAssumption`): its bytes frame a body that says what the packet says
(`Spoken`, a CONNECT of any protocol level among them), or it says nothing: the
broker has no function for its type (`Foreign`), an unpacker refuses it (`Wrong`:
another protocol name, an UNSUBSCRIBE without its flags), or its length takes a
fourth byte (`Long`). TLC evaluates it for every packet of `MCReceive`.

`Handle` disconnects the client when `connectHandler` refuses its protocol level;
`Refuse` is the error path of `parseData`, which disconnects it too, or ends the
process when it follows the null pointer of a client without a session (module
`Sessions` knows which). `unpack` looks types 11 to 15 up behind the end of its
table, PINGREQ and DISCONNECT among them: what it finds there may be a null pointer,
which leads to the error path, or end the process (`"undefined"`). A wild entry that
happens to be a function that returns is not modelled.

Of the external parts it assumes that the buffer is contiguous and shows the byte of
the last packet once it is emptied, that the pool survives an exception, and that
`pack_string16` writes the characters alone while `unpack_string16` reads a length
before them: `build_publish` packs the length itself in front of the call, and the
unpackers do not read one before theirs. `SentOnAlike` rests on the latter.

Nothing in the code keeps two tasks of one transport apart. `overlap` records that
one unpacked, or met an error, while another was at work. From then on the second
erase may take bytes that nobody unpacked, so what is at the front of the buffer is
no packet any more; the tasks at work finish, and `Unpack` is not taken again.
The properties are about what happens unless tasks overlap, for any pool; that it
does happen is in section 5.

## 3. Runs

Passing runs:

| Run | Configuration | Bounds | What it shows |
| --- | --- | --- | --- |
| `sessions` | `MCSessions.cfg` | 1 client, 2 connections, 2 sessions, 2 tasks at a time, keep-alive 1, clean and persistent sessions, acknowledgements and undecodable packets | Every watched session has an entry that is not late, and once; dead entries, null sessions, second transports and lost sessions come only from the causes in the table of section 2 |
| `sessions_live` | `MCSessionsLive.cfg` | the same with 1 task, keep-alive 0 and 1, levels 3 and 4, UNSUBSCRIBE and PINGREQ | Keep-alive 0 is never judged; a connected client that is silent is disconnected once the loop has gone round with it on the heap |
| `handshake` | `MCHandshake.cfg` | 3 connections, 3 messages, identifiers 1 and 2 shared with another publisher and with 2 allocated ones | Each QoS 2 message under an identifier that is not crossed is routed once, and on PUBREL only |
| `topic_tree` | `MCTopicTree.cfg` | filters with `+` and `#`, a topic with an empty level; strings of 1 to 5 characters, slashes among them | Stored subscriptions are justified; the closed form is the code's walk; a string with every level behind a slash leads to the node of those levels |
| `receive` | `MCReceive.cfg` | 2 workers, streams of 2 packets of every type, CONNECTs of another level and name, refused and unknown types, pieces of 1, 60 and 129 bytes | Unless two tasks overlap: handlers get what was sent, in order, once, whatever TCP does; the transport is disconnected, or the process stopped, for no packet that is accepted; what is sent on reads as it was published; one task for each event leaves nothing behind unless one event completes two packets |
| `routing` | `MCRouting.cfg` | 2 sessions, 2 workers and the main thread, 2 calls, identifiers 1 and 2, one change of a session | What is not lowered to QoS 0 reaches or is kept for every session it matched, unless its publisher's identifier was taken there; no level is raised; no second copy without DUP; identifiers differ up to the wrap; each call ends |
| `tree_threads` | `MCTreeThreads.cfg` | 2 workers, 2 clients, topics a and a/b, 3 calls | Unless two threads missed the same link: the tree holds what was granted, threads stand on nodes that exist, answers are right |

Violations (each is a finding in `PROJECT.json`, quoting the text it contradicts):

| Run | Property | What happens |
| --- | --- | --- |
| `spin` | `NoSpin` | `processExpiredSessions` pops only live entries; a dead one on top keeps it in its loop with `m_expiryMutex` held |
| `lost_wakeup` | `SilentDisconnected` | A worker schedules an expiry while the main thread sleeps with the earlier timeout |
| `connect_race` | `OneTransportPerClient` | Two CONNECTs of one client both find no session; the second registration replaces the first, whose transport stays open |
| `topic_miss` | `MatchComplete` | A wildcard subscription misses topics that are used for the first time later |
| `split_first` | `EachLevelANode` | The first level of a topic that does not begin with a slash loses its first character |

Why the bounds suffice. In `Sessions` the hazards need a second connection of a
client (two transports), a replaced session (two objects), two tasks that come
between each other's locks, and a deadline that passes (a clock of a few ticks).
Clients share only the main loop and the heap, of which nothing speaks of two
entries together but `ExpiryUnique`; one client keeps the run small, and the
theorems are for any number. In `Handshake` three connections lose a PUBREC, a
PUBREL or a PUBCOMP of a message twice over; three messages reuse an identifier;
identifier 2 is the client's, another publisher's and the first allocated, and 1
the client's alone; two allocations put one entry behind another. In `Receive` two
packets are enough for an erase to reach into the next; a payload of 124 bytes makes
the remaining length two bytes; pieces of one byte end a read inside every field; a
piece of 129 bytes brings several packets at once. Topics of up to two levels below
"/" meet each branch of the walk and its recursion. In `Routing` two workers and the
main thread bring two calls to the same session at once, two subscriptions of
levels 0 and 1 make the order of the subscribers matter, and with identifiers 1
and 2 the second allocation wraps and the first retransmission finds a packet
(the heap has identifier 2, so has the publisher). In `TreeThreads` two topics,
one below the other, let a thread add a link above the node another stands on;
two calls race and the third sees what they left.

Deadlock checking is off where the bounds stop the model: connections, messages
and stream are finite. In `Sessions` the process may also die (`fault`).
`MCSessions.cfg` treats the tasks as interchangeable, which they are: no property
names one.

### Fairness

* `Sessions`: weak fairness of the main loop, of each task and of the clock.
  The loop has no exit; the pool takes every task; time passes. Clients owe
  nothing.
* `Receive`: TCP delivers in the end, workers go on.
* `Routing`: weak fairness of each worker and of the main thread in the call it is
  in: the operating system runs every thread. Nobody need publish, connect or
  subscribe, and nothing need be retransmitted.

`KeepAliveEnforced` says "once the main loop has gone round with the session on
the heap": without that the property is `SilentDisconnected`, which fails.
`AllHandled` excepts events that bring the end of two packets (`merged`), since
`parseData` takes one packet for each event, and tasks that overlapped.

## 4. Proofs

All theorems hold for any sets of clients, identifiers and packets and any
bounds.

**SessionsProofs.** Four layers, each inductive on those before it, without any
assumption but those on the constants.
*Shape*: the types; numbers of objects beyond `made` and `opened` are fresh; the
registry is keyed by the client; what a task at each stage has in hand (`TaskFine`).
*WatchInv*: `last_activity` is not in the future; what is set aside exists only
between deciding and acting; the heap has no duplicates; an entry is never later
than its session's deadline; a session on its way from `addToRegistry` to
`scheduleExpiry` is with one worker and nowhere on the heap (`Unscheduled`); a
session without keep-alive is never judged; every watched session is on the heap, set
aside or with that worker. `Monitored` is not inductive alone: that a pop is followed
by a push or a disconnection rests on "not late", which rests on activity only moving
forward. It gives `KeepAliveMonitored`, `HeapHasNoDuplicates` and
`ZeroKeepAliveNeverExpires`.
*KnownInv*: who has a clean session asked for one (`CleanKnown`); of an undisturbed
client one CONNECT at a time is between look-up and registration (`OneInside`), and
when it registers there is no session (`RegisterFree`); a session once found stays
(`Found`) and is the only one made (`AllRegistered`). It gives `HeapEntriesLive`,
`NullOnlyKnownHolds` and `SessionKeptHolds`.
*ClaimInv*: a transport that is, or is about to become, the connection of a client is
that of its registered session, which is connected (`OneClaim`), so the next CONNECT
finds it; when the new session is registered no transport is left (`Cleared`). The
step that matters is `kick`: what it found registered is still registered or erased
(`KickCurrent`). It gives `OneTransportHolds`.

**HandshakeProofs.** `HandshakeInv` joins the types with: one exchange at a time
(`OneAtATime`); the transport the client listens on carries one packet at a time
(`Talk`), and that packet is what the client waits to see answered (`Asked`), while
those of the transports it has left are any; every message is found under its own
identifier (`Names`); and for the identifiers that are not crossed, that nothing is
left of an exchange that ended (`Unused`), where the message of the present one is
(`Stages`), and what an answer on its way says about that (`Answered`). Nothing is
assumed of the order of packets or of the identifiers others use. `RoutedOnPubrel`
follows from `Stages`; `QoS2DeliversOnce` proves step by step that the handshake
implements `ExactlyOnce`: PUBREL with the message in `inflight` is `Release`, PUBCOMP
is `Confirm`, an identifier that becomes crossed is `Spoil`, the rest stutters.

**TopicTreeProofs.** `TreeTypeCorrect` (prefix-closed, one subscription for each client
and node), `NeverSpurious`, and `TreeImplementsTable` when no filter has a
wildcard.

**TopicWalkProofs.** `WalkIsClosedForm`: the loop and the two recursions of the code
compute the closed form in every tree, so what is proved of the closed form is proved
of the code's walk. The induction theorems of the library take an operator and cannot
be used, but well-foundedness is a statement about a set: `LeastNat` of `LeastNumber`
follows from it, and each induction here is about the least case that fails. It also gives that the recursive functions exist (`GetExists`),
without which nothing follows from their definitions. `handleWildCard` on the node r
appends r and all below it, once each (`WildCard`, by the least distance from the
longest path; a node below r is below one child of r only, `UnderLinks`). For
`getNode`, `At` says where a call may stand (on a node that the levels behind it lead
to) and `Part` what it should answer: the part of `Created` and of `Hits` at and below
that node. `MadeOn` and `HitsOn` split that part over the links the code goes on to
(`Onward`), `LevelAdded` says that the node added by `addLink` changes neither
`Created` nor `Hits`, `GetStep` that a call is right when the calls it makes are,
`GetNodeRight` is the induction on the levels to go. The invariant it rests on is that
paths stay bounded and prefix-closed. Assumed: `TreeAssumption`.

Then `SplitIsRight`: for every string with each level behind a slash, and however
slashes meet in it, `split` gives the levels of a node exactly when the string spells
them. `Reading` is the invariant of the loop: the levels found and the one begun, put
together, are the characters read after the first (`ReadFirst`, `ReadNext`,
`ReadLast`), and of such a string all are kept (`RootedKept`). Another node
cannot have the same text (`TextInjective`): the last slash tells where the last level
begins (`LastSlash`). That nodes have slashes nowhere else is the invariant
`AllSpelt`: a walk takes its levels from a filter or from nodes. Assumed:
`TreeAssumption` and `WalkAssumption`; `SplitRight` shows that what `split` makes of a
string of more than one character satisfies the latter.

**RoutingProofs.** `RoutingInv` (stated in `Routing`, so that TLC can check
it) joins the types and the four properties with: who has subscriptions, one for
each session (`Subscribers`); packets held or sent are of published messages
(`Stores`); what a thread has in its hands (`Jobs`); a message is the work of
one worker, who serves the subscriptions it was matched with (`Work`); a
session still to be served has no fresh copy (`NotYet`), which gives
`OnceFresh`; a session that was served has the message, or had another one under the
publisher's identifier (`Served`, in terms of `Accounted`), which gives `Kept`; how
far a counter is, unless two threads raced for it (`Counter`, `HeapIds`), which gives
`IdsDistinct`; and the main thread works for an entry that is there (`Retransmits`).
`Served` rests on a fact that a reader may miss: nothing is ever erased from `inflight`
of a subscriber. For any
number of sessions, threads and messages and any width of the identifiers.

**TreeThreadsProofs.** `ThreadsInv` joins the types (which say that an object is at
one place and hangs on its parent) and `HoldsGranted` with: the root is never
replaced (`Rooted`); a thread is on the way to its topic (`OnPath`), stands in the
tree (`Stands`), adds only a link that is missing (`Missing`) and follows only
one that is there (`Present`), has seen who came and went (`Witnessed`) and
holds a right copy (`Right`), each unless its topic is affected by a link that
two threads missed; and two threads about to add the same link missed it
together (`Together`). The step that matters is `addLink`: a link that is
missing has no node below it, so nothing is destroyed that anyone stands on or
is subscribed at; a link that is not missing any more was raced for, and every
topic that loses a node is below it. For any number of threads, clients, topics
and levels.

**ReceiveProofs.** First the wire: `decode_length` reads what `encode_length`
writes for every length below 128^3 (`DecodeEncoded`, from `Digit`, `TwoDigits`
and `ThreeDigits`), `Header::unpack` what `Header::pack` writes
(`HeaderRoundTrip`), and each part of a frame is where the unpackers look for it
(`FrameBytes`). Then what `unpack` answers on a buffer that begins like a packet,
for any cut (`PacketFront`): the packet when it is all there, otherwise "partial"
and never an error, even where the code reads one byte past the buffer
(`CutLength`: that byte can at most end the length, and what it says then needs
more bytes than there are). `ReceiveInv` joins the types with: the stream is the
packets one behind the other (`Written`) and, until two tasks overlap, the buffer
holds what was read behind the packets taken (`Buffered`), one worker at most is at
work (`Alone`), and what it holds is what the packet it took says, or the first
one in the buffer (`Spoke`). `HandledInOrder` alone is not inductive: that the
next packet handled is the right one rests on the worker, the buffer and the
stream fitting together between the two locks. From it: `ReceiveTypes`,
`PacketsInOrder`, `StoppedForCause` (a packet that an unpacker accepts never leads to the
error path, `PacketFront`, and a refused one is not met before all ahead of it was
handled). `SentOn` adds that what `build_publish`
writes is the frame of a body that reads back (`BuiltFramed`, `BuiltReads`,
`PublishSent`), for every topic shorter than 2^16 and every payload whose packet
has a length of three bytes. `NothingLeftBehind` is the safety half of
`AllHandled`: `OwedInv` adds that packet ends grow along the stream (`Ordered`) and
that of the packets beyond those taken, waiting in a task or in a worker's hands
(`Promised`) no end was read (`Owed`). An event that is not `merged` ends one packet
at most and brings one task; a task that finds no packet leaves none, since then the
first packet's end was not read. No assumption on the pool, the pieces, the bytes
behind the buffer or the packets, but that a packet is `Spoken`, `Foreign`, `Wrong` or
`Long`.

That this asks nothing of a client but to write MQTT is `ClientPacketsSpoken`: a
frame of an acknowledgement, SUBSCRIBE, UNSUBSCRIBE, CONNECT or PUBLISH, written as
the packet says (`AckBody` to `PublishBody`), for any number of topics and strings and
any remaining length of at most three bytes, is `Spoken`: the unpackers read from it
what was written and refuse nothing. The lists rest on `StringsRead` and `TuplesRead`,
shown from the end of the body to its front: a body that begins with a string is read
as that string and the strings of the rest (`StringsMore`). That `Pieces` exists
(`PiecesExists`, by the least length for which it does not) is what lets anything
follow from its definition.

Only model-checked: liveness (`KeepAliveEnforced`, `AllHandled`, `RoutingEnds`) and
ENABLED, which are out of the prover's reach. Every invariant and action property of
the runs that hold is a theorem. Only proved, and in no run: `TreeImplementsTable`.
That the packets of `MCReceive` which say nothing are `Foreign`, `Wrong` or `Long` is
found by TLC.

## 5. Known disagreements without a run

Met while modelling. Those of the first group are in the models: a history variable
records them and the properties except them by name. Removing the exception from the
property shows the trace.

* *Expiry against reconnection* (managesession.cpp:127; `robbed`): between the
  disconnection and the erase by client id a clean client may reconnect; its new
  session is erased.
* *Error path against reconnection* (mqttsession.cpp:69; `robbed`): the same for a
  clean session whose old transport sends an undecodable packet.
* *Resumed sessions* (packethandlers.cpp:114-125; `resumed`): a persistent client that
  reconnects is not attached to its session: `connected` stays false, the transport is
  the old one. It is never disconnected for silence, against managesessions.h:89, and
  its next CONNECT does not end its transport.
* *Null session* (packethandlers.cpp:195 and others; `client_id` not set, `clean`): a
  packet handled before CONNECT is, or after a clean session expired, dereferences
  null.
* *Late packets* (`crossed`): a PUBLISH and a PUBREL that waited in the pool while the
  client reconnected store and route the message again.
* *Two sides of one inflight map* (managesession.cpp:230 against README.md:105;
  `crossed`): a message sent to a client takes the place of one the client publishes, and
  a retransmission routes the client's own message before its PUBREL.
* *Identifiers of publishers clash* (managesession.cpp:225-232; `dropped`): a message
  for a session whose transport is gone is lost when another publisher's message with
  the same identifier is in its `inflight`.
* *Two tasks of one transport* (mqttsession.cpp:26; `overlap`): two workers unpack the
  same packet before either erases it.
* *Two packets in one event* (mqttsession.cpp:15; `merged`): the second waits until the
  client sends more.
* *The tree is not thread-safe* (topictree.cpp:82 against topictree.h:101; `raced`,
  `torn`): two threads that miss the same link add it twice, and the second destroys
  what the first subscribed.
* *One byte of an identifier* (packethandlers.cpp:453): PUBACK, PUBREC, PUBREL, PUBCOMP
  are a byte short of their stated length; a client that takes the bytes MQTT
  prescribes waits for ever.
* *Types past the table* (unpack.cpp:199 against README.md:104, "MQTT v3.1.1 compliant
  control packet handling"): PINGREQ and DISCONNECT index past `unpack_handlers`, so
  their handlers are never reached.
* *Lowered for one, lowered for all* (managesession.cpp:202-203 against
  mqttsession.h:41): after a subscriber of QoS 0 was served, an offline one of QoS 1
  gets nothing; `Kept` speaks of messages that were not lowered to 0. What
  `storeMessage` keeps is sent to nobody.
* *The top of the retransmission heap* (managesession.cpp:158-181): an entry whose
  session is gone, or whose identifier `inflight` does not have, is never popped
  and nothing behind it is retransmitted. The heap is pushed under one mutex and
  popped under another, and no retry enters the timeout of `poll`.
* *A dead transport at its deadline* (managesession.cpp:123): the entry is
  popped, `connected` stays true, a clean session is never purged.
* *First and last characters* (topictree.cpp:19): "home/x" and "dome/x" share a node, and
  so do "/a" and "/a/". The test clients publish on "test/topic2"
  (test/publisher/qos2.cpp:7) for a subscription to "/test/topic2"
  (test/subscriber/qos2.cpp:7): two nodes. `split_first` shows the first character.

Not in the models:

* `encode_length` returns 0, not the number of bytes (packets.h:256); SUBACK's first
  byte is 0x09; `unsubscribeHandler` tests for the wrong alternative and never
  unsubscribes (in `Sessions` it does nothing); a body whose inner lengths contradict
  its length is read past its end.

## 6. Not modelled, and the plan

Not modelled: the network core (external), logging, the will message, user
names (read, never used), the test programs; bodies whose inner lengths lie;
`inflight_ack`, which only its own removal reads. `MqttSession::client_id` is one
value, not a string in the making. In `Handshake` the handlers other than
`connectHandler` are atomic: what counts is one access to `inflight` (the look before
`storeInflight` changes nothing, as `insert` keeps what is there) and a call of
`routePacket`, which `Routing` takes apart.

What a next version would add:

1. Wildcards in `TreeThreads`: `handleWildCard` iterates over links that another
   thread adds to.
2. The first connection of a resumed client attached to its session, once the code
   does that: `KeepAliveEnforced` and `OneTransport` without the exception.
