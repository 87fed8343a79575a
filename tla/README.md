# A TLA+ model of DevDriver

DevDriver connects tools (Radeon Developer Panel and its modules) with drivers
and applications over a message bus. Every protocol of the repository that is
more than a single datagram (URI, transfer, events, driver control, RGP, RPC,
sockets) runs over a *session*: a reliable, ordered, two-way stream built on an
unreliable datagram bus. This project models that layer, the message channel
below it, the router that carries the datagrams, and the protocols with state of
their own: transfer, URI, driver control and events.

Source paths below are relative to `src/`; line numbers are in `PROJECT.json`.

## 1. Inventory

### Modelled parts

| part | state | operations | hard behaviour |
|---|---|---|---|
| `Session` (`shared/legacy/src/session.cpp`, `session.h`) | state (Closed ... FinWait2), callback state, id, two windows, connection and disconnection events | Connect, BindToServer, one handler per message, Update (acknowledge, retransmit, transmit, close), Shutdown, Send, Receive | Send and Receive run on application threads without `m_sessionMutex`; windows have locks of their own, the state has none |
| `TransmitWindow` | 128 slots, semaphore of free slots, next / first unacknowledged / last sent sequence number, duplicate-ack and retransmit counters, window the peer advertised | write a slot, mark as acknowledged, fast retransmit, retransmit on timeout, transmit | slots are reused; semaphore, valid flags and sequence numbers must agree |
| `ReceiveWindow` | 128 slots, semaphore of readable packets, next unread / next expected / last acknowledged | store a packet, acknowledge, read | loss, duplication and reordering; the packet one window ahead shares a slot with the unread one |
| `SessionManager` (`sessionManager.cpp`) | `m_sessions` (id to session), `m_protocolServers`, `m_sessionMutex` | EstablishSessionForClient, HandleReceivedSessionMessage, UpdateSessions, (Un)RegisterProtocolServer, HandleClientDisconnection, ShutDownAllSessions | sessions change key during the handshake; a duplicated Syn makes a second session; callbacks into servers that may go away |
| message channel (`messageChannel.inl`) | client id, message thread, the session manager's pointer to the channel, the queue of discovered clients | Register, Unregister, Update, Forward, Disconnect, DiscoverClients | a Forward that fails inside session processing disconnects while the session mutex is held; Unregister and the message thread both update; the discovery queue is shared by all callers |
| router (`apis/ddRouter/src/listener`) | table of clients, per transport the clients reached through it, queue of the core thread, routing cache of each transport thread, ids handed out | connect, disconnect, ping, query, remove; route and broadcast; remove a transport | caches that outlive the client, removal beside routing, a client that exits before it knows its id |
| transfer (`protocols/ddTransfer*.cpp`, `ddTransferManager.cpp`) | blocks with a count of their transfers, one state machine per session, one context per client | open, close, pull, push, abort, wait for the transfers of a block | abort crossing the end of a transfer, overruns, a session that ends in the middle |
| URI (`protocols/ddURI*.cpp`) | services under a mutex, per session a pending post, a response block and a queued response | register and remove services, request, post, read, abort | a block opened for one request and used by another; a service removed while its request is on the way |
| driver control (`protocols/driverControlServer.cpp`) | driver status, resume event, step counter, pending step of the initialization, sessions | phases and frames of the driver; pause, resume, step | status and event are written one after the other by two threads |
| events (`protocols/ddEvent*.cpp`, client in `apis/ddEvent`) | providers with chunks and a session pointer, pending sessions, per session a queue of chunks | register, subscribe, enable, disable, write, flush, send, tear down | writers look at the provider without the lock under which it is changed |

What makes them correct:

- session: a reader gets exactly what the peer sent, in order and once; nothing
  is acknowledged before it is stored; the two ends agree on who is connected
  with whom; a session closes only when its data was read, and closes in the
  end; a callback is called when, and only when, its server is there;
- channel: a lost transport ends every session, no thread waits for a lock it
  holds, Unregister returns; a client that answers a discovery is reported, once
  and only if it matches;
- router: the tables agree; a client that runs and answers is not removed because
  of others; the client of a process that is gone is removed; a message should
  reach the client with that id or nobody (section 5);
- transfer: the count of transfers is exact; what is read is the block, what is
  stored is what was pushed; calls return;
- URI: a response and post data belong to the request; a removed service does
  not run; requests return;
- driver control: the driver sleeps and runs as its status says; a step is
  answered and ends where it should; no driver waits for a client that is gone;
- events: a writer has a session to write to; the client gets a prefix of what
  was written, whole events in order, and catches up.

### Parts that are not modelled

| part | why | what would be worth a module |
|---|---|---|
| transports (`socketMsgTransport.cpp`, `ddLocalNgMsgTransport.cpp`, `ddDevModeQueue.cpp`) | I/O over sockets, pipes and a shared queue; what they may do to a datagram is the bus of `SessionManager`, that they may fail is in `MessageChannel` | the shared queue of `ddDevModeQueue.cpp`, whose other end is outside the repository |
| RGP (`rgpServer.cpp`) | left for later | the trace state machine, with the driver thread as in `DriverControl` |
| RPC (`apis/ddRpc`) | left for later | the services lock, held while a service of the application runs |
| sockets over sessions (`apis/ddSocket`) | left for later; its use of a session is in `SessionManager` | accept queue and its limit, retry loops |
| DevDriver server and client objects, network connection, tool API, modules | construction, argument checks, conversions, tables of callbacks | order of destruction |
| event parser, `RmtEventTracer` | left for later | packets cut at arbitrary places; begin, end and abort |
| info, internal, pipeline and ETW services, settings | answers to requests and tables of values | order of user overrides and end of initialization |
| keep-alive counters of the channel | in `MessageChannel` the keep-alive is one of the ways in which the transport is lost | the counters survive a new registration, and an answer that is overtaken moves `m_lastKeepaliveReceived` back |
| platform layer and containers | used through what mutex, semaphore and event promise | |
| vendored code (`imported/`) | zstd, rdf, json, Catch, CLI11 and others are not this program; they are most of the lines under `src/` | |

`PROJECT.json` lists all components and, under "hazards", the places in the code
where the hard behaviours bite.

### How the parts interact

A client calls `EstablishSessionForClient`; the session writes a Syn into its
send window. From then on everything happens in `Update`, on the message thread:
it acknowledges, retransmits, transmits and closes. The server side creates a
session for every Syn, answers with a SynAck that carries the final id, and
calls `SessionEstablished` when the Ack arrives. Data, Fin and handshake packets
share one sequence space and one window per direction. A side that closes writes
a Fin (FinWait1, FinWait2) and is Closed when everything is acknowledged; the
other one is Closing until its application has read up to the Fin.

The message thread of a channel reads the transport, hands session messages to
the session manager, and updates the sessions, which calls `UpdateSession` of
the protocol servers: transfer, URI, driver control and event server are updated
there, one session at a time, with the session mutex held. The router sees
datagrams only: it gives out the client ids, pings the clients and forwards what
they send. The URI server keeps its responses in blocks of the transfer manager,
and URI clients pull and push them with transfer clients.

Each protocol module takes a session for what `PairedStreams` says it is: a FIFO
in each direction that accepts `Window` messages and may be closed from either
side. `SessionManager` is shown to implement that specification.

## 2. Modules

| module | models |
|---|---|
| `SessionProtocol` | states, messages, packets, window arithmetic; CONSTANTS with their assumptions |
| `TransmitWindow`, `ReceiveWindow` | the two window structures and what the member functions of `Session` do to them, one operator per step |
| `Session` | one operator per member function of `Session`; it takes the object before the call and returns it after the call, with the datagrams it sent in `out` |
| `SessionManager` | two session managers, their message threads, application threads, the bus |
| `PairedStreams` | the abstract specification: endpoints paired once, each delivering the payloads its peer accepted, in order |
| `MessageChannel` | registration, the two threads of a channel, the session mutex, every way to disconnect |
| `ClientDiscovery` | `DiscoverClients`, pings and pongs |
| `Router` | `RouterCore`, core thread, transport threads with their caches |
| `Transfer` | transfer manager, server and clients |
| `Uri` | URI server and clients |
| `DriverControl` | driver thread and request handlers |
| `EventServer` | providers, writers, event sessions and clients |
| `MCSessionManager`, `MCClientDiscovery`, `MCRouter` | functions and symmetry sets that TLC needs |
| `SessionProofs` | the proofs about sessions, in three parts: windows and member functions, the session manager, what is sent and read |
| `ChannelProofs`, `DiscoveryProofs`, `RouterProofs`, `TransferProofs`, `UriProofs`, `DriverProofs`, `EventProofs` | the proofs about the other modules |

Modules with a second version of an operation (`...Half`, `...Unlocked`,
`...Anyway` and so on, marked "Changed:") keep it for sensitivity tests: with it
in the place of the operation, the property named in `PROJECT.json` fails.

### The session layer

**State.** `session[o]` is the object `o` with the fields of the class; `key[o]`
is its key in `m_sessions` (`NoSession` when it is not in the table); `net` is
the set of datagrams under way; `thread[side]` says in the middle of what the
message thread of a side is; `sending` and `receiving` are the application
threads inside Send and Receive; `registered` is the protocol server;
`released` says that the client application dropped its reference. `accepted`
and `delivered` record what Send took and Receive returned.

**Atomicity.** A message thread holds `m_sessionMutex` for a whole handler or
Update. Application threads do not take it, so a step of the message thread is
cut wherever an application thread can see or change what comes after:
`HandleFinMessage` between storing the Fin (which wakes the reader) and setting
Closing (`ReceiveFin`, `FinishFin`), and `UpdateSessions` between Update and the
second look at the state (`UpdateSession`, `RemoveIfClosed`). Send and Receive
are cut at the wait for the semaphore. Inside Update the window locks make each
part atomic, and the state it writes differs from what it read only through a
Fin in the receive window, which exists only in states that the message thread
leaves for Closed or not at all; a Receive that is between the state check and
the window lock is equivalent to one that finished earlier. Waits that time out
may do so at any moment.

**Abstractions.**
- A payload is the number of the Send call. Payload sizes, and the buffer that
  is too small in Receive, become the action `ReceiveNothing`.
- `sequence[i]` is `messages[i].sequence`: the code writes both together.
- Time: which packets have timed out is an input of Update (`late`), a prefix of
  the unacknowledged ones; how many datagrams the transport takes before it
  answers NotReady is another (`room`). SendOrClose, which repeats on NotReady,
  always succeeds. A transport that fails for good is not modelled (it belongs
  to the message channel).
- The bus is a set: it reorders at will, `Lose` loses, `Deliver` may keep a copy.
  Two equal datagrams under way are one.
- A slot that was never written is an all-zero header, addressed to the
  broadcast client and no session message: sending it has no effect on a session.
- Ids: a server object is its own id. `GetNewSessionId` avoids ids in the table;
  its wrap-around after 2^16 sessions is not modelled, nor are the versions
  (all sides are of this repository) or the reasons of termination beyond
  success and error. The `UpdateSession` callback of a protocol server is the
  server's own code: what it can do to a session is Send, Receive.
- One protocol, one client session object. The sequence numbers are unbounded.


### The message channel

`MessageChannel` is about control: who holds `m_sessionMutex`, and who waits for
whom. Each of the two threads is a stack of labels, so that a Disconnect made
deep inside an update, and the shutdown it starts, are the same steps wherever
they are called from. A session is reduced to absent, being opened by this side
(`connecting`) or accepted from the other one (`accepting`), established,
waiting for its Fin, or closed. The pointer to the channel that Destroy clears
is `bound`; a shutdown that would dereference null goes on here as if the
channel were not connected, and `EntryHasChannel` says that it would. The mutex is the POSIX one, which is not
recursive. A read or a write of the transport may fail at any time; `Faults`
adds the failures inside session processing, the sessions opened by other
threads and the join that times out. Steps are cut at every acquisition and
release of the mutex and at every wait.

`ClientDiscovery` has the shared queue with its flag, filter and event, the
callers, and one ping and one pong per client under way. Each step of a caller is
what it does under the lock of the queue, or its wait.

### The router

The core thread handles one message, one query or one removal per step. A removal
includes the broadcast that announces it, the clients for which a write of that
broadcast fails, their removal and so on (`Removed`). The removal that runs
without the locks is a step of its own, one for all maps: that threads with the
locks iterate the same maps meanwhile is visible as `TablesAreOwned` only. The
look-up of the transport in `ProcessRouterMessage` and what follows under the
other mutex are one step, because the transport is kept alive by a shared pointer
and looked up again by `AddClient` and `RemoveClient`. A transport thread routes in the
steps between which it holds no lock: look up in its cache, find in the tables,
transmit; a broadcast keeps the tables locked over several steps. A client
process has one connection, exits orderly (`Leave`) or not (`Crash`), and answers
pings and queries while it runs, as late as it likes: a client that runs expires
too, and may ask for an id again. Only a write to a client that has exited fails.
`Reuse` lets an id that was given back be drawn again at once; the code draws ids
at random, so this is rare in practice but not excluded, and section 5 shows what
it does. `SetClientFlags`, `QueryStatus` and the start and stop of the whole
router are left out.

### The protocols over sessions

- `Transfer`: blocks with their data, the session state machine by state, and
  each client call as its sends and waits. Data is a sequence of items that name
  who wrote them, and the CRC of some data is that data: two data with the same
  CRC are not considered. The 32-bit size of a request is `Width`.
- `Uri`: the server's mutex is held from the moment a service is found until it
  has returned, two steps, because other threads try to remove the service in
  between. A transfer is one step that succeeds or fails. What a request, a block
  or a response holds is the number of the request it belongs to.
- `DriverControl`: every pair "write the status, set or clear the event" is two
  steps. What `AdvanceDriverInitState` does up to its write of the status is one:
  requests are refused during a phase, so none of them comes between its reads. `overlap` records that one thread began such a pair while the other one
  was inside its own; the properties say what holds without it, section 5 what
  happens with it. Waits with a timeout end when no session is left.
- `EventServer`: the operations that hold `m_updateMutex` and wait for a writer
  in the middle (`op`) are several steps: flush, turn off, reset the session. A
  writer looks at the provider without a lock, then takes `m_chunkMutex`. `risk`
  records the providers whose writers the code does not protect (section 5); with
  `BeyondRisk = FALSE` behaviours end there. A provider that has unregistered may
  be registered again as it is, and is then at risk if it is still enabled, or as a
  new object under the same id, disabled and empty, as the ddEvent API does
  (`apis/ddEvent/ddEventServer/src/ddEventServer.cpp`) once no thread writes to the
  old one. An event is its size in packets; an update enables or disables one
  provider.

## 3. Runs

Deadlock is not checked in any run: each of these systems may come to rest when
everything is closed and the bounds are used up. That nobody is left waiting is
stated by the liveness properties.

| run | instance | states | shows |
|---|---|---|---|
| `session_stream` | windows of 2, 3 sends, 1 loss, 1 duplicate, a transport that may be busy | 1.1M | slots are freed as they are acknowledged and reused, nothing is acknowledged before it is stored, the stream arrives in order and once (refinement of `PairedStreams`), Closing ends only at the Fin |
| `disruptions` | 2 server objects, 1 duplicate; sessions rejected, protocol unregistered and registered | 0.6M | callbacks have a server; a session is found under its id; the second session of a duplicated Syn is never paired |
| `release` | 1 send, timeouts at any moment, peer may vanish | 0.4M | a client that drops its session gets rid of it |
| `channel` | 2 registrations, 2 sessions, failing writes, sessions from other threads | 4.5k | the channel is there for every session that was open, nobody waits for a thread while it holds the mutex, sessions of a lost transport end, Unregister returns |
| `discovery` | 1 caller, 3 clients of 2 kinds, 4 pongs, 2 calls | 11k | event and queue agree, a woken caller finds an entry, only matching clients are reported, a waiting call is told when a matching client answers |
| `router_tables` | 2 transports, one of them to another router, 2 connections, 3 ids, a transport that stops, clients that expire at the first missed ping | 3.3M | the tables agree, a client that runs is removed only for its pings or with its transport |
| `dead_clients` | 1 connection, 2 ids, 2 missed pings | 12k | a process that exits at any point is removed |
| `transfer` | 2 clients, 1 block, 3 items in chunks of 2, window of 1; aborts, overruns, timeouts | 0.3M | counts are exact, data arrives whole, calls return, blocks are let go |
| `uri` | 1 client, 2 services, 2 requests, 4 blocks, window of 1, every kind of post data, timeouts, failed pushes | 0.3M | responses and post data belong to their request, removed services are quiet, requests return |
| `driver_control` | 2 sessions, steps of 0 and 2 frames | 7.5k | without overlap: sleep and status agree, steps end where they should and are answered; the driver goes on when its clients are gone |
| `events` | 2 sessions, 1 provider that comes back as itself or as a new object, 1 writer, 2 events of a chunk's size, window of 1 | 1.2M | up to the risks of section 5: writers find their session, the client gets a prefix, in order and whole, and catches up |
| `lost_ack` | smallest instance, thresholds of the code | | violated: see section 5 |

**Bounds.** Windows of 2 slots reach what 128 slots reach: a full window,
reuse of every slot, and a packet one window ahead of the reader; nothing in the
code depends on the number except the ratio of the advertised size to it. Three
sends are one more than the window holds. `MaxLosses` and `MaxDuplicates` of 1
put one fault at every possible place. `kMaxRetransmits` of 0 makes giving up
happen early and often; `lost_ack` uses the values of the code (5, 3, 5).
`MaxAckCount` bounds the counter of duplicate acknowledgements, which grows
without limit as long as a peer repeats a packet: an Ack or SynAck is then not
delivered, which is a behaviour of the bus. `Rooms` are the values of `room`.
`Patient` leaves out spurious timeouts (a timeout while a datagram of that
session is under way), which multiply the state space; `release` has them.

In the protocols a `Window` of 1 makes every send meet a full window; two
requests per URI client are the least with which the leftovers of one meet the
next, and in `transfer` two clients take the place of the second request.
`NumBlocks` is what two requests can open. A `ChunkSize` of 2 packets and events
of 2 make an event cross from one chunk into the next, because room for a time
stamp is taken too. `Counts` has a count that is at once done and one that needs
a frame in between. `MaxQueue` of the router bounds its input queue, so that it
is full and not full. Its `kClientTimeoutCount` is 0 in `router_tables`, so that a
client that is late once expires, as often as possible, and 2 in `dead_clients`.
`MaxUpdates` bounds the updates that clients of the event server send before one
of them is gone. The sets of the remaining constants are small because one
more member only repeats what the others do. `TypeOK` of `ClientDiscovery`,
`Router`, `Transfer` and `Uri` is written for the reader and holds on these
instances too, but is not among the properties of a run.

**Fairness.** In `SessionManager`, `LiveSpec` assumes that the message thread finishes the handler it
is in, and that a session in the table is updated again and again, with some of
the updates finding a timed-out packet when a packet waits for its
acknowledgement. The code justifies it: `MsgChannelReceiveFunc` loops over
Update until the channel is destroyed, every Update ends in `UpdateSessions`,
and the timeouts are bounded by `kMaxRetransmitDelay`. The condition is written
as an implication between "infinitely often" formulas rather than as `SF` of the
action, because Update may also be a stuttering step on the session. Nothing is
assumed about applications or, in `LiveSpec`, about the bus. `ReliableSpec`
adds that the bus runs empty again and again: no datagram is under way for ever.

The other modules have their fairness in `Spec`:

- `MessageChannel`: both threads run; a thread that keeps asking for the mutex
  gets it (strong fairness of the steps that take it); the transport does not
  deliver messages without any pause, and the wait for the sessions of a shutdown
  times out.
- `ClientDiscovery`: the message thread runs, clients answer, a set event wakes
  its waiter. The timeout of a call need not happen.
- `Router`: the core thread handles its queue and reaches `UpdateClients` in
  every round, transport threads leave their critical sections. Strong fairness
  stands for locks that others hold again and again.
- `Transfer`, `Uri`: the message thread updates every session (in `Uri` it may
  have to wait for the server's mutex, hence strong fairness), a service returns,
  and a client inside a call goes on. Timeouts, failures and disconnections are
  never assumed to happen, so a call that returns does so without them.
- `DriverControl`: the driver initializes and ticks, the mutex comes to who keeps
  asking, an event that is set again and again wakes its waiter. A client need
  not send anything.
- `EventServer`: weak fairness of the message thread's steps, of a writer inside
  a call and of the client that reads.

## 4. Proofs

The theorems hold for every value of the constants that meets the named
assumptions of the modules (`ASSUME`), all of them about types and distinctness,
positive sizes and so on. Where a theorem has a hypothesis of its own it is named
below; section 5 shows that the property fails without it. TLC checked every
property on the instances of section 3 before it was proved.

### Sessions

`SessionProofs`, for any set of server objects, any window size, any thresholds, and any number of sends, losses,
duplicates and retransmissions. Three invariants, each on top of the one before.

**Windows** (`IInv`):

- `TypeCorrect`: `Spec => []TypeOK`. It needs more than types: the semaphore and
  the advertised window are natural numbers only because they count.
- `SendWindowsAreConsistent`: `Spec => []SendWindowsConsistent`.
- `ReceiveWindowsAreConsistent`: `Spec => []ReceiveWindowsConsistent`.

`IInv` adds to the three properties: sequence numbers start at 1; a session in
SynSent has an untouched receive window, because `HandleSynAckMessage` moves
`nextExpected` without looking at the slots and would leave valid slots outside
the window otherwise (`FreshUnlessClosing`; the exception is a Fin that is being
handled in SynSent, when the mutex keeps the SynAck away); and a message thread
in the middle of a handler is at work on a session object. The proof shows for
each window operator that it keeps the window consistent (with facts about
slots: two sequence numbers less than a window apart have different slots), then
for each member function, then for each action.

**Ids** (`IdInv`):

- `KeysAreSessionIds`: `Spec => []KeysAreIds`, the assertion of `FindOpenSession`
  while the client changes its key in the middle of the handshake.
- `CallbacksFindServer`: `Spec => []CallbacksHaveServer`, the assertions
  `pServer != nullptr`.

The invariant says who wrote what: every packet in a send slot and every datagram
under way is genuine, that is, written by an object of the sending side under an
id that object may use (`Genuine`, `NetIsGenuine`); only a Rst may come from the
manager itself. So a SynAck always names a server object and the client's first
id, and a second key can only be that of its sender. `TableFits` ties the key of
an object to its id and state and to what its server was told, `ThreadsFit` says
that the session a message thread is at work on stays in the table, and
`UnusedIsApart` that nothing refers to an object that was not created yet.

**Streams** (`StreamInv`):

- `SessionsArePairedStreams`: `Spec => ImplementsPairedStreams`. The first SynAck
  is the `Pair` step of the client, the message that establishes a server session
  is the `Pair` step of that session, `EndSend` is `Accept`, an `EndReceive` that
  returns data is `Deliver`; every other step leaves the abstract state alone.
- `AcknowledgedHasBeenStored`: `Spec => []AcknowledgedIsStored`.
- `ClosedWhenAllIsRead`: `Spec => SafeToClose`.

Two sessions are partners from the moment the client adopts the id of the server
object, which may be long before that object is told so: this is what the
invariant is stated with (`HasPartner`, `Partner`), not `PeerOf`. Its heart,
`Streaming`, describes everything a session ever wrote by two numbers: the next
sequence number `n` and the sequence number `f` of its Fin (0 when there is
none). A Send that was under way when the session began to close is accepted
*behind* the Fin, so `f` need not be the last number; `Before(f, n)` counts the
Data packets below `n`, and a Data packet carries exactly that count as its
payload. `Sending` says that all slots and all datagrams under way are packets of
that one stream, or Acks for what is stored; `Reading`, that the partner has
stored nothing else, has delivered `Before(f, nextUnread)` payloads, and has
stored whatever is taken as acknowledged. The other parts keep strangers away:
objects without a partner have stored and acknowledged nothing beyond the
handshake (`Opening`), the client addresses only its partner (`ClientSpeaks`), an
object that answered a Syn expects number 2 (`Answering`), and whoever is in
Send, in Receive or beyond the handshake has a partner (`Attached`). The proof
first says of each member function what it may do to the two windows and to the
datagrams (`Follows`: at most one packet written under the next number, only
stored packets acknowledged, only kept packets sent), then that a step of that
kind keeps the invariant (`StreamStep`), then goes through the actions.

### Message channel

`ChannelProofs`, for any number of sessions and registrations:

- `ChannelTypeCorrect`: `Spec => []TypeOK`, which contains that the holder of
  `m_sessionMutex` is the thread that is inside of it; for all faults.
- `HolderNeverWaits` and `ShutdownIsBound`: `HolderDoesNotWait` and
  `ChannelIsBound`, when the join of the message thread does not time out
  (`"join_timeout" \notin Faults`). A thread left over from a join that timed out
  runs beside the next registration and breaks both. `ChannelIsBound` leaves out
  the sessions that another thread has begun to open: the code dereferences null
  for one that was opened too late (section 5).
- `ShutdownHasChannel`: `EntryHasChannel`, that no entry of any kind meets a null
  pointer, for all faults but the sessions opened by other threads
  (`"establish" \notin Faults`), the join that times out included.

`LockInv` reads the owner of the mutex off the two stacks of labels; `LifeInv`
says in which frames a thread may wait for its sessions: only in Destroy, after
the message thread has gone, while every other shutdown has lost the transport.
`EmptyInv` says why the table is empty once Destroy has cleared its pointer: the
protocol servers were unregistered before, so nothing was accepted since the last
look at the table.

### Discovery

`DiscoveryProofs`, for any number of clients, pongs and calls:

- `EventFollowsQueue`: the event is set exactly while the queue has an entry,
  for any number of callers. The invariant `Tracked` is the property with the
  types of queue and event.
- `OneCallerFindsClient` and `OneCallerGetsMatches`: `WokenFindsClient` and
  `ReportsMatch`, for one caller; with two they fail. `CallerInv` says why one
  caller is enough: between two calls the queue is empty and inactive, so a late
  pong of an earlier call is not queued, and during a call the filter of the
  queue is the filter of the call.

### Router

`RouterProofs`, for any number of connections, transports, ids and threads:

- `TablesStayEqual`: `TablesAgree`, when no id is drawn twice (`~Reuse`).
  `TableInv` needs that every id which anybody takes for that of a connection, in
  a queue, a cache or a table, was drawn before (`PairsAreDrawn`): the id of a new
  client then meets nothing left over from an older one.
- `LiveClientsAreKept`: `LiveClientIsKept`, also when no id is drawn twice, and for
  clients that answer late or never. `PairInv` follows each pair of an id and a
  connection through queue, tables and caches: an id is that of one connection for
  ever, so a stale entry of a cache whose write fails removes nobody else.

### Transfers

`TransferProofs`, for any number of clients, blocks and requests, any window and
chunk size, both versions of the protocol, with timeouts, aborts, disconnections
and overruns:

- `TransfersHoldBlocks`: while a session transfers a block, the block's event is
  not signaled. The invariant `TInv` has the types and that the count of a block
  is at least the number of the sessions that hold it.
- `CountIsExact`: `PendingIsExact`, when no push asks for a size that is 0 modulo
  2^32 (`SizesAreWhole`; section 5 shows what such a request does). `XInv` adds
  that a session between transfers has no block and that no count has any slack.
- `PulledDataIsBlock`: `PulledIsBlock`, without a hypothesis.
- `PushesAreStored`: `PushedIsStored`, when no client gives up waiting
  (`~TimeOuts`; section 5 shows what goes wrong when clients do).

`PInv` is what the third one needs. All but one part of it is local to a client and
its session. A request to pull, the session that has accepted it and the header
that answers it are the same thing at three moments: there is at most one of them
(`Asking`, `NoPull`). While the client reads
(`Pulling`), what it has read is what it took the CRC of (`Pulled`), and the only
sentinel that can still reach it is that of this pull, with the CRC of the block
as it was when the request was accepted (`Current`). The version with the CRC
then refuses what does not match it. The older one has no CRC but no push either,
so that a block does not change while it is pulled (`NoPush`, `Frozen`). When
another session resets the block under a pull, the model lets the session send
what was there before or anything else (`Bytes`).

For the pushes `PushInv` bounds what is under way at each point of a call. Without
timeouts every request is answered before the next one is sent, but an abort may
leave one answer behind: the status that aborts a pull can reach a session that
has just sent its sentinel, and is then answered with a second one. So at most one
message is left between two transfers and two while a push waits for its answer
(`Rests`); a pull is answered by a header and then by its own chunks and one
sentinel (`AsksPull`, `Flows`); at most one message follows the first sentinel of
an aborted pull (`Stops`); and nothing grants a push before its sentinel has been
received (`Clean`, `Closed`). Then the sentinel that a session receives is that of
the current push and carries the CRC of what the application wrote (`Written`),
and `Intact` compares it with the block. Every step of a session is one of five
kinds of moves of its two queues (`Moves`), and each part of the invariant is
shown to be kept by any such move.

### URI

`UriProofs`, for any number of clients, services, blocks and requests:

- `PostDataIsOfRequest`: `PostDataIsOwn`, the service handles a request with all
  of its post data or with none.
- `RemovedServiceIsQuiet`: `UnregisteredIsQuiet`.
- `ResponseIsOfRequest`: `ReadsOwnResponse`, what a client has read since its last
  request is the whole response to it, as long as no request of the session has
  timed out.

The invariant `IInv` has, beside types, `PostsOK` (a request under way names a
block that is closed and holds that request's data), `ServicesOK` (what runs is
registered and has its own data) and `ReadsOK`. Its core is that a closed block
with data never changes (`Keeps`): every step keeps it, and then every request
under way keeps its post data, whatever the steps of other clients, failed pushes
and ended sessions do to other blocks. For the responses `RInv` adds that a
session without a timeout has at most one message under way, and which one it is
is told by where the client is in its call (`TurnsOK`), and that the block an
answer names was closed with the response to the request answered
(`MessagesOK`); `Keeps` carries that to the moment when the client reads.

### Driver control

`DriverProofs`, for any number of sessions and steps: `DriverTypeCorrect`
(`TypeOK`), `WaitIsWokenByStatus` (`WaitFollowsStatus`) and `StepRequestHalts`
(`StepHaltsInit`). The last two properties speak of behaviours without overlap;
`Apart` says what status, event and the open step are at each label as long as
the two threads have not been inside their pairs of writes together; the other
parts say how far the driver can have gone since a request looked at its status.

### Events

`EventProofs`, for any number of providers, sessions, writers and events, any
chunk size and window:

- `WritersFindSessions`: `WriterFindsSession`.
- `SessionsHaveOnePlace`: `SessionHasOnePlace`.
- `StreamsArePrefixes`: `StreamIsPrefix`.

The first two need `PlaceInv` and `WriterInv` beside the types. `PlaceInv`: a
client subscribes once, so that a session belongs to at most one provider ever; a
provider points to an object that exists; an operation that gave `m_updateMutex`
a pause is about the session its provider still has. `WriterInv`: unless it is at
risk, a provider is written to only while it is registered, enabled and not yet
flushed to be turned off, and its chunks are empty otherwise: nothing of one
subscriber is left for the next. That a provider which is not registered has no
session either, unless it is being unregistered, is what makes a new object under
its id harmless for the sessions of the old one. `StreamInv` says where everything written for a
client is: what the client has, the window, the packet held back, the rest of the
session's chunk, its queue and the chunks of the provider are consecutive pieces
of it (`Slice`, `Carries`); and that the answer to the request to subscribe is in
front of the data, since the client drops data while it waits for that answer.

### Only model-checked

All liveness, since fairness and ENABLED are out of reach of the prover; and
`PushedIsStored` of `Transfer` for clients that give up waiting, for which it does
not hold in general: section 5 has a run of timeouts in which an answer to an
earlier push is taken for the answer to a later one. No module uses recursion.

## 5. What the code does not guarantee

The run `lost_ack` refutes a comment of the code: `HandleReceivedSessionMessage`
has a case for the repeated SynAck whose Ack was lost, but the handler never
sends an Ack; the server gives up, and the client is established with nobody.

The properties below are stated in the modules and fail. Each says what a
comment or an assertion of the code says, or what a caller would expect. To see
the counterexample, replace the properties of the configuration by the one named
and change the constants as given.

| property | configuration | what happens |
|---|---|---|
| `ClosedIsFinal` | `SessionStream.cfg` | "there are race conditions here, but they all set it to Closed": the race with `HandleFinMessage` sets Closing, and the session may stay there |
| `TerminatedBeforeRemoval` | `SessionStream.cfg` | a session closed by its reader between Update and the second look of `UpdateSessions` is removed without `SessionTerminated` |
| `FastRetransmitsOutstanding` | `LostAck.cfg` | fast retransmit does not check that the slot it sends holds an unacknowledged packet; repeated SynAcks are enough |
| `ReleasedSessionCloses` | `Release.cfg` with `ServerSends = 1`, `ClientSends = 0`, `Readers = {s1}`, `Disruptions = {"unregister"}`, `Patient = TRUE`, `SPECIFICATION ReliableSpec` | a client session released in Closing with unread data stays in the table |
| `ShutdownLeavesNoSession` | `Channel.cfg` (holds with `Faults = {"locked_write"}`) | another thread opens a session while all are shut down |
| `EntryHasChannel` | `Channel.cfg` | another thread opens a session after the shutdown in Destroy has looked at the table for the last time; Destroy clears the pointer to the channel, and the Disconnect at the end of `Unregister` dereferences it for that session (`sessionManager.cpp:232`) |
| `HolderDoesNotWait`, `ChannelIsBound` | `Channel.cfg` with `"join_timeout"` among the `Faults` | the message thread that was not joined in time runs beside the next registration: it waits under the mutex, or, with a session that another thread opened, shuts sessions down without a channel |
| `WokenFindsClient`, `ReportsMatch`, `MatchingClientIsReported` | `Discovery.cfg` with `Callers = {t1, t2}` | two callers share queue and filter: one takes the other's entry, reports a client the other asked for, or stops the discovery of the other |
| `MissIsCurrent` | `RouterTables.cfg` | a transport thread that has taken an id for unknown goes on doing so when the client connects |
| `FoundTransportExists` | `RouterTables.cfg` | the transport is removed between the two lookups; "This lookup should never fail." |
| `InfoIsFromKnownClient` | `RouterTables.cfg` | the client is removed while its answer is in the queue; "this should literally be impossible." |
| `TablesAreOwned` | `RouterTables.cfg` | the removal of a client whose query could not be sent runs without the locks, beside a broadcast that iterates the same maps |
| `DeliveredToItsId` | `RouterTables.cfg` | the answer to a connection request is lost, the client expires, asks again and gets another id: a cache still leads the first id to it |
| `LiveClientIsKept` | `RouterTables.cfg` with `Connections = {c1, c2, c3}`, `Near = {c1, c2, c3}`, `Far = {}`, `Forwarding = {}`, `Foreign = {}`, `Ids = {i1, i2}`, `Senders = {c1}`, `MayStop = FALSE`, `Reuse = TRUE` and no `SYMMETRY` | a client that has expired answers late and is entered again, unregistered; its id is drawn for a client that has exited meanwhile, and the failed answer to that one removes the first |
| `TablesAgree` | `RouterTables.cfg` with `Forwarding = {}`, `Foreign = {}`, `Ids = {i1, i2}`, `Senders = {}`, `MaxQueue = 2`, `MayStop = FALSE`, `Reuse = TRUE` and no `SYMMETRY` | the late pong of an expired client moves its id, which was drawn again, to another transport |
| `AllocatedIsRegistered` | `RouterTables.cfg` with `Connections = {c1, c3}`, `Near = {c1, c3}`, `Far = {}`, `Senders = {}`, `MaxQueue = 2`, `MayStop = FALSE`, `Reuse = TRUE` | the late pong of an expired client enters it again, under an id the client manager then gives to another one |
| `AnswersCurrentRequest` | `Transfer.cfg` with `MaxRequests = 2` | the answer to a request that was given up is taken for the answer to the next one |
| `PullCanBeAborted` | `Transfer.cfg` with `MaxRequests = 2` | only the older version notes that a transfer is a pull: a pull after a push is still a push to `AbortPullTransfer`, which refuses it |
| `IdleGetsRequest` | `Transfer.cfg` | a push that writes more than it asked for is cancelled, and the sentinel of its close reaches an idle session: "Unreachable code" |
| `FinalizeSavesIntactData` | `Transfer.cfg` | when a chunk is sent again after NotReady its CRC is taken twice, and intact data is refused |
| `ClosedIsFrozen` | `Transfer.cfg` with `Pushers = {c1, c2}` | two pushes into one open block: the second writes after the first has closed it |
| `PendingIsExact` | `Transfer.cfg` with `MaxRequests = 2` and `PushSizes = {4}`, which is 0 modulo `Width` | a push whose size is 0 modulo 2^32 is refused after `BeginTransfer`, the session keeps the block, and its next request begins a second transfer: the count never comes back to 0 |
| `PushedIsStored` | `Transfer.cfg` with `Clients = {c1}`, `Blocks = {b1, b2}`, `Ids = {i1, i2}`, `Chunk = 1`, `Window = 2`, `MaxRequests = 4`, `LocalSizes = {0, 2}`, `PushSizes = {1}`, `Pushers = {c1}`, `Pullers = {}`, `MaxData = 2` | two pushes into a block with data were given up; the fourth takes the answer to the second, its chunk is sent again after NotReady, and what the block then holds has the CRC in which that chunk is counted twice: Finalize succeeds with data that was not pushed |
| `IdsAreUnique` | `Transfer.cfg` with `AnyId = TRUE` | the loop that draws an id accepts one that is registered |
| `ReadsLastResponse` | `UriRequests.cfg` | after a timeout the late response is read as the response to the next request |
| `NoPostIsPending` | `UriRequests.cfg` | the client has given up waiting for the answer to a post request; the block is still pending when its next post request arrives |
| `BlocksAreReleased` | `UriRequests.cfg` | the response block of a request replaces the one of the request before, which is not released |
| `PointersAreLive` | `Events.cfg` with `BeyondRisk = TRUE` | a writer that has looked at the provider before the teardown, or a provider that is enabled without a session, follows a null or deleted session |
| `EndedSessionIsDeleted` | `Events.cfg` | the object of a client that unsubscribed is never deleted |

Two more facts follow from the models without a property of their own.
In `DriverControl`, dropping `~overlap` from `WaitFollowsStatus` or
`StepHaltsInit`, or `overlap` from `StepIsAnswered`, gives counterexamples: a resume or a step
handled between the halted status and its Clear is answered with Success and
lost; a resume whose Signal comes after a concurrent `PauseDriver` leaves a
paused driver running; a pause between the wake-up and the new status is
overwritten. In the event server `kMaxSessionNum = 4` is not the limit of the
pending sessions: `Reserve(4)` leaves the vector its capacity of 16.

## 6. Plan

1. **RPC server and sockets**: the services lock and the handlers' threads; the
   accept queue limit, retries, close.
2. **RGP**: the trace state machine beside the driver thread.
3. **Keep-alive** with its counters over several registrations.
4. **Algorithms**: the event parser on packets cut at arbitrary places, the ring
   and dynamic buffers, against reference definitions.
