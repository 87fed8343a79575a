------------------------------- MODULE Router -------------------------------
(***************************************************************************)
(* The router of a message bus (apis/ddRouter/src/listener): RouterCore    *)
(* with its table of clients and, per transport, the table of the clients  *)
(* reached through it; the core thread, which registers, pings and removes *)
(* clients; and one thread per transport, which routes messages with a     *)
(* RoutingCache of its own.                                                *)
(*                                                                         *)
(* A connection is the address of one client process; a client that leaves *)
(* and comes back has another address.  Ids are drawn at random among the  *)
(* ones the client manager has not handed out, so an id comes back too.    *)
(* Most of the code runs under m_clientMutex and m_transportMutex and is   *)
(* one step here; the places that leave the locks in between are several.  *)
(***************************************************************************)
EXTENDS Naturals, FiniteSets, Sequences

CONSTANTS
    Transports, Connections, Ids, Host, None,
    Via,                 \* the transport of a connection
    Forwarding,          \* the transports whose clients other routers manage
    kClientTimeoutCount,
    Foreign,             \* the ids with the prefix of another router
    Senders,             \* the connections whose clients talk to others
    MaxQueue,            \* bound on the queue of the core thread
    MayStop,             \* transports may be removed
    Reuse                \* an id that was released is drawn again

ASSUME RouterAssumption ==
    /\ Via \in [Connections -> Transports]
    /\ Forwarding \subseteq Transports /\ Senders \subseteq Connections
    /\ Foreign \subseteq Ids
    /\ Host \notin Ids /\ None \notin Ids \cup Connections \cup {Host}
    /\ kClientTimeoutCount \in Nat /\ MaxQueue \in Nat
    /\ MayStop \in BOOLEAN /\ Reuse \in BOOLEAN

VARIABLES
    client,      \* m_clientMap: the context of an id, NoClient if absent
    reach,       \* m_transportMap: per transport, the connection of an id
    up,          \* the transports in m_transportMap
    allocated,   \* m_clientInfo of the client manager
    drawn,       \* the ids handed out so far
    queue,       \* m_clientThread.queue
    batch,       \* messageBuffer of RouterThreadFunc: the messages it took
    updated,     \* UpdateClients was called in this round of its loop
    core,        \* what the core thread is in the middle of
    thread,      \* what each transport thread is in the middle of
    cache,       \* m_routingCache of each transport thread
    current,     \* m_currentClientId and m_pCurrentClientContext of each
    mine,        \* the id each client process was told is its own
    gone,        \* client processes that have exited
    pinged,      \* connections that owe a pong
    queried      \* connections that owe a ClientInfo

tables == <<client, reach, up, allocated, drawn>>
routes == <<thread, cache, current>>
peers == <<mine, gone, pinged, queried>>
inbox == <<queue, batch, updated>>
vars == <<tables, inbox, core, routes, peers>>

NoClient == [conn |-> None, registered |-> FALSE, retries |-> 0, pong |-> FALSE, identified |-> FALSE]
Context == [conn : Connections \cup {None}, registered : BOOLEAN, retries : 0..kClientTimeoutCount,
            pong : BOOLEAN, identified : BOOLEAN]
Message == [kind : {"ConnectRequest", "Disconnect", "Pong", "ClientInfo", "ClientConnected", "ClientDisconnected"},
            conn : Connections, src : Ids \cup {None}]

Known(id) == client[id].conn # None

TypeOK ==
    /\ client \in [Ids -> Context]
    /\ reach \in [Transports -> [Ids -> Connections \cup {None}]]
    /\ up \subseteq Transports
    /\ allocated \subseteq drawn /\ drawn \subseteq Ids
    /\ queue \in Seq(Message) /\ Len(queue) <= MaxQueue
    /\ batch \in Seq(Message) /\ updated \in BOOLEAN
    /\ core \in [pc : {"idle", "query", "removing"}, id : Ids \cup {None}, conn : Connections \cup {None}]
    /\ thread \in [Transports -> [pc : {"idle", "found", "broadcast", "stopped"},
                                  dst : Ids \cup {None}, conn : Connections \cup {None}]]
    /\ cache \in [Transports -> [Ids -> Connections \cup {None}]]
    /\ current \in [Transports -> [id : Ids \cup {Host, None}, conn : Connections \cup {None}]]
    /\ mine \in [Connections -> Ids \cup {None}]
    /\ gone \subseteq Connections /\ pinged \subseteq Connections /\ queried \subseteq Connections

IdleThread == [pc |-> "idle", dst |-> None, conn |-> None]
IdleCore == [pc |-> "idle", id |-> None, conn |-> None]

Init ==
    /\ client = [id \in Ids |-> NoClient]
    /\ reach = [t \in Transports |-> [id \in Ids |-> None]]
    /\ up = Transports
    /\ allocated = {} /\ drawn = {}
    /\ queue = <<>> /\ batch = <<>> /\ updated = FALSE
    /\ core = IdleCore
    /\ thread = [t \in Transports |-> IdleThread]
    /\ cache = [t \in Transports |-> [id \in Ids |-> None]]
    /\ current = [t \in Transports |-> [id |-> None, conn |-> None]]
    /\ mine = [c \in Connections |-> None]
    /\ gone = {} /\ pinged = {} /\ queried = {}

\* No thread is inside a section that holds both mutexes.
Unlocked == \A t \in Transports : thread[t].pc # "broadcast"

-----------------------------------------------------------------------------
(***************************************************************************)
(* The tables, as functions of their former contents.                      *)
(***************************************************************************)
\* GenerateClientId: not allocated, and with the prefix of this router.
FreshIds == (Ids \ Foreign) \ (IF Reuse THEN allocated ELSE drawn)

Tables == [client |-> client, reach |-> reach, allocated |-> allocated]

SetTables(T) ==
    /\ client' = T.client /\ reach' = T.reach /\ allocated' = T.allocated

\* emplace keeps an entry that is already there.
AddClient(T, id, c, registered) ==
    IF Via[c] \notin up THEN T
    ELSE [T EXCEPT
            !.client[id] = IF @.conn # None THEN @
                           ELSE [conn |-> c, registered |-> registered, retries |-> 0,
                                 pong |-> TRUE, identified |-> FALSE],
            !.reach[Via[c]][id] = IF @ # None THEN @ ELSE c]

\* Changed: the id is kept in the table of its transport.
RemoveClientsHalf(T, R) ==
    [T EXCEPT !.client = [id \in Ids |-> IF id \in R THEN NoClient ELSE T.client[id]],
              !.allocated = @ \ {id \in R : T.client[id].registered}]

\* RemoveClient of each of R.
RemoveClients(T, R) ==
    [client |-> [id \in Ids |-> IF id \in R THEN NoClient ELSE T.client[id]],
     reach |-> [t \in Transports |-> [id \in Ids |->
                  IF id \in R /\ T.client[id].conn # None /\ Via[T.client[id].conn] = t /\ t \in up
                  THEN None ELSE T.reach[t][id]]],
     allocated |-> T.allocated \ {id \in R : T.client[id].registered}]

\* SendBroadcastMessage, n times: each removes the last client a write failed
\* for, whose removal is broadcast in turn if it was a registered one.
BroadcastFailures(T, n) ==
    {F \in SUBSET {id \in Ids : \E t \in up \ Forwarding : T.reach[t][id] \in gone} :
        /\ n = 0 => F = {}
        /\ Cardinality({id \in F : ~T.client[id].registered}) <= n}

\* What is removed with R and n broadcasts, by the end of the recursion.
Removed(T, R, n) ==
    {R \cup F : F \in BroadcastFailures(T, n + Cardinality({id \in R : T.client[id].registered}))}

\* FindExternalClientByConnection: the ids it may return, None for nullptr.
ExternalClients(c) ==
    LET found == {id \in Ids : Via[c] \in up \ Forwarding /\ reach[Via[c]][id] = c}
    IN  IF found = {} THEN {None} ELSE {IF Known(id) THEN id ELSE None : id \in found}

-----------------------------------------------------------------------------
(***************************************************************************)
(* The clients, and the transport thread that reads their message.         *)
(***************************************************************************)
Reads(t) == t \in up /\ thread[t].pc = "idle"

\* RouteInternalMessage.
Enqueue(kind, c, src) ==
    /\ Len(queue) < MaxQueue
    /\ queue' = Append(queue, [kind |-> kind, conn |-> c, src |-> src])
    /\ UNCHANGED <<batch, updated>>

\* A client asks to be registered, again while it has no answer.
ConnectRequest(c) ==
    /\ c \notin gone /\ mine[c] = None /\ Reads(Via[c])
    /\ Via[c] \notin Forwarding
    /\ Enqueue("ConnectRequest", c, None)
    /\ UNCHANGED <<tables, core, routes, peers>>

\* A client behind another router has its id from there; that router
\* announces it, which may be lost.
Appear(c) ==
    /\ c \notin gone /\ mine[c] = None /\ Via[c] \in Forwarding
    /\ \E id \in Foreign : /\ \A d \in Connections : mine[d] # id
                           /\ mine' = [mine EXCEPT ![c] = id]
                           /\ \/ Reads(Via[c]) /\ Enqueue("ClientConnected", c, id)
                              \/ UNCHANGED inbox
    /\ UNCHANGED <<tables, core, routes, gone, pinged, queried>>

\* Unregister of the client's channel.
Leave(c) ==
    /\ c \notin gone /\ mine[c] # None /\ Reads(Via[c])
    /\ Enqueue(IF Via[c] \in Forwarding THEN "ClientDisconnected" ELSE "Disconnect", c, mine[c])
    /\ gone' = gone \cup {c}
    /\ UNCHANGED <<tables, core, routes, mine, pinged, queried>>

Crash(c) ==
    /\ c \notin gone
    /\ gone' = gone \cup {c}
    /\ UNCHANGED <<tables, inbox, core, routes, mine, pinged, queried>>

\* A pong, or the answer to a query, addressed to the router: it is queued
\* for the core thread and then routed like any other message.
Answer(c) ==
    /\ c \notin gone /\ mine[c] # None /\ Reads(Via[c])
    /\ \/ /\ c \in pinged /\ pinged' = pinged \ {c}
          /\ Enqueue("Pong", c, mine[c])
          /\ UNCHANGED queried
       \/ /\ c \in queried /\ queried' = queried \ {c}
          /\ Enqueue("ClientInfo", c, mine[c])
          /\ UNCHANGED pinged
    /\ current' = [current EXCEPT ![Via[c]] = [id |-> Host, conn |-> None]]
    /\ UNCHANGED <<tables, core, thread, cache, mine, gone>>

-----------------------------------------------------------------------------
(***************************************************************************)
(* RoutingCache::RouteMessage for a message from c to another client.      *)
(***************************************************************************)
\* What the thread uses for dst without asking the core.
Cached(t, dst) == IF current[t].id = dst THEN current[t].conn ELSE cache[t][dst]

NeedsLookup(t, dst) == current[t].id # dst /\ cache[t][dst] = None

\* ConnectionInfoForClientId, under m_clientMutex.
LookUp(c, dst) ==
    LET t == Via[c] IN
    /\ c \notin gone /\ mine[c] \notin {None, dst} /\ Reads(t)
    /\ NeedsLookup(t, dst)
    /\ Unlocked
    /\ current' = [current EXCEPT ![t] = [id |-> dst, conn |-> None]]
    /\ IF Known(dst)
       THEN thread' = [thread EXCEPT ![t] = [pc |-> "found", dst |-> dst, conn |-> client[dst].conn]]
       ELSE UNCHANGED thread
    /\ UNCHANGED <<tables, inbox, core, cache, peers>>

\* TransportForTransportHandle, under m_transportMutex, and the new entry.
FillCache(t) ==
    /\ thread[t].pc = "found"
    /\ Unlocked
    /\ Via[thread[t].conn] \in up
    /\ cache' = [cache EXCEPT ![t][thread[t].dst] = thread[t].conn]
    /\ current' = [current EXCEPT ![t] = [id |-> thread[t].dst, conn |-> thread[t].conn]]
    /\ thread' = [thread EXCEPT ![t] = IdleThread]
    /\ UNCHANGED <<tables, inbox, core, peers>>

\* The message is transmitted, or not now, or there is no client to send it to.
Transmit(c, dst) ==
    LET t == Via[c] IN
    /\ c \notin gone /\ mine[c] \notin {None, dst} /\ Reads(t)
    /\ ~NeedsLookup(t, dst)
    /\ current' = [current EXCEPT ![t] = [id |-> dst, conn |-> Cached(t, dst)]]
    /\ UNCHANGED <<tables, inbox, core, thread, cache, peers>>

\* Changed: a write that does not succeed now counts as a failed one.
TransmitGivesUp(c, dst) ==
    LET t == Via[c] IN
    /\ c \notin gone /\ mine[c] \notin {None, dst} /\ Reads(t)
    /\ ~NeedsLookup(t, dst)
    /\ Cached(t, dst) # None
    /\ Unlocked
    /\ cache' = [cache EXCEPT ![t][dst] = None]
    /\ current' = [current EXCEPT ![t] = [id |-> None, conn |-> None]]
    /\ \E R \in Removed(Tables, {dst}, 0) : SetTables(RemoveClients(Tables, R))
    /\ UNCHANGED <<up, drawn, inbox, core, thread, peers>>

\* The write fails: the client is removed from the cache and from the router.
TransmitFails(c, dst) ==
    LET t == Via[c] IN
    /\ c \notin gone /\ mine[c] \notin {None, dst} /\ Reads(t)
    /\ ~NeedsLookup(t, dst)
    /\ Cached(t, dst) \in gone
    /\ Unlocked
    /\ cache' = [cache EXCEPT ![t][dst] = None]
    /\ current' = [current EXCEPT ![t] = [id |-> None, conn |-> None]]
    /\ \E R \in Removed(Tables, {dst}, 0) : SetTables(RemoveClients(Tables, R))
    /\ UNCHANGED <<up, drawn, inbox, core, thread, peers>>

\* RouteBroadcastMessage, with both mutexes.
BeginBroadcast(c) ==
    /\ c \notin gone /\ mine[c] # None /\ Reads(Via[c])
    /\ Unlocked
    /\ thread' = [thread EXCEPT ![Via[c]] = [IdleThread EXCEPT !.pc = "broadcast"]]
    /\ UNCHANGED <<tables, inbox, core, cache, current, peers>>

EndBroadcast(t) ==
    /\ thread[t].pc = "broadcast"
    /\ thread' = [thread EXCEPT ![t] = IdleThread]
    /\ \E R \in Removed(Tables, {}, 1) : SetTables(RemoveClients(Tables, R))
    /\ UNCHANGED <<up, drawn, inbox, core, cache, current, peers>>

-----------------------------------------------------------------------------
(***************************************************************************)
(* The core thread.                                                        *)
(***************************************************************************)
\* RouterThreadFunc takes the whole queue and handles it before it updates.
TakeQueue ==
    /\ core.pc = "idle" /\ batch = <<>> /\ queue # <<>>
    /\ batch' = queue /\ queue' = <<>>
    /\ updated' = FALSE
    /\ UNCHANGED <<tables, core, routes, peers>>

Takes(kind) == core.pc = "idle" /\ batch # <<>> /\ Head(batch).kind = kind /\ Unlocked

\* The response reaches the client, unless it is lost.
Respond(c, id) ==
    \/ /\ id # None /\ mine[c] = None
       /\ mine' = [mine EXCEPT ![c] = id]
    \/ UNCHANGED mine

\* Accept a new client, or tell one that asks again the id it has.
ProcessConnectRequest ==
    /\ Takes("ConnectRequest")
    /\ batch' = Tail(batch) /\ UNCHANGED <<queue, updated>>
    /\ LET c == Head(batch).conn
           Accept(id) ==
             LET T == [AddClient(Tables, id, c, TRUE) EXCEPT !.allocated = @ \cup {id}]
             IN  \/ /\ \E R \in Removed(T, {}, 1) : SetTables(RemoveClients(T, R))
                    /\ Respond(c, id)
                 \/ /\ c \in gone
                    /\ \E R \in Removed(T, {id}, 1) : SetTables(RemoveClients(T, R))
                    /\ UNCHANGED mine
       IN  IF Via[c] \notin up THEN UNCHANGED <<client, reach, allocated, drawn, mine>>
           ELSE \E known \in ExternalClients(c) :
                  IF known # None
                  THEN \/ Respond(c, known) /\ UNCHANGED <<client, reach, allocated, drawn>>
                       \/ /\ c \in gone
                          /\ \E R \in Removed(Tables, {known}, 0) : SetTables(RemoveClients(Tables, R))
                          /\ UNCHANGED <<drawn, mine>>
                  ELSE IF Ids \ Foreign \subseteq allocated
                       THEN UNCHANGED <<client, reach, allocated, drawn, mine>>
                       ELSE \E id \in FreshIds : Accept(id) /\ drawn' = drawn \cup {id}
    /\ UNCHANGED <<up, core, routes, gone, pinged, queried>>

\* The client is removed if the connection is the one of its id.
ProcessDisconnect ==
    /\ Takes("Disconnect")
    /\ batch' = Tail(batch) /\ UNCHANGED <<queue, updated>>
    /\ LET m == Head(batch) IN
       \E known \in ExternalClients(m.conn) :
          IF known = m.src
          THEN \E R \in Removed(Tables, {m.src}, 0) : SetTables(RemoveClients(Tables, R))
          ELSE UNCHANGED <<client, reach, allocated>>
    /\ UNCHANGED <<up, drawn, core, routes, peers>>

\* ProcessRouterMessage: an unknown client is added, under m_clientMutex only.
\* The transport was looked up just before; it is kept by a shared pointer, and
\* a removal in between is the removal after this step, as AddClient and
\* RemoveClient look the transport up themselves.
ProcessRouterMessage ==
    /\ \E kind \in {"Pong", "ClientInfo", "ClientConnected", "ClientDisconnected"} : Takes(kind)
    /\ batch' = Tail(batch) /\ UNCHANGED <<queue, updated>>
    /\ LET m == Head(batch)
           known == Known(m.src)
           query == CASE m.kind = "ClientDisconnected" -> FALSE
                      [] ~known -> TRUE
                      [] m.kind \in {"Pong", "ClientConnected"} -> ~client[m.src].identified
                      [] OTHER -> FALSE
           T == IF known \/ m.kind = "ClientDisconnected" THEN Tables
                ELSE AddClient(Tables, m.src, m.conn, FALSE)
       IN  IF Via[m.conn] \notin up THEN UNCHANGED <<client, reach, allocated, core>>
           ELSE /\ CASE m.kind = "ClientDisconnected" ->
                            \E R \in Removed(T, IF known THEN {m.src} ELSE {}, 0) : SetTables(RemoveClients(T, R))
                     [] m.kind = "Pong" /\ known -> SetTables([T EXCEPT !.client[m.src].pong = TRUE])
                     [] m.kind = "ClientInfo" /\ known ->
                            SetTables([T EXCEPT !.client[m.src].pong = TRUE,
                                                !.client[m.src].retries = 0,
                                                !.client[m.src].identified = TRUE])
                     [] OTHER -> SetTables(T)
                /\ core' = IF query THEN [pc |-> "query", id |-> m.src, conn |-> m.conn] ELSE core
    /\ UNCHANGED <<up, drawn, routes, peers>>

\* QueryClientInfo is sent after the unlock.
SendQuery ==
    /\ core.pc = "query"
    /\ \/ /\ queried' = queried \cup {core.conn}
          /\ core' = IdleCore
       \/ /\ core.conn \in gone
          /\ core' = [core EXCEPT !.pc = "removing"]
          /\ UNCHANGED queried
    /\ UNCHANGED <<tables, inbox, routes, mine, gone, pinged>>

\* RemoveClient without a lock: one step for the maps, so what threads that hold
\* the locks may see of it in between shows only in TablesAreOwned.
RemoveUnlocked ==
    /\ core.pc = "removing"
    /\ \E R \in Removed(Tables, {core.id}, 0) : SetTables(RemoveClients(Tables, R))
    /\ core' = IdleCore
    /\ UNCHANGED <<up, drawn, inbox, routes, peers>>

\* The ping of this round would be one more than the client may miss.
Expired(id) == Known(id) /\ ~client[id].pong /\ client[id].retries = kClientTimeoutCount

\* Changed: the counter is too narrow to reach the limit.
AgedNarrow(id) ==
    [client[id] EXCEPT !.retries = IF client[id].pong THEN 0 ELSE (@ + 1) % kClientTimeoutCount,
                       !.pong = FALSE]

\* A client that may still answer, after the ping of this round.
Aged(id) == [client[id] EXCEPT !.retries = IF client[id].pong THEN 0 ELSE @ + 1, !.pong = FALSE]

\* Every client that has not answered the last pings is removed, the others
\* are pinged.
UpdateClients ==
    /\ core.pc = "idle" /\ Unlocked
    /\ batch = <<>>
    /\ queue = <<>> \/ ~updated
    /\ updated' = TRUE
    /\ LET late == {id \in Ids : Expired(id)}
           aged == [Tables EXCEPT !.client = [id \in Ids |->
                     IF ~Known(id) \/ id \in late THEN client[id] ELSE Aged(id)]]
       IN  \E R \in Removed(aged, late, 1) : SetTables(RemoveClients(aged, R))
    /\ pinged' = pinged \cup {c \in Connections \ gone :
                    Via[c] \in up /\ mine[c] # None
                        /\ (Via[c] \in Forwarding \/ \E id \in Ids : reach'[Via[c]][id] = c)}
    /\ UNCHANGED <<up, drawn, queue, batch, core, routes, mine, gone, queried>>

\* RemoveTransport: its clients and the transport, then its thread.
RemoveTransport(t) ==
    /\ MayStop /\ t \in up /\ Unlocked
    /\ \E R \in Removed(Tables, {id \in Ids : reach[t][id] # None}, 0) : SetTables(RemoveClients(Tables, R))
    /\ up' = up \ {t}
    /\ UNCHANGED <<drawn, inbox, core, routes, peers>>

Disable(t) ==
    /\ t \notin up /\ thread[t].pc = "idle"
    /\ thread' = [thread EXCEPT ![t].pc = "stopped"]
    /\ UNCHANGED <<tables, inbox, core, cache, current, peers>>

CoreStep ==
    \/ TakeQueue \/ ProcessConnectRequest \/ ProcessDisconnect \/ ProcessRouterMessage
    \/ SendQuery \/ RemoveUnlocked

Next ==
    \/ \E c \in Connections :
          \/ ConnectRequest(c) \/ Appear(c) \/ Leave(c) \/ Crash(c) \/ Answer(c)
    \/ \E c \in Senders :
          \/ BeginBroadcast(c)
          \/ \E dst \in Ids : LookUp(c, dst) \/ Transmit(c, dst) \/ TransmitFails(c, dst)
    \/ \E t \in Transports : FillCache(t) \/ EndBroadcast(t) \/ RemoveTransport(t) \/ Disable(t)
    \/ CoreStep \/ UpdateClients

(***************************************************************************)
(* The core thread handles its queue and calls UpdateClients in every      *)
(* round of its loop, and a transport thread leaves its critical section.  *)
(***************************************************************************)
Fairness ==
    /\ SF_vars(CoreStep)
    /\ SF_vars(UpdateClients)
    /\ \A t \in Transports : WF_vars(FillCache(t)) /\ WF_vars(EndBroadcast(t))

Spec == Init /\ [][Next]_vars /\ Fairness

-----------------------------------------------------------------------------
(***************************************************************************)
(* A transport lists an id exactly while the router knows the id as a      *)
(* client of that transport, at the same address: broadcasts reach the     *)
(* clients that directed messages reach.                                   *)
(***************************************************************************)
TablesAgree ==
    \A t \in up, id \in Ids :
        reach[t][id] # None <=> (Known(id) /\ Via[client[id].conn] = t)

(***************************************************************************)
(* The entry of a client that runs stays, whatever the transport threads   *)
(* have in their caches and whatever is late: a failed write through a     *)
(* cached connection, the failures a broadcast meets and sets off, a       *)
(* goodbye that is handled late and a query that fails remove only clients *)
(* that have exited.  Only pings left unanswered, "remove the local client *)
(* from our list if they've timed out", and the end of its transport       *)
(* remove one that runs.                                                   *)
(***************************************************************************)
LiveClientIsKept ==
    [][\A id \in Ids :
          Known(id) /\ client[id].conn \notin gone /\ client'[id].conn # client[id].conn
              => Expired(id) \/ Via[client[id].conn] \notin up']_vars

(***************************************************************************)
(* An id the client manager has handed out is the id of the client it was  *)
(* handed to: "Generate a random client ID that has not already been       *)
(* allocated".                                                             *)
(***************************************************************************)
AllocatedIsRegistered ==
    \A id \in allocated : Known(id) => client[id].registered

(***************************************************************************)
(* The client of a process that has exited is removed.                     *)
(***************************************************************************)
DeadClientIsRemoved ==
    \A id \in Ids :
        (Known(id) /\ client[id].conn \in gone) ~> ~(Known(id) /\ client[id].conn \in gone)

(***************************************************************************)
(* While a transport thread takes an id for unknown, the router does not   *)
(* know it: "If it doesn't exist in the cache we need to look up both the  *)
(* connection info and the transport information from the main router."    *)
(***************************************************************************)
MissIsCurrent ==
    \A t \in Transports :
        current[t].id \in Ids /\ current[t].conn = None /\ thread[t].pc = "idle"
            => ~Known(current[t].id)

(***************************************************************************)
(* The transport of a connection just found still exists: "This lookup     *)
(* should never fail."                                                     *)
(***************************************************************************)
FoundTransportExists ==
    \A t \in Transports : thread[t].pc = "found" => Via[thread[t].conn] \in up

(***************************************************************************)
(* A client that answers a query is known: "this should literally be       *)
(* impossible."                                                            *)
(***************************************************************************)
InfoIsFromKnownClient ==
    Takes("ClientInfo") /\ Via[Head(batch).conn] \in up => Known(Head(batch).src)

(***************************************************************************)
(* A client process that is told an id, from a message the router sends to *)
(* its address, knows that id as its own: HandleMessageReceived of the     *)
(* client asserts that a session message it gets was meant for it.         *)
(***************************************************************************)
DeliveredToItsId ==
    \A t \in Transports, id \in Ids :
        LET c == cache[t][id] IN
            c # None /\ c \notin gone /\ mine[c] # None => mine[c] = id

(***************************************************************************)
(* The tables are changed by one thread at a time: "The client and         *)
(* transport mutex must always be owned during this function."             *)
(***************************************************************************)
TablesAreOwned ==
    ~(core.pc = "removing" /\ \E t \in Transports : thread[t].pc = "broadcast")
=============================================================================
