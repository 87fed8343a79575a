---------------------------- MODULE RouterProofs ----------------------------
(***************************************************************************)
(* The tables of the router, and what may be removed from them, for any    *)
(* set of transports, connections and ids, as long as no id is drawn       *)
(* twice.                                                                  *)
(***************************************************************************)
EXTENDS Router, TLAPS

-----------------------------------------------------------------------------
(***************************************************************************)
(* The invariant of the tables.                                            *)
(***************************************************************************)
\* A message is on its way to the core thread, or taken and not yet handled.
Sent(m) ==
    \/ \E k \in 1 .. Len(queue) : queue[k] = m
    \/ \E k \in 1 .. Len(batch) : batch[k] = m

\* Somebody takes id for the id of connection c: the router, the client, a
\* transport thread, a message or the core thread.
TablePair(id, c) == client[id].conn = c
OwnPair(id, c) == mine[c] = id
RoutePair(id, c) ==
    \E t \in Transports : \/ cache[t][id] = c
                          \/ current[t].id = id /\ current[t].conn = c
                          \/ thread[t].dst = id /\ thread[t].conn = c
MessagePair(id, c) == \E m \in Message : Sent(m) /\ m.src = id /\ m.conn = c
CorePair(id, c) == core.id = id /\ core.conn = c
Pairs(id, c) ==
    TablePair(id, c) \/ OwnPair(id, c) \/ RoutePair(id, c) \/ MessagePair(id, c) \/ CorePair(id, c)

\* The tables of the transports repeat that of the clients.
Mirrored(T) ==
    \A id \in Ids :
        /\ T.client[id].conn # None => Via[T.client[id].conn] \in up
        /\ \A t \in Transports :
              T.reach[t][id] = IF T.client[id].conn # None /\ Via[T.client[id].conn] = t
                               THEN T.client[id].conn ELSE None

PairsAreDrawn == \A id \in Ids, c \in Connections : Pairs(id, c) => id \in drawn \cup Foreign

\* Only a request to be registered comes without an id.
RequestsFit ==
    \A m \in Message : Sent(m) =>
        /\ m.kind # "ConnectRequest" => m.src \in Ids
        /\ m.kind = "ConnectRequest" => Via[m.conn] \notin Forwarding /\ m.src = None
CoreFits == core.pc # "idle" => core.id \in Ids /\ core.conn \in Connections
ThreadsFit ==
    \A t \in Transports : thread[t].pc = "found" => thread[t].dst \in Ids /\ thread[t].conn \in Connections

TableInv == TypeOK /\ Mirrored(Tables) /\ PairsAreDrawn /\ RequestsFit /\ CoreFits /\ ThreadsFit

(***************************************************************************)
(* The invariant of the pairs.                                             *)
(***************************************************************************)
\* An id is that of one connection, for ever.
OneConnection ==
    \A id \in Ids, c, d \in Connections : Pairs(id, c) /\ Pairs(id, d) => c = d

\* Another router has told its clients who they are.
ForeignIsKnown ==
    \A id \in Ids, c \in Connections :
        Pairs(id, c) /\ (id \in Foreign \/ Via[c] \in Forwarding) => mine[c] = id

\* A client that said goodbye, or that a query did not reach, has exited.
GoodbyeIsLast ==
    /\ \A m \in Message : Sent(m) /\ m.kind \in {"Disconnect", "ClientDisconnected"} => m.conn \in gone
    /\ core.pc = "removing" => core.conn \in gone

PairInv == OneConnection /\ ForeignIsKnown /\ GoodbyeIsLast

-----------------------------------------------------------------------------
(***************************************************************************)
(* The type invariant in parts, one for each group of variables.           *)
(***************************************************************************)
TableSet == [client : [Ids -> Context], reach : [Transports -> [Ids -> Connections \cup {None}]],
             allocated : SUBSET Ids]

TableType == Tables \in TableSet /\ up \subseteq Transports /\ allocated \subseteq drawn /\ drawn \subseteq Ids
InboxType == /\ queue \in Seq(Message) /\ Len(queue) <= MaxQueue
             /\ batch \in Seq(Message) /\ updated \in BOOLEAN
CoreType == core \in [pc : {"idle", "query", "removing"}, id : Ids \cup {None}, conn : Connections \cup {None}]
RouteType ==
    /\ thread \in [Transports -> [pc : {"idle", "found", "broadcast", "stopped"},
                                  dst : Ids \cup {None}, conn : Connections \cup {None}]]
    /\ cache \in [Transports -> [Ids -> Connections \cup {None}]]
    /\ current \in [Transports -> [id : Ids \cup {Host, None}, conn : Connections \cup {None}]]
PeerType == /\ mine \in [Connections -> Ids \cup {None}]
            /\ gone \subseteq Connections /\ pinged \subseteq Connections /\ queried \subseteq Connections

LEMMA TypeParts ==
    /\ TypeOK <=> TableType /\ InboxType /\ CoreType /\ RouteType /\ PeerType
    /\ TypeOK' <=> TableType' /\ InboxType' /\ CoreType' /\ RouteType' /\ PeerType'
<1>1. TypeOK <=> TableType /\ InboxType /\ CoreType /\ RouteType /\ PeerType
  BY DEF TypeOK, TableType, InboxType, CoreType, RouteType, PeerType, Tables, TableSet
<1>2. TypeOK' <=> TableType' /\ InboxType' /\ CoreType' /\ RouteType' /\ PeerType'
  BY DEF TypeOK, TableType, InboxType, CoreType, RouteType, PeerType, Tables, TableSet
<1> QED BY <1>1, <1>2

-----------------------------------------------------------------------------
(***************************************************************************)
(* The operations of the tables.                                           *)
(***************************************************************************)
LEMMA AddedTable ==
    ASSUME NEW T \in TableSet, Mirrored(T), NEW id \in Ids, NEW c \in Connections, NEW r \in BOOLEAN,
           T.client[id].conn = None, Via[c] \in up, up \subseteq Transports
    PROVE  /\ AddClient(T, id, c, r) \in TableSet
           /\ Mirrored(AddClient(T, id, c, r))
           /\ AddClient(T, id, c, r).allocated = T.allocated
           /\ AddClient(T, id, c, r).client[id].conn = c
           /\ \A i \in Ids \ {id} : AddClient(T, id, c, r).client[i] = T.client[i]
<1> DEFINE new == [conn |-> c, registered |-> r, retries |-> 0, pong |-> TRUE, identified |-> FALSE]
           U == [client |-> [T.client EXCEPT ![id] = new],
                 reach |-> [T.reach EXCEPT ![Via[c]] = [T.reach[Via[c]] EXCEPT ![id] = c]],
                 allocated |-> T.allocated]
<1>1. new \in Context /\ c # None
  BY RouterAssumption DEF Context
<1>2. T.reach[Via[c]][id] = None
  BY DEF Mirrored
<1>3. AddClient(T, id, c, r) = U
  BY <1>2 DEF AddClient, TableSet
<1>4. U \in TableSet
  BY <1>1 DEF TableSet
<1>5. Mirrored(U)
  BY <1>1 DEF Mirrored, TableSet
<1>6. U.client[id].conn = c /\ \A i \in Ids \ {id} : U.client[i] = T.client[i]
  BY DEF TableSet
<1> QED BY <1>3, <1>4, <1>5, <1>6

LEMMA RemovedTable ==
    ASSUME NEW T \in TableSet, Mirrored(T), NEW R \in SUBSET Ids
    PROVE  /\ RemoveClients(T, R) \in TableSet
           /\ Mirrored(RemoveClients(T, R))
           /\ RemoveClients(T, R).allocated \subseteq T.allocated
           /\ \A i \in Ids : RemoveClients(T, R).client[i] = IF i \in R THEN NoClient ELSE T.client[i]
<1>1. NoClient \in Context /\ NoClient.conn = None
  BY RouterAssumption DEF NoClient, Context
<1>2. RemoveClients(T, R) \in TableSet
  BY <1>1 DEF RemoveClients, TableSet
<1>3. \A i \in Ids : RemoveClients(T, R).client[i] = IF i \in R THEN NoClient ELSE T.client[i]
  BY DEF RemoveClients
<1>4. Mirrored(RemoveClients(T, R))
  BY <1>1 DEF RemoveClients, Mirrored
<1> QED BY <1>2, <1>3, <1>4 DEF RemoveClients

\* Beside the clients it is for, a removal reaches only ones that have exited.
LEMMA OthersAreGone ==
    ASSUME NEW T \in TableSet, Mirrored(T), NEW R \in SUBSET Ids, NEW n, NEW S \in Removed(T, R, n),
           up \subseteq Transports, gone \subseteq Connections
    PROVE  S \in SUBSET Ids /\ R \subseteq S /\ \A i \in S \ R : T.client[i].conn \in gone
<1> DEFINE b == n + Cardinality({id \in R : T.client[id].registered})
<1>1. PICK F \in BroadcastFailures(T, b) : S = R \cup F
  BY DEF Removed
<1>2. F \in SUBSET Ids /\ \A i \in F : \E t \in up \ Forwarding : T.reach[t][i] \in gone
  BY DEF BroadcastFailures
<1>3. \A i \in F : T.client[i].conn \in gone
  BY <1>2, RouterAssumption DEF Mirrored, TableSet
<1> QED BY <1>1, <1>2, <1>3

-----------------------------------------------------------------------------
(***************************************************************************)
(* The messages on their way.                                              *)
(***************************************************************************)
LEMMA EnqueuedIsSent ==
    ASSUME InboxType, NEW kind, NEW c, NEW src, Enqueue(kind, c, src),
           [kind |-> kind, conn |-> c, src |-> src] \in Message
    PROVE  InboxType' /\ \A m : Sent(m)' => Sent(m) \/ m = [kind |-> kind, conn |-> c, src |-> src]
<1> DEFINE e == [kind |-> kind, conn |-> c, src |-> src]
<1>1. queue' = Append(queue, e) /\ Len(queue) < MaxQueue /\ UNCHANGED <<batch, updated>>
  BY DEF Enqueue
<1>2. queue' \in Seq(Message) /\ Len(queue') = Len(queue) + 1
  BY <1>1 DEF InboxType
<1>3. \A k \in 1 .. Len(queue') : queue'[k] = e \/ (k \in 1 .. Len(queue) /\ queue'[k] = queue[k])
  <2> SUFFICES ASSUME NEW k \in 1 .. Len(queue')
                PROVE  queue'[k] = e \/ (k \in 1 .. Len(queue) /\ queue'[k] = queue[k])
    OBVIOUS
  <2>1. Len(queue) \in Nat
    BY DEF InboxType
  <2>2. CASE k = Len(queue) + 1
    BY <1>1, <2>1, <2>2 DEF InboxType
  <2>3. CASE k \in 1 .. Len(queue)
    BY <1>1, <2>3 DEF InboxType
  <2> QED BY <1>2, <2>1, <2>2, <2>3
<1>4. InboxType'
  BY <1>1, <1>2, RouterAssumption DEF InboxType
<1>5. \A m : Sent(m)' => Sent(m) \/ m = e
  BY <1>1, <1>3 DEF Sent
<1> QED BY <1>4, <1>5

LEMMA HandledWasSent ==
    ASSUME InboxType, batch # <<>>, batch' = Tail(batch), UNCHANGED <<queue, updated>>
    PROVE  InboxType' /\ Head(batch) \in Message /\ Sent(Head(batch)) /\ \A m : Sent(m)' => Sent(m)
<1>1. Head(batch) \in Message /\ Tail(batch) \in Seq(Message) /\ Head(batch) = batch[1] /\ Len(batch) \in Nat \ {0}
  BY DEF InboxType
<1>2. \A k \in 1 .. Len(Tail(batch)) : Tail(batch)[k] = batch[k + 1] /\ k + 1 \in 1 .. Len(batch)
  BY <1>1 DEF InboxType
<1> QED BY <1>1, <1>2 DEF InboxType, Sent

LEMMA TakenIsSent ==
    ASSUME InboxType, TakeQueue
    PROVE  InboxType' /\ \A m : Sent(m)' => Sent(m)
<1>1. queue' = <<>> /\ batch' = queue /\ updated' = FALSE
  BY DEF TakeQueue
<1>2. queue' \in Seq(Message) /\ Len(queue') = 0
  BY <1>1
<1>3. InboxType'
  <2>1. 0 <= MaxQueue
    BY RouterAssumption
  <2>2. batch' \in Seq(Message) /\ updated' \in BOOLEAN
    BY <1>1 DEF InboxType
  <2>3. Len(queue') <= MaxQueue
    BY <1>2, <2>1
  <2> QED BY <1>2, <2>2, <2>3 DEF InboxType
<1>4. \A m : Sent(m)' => Sent(m)
  BY <1>1, <1>2 DEF Sent
<1> QED BY <1>3, <1>4


-----------------------------------------------------------------------------
(***************************************************************************)
(* What a step adds to the pairs.                                          *)
(***************************************************************************)
NoNewPair == \A id \in Ids, c \in Connections : Pairs(id, c)' => Pairs(id, c)

LEMMA PairFrames ==
    ASSUME NEW id, NEW c
    PROVE  /\ UNCHANGED client => (TablePair(id, c)' <=> TablePair(id, c))
           /\ UNCHANGED mine => (OwnPair(id, c)' <=> OwnPair(id, c))
           /\ UNCHANGED routes => (RoutePair(id, c)' <=> RoutePair(id, c))
           /\ UNCHANGED inbox => (MessagePair(id, c)' <=> MessagePair(id, c))
           /\ UNCHANGED core => (CorePair(id, c)' <=> CorePair(id, c))
BY DEF TablePair, OwnPair, RoutePair, MessagePair, CorePair, routes, inbox, Sent

LEMMA TypeFrames ==
    /\ TableType /\ UNCHANGED tables => TableType'
    /\ Mirrored(Tables) /\ UNCHANGED tables => Mirrored(Tables)'
    /\ InboxType /\ UNCHANGED inbox => InboxType'
    /\ RequestsFit /\ UNCHANGED inbox => RequestsFit'
    /\ CoreType /\ CoreFits /\ UNCHANGED core => CoreType' /\ CoreFits'
    /\ RouteType /\ ThreadsFit /\ UNCHANGED routes => RouteType' /\ ThreadsFit'
BY DEF TableType, Tables, tables, Mirrored, InboxType, inbox, RequestsFit, Sent, CoreType, CoreFits,
       RouteType, ThreadsFit, routes

\* The invariant, in the groups of variables that a step leaves alone.
LEMMA InvParts ==
    TableInv <=> /\ TableType /\ Mirrored(Tables) /\ InboxType /\ RequestsFit /\ CoreType /\ CoreFits
                 /\ RouteType /\ ThreadsFit /\ PeerType /\ PairsAreDrawn
BY TypeParts DEF TableInv

LEMMA StepInv ==
    ASSUME TableInv, drawn \subseteq drawn', NoNewPair,
           TableType' /\ Mirrored(Tables)', InboxType' /\ RequestsFit', CoreType' /\ CoreFits',
           RouteType' /\ ThreadsFit', PeerType'
    PROVE  TableInv'
<1>1. PairsAreDrawn'
  BY DEF TableInv, PairsAreDrawn, NoNewPair
<1> QED BY <1>1, TypeParts DEF TableInv

LEMMA EnqueuedPairs ==
    ASSUME TableInv, NEW kind, NEW c \in Connections, NEW src, Enqueue(kind, c, src),
           [kind |-> kind, conn |-> c, src |-> src] \in Message,
           kind # "ConnectRequest" => src \in Ids,
           kind = "ConnectRequest" => Via[c] \notin Forwarding /\ src = None
    PROVE  /\ InboxType' /\ RequestsFit'
           /\ \A id, d : MessagePair(id, d)' => MessagePair(id, d) \/ (id = src /\ d = c)
<1> DEFINE e == [kind |-> kind, conn |-> c, src |-> src]
<1>1. InboxType' /\ \A m : Sent(m)' => Sent(m) \/ m = e
  BY InvParts, EnqueuedIsSent
<1>2. RequestsFit'
  BY <1>1, InvParts DEF RequestsFit
<1>3. \A id, d : MessagePair(id, d)' => MessagePair(id, d) \/ (id = src /\ d = c)
  BY <1>1 DEF MessagePair
<1> QED BY <1>1, <1>2, <1>3

(***************************************************************************)
(* The clients.                                                            *)
(***************************************************************************)
LEMMA ClientSteps ==
    ASSUME TableInv, NEW c \in Connections, ConnectRequest(c) \/ Leave(c) \/ Crash(c) \/ Answer(c)
    PROVE  TableInv' /\ NoNewPair
<1>1. UNCHANGED tables /\ UNCHANGED core /\ UNCHANGED <<thread, cache>> /\ UNCHANGED mine
  BY DEF ConnectRequest, Leave, Crash, Answer, peers, routes
<1>2. PeerType'
  BY InvParts, <1>1 DEF ConnectRequest, Leave, Crash, Answer, peers, PeerType
<1>3. RouteType' /\ ThreadsFit' /\ \A id \in Ids, d \in Connections : RoutePair(id, d)' => RoutePair(id, d)
  <2>1. CASE UNCHANGED current
    BY <1>1, <2>1, InvParts, TypeFrames, PairFrames DEF routes
  <2>2. CASE current' = [current EXCEPT ![Via[c]] = [id |-> Host, conn |-> None]]
    <3>1. RouteType' /\ ThreadsFit'
      BY <1>1, <2>2, InvParts, RouterAssumption DEF RouteType, ThreadsFit
    <3>2. ASSUME NEW id \in Ids, NEW d \in Connections, RoutePair(id, d)' PROVE RoutePair(id, d)
      BY <1>1, <2>2, <3>2, InvParts, RouterAssumption DEF RouteType, RoutePair
    <3> QED BY <3>1, <3>2
  <2> QED BY <2>1, <2>2 DEF ConnectRequest, Leave, Crash, Answer, routes
<1>4. /\ InboxType' /\ RequestsFit'
      /\ \A id \in Ids, d \in Connections : MessagePair(id, d)' => Pairs(id, d)
  <2>1. CASE UNCHANGED inbox
    BY <2>1, InvParts, TypeFrames, PairFrames DEF Pairs
  <2>2. CASE ConnectRequest(c)
    <3>1. Enqueue("ConnectRequest", c, None) /\ Via[c] \notin Forwarding
      BY <2>2 DEF ConnectRequest
    <3> QED BY <3>1, EnqueuedPairs, RouterAssumption DEF Message, Pairs
  <2>3. CASE \E kind \in {"Disconnect", "ClientDisconnected", "Pong", "ClientInfo"} : Enqueue(kind, c, mine[c]) /\ mine[c] # None
    <3>1. PICK kind \in {"Disconnect", "ClientDisconnected", "Pong", "ClientInfo"} : Enqueue(kind, c, mine[c]) /\ mine[c] # None
      BY <2>3
    <3>2. mine[c] \in Ids
      BY <3>1, InvParts DEF PeerType
    <3>3. [kind |-> kind, conn |-> c, src |-> mine[c]] \in Message
      BY <3>2 DEF Message
    <3>4. /\ InboxType' /\ RequestsFit'
          /\ \A id, d : MessagePair(id, d)' => MessagePair(id, d) \/ (id = mine[c] /\ d = c)
      BY <3>1, <3>2, <3>3, EnqueuedPairs
    <3> QED BY <3>4 DEF Pairs, OwnPair
  <2> QED BY <2>1, <2>2, <2>3 DEF Leave, Crash, Answer
<1>5. NoNewPair
  BY <1>1, <1>3, <1>4, PairFrames DEF NoNewPair, Pairs, tables
<1> QED BY <1>1, <1>2, <1>3, <1>4, <1>5, InvParts, TypeFrames, StepInv DEF tables


(***************************************************************************)
(* The transport threads.                                                  *)
(***************************************************************************)
LEMMA RouteSteps ==
    ASSUME TableInv,
           \/ \E c \in Senders : \/ BeginBroadcast(c)
                                 \/ \E dst \in Ids : LookUp(c, dst) \/ Transmit(c, dst)
           \/ \E t \in Transports : FillCache(t) \/ Disable(t)
    PROVE  TableInv' /\ NoNewPair
<1>1. UNCHANGED tables /\ UNCHANGED inbox /\ UNCHANGED core /\ UNCHANGED peers
  BY DEF BeginBroadcast, LookUp, Transmit, FillCache, Disable
<1>2. RouteType /\ ThreadsFit /\ TableType
  BY InvParts
<1> DEFINE Kept == RouteType' /\ ThreadsFit' /\ \A id \in Ids, d \in Connections : RoutePair(id, d)' => Pairs(id, d)
<1>3. Kept
  <2>1. ASSUME NEW c \in Senders, BeginBroadcast(c) PROVE Kept
    <3>1. thread' = [thread EXCEPT ![Via[c]] = [pc |-> "broadcast", dst |-> None, conn |-> None]] /\ UNCHANGED <<cache, current>>
      <4>1. [IdleThread EXCEPT !.pc = "broadcast"] = [pc |-> "broadcast", dst |-> None, conn |-> None]
        BY DEF IdleThread
      <4> QED BY <2>1, <4>1 DEF BeginBroadcast
    <3>2. Via[c] \in Transports
      BY RouterAssumption
    <3> QED BY <3>1, <3>2, <1>2, RouterAssumption DEF RouteType, ThreadsFit, RoutePair, Pairs
  <2>2. ASSUME NEW c \in Senders, NEW dst \in Ids, LookUp(c, dst) PROVE Kept
    <3>1. Via[c] \in Transports /\ client[dst].conn \in Connections \cup {None}
      BY <1>2, RouterAssumption DEF TableType, TableSet, Context, Tables
    <3>2. current' = [current EXCEPT ![Via[c]] = [id |-> dst, conn |-> None]] /\ UNCHANGED cache
      BY <2>2 DEF LookUp
    <3>3. CASE UNCHANGED thread
      BY <3>1, <3>2, <3>3, <1>2, RouterAssumption DEF RouteType, ThreadsFit, RoutePair, Pairs
    <3>4. CASE Known(dst) /\ thread' = [thread EXCEPT ![Via[c]] = [pc |-> "found", dst |-> dst, conn |-> client[dst].conn]]
      <4>1. client[dst].conn \in Connections
        BY <3>1, <3>4 DEF Known
      <4> QED BY <3>1, <3>2, <3>4, <4>1, <1>2, RouterAssumption DEF RouteType, ThreadsFit, RoutePair, Pairs, TablePair
    <3> QED BY <2>2, <3>3, <3>4 DEF LookUp
  <2>3. ASSUME NEW c \in Senders, NEW dst \in Ids, Transmit(c, dst) PROVE Kept
    <3>1. Via[c] \in Transports /\ Cached(Via[c], dst) \in Connections \cup {None}
      BY <1>2, RouterAssumption DEF RouteType, Cached
    <3>2. current' = [current EXCEPT ![Via[c]] = [id |-> dst, conn |-> Cached(Via[c], dst)]] /\ UNCHANGED <<thread, cache>>
      BY <2>3 DEF Transmit
    <3>3. \A d \in Connections : d = Cached(Via[c], dst) => RoutePair(dst, d)
      BY <3>1 DEF Cached, RoutePair
    <3> QED BY <3>1, <3>2, <3>3, <1>2 DEF RouteType, ThreadsFit, RoutePair, Pairs
  <2>4. ASSUME NEW t \in Transports, FillCache(t) PROVE Kept
    <3>1. thread[t].dst \in Ids /\ thread[t].conn \in Connections
      BY <2>4, <1>2 DEF FillCache, ThreadsFit
    <3>2. /\ cache' = [cache EXCEPT ![t] = [cache[t] EXCEPT ![thread[t].dst] = thread[t].conn]]
          /\ current' = [current EXCEPT ![t] = [id |-> thread[t].dst, conn |-> thread[t].conn]]
          /\ thread' = [thread EXCEPT ![t] = [pc |-> "idle", dst |-> None, conn |-> None]]
      BY <2>4 DEF FillCache, IdleThread
    <3>3. RoutePair(thread[t].dst, thread[t].conn)
      BY DEF RoutePair
    <3>4. RouteType' /\ ThreadsFit'
      BY <3>1, <3>2, <1>2, RouterAssumption DEF RouteType, ThreadsFit
    <3>5. ASSUME NEW id \in Ids, NEW d \in Connections, RoutePair(id, d)' PROVE RoutePair(id, d)
      BY <3>1, <3>2, <3>3, <3>5, <1>2, RouterAssumption DEF RouteType, RoutePair
    <3> QED BY <3>4, <3>5 DEF Pairs
  <2>5. ASSUME NEW t \in Transports, Disable(t) PROVE Kept
    <3>1. thread' = [thread EXCEPT ![t] = [thread[t] EXCEPT !.pc = "stopped"]] /\ UNCHANGED <<cache, current>>
      BY <2>5 DEF Disable
    <3> QED BY <3>1, <1>2 DEF RouteType, ThreadsFit, RoutePair, Pairs
  <2> QED BY <2>1, <2>2, <2>3, <2>4, <2>5
<1>4. NoNewPair
  BY <1>1, <1>3, PairFrames DEF NoNewPair, Pairs, tables, peers
<1>5. PeerType'
  BY <1>1, InvParts DEF PeerType, peers
<1> QED BY <1>1, <1>3, <1>4, <1>5, InvParts, TypeFrames, StepInv DEF tables

-----------------------------------------------------------------------------
(***************************************************************************)
(* Clients are removed.                                                    *)
(***************************************************************************)
\* T is what is left of the tables after some removals ...
Shrunk(T) ==
    /\ T \in TableSet /\ Mirrored(T) /\ T.allocated \subseteq allocated
    /\ \A i \in Ids : T.client[i].conn \in {client[i].conn, None}

\* ... none of which, outside X, was that of a client that runs.
Keeps(T, X) == \A i \in Ids \ X : client[i].conn \notin gone => T.client[i].conn = client[i].conn

LEMMA TablesShrink ==
    TableInv => Shrunk(Tables) /\ \A X : Keeps(Tables, X)
BY InvParts DEF TableType, Shrunk, Keeps, Tables

LEMMA RemovalShrinks ==
    ASSUME TableInv, NEW T, Shrunk(T), NEW R \in SUBSET Ids, NEW n, NEW S \in Removed(T, R, n)
    PROVE  /\ S \in SUBSET Ids
           /\ Shrunk(RemoveClients(T, S))
           /\ \A X : Keeps(T, X) /\ (\A i \in R \ X : T.client[i].conn \in gone \cup {None})
                        => Keeps(RemoveClients(T, S), X)
<1>1. S \in SUBSET Ids /\ \A i \in S \ R : T.client[i].conn \in gone
  BY InvParts, OthersAreGone DEF Shrunk, TableType, PeerType
<1>2. NoClient.conn = None
  BY DEF NoClient
<1>3. /\ RemoveClients(T, S) \in TableSet /\ Mirrored(RemoveClients(T, S))
      /\ RemoveClients(T, S).allocated \subseteq T.allocated
      /\ \A i \in Ids : RemoveClients(T, S).client[i] = IF i \in S THEN NoClient ELSE T.client[i]
  BY <1>1, RemovedTable DEF Shrunk
<1>4. Shrunk(RemoveClients(T, S))
  BY <1>2, <1>3 DEF Shrunk
<1>5. ASSUME NEW X, Keeps(T, X), \A i \in R \ X : T.client[i].conn \in gone \cup {None}
      PROVE  Keeps(RemoveClients(T, S), X)
  <2> SUFFICES ASSUME NEW i \in Ids \ X, client[i].conn \notin gone
                PROVE  RemoveClients(T, S).client[i].conn = client[i].conn
    BY DEF Keeps
  <2>1. T.client[i].conn = client[i].conn
    BY <1>5 DEF Keeps
  <2>2. i \in S => T.client[i].conn = None
    BY <1>1, <1>5, <2>1
  <2> QED BY <1>2, <1>3, <2>1, <2>2
<1> QED BY <1>1, <1>4, <1>5

LEMMA ShrunkStep ==
    ASSUME TableInv, NEW T, Shrunk(T), SetTables(T), UNCHANGED up, drawn \subseteq drawn', drawn' \subseteq Ids
    PROVE  /\ TableType' /\ Mirrored(Tables)'
           /\ \A id \in Ids, c \in Connections : TablePair(id, c)' => TablePair(id, c)
<1>1. client' = T.client /\ reach' = T.reach /\ allocated' = T.allocated
  BY DEF SetTables
<1>2. TableType'
  BY <1>1, InvParts DEF TableType, Shrunk, TableSet, Tables
<1>3. Mirrored(Tables)'
  BY <1>1 DEF Mirrored, Shrunk, Tables
<1>4. \A id \in Ids, c \in Connections : TablePair(id, c)' => TablePair(id, c)
  BY <1>1, RouterAssumption DEF Shrunk, TablePair
<1> QED BY <1>2, <1>3, <1>4


LEMMA RemovalSteps ==
    ASSUME TableInv,
           \/ \E c \in Senders, dst \in Ids : TransmitFails(c, dst)
           \/ \E t \in Transports : EndBroadcast(t)
           \/ ProcessDisconnect \/ RemoveUnlocked
    PROVE  TableInv' /\ NoNewPair
<1>1. UNCHANGED up /\ UNCHANGED drawn /\ UNCHANGED peers
  BY DEF TransmitFails, EndBroadcast, ProcessDisconnect, RemoveUnlocked
<1> DEFINE Shrinks == \E T : Shrunk(T) /\ SetTables(T)
           RoutesKept == RouteType' /\ ThreadsFit' /\ \A id \in Ids, c \in Connections : RoutePair(id, c)' => RoutePair(id, c)
<1>2. Shrinks
  <2>1. ASSUME NEW c \in Senders, NEW dst \in Ids, TransmitFails(c, dst) PROVE Shrinks
    BY <2>1, TablesShrink, RemovalShrinks DEF TransmitFails
  <2>2. ASSUME NEW t \in Transports, EndBroadcast(t) PROVE Shrinks
    BY <2>2, TablesShrink, RemovalShrinks DEF EndBroadcast
  <2>3. ASSUME ProcessDisconnect PROVE Shrinks
    <3>1. Head(batch) \in Message /\ Sent(Head(batch)) /\ Head(batch).kind = "Disconnect"
      BY <2>3, InvParts, HandledWasSent DEF ProcessDisconnect, Takes
    <3>2. Head(batch).src \in Ids
      BY <3>1, InvParts DEF RequestsFit
    <3>3. CASE \E S \in Removed(Tables, {Head(batch).src}, 0) : SetTables(RemoveClients(Tables, S))
      BY <3>2, <3>3, TablesShrink, RemovalShrinks
    <3>4. CASE UNCHANGED <<client, reach, allocated>>
      <4>1. SetTables(Tables)
        BY <3>4 DEF SetTables, Tables
      <4> QED BY <4>1, TablesShrink
    <3> QED BY <2>3, <3>3, <3>4 DEF ProcessDisconnect
  <2>4. ASSUME RemoveUnlocked PROVE Shrinks
    <3>1. core.id \in Ids /\ \E S \in Removed(Tables, {core.id}, 0) : SetTables(RemoveClients(Tables, S))
      BY <2>4, InvParts DEF RemoveUnlocked, CoreFits
    <3> QED BY <3>1, TablesShrink, RemovalShrinks
  <2> QED BY <2>1, <2>2, <2>3, <2>4
<1>3. /\ TableType' /\ Mirrored(Tables)'
      /\ \A id \in Ids, c \in Connections : TablePair(id, c)' => TablePair(id, c)
  BY <1>1, <1>2, InvParts, ShrunkStep DEF TableType
<1>4. PeerType'
  BY <1>1, InvParts DEF PeerType, peers
<1>5. InboxType' /\ RequestsFit' /\ \A id \in Ids, c \in Connections : MessagePair(id, c)' => MessagePair(id, c)
  <2>1. CASE UNCHANGED inbox
    BY <2>1, InvParts, TypeFrames, PairFrames
  <2>2. CASE ProcessDisconnect
    <3>1. InboxType' /\ \A m : Sent(m)' => Sent(m)
      BY <2>2, InvParts, HandledWasSent DEF ProcessDisconnect, Takes
    <3> QED BY <3>1, InvParts DEF RequestsFit, MessagePair
  <2> QED BY <2>1, <2>2 DEF TransmitFails, EndBroadcast, RemoveUnlocked
<1>6. CoreType' /\ CoreFits' /\ \A id \in Ids, c \in Connections : CorePair(id, c)' => CorePair(id, c)
  <2>1. CASE UNCHANGED core
    BY <2>1, InvParts, TypeFrames, PairFrames
  <2>2. CASE core' = IdleCore
    BY <2>2, RouterAssumption DEF IdleCore, CoreType, CoreFits, CorePair
  <2> QED BY <2>1, <2>2 DEF TransmitFails, EndBroadcast, ProcessDisconnect, RemoveUnlocked
<1>7. RoutesKept
  <2>1. CASE UNCHANGED routes
    BY <2>1, InvParts, TypeFrames, PairFrames
  <2>2. ASSUME NEW c \in Senders, NEW dst \in Ids, TransmitFails(c, dst) PROVE RoutesKept
    <3>1. Via[c] \in Transports
      BY RouterAssumption
    <3>2. /\ cache' = [cache EXCEPT ![Via[c]] = [cache[Via[c]] EXCEPT ![dst] = None]]
          /\ current' = [current EXCEPT ![Via[c]] = [id |-> None, conn |-> None]]
          /\ UNCHANGED thread
      BY <2>2 DEF TransmitFails
    <3>3. RouteType' /\ ThreadsFit'
      BY <3>1, <3>2, InvParts, RouterAssumption DEF RouteType, ThreadsFit
    <3>4. ASSUME NEW id \in Ids, NEW d \in Connections, RoutePair(id, d)' PROVE RoutePair(id, d)
      BY <3>1, <3>2, <3>4, InvParts, RouterAssumption DEF RouteType, RoutePair
    <3> QED BY <3>3, <3>4
  <2>3. ASSUME NEW t \in Transports, EndBroadcast(t) PROVE RoutesKept
    <3>1. thread' = [thread EXCEPT ![t] = [pc |-> "idle", dst |-> None, conn |-> None]] /\ UNCHANGED <<cache, current>>
      BY <2>3 DEF EndBroadcast, IdleThread
    <3> QED BY <3>1, InvParts, RouterAssumption DEF RouteType, ThreadsFit, RoutePair
  <2> QED BY <2>1, <2>2, <2>3 DEF ProcessDisconnect, RemoveUnlocked
<1>8. NoNewPair
  BY <1>1, <1>3, <1>5, <1>6, <1>7, PairFrames DEF NoNewPair, Pairs, peers
<1> QED BY <1>1, <1>3, <1>4, <1>5, <1>6, <1>7, <1>8, StepInv


LEMMA RemoveTransportStep ==
    ASSUME TableInv, NEW t \in Transports, RemoveTransport(t)
    PROVE  TableInv' /\ NoNewPair
<1> DEFINE R == {id \in Ids : reach[t][id] # None}
<1>0. PICK S \in Removed(Tables, R, 0) : SetTables(RemoveClients(Tables, S))
  BY DEF RemoveTransport
<1> DEFINE F == RemoveClients(Tables, S)
<1>1. SetTables(F) /\ up' = up \ {t} /\ UNCHANGED drawn
  BY <1>0 DEF RemoveTransport
<1>2. UNCHANGED inbox /\ UNCHANGED core /\ UNCHANGED routes /\ UNCHANGED peers
  BY DEF RemoveTransport
<1>3. Shrunk(F)
  BY TablesShrink, RemovalShrinks
<1>4. \A i \in Ids : F.client[i].conn # None => Via[F.client[i].conn] # t
  <2>0. R \subseteq S /\ S \in SUBSET Ids
    BY TablesShrink, OthersAreGone, InvParts DEF Shrunk, TableType, PeerType
  <2>1. \A i \in Ids : F.client[i] = IF i \in S THEN NoClient ELSE client[i]
    BY <2>0, TablesShrink, RemovedTable DEF Shrunk, Tables
  <2>2. \A i \in Ids : client[i].conn # None /\ Via[client[i].conn] = t => i \in R
    BY InvParts DEF Mirrored, Tables
  <2>3. NoClient.conn = None
    BY DEF NoClient
  <2> QED BY <2>0, <2>1, <2>2, <2>3
<1>5. client' = F.client /\ reach' = F.reach /\ allocated' = F.allocated
  BY <1>1 DEF SetTables
<1>6. TableType' /\ Mirrored(Tables)'
  <2>1. TableType'
    BY <1>1, <1>3, <1>5, InvParts DEF TableType, Shrunk, TableSet, Tables
  <2>2. Mirrored(Tables)'
    BY <1>1, <1>3, <1>4, <1>5 DEF Mirrored, Shrunk, Tables
  <2> QED BY <2>1, <2>2
<1>7. \A id \in Ids, c \in Connections : TablePair(id, c)' => TablePair(id, c)
  BY <1>3, <1>5, RouterAssumption DEF Shrunk, TablePair
<1>8. NoNewPair
  BY <1>2, <1>7, PairFrames DEF NoNewPair, Pairs, peers
<1>9. PeerType'
  BY <1>2, InvParts DEF PeerType, peers
<1> QED BY <1>1, <1>2, <1>6, <1>8, <1>9, InvParts, TypeFrames, StepInv

LEMMA QueueSteps ==
    ASSUME TableInv, TakeQueue \/ SendQuery
    PROVE  TableInv' /\ NoNewPair
<1>1. UNCHANGED tables /\ UNCHANGED routes /\ UNCHANGED <<mine, gone, pinged>>
  BY DEF TakeQueue, SendQuery, peers
<1>2. PeerType'
  BY <1>1, InvParts DEF TakeQueue, SendQuery, peers, PeerType, CoreFits
<1>3. InboxType' /\ RequestsFit' /\ \A id \in Ids, c \in Connections : MessagePair(id, c)' => MessagePair(id, c)
  <2>1. CASE UNCHANGED inbox
    BY <2>1, InvParts, TypeFrames, PairFrames
  <2>2. CASE TakeQueue
    <3>1. InboxType' /\ \A m : Sent(m)' => Sent(m)
      BY <2>2, InvParts, TakenIsSent
    <3> QED BY <3>1, InvParts DEF RequestsFit, MessagePair
  <2> QED BY <2>1, <2>2 DEF SendQuery
<1>4. CoreType' /\ CoreFits' /\ \A id \in Ids, c \in Connections : CorePair(id, c)' => CorePair(id, c)
  <2>1. CASE UNCHANGED core
    BY <2>1, InvParts, TypeFrames, PairFrames
  <2>2. CASE core' = IdleCore
    BY <2>2, RouterAssumption DEF IdleCore, CoreType, CoreFits, CorePair
  <2>3. CASE core.pc = "query" /\ core' = [core EXCEPT !.pc = "removing"]
    BY <2>3, InvParts DEF CoreType, CoreFits, CorePair
  <2> QED BY <2>1, <2>2, <2>3 DEF TakeQueue, SendQuery
<1>5. NoNewPair
  BY <1>1, <1>3, <1>4, PairFrames DEF NoNewPair, Pairs, tables
<1> QED BY <1>1, <1>2, <1>3, <1>4, <1>5, InvParts, TypeFrames, StepInv DEF tables

\* The tables after a round of pings.
LEMMA UpdatedTables ==
    ASSUME TableInv, UpdateClients
    PROVE  \E F : Shrunk(F) /\ SetTables(F) /\ Keeps(F, {id \in Ids : Expired(id)})
<1> DEFINE late == {id \in Ids : Expired(id)}
           aged == [Tables EXCEPT !.client = [id \in Ids |->
                     IF ~Known(id) \/ id \in late THEN client[id] ELSE Aged(id)]]
<1>1. PICK S \in Removed(aged, late, 1) : SetTables(RemoveClients(aged, S))
  BY DEF UpdateClients
<1>2. client \in [Ids -> Context]
  BY InvParts DEF TableType, TableSet, Tables
<1>3. \A id \in Ids \ late : Known(id) => Aged(id) \in Context /\ Aged(id).conn = client[id].conn
  <2> SUFFICES ASSUME NEW id \in Ids \ late, Known(id) PROVE Aged(id) \in Context /\ Aged(id).conn = client[id].conn
    OBVIOUS
  <2>1. client[id] \in Context /\ (~client[id].pong => client[id].retries # kClientTimeoutCount)
    BY <1>2 DEF Expired
  <2>2. (IF client[id].pong THEN 0 ELSE client[id].retries + 1) \in 0 .. kClientTimeoutCount
    BY <2>1, RouterAssumption DEF Context
  <2> QED BY <2>1, <2>2 DEF Aged, Context
<1>4. /\ aged \in TableSet /\ aged.reach = reach /\ aged.allocated = allocated
      /\ \A i \in Ids : aged.client[i].conn = client[i].conn
  BY <1>2, <1>3, InvParts DEF TableType, TableSet, Tables
<1>5. Shrunk(aged) /\ Keeps(aged, late)
  <2>1. Mirrored(aged)
    BY <1>4, InvParts DEF Mirrored, Tables
  <2> QED BY <1>4, <2>1 DEF Shrunk, Keeps
<1> HIDE DEF aged
<1>6. Shrunk(RemoveClients(aged, S)) /\ Keeps(RemoveClients(aged, S), late)
  BY <1>5, RemovalShrinks
<1> QED BY <1>1, <1>6

LEMMA UpdateStep ==
    ASSUME TableInv, UpdateClients
    PROVE  TableInv' /\ NoNewPair
<1>1. UNCHANGED <<up, drawn, queue, batch, core, mine, gone, queried>> /\ UNCHANGED routes /\ updated' = TRUE
  BY DEF UpdateClients
<1>2. /\ TableType' /\ Mirrored(Tables)'
      /\ \A id \in Ids, c \in Connections : TablePair(id, c)' => TablePair(id, c)
  BY <1>1, UpdatedTables, InvParts, ShrunkStep DEF TableType
<1>3. InboxType' /\ RequestsFit' /\ \A id \in Ids, c \in Connections : MessagePair(id, c)' => MessagePair(id, c)
  BY <1>1, InvParts DEF InboxType, RequestsFit, MessagePair, Sent
<1>4. PeerType'
  <2>1. pinged' \subseteq Connections
    BY InvParts DEF UpdateClients, PeerType
  <2> QED BY <1>1, <2>1, InvParts DEF PeerType
<1>5. NoNewPair
  BY <1>1, <1>2, <1>3, PairFrames DEF NoNewPair, Pairs
<1> QED BY <1>1, <1>2, <1>3, <1>4, <1>5, InvParts, TypeFrames, StepInv


-----------------------------------------------------------------------------
(***************************************************************************)
(* A message of a client may add it.                                       *)
(***************************************************************************)
\* A client the router knows keeps its connection when its context changes.
LEMMA ContextChanges ==
    ASSUME TableInv, NEW id \in Ids, NEW x \in Context, x.conn = client[id].conn,
           NEW T, T = [Tables EXCEPT !.client = [client EXCEPT ![id] = x]]
    PROVE  Shrunk(T) /\ Keeps(T, {})
<1>1. /\ T \in TableSet /\ T.reach = reach /\ T.allocated = allocated
      /\ \A i \in Ids : T.client[i].conn = client[i].conn
  BY InvParts DEF TableType, TableSet, Tables
<1>2. Mirrored(T)
  BY <1>1, InvParts DEF Mirrored, Tables
<1> QED BY <1>1, <1>2 DEF Shrunk, Keeps

\* The tables after ProcessRouterMessage.
LEMMA MessageTables ==
    ASSUME TableInv, ProcessRouterMessage
    PROVE  \/ \E F : /\ Shrunk(F) /\ SetTables(F)
                     /\ \/ Keeps(F, {})
                        \/ Head(batch).kind = "ClientDisconnected" /\ Keeps(F, {Head(batch).src})
           \/ /\ ~Known(Head(batch).src) /\ Via[Head(batch).conn] \in up
              /\ SetTables(AddClient(Tables, Head(batch).src, Head(batch).conn, FALSE))
<1> DEFINE m == Head(batch)
<1>1. m \in Message /\ Sent(m) /\ m.kind \in {"Pong", "ClientInfo", "ClientConnected", "ClientDisconnected"}
  BY InvParts, HandledWasSent DEF ProcessRouterMessage, Takes
<1>2. m.src \in Ids /\ client[m.src] \in Context
  BY <1>1, InvParts DEF RequestsFit, TableType, TableSet, Tables
<1>3. CASE SetTables(Tables) \/ UNCHANGED <<client, reach, allocated>>
  <2>1. SetTables(Tables)
    BY <1>3 DEF SetTables, Tables
  <2> QED BY <2>1, TablesShrink
<1>4. CASE /\ m.kind = "ClientDisconnected"
           /\ \E S \in Removed(Tables, IF Known(m.src) THEN {m.src} ELSE {}, 0) : SetTables(RemoveClients(Tables, S))
  <2> DEFINE R == IF Known(m.src) THEN {m.src} ELSE {}
  <2>1. PICK S \in Removed(Tables, R, 0) : SetTables(RemoveClients(Tables, S))
    BY <1>4
  <2>2. R \in SUBSET Ids /\ R \subseteq {m.src}
    BY <1>2
  <2> HIDE DEF R
  <2>3. Shrunk(RemoveClients(Tables, S)) /\ Keeps(RemoveClients(Tables, S), {m.src})
    BY <2>1, <2>2, TablesShrink, RemovalShrinks
  <2> QED BY <1>4, <2>1, <2>3
<1>5. CASE SetTables([Tables EXCEPT !.client[m.src].pong = TRUE])
  <2> DEFINE x == [client[m.src] EXCEPT !.pong = TRUE]
             T == [Tables EXCEPT !.client = [client EXCEPT ![m.src] = x]]
  <2>1. x \in Context /\ x.conn = client[m.src].conn
    BY <1>2 DEF Context
  <2>2. Shrunk(T) /\ Keeps(T, {})
    BY <1>2, <2>1, ContextChanges
  <2>3. [Tables EXCEPT !.client[m.src].pong = TRUE] = T
    BY DEF Tables
  <2> QED BY <1>5, <2>2, <2>3
<1>6. CASE SetTables([Tables EXCEPT !.client[m.src].pong = TRUE, !.client[m.src].retries = 0,
                                    !.client[m.src].identified = TRUE])
  <2> DEFINE x == [client[m.src] EXCEPT !.pong = TRUE, !.retries = 0, !.identified = TRUE]
             T == [Tables EXCEPT !.client = [client EXCEPT ![m.src] = x]]
  <2>1. x \in Context /\ x.conn = client[m.src].conn
    <3>1. [client[m.src] EXCEPT !.pong = TRUE] \in Context
      BY <1>2 DEF Context
    <3>2. 0 \in 0 .. kClientTimeoutCount
      BY RouterAssumption
    <3>3. [client[m.src] EXCEPT !.pong = TRUE, !.retries = 0] \in Context
      BY <3>1, <3>2 DEF Context
    <3>4. x \in Context
      BY <3>3 DEF Context
    <3> QED BY <1>2, <3>4 DEF Context
  <2>2. Shrunk(T) /\ Keeps(T, {})
    BY <1>2, <2>1, ContextChanges
  <2>3. client \in [Ids -> Context]
    BY InvParts DEF TableType, TableSet, Tables
  <2>4. [Tables EXCEPT !.client[m.src].pong = TRUE, !.client[m.src].retries = 0,
                       !.client[m.src].identified = TRUE] = T
    BY <1>2, <2>3 DEF Tables, Context
  <2> QED BY <1>6, <2>2, <2>4
<1>7. CASE ~Known(m.src) /\ Via[m.conn] \in up /\ SetTables(AddClient(Tables, m.src, m.conn, FALSE))
  BY <1>7
<1> QED BY <1>1, <1>3, <1>4, <1>5, <1>6, <1>7 DEF ProcessRouterMessage


LEMMA MessageStep ==
    ASSUME TableInv, ProcessRouterMessage
    PROVE  TableInv' /\ NoNewPair
<1> DEFINE m == Head(batch)
<1>1. UNCHANGED up /\ UNCHANGED drawn /\ UNCHANGED routes /\ UNCHANGED peers
  BY DEF ProcessRouterMessage
<1>2. m \in Message /\ Sent(m) /\ m.kind # "ConnectRequest" /\ InboxType' /\ \A n : Sent(n)' => Sent(n)
  BY InvParts, HandledWasSent DEF ProcessRouterMessage, Takes
<1>3. m.src \in Ids /\ m.conn \in Connections /\ MessagePair(m.src, m.conn)
  BY <1>2, InvParts DEF RequestsFit, MessagePair, Message
<1>4. RequestsFit' /\ \A id \in Ids, c \in Connections : MessagePair(id, c)' => MessagePair(id, c)
  BY <1>2, InvParts DEF RequestsFit, MessagePair
<1> DEFINE Added == /\ TableType' /\ Mirrored(Tables)'
                    /\ \A id \in Ids, c \in Connections : TablePair(id, c)' => Pairs(id, c)
<1>5. Added
  <2>1. ASSUME NEW F, Shrunk(F), SetTables(F) PROVE Added
    BY <1>1, <2>1, InvParts, ShrunkStep DEF TableType, Pairs
  <2>2. ASSUME ~Known(m.src), Via[m.conn] \in up, SetTables(AddClient(Tables, m.src, m.conn, FALSE)) PROVE Added
    <3> DEFINE F == AddClient(Tables, m.src, m.conn, FALSE)
    <3>1. /\ F \in TableSet /\ Mirrored(F) /\ F.allocated = allocated /\ F.client[m.src].conn = m.conn
          /\ \A i \in Ids \ {m.src} : F.client[i] = client[i]
      BY <1>3, <2>2, InvParts, AddedTable, ZenonT(40) DEF TableType, Known, Tables
    <3>2. client' = F.client /\ reach' = F.reach /\ allocated' = F.allocated
      BY <2>2 DEF SetTables
    <3> HIDE DEF F
    <3>3. TableType'
      BY <1>1, <3>1, <3>2, InvParts DEF TableType, TableSet, Tables
    <3>4. Mirrored(Tables)'
      BY <1>1, <3>1, <3>2 DEF Mirrored, Tables
    <3>5. \A id \in Ids, c \in Connections : TablePair(id, c)' => Pairs(id, c)
      BY <1>3, <3>1, <3>2 DEF TablePair, Pairs
    <3> QED BY <3>3, <3>4, <3>5
  <2> QED BY MessageTables, <2>1, <2>2
<1>6. CoreType' /\ CoreFits' /\ \A id \in Ids, c \in Connections : CorePair(id, c)' => Pairs(id, c)
  <2>1. CASE UNCHANGED core
    BY <2>1, InvParts, TypeFrames, PairFrames DEF Pairs
  <2>2. CASE core' = [pc |-> "query", id |-> m.src, conn |-> m.conn]
    BY <1>3, <2>2 DEF CoreType, CoreFits, CorePair, Pairs
  <2> QED BY <2>1, <2>2 DEF ProcessRouterMessage
<1>7. NoNewPair
  BY <1>1, <1>4, <1>5, <1>6, PairFrames DEF NoNewPair, Pairs, peers
<1>8. PeerType'
  BY <1>1, InvParts DEF PeerType, peers
<1> QED BY <1>1, <1>2, <1>4, <1>5, <1>6, <1>7, <1>8, InvParts, TypeFrames, StepInv

-----------------------------------------------------------------------------
(***************************************************************************)
(* A client gets an id: of this router, or of another one.                 *)
(***************************************************************************)
GrowsBy(id, c) == \A i \in Ids, d \in Connections : Pairs(i, d)' => Pairs(i, d) \/ (i = id /\ d = c)

LEMMA GrowthInv ==
    ASSUME TableInv, drawn \subseteq drawn', NEW id \in Ids, NEW c \in Connections,
           GrowsBy(id, c), id \in drawn' \cup Foreign,
           TableType' /\ Mirrored(Tables)', InboxType' /\ RequestsFit', CoreType' /\ CoreFits',
           RouteType' /\ ThreadsFit', PeerType'
    PROVE  TableInv'
<1>1. PairsAreDrawn'
  BY DEF TableInv, PairsAreDrawn, GrowsBy
<1> QED BY <1>1, TypeParts DEF TableInv

LEMMA AppearStep ==
    ASSUME TableInv, NEW c \in Connections, Appear(c)
    PROVE  TableInv' /\ \E id \in Foreign : /\ GrowsBy(id, c) /\ mine' = [mine EXCEPT ![c] = id]
                                            /\ \A d \in Connections : mine[d] # id
<1>1. PICK id \in Foreign : /\ \A d \in Connections : mine[d] # id
                            /\ mine' = [mine EXCEPT ![c] = id]
                            /\ Enqueue("ClientConnected", c, id) \/ UNCHANGED inbox
  BY DEF Appear
<1>2. UNCHANGED tables /\ UNCHANGED core /\ UNCHANGED routes /\ UNCHANGED <<gone, pinged, queried>> /\ id \in Ids
  BY RouterAssumption DEF Appear
<1>3. /\ InboxType' /\ RequestsFit'
      /\ \A i, d : MessagePair(i, d)' => MessagePair(i, d) \/ (i = id /\ d = c)
  <2>1. CASE UNCHANGED inbox
    BY <2>1, InvParts, TypeFrames, PairFrames
  <2>2. CASE Enqueue("ClientConnected", c, id)
    <3>1. [kind |-> "ClientConnected", conn |-> c, src |-> id] \in Message
      BY <1>2 DEF Message
    <3> QED BY <1>2, <2>2, <3>1, EnqueuedPairs
  <2> QED BY <1>1, <2>1, <2>2
<1>4. PeerType' /\ \A i \in Ids, d \in Connections : OwnPair(i, d)' => OwnPair(i, d) \/ (i = id /\ d = c)
  BY <1>1, <1>2, InvParts DEF PeerType, OwnPair
<1>5. GrowsBy(id, c)
  BY <1>2, <1>3, <1>4, PairFrames DEF GrowsBy, Pairs, tables
<1>6. TableInv'
  BY <1>2, <1>3, <1>4, <1>5, InvParts, TypeFrames, GrowthInv DEF tables
<1> QED BY <1>1, <1>5, <1>6


\* FindExternalClientByConnection finds the client, if there is one.
LEMMA ExternalIsClient ==
    ASSUME TableInv, NEW c \in Connections, NEW known \in ExternalClients(c)
    PROVE  /\ known # None => known \in Ids /\ client[known].conn = c /\ Via[c] \in up \ Forwarding
           /\ known = None /\ Via[c] \in up \ Forwarding => \A i \in Ids : client[i].conn # c
<1> DEFINE found == {id \in Ids : Via[c] \in up \ Forwarding /\ reach[Via[c]][id] = c}
<1>1. Mirrored(Tables) /\ Via[c] \in Transports /\ c # None
  BY InvParts, RouterAssumption
<1>2. \A id \in found : id \in Ids /\ client[id].conn = c /\ Known(id) /\ id # None /\ Via[c] \in up \ Forwarding
  BY <1>1, RouterAssumption DEF Mirrored, Tables, Known
<1>3. Via[c] \in up \ Forwarding => \A i \in Ids : client[i].conn = c => i \in found
  BY <1>1 DEF Mirrored, Tables
<1>4. CASE found = {}
  BY <1>3, <1>4 DEF ExternalClients
<1>5. CASE found # {}
  <2>1. known \in found
    BY <1>2, <1>5 DEF ExternalClients
  <2> QED BY <1>2, <2>1
<1> QED BY <1>4, <1>5

\* T is the tables with a new client under id.
Accepted(T, id, c) ==
    /\ T \in TableSet /\ Mirrored(T) /\ T.allocated \subseteq allocated \cup {id}
    /\ T.client[id].conn = c
    /\ \A i \in Ids \ {id} : T.client[i] = client[i]

LEMMA AllocatedTable ==
    ASSUME NEW A \in TableSet, Mirrored(A), NEW id \in Ids
    PROVE  LET T == [A EXCEPT !.allocated = @ \cup {id}] IN
           T \in TableSet /\ Mirrored(T) /\ T.client = A.client /\ T.allocated = A.allocated \cup {id}
<1> DEFINE T == [A EXCEPT !.allocated = A.allocated \cup {id}]
<1>1. T \in TableSet /\ T.client = A.client /\ T.reach = A.reach /\ T.allocated = A.allocated \cup {id}
  BY DEF TableSet
<1>2. Mirrored(T) <=> Mirrored(A)
  <2> HIDE DEF T
  <2> QED BY <1>1 DEF Mirrored
<1> QED BY <1>1, <1>2

LEMMA AcceptedTable ==
    ASSUME TableInv, ~Reuse, NEW id \in FreshIds, NEW c \in Connections, Via[c] \in up
    PROVE  Accepted([AddClient(Tables, id, c, TRUE) EXCEPT !.allocated = @ \cup {id}], id, c)
<1>1. id \in Ids /\ id \notin drawn \cup Foreign
  BY DEF FreshIds
<1>2. client[id].conn = None
  <2>1. client[id].conn \in Connections \cup {None}
    BY <1>1, InvParts DEF TableType, TableSet, Tables, Context
  <2> QED BY <1>1, <2>1, InvParts DEF PairsAreDrawn, Pairs, TablePair
<1>3. /\ Tables \in TableSet /\ Mirrored(Tables) /\ up \subseteq Transports
      /\ Tables.client = client /\ Tables.allocated = allocated
  BY InvParts DEF TableType, Tables
<1> DEFINE A == AddClient(Tables, id, c, TRUE)
<1>4. /\ A \in TableSet /\ Mirrored(A) /\ A.allocated = allocated /\ A.client[id].conn = c
      /\ \A i \in Ids \ {id} : A.client[i] = client[i]
  BY <1>1, <1>2, <1>3, AddedTable, ZenonT(40)
<1> HIDE DEF A
<1> DEFINE T == [A EXCEPT !.allocated = @ \cup {id}]
<1>5. T \in TableSet /\ Mirrored(T) /\ T.client = A.client /\ T.allocated = A.allocated \cup {id}
  BY <1>1, <1>4, AllocatedTable
<1> HIDE DEF T
<1>6. Accepted(T, id, c)
  BY <1>4, <1>5 DEF Accepted
<1> QED BY <1>6 DEF T, A

\* What is left of them: others are found to have exited, or the client itself.
NewTables(F, id, c) ==
    /\ F \in TableSet /\ Mirrored(F) /\ F.allocated \subseteq allocated \cup {id}
    /\ \A i \in Ids \ {id} : F.client[i].conn \in {client[i].conn, None}
    /\ \A i \in Ids \ {id} : client[i].conn \notin gone => F.client[i].conn = client[i].conn
    /\ F.client[id].conn \in {c, None}

LEMMA AcceptedTables ==
    ASSUME TableInv, NEW id \in Ids, NEW c \in Connections, NEW T, Accepted(T, id, c),
           NEW R, R = {} \/ (R = {id} /\ c \in gone), NEW S \in Removed(T, R, 1)
    PROVE  NewTables(RemoveClients(T, S), id, c)
<1>1. R \in SUBSET Ids
  OBVIOUS
<1>2. S \in SUBSET Ids /\ \A i \in S \ R : T.client[i].conn \in gone
  BY <1>1, OthersAreGone, InvParts DEF TableType, PeerType, Accepted
<1>3. \A i \in S : T.client[i].conn \in gone
  BY <1>2 DEF Accepted
<1>4. /\ RemoveClients(T, S) \in TableSet /\ Mirrored(RemoveClients(T, S))
      /\ RemoveClients(T, S).allocated \subseteq T.allocated
      /\ \A i \in Ids : RemoveClients(T, S).client[i] = IF i \in S THEN NoClient ELSE T.client[i]
  BY <1>2, RemovedTable DEF Accepted
<1>5. NoClient.conn = None
  BY DEF NoClient
<1>6. /\ \A i \in Ids \ {id} : RemoveClients(T, S).client[i].conn \in {client[i].conn, None}
      /\ \A i \in Ids \ {id} : client[i].conn \notin gone => RemoveClients(T, S).client[i].conn = client[i].conn
  BY <1>3, <1>4, <1>5 DEF Accepted
<1>7. RemoveClients(T, S).client[id].conn \in {c, None}
  BY <1>4, <1>5 DEF Accepted
<1> QED BY <1>4, <1>6, <1>7 DEF Accepted, NewTables


Dropped(id) == \E S \in Removed(Tables, {id}, 0) : SetTables(RemoveClients(Tables, S))

\* The outcomes of a request: nothing, the id the client has, or a new one.
Reminded(c) ==
    \E known \in Ids :
        /\ client[known].conn = c /\ Via[c] \in up \ Forwarding /\ UNCHANGED drawn
        /\ \/ /\ UNCHANGED <<client, reach, allocated>>
              /\ mine[c] = None /\ mine' = [mine EXCEPT ![c] = known]
           \/ c \in gone /\ Dropped(known) /\ UNCHANGED mine

Welcomed(c) ==
    \E id \in FreshIds, F \in TableSet :
        /\ Via[c] \in up \ Forwarding /\ \A i \in Ids : client[i].conn # c
        /\ drawn' = drawn \cup {id}
        /\ NewTables(F, id, c) /\ SetTables(F)
        /\ \/ UNCHANGED mine
           \/ mine[c] = None /\ mine' = [mine EXCEPT ![c] = id]

LEMMA ConnectCases ==
    ASSUME TableInv, ~Reuse, ProcessConnectRequest
    PROVE  /\ Head(batch).conn \in Connections
           /\ \/ UNCHANGED <<client, reach, allocated, drawn, mine>>
              \/ Reminded(Head(batch).conn) \/ Welcomed(Head(batch).conn)
<1> DEFINE c == Head(batch).conn
           T(id) == [AddClient(Tables, id, c, TRUE) EXCEPT !.allocated = @ \cup {id}]
           Outcome == \/ UNCHANGED <<client, reach, allocated, drawn, mine>>
                      \/ Reminded(c) \/ Welcomed(c)
<1>1. Head(batch) \in Message /\ Sent(Head(batch)) /\ Head(batch).kind = "ConnectRequest"
  BY InvParts, HandledWasSent DEF ProcessConnectRequest, Takes
<1>2. c \in Connections /\ Via[c] \notin Forwarding
  BY <1>1, InvParts DEF RequestsFit, Message
<1>3. CASE UNCHANGED <<client, reach, allocated, drawn, mine>>
  BY <1>2, <1>3
<1>4. ASSUME NEW known \in ExternalClients(c), known # None,
             \/ Respond(c, known) /\ UNCHANGED <<client, reach, allocated, drawn>>
             \/ c \in gone /\ Dropped(known) /\ UNCHANGED <<drawn, mine>>
      PROVE  Outcome
  <2>1. known \in Ids /\ client[known].conn = c /\ Via[c] \in up \ Forwarding
    BY <1>2, <1>4, ExternalIsClient
  <2> QED BY <1>4, <2>1 DEF Respond, Reminded
<1>5. ASSUME NEW known \in ExternalClients(c), known = None, Via[c] \in up, NEW id \in FreshIds,
             drawn' = drawn \cup {id},
             \/ (\E S \in Removed(T(id), {}, 1) : SetTables(RemoveClients(T(id), S))) /\ Respond(c, id)
             \/ c \in gone /\ (\E S \in Removed(T(id), {id}, 1) : SetTables(RemoveClients(T(id), S))) /\ UNCHANGED mine
      PROVE  Welcomed(c)
  <2>1. \A i \in Ids : client[i].conn # c
    BY <1>2, <1>5, ExternalIsClient
  <2>2. id \in Ids
    BY DEF FreshIds
  <2>3. Accepted(T(id), id, c)
    BY <1>2, <1>5, AcceptedTable
  <2>4. PICK R \in {{}, {id}} :
           /\ R = {} \/ (R = {id} /\ c \in gone)
           /\ \E S \in Removed(T(id), R, 1) : SetTables(RemoveClients(T(id), S))
           /\ Respond(c, id) \/ UNCHANGED mine
    BY <1>5
  <2> HIDE DEF T
  <2>5. PICK S \in Removed(T(id), R, 1) : SetTables(RemoveClients(T(id), S)) /\ NewTables(RemoveClients(T(id), S), id, c)
    BY <1>2, <2>2, <2>3, <2>4, AcceptedTables
  <2>6. RemoveClients(T(id), S) \in TableSet
    BY <2>5 DEF NewTables
  <2> QED BY <1>2, <1>5, <2>1, <2>4, <2>5, <2>6 DEF Welcomed, Respond
<1> HIDE DEF T
<1>6. \/ UNCHANGED <<client, reach, allocated, drawn, mine>>
      \/ \E known \in ExternalClients(c) :
            /\ known # None
            /\ \/ Respond(c, known) /\ UNCHANGED <<client, reach, allocated, drawn>>
               \/ c \in gone /\ Dropped(known) /\ UNCHANGED <<drawn, mine>>
      \/ /\ Via[c] \in up
         /\ \E known \in ExternalClients(c), id \in FreshIds :
            /\ known = None /\ drawn' = drawn \cup {id}
            /\ \/ (\E S \in Removed(T(id), {}, 1) : SetTables(RemoveClients(T(id), S))) /\ Respond(c, id)
               \/ c \in gone /\ (\E S \in Removed(T(id), {id}, 1) : SetTables(RemoveClients(T(id), S))) /\ UNCHANGED mine
  BY DEF ProcessConnectRequest, T, Dropped
<1>7. Outcome
  BY <1>3, <1>4, <1>5, <1>6
<1> QED BY <1>2, <1>7


LEMMA ConnectStep ==
    ASSUME TableInv, ~Reuse, ProcessConnectRequest
    PROVE  /\ TableInv'
           /\ NoNewPair \/ \E id \in FreshIds : GrowsBy(id, Head(batch).conn)
<1> DEFINE c == Head(batch).conn
<1>1. c \in Connections
  BY ConnectCases
<1>2. UNCHANGED <<up, gone, pinged, queried>> /\ UNCHANGED core /\ UNCHANGED routes
  BY DEF ProcessConnectRequest
<1>3. /\ InboxType' /\ RequestsFit'
      /\ \A id \in Ids, d \in Connections : MessagePair(id, d)' => MessagePair(id, d)
  <2>1. InboxType' /\ \A m : Sent(m)' => Sent(m)
    BY InvParts, HandledWasSent DEF ProcessConnectRequest, Takes
  <2> QED BY <2>1, InvParts DEF RequestsFit, MessagePair
<1> DEFINE Goal == TableInv' /\ (NoNewPair \/ \E id \in FreshIds : GrowsBy(id, c))
<1>4. CASE UNCHANGED <<client, reach, allocated, drawn, mine>>
  <2>1. UNCHANGED tables
    BY <1>2, <1>4 DEF tables
  <2>2. PeerType'
    BY <1>2, <1>4, InvParts DEF PeerType
  <2>3. NoNewPair
    BY <1>2, <1>3, <1>4, PairFrames DEF NoNewPair, Pairs
  <2>4. drawn \subseteq drawn'
    BY <1>4
  <2> QED BY <1>2, <1>3, <2>1, <2>2, <2>3, <2>4, InvParts, TypeFrames, StepInv
<1>5. ASSUME Reminded(c) PROVE Goal
  <2>1. PICK known \in Ids :
           /\ client[known].conn = c /\ Via[c] \in up \ Forwarding /\ UNCHANGED drawn
           /\ \/ /\ UNCHANGED <<client, reach, allocated>>
                 /\ mine[c] = None /\ mine' = [mine EXCEPT ![c] = known]
              \/ c \in gone /\ Dropped(known) /\ UNCHANGED mine
    BY <1>5 DEF Reminded
  <2>2. /\ TableType' /\ Mirrored(Tables)'
        /\ \A id \in Ids, d \in Connections : TablePair(id, d)' => TablePair(id, d)
    <3>1. CASE UNCHANGED <<client, reach, allocated>>
      <4>1. UNCHANGED tables
        BY <1>2, <2>1, <3>1 DEF tables
      <4> QED BY <3>1, <4>1, InvParts, TypeFrames, PairFrames
    <3>2. CASE Dropped(known)
      <4>1. \E F : Shrunk(F) /\ SetTables(F)
        BY <2>1, <3>2, TablesShrink, RemovalShrinks DEF Dropped
      <4>2. drawn \subseteq drawn' /\ drawn' \subseteq Ids /\ UNCHANGED up
        BY <1>2, <2>1, InvParts DEF TableType
      <4> QED BY <3>2, <4>1, <4>2, ShrunkStep
    <3> QED BY <2>1, <3>1, <3>2
  <2>3. PeerType' /\ \A id \in Ids, d \in Connections : OwnPair(id, d)' => OwnPair(id, d) \/ TablePair(id, d)
    BY <1>1, <1>2, <2>1, InvParts DEF PeerType, OwnPair, TablePair
  <2>4. NoNewPair
    BY <1>2, <1>3, <2>2, <2>3, PairFrames DEF NoNewPair, Pairs
  <2>5. drawn \subseteq drawn'
    BY <2>1
  <2> QED BY <1>2, <1>3, <2>2, <2>3, <2>4, <2>5, InvParts, TypeFrames, StepInv
<1>6. ASSUME Welcomed(c) PROVE Goal
  <2>1. PICK id \in FreshIds, F \in TableSet :
           /\ drawn' = drawn \cup {id} /\ NewTables(F, id, c) /\ SetTables(F)
           /\ UNCHANGED mine \/ (mine[c] = None /\ mine' = [mine EXCEPT ![c] = id])
    BY <1>6 DEF Welcomed
  <2>2. id \in Ids /\ drawn \subseteq drawn' /\ drawn' \subseteq Ids
    BY <2>1, InvParts DEF FreshIds, TableType
  <2>3. client' = F.client /\ reach' = F.reach /\ allocated' = F.allocated
    BY <2>1 DEF SetTables
  <2>4. TableType'
    BY <1>2, <2>1, <2>2, <2>3, InvParts DEF TableType, TableSet, Tables, NewTables
  <2>5. Mirrored(Tables)'
    BY <1>2, <2>1, <2>3 DEF Mirrored, Tables, NewTables
  <2>6. \A i \in Ids, d \in Connections : TablePair(i, d)' => TablePair(i, d) \/ (i = id /\ d = c)
    <3>1. \A i \in Ids : client'[i].conn \in {client[i].conn, None} \/ (i = id /\ client'[i].conn = c)
      <4>1. \A i \in Ids \ {id} : F.client[i].conn \in {client[i].conn, None}
        BY <2>1 DEF NewTables
      <4>2. F.client[id].conn \in {c, None}
        BY <2>1 DEF NewTables
      <4> QED BY <2>3, <4>1, <4>2
    <3>2. None \notin Connections
      BY RouterAssumption
    <3> QED BY <3>1, <3>2 DEF TablePair
  <2>7. PeerType' /\ \A i \in Ids, d \in Connections : OwnPair(i, d)' => OwnPair(i, d) \/ (i = id /\ d = c)
    BY <1>1, <1>2, <2>1, <2>2, InvParts DEF PeerType, OwnPair
  <2>8. GrowsBy(id, c)
    BY <1>2, <1>3, <2>6, <2>7, PairFrames DEF GrowsBy, Pairs
  <2>9. id \in drawn' \cup Foreign
    BY <2>1
  <2> QED BY <1>1, <1>2, <1>3, <2>1, <2>2, <2>4, <2>5, <2>7, <2>8, <2>9, InvParts, TypeFrames, GrowthInv
<1> QED BY <1>4, <1>5, <1>6, ConnectCases

-----------------------------------------------------------------------------
LEMMA InitTables == Init => TableInv
<1> SUFFICES ASSUME Init PROVE TableInv
  OBVIOUS
<1>1. NoClient \in Context /\ NoClient.conn = None
  BY RouterAssumption DEF NoClient, Context
<1>2. TypeOK
  <2>1. TableType
    BY <1>1 DEF Init, TableType, TableSet, Tables
  <2>2. InboxType
    <3>1. queue = <<>> /\ batch = <<>> /\ updated = FALSE /\ Len(queue) = 0
      BY DEF Init
    <3>2. Len(queue) <= MaxQueue
      BY <3>1, RouterAssumption
    <3>3. <<>> \in Seq(Message)
      OBVIOUS
    <3> QED BY <3>1, <3>2, <3>3 DEF InboxType
  <2>3. CoreType /\ RouteType /\ PeerType
    BY DEF Init, CoreType, RouteType, PeerType, IdleCore, IdleThread
  <2> QED BY <2>1, <2>2, <2>3, TypeParts
<1>3. Mirrored(Tables)
  BY <1>1 DEF Init, Mirrored, Tables
<1>4. \A m : ~Sent(m)
  BY DEF Init, Sent
<1>5. \A id \in Ids, c \in Connections : ~Pairs(id, c)
  BY <1>1, <1>4, RouterAssumption DEF Init, Pairs, TablePair, OwnPair, RoutePair, MessagePair, CorePair, IdleCore, IdleThread
<1> QED BY <1>2, <1>3, <1>4, <1>5 DEF Init, TableInv, PairsAreDrawn, RequestsFit, CoreFits, ThreadsFit, IdleCore, IdleThread

LEMMA NextTables == ASSUME ~Reuse, TableInv, [Next]_vars PROVE TableInv'
<1>1. CASE Next
  BY <1>1, ClientSteps, AppearStep, RouteSteps, RemovalSteps, RemoveTransportStep, QueueSteps, UpdateStep,
     MessageStep, ConnectStep DEF Next, CoreStep
<1>2. CASE UNCHANGED vars
  <2>1. UNCHANGED tables /\ UNCHANGED inbox /\ UNCHANGED core /\ UNCHANGED routes /\ UNCHANGED peers
    BY <1>2 DEF vars
  <2>2. NoNewPair
    BY <2>1, PairFrames DEF NoNewPair, Pairs, tables, peers
  <2>3. PeerType' /\ drawn \subseteq drawn'
    BY <2>1, InvParts DEF PeerType, peers, tables
  <2> QED BY <2>1, <2>2, <2>3, InvParts, TypeFrames, StepInv
<1> QED BY <1>1, <1>2

LEMMA TableInvHolds == ASSUME ~Reuse PROVE Spec => []TableInv
<1>1. TableInv /\ [Next]_vars => TableInv'
  BY NextTables
<1> QED BY <1>1, InitTables, PTL DEF Spec

(***************************************************************************)
(* The table of a transport and the table of the clients agree, whichever  *)
(* clients come, leave, crash or stay silent and whichever transports are  *)
(* removed, as long as no id is drawn a second time.                       *)
(***************************************************************************)
THEOREM TablesStayEqual == ASSUME ~Reuse PROVE Spec => []TablesAgree
<1>1. TableInv => TablesAgree
  <2> SUFFICES ASSUME TableInv PROVE TablesAgree
    OBVIOUS
  <2>1. Mirrored(Tables) /\ up \subseteq Transports
    BY InvParts DEF TableType
  <2> QED BY <2>1 DEF Mirrored, Tables, TablesAgree, Known
<1> QED BY <1>1, TableInvHolds, PTL


-----------------------------------------------------------------------------
(***************************************************************************)
(* The pairs, and the entries of the clients that run.                     *)
(***************************************************************************)
\* The client of a connection that is still there keeps its entry.
LivingKept ==
    \A i \in Ids :
        Known(i) /\ client[i].conn \notin gone /\ client'[i].conn # client[i].conn
            => Expired(i) \/ Via[client[i].conn] \notin up'

\* A client learns its id at most once.
Learns(id, c) == mine[c] = None /\ mine' = [mine EXCEPT ![c] = id]

LEMMA PairsPersist ==
    ASSUME TableInv, PairInv, TableInv', NoNewPair, GoodbyeIsLast',
           \/ UNCHANGED mine
           \/ \E id \in Ids, c \in Connections :
                 Learns(id, c) /\ client[id].conn = c /\ Via[c] \in up \ Forwarding
    PROVE  PairInv'
<1>1. OneConnection'
  BY DEF PairInv, OneConnection, NoNewPair
<1>2. mine \in [Connections -> Ids \cup {None}] /\ None \notin Ids
  BY InvParts, RouterAssumption DEF PeerType
<1>3. \A c \in Connections : mine[c] # None => mine'[c] = mine[c]
  BY <1>2 DEF Learns
<1>4. ForeignIsKnown'
  BY <1>2, <1>3, RouterAssumption DEF PairInv, ForeignIsKnown, NoNewPair
<1> QED BY <1>1, <1>4 DEF PairInv

LEMMA PairsGrow ==
    ASSUME TableInv, PairInv, TableInv', NEW id \in Ids, NEW c \in Connections, GrowsBy(id, c),
           \A d \in Connections : ~Pairs(id, d),
           UNCHANGED mine \/ Learns(id, c),
           id \in Foreign \/ Via[c] \in Forwarding => mine'[c] = id,
           GoodbyeIsLast'
    PROVE  PairInv'
<1>1. OneConnection'
  BY DEF PairInv, OneConnection, GrowsBy
<1>2. mine \in [Connections -> Ids \cup {None}] /\ None \notin Ids
  BY InvParts, RouterAssumption DEF PeerType
<1>3. \A d \in Connections : mine[d] # None \/ d # c => mine'[d] = mine[d]
  BY <1>2 DEF Learns
<1>4. ForeignIsKnown'
  BY <1>2, <1>3, RouterAssumption DEF PairInv, ForeignIsKnown, GrowsBy
<1> QED BY <1>1, <1>4 DEF PairInv


LEMMA LivingFrames ==
    /\ UNCHANGED client => LivingKept
    /\ \A F : Keeps(F, {}) /\ SetTables(F) => LivingKept
BY DEF LivingKept, Keeps, SetTables

\* The client of an id whose connection is gone may be removed.
LEMMA RemovalKeepsLiving ==
    ASSUME TableInv, PairInv, NEW id \in Ids, NEW d \in gone, Pairs(id, d), NEW S \in Removed(Tables, {id}, 0)
    PROVE  Shrunk(RemoveClients(Tables, S)) /\ Keeps(RemoveClients(Tables, S), {})
<1>1. client[id].conn \in Connections \cup {None} /\ gone \subseteq Connections
  BY InvParts DEF TableType, TableSet, Tables, Context, PeerType
<1>2. client[id].conn \in gone \cup {None}
  BY <1>1 DEF PairInv, OneConnection, Pairs, TablePair
<1>3. Tables.client = client
  BY DEF Tables
<1> QED BY <1>2, <1>3, TablesShrink, RemovalShrinks

LEMMA GoodbyeFrames ==
    ASSUME PairInv, gone \subseteq gone',
           \A m \in Message : Sent(m)' => Sent(m) \/ m.conn \in gone' \/ m.kind \notin {"Disconnect", "ClientDisconnected"},
           core'.pc = "removing" => core'.conn \in gone' \/ core' = core
    PROVE  GoodbyeIsLast'
BY DEF PairInv, GoodbyeIsLast

LEMMA ClientPairs ==
    ASSUME TableInv, PairInv, NEW c \in Connections, ConnectRequest(c) \/ Leave(c) \/ Crash(c) \/ Answer(c)
    PROVE  PairInv' /\ LivingKept
<1>1. TableInv' /\ NoNewPair
  BY ClientSteps
<1>2. UNCHANGED tables /\ UNCHANGED core /\ UNCHANGED mine
  BY DEF ConnectRequest, Leave, Crash, Answer, peers
<1>3. LivingKept /\ gone \subseteq gone'
  BY <1>2, LivingFrames DEF tables, ConnectRequest, Leave, Crash, Answer, peers
<1>4. \A m \in Message : Sent(m)' => Sent(m) \/ m.conn \in gone' \/ m.kind \notin {"Disconnect", "ClientDisconnected"}
  <2>1. CASE UNCHANGED inbox
    BY <2>1 DEF inbox, Sent
  <2>2. CASE \E kind \in {"ConnectRequest", "Pong", "ClientInfo"}, src \in Ids \cup {None} : Enqueue(kind, c, src)
    <3>1. PICK kind \in {"ConnectRequest", "Pong", "ClientInfo"}, src \in Ids \cup {None} : Enqueue(kind, c, src)
      BY <2>2
    <3>2. [kind |-> kind, conn |-> c, src |-> src] \in Message
      BY DEF Message
    <3> QED BY <3>1, <3>2, InvParts, EnqueuedIsSent
  <2>3. CASE \E kind \in {"Disconnect", "ClientDisconnected"}, src \in Ids \cup {None} : Enqueue(kind, c, src) /\ c \in gone'
    <3>1. PICK kind \in {"Disconnect", "ClientDisconnected"}, src \in Ids \cup {None} : Enqueue(kind, c, src) /\ c \in gone'
      BY <2>3
    <3>2. [kind |-> kind, conn |-> c, src |-> src] \in Message
      BY DEF Message
    <3> QED BY <3>1, <3>2, InvParts, EnqueuedIsSent
  <2>4. mine[c] \in Ids \cup {None}
    BY InvParts DEF PeerType
  <2> QED BY <2>1, <2>2, <2>3, <2>4 DEF ConnectRequest, Leave, Crash, Answer
<1>5. GoodbyeIsLast'
  BY <1>2, <1>3, <1>4, GoodbyeFrames
<1> QED BY <1>1, <1>2, <1>3, <1>5, PairsPersist

LEMMA AppearPairs ==
    ASSUME TableInv, PairInv, NEW c \in Connections, Appear(c)
    PROVE  PairInv' /\ LivingKept
<1>1. TableInv'
  BY AppearStep
<1>2. PICK id \in Foreign : /\ GrowsBy(id, c) /\ mine' = [mine EXCEPT ![c] = id]
                            /\ \A d \in Connections : mine[d] # id
  BY AppearStep
<1>3. id \in Ids /\ Learns(id, c) /\ mine'[c] = id /\ Via[c] \in Forwarding
  BY <1>2, InvParts, RouterAssumption DEF Appear, Learns, PeerType
<1>4. UNCHANGED tables /\ UNCHANGED core /\ UNCHANGED gone
  BY DEF Appear
<1>5. \A d \in Connections : ~Pairs(id, d)
  BY <1>2, <1>3 DEF PairInv, ForeignIsKnown
<1>7. LivingKept
  BY <1>4, LivingFrames DEF tables
<1> DEFINE NoGoodbye == \A m \in Message : Sent(m)' => Sent(m) \/ m.kind \notin {"Disconnect", "ClientDisconnected"}
<1>8. NoGoodbye
  <2>1. CASE UNCHANGED inbox
    BY <2>1 DEF inbox, Sent
  <2>2. ASSUME NEW i \in Foreign, Enqueue("ClientConnected", c, i) PROVE NoGoodbye
    <3>1. [kind |-> "ClientConnected", conn |-> c, src |-> i] \in Message
      BY RouterAssumption DEF Message
    <3> QED BY <2>2, <3>1, InvParts, EnqueuedIsSent
  <2> QED BY <2>1, <2>2 DEF Appear
<1>9. GoodbyeIsLast'
  BY <1>4, <1>8, GoodbyeFrames
<1> QED BY <1>1, <1>2, <1>3, <1>5, <1>7, <1>9, PairsGrow


\* The steps that leave the tables, the clients and the goodbyes alone.
LEMMA SteadyPairs ==
    ASSUME TableInv, PairInv,
           \/ \E c \in Senders : BeginBroadcast(c) \/ \E dst \in Ids : LookUp(c, dst) \/ Transmit(c, dst)
           \/ \E t \in Transports : FillCache(t) \/ Disable(t)
           \/ TakeQueue \/ SendQuery
    PROVE  PairInv' /\ LivingKept
<1>1. TableInv' /\ NoNewPair
  BY RouteSteps, QueueSteps
<1>2. UNCHANGED tables /\ UNCHANGED <<mine, gone>>
  BY DEF BeginBroadcast, LookUp, Transmit, FillCache, Disable, TakeQueue, SendQuery, peers
<1>3. LivingKept
  BY <1>2, LivingFrames DEF tables
<1>4. \A m \in Message : Sent(m)' => Sent(m)
  <2>1. CASE UNCHANGED inbox
    BY <2>1 DEF inbox, Sent
  <2>2. CASE TakeQueue
    BY <2>2, InvParts, TakenIsSent
  <2> QED BY <2>1, <2>2 DEF BeginBroadcast, LookUp, Transmit, FillCache, Disable, SendQuery
<1>5. core'.pc = "removing" => core'.conn \in gone' \/ core' = core
  <2>1. CASE UNCHANGED core
    BY <2>1
  <2>2. CASE SendQuery
    BY <1>2, <2>2, InvParts DEF SendQuery, IdleCore, CoreType
  <2> QED BY <2>1, <2>2 DEF BeginBroadcast, LookUp, Transmit, FillCache, Disable, TakeQueue
<1>6. GoodbyeIsLast'
  BY <1>2, <1>4, <1>5, GoodbyeFrames
<1> QED BY <1>1, <1>2, <1>3, <1>6, PairsPersist

LEMMA RemovalPairs ==
    ASSUME TableInv, PairInv,
           \/ \E c \in Senders, dst \in Ids : TransmitFails(c, dst)
           \/ \E t \in Transports : EndBroadcast(t)
           \/ ProcessDisconnect \/ RemoveUnlocked
    PROVE  PairInv' /\ LivingKept
<1>1. TableInv' /\ NoNewPair
  BY RemovalSteps
<1>2. UNCHANGED up /\ UNCHANGED <<mine, gone>>
  BY DEF TransmitFails, EndBroadcast, ProcessDisconnect, RemoveUnlocked, peers
<1>3. LivingKept
  <2>1. ASSUME NEW c \in Senders, NEW dst \in Ids, TransmitFails(c, dst) PROVE LivingKept
    <3>1. Via[c] \in Transports
      BY RouterAssumption
    <3>2. Cached(Via[c], dst) \in gone /\ \E S \in Removed(Tables, {dst}, 0) : SetTables(RemoveClients(Tables, S))
      BY <2>1 DEF TransmitFails
    <3>3. Pairs(dst, Cached(Via[c], dst))
      BY <3>1 DEF Pairs, RoutePair, Cached
    <3> QED BY <3>2, <3>3, RemovalKeepsLiving, LivingFrames
  <2>2. ASSUME NEW t \in Transports, EndBroadcast(t) PROVE LivingKept
    BY <2>2, TablesShrink, RemovalShrinks, LivingFrames DEF EndBroadcast
  <2>3. ASSUME ProcessDisconnect PROVE LivingKept
    <3>1. Head(batch) \in Message /\ Sent(Head(batch)) /\ Head(batch).kind = "Disconnect"
      BY <2>3, InvParts, HandledWasSent DEF ProcessDisconnect, Takes
    <3>2. Head(batch).src \in Ids /\ Head(batch).conn \in gone /\ Pairs(Head(batch).src, Head(batch).conn)
      BY <3>1, InvParts DEF RequestsFit, PairInv, GoodbyeIsLast, Pairs, MessagePair
    <3>3. CASE \E S \in Removed(Tables, {Head(batch).src}, 0) : SetTables(RemoveClients(Tables, S))
      BY <3>2, <3>3, RemovalKeepsLiving, LivingFrames
    <3>4. CASE UNCHANGED <<client, reach, allocated>>
      BY <3>4, LivingFrames
    <3> QED BY <2>3, <3>3, <3>4 DEF ProcessDisconnect
  <2>4. ASSUME RemoveUnlocked PROVE LivingKept
    <3>1. /\ core.id \in Ids /\ core.conn \in gone
          /\ \E S \in Removed(Tables, {core.id}, 0) : SetTables(RemoveClients(Tables, S))
      BY <2>4, InvParts DEF RemoveUnlocked, CoreFits, PairInv, GoodbyeIsLast
    <3>2. Pairs(core.id, core.conn)
      BY DEF Pairs, CorePair
    <3> QED BY <3>1, <3>2, RemovalKeepsLiving, LivingFrames
  <2> QED BY <2>1, <2>2, <2>3, <2>4
<1>4. \A m \in Message : Sent(m)' => Sent(m)
  <2>1. CASE UNCHANGED inbox
    BY <2>1 DEF inbox, Sent
  <2>2. CASE ProcessDisconnect
    BY <2>2, InvParts, HandledWasSent DEF ProcessDisconnect, Takes
  <2> QED BY <2>1, <2>2 DEF TransmitFails, EndBroadcast, RemoveUnlocked
<1>5. core'.pc = "removing" => core' = core
  <2>1. core' = core \/ core' = IdleCore
    BY DEF TransmitFails, EndBroadcast, ProcessDisconnect, RemoveUnlocked
  <2> QED BY <2>1 DEF IdleCore
<1>6. GoodbyeIsLast'
  BY <1>2, <1>4, <1>5, GoodbyeFrames
<1> QED BY <1>1, <1>2, <1>3, <1>6, PairsPersist

LEMMA RemoveTransportPairs ==
    ASSUME TableInv, PairInv, NEW t \in Transports, RemoveTransport(t)
    PROVE  PairInv' /\ LivingKept
<1>1. TableInv' /\ NoNewPair
  BY RemoveTransportStep
<1>2. UNCHANGED inbox /\ UNCHANGED core /\ UNCHANGED <<mine, gone>> /\ up' = up \ {t}
  BY DEF RemoveTransport, peers
<1>3. LivingKept
  <2> DEFINE R == {id \in Ids : reach[t][id] # None}
  <2>1. PICK S \in Removed(Tables, R, 0) : SetTables(RemoveClients(Tables, S))
    BY DEF RemoveTransport
  <2>2. Keeps(RemoveClients(Tables, S), R)
    BY TablesShrink, RemovalShrinks
  <2>3. \A i \in R : Known(i) => Via[client[i].conn] = t
    BY InvParts, RouterAssumption DEF Mirrored, Tables, Known
  <2>4. client' = RemoveClients(Tables, S).client
    BY <2>1 DEF SetTables
  <2> HIDE DEF R
  <2> QED BY <1>2, <2>2, <2>3, <2>4 DEF LivingKept, Keeps
<1>4. GoodbyeIsLast'
  BY <1>2, GoodbyeFrames DEF inbox, Sent
<1> QED BY <1>1, <1>2, <1>3, <1>4, PairsPersist

LEMMA UpdatePairs ==
    ASSUME TableInv, PairInv, UpdateClients
    PROVE  PairInv' /\ LivingKept
<1>1. TableInv' /\ NoNewPair
  BY UpdateStep
<1>2. UNCHANGED <<up, queue, batch, core, mine, gone>>
  BY DEF UpdateClients
<1>3. LivingKept
  <2>1. PICK F : SetTables(F) /\ Keeps(F, {id \in Ids : Expired(id)})
    BY UpdatedTables
  <2> QED BY <2>1 DEF LivingKept, Keeps, SetTables
<1>4. GoodbyeIsLast'
  BY <1>2, GoodbyeFrames DEF Sent
<1> QED BY <1>1, <1>2, <1>3, <1>4, PairsPersist


LEMMA MessagePairs ==
    ASSUME TableInv, PairInv, ProcessRouterMessage
    PROVE  PairInv' /\ LivingKept
<1> DEFINE m == Head(batch)
<1>1. TableInv' /\ NoNewPair
  BY MessageStep
<1>2. UNCHANGED up /\ UNCHANGED <<mine, gone>>
  BY DEF ProcessRouterMessage, peers
<1>3. m \in Message /\ Sent(m) /\ m.kind # "ConnectRequest" /\ \A n : Sent(n)' => Sent(n)
  BY InvParts, HandledWasSent DEF ProcessRouterMessage, Takes
<1>4. m.src \in Ids /\ m.conn \in Connections /\ Pairs(m.src, m.conn)
  BY <1>3, InvParts DEF RequestsFit, Message, Pairs, MessagePair
<1>5. LivingKept
  <2>1. ASSUME NEW F, SetTables(F), Keeps(F, {}) PROVE LivingKept
    BY <2>1, LivingFrames
  <2>2. ASSUME NEW F, m.kind = "ClientDisconnected", SetTables(F), Keeps(F, {m.src}) PROVE LivingKept
    <3>1. m.conn \in gone
      BY <1>3, <2>2 DEF PairInv, GoodbyeIsLast
    <3>2. Known(m.src) => client[m.src].conn = m.conn
      <4>1. client[m.src].conn \in Connections \cup {None}
        BY <1>4, InvParts DEF TableType, TableSet, Tables, Context
      <4> QED BY <1>4, <4>1 DEF PairInv, OneConnection, Pairs, TablePair, Known
    <3>3. client' = F.client
      BY <2>2 DEF SetTables
    <3> QED BY <2>2, <3>1, <3>2, <3>3 DEF LivingKept, Keeps
  <2>3. ASSUME ~Known(m.src), Via[m.conn] \in up, SetTables(AddClient(Tables, m.src, m.conn, FALSE)) PROVE LivingKept
    <3>1. \A i \in Ids \ {m.src} : AddClient(Tables, m.src, m.conn, FALSE).client[i] = client[i]
      BY <1>4, <2>3, InvParts, AddedTable, ZenonT(40) DEF TableType, Known, Tables
    <3>2. \A i \in Ids \ {m.src} : client'[i] = client[i]
      BY <2>3, <3>1 DEF SetTables
    <3> QED BY <2>3, <3>2 DEF LivingKept
  <2> QED BY MessageTables, <2>1, <2>2, <2>3
<1>6. core'.pc = "removing" => core' = core
  <2>1. core' = core \/ core' = [pc |-> "query", id |-> m.src, conn |-> m.conn]
    BY DEF ProcessRouterMessage
  <2> QED BY <2>1
<1>7. GoodbyeIsLast'
  BY <1>2, <1>3, <1>6, GoodbyeFrames
<1> QED BY <1>1, <1>2, <1>5, <1>7, PairsPersist

LEMMA ConnectPairs ==
    ASSUME TableInv, PairInv, ~Reuse, ProcessConnectRequest
    PROVE  PairInv' /\ LivingKept
<1> DEFINE c == Head(batch).conn
<1>1. TableInv' /\ c \in Connections
  BY ConnectStep, ConnectCases
<1>2. UNCHANGED <<up, gone>> /\ UNCHANGED core /\ UNCHANGED routes /\ UNCHANGED <<pinged, queried>>
  BY DEF ProcessConnectRequest
<1>3. \A m : Sent(m)' => Sent(m)
  BY InvParts, HandledWasSent DEF ProcessConnectRequest, Takes
<1>4. GoodbyeIsLast'
  BY <1>2, <1>3, GoodbyeFrames
<1>5. \A id \in Ids, d \in Connections : /\ MessagePair(id, d)' => MessagePair(id, d)
                                         /\ RoutePair(id, d)' => RoutePair(id, d)
                                         /\ CorePair(id, d)' => CorePair(id, d)
  BY <1>2, <1>3, PairFrames DEF MessagePair
<1>6. CASE UNCHANGED <<client, reach, allocated, drawn, mine>>
  <2>1. NoNewPair
    BY <1>5, <1>6, PairFrames DEF NoNewPair, Pairs
  <2>2. LivingKept
    BY <1>2, <1>6, LivingFrames
  <2> QED BY <1>1, <1>4, <1>6, <2>1, <2>2, PairsPersist
<1>7. ASSUME Reminded(c) PROVE PairInv' /\ LivingKept
  <2>1. PICK known \in Ids :
           /\ client[known].conn = c /\ Via[c] \in up \ Forwarding
           /\ \/ UNCHANGED <<client, reach, allocated>> /\ Learns(known, c)
              \/ c \in gone /\ Dropped(known) /\ UNCHANGED mine
    BY <1>7 DEF Reminded, Learns
  <2>2. Pairs(known, c)
    BY <2>1 DEF Pairs, TablePair
  <2>3. CASE UNCHANGED <<client, reach, allocated>> /\ Learns(known, c)
    <3>1. \A id \in Ids, d \in Connections : OwnPair(id, d)' => Pairs(id, d)
      BY <1>1, <2>2, <2>3, InvParts DEF Learns, OwnPair, Pairs, PeerType
    <3>2. NoNewPair
      BY <1>5, <2>3, <3>1, PairFrames DEF NoNewPair, Pairs
    <3>3. LivingKept
      BY <1>2, <2>3, LivingFrames
    <3> QED BY <1>1, <1>4, <2>1, <2>3, <3>2, <3>3, PairsPersist
  <2>4. CASE c \in gone /\ Dropped(known) /\ UNCHANGED mine
    <3>1. PICK F : Shrunk(F) /\ Keeps(F, {}) /\ SetTables(F)
      BY <2>2, <2>4, RemovalKeepsLiving DEF Dropped
    <3>2. \A id \in Ids, d \in Connections : TablePair(id, d)' => TablePair(id, d)
      BY <3>1, RouterAssumption DEF Shrunk, SetTables, TablePair
    <3>3. NoNewPair
      BY <1>5, <2>4, <3>2, PairFrames DEF NoNewPair, Pairs
    <3>4. LivingKept
      BY <1>2, <3>1, LivingFrames
    <3> QED BY <1>1, <1>4, <2>4, <3>3, <3>4, PairsPersist
  <2> QED BY <2>1, <2>3, <2>4
<1>8. ASSUME Welcomed(c) PROVE PairInv' /\ LivingKept
  <2>1. PICK id \in FreshIds, F \in TableSet :
           /\ Via[c] \in up \ Forwarding /\ \A i \in Ids : client[i].conn # c
           /\ NewTables(F, id, c) /\ SetTables(F)
           /\ UNCHANGED mine \/ Learns(id, c)
    BY <1>8 DEF Welcomed, Learns
  <2>2. id \in Ids /\ id \notin drawn \cup Foreign
    BY DEF FreshIds
  <2>3. client' = F.client
    BY <2>1 DEF SetTables
  <2>4. /\ \A i \in Ids \ {id} : client'[i].conn \in {client[i].conn, None}
        /\ \A i \in Ids \ {id} : client[i].conn \notin gone => client'[i].conn = client[i].conn
        /\ client'[id].conn \in {c, None}
    BY <2>1, <2>3 DEF NewTables
  <2>5. \A d \in Connections : ~Pairs(id, d)
    BY <2>2, InvParts DEF PairsAreDrawn
  <2>7. \A i \in Ids, d \in Connections : TablePair(i, d)' => TablePair(i, d) \/ (i = id /\ d = c)
    BY <2>4, RouterAssumption DEF TablePair
  <2>8. \A i \in Ids, d \in Connections : OwnPair(i, d)' => OwnPair(i, d) \/ (i = id /\ d = c)
    BY <1>1, <2>1, InvParts DEF OwnPair, Learns, PeerType
  <2>9. GrowsBy(id, c)
    BY <1>5, <2>7, <2>8 DEF GrowsBy, Pairs
  <2>10. LivingKept
    <3>1. client[id].conn \in Connections \cup {None}
      BY <2>2, InvParts DEF TableType, TableSet, Tables, Context
    <3>2. ~Known(id)
      BY <2>5, <3>1 DEF Pairs, TablePair, Known
    <3> QED BY <2>4, <3>2 DEF LivingKept
  <2> QED BY <1>1, <1>4, <2>1, <2>2, <2>5, <2>9, <2>10, PairsGrow
<1> QED BY <1>6, <1>7, <1>8, ConnectCases

-----------------------------------------------------------------------------
LEMMA InitPairs == Init => PairInv
<1> SUFFICES ASSUME Init PROVE PairInv
  OBVIOUS
<1>1. NoClient.conn = None
  BY DEF NoClient
<1>2. \A m : ~Sent(m)
  BY DEF Init, Sent
<1>3. \A id \in Ids, c \in Connections : ~Pairs(id, c)
  BY <1>1, <1>2, RouterAssumption DEF Init, Pairs, TablePair, OwnPair, RoutePair, MessagePair, CorePair, IdleCore, IdleThread
<1>5. GoodbyeIsLast
  BY <1>2 DEF Init, GoodbyeIsLast, IdleCore
<1> QED BY <1>3, <1>5 DEF PairInv, OneConnection, ForeignIsKnown

LEMMA NextPairs == ASSUME ~Reuse, TableInv, PairInv, [Next]_vars PROVE PairInv' /\ LivingKept
<1>1. CASE Next
  BY <1>1, ClientPairs, AppearPairs, SteadyPairs, RemovalPairs, RemoveTransportPairs, UpdatePairs,
     MessagePairs, ConnectPairs DEF Next, CoreStep
<1>2. CASE UNCHANGED vars
  <2>1. UNCHANGED tables /\ UNCHANGED inbox /\ UNCHANGED core /\ UNCHANGED routes /\ UNCHANGED peers
    BY <1>2 DEF vars
  <2>2. NoNewPair
    BY <2>1, PairFrames DEF NoNewPair, Pairs, tables, peers
  <2>3. LivingKept /\ UNCHANGED mine
    BY <2>1, LivingFrames DEF tables, peers
  <2>4. GoodbyeIsLast'
    BY <2>1, GoodbyeFrames DEF inbox, Sent, peers
  <2> QED BY <2>2, <2>3, <2>4, NextTables, PairsPersist
<1> QED BY <1>1, <1>2

LEMMA PairInvHolds == ASSUME ~Reuse PROVE Spec => [](TableInv /\ PairInv)
<1>1. TableInv /\ PairInv /\ [Next]_vars => (TableInv /\ PairInv)'
  BY NextTables, NextPairs
<1> QED BY <1>1, InitTables, InitPairs, PTL DEF Spec

(***************************************************************************)
(* A client that runs is not removed by what happens to others: by a stale *)
(* entry of a routing cache, a broadcast that fails, a goodbye or a query  *)
(* that is late, but only when it leaves pings unanswered or its transport *)
(* is removed.  It rests on no assumption on who answers, only on ids not  *)
(* being drawn twice.                                                      *)
(***************************************************************************)
THEOREM LiveClientsAreKept == ASSUME ~Reuse PROVE Spec => LiveClientIsKept
<1> DEFINE A == \A id \in Ids :
                  Known(id) /\ client[id].conn \notin gone /\ client'[id].conn # client[id].conn
                      => Expired(id) \/ Via[client[id].conn] \notin up'
<1>1. TableInv /\ PairInv /\ [Next]_vars => [A]_vars
  BY NextPairs DEF LivingKept
<1>2. Spec => [][A]_vars
  BY <1>1, PairInvHolds, PTL DEF Spec
<1> QED BY <1>2 DEF LiveClientIsKept

=============================================================================
