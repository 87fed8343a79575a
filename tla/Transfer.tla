------------------------------ MODULE Transfer ------------------------------
(***************************************************************************)
(* Bulk transfers over sessions: the blocks of a TransferManager, the      *)
(* TransferServer with one TransferSession per session, and the            *)
(* TransferClients that pull a closed block or push data into an open one. *)
(*                                                                         *)
(* The message thread updates the sessions of the server one message at a  *)
(* time.  A client call that sends or waits is several steps.  A session   *)
(* is a FIFO in each direction that accepts Window messages (see Session); *)
(* the CRC of some data is the data itself.                                *)
(***************************************************************************)
EXTENDS Naturals, Sequences, FiniteSets, SequencesExt

CONSTANTS
    Clients, Blocks, Ids, None,
    kInvalidBlockId,
    Chunk,               \* kMaxTransferDataChunkSize
    Window,              \* messages a session accepts before it is read
    Width,               \* 2^32: what the size of a request wraps at
    LocalSizes,          \* sizes of the blocks the application fills itself
    PushSizes,           \* sizes a client asks to push
    Pushers, Pullers,    \* the clients that push, and the ones that pull
    MaxRequests,         \* bound on the requests of one client
    MaxData,             \* bound on the data of one transfer
    Refactored,          \* the session version is TRANSFER_REFACTOR_VERSION or later
    Aborts,              \* clients abort pulls
    Overruns,            \* the application writes more than it asked for
    TimeOuts,            \* a client may give up waiting
    AnyId                \* the random generator may repeat an id

ASSUME TransferAssumption ==
    /\ IsFiniteSet(Clients)
    /\ Chunk \in Nat \ {0} /\ Window \in Nat \ {0} /\ Width \in Nat \ {0}
    /\ MaxRequests \in Nat /\ MaxData \in Nat
    /\ LocalSizes \subseteq 0..MaxData /\ PushSizes \subseteq Nat \ {0}
    /\ Pushers \subseteq Clients /\ Pullers \subseteq Clients
    /\ kInvalidBlockId \notin Ids /\ None \notin Blocks \cup Ids \cup {kInvalidBlockId}
    /\ \A flag \in {Refactored, Aborts, Overruns, TimeOuts, AnyId} : flag \in BOOLEAN

VARIABLES
    block,      \* the ServerBlock objects
    table,      \* m_registeredServerBlocks: the block registered for an id
    link,       \* the session of each client: "down", "up" or "closing"
    toServer, toClient,
    sess,       \* the TransferSession of each client's session
    ctx,        \* m_transferContext of each client
    call,       \* the call each client is in
    app         \* what the client's application has read, written and been told

vars == <<block, table, link, toServer, toClient, sess, ctx, call, app>>
wires == <<toServer, toClient>>
server == <<block, table, sess>>
client == <<ctx, call, app>>

Item == (Clients \cup {None}) \X (0..MaxData)
AllIds == Ids \cup {kInvalidBlockId}

NewMessage == [kind |-> "Status", type |-> "Pull", id |-> None, size |-> 0,
               data |-> <<>>, result |-> "Success", req |-> 0]
Status(result) == [NewMessage EXCEPT !.result = result]
Sentinel(result, crc) == [NewMessage EXCEPT !.kind = "Sentinel", !.result = result, !.data = crc]
Request(type, id, size) ==
    [NewMessage EXCEPT !.kind = "Request", !.type = type, !.id = id, !.size = size]

\* A block that OpenServerBlock has not created, and the state it creates.
NoBlock == [live |-> FALSE, id |-> None, closed |-> FALSE, data |-> <<>>, pending |-> 0, completed |-> TRUE]
NewSession == [st |-> "Idle", block |-> None, total |-> 0, done |-> 0, crc |-> <<>>,
               scratch |-> NewMessage, req |-> 0]
\* ResetState.
NewContext == [state |-> "Idle", type |-> "Pull", total |-> 0, crc |-> <<>>, chunk |-> <<>>]
NoCall == [pc |-> "none", room |-> 0, data |-> <<>>]
NewApp == [req |-> 0, op |-> "none", size |-> 0, data |-> <<>>, expect |-> <<>>, outcome |-> "none"]

Results == {"Success", "Error", "Aborted", "InsufficientMemory"}
Calls == {"none", "pullReply", "reading", "sentinel", "pushReply", "writing", "closeReply", "aborting"}

TypeOK ==
    /\ \A b \in Blocks :
          /\ block[b].live \in BOOLEAN /\ block[b].id \in AllIds \cup {None}
          /\ block[b].closed \in BOOLEAN /\ block[b].completed \in BOOLEAN
          /\ block[b].data \in Seq(Item) /\ block[b].pending \in Nat
    /\ table \in [AllIds -> Blocks \cup {None}]
    /\ link \in [Clients -> {"down", "up", "closing"}]
    /\ \A c \in Clients :
          /\ Len(toServer[c]) <= Window /\ Len(toClient[c]) <= Window
          /\ \A m \in Range(toServer[c]) \cup Range(toClient[c]) :
                /\ m.kind \in {"Request", "Header", "Chunk", "Sentinel", "Status"}
                /\ m.result \in Results /\ m.data \in Seq(Item) /\ m.req \in 0..MaxRequests
          /\ sess[c].st \in {"Idle", "StartPull", "Pull", "StartPush", "Push", "SendPayload"}
          /\ sess[c].block \in Blocks \cup {None}
          /\ sess[c].done <= sess[c].total \/ sess[c].st \notin {"Pull", "Push"}
          /\ ctx[c].state \in {"Idle", "TransferInProgress", "Error"}
          /\ ctx[c].type \in {"Pull", "Push"} /\ ctx[c].total \in Nat
          /\ call[c].pc \in Calls
          /\ app[c].outcome \in {"none", "read", "stored", "failed"}

Init ==
    /\ block = [b \in Blocks |-> NoBlock]
    /\ table = [id \in AllIds |-> None]
    /\ link = [c \in Clients |-> "down"]
    /\ toServer = [c \in Clients |-> <<>>] /\ toClient = [c \in Clients |-> <<>>]
    /\ sess = [c \in Clients |-> NewSession]
    /\ ctx = [c \in Clients |-> NewContext]
    /\ call = [c \in Clients |-> NoCall]
    /\ app = [c \in Clients |-> NewApp]

-----------------------------------------------------------------------------
(***************************************************************************)
(* TransferManager and ServerBlock.                                        *)
(***************************************************************************)
\* The loop of OpenServerBlock ends with any id that is not at once invalid
\* and registered; a registered one is not replaced.
OpenServerBlock(b) ==
    /\ ~block[b].live /\ \A c \in Clients : sess[c].block # b
    /\ \E id \in IF AnyId THEN AllIds ELSE {i \in Ids : table[i] = None} :
          /\ block' = [block EXCEPT ![b] = [NoBlock EXCEPT !.live = TRUE, !.id = id]]
          /\ table' = IF table[id] = None THEN [table EXCEPT ![id] = b] ELSE table
    /\ UNCHANGED <<link, wires, sess, client>>

\* The application fills a block of its own and closes it.
WriteAndClose(b) ==
    /\ block[b].live /\ ~block[b].closed /\ block[b].data = <<>> /\ block[b].pending = 0
    /\ \E n \in LocalSizes :
          block' = [block EXCEPT ![b].closed = TRUE,
                                 ![b].data = [i \in 1..n |-> <<None, i>>]]
    /\ UNCHANGED <<table, link, wires, sess, client>>

\* The entry of the id goes; a transfer keeps the block itself.
CloseServerBlock(b) ==
    /\ block[b].live
    /\ block' = [block EXCEPT ![b].live = FALSE]
    /\ table' = [table EXCEPT ![block[b].id] = None]
    /\ UNCHANGED <<link, wires, sess, client>>

BeginTransfer(B) == [B EXCEPT !.pending = @ + 1, !.completed = IF B.pending = 0 THEN FALSE ELSE @]
\* Changed: the event is signaled by every transfer that ends.
EndTransferSignals(B) == [B EXCEPT !.pending = @ - 1, !.completed = TRUE]

EndTransfer(B) == [B EXCEPT !.pending = @ - 1, !.completed = IF B.pending = 1 THEN TRUE ELSE @]

\* Reset.
Reset(B) == [B EXCEPT !.closed = FALSE, !.data = <<>>]

\* The transfer of a session ends, if it has one.
Ended(s) == IF s.block = None THEN block ELSE [block EXCEPT ![s.block] = EndTransfer(@)]

-----------------------------------------------------------------------------
(***************************************************************************)
(* TransferSession::UpdateSession, by state.                               *)
(***************************************************************************)
Serving(c, st) == link[c] = "up" /\ sess[c].st = st
Space(c) == Len(toClient[c]) < Window
Send(c, s, m) == toClient' = [toClient EXCEPT ![c] = Append(@, [m EXCEPT !.req = s.req])]

\* Changed: a payload that cannot be sent at once is dropped.
SendScratchOrDrop(c, s, m) ==
    /\ IF Space(c) THEN Send(c, s, m) ELSE UNCHANGED toClient
    /\ sess' = [sess EXCEPT ![c] = [s EXCEPT !.st = "Idle", !.scratch = m]]

\* SendScratchPayloadAndMoveToIdle, of a session that has become s.
SendScratch(c, s, m) ==
    IF Space(c)
    THEN Send(c, s, m) /\ sess' = [sess EXCEPT ![c] = [s EXCEPT !.st = "Idle", !.scratch = m]]
    ELSE sess' = [sess EXCEPT ![c] = [s EXCEPT !.st = "SendPayload", !.scratch = m]] /\ UNCHANGED toClient

\* SendSentinel.
SendSentinel(c, s, result, crc) ==
    /\ block' = Ended(s)
    /\ SendScratch(c, [s EXCEPT !.block = None], Sentinel(result, crc))

\* CancelTransfer.
CancelTransfer(c, s, result) ==
    /\ block' = IF s.block = None THEN block ELSE [block EXCEPT ![s.block] = EndTransfer(Reset(@))]
    /\ SendScratch(c, [s EXCEPT !.block = None], Status(result))

Receive(c, st) == Serving(c, st) /\ toServer[c] # <<>> /\ toServer' = [toServer EXCEPT ![c] = Tail(@)]
Received(c) == Head(toServer[c])

\* ProcessPayload: a request.  A size of zero is refused after the transfer
\* has begun.
ProcessRequest(c) ==
    /\ Receive(c, "Idle") /\ Received(c).kind = "Request"
    /\ LET m == Received(c)
           b == table[m.id]
           s == [sess[c] EXCEPT !.req = m.req]
           begun == [s EXCEPT !.block = b, !.done = 0]
           available == b # None /\ block[b].closed = (m.type = "Pull")
       IN  IF ~available THEN SendScratch(c, s, Status("Error")) /\ UNCHANGED <<block, app>>
           ELSE /\ block' = [block EXCEPT ![b] = BeginTransfer(@)]
                /\ CASE m.type = "Pull" ->
                          /\ sess' = [sess EXCEPT ![c] =
                                [begun EXCEPT !.st = "StartPull", !.total = Len(block[b].data),
                                              !.crc = block[b].data,
                                              !.scratch = [NewMessage EXCEPT !.kind = "Header",
                                                                             !.size = Len(block[b].data)]]]
                          /\ app' = [app EXCEPT ![c].expect = block[b].data]
                          /\ UNCHANGED toClient
                     [] m.type = "Push" /\ m.size > 0 ->
                          /\ sess' = [sess EXCEPT ![c] =
                                [begun EXCEPT !.st = "StartPush", !.total = m.size, !.crc = <<>>,
                                              !.scratch = Status("Success")]]
                          /\ UNCHANGED <<toClient, app>>
                     [] OTHER -> SendScratch(c, [begun EXCEPT !.total = 0], Status("Error")) /\ UNCHANGED app
    /\ UNCHANGED <<table, link, ctx, call>>

\* ProcessPayload: an abort that comes after the last data was sent.
ProcessLateAbort(c) ==
    /\ Receive(c, "Idle") /\ Received(c).kind = "Status"
    /\ SendSentinel(c, [sess[c] EXCEPT !.req = Received(c).req], "Aborted", <<>>)
    /\ UNCHANGED <<table, link, client>>

\* ProcessPayload: DD_UNREACHABLE, and nothing else.
ProcessUnreachable(c) ==
    /\ Receive(c, "Idle") /\ Received(c).kind \notin {"Request", "Status"}
    /\ UNCHANGED <<server, toClient, link, client>>

\* SendPullTransferHeader, StartPushTransferSession.
Start(c) ==
    /\ Serving(c, "StartPull") \/ Serving(c, "StartPush")
    /\ Space(c)
    /\ Send(c, sess[c], sess[c].scratch)
    /\ sess' = [sess EXCEPT ![c].st = IF @ = "StartPull" THEN "Pull" ELSE "Push"]
    /\ UNCHANGED <<block, table, toServer, link, client>>

\* The next n of the data of a pull.  Another session may have reset the block:
\* beyond its data is what was there before, or something else.
Bytes(s, n, kept) ==
    LET data == block[s.block].data
        old == IF kept THEN s.crc ELSE [i \in 1..Len(s.crc) |-> <<None, 0>>]
    IN  [i \in 1..n |-> IF s.done + i <= Len(data) THEN data[s.done + i] ELSE old[s.done + i]]

\* ProcessPullSession without a message: a chunk, or the sentinel.
SendChunk(c) ==
    /\ Serving(c, "Pull") /\ toServer[c] = <<>>
    /\ LET s == sess[c]
           n == IF s.total - s.done < Chunk THEN s.total - s.done ELSE Chunk
       IN  IF s.done < s.total
           THEN /\ Space(c)
                /\ \E kept \in BOOLEAN :
                      Send(c, s, [NewMessage EXCEPT !.kind = "Chunk", !.data = Bytes(s, n, kept)])
                /\ sess' = [sess EXCEPT ![c].done = @ + n]
                /\ UNCHANGED block
           ELSE SendSentinel(c, s, "Success", s.crc)
    /\ UNCHANGED <<table, toServer, link, client>>

\* ProcessPullSession with a message: an abort, or what is answered as an error.
StopPull(c) ==
    /\ Receive(c, "Pull")
    /\ SendSentinel(c, sess[c], IF Received(c).kind = "Status" THEN "Aborted" ELSE "Error", <<>>)
    /\ UNCHANGED <<table, link, client>>

\* Changed: the CRC is not compared.
IntactByResult(m, B) == m.result = "Success"

\* The sentinel carries the CRC of what the client wrote, here that data itself.
Intact(m, B) == m.result = "Success" /\ m.data = B.data

\* ReceivePushTransferData, one message.
ReceivePush(c) ==
    /\ Receive(c, "Push")
    /\ LET m == Received(c)
           s == sess[c]
           B == block[s.block]
           n == IF Len(m.data) < s.total - s.done THEN Len(m.data) ELSE s.total - s.done
       IN  CASE m.kind = "Chunk" /\ s.done < s.total ->
                  /\ block' = [block EXCEPT ![s.block].data = @ \o SubSeq(m.data, 1, n)]
                  /\ sess' = [sess EXCEPT ![c].done = @ + n]
                  /\ UNCHANGED toClient
             [] m.kind = "Chunk" /\ s.done >= s.total -> CancelTransfer(c, s, "InsufficientMemory")
             [] m.kind = "Sentinel" /\ Intact(m, B) ->
                  /\ block' = [block EXCEPT ![s.block] = EndTransfer([B EXCEPT !.closed = TRUE])]
                  /\ SendScratch(c, [s EXCEPT !.block = None], Status("Success"))
             [] m.kind = "Sentinel" /\ ~Intact(m, B) ->
                  CancelTransfer(c, s, IF m.result = "Aborted" THEN "Aborted" ELSE "Error")
             [] OTHER -> CancelTransfer(c, s, "Error")
    /\ UNCHANGED <<table, link, client>>

\* A payload that did not fit in the window before.
SendPayload(c) ==
    /\ Serving(c, "SendPayload")
    /\ Space(c)
    /\ SendScratch(c, sess[c], sess[c].scratch)
    /\ UNCHANGED <<block, table, toServer, link, client>>

UpdateSession(c) ==
    \/ ProcessRequest(c) \/ ProcessLateAbort(c) \/ ProcessUnreachable(c)
    \/ Start(c) \/ SendChunk(c) \/ StopPull(c) \/ ReceivePush(c) \/ SendPayload(c)

\* Changed: the destructor leaves the count of the block alone.
SessionTerminatedKeepsCount(c) ==
    /\ link[c] = "closing"
    /\ link' = [link EXCEPT ![c] = "down"]
    /\ sess' = [sess EXCEPT ![c] = NewSession]
    /\ toServer' = [toServer EXCEPT ![c] = <<>>] /\ toClient' = [toClient EXCEPT ![c] = <<>>]
    /\ UNCHANGED <<block, table, client>>

\* SessionTerminated and ~TransferSession.
SessionTerminated(c) ==
    /\ link[c] = "closing"
    /\ link' = [link EXCEPT ![c] = "down"]
    /\ block' = Ended(sess[c])
    /\ sess' = [sess EXCEPT ![c] = NewSession]
    /\ toServer' = [toServer EXCEPT ![c] = <<>>] /\ toClient' = [toClient EXCEPT ![c] = <<>>]
    /\ UNCHANGED <<table, client>>

-----------------------------------------------------------------------------
(***************************************************************************)
(* TransferClient.                                                         *)
(***************************************************************************)
Free(c) == link[c] = "up" /\ call[c].pc = "none"
Writable(c) == Len(toServer[c]) < Window
Write(c, m) == toServer' = [toServer EXCEPT ![c] = Append(@, m)]
Waits(c, pc) == link[c] = "up" /\ call[c].pc = pc
Read(c, pc) == Waits(c, pc) /\ toClient[c] # <<>> /\ toClient' = [toClient EXCEPT ![c] = Tail(@)]
Answer(c) == Head(toClient[c])
Enter(c, pc) == call' = [call EXCEPT ![c].pc = pc]
Return(c) == call' = [call EXCEPT ![c] = NoCall]
Told(c, outcome) == app' = [app EXCEPT ![c].outcome = outcome]

Connect(c) ==
    /\ link[c] = "down" /\ app[c].req < MaxRequests
    /\ link' = [link EXCEPT ![c] = "up"]
    /\ UNCHANGED <<server, wires, client>>

\* Disconnect, or the end of the client, at any point of a call.
Disconnect(c) ==
    /\ link[c] = "up"
    /\ link' = [link EXCEPT ![c] = "closing"]
    /\ ctx' = [ctx EXCEPT ![c] = NewContext]
    /\ Return(c)
    /\ UNCHANGED <<server, wires, app>>

Ask(c, type, id, size, pc) ==
    /\ Free(c) /\ ctx[c].state = "Idle" /\ app[c].req < MaxRequests /\ Writable(c)
    /\ Write(c, [Request(type, id, size) EXCEPT !.req = app[c].req + 1])
    /\ app' = [app EXCEPT ![c] = [NewApp EXCEPT !.req = app[c].req + 1, !.op = type, !.size = size]]
    /\ Enter(c, pc)
    /\ UNCHANGED <<server, toClient, link, ctx>>

RequestPullTransfer(c, id) == c \in Pullers /\ Ask(c, "Pull", id, 0, "pullReply")

\* A header that is not refused starts the transfer; only the older version
\* notes that it is a pull.
PullAnswered(c) ==
    /\ Read(c, "pullReply")
    /\ LET m == Answer(c)
           started == [NewContext EXCEPT !.state = "TransferInProgress", !.total = m.size,
                                         !.type = IF Refactored THEN ctx[c].type ELSE "Pull"]
       IN  IF m.kind = "Header" THEN ctx' = [ctx EXCEPT ![c] = started] /\ UNCHANGED app
           ELSE ctx' = [ctx EXCEPT ![c].state = "Error"] /\ Told(c, "failed")
    /\ Return(c)
    /\ UNCHANGED <<server, toServer, link>>

\* ReadPullTransferData with room for some data.
BeginRead(c, room) ==
    /\ Free(c) /\ ctx[c].state = "TransferInProgress" /\ app[c].op = "Pull"
    /\ IF ctx[c].total = 0 /\ ctx[c].chunk = <<>>
       THEN /\ ctx' = [ctx EXCEPT ![c].state = "Idle"]
            /\ Told(c, "read")
            /\ UNCHANGED call
       ELSE call' = [call EXCEPT ![c] = [NoCall EXCEPT !.pc = "reading", !.room = room]] /\ UNCHANGED <<ctx, app>>
    /\ UNCHANGED <<server, wires, link>>

\* Changed: what does not fit in the caller's buffer is lost.
CopyOutDropsRest(c) ==
    /\ Waits(c, "reading") /\ ctx[c].chunk # <<>>
    /\ LET n == IF Len(ctx[c].chunk) < call[c].room THEN Len(ctx[c].chunk) ELSE call[c].room
           over == ctx[c].total = 0
       IN  /\ app' = [app EXCEPT ![c].data = @ \o SubSeq(ctx[c].chunk, 1, n),
                                 ![c].outcome = IF over THEN "read" ELSE @]
           /\ ctx' = [ctx EXCEPT ![c].chunk = <<>>, ![c].state = IF over THEN "Idle" ELSE @]
           /\ IF over \/ n = call[c].room THEN Return(c) ELSE call' = [call EXCEPT ![c].room = @ - n]
    /\ UNCHANGED <<server, wires, link>>

\* Data of the current chunk is copied to the caller; the last of it ends
\* the transfer.
CopyOut(c) ==
    /\ Waits(c, "reading") /\ ctx[c].chunk # <<>>
    /\ LET x == ctx[c]
           n == IF Len(x.chunk) < call[c].room THEN Len(x.chunk) ELSE call[c].room
           over == x.total = 0 /\ n = Len(x.chunk)
       IN  /\ app' = [app EXCEPT ![c].data = @ \o SubSeq(x.chunk, 1, n),
                                 ![c].outcome = IF over THEN "read" ELSE @]
           /\ ctx' = [ctx EXCEPT ![c].chunk = SubSeq(@, n + 1, Len(@)),
                                 ![c].state = IF over THEN "Idle" ELSE @]
           /\ IF over \/ n = call[c].room THEN Return(c) ELSE call' = [call EXCEPT ![c].room = @ - n]
    /\ UNCHANGED <<server, wires, link>>

\* The next chunk is fetched; what exceeds the transfer is ignored.
Fetch(c) ==
    /\ ctx[c].chunk = <<>>
    /\ Read(c, "reading")
    /\ LET m == Answer(c)
           n == IF Len(m.data) < ctx[c].total THEN Len(m.data) ELSE ctx[c].total
           data == SubSeq(m.data, 1, n)
       IN  IF m.kind = "Chunk"
           THEN /\ ctx' = [ctx EXCEPT ![c].chunk = data, ![c].total = @ - n, ![c].crc = @ \o data]
                /\ IF n = ctx[c].total THEN Enter(c, "sentinel") ELSE UNCHANGED call
                /\ UNCHANGED app
           ELSE ctx' = [ctx EXCEPT ![c].state = "Error"] /\ Return(c) /\ Told(c, "failed")
    /\ UNCHANGED <<server, toServer, link>>

\* The sentinel after the last chunk.
CheckSentinel(c) ==
    /\ Read(c, "sentinel")
    /\ LET m == Answer(c)
           good == /\ m.kind = "Sentinel" /\ m.result = "Success"
                   /\ Refactored => m.data = ctx[c].crc
       IN  IF good THEN Enter(c, "reading") /\ UNCHANGED <<ctx, app>>
           ELSE ctx' = [ctx EXCEPT ![c].state = "Error"] /\ Return(c) /\ Told(c, "failed")
    /\ UNCHANGED <<server, toServer, link>>

\* AbortPullTransfer.
AbortPullTransfer(c) ==
    /\ Aborts /\ Free(c) /\ ctx[c].state = "TransferInProgress" /\ app[c].op = "Pull"
    /\ IF ctx[c].type = "Pull"
       THEN /\ Writable(c)
            /\ Write(c, [Status("Aborted") EXCEPT !.req = app[c].req])
            /\ Enter(c, "aborting")
            /\ UNCHANGED <<ctx, app>>
       ELSE ctx' = [ctx EXCEPT ![c].state = "Error"] /\ Told(c, "failed") /\ UNCHANGED <<toServer, call>>
    /\ UNCHANGED <<server, toClient, link>>

\* Everything up to the first sentinel is discarded.
Discard(c) ==
    /\ Read(c, "aborting")
    /\ IF Answer(c).kind = "Sentinel"
       THEN ctx' = [ctx EXCEPT ![c].state = "Idle"] /\ Return(c)
       ELSE UNCHANGED <<ctx, call>>
    /\ UNCHANGED <<server, toServer, link, app>>

\* The size is cut to 32 bits.
RequestPushTransfer(c, id, size) ==
    /\ c \in Pushers /\ Refactored
    /\ Ask(c, "Push", id, size % Width, "pushReply")

\* A refusal leaves the client idle.
PushAnswered(c) ==
    /\ Read(c, "pushReply")
    /\ IF Answer(c).kind = "Status" /\ Answer(c).result = "Success"
       THEN /\ ctx' = [ctx EXCEPT ![c] = [NewContext EXCEPT !.type = "Push", !.state = "TransferInProgress",
                                                            !.total = app[c].size]]
            /\ UNCHANGED app
       ELSE UNCHANGED ctx /\ Told(c, "failed")
    /\ Return(c)
    /\ UNCHANGED <<server, toServer, link>>

\* How much the application still means to write: what it asked for.
Unwritten(c) == {n \in 1..Chunk : Len(app[c].data) + n <= IF Overruns THEN MaxData ELSE app[c].size}

\* WritePushTransferData with one chunk; totalBytes is never reduced.
WritePushTransferData(c, n) ==
    /\ Free(c) /\ ctx[c].state = "TransferInProgress" /\ ctx[c].type = "Push" /\ app[c].op = "Push"
    /\ n \in Unwritten(c)
    /\ LET data == [i \in 1..n |-> <<c, Len(app[c].data) + i>>] IN
       /\ app' = [app EXCEPT ![c].data = @ \o data]
       /\ ctx' = [ctx EXCEPT ![c].crc = @ \o data]
       /\ call' = [call EXCEPT ![c] = [NoCall EXCEPT !.pc = "writing", !.data = data]]
    /\ UNCHANGED <<server, wires, link>>

ChunkSent(c) ==
    /\ Waits(c, "writing") /\ Writable(c)
    /\ Write(c, [NewMessage EXCEPT !.kind = "Chunk", !.data = call[c].data, !.req = app[c].req])
    /\ Return(c)
    /\ UNCHANGED <<server, toClient, link, ctx, app>>

\* Every try was NotReady: the loop takes the chunk again, and its CRC.
ChunkNotReady(c) ==
    /\ TimeOuts /\ Waits(c, "writing") /\ ~Writable(c)
    /\ Len(ctx[c].crc) < MaxData
    /\ ctx' = [ctx EXCEPT ![c].crc = @ \o call[c].data]
    /\ UNCHANGED <<server, wires, link, call, app>>

\* ClosePushTransfer.
ClosePushTransfer(c, discard) ==
    /\ Free(c) /\ ctx[c].state = "TransferInProgress" /\ ctx[c].type = "Push" /\ app[c].op = "Push"
    /\ Writable(c)
    /\ Write(c, [Sentinel(IF discard THEN "Aborted" ELSE "Success", ctx[c].crc) EXCEPT !.req = app[c].req])
    /\ Enter(c, "closeReply")
    /\ UNCHANGED <<server, toClient, link, ctx, app>>

CloseAnswered(c) ==
    /\ Read(c, "closeReply")
    /\ LET m == Answer(c)
           closed == m.kind = "Status" /\ m.result \in {"Success", "Aborted"}
       IN  /\ ctx' = [ctx EXCEPT ![c].state = IF closed THEN "Idle" ELSE "Error"]
           /\ Told(c, IF closed /\ m.result = "Success" THEN "stored" ELSE "failed")
    /\ Return(c)
    /\ UNCHANGED <<server, toServer, link>>

\* No answer in time: a push request alone leaves the client idle.
GiveUp(c) ==
    /\ TimeOuts /\ link[c] = "up"
    /\ call[c].pc \in {"pullReply", "reading", "sentinel", "aborting", "pushReply", "closeReply"}
    /\ toClient[c] = <<>> /\ (call[c].pc = "reading" => ctx[c].chunk = <<>>)
    /\ ctx' = [ctx EXCEPT ![c].state = IF call[c].pc = "pushReply" THEN @ ELSE "Error"]
    /\ Return(c) /\ Told(c, "failed")
    /\ UNCHANGED <<server, wires, link>>

ClientStep(c) ==
    \/ PullAnswered(c) \/ CopyOut(c) \/ Fetch(c) \/ CheckSentinel(c) \/ Discard(c)
    \/ PushAnswered(c) \/ ChunkSent(c) \/ CloseAnswered(c)

Next ==
    \/ \E b \in Blocks : OpenServerBlock(b) \/ WriteAndClose(b) \/ CloseServerBlock(b)
    \/ \E c \in Clients :
          \/ UpdateSession(c) \/ SessionTerminated(c)
          \/ ClientStep(c) \/ ChunkNotReady(c) \/ GiveUp(c)
          \/ Connect(c) \/ Disconnect(c) \/ AbortPullTransfer(c)
          \/ \E room \in {1, Chunk + 1} : BeginRead(c, room)
          \/ \E n \in 1..Chunk : WritePushTransferData(c, n)
          \/ \E discard \in BOOLEAN : ClosePushTransfer(c, discard)
          \/ \E id \in Ids :
                \/ RequestPullTransfer(c, id)
                \/ \E size \in PushSizes : RequestPushTransfer(c, id, size)

(***************************************************************************)
(* The message thread updates every session, and a client that is inside a *)
(* call goes on with it.                                                   *)
(***************************************************************************)
Fairness ==
    \A c \in Clients :
        /\ WF_vars(UpdateSession(c)) /\ WF_vars(SessionTerminated(c))
        /\ WF_vars(ClientStep(c))

Spec == Init /\ [][Next]_vars /\ Fairness

-----------------------------------------------------------------------------
(***************************************************************************)
(* The count of a block is the number of sessions that transfer it, and    *)
(* its event is signaled exactly when there is none: "notify the block     *)
(* that the transfer is now ending so we don't throw off the internal      *)
(* counter".                                                               *)
(***************************************************************************)
PendingIsExact ==
    \A b \in Blocks :
        /\ block[b].pending = Cardinality({c \in Clients : sess[c].block = b})
        /\ block[b].completed <=> block[b].pending = 0

(***************************************************************************)
(* What a client has read when ReadPullTransferData returns EndOfStream is *)
(* the data the block had when the transfer was accepted.                  *)
(***************************************************************************)
PulledIsBlock ==
    \A c \in Clients : app[c].outcome = "read" => app[c].data = app[c].expect

(***************************************************************************)
(* When Finalize succeeds, the data of the application is in a block that  *)
(* is closed (or the block has been released since).                       *)
(***************************************************************************)
PushedIsStored ==
    [][\A c \in Clients :
          sess[c].st = "Push" /\ sess'[c].st # "Push" /\ sess'[c].scratch.result = "Success" /\ link'[c] = "up"
              => LET B == block'[sess[c].block] IN B.closed /\ B.data = app[c].data]_vars

(***************************************************************************)
(* Every call of a client returns, without the help of a timeout.          *)
(***************************************************************************)
CallsReturn == \A c \in Clients : call[c].pc # "none" ~> call[c].pc = "none"

(***************************************************************************)
(* WaitForPendingTransfers returns unless some client stays connected in   *)
(* the middle of its transfer: one that goes away, at any point, does not  *)
(* keep the block.                                                         *)
(***************************************************************************)
TransfersComplete ==
    \A b \in Blocks :
        block[b].pending > 0
            ~> \/ block[b].pending = 0
               \/ \E c \in Clients : link[c] = "up" /\ sess[c].block = b

(***************************************************************************)
(* The answer a client takes is the answer to its last request: "We've     *)
(* either reached the original sentinel that indicates the end of the      *)
(* transfer or we've received a sentinel in response to calling abort."    *)
(***************************************************************************)
AnswersCurrentRequest ==
    \A c \in Clients :
        call[c].pc \in {"pullReply", "pushReply"} /\ toClient[c] # <<>> => Answer(c).req = app[c].req

(***************************************************************************)
(* A session without a transfer receives a request or an abort; anything   *)
(* else is "Unreachable code".                                             *)
(***************************************************************************)
IdleGetsRequest ==
    \A c \in Clients :
        Serving(c, "Idle") /\ toServer[c] # <<>> => Received(c).kind \in {"Request", "Status"}

(***************************************************************************)
(* Data that arrived as the application wrote it is saved: Finalize tells  *)
(* "the server to save the data already transfered".                       *)
(***************************************************************************)
FinalizeSavesIntactData ==
    \A c \in Clients :
        Serving(c, "Push") /\ toServer[c] # <<>> /\ Received(c).kind = "Sentinel"
          /\ Received(c).result = "Success" /\ block[sess[c].block].data = app[c].data
            => Received(c).data = app[c].data

(***************************************************************************)
(* A closed block does not change: Close "exposes it to external clients   *)
(* and prevents further writes".                                           *)
(***************************************************************************)
ClosedIsFrozen ==
    [][\A b \in Blocks : block[b].live /\ block[b].closed /\ block'[b].live
          => block'[b].closed /\ block'[b].data = block[b].data]_vars

(***************************************************************************)
(* A pull that is in progress can be aborted: "Aborts a pull transfer in   *)
(* progress."                                                              *)
(***************************************************************************)
PullCanBeAborted ==
    \A c \in Clients :
        Free(c) /\ ctx[c].state = "TransferInProgress" /\ app[c].op = "Pull" => ctx[c].type = "Pull"

(***************************************************************************)
(* The block that is registered for the id of a block is that block: a     *)
(* block is "a binary blob of data associated with a unique id".           *)
(***************************************************************************)
IdsAreUnique == \A b \in Blocks : block[b].live => block[b].id # kInvalidBlockId /\ table[block[b].id] = b
=============================================================================
