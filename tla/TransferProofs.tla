--------------------------- MODULE TransferProofs ---------------------------
(***************************************************************************)
(* Bulk transfers, for any number of clients, blocks and requests, any     *)
(* window and chunk size, both versions of the protocol, timeouts, aborts, *)
(* disconnections and pushes that meet in one block: the count of a block  *)
(* covers the sessions that transfer it, and is their number unless a push *)
(* was asked for whose size is a multiple of Width; a client that reaches  *)
(* the end of a pull has read the block as it was when the pull began; and *)
(* a push that ends well has stored what its client wrote, when clients    *)
(* wait for their answers.                                                 *)
(***************************************************************************)
EXTENDS Transfer, FiniteSetTheorems, SequenceTheorems, TLAPS

Datum == (Clients \cup {None}) \X Nat
MessageType == [kind : {"Request", "Header", "Chunk", "Sentinel", "Status"}, type : {"Pull", "Push"},
                id : AllIds \cup {None}, size : Nat, data : Seq(Datum), result : Results, req : Nat]
BlockType == [live : BOOLEAN, id : AllIds \cup {None}, closed : BOOLEAN, data : Seq(Datum),
              pending : Nat, completed : BOOLEAN]
SessionType == [st : {"Idle", "StartPull", "Pull", "StartPush", "Push", "SendPayload"},
                block : Blocks \cup {None}, total : Nat, done : Nat, crc : Seq(Datum),
                scratch : MessageType, req : Nat]
ContextType == [state : {"Idle", "TransferInProgress", "Error"}, type : {"Pull", "Push"}, total : Nat,
                crc : Seq(Datum), chunk : Seq(Datum)]
CallType == [pc : Calls, room : Nat, data : Seq(Datum)]
AppType == [req : Nat, op : {"none", "Pull", "Push"}, size : Nat, data : Seq(Datum),
            expect : Seq(Datum), outcome : {"none", "read", "stored", "failed"}]

ServerTypes ==
    /\ block \in [Blocks -> BlockType]
    /\ table \in [AllIds -> Blocks \cup {None}]
    /\ sess \in [Clients -> SessionType]
WireTypes ==
    /\ link \in [Clients -> {"down", "up", "closing"}]
    /\ toServer \in [Clients -> Seq(MessageType)]
    /\ toClient \in [Clients -> Seq(MessageType)]
    /\ \A c \in Clients : \A i \in 1..Len(toServer[c]) :
          toServer[c][i].kind = "Request" => toServer[c][i].id \in AllIds
ClientTypes ==
    /\ ctx \in [Clients -> ContextType]
    /\ call \in [Clients -> CallType]
    /\ app \in [Clients -> AppType]

\* A session in the middle of a transfer has a block.
Transferring(s) ==
    /\ s.st \in {"StartPull", "Pull", "StartPush", "Push"} => s.block # None /\ s.done <= s.total
    /\ s.st \in {"StartPull", "Pull"} => s.total = Len(s.crc)

\* The sessions that transfer a block, and the count that covers them.
Users(b) == {c \in Clients : sess[c].block = b}
Covered(b) ==
    /\ block[b].pending >= Cardinality(Users(b))
    /\ block[b].completed <=> block[b].pending = 0

TInv ==
    /\ ServerTypes /\ WireTypes /\ ClientTypes
    /\ \A c \in Clients : Transferring(sess[c])
    /\ \A b \in Blocks : Covered(b)

-----------------------------------------------------------------------------
(***************************************************************************)
(* Messages and queues.                                                    *)
(***************************************************************************)
LEMMA EmptyData == <<>> \in Seq(Datum) /\ Len(<<>>) = 0
BY EmptySeq

LEMMA NewMessageType ==
  /\ NewMessage \in MessageType
  /\ NewMessage.kind = "Status" /\ NewMessage.result = "Success" /\ NewMessage.data = <<>>
BY EmptyData DEF NewMessage, MessageType, Results

LEMMA StatusType ==
  ASSUME NEW result \in Results
  PROVE  Status(result) \in MessageType /\ Status(result).kind = "Status" /\ Status(result).result = result
BY NewMessageType DEF Status, MessageType

LEMMA SentinelType ==
  ASSUME NEW result \in Results, NEW crc \in Seq(Datum)
  PROVE  /\ Sentinel(result, crc) \in MessageType
         /\ Sentinel(result, crc).kind = "Sentinel" /\ Sentinel(result, crc).result = result
         /\ Sentinel(result, crc).data = crc
BY NewMessageType DEF Sentinel, MessageType

LEMMA RequestType ==
  ASSUME NEW type \in {"Pull", "Push"}, NEW id \in AllIds, NEW size \in Nat
  PROVE  /\ Request(type, id, size) \in MessageType
         /\ Request(type, id, size).kind = "Request" /\ Request(type, id, size).type = type
         /\ Request(type, id, size).id = id /\ Request(type, id, size).size = size
BY NewMessageType DEF Request, MessageType

\* A message on its way carries the request it belongs to.
LEMMA StampedType ==
  ASSUME NEW m \in MessageType, NEW n \in Nat
  PROVE  /\ [m EXCEPT !.req = n] \in MessageType
         /\ [m EXCEPT !.req = n].kind = m.kind /\ [m EXCEPT !.req = n].type = m.type
         /\ [m EXCEPT !.req = n].id = m.id /\ [m EXCEPT !.req = n].size = m.size
         /\ [m EXCEPT !.req = n].data = m.data /\ [m EXCEPT !.req = n].result = m.result
         /\ [m EXCEPT !.req = n].req = n
BY DEF MessageType

LEMMA TailOf ==
  ASSUME NEW S, NEW q \in Seq(S), q # <<>>
  PROVE  /\ Tail(q) \in Seq(S) /\ Len(Tail(q)) = Len(q) - 1 /\ Len(q) \in Nat \ {0}
         /\ Head(q) = q[1] /\ q[1] \in S
         /\ \A i \in 1..Len(Tail(q)) : i + 1 \in 1..Len(q) /\ Tail(q)[i] = q[i + 1]
OBVIOUS

LEMMA AppendOf ==
  ASSUME NEW S, NEW q \in Seq(S), NEW m \in S
  PROVE  /\ Append(q, m) \in Seq(S) /\ Len(Append(q, m)) = Len(q) + 1 /\ Append(q, m)[Len(q) + 1] = m
         /\ \A i \in 1..Len(q) : Append(q, m)[i] = q[i]
OBVIOUS

LEMMA PrefixOf ==
  ASSUME NEW S, NEW q \in Seq(S), NEW n \in 0..Len(q)
  PROVE  SubSeq(q, 1, n) \in Seq(S) /\ Len(SubSeq(q, 1, n)) = n
OBVIOUS

-----------------------------------------------------------------------------
(***************************************************************************)
(* The count of a block follows the sessions that begin and end transfers: *)
(* what it exceeds their number by does not change, except when a session  *)
(* begins a transfer before it has ended the one it has.                   *)
(***************************************************************************)
Slack(b) == block[b].pending - Cardinality(Users(b))

LEMMA UsersFinite ==
  ASSUME NEW b
  PROVE  /\ IsFiniteSet(Users(b)) /\ Cardinality(Users(b)) \in Nat
         /\ IsFiniteSet(Users(b)') /\ Cardinality(Users(b)') \in Nat
BY TransferAssumption, FS_Subset, FS_CardinalityType DEF Users

LEMMA SlackType ==
  ASSUME ServerTypes, NEW b \in Blocks
  PROVE  block[b] \in BlockType /\ block[b].pending \in Nat /\ Slack(b) \in Int
<1>1. block[b] \in BlockType
  BY DEF ServerTypes
<1> QED BY <1>1, UsersFinite DEF BlockType, Slack

LEMMA UsersSame ==
  ASSUME ServerTypes, NEW c \in Clients, NEW t, sess' = [sess EXCEPT ![c] = t], NEW b,
         t.block = b <=> sess[c].block = b
  PROVE  Users(b)' = Users(b)
BY DEF Users, ServerTypes

LEMMA UsersLeave ==
  ASSUME ServerTypes, NEW c \in Clients, NEW t, sess' = [sess EXCEPT ![c] = t], NEW b,
         sess[c].block = b, t.block # b
  PROVE  Cardinality(Users(b)') = Cardinality(Users(b)) - 1 /\ Cardinality(Users(b)) >= 1
<1>1. c \in Users(b) /\ Users(b)' = Users(b) \ {c}
  BY DEF Users, ServerTypes
<1>2. Cardinality(Users(b) \ {c}) = Cardinality(Users(b)) - 1
  BY <1>1, UsersFinite, FS_RemoveElement
<1>3. Cardinality(Users(b)) \in Nat /\ Cardinality(Users(b)') \in Nat
  BY UsersFinite
<1>4. Cardinality(Users(b)') = Cardinality(Users(b)) - 1
  BY <1>1, <1>2
<1> HIDE DEF Users
<1> QED BY <1>3, <1>4

LEMMA UsersJoin ==
  ASSUME ServerTypes, NEW c \in Clients, NEW t, sess' = [sess EXCEPT ![c] = t], NEW b,
         sess[c].block # b, t.block = b
  PROVE  Cardinality(Users(b)') = Cardinality(Users(b)) + 1
<1>1. c \notin Users(b) /\ Users(b)' = Users(b) \cup {c}
  BY DEF Users, ServerTypes
<1> QED BY <1>1, UsersFinite, FS_AddElement

\* No transfer begins or ends.
LEMMA CountStays ==
  ASSUME TInv, NEW c \in Clients, NEW t, sess' = [sess EXCEPT ![c] = t], t.block = sess[c].block,
         NEW b \in Blocks, block'[b].pending = block[b].pending, block'[b].completed = block[b].completed
  PROVE  Covered(b)' /\ Slack(b)' = Slack(b)
<1>1. Users(b)' = Users(b)
  BY UsersSame DEF TInv
<1> QED BY <1>1 DEF TInv, Covered, Slack

\* The transfer of session c ends.
Ends(B, A) ==
    /\ A.pending = B.pending - 1
    /\ A.completed = IF B.pending = 1 THEN TRUE ELSE B.completed

LEMMA CountEnds ==
  ASSUME TInv, NEW c \in Clients, NEW t, sess' = [sess EXCEPT ![c] = t], t.block = None,
         NEW b \in Blocks,
         IF b = sess[c].block THEN Ends(block[b], block'[b])
                              ELSE block'[b].pending = block[b].pending /\ block'[b].completed = block[b].completed
  PROVE  /\ Covered(b)' /\ Slack(b)' = Slack(b)
         /\ block'[b].pending \in Nat /\ block'[b].completed \in BOOLEAN
<1>0. block[b] \in BlockType /\ block[b].pending \in Nat /\ block[b].completed \in BOOLEAN /\ b # None /\ Covered(b)
  BY SlackType, TransferAssumption DEF TInv, BlockType
<1>1. CASE b = sess[c].block
  <2>1. Cardinality(Users(b)') = Cardinality(Users(b)) - 1 /\ Cardinality(Users(b)) >= 1
    BY <1>0, <1>1, UsersLeave DEF TInv
  <2>2. block[b].pending >= 1
    BY <1>0, <2>1, UsersFinite DEF Covered
  <2>3. block'[b].pending = block[b].pending - 1
    BY <1>1 DEF Ends
  <2>4. block'[b].completed = IF block[b].pending = 1 THEN TRUE ELSE block[b].completed
    BY <1>1 DEF Ends
  <2>5. block'[b].completed \in BOOLEAN
    BY <1>0, <2>4
  <2>6. block'[b].pending = 0 <=> block[b].pending = 1
    BY <1>0, <2>3
  <2>7. block[b].completed <=> block[b].pending = 0
    BY <1>0 DEF Covered
  <2>8. ~block[b].completed
    BY <2>2, <2>7
  <2>9. block'[b].completed <=> block'[b].pending = 0
    BY <1>0, <2>4, <2>6, <2>8
  <2>10. Cardinality(Users(b)) \in Nat /\ Cardinality(Users(b)') \in Nat /\ block[b].pending >= Cardinality(Users(b))
    BY <1>0, UsersFinite DEF Covered
  <2> HIDE DEF Users
  <2>11. block'[b].pending >= Cardinality(Users(b)') /\ block'[b].pending \in Nat
    BY <1>0, <2>1, <2>2, <2>3, <2>10
  <2>12. block'[b].pending - Cardinality(Users(b)') = block[b].pending - Cardinality(Users(b))
    BY <1>0, <2>1, <2>3, <2>10
  <2> QED BY <2>5, <2>9, <2>11, <2>12 DEF Covered, Slack
<1>2. CASE b # sess[c].block
  <2>1. Users(b)' = Users(b)
    BY <1>0, <1>2, UsersSame DEF TInv
  <2> QED BY <1>0, <1>2, <2>1 DEF Covered, Slack
<1> QED BY <1>1, <1>2

\* Session c begins a transfer of block t.block.
Begins(B, A) ==
    /\ A.pending = B.pending + 1
    /\ A.completed = IF B.pending = 0 THEN FALSE ELSE B.completed

LEMMA CountBegins ==
  ASSUME TInv, NEW c \in Clients, NEW t, sess' = [sess EXCEPT ![c] = t], NEW b \in Blocks,
         IF b = t.block THEN Begins(block[b], block'[b])
                        ELSE block'[b].pending = block[b].pending /\ block'[b].completed = block[b].completed
  PROVE  /\ Covered(b)' /\ (sess[c].block = None => Slack(b)' = Slack(b))
         /\ block'[b].pending \in Nat /\ block'[b].completed \in BOOLEAN
<1>0. block[b] \in BlockType /\ block[b].pending \in Nat /\ block[b].completed \in BOOLEAN /\ b # None /\ Covered(b)
  BY SlackType, TransferAssumption DEF TInv, BlockType
<1>p. block'[b].pending \in Nat /\ block'[b].pending >= block[b].pending
  <2>1. CASE b = t.block
    <3>1. block'[b].pending = block[b].pending + 1
      BY <2>1 DEF Begins
    <3> QED BY <1>0, <3>1
  <2>2. CASE b # t.block
    BY <1>0, <2>2
  <2> QED BY <2>1, <2>2
<1>d. block[b].completed <=> block[b].pending = 0
  BY <1>0 DEF Covered
<1>a. block'[b].completed \in BOOLEAN /\ (block'[b].completed <=> block'[b].pending = 0)
  <2>1. CASE b = t.block /\ block[b].pending = 0
    <3>1. block'[b].pending # 0
      BY <1>0, <2>1 DEF Begins
    <3>2. block'[b].completed = FALSE
      BY ONLY <2>1, Begins(block[b], block'[b]), Zenon DEF Begins
    <3> QED BY <3>1, <3>2
  <2>2. CASE b = t.block /\ block[b].pending # 0
    <3>1. block'[b].pending # 0
      BY <1>0, <2>2 DEF Begins
    <3>2. block'[b].completed = block[b].completed
      BY <2>2 DEF Begins
    <3> QED BY <1>0, <1>d, <2>2, <3>1, <3>2
  <2>3. CASE b # t.block
    BY <1>0, <1>d, <2>3
  <2> QED BY <2>1, <2>2, <2>3
<1>e. Cardinality(Users(b)) \in Nat /\ Cardinality(Users(b)') \in Nat /\ block[b].pending >= Cardinality(Users(b))
  BY <1>0, UsersFinite DEF Covered
<1>1. CASE b = t.block
  <2>1. CASE sess[c].block = b
    <3>1. Users(b)' = Users(b)
      BY <1>1, <2>1, UsersSame DEF TInv
    <3>2. block'[b].pending >= Cardinality(Users(b)')
      BY <1>0, <1>p, <1>e, <3>1
    <3> QED BY <1>0, <1>a, <1>p, <2>1, <3>2 DEF Covered
  <2>2. CASE sess[c].block # b
    <3>1. Cardinality(Users(b)') = Cardinality(Users(b)) + 1
      BY <1>1, <2>2, UsersJoin DEF TInv
    <3>2. block'[b].pending = block[b].pending + 1
      BY <1>1 DEF Begins
    <3>3. block'[b].pending >= Cardinality(Users(b)')
      BY <1>0, <1>e, <3>1, <3>2
    <3>4. block'[b].pending - Cardinality(Users(b)') = block[b].pending - Cardinality(Users(b))
      BY <1>0, <1>e, <3>1, <3>2
    <3> QED BY <1>a, <1>p, <3>3, <3>4 DEF Covered, Slack
  <2> QED BY <2>1, <2>2
<1>2. CASE b # t.block
  <2>1. CASE sess[c].block = b
    <3>1. Cardinality(Users(b)') = Cardinality(Users(b)) - 1
      BY <1>2, <2>1, UsersLeave DEF TInv
    <3>2. block'[b].pending >= Cardinality(Users(b)')
      BY <1>0, <1>p, <1>e, <3>1
    <3> QED BY <1>0, <1>a, <1>p, <2>1, <3>2 DEF Covered
  <2>2. CASE sess[c].block # b
    <3>1. Users(b)' = Users(b)
      BY <1>2, <2>2, UsersSame DEF TInv
    <3> QED BY <1>0, <1>2, <3>1 DEF Covered, Slack
  <2> QED BY <2>1, <2>2
<1> QED BY <1>1, <1>2

-----------------------------------------------------------------------------
(***************************************************************************)
(* Types and counts: one lemma per action.                                 *)
(***************************************************************************)
Kept == \A b \in Blocks : Slack(b)' = Slack(b)

LEMMA Typed ==
  ASSUME TInv, NEW c \in Clients
  PROVE  /\ sess[c] \in SessionType /\ ctx[c] \in ContextType /\ call[c] \in CallType /\ app[c] \in AppType
         /\ toServer[c] \in Seq(MessageType) /\ toClient[c] \in Seq(MessageType)
         /\ sess[c].block \in Blocks \cup {None} /\ sess[c].crc \in Seq(Datum)
         /\ sess[c].scratch \in MessageType /\ sess[c].req \in Nat
         /\ sess[c].total \in Nat /\ sess[c].done \in Nat
         /\ ctx[c].crc \in Seq(Datum) /\ ctx[c].chunk \in Seq(Datum) /\ ctx[c].total \in Nat
         /\ call[c].room \in Nat /\ call[c].data \in Seq(Datum)
         /\ app[c].data \in Seq(Datum) /\ app[c].expect \in Seq(Datum) /\ app[c].req \in Nat /\ app[c].size \in Nat
<1>1. /\ sess[c] \in SessionType /\ ctx[c] \in ContextType /\ call[c] \in CallType /\ app[c] \in AppType
      /\ toServer[c] \in Seq(MessageType) /\ toClient[c] \in Seq(MessageType)
  BY DEF TInv, ServerTypes, WireTypes, ClientTypes
<1> QED BY <1>1 DEF SessionType, ContextType, CallType, AppType

LEMMA MessageFields ==
  ASSUME NEW m \in MessageType
  PROVE  m.size \in Nat /\ m.data \in Seq(Datum) /\ m.req \in Nat /\ m.result \in Results /\ m.type \in {"Pull", "Push"}
BY DEF MessageType

\* A step of a client, which leaves the server alone.
LEMMA ServerAlone ==
  ASSUME TInv, UNCHANGED server, WireTypes', ClientTypes'
  PROVE  TInv' /\ Kept
<1>1. block' = block /\ table' = table /\ sess' = sess
  BY DEF server
<1>2. ServerTypes' /\ \A c \in Clients : Transferring(sess[c])'
  BY <1>1 DEF TInv, ServerTypes, Transferring
<1>3. \A b \in Blocks : Users(b)' = Users(b)
  BY <1>1 DEF Users
<1>4. \A b \in Blocks : Covered(b)' /\ Slack(b)' = Slack(b)
  BY <1>1, <1>3 DEF TInv, Covered, Slack
<1> QED BY <1>2, <1>4 DEF TInv, Kept

\* A step of the server for session c, which leaves the clients alone but for
\* what is expected of them.
LEMMA SessionMoves ==
  ASSUME TInv, NEW c \in Clients, NEW t \in SessionType, sess' = [sess EXCEPT ![c] = t], Transferring(t),
         block' \in [Blocks -> BlockType], UNCHANGED table, WireTypes', ClientTypes',
         \A b \in Blocks : Covered(b)'
  PROVE  TInv'
<1>1. ServerTypes'
  BY DEF TInv, ServerTypes
<1>2. \A d \in Clients : Transferring(sess[d])'
  <2> SUFFICES ASSUME NEW d \in Clients PROVE Transferring(sess'[d])
    BY DEF Transferring
  <2>1. CASE d = c
    BY <2>1 DEF TInv, ServerTypes
  <2>2. CASE d # c
    <3>1. sess'[d] = sess[d]
      BY <2>2 DEF TInv, ServerTypes
    <3> QED BY <3>1 DEF TInv
  <2> QED BY <2>1, <2>2
<1> QED BY <1>1, <1>2 DEF TInv

LEMMA ReceivedTypes ==
  ASSUME TInv, NEW c \in Clients, toServer[c] # <<>>, toServer' = [toServer EXCEPT ![c] = Tail(@)],
         link' \in [Clients -> {"down", "up", "closing"}], toClient' \in [Clients -> Seq(MessageType)]
  PROVE  /\ WireTypes'
         /\ Received(c) \in MessageType /\ (Received(c).kind = "Request" => Received(c).id \in AllIds)
<1>1. toServer[c] \in Seq(MessageType) /\ toServer \in [Clients -> Seq(MessageType)]
  BY DEF TInv, WireTypes
<1>2. /\ Tail(toServer[c]) \in Seq(MessageType) /\ Received(c) = toServer[c][1] /\ Received(c) \in MessageType
      /\ 1 \in 1..Len(toServer[c])
      /\ \A i \in 1..Len(Tail(toServer[c])) : i + 1 \in 1..Len(toServer[c]) /\ Tail(toServer[c])[i] = toServer[c][i + 1]
  BY <1>1, TailOf DEF Received
<1>3. toServer' \in [Clients -> Seq(MessageType)]
  BY <1>1, <1>2
<1>4. ASSUME NEW d \in Clients, NEW i \in 1..Len(toServer'[d]), toServer'[d][i].kind = "Request"
      PROVE  toServer'[d][i].id \in AllIds
  <2>1. CASE d = c
    <3>1. toServer'[d] = Tail(toServer[c])
      BY <1>1, <2>1
    <3> QED BY <1>2, <1>4, <3>1 DEF TInv, WireTypes
  <2>2. CASE d # c
    <3>1. toServer'[d] = toServer[d]
      BY <1>1, <2>2
    <3> QED BY <1>4, <3>1 DEF TInv, WireTypes
  <2> QED BY <2>1, <2>2
<1>5. WireTypes'
  BY <1>3, <1>4 DEF WireTypes
<1>6. Received(c).kind = "Request" => Received(c).id \in AllIds
  BY <1>2 DEF TInv, WireTypes
<1> QED BY <1>2, <1>5, <1>6

LEMMA WrittenTypes ==
  ASSUME TInv, NEW c \in Clients, NEW m \in MessageType, m.kind = "Request" => m.id \in AllIds,
         Write(c, m), UNCHANGED <<link, toClient>>
  PROVE  WireTypes'
<1>1. toServer[c] \in Seq(MessageType) /\ toServer \in [Clients -> Seq(MessageType)]
  BY DEF TInv, WireTypes
<1>2. toServer' = [toServer EXCEPT ![c] = Append(toServer[c], m)]
  BY DEF Write
<1>3. /\ Append(toServer[c], m) \in Seq(MessageType) /\ Len(Append(toServer[c], m)) = Len(toServer[c]) + 1
      /\ Append(toServer[c], m)[Len(toServer[c]) + 1] = m
      /\ \A i \in 1..Len(toServer[c]) : Append(toServer[c], m)[i] = toServer[c][i]
  BY <1>1, AppendOf
<1>4. toServer' \in [Clients -> Seq(MessageType)]
  BY <1>1, <1>2, <1>3
<1>5. ASSUME NEW d \in Clients, NEW i \in 1..Len(toServer'[d]), toServer'[d][i].kind = "Request"
      PROVE  toServer'[d][i].id \in AllIds
  <2>1. CASE d = c /\ i = Len(toServer[c]) + 1
    BY <1>1, <1>2, <1>3, <1>5, <2>1
  <2>2. CASE d = c /\ i # Len(toServer[c]) + 1
    <3>1. i \in 1..Len(toServer[c]) /\ toServer'[d][i] = toServer[c][i]
      BY <1>1, <1>2, <1>3, <2>2
    <3> QED BY <1>5, <3>1 DEF TInv, WireTypes
  <2>3. CASE d # c
    <3>1. toServer'[d] = toServer[d]
      BY <1>1, <1>2, <2>3
    <3> QED BY <1>5, <3>1 DEF TInv, WireTypes
  <2> QED BY <2>1, <2>2, <2>3
<1> QED BY <1>4, <1>5 DEF TInv, WireTypes

LEMMA SameWires ==
  ASSUME TInv, UNCHANGED toServer, link' \in [Clients -> {"down", "up", "closing"}],
         toClient' \in [Clients -> Seq(MessageType)]
  PROVE  WireTypes'
BY DEF TInv, WireTypes

\* Something is sent to the client of a session.
LEMMA SentTypes ==
  ASSUME TInv, NEW c \in Clients, NEW s \in SessionType, NEW m \in MessageType, Send(c, s, m)
  PROVE  /\ [m EXCEPT !.req = s.req] \in MessageType
         /\ toClient' = [toClient EXCEPT ![c] = Append(toClient[c], [m EXCEPT !.req = s.req])]
         /\ toClient' \in [Clients -> Seq(MessageType)]
<1>1. s.req \in Nat /\ toClient \in [Clients -> Seq(MessageType)]
  BY DEF SessionType, TInv, WireTypes
<1>2. [m EXCEPT !.req = s.req] \in MessageType
  BY <1>1, StampedType
<1>3. toClient' = [toClient EXCEPT ![c] = Append(toClient[c], [m EXCEPT !.req = s.req])]
  BY DEF Send
<1>4. Append(toClient[c], [m EXCEPT !.req = s.req]) \in Seq(MessageType)
  BY <1>1, <1>2, AppendOf
<1> QED BY <1>1, <1>2, <1>3, <1>4

\* What SendScratchPayloadAndMoveToIdle does to a session that has become s.
Answered(c, s, m, t) ==
    /\ sess' = [sess EXCEPT ![c] = t]
    /\ t.block = s.block /\ t.scratch = m
    /\ \/ t.st = "SendPayload" /\ toClient' = toClient
       \/ t.st = "Idle" /\ toClient' = [toClient EXCEPT ![c] = Append(toClient[c], [m EXCEPT !.req = s.req])]

LEMMA ScratchStep ==
  ASSUME TInv, NEW c \in Clients, NEW s \in SessionType, NEW m \in MessageType, SendScratch(c, s, m)
  PROVE  \E t \in SessionType :
            Answered(c, s, m, t) /\ Transferring(t) /\ toClient' \in [Clients -> Seq(MessageType)]
<1>1. CASE Space(c)
  <2> DEFINE t == [s EXCEPT !.st = "Idle", !.scratch = m]
  <2>1. t \in SessionType /\ t.block = s.block /\ t.scratch = m /\ t.st = "Idle"
    BY DEF SessionType
  <2>2. sess' = [sess EXCEPT ![c] = t] /\ Send(c, s, m)
    BY <1>1 DEF SendScratch
  <2>3. Transferring(t)
    BY <2>1 DEF Transferring
  <2> HIDE DEF t
  <2> QED BY <2>1, <2>2, <2>3, SentTypes DEF Answered
<1>2. CASE ~Space(c)
  <2> DEFINE t == [s EXCEPT !.st = "SendPayload", !.scratch = m]
  <2>1. t \in SessionType /\ t.block = s.block /\ t.scratch = m /\ t.st = "SendPayload"
    BY DEF SessionType
  <2>2. sess' = [sess EXCEPT ![c] = t] /\ toClient' = toClient
    BY <1>2 DEF SendScratch
  <2>3. Transferring(t)
    BY <2>1 DEF Transferring
  <2> HIDE DEF t
  <2> QED BY <2>1, <2>2, <2>3 DEF Answered, TInv, WireTypes
<1> QED BY <1>1, <1>2

\* The block of a session whose transfer ends.
LEMMA EndedBlock ==
  ASSUME TInv, NEW c \in Clients, NEW t, sess' = [sess EXCEPT ![c] = t], t.block = None,
         NEW B, sess[c].block # None => B.live \in BOOLEAN /\ B.id \in AllIds \cup {None} /\ B.closed \in BOOLEAN
                    /\ B.data \in Seq(Datum)
                    /\ B = [live |-> B.live, id |-> B.id, closed |-> B.closed, data |-> B.data,
                            pending |-> B.pending, completed |-> B.completed]
                    /\ Ends(block[sess[c].block], B),
         block' = IF sess[c].block = None THEN block ELSE [block EXCEPT ![sess[c].block] = B]
  PROVE  block' \in [Blocks -> BlockType] /\ Kept /\ \A b \in Blocks : Covered(b)'
<1>0. sess[c].block \in Blocks \cup {None} /\ block \in [Blocks -> BlockType] /\ None \notin Blocks
  BY Typed, TransferAssumption DEF TInv, ServerTypes
<1>1. \A b \in Blocks : block'[b] = IF b = sess[c].block THEN B ELSE block[b]
  BY <1>0
<1>2. ASSUME NEW b \in Blocks
      PROVE  /\ Covered(b)' /\ Slack(b)' = Slack(b)
             /\ block'[b].pending \in Nat /\ block'[b].completed \in BOOLEAN
  <2>1. CASE b = sess[c].block
    <3>1. Ends(block[b], block'[b])
      BY <1>0, <1>1, <2>1
    <3> QED BY <2>1, <3>1, CountEnds
  <2>2. CASE b # sess[c].block
    <3>1. block'[b].pending = block[b].pending /\ block'[b].completed = block[b].completed
      BY <1>1, <2>2
    <3> QED BY <2>2, <3>1, CountEnds
  <2> QED BY <2>1, <2>2
<1>3. CASE sess[c].block = None
  BY <1>0, <1>2, <1>3 DEF Kept
<1>4. CASE sess[c].block # None
  <2>1. sess[c].block \in Blocks
    BY <1>0, <1>4
  <2>2. B.pending \in Nat /\ B.completed \in BOOLEAN
    BY <1>1, <1>2, <2>1
  <2>3. B \in BlockType
    BY <1>4, <2>2 DEF BlockType
  <2> QED BY <1>0, <1>2, <1>4, <2>3 DEF Kept
<1> QED BY <1>3, <1>4

LEMMA EndTransferType ==
  ASSUME NEW A \in BlockType
  PROVE  /\ EndTransfer(A).live \in BOOLEAN /\ EndTransfer(A).id \in AllIds \cup {None}
         /\ EndTransfer(A).closed = A.closed /\ EndTransfer(A).data = A.data
         /\ EndTransfer(A) = [live |-> EndTransfer(A).live, id |-> EndTransfer(A).id,
                 closed |-> EndTransfer(A).closed, data |-> EndTransfer(A).data,
                 pending |-> EndTransfer(A).pending, completed |-> EndTransfer(A).completed]
         /\ Ends(A, EndTransfer(A))
<1> DEFINE C == IF A.pending = 1 THEN TRUE ELSE A.completed
<1>0. /\ A.live \in BOOLEAN /\ A.id \in AllIds \cup {None} /\ A.pending \in Nat
      /\ A = [live |-> A.live, id |-> A.id, closed |-> A.closed, data |-> A.data,
                pending |-> A.pending, completed |-> A.completed]
  BY DEF BlockType
<1>1. EndTransfer(A) = [A EXCEPT !.pending = A.pending - 1, !.completed = C]
  BY DEF EndTransfer
<1> HIDE DEF C
<1>2. EndTransfer(A) = [live |-> A.live, id |-> A.id, closed |-> A.closed, data |-> A.data,
                        pending |-> A.pending - 1, completed |-> C]
  BY <1>0, <1>1
<1>3. /\ EndTransfer(A).live = A.live /\ EndTransfer(A).id = A.id
      /\ EndTransfer(A).closed = A.closed /\ EndTransfer(A).data = A.data
      /\ EndTransfer(A).pending = A.pending - 1 /\ EndTransfer(A).completed = C
  BY <1>2
<1>4. Ends(A, EndTransfer(A))
  BY <1>3 DEF Ends, C
<1> QED BY <1>0, <1>2, <1>3, <1>4

LEMMA ResetType ==
  ASSUME NEW A \in BlockType
  PROVE  /\ Reset(A) \in BlockType /\ Reset(A).pending = A.pending /\ Reset(A).completed = A.completed
         /\ [A EXCEPT !.closed = TRUE] \in BlockType /\ [A EXCEPT !.closed = TRUE].pending = A.pending
         /\ [A EXCEPT !.closed = TRUE].completed = A.completed /\ [A EXCEPT !.closed = TRUE].closed
         /\ [A EXCEPT !.closed = TRUE].data = A.data
BY EmptyData DEF BlockType, Reset

\* A session answers and has no transfer any more.
LEMMA SentinelStep ==
  ASSUME TInv, NEW c \in Clients, NEW n \in Nat, NEW result \in Results, NEW crc \in Seq(Datum),
         SendSentinel(c, [sess[c] EXCEPT !.req = n], result, crc)
  PROVE  /\ block' \in [Blocks -> BlockType] /\ Kept /\ \A b \in Blocks : Covered(b)'
         /\ \A b \in Blocks : block'[b].closed = block[b].closed /\ block'[b].data = block[b].data
         /\ \E s, t \in SessionType :
               /\ s.req = n /\ s.block = None
               /\ Answered(c, s, Sentinel(result, crc), t) /\ Transferring(t)
               /\ toClient' \in [Clients -> Seq(MessageType)]
<1> DEFINE r == [sess[c] EXCEPT !.req = n]
           s == [r EXCEPT !.block = None]
           B == EndTransfer(block[sess[c].block])
<1>1. s \in SessionType /\ s.req = n /\ s.block = None /\ r.block = sess[c].block
  BY Typed DEF SessionType
<1>2. block' = Ended(r) /\ SendScratch(c, s, Sentinel(result, crc))
  BY DEF SendSentinel
<1>3. PICK t \in SessionType :
        Answered(c, s, Sentinel(result, crc), t) /\ Transferring(t) /\ toClient' \in [Clients -> Seq(MessageType)]
  BY <1>1, <1>2, ScratchStep, SentinelType
<1>4. block' = IF sess[c].block = None THEN block ELSE [block EXCEPT ![sess[c].block] = B]
  BY <1>1, <1>2 DEF Ended
<1>5. sess[c].block # None => block[sess[c].block] \in BlockType
  BY Typed DEF TInv, ServerTypes
<1>6. sess[c].block # None => B.closed \in BOOLEAN /\ B.data \in Seq(Datum)
        /\ B.closed = block[sess[c].block].closed /\ B.data = block[sess[c].block].data
  BY <1>5, EndTransferType DEF BlockType
<1>7. sess' = [sess EXCEPT ![c] = t] /\ t.block = None
  BY <1>1, <1>3 DEF Answered
<1>8. sess[c].block # None => B.live \in BOOLEAN /\ B.id \in AllIds \cup {None}
         /\ B = [live |-> B.live, id |-> B.id, closed |-> B.closed, data |-> B.data,
                            pending |-> B.pending, completed |-> B.completed]
         /\ Ends(block[sess[c].block], B)
  BY <1>5, EndTransferType
<1>10. \A b \in Blocks : block'[b] = IF b = sess[c].block THEN B ELSE block[b]
  BY <1>4, Typed, TransferAssumption DEF TInv, ServerTypes
<1> HIDE DEF B, s, r
<1>9. block' \in [Blocks -> BlockType] /\ Kept /\ \A b \in Blocks : Covered(b)'
  BY <1>4, <1>6, <1>7, <1>8, EndedBlock
<1>11. \A b \in Blocks : block'[b].closed = block[b].closed /\ block'[b].data = block[b].data
  BY <1>6, <1>10, TransferAssumption
<1> QED BY <1>1, <1>3, <1>9, <1>11

\* A session answers, after CancelTransfer or the end of a push.
LEMMA CancelStep ==
  ASSUME TInv, NEW c \in Clients, NEW result \in Results, NEW A \in BlockType,
         sess[c].block # None, A.pending = block[sess[c].block].pending,
         A.completed = block[sess[c].block].completed,
         block' = [block EXCEPT ![sess[c].block] = EndTransfer(A)],
         SendScratch(c, [sess[c] EXCEPT !.block = None], Status(result))
  PROVE  /\ block' \in [Blocks -> BlockType] /\ Kept /\ \A b \in Blocks : Covered(b)'
         /\ \E s, t \in SessionType :
               /\ s.req = sess[c].req /\ s.block = None
               /\ Answered(c, s, Status(result), t) /\ Transferring(t)
               /\ toClient' \in [Clients -> Seq(MessageType)]
<1> DEFINE s == [sess[c] EXCEPT !.block = None]
           B == EndTransfer(A)
<1>1. s \in SessionType /\ s.req = sess[c].req /\ s.block = None
  BY Typed DEF SessionType
<1>2. PICK t \in SessionType :
        Answered(c, s, Status(result), t) /\ Transferring(t) /\ toClient' \in [Clients -> Seq(MessageType)]
  BY <1>1, ScratchStep, StatusType
<1>3. sess' = [sess EXCEPT ![c] = t] /\ t.block = None
  BY <1>1, <1>2 DEF Answered
<1>4. A.closed \in BOOLEAN /\ A.data \in Seq(Datum)
  BY DEF BlockType
<1>5. Ends(A, B)
  BY EndTransferType
<1>6. Ends(block[sess[c].block], B)
  BY <1>5 DEF Ends
<1>7. /\ B.live \in BOOLEAN /\ B.id \in AllIds \cup {None} /\ B.closed \in BOOLEAN /\ B.data \in Seq(Datum)
      /\ B = [live |-> B.live, id |-> B.id, closed |-> B.closed, data |-> B.data,
              pending |-> B.pending, completed |-> B.completed]
  BY <1>4, EndTransferType
<1>8. block' = IF sess[c].block = None THEN block ELSE [block EXCEPT ![sess[c].block] = B]
  OBVIOUS
<1> HIDE DEF B, s
<1>9. block' \in [Blocks -> BlockType] /\ Kept /\ \A b \in Blocks : Covered(b)'
  BY <1>3, <1>6, <1>7, <1>8, EndedBlock
<1> QED BY <1>1, <1>2, <1>9

\* Blocks keep their counts, and the session its block.
LEMMA CountsKept ==
  ASSUME TInv, NEW c \in Clients, NEW t, sess' = [sess EXCEPT ![c] = t], t.block = sess[c].block,
         \A b \in Blocks : block'[b].pending = block[b].pending /\ block'[b].completed = block[b].completed
  PROVE  Kept /\ \A b \in Blocks : Covered(b)'
BY CountStays DEF Kept

LEMMA LateAbortTypes ==
  ASSUME TInv, NEW c \in Clients, ProcessLateAbort(c)
  PROVE  TInv' /\ Kept
<1>1. /\ toServer[c] # <<>> /\ toServer' = [toServer EXCEPT ![c] = Tail(@)]
      /\ SendSentinel(c, [sess[c] EXCEPT !.req = Received(c).req], "Aborted", <<>>)
      /\ UNCHANGED <<table, link, ctx, call, app>>
  BY DEF ProcessLateAbort, Receive, client
<1>2. Received(c).req \in Nat
  <2>1. Received(c) \in MessageType
    BY <1>1, Typed, TailOf DEF Received
  <2> QED BY <2>1, MessageFields
<1>3. /\ block' \in [Blocks -> BlockType] /\ Kept /\ \A b \in Blocks : Covered(b)'
      /\ \E s, t \in SessionType :
               /\ Answered(c, s, Sentinel("Aborted", <<>>), t) /\ Transferring(t)
               /\ toClient' \in [Clients -> Seq(MessageType)]
  BY <1>1, <1>2, SentinelStep, EmptyData DEF Results
<1>4. WireTypes'
  BY <1>1, <1>3, ReceivedTypes DEF TInv, WireTypes
<1>5. ClientTypes'
  BY <1>1 DEF TInv, ClientTypes
<1> QED BY <1>1, <1>3, <1>4, <1>5, SessionMoves DEF Answered

LEMMA UnreachableTypes ==
  ASSUME TInv, NEW c \in Clients, ProcessUnreachable(c)
  PROVE  TInv' /\ Kept
<1>1. /\ toServer[c] # <<>> /\ toServer' = [toServer EXCEPT ![c] = Tail(@)]
      /\ UNCHANGED server /\ UNCHANGED <<toClient, link, ctx, call, app>>
  BY DEF ProcessUnreachable, Receive, client
<1>2. WireTypes'
  BY <1>1, ReceivedTypes DEF TInv, WireTypes
<1>3. ClientTypes'
  BY <1>1 DEF TInv, ClientTypes
<1> QED BY <1>1, <1>2, <1>3, ServerAlone

LEMMA StartTypes ==
  ASSUME TInv, NEW c \in Clients, Start(c)
  PROVE  TInv' /\ Kept
<1> DEFINE t == [sess[c] EXCEPT !.st = IF @ = "StartPull" THEN "Pull" ELSE "Push"]
<1>1. /\ sess[c].st \in {"StartPull", "StartPush"} /\ Send(c, sess[c], sess[c].scratch)
      /\ sess' = [sess EXCEPT ![c] = t] /\ UNCHANGED <<block, table, toServer, link, ctx, call, app>>
  BY DEF Start, Serving, client
<1>2. /\ t \in SessionType /\ t.block = sess[c].block /\ t.st = (IF sess[c].st = "StartPull" THEN "Pull" ELSE "Push")
      /\ t.total = sess[c].total /\ t.done = sess[c].done /\ t.crc = sess[c].crc
  BY Typed DEF SessionType
<1>3. Transferring(t)
  BY <1>1, <1>2 DEF TInv, Transferring
<1>4. toClient' \in [Clients -> Seq(MessageType)]
  BY <1>1, Typed, SentTypes
<1>5. WireTypes'
  BY <1>1, <1>4, SameWires DEF TInv, WireTypes
<1>6. ClientTypes' /\ block' \in [Blocks -> BlockType]
  BY <1>1 DEF TInv, ClientTypes, ServerTypes
<1> HIDE DEF t
<1>7. Kept /\ \A b \in Blocks : Covered(b)'
  BY <1>1, <1>2, CountsKept
<1> QED BY <1>1, <1>2, <1>3, <1>5, <1>6, <1>7, SessionMoves

LEMMA SendPayloadTypes ==
  ASSUME TInv, NEW c \in Clients, SendPayload(c)
  PROVE  TInv' /\ Kept
<1>1. SendScratch(c, sess[c], sess[c].scratch) /\ UNCHANGED <<block, table, toServer, link, ctx, call, app>>
  BY DEF SendPayload, client
<1>2. PICK t \in SessionType : /\ Answered(c, sess[c], sess[c].scratch, t) /\ Transferring(t)
                               /\ toClient' \in [Clients -> Seq(MessageType)]
  BY <1>1, Typed, ScratchStep
<1>3. sess' = [sess EXCEPT ![c] = t] /\ t.block = sess[c].block
  BY <1>2 DEF Answered
<1>5. WireTypes'
  BY <1>1, <1>2, SameWires DEF TInv, WireTypes
<1>6. ClientTypes' /\ block' \in [Blocks -> BlockType]
  BY <1>1 DEF TInv, ClientTypes, ServerTypes
<1>7. Kept /\ \A b \in Blocks : Covered(b)'
  BY <1>1, <1>3, CountsKept
<1> QED BY <1>1, <1>2, <1>3, <1>5, <1>6, <1>7, SessionMoves

LEMMA StopPullTypes ==
  ASSUME TInv, NEW c \in Clients, StopPull(c)
  PROVE  TInv' /\ Kept
<1> DEFINE result == IF Received(c).kind = "Status" THEN "Aborted" ELSE "Error"
<1>1. /\ toServer[c] # <<>> /\ toServer' = [toServer EXCEPT ![c] = Tail(@)]
      /\ SendSentinel(c, sess[c], result, <<>>)
      /\ UNCHANGED <<table, link, ctx, call, app>>
  BY DEF StopPull, Receive, client
<1>2. sess[c] = [sess[c] EXCEPT !.req = sess[c].req] /\ sess[c].req \in Nat /\ result \in Results
  BY Typed DEF SessionType, Results
<1> HIDE DEF result
<1>3. /\ block' \in [Blocks -> BlockType] /\ Kept /\ \A b \in Blocks : Covered(b)'
      /\ \E s, t \in SessionType :
               /\ Answered(c, s, Sentinel(result, <<>>), t) /\ Transferring(t)
               /\ toClient' \in [Clients -> Seq(MessageType)]
  BY <1>1, <1>2, SentinelStep, EmptyData
<1>4. WireTypes'
  BY <1>1, <1>3, ReceivedTypes DEF TInv, WireTypes
<1>5. ClientTypes'
  BY <1>1 DEF TInv, ClientTypes
<1> QED BY <1>1, <1>3, <1>4, <1>5, SessionMoves DEF Answered

\* The two cases of ProcessPullSession without a message.
LEMMA ChunkData ==
  ASSUME TInv, NEW c \in Clients, sess[c].st = "Pull", sess[c].done < sess[c].total,
         NEW n \in Nat, n <= sess[c].total - sess[c].done, NEW kept \in BOOLEAN
  PROVE  Bytes(sess[c], n, kept) \in Seq(Datum) /\ Len(Bytes(sess[c], n, kept)) = n
<1> DEFINE s == sess[c]
           data == block[s.block].data
           old == IF kept THEN s.crc ELSE [i \in 1..Len(s.crc) |-> <<None, 0>>]
<1>1. s.block \in Blocks /\ s.total = Len(s.crc) /\ s.total \in Nat /\ s.done \in Nat /\ s.crc \in Seq(Datum)
  BY Typed DEF TInv, Transferring
<1>2. data \in Seq(Datum)
  <2>1. block[s.block] \in BlockType
    BY <1>1 DEF TInv, ServerTypes
  <2> QED BY <2>1 DEF BlockType
<1>3. \A i \in 1..Len(s.crc) : old[i] \in Datum
  BY <1>1 DEF Datum
<1> HIDE DEF old
<1>4. \A i \in 1..n : (IF s.done + i <= Len(data) THEN data[s.done + i] ELSE old[s.done + i]) \in Datum
  <2> SUFFICES ASSUME NEW i \in 1..n
               PROVE  (IF s.done + i <= Len(data) THEN data[s.done + i] ELSE old[s.done + i]) \in Datum
    OBVIOUS
  <2>1. s.done + i \in 1..Len(s.crc)
    BY <1>1
  <2> QED BY <1>2, <1>3, <2>1
<1>5. Bytes(s, n, kept) = [i \in 1..n |-> IF s.done + i <= Len(data) THEN data[s.done + i] ELSE old[s.done + i]]
  BY DEF Bytes, old
<1> QED BY <1>4, <1>5

LEMMA SendChunkCases ==
  ASSUME TInv, NEW c \in Clients, SendChunk(c)
  PROVE  /\ link[c] = "up" /\ sess[c].st = "Pull" /\ toServer[c] = <<>>
         /\ UNCHANGED <<table, toServer, link, ctx, call, app>>
         /\ \/ /\ sess[c].done >= sess[c].total
               /\ SendSentinel(c, sess[c], "Success", sess[c].crc)
            \/ /\ UNCHANGED block
               /\ \E n \in Nat, kept \in BOOLEAN, t \in SessionType, m \in MessageType :
                     /\ n = (IF sess[c].total - sess[c].done < Chunk THEN sess[c].total - sess[c].done ELSE Chunk)
                     /\ sess[c].done < sess[c].total /\ n <= sess[c].total - sess[c].done
                     /\ sess' = [sess EXCEPT ![c] = t]
                     /\ t = [sess[c] EXCEPT !.done = sess[c].done + n]
                     /\ m.kind = "Chunk" /\ m.data = Bytes(sess[c], n, kept)
                     /\ Send(c, sess[c], m)
<1> DEFINE s == sess[c]
           n == IF s.total - s.done < Chunk THEN s.total - s.done ELSE Chunk
           t == [s EXCEPT !.done = s.done + n]
<1>1. Serving(c, "Pull") /\ toServer[c] = <<>> /\ UNCHANGED <<table, toServer, link, ctx, call, app>>
  BY DEF SendChunk, client
<1>2. s \in SessionType /\ s.total \in Nat /\ s.done \in Nat /\ Chunk \in Nat
  BY Typed, TransferAssumption
<1>3. CASE s.done < s.total
  <2>1. n \in Nat /\ n <= s.total - s.done
    BY <1>2, <1>3
  <2> HIDE DEF n
  <2>2. t \in SessionType
    BY <1>2, <2>1 DEF SessionType
  <2>3. /\ \E kept \in BOOLEAN : Send(c, s, [NewMessage EXCEPT !.kind = "Chunk", !.data = Bytes(s, n, kept)])
        /\ sess' = [sess EXCEPT ![c].done = @ + n] /\ UNCHANGED block
    BY <1>3 DEF SendChunk, n
  <2>4. PICK kept \in BOOLEAN : Send(c, s, [NewMessage EXCEPT !.kind = "Chunk", !.data = Bytes(s, n, kept)])
    BY <2>3
  <2> DEFINE m == [NewMessage EXCEPT !.kind = "Chunk", !.data = Bytes(s, n, kept)]
  <2>5. Bytes(s, n, kept) \in Seq(Datum)
    BY <1>1, <1>3, <2>1, ChunkData DEF Serving
  <2>6. m \in MessageType /\ m.kind = "Chunk" /\ m.data = Bytes(s, n, kept)
    BY <2>5, NewMessageType DEF MessageType
  <2>7. sess' = [sess EXCEPT ![c] = t]
    BY <2>3
  <2>8. Send(c, sess[c], m)
    BY <2>4
  <2> HIDE DEF m, t
  <2> QED BY <1>1, <1>3, <2>1, <2>2, <2>3, <2>6, <2>7, <2>8 DEF Serving, t, n
<1>4. CASE ~(s.done < s.total)
  <2>1. SendSentinel(c, s, "Success", s.crc)
    BY <1>4 DEF SendChunk
  <2> QED BY <1>1, <1>2, <1>4, <2>1 DEF Serving
<1> QED BY <1>3, <1>4

LEMMA SendChunkTypes ==
  ASSUME TInv, NEW c \in Clients, SendChunk(c)
  PROVE  TInv' /\ Kept
<1>1. sess[c].st = "Pull" /\ UNCHANGED <<table, toServer, link, ctx, call, app>>
  BY SendChunkCases
<1>2. ClientTypes'
  BY <1>1 DEF TInv, ClientTypes
<1>3. CASE SendSentinel(c, sess[c], "Success", sess[c].crc)
  <2>1. sess[c] = [sess[c] EXCEPT !.req = sess[c].req] /\ sess[c].req \in Nat /\ sess[c].crc \in Seq(Datum)
    BY Typed DEF SessionType
  <2>2. /\ block' \in [Blocks -> BlockType] /\ Kept /\ \A b \in Blocks : Covered(b)'
        /\ \E s, t \in SessionType :
               /\ Answered(c, s, Sentinel("Success", sess[c].crc), t) /\ Transferring(t)
               /\ toClient' \in [Clients -> Seq(MessageType)]
    BY <1>3, <2>1, SentinelStep DEF Results
  <2>3. WireTypes'
    BY <1>1, <2>2, SameWires DEF TInv, WireTypes
  <2> QED BY <1>1, <1>2, <2>2, <2>3, SessionMoves DEF Answered
<1>4. CASE UNCHANGED block /\ ~SendSentinel(c, sess[c], "Success", sess[c].crc)
  <2>1. PICK n \in Nat, t \in SessionType, m \in MessageType :
                     /\ n <= sess[c].total - sess[c].done
                     /\ sess' = [sess EXCEPT ![c] = t]
                     /\ t = [sess[c] EXCEPT !.done = sess[c].done + n]
                     /\ Send(c, sess[c], m)
    BY <1>4, SendChunkCases
  <2>2. /\ t.block = sess[c].block /\ t.st = sess[c].st /\ t.total = sess[c].total /\ t.crc = sess[c].crc
        /\ t.done = sess[c].done + n
    BY <2>1, Typed DEF SessionType
  <2>3. Transferring(t)
    BY <1>1, <2>1, <2>2, Typed DEF TInv, Transferring
  <2>4. toClient' \in [Clients -> Seq(MessageType)]
    BY <2>1, Typed, SentTypes
  <2>5. WireTypes'
    BY <1>1, <2>4, SameWires DEF TInv, WireTypes
  <2>6. Kept /\ \A b \in Blocks : Covered(b)'
    BY <1>4, <2>1, <2>2, CountsKept
  <2>7. block' \in [Blocks -> BlockType]
    BY <1>4 DEF TInv, ServerTypes
  <2> QED BY <1>1, <1>2, <2>1, <2>3, <2>5, <2>6, <2>7, SessionMoves
<1> QED BY <1>3, <1>4, SendChunkCases

\* The two outcomes of ReceivePushTransferData: data is taken, or the
\* transfer ends and is answered.
LEMMA ReceivePushCases ==
  ASSUME TInv, NEW c \in Clients, ReceivePush(c)
  PROVE  /\ link[c] = "up" /\ sess[c].st = "Push" /\ sess[c].block \in Blocks
         /\ toServer[c] # <<>> /\ toServer' = [toServer EXCEPT ![c] = Tail(@)]
         /\ UNCHANGED <<table, link, ctx, call, app>>
         /\ \/ \E n \in Nat, d \in Seq(Datum) :
                  /\ n <= sess[c].total - sess[c].done
                  /\ block' = [block EXCEPT ![sess[c].block].data = @ \o d]
                  /\ sess' = [sess EXCEPT ![c].done = @ + n]
                  /\ UNCHANGED toClient
            \/ \E A \in BlockType, result \in Results :
                  /\ A.pending = block[sess[c].block].pending
                  /\ A.completed = block[sess[c].block].completed
                  /\ block' = [block EXCEPT ![sess[c].block] = EndTransfer(A)]
                  /\ SendScratch(c, [sess[c] EXCEPT !.block = None], Status(result))
<1> DEFINE m == Received(c)
           s == sess[c]
           B == block[s.block]
           n == IF Len(m.data) < s.total - s.done THEN Len(m.data) ELSE s.total - s.done
<1>1. /\ link[c] = "up" /\ s.st = "Push" /\ toServer[c] # <<>> /\ toServer' = [toServer EXCEPT ![c] = Tail(@)]
      /\ UNCHANGED <<table, link, ctx, call, app>>
  BY DEF ReceivePush, Receive, Serving, client
<1>2. s.block \in Blocks /\ s.done <= s.total /\ s.block # None
  BY <1>1, Typed DEF TInv, Transferring
<1>3. B \in BlockType
  BY <1>2 DEF TInv, ServerTypes
<1>4. m \in MessageType /\ m.data \in Seq(Datum)
  <2>1. m \in MessageType
    BY <1>1, Typed, TailOf DEF Received
  <2> QED BY <2>1, MessageFields
<1>5. \A result : CancelTransfer(c, s, result) =>
        /\ block' = [block EXCEPT ![s.block] = EndTransfer(Reset(B))]
        /\ SendScratch(c, [s EXCEPT !.block = None], Status(result))
  BY <1>2 DEF CancelTransfer
<1>6. CASE \E result \in Results : CancelTransfer(c, s, result)
  BY <1>1, <1>2, <1>3, <1>5, <1>6, ResetType
<1>7. CASE m.kind = "Chunk" /\ s.done < s.total
  <2>1. n \in Nat /\ n <= s.total - s.done /\ n <= Len(m.data)
    BY <1>2, <1>4, Typed
  <2>2. SubSeq(m.data, 1, n) \in Seq(Datum)
    BY <1>4, <2>1, PrefixOf
  <2>a. ~(s.done >= s.total) /\ m.kind # "Sentinel"
    BY <1>7, Typed
  <2>3. /\ block' = [block EXCEPT ![s.block].data = @ \o SubSeq(m.data, 1, n)]
        /\ sess' = [sess EXCEPT ![c].done = @ + n] /\ UNCHANGED toClient
    BY <1>7, <2>a DEF ReceivePush
  <2> HIDE DEF n
  <2> QED BY <1>1, <1>2, <2>1, <2>2, <2>3
<1>8. CASE m.kind = "Sentinel" /\ Intact(m, B)
  <2>1. /\ block' = [block EXCEPT ![s.block] = EndTransfer([B EXCEPT !.closed = TRUE])]
        /\ SendScratch(c, [s EXCEPT !.block = None], Status("Success"))
    BY <1>8 DEF ReceivePush
  <2>2. "Success" \in Results
    BY DEF Results
  <2> QED BY <1>1, <1>2, <1>3, <2>1, <2>2, ResetType
<1>9. CASE /\ ~(m.kind = "Chunk" /\ s.done < s.total)
           /\ ~(m.kind = "Sentinel" /\ Intact(m, B))
  <2>1. \E result \in Results : CancelTransfer(c, s, result)
    BY <1>9, Typed DEF ReceivePush, Results
  <2> QED BY <1>6, <2>1
<1> QED BY <1>7, <1>8, <1>9

LEMMA ReceivePushTypes ==
  ASSUME TInv, NEW c \in Clients, ReceivePush(c)
  PROVE  TInv' /\ Kept
<1>1. /\ sess[c].st = "Push" /\ sess[c].block \in Blocks
      /\ toServer[c] # <<>> /\ toServer' = [toServer EXCEPT ![c] = Tail(@)]
      /\ UNCHANGED <<table, link, ctx, call, app>>
  BY ReceivePushCases
<1>2. ClientTypes'
  BY <1>1 DEF TInv, ClientTypes
<1>3. CASE \E n \in Nat, d \in Seq(Datum) :
                  /\ n <= sess[c].total - sess[c].done
                  /\ block' = [block EXCEPT ![sess[c].block].data = @ \o d]
                  /\ sess' = [sess EXCEPT ![c].done = @ + n]
                  /\ UNCHANGED toClient
  <2>1. PICK n \in Nat, d \in Seq(Datum) :
                  /\ n <= sess[c].total - sess[c].done
                  /\ block' = [block EXCEPT ![sess[c].block].data = @ \o d]
                  /\ sess' = [sess EXCEPT ![c].done = @ + n]
                  /\ UNCHANGED toClient
    BY <1>3
  <2> DEFINE t == [sess[c] EXCEPT !.done = sess[c].done + n]
             b == sess[c].block
             B == [block[b] EXCEPT !.data = block[b].data \o d]
  <2>a. sess[c] \in SessionType /\ sess[c].done + n \in Nat
    BY <2>1, Typed
  <2>2. t \in SessionType /\ t.block = b /\ t.st = "Push" /\ t.total = sess[c].total /\ t.done = sess[c].done + n
    BY <1>1, <2>a DEF SessionType
  <2>3. Transferring(t)
    BY <1>1, <2>1, <2>2, Typed DEF TInv, Transferring
  <2>4. block \in [Blocks -> BlockType] /\ block[b] \in BlockType
    BY <1>1 DEF TInv, ServerTypes
  <2>5. block[b].data \o d \in Seq(Datum)
    BY <2>4 DEF BlockType
  <2>6. B \in BlockType /\ B.pending = block[b].pending /\ B.completed = block[b].completed
    BY <2>4, <2>5 DEF BlockType
  <2>7. sess' = [sess EXCEPT ![c] = t] /\ block' = [block EXCEPT ![b] = B]
    BY <2>1
  <2> HIDE DEF t, B
  <2>8. block' \in [Blocks -> BlockType]
    BY <2>4, <2>6, <2>7
  <2>9. \A x \in Blocks : block'[x].pending = block[x].pending /\ block'[x].completed = block[x].completed
    BY <2>4, <2>6, <2>7
  <2>10. Kept /\ \A x \in Blocks : Covered(x)'
    BY <2>2, <2>7, <2>9, CountsKept
  <2>11. WireTypes'
    BY <1>1, <2>1, ReceivedTypes DEF TInv, WireTypes
  <2> QED BY <1>1, <1>2, <2>2, <2>3, <2>7, <2>8, <2>10, <2>11, SessionMoves
<1>4. CASE \E A \in BlockType, result \in Results :
                  /\ A.pending = block[sess[c].block].pending
                  /\ A.completed = block[sess[c].block].completed
                  /\ block' = [block EXCEPT ![sess[c].block] = EndTransfer(A)]
                  /\ SendScratch(c, [sess[c] EXCEPT !.block = None], Status(result))
  <2>1. PICK A \in BlockType, result \in Results :
                  /\ A.pending = block[sess[c].block].pending
                  /\ A.completed = block[sess[c].block].completed
                  /\ block' = [block EXCEPT ![sess[c].block] = EndTransfer(A)]
                  /\ SendScratch(c, [sess[c] EXCEPT !.block = None], Status(result))
    BY <1>4
  <2>2. /\ block' \in [Blocks -> BlockType] /\ Kept /\ \A b \in Blocks : Covered(b)'
        /\ \E s, t \in SessionType :
               /\ Answered(c, s, Status(result), t) /\ Transferring(t)
               /\ toClient' \in [Clients -> Seq(MessageType)]
    BY <1>1, <2>1, CancelStep, TransferAssumption
  <2>3. WireTypes'
    BY <1>1, <2>2, ReceivedTypes DEF TInv, WireTypes
  <2> QED BY <1>1, <1>2, <2>2, <2>3, SessionMoves DEF Answered
<1> QED BY <1>3, <1>4, ReceivePushCases

\* What a request leads to: it is refused, before or after the transfer has
\* begun, or a transfer begins.
LEMMA ProcessRequestCases ==
  ASSUME TInv, NEW c \in Clients, ProcessRequest(c)
  PROVE  /\ link[c] = "up" /\ sess[c].st = "Idle"
         /\ toServer[c] # <<>> /\ toServer' = [toServer EXCEPT ![c] = Tail(@)]
         /\ Received(c) \in MessageType /\ Received(c).kind = "Request"
         /\ UNCHANGED <<table, link, ctx, call>>
         /\ \/ /\ UNCHANGED <<block, app>>
               /\ \E s \in SessionType : s.block = sess[c].block /\ SendScratch(c, s, Status("Error"))
            \/ \E b \in Blocks :
                  /\ block' = [block EXCEPT ![b] = BeginTransfer(@)]
                  /\ \/ \E s \in SessionType : /\ s.block = b /\ SendScratch(c, s, Status("Error")) /\ UNCHANGED app
                                               /\ Received(c).type = "Push" /\ Received(c).size = 0
                     \/ \E t \in SessionType :
                           /\ sess' = [sess EXCEPT ![c] = t] /\ UNCHANGED <<toClient, app>>
                           /\ t.st = "StartPush" /\ t.block = b /\ t.done = 0
                           /\ t.scratch = Status("Success") /\ Received(c).type = "Push"
                     \/ \E t \in SessionType :
                           /\ sess' = [sess EXCEPT ![c] = t] /\ UNCHANGED toClient
                           /\ t.st = "StartPull" /\ t.block = b /\ t.done = 0 /\ t.crc = block[b].data
                           /\ t.total = Len(block[b].data) /\ Received(c).type = "Pull" /\ block[b].closed
                           /\ t.scratch.kind = "Header" /\ t.scratch.size = Len(block[b].data)
                           /\ app' = [app EXCEPT ![c].expect = block[b].data]
<1> DEFINE m == Received(c)
           b == table[m.id]
           s == [sess[c] EXCEPT !.req = m.req]
           begun == [s EXCEPT !.block = b, !.done = 0]
           available == b # None /\ block[b].closed = (m.type = "Pull")
<1>1. /\ link[c] = "up" /\ sess[c].st = "Idle" /\ m.kind = "Request"
      /\ toServer[c] # <<>> /\ toServer' = [toServer EXCEPT ![c] = Tail(@)]
      /\ UNCHANGED <<table, link, ctx, call>>
  BY DEF ProcessRequest, Receive, Serving
<1>2. m \in MessageType /\ m.id \in AllIds
  <2>1. m = toServer[c][1] /\ 1 \in 1..Len(toServer[c]) /\ m \in MessageType
    BY <1>1, Typed, TailOf DEF Received
  <2> QED BY <1>1, <2>1 DEF TInv, WireTypes
<1>3. m.req \in Nat /\ m.size \in Nat /\ m.type \in {"Pull", "Push"} /\ b \in Blocks \cup {None}
  BY <1>2, MessageFields DEF TInv, ServerTypes
<1>4. s \in SessionType /\ s.block = sess[c].block
  BY <1>3, Typed DEF SessionType
<1>5. CASE ~available
  <2>1. SendScratch(c, s, Status("Error")) /\ UNCHANGED <<block, app>>
    BY <1>5 DEF ProcessRequest
  <2> HIDE DEF s
  <2> QED BY <1>1, <1>2, <1>4, <2>1
<1>6. CASE available
  <2>0. b \in Blocks /\ block[b] \in BlockType /\ (block[b].closed = (m.type = "Pull"))
    BY <1>3, <1>6 DEF TInv, ServerTypes
  <2>a. block[b].data \in Seq(Datum) /\ Len(block[b].data) \in Nat
    BY <2>0 DEF BlockType
  <2>b. begun \in SessionType /\ begun.block = b /\ begun.done = 0
    BY <1>4, <2>0 DEF SessionType
  <2>1. block' = [block EXCEPT ![b] = BeginTransfer(@)]
    BY <1>6 DEF ProcessRequest
  <2>2. CASE m.type = "Pull"
    <3> DEFINE h == [NewMessage EXCEPT !.kind = "Header", !.size = Len(block[b].data)]
               t == [begun EXCEPT !.st = "StartPull", !.total = Len(block[b].data),
                                  !.crc = block[b].data, !.scratch = h]
    <3>1. h \in MessageType /\ h.kind = "Header" /\ h.size = Len(block[b].data)
      BY <2>a, NewMessageType DEF MessageType
    <3>2. /\ t \in SessionType /\ t.st = "StartPull" /\ t.block = b /\ t.done = 0 /\ t.crc = block[b].data
          /\ t.total = Len(block[b].data) /\ t.scratch = h
      BY <2>a, <2>b, <3>1 DEF SessionType
    <3>3. /\ sess' = [sess EXCEPT ![c] = t] /\ UNCHANGED toClient
          /\ app' = [app EXCEPT ![c].expect = block[b].data]
      BY <1>6, <2>2 DEF ProcessRequest
    <3>4. block[b].closed
      BY <2>0, <2>2
    <3> HIDE DEF t, h, begun, s
    <3> QED BY <1>1, <1>2, <2>0, <2>1, <2>2, <3>1, <3>2, <3>3, <3>4
  <2>3. CASE m.type = "Push" /\ m.size > 0
    <3> DEFINE t == [begun EXCEPT !.st = "StartPush", !.total = m.size, !.crc = <<>>,
                                  !.scratch = Status("Success")]
    <3>1. Status("Success") \in MessageType
      BY StatusType DEF Results
    <3>2. /\ t \in SessionType /\ t.st = "StartPush" /\ t.block = b /\ t.done = 0
          /\ t.scratch = Status("Success")
      BY <1>3, <2>b, <3>1, EmptyData DEF SessionType
    <3>3. sess' = [sess EXCEPT ![c] = t] /\ UNCHANGED <<toClient, app>>
      BY <1>6, <2>3 DEF ProcessRequest
    <3> HIDE DEF t, begun, s
    <3> QED BY <1>1, <1>2, <2>0, <2>1, <2>3, <3>2, <3>3
  <2>4. CASE m.type = "Push" /\ ~(m.size > 0)
    <3> DEFINE r == [begun EXCEPT !.total = 0]
    <3>1. r \in SessionType /\ r.block = b
      BY <2>b DEF SessionType
    <3>2. SendScratch(c, r, Status("Error")) /\ UNCHANGED app
      BY <1>6, <2>4 DEF ProcessRequest
    <3>3. m.size = 0
      BY <1>3, <2>4
    <3> HIDE DEF r, begun, s
    <3> QED BY <1>1, <1>2, <2>0, <2>1, <2>4, <3>1, <3>2, <3>3
  <2> QED BY <1>3, <2>2, <2>3, <2>4
<1> QED BY <1>5, <1>6

LEMMA ProcessRequestTypes ==
  ASSUME TInv, NEW c \in Clients, ProcessRequest(c)
  PROVE  TInv' /\ (sess[c].block = None => Kept)
<1>1. /\ toServer[c] # <<>> /\ toServer' = [toServer EXCEPT ![c] = Tail(@)]
      /\ UNCHANGED <<table, link, ctx, call>>
  BY ProcessRequestCases
<1>2. toClient' \in [Clients -> Seq(MessageType)] => WireTypes'
  BY <1>1, ReceivedTypes DEF TInv, WireTypes
<1>3. UNCHANGED app => ClientTypes'
  BY <1>1 DEF TInv, ClientTypes
<1>4. Status("Error") \in MessageType
  BY StatusType DEF Results
<1>5. CASE UNCHANGED <<block, app>> /\ \E s \in SessionType : s.block = sess[c].block /\ SendScratch(c, s, Status("Error"))
  <2>1. PICK s \in SessionType : s.block = sess[c].block /\ SendScratch(c, s, Status("Error"))
    BY <1>5
  <2>2. PICK t \in SessionType : /\ Answered(c, s, Status("Error"), t) /\ Transferring(t)
                                 /\ toClient' \in [Clients -> Seq(MessageType)]
    BY <1>4, <2>1, ScratchStep
  <2>3. sess' = [sess EXCEPT ![c] = t] /\ t.block = sess[c].block
    BY <2>1, <2>2 DEF Answered
  <2>4. Kept /\ \A b \in Blocks : Covered(b)'
    BY <1>5, <2>3, CountsKept
  <2>5. block' \in [Blocks -> BlockType]
    BY <1>5 DEF TInv, ServerTypes
  <2> QED BY <1>1, <1>2, <1>3, <1>5, <2>2, <2>3, <2>4, <2>5, SessionMoves
<1>6. ASSUME NEW b \in Blocks, block' = [block EXCEPT ![b] = BeginTransfer(@)],
             NEW t \in SessionType, sess' = [sess EXCEPT ![c] = t], t.block = b, Transferring(t),
             toClient' \in [Clients -> Seq(MessageType)], ClientTypes'
      PROVE  TInv' /\ (sess[c].block = None => Kept)
  <2> DEFINE A == BeginTransfer(block[b])
             C == IF block[b].pending = 0 THEN FALSE ELSE block[b].completed
  <2>1. block \in [Blocks -> BlockType] /\ block[b] \in BlockType
    BY DEF TInv, ServerTypes
  <2>2. A = [block[b] EXCEPT !.pending = block[b].pending + 1, !.completed = C]
    BY DEF BeginTransfer
  <2> HIDE DEF C
  <2>3. /\ A.live = block[b].live /\ A.id = block[b].id /\ A.closed = block[b].closed
        /\ A.data = block[b].data /\ A.pending = block[b].pending + 1 /\ A.completed = C
        /\ A = [live |-> A.live, id |-> A.id, closed |-> A.closed, data |-> A.data,
                pending |-> A.pending, completed |-> A.completed]
    BY <2>1, <2>2 DEF BlockType
  <2>4. Begins(block[b], A)
    BY <2>3 DEF Begins, C
  <2>5. block' = [block EXCEPT ![b] = A]
    BY <1>6
  <2> HIDE DEF A
  <2>6. ASSUME NEW x \in Blocks
        PROVE  /\ Covered(x)' /\ (sess[c].block = None => Slack(x)' = Slack(x))
               /\ block'[x].pending \in Nat /\ block'[x].completed \in BOOLEAN
    <3>1. CASE x = b
      <4>1. Begins(block[x], block'[x])
        BY <2>1, <2>4, <2>5, <3>1
      <4> QED BY <1>6, <3>1, <4>1, CountBegins
    <3>2. CASE x # b
      <4>1. block'[x].pending = block[x].pending /\ block'[x].completed = block[x].completed
        BY <2>1, <2>5, <3>2
      <4> QED BY <1>6, <3>2, <4>1, CountBegins
    <3> QED BY <3>1, <3>2
  <2>7. A \in BlockType
    <3>1. A.pending \in Nat /\ A.completed \in BOOLEAN
      BY <2>1, <2>5, <2>6
    <3> QED BY <2>1, <2>3, <3>1 DEF BlockType
  <2>8. block' \in [Blocks -> BlockType]
    BY <2>1, <2>5, <2>7
  <2>9. TInv'
    BY <1>1, <1>2, <1>6, <2>6, <2>8, SessionMoves
  <2> QED BY <2>6, <2>9 DEF Kept
<1>7. ASSUME NEW b \in Blocks, block' = [block EXCEPT ![b] = BeginTransfer(@)],
             \E s \in SessionType : s.block = b /\ SendScratch(c, s, Status("Error")) /\ UNCHANGED app
      PROVE  TInv' /\ (sess[c].block = None => Kept)
  <2>1. PICK s \in SessionType : s.block = b /\ SendScratch(c, s, Status("Error")) /\ UNCHANGED app
    BY <1>7
  <2>2. PICK t \in SessionType : /\ Answered(c, s, Status("Error"), t) /\ Transferring(t)
                                 /\ toClient' \in [Clients -> Seq(MessageType)]
    BY <1>4, <2>1, ScratchStep
  <2>3. sess' = [sess EXCEPT ![c] = t] /\ t.block = b
    BY <2>1, <2>2 DEF Answered
  <2> QED BY <1>3, <1>6, <1>7, <2>1, <2>2, <2>3
<1>8. ASSUME NEW b \in Blocks, block' = [block EXCEPT ![b] = BeginTransfer(@)],
             NEW t \in SessionType, sess' = [sess EXCEPT ![c] = t], UNCHANGED toClient,
             t.st \in {"StartPush", "StartPull"}, t.block = b, t.done = 0,
             t.st = "StartPull" => t.total = Len(t.crc),
             app' = app \/ app' = [app EXCEPT ![c].expect = block[b].data]
      PROVE  TInv' /\ (sess[c].block = None => Kept)
  <2>1. Transferring(t)
    BY <1>8, TransferAssumption DEF Transferring, SessionType
  <2>2. toClient' \in [Clients -> Seq(MessageType)]
    BY <1>8 DEF TInv, WireTypes
  <2>3. ClientTypes'
    <3>1. block[b].data \in Seq(Datum)
      <4>1. block[b] \in BlockType
        BY DEF TInv, ServerTypes
      <4> QED BY <4>1 DEF BlockType
    <3>2. [app[c] EXCEPT !.expect = block[b].data] \in AppType
      BY <3>1, Typed DEF AppType
    <3>3. app' = app \/ app' = [app EXCEPT ![c] = [app[c] EXCEPT !.expect = block[b].data]]
      BY <1>8
    <3> QED BY <1>1, <3>2, <3>3 DEF TInv, ClientTypes
  <2> QED BY <1>6, <1>8, <2>1, <2>2, <2>3
<1> QED BY <1>5, <1>7, <1>8, ProcessRequestCases

LEMMA TerminatedTypes ==
  ASSUME TInv, NEW c \in Clients, SessionTerminated(c)
  PROVE  TInv' /\ Kept
<1> DEFINE B == EndTransfer(block[sess[c].block])
<1>1. /\ link' = [link EXCEPT ![c] = "down"] /\ sess' = [sess EXCEPT ![c] = NewSession]
      /\ toServer' = [toServer EXCEPT ![c] = <<>>] /\ toClient' = [toClient EXCEPT ![c] = <<>>]
      /\ block' = IF sess[c].block = None THEN block ELSE [block EXCEPT ![sess[c].block] = B]
      /\ UNCHANGED <<table, ctx, call, app>>
  BY DEF SessionTerminated, Ended, client
<1>2. NewSession \in SessionType /\ NewSession.block = None /\ Transferring(NewSession)
  BY EmptyData, NewMessageType DEF NewSession, SessionType, Transferring
<1>3. sess[c].block # None => block[sess[c].block] \in BlockType
  BY Typed DEF TInv, ServerTypes
<1>4. sess[c].block # None => B.closed \in BOOLEAN /\ B.data \in Seq(Datum)
  BY <1>3, EndTransferType DEF BlockType
<1>5. sess[c].block # None => B.live \in BOOLEAN /\ B.id \in AllIds \cup {None}
         /\ B = [live |-> B.live, id |-> B.id, closed |-> B.closed, data |-> B.data,
                            pending |-> B.pending, completed |-> B.completed]
         /\ Ends(block[sess[c].block], B)
  BY <1>3, EndTransferType
<1> HIDE DEF B
<1>6. block' \in [Blocks -> BlockType] /\ Kept /\ \A b \in Blocks : Covered(b)'
  BY <1>1, <1>2, <1>4, <1>5, EndedBlock
<1>7. WireTypes'
  <2>1. \A d \in Clients : toServer'[d] = <<>> \/ toServer'[d] = toServer[d]
    BY <1>1 DEF TInv, WireTypes
  <2>2. /\ toServer' \in [Clients -> Seq(MessageType)] /\ toClient' \in [Clients -> Seq(MessageType)]
        /\ link' \in [Clients -> {"down", "up", "closing"}]
    BY <1>1, EmptySeq DEF TInv, WireTypes
  <2>3. \A d \in Clients : \A i \in 1..Len(toServer'[d]) :
          toServer'[d][i].kind = "Request" => toServer'[d][i].id \in AllIds
    BY <2>1, EmptySeq DEF TInv, WireTypes
  <2> QED BY <2>2, <2>3 DEF WireTypes
<1>8. ClientTypes'
  BY <1>1 DEF TInv, ClientTypes
<1> QED BY <1>1, <1>2, <1>6, <1>7, <1>8, SessionMoves

\* The block operations of the application.
LEMMA BlockTypes ==
  ASSUME TInv, NEW b \in Blocks, NEW A \in BlockType, block' = [block EXCEPT ![b] = A],
         table' \in [AllIds -> Blocks \cup {None}], UNCHANGED <<link, toServer, toClient, sess, ctx, call, app>>,
         \/ A.pending = block[b].pending /\ A.completed = block[b].completed
         \/ A.pending = 0 /\ A.completed = TRUE /\ Users(b) = {}
  PROVE  TInv' /\ \A x \in Blocks : Slack(x)' = Slack(x) \/ Slack(x)' = 0
<1>1. block \in [Blocks -> BlockType] /\ block' \in [Blocks -> BlockType]
  BY DEF TInv, ServerTypes
<1>2. ServerTypes' /\ WireTypes' /\ ClientTypes' /\ \A c \in Clients : Transferring(sess[c])'
  BY <1>1 DEF TInv, ServerTypes, WireTypes, ClientTypes, Transferring
<1>3. ASSUME NEW x \in Blocks
      PROVE  Covered(x)' /\ (Slack(x)' = Slack(x) \/ Slack(x)' = 0)
  <2>1. Users(x)' = Users(x)
    BY DEF Users
  <2>2. CASE block'[x].pending = block[x].pending /\ block'[x].completed = block[x].completed
    BY <2>1, <2>2 DEF TInv, Covered, Slack
  <2>3. CASE x = b /\ A.pending = 0 /\ A.completed = TRUE /\ Users(b) = {}
    <3>1. block'[x].pending = 0 /\ block'[x].completed = TRUE /\ Cardinality(Users(x)') = 0
      BY <1>1, <2>1, <2>3, FS_EmptySet
    <3>2. Slack(x)' = 0
      BY <3>1 DEF Slack
    <3>3. Covered(x)'
      BY <3>1 DEF Covered
    <3> QED BY <3>2, <3>3
  <2> QED BY <1>1, <2>2, <2>3
<1> QED BY <1>2, <1>3 DEF TInv

LEMMA BlockSteps ==
  ASSUME TInv, NEW b \in Blocks, OpenServerBlock(b) \/ WriteAndClose(b) \/ CloseServerBlock(b)
  PROVE  /\ TInv' /\ \A x \in Blocks : Slack(x)' = Slack(x) \/ Slack(x)' = 0
         /\ UNCHANGED <<link, toServer, toClient, sess, ctx, call, app>>
         /\ \A x \in Blocks : block[x].closed /\ (\E c \in Clients : sess[c].block = x)
               => block'[x].closed /\ block'[x].data = block[x].data
<1>0. block \in [Blocks -> BlockType] /\ block[b] \in BlockType /\ table \in [AllIds -> Blocks \cup {None}]
  BY DEF TInv, ServerTypes
<1>1. CASE OpenServerBlock(b)
  <2>1. PICK id \in AllIds :
          /\ block' = [block EXCEPT ![b] = [NoBlock EXCEPT !.live = TRUE, !.id = id]]
          /\ table' = IF table[id] = None THEN [table EXCEPT ![id] = b] ELSE table
    BY <1>1 DEF OpenServerBlock, AllIds
  <2> DEFINE A == [NoBlock EXCEPT !.live = TRUE, !.id = id]
  <2>2. A \in BlockType /\ A.pending = 0 /\ A.completed = TRUE
    BY EmptyData DEF NoBlock, BlockType
  <2>3. Users(b) = {} /\ UNCHANGED <<link, toServer, toClient, sess, ctx, call, app>>
    BY <1>1 DEF OpenServerBlock, Users, wires, client
  <2>4. table' \in [AllIds -> Blocks \cup {None}]
    BY <1>0, <2>1
  <2>5. block' = [block EXCEPT ![b] = A]
    BY <2>1
  <2> HIDE DEF A
  <2>6. TInv' /\ \A x \in Blocks : Slack(x)' = Slack(x) \/ Slack(x)' = 0
    BY <2>2, <2>3, <2>4, <2>5, BlockTypes
  <2> QED BY <1>0, <2>3, <2>5, <2>6 DEF Users
<1>2. CASE WriteAndClose(b)
  <2>1. PICK n \in LocalSizes : block' = [block EXCEPT ![b].closed = TRUE, ![b].data = [i \in 1..n |-> <<None, i>>]]
    BY <1>2 DEF WriteAndClose
  <2> DEFINE d == [i \in 1..n |-> <<None, i>>]
             A == [block[b] EXCEPT !.closed = TRUE, !.data = d]
  <2>2. d \in Seq(Datum)
    BY <2>1, TransferAssumption DEF Datum
  <2>5. block' = [block EXCEPT ![b] = A]
    BY <1>0, <2>1
  <2> HIDE DEF d
  <2>3. A \in BlockType /\ A.pending = block[b].pending /\ A.completed = block[b].completed
    BY <1>0, <2>2 DEF BlockType
  <2>4. UNCHANGED <<table, link, toServer, toClient, sess, ctx, call, app>> /\ ~block[b].closed
    BY <1>2 DEF WriteAndClose, wires, client
  <2> HIDE DEF A
  <2>6. TInv' /\ \A x \in Blocks : Slack(x)' = Slack(x) \/ Slack(x)' = 0
    BY <1>0, <2>3, <2>4, <2>5, BlockTypes
  <2> QED BY <1>0, <2>4, <2>5, <2>6
<1>3. CASE CloseServerBlock(b)
  <2> DEFINE A == [block[b] EXCEPT !.live = FALSE]
  <2>1. block' = [block EXCEPT ![b] = A] /\ table' = [table EXCEPT ![block[b].id] = None]
    BY <1>3 DEF CloseServerBlock
  <2>2. /\ A \in BlockType /\ A.pending = block[b].pending /\ A.completed = block[b].completed
        /\ A.closed = block[b].closed /\ A.data = block[b].data
    BY <1>0 DEF BlockType
  <2>3. UNCHANGED <<link, toServer, toClient, sess, ctx, call, app>>
    BY <1>3 DEF CloseServerBlock, wires, client
  <2>4. table' \in [AllIds -> Blocks \cup {None}]
    BY <1>0, <2>1
  <2> HIDE DEF A
  <2>6. TInv' /\ \A x \in Blocks : Slack(x)' = Slack(x) \/ Slack(x)' = 0
    BY <2>1, <2>2, <2>3, <2>4, BlockTypes
  <2> QED BY <1>0, <2>1, <2>2, <2>3, <2>6
<1> QED BY <1>1, <1>2, <1>3

\* The pieces the actions of a client are made of.
LEMMA ReturnType ==
  ASSUME TInv, NEW c \in Clients, Return(c)
  PROVE  call' \in [Clients -> CallType]
BY EmptyData DEF Return, NoCall, CallType, Calls, TInv, ClientTypes

LEMMA EnterType ==
  ASSUME TInv, NEW c \in Clients, NEW pc \in Calls, Enter(c, pc)
  PROVE  call' \in [Clients -> CallType]
<1>1. [call[c] EXCEPT !.pc = pc] \in CallType
  BY Typed DEF CallType
<1>2. call' = [call EXCEPT ![c] = [call[c] EXCEPT !.pc = pc]]
  BY DEF Enter
<1> QED BY <1>1, <1>2 DEF TInv, ClientTypes

LEMMA ToldType ==
  ASSUME TInv, NEW c \in Clients, NEW outcome \in {"none", "read", "stored", "failed"}, Told(c, outcome)
  PROVE  app' \in [Clients -> AppType]
<1>1. [app[c] EXCEPT !.outcome = outcome] \in AppType
  BY Typed DEF AppType
<1>2. app' = [app EXCEPT ![c] = [app[c] EXCEPT !.outcome = outcome]]
  BY DEF Told
<1> QED BY <1>1, <1>2 DEF TInv, ClientTypes

LEMMA StateType ==
  ASSUME TInv, NEW c \in Clients, NEW state \in {"Idle", "TransferInProgress", "Error"},
         ctx' = [ctx EXCEPT ![c].state = state]
  PROVE  ctx' \in [Clients -> ContextType]
<1>1. [ctx[c] EXCEPT !.state = state] \in ContextType
  BY Typed DEF ContextType
<1>2. ctx' = [ctx EXCEPT ![c] = [ctx[c] EXCEPT !.state = state]]
  OBVIOUS
<1> QED BY <1>1, <1>2 DEF TInv, ClientTypes

LEMMA ReadTypes ==
  ASSUME TInv, NEW c \in Clients, NEW pc, Read(c, pc), UNCHANGED <<toServer, link>>
  PROVE  /\ WireTypes' /\ Answer(c) = toClient[c][1] /\ Answer(c) \in MessageType
         /\ toClient[c] # <<>> /\ toClient' = [toClient EXCEPT ![c] = Tail(toClient[c])]
<1>1. toClient[c] # <<>> /\ toClient' = [toClient EXCEPT ![c] = Tail(toClient[c])]
  BY DEF Read
<1>2. /\ toClient \in [Clients -> Seq(MessageType)] /\ Tail(toClient[c]) \in Seq(MessageType)
      /\ Answer(c) = toClient[c][1] /\ Answer(c) \in MessageType
  BY <1>1, TailOf DEF TInv, WireTypes, Answer
<1>3. WireTypes'
  BY <1>1, <1>2, SameWires DEF TInv, WireTypes
<1> QED BY <1>1, <1>2, <1>3

LEMMA NewContextType == NewContext \in ContextType
BY EmptyData DEF NewContext, ContextType

LEMMA AskTypes ==
  ASSUME TInv, NEW c \in Clients, NEW type \in {"Pull", "Push"}, NEW id \in Ids, NEW size \in Nat,
         NEW pc \in Calls, Ask(c, type, id, size, pc)
  PROVE  TInv' /\ Kept
<1> DEFINE m == [Request(type, id, size) EXCEPT !.req = app[c].req + 1]
           a == [NewApp EXCEPT !.req = app[c].req + 1, !.op = type, !.size = size]
<1>0. app[c].req + 1 \in Nat /\ id \in AllIds
  BY Typed DEF AllIds
<1>a. Request(type, id, size) \in MessageType /\ Request(type, id, size).id = id
  BY <1>0, RequestType
<1>1. m \in MessageType /\ m.id \in AllIds
  BY <1>0, <1>a, StampedType
<1>2. a \in AppType
  BY <1>0, EmptyData DEF NewApp, AppType
<1>3. /\ Write(c, m) /\ app' = [app EXCEPT ![c] = a] /\ Enter(c, pc) /\ UNCHANGED server /\ UNCHANGED <<toClient, link, ctx>>
  BY DEF Ask
<1> HIDE DEF m, a
<1>4. WireTypes'
  BY <1>1, <1>3, WrittenTypes
<1>5. ClientTypes'
  BY <1>2, <1>3, EnterType DEF TInv, ClientTypes
<1> QED BY <1>3, <1>4, <1>5, ServerAlone

LEMMA PullAnsweredTypes ==
  ASSUME TInv, NEW c \in Clients, PullAnswered(c)
  PROVE  TInv' /\ Kept
<1> DEFINE m == Answer(c)
           x == [NewContext EXCEPT !.state = "TransferInProgress", !.total = m.size,
                                   !.type = IF Refactored THEN ctx[c].type ELSE "Pull"]
<1>1. Read(c, "pullReply") /\ Return(c) /\ UNCHANGED server /\ UNCHANGED <<toServer, link>>
  BY DEF PullAnswered
<1>2. WireTypes' /\ m \in MessageType /\ m.size \in Nat
  BY <1>1, ReadTypes, MessageFields
<1>3. x \in ContextType
  BY <1>2, EmptyData, Typed DEF NewContext, ContextType
<1>4. ctx' \in [Clients -> ContextType] /\ app' \in [Clients -> AppType]
  <2>1. CASE m.kind = "Header"
    <3>1. ctx' = [ctx EXCEPT ![c] = x] /\ UNCHANGED app
      BY <2>1 DEF PullAnswered
    <3> QED BY <1>3, <3>1 DEF TInv, ClientTypes
  <2>2. CASE m.kind # "Header"
    <3>1. ctx' = [ctx EXCEPT ![c].state = "Error"] /\ Told(c, "failed")
      BY <2>2 DEF PullAnswered
    <3> QED BY <3>1, StateType, ToldType
  <2> QED BY <2>1, <2>2
<1> QED BY <1>1, <1>2, <1>4, ReturnType, ServerAlone DEF ClientTypes

LEMMA BeginReadTypes ==
  ASSUME TInv, NEW c \in Clients, NEW room \in Nat, BeginRead(c, room)
  PROVE  TInv' /\ Kept
<1>1. UNCHANGED server /\ UNCHANGED <<toServer, toClient, link>>
  BY DEF BeginRead, wires
<1>2. WireTypes'
  BY <1>1, SameWires DEF TInv, WireTypes
<1>3. CASE ctx[c].total = 0 /\ ctx[c].chunk = <<>>
  <2>1. ctx' = [ctx EXCEPT ![c].state = "Idle"] /\ Told(c, "read") /\ UNCHANGED call
    BY <1>3 DEF BeginRead
  <2> QED BY <1>1, <1>2, <2>1, StateType, ToldType, ServerAlone DEF TInv, ClientTypes
<1>4. CASE ~(ctx[c].total = 0 /\ ctx[c].chunk = <<>>)
  <2>1. call' = [call EXCEPT ![c] = [NoCall EXCEPT !.pc = "reading", !.room = room]] /\ UNCHANGED <<ctx, app>>
    BY <1>4 DEF BeginRead
  <2>2. [NoCall EXCEPT !.pc = "reading", !.room = room] \in CallType
    BY EmptyData DEF NoCall, CallType, Calls
  <2>3. ClientTypes'
    BY <2>1, <2>2 DEF TInv, ClientTypes
  <2> QED BY <1>1, <1>2, <2>3, ServerAlone
<1> QED BY <1>3, <1>4

\* What CopyOut does, as an update of each record.
CopiesOut(c, n, x, y, a) ==
    /\ link[c] = "up" /\ call[c].pc = "reading" /\ ctx[c].chunk # <<>>
    /\ UNCHANGED server /\ UNCHANGED <<toServer, toClient, link>>
    /\ ctx' = [ctx EXCEPT ![c] = x] /\ call' = [call EXCEPT ![c] = y] /\ app' = [app EXCEPT ![c] = a]
    /\ a.data = app[c].data \o SubSeq(ctx[c].chunk, 1, n)
    /\ a.expect = app[c].expect /\ a.op = app[c].op
    /\ x.chunk = SubSeq(ctx[c].chunk, n + 1, Len(ctx[c].chunk))
    /\ x.total = ctx[c].total /\ x.crc = ctx[c].crc
    /\ \/ /\ ctx[c].total = 0 /\ n = Len(ctx[c].chunk)
          /\ a.outcome = "read" /\ x.state = "Idle" /\ y.pc = "none"
       \/ /\ ~(ctx[c].total = 0 /\ n = Len(ctx[c].chunk))
          /\ a.outcome = app[c].outcome /\ x.state = ctx[c].state /\ y.pc \in {"none", "reading"}

LEMMA CopyOutCases ==
  ASSUME TInv, NEW c \in Clients, CopyOut(c)
  PROVE  \E n \in 0..Len(ctx[c].chunk), x \in ContextType, y \in CallType, a \in AppType : CopiesOut(c, n, x, y, a)
<1> DEFINE k == ctx[c]
           n == IF Len(k.chunk) < call[c].room THEN Len(k.chunk) ELSE call[c].room
           over == k.total = 0 /\ n = Len(k.chunk)
           a == [app[c] EXCEPT !.data = app[c].data \o SubSeq(k.chunk, 1, n),
                               !.outcome = IF over THEN "read" ELSE app[c].outcome]
           x == [k EXCEPT !.chunk = SubSeq(k.chunk, n + 1, Len(k.chunk)),
                          !.state = IF over THEN "Idle" ELSE k.state]
           y == IF over \/ n = call[c].room THEN NoCall ELSE [call[c] EXCEPT !.room = call[c].room - n]
<1>1. n \in 0..Len(k.chunk) /\ n \in Nat /\ n <= call[c].room /\ call[c].room - n \in Nat
  BY Typed
<1>2. SubSeq(k.chunk, 1, n) \in Seq(Datum) /\ SubSeq(k.chunk, n + 1, Len(k.chunk)) \in Seq(Datum)
  BY <1>1, Typed
<1>3. Waits(c, "reading") /\ k.chunk # <<>> /\ UNCHANGED server /\ UNCHANGED <<toServer, toClient, link>>
  BY DEF CopyOut, wires
<1>4. /\ app' = [app EXCEPT ![c] = a] /\ ctx' = [ctx EXCEPT ![c] = x] /\ call' = [call EXCEPT ![c] = y]
  BY DEF CopyOut, Return
<1> HIDE DEF n
<1>a. app[c].data \o SubSeq(k.chunk, 1, n) \in Seq(Datum)
  BY <1>2, Typed
<1>5. /\ a \in AppType /\ a.data = app[c].data \o SubSeq(k.chunk, 1, n) /\ a.expect = app[c].expect
      /\ a.op = app[c].op /\ a.outcome = IF over THEN "read" ELSE app[c].outcome
  BY <1>a, Typed DEF AppType
<1>6. /\ x \in ContextType /\ x.chunk = SubSeq(k.chunk, n + 1, Len(k.chunk)) /\ x.total = k.total /\ x.crc = k.crc
      /\ x.state = IF over THEN "Idle" ELSE k.state
  BY <1>2, Typed DEF ContextType
<1>7. y \in CallType /\ (over => y.pc = "none") /\ y.pc \in {"none", call[c].pc}
  <2>1. NoCall \in CallType /\ NoCall.pc = "none"
    BY EmptyData DEF NoCall, CallType, Calls
  <2>2. [call[c] EXCEPT !.room = call[c].room - n] \in CallType /\ [call[c] EXCEPT !.room = call[c].room - n].pc = call[c].pc
    BY <1>1, Typed DEF CallType
  <2> QED BY <2>1, <2>2
<1> HIDE DEF a, x, y
<1>8. CopiesOut(c, n, x, y, a)
  BY <1>3, <1>4, <1>5, <1>6, <1>7 DEF Waits, CopiesOut
<1> QED BY <1>1, <1>5, <1>6, <1>7, <1>8

LEMMA CopyOutTypes ==
  ASSUME TInv, NEW c \in Clients, CopyOut(c)
  PROVE  TInv' /\ Kept
<1>1. PICK n \in 0..Len(ctx[c].chunk), x \in ContextType, y \in CallType, a \in AppType : CopiesOut(c, n, x, y, a)
  BY CopyOutCases
<1>2. WireTypes' /\ ClientTypes'
  BY <1>1, SameWires DEF TInv, WireTypes, ClientTypes, CopiesOut
<1> QED BY <1>1, <1>2, ServerAlone DEF CopiesOut

\* What Fetch does.
LEMMA FetchCases ==
  ASSUME TInv, NEW c \in Clients, Fetch(c)
  PROVE  /\ Read(c, "reading") /\ ctx[c].chunk = <<>> /\ UNCHANGED server /\ UNCHANGED <<toServer, link>>
         /\ Answer(c) \in MessageType
         /\ \/ /\ Answer(c).kind # "Chunk"
               /\ ctx' = [ctx EXCEPT ![c].state = "Error"] /\ Return(c) /\ Told(c, "failed")
            \/ \E n \in Nat, x \in ContextType :
                  /\ Answer(c).kind = "Chunk" /\ ctx' = [ctx EXCEPT ![c] = x] /\ UNCHANGED app
                  /\ n = (IF Len(Answer(c).data) < ctx[c].total THEN Len(Answer(c).data) ELSE ctx[c].total)
                  /\ n <= Len(Answer(c).data) /\ n <= ctx[c].total
                  /\ x.state = ctx[c].state /\ x.chunk = SubSeq(Answer(c).data, 1, n) /\ x.total = ctx[c].total - n
                  /\ x.crc = ctx[c].crc \o SubSeq(Answer(c).data, 1, n)
                  /\ IF n = ctx[c].total THEN Enter(c, "sentinel") ELSE UNCHANGED call
<1> DEFINE m == Answer(c)
           n == IF Len(m.data) < ctx[c].total THEN Len(m.data) ELSE ctx[c].total
           d == SubSeq(m.data, 1, n)
           x == [ctx[c] EXCEPT !.chunk = d, !.total = ctx[c].total - n, !.crc = ctx[c].crc \o d]
<1>1. Read(c, "reading") /\ ctx[c].chunk = <<>> /\ UNCHANGED server /\ UNCHANGED <<toServer, link>>
  BY DEF Fetch
<1>2. m \in MessageType /\ m.data \in Seq(Datum) /\ ctx[c] \in ContextType /\ ctx[c].total \in Nat /\ ctx[c].crc \in Seq(Datum)
  BY <1>1, ReadTypes, MessageFields, Typed
<1>3. CASE m.kind = "Chunk"
  <2>1. /\ ctx' = [ctx EXCEPT ![c].chunk = d, ![c].total = @ - n, ![c].crc = @ \o d] /\ UNCHANGED app
        /\ IF n = ctx[c].total THEN Enter(c, "sentinel") ELSE UNCHANGED call
    BY <1>3 DEF Fetch
  <2>2. n \in Nat /\ n <= Len(m.data) /\ n <= ctx[c].total /\ ctx[c].total - n \in Nat
    BY <1>2
  <2>3. d \in Seq(Datum)
    BY <1>2, <2>2, PrefixOf
  <2>4. ctx[c].crc \o d \in Seq(Datum)
    BY <1>2, <2>3
  <2>5. ctx' = [ctx EXCEPT ![c] = x]
    BY <2>1
  <2> HIDE DEF n
  <2>6. x \in ContextType /\ x.state = ctx[c].state /\ x.chunk = d /\ x.total = ctx[c].total - n /\ x.crc = ctx[c].crc \o d
    BY <1>2, <2>2, <2>3, <2>4 DEF ContextType
  <2> HIDE DEF x
  <2> QED BY <1>1, <1>2, <1>3, <2>1, <2>2, <2>5, <2>6 DEF n
<1>4. CASE m.kind # "Chunk"
  <2>1. ctx' = [ctx EXCEPT ![c].state = "Error"] /\ Return(c) /\ Told(c, "failed")
    BY <1>4 DEF Fetch
  <2> QED BY <1>1, <1>2, <1>4, <2>1
<1> QED BY <1>3, <1>4

LEMMA FetchTypes ==
  ASSUME TInv, NEW c \in Clients, Fetch(c)
  PROVE  TInv' /\ Kept
<1>1. Read(c, "reading") /\ UNCHANGED server /\ UNCHANGED <<toServer, link>>
  BY FetchCases
<1>2. WireTypes'
  BY <1>1, ReadTypes
<1>3. CASE ctx' = [ctx EXCEPT ![c].state = "Error"] /\ Return(c) /\ Told(c, "failed")
  BY <1>1, <1>2, <1>3, StateType, ReturnType, ToldType, ServerAlone DEF ClientTypes
<1>4. CASE \E x \in ContextType : /\ ctx' = [ctx EXCEPT ![c] = x] /\ UNCHANGED app
                                  /\ Enter(c, "sentinel") \/ UNCHANGED call
  <2>1. call' \in [Clients -> CallType]
    BY <1>4, EnterType DEF Calls, TInv, ClientTypes
  <2>2. ClientTypes'
    BY <1>4, <2>1 DEF TInv, ClientTypes
  <2> QED BY <1>1, <1>2, <2>2, ServerAlone
<1> QED BY <1>3, <1>4, FetchCases

LEMMA CheckSentinelTypes ==
  ASSUME TInv, NEW c \in Clients, CheckSentinel(c)
  PROVE  TInv' /\ Kept
<1>1. Read(c, "sentinel") /\ UNCHANGED server /\ UNCHANGED <<toServer, link>>
  BY DEF CheckSentinel
<1>2. WireTypes'
  BY <1>1, ReadTypes
<1>3. CASE Enter(c, "reading") /\ UNCHANGED <<ctx, app>>
  BY <1>1, <1>2, <1>3, EnterType, ServerAlone DEF ClientTypes, TInv, Calls
<1>4. CASE ctx' = [ctx EXCEPT ![c].state = "Error"] /\ Return(c) /\ Told(c, "failed")
  BY <1>1, <1>2, <1>4, StateType, ReturnType, ToldType, ServerAlone DEF ClientTypes
<1> QED BY <1>3, <1>4 DEF CheckSentinel

LEMMA AbortTypes ==
  ASSUME TInv, NEW c \in Clients, AbortPullTransfer(c)
  PROVE  TInv' /\ Kept
<1>1. UNCHANGED server /\ UNCHANGED <<toClient, link>>
  BY DEF AbortPullTransfer
<1>2. CASE ctx[c].type = "Pull"
  <2> DEFINE m == [Status("Aborted") EXCEPT !.req = app[c].req]
  <2>1. Write(c, m) /\ Enter(c, "aborting") /\ UNCHANGED <<ctx, app>>
    BY <1>2 DEF AbortPullTransfer
  <2>2. Status("Aborted") \in MessageType /\ Status("Aborted").kind = "Status"
    BY StatusType DEF Results
  <2>3. m \in MessageType /\ m.kind = "Status"
    BY <2>2, StampedType, Typed
  <2> HIDE DEF m
  <2>4. WireTypes'
    BY <1>1, <2>1, <2>3, WrittenTypes
  <2>5. ClientTypes'
    BY <2>1, EnterType DEF TInv, ClientTypes, Calls
  <2> QED BY <1>1, <2>4, <2>5, ServerAlone
<1>3. CASE ctx[c].type # "Pull"
  <2>1. ctx' = [ctx EXCEPT ![c].state = "Error"] /\ Told(c, "failed") /\ UNCHANGED <<toServer, call>>
    BY <1>3 DEF AbortPullTransfer
  <2>2. WireTypes'
    BY <1>1, <2>1, SameWires DEF TInv, WireTypes
  <2> QED BY <1>1, <2>1, <2>2, StateType, ToldType, ServerAlone DEF ClientTypes, TInv
<1> QED BY <1>2, <1>3

LEMMA DiscardTypes ==
  ASSUME TInv, NEW c \in Clients, Discard(c)
  PROVE  TInv' /\ Kept
<1>1. Read(c, "aborting") /\ UNCHANGED server /\ UNCHANGED <<toServer, link, app>>
  BY DEF Discard
<1>2. WireTypes'
  BY <1>1, ReadTypes
<1>3. CASE ctx' = [ctx EXCEPT ![c].state = "Idle"] /\ Return(c)
  BY <1>1, <1>2, <1>3, StateType, ReturnType, ServerAlone DEF ClientTypes, TInv
<1>4. CASE UNCHANGED <<ctx, call>>
  BY <1>1, <1>2, <1>4, ServerAlone DEF ClientTypes, TInv
<1> QED BY <1>3, <1>4 DEF Discard

LEMMA PushAnsweredTypes ==
  ASSUME TInv, NEW c \in Clients, PushAnswered(c)
  PROVE  TInv' /\ Kept
<1> DEFINE x == [NewContext EXCEPT !.type = "Push", !.state = "TransferInProgress", !.total = app[c].size]
<1>1. Read(c, "pushReply") /\ Return(c) /\ UNCHANGED server /\ UNCHANGED <<toServer, link>>
  BY DEF PushAnswered
<1>2. WireTypes'
  BY <1>1, ReadTypes
<1>3. x \in ContextType
  BY Typed, EmptyData DEF NewContext, ContextType
<1>4. CASE ctx' = [ctx EXCEPT ![c] = x] /\ UNCHANGED app
  BY <1>1, <1>2, <1>3, <1>4, ReturnType, ServerAlone DEF ClientTypes, TInv
<1>5. CASE UNCHANGED ctx /\ Told(c, "failed")
  BY <1>1, <1>2, <1>5, ReturnType, ToldType, ServerAlone DEF ClientTypes, TInv
<1> QED BY <1>4, <1>5 DEF PushAnswered

LEMMA PushTypes ==
  ASSUME TInv, NEW c \in Clients,
         \/ \E n \in 1..Chunk : WritePushTransferData(c, n)
         \/ ChunkSent(c) \/ ChunkNotReady(c) \/ \E discard \in BOOLEAN : ClosePushTransfer(c, discard)
  PROVE  TInv' /\ Kept
<1>1. CASE \E n \in 1..Chunk : WritePushTransferData(c, n)
  <2>1. PICK n \in 1..Chunk : WritePushTransferData(c, n)
    BY <1>1
  <2> DEFINE d == [i \in 1..n |-> <<c, Len(app[c].data) + i>>]
             a == [app[c] EXCEPT !.data = app[c].data \o d]
             x == [ctx[c] EXCEPT !.crc = ctx[c].crc \o d]
             y == [NoCall EXCEPT !.pc = "writing", !.data = d]
  <2>2. d \in Seq(Datum)
    BY <2>1, Typed, TransferAssumption DEF Datum
  <2>3. /\ app' = [app EXCEPT ![c] = a] /\ ctx' = [ctx EXCEPT ![c] = x] /\ call' = [call EXCEPT ![c] = y]
        /\ UNCHANGED server /\ UNCHANGED <<toServer, toClient, link>>
    BY <2>1 DEF WritePushTransferData, wires
  <2> HIDE DEF d
  <2>a. app[c].data \o d \in Seq(Datum) /\ ctx[c].crc \o d \in Seq(Datum)
    BY <2>2, Typed
  <2>b. app[c] \in AppType /\ ctx[c] \in ContextType
    BY Typed
  <2>c. a \in AppType
    BY <2>a, <2>b DEF AppType
  <2>d. x \in ContextType
    BY <2>a, <2>b DEF ContextType
  <2>e. y \in CallType
    BY <2>2, EmptyData DEF CallType, NoCall, Calls
  <2>4. a \in AppType /\ x \in ContextType /\ y \in CallType
    BY <2>c, <2>d, <2>e
  <2> HIDE DEF a, x, y
  <2>5. WireTypes' /\ ClientTypes'
    BY <2>3, <2>4, SameWires DEF TInv, WireTypes, ClientTypes
  <2> QED BY <2>3, <2>5, ServerAlone
<1>2. CASE ChunkSent(c)
  <2> DEFINE m == [NewMessage EXCEPT !.kind = "Chunk", !.data = call[c].data, !.req = app[c].req]
  <2>1. Write(c, m) /\ Return(c) /\ UNCHANGED server /\ UNCHANGED <<toClient, link, ctx, app>>
    BY <1>2 DEF ChunkSent
  <2>2. m \in MessageType /\ m.kind = "Chunk"
    BY NewMessageType, Typed DEF MessageType
  <2> HIDE DEF m
  <2>3. WireTypes'
    BY <2>1, <2>2, WrittenTypes
  <2> QED BY <2>1, <2>3, ReturnType, ServerAlone DEF TInv, ClientTypes
<1>3. CASE ChunkNotReady(c)
  <2> DEFINE x == [ctx[c] EXCEPT !.crc = ctx[c].crc \o call[c].data]
  <2>1. ctx' = [ctx EXCEPT ![c] = x] /\ UNCHANGED server /\ UNCHANGED <<toServer, toClient, link, call, app>>
    BY <1>3 DEF ChunkNotReady, wires
  <2>2. ctx[c].crc \o call[c].data \in Seq(Datum)
    BY Typed
  <2>3. x \in ContextType
    BY <2>2, Typed DEF ContextType
  <2> HIDE DEF x
  <2>4. WireTypes' /\ ClientTypes'
    BY <2>1, <2>3, SameWires DEF TInv, WireTypes, ClientTypes
  <2> QED BY <2>1, <2>4, ServerAlone
<1>4. CASE \E discard \in BOOLEAN : ClosePushTransfer(c, discard)
  <2>1. PICK discard \in BOOLEAN : ClosePushTransfer(c, discard)
    BY <1>4
  <2> DEFINE r == IF discard THEN "Aborted" ELSE "Success"
             m == [Sentinel(r, ctx[c].crc) EXCEPT !.req = app[c].req]
  <2>2. Write(c, m) /\ Enter(c, "closeReply") /\ UNCHANGED server /\ UNCHANGED <<toClient, link, ctx, app>>
    BY <2>1 DEF ClosePushTransfer
  <2>3. r \in Results
    BY DEF Results
  <2> HIDE DEF r
  <2>4. m \in MessageType /\ m.kind = "Sentinel"
    BY <2>3, Typed, SentinelType, StampedType
  <2> HIDE DEF m
  <2>5. WireTypes'
    BY <2>2, <2>4, WrittenTypes
  <2> QED BY <2>2, <2>5, EnterType, ServerAlone DEF TInv, ClientTypes, Calls
<1> QED BY <1>1, <1>2, <1>3, <1>4

LEMMA OtherTypes ==
  ASSUME TInv, NEW c \in Clients, CloseAnswered(c) \/ GiveUp(c) \/ Connect(c) \/ Disconnect(c)
  PROVE  TInv' /\ Kept
<1>1. CASE CloseAnswered(c)
  <2>1. /\ Read(c, "closeReply") /\ Return(c) /\ UNCHANGED server /\ UNCHANGED <<toServer, link>>
        /\ \E state \in {"Idle", "Error"} : ctx' = [ctx EXCEPT ![c].state = state]
        /\ \E outcome \in {"stored", "failed"} : Told(c, outcome)
    BY <1>1 DEF CloseAnswered
  <2>2. WireTypes'
    BY <2>1, ReadTypes
  <2>3. ctx' \in [Clients -> ContextType]
    BY <2>1, StateType
  <2>4. app' \in [Clients -> AppType]
    BY <2>1, ToldType
  <2> QED BY <2>1, <2>2, <2>3, <2>4, ReturnType, ServerAlone DEF ClientTypes
<1>2. CASE GiveUp(c)
  <2> DEFINE state == IF call[c].pc = "pushReply" THEN ctx[c].state ELSE "Error"
  <2>1. /\ Return(c) /\ Told(c, "failed") /\ UNCHANGED server /\ UNCHANGED <<toServer, toClient, link>>
        /\ ctx' = [ctx EXCEPT ![c].state = state]
    BY <1>2 DEF GiveUp, wires
  <2>2. state \in {"Idle", "TransferInProgress", "Error"}
    BY Typed DEF ContextType
  <2> HIDE DEF state
  <2>3. WireTypes'
    BY <2>1, SameWires DEF TInv, WireTypes
  <2> QED BY <2>1, <2>2, <2>3, StateType, ToldType, ReturnType, ServerAlone DEF ClientTypes
<1>3. CASE Connect(c)
  <2>1. link' = [link EXCEPT ![c] = "up"] /\ UNCHANGED server /\ UNCHANGED <<toServer, toClient, ctx, call, app>>
    BY <1>3 DEF Connect, wires, client
  <2>2. WireTypes' /\ ClientTypes'
    BY <2>1, SameWires DEF TInv, WireTypes, ClientTypes
  <2> QED BY <2>1, <2>2, ServerAlone
<1>4. CASE Disconnect(c)
  <2>1. /\ link' = [link EXCEPT ![c] = "closing"] /\ ctx' = [ctx EXCEPT ![c] = NewContext] /\ Return(c)
        /\ UNCHANGED server /\ UNCHANGED <<toServer, toClient, app>>
    BY <1>4 DEF Disconnect, wires
  <2>2. WireTypes'
    BY <2>1, SameWires DEF TInv, WireTypes
  <2>3. ClientTypes'
    BY <2>1, NewContextType, ReturnType DEF TInv, ClientTypes
  <2> QED BY <2>1, <2>2, <2>3, ServerAlone
<1> QED BY <1>1, <1>2, <1>3, <1>4

LEMMA AskingTypes ==
  ASSUME TInv, NEW c \in Clients, NEW id \in Ids,
         RequestPullTransfer(c, id) \/ \E size \in PushSizes : RequestPushTransfer(c, id, size)
  PROVE  TInv' /\ Kept
<1>1. CASE RequestPullTransfer(c, id)
  BY <1>1, AskTypes DEF RequestPullTransfer, Calls
<1>2. CASE \E size \in PushSizes : RequestPushTransfer(c, id, size)
  <2>1. PICK size \in PushSizes : Ask(c, "Push", id, size % Width, "pushReply")
    BY <1>2 DEF RequestPushTransfer
  <2>2. size % Width \in Nat
    BY <2>1, TransferAssumption
  <2> QED BY <2>1, <2>2, AskTypes DEF Calls
<1> QED BY <1>1, <1>2

-----------------------------------------------------------------------------
(***************************************************************************)
(* The count of a block covers its transfers in every reachable state.     *)
(***************************************************************************)
LEMMA InitTypes == Init => TInv /\ \A b \in Blocks : Slack(b) = 0
<1> SUFFICES ASSUME Init PROVE TInv /\ \A b \in Blocks : Slack(b) = 0
  OBVIOUS
<1>1. NoBlock \in BlockType /\ NoBlock.pending = 0 /\ NoBlock.completed = TRUE
  BY EmptyData DEF NoBlock, BlockType
<1>2. NewSession \in SessionType /\ NewSession.block = None /\ Transferring(NewSession)
  BY EmptyData, NewMessageType DEF NewSession, SessionType, Transferring
<1>3. ServerTypes /\ \A c \in Clients : sess[c] = NewSession
  BY <1>1, <1>2 DEF Init, ServerTypes
<1>4. WireTypes
  BY EmptySeq DEF Init, WireTypes
<1>5. NoCall \in CallType /\ NewApp \in AppType
  BY EmptyData DEF NoCall, NewApp, CallType, AppType, Calls
<1>6. ClientTypes
  BY <1>5, NewContextType DEF Init, ClientTypes
<1>7. ASSUME NEW b \in Blocks PROVE Covered(b) /\ Slack(b) = 0
  <2>1. Users(b) = {}
    BY <1>2, <1>3, TransferAssumption DEF Users
  <2>2. Cardinality(Users(b)) = 0
    BY <2>1, FS_EmptySet
  <2>3. block[b].pending = 0 /\ block[b].completed = TRUE
    BY <1>1 DEF Init
  <2>4. Slack(b) = 0
    BY <2>2, <2>3 DEF Slack
  <2>5. Covered(b)
    BY <2>2, <2>3 DEF Covered
  <2> QED BY <2>4, <2>5
<1> QED BY <1>2, <1>3, <1>4, <1>6, <1>7 DEF TInv

LEMMA NextTypes ==
  ASSUME TInv, [Next]_vars
  PROVE  /\ TInv'
         /\ \/ \E c \in Clients : ProcessRequest(c) /\ sess[c].block # None
            \/ \A b \in Blocks : Slack(b)' = Slack(b) \/ Slack(b)' = 0
<1>1. CASE UNCHANGED vars
  <2>1. /\ block' = block /\ table' = table /\ sess' = sess /\ link' = link /\ toServer' = toServer
        /\ toClient' = toClient /\ ctx' = ctx /\ call' = call /\ app' = app
    BY <1>1 DEF vars
  <2>2. WireTypes' /\ ClientTypes' /\ UNCHANGED server
    BY <2>1 DEF TInv, WireTypes, ClientTypes, server
  <2> QED BY <2>2, ServerAlone DEF Kept
<1>2. CASE \E b \in Blocks : OpenServerBlock(b) \/ WriteAndClose(b) \/ CloseServerBlock(b)
  BY <1>2, BlockSteps
<1>3. ASSUME NEW c \in Clients, UpdateSession(c) PROVE TInv' /\ (Kept \/ (ProcessRequest(c) /\ sess[c].block # None))
  BY <1>3, ProcessRequestTypes, LateAbortTypes, UnreachableTypes, StartTypes, SendChunkTypes, StopPullTypes,
     ReceivePushTypes, SendPayloadTypes DEF UpdateSession
<1>4. ASSUME NEW c \in Clients, SessionTerminated(c) PROVE TInv' /\ Kept
  BY <1>4, TerminatedTypes
<1>5. ASSUME NEW c \in Clients, ClientStep(c) PROVE TInv' /\ Kept
  BY <1>5, PullAnsweredTypes, CopyOutTypes, FetchTypes, CheckSentinelTypes, DiscardTypes, PushAnsweredTypes,
     PushTypes, OtherTypes DEF ClientStep
<1>6. ASSUME NEW c \in Clients, NEW room \in {1, Chunk + 1}, BeginRead(c, room) PROVE TInv' /\ Kept
  <2>1. room \in Nat
    BY TransferAssumption
  <2> QED BY <1>6, <2>1, BeginReadTypes
<1>7. ASSUME NEW c \in Clients,
             \/ ChunkNotReady(c) \/ GiveUp(c) \/ Connect(c) \/ Disconnect(c) \/ AbortPullTransfer(c)
             \/ \E n \in 1..Chunk : WritePushTransferData(c, n)
             \/ \E discard \in BOOLEAN : ClosePushTransfer(c, discard)
      PROVE  TInv' /\ Kept
  BY <1>7, AbortTypes, PushTypes, OtherTypes
<1>8. ASSUME NEW c \in Clients, NEW id \in Ids,
             RequestPullTransfer(c, id) \/ \E size \in PushSizes : RequestPushTransfer(c, id, size)
      PROVE  TInv' /\ Kept
  BY <1>8, AskingTypes
<1> QED BY <1>1, <1>2, <1>3, <1>4, <1>5, <1>6, <1>7, <1>8 DEF Next, Kept

LEMMA TypesHold == Spec => []TInv
<1>1. Init => TInv
  BY InitTypes
<1>2. TInv /\ [Next]_vars => TInv'
  BY NextTypes
<1> QED BY <1>1, <1>2, PTL DEF Spec

(***************************************************************************)
(* While a session transfers a block, the block's event is not signaled:   *)
(* WaitForPendingTransfers does not return in the middle of a transfer.    *)
(* BeginTransfer and EndTransfer keep to it for every size that is asked   *)
(* for, also for one that is refused after BeginTransfer.                  *)
(***************************************************************************)
TransferHoldsBlock ==
    \A c \in Clients : sess[c].block # None => block[sess[c].block].pending > 0 /\ ~block[sess[c].block].completed

THEOREM TransfersHoldBlocks == Spec => []TransferHoldsBlock
<1>1. ASSUME TInv PROVE TransferHoldsBlock
  <2> SUFFICES ASSUME NEW c \in Clients, sess[c].block # None
               PROVE  block[sess[c].block].pending > 0 /\ ~block[sess[c].block].completed
    BY DEF TransferHoldsBlock
  <2> DEFINE b == sess[c].block
  <2>1. b \in Blocks /\ block[b].pending \in Nat
    BY <1>1, Typed, SlackType DEF TInv
  <2>2. c \in Users(b) /\ Covered(b)
    BY <1>1, <2>1 DEF Users, TInv
  <2>3. Cardinality(Users(b)) \in Nat /\ Cardinality(Users(b)) # 0
    BY <2>2, UsersFinite, FS_EmptySet
  <2>4. block[b].pending # 0
    BY <2>1, <2>2, <2>3 DEF Covered
  <2>5. ~block[b].completed
    BY <2>2, <2>4 DEF Covered
  <2> QED BY <2>1, <2>4, <2>5
<1> QED BY <1>1, TypesHold, PTL

(***************************************************************************)
(* The count is exact when no client asks for a size that is a multiple of *)
(* Width: such a push is refused after BeginTransfer and the session keeps *)
(* the block, so that its next request begins a second transfer.           *)
(***************************************************************************)
SizesAreWhole == \A size \in PushSizes : size % Width # 0

\* A session between transfers has no block, and a push has a size.
Between(s) == s.st \in {"Idle", "SendPayload"} => s.block = None
Sized(m) == m.kind = "Request" /\ m.type = "Push" => m.size # 0
XInv ==
    /\ \A c \in Clients : Between(sess[c])
    /\ \A c \in Clients : \A i \in 1..Len(toServer[c]) : Sized(toServer[c][i])
    /\ \A b \in Blocks : Slack(b) = 0

\* Where the messages to the server come from.
LEMMA ToServerSteps ==
  ASSUME TInv, [Next]_vars
  PROVE  \A d \in Clients : \A i \in 1..Len(toServer'[d]) :
            \/ \E j \in 1..Len(toServer[d]) : toServer'[d][i] = toServer[d][j]
            \/ toServer'[d][i].kind # "Request"
            \/ \E id \in Ids : RequestPullTransfer(d, id) /\ toServer'[d][i].type = "Pull"
            \/ \E id \in Ids, size \in PushSizes :
                  RequestPushTransfer(d, id, size) /\ toServer'[d][i].type = "Push" /\ toServer'[d][i].size = size % Width
<1> DEFINE P(d) == \A i \in 1..Len(toServer'[d]) :
            \/ \E j \in 1..Len(toServer[d]) : toServer'[d][i] = toServer[d][j]
            \/ toServer'[d][i].kind # "Request"
            \/ \E id \in Ids : RequestPullTransfer(d, id) /\ toServer'[d][i].type = "Pull"
            \/ \E id \in Ids, size \in PushSizes :
                  RequestPushTransfer(d, id, size) /\ toServer'[d][i].type = "Push" /\ toServer'[d][i].size = size % Width
<1>0. toServer \in [Clients -> Seq(MessageType)] /\ \A d \in Clients : toServer[d] \in Seq(MessageType)
  BY DEF TInv, WireTypes
<1>1. ASSUME NEW d \in Clients, toServer'[d] = toServer[d] PROVE P(d)
  BY <1>1
<1>2. ASSUME NEW c \in Clients, toServer[c] # <<>>, toServer' = [toServer EXCEPT ![c] = Tail(@)] PROVE \A d \in Clients : P(d)
  <2>1. \A d \in Clients : d # c => toServer'[d] = toServer[d]
    BY <1>0, <1>2
  <2>2. P(c)
    <3>1. toServer'[c] = Tail(toServer[c])
      BY <1>0, <1>2
    <3> QED BY <1>0, <1>2, <3>1, TailOf
  <2> HIDE DEF P
  <2> QED BY <1>1, <2>1, <2>2
<1>3. ASSUME NEW c \in Clients, NEW m \in MessageType, Write(c, m),
             \/ m.kind # "Request"
             \/ \E id \in Ids : RequestPullTransfer(c, id) /\ m.type = "Pull"
             \/ \E id \in Ids, size \in PushSizes :
                  RequestPushTransfer(c, id, size) /\ m.type = "Push" /\ m.size = size % Width
      PROVE  \A d \in Clients : P(d)
  <2>1. \A d \in Clients : d # c => toServer'[d] = toServer[d]
    BY <1>0, <1>3 DEF Write
  <2>2. P(c)
    <3>1. toServer'[c] = Append(toServer[c], m)
      BY <1>0, <1>3 DEF Write
    <3>2. /\ Len(toServer'[c]) = Len(toServer[c]) + 1 /\ toServer'[c][Len(toServer[c]) + 1] = m
          /\ \A i \in 1..Len(toServer[c]) : toServer'[c][i] = toServer[c][i]
      BY <1>0, <3>1, AppendOf
    <3>3. Len(toServer[c]) \in Nat
      BY <1>0
    <3>4. \A i \in 1..Len(toServer'[c]) : i \in 1..Len(toServer[c]) \/ i = Len(toServer[c]) + 1
      BY <3>2, <3>3
    <3> QED BY <1>3, <3>2, <3>4
  <2> HIDE DEF P
  <2> QED BY <1>1, <2>1, <2>2
<1>4. CASE UNCHANGED toServer
  <2>1. \A d \in Clients : toServer'[d] = toServer[d]
    BY <1>4
  <2> HIDE DEF P
  <2>2. \A d \in Clients : P(d)
    BY <1>1, <2>1
  <2> QED BY <2>2 DEF P
<1>5. ASSUME NEW c \in Clients, SessionTerminated(c) PROVE \A d \in Clients : P(d)
  <2>1. \A d \in Clients : toServer'[d] = toServer[d] \/ toServer'[d] = <<>>
    BY <1>0, <1>5 DEF SessionTerminated
  <2>2. ASSUME NEW d \in Clients, toServer'[d] = <<>> PROVE P(d)
    BY <2>2, EmptySeq
  <2> HIDE DEF P
  <2> QED BY <1>1, <2>1, <2>2
<1>6. ASSUME NEW c \in Clients, AbortPullTransfer(c), ctx[c].type = "Pull" PROVE \A d \in Clients : P(d)
  <2>1. Status("Aborted") \in MessageType /\ Status("Aborted").kind = "Status" /\ app[c].req \in Nat
    BY StatusType, Typed DEF Results
  <2>2. Write(c, [Status("Aborted") EXCEPT !.req = app[c].req])
    BY <1>6 DEF AbortPullTransfer
  <2> HIDE DEF P
  <2> QED BY <1>3, <2>1, <2>2, StampedType
<1>7. ASSUME NEW c \in Clients, ChunkSent(c) PROVE \A d \in Clients : P(d)
  <2> DEFINE m == [NewMessage EXCEPT !.kind = "Chunk", !.data = call[c].data, !.req = app[c].req]
  <2>1. m \in MessageType /\ m.kind = "Chunk"
    BY NewMessageType, Typed DEF MessageType
  <2>2. Write(c, m)
    BY <1>7 DEF ChunkSent
  <2> HIDE DEF P, m
  <2> QED BY <1>3, <2>1, <2>2
<1>8. ASSUME NEW c \in Clients, NEW discard \in BOOLEAN, ClosePushTransfer(c, discard) PROVE \A d \in Clients : P(d)
  <2> DEFINE r == IF discard THEN "Aborted" ELSE "Success"
             m == [Sentinel(r, ctx[c].crc) EXCEPT !.req = app[c].req]
  <2>1. Write(c, m)
    BY <1>8 DEF ClosePushTransfer
  <2>2. r \in Results
    BY DEF Results
  <2> HIDE DEF r
  <2>3. m \in MessageType /\ m.kind = "Sentinel"
    BY <2>2, Typed, SentinelType, StampedType
  <2> HIDE DEF P, m
  <2> QED BY <1>3, <2>1, <2>3
<1>9. ASSUME NEW c \in Clients, NEW id \in Ids, RequestPullTransfer(c, id) PROVE \A d \in Clients : P(d)
  <2> DEFINE m == [Request("Pull", id, 0) EXCEPT !.req = app[c].req + 1]
  <2>1. Write(c, m)
    BY <1>9 DEF RequestPullTransfer, Ask
  <2>2. id \in AllIds /\ app[c].req + 1 \in Nat
    BY Typed DEF AllIds
  <2>3. m \in MessageType /\ m.type = "Pull"
    BY <2>2, RequestType, StampedType
  <2> HIDE DEF P, m
  <2> QED BY <1>3, <1>9, <2>1, <2>3
<1>10. ASSUME NEW c \in Clients, NEW id \in Ids, NEW size \in PushSizes, RequestPushTransfer(c, id, size)
       PROVE  \A d \in Clients : P(d)
  <2> DEFINE m == [Request("Push", id, size % Width) EXCEPT !.req = app[c].req + 1]
  <2>1. Write(c, m)
    BY <1>10 DEF RequestPushTransfer, Ask
  <2>2. id \in AllIds /\ app[c].req + 1 \in Nat /\ size % Width \in Nat
    BY Typed, TransferAssumption DEF AllIds
  <2>3. m \in MessageType /\ m.type = "Push" /\ m.size = size % Width
    BY <2>2, RequestType, StampedType
  <2> HIDE DEF P, m
  <2> QED BY <1>3, <1>10, <2>1, <2>3
<1>11. CASE \E c \in Clients : UpdateSession(c)
  <2>1. PICK c \in Clients : UpdateSession(c)
    BY <1>11
  <2>2. \/ UNCHANGED toServer
        \/ toServer[c] # <<>> /\ toServer' = [toServer EXCEPT ![c] = Tail(@)]
    BY <2>1 DEF UpdateSession, ProcessRequest, ProcessLateAbort, ProcessUnreachable, Start, SendChunk, StopPull,
         ReceivePush, SendPayload, Receive
  <2> QED BY <1>2, <1>4, <2>2
<1>12. CASE \/ UNCHANGED vars
            \/ \E b \in Blocks : OpenServerBlock(b) \/ WriteAndClose(b) \/ CloseServerBlock(b)
            \/ \E c \in Clients :
                 \/ PullAnswered(c) \/ CopyOut(c) \/ Fetch(c) \/ CheckSentinel(c) \/ Discard(c)
                 \/ PushAnswered(c) \/ CloseAnswered(c) \/ ChunkNotReady(c) \/ GiveUp(c)
                 \/ Connect(c) \/ Disconnect(c) \/ (AbortPullTransfer(c) /\ ctx[c].type # "Pull")
                 \/ \E room \in {1, Chunk + 1} : BeginRead(c, room)
                 \/ \E n \in 1..Chunk : WritePushTransferData(c, n)
  <2>1. UNCHANGED toServer
    <3>1. ASSUME UNCHANGED vars \/ \E b \in Blocks : OpenServerBlock(b) \/ WriteAndClose(b) \/ CloseServerBlock(b)
          PROVE  UNCHANGED toServer
      BY <3>1 DEF vars, wires, OpenServerBlock, WriteAndClose, CloseServerBlock
    <3>2. ASSUME NEW c \in Clients,
                 \/ PullAnswered(c) \/ CopyOut(c) \/ Fetch(c) \/ CheckSentinel(c) \/ Discard(c)
                 \/ PushAnswered(c) \/ CloseAnswered(c) \/ ChunkNotReady(c) \/ GiveUp(c)
          PROVE  UNCHANGED toServer
      BY <3>2 DEF wires, PullAnswered, CopyOut, Fetch, CheckSentinel, Discard, PushAnswered, CloseAnswered,
           ChunkNotReady, GiveUp
    <3>3. ASSUME NEW c \in Clients,
                 \/ Connect(c) \/ Disconnect(c) \/ (AbortPullTransfer(c) /\ ctx[c].type # "Pull")
                 \/ \E room \in {1, Chunk + 1} : BeginRead(c, room)
                 \/ \E n \in 1..Chunk : WritePushTransferData(c, n)
          PROVE  UNCHANGED toServer
      BY <3>3 DEF wires, Connect, Disconnect, AbortPullTransfer, BeginRead, WritePushTransferData
    <3> QED BY <1>12, <3>1, <3>2, <3>3
  <2> QED BY <1>4, <2>1
<1> QED BY <1>5, <1>6, <1>7, <1>8, <1>9, <1>10, <1>11, <1>12 DEF Next, ClientStep

-----------------------------------------------------------------------------
(***************************************************************************)
(* What one update of a session does, by what becomes of the session.      *)
(***************************************************************************)
Good(m) == m.kind = "Sentinel" /\ m.result = "Success"

\* The transfer, if there is one, is answered: at once or by SendPayload.
Answers(c, t, m) ==
    /\ t.scratch = m /\ UNCHANGED app
    /\ \/ t.st = "SendPayload" /\ toClient' = toClient
       \/ t.st = "Idle" /\ \E n \in Nat : toClient' = [toClient EXCEPT ![c] = Append(toClient[c], [m EXCEPT !.req = n])]
    /\ \/ sess[c].st = "SendPayload" /\ m = sess[c].scratch /\ t.block = sess[c].block
       \/ /\ m.kind \in {"Sentinel", "Status"}
          /\ Good(m) => sess[c].st = "Pull" /\ m.data = sess[c].crc
          /\ \/ t.block = None
             \/ sess[c].st = "Idle" /\ t.block = sess[c].block
             \/ /\ toServer[c] # <<>> /\ Received(c).kind = "Request" /\ Received(c).type = "Push"
                /\ Received(c).size = 0
\* A message is dropped, or its data appended to the block.
Goes(c, t) ==
    /\ sess[c].st \in {"Idle", "Push"} /\ t.st = sess[c].st /\ t.block = sess[c].block
    /\ t.scratch = sess[c].scratch /\ UNCHANGED <<toClient, app>>
AcceptsPush(c, t) ==
    /\ sess[c].st = "Idle" /\ toServer[c] # <<>> /\ Received(c).kind = "Request" /\ Received(c).type = "Push"
    /\ toServer' = [toServer EXCEPT ![c] = Tail(toServer[c])]
    /\ t.st = "StartPush" /\ t.scratch.kind = "Status" /\ t.block # None /\ UNCHANGED <<toClient, app>>
AcceptsPull(c, t) ==
    /\ sess[c].st = "Idle" /\ toServer[c] # <<>> /\ Received(c).kind = "Request" /\ Received(c).type = "Pull"
    /\ toServer' = [toServer EXCEPT ![c] = Tail(toServer[c])]
    /\ t.st = "StartPull" /\ t.block \in Blocks /\ t.done = 0
    /\ block[t.block].closed /\ t.crc = block[t.block].data /\ t.total = Len(t.crc)
    /\ t.scratch.kind = "Header" /\ t.scratch.size = t.total
    /\ app' = [app EXCEPT ![c].expect = t.crc] /\ UNCHANGED toClient
Starts(c, t) ==
    /\ \/ sess[c].st = "StartPull" /\ t = [sess[c] EXCEPT !.st = "Pull"]
       \/ sess[c].st = "StartPush" /\ t = [sess[c] EXCEPT !.st = "Push"]
    /\ UNCHANGED <<toServer, app>>
    /\ \E n \in Nat : toClient' = [toClient EXCEPT ![c] = Append(toClient[c], [sess[c].scratch EXCEPT !.req = n])]
Continues(c, t) ==
    /\ sess[c].st = "Pull" /\ UNCHANGED <<toServer, app>>
    /\ \E n \in Nat, kept \in BOOLEAN, m \in MessageType :
          /\ n = (IF sess[c].total - sess[c].done < Chunk THEN sess[c].total - sess[c].done ELSE Chunk)
          /\ sess[c].done < sess[c].total /\ n <= sess[c].total - sess[c].done
          /\ t = [sess[c] EXCEPT !.done = sess[c].done + n]
          /\ m.kind = "Chunk" /\ m.data = Bytes(sess[c], n, kept)
          /\ toClient' = [toClient EXCEPT ![c] = Append(toClient[c], m)]

Updated(c) ==
    /\ link[c] = "up" /\ UNCHANGED <<link, ctx, call>>
    /\ \/ UNCHANGED toServer
       \/ toServer[c] # <<>> /\ toServer' = [toServer EXCEPT ![c] = Tail(toServer[c])]
    /\ sess[c].st # "Push" => \A b \in Blocks : block'[b].closed = block[b].closed /\ block'[b].data = block[b].data
    /\ \E t \in SessionType :
          /\ sess' = [sess EXCEPT ![c] = t]
          /\ \/ \E m \in MessageType : Answers(c, t, m)
             \/ Goes(c, t) \/ AcceptsPush(c, t) \/ AcceptsPull(c, t) \/ Starts(c, t) \/ Continues(c, t)

LEMMA AnswerOf ==
  ASSUME TInv, NEW c \in Clients, NEW s \in SessionType, NEW m \in MessageType, NEW t \in SessionType,
         Answered(c, s, m, t), UNCHANGED app,
         \/ sess[c].st = "SendPayload" /\ m = sess[c].scratch /\ s.block = sess[c].block
         \/ /\ m.kind \in {"Sentinel", "Status"}
            /\ Good(m) => sess[c].st = "Pull" /\ m.data = sess[c].crc
            /\ \/ s.block = None
               \/ sess[c].st = "Idle" /\ s.block = sess[c].block
               \/ /\ toServer[c] # <<>> /\ Received(c).kind = "Request" /\ Received(c).type = "Push"
                  /\ Received(c).size = 0
  PROVE  Answers(c, t, m)
<1>1. s.req \in Nat
  BY DEF SessionType
<1>2. \/ t.st = "SendPayload" /\ toClient' = toClient
      \/ t.st = "Idle" /\ \E n \in Nat : toClient' = [toClient EXCEPT ![c] = Append(toClient[c], [m EXCEPT !.req = n])]
  BY <1>1, Zenon DEF Answered
<1>3. t.scratch = m /\ t.block = s.block
  BY DEF Answered
<1> QED BY <1>2, <1>3, Zenon DEF Answers

LEMMA RequestUpdates ==
  ASSUME TInv, NEW c \in Clients, ProcessRequest(c)
  PROVE  Updated(c)
<1>1. /\ link[c] = "up" /\ sess[c].st = "Idle" /\ UNCHANGED <<table, link, ctx, call>>
      /\ toServer[c] # <<>> /\ toServer' = [toServer EXCEPT ![c] = Tail(toServer[c])]
      /\ Received(c) \in MessageType /\ Received(c).kind = "Request"
  BY ProcessRequestCases
<1>2. Status("Error") \in MessageType /\ Status("Error").kind = "Status"
  BY StatusType DEF Results
<1>3. CASE /\ UNCHANGED <<block, app>>
           /\ \E s \in SessionType : s.block = sess[c].block /\ SendScratch(c, s, Status("Error"))
  <2>1. PICK s \in SessionType : s.block = sess[c].block /\ SendScratch(c, s, Status("Error"))
    BY <1>3
  <2>2. PICK t \in SessionType : Answered(c, s, Status("Error"), t)
    BY <1>2, <2>1, ScratchStep
  <2>3. Answers(c, t, Status("Error"))
    BY <1>1, <1>2, <1>3, <2>1, <2>2, AnswerOf DEF Good
  <2> QED BY <1>1, <1>2, <1>3, <2>2, <2>3 DEF Updated, Answered
<1>4. ASSUME NEW b \in Blocks, block' = [block EXCEPT ![b] = BeginTransfer(@)],
             \/ \E s \in SessionType : /\ s.block = b /\ SendScratch(c, s, Status("Error")) /\ UNCHANGED app
                                       /\ Received(c).type = "Push" /\ Received(c).size = 0
             \/ \E t \in SessionType :
                   /\ sess' = [sess EXCEPT ![c] = t] /\ UNCHANGED <<toClient, app>>
                   /\ t.st = "StartPush" /\ t.block = b /\ t.done = 0
                   /\ t.scratch = Status("Success") /\ Received(c).type = "Push"
             \/ \E t \in SessionType :
                   /\ sess' = [sess EXCEPT ![c] = t] /\ UNCHANGED toClient
                   /\ t.st = "StartPull" /\ t.block = b /\ t.done = 0 /\ t.crc = block[b].data
                   /\ t.total = Len(block[b].data) /\ Received(c).type = "Pull" /\ block[b].closed
                   /\ t.scratch.kind = "Header" /\ t.scratch.size = Len(block[b].data)
                   /\ app' = [app EXCEPT ![c].expect = block[b].data]
      PROVE  Updated(c)
  <2>1. \A x \in Blocks : block'[x].closed = block[x].closed /\ block'[x].data = block[x].data
    <3>1. block \in [Blocks -> BlockType] /\ block[b] \in BlockType
      BY DEF TInv, ServerTypes
    <3>2. BeginTransfer(block[b]).closed = block[b].closed /\ BeginTransfer(block[b]).data = block[b].data
      BY <3>1 DEF BeginTransfer, BlockType
    <3> QED BY <1>4, <3>1, <3>2
  <2>2. CASE \E s \in SessionType : /\ s.block = b /\ SendScratch(c, s, Status("Error")) /\ UNCHANGED app
                                       /\ Received(c).type = "Push" /\ Received(c).size = 0
    <3>1. PICK s \in SessionType : /\ s.block = b /\ SendScratch(c, s, Status("Error")) /\ UNCHANGED app
                                   /\ Received(c).type = "Push" /\ Received(c).size = 0
      BY <2>2
    <3>2. PICK t \in SessionType : Answered(c, s, Status("Error"), t)
      BY <1>2, <3>1, ScratchStep
    <3>3. Answers(c, t, Status("Error"))
      BY <1>1, <1>2, <3>1, <3>2, AnswerOf DEF Good
    <3> QED BY <1>1, <1>2, <2>1, <3>2, <3>3 DEF Updated, Answered
  <2>3. CASE \E t \in SessionType :
                   /\ sess' = [sess EXCEPT ![c] = t] /\ UNCHANGED <<toClient, app>>
                   /\ t.st = "StartPush" /\ t.block = b /\ t.done = 0
                   /\ t.scratch = Status("Success") /\ Received(c).type = "Push"
    <3>1. PICK t \in SessionType :
                   /\ sess' = [sess EXCEPT ![c] = t] /\ UNCHANGED <<toClient, app>>
                   /\ t.st = "StartPush" /\ t.block = b /\ t.done = 0
                   /\ t.scratch = Status("Success") /\ Received(c).type = "Push"
      BY <2>3
    <3>2. t.scratch.kind = "Status" /\ t.block # None
      BY <3>1, StatusType, TransferAssumption DEF Results
    <3>3. AcceptsPush(c, t)
      BY <1>1, <3>1, <3>2 DEF AcceptsPush
    <3> QED BY <1>1, <2>1, <3>1, <3>3 DEF Updated
  <2>4. CASE \E t \in SessionType :
                   /\ sess' = [sess EXCEPT ![c] = t] /\ UNCHANGED toClient
                   /\ t.st = "StartPull" /\ t.block = b /\ t.done = 0 /\ t.crc = block[b].data
                   /\ t.total = Len(block[b].data) /\ Received(c).type = "Pull" /\ block[b].closed
                   /\ t.scratch.kind = "Header" /\ t.scratch.size = Len(block[b].data)
                   /\ app' = [app EXCEPT ![c].expect = block[b].data]
    <3>1. PICK t \in SessionType :
                   /\ sess' = [sess EXCEPT ![c] = t] /\ UNCHANGED toClient
                   /\ t.st = "StartPull" /\ t.block = b /\ t.done = 0 /\ t.crc = block[b].data
                   /\ t.total = Len(block[b].data) /\ Received(c).type = "Pull" /\ block[b].closed
                   /\ t.scratch.kind = "Header" /\ t.scratch.size = Len(block[b].data)
                   /\ app' = [app EXCEPT ![c].expect = block[b].data]
      BY <2>4
    <3>2. AcceptsPull(c, t)
      BY <1>1, <3>1 DEF AcceptsPull
    <3> QED BY <1>1, <2>1, <3>1, <3>2 DEF Updated
  <2> QED BY <1>4, <2>2, <2>3, <2>4
<1> QED BY <1>3, <1>4, ProcessRequestCases

LEMMA SentinelUpdates ==
  ASSUME TInv, NEW c \in Clients, NEW n \in Nat, NEW result \in Results, NEW crc \in Seq(Datum),
         SendSentinel(c, [sess[c] EXCEPT !.req = n], result, crc), UNCHANGED app,
         result = "Success" => sess[c].st = "Pull" /\ crc = sess[c].crc
  PROVE  /\ \A b \in Blocks : block'[b].closed = block[b].closed /\ block'[b].data = block[b].data
         /\ \E t \in SessionType : sess' = [sess EXCEPT ![c] = t] /\ \E m \in MessageType : Answers(c, t, m)
<1>1. PICK s, t \in SessionType : s.block = None /\ Answered(c, s, Sentinel(result, crc), t)
  BY SentinelStep
<1>2. /\ Sentinel(result, crc) \in MessageType /\ Sentinel(result, crc).kind = "Sentinel"
      /\ Sentinel(result, crc).result = result /\ Sentinel(result, crc).data = crc
  BY SentinelType
<1>3. Answers(c, t, Sentinel(result, crc))
  BY <1>1, <1>2, AnswerOf DEF Good
<1>4. sess' = [sess EXCEPT ![c] = t]
  BY <1>1 DEF Answered
<1>5. \A b \in Blocks : block'[b].closed = block[b].closed /\ block'[b].data = block[b].data
  BY SentinelStep
<1> QED BY <1>1, <1>2, <1>3, <1>4, <1>5

LEMMA SameRequest ==
  ASSUME TInv, NEW c \in Clients
  PROVE  sess[c] = [sess[c] EXCEPT !.req = sess[c].req] /\ sess[c].req \in Nat
<1>1. sess[c] \in SessionType
  BY Typed
<1> QED BY <1>1 DEF SessionType

LEMMA UpdateCases ==
  ASSUME TInv, NEW c \in Clients, UpdateSession(c)
  PROVE  Updated(c)
<1>1. CASE ProcessRequest(c)
  BY <1>1, RequestUpdates
<1>2. CASE ProcessLateAbort(c)
  <2>1. /\ SendSentinel(c, [sess[c] EXCEPT !.req = Received(c).req], "Aborted", <<>>)
        /\ link[c] = "up" /\ sess[c].st = "Idle" /\ UNCHANGED <<link, ctx, call, app>>
        /\ toServer[c] # <<>> /\ toServer' = [toServer EXCEPT ![c] = Tail(toServer[c])]
    BY <1>2 DEF ProcessLateAbort, Receive, Serving, client
  <2>2. Received(c).req \in Nat
    <3>1. Received(c) \in MessageType
      BY <2>1, Typed, TailOf DEF Received
    <3> QED BY <3>1, MessageFields
  <2>3. /\ \A b \in Blocks : block'[b].closed = block[b].closed /\ block'[b].data = block[b].data
        /\ \E t \in SessionType : sess' = [sess EXCEPT ![c] = t] /\ \E m \in MessageType : Answers(c, t, m)
    BY <2>1, <2>2, SentinelUpdates, EmptyData DEF Results
  <2> QED BY <2>1, <2>3 DEF Updated
<1>3. CASE ProcessUnreachable(c)
  <2>1. /\ link[c] = "up" /\ sess[c].st = "Idle" /\ UNCHANGED <<link, ctx, call, app, toClient, block, sess>>
        /\ toServer[c] # <<>> /\ toServer' = [toServer EXCEPT ![c] = Tail(toServer[c])]
    BY <1>3 DEF ProcessUnreachable, Receive, Serving, client, server
  <2>2. sess[c] \in SessionType /\ sess' = [sess EXCEPT ![c] = sess[c]]
    BY <2>1, Typed DEF TInv, ServerTypes
  <2>3. Goes(c, sess[c])
    BY <2>1 DEF Goes
  <2> QED BY <2>1, <2>2, <2>3 DEF Updated
<1>4. CASE Start(c)
  <2>0. sess[c] \in SessionType /\ sess \in [Clients -> SessionType]
    BY Typed DEF TInv, ServerTypes
  <2>1. /\ link[c] = "up" /\ UNCHANGED <<link, ctx, call, app, toServer, block>>
        /\ Send(c, sess[c], sess[c].scratch)
        /\ sess' = [sess EXCEPT ![c].st = IF @ = "StartPull" THEN "Pull" ELSE "Push"]
        /\ sess[c].st \in {"StartPull", "StartPush"}
    BY <1>4 DEF Start, Serving, client
  <2>2. /\ sess[c].req \in Nat
        /\ toClient' = [toClient EXCEPT ![c] = Append(toClient[c], [sess[c].scratch EXCEPT !.req = sess[c].req])]
    BY <2>1, Typed DEF Send
  <2> DEFINE t == [sess[c] EXCEPT !.st = IF sess[c].st = "StartPull" THEN "Pull" ELSE "Push"]
  <2>3. t \in SessionType /\ sess' = [sess EXCEPT ![c] = t]
    BY <2>0, <2>1 DEF SessionType
  <2>4. Starts(c, t)
    BY <2>1, <2>2 DEF Starts
  <2> HIDE DEF t
  <2> QED BY <2>1, <2>3, <2>4 DEF Updated
<1>5. CASE SendChunk(c)
  <2>1. link[c] = "up" /\ sess[c].st = "Pull" /\ UNCHANGED <<toServer, link, ctx, call, app>>
    BY <1>5, SendChunkCases
  <2>2. CASE SendSentinel(c, sess[c], "Success", sess[c].crc)
    <3>1. SendSentinel(c, [sess[c] EXCEPT !.req = sess[c].req], "Success", sess[c].crc)
      BY <2>2, SameRequest
    <3>2. /\ \A b \in Blocks : block'[b].closed = block[b].closed /\ block'[b].data = block[b].data
          /\ \E t \in SessionType : sess' = [sess EXCEPT ![c] = t] /\ \E m \in MessageType : Answers(c, t, m)
      BY <2>1, <3>1, SentinelUpdates, Typed DEF Results
    <3> QED BY <2>1, <3>2 DEF Updated
  <2>3. CASE /\ UNCHANGED block
               /\ \E n \in Nat, kept \in BOOLEAN, t \in SessionType, m \in MessageType :
                     /\ n = (IF sess[c].total - sess[c].done < Chunk THEN sess[c].total - sess[c].done ELSE Chunk)
                     /\ sess[c].done < sess[c].total /\ n <= sess[c].total - sess[c].done
                     /\ sess' = [sess EXCEPT ![c] = t]
                     /\ t = [sess[c] EXCEPT !.done = sess[c].done + n]
                     /\ m.kind = "Chunk" /\ m.data = Bytes(sess[c], n, kept)
                     /\ Send(c, sess[c], m)
    <3>1. PICK n \in Nat, kept \in BOOLEAN, t \in SessionType, m \in MessageType :
                     /\ n = (IF sess[c].total - sess[c].done < Chunk THEN sess[c].total - sess[c].done ELSE Chunk)
                     /\ sess[c].done < sess[c].total /\ n <= sess[c].total - sess[c].done
                     /\ sess' = [sess EXCEPT ![c] = t]
                     /\ t = [sess[c] EXCEPT !.done = sess[c].done + n]
                     /\ m.kind = "Chunk" /\ m.data = Bytes(sess[c], n, kept)
                     /\ Send(c, sess[c], m)
      BY <2>3
    <3>2. PICK w \in MessageType : w = [m EXCEPT !.req = sess[c].req]
      BY <3>1, Typed, StampedType
    <3>3. w.kind = "Chunk" /\ w.data = Bytes(sess[c], n, kept)
      BY <3>1, <3>2, Typed, StampedType
    <3>4. toClient' = [toClient EXCEPT ![c] = Append(toClient[c], w)]
      BY <3>1, <3>2 DEF Send
    <3>5. Continues(c, t)
      BY <2>1, <3>1, <3>2, <3>3, <3>4, Zenon DEF Continues
    <3> QED BY <2>1, <2>3, <3>1, <3>5 DEF Updated
  <2> QED BY <1>5, <2>2, <2>3, SendChunkCases
<1>6. CASE StopPull(c)
  <2> DEFINE r == IF Received(c).kind = "Status" THEN "Aborted" ELSE "Error"
  <2>1. /\ SendSentinel(c, sess[c], r, <<>>)
        /\ link[c] = "up" /\ sess[c].st = "Pull" /\ UNCHANGED <<link, ctx, call, app>>
        /\ toServer[c] # <<>> /\ toServer' = [toServer EXCEPT ![c] = Tail(toServer[c])]
    BY <1>6 DEF StopPull, Receive, Serving, client
  <2>2. r \in Results /\ r # "Success"
    BY DEF Results
  <2> HIDE DEF r
  <2>3. SendSentinel(c, [sess[c] EXCEPT !.req = sess[c].req], r, <<>>)
    BY <2>1, SameRequest
  <2>4. /\ \A b \in Blocks : block'[b].closed = block[b].closed /\ block'[b].data = block[b].data
        /\ \E t \in SessionType : sess' = [sess EXCEPT ![c] = t] /\ \E m \in MessageType : Answers(c, t, m)
    BY <2>1, <2>2, <2>3, SentinelUpdates, SameRequest, EmptyData
  <2> QED BY <2>1, <2>4 DEF Updated
<1>7. CASE ReceivePush(c)
  <2>1. /\ link[c] = "up" /\ sess[c].st = "Push" /\ sess[c].block \in Blocks /\ UNCHANGED <<link, ctx, call, app>>
        /\ toServer[c] # <<>> /\ toServer' = [toServer EXCEPT ![c] = Tail(toServer[c])]
    BY <1>7, ReceivePushCases
  <2>2. ASSUME NEW n \in Nat, sess' = [sess EXCEPT ![c].done = @ + n], UNCHANGED toClient PROVE Updated(c)
    <3>0. sess[c] \in SessionType /\ sess \in [Clients -> SessionType]
      BY Typed DEF TInv, ServerTypes
    <3> DEFINE t == [sess[c] EXCEPT !.done = sess[c].done + n]
    <3>a. sess[c].done + n \in Nat
      BY Typed
    <3>1. t \in SessionType /\ t.st = "Push" /\ t.block = sess[c].block /\ t.scratch = sess[c].scratch
      BY <2>1, <3>0, <3>a DEF SessionType
    <3>2. sess' = [sess EXCEPT ![c] = t]
      BY <2>2, <3>0
    <3> HIDE DEF t
    <3>3. Goes(c, t)
      BY <2>1, <2>2, <3>1 DEF Goes
    <3> QED BY <2>1, <3>1, <3>2, <3>3 DEF Updated
  <2>3. ASSUME NEW A \in BlockType, NEW result \in Results, A.pending = block[sess[c].block].pending,
               A.completed = block[sess[c].block].completed,
               block' = [block EXCEPT ![sess[c].block] = EndTransfer(A)],
               SendScratch(c, [sess[c] EXCEPT !.block = None], Status(result))
        PROVE  Updated(c)
    <3>1. PICK s, t \in SessionType : s.block = None /\ Answered(c, s, Status(result), t)
      BY <2>1, <2>3, CancelStep, TransferAssumption
    <3>2. Status(result) \in MessageType /\ Status(result).kind = "Status"
      BY StatusType
    <3>3. Answers(c, t, Status(result))
      BY <2>1, <3>1, <3>2, AnswerOf DEF Good
    <3> QED BY <2>1, <3>1, <3>2, <3>3 DEF Updated, Answered
  <2> QED BY <1>7, <2>2, <2>3, ReceivePushCases
<1>8. CASE SendPayload(c)
  <2>1. /\ link[c] = "up" /\ sess[c].st = "SendPayload" /\ UNCHANGED <<link, ctx, call, app, toServer, block>>
        /\ SendScratch(c, sess[c], sess[c].scratch)
    BY <1>8 DEF SendPayload, Serving, client
  <2>2. sess[c] \in SessionType /\ sess[c].scratch \in MessageType
    BY Typed
  <2>3. PICK t \in SessionType : Answered(c, sess[c], sess[c].scratch, t)
    BY <2>1, <2>2, ScratchStep
  <2>4. Answers(c, t, sess[c].scratch)
    BY <2>1, <2>2, <2>3, AnswerOf
  <2> QED BY <2>1, <2>2, <2>3, <2>4 DEF Updated, Answered
<1> QED BY <1>1, <1>2, <1>3, <1>4, <1>5, <1>6, <1>7, <1>8 DEF UpdateSession

-----------------------------------------------------------------------------
(***************************************************************************)
(* The count is exact.                                                     *)
(***************************************************************************)
\* The steps of a client.
ClientAction(c) ==
    \/ ClientStep(c) \/ ChunkNotReady(c) \/ GiveUp(c)
    \/ Connect(c) \/ Disconnect(c) \/ AbortPullTransfer(c)
    \/ \E room \in {1, Chunk + 1} : BeginRead(c, room)
    \/ \E n \in 1..Chunk : WritePushTransferData(c, n)
    \/ \E discard \in BOOLEAN : ClosePushTransfer(c, discard)
    \/ \E id \in Ids :
          \/ RequestPullTransfer(c, id)
          \/ \E size \in PushSizes : RequestPushTransfer(c, id, size)

LEMMA ClientAlone ==
  ASSUME NEW c \in Clients, ClientAction(c)
  PROVE  block' = block /\ sess' = sess
<1>1. UNCHANGED server
  <2>1. CASE ClientStep(c)
    BY <2>1 DEF ClientStep, PullAnswered, CopyOut, Fetch, CheckSentinel, Discard, PushAnswered, ChunkSent, CloseAnswered
  <2>2. CASE ChunkNotReady(c) \/ GiveUp(c) \/ Connect(c) \/ Disconnect(c) \/ AbortPullTransfer(c)
    BY <2>2 DEF ChunkNotReady, GiveUp, Connect, Disconnect, AbortPullTransfer
  <2>3. CASE \E room \in {1, Chunk + 1} : BeginRead(c, room)
    BY <2>3 DEF BeginRead
  <2>4. CASE \E n \in 1..Chunk : WritePushTransferData(c, n)
    BY <2>4 DEF WritePushTransferData
  <2>5. CASE \E discard \in BOOLEAN : ClosePushTransfer(c, discard)
    BY <2>5 DEF ClosePushTransfer
  <2>6. CASE \E id \in Ids : RequestPullTransfer(c, id) \/ \E size \in PushSizes : RequestPushTransfer(c, id, size)
    BY <2>6 DEF RequestPullTransfer, RequestPushTransfer, Ask
  <2> QED BY <2>1, <2>2, <2>3, <2>4, <2>5, <2>6 DEF ClientAction
<1> QED BY <1>1 DEF server

LEMMA NextCases ==
  ASSUME [Next]_vars
  PROVE  \/ UNCHANGED vars
         \/ \E b \in Blocks : OpenServerBlock(b) \/ WriteAndClose(b) \/ CloseServerBlock(b)
         \/ \E c \in Clients : UpdateSession(c) \/ SessionTerminated(c) \/ ClientAction(c)
BY Zenon DEF Next, ClientAction

LEMMA SizedKept ==
  ASSUME SizesAreWhole, TInv, XInv, [Next]_vars
  PROVE  \A c \in Clients : \A i \in 1..Len(toServer'[c]) : Sized(toServer'[c][i])
<1> SUFFICES ASSUME NEW c \in Clients, NEW i \in 1..Len(toServer'[c]) PROVE Sized(toServer'[c][i])
  OBVIOUS
<1>1. CASE \E j \in 1..Len(toServer[c]) : toServer'[c][i] = toServer[c][j]
  BY <1>1 DEF XInv
<1>2. CASE \E id \in Ids, size \in PushSizes :
              RequestPushTransfer(c, id, size) /\ toServer'[c][i].type = "Push" /\ toServer'[c][i].size = size % Width
  BY <1>2 DEF SizesAreWhole, Sized
<1>3. CASE toServer'[c][i].kind # "Request" \/ toServer'[c][i].type = "Pull"
  BY <1>3 DEF Sized
<1> QED BY <1>1, <1>2, <1>3, ToServerSteps

LEMMA BetweenKept ==
  ASSUME TInv, XInv, [Next]_vars
  PROVE  \A c \in Clients : Between(sess'[c])
<1> SUFFICES ASSUME NEW d \in Clients PROVE Between(sess'[d])
  OBVIOUS
<1>0. sess \in [Clients -> SessionType] /\ Between(sess[d])
  BY DEF TInv, ServerTypes, XInv
<1>1. ASSUME NEW c \in Clients, UpdateSession(c) PROVE Between(sess'[d])
  <2>1. Updated(c)
    BY <1>1, UpdateCases
  <2>2. PICK t \in SessionType :
          /\ sess' = [sess EXCEPT ![c] = t]
          /\ \/ \E m \in MessageType : Answers(c, t, m)
             \/ Goes(c, t) \/ AcceptsPush(c, t) \/ AcceptsPull(c, t) \/ Starts(c, t) \/ Continues(c, t)
    BY <2>1 DEF Updated
  <2>3. Between(sess[c]) /\ sess[c] \in SessionType
    BY <1>0 DEF XInv
  <2>4. Between(t)
    <3>1. CASE \E m \in MessageType : Answers(c, t, m)
      <4>1. toServer[c] # <<>> /\ Received(c).kind = "Request" /\ Received(c).type = "Push" => Received(c).size # 0
        <5> SUFFICES ASSUME toServer[c] # <<>> PROVE Sized(Received(c))
          BY DEF Sized
        <5>1. Received(c) = toServer[c][1] /\ 1 \in 1..Len(toServer[c])
          BY Typed, TailOf DEF Received
        <5> QED BY <5>1 DEF XInv
      <4>2. t.block = None \/ (sess[c].st \in {"Idle", "SendPayload"} /\ t.block = sess[c].block)
        BY <3>1, <4>1, Zenon DEF Answers
      <4> QED BY <2>3, <4>2 DEF Between
    <3>2. CASE Goes(c, t)
      BY <2>3, <3>2 DEF Goes, Between
    <3>3. CASE AcceptsPush(c, t) \/ AcceptsPull(c, t)
      BY <3>3 DEF AcceptsPush, AcceptsPull, Between
    <3>4. CASE Starts(c, t)
      <4>1. t.st \in {"Pull", "Push"}
        BY <2>3, <3>4 DEF Starts, SessionType
      <4> QED BY <4>1 DEF Between
    <3>5. CASE Continues(c, t)
      <4>1. t.st = "Pull"
        BY <2>3, <3>5 DEF Continues, SessionType
      <4> QED BY <4>1 DEF Between
    <3> QED BY <2>2, <3>1, <3>2, <3>3, <3>4, <3>5
  <2>5. sess'[d] = t \/ sess'[d] = sess[d]
    BY <1>0, <2>2
  <2> QED BY <1>0, <2>4, <2>5
<1>2. ASSUME NEW c \in Clients, SessionTerminated(c) PROVE Between(sess'[d])
  <2>1. sess' = [sess EXCEPT ![c] = NewSession]
    BY <1>2 DEF SessionTerminated
  <2>2. sess'[d] = NewSession \/ sess'[d] = sess[d]
    BY <1>0, <2>1
  <2> QED BY <1>0, <2>2 DEF Between, NewSession
<1>3. CASE UNCHANGED sess
  BY <1>0, <1>3
<1>4. \/ UNCHANGED sess
      \/ \E c \in Clients : UpdateSession(c) \/ SessionTerminated(c)
  BY NextCases, ClientAlone DEF vars, OpenServerBlock, WriteAndClose, CloseServerBlock
<1> QED BY <1>1, <1>2, <1>3, <1>4

LEMMA ExactStep ==
  ASSUME SizesAreWhole, TInv, XInv, [Next]_vars
  PROVE  XInv'
<1>1. \A c \in Clients : \A i \in 1..Len(toServer'[c]) : Sized(toServer'[c][i])
  BY SizedKept
<1>2. \A c \in Clients : Between(sess'[c])
  BY BetweenKept
<1>3. \A b \in Blocks : Slack(b)' = 0
  <2>1. \A c \in Clients : ProcessRequest(c) => sess[c].block = None
    BY DEF ProcessRequest, Receive, Serving, XInv, Between
  <2>2. \A b \in Blocks : Slack(b)' = Slack(b) \/ Slack(b)' = 0
    BY <2>1, NextTypes
  <2> QED BY <2>2 DEF XInv
<1> QED BY <1>1, <1>2, <1>3 DEF XInv

(***************************************************************************)
(* PendingIsExact: the count of a block is the number of sessions that     *)
(* transfer it, whoever aborts, times out or disconnects, and its event is *)
(* signaled exactly when there is none.  BeginTransfer and EndTransfer are *)
(* called in pairs on every path but the one SizesAreWhole leaves out.     *)
(***************************************************************************)
THEOREM CountIsExact == SizesAreWhole => (Spec => []PendingIsExact)
<1> SUFFICES ASSUME SizesAreWhole PROVE Spec => []PendingIsExact
  OBVIOUS
<1>1. Init => XInv
  <2> SUFFICES ASSUME Init PROVE XInv
    OBVIOUS
  <2>1. \A c \in Clients : Between(sess[c])
    BY DEF Init, NewSession, Between
  <2>2. \A c \in Clients : \A i \in 1..Len(toServer[c]) : Sized(toServer[c][i])
    BY EmptySeq DEF Init
  <2> QED BY <2>1, <2>2, InitTypes DEF XInv
<1>2. TInv /\ XInv /\ [Next]_vars => XInv'
  BY ExactStep
<1>3. TInv /\ XInv => PendingIsExact
  <2> SUFFICES ASSUME TInv, XInv, NEW b \in Blocks
               PROVE  /\ block[b].pending = Cardinality({c \in Clients : sess[c].block = b})
                      /\ block[b].completed <=> block[b].pending = 0
    BY DEF PendingIsExact
  <2>1. Slack(b) = 0 /\ Covered(b) /\ block[b].pending \in Nat /\ Cardinality(Users(b)) \in Nat
    BY SlackType, UsersFinite DEF TInv, XInv
  <2>2. block[b].pending = Cardinality(Users(b))
    BY <2>1 DEF Slack
  <2> QED BY <2>1, <2>2 DEF Covered, Users
<1> QED BY <1>1, <1>2, <1>3, TypesHold, PTL DEF Spec

-----------------------------------------------------------------------------
(***************************************************************************)
(* What a client reads.  The invariant is local to a client and its        *)
(* session: ts and tc are the messages to the server and to the client, s  *)
(* the session, x the context, k the call, a the application, l the link,  *)
(* and e the data that the client is to read.                              *)
(***************************************************************************)
IsPull(m) == m.kind = "Request" /\ m.type = "Pull"
MinOf(i, j) == IF i < j THEN i ELSE j
At(n) == n * Chunk
\* The chunk of the data e that begins after n elements.
Piece(e, n) == SubSeq(e, n + 1, MinOf(n + Chunk, Len(e)))

\* No pull is asked for, accepted or about to be answered.
NoPull(ts, tc, s) ==
    /\ \A i \in 1..Len(ts) : ~IsPull(ts[i])
    /\ s.st # "StartPull"
    /\ \A i \in 1..Len(tc) : tc[i].kind # "Header"

\* The older version does not check the CRC: its chunks are in order, and the
\* f elements before them have been read.
InOrder(tc, s, e, h, f) ==
    /\ \A j \in h + 1..Len(tc) : tc[j].kind = "Chunk" =>
          f + At(j - h - 1) < Len(e) /\ tc[j].data = Piece(e, f + At(j - h - 1))
    /\ s.st = "Pull" => s.done = MinOf(s.total, f + At(Len(tc) - h))

\* After message h, a sentinel that ends a pull ends the pull of e.
Current(tc, s, e, h, f) ==
    /\ \A j \in h + 1..Len(tc) : Good(tc[j]) => tc[j].data = e
    /\ s.st = "Pull" => s.crc = e
    /\ s.st = "SendPayload" /\ Good(s.scratch) => s.scratch.data = e
    /\ ~Refactored => InOrder(tc, s, e, h, f)

\* A pull that has been asked for is in one place: the request, the session
\* that has accepted it, or the header.
Asking(ts, tc, s, e) ==
    /\ \A i \in 1..Len(ts) : IsPull(ts[i]) =>
          /\ \A j \in 1..Len(ts) : IsPull(ts[j]) => i = j
          /\ s.st # "StartPull"
          /\ \A j \in 1..Len(tc) : tc[j].kind # "Header"
    /\ s.st = "StartPull" => (\A j \in 1..Len(tc) : tc[j].kind # "Header") /\ s.crc = e
    /\ \A i \in 1..Len(tc) : tc[i].kind = "Header" =>
          /\ \A j \in 1..Len(tc) : tc[j].kind = "Header" => i = j
          /\ tc[i].size = Len(e)
          /\ Current(tc, s, e, i, 0)

Pulling(x, a) == x.state = "TransferInProgress" /\ a.op = "Pull"
\* What the client has read, and what it has yet to read.
Pulled(x, k, a) ==
    /\ a.outcome = "none"
    /\ a.data \o x.chunk = x.crc
    /\ x.total + Len(x.crc) = Len(a.expect)
    /\ x.total = 0 /\ k.pc # "sentinel" => x.crc = a.expect
    /\ k.pc = "reading" /\ x.total = 0 => x.chunk # <<>>
    /\ k.pc = "sentinel" => x.total = 0 /\ x.chunk # <<>>
    /\ ~Refactored => x.crc = SubSeq(a.expect, 1, Len(x.crc))

CallOK(ts, tc, s, x, k, a, l) ==
    /\ l = "down" => ts = <<>> /\ tc = <<>> /\ s = NewSession
    /\ l # "up" => x = NewContext /\ k = NoCall
    /\ x.state = "Error" => a.outcome = "failed" /\ k.pc = "none"
    /\ a.op = "Push" => a.outcome # "read"
    /\ k.pc = "pullReply" => a.op = "Pull" /\ x.state = "Idle" /\ a.outcome = "none" /\ a.data = <<>>
    /\ k.pc \in {"reading", "sentinel", "aborting"} => Pulling(x, a)
    /\ k.pc = "pushReply" => a.op = "Push" /\ x.state = "Idle"
    /\ k.pc \in {"writing", "closeReply"} => a.op = "Push"
    /\ a.outcome = "read" => a.data = a.expect

PullOK(ts, tc, s, x, k, a) ==
    /\ x.state # "Error" /\ k.pc # "pullReply" => NoPull(ts, tc, s)
    /\ k.pc = "pullReply" => Asking(ts, tc, s, a.expect)
    /\ Pulling(x, a) => Pulled(x, k, a)
    /\ Pulling(x, a) /\ k.pc # "aborting" => Current(tc, s, a.expect, 0, Len(x.crc))

LocalInv(ts, tc, s, x, k, a, l) ==
    CallOK(ts, tc, s, x, k, a, l) /\ (l = "up" => PullOK(ts, tc, s, x, k, a))

\* What a session has prepared to send.
Prepared(s) ==
    /\ s.st = "StartPull" => s.scratch.kind = "Header" /\ s.scratch.size = s.total /\ s.done = 0
    /\ s.st = "StartPush" => s.scratch.kind = "Status"
    /\ s.st = "SendPayload" => s.scratch.kind \in {"Sentinel", "Status"}
\* The older version has no push, so that a block does not change while it is pulled.
NoPush(ts, s) ==
    /\ s.st \notin {"StartPush", "Push"}
    /\ \A i \in 1..Len(ts) : ts[i].kind = "Request" => ts[i].type = "Pull"
Frozen(B, s) == s.st \in {"StartPull", "Pull"} => B[s.block].closed /\ B[s.block].data = s.crc

PInv ==
    /\ \A c \in Clients : Prepared(sess[c])
    /\ ~Refactored => \A c \in Clients : NoPush(toServer[c], sess[c]) /\ Frozen(block, sess[c])
    /\ \A c \in Clients : LocalInv(toServer[c], toClient[c], sess[c], ctx[c], call[c], app[c], link[c])

LEMMA AtFacts ==
  /\ Chunk \in Nat \ {0} /\ At(0) = 0
  /\ \A n \in Nat : At(n) \in Nat /\ At(n + 1) = At(n) + Chunk /\ (n # 0 => At(n) >= Chunk)
<1>1. Chunk \in Nat \ {0}
  BY TransferAssumption
<1>2. ASSUME NEW n \in Nat PROVE n * Chunk \in Nat /\ (n + 1) * Chunk = n * Chunk + Chunk
  BY <1>1
<1>3. ASSUME NEW n \in Nat, n # 0 PROVE n * Chunk >= Chunk
  <2>1. n - 1 \in Nat /\ n = (n - 1) + 1
    BY <1>3
  <2>2. n * Chunk = (n - 1) * Chunk + Chunk /\ (n - 1) * Chunk \in Nat
    BY <1>2, <2>1
  <2> QED BY <1>1, <2>2
<1>4. 0 * Chunk = 0
  BY <1>1
<1> QED BY <1>1, <1>2, <1>3, <1>4 DEF At

\* Every update of a session but the ones of a pull that goes on.
From(s, data) == (s.st = "Pull" /\ data = s.crc) \/ (s.st = "SendPayload" /\ Good(s.scratch) /\ data = s.scratch.data)
Calm(tc, s, uc, t) ==
    /\ t.st \notin {"StartPull", "Pull"}
    /\ \/ uc = tc
       \/ \E m \in MessageType :
             uc = Append(tc, m) /\ m.kind \in {"Sentinel", "Status"} /\ (Good(m) => From(s, m.data))
    /\ t.st = "SendPayload" /\ Good(t.scratch) => From(s, t.scratch.data)

LEMMA CalmCurrent ==
  ASSUME NEW tc \in Seq(MessageType), NEW uc, NEW s, NEW t, NEW e, NEW h \in 0..Len(tc), NEW f,
         Calm(tc, s, uc, t), Current(tc, s, e, h, f)
  PROVE  Current(uc, t, e, h, f)
<1>1. \A d : From(s, d) => d = e
  BY DEF From, Current
<1>2. t.st # "Pull"
  BY DEF Calm
<1>3. t.st = "SendPayload" /\ Good(t.scratch) => t.scratch.data = e
  BY <1>1 DEF Calm
<1>4. CASE uc = tc
  BY <1>2, <1>3, <1>4 DEF Current, InOrder
<1>5. ASSUME NEW m \in MessageType, uc = Append(tc, m), m.kind \in {"Sentinel", "Status"}, Good(m) => From(s, m.data)
      PROVE  Current(uc, t, e, h, f)
  <2>1. Len(tc) \in Nat /\ Len(uc) = Len(tc) + 1 /\ uc[Len(tc) + 1] = m /\ \A i \in 1..Len(tc) : uc[i] = tc[i]
    BY <1>5, AppendOf
  <2>2. \A j \in h + 1..Len(uc) : (j \in h + 1..Len(tc) /\ uc[j] = tc[j]) \/ uc[j] = m
    BY <2>1
  <2>3. \A j \in h + 1..Len(uc) : Good(uc[j]) => uc[j].data = e
    BY <1>1, <1>5, <2>2 DEF Current
  <2>4. ~Refactored => InOrder(uc, t, e, h, f)
    BY <1>2, <1>5, <2>2 DEF Current, InOrder
  <2> QED BY <1>2, <1>3, <2>3, <2>4 DEF Current
<1> QED BY <1>4, <1>5 DEF Calm

\* What stays of the queues of a session.
LEMMA QueueOf ==
  ASSUME NEW ts \in Seq(MessageType), NEW us, us = ts \/ (ts # <<>> /\ us = Tail(ts))
  PROVE  \E k \in {0, 1} : \A i \in 1..Len(us) : i + k \in 1..Len(ts) /\ us[i] = ts[i + k]
<1>1. CASE us = ts
  BY <1>1
<1>2. CASE ts # <<>> /\ us = Tail(ts)
  BY <1>2, TailOf
<1> QED BY <1>1, <1>2

\* No header is sent.
Headless(tc, uc) == uc = tc \/ \E m \in MessageType : uc = Append(tc, m) /\ m.kind # "Header"

LEMMA HeadersOf ==
  ASSUME NEW tc \in Seq(MessageType), NEW uc, Headless(tc, uc)
  PROVE  \A i \in 1..Len(uc) : uc[i].kind = "Header" => i \in 1..Len(tc) /\ uc[i] = tc[i]
<1>1. CASE uc = tc
  BY <1>1
<1>2. ASSUME NEW m \in MessageType, uc = Append(tc, m), m.kind # "Header"
      PROVE  \A i \in 1..Len(uc) : uc[i].kind = "Header" => i \in 1..Len(tc) /\ uc[i] = tc[i]
  <2>1. Len(tc) \in Nat /\ Len(uc) = Len(tc) + 1 /\ uc[Len(tc) + 1] = m /\ \A i \in 1..Len(tc) : uc[i] = tc[i]
    BY <1>2, AppendOf
  <2>2. \A i \in 1..Len(uc) : (i \in 1..Len(tc) /\ uc[i] = tc[i]) \/ uc[i] = m
    BY <2>1
  <2> QED BY <1>2, <2>2
<1> QED BY <1>1, <1>2 DEF Headless

LEMMA NoPullKept ==
  ASSUME NEW ts \in Seq(MessageType), NEW us, us = ts \/ (ts # <<>> /\ us = Tail(ts)),
         NEW tc \in Seq(MessageType), NEW uc, Headless(tc, uc), NEW s, NEW t, t.st # "StartPull", NoPull(ts, tc, s)
  PROVE  NoPull(us, uc, t)
<1>1. \A i \in 1..Len(us) : ~IsPull(us[i])
  BY QueueOf DEF NoPull
<1>2. \A i \in 1..Len(uc) : uc[i].kind # "Header"
  BY HeadersOf DEF NoPull
<1> QED BY <1>1, <1>2 DEF NoPull

LEMMA AskingKept ==
  ASSUME NEW ts \in Seq(MessageType), NEW us, us = ts \/ (ts # <<>> /\ us = Tail(ts)),
         NEW tc \in Seq(MessageType), NEW uc, Headless(tc, uc), NEW s, NEW t, t.st # "StartPull", NEW e,
         Asking(ts, tc, s, e),
         \A h \in 1..Len(tc) : tc[h].kind = "Header" => Current(uc, t, e, h, 0)
  PROVE  Asking(us, uc, t, e)
<1>1. PICK k \in {0, 1} : \A i \in 1..Len(us) : i + k \in 1..Len(ts) /\ us[i] = ts[i + k]
  BY QueueOf
<1>2. \A i \in 1..Len(uc) : uc[i].kind = "Header" => i \in 1..Len(tc) /\ uc[i] = tc[i]
  BY HeadersOf
<1>3. ASSUME NEW i \in 1..Len(us), IsPull(us[i])
      PROVE  /\ \A j \in 1..Len(us) : IsPull(us[j]) => i = j
             /\ \A j \in 1..Len(uc) : uc[j].kind # "Header"
  <2>1. i + k \in 1..Len(ts) /\ IsPull(ts[i + k])
    BY <1>1, <1>3
  <2>2. /\ \A j \in 1..Len(ts) : IsPull(ts[j]) => i + k = j
        /\ \A j \in 1..Len(tc) : tc[j].kind # "Header"
    BY <2>1 DEF Asking
  <2>3. ASSUME NEW j \in 1..Len(us), IsPull(us[j]) PROVE i = j
    <3>1. j + k \in 1..Len(ts) /\ IsPull(ts[j + k])
      BY <1>1, <2>3
    <3>2. i + k = j + k
      BY <2>2, <3>1
    <3> QED BY <3>2
  <2> QED BY <1>2, <2>2, <2>3
<1>4. ASSUME NEW i \in 1..Len(uc), uc[i].kind = "Header"
      PROVE  /\ \A j \in 1..Len(uc) : uc[j].kind = "Header" => i = j
             /\ uc[i].size = Len(e)
             /\ Current(uc, t, e, i, 0)
  <2>1. i \in 1..Len(tc) /\ uc[i] = tc[i] /\ tc[i].kind = "Header"
    BY <1>2, <1>4
  <2>2. (\A j \in 1..Len(tc) : tc[j].kind = "Header" => i = j) /\ tc[i].size = Len(e)
    BY <2>1 DEF Asking
  <2>3. \A j \in 1..Len(uc) : uc[j].kind = "Header" => i = j
    BY <1>2, <2>2
  <2> QED BY <2>1, <2>2, <2>3
<1> QED BY <1>3, <1>4 DEF Asking

\* The request is accepted.
LEMMA AskingAccepted ==
  ASSUME NEW ts \in Seq(MessageType), ts # <<>>, IsPull(ts[1]), NEW tc \in Seq(MessageType),
         NEW s, NEW d, Asking(ts, tc, s, d), NEW t, t.st = "StartPull"
  PROVE  Asking(Tail(ts), tc, t, t.crc)
<1>1. /\ 1 \in 1..Len(ts)
      /\ \A i \in 1..Len(Tail(ts)) : i + 1 \in 1..Len(ts) /\ Tail(ts)[i] = ts[i + 1] /\ i \in Nat /\ i # 0
  BY TailOf
<1>2. (\A j \in 1..Len(ts) : IsPull(ts[j]) => 1 = j) /\ \A j \in 1..Len(tc) : tc[j].kind # "Header"
  BY <1>1 DEF Asking
<1>3. \A i \in 1..Len(Tail(ts)) : ~IsPull(Tail(ts)[i])
  <2> SUFFICES ASSUME NEW i \in 1..Len(Tail(ts)), IsPull(Tail(ts)[i]) PROVE FALSE
    OBVIOUS
  <2>1. i + 1 \in 1..Len(ts) /\ IsPull(ts[i + 1]) /\ i # 0 /\ i \in Nat
    BY <1>1
  <2>2. 1 = i + 1
    BY <1>2, <2>1
  <2> QED BY <2>1, <2>2
<1> QED BY <1>2, <1>3 DEF Asking

\* The header is sent.
LEMMA AskingAnswered ==
  ASSUME NEW ts \in Seq(MessageType), NEW tc \in Seq(MessageType), NEW m \in MessageType, m.kind = "Header",
         NEW s \in SessionType, s.st = "StartPull", m.size = Len(s.crc), s.done = 0,
         NEW e, Asking(ts, tc, s, e), NEW t \in SessionType, t = [s EXCEPT !.st = "Pull"]
  PROVE  Asking(ts, Append(tc, m), t, e)
<1> DEFINE uc == Append(tc, m)
<1>1. Len(tc) \in Nat /\ Len(uc) = Len(tc) + 1 /\ uc[Len(tc) + 1] = m /\ \A i \in 1..Len(tc) : uc[i] = tc[i]
  BY AppendOf
<1>2. t.st = "Pull" /\ t.crc = s.crc /\ t.done = 0 /\ t.total \in Nat /\ s.crc = e
  BY DEF SessionType, Asking
<1>3. (\A i \in 1..Len(ts) : ~IsPull(ts[i])) /\ \A j \in 1..Len(tc) : tc[j].kind # "Header"
  BY DEF Asking
<1> HIDE DEF uc
<1>4. ASSUME NEW i \in 1..Len(uc), uc[i].kind = "Header" PROVE i = Len(tc) + 1
  <2>1. CASE i \in 1..Len(tc)
    BY <1>1, <1>3, <1>4, <2>1
  <2>2. CASE i \notin 1..Len(tc)
    BY <1>1, <2>2
  <2> QED BY <2>1, <2>2
<1>5. Current(uc, t, e, Len(tc) + 1, 0)
  <2>1. (Len(tc) + 1) + 1..Len(uc) = {} /\ Len(uc) - (Len(tc) + 1) = 0
    BY <1>1
  <2>2. t.done = MinOf(t.total, 0 + At(Len(uc) - (Len(tc) + 1)))
    BY <1>2, <2>1, AtFacts DEF MinOf
  <2> QED BY <1>2, <2>1, <2>2 DEF Current, InOrder
<1>6. \A i \in 1..Len(uc) : uc[i].kind = "Header" =>
          /\ \A j \in 1..Len(uc) : uc[j].kind = "Header" => i = j
          /\ uc[i].size = Len(e)
          /\ Current(uc, t, e, i, 0)
  BY <1>1, <1>2, <1>4, <1>5
<1>7. Asking(ts, uc, t, e)
  BY <1>2, <1>3, <1>6 DEF Asking
<1> QED BY <1>7 DEF uc

\* A chunk is sent.
LEMMA ChunkCurrent ==
  ASSUME NEW tc \in Seq(MessageType), NEW m \in MessageType, m.kind = "Chunk", NEW s \in SessionType, NEW n \in Nat,
         s.st = "Pull", s.total = Len(s.crc), s.done < s.total,
         n = (IF s.total - s.done < Chunk THEN s.total - s.done ELSE Chunk),
         ~Refactored => m.data = Piece(s.crc, s.done),
         NEW t \in SessionType, t = [s EXCEPT !.done = s.done + n], NEW e, NEW h \in 0..Len(tc), NEW f \in Nat,
         Current(tc, s, e, h, f)
  PROVE  Current(Append(tc, m), t, e, h, f)
<1> DEFINE uc == Append(tc, m)
<1>1. Len(tc) \in Nat /\ Len(uc) = Len(tc) + 1 /\ uc[Len(tc) + 1] = m /\ \A i \in 1..Len(tc) : uc[i] = tc[i]
  BY AppendOf
<1>2. /\ t.st = "Pull" /\ t.crc = s.crc /\ t.done = s.done + n /\ t.total = s.total /\ s.crc = e
      /\ s.total \in Nat /\ s.done \in Nat
  BY DEF SessionType, Current
<1> HIDE DEF uc
<1>3. \A j \in h + 1..Len(uc) : (j \in h + 1..Len(tc) /\ uc[j] = tc[j]) \/ (j = Len(tc) + 1 /\ uc[j] = m)
  BY <1>1
<1>4. \A j \in h + 1..Len(uc) : Good(uc[j]) => uc[j].data = e
  BY <1>3 DEF Current, Good
<1>5. ASSUME ~Refactored PROVE InOrder(uc, t, e, h, f)
  <2>1. InOrder(tc, s, e, h, f)
    BY <1>5 DEF Current
  <2> DEFINE q == Len(tc) - h
  <2>2. q \in Nat /\ Len(uc) - h = q + 1 /\ (Len(tc) + 1) - h - 1 = q
    BY <1>1
  <2>3. At(q) \in Nat /\ At(q + 1) = At(q) + Chunk /\ Chunk \in Nat
    BY <2>2, AtFacts
  <2>4. s.done = MinOf(s.total, f + At(q))
    BY <2>1 DEF InOrder
  <2> HIDE DEF q
  <2>5. s.done = f + At(q)
    BY <1>2, <2>3, <2>4 DEF MinOf
  <2>6. t.done = MinOf(t.total, f + At(q + 1))
    <3>1. f + At(q + 1) = s.done + Chunk
      BY <1>2, <2>3, <2>5
    <3>2. CASE s.total - s.done < Chunk
      <4>1. t.done = s.total /\ s.total < s.done + Chunk
        BY <1>2, <2>3, <3>2
      <4> QED BY <1>2, <2>3, <3>1, <4>1 DEF MinOf
    <3>3. CASE ~(s.total - s.done < Chunk)
      <4>1. t.done = s.done + Chunk /\ s.total >= s.done + Chunk
        BY <1>2, <2>3, <3>3
      <4> QED BY <1>2, <2>3, <3>1, <4>1 DEF MinOf
    <3> QED BY <3>2, <3>3
  <2>7. f + At(q) < Len(e) /\ m.data = Piece(e, f + At(q))
    BY <1>2, <1>5, <2>5
  <2>8. ASSUME NEW j \in h + 1..Len(uc), uc[j].kind = "Chunk"
        PROVE  f + At(j - h - 1) < Len(e) /\ uc[j].data = Piece(e, f + At(j - h - 1))
    <3>1. CASE j = Len(tc) + 1
      <4>1. j - h - 1 = q /\ uc[j] = m
        BY <1>1, <2>2, <3>1
      <4> QED BY <2>7, <4>1
    <3>2. CASE j # Len(tc) + 1
      <4>1. j \in h + 1..Len(tc) /\ uc[j] = tc[j]
        BY <1>3, <3>2
      <4> QED BY <2>1, <2>8, <4>1 DEF InOrder
    <3> QED BY <3>1, <3>2
  <2> QED BY <2>2, <2>6, <2>8 DEF InOrder
<1>6. Current(uc, t, e, h, f)
  BY <1>2, <1>4, <1>5 DEF Current
<1> QED BY <1>6 DEF uc

\* What a session of the older version sends is a chunk of the block.
LEMMA BytesArePiece ==
  ASSUME TInv, NEW c \in Clients, sess[c].st = "Pull", Frozen(block, sess[c]), sess[c].done < sess[c].total, NEW n \in Nat,
         n = (IF sess[c].total - sess[c].done < Chunk THEN sess[c].total - sess[c].done ELSE Chunk),
         NEW kept \in BOOLEAN
  PROVE  Bytes(sess[c], n, kept) = Piece(sess[c].crc, sess[c].done)
<1> DEFINE s == sess[c]
           e == s.crc
           d == s.done
<1>1. /\ e \in Seq(Datum) /\ d \in Nat /\ s.total = Len(e) /\ block[s.block].data = e /\ s.block # None
      /\ Chunk \in Nat \ {0}
  BY Typed, AtFacts DEF Frozen, TInv, Transferring
<1>a. Len(e) \in Nat /\ d < Len(e) /\ n = IF Len(e) - d < Chunk THEN Len(e) - d ELSE Chunk
  BY <1>1
<1>4. Bytes(s, n, kept) = [i \in 1..n |-> IF d + i <= Len(e) THEN e[d + i]
                              ELSE (IF kept THEN e ELSE [j \in 1..Len(e) |-> <<None, 0>>])[d + i]]
  BY <1>1 DEF Bytes
<1> HIDE DEF e, d
<1>2. n <= Len(e) - d /\ n # 0 /\ d + n = MinOf(d + Chunk, Len(e))
  <2>0. d \in Nat /\ Chunk \in Nat \ {0} /\ Len(e) \in Nat
    BY <1>1, <1>a
  <2>1. CASE Len(e) - d < Chunk
    <3>1. n = Len(e) - d /\ d < Len(e) /\ ~(d + Chunk < Len(e))
      BY <1>a, <2>0, <2>1
    <3> QED BY <2>0, <3>1 DEF MinOf
  <2>2. CASE ~(Len(e) - d < Chunk)
    <3>1. n = Chunk /\ d + Chunk <= Len(e)
      BY <1>a, <2>0, <2>2
    <3> QED BY <2>0, <3>1 DEF MinOf
  <2> QED BY <2>1, <2>2
<1>3. Bytes(s, n, kept) \in Seq(Datum) /\ Len(Bytes(s, n, kept)) = n
  BY <1>1, <1>2, ChunkData DEF e, d
<1> HIDE DEF s
<1>5. ASSUME NEW i \in 1..n PROVE Bytes(s, n, kept)[i] = e[d + i]
  <2>1. d + i <= Len(e)
    BY <1>1, <1>a, <1>2
  <2> QED BY <1>4, <2>1
<1>6. \A i \in d + 1..d + n : e[i] \in Datum
  <2>1. \A i \in d + 1..d + n : i \in 1..Len(e)
    BY <1>1, <1>2 DEF MinOf
  <2> QED BY <1>1, <2>1, ElementOfSeq
<1>7. /\ SubSeq(e, d + 1, d + n) \in Seq(Datum) /\ Len(SubSeq(e, d + 1, d + n)) = n
      /\ \A i \in 1..n : SubSeq(e, d + 1, d + n)[i] = e[d + i]
  <2>1. d + 1 \in Int /\ d + n \in Int /\ d + 1 <= d + n /\ (d + n) - (d + 1) + 1 = n
    BY <1>1, <1>2
  <2>2. /\ SubSeq(e, d + 1, d + n) \in Seq(Datum)
        /\ Len(SubSeq(e, d + 1, d + n)) = (d + n) - (d + 1) + 1
        /\ \A i \in 1..(d + n) - (d + 1) + 1 : SubSeq(e, d + 1, d + n)[i] = e[(d + 1) + i - 1]
    BY <1>6, <2>1, SubSeqProperties
  <2>3. \A i \in 1..n : (d + 1) + i - 1 = d + i
    BY <1>1
  <2> QED BY <2>1, <2>2, <2>3
<1>8. Bytes(s, n, kept) = SubSeq(e, d + 1, d + n)
  <2>1. \A i \in 1..n : Bytes(s, n, kept)[i] = SubSeq(e, d + 1, d + n)[i]
    BY <1>5, <1>7
  <2> QED BY <1>3, <1>7, <2>1, SeqEqual
<1>9. Bytes(s, n, kept) = Piece(e, d)
  BY <1>2, <1>8 DEF Piece
<1> QED BY <1>9 DEF s, e, d

-----------------------------------------------------------------------------
(***************************************************************************)
(* The steps of the server.                                                *)
(***************************************************************************)
SendsHeader(c, t) ==
    /\ sess[c].st = "StartPull" /\ t = [sess[c] EXCEPT !.st = "Pull"] /\ UNCHANGED <<toServer, app>>
    /\ \E m \in MessageType :
          m.kind = "Header" /\ m.size = sess[c].total /\ toClient'[c] = Append(toClient[c], m)

LEMMA UpdateReduces ==
  ASSUME TInv, NEW c \in Clients, Prepared(sess[c]), Updated(c)
  PROVE  /\ Prepared(sess'[c]) /\ sess'[c] \in SessionType
         /\ \A d \in Clients : d # c =>
               toServer'[d] = toServer[d] /\ toClient'[d] = toClient[d] /\ sess'[d] = sess[d] /\ app'[d] = app[d]
         /\ \/ Calm(toClient[c], sess[c], toClient'[c], sess'[c]) /\ UNCHANGED app
            \/ AcceptsPull(c, sess'[c]) \/ SendsHeader(c, sess'[c]) \/ Continues(c, sess'[c])
<1>0. /\ sess \in [Clients -> SessionType] /\ app \in [Clients -> AppType]
      /\ toServer \in [Clients -> Seq(MessageType)] /\ toClient \in [Clients -> Seq(MessageType)]
      /\ sess[c] \in SessionType /\ sess[c].scratch \in MessageType
  BY Typed DEF TInv, ServerTypes, WireTypes, ClientTypes
<1>1. PICK t \in SessionType :
          /\ sess' = [sess EXCEPT ![c] = t]
          /\ \/ \E m \in MessageType : Answers(c, t, m)
             \/ Goes(c, t) \/ AcceptsPush(c, t) \/ AcceptsPull(c, t) \/ Starts(c, t) \/ Continues(c, t)
  BY DEF Updated
<1>2. sess'[c] = t /\ \A d \in Clients : d # c => sess'[d] = sess[d]
  BY <1>0, <1>1
<1>3. \A d \in Clients : d # c => toServer'[d] = toServer[d]
  BY <1>0 DEF Updated
<1> DEFINE Rest == \A d \in Clients : d # c => toClient'[d] = toClient[d] /\ app'[d] = app[d]
           Goal == /\ Prepared(t) /\ Rest
                   /\ \/ Calm(toClient[c], sess[c], toClient'[c], t) /\ UNCHANGED app
                      \/ AcceptsPull(c, t) \/ SendsHeader(c, t) \/ Continues(c, t)
<1>4. ASSUME NEW m \in MessageType, Answers(c, t, m) PROVE Goal
  <2>1. t.scratch = m /\ UNCHANGED app
    BY <1>4 DEF Answers
  <2>2. m.kind \in {"Sentinel", "Status"} /\ (Good(m) => From(sess[c], m.data))
    BY <1>4 DEF Answers, Prepared, From
  <2>3. t.st \in {"SendPayload", "Idle"} /\ Prepared(t)
    BY <1>4, <2>1, <2>2 DEF Answers, Prepared
  <2>4. ASSUME toClient' = toClient PROVE Goal
    BY <2>1, <2>2, <2>3, <2>4 DEF Calm
  <2>5. ASSUME NEW n \in Nat, toClient' = [toClient EXCEPT ![c] = Append(toClient[c], [m EXCEPT !.req = n])]
        PROVE  Goal
    <3>1. PICK w \in MessageType : w = [m EXCEPT !.req = n]
      BY StampedType
    <3>2. w.kind = m.kind /\ w.result = m.result /\ w.data = m.data
      BY <3>1, StampedType
    <3>3. toClient'[c] = Append(toClient[c], w) /\ Rest
      BY <1>0, <2>1, <2>5, <3>1
    <3>4. Good(w) => From(sess[c], w.data)
      BY <2>2, <3>2 DEF Good
    <3>5. Calm(toClient[c], sess[c], toClient'[c], t)
      BY <2>1, <2>2, <2>3, <3>2, <3>3, <3>4 DEF Calm
    <3> QED BY <2>1, <2>3, <3>3, <3>5
  <2> QED BY <1>4, <2>4, <2>5 DEF Answers
<1>5. ASSUME Goes(c, t) \/ AcceptsPush(c, t) PROVE Goal
  <2>1. toClient' = toClient /\ app' = app /\ t.st \in {"Idle", "Push", "StartPush"} /\ (t.st = "StartPush" => t.scratch.kind = "Status")
    BY <1>5 DEF Goes, AcceptsPush
  <2> QED BY <2>1 DEF Calm, Prepared
<1>6. ASSUME AcceptsPull(c, t) PROVE Goal
  <2>1. Prepared(t)
    BY <1>6 DEF AcceptsPull, Prepared
  <2>2. Rest
    BY <1>0, <1>6 DEF AcceptsPull
  <2> QED BY <1>6, <2>1, <2>2
<1>7. ASSUME Starts(c, t) PROVE Goal
  <2>1. PICK n \in Nat : toClient' = [toClient EXCEPT ![c] = Append(toClient[c], [sess[c].scratch EXCEPT !.req = n])]
    BY <1>7 DEF Starts
  <2>2. PICK w \in MessageType : w = [sess[c].scratch EXCEPT !.req = n]
    BY <1>0, StampedType
  <2>3. w.kind = sess[c].scratch.kind /\ w.size = sess[c].scratch.size
    BY <1>0, <2>2, StampedType
  <2>4. UNCHANGED <<toServer, app>>
    BY <1>7 DEF Starts
  <2>5. toClient'[c] = Append(toClient[c], w) /\ Rest
    BY <1>0, <2>1, <2>2, <2>4
  <2>6. ASSUME sess[c].st = "StartPull", t = [sess[c] EXCEPT !.st = "Pull"] PROVE Goal
    <3>1. t.st = "Pull"
      BY <1>0, <2>6 DEF SessionType
    <3>2. SendsHeader(c, t)
      BY <2>3, <2>4, <2>5, <2>6 DEF SendsHeader, Prepared
    <3> QED BY <2>5, <3>1, <3>2 DEF Prepared
  <2>7. ASSUME sess[c].st = "StartPush", t = [sess[c] EXCEPT !.st = "Push"] PROVE Goal
    <3>1. t.st = "Push" /\ w.kind = "Status"
      BY <1>0, <2>3, <2>7 DEF SessionType, Prepared
    <3>2. Calm(toClient[c], sess[c], toClient'[c], t)
      BY <2>5, <3>1 DEF Calm, Good
    <3> QED BY <2>4, <2>5, <3>1, <3>2 DEF Prepared
  <2> QED BY <1>7, <2>6, <2>7 DEF Starts
<1>8. ASSUME Continues(c, t) PROVE Goal
  <2>1. PICK n \in Nat, m \in MessageType : t = [sess[c] EXCEPT !.done = sess[c].done + n]
                                            /\ toClient' = [toClient EXCEPT ![c] = Append(toClient[c], m)]
    BY <1>8 DEF Continues
  <2>2. t.st = "Pull"
    BY <1>0, <1>8, <2>1 DEF Continues, SessionType
  <2>3. Rest
    BY <1>0, <1>8, <2>1 DEF Continues
  <2> QED BY <1>8, <2>2, <2>3 DEF Prepared
<1>9. Goal
  BY <1>1, <1>4, <1>5, <1>6, <1>7, <1>8
<1> QED BY <1>2, <1>3, <1>9

LEMMA UpdateLocal ==
  ASSUME TInv, PInv, NEW c \in Clients, Updated(c)
  PROVE  LocalInv(toServer'[c], toClient'[c], sess'[c], ctx'[c], call'[c], app'[c], link'[c])
<1> DEFINE ts == toServer[c]
           us == toServer'[c]
           tc == toClient[c]
           uc == toClient'[c]
           s == sess[c]
           t == sess'[c]
           x == ctx[c]
           k == call[c]
           a == app[c]
           b == app'[c]
<1>0. /\ ts \in Seq(MessageType) /\ tc \in Seq(MessageType) /\ s \in SessionType /\ t \in SessionType
      /\ a \in AppType /\ Len(x.crc) \in Nat
  BY Typed, UpdateReduces DEF PInv
<1>1. us = ts \/ (ts # <<>> /\ us = Tail(ts))
  BY DEF Updated, TInv, WireTypes
<1>2. link[c] = "up" /\ link'[c] = "up" /\ ctx'[c] = x /\ call'[c] = k
  BY DEF Updated
<1>3. CallOK(ts, tc, s, x, k, a, "up") /\ PullOK(ts, tc, s, x, k, a)
  BY <1>2 DEF PInv, LocalInv
<1>4. \/ Calm(tc, s, uc, t) /\ UNCHANGED app
      \/ AcceptsPull(c, t) \/ SendsHeader(c, t) \/ Continues(c, t)
  BY UpdateReduces DEF PInv
<1>p. /\ Pulling(x, a) => x.state # "Error" /\ k.pc # "pullReply"
      /\ k.pc = "pullReply" => x.state # "Error"
  BY <1>3 DEF Pulling, CallOK
\* Nothing but a pull that is accepted changes what the application knows.
<1>5. ASSUME b = a,
             x.state # "Error" /\ k.pc # "pullReply" => NoPull(us, uc, t),
             k.pc = "pullReply" => Asking(us, uc, t, a.expect),
             Pulling(x, a) /\ k.pc # "aborting" => Current(uc, t, a.expect, 0, Len(x.crc))
      PROVE  LocalInv(us, uc, t, x, k, b, "up")
  <2>1. CallOK(us, uc, t, x, k, b, "up")
    BY <1>3, <1>5 DEF CallOK
  <2>2. PullOK(us, uc, t, x, k, b)
    BY <1>3, <1>5 DEF PullOK
  <2> QED BY <2>1, <2>2 DEF LocalInv
<1>6. CASE Calm(tc, s, uc, t) /\ UNCHANGED app
  <2>1. Headless(tc, uc) /\ t.st # "StartPull"
    BY <1>6 DEF Calm, Headless
  <2>2. x.state # "Error" /\ k.pc # "pullReply" => NoPull(us, uc, t)
    BY <1>0, <1>1, <1>3, <2>1, NoPullKept DEF PullOK
  <2>3. k.pc = "pullReply" => Asking(us, uc, t, a.expect)
    <3> SUFFICES ASSUME k.pc = "pullReply" PROVE Asking(us, uc, t, a.expect)
      OBVIOUS
    <3>1. Asking(ts, tc, s, a.expect)
      BY <1>3 DEF PullOK
    <3>2. ASSUME NEW h \in 1..Len(tc), tc[h].kind = "Header" PROVE Current(uc, t, a.expect, h, 0)
      <4>1. Current(tc, s, a.expect, h, 0) /\ h \in 0..Len(tc)
        BY <3>1, <3>2 DEF Asking
      <4> QED BY <1>0, <1>6, <4>1, CalmCurrent
    <3> HIDE DEF ts, us, tc, uc, s, t, a
    <3> QED BY <1>0, <1>1, <2>1, <3>1, <3>2, AskingKept
  <2>4. Pulling(x, a) /\ k.pc # "aborting" => Current(uc, t, a.expect, 0, Len(x.crc))
    <3>1. 0 \in 0..Len(tc)
      BY <1>0
    <3> QED BY <1>0, <1>3, <1>6, <3>1, CalmCurrent DEF PullOK
  <2> QED BY <1>2, <1>5, <1>6, <2>2, <2>3, <2>4
<1>7. CASE AcceptsPull(c, t)
  <2>1. /\ ts # <<>> /\ us = Tail(ts) /\ uc = tc /\ t.st = "StartPull" /\ b = [a EXCEPT !.expect = t.crc]
        /\ Received(c).kind = "Request" /\ Received(c).type = "Pull"
    BY <1>7 DEF AcceptsPull, TInv, WireTypes, ClientTypes
  <2>2. IsPull(ts[1]) /\ 1 \in 1..Len(ts)
    BY <1>0, <2>1, TailOf DEF IsPull, Received
  <2>3. x.state = "Error" \/ k.pc = "pullReply"
    BY <1>3, <2>2 DEF PullOK, NoPull
  <2>4. /\ b.expect = t.crc /\ b.op = a.op /\ b.outcome = a.outcome /\ b.data = a.data
    BY <1>0, <2>1 DEF AppType
  <2>5. a.outcome # "read" /\ ~Pulling(x, a)
    BY <1>3, <2>3 DEF CallOK, Pulling
  <2>6. CallOK(us, uc, t, x, k, b, "up")
    BY <1>3, <2>4, <2>5 DEF CallOK, Pulling
  <2>7. k.pc = "pullReply" => Asking(us, uc, t, b.expect)
    BY <1>0, <1>3, <2>1, <2>2, <2>4, AskingAccepted DEF PullOK
  <2>8. PullOK(us, uc, t, x, k, b)
    BY <2>3, <2>4, <2>5, <2>7 DEF PullOK, Pulling
  <2> QED BY <1>2, <2>6, <2>8 DEF LocalInv
<1>8. CASE SendsHeader(c, t)
  <2>1. s.st = "StartPull" /\ t = [s EXCEPT !.st = "Pull"] /\ us = ts /\ b = a
    BY <1>8 DEF SendsHeader
  <2>2. PICK m \in MessageType : m.kind = "Header" /\ m.size = s.total /\ uc = Append(tc, m)
    BY <1>8 DEF SendsHeader
  <2>3. x.state = "Error" \/ k.pc = "pullReply"
    BY <1>3, <2>1 DEF PullOK, NoPull
  <2>4. s.total = Len(s.crc) /\ s.done = 0
    BY <2>1 DEF TInv, Transferring, PInv, Prepared
  <2>5. k.pc = "pullReply" => Asking(us, uc, t, a.expect)
    BY <1>0, <1>3, <2>1, <2>2, <2>4, AskingAnswered DEF PullOK
  <2>6. ~Pulling(x, a)
    BY <1>p, <2>3
  <2> QED BY <1>2, <1>5, <2>1, <2>3, <2>5, <2>6
<1>9. CASE Continues(c, t)
  <2>1. s.st = "Pull" /\ us = ts /\ b = a
    BY <1>9 DEF Continues
  <2>2. PICK n \in Nat, kept \in BOOLEAN, m \in MessageType :
          /\ n = (IF s.total - s.done < Chunk THEN s.total - s.done ELSE Chunk)
          /\ s.done < s.total
          /\ t = [s EXCEPT !.done = s.done + n]
          /\ m.kind = "Chunk" /\ m.data = Bytes(s, n, kept)
          /\ toClient' = [toClient EXCEPT ![c] = Append(toClient[c], m)]
    BY <1>9 DEF Continues
  <2>3. uc = Append(tc, m)
    BY <2>2 DEF TInv, WireTypes
  <2>4. t.st = "Pull" /\ s.total = Len(s.crc)
    BY <1>0, <2>1, <2>2 DEF SessionType, TInv, Transferring
  <2>5. ~Refactored => m.data = Piece(s.crc, s.done)
    BY <2>1, <2>2, BytesArePiece DEF PInv
  <2>6. Headless(tc, uc)
    BY <2>2, <2>3 DEF Headless
  <2>7. \A h \in 0..Len(tc), f \in Nat : Current(tc, s, a.expect, h, f) => Current(uc, t, a.expect, h, f)
    <3> SUFFICES ASSUME NEW h \in 0..Len(tc), NEW f \in Nat, Current(tc, s, a.expect, h, f)
                 PROVE  Current(uc, t, a.expect, h, f)
      OBVIOUS
    <3> HIDE DEF tc, uc, s, t, a
    <3>1. Current(Append(tc, m), t, a.expect, h, f)
      BY <1>0, <2>1, <2>2, <2>4, <2>5, ChunkCurrent
    <3> QED BY <2>3, <3>1
  <2>8. x.state # "Error" /\ k.pc # "pullReply" => NoPull(us, uc, t)
    BY <1>0, <1>3, <2>1, <2>4, <2>6, NoPullKept DEF PullOK
  <2>9. k.pc = "pullReply" => Asking(us, uc, t, a.expect)
    <3> SUFFICES ASSUME k.pc = "pullReply" PROVE Asking(us, uc, t, a.expect)
      OBVIOUS
    <3>1. Asking(ts, tc, s, a.expect)
      BY <1>3 DEF PullOK
    <3>2. ASSUME NEW h \in 1..Len(tc), tc[h].kind = "Header" PROVE Current(uc, t, a.expect, h, 0)
      <4>1. Current(tc, s, a.expect, h, 0) /\ h \in 0..Len(tc)
        BY <3>1, <3>2 DEF Asking
      <4> QED BY <2>7, <4>1
    <3> HIDE DEF ts, us, tc, uc, s, t, a
    <3> QED BY <1>0, <1>1, <2>4, <2>6, <3>1, <3>2, AskingKept
  <2>10. Pulling(x, a) /\ k.pc # "aborting" => Current(uc, t, a.expect, 0, Len(x.crc))
    <3>1. 0 \in 0..Len(tc)
      BY <1>0
    <3> QED BY <1>0, <1>3, <2>7, <3>1 DEF PullOK
  <2> QED BY <1>2, <1>5, <2>1, <2>8, <2>9, <2>10
<1> QED BY <1>4, <1>6, <1>7, <1>8, <1>9

\* The older version: no push, and a block that is pulled does not change.
LEMMA NoPushRequests ==
  ASSUME TInv, PInv, ~Refactored, [Next]_vars, NEW c \in Clients, NEW i \in 1..Len(toServer'[c]),
         toServer'[c][i].kind = "Request"
  PROVE  toServer'[c][i].type = "Pull"
<1>1. CASE \E j \in 1..Len(toServer[c]) : toServer'[c][i] = toServer[c][j]
  BY <1>1 DEF PInv, NoPush
<1>2. CASE \E id \in Ids, size \in PushSizes : RequestPushTransfer(c, id, size)
  BY <1>2 DEF RequestPushTransfer
<1>3. CASE toServer'[c][i].type = "Pull"
  BY <1>3
<1> QED BY <1>1, <1>2, <1>3, ToServerSteps

OldKept == \A d \in Clients : sess'[d].st \notin {"StartPush", "Push"} /\ Frozen(block', sess'[d])

LEMMA OldUpdate ==
  ASSUME TInv, PInv, ~Refactored, NEW c \in Clients, Updated(c)
  PROVE  OldKept
<1>0. /\ sess \in [Clients -> SessionType] /\ sess[c] \in SessionType
      /\ \A d \in Clients : sess[d].block \in Blocks \cup {None} /\ Transferring(sess[d])
      /\ \A d \in Clients : NoPush(toServer[d], sess[d]) /\ Frozen(block, sess[d])
  BY Typed DEF TInv, ServerTypes, PInv
<1>1. \A b \in Blocks : block'[b].closed = block[b].closed /\ block'[b].data = block[b].data
  BY <1>0 DEF Updated, NoPush
<1>2. ASSUME NEW s, s.block \in Blocks \cup {None}, Transferring(s), Frozen(block, s) PROVE Frozen(block', s)
  BY <1>1, <1>2 DEF Frozen, Transferring
<1>3. PICK t \in SessionType :
          /\ sess' = [sess EXCEPT ![c] = t]
          /\ \/ \E m \in MessageType : Answers(c, t, m)
             \/ Goes(c, t) \/ AcceptsPush(c, t) \/ AcceptsPull(c, t) \/ Starts(c, t) \/ Continues(c, t)
  BY DEF Updated
<1>4. t.st \notin {"StartPush", "Push"} /\ Frozen(block', t)
  <2>1. ASSUME NEW m \in MessageType, Answers(c, t, m) PROVE t.st \notin {"StartPush", "Push"} /\ Frozen(block', t)
    <3>1. t.st \in {"SendPayload", "Idle"}
      BY <2>1 DEF Answers
    <3> QED BY <3>1 DEF Frozen
  <2>2. CASE Goes(c, t)
    <3>1. t.st = "Idle"
      BY <1>0, <2>2 DEF Goes, NoPush
    <3> QED BY <3>1 DEF Frozen
  <2>3. CASE AcceptsPush(c, t)
    <3>1. Received(c) = toServer[c][1] /\ 1 \in 1..Len(toServer[c])
      BY <2>3, Typed, TailOf DEF Received, AcceptsPush
    <3> QED BY <1>0, <2>3, <3>1 DEF NoPush, AcceptsPush
  <2>4. CASE AcceptsPull(c, t)
    BY <1>1, <2>4 DEF AcceptsPull, Frozen
  <2>5. CASE Starts(c, t)
    <3>1. sess[c].st = "StartPull" /\ t = [sess[c] EXCEPT !.st = "Pull"]
      BY <1>0, <2>5 DEF Starts, NoPush
    <3>2. t.st = "Pull" /\ t.block = sess[c].block /\ t.crc = sess[c].crc
      BY <1>0, <3>1 DEF SessionType
    <3>3. Frozen(block', sess[c])
      BY <1>0, <1>2
    <3> QED BY <3>1, <3>2, <3>3 DEF Frozen
  <2>6. CASE Continues(c, t)
    <3>1. PICK n \in Nat : t = [sess[c] EXCEPT !.done = sess[c].done + n]
      BY <2>6 DEF Continues
    <3>2. t.st = "Pull" /\ sess[c].st = "Pull" /\ t.block = sess[c].block /\ t.crc = sess[c].crc
      BY <1>0, <2>6, <3>1 DEF SessionType, Continues
    <3>3. Frozen(block', sess[c])
      BY <1>0, <1>2
    <3> QED BY <3>2, <3>3 DEF Frozen
  <2> QED BY <1>3, <2>1, <2>2, <2>3, <2>4, <2>5, <2>6
<1>5. \A d \in Clients : sess'[d] = t \/ sess'[d] = sess[d]
  BY <1>0, <1>3
<1> QED BY <1>0, <1>2, <1>4, <1>5 DEF OldKept, NoPush

LEMMA OldTerminated ==
  ASSUME TInv, PInv, ~Refactored, NEW c \in Clients, SessionTerminated(c)
  PROVE  OldKept
<1>0. /\ sess \in [Clients -> SessionType] /\ block \in [Blocks -> BlockType]
      /\ \A d \in Clients : sess[d].block \in Blocks \cup {None} /\ Transferring(sess[d])
      /\ \A d \in Clients : NoPush(toServer[d], sess[d]) /\ Frozen(block, sess[d])
  BY Typed DEF TInv, ServerTypes, PInv
<1>1. \A b \in Blocks : block'[b].closed = block[b].closed /\ block'[b].data = block[b].data
  <2>1. CASE sess[c].block = None
    BY <2>1 DEF SessionTerminated, Ended
  <2>2. CASE sess[c].block # None
    <3>1. block' = [block EXCEPT ![sess[c].block] = EndTransfer(block[sess[c].block])] /\ sess[c].block \in Blocks
      BY <1>0, <2>2 DEF SessionTerminated, Ended
    <3>2. /\ EndTransfer(block[sess[c].block]).closed = block[sess[c].block].closed
          /\ EndTransfer(block[sess[c].block]).data = block[sess[c].block].data
      BY <1>0, <3>1, EndTransferType
    <3> QED BY <1>0, <3>1, <3>2
  <2> QED BY <2>1, <2>2
<1>2. ASSUME NEW s, s.block \in Blocks \cup {None}, Transferring(s), Frozen(block, s) PROVE Frozen(block', s)
  BY <1>1, <1>2 DEF Frozen, Transferring
<1>3. \A d \in Clients : sess'[d] = NewSession \/ sess'[d] = sess[d]
  BY <1>0 DEF SessionTerminated
<1>4. NewSession.st = "Idle" /\ Frozen(block', NewSession)
  BY DEF NewSession, Frozen
<1> QED BY <1>0, <1>2, <1>3, <1>4 DEF OldKept, NoPush

LEMMA OldBlocks ==
  ASSUME TInv, PInv, ~Refactored, NEW b \in Blocks, OpenServerBlock(b) \/ WriteAndClose(b) \/ CloseServerBlock(b)
  PROVE  OldKept
<1> SUFFICES ASSUME NEW d \in Clients PROVE sess'[d].st \notin {"StartPush", "Push"} /\ Frozen(block', sess'[d])
  BY DEF OldKept
<1>0. /\ sess[d].block \in Blocks \cup {None} /\ Transferring(sess[d])
      /\ NoPush(toServer[d], sess[d]) /\ Frozen(block, sess[d])
  BY Typed DEF TInv, PInv
<1>1. /\ sess' = sess
      /\ \A x \in Blocks : block[x].closed /\ (\E c \in Clients : sess[c].block = x)
               => block'[x].closed /\ block'[x].data = block[x].data
  BY BlockSteps
<1>2. Frozen(block', sess[d])
  <2> SUFFICES ASSUME sess[d].st \in {"StartPull", "Pull"}
               PROVE  block'[sess[d].block].closed /\ block'[sess[d].block].data = sess[d].crc
    BY DEF Frozen
  <2>1. sess[d].block \in Blocks /\ block[sess[d].block].closed /\ block[sess[d].block].data = sess[d].crc
    BY <1>0 DEF Frozen, Transferring
  <2> QED BY <1>1, <2>1
<1> QED BY <1>0, <1>1, <1>2 DEF NoPush

LEMMA OldStep ==
  ASSUME TInv, PInv, ~Refactored, [Next]_vars
  PROVE  \A c \in Clients : NoPush(toServer'[c], sess'[c]) /\ Frozen(block', sess'[c])
<1>1. ASSUME sess' = sess, block' = block PROVE OldKept
  BY <1>1 DEF OldKept, PInv, NoPush, Frozen
<1>2. ASSUME UNCHANGED vars PROVE OldKept
  BY <1>1, <1>2 DEF vars
<1>3. ASSUME NEW c \in Clients, UpdateSession(c) \/ SessionTerminated(c) \/ ClientAction(c) PROVE OldKept
  BY <1>1, <1>3, UpdateCases, OldUpdate, OldTerminated, ClientAlone
<1>4. OldKept
  BY <1>2, <1>3, NextCases, OldBlocks
<1>5. \A c \in Clients : \A i \in 1..Len(toServer'[c]) : toServer'[c][i].kind = "Request" => toServer'[c][i].type = "Pull"
  BY NoPushRequests
<1> QED BY <1>4, <1>5 DEF OldKept, NoPush

-----------------------------------------------------------------------------
(***************************************************************************)
(* The steps of a client.                                                  *)
(***************************************************************************)
LEMMA NoPullWrites ==
  ASSUME NEW ts \in Seq(MessageType), NEW tc, NEW s, NEW m \in MessageType, ~IsPull(m), NoPull(ts, tc, s)
  PROVE  NoPull(Append(ts, m), tc, s)
<1> DEFINE us == Append(ts, m)
<1>1. Len(ts) \in Nat /\ Len(us) = Len(ts) + 1 /\ us[Len(ts) + 1] = m /\ \A i \in 1..Len(ts) : us[i] = ts[i]
  BY AppendOf
<1> HIDE DEF us
<1>2. \A i \in 1..Len(us) : (i \in 1..Len(ts) /\ us[i] = ts[i]) \/ us[i] = m
  BY <1>1
<1>3. NoPull(us, tc, s)
  BY <1>2 DEF NoPull
<1> QED BY <1>3 DEF us

LEMMA AskingBegins ==
  ASSUME NEW ts \in Seq(MessageType), NEW tc, NEW s, NEW m \in MessageType, NoPull(ts, tc, s), NEW e
  PROVE  Asking(Append(ts, m), tc, s, e)
<1> DEFINE us == Append(ts, m)
<1>1. Len(ts) \in Nat /\ Len(us) = Len(ts) + 1 /\ \A i \in 1..Len(ts) : us[i] = ts[i]
  BY AppendOf
<1> HIDE DEF us
<1>2. \A i \in 1..Len(us) : (i \in 1..Len(ts) /\ us[i] = ts[i]) \/ i = Len(ts) + 1
  BY <1>1
<1>3. \A i \in 1..Len(us) : IsPull(us[i]) => i = Len(ts) + 1
  BY <1>2 DEF NoPull
<1>4. Asking(us, tc, s, e)
  BY <1>3 DEF NoPull, Asking
<1> QED BY <1>4 DEF us

LEMMA NoPullReads ==
  ASSUME NEW ts, NEW tc \in Seq(MessageType), tc # <<>>, NEW s, NoPull(ts, tc, s)
  PROVE  NoPull(ts, Tail(tc), s)
<1>1. \A i \in 1..Len(Tail(tc)) : i + 1 \in 1..Len(tc) /\ Tail(tc)[i] = tc[i + 1]
  BY TailOf
<1> QED BY <1>1 DEF NoPull

\* The header is read.
LEMMA HeaderRead ==
  ASSUME NEW ts, NEW tc \in Seq(MessageType), tc # <<>>, tc[1].kind = "Header", NEW s, NEW e, Asking(ts, tc, s, e)
  PROVE  NoPull(ts, Tail(tc), s) /\ Current(Tail(tc), s, e, 0, 0) /\ tc[1].size = Len(e)
<1> DEFINE uc == Tail(tc)
<1>1. /\ Len(tc) \in Nat /\ Len(uc) = Len(tc) - 1 /\ 1 \in 1..Len(tc)
      /\ \A i \in 1..Len(uc) : i + 1 \in 1..Len(tc) /\ uc[i] = tc[i + 1] /\ i + 1 # 1
  BY TailOf
<1>2. (\A j \in 1..Len(tc) : tc[j].kind = "Header" => 1 = j) /\ tc[1].size = Len(e) /\ Current(tc, s, e, 1, 0)
  BY <1>1 DEF Asking
<1> HIDE DEF uc
<1>3. \A i \in 1..Len(uc) : uc[i].kind # "Header"
  BY <1>1, <1>2
<1>4. (\A i \in 1..Len(ts) : ~IsPull(ts[i])) /\ s.st # "StartPull"
  BY <1>1 DEF Asking
<1>5. NoPull(ts, uc, s)
  BY <1>3, <1>4 DEF NoPull
<1>6. \A i \in 0 + 1..Len(uc) : /\ i + 1 \in 1 + 1..Len(tc) /\ uc[i] = tc[i + 1]
                                /\ (i + 1) - 1 - 1 = i - 0 - 1
  BY <1>1
<1>7. \A j \in 0 + 1..Len(uc) : Good(uc[j]) => uc[j].data = e
  BY <1>2, <1>6 DEF Current
<1>8. ASSUME ~Refactored PROVE InOrder(uc, s, e, 0, 0)
  <2>1. InOrder(tc, s, e, 1, 0)
    BY <1>2, <1>8 DEF Current
  <2>2. Len(uc) - 0 = Len(tc) - 1
    BY <1>1
  <2>3. ASSUME NEW j \in 0 + 1..Len(uc), uc[j].kind = "Chunk"
        PROVE  0 + At(j - 0 - 1) < Len(e) /\ uc[j].data = Piece(e, 0 + At(j - 0 - 1))
    <3>1. j + 1 \in 1 + 1..Len(tc) /\ tc[j + 1].kind = "Chunk" /\ uc[j] = tc[j + 1] /\ (j + 1) - 1 - 1 = j - 0 - 1
      BY <1>6, <2>3
    <3>2. 0 + At((j + 1) - 1 - 1) < Len(e) /\ tc[j + 1].data = Piece(e, 0 + At((j + 1) - 1 - 1))
      BY <2>1, <3>1 DEF InOrder
    <3> QED BY <3>1, <3>2
  <2> QED BY <2>1, <2>2, <2>3 DEF InOrder
<1>9. Current(uc, s, e, 0, 0)
  BY <1>2, <1>7, <1>8 DEF Current
<1> QED BY <1>2, <1>5, <1>9 DEF uc

\* A chunk or a sentinel is read; f elements were read before and g are now.
LEMMA CurrentRead ==
  ASSUME NEW tc \in Seq(MessageType), tc # <<>>, NEW s \in SessionType, Transferring(s), NEW e, Len(e) \in Nat,
         NEW f \in Nat, NEW g \in Nat, Current(tc, s, e, 0, f),
         ~Refactored => g = f + Chunk \/ (g = Len(e) /\ f + Chunk >= Len(e))
  PROVE  Current(Tail(tc), s, e, 0, g)
<1> DEFINE uc == Tail(tc)
<1>1. /\ Len(tc) \in Nat /\ Len(tc) # 0 /\ Len(uc) = Len(tc) - 1 /\ Len(uc) \in Nat
      /\ \A i \in 1..Len(uc) : i + 1 \in 1..Len(tc) /\ uc[i] = tc[i + 1]
  BY TailOf
<1> HIDE DEF uc
<1>2. \A j \in 0 + 1..Len(uc) : Good(uc[j]) => uc[j].data = e
  BY <1>1 DEF Current
<1>3. ASSUME ~Refactored PROVE InOrder(uc, s, e, 0, g)
  <2>0. InOrder(tc, s, e, 0, f) /\ (g = f + Chunk \/ (g = Len(e) /\ f + Chunk >= Len(e))) /\ Chunk \in Nat
    BY <1>3, AtFacts DEF Current
  <2>1. ASSUME NEW j \in 0 + 1..Len(uc), uc[j].kind = "Chunk"
        PROVE  g + At(j - 0 - 1) < Len(e) /\ uc[j].data = Piece(e, g + At(j - 0 - 1))
    <3>1. /\ j \in Nat /\ j # 0 /\ j + 1 \in 0 + 1..Len(tc) /\ uc[j] = tc[j + 1] /\ (j + 1) - 0 - 1 = j
          /\ j - 0 - 1 \in Nat /\ (j - 0 - 1) + 1 = j
      BY <1>1
    <3>2. f + At(j) < Len(e) /\ uc[j].data = Piece(e, f + At(j))
      BY <2>0, <2>1, <3>1 DEF InOrder
    <3>3. At(j) = At(j - 0 - 1) + Chunk /\ At(j - 0 - 1) \in Nat /\ At(j) \in Nat
      BY <3>1, AtFacts
    <3>4. g = f + Chunk
      BY <2>0, <3>2, <3>3
    <3>5. f + At(j) = g + At(j - 0 - 1)
      BY <2>0, <3>3, <3>4
    <3> QED BY <3>2, <3>5
  <2>2. ASSUME s.st = "Pull" PROVE s.done = MinOf(s.total, g + At(Len(uc) - 0))
    <3>1. s.total = Len(e) /\ s.done \in Nat
      BY <2>2 DEF Current, Transferring, SessionType
    <3>2. s.done = MinOf(s.total, f + At(Len(tc)))
      BY <1>1, <2>0, <2>2 DEF InOrder
    <3>3. At(Len(tc)) = At(Len(uc)) + Chunk /\ At(Len(uc)) \in Nat /\ Len(uc) - 0 = Len(uc)
      <4>1. Len(uc) + 1 = Len(tc)
        BY <1>1
      <4>2. At(Len(uc) + 1) = At(Len(uc)) + Chunk /\ At(Len(uc)) \in Nat
        BY <1>1, AtFacts
      <4>3. Len(uc) - 0 = Len(uc)
        BY <1>1
      <4> QED BY <4>1, <4>2, <4>3
    <3>4. CASE g = f + Chunk
      <4>1. f + At(Len(tc)) = g + At(Len(uc))
        BY <2>0, <3>3, <3>4
      <4> QED BY <3>2, <3>3, <4>1
    <3>5. CASE g = Len(e) /\ f + Chunk >= Len(e)
      <4>1. MinOf(s.total, f + At(Len(tc))) = s.total /\ MinOf(s.total, g + At(Len(uc))) = s.total
        BY <2>0, <3>1, <3>3, <3>5 DEF MinOf
      <4> QED BY <3>2, <3>3, <4>1
    <3> QED BY <2>0, <3>4, <3>5
  <2> QED BY <2>1, <2>2 DEF InOrder
<1>4. Current(uc, s, e, 0, g)
  BY <1>2, <1>3 DEF Current
<1> QED BY <1>4 DEF uc

\* What a chunk adds.
Fetches(x, k, y, p, data, n) ==
    /\ k.pc = "reading" /\ x.chunk = <<>>
    /\ n = (IF Len(data) < x.total THEN Len(data) ELSE x.total)
    /\ y.chunk = SubSeq(data, 1, n) /\ y.total = x.total - n /\ y.crc = x.crc \o SubSeq(data, 1, n)
    /\ p.pc = IF n = x.total THEN "sentinel" ELSE "reading"

LEMMA PulledFetch ==
  ASSUME NEW x \in ContextType, NEW k, NEW a \in AppType, Pulled(x, k, a), NEW data \in Seq(Datum), NEW n \in Nat,
         ~Refactored => data = Piece(a.expect, Len(x.crc)),
         NEW y \in ContextType, NEW p, Fetches(x, k, y, p, data, n)
  PROVE  /\ Pulled(y, p, a)
         /\ ~Refactored => \/ Len(y.crc) = Len(x.crc) + Chunk
                           \/ Len(y.crc) = Len(a.expect) /\ Len(x.crc) + Chunk >= Len(a.expect)
<1> DEFINE d == SubSeq(data, 1, n)
           e == a.expect
<1>f. /\ k.pc = "reading" /\ x.chunk = <<>>
      /\ n = (IF Len(data) < x.total THEN Len(data) ELSE x.total)
      /\ y.chunk = SubSeq(data, 1, n) /\ y.total = x.total - n /\ y.crc = x.crc \o SubSeq(data, 1, n)
      /\ p.pc = IF n = x.total THEN "sentinel" ELSE "reading"
  BY DEF Fetches
<1>0. /\ x.crc \in Seq(Datum) /\ x.total \in Nat /\ a.data \in Seq(Datum) /\ e \in Seq(Datum) /\ Len(e) \in Nat
      /\ Len(x.crc) \in Nat /\ Len(data) \in Nat
  <2>1. x.crc \in Seq(Datum) /\ x.total \in Nat /\ a.data \in Seq(Datum) /\ e \in Seq(Datum)
    BY DEF ContextType, AppType
  <2> QED BY <2>1, LenProperties
<1>1. n <= Len(data) /\ n <= x.total /\ d \in Seq(Datum) /\ Len(d) = n
  <2>1. n <= Len(data) /\ n <= x.total
    BY <1>0, <1>f
  <2> QED BY <2>1, PrefixOf
<1>2. a.outcome = "none" /\ a.data = x.crc /\ x.total + Len(x.crc) = Len(e) /\ x.total # 0
  BY <1>0, <1>f, ConcatEmptySeq DEF Pulled
<1>l. Len(x.crc) < Len(e) /\ x.total = Len(e) - Len(x.crc)
  <2> DEFINE i == x.total
             j == Len(x.crc)
             l == Len(e)
  <2>1. i \in Nat /\ j \in Nat /\ l \in Nat /\ i + j = l /\ i # 0
    BY <1>0, <1>2
  <2> HIDE DEF i, j, l
  <2>2. j < l /\ i = l - j
    BY <2>1
  <2> QED BY <2>2 DEF i, j, l
<1>3. a.data \o y.chunk = y.crc
  BY <1>2, <1>f
<1> HIDE DEF d
<1>4. Len(y.crc) = Len(x.crc) + n
  BY <1>0, <1>1, <1>f, ConcatProperties DEF d
<1>5. y.total + Len(y.crc) = Len(e)
  BY <1>0, <1>1, <1>2, <1>4, <1>f
<1>6. y.total = 0 <=> n = x.total
  BY <1>0, <1>1, <1>f
<1>7. p.pc = "sentinel" => y.total = 0 /\ y.chunk # <<>>
  <2> SUFFICES ASSUME p.pc = "sentinel" PROVE y.total = 0 /\ y.chunk # <<>>
    OBVIOUS
  <2>1. n = x.total /\ Len(d) # 0
    BY <1>1, <1>2, <1>f
  <2> QED BY <1>6, <1>f, <2>1, EmptyData DEF d
<1>8. ASSUME ~Refactored
      PROVE  /\ y.crc = SubSeq(e, 1, Len(y.crc))
             /\ Len(y.crc) = Len(x.crc) + Chunk \/ (Len(y.crc) = Len(e) /\ Len(x.crc) + Chunk >= Len(e))
  <2> DEFINE f == Len(x.crc)
             q == MinOf(f + Chunk, Len(e))
  <2>1. data = SubSeq(e, f + 1, q) /\ x.crc = SubSeq(e, 1, f)
    BY <1>8 DEF Piece, Pulled
  <2>2. Chunk \in Nat \ {0} /\ f \in Nat /\ f < Len(e) /\ q \in f..Len(e) /\ q \in Nat
    <3>1. Chunk \in Nat \ {0} /\ f \in Nat /\ f < Len(e)
      BY <1>0, <1>l, AtFacts
    <3> HIDE DEF f
    <3>2. CASE f + Chunk < Len(e)
      <4>1. q = f + Chunk
        BY <3>2 DEF MinOf
      <4>2. f + Chunk \in f..Len(e) /\ f + Chunk \in Nat
        BY <1>0, <3>1, <3>2
      <4> QED BY <3>1, <4>1, <4>2
    <3>3. CASE ~(f + Chunk < Len(e))
      <4>1. q = Len(e)
        BY <3>3 DEF MinOf
      <4> QED BY <1>0, <3>1, <4>1
    <3> QED BY <3>2, <3>3
  <2>3. Len(data) = q - f
    <3>1. \A i \in f + 1..q : e[i] \in Datum
      <4>1. \A i \in f + 1..q : i \in 1..Len(e)
        BY <1>0, <2>2
      <4> QED BY <1>0, <4>1, ElementOfSeq
    <3>2. Len(SubSeq(e, f + 1, q)) = IF f + 1 <= q THEN q - (f + 1) + 1 ELSE 0
      BY <2>2, <3>1, SubSeqProperties
    <3>3. Len(SubSeq(e, f + 1, q)) = q - f
      BY <2>2, <3>2
    <3> QED BY <2>1, <3>3
  <2> HIDE DEF q
  <2>4. n = q - f
    <3>1. x.total = Len(e) - f
      BY <1>l
    <3> HIDE DEF f
    <3>2. CASE Len(data) < x.total
      BY <1>f, <2>3, <3>2
    <3>3. CASE ~(Len(data) < x.total)
      <4>1. n = Len(e) - f /\ ~(q - f < Len(e) - f)
        BY <1>f, <2>3, <3>1, <3>3
      <4>2. q = Len(e)
        BY <1>0, <2>2, <4>1
      <4> QED BY <4>1, <4>2
    <3> QED BY <3>2, <3>3
  <2>5. d = data
    BY <2>3, <2>4, SubSeqFull DEF d
  <2>6. SubSeq(e, 1, f) \o SubSeq(e, f + 1, q) = SubSeq(e, 1, q)
    <3>1. 1 \in 1..Len(e) + 1 /\ f \in 1 - 1..Len(e) /\ q \in f..Len(e)
      BY <1>0, <2>2
    <3> HIDE DEF f
    <3> QED BY <1>0, <3>1, ConcatAdjacentSubSeq
  <2>7. Len(y.crc) = q
    BY <1>4, <2>2, <2>4
  <2>8. y.crc = SubSeq(e, 1, Len(y.crc))
    BY <1>f, <2>1, <2>5, <2>6, <2>7 DEF d
  <2>9. q = f + Chunk \/ (q = Len(e) /\ f + Chunk >= Len(e))
    BY <1>0, <2>2 DEF q, MinOf
  <2> QED BY <2>7, <2>8, <2>9
<1>9. Pulled(y, p, a)
  BY <1>2, <1>3, <1>5, <1>6, <1>7, <1>8, <1>f DEF Pulled
<1> QED BY <1>8, <1>9

Before(c) == LocalInv(toServer[c], toClient[c], sess[c], ctx[c], call[c], app[c], link[c])
After(c) == LocalInv(toServer'[c], toClient'[c], sess'[c], ctx'[c], call'[c], app'[c], link'[c])

LEMMA FieldsAfter ==
  ASSUME TInv, NEW c \in Clients
  PROVE  /\ Return(c) => call'[c] = NoCall /\ call'[c].pc = "none"
         /\ \A pc : Enter(c, pc) => call'[c].pc = pc
         /\ \A o : Told(c, o) => /\ app'[c].outcome = o /\ app'[c].op = app[c].op
                                 /\ app'[c].data = app[c].data /\ app'[c].expect = app[c].expect
         /\ \A z : ctx' = [ctx EXCEPT ![c].state = z] =>
               /\ ctx'[c].state = z /\ ctx'[c].total = ctx[c].total /\ ctx'[c].crc = ctx[c].crc
               /\ ctx'[c].chunk = ctx[c].chunk /\ ctx'[c].type = ctx[c].type
<1>1. call \in [Clients -> CallType] /\ ctx \in [Clients -> ContextType] /\ app \in [Clients -> AppType]
  BY DEF TInv, ClientTypes
<1>2. call[c] \in CallType /\ ctx[c] \in ContextType /\ app[c] \in AppType
  BY <1>1
<1>3. Return(c) => call'[c] = NoCall /\ call'[c].pc = "none"
  BY <1>1 DEF Return, NoCall
<1>4. ASSUME NEW pc, Enter(c, pc) PROVE call'[c].pc = pc
  BY <1>1, <1>2, <1>4 DEF Enter, CallType
<1>5. ASSUME NEW o, Told(c, o)
      PROVE  /\ app'[c].outcome = o /\ app'[c].op = app[c].op
             /\ app'[c].data = app[c].data /\ app'[c].expect = app[c].expect
  BY <1>1, <1>2, <1>5 DEF Told, AppType
<1>6. ASSUME NEW z, ctx' = [ctx EXCEPT ![c].state = z]
      PROVE  /\ ctx'[c].state = z /\ ctx'[c].total = ctx[c].total /\ ctx'[c].crc = ctx[c].crc
             /\ ctx'[c].chunk = ctx[c].chunk /\ ctx'[c].type = ctx[c].type
  BY <1>1, <1>2, <1>6 DEF ContextType
<1> QED BY <1>3, <1>4, <1>5, <1>6

LEMMA FailedLocal ==
  ASSUME NEW c, link'[c] = "up", ctx'[c].state = "Error", call'[c].pc = "none", app'[c].outcome = "failed"
  PROVE  After(c)
BY DEF After, LocalInv, CallOK, PullOK, Pulling

LEMMA ReadWires ==
  ASSUME TInv, NEW c \in Clients, NEW pc, Read(c, pc), UNCHANGED <<toServer, link>>
  PROVE  /\ link[c] = "up" /\ link'[c] = "up" /\ call[c].pc = pc /\ toServer'[c] = toServer[c]
         /\ toClient[c] # <<>> /\ toClient'[c] = Tail(toClient[c]) /\ Answer(c) = toClient[c][1]
         /\ Answer(c) \in MessageType /\ toClient[c] \in Seq(MessageType)
<1>1. toClient \in [Clients -> Seq(MessageType)]
  BY DEF TInv, WireTypes
<1>2. toClient' = [toClient EXCEPT ![c] = Tail(toClient[c])] /\ Answer(c) = toClient[c][1] /\ Answer(c) \in MessageType
  BY ReadTypes
<1> QED BY <1>1, <1>2 DEF Read, Waits

LEMMA AskLocal ==
  ASSUME TInv, NEW c \in Clients, Before(c), NEW id \in Ids, NEW size \in Nat, NEW type, NEW pc,
         (type = "Pull" /\ pc = "pullReply") \/ (type = "Push" /\ pc = "pushReply"), Ask(c, type, id, size, pc)
  PROVE  After(c)
<1> DEFINE m == [Request(type, id, size) EXCEPT !.req = app[c].req + 1]
<1>0. id \in AllIds /\ app[c].req + 1 \in Nat /\ type \in {"Pull", "Push"}
  BY Typed DEF AllIds
<1>1. m \in MessageType /\ m.kind = "Request" /\ m.type = type
  BY <1>0, RequestType, StampedType
<1>2. /\ link[c] = "up" /\ link'[c] = "up" /\ call[c].pc = "none" /\ ctx[c].state = "Idle" /\ ctx'[c] = ctx[c]
      /\ toServer'[c] = Append(toServer[c], m) /\ toClient'[c] = toClient[c] /\ sess'[c] = sess[c]
  BY DEF Ask, Free, Write, server, TInv, WireTypes
<1>3. call'[c].pc = pc
  BY FieldsAfter DEF Ask
<1>4. app'[c].op = type /\ app'[c].outcome = "none" /\ app'[c].data = <<>> /\ app'[c].expect = <<>>
  <2>1. app'[c] = [NewApp EXCEPT !.req = app[c].req + 1, !.op = type, !.size = size]
    BY DEF Ask, TInv, ClientTypes
  <2> QED BY <2>1 DEF NewApp
<1> HIDE DEF m
<1>5. NoPull(toServer[c], toClient[c], sess[c])
  BY <1>2 DEF Before, LocalInv, PullOK
<1>6. CASE pc = "pullReply"
  <2>1. Asking(toServer'[c], toClient'[c], sess'[c], app'[c].expect)
    BY <1>1, <1>2, <1>5, Typed, AskingBegins
  <2> QED BY <1>2, <1>3, <1>4, <1>6, <2>1 DEF After, LocalInv, CallOK, PullOK, Pulling
<1>7. CASE pc = "pushReply"
  <2>1. NoPull(toServer'[c], toClient'[c], sess'[c])
    BY <1>1, <1>2, <1>5, <1>7, Typed, NoPullWrites DEF IsPull
  <2> QED BY <1>2, <1>3, <1>4, <1>7, <2>1 DEF After, LocalInv, CallOK, PullOK, Pulling
<1> QED BY <1>6, <1>7

LEMMA PullAnsweredLocal ==
  ASSUME TInv, NEW c \in Clients, Before(c), PullAnswered(c)
  PROVE  After(c)
<1>1. Read(c, "pullReply") /\ UNCHANGED <<toServer, link>> /\ sess' = sess /\ Return(c)
  BY DEF PullAnswered, server
<1>2. /\ link[c] = "up" /\ link'[c] = "up" /\ call[c].pc = "pullReply" /\ toServer'[c] = toServer[c]
      /\ toClient[c] # <<>> /\ toClient'[c] = Tail(toClient[c]) /\ Answer(c) = toClient[c][1]
      /\ toClient[c] \in Seq(MessageType) /\ sess'[c] = sess[c]
  BY <1>1, ReadWires
<1>3. call'[c].pc = "none"
  BY <1>1, FieldsAfter
<1>4. CASE Answer(c).kind = "Header"
  <2>1. app' = app /\ ctx'[c].state = "TransferInProgress" /\ ctx'[c].total = Answer(c).size
        /\ ctx'[c].crc = <<>> /\ ctx'[c].chunk = <<>>
    BY <1>4 DEF PullAnswered, TInv, ClientTypes, NewContext
  <2>2. Asking(toServer[c], toClient[c], sess[c], app[c].expect) /\ CallOK(toServer[c], toClient[c], sess[c], ctx[c], call[c], app[c], "up")
    BY <1>2 DEF Before, LocalInv, PullOK
  <2>3. /\ NoPull(toServer'[c], toClient'[c], sess'[c]) /\ Current(toClient'[c], sess'[c], app[c].expect, 0, 0)
        /\ ctx'[c].total = Len(app[c].expect)
    BY <1>2, <1>4, <2>1, <2>2, HeaderRead
  <2>4. app[c].op = "Pull" /\ app[c].outcome = "none" /\ app[c].data = <<>> /\ app[c].expect \in Seq(Datum)
    BY <1>2, <2>2, Typed DEF CallOK
  <2>5. <<>> \o <<>> = <<>> /\ Len(<<>>) = 0 /\ (Len(app[c].expect) = 0 => app[c].expect = <<>>) /\ Len(app[c].expect) \in Nat
    BY <2>4, EmptySeq, EmptyData, ConcatEmptySeq
  <2>6. SubSeq(app[c].expect, 1, 0) = <<>>
    BY SubSeqEmpty
  <2>7. Pulled(ctx'[c], call'[c], app'[c])
    BY <1>3, <2>1, <2>3, <2>4, <2>5, <2>6 DEF Pulled
  <2>8. Len(ctx'[c].crc) = 0
    BY <2>1, <2>5
  <2>9. PullOK(toServer'[c], toClient'[c], sess'[c], ctx'[c], call'[c], app'[c])
    BY <1>3, <2>1, <2>3, <2>7, <2>8 DEF PullOK
  <2> QED BY <1>2, <1>3, <2>1, <2>4, <2>9 DEF After, LocalInv, CallOK
<1>5. CASE Answer(c).kind # "Header"
  <2>1. ctx' = [ctx EXCEPT ![c].state = "Error"] /\ Told(c, "failed")
    BY <1>5 DEF PullAnswered
  <2>2. ctx'[c].state = "Error" /\ app'[c].outcome = "failed" /\ call'[c].pc = "none"
    BY <1>3, <2>1, FieldsAfter
  <2> QED BY <1>2, <2>2, FailedLocal
<1> QED BY <1>4, <1>5

LEMMA BeginReadLocal ==
  ASSUME TInv, NEW c \in Clients, Before(c), NEW room, BeginRead(c, room)
  PROVE  After(c)
<1>1. /\ link[c] = "up" /\ link'[c] = "up" /\ call[c].pc = "none" /\ Pulling(ctx[c], app[c])
      /\ toServer'[c] = toServer[c] /\ toClient'[c] = toClient[c] /\ sess'[c] = sess[c]
  BY DEF BeginRead, Free, server, wires, Pulling
<1>2. /\ CallOK(toServer[c], toClient[c], sess[c], ctx[c], call[c], app[c], "up")
      /\ PullOK(toServer[c], toClient[c], sess[c], ctx[c], call[c], app[c])
  BY <1>1 DEF Before, LocalInv
<1>3. NoPull(toServer[c], toClient[c], sess[c]) /\ Pulled(ctx[c], call[c], app[c])
      /\ Current(toClient[c], sess[c], app[c].expect, 0, Len(ctx[c].crc))
  BY <1>1, <1>2 DEF PullOK, Pulling
<1>4. CASE ctx[c].total = 0 /\ ctx[c].chunk = <<>>
  <2>1. ctx' = [ctx EXCEPT ![c].state = "Idle"] /\ Told(c, "read") /\ call' = call
    BY <1>4 DEF BeginRead
  <2>2. app[c].data = app[c].expect
    BY <1>1, <1>3, <1>4, Typed, ConcatEmptySeq DEF Pulled
  <2>3. /\ ctx'[c].state = "Idle" /\ app'[c].outcome = "read" /\ app'[c].op = "Pull"
        /\ app'[c].data = app'[c].expect /\ call'[c].pc = "none"
    <3>1. ctx'[c].state = "Idle"
      BY <2>1, FieldsAfter
    <3>2. app'[c].outcome = "read" /\ app'[c].op = app[c].op /\ app'[c].data = app[c].data /\ app'[c].expect = app[c].expect
      BY <2>1, FieldsAfter
    <3> QED BY <1>1, <2>1, <2>2, <3>1, <3>2 DEF Pulling
  <2> QED BY <1>1, <1>3, <2>3 DEF After, LocalInv, CallOK, PullOK, Pulling
<1>5. CASE ~(ctx[c].total = 0 /\ ctx[c].chunk = <<>>)
  <2>1. ctx' = ctx /\ app' = app /\ call'[c].pc = "reading"
    BY <1>5 DEF BeginRead, TInv, ClientTypes, NoCall
  <2>2. Pulled(ctx'[c], call'[c], app'[c])
    BY <1>1, <1>3, <1>5, <2>1 DEF Pulled
  <2>3. PullOK(toServer'[c], toClient'[c], sess'[c], ctx'[c], call'[c], app'[c])
    BY <1>1, <1>3, <2>1, <2>2 DEF PullOK
  <2>4. CallOK(toServer'[c], toClient'[c], sess'[c], ctx'[c], call'[c], app'[c], "up")
    BY <1>1, <1>2, <2>1 DEF CallOK, Pulling
  <2> QED BY <1>1, <2>3, <2>4 DEF After, LocalInv
<1> QED BY <1>4, <1>5

LEMMA JoinData ==
  ASSUME NEW p \in Seq(Datum), NEW q \in Seq(Datum), NEW r \in Seq(Datum)
  PROVE  (p \o q) \o r = p \o (q \o r)
<1> DEFINE S == Datum
<1> HIDE DEF S
<1>1. p \in Seq(S) /\ q \in Seq(S) /\ r \in Seq(S)
  BY DEF S
<1> QED BY <1>1, ConcatAssociative

LEMMA CopyOutLocal ==
  ASSUME TInv, NEW c \in Clients, Before(c), CopyOut(c)
  PROVE  After(c)
<1>1. PICK n \in 0..Len(ctx[c].chunk), x \in ContextType, y \in CallType, a \in AppType : CopiesOut(c, n, x, y, a)
  BY CopyOutCases
<1>2. /\ link[c] = "up" /\ link'[c] = "up" /\ call[c].pc = "reading"
      /\ toServer'[c] = toServer[c] /\ toClient'[c] = toClient[c] /\ sess'[c] = sess[c]
      /\ ctx'[c] = x /\ call'[c] = y /\ app'[c] = a
      /\ a.expect = app[c].expect /\ a.op = app[c].op /\ x.total = ctx[c].total /\ x.crc = ctx[c].crc
  BY <1>1 DEF CopiesOut, server, TInv, ClientTypes
<1>3. /\ CallOK(toServer[c], toClient[c], sess[c], ctx[c], call[c], app[c], "up")
      /\ PullOK(toServer[c], toClient[c], sess[c], ctx[c], call[c], app[c])
  BY <1>2 DEF Before, LocalInv
<1>4. Pulling(ctx[c], app[c])
  BY <1>2, <1>3 DEF CallOK
<1>5. NoPull(toServer[c], toClient[c], sess[c]) /\ Pulled(ctx[c], call[c], app[c])
      /\ Current(toClient[c], sess[c], app[c].expect, 0, Len(ctx[c].crc))
  BY <1>2, <1>3, <1>4 DEF PullOK, Pulling
<1> DEFINE chunk == ctx[c].chunk
           d == app[c].data
<1>6. d \in Seq(Datum) /\ chunk \in Seq(Datum) /\ Len(chunk) \in Nat /\ n \in Nat
  BY <1>1, Typed
<1>7. /\ a.data = d \o SubSeq(chunk, 1, n) /\ x.chunk = SubSeq(chunk, n + 1, Len(chunk))
  BY <1>1 DEF CopiesOut
<1>8. CASE ctx[c].total = 0 /\ n = Len(chunk)
  <2>1. a.outcome = "read" /\ x.state = "Idle" /\ y.pc = "none"
    BY <1>1, <1>8 DEF CopiesOut
  <2>2. a.data = a.expect
    <3>1. SubSeq(chunk, 1, n) = chunk
      BY <1>6, <1>8, SubSeqFull
    <3> QED BY <1>2, <1>5, <1>7, <1>8, <3>1 DEF Pulled
  <2> QED BY <1>2, <1>4, <1>5, <2>1, <2>2 DEF After, LocalInv, CallOK, PullOK, Pulling
<1>9. CASE ~(ctx[c].total = 0 /\ n = Len(chunk))
  <2>1. a.outcome = app[c].outcome /\ x.state = ctx[c].state /\ y.pc \in {"none", "reading"}
    BY <1>1, <1>9 DEF CopiesOut
  <2>2. a.data \o x.chunk = x.crc
    <3>1. SubSeq(chunk, 1, n) \in Seq(Datum) /\ SubSeq(chunk, n + 1, Len(chunk)) \in Seq(Datum)
      BY <1>6, <1>1
    <3>2. SubSeq(chunk, 1, n) \o SubSeq(chunk, n + 1, Len(chunk)) = chunk
      <4>1. 1 \in 1..Len(chunk) + 1 /\ n \in 1 - 1..Len(chunk) /\ Len(chunk) \in n..Len(chunk)
        BY <1>1, <1>6
      <4>2. SubSeq(chunk, 1, n) \o SubSeq(chunk, n + 1, Len(chunk)) = SubSeq(chunk, 1, Len(chunk))
        BY <1>6, <4>1, ConcatAdjacentSubSeq
      <4> QED BY <1>6, <4>2, SubSeqFull
    <3>3. (d \o SubSeq(chunk, 1, n)) \o SubSeq(chunk, n + 1, Len(chunk)) = d \o chunk
      <4> DEFINE p == SubSeq(chunk, 1, n)
                 q == SubSeq(chunk, n + 1, Len(chunk))
      <4>1. p \in Seq(Datum) /\ q \in Seq(Datum) /\ d \in Seq(Datum) /\ p \o q = chunk
        BY <1>6, <3>1, <3>2
      <4> HIDE DEF p, q, d
      <4>2. (d \o p) \o q = d \o (p \o q)
        BY <4>1, JoinData
      <4> QED BY <4>1, <4>2 DEF p, q
    <3> QED BY <1>2, <1>5, <1>7, <3>3 DEF Pulled
  <2>3. x.total = 0 => x.chunk # <<>>
    <3> SUFFICES ASSUME x.total = 0 PROVE x.chunk # <<>>
      OBVIOUS
    <3>1. n < Len(chunk)
      BY <1>1, <1>2, <1>6, <1>9
    <3>2. Len(SubSeq(chunk, n + 1, Len(chunk))) = Len(chunk) - n
      BY <1>6, <3>1
    <3>3. Len(chunk) - n # 0
      BY <1>6, <3>1
    <3> QED BY <1>7, <3>2, <3>3, EmptyData
  <2>4. Pulled(x, y, a)
    BY <1>2, <1>5, <2>1, <2>2, <2>3 DEF Pulled
  <2>5. PullOK(toServer'[c], toClient'[c], sess'[c], x, y, a)
    BY <1>2, <1>5, <2>1, <2>4 DEF PullOK
  <2>6. CallOK(toServer'[c], toClient'[c], sess'[c], x, y, a, "up")
    BY <1>2, <1>4, <1>5, <2>1 DEF CallOK, Pulling, Pulled
  <2> QED BY <1>2, <2>5, <2>6 DEF After, LocalInv
<1> QED BY <1>8, <1>9

LEMMA FetchLocal ==
  ASSUME TInv, NEW c \in Clients, Before(c), Fetch(c)
  PROVE  After(c)
<1>1. Read(c, "reading") /\ ctx[c].chunk = <<>> /\ UNCHANGED <<toServer, link>> /\ sess' = sess
  BY FetchCases DEF server
<1>2. /\ link[c] = "up" /\ link'[c] = "up" /\ call[c].pc = "reading" /\ toServer'[c] = toServer[c]
      /\ toClient[c] # <<>> /\ toClient'[c] = Tail(toClient[c]) /\ Answer(c) = toClient[c][1]
      /\ Answer(c) \in MessageType /\ toClient[c] \in Seq(MessageType) /\ sess'[c] = sess[c]
  BY <1>1, ReadWires
<1>3. CASE ctx' = [ctx EXCEPT ![c].state = "Error"] /\ Return(c) /\ Told(c, "failed")
  <2>1. ctx'[c].state = "Error" /\ app'[c].outcome = "failed" /\ call'[c].pc = "none"
    BY <1>3, FieldsAfter
  <2> QED BY <1>2, <2>1, FailedLocal
<1>4. ASSUME NEW n \in Nat, NEW x \in ContextType,
                  Answer(c).kind = "Chunk", ctx' = [ctx EXCEPT ![c] = x], UNCHANGED app,
                  n = (IF Len(Answer(c).data) < ctx[c].total THEN Len(Answer(c).data) ELSE ctx[c].total),
                  x.state = ctx[c].state, x.chunk = SubSeq(Answer(c).data, 1, n), x.total = ctx[c].total - n,
                  x.crc = ctx[c].crc \o SubSeq(Answer(c).data, 1, n),
                  IF n = ctx[c].total THEN Enter(c, "sentinel") ELSE UNCHANGED call
      PROVE  After(c)
  <2>1. ctx'[c] = x /\ app'[c] = app[c] /\ call'[c].pc = IF n = ctx[c].total THEN "sentinel" ELSE "reading"
    <3>1. ctx'[c] = x /\ app'[c] = app[c]
      BY <1>4 DEF TInv, ClientTypes
    <3>2. CASE n = ctx[c].total
      BY <1>4, <3>1, <3>2, FieldsAfter
    <3>3. CASE n # ctx[c].total
      BY <1>2, <1>4, <3>1, <3>3
    <3> QED BY <3>2, <3>3
  <2>2. /\ CallOK(toServer[c], toClient[c], sess[c], ctx[c], call[c], app[c], "up")
        /\ PullOK(toServer[c], toClient[c], sess[c], ctx[c], call[c], app[c])
    BY <1>2 DEF Before, LocalInv
  <2>3. Pulling(ctx[c], app[c])
    BY <1>2, <2>2 DEF CallOK
  <2>4. NoPull(toServer[c], toClient[c], sess[c]) /\ Pulled(ctx[c], call[c], app[c])
        /\ Current(toClient[c], sess[c], app[c].expect, 0, Len(ctx[c].crc))
    BY <1>2, <2>2, <2>3 DEF PullOK, Pulling
  <2>5. ctx[c].crc \in Seq(Datum) /\ Len(ctx[c].crc) \in Nat /\ Answer(c).data \in Seq(Datum) /\ Len(app[c].expect) \in Nat
    BY <1>2, Typed, MessageFields
  <2>6. ~Refactored => Answer(c).data = Piece(app[c].expect, Len(ctx[c].crc))
    <3> SUFFICES ASSUME ~Refactored PROVE Answer(c).data = Piece(app[c].expect, Len(ctx[c].crc))
      OBVIOUS
    <3>1. 1 \in 0 + 1..Len(toClient[c]) /\ 1 - 0 - 1 = 0
      BY <1>2, TailOf
    <3>2. toClient[c][1].data = Piece(app[c].expect, Len(ctx[c].crc) + At(1 - 0 - 1))
      BY <1>2, <1>4, <2>4, <3>1 DEF Current, InOrder
    <3>3. Len(ctx[c].crc) + At(1 - 0 - 1) = Len(ctx[c].crc)
      <4>1. At(1 - 0 - 1) = 0
        BY <3>1, AtFacts
      <4> QED BY <2>5, <4>1
    <3> QED BY <1>2, <3>2, <3>3
  <2>7. /\ Pulled(x, call'[c], app[c])
        /\ ~Refactored => \/ Len(x.crc) = Len(ctx[c].crc) + Chunk
                          \/ Len(x.crc) = Len(app[c].expect) /\ Len(ctx[c].crc) + Chunk >= Len(app[c].expect)
    <3> DEFINE x0 == ctx[c]
               a0 == app[c]
               k0 == call[c]
               p == call'[c]
               data == Answer(c).data
    <3>1. x0 \in ContextType /\ a0 \in AppType /\ data \in Seq(Datum)
      BY <2>5, Typed
    <3>2. Pulled(x0, k0, a0) /\ (~Refactored => data = Piece(a0.expect, Len(x0.crc)))
      BY <2>4, <2>6
    <3>3. Fetches(x0, k0, x, p, data, n)
      BY <1>1, <1>2, <1>4, <2>1 DEF Fetches
    <3> HIDE DEF x0, a0, k0, p, data
    <3>5. /\ Pulled(x, p, a0)
          /\ ~Refactored => \/ Len(x.crc) = Len(x0.crc) + Chunk
                            \/ Len(x.crc) = Len(a0.expect) /\ Len(x0.crc) + Chunk >= Len(a0.expect)
      BY <3>1, <3>2, <3>3, PulledFetch
    <3> QED BY <3>5 DEF x0, a0, p
  <2>8. Current(toClient'[c], sess[c], app[c].expect, 0, Len(x.crc))
    <3>1. x.crc \in Seq(Datum) /\ Len(x.crc) \in Nat /\ sess[c] \in SessionType /\ Transferring(sess[c])
      BY Typed DEF ContextType, TInv
    <3> QED BY <1>2, <2>4, <2>5, <2>7, <3>1, CurrentRead
  <2>9. NoPull(toServer'[c], toClient'[c], sess'[c])
    BY <1>2, <2>4, NoPullReads
  <2>10. Pulling(x, app[c])
    BY <1>4, <2>3 DEF Pulling
  <2>11. call'[c].pc \in {"sentinel", "reading"}
    BY <2>1
  <2>12. PullOK(toServer'[c], toClient'[c], sess'[c], ctx'[c], call'[c], app'[c])
    BY <1>2, <2>1, <2>7, <2>8, <2>9, <2>11 DEF PullOK
  <2>13. CallOK(toServer'[c], toClient'[c], sess'[c], ctx'[c], call'[c], app'[c], "up")
    BY <2>1, <2>4, <2>10, <2>11 DEF CallOK, Pulling, Pulled
  <2> QED BY <1>2, <2>12, <2>13 DEF After, LocalInv
<1> QED BY <1>3, <1>4, FetchCases

LEMMA CheckSentinelLocal ==
  ASSUME TInv, NEW c \in Clients, Before(c), CheckSentinel(c)
  PROVE  After(c)
<1> DEFINE m == Answer(c)
           good == m.kind = "Sentinel" /\ m.result = "Success" /\ (Refactored => m.data = ctx[c].crc)
<1>1. Read(c, "sentinel") /\ UNCHANGED <<toServer, link>> /\ sess' = sess
  BY DEF CheckSentinel, server
<1>2. /\ link[c] = "up" /\ link'[c] = "up" /\ call[c].pc = "sentinel" /\ toServer'[c] = toServer[c]
      /\ toClient[c] # <<>> /\ toClient'[c] = Tail(toClient[c]) /\ m = toClient[c][1]
      /\ m \in MessageType /\ toClient[c] \in Seq(MessageType) /\ sess'[c] = sess[c]
  BY <1>1, ReadWires
<1>3. CASE ~good
  <2>1. ctx' = [ctx EXCEPT ![c].state = "Error"] /\ Return(c) /\ Told(c, "failed")
    BY <1>3 DEF CheckSentinel
  <2>2. ctx'[c].state = "Error" /\ call'[c].pc = "none"
    BY <2>1, FieldsAfter
  <2>3. app'[c].outcome = "failed"
    BY <2>1, FieldsAfter
  <2> QED BY <1>2, <2>2, <2>3, FailedLocal
<1>4. CASE good
  <2>1. ctx' = ctx /\ app' = app /\ Enter(c, "reading")
    BY <1>4 DEF CheckSentinel
  <2>2. call'[c].pc = "reading"
    BY <2>1, FieldsAfter
  <2>3. /\ CallOK(toServer[c], toClient[c], sess[c], ctx[c], call[c], app[c], "up")
        /\ PullOK(toServer[c], toClient[c], sess[c], ctx[c], call[c], app[c])
    BY <1>2 DEF Before, LocalInv
  <2>4. Pulling(ctx[c], app[c])
    BY <1>2, <2>3 DEF CallOK
  <2>5. NoPull(toServer[c], toClient[c], sess[c]) /\ Pulled(ctx[c], call[c], app[c])
        /\ Current(toClient[c], sess[c], app[c].expect, 0, Len(ctx[c].crc))
    BY <1>2, <2>3, <2>4 DEF PullOK, Pulling
  <2>6. /\ ctx[c].crc \in Seq(Datum) /\ Len(ctx[c].crc) \in Nat /\ app[c].expect \in Seq(Datum)
        /\ Len(app[c].expect) \in Nat /\ sess[c] \in SessionType /\ Transferring(sess[c])
    BY Typed DEF TInv
  <2>7. Len(ctx[c].crc) = Len(app[c].expect) /\ ctx[c].total = 0 /\ ctx[c].chunk # <<>>
    <3>1. ctx[c].total = 0 /\ ctx[c].total + Len(ctx[c].crc) = Len(app[c].expect) /\ ctx[c].chunk # <<>>
      BY <1>2, <2>5 DEF Pulled
    <3> QED BY <2>6, <3>1
  <2>8. ctx[c].crc = app[c].expect
    <3>1. CASE Refactored
      <4>1. 1 \in 0 + 1..Len(toClient[c])
        BY <1>2, TailOf
      <4>2. m.data = app[c].expect
        BY <1>2, <1>4, <2>5, <4>1 DEF Current, Good
      <4> QED BY <1>4, <3>1, <4>2
    <3>2. CASE ~Refactored
      <4>1. ctx[c].crc = SubSeq(app[c].expect, 1, Len(app[c].expect))
        BY <2>5, <2>7, <3>2 DEF Pulled
      <4> QED BY <2>6, <4>1, SubSeqFull
    <3> QED BY <3>1, <3>2
  <2>9. Current(toClient'[c], sess[c], app[c].expect, 0, Len(ctx[c].crc))
    <3>1. Len(ctx[c].crc) + Chunk >= Len(app[c].expect)
      <4>1. Chunk \in Nat
        BY AtFacts
      <4> QED BY <2>6, <2>7, <4>1
    <3> QED BY <1>2, <2>5, <2>6, <2>7, <3>1, CurrentRead
  <2>10. NoPull(toServer'[c], toClient'[c], sess'[c])
    BY <1>2, <2>5, NoPullReads
  <2>11. Pulled(ctx'[c], call'[c], app'[c])
    BY <2>1, <2>2, <2>5, <2>7, <2>8 DEF Pulled
  <2>12. PullOK(toServer'[c], toClient'[c], sess'[c], ctx'[c], call'[c], app'[c])
    BY <1>2, <2>1, <2>2, <2>9, <2>10, <2>11 DEF PullOK
  <2>13. CallOK(toServer'[c], toClient'[c], sess'[c], ctx'[c], call'[c], app'[c], "up")
    BY <2>1, <2>2, <2>4, <2>5 DEF CallOK, Pulling, Pulled
  <2> QED BY <1>2, <2>12, <2>13 DEF After, LocalInv
<1> QED BY <1>3, <1>4

LEMMA AbortLocal ==
  ASSUME TInv, NEW c \in Clients, Before(c), AbortPullTransfer(c)
  PROVE  After(c)
<1>1. /\ link[c] = "up" /\ link'[c] = "up" /\ call[c].pc = "none" /\ Pulling(ctx[c], app[c])
      /\ toClient'[c] = toClient[c] /\ sess'[c] = sess[c]
  BY DEF AbortPullTransfer, Free, server, Pulling
<1>2. CASE ctx[c].type # "Pull"
  <2>1. ctx' = [ctx EXCEPT ![c].state = "Error"] /\ Told(c, "failed") /\ call' = call
    BY <1>2 DEF AbortPullTransfer
  <2>2. ctx'[c].state = "Error"
    BY <2>1, FieldsAfter
  <2>3. app'[c].outcome = "failed"
    BY <2>1, FieldsAfter
  <2>4. call'[c].pc = "none"
    BY <1>1, <2>1
  <2> QED BY <1>1, <2>2, <2>3, <2>4, FailedLocal
<1>3. CASE ctx[c].type = "Pull"
  <2> DEFINE m == [Status("Aborted") EXCEPT !.req = app[c].req]
  <2>1. ctx' = ctx /\ app' = app /\ Enter(c, "aborting") /\ Write(c, m)
    BY <1>3 DEF AbortPullTransfer
  <2>2. m \in MessageType /\ m.kind = "Status"
    BY StatusType, Typed, StampedType DEF Results
  <2> HIDE DEF m
  <2>3. toServer'[c] = Append(toServer[c], m) /\ call'[c].pc = "aborting"
    BY <2>1, FieldsAfter DEF Write, TInv, WireTypes
  <2>4. /\ CallOK(toServer[c], toClient[c], sess[c], ctx[c], call[c], app[c], "up")
        /\ PullOK(toServer[c], toClient[c], sess[c], ctx[c], call[c], app[c])
    BY <1>1 DEF Before, LocalInv
  <2>5. NoPull(toServer[c], toClient[c], sess[c]) /\ Pulled(ctx[c], call[c], app[c])
    BY <1>1, <2>4 DEF PullOK, Pulling
  <2>6. NoPull(toServer'[c], toClient'[c], sess'[c])
    BY <1>1, <2>2, <2>3, <2>5, Typed, NoPullWrites DEF IsPull
  <2>7. Pulled(ctx'[c], call'[c], app'[c])
    BY <1>1, <2>1, <2>3, <2>5 DEF Pulled
  <2>8. PullOK(toServer'[c], toClient'[c], sess'[c], ctx'[c], call'[c], app'[c])
    BY <2>1, <2>3, <2>6, <2>7 DEF PullOK
  <2>9. CallOK(toServer'[c], toClient'[c], sess'[c], ctx'[c], call'[c], app'[c], "up")
    BY <1>1, <2>1, <2>3, <2>5 DEF CallOK, Pulling, Pulled
  <2> QED BY <1>1, <2>8, <2>9 DEF After, LocalInv
<1> QED BY <1>2, <1>3

LEMMA DiscardLocal ==
  ASSUME TInv, NEW c \in Clients, Before(c), Discard(c)
  PROVE  After(c)
<1>1. Read(c, "aborting") /\ UNCHANGED <<toServer, link>> /\ sess' = sess /\ app' = app
  BY DEF Discard, server
<1>2. /\ link[c] = "up" /\ link'[c] = "up" /\ call[c].pc = "aborting" /\ toServer'[c] = toServer[c]
      /\ toClient[c] # <<>> /\ toClient'[c] = Tail(toClient[c])
      /\ toClient[c] \in Seq(MessageType) /\ sess'[c] = sess[c]
  BY <1>1, ReadWires
<1>3. /\ CallOK(toServer[c], toClient[c], sess[c], ctx[c], call[c], app[c], "up")
      /\ PullOK(toServer[c], toClient[c], sess[c], ctx[c], call[c], app[c])
  BY <1>2 DEF Before, LocalInv
<1>4. Pulling(ctx[c], app[c])
  BY <1>2, <1>3 DEF CallOK
<1>5. NoPull(toServer[c], toClient[c], sess[c]) /\ Pulled(ctx[c], call[c], app[c])
  BY <1>2, <1>3, <1>4 DEF PullOK, Pulling
<1>6. NoPull(toServer'[c], toClient'[c], sess'[c])
  BY <1>2, <1>5, NoPullReads
<1>7. CASE Answer(c).kind = "Sentinel"
  <2>1. ctx' = [ctx EXCEPT ![c].state = "Idle"] /\ Return(c)
    BY <1>7 DEF Discard
  <2>2. ctx'[c].state = "Idle" /\ call'[c].pc = "none" /\ app'[c] = app[c]
    BY <1>1, <2>1, FieldsAfter
  <2> QED BY <1>2, <1>4, <1>5, <1>6, <2>2 DEF After, LocalInv, CallOK, PullOK, Pulling, Pulled
<1>8. CASE Answer(c).kind # "Sentinel"
  <2>1. ctx' = ctx /\ call' = call
    BY <1>8 DEF Discard
  <2>2. PullOK(toServer'[c], toClient'[c], sess'[c], ctx'[c], call'[c], app'[c])
    BY <1>1, <1>2, <1>5, <1>6, <2>1 DEF PullOK
  <2>3. CallOK(toServer'[c], toClient'[c], sess'[c], ctx'[c], call'[c], app'[c], "up")
    BY <1>1, <1>3, <2>1 DEF CallOK
  <2> QED BY <1>2, <2>2, <2>3 DEF After, LocalInv
<1> QED BY <1>7, <1>8

\* A step of a push, after which the client is not in the middle of a pull.
LEMMA PushLocal ==
  ASSUME NEW c \in Clients, Before(c), link[c] = "up", link'[c] = "up", app[c].op = "Push", app'[c].op = "Push",
         ctx[c].state # "Error", call[c].pc # "pullReply",
         app'[c].outcome # "read", call'[c].pc \in {"none", "writing", "closeReply"},
         ctx'[c].state = "Error" => app'[c].outcome = "failed" /\ call'[c].pc = "none",
         NoPull(toServer[c], toClient[c], sess[c]) => NoPull(toServer'[c], toClient'[c], sess'[c])
  PROVE  After(c)
<1>1. NoPull(toServer'[c], toClient'[c], sess'[c])
  BY DEF Before, LocalInv, PullOK
<1> QED BY <1>1 DEF After, LocalInv, CallOK, PullOK, Pulling

LEMMA PushStepsLocal ==
  ASSUME TInv, NEW c \in Clients, Before(c),
         \/ PushAnswered(c) \/ ChunkSent(c) \/ ChunkNotReady(c) \/ CloseAnswered(c)
         \/ \E n \in 1..Chunk : WritePushTransferData(c, n)
         \/ \E discard \in BOOLEAN : ClosePushTransfer(c, discard)
  PROVE  After(c)
<1>0. link[c] = "up" => CallOK(toServer[c], toClient[c], sess[c], ctx[c], call[c], app[c], "up")
  BY DEF Before, LocalInv
<1>n. ctx[c].state = "Error" /\ link[c] = "up" => call[c].pc = "none"
  BY <1>0 DEF CallOK
\* What is written is no request for a pull, and what is read is an answer.
<1>w. ASSUME NEW m \in MessageType, m.kind # "Request", Write(c, m), UNCHANGED <<toClient, sess>>
      PROVE  NoPull(toServer[c], toClient[c], sess[c]) => NoPull(toServer'[c], toClient'[c], sess'[c])
  <2>1. toServer'[c] = Append(toServer[c], m)
    BY <1>w DEF Write, TInv, WireTypes
  <2> QED BY <1>w, <2>1, Typed, NoPullWrites DEF IsPull
<1>r. ASSUME NEW pc, Read(c, pc), UNCHANGED <<toServer, link, sess>>
      PROVE  NoPull(toServer[c], toClient[c], sess[c]) => NoPull(toServer'[c], toClient'[c], sess'[c])
  <2>1. toClient[c] # <<>> /\ toClient'[c] = Tail(toClient[c]) /\ toClient[c] \in Seq(MessageType)
    BY <1>r, ReadWires
  <2> QED BY <1>r, <2>1, NoPullReads
<1>1. CASE PushAnswered(c)
  <2>1. Read(c, "pushReply") /\ UNCHANGED <<toServer, link>> /\ sess' = sess /\ Return(c)
    BY <1>1 DEF PushAnswered, server
  <2>2. link[c] = "up" /\ link'[c] = "up" /\ call[c].pc = "pushReply" /\ call'[c].pc = "none"
    BY <2>1, ReadWires, FieldsAfter
  <2>3. app[c].op = "Push" /\ ctx[c].state = "Idle" /\ app[c].outcome # "read"
    BY <1>0, <2>2 DEF CallOK
  <2>4. CASE app' = app
    <3>1. ctx'[c].state # "Error"
      <4>1. CASE Answer(c).kind = "Status" /\ Answer(c).result = "Success"
        BY <1>1, <4>1 DEF PushAnswered, NewContext, TInv, ClientTypes
      <4>2. CASE ~(Answer(c).kind = "Status" /\ Answer(c).result = "Success")
        BY <1>1, <2>3, <4>2 DEF PushAnswered
      <4> QED BY <4>1, <4>2
    <3> QED BY <1>r, <2>1, <2>2, <2>3, <2>4, <3>1, PushLocal
  <2>5. CASE UNCHANGED ctx /\ Told(c, "failed")
    <3>1. app'[c].op = "Push" /\ app'[c].outcome = "failed" /\ ctx'[c].state = "Idle"
      BY <2>3, <2>5, FieldsAfter
    <3> QED BY <1>r, <2>1, <2>2, <2>3, <3>1, PushLocal
  <2> QED BY <1>1, <2>4, <2>5 DEF PushAnswered
<1>2. CASE ChunkSent(c)
  <2> DEFINE m == [NewMessage EXCEPT !.kind = "Chunk", !.data = call[c].data, !.req = app[c].req]
  <2>1. /\ link[c] = "up" /\ link'[c] = "up" /\ call[c].pc = "writing" /\ Write(c, m) /\ Return(c)
        /\ UNCHANGED <<toClient, sess>> /\ app' = app /\ ctx' = ctx
    BY <1>2 DEF ChunkSent, Waits, server
  <2>2. m \in MessageType /\ m.kind = "Chunk"
    BY NewMessageType, Typed DEF MessageType
  <2> HIDE DEF m
  <2>3. app[c].op = "Push" /\ app[c].outcome # "read" /\ ctx[c].state # "Error" /\ call'[c].pc = "none"
    BY <1>0, <2>1, FieldsAfter DEF CallOK
  <2>4. NoPull(toServer[c], toClient[c], sess[c]) => NoPull(toServer'[c], toClient'[c], sess'[c])
    BY <1>w, <2>1, <2>2
  <2> QED BY <2>1, <2>3, <2>4, PushLocal
<1>3. CASE ChunkNotReady(c)
  <2>1. /\ link[c] = "up" /\ link'[c] = "up" /\ call[c].pc = "writing"
        /\ UNCHANGED <<toServer, toClient, sess>> /\ app' = app /\ call' = call
        /\ ctx' = [ctx EXCEPT ![c].crc = @ \o call[c].data]
    BY <1>3 DEF ChunkNotReady, Waits, server, wires
  <2>2. ctx'[c].state = ctx[c].state
    <3>1. ctx[c] \in ContextType /\ ctx \in [Clients -> ContextType]
      BY Typed DEF TInv, ClientTypes
    <3> QED BY <2>1, <3>1 DEF ContextType
  <2>3. app[c].op = "Push" /\ app[c].outcome # "read" /\ ctx[c].state # "Error"
    BY <1>0, <2>1 DEF CallOK
  <2> QED BY <2>1, <2>2, <2>3, PushLocal
<1>4. CASE CloseAnswered(c)
  <2> DEFINE closed == Answer(c).kind = "Status" /\ Answer(c).result \in {"Success", "Aborted"}
  <2>1. Read(c, "closeReply") /\ UNCHANGED <<toServer, link>> /\ sess' = sess /\ Return(c)
    BY <1>4 DEF CloseAnswered, server
  <2>2. link[c] = "up" /\ link'[c] = "up" /\ call[c].pc = "closeReply" /\ call'[c].pc = "none"
    BY <2>1, ReadWires, FieldsAfter
  <2>3. app[c].op = "Push" /\ ctx[c].state # "Error"
    BY <1>0, <2>2 DEF CallOK
  <2>4. /\ ctx' = [ctx EXCEPT ![c].state = IF closed THEN "Idle" ELSE "Error"]
        /\ Told(c, IF closed /\ Answer(c).result = "Success" THEN "stored" ELSE "failed")
    BY <1>4 DEF CloseAnswered
  <2>5. ctx'[c].state = IF closed THEN "Idle" ELSE "Error"
    <3> DEFINE z == IF closed THEN "Idle" ELSE "Error"
    <3>1. ctx' = [ctx EXCEPT ![c].state = z]
      BY <2>4
    <3> HIDE DEF z
    <3>2. ctx'[c].state = z
      BY <3>1, FieldsAfter
    <3> QED BY <3>2 DEF z
  <2>6. app'[c].outcome = (IF closed /\ Answer(c).result = "Success" THEN "stored" ELSE "failed") /\ app'[c].op = app[c].op
    <3> DEFINE o == IF closed /\ Answer(c).result = "Success" THEN "stored" ELSE "failed"
    <3>1. Told(c, o)
      BY <2>4
    <3> HIDE DEF o
    <3>2. app'[c].outcome = o /\ app'[c].op = app[c].op
      BY <3>1, FieldsAfter
    <3> QED BY <3>2 DEF o
  <2>7. NoPull(toServer[c], toClient[c], sess[c]) => NoPull(toServer'[c], toClient'[c], sess'[c])
    BY <1>r, <2>1
  <2>8. app'[c].outcome # "read" /\ (ctx'[c].state = "Error" => app'[c].outcome = "failed")
    BY <2>5, <2>6
  <2> QED BY <2>2, <2>3, <2>6, <2>7, <2>8, PushLocal
<1>5. ASSUME NEW n \in 1..Chunk, WritePushTransferData(c, n) PROVE After(c)
  <2>1. /\ link[c] = "up" /\ link'[c] = "up" /\ call[c].pc = "none" /\ app[c].op = "Push" /\ call'[c].pc = "writing"
        /\ ctx[c].state = "TransferInProgress" /\ UNCHANGED <<toServer, toClient, sess>>
    BY <1>5 DEF WritePushTransferData, Free, server, wires, TInv, ClientTypes, NoCall
  <2>2. app[c].outcome # "read"
    BY <1>0, <2>1 DEF CallOK
  <2>3. app'[c].op = app[c].op /\ app'[c].outcome = app[c].outcome /\ ctx'[c].state = ctx[c].state
    <3> DEFINE data == [i \in 1..n |-> <<c, Len(app[c].data) + i>>]
    <3>1. ctx[c] \in ContextType /\ app[c] \in AppType /\ ctx \in [Clients -> ContextType] /\ app \in [Clients -> AppType]
      BY Typed DEF TInv, ClientTypes
    <3>2. app' = [app EXCEPT ![c].data = @ \o data] /\ ctx' = [ctx EXCEPT ![c].crc = @ \o data]
      BY <1>5 DEF WritePushTransferData
    <3> HIDE DEF data
    <3> QED BY <3>1, <3>2 DEF ContextType, AppType
  <2> QED BY <2>1, <2>2, <2>3, PushLocal
<1>6. ASSUME NEW discard \in BOOLEAN, ClosePushTransfer(c, discard) PROVE After(c)
  <2> DEFINE r == IF discard THEN "Aborted" ELSE "Success"
             m == [Sentinel(r, ctx[c].crc) EXCEPT !.req = app[c].req]
  <2>1. /\ link[c] = "up" /\ link'[c] = "up" /\ call[c].pc = "none" /\ app[c].op = "Push" /\ Enter(c, "closeReply")
        /\ ctx[c].state = "TransferInProgress" /\ UNCHANGED <<toClient, sess>> /\ Write(c, m) /\ ctx' = ctx /\ app' = app
    BY <1>6 DEF ClosePushTransfer, Free, server
  <2>2. r \in Results
    BY DEF Results
  <2> HIDE DEF r
  <2>3. m \in MessageType /\ m.kind = "Sentinel"
    BY <2>2, Typed, SentinelType, StampedType
  <2> HIDE DEF m
  <2>4. app[c].outcome # "read" /\ call'[c].pc = "closeReply"
    BY <1>0, <2>1, FieldsAfter DEF CallOK
  <2>5. NoPull(toServer[c], toClient[c], sess[c]) => NoPull(toServer'[c], toClient'[c], sess'[c])
    BY <1>w, <2>1, <2>3
  <2> QED BY <2>1, <2>4, <2>5, PushLocal
<1> QED BY <1>1, <1>2, <1>3, <1>4, <1>5, <1>6

LEMMA OtherLocal ==
  ASSUME TInv, NEW c \in Clients, Before(c), GiveUp(c) \/ Connect(c) \/ Disconnect(c)
  PROVE  After(c)
<1>1. CASE GiveUp(c)
  <2>1. /\ link[c] = "up" /\ link'[c] = "up" /\ Return(c) /\ Told(c, "failed")
        /\ UNCHANGED <<toServer, toClient, sess>> /\ call[c].pc # "none"
        /\ ctx' = [ctx EXCEPT ![c].state = IF call[c].pc = "pushReply" THEN ctx[c].state ELSE "Error"]
    BY <1>1 DEF GiveUp, server, wires
  <2>2. /\ call'[c].pc = "none" /\ app'[c].outcome = "failed" /\ app'[c].op = app[c].op
        /\ ctx'[c].state = IF call[c].pc = "pushReply" THEN ctx[c].state ELSE "Error"
    <3>1. call'[c].pc = "none" /\ app'[c].outcome = "failed" /\ app'[c].op = app[c].op
      BY <2>1, FieldsAfter
    <3>2. ctx'[c].state = IF call[c].pc = "pushReply" THEN ctx[c].state ELSE "Error"
      <4> DEFINE z == IF call[c].pc = "pushReply" THEN ctx[c].state ELSE "Error"
      <4>1. ctx' = [ctx EXCEPT ![c].state = z]
        BY <2>1
      <4> HIDE DEF z
      <4>2. ctx'[c].state = z
        BY <4>1, FieldsAfter
      <4> QED BY <4>2 DEF z
    <3> QED BY <3>1, <3>2
  <2>3. CASE call[c].pc = "pushReply"
    <3>1. app[c].op = "Push" /\ ctx[c].state = "Idle"
      BY <2>1, <2>3 DEF Before, LocalInv, CallOK
    <3> QED BY <2>1, <2>2, <2>3, <3>1, PushLocal
  <2>4. CASE call[c].pc # "pushReply"
    BY <2>1, <2>2, <2>4, FailedLocal
  <2> QED BY <2>3, <2>4
<1>2. CASE Connect(c)
  <2>1. /\ link[c] = "down" /\ link'[c] = "up" /\ UNCHANGED <<toServer, toClient, sess, ctx, call, app>>
    BY <1>2 DEF Connect, server, wires, client, TInv, WireTypes
  <2>2. /\ toServer[c] = <<>> /\ toClient[c] = <<>> /\ sess[c] = NewSession /\ ctx[c] = NewContext /\ call[c] = NoCall
        /\ (app[c].op = "Push" => app[c].outcome # "read") /\ (app[c].outcome = "read" => app[c].data = app[c].expect)
    BY <2>1 DEF Before, LocalInv, CallOK
  <2>3. NoPull(<<>>, <<>>, NewSession)
    BY EmptyData DEF NoPull, NewSession
  <2>4. NewContext.state = "Idle" /\ NoCall.pc = "none"
    BY DEF NewContext, NoCall
  <2>5. /\ toServer'[c] = <<>> /\ toClient'[c] = <<>> /\ sess'[c] = NewSession /\ ctx'[c].state = "Idle" /\ call'[c].pc = "none"
        /\ app'[c] = app[c]
    BY <2>1, <2>2, <2>4
  <2> QED BY <2>1, <2>2, <2>3, <2>5 DEF After, LocalInv, CallOK, PullOK, Pulling
<1>3. CASE Disconnect(c)
  <2>1. /\ link[c] = "up" /\ link'[c] = "closing" /\ ctx'[c] = NewContext /\ call'[c] = NoCall /\ app' = app
    BY <1>3, FieldsAfter DEF Disconnect, TInv, WireTypes, ClientTypes
  <2>2. NewContext.state = "Idle" /\ NoCall.pc = "none"
    BY DEF NewContext, NoCall
  <2>3. (app[c].op = "Push" => app[c].outcome # "read") /\ (app[c].outcome = "read" => app[c].data = app[c].expect)
    BY DEF Before, LocalInv, CallOK
  <2> QED BY <2>1, <2>2, <2>3 DEF After, LocalInv, CallOK
<1> QED BY <1>1, <1>2, <1>3

LEMMA TerminatedLocal ==
  ASSUME TInv, NEW c \in Clients, Before(c), SessionTerminated(c)
  PROVE  After(c) /\ Prepared(sess'[c])
<1>1. /\ link[c] = "closing" /\ link'[c] = "down" /\ sess'[c] = NewSession /\ toServer'[c] = <<>> /\ toClient'[c] = <<>>
      /\ UNCHANGED <<ctx, call, app>>
  BY DEF SessionTerminated, TInv, WireTypes, ServerTypes, client
<1>2. CallOK(toServer[c], toClient[c], sess[c], ctx[c], call[c], app[c], "closing")
  BY <1>1 DEF Before, LocalInv
<1>3. CallOK(<<>>, <<>>, NewSession, ctx[c], call[c], app[c], "down")
  BY <1>2 DEF CallOK
<1>4. After(c)
  BY <1>1, <1>3 DEF After, LocalInv
<1> QED BY <1>1, <1>4 DEF Prepared, NewSession

LEMMA ClientLocal ==
  ASSUME TInv, NEW c \in Clients, Before(c), ClientAction(c)
  PROVE  After(c)
<1>1. CASE ClientStep(c)
  BY <1>1, PullAnsweredLocal, CopyOutLocal, FetchLocal, CheckSentinelLocal, DiscardLocal, PushStepsLocal DEF ClientStep
<1>2. CASE ChunkNotReady(c) \/ GiveUp(c) \/ Connect(c) \/ Disconnect(c) \/ AbortPullTransfer(c)
  BY <1>2, PushStepsLocal, OtherLocal, AbortLocal
<1>3. CASE \E room \in {1, Chunk + 1} : BeginRead(c, room)
  BY <1>3, BeginReadLocal
<1>4. CASE \/ \E n \in 1..Chunk : WritePushTransferData(c, n)
           \/ \E discard \in BOOLEAN : ClosePushTransfer(c, discard)
  BY <1>4, PushStepsLocal
<1>5. ASSUME NEW id \in Ids, RequestPullTransfer(c, id) PROVE After(c)
  <2>1. Ask(c, "Pull", id, 0, "pullReply")
    BY <1>5 DEF RequestPullTransfer
  <2> QED BY <2>1, AskLocal
<1>6. ASSUME NEW id \in Ids, NEW size \in PushSizes, RequestPushTransfer(c, id, size) PROVE After(c)
  <2>1. Ask(c, "Push", id, size % Width, "pushReply") /\ size % Width \in Nat
    BY <1>6, TransferAssumption DEF RequestPushTransfer
  <2> DEFINE z == size % Width
  <2>2. Ask(c, "Push", id, z, "pushReply") /\ z \in Nat
    BY <2>1
  <2> HIDE DEF z
  <2> QED BY <2>2, AskLocal
<1> QED BY <1>1, <1>2, <1>3, <1>4, <1>5, <1>6 DEF ClientAction

\* A step of one client leaves the others alone.
LEMMA OthersAlone ==
  ASSUME TInv, NEW c \in Clients, ClientAction(c), NEW d \in Clients, d # c
  PROVE  /\ toServer'[d] = toServer[d] /\ toClient'[d] = toClient[d] /\ ctx'[d] = ctx[d]
         /\ call'[d] = call[d] /\ app'[d] = app[d] /\ link'[d] = link[d]
<1>0. /\ link \in [Clients -> {"down", "up", "closing"}] /\ toServer \in [Clients -> Seq(MessageType)]
      /\ toClient \in [Clients -> Seq(MessageType)] /\ ctx \in [Clients -> ContextType]
      /\ call \in [Clients -> CallType] /\ app \in [Clients -> AppType]
  BY DEF TInv, WireTypes, ClientTypes
\* Each action changes at most the entry of c in each of them.
<1> DEFINE Only(f, g) == \A e \in Clients : e # c => g[e] = f[e]
<1>1. ASSUME NEW pc, Read(c, pc) PROVE Only(toClient, toClient')
  BY <1>0, <1>1 DEF Read
<1>2. ASSUME NEW m, Write(c, m) PROVE Only(toServer, toServer')
  BY <1>0, <1>2 DEF Write
<1>3. ASSUME NEW pc, Enter(c, pc) PROVE Only(call, call')
  BY <1>0, <1>3 DEF Enter
<1>4. Return(c) => Only(call, call')
  BY <1>0 DEF Return
<1>5. ASSUME NEW o, Told(c, o) PROVE Only(app, app')
  BY <1>0, <1>5 DEF Told
<1>6. ASSUME NEW z, ctx' = [ctx EXCEPT ![c].state = z] PROVE Only(ctx, ctx')
  BY <1>0, <1>6
<1>7. ASSUME NEW z, ctx' = [ctx EXCEPT ![c] = z] PROVE Only(ctx, ctx')
  BY <1>0, <1>7
<1> DEFINE All == /\ Only(toServer, toServer') /\ Only(toClient, toClient') /\ Only(ctx, ctx')
                  /\ Only(call, call') /\ Only(app, app') /\ Only(link, link')
<1>8. CASE PullAnswered(c)
  <2>1. Only(ctx, ctx') /\ Only(app, app')
    <3>1. CASE Answer(c).kind = "Header"
      BY <1>0, <1>8, <3>1 DEF PullAnswered
    <3>2. CASE Answer(c).kind # "Header"
      BY <1>0, <1>8, <3>2 DEF PullAnswered, Told
    <3> QED BY <3>1, <3>2
  <2>2. Read(c, "pullReply") /\ Return(c) /\ UNCHANGED <<toServer, link>>
    BY <1>8 DEF PullAnswered
  <2>3. Only(toClient, toClient') /\ Only(call, call') /\ toServer' = toServer /\ link' = link
    BY <1>1, <1>4, <2>2
  <2> QED BY <2>1, <2>3
<1>9. CASE CopyOut(c)
  <2>1. PICK n \in 0..Len(ctx[c].chunk), x \in ContextType, y \in CallType, a \in AppType : CopiesOut(c, n, x, y, a)
    BY <1>9, CopyOutCases
  <2> QED BY <1>0, <2>1 DEF CopiesOut
<1>10. CASE Fetch(c)
  <2>1. Read(c, "reading") /\ UNCHANGED <<toServer, link>>
    BY <1>10, FetchCases
  <2>2. Only(toClient, toClient') /\ toServer' = toServer /\ link' = link
    BY <1>1, <2>1
  <2>3. CASE ctx' = [ctx EXCEPT ![c].state = "Error"] /\ Return(c) /\ Told(c, "failed")
    <3>1. Only(ctx, ctx') /\ Only(call, call') /\ Only(app, app')
      BY <1>4, <1>5, <1>6, <2>3
    <3> QED BY <2>2, <3>1
  <2>4. ASSUME NEW x \in ContextType, ctx' = [ctx EXCEPT ![c] = x], UNCHANGED app,
               Enter(c, "sentinel") \/ UNCHANGED call
        PROVE  All
    <3>1. Only(ctx, ctx') /\ Only(call, call') /\ Only(app, app')
      BY <1>3, <1>7, <2>4
    <3> QED BY <2>2, <3>1
  <2> HIDE DEF All
  <2>5. CASE All
    BY <2>5 DEF All
  <2> QED BY <1>10, <2>3, <2>4, <2>5, FetchCases
<1>11. CASE CheckSentinel(c)
  <2>1. Read(c, "sentinel") /\ UNCHANGED <<toServer, link>>
    BY <1>11 DEF CheckSentinel
  <2>2. \/ Enter(c, "reading") /\ UNCHANGED <<ctx, app>>
        \/ ctx' = [ctx EXCEPT ![c].state = "Error"] /\ Return(c) /\ Told(c, "failed")
    BY <1>11 DEF CheckSentinel
  <2>3. Only(ctx, ctx') /\ Only(call, call') /\ Only(app, app')
    BY <1>3, <1>4, <1>5, <1>6, <2>2
  <2>4. Only(toClient, toClient') /\ toServer' = toServer /\ link' = link
    BY <1>1, <2>1
  <2> QED BY <2>3, <2>4
<1>12. CASE Discard(c)
  <2>1. Read(c, "aborting") /\ UNCHANGED <<toServer, link, app>>
    BY <1>12 DEF Discard
  <2>2. \/ UNCHANGED <<ctx, call>>
        \/ ctx' = [ctx EXCEPT ![c].state = "Idle"] /\ Return(c)
    BY <1>12 DEF Discard
  <2>3. Only(ctx, ctx') /\ Only(call, call') /\ Only(app, app')
    BY <1>4, <1>6, <2>1, <2>2
  <2>4. Only(toClient, toClient') /\ toServer' = toServer /\ link' = link
    BY <1>1, <2>1
  <2> QED BY <2>3, <2>4
<1>13. CASE PushAnswered(c)
  <2>1. Read(c, "pushReply") /\ UNCHANGED <<toServer, link>> /\ Return(c)
    BY <1>13 DEF PushAnswered
  <2>2. \/ (\E z : ctx' = [ctx EXCEPT ![c] = z]) /\ UNCHANGED app
        \/ UNCHANGED ctx /\ Told(c, "failed")
    BY <1>13 DEF PushAnswered
  <2>3. Only(ctx, ctx') /\ Only(call, call') /\ Only(app, app')
    BY <1>4, <1>5, <1>7, <2>1, <2>2
  <2>4. Only(toClient, toClient') /\ toServer' = toServer /\ link' = link
    BY <1>1, <2>1
  <2> QED BY <2>3, <2>4
<1>14. CASE ChunkSent(c) \/ \E discard \in BOOLEAN : ClosePushTransfer(c, discard)
  <2>1. (\E m : Write(c, m)) /\ UNCHANGED <<toClient, link, ctx, app>> /\ (Return(c) \/ Enter(c, "closeReply"))
    BY <1>14 DEF ChunkSent, ClosePushTransfer
  <2>2. Only(toServer, toServer') /\ Only(call, call')
    BY <1>2, <1>3, <1>4, <2>1
  <2> QED BY <2>1, <2>2
<1>15. CASE CloseAnswered(c)
  <2>1. Read(c, "closeReply") /\ UNCHANGED <<toServer, link>> /\ Return(c)
    BY <1>15 DEF CloseAnswered
  <2>2. (\E z : ctx' = [ctx EXCEPT ![c].state = z]) /\ (\E o : Told(c, o))
    BY <1>15 DEF CloseAnswered
  <2>3. Only(ctx, ctx') /\ Only(call, call') /\ Only(app, app')
    BY <1>4, <1>5, <1>6, <2>1, <2>2
  <2>4. Only(toClient, toClient') /\ toServer' = toServer /\ link' = link
    BY <1>1, <2>1
  <2> QED BY <2>3, <2>4
<1>16. CASE ChunkNotReady(c)
  BY <1>0, <1>16 DEF ChunkNotReady, wires
<1>17. CASE GiveUp(c)
  <2>1. UNCHANGED <<toServer, toClient, link>> /\ Return(c) /\ Told(c, "failed") /\ \E z : ctx' = [ctx EXCEPT ![c].state = z]
    BY <1>17 DEF GiveUp, wires
  <2>2. Only(ctx, ctx') /\ Only(call, call') /\ Only(app, app')
    BY <1>4, <1>5, <1>6, <2>1
  <2> QED BY <2>1, <2>2
<1>18. CASE Connect(c)
  BY <1>0, <1>18 DEF Connect, wires, client
<1>19. CASE Disconnect(c)
  BY <1>0, <1>19 DEF Disconnect, wires, Return
<1>20. CASE AbortPullTransfer(c)
  <2>1. /\ UNCHANGED <<toClient, link>>
        /\ \/ (\E m : Write(c, m)) /\ Enter(c, "aborting") /\ UNCHANGED <<ctx, app>>
           \/ ctx' = [ctx EXCEPT ![c].state = "Error"] /\ Told(c, "failed") /\ UNCHANGED <<toServer, call>>
    BY <1>20 DEF AbortPullTransfer
  <2>2. Only(toServer, toServer') /\ Only(ctx, ctx') /\ Only(call, call') /\ Only(app, app')
    BY <1>2, <1>3, <1>5, <1>6, <2>1
  <2> QED BY <2>1, <2>2
<1>21. CASE \E room \in {1, Chunk + 1} : BeginRead(c, room)
  <2>1. /\ UNCHANGED <<toServer, toClient, link>>
        /\ \/ ctx' = [ctx EXCEPT ![c].state = "Idle"] /\ Told(c, "read") /\ UNCHANGED call
           \/ (\E y : call' = [call EXCEPT ![c] = y]) /\ UNCHANGED <<ctx, app>>
    BY <1>21 DEF BeginRead, wires
  <2>2. Only(ctx, ctx') /\ Only(app, app') /\ Only(call, call')
    BY <1>0, <1>5, <1>6, <2>1
  <2> QED BY <2>1, <2>2
<1>22. CASE \E n \in 1..Chunk : WritePushTransferData(c, n)
  <2>1. PICK n \in 1..Chunk : WritePushTransferData(c, n)
    BY <1>22
  <2> DEFINE data == [i \in 1..n |-> <<c, Len(app[c].data) + i>>]
  <2>2. /\ app' = [app EXCEPT ![c].data = @ \o data] /\ ctx' = [ctx EXCEPT ![c].crc = @ \o data]
        /\ call' = [call EXCEPT ![c] = [NoCall EXCEPT !.pc = "writing", !.data = data]]
        /\ UNCHANGED <<toServer, toClient, link>>
    BY <2>1 DEF WritePushTransferData, wires
  <2> HIDE DEF data
  <2> QED BY <1>0, <2>2
<1>23. CASE \E id \in Ids : RequestPullTransfer(c, id) \/ \E size \in PushSizes : RequestPushTransfer(c, id, size)
  <2>1. \E id, type, size, pc : Ask(c, type, id, size, pc)
    BY <1>23 DEF RequestPullTransfer, RequestPushTransfer
  <2>2. (\E m : Write(c, m)) /\ (\E a : app' = [app EXCEPT ![c] = a]) /\ (\E pc : Enter(c, pc)) /\ UNCHANGED <<toClient, link, ctx>>
    BY <2>1 DEF Ask
  <2>3. Only(toServer, toServer') /\ Only(app, app') /\ Only(call, call')
    BY <1>0, <1>2, <1>3, <2>2
  <2> QED BY <2>2, <2>3
<1> HIDE DEF Only, All
<1> QED BY <1>8, <1>9, <1>10, <1>11, <1>12, <1>13, <1>14, <1>15, <1>16, <1>17, <1>18, <1>19, <1>20, <1>21, <1>22, <1>23
       DEF ClientAction, ClientStep

LEMMA LocalKept ==
  ASSUME TInv, PInv, [Next]_vars, NEW d \in Clients
  PROVE  After(d) /\ Prepared(sess'[d])
<1>0. Before(d) /\ Prepared(sess[d])
  BY DEF PInv, Before
<1>1. ASSUME /\ toServer'[d] = toServer[d] /\ toClient'[d] = toClient[d] /\ sess'[d] = sess[d] /\ ctx'[d] = ctx[d]
             /\ call'[d] = call[d] /\ app'[d] = app[d] /\ link'[d] = link[d]
      PROVE  After(d) /\ Prepared(sess'[d])
  BY <1>0, <1>1 DEF Before, After
<1>2. CASE UNCHANGED vars
  BY <1>1, <1>2 DEF vars
<1>3. CASE \E b \in Blocks : OpenServerBlock(b) \/ WriteAndClose(b) \/ CloseServerBlock(b)
  BY <1>1, <1>3, BlockSteps
<1>4. ASSUME NEW c \in Clients, UpdateSession(c) PROVE After(d) /\ Prepared(sess'[d])
  <2>1. Updated(c) /\ Prepared(sess[c])
    BY <1>4, UpdateCases DEF PInv
  <2>2. CASE d = c
    BY <2>1, <2>2, UpdateLocal, UpdateReduces DEF After
  <2>3. CASE d # c
    <3>1. toServer'[d] = toServer[d] /\ toClient'[d] = toClient[d] /\ sess'[d] = sess[d] /\ app'[d] = app[d]
      BY <2>1, <2>3, UpdateReduces
    <3>2. ctx' = ctx /\ call' = call /\ link' = link
      BY <2>1 DEF Updated
    <3> QED BY <1>1, <3>1, <3>2
  <2> QED BY <2>2, <2>3
<1>5. ASSUME NEW c \in Clients, SessionTerminated(c) PROVE After(d) /\ Prepared(sess'[d])
  <2>1. CASE d = c
    BY <1>0, <1>5, <2>1, TerminatedLocal
  <2>2. CASE d # c
    <3>1. toServer'[d] = toServer[d] /\ toClient'[d] = toClient[d] /\ sess'[d] = sess[d] /\ link'[d] = link[d]
      BY <1>5, <2>2 DEF SessionTerminated, TInv, WireTypes, ServerTypes
    <3>2. ctx' = ctx /\ call' = call /\ app' = app
      BY <1>5 DEF SessionTerminated, client
    <3> QED BY <1>1, <3>1, <3>2
  <2> QED BY <2>1, <2>2
<1>6. ASSUME NEW c \in Clients, ClientAction(c) PROVE After(d) /\ Prepared(sess'[d])
  <2>1. sess' = sess
    BY <1>6, ClientAlone
  <2>2. CASE d = c
    BY <1>0, <1>6, <2>1, <2>2, ClientLocal
  <2>3. CASE d # c
    BY <1>1, <1>6, <2>1, <2>3, OthersAlone
  <2> QED BY <2>2, <2>3
<1> QED BY <1>2, <1>3, <1>4, <1>5, <1>6, NextCases

LEMMA InitPulls == Init => PInv
<1> SUFFICES ASSUME Init PROVE PInv
  OBVIOUS
<1>1. ASSUME NEW c \in Clients
      PROVE  /\ toServer[c] = <<>> /\ toClient[c] = <<>> /\ sess[c] = NewSession /\ ctx[c] = NewContext
             /\ call[c] = NoCall /\ app[c] = NewApp /\ link[c] = "down"
  BY <1>1 DEF Init
<1>2. NewSession.st = "Idle" /\ NewContext.state = "Idle" /\ NoCall.pc = "none" /\ NewApp.outcome = "none" /\ NewApp.op = "none"
  BY DEF NewSession, NewContext, NoCall, NewApp
<1>3. Prepared(NewSession) /\ NoPush(<<>>, NewSession) /\ Frozen(block, NewSession)
  BY <1>2, EmptyData DEF Prepared, NoPush, Frozen
<1>4. LocalInv(<<>>, <<>>, NewSession, NewContext, NoCall, NewApp, "down")
  BY <1>2 DEF LocalInv, CallOK, Pulling
<1> QED BY <1>1, <1>3, <1>4 DEF PInv

LEMMA PullStep ==
  ASSUME TInv, PInv, [Next]_vars
  PROVE  PInv'
<1>1. \A c \in Clients : After(c) /\ Prepared(sess'[c])
  BY LocalKept
<1>2. ~Refactored => \A c \in Clients : NoPush(toServer'[c], sess'[c]) /\ Frozen(block', sess'[c])
  BY OldStep
<1> QED BY <1>1, <1>2 DEF PInv, After

(***************************************************************************)
(* PulledIsBlock: when ReadPullTransferData tells a client EndOfStream,    *)
(* what the client has read is the block as it was when ProcessPayload     *)
(* accepted the request: the version that checks the CRC takes no data     *)
(* that another session has reset, and in the older one no session can     *)
(* write to a block.  Answers to earlier requests, aborted pulls and       *)
(* sessions that ended do not reach the transfer of a later request.       *)
(***************************************************************************)
THEOREM PulledDataIsBlock == Spec => []PulledIsBlock
<1>1. TInv /\ PInv /\ [Next]_vars => PInv'
  BY PullStep
<1>2. PInv => PulledIsBlock
  BY DEF PInv, LocalInv, CallOK, PulledIsBlock
<1> QED BY <1>1, <1>2, InitPulls, TypesHold, PTL DEF Spec
-----------------------------------------------------------------------------
(***************************************************************************)
(* What a client pushes, when it does not give up waiting.  A sentinel on  *)
(* its way to the session is that of the current push: it is answered      *)
(* before the client sends another request, because the status that a      *)
(* client takes for the answer to its sentinel is sent for that sentinel.  *)
(* An aborted pull may leave one answer behind that the client does not    *)
(* expect; the parts of the invariant bound what is under way at each      *)
(* point of a call, so that this answer cannot pass for another one.       *)
(***************************************************************************)
\* A status that a push goes on with.
Grants(m) == m.kind = "Status" /\ m.result \in {"Success", "Aborted"}
\* The answer that a session has yet to send.
Due(s) == IF s.st \in {"StartPull", "Pull", "StartPush", "SendPayload"} THEN 1 ELSE 0
HasSentinel(q) == \E i \in 1..Len(q) : q[i].kind = "Sentinel"
Pushing(x, a) == x.state = "TransferInProgress" /\ a.op = "Push"

\* A session that has granted a push waits for its data, or has refused the
\* request that came in its place.
Granted(ts, tc, s, i) ==
    \/ s.st = "Push" /\ i = Len(tc)
    \/ /\ s.st \in {"Idle", "SendPayload"} /\ Len(ts) = 0
       /\ s.st = "Idle" => i < Len(tc)
       /\ \A j \in 1..Len(tc) : Grants(tc[j]) => j = i

\* Between two transfers: at most n messages are under way.
Rests(ts, tc, s, n) ==
    /\ Len(ts) + Len(tc) + Due(s) <= n
    /\ \A i \in 1..Len(ts) : ts[i].kind \in {"Request", "Status"}
    /\ \A i \in 1..Len(tc) : tc[i].kind \in {"Sentinel", "Status"}
    /\ s.st = "Pull" => s.total = 0
    /\ s.st = "SendPayload" => ~Grants(s.scratch)
    /\ \A i \in 1..Len(tc) : Grants(tc[i]) => Granted(ts, tc, s, i)

\* The messages of a pull of e after message h: chunks and one sentinel.
Flows(tc, s, h, e) ==
    /\ s.st \in {"Pull", "SendPayload", "Idle"}
    /\ s.st = "SendPayload" => s.scratch.kind = "Sentinel"
    /\ \A i \in h + 1..Len(tc) :
          /\ tc[i].kind \in {"Chunk", "Sentinel"}
          /\ tc[i].kind = "Chunk" => Len(e) # 0
          /\ tc[i].kind = "Sentinel" => i = Len(tc) /\ s.st = "Idle"
    /\ s.st = "Pull" => s.total = Len(e)

AsksPull(ts, tc, s, e) ==
    /\ \A i \in 1..Len(ts) : IsPull(ts[i]) => i = Len(ts)
    /\ s.st = "StartPull" => Len(ts) = 0 /\ s.total = Len(e)
    /\ Len(tc) # 0 /\ tc[1].kind = "Header" => Len(ts) = 0 /\ Flows(tc, s, 1, e)

\* A pull is aborted: at most one message follows its first sentinel.
Stops(ts, tc, s) ==
    /\ s.st \in {"Pull", "SendPayload", "Idle"}
    /\ s.st = "SendPayload" => s.scratch.kind = "Sentinel"
    /\ Len(ts) <= 1 /\ \A i \in 1..Len(ts) : ts[i].kind = "Status"
    /\ s.st = "Pull" => Len(ts) # 0
    /\ \A i \in 1..Len(tc) :
          /\ tc[i].kind \in {"Chunk", "Sentinel"}
          /\ tc[i].kind = "Sentinel" =>
                /\ s.st # "Pull" /\ Len(tc) + Len(ts) + Due(s) <= i + 1
                /\ \A j \in i..Len(tc) : tc[j].kind = "Sentinel"

\* Nothing under way grants the push: before its sentinel has been received,
\* and after.
Clean(ts, tc, s) ==
    /\ s.st \in {"Push", "Idle", "SendPayload"}
    /\ s.st = "Push" => Len(tc) = 0
    /\ s.st = "SendPayload" => ~Grants(s.scratch)
    /\ \A i \in 1..Len(tc) : ~Grants(tc[i])
    /\ \A i \in 1..Len(ts) : ts[i].kind = "Request" => i = 1 /\ s.st = "Push"
Closed(ts, tc, s) ==
    /\ Len(ts) = 0 /\ s.st \in {"Idle", "SendPayload"}
    /\ s.st = "SendPayload" => ~Grants(s.scratch)
    /\ \A i \in 1..Len(tc) : Grants(tc[i]) => Len(tc) = 1 /\ s.st = "Idle"
Pushes(ts, tc, s, k) == IF k.pc = "closeReply" /\ ~HasSentinel(ts) THEN Closed(ts, tc, s) ELSE Clean(ts, tc, s)

\* A sentinel has the CRC of what the application wrote.
Written(ts, x, k, a) ==
    /\ \A i \in 1..Len(ts) : ts[i].kind = "Sentinel" =>
          /\ i = Len(ts) /\ (k.pc = "closeReply" \/ x.state = "Error")
          /\ ts[i].result = "Success" => ts[i].data = a.data
    /\ k.pc = "pushReply" => a.data = <<>>
    /\ Pushing(x, a) => x.crc = a.data

Reads(ts, tc, s, x, k, e) ==
    /\ Len(ts) = 0 /\ Flows(tc, s, 0, e)
    /\ x.total = 0 /\ x.crc # <<>> /\ k.pc # "sentinel" => Len(tc) = 0 /\ s.st = "Idle"

Orderly(ts, tc, s, x, k, a) ==
    /\ Written(ts, x, k, a)
    /\ k.pc \in {"writing", "closeReply"} => Pushing(x, a)
    /\ x.state = "Idle" /\ k.pc = "none" => Rests(ts, tc, s, 1)
    /\ k.pc = "pushReply" => Rests(ts, tc, s, 2)
    /\ k.pc = "pullReply" => AsksPull(ts, tc, s, a.expect)
    /\ Pulling(x, a) /\ k.pc # "aborting" => Reads(ts, tc, s, x, k, a.expect)
    /\ k.pc = "aborting" => Stops(ts, tc, s)
    /\ Pushing(x, a) => Pushes(ts, tc, s, k)

PushInv ==
    \A c \in Clients : link[c] = "up" => Orderly(toServer[c], toClient[c], sess[c], ctx[c], call[c], app[c])

(***************************************************************************)
(* One message of a session: what is read, and the answer w.               *)
(***************************************************************************)
Takes(ts, us) == Len(ts) >= 1 /\ Len(us) = Len(ts) - 1 /\ \A i \in 1..Len(us) : us[i] = ts[i + 1]
Adds(tc, uc, w) == Len(uc) = Len(tc) + 1 /\ uc[Len(tc) + 1] = w /\ \A i \in 1..Len(tc) : uc[i] = tc[i]
Replies(tc, uc, t, w) ==
    \/ t.st = "Idle" /\ Adds(tc, uc, w)
    \/ t.st = "SendPayload" /\ uc = tc /\ Len(tc) >= 1 /\ t.scratch = w

Drops(ts, tc, s, us, uc, t) ==
    /\ Takes(ts, us) /\ uc = tc /\ t.st = s.st
    /\ \/ s.st = "Idle" /\ ts[1].kind \notin {"Request", "Status"}
       \/ s.st = "Push" /\ ts[1].kind = "Chunk"
Accepts(ts, tc, s, us, uc, t) ==
    /\ s.st = "Idle" /\ Takes(ts, us) /\ uc = tc /\ ts[1].kind = "Request"
    /\ t.st = "StartPush" \/ (t.st = "StartPull" /\ IsPull(ts[1]))
AnswersOne(ts, tc, s, us, uc, t, w) ==
    /\ Takes(ts, us) /\ Replies(tc, uc, t, w)
    /\ \/ s.st = "Idle" /\ ts[1].kind = "Request" /\ w.kind = "Status" /\ ~Grants(w)
       \/ s.st = "Idle" /\ ts[1].kind = "Status" /\ w.kind = "Sentinel"
       \/ s.st = "Pull" /\ w.kind = "Sentinel"
       \/ s.st = "Push" /\ w.kind = "Status" /\ (Grants(w) => ts[1].kind = "Sentinel")
Opens(ts, tc, s, us, uc, t, w) ==
    /\ us = ts /\ Adds(tc, uc, w)
    /\ \/ s.st = "StartPush" /\ t.st = "Push" /\ w.kind = "Status"
       \/ s.st = "StartPull" /\ t.st = "Pull" /\ t.total = s.total /\ w.kind = "Header"
GoesOn(ts, tc, s, us, uc, t, w) ==
    /\ us = ts
    /\ \/ /\ s.st = "Pull" /\ t.st = "Pull" /\ Len(ts) = 0 /\ s.total # 0 /\ t.total = s.total
          /\ w.kind = "Chunk" /\ Adds(tc, uc, w)
       \/ s.st = "Pull" /\ Len(ts) = 0 /\ w.kind = "Sentinel" /\ Replies(tc, uc, t, w)
       \/ /\ s.st = "SendPayload" /\ t.st = "Idle" /\ Adds(tc, uc, w) /\ w.kind \in {"Sentinel", "Status"}
          /\ w.kind = s.scratch.kind /\ (Grants(w) => Grants(s.scratch))

Moves(ts, tc, s, us, uc, t, w) ==
    \/ Drops(ts, tc, s, us, uc, t) \/ Accepts(ts, tc, s, us, uc, t)
    \/ AnswersOne(ts, tc, s, us, uc, t, w) \/ Opens(ts, tc, s, us, uc, t, w) \/ GoesOn(ts, tc, s, us, uc, t, w)

\* Queues and sessions before and after.
Lens(ts, tc, us, uc) == Len(ts) \in Nat /\ Len(tc) \in Nat /\ Len(us) \in Nat /\ Len(uc) \in Nat

LEMMA TwoLeft ==
  ASSUME NEW p \in Nat, NEW q \in Nat, NEW r \in Nat, NEW d \in 0..1, p >= 1, q >= 1, r = p - 1, p + q + d <= 2, NEW i \in 1..q
  PROVE  p = 1 /\ q = 1 /\ r = 0 /\ i = 1
OBVIOUS

LEMMA OneLeft ==
  ASSUME NEW p \in Nat, NEW q \in Nat, NEW d \in 0..1, p + q + d <= 1, NEW i \in 1..q
  PROVE  q = 1 /\ d = 0 /\ i = 1
OBVIOUS

LEMMA OneMore ==
  ASSUME NEW p \in Nat, NEW q \in Nat, NEW r \in Nat, NEW d \in 0..1, r = p + 1, p + q + d <= 1
  PROVE  r + q + d <= 2
OBVIOUS

LEMMA OneLess ==
  ASSUME NEW p \in Nat, NEW q \in Nat, NEW r \in Nat, NEW d \in 0..1, r = q - 1, NEW n \in Nat, p + q + d <= n + 1
  PROVE  p + r + d <= n
OBVIOUS

LEMMA OneOfTwo ==
  ASSUME NEW p \in Nat, NEW q \in Nat, NEW r \in Nat, NEW d \in 0..1, r = q - 1, p + q + d <= 2
  PROVE  p + r + d <= 1
OBVIOUS

LEMMA NoneOrOne ==
  ASSUME NEW p, NEW q, NEW d \in 0..1, p = 0, q = 0 \/ (q = 1 /\ d = 0)
  PROVE  p + q + d <= 1
OBVIOUS

LEMMA SumNotZero ==
  ASSUME NEW p \in Nat, NEW q \in Nat, q # 0
  PROVE  p + q # 0
OBVIOUS

LEMMA DueBound ==
  ASSUME NEW s
  PROVE  Due(s) \in 0..1
BY DEF Due

LEMMA LastOf ==
  ASSUME NEW p \in Nat, NEW q, NEW d \in 0..1, q = 1, p + q + d <= 2
  PROVE  p <= 1
OBVIOUS

LEMMA LastTaken ==
  ASSUME NEW ts, NEW us, Takes(ts, us), Len(ts) = 1
  PROVE  Len(us) = 0
<1> DEFINE p == Len(ts)
           q == Len(us)
<1>1. q = p - 1 /\ p = 1
  BY DEF Takes
<1> HIDE DEF p, q
<1>2. q = 0
  BY <1>1
<1> QED BY <1>2 DEF q

LEMMA MoveWritten ==
  ASSUME NEW ts, NEW tc, NEW s, NEW us, NEW uc, NEW t, NEW w, Lens(ts, tc, us, uc), Moves(ts, tc, s, us, uc, t, w),
         NEW x, NEW k, NEW a, NEW b, b.data = a.data, b.op = a.op, Written(ts, x, k, a)
  PROVE  Written(us, x, k, b)
<1>1. us = ts \/ Takes(ts, us)
  BY DEF Moves, Drops, Accepts, AnswersOne, Opens, GoesOn
<1>2. Pushing(x, b) <=> Pushing(x, a)
  BY DEF Pushing
<1>3. ASSUME NEW i \in 1..Len(us), us[i].kind = "Sentinel"
      PROVE  /\ i = Len(us) /\ (k.pc = "closeReply" \/ x.state = "Error")
             /\ us[i].result = "Success" => us[i].data = b.data
  <2>1. CASE us = ts
    BY <1>3, <2>1 DEF Written
  <2>2. CASE Takes(ts, us)
    <3>1. us[i] = ts[i + 1] /\ i + 1 \in 1..Len(ts) /\ Len(us) = Len(ts) - 1
      BY <1>3, <2>2 DEF Takes, Lens
    <3>2. i + 1 = Len(ts)
      BY <1>3, <3>1 DEF Written
    <3>3. i = Len(us)
      BY <3>1, <3>2 DEF Lens
    <3> QED BY <1>3, <3>1, <3>3 DEF Written
  <2> QED BY <1>1, <2>1, <2>2
<1> QED BY <1>2, <1>3 DEF Written

LEMMA MoveRests ==
  ASSUME NEW ts, NEW tc, NEW s, NEW us, NEW uc, NEW t, NEW w, Lens(ts, tc, us, uc), Moves(ts, tc, s, us, uc, t, w),
         NEW n \in {1, 2}, Rests(ts, tc, s, n), NoPull(ts, tc, s)
  PROVE  Rests(us, uc, t, n)
<1>1. CASE Drops(ts, tc, s, us, uc, t)
  BY <1>1 DEF Drops, Takes, Rests, Lens
<1>2. CASE Accepts(ts, tc, s, us, uc, t)
  <2>1. t.st = "StartPush" /\ s.st = "Idle" /\ Takes(ts, us) /\ uc = tc
    BY <1>2 DEF Accepts, NoPull, Takes, Lens
  <2>2. \A i \in 1..Len(tc) : ~Grants(tc[i])
    BY <2>1 DEF Rests, Granted, Takes, Lens
  <2> QED BY <2>1, <2>2 DEF Rests, Takes, Lens, Due
<1>3. CASE AnswersOne(ts, tc, s, us, uc, t, w)
  <2>1. /\ Takes(ts, us) /\ Replies(tc, uc, t, w) /\ w.kind \in {"Sentinel", "Status"} /\ ~Grants(w)
        /\ s.st \in {"Idle", "Pull", "Push"} /\ t.st \in {"Idle", "SendPayload"}
    BY <1>3 DEF AnswersOne, Rests, Grants, Replies, Takes, Lens
  <2>2. ASSUME NEW i \in 1..Len(tc), Grants(tc[i])
        PROVE  s.st = "Push" /\ i = Len(tc) /\ Len(tc) = 1 /\ Len(ts) = 1 /\ Len(us) = 0
    <3>1. Len(ts) >= 1 /\ Len(us) = Len(ts) - 1 /\ Len(tc) >= 1 /\ Len(ts) + Len(tc) + Due(s) <= 2 /\ Due(s) \in 0..1
      BY <2>1 DEF Takes, Lens, Rests, Due
    <3>2. Len(ts) = 1 /\ Len(tc) = 1 /\ Len(us) = 0 /\ i = 1
      BY <3>1, TwoLeft DEF Lens
    <3>3. Granted(ts, tc, s, i)
      BY <2>2 DEF Rests
    <3> QED BY <3>2, <3>3 DEF Granted
  <2>3. Len(us) + Len(uc) + Due(t) <= n
    BY <2>1 DEF Rests, Takes, Replies, Adds, Lens, Due
  <2>4. \A i \in 1..Len(us) : us[i].kind \in {"Request", "Status"}
    BY <2>1 DEF Rests, Takes, Lens
  <2>5. \A i \in 1..Len(uc) : uc[i].kind \in {"Sentinel", "Status"}
    BY <2>1 DEF Rests, Replies, Adds, Lens
  <2>6. ASSUME NEW i \in 1..Len(uc), Grants(uc[i]) PROVE Granted(us, uc, t, i)
    <3>1. i \in 1..Len(tc) /\ uc[i] = tc[i]
      BY <2>1, <2>6 DEF Replies, Adds, Lens
    <3>2. Len(tc) = 1 /\ i = 1 /\ Len(us) = 0
      BY <2>2, <2>6, <3>1
    <3>3. \A j \in 1..Len(uc) : Grants(uc[j]) => j = i
      BY <2>1, <2>2, <3>2 DEF Replies, Adds, Lens
    <3>4. t.st = "Idle" => i < Len(uc)
      BY <2>1, <3>2 DEF Replies, Adds
    <3> QED BY <2>1, <3>2, <3>3, <3>4 DEF Granted
  <2>7. t.st = "SendPayload" => ~Grants(t.scratch)
    BY <2>1 DEF Replies
  <2> QED BY <2>1, <2>3, <2>4, <2>5, <2>6, <2>7 DEF Rests
<1>4. CASE Opens(ts, tc, s, us, uc, t, w)
  <2>1. us = ts /\ Adds(tc, uc, w) /\ s.st = "StartPush" /\ t.st = "Push" /\ w.kind = "Status"
    BY <1>4 DEF Opens, NoPull
  <2>2. \A i \in 1..Len(tc) : ~Grants(tc[i])
    BY <2>1 DEF Rests, Granted
  <2>3. \A i \in 1..Len(uc) : Grants(uc[i]) => Granted(us, uc, t, i)
    BY <2>1, <2>2 DEF Adds, Granted, Lens
  <2> QED BY <2>1, <2>3 DEF Rests, Adds, Lens, Due
<1>5. CASE GoesOn(ts, tc, s, us, uc, t, w)
  <2>1. /\ us = ts /\ Replies(tc, uc, t, w) /\ w.kind \in {"Sentinel", "Status"} /\ ~Grants(w)
        /\ s.st \in {"SendPayload", "Pull"} /\ t.st \in {"Idle", "SendPayload"}
        /\ s.st = "SendPayload" => t.st = "Idle" /\ Adds(tc, uc, w)
    BY <1>5 DEF GoesOn, Rests, Grants, Replies
  <2>2. Len(us) + Len(uc) + Due(t) <= n
    BY <2>1 DEF Rests, Replies, Adds, Lens, Due
  <2>3. \A i \in 1..Len(uc) : uc[i].kind \in {"Sentinel", "Status"}
    BY <2>1 DEF Rests, Replies, Adds, Lens
  <2>4. ASSUME NEW i \in 1..Len(uc), Grants(uc[i]) PROVE Granted(us, uc, t, i)
    <3>1. i \in 1..Len(tc) /\ uc[i] = tc[i]
      BY <2>1, <2>4 DEF Replies, Adds, Lens
    <3>2. Granted(ts, tc, s, i) /\ s.st = "SendPayload"
      BY <2>1, <2>4, <3>1 DEF Rests, Granted
    <3>3. t.st = "Idle" /\ Adds(tc, uc, w) /\ Len(us) = 0
      BY <2>1, <3>2 DEF Granted
    <3>4. \A j \in 1..Len(uc) : Grants(uc[j]) => j = i
      BY <2>1, <3>2, <3>3 DEF Granted, Adds, Lens
    <3> QED BY <3>1, <3>3, <3>4 DEF Granted, Adds, Lens
  <2>5. t.st = "SendPayload" => ~Grants(t.scratch)
    BY <2>1 DEF Replies
  <2> QED BY <2>1, <2>2, <2>3, <2>4, <2>5 DEF Rests
<1> QED BY <1>1, <1>2, <1>3, <1>4, <1>5 DEF Moves

LEMMA MoveFlows ==
  ASSUME NEW ts, NEW tc, NEW s, NEW us, NEW uc, NEW t, NEW w, Lens(ts, tc, us, uc), Moves(ts, tc, s, us, uc, t, w),
         Len(ts) = 0, NEW h \in 0..1, h <= Len(tc), NEW e, Flows(tc, s, h, e)
  PROVE  us = ts /\ Flows(uc, t, h, e) /\ s.st # "Idle" /\ Len(uc) >= Len(tc) /\ \A i \in 1..Len(tc) : uc[i] = tc[i]
<1>1. GoesOn(ts, tc, s, us, uc, t, w)
  BY DEF Moves, Drops, Accepts, AnswersOne, Opens, Takes, Flows
<1>2. CASE s.st = "Pull" /\ t.st = "Pull" /\ s.total # 0 /\ t.total = s.total /\ w.kind = "Chunk" /\ Adds(tc, uc, w)
  BY <1>1, <1>2 DEF GoesOn, Flows, Adds, Lens
<1>3. CASE s.st = "Pull" /\ w.kind = "Sentinel" /\ Replies(tc, uc, t, w)
  BY <1>1, <1>3 DEF GoesOn, Flows, Replies, Adds, Lens
<1>4. CASE s.st = "SendPayload" /\ t.st = "Idle" /\ Adds(tc, uc, w) /\ w.kind = s.scratch.kind
  BY <1>1, <1>4 DEF GoesOn, Flows, Adds, Lens
<1> QED BY <1>1, <1>2, <1>3, <1>4 DEF GoesOn

LEMMA MoveAsks ==
  ASSUME NEW ts, NEW tc, NEW s, NEW us, NEW uc, NEW t, NEW w, Lens(ts, tc, us, uc), Moves(ts, tc, s, us, uc, t, w),
         NEW e, NEW f, IF t.st = "StartPull" THEN t.total = Len(f) ELSE f = e, AsksPull(ts, tc, s, e)
  PROVE  AsksPull(us, uc, t, f)
<1>1. us = ts \/ Takes(ts, us)
  BY DEF Moves, Drops, Accepts, AnswersOne, Opens, GoesOn
<1>2. ASSUME NEW i \in 1..Len(us), IsPull(us[i]) PROVE i = Len(us)
  <2>1. CASE us = ts
    BY <1>2, <2>1 DEF AsksPull
  <2>2. CASE Takes(ts, us)
    <3>1. us[i] = ts[i + 1] /\ i + 1 \in 1..Len(ts) /\ Len(us) = Len(ts) - 1
      BY <1>2, <2>2 DEF Takes, Lens
    <3>2. i + 1 = Len(ts)
      BY <1>2, <3>1 DEF AsksPull
    <3> QED BY <3>1, <3>2 DEF Lens
  <2> QED BY <1>1, <2>1, <2>2
<1>3. t.st = "StartPull" => Len(us) = 0 /\ t.total = Len(f)
  <2> SUFFICES ASSUME t.st = "StartPull" PROVE Len(us) = 0
    OBVIOUS
  <2>1. Takes(ts, us) /\ IsPull(ts[1])
    BY DEF Moves, Drops, Accepts, AnswersOne, Opens, GoesOn, Replies
  <2>2. 1 \in 1..Len(ts)
    BY <2>1 DEF Takes, Lens
  <2>3. 1 = Len(ts)
    BY <2>1, <2>2 DEF AsksPull
  <2> QED BY <2>1, <2>3, LastTaken
<1>4. ASSUME Len(uc) # 0, uc[1].kind = "Header" PROVE Len(us) = 0 /\ Flows(uc, t, 1, f)
  <2>1. CASE Len(tc) # 0 /\ tc[1].kind = "Header"
    <3>1. Len(ts) = 0 /\ Flows(tc, s, 1, e)
      BY <2>1 DEF AsksPull
    <3>2. us = ts /\ Flows(uc, t, 1, e)
      BY <2>1, <3>1, MoveFlows DEF Lens
    <3>3. f = e
      BY <3>2 DEF Flows
    <3> QED BY <3>1, <3>2, <3>3
  <2>2. CASE Len(tc) # 0 /\ tc[1].kind # "Header"
    <3>1. uc[1] = tc[1]
      BY <2>2 DEF Moves, Drops, Accepts, AnswersOne, Opens, GoesOn, Replies, Adds, Lens
    <3> QED BY <1>4, <2>2, <3>1
  <2>3. CASE Len(tc) = 0
    <3>1. s.st = "StartPull" /\ t.st = "Pull" /\ t.total = s.total /\ us = ts /\ Len(uc) = 1
      <4>1. ASSUME NEW v, Adds(tc, uc, v) PROVE Len(uc) = 1 /\ v = uc[1]
        BY <2>3, <4>1 DEF Adds
      <4>2. ASSUME NEW v, Replies(tc, uc, t, v) PROVE v = uc[1]
        BY <1>4, <2>3, <4>1, <4>2 DEF Replies
      <4>3. ~Drops(ts, tc, s, us, uc, t) /\ ~Accepts(ts, tc, s, us, uc, t)
        BY <1>4, <2>3 DEF Drops, Accepts
      <4>4. ~AnswersOne(ts, tc, s, us, uc, t, w)
        BY <1>4, <4>2 DEF AnswersOne
      <4>5. ~GoesOn(ts, tc, s, us, uc, t, w)
        BY <1>4, <4>1, <4>2 DEF GoesOn
      <4>6. Opens(ts, tc, s, us, uc, t, w)
        BY <4>3, <4>4, <4>5 DEF Moves
      <4> QED BY <1>4, <4>1, <4>6 DEF Opens
    <3>2. Len(ts) = 0 /\ s.total = Len(e) /\ f = e
      BY <3>1 DEF AsksPull
    <3> QED BY <3>1, <3>2 DEF Flows
  <2> QED BY <2>1, <2>2, <2>3
<1> QED BY <1>2, <1>3, <1>4 DEF AsksPull

LEMMA MoveStops ==
  ASSUME NEW ts, NEW tc, NEW s, NEW us, NEW uc, NEW t, NEW w, Lens(ts, tc, us, uc), Moves(ts, tc, s, us, uc, t, w),
         Stops(ts, tc, s)
  PROVE  Stops(us, uc, t)
<1>1. \/ AnswersOne(ts, tc, s, us, uc, t, w) /\ Len(ts) = 1 /\ Len(us) = 0
      \/ us = ts /\ s.st = "SendPayload" /\ t.st = "Idle" /\ Adds(tc, uc, w)
  <2>1. ~Drops(ts, tc, s, us, uc, t) /\ ~Accepts(ts, tc, s, us, uc, t) /\ ~Opens(ts, tc, s, us, uc, t, w)
    BY DEF Drops, Accepts, Opens, Stops, Takes, Lens
  <2>2. CASE GoesOn(ts, tc, s, us, uc, t, w)
    BY <2>2 DEF GoesOn, Stops
  <2>3. CASE AnswersOne(ts, tc, s, us, uc, t, w)
    BY <2>3 DEF AnswersOne, Takes, Stops, Lens
  <2> QED BY <2>1, <2>2, <2>3 DEF Moves
<1>2. w.kind = "Sentinel" /\ Replies(tc, uc, t, w) /\ s.st \in {"Idle", "Pull", "SendPayload"}
  <2>1. CASE AnswersOne(ts, tc, s, us, uc, t, w)
    BY <2>1 DEF AnswersOne, Takes, Stops, Lens
  <2>2. CASE us = ts /\ s.st = "SendPayload" /\ t.st = "Idle" /\ Adds(tc, uc, w)
    <3>1. GoesOn(ts, tc, s, us, uc, t, w)
      BY <2>2 DEF Moves, Drops, Accepts, AnswersOne, Opens
    <3> QED BY <2>2, <3>1 DEF GoesOn, Stops, Replies
  <2> QED BY <1>1, <2>1, <2>2
<1>3. /\ Len(us) + Len(uc) + Due(t) <= Len(ts) + Len(tc) + Due(s) /\ t.st \in {"Idle", "SendPayload"}
      /\ t.st = "SendPayload" => t.scratch.kind = "Sentinel"
      /\ Len(us) <= 1 /\ \A i \in 1..Len(us) : us[i].kind = "Status"
      /\ Len(us) + Len(uc) + Due(t) <= Len(tc) + 1 + Len(us)
  <2>1. Len(ts) <= 1 /\ \A i \in 1..Len(ts) : ts[i].kind = "Status"
    BY DEF Stops
  <2>2. Len(us) <= 1 /\ (\A i \in 1..Len(us) : us[i].kind = "Status") /\ (s.st # "SendPayload" => Len(us) = Len(ts) - 1)
        /\ Len(us) <= Len(ts)
    BY <1>1, <2>1 DEF Takes, AnswersOne, Lens
  <2>3. /\ t.st \in {"Idle", "SendPayload"} /\ (t.st = "SendPayload" => t.scratch.kind = "Sentinel")
        /\ Len(uc) + Due(t) = Len(tc) + 1
    BY <1>2 DEF Replies, Adds, Lens, Due
  <2>4. Due(s) = IF s.st = "Idle" THEN 0 ELSE 1
    BY <1>2 DEF Due
  <2>5. s.st = "SendPayload" \/ Len(us) = Len(ts) - 1
    BY <2>2
  <2>6. Due(t) \in 0..1
    BY DEF Due
  <2>7. Len(us) + Len(uc) + Due(t) <= Len(ts) + Len(tc) + Due(s)
    BY <1>2, <2>2, <2>3, <2>4, <2>5, <2>6 DEF Lens
  <2>8. Len(us) + Len(uc) + Due(t) <= Len(tc) + 1 + Len(us)
    BY <2>3, <2>6 DEF Lens
  <2> QED BY <2>2, <2>3, <2>7, <2>8
<1>4. ASSUME NEW i \in 1..Len(uc)
      PROVE  /\ uc[i].kind \in {"Chunk", "Sentinel"}
             /\ uc[i].kind = "Sentinel" =>
                   /\ Len(uc) + Len(us) + Due(t) <= i + 1
                   /\ \A j \in i..Len(uc) : uc[j].kind = "Sentinel"
  <2>1. CASE i \in 1..Len(tc)
    <3>1. uc[i] = tc[i] /\ \A j \in 1..Len(uc) : IF j \in 1..Len(tc) THEN uc[j] = tc[j] ELSE uc[j] = w
      BY <1>2, <2>1 DEF Replies, Adds, Lens
    <3>2. uc[i].kind = "Sentinel" => Len(tc) + Len(ts) + Due(s) <= i + 1 /\ \A j \in i..Len(tc) : tc[j].kind = "Sentinel"
      BY <2>1, <3>1 DEF Stops
    <3>3. uc[i].kind \in {"Chunk", "Sentinel"}
      BY <2>1, <3>1 DEF Stops
    <3>4. uc[i].kind = "Sentinel" => \A j \in i..Len(uc) : uc[j].kind = "Sentinel"
      BY <1>2, <3>1, <3>2 DEF Lens
    <3>5. uc[i].kind = "Sentinel" => Len(uc) + Len(us) + Due(t) <= i + 1
      BY <1>3, <3>2 DEF Lens, Due
    <3> QED BY <3>3, <3>4, <3>5
  <2>2. CASE i \notin 1..Len(tc)
    <3>1. t.st = "Idle" /\ Adds(tc, uc, w) /\ i = Len(uc) /\ uc[i] = w
      BY <1>2, <2>2 DEF Replies, Adds, Lens
    <3>2. Len(us) <= 1 /\ Due(t) = 0
      BY <1>3, <3>1 DEF Due
    <3> QED BY <1>2, <3>1, <3>2 DEF Lens
  <2> QED BY <2>1, <2>2
<1> QED BY <1>3, <1>4 DEF Stops

LEMMA MovePushes ==
  ASSUME NEW ts, NEW tc, NEW s, NEW us, NEW uc, NEW t, NEW w, Lens(ts, tc, us, uc), Moves(ts, tc, s, us, uc, t, w),
         NEW k, Pushes(ts, tc, s, k),
         \A i \in 1..Len(ts) : ts[i].kind = "Sentinel" => i = Len(ts) /\ k.pc = "closeReply"
  PROVE  Pushes(us, uc, t, k)
<1>1. CASE k.pc = "closeReply" /\ ~HasSentinel(ts)
  <2>1. Closed(ts, tc, s)
    BY <1>1 DEF Pushes
  <2>2. GoesOn(ts, tc, s, us, uc, t, w) /\ s.st = "SendPayload"
    BY <2>1 DEF Moves, Drops, Accepts, AnswersOne, Opens, GoesOn, Takes, Closed
  <2>3. us = ts /\ t.st = "Idle" /\ Adds(tc, uc, w) /\ ~Grants(w)
    BY <2>1, <2>2 DEF GoesOn, Closed
  <2>4. Closed(us, uc, t)
    BY <2>1, <2>2, <2>3 DEF Closed, Adds, Lens
  <2> QED BY <1>1, <2>3, <2>4 DEF Pushes
<1>2. CASE ~(k.pc = "closeReply" /\ ~HasSentinel(ts))
  <2>1. Clean(ts, tc, s)
    BY <1>2 DEF Pushes
  <2>2. CASE us = ts
    <3>1. s.st = "SendPayload" /\ t.st = "Idle" /\ Adds(tc, uc, w) /\ ~Grants(w)
      <4>1. ~Takes(ts, us)
        BY <2>2 DEF Takes, Lens
      <4>2. GoesOn(ts, tc, s, us, uc, t, w)
        BY <2>1, <4>1 DEF Moves, Drops, Accepts, AnswersOne, Opens, Clean
      <4> QED BY <2>1, <4>2 DEF GoesOn, Clean
    <3>2. Clean(us, uc, t)
      BY <2>1, <2>2, <3>1 DEF Clean, Adds, Lens
    <3> QED BY <1>2, <2>2, <3>2 DEF Pushes
  <2>3. CASE Takes(ts, us)
    <3>0. 1 \in 1..Len(ts)
      BY <2>3 DEF Takes, Lens
    <3>1. \/ Drops(ts, tc, s, us, uc, t) 
          \/ AnswersOne(ts, tc, s, us, uc, t, w)
      <4>1. us # ts
        BY <2>3 DEF Takes, Lens
      <4>2. ~Accepts(ts, tc, s, us, uc, t)
        BY <2>1, <3>0 DEF Accepts, Clean
      <4> QED BY <4>1, <4>2 DEF Moves, Opens, GoesOn
    <3>2. /\ t.st \in {"Push", "Idle", "SendPayload"}
          /\ t.st = "Push" => Len(uc) = 0
      BY <2>1, <3>0, <3>1 DEF Drops, AnswersOne, Clean, Replies
    <3>3. \A i \in 1..Len(us) : us[i].kind # "Request"
      BY <2>1, <2>3 DEF Clean, Takes, Lens
    <3>4. CASE ts[1].kind = "Sentinel"
      <4>1. Len(us) = 0 /\ k.pc = "closeReply" /\ ~HasSentinel(us)
        BY <2>3, <3>0, <3>4 DEF Takes, HasSentinel, Lens
      <4>2. Closed(us, uc, t)
        <5>1. CASE Drops(ts, tc, s, us, uc, t)
          BY <2>1, <3>4, <4>1, <5>1 DEF Drops, Clean, Closed
        <5>2. CASE AnswersOne(ts, tc, s, us, uc, t, w)
          <6>1. s.st = "Push" /\ Len(tc) = 0
            BY <2>1, <3>4, <5>2 DEF AnswersOne, Clean
          <6>2. t.st = "Idle" /\ Len(uc) = 1
            BY <5>2, <6>1 DEF AnswersOne, Replies, Adds
          <6> QED BY <4>1, <6>2 DEF Closed
        <5> QED BY <3>1, <5>1, <5>2
      <4> QED BY <4>1, <4>2 DEF Pushes
    <3>5. CASE ts[1].kind # "Sentinel"
      <4>1. HasSentinel(us) <=> HasSentinel(ts)
        BY <2>3, <3>5 DEF HasSentinel, Takes, Lens
      <4>2. Clean(us, uc, t)
        <5>1. CASE Drops(ts, tc, s, us, uc, t)
          BY <2>1, <3>2, <3>3, <5>1 DEF Drops, Clean
        <5>2. CASE AnswersOne(ts, tc, s, us, uc, t, w)
          <6>1. ~Grants(w) /\ Replies(tc, uc, t, w)
            BY <3>5, <5>2 DEF AnswersOne, Grants
          <6> QED BY <2>1, <3>2, <3>3, <6>1 DEF Clean, Replies, Adds, Lens
        <5> QED BY <3>1, <5>1, <5>2
      <4> QED BY <1>2, <4>1, <4>2 DEF Pushes
    <3> QED BY <3>4, <3>5
  <2> QED BY <2>2, <2>3 DEF Moves, Drops, Accepts, AnswersOne, Opens, GoesOn
<1> QED BY <1>1, <1>2

\* A step of the session keeps the order.
LEMMA MoveOrderly ==
  ASSUME NEW ts, NEW tc, NEW s, NEW us, NEW uc, NEW t, NEW w, Lens(ts, tc, us, uc), Moves(ts, tc, s, us, uc, t, w),
         NEW x, NEW k, NEW a, NEW b, b.data = a.data, b.op = a.op,
         IF t.st = "StartPull" THEN t.total = Len(b.expect) ELSE b.expect = a.expect,
         k.pc = "pushReply" => x.state = "Idle",
         x.state # "Error" /\ k.pc # "pullReply" => NoPull(ts, tc, s),
         Orderly(ts, tc, s, x, k, a)
  PROVE  Orderly(us, uc, t, x, k, b)
<1>1. Written(us, x, k, b)
  BY MoveWritten DEF Orderly
<1>2. x.state = "Idle" /\ k.pc = "none" => Rests(us, uc, t, 1)
  BY MoveRests DEF Orderly
<1>3. k.pc = "pushReply" => Rests(us, uc, t, 2)
  BY MoveRests DEF Orderly
<1>4. k.pc = "pullReply" => AsksPull(us, uc, t, b.expect)
  BY MoveAsks DEF Orderly
<1>5. ASSUME Pulling(x, b), k.pc # "aborting" PROVE Reads(us, uc, t, x, k, b.expect)
  <2>1. Reads(ts, tc, s, x, k, a.expect)
    BY <1>5 DEF Pulling, Orderly
  <2>2. us = ts /\ Flows(uc, t, 0, a.expect) /\ s.st # "Idle"
    BY <2>1, MoveFlows DEF Reads, Lens
  <2>3. b.expect = a.expect
    BY <2>2 DEF Flows
  <2> QED BY <2>1, <2>2, <2>3 DEF Reads
<1>6. k.pc = "aborting" => Stops(us, uc, t)
  BY MoveStops DEF Orderly
<1>7. ASSUME Pushing(x, b) PROVE Pushes(us, uc, t, k)
  <2>1. Pushing(x, a) /\ x.state # "Error"
    BY <1>7 DEF Pushing
  <2>2. \A i \in 1..Len(ts) : ts[i].kind = "Sentinel" => i = Len(ts) /\ k.pc = "closeReply"
    BY <2>1 DEF Orderly, Written
  <2> QED BY <2>1, <2>2, MovePushes DEF Orderly
<1>8. k.pc \in {"writing", "closeReply"} => Pushing(x, b)
  BY DEF Orderly, Pushing
<1> QED BY <1>1, <1>2, <1>3, <1>4, <1>5, <1>6, <1>7, <1>8 DEF Orderly

(***************************************************************************)
(* Each step of the message thread is such a move.                         *)
(***************************************************************************)
LEMMA TakesOf ==
  ASSUME TInv, NEW c \in Clients, toServer[c] # <<>>, toServer' = [toServer EXCEPT ![c] = Tail(@)]
  PROVE  Takes(toServer[c], toServer'[c]) /\ Received(c) = toServer[c][1] /\ Received(c) \in MessageType
<1>1. toServer[c] \in Seq(MessageType) /\ toServer'[c] = Tail(toServer[c])
  BY DEF TInv, WireTypes
<1>2. /\ Len(Tail(toServer[c])) = Len(toServer[c]) - 1 /\ Len(toServer[c]) \in Nat \ {0}
      /\ Head(toServer[c]) = toServer[c][1] /\ toServer[c][1] \in MessageType
      /\ \A i \in 1..Len(Tail(toServer[c])) : Tail(toServer[c])[i] = toServer[c][i + 1]
  BY <1>1, TailOf
<1>3. Received(c) = Head(toServer[c])
  BY DEF Received
<1>4. Takes(toServer[c], Tail(toServer[c]))
  BY <1>2 DEF Takes
<1> QED BY <1>1, <1>2, <1>3, <1>4

LEMMA AddsOf ==
  ASSUME TInv, NEW c \in Clients, NEW s \in SessionType, NEW m \in MessageType, Send(c, s, m)
  PROVE  \E w \in MessageType :
            w.kind = m.kind /\ w.result = m.result /\ w.size = m.size /\ Adds(toClient[c], toClient'[c], w)
<1> DEFINE w == [m EXCEPT !.req = s.req]
<1>1. w \in MessageType /\ w.kind = m.kind /\ w.result = m.result /\ w.size = m.size
  <2>1. s.req \in Nat
    BY DEF SessionType
  <2> QED BY <2>1, StampedType
<1>2. toClient'[c] = Append(toClient[c], w) /\ toClient[c] \in Seq(MessageType)
  BY DEF Send, TInv, WireTypes
<1> HIDE DEF w
<1>3. Adds(toClient[c], toClient'[c], w)
  BY <1>1, <1>2, AppendOf DEF Adds
<1> QED BY <1>1, <1>3

LEMMA ReplyOf ==
  ASSUME TInv, NEW c \in Clients, NEW s \in SessionType, NEW m \in MessageType, SendScratch(c, s, m)
  PROVE  \E w \in MessageType :
            w.kind = m.kind /\ w.result = m.result /\ Replies(toClient[c], toClient'[c], sess'[c], w)
<1>1. CASE Space(c)
  <2>1. Send(c, s, m) /\ sess'[c].st = "Idle"
    BY <1>1 DEF SendScratch, TInv, ServerTypes, SessionType
  <2> QED BY <2>1, AddsOf DEF Replies
<1>2. CASE ~Space(c)
  <2>1. sess'[c].st = "SendPayload" /\ sess'[c].scratch = m /\ toClient' = toClient
    BY <1>2 DEF SendScratch, TInv, ServerTypes, SessionType
  <2>2. Len(toClient[c]) \in Nat
    BY Typed, LenProperties
  <2>3. Len(toClient[c]) >= 1
    BY <1>2, <2>2, TransferAssumption DEF Space
  <2> QED BY <2>1, <2>3 DEF Replies
<1> QED BY <1>1, <1>2

Moved(c) ==
    \E w : Moves(toServer[c], toClient[c], sess[c], toServer'[c], toClient'[c], sess'[c], w)
Expects(c) ==
    /\ app'[c].data = app[c].data /\ app'[c].op = app[c].op
    /\ IF sess'[c].st = "StartPull" THEN sess'[c].total = Len(app'[c].expect) ELSE app'[c].expect = app[c].expect

LEMMA RequestMoves ==
  ASSUME TInv, NEW c \in Clients, ProcessRequest(c)
  PROVE  Moved(c) /\ Expects(c)
<1>1. /\ link[c] = "up" /\ sess[c].st = "Idle" /\ Received(c).kind = "Request"
      /\ Takes(toServer[c], toServer'[c]) /\ Received(c) = toServer[c][1]
  BY ProcessRequestCases, TakesOf
<1>2. ASSUME NEW s \in SessionType, SendScratch(c, s, Status("Error")), UNCHANGED app PROVE Moved(c) /\ Expects(c)
  <2>1. Status("Error") \in MessageType /\ Status("Error").kind = "Status" /\ Status("Error").result = "Error"
    BY StatusType DEF Results
  <2>2. PICK w \in MessageType : w.kind = "Status" /\ w.result = "Error" /\ Replies(toClient[c], toClient'[c], sess'[c], w)
    BY <1>2, <2>1, ReplyOf
  <2>3. AnswersOne(toServer[c], toClient[c], sess[c], toServer'[c], toClient'[c], sess'[c], w)
    BY <1>1, <2>2 DEF AnswersOne, Grants
  <2>4. sess'[c].st # "StartPull"
    BY <2>2 DEF Replies
  <2> QED BY <1>2, <2>3, <2>4 DEF Moved, Moves, Expects
<1>3. ASSUME NEW t \in SessionType, sess' = [sess EXCEPT ![c] = t], UNCHANGED <<toClient, app>>, t.st = "StartPush"
      PROVE  Moved(c) /\ Expects(c)
  <2>1. sess'[c] = t
    BY <1>3 DEF TInv, ServerTypes
  <2>2. Accepts(toServer[c], toClient[c], sess[c], toServer'[c], toClient'[c], sess'[c])
    BY <1>1, <1>3, <2>1 DEF Accepts
  <2> QED BY <1>3, <2>1, <2>2 DEF Moved, Moves, Expects
<1>4. ASSUME NEW b \in Blocks, NEW t \in SessionType, sess' = [sess EXCEPT ![c] = t], UNCHANGED toClient, t.st = "StartPull",
             t.total = Len(block[b].data), Received(c).type = "Pull", app' = [app EXCEPT ![c].expect = block[b].data]
      PROVE  Moved(c) /\ Expects(c)
  <2>1. sess'[c] = t
    BY <1>4 DEF TInv, ServerTypes
  <2>2. app'[c].expect = block[b].data /\ app'[c].data = app[c].data /\ app'[c].op = app[c].op
    BY <1>4 DEF TInv, ClientTypes, AppType
  <2>3. Accepts(toServer[c], toClient[c], sess[c], toServer'[c], toClient'[c], sess'[c])
    BY <1>1, <1>4, <2>1 DEF Accepts, IsPull
  <2> QED BY <1>4, <2>1, <2>2, <2>3 DEF Moved, Moves, Expects
<1> QED BY <1>2, <1>3, <1>4, ProcessRequestCases

LEMMA SentinelReply ==
  ASSUME TInv, NEW c \in Clients, NEW s \in SessionType, NEW result \in Results, NEW crc \in Seq(Datum),
         SendSentinel(c, s, result, crc)
  PROVE  \E w \in MessageType : w.kind = "Sentinel" /\ Replies(toClient[c], toClient'[c], sess'[c], w)
<1> DEFINE u == [s EXCEPT !.block = None]
<1>1. u \in SessionType
  BY DEF SessionType
<1>2. SendScratch(c, u, Sentinel(result, crc))
  BY DEF SendSentinel
<1> HIDE DEF u
<1> QED BY <1>1, <1>2, SentinelType, ReplyOf

\* The answer to the sentinel of a push is Success only when its CRC is that of
\* the block, which is then closed.
Finalizes(c) ==
    /\ Received(c).kind = "Sentinel" /\ Received(c).result = "Success"
    /\ Received(c).data = block'[sess[c].block].data /\ block'[sess[c].block].closed

LEMMA PushReceives ==
  ASSUME TInv, NEW c \in Clients, ReceivePush(c)
  PROVE  \/ Received(c).kind = "Chunk" /\ sess'[c].st = "Push" /\ toClient' = toClient
         \/ \E result \in Results :
               /\ SendScratch(c, [sess[c] EXCEPT !.block = None], Status(result))
               /\ result = "Success" => Finalizes(c)
               /\ result = "Aborted" => Received(c).kind = "Sentinel"
<1>1. /\ sess[c].st = "Push" /\ sess[c].block \in Blocks /\ Received(c) \in MessageType
  BY ReceivePushCases, TakesOf
<1>2. CASE Received(c).kind = "Chunk" /\ sess[c].done < sess[c].total
  <2> DEFINE rest == sess[c].total - sess[c].done
             n == IF Len(Received(c).data) < rest THEN Len(Received(c).data) ELSE rest
  <2>0. ~(sess[c].done >= sess[c].total) /\ Received(c).kind # "Sentinel"
    BY <1>2, Typed
  <2>1. sess' = [sess EXCEPT ![c].done = @ + n] /\ toClient' = toClient
    BY <1>2, <2>0 DEF ReceivePush
  <2> HIDE DEF n
  <2>2. sess'[c].st = "Push"
    BY <1>1, <2>1 DEF TInv, ServerTypes, SessionType
  <2> QED BY <1>2, <2>1, <2>2
<1>3. CASE Received(c).kind = "Chunk" /\ sess[c].done >= sess[c].total
  <2>1. CancelTransfer(c, sess[c], "InsufficientMemory")
    BY <1>3 DEF ReceivePush
  <2> QED BY <2>1 DEF CancelTransfer, Results
<1>4. CASE Received(c).kind = "Sentinel" /\ Intact(Received(c), block[sess[c].block])
  <2> DEFINE A == [block[sess[c].block] EXCEPT !.closed = TRUE]
  <2>1. /\ block' = [block EXCEPT ![sess[c].block] = EndTransfer(A)]
        /\ SendScratch(c, [sess[c] EXCEPT !.block = None], Status("Success"))
    BY <1>4 DEF ReceivePush
  <2>2. A \in BlockType /\ A.closed /\ A.data = block[sess[c].block].data
    BY <1>1, ResetType DEF TInv, ServerTypes
  <2> HIDE DEF A
  <2>3. block'[sess[c].block] = EndTransfer(A)
    BY <1>1, <2>1 DEF TInv, ServerTypes
  <2>4. block'[sess[c].block].closed /\ block'[sess[c].block].data = block[sess[c].block].data
    BY <2>2, <2>3, EndTransferType
  <2>5. Finalizes(c)
    BY <1>4, <2>4 DEF Finalizes, Intact
  <2> QED BY <1>4, <2>1, <2>5 DEF Results
<1>5. CASE Received(c).kind = "Sentinel" /\ ~Intact(Received(c), block[sess[c].block])
  <2>1. CancelTransfer(c, sess[c], IF Received(c).result = "Aborted" THEN "Aborted" ELSE "Error")
    BY <1>5 DEF ReceivePush
  <2> QED BY <1>5, <2>1 DEF CancelTransfer, Results
<1>6. CASE Received(c).kind \notin {"Chunk", "Sentinel"}
  <2>1. CancelTransfer(c, sess[c], "Error")
    BY <1>6 DEF ReceivePush
  <2> QED BY <2>1 DEF CancelTransfer, Results
<1>7. sess[c].done \in Nat /\ sess[c].total \in Nat
  BY Typed
<1> QED BY <1>2, <1>3, <1>4, <1>5, <1>6, <1>7

LEMMA PushMoves ==
  ASSUME TInv, NEW c \in Clients, ReceivePush(c)
  PROVE  Moved(c) /\ Expects(c)
<1>1. /\ sess[c].st = "Push" /\ Takes(toServer[c], toServer'[c]) /\ Received(c) = toServer[c][1] /\ app' = app
  BY ReceivePushCases, TakesOf
<1>2. CASE Received(c).kind = "Chunk" /\ sess'[c].st = "Push" /\ toClient' = toClient
  BY <1>1, <1>2 DEF Moved, Moves, Drops, Expects
<1>3. ASSUME NEW result \in Results, SendScratch(c, [sess[c] EXCEPT !.block = None], Status(result)),
             result = "Success" => Finalizes(c), result = "Aborted" => Received(c).kind = "Sentinel"
      PROVE  Moved(c) /\ Expects(c)
  <2> DEFINE u == [sess[c] EXCEPT !.block = None]
  <2>1. u \in SessionType /\ SendScratch(c, u, Status(result))
    BY <1>3, Typed DEF SessionType
  <2> HIDE DEF u
  <2>2. PICK w \in MessageType : w.kind = "Status" /\ w.result = result /\ Replies(toClient[c], toClient'[c], sess'[c], w)
    BY <2>1, StatusType, ReplyOf
  <2>3. Grants(w) => toServer[c][1].kind = "Sentinel"
    BY <1>1, <1>3, <2>2 DEF Grants, Finalizes
  <2>4. AnswersOne(toServer[c], toClient[c], sess[c], toServer'[c], toClient'[c], sess'[c], w)
    BY <1>1, <2>2, <2>3 DEF AnswersOne
  <2>5. sess'[c].st # "StartPull"
    BY <2>2 DEF Replies
  <2> QED BY <1>1, <2>4, <2>5 DEF Moved, Moves, Expects
<1> QED BY <1>2, <1>3, PushReceives

LEMMA UpdateMoves ==
  ASSUME TInv, NEW c \in Clients, Prepared(sess[c]), UpdateSession(c)
  PROVE  Moved(c) /\ Expects(c)
<1>0. /\ sess[c] \in SessionType /\ sess[c].scratch \in MessageType /\ sess[c].crc \in Seq(Datum) /\ sess[c].total \in Nat
      /\ sess[c].done \in Nat /\ toServer[c] \in Seq(MessageType)
  BY Typed
<1>1. CASE ProcessLateAbort(c)
  <2>1. /\ sess[c].st = "Idle" /\ Takes(toServer[c], toServer'[c]) /\ toServer[c][1].kind = "Status" /\ app' = app
        /\ Received(c).req \in Nat
    BY <1>1, TakesOf, MessageFields DEF ProcessLateAbort, Receive, Serving, client
  <2> DEFINE u == [sess[c] EXCEPT !.req = Received(c).req]
  <2>2. u \in SessionType /\ SendSentinel(c, u, "Aborted", <<>>)
    BY <1>0, <1>1, <2>1 DEF ProcessLateAbort, SessionType
  <2> HIDE DEF u
  <2>3. PICK w \in MessageType : w.kind = "Sentinel" /\ Replies(toClient[c], toClient'[c], sess'[c], w)
    BY <2>2, SentinelReply, EmptyData DEF Results
  <2>4. AnswersOne(toServer[c], toClient[c], sess[c], toServer'[c], toClient'[c], sess'[c], w)
    BY <2>1, <2>3 DEF AnswersOne
  <2>5. sess'[c].st # "StartPull"
    BY <2>3 DEF Replies
  <2> QED BY <2>1, <2>4, <2>5 DEF Moved, Moves, Expects
<1>2. CASE ProcessUnreachable(c)
  <2>1. /\ sess[c].st = "Idle" /\ Takes(toServer[c], toServer'[c]) /\ toServer[c][1].kind \notin {"Request", "Status"}
        /\ UNCHANGED <<app, sess, toClient>>
    BY <1>2, TakesOf DEF ProcessUnreachable, Receive, Serving, client, server
  <2> QED BY <2>1 DEF Moved, Moves, Drops, Expects
<1>3. CASE Start(c)
  <2>1. /\ sess[c].st \in {"StartPull", "StartPush"} /\ UNCHANGED <<toServer, app>> /\ Send(c, sess[c], sess[c].scratch)
        /\ sess'[c] = [sess[c] EXCEPT !.st = IF sess[c].st = "StartPull" THEN "Pull" ELSE "Push"]
    BY <1>3 DEF Start, Serving, client, TInv, ServerTypes
  <2>2. /\ sess'[c].total = sess[c].total /\ sess'[c].st = IF sess[c].st = "StartPull" THEN "Pull" ELSE "Push"
    BY <1>0, <2>1 DEF SessionType
  <2>3. PICK w \in MessageType : w.kind = sess[c].scratch.kind /\ Adds(toClient[c], toClient'[c], w)
    BY <1>0, <2>1, AddsOf
  <2>4. w.kind = IF sess[c].st = "StartPull" THEN "Header" ELSE "Status"
    BY <2>1, <2>3 DEF Prepared
  <2>5. Opens(toServer[c], toClient[c], sess[c], toServer'[c], toClient'[c], sess'[c], w)
    BY <2>1, <2>2, <2>3, <2>4 DEF Opens
  <2> QED BY <2>1, <2>2, <2>5 DEF Moved, Moves, Expects
<1>4. CASE SendChunk(c)
  <2>1. sess[c].st = "Pull" /\ toServer[c] = <<>> /\ UNCHANGED <<toServer, app>>
    BY <1>4, SendChunkCases
  <2>2. Len(toServer[c]) = 0
    BY <2>1, EmptyData
  <2>3. CASE SendSentinel(c, sess[c], "Success", sess[c].crc)
    <3>1. PICK w \in MessageType : w.kind = "Sentinel" /\ Replies(toClient[c], toClient'[c], sess'[c], w)
      BY <1>0, <2>3, SentinelReply DEF Results
    <3>2. GoesOn(toServer[c], toClient[c], sess[c], toServer'[c], toClient'[c], sess'[c], w)
      BY <2>1, <2>2, <3>1 DEF GoesOn
    <3>3. sess'[c].st # "StartPull"
      BY <3>1 DEF Replies
    <3> QED BY <2>1, <3>2, <3>3 DEF Moved, Moves, Expects
  <2>4. ASSUME NEW n \in Nat, NEW t \in SessionType, NEW m \in MessageType, sess[c].done < sess[c].total,
               sess' = [sess EXCEPT ![c] = t], t = [sess[c] EXCEPT !.done = sess[c].done + n],
               m.kind = "Chunk", Send(c, sess[c], m)
        PROVE  Moved(c) /\ Expects(c)
    <3>1. sess'[c].st = "Pull" /\ sess'[c].total = sess[c].total
      BY <1>0, <2>1, <2>4 DEF SessionType, TInv, ServerTypes
    <3>2. PICK w \in MessageType : w.kind = "Chunk" /\ Adds(toClient[c], toClient'[c], w)
      BY <1>0, <2>4, AddsOf
    <3>3. sess[c].total # 0
      BY <1>0, <2>4
    <3>4. GoesOn(toServer[c], toClient[c], sess[c], toServer'[c], toClient'[c], sess'[c], w)
      BY <2>1, <2>2, <3>1, <3>2, <3>3 DEF GoesOn
    <3> QED BY <2>1, <3>1, <3>4 DEF Moved, Moves, Expects
  <2> QED BY <1>4, <2>3, <2>4, SendChunkCases
<1>5. CASE StopPull(c)
  <2>1. sess[c].st = "Pull" /\ Takes(toServer[c], toServer'[c]) /\ app' = app
    BY <1>5, TakesOf DEF StopPull, Receive, Serving, client
  <2> DEFINE r == IF Received(c).kind = "Status" THEN "Aborted" ELSE "Error"
  <2>2. SendSentinel(c, sess[c], r, <<>>) /\ r \in Results
    BY <1>5 DEF StopPull, Results
  <2> HIDE DEF r
  <2>3. PICK w \in MessageType : w.kind = "Sentinel" /\ Replies(toClient[c], toClient'[c], sess'[c], w)
    BY <1>0, <2>2, SentinelReply, EmptyData
  <2>4. AnswersOne(toServer[c], toClient[c], sess[c], toServer'[c], toClient'[c], sess'[c], w)
    BY <2>1, <2>3 DEF AnswersOne
  <2>5. sess'[c].st # "StartPull"
    BY <2>3 DEF Replies
  <2> QED BY <2>1, <2>4, <2>5 DEF Moved, Moves, Expects
<1>6. CASE SendPayload(c)
  <2>1. /\ sess[c].st = "SendPayload" /\ UNCHANGED <<toServer, app>> /\ Send(c, sess[c], sess[c].scratch)
        /\ sess'[c].st = "Idle"
    BY <1>0, <1>6 DEF SendPayload, SendScratch, Serving, client, TInv, ServerTypes, SessionType
  <2>2. PICK w \in MessageType : /\ w.kind = sess[c].scratch.kind /\ w.result = sess[c].scratch.result
                                 /\ Adds(toClient[c], toClient'[c], w)
    BY <1>0, <2>1, AddsOf
  <2>3. GoesOn(toServer[c], toClient[c], sess[c], toServer'[c], toClient'[c], sess'[c], w)
    BY <2>1, <2>2 DEF GoesOn, Prepared, Grants
  <2> QED BY <2>1, <2>3 DEF Moved, Moves, Expects
<1> QED BY <1>1, <1>2, <1>3, <1>4, <1>5, <1>6, RequestMoves, PushMoves DEF UpdateSession

(***************************************************************************)
(* The steps of the client.                                                *)
(***************************************************************************)
Order(c) == Orderly(toServer[c], toClient[c], sess[c], ctx[c], call[c], app[c])
OrderAfter(c) == Orderly(toServer'[c], toClient'[c], sess'[c], ctx'[c], call'[c], app'[c])

LEMMA LensOf ==
  ASSUME TInv, TInv', NEW c \in Clients
  PROVE  /\ Lens(toServer[c], toClient[c], toServer'[c], toClient'[c])
         /\ Len(app[c].expect) \in Nat /\ Len(app'[c].expect) \in Nat
<1>1. /\ toServer[c] \in Seq(MessageType) /\ toClient[c] \in Seq(MessageType) /\ app[c].expect \in Seq(Datum)
      /\ toServer'[c] \in Seq(MessageType) /\ toClient'[c] \in Seq(MessageType) /\ app'[c].expect \in Seq(Datum)
  BY DEF TInv, WireTypes, ClientTypes, AppType
<1> QED BY <1>1, LenProperties DEF Lens

LEMMA ReadsOf ==
  ASSUME TInv, NEW c \in Clients, NEW pc, Read(c, pc), UNCHANGED <<toServer, link>>
  PROVE  /\ link[c] = "up" /\ call[c].pc = pc /\ toServer'[c] = toServer[c]
         /\ Takes(toClient[c], toClient'[c]) /\ Answer(c) = toClient[c][1] /\ 1 \in 1..Len(toClient[c])
<1>1. /\ link[c] = "up" /\ call[c].pc = pc /\ toServer'[c] = toServer[c]
      /\ toClient[c] # <<>> /\ toClient'[c] = Tail(toClient[c]) /\ Answer(c) = toClient[c][1]
      /\ toClient[c] \in Seq(MessageType)
  BY ReadWires
<1>2. /\ Len(Tail(toClient[c])) = Len(toClient[c]) - 1 /\ Len(toClient[c]) \in Nat \ {0}
      /\ \A i \in 1..Len(Tail(toClient[c])) : Tail(toClient[c])[i] = toClient[c][i + 1]
  BY <1>1, TailOf
<1> QED BY <1>1, <1>2 DEF Takes

LEMMA WritesOf ==
  ASSUME TInv, NEW c \in Clients, NEW m \in MessageType, Write(c, m)
  PROVE  Adds(toServer[c], toServer'[c], m)
<1>1. toServer[c] \in Seq(MessageType) /\ toServer'[c] = Append(toServer[c], m)
  BY DEF Write, TInv, WireTypes
<1> QED BY <1>1, AppendOf DEF Adds

LEMMA AddsKind ==
  ASSUME NEW q, NEW r, NEW m, Adds(q, r, m), Len(q) \in Nat, NEW i \in 1..Len(r)
  PROVE  r[i] = m \/ (i \in 1..Len(q) /\ r[i] = q[i])
BY DEF Adds

\* What a pull may leave behind, what an abort asks for and what it discards.
LEMMA LeftRests ==
  ASSUME NEW ts, NEW tc, NEW s, Len(ts) = 0, Len(tc) \in Nat, s.st \in {"Pull", "SendPayload", "Idle"},
         Len(tc) = 0 \/ (Len(tc) = 1 /\ s.st = "Idle"), \A i \in 1..Len(tc) : tc[i].kind = "Sentinel",
         s.st = "Pull" => s.total = 0, s.st = "SendPayload" => ~Grants(s.scratch)
  PROVE  Rests(ts, tc, s, 1)
<1>1. Len(ts) + Len(tc) + Due(s) <= 1
  <2>1. s.st = "Idle" => Due(s) = 0
    BY DEF Due
  <2> QED BY <2>1, NoneOrOne, DueBound
<1>2. \A i \in 1..Len(tc) : ~Grants(tc[i])
  BY DEF Grants
<1>3. \A i \in 1..Len(ts) : FALSE
  OBVIOUS
<1> QED BY <1>1, <1>2, <1>3 DEF Rests

LEMMA AbortStops ==
  ASSUME NEW ts, NEW tc, NEW s, NEW e, Len(tc) \in Nat, Flows(tc, s, 0, e), Len(ts) = 1, ts[1].kind = "Status"
  PROVE  Stops(ts, tc, s)
<1>1. ASSUME NEW i \in 1..Len(tc)
      PROVE  /\ tc[i].kind \in {"Chunk", "Sentinel"}
             /\ tc[i].kind = "Sentinel" => i = Len(tc) /\ s.st = "Idle"
  <2>1. i \in 0 + 1..Len(tc)
    OBVIOUS
  <2> QED BY <2>1 DEF Flows
<1>2. ASSUME NEW i \in 1..Len(tc), tc[i].kind = "Sentinel"
      PROVE  /\ s.st # "Pull" /\ Len(tc) + Len(ts) + Due(s) <= i + 1
             /\ \A j \in i..Len(tc) : tc[j].kind = "Sentinel"
  <2>1. i = Len(tc) /\ s.st = "Idle" /\ Due(s) = 0
    BY <1>1, <1>2 DEF Due
  <2>2. \A j \in i..Len(tc) : j = i
    BY <2>1
  <2>3. Len(tc) + Len(ts) + Due(s) <= i + 1
    BY <2>1
  <2> QED BY <1>2, <2>1, <2>2, <2>3
<1>3. \A i \in 1..Len(ts) : i = 1
  OBVIOUS
<1>4. s.st \in {"Pull", "SendPayload", "Idle"} /\ (s.st = "SendPayload" => s.scratch.kind = "Sentinel")
  BY DEF Flows
<1> QED BY <1>1, <1>2, <1>3, <1>4 DEF Stops

LEMMA DiscardRests ==
  ASSUME NEW ts, NEW tc, NEW uc, NEW s, Len(ts) \in Nat, Len(tc) \in Nat, Len(uc) \in Nat, Takes(tc, uc), Stops(ts, tc, s),
         tc[1].kind = "Sentinel"
  PROVE  Rests(ts, uc, s, 1)
<1>1. 1 \in 1..Len(tc) /\ Len(uc) = Len(tc) - 1 /\ \A i \in 1..Len(uc) : uc[i] = tc[i + 1] /\ i + 1 \in 1..Len(tc)
  BY DEF Takes
<1>2. /\ s.st # "Pull" /\ Len(tc) + Len(ts) + Due(s) <= 1 + 1
      /\ \A j \in 1..Len(tc) : tc[j].kind = "Sentinel"
  BY <1>1 DEF Stops
<1>3. \A i \in 1..Len(uc) : uc[i].kind = "Sentinel" /\ ~Grants(uc[i])
  BY <1>1, <1>2 DEF Grants
<1>4. Len(ts) + Len(tc) + Due(s) <= 1 + 1
  BY <1>2, DueBound
<1>5. Len(ts) + Len(uc) + Due(s) <= 1
  BY <1>1, <1>4, OneLess, DueBound
<1>6. s.st = "SendPayload" => ~Grants(s.scratch)
  BY DEF Stops, Grants
<1>7. \A i \in 1..Len(ts) : ts[i].kind = "Status"
  BY DEF Stops
<1> QED BY <1>2, <1>3, <1>5, <1>6, <1>7 DEF Rests

LEMMA DiscardStops ==
  ASSUME NEW ts, NEW tc, NEW uc, NEW s, Len(ts) \in Nat, Len(tc) \in Nat, Len(uc) \in Nat, Takes(tc, uc), Stops(ts, tc, s)
  PROVE  Stops(ts, uc, s)
<1>1. Len(uc) = Len(tc) - 1 /\ \A i \in 1..Len(uc) : uc[i] = tc[i + 1] /\ i + 1 \in 1..Len(tc)
  BY DEF Takes
<1>2. ASSUME NEW i \in 1..Len(uc)
      PROVE  /\ uc[i].kind \in {"Chunk", "Sentinel"}
             /\ uc[i].kind = "Sentinel" =>
                   /\ s.st # "Pull" /\ Len(uc) + Len(ts) + Due(s) <= i + 1
                   /\ \A j \in i..Len(uc) : uc[j].kind = "Sentinel"
  <2>1. uc[i] = tc[i + 1] /\ i + 1 \in 1..Len(tc)
    BY <1>1
  <2>2. /\ tc[i + 1].kind \in {"Chunk", "Sentinel"}
        /\ tc[i + 1].kind = "Sentinel" =>
              /\ s.st # "Pull" /\ Len(tc) + Len(ts) + Due(s) <= (i + 1) + 1
              /\ \A j \in i + 1..Len(tc) : tc[j].kind = "Sentinel"
    BY <2>1 DEF Stops
  <2>3. Len(tc) + Len(ts) + Due(s) <= (i + 1) + 1 => Len(uc) + Len(ts) + Due(s) <= i + 1
    <3>1. Len(tc) + Len(ts) + Due(s) <= (i + 1) + 1 => Len(ts) + Len(tc) + Due(s) <= (i + 1) + 1
      BY DueBound
    <3>2. Len(ts) + Len(tc) + Due(s) <= (i + 1) + 1 => Len(ts) + Len(uc) + Due(s) <= i + 1
      BY <1>1, OneLess, DueBound
    <3>3. Len(ts) + Len(uc) + Due(s) <= i + 1 => Len(uc) + Len(ts) + Due(s) <= i + 1
      BY DueBound
    <3> QED BY <3>1, <3>2, <3>3
  <2>4. ASSUME NEW j \in i..Len(uc) PROVE uc[j] = tc[j + 1] /\ j + 1 \in i + 1..Len(tc)
    BY <1>1
  <2> QED BY <2>1, <2>2, <2>3, <2>4
<1> QED BY <1>2 DEF Stops

\* A client that has failed does nothing before it connects again.
LEMMA FailedOrder ==
  ASSUME NEW c \in Clients, Order(c), toServer'[c] = toServer[c], ctx'[c].state = "Error", call'[c].pc = "none",
         app'[c].data = app[c].data
  PROVE  OrderAfter(c)
<1>1. Written(toServer[c], ctx[c], call[c], app[c])
  BY DEF Order, Orderly
<1>2. Written(toServer'[c], ctx'[c], call'[c], app'[c])
  BY <1>1 DEF Written, Pushing
<1> QED BY <1>2 DEF OrderAfter, Orderly, Pulling, Pushing

LEMMA FlowsRead ==
  ASSUME NEW tc, NEW uc, Takes(tc, uc), Len(tc) \in Nat, NEW s, NEW e, NEW h \in {0, 1}, Flows(tc, s, h, e)
  PROVE  Flows(uc, s, 0, e)
<1>1. ASSUME NEW i \in 0 + 1..Len(uc)
      PROVE  /\ uc[i].kind \in {"Chunk", "Sentinel"}
             /\ uc[i].kind = "Chunk" => Len(e) # 0
             /\ uc[i].kind = "Sentinel" => i = Len(uc) /\ s.st = "Idle"
  <2>1. uc[i] = tc[i + 1] /\ i + 1 \in h + 1..Len(tc) /\ (i + 1 = Len(tc) => i = Len(uc))
    BY <1>1 DEF Takes
  <2> QED BY <2>1 DEF Flows
<1> QED BY <1>1 DEF Flows

LEMMA AskOrder ==
  ASSUME TInv, TInv', NEW c \in Clients, Before(c), Order(c), NEW id \in Ids, NEW size \in Nat, NEW type, NEW pc,
         (type = "Pull" /\ pc = "pullReply") \/ (type = "Push" /\ pc = "pushReply"), Ask(c, type, id, size, pc)
  PROVE  OrderAfter(c)
<1> DEFINE m == [Request(type, id, size) EXCEPT !.req = app[c].req + 1]
<1>0. id \in AllIds /\ app[c].req + 1 \in Nat /\ type \in {"Pull", "Push"}
  BY Typed DEF AllIds
<1>1. m \in MessageType /\ m.kind = "Request" /\ m.type = type
  BY <1>0, RequestType, StampedType
<1>2. /\ link[c] = "up" /\ call[c].pc = "none" /\ ctx[c].state = "Idle" /\ ctx'[c] = ctx[c]
      /\ Write(c, m) /\ toClient'[c] = toClient[c] /\ sess'[c] = sess[c]
  BY DEF Ask, Free, server
<1>3. call'[c].pc = pc
  BY FieldsAfter DEF Ask
<1>4. app'[c].op = type /\ app'[c].data = <<>>
  <2>1. app'[c] = [NewApp EXCEPT !.req = app[c].req + 1, !.op = type, !.size = size]
    BY DEF Ask, TInv, ClientTypes
  <2> QED BY <2>1 DEF NewApp
<1> HIDE DEF m
<1>5. NoPull(toServer[c], toClient[c], sess[c])
  BY <1>2 DEF Before, LocalInv, PullOK
<1>6. Rests(toServer[c], toClient[c], sess[c], 1) /\ Written(toServer[c], ctx[c], call[c], app[c])
  BY <1>2 DEF Order, Orderly
<1>7. Adds(toServer[c], toServer'[c], m)
  BY <1>1, <1>2, WritesOf
<1>8. Lens(toServer[c], toClient[c], toServer'[c], toClient'[c])
  BY LensOf
<1>9. Written(toServer'[c], ctx'[c], call'[c], app'[c])
  <2>1. \A i \in 1..Len(toServer'[c]) : toServer'[c][i].kind # "Sentinel"
    <3>1. ASSUME NEW i \in 1..Len(toServer'[c])
          PROVE  toServer'[c][i] = m \/ (i \in 1..Len(toServer[c]) /\ toServer'[c][i] = toServer[c][i])
      BY <1>7, <1>8, AddsKind DEF Lens
    <3>2. \A i \in 1..Len(toServer[c]) : toServer[c][i].kind # "Sentinel"
      BY <1>6 DEF Rests
    <3> QED BY <1>1, <3>1, <3>2
  <2> QED BY <1>2, <1>4, <2>1 DEF Written, Pushing
<1>10. CASE pc = "pullReply"
  <2>1. AsksPull(toServer'[c], toClient'[c], sess'[c], app'[c].expect)
    <3>1. \A i \in 1..Len(toServer'[c]) : IsPull(toServer'[c][i]) => i = Len(toServer'[c])
      BY <1>5, <1>7, <1>8 DEF NoPull, Adds, Lens
    <3>2. sess'[c].st # "StartPull" /\ (Len(toClient'[c]) # 0 => toClient'[c][1].kind # "Header")
      BY <1>2, <1>5, <1>8 DEF NoPull, Lens
    <3> QED BY <3>1, <3>2 DEF AsksPull
  <2> QED BY <1>2, <1>3, <1>9, <1>10, <2>1 DEF OrderAfter, Orderly, Pulling, Pushing
<1>11. CASE pc = "pushReply"
  <2>1. Rests(toServer'[c], toClient'[c], sess'[c], 2)
    <3>1. Len(toServer'[c]) + Len(toClient'[c]) + Due(sess'[c]) <= 2
      <4>1. Len(toServer'[c]) = Len(toServer[c]) + 1 /\ Len(toServer[c]) + Len(toClient[c]) + Due(sess[c]) <= 1
        BY <1>6, <1>7 DEF Rests, Adds
      <4>2. Len(toServer'[c]) + Len(toClient[c]) + Due(sess[c]) <= 2
        BY <1>8, <4>1, OneMore, DueBound DEF Lens
      <4> QED BY <1>2, <4>2
    <3>2. \A i \in 1..Len(toServer'[c]) : toServer'[c][i].kind \in {"Request", "Status"}
      <4>1. ASSUME NEW i \in 1..Len(toServer'[c])
            PROVE  toServer'[c][i] = m \/ (i \in 1..Len(toServer[c]) /\ toServer'[c][i] = toServer[c][i])
        BY <1>7, <1>8, AddsKind DEF Lens
      <4>2. \A i \in 1..Len(toServer[c]) : toServer[c][i].kind \in {"Request", "Status"}
        BY <1>6 DEF Rests
      <4> QED BY <1>1, <4>1, <4>2
    <3>3. ASSUME NEW i \in 1..Len(toClient[c]), Grants(toClient[c][i])
          PROVE  Granted(toServer'[c], toClient[c], sess[c], i)
      <4>1. Granted(toServer[c], toClient[c], sess[c], i) /\ Len(toServer[c]) + Len(toClient[c]) + Due(sess[c]) <= 1
        BY <1>6, <3>3 DEF Rests
      <4>2. Len(toClient[c]) = 1 /\ Due(sess[c]) = 0 /\ i = 1
        BY <1>8, <3>3, <4>1, OneLeft, DueBound DEF Lens
      <4> QED BY <4>1, <4>2 DEF Granted, Due
    <3> QED BY <1>2, <1>6, <3>1, <3>2, <3>3 DEF Rests
  <2> QED BY <1>2, <1>3, <1>9, <1>11, <2>1 DEF OrderAfter, Orderly, Pulling, Pushing
<1> QED BY <1>10, <1>11

LEMMA PullAnsweredOrder ==
  ASSUME TInv, TInv', NEW c \in Clients, Before(c), Order(c), PullAnswered(c)
  PROVE  OrderAfter(c)
<1>1. Read(c, "pullReply") /\ UNCHANGED <<toServer, link>> /\ sess' = sess /\ Return(c)
  BY DEF PullAnswered, server
<1>2. /\ link[c] = "up" /\ call[c].pc = "pullReply" /\ toServer'[c] = toServer[c]
      /\ Takes(toClient[c], toClient'[c]) /\ Answer(c) = toClient[c][1]
  BY <1>1, ReadsOf
<1>3. call'[c].pc = "none"
  BY <1>1, FieldsAfter
<1>4. CASE Answer(c).kind = "Header"
  <2>1. app' = app /\ ctx'[c].state = "TransferInProgress" /\ ctx'[c].crc = <<>>
    BY <1>4 DEF PullAnswered, TInv, ClientTypes, NewContext
  <2>2. app[c].op = "Pull"
    BY <1>2 DEF Before, LocalInv, CallOK
  <2>3. AsksPull(toServer[c], toClient[c], sess[c], app[c].expect) /\ Lens(toServer[c], toClient[c], toServer'[c], toClient'[c])
    BY <1>2, LensOf DEF Order, Orderly
  <2>4. Len(toServer[c]) = 0 /\ Flows(toClient[c], sess[c], 1, app[c].expect)
    BY <1>2, <1>4, <2>3 DEF AsksPull, Takes, Lens
  <2>5. Flows(toClient'[c], sess'[c], 0, app'[c].expect)
    BY <1>1, <1>2, <2>1, <2>3, <2>4, FlowsRead DEF Lens
  <2>6. Written(toServer'[c], ctx'[c], call'[c], app'[c])
    BY <1>2, <1>3, <2>1, <2>2, <2>4 DEF Written, Pushing
  <2> QED BY <1>2, <1>3, <2>1, <2>2, <2>4, <2>5, <2>6 DEF OrderAfter, Orderly, Reads, Pulling, Pushing
<1>5. CASE Answer(c).kind # "Header"
  <2>1. ctx' = [ctx EXCEPT ![c].state = "Error"] /\ Told(c, "failed")
    BY <1>5 DEF PullAnswered
  <2>2. ctx'[c].state = "Error" /\ app'[c].data = app[c].data
    BY <2>1, FieldsAfter
  <2> QED BY <1>2, <1>3, <2>2, FailedOrder
<1> QED BY <1>4, <1>5

\* A client that reads, and its session.
LEMMA ReadingOrder ==
  ASSUME TInv, NEW c \in Clients, Before(c), Order(c), link[c] = "up", Pulling(ctx[c], app[c]), call[c].pc # "aborting"
  PROVE  /\ Reads(toServer[c], toClient[c], sess[c], ctx[c], call[c], app[c].expect) /\ Pulled(ctx[c], call[c], app[c])
         /\ app[c].op = "Pull" /\ ctx[c].state = "TransferInProgress"
BY DEF Before, LocalInv, PullOK, Order, Orderly, Pulling

\* Such a client goes on reading.
LEMMA ReadsOn ==
  ASSUME NEW c \in Clients, Len(toServer'[c]) = 0, Pulling(ctx'[c], app'[c]), call'[c].pc \in {"none", "reading", "sentinel"},
         Reads(toServer'[c], toClient'[c], sess'[c], ctx'[c], call'[c], app'[c].expect)
  PROVE  OrderAfter(c)
BY DEF OrderAfter, Orderly, Pulling, Pushing, Written

\* The pull is over, and one answer is left at most.
LEMMA ReadsEnd ==
  ASSUME NEW c \in Clients, Rests(toServer'[c], toClient'[c], sess'[c], 1), ctx'[c].state = "Idle", call'[c].pc = "none"
  PROVE  OrderAfter(c)
BY DEF OrderAfter, Orderly, Pulling, Pushing, Written, Rests

LEMMA BeginReadOrder ==
  ASSUME TInv, TInv', NEW c \in Clients, Before(c), Order(c), NEW room, BeginRead(c, room)
  PROVE  OrderAfter(c)
<1>1. /\ link[c] = "up" /\ call[c].pc = "none" /\ Pulling(ctx[c], app[c])
      /\ toServer'[c] = toServer[c] /\ toClient'[c] = toClient[c] /\ sess'[c] = sess[c]
  BY DEF BeginRead, Free, server, wires, Pulling
<1>2. /\ Reads(toServer[c], toClient[c], sess[c], ctx[c], call[c], app[c].expect) /\ Pulled(ctx[c], call[c], app[c])
      /\ app[c].op = "Pull" /\ ctx[c].state = "TransferInProgress"
  BY <1>1, ReadingOrder
<1>3. Lens(toServer[c], toClient[c], toServer'[c], toClient'[c])
  BY LensOf
<1>4. CASE ctx[c].total = 0 /\ ctx[c].chunk = <<>>
  <2>1. ctx' = [ctx EXCEPT ![c].state = "Idle"] /\ call' = call
    BY <1>4 DEF BeginRead
  <2>2. ctx'[c].state = "Idle" /\ call'[c].pc = "none"
    <3>1. ctx'[c].state = "Idle"
      BY <2>1, FieldsAfter
    <3>2. call'[c].pc = "none"
      BY <1>1, <2>1
    <3> QED BY <3>1, <3>2
  <2>3. Rests(toServer[c], toClient[c], sess[c], 1)
    <3>1. CASE ctx[c].crc # <<>>
      <4>1. Len(toServer[c]) = 0 /\ Len(toClient[c]) = 0 /\ sess[c].st = "Idle"
        BY <1>1, <1>2, <1>4, <3>1 DEF Reads
      <4> QED BY <1>3, <4>1, LeftRests DEF Lens
    <3>2. CASE ctx[c].crc = <<>>
      <4>1. Len(app[c].expect) = 0
        BY <1>1, <1>2, <1>4, <3>2, EmptyData DEF Pulled
      <4>2. \A i \in 1..Len(toClient[c]) : toClient[c][i].kind = "Sentinel" /\ i = Len(toClient[c]) /\ sess[c].st = "Idle"
        BY <1>2, <4>1 DEF Reads, Flows
      <4>3. Len(toClient[c]) = 0 \/ (Len(toClient[c]) = 1 /\ sess[c].st = "Idle")
        <5>1. CASE Len(toClient[c]) # 0
          <6>1. 1 \in 1..Len(toClient[c])
            BY <1>3, <5>1 DEF Lens
          <6> QED BY <4>2, <6>1
        <5> QED BY <5>1
      <4>4. sess[c].st \in {"Pull", "SendPayload", "Idle"} /\ (sess[c].st = "Pull" => sess[c].total = 0)
            /\ (sess[c].st = "SendPayload" => ~Grants(sess[c].scratch)) /\ Len(toServer[c]) = 0
        BY <1>2, <4>1 DEF Reads, Flows, Grants
      <4> QED BY <1>3, <4>2, <4>3, <4>4, LeftRests DEF Lens
    <3> QED BY <3>1, <3>2
  <2> QED BY <1>1, <2>2, <2>3, ReadsEnd
<1>5. CASE ~(ctx[c].total = 0 /\ ctx[c].chunk = <<>>)
  <2>1. ctx' = ctx /\ app' = app /\ call'[c].pc = "reading"
    BY <1>5 DEF BeginRead, TInv, ClientTypes, NoCall
  <2>2. Reads(toServer'[c], toClient'[c], sess'[c], ctx'[c], call'[c], app'[c].expect)
    BY <1>1, <1>2, <2>1 DEF Reads
  <2> QED BY <1>1, <2>1, <2>2, ReadsOn DEF Reads
<1> QED BY <1>4, <1>5

LEMMA CopyOutOrder ==
  ASSUME TInv, TInv', NEW c \in Clients, Before(c), Order(c), CopyOut(c)
  PROVE  OrderAfter(c)
<1>1. PICK n \in 0..Len(ctx[c].chunk), x \in ContextType, y \in CallType, a \in AppType : CopiesOut(c, n, x, y, a)
  BY CopyOutCases
<1>2. /\ link[c] = "up" /\ call[c].pc = "reading" /\ ctx[c].chunk # <<>>
      /\ toServer'[c] = toServer[c] /\ toClient'[c] = toClient[c] /\ sess'[c] = sess[c]
      /\ ctx'[c] = x /\ call'[c] = y /\ app'[c] = a
      /\ a.expect = app[c].expect /\ a.op = app[c].op /\ x.total = ctx[c].total /\ x.crc = ctx[c].crc
  BY <1>1 DEF CopiesOut, server, TInv, ClientTypes
<1>3. Pulling(ctx[c], app[c])
  BY <1>2 DEF Before, LocalInv, CallOK
<1>4. /\ Reads(toServer[c], toClient[c], sess[c], ctx[c], call[c], app[c].expect) /\ Pulled(ctx[c], call[c], app[c])
      /\ app[c].op = "Pull" /\ ctx[c].state = "TransferInProgress"
  BY <1>2, <1>3, ReadingOrder
<1>5. CASE ctx[c].total = 0 /\ n = Len(ctx[c].chunk)
  <2>1. x.state = "Idle" /\ y.pc = "none"
    BY <1>1, <1>5 DEF CopiesOut
  <2>2. ctx[c].crc # <<>>
    <3>1. /\ app[c].data \in Seq(Datum) /\ ctx[c].chunk \in Seq(Datum)
          /\ app[c].data \o ctx[c].chunk = ctx[c].crc
      BY <1>4, Typed DEF Pulled
    <3>2. Len(ctx[c].crc) = Len(app[c].data) + Len(ctx[c].chunk) /\ Len(app[c].data) \in Nat /\ Len(ctx[c].chunk) \in Nat
      BY <3>1, ConcatProperties, LenProperties
    <3>3. Len(ctx[c].chunk) # 0
      BY <1>2, <3>1, EmptySeq
    <3>4. Len(ctx[c].crc) # 0
      BY <3>2, <3>3, SumNotZero
    <3> QED BY <3>4, EmptyData
  <2>3. Len(toServer[c]) = 0 /\ Len(toClient[c]) = 0 /\ sess[c].st = "Idle"
    BY <1>2, <1>4, <1>5, <2>2 DEF Reads
  <2>4. Rests(toServer'[c], toClient'[c], sess'[c], 1)
    BY <1>2, <2>3 DEF Rests, Due
  <2> QED BY <1>2, <2>1, <2>4, ReadsEnd
<1>6. CASE ~(ctx[c].total = 0 /\ n = Len(ctx[c].chunk))
  <2>1. x.state = ctx[c].state /\ y.pc \in {"none", "reading"}
    BY <1>1, <1>6 DEF CopiesOut
  <2>2. Reads(toServer'[c], toClient'[c], sess'[c], ctx'[c], call'[c], app'[c].expect)
    BY <1>2, <1>4, <2>1 DEF Reads
  <2> QED BY <1>2, <1>4, <2>1, <2>2, ReadsOn DEF Reads, Pulling
<1> QED BY <1>5, <1>6

LEMMA FetchOrder ==
  ASSUME TInv, TInv', NEW c \in Clients, Before(c), Order(c), Fetch(c)
  PROVE  OrderAfter(c)
<1>1. Read(c, "reading") /\ UNCHANGED <<toServer, link>> /\ sess' = sess
  BY FetchCases DEF server
<1>2. /\ link[c] = "up" /\ call[c].pc = "reading" /\ toServer'[c] = toServer[c]
      /\ Takes(toClient[c], toClient'[c])
  BY <1>1, ReadsOf
<1>3. CASE ctx' = [ctx EXCEPT ![c].state = "Error"] /\ Return(c) /\ Told(c, "failed")
  <2>1. ctx'[c].state = "Error" /\ app'[c].data = app[c].data /\ call'[c].pc = "none"
    BY <1>3, FieldsAfter
  <2> QED BY <1>2, <2>1, FailedOrder
<1>4. ASSUME NEW n \in Nat, NEW x \in ContextType, ctx' = [ctx EXCEPT ![c] = x], UNCHANGED app,
             x.state = ctx[c].state, x.total = ctx[c].total - n,
             IF n = ctx[c].total THEN Enter(c, "sentinel") ELSE UNCHANGED call
      PROVE  OrderAfter(c)
  <2>1. ctx'[c] = x /\ app'[c] = app[c] /\ call'[c].pc = IF n = ctx[c].total THEN "sentinel" ELSE "reading"
    <3>1. ctx'[c] = x /\ app'[c] = app[c]
      BY <1>4 DEF TInv, ClientTypes
    <3>2. CASE n = ctx[c].total
      BY <1>4, <3>1, <3>2, FieldsAfter
    <3>3. CASE n # ctx[c].total
      BY <1>2, <1>4, <3>1, <3>3
    <3> QED BY <3>2, <3>3
  <2>2. Pulling(ctx[c], app[c])
    BY <1>2 DEF Before, LocalInv, CallOK
  <2>3. /\ Reads(toServer[c], toClient[c], sess[c], ctx[c], call[c], app[c].expect)
        /\ app[c].op = "Pull" /\ ctx[c].state = "TransferInProgress"
    BY <1>2, <2>2, ReadingOrder
  <2>4. Flows(toClient'[c], sess'[c], 0, app'[c].expect)
    <3>1. Flows(toClient[c], sess[c], 0, app[c].expect) /\ Len(toClient[c]) \in Nat
      BY <2>3, LensOf DEF Reads, Lens
    <3> QED BY <1>1, <1>2, <2>1, <3>1, FlowsRead
  <2>5. call'[c].pc # "sentinel" => x.total # 0
    <3>1. ctx[c].total \in Nat
      BY Typed
    <3> QED BY <1>4, <2>1, <3>1
  <2>6. Reads(toServer'[c], toClient'[c], sess'[c], ctx'[c], call'[c], app'[c].expect)
    BY <1>2, <2>1, <2>3, <2>4, <2>5 DEF Reads
  <2> QED BY <1>4, <2>1, <2>3, <2>6, ReadsOn DEF Reads, Pulling
<1> QED BY <1>3, <1>4, FetchCases

LEMMA CheckSentinelOrder ==
  ASSUME TInv, TInv', NEW c \in Clients, Before(c), Order(c), CheckSentinel(c)
  PROVE  OrderAfter(c)
<1> DEFINE m == Answer(c)
           good == m.kind = "Sentinel" /\ m.result = "Success" /\ (Refactored => m.data = ctx[c].crc)
<1>1. Read(c, "sentinel") /\ UNCHANGED <<toServer, link>> /\ sess' = sess
  BY DEF CheckSentinel, server
<1>2. /\ link[c] = "up" /\ call[c].pc = "sentinel" /\ toServer'[c] = toServer[c]
      /\ Takes(toClient[c], toClient'[c]) /\ m = toClient[c][1] /\ 1 \in 1..Len(toClient[c])
  BY <1>1, ReadsOf
<1>3. CASE ~good
  <2>1. ctx' = [ctx EXCEPT ![c].state = "Error"] /\ Return(c) /\ Told(c, "failed")
    BY <1>3 DEF CheckSentinel
  <2>2. ctx'[c].state = "Error" /\ call'[c].pc = "none"
    BY <2>1, FieldsAfter
  <2>3. app'[c].data = app[c].data
    BY <2>1, FieldsAfter
  <2> QED BY <1>2, <2>2, <2>3, FailedOrder
<1>4. CASE good
  <2>1. ctx' = ctx /\ app' = app /\ Enter(c, "reading")
    BY <1>4 DEF CheckSentinel
  <2>2. call'[c].pc = "reading"
    BY <2>1, FieldsAfter
  <2>3. Pulling(ctx[c], app[c])
    BY <1>2 DEF Before, LocalInv, CallOK
  <2>4. Reads(toServer[c], toClient[c], sess[c], ctx[c], call[c], app[c].expect)
    BY <1>2, <2>3, ReadingOrder
  <2>5. Flows(toClient[c], sess[c], 0, app[c].expect) /\ Len(toClient[c]) \in Nat /\ Len(toServer[c]) = 0
    BY <2>4, LensOf DEF Reads, Lens
  <2>6. 1 = Len(toClient[c]) /\ sess[c].st = "Idle"
    <3>1. 1 \in 0 + 1..Len(toClient[c])
      BY <1>2
    <3>2. toClient[c][1].kind = "Sentinel"
      BY <1>2, <1>4
    <3> QED BY <2>5, <3>1, <3>2 DEF Flows
  <2>7. Len(toClient'[c]) = 0
    BY <1>2, <2>6 DEF Takes
  <2>8. Flows(toClient'[c], sess'[c], 0, app'[c].expect)
    BY <1>1, <1>2, <2>1, <2>5, FlowsRead
  <2>9. Reads(toServer'[c], toClient'[c], sess'[c], ctx'[c], call'[c], app'[c].expect)
    BY <1>1, <1>2, <2>5, <2>6, <2>7, <2>8 DEF Reads
  <2> QED BY <1>2, <2>1, <2>2, <2>3, <2>5, <2>9, ReadsOn
<1> QED BY <1>3, <1>4

LEMMA AbortOrder ==
  ASSUME TInv, TInv', NEW c \in Clients, Before(c), Order(c), AbortPullTransfer(c)
  PROVE  OrderAfter(c)
<1>1. /\ link[c] = "up" /\ call[c].pc = "none" /\ Pulling(ctx[c], app[c])
      /\ toClient'[c] = toClient[c] /\ sess'[c] = sess[c]
  BY DEF AbortPullTransfer, Free, server, Pulling
<1>2. CASE ctx[c].type # "Pull"
  <2>1. ctx' = [ctx EXCEPT ![c].state = "Error"] /\ Told(c, "failed") /\ call' = call /\ toServer' = toServer
    BY <1>2 DEF AbortPullTransfer
  <2>2. ctx'[c].state = "Error"
    BY <2>1, FieldsAfter
  <2>3. app'[c].data = app[c].data
    BY <2>1, FieldsAfter
  <2>4. call'[c].pc = "none" /\ toServer'[c] = toServer[c]
    BY <1>1, <2>1
  <2> QED BY <2>2, <2>3, <2>4, FailedOrder
<1>3. CASE ctx[c].type = "Pull"
  <2> DEFINE m == [Status("Aborted") EXCEPT !.req = app[c].req]
  <2>1. ctx' = ctx /\ app' = app /\ Enter(c, "aborting") /\ Write(c, m)
    BY <1>3 DEF AbortPullTransfer
  <2>2. m \in MessageType /\ m.kind = "Status"
    BY StatusType, Typed, StampedType DEF Results
  <2> HIDE DEF m
  <2>3. Adds(toServer[c], toServer'[c], m) /\ call'[c].pc = "aborting"
    BY <2>1, <2>2, WritesOf, FieldsAfter
  <2>4. /\ Reads(toServer[c], toClient[c], sess[c], ctx[c], call[c], app[c].expect)
        /\ app[c].op = "Pull" /\ ctx[c].state = "TransferInProgress"
    BY <1>1, ReadingOrder
  <2>5. /\ Flows(toClient[c], sess[c], 0, app[c].expect) /\ Len(toServer[c]) = 0
        /\ Lens(toServer[c], toClient[c], toServer'[c], toClient'[c])
    BY <2>4, LensOf DEF Reads
  <2>6. Len(toServer'[c]) = 1 /\ toServer'[c][1].kind = "Status"
    BY <2>2, <2>3, <2>5 DEF Adds
  <2>7. Stops(toServer'[c], toClient'[c], sess'[c])
    BY <1>1, <2>5, <2>6, AbortStops DEF Lens
  <2>8. Written(toServer'[c], ctx'[c], call'[c], app'[c])
    BY <2>1, <2>3, <2>4, <2>6 DEF Written, Pushing
  <2> QED BY <2>1, <2>3, <2>4, <2>7, <2>8 DEF OrderAfter, Orderly, Pulling, Pushing
<1> QED BY <1>2, <1>3

LEMMA DiscardOrder ==
  ASSUME TInv, TInv', NEW c \in Clients, Before(c), Order(c), Discard(c)
  PROVE  OrderAfter(c)
<1>1. Read(c, "aborting") /\ UNCHANGED <<toServer, link>> /\ sess' = sess /\ app' = app
  BY DEF Discard, server
<1>2. /\ link[c] = "up" /\ call[c].pc = "aborting" /\ toServer'[c] = toServer[c] /\ sess'[c] = sess[c]
      /\ Takes(toClient[c], toClient'[c]) /\ Answer(c) = toClient[c][1] /\ 1 \in 1..Len(toClient[c])
  BY <1>1, ReadsOf
<1>3. Stops(toServer[c], toClient[c], sess[c]) /\ Written(toServer[c], ctx[c], call[c], app[c])
  BY <1>2 DEF Order, Orderly
<1>4. Lens(toServer[c], toClient[c], toServer'[c], toClient'[c])
  BY LensOf
<1>5. CASE Answer(c).kind = "Sentinel"
  <2>1. ctx' = [ctx EXCEPT ![c].state = "Idle"] /\ Return(c)
    BY <1>5 DEF Discard
  <2>2. ctx'[c].state = "Idle" /\ call'[c].pc = "none"
    BY <2>1, FieldsAfter
  <2>3. Rests(toServer[c], toClient'[c], sess[c], 1)
    BY <1>2, <1>3, <1>4, <1>5, DiscardRests DEF Lens
  <2>4. Rests(toServer'[c], toClient'[c], sess'[c], 1)
    BY <1>2, <2>3
  <2> QED BY <2>2, <2>4, ReadsEnd
<1>6. CASE Answer(c).kind # "Sentinel"
  <2>1. ctx' = ctx /\ call' = call
    BY <1>6 DEF Discard
  <2>2. Stops(toServer'[c], toClient'[c], sess'[c])
    <3>1. Stops(toServer[c], toClient'[c], sess[c])
      BY <1>2, <1>3, <1>4, <1>6, DiscardStops DEF Lens
    <3> QED BY <1>2, <3>1
  <2>3. Pulling(ctx[c], app[c])
    BY <1>2 DEF Before, LocalInv, CallOK
  <2>4. ctx'[c].state = "TransferInProgress" /\ app'[c].op = "Pull" /\ call'[c].pc = "aborting"
    BY <1>1, <1>2, <2>1, <2>3 DEF Pulling
  <2>5. Written(toServer'[c], ctx'[c], call'[c], app'[c])
    BY <1>1, <1>2, <1>3, <2>1
  <2> QED BY <2>2, <2>4, <2>5 DEF OrderAfter, Orderly, Pulling, Pushing
<1> QED BY <1>5, <1>6

LEMMA PushAnsweredOrder ==
  ASSUME TInv, TInv', NEW c \in Clients, Before(c), Order(c), PushAnswered(c)
  PROVE  OrderAfter(c)
<1>1. Read(c, "pushReply") /\ UNCHANGED <<toServer, link>> /\ sess' = sess /\ Return(c)
  BY DEF PushAnswered, server
<1>2. /\ link[c] = "up" /\ call[c].pc = "pushReply" /\ toServer'[c] = toServer[c] /\ sess'[c] = sess[c]
      /\ Takes(toClient[c], toClient'[c]) /\ Answer(c) = toClient[c][1] /\ 1 \in 1..Len(toClient[c])
  BY <1>1, ReadsOf
<1>3. call'[c].pc = "none"
  BY <1>1, FieldsAfter
<1>4. app[c].op = "Push" /\ ctx[c].state = "Idle"
  BY <1>2 DEF Before, LocalInv, CallOK
<1>5. /\ Rests(toServer[c], toClient[c], sess[c], 2) /\ app[c].data = <<>>
      /\ Lens(toServer[c], toClient[c], toServer'[c], toClient'[c])
  BY <1>2, LensOf DEF Order, Orderly, Written
<1>6. \A i \in 1..Len(toServer'[c]) : toServer'[c][i].kind # "Sentinel"
  BY <1>2, <1>5 DEF Rests
<1>7. CASE Answer(c).kind = "Status" /\ Answer(c).result = "Success"
  <2>1. app' = app /\ ctx'[c].state = "TransferInProgress" /\ ctx'[c].crc = <<>>
    BY <1>7 DEF PushAnswered, TInv, ClientTypes, NewContext
  <2>2. Granted(toServer[c], toClient[c], sess[c], 1)
    BY <1>2, <1>5, <1>7 DEF Rests, Grants
  <2>3. sess[c].st = "Push" => Len(toClient'[c]) = 0 /\ Len(toServer[c]) <= 1
    <3> SUFFICES ASSUME sess[c].st = "Push" PROVE Len(toClient'[c]) = 0 /\ Len(toServer[c]) <= 1
      OBVIOUS
    <3>1. Len(toClient[c]) = 1
      BY <2>2 DEF Granted
    <3>2. Len(toServer[c]) + Len(toClient[c]) + Due(sess[c]) <= 2
      BY <1>5 DEF Rests
    <3>3. Len(toClient'[c]) = 0
      BY <1>2, <3>1, LastTaken
    <3>4. Len(toServer[c]) <= 1
      BY <1>5, <3>1, <3>2, LastOf, DueBound DEF Lens
    <3> QED BY <3>3, <3>4
  <2>4. sess[c].st # "Push" => Len(toServer[c]) = 0 /\ \A j \in 1..Len(toClient'[c]) : ~Grants(toClient'[c][j])
    <3> SUFFICES ASSUME sess[c].st # "Push" PROVE Len(toServer[c]) = 0 /\ \A j \in 1..Len(toClient'[c]) : ~Grants(toClient'[c][j])
      OBVIOUS
    <3>1. Len(toServer[c]) = 0 /\ \A j \in 1..Len(toClient[c]) : Grants(toClient[c][j]) => j = 1
      BY <2>2 DEF Granted
    <3>2. \A j \in 1..Len(toClient'[c]) : toClient'[c][j] = toClient[c][j + 1] /\ j + 1 \in 1..Len(toClient[c]) /\ j + 1 # 1
      BY <1>2, <1>5 DEF Takes, Lens
    <3> QED BY <3>1, <3>2
  <2>5. Clean(toServer'[c], toClient'[c], sess'[c])
    BY <1>2, <1>5, <2>2, <2>3, <2>4 DEF Clean, Granted, Rests, Lens
  <2>6. Written(toServer'[c], ctx'[c], call'[c], app'[c])
    BY <1>3, <1>5, <1>6, <2>1 DEF Written
  <2> QED BY <1>3, <1>4, <2>1, <2>5, <2>6 DEF OrderAfter, Orderly, Pulling, Pushing, Pushes
<1>8. CASE ~(Answer(c).kind = "Status" /\ Answer(c).result = "Success")
  <2>1. ctx' = ctx
    BY <1>8 DEF PushAnswered
  <2>2. Rests(toServer'[c], toClient'[c], sess'[c], 1)
    <3>1. Len(toServer'[c]) + Len(toClient'[c]) + Due(sess'[c]) <= 1
      <4>1. Len(toClient'[c]) = Len(toClient[c]) - 1 /\ Len(toServer[c]) + Len(toClient[c]) + Due(sess[c]) <= 2
        BY <1>2, <1>5 DEF Takes, Rests
      <4>2. Len(toServer[c]) + Len(toClient'[c]) + Due(sess[c]) <= 1
        BY <1>5, <4>1, OneOfTwo, DueBound DEF Lens
      <4> QED BY <1>2, <4>2
    <3>2. \A i \in 1..Len(toClient'[c]) : toClient'[c][i] = toClient[c][i + 1] /\ i + 1 \in 1..Len(toClient[c])
      BY <1>2, <1>5 DEF Takes, Lens
    <3>3. ASSUME NEW i \in 1..Len(toClient'[c]), Grants(toClient'[c][i])
          PROVE  Granted(toServer'[c], toClient'[c], sess'[c], i)
      <4>1. Granted(toServer[c], toClient[c], sess[c], i + 1)
        BY <1>5, <3>2, <3>3 DEF Rests
      <4>2. \A j \in 1..Len(toClient'[c]) : Grants(toClient'[c][j]) /\ sess[c].st # "Push" => j = i
        <5> SUFFICES ASSUME NEW j \in 1..Len(toClient'[c]), Grants(toClient'[c][j]), sess[c].st # "Push" PROVE j = i
          OBVIOUS
        <5>1. j + 1 = i + 1
          BY <3>2, <4>1 DEF Granted
        <5> QED BY <5>1
      <4> QED BY <1>2, <1>5, <3>3, <4>1, <4>2 DEF Granted, Takes, Lens
    <3> QED BY <1>2, <1>5, <3>1, <3>2, <3>3 DEF Rests
  <2>3. ctx'[c].state = "Idle"
    BY <1>4, <2>1
  <2> QED BY <1>3, <2>2, <2>3, ReadsEnd
<1> QED BY <1>7, <1>8

\* A push in progress, and its session.
LEMMA PushingOrder ==
  ASSUME TInv, NEW c \in Clients, Order(c), Pushing(ctx[c], app[c])
  PROVE  /\ ctx[c].state = "TransferInProgress" /\ app[c].op = "Push" /\ ctx[c].crc = app[c].data
         /\ Pushes(toServer[c], toClient[c], sess[c], call[c])
         /\ \A i \in 1..Len(toServer[c]) : toServer[c][i].kind = "Sentinel" =>
               /\ i = Len(toServer[c]) /\ call[c].pc = "closeReply"
               /\ toServer[c][i].result = "Success" => toServer[c][i].data = app[c].data
BY DEF Order, Orderly, Written, Pushing

LEMMA WritePushOrder ==
  ASSUME TInv, TInv', NEW c \in Clients, Order(c), NEW n \in 1..Chunk, WritePushTransferData(c, n)
  PROVE  OrderAfter(c)
<1>1. /\ call[c].pc = "none" /\ app[c].op = "Push" /\ call'[c].pc = "writing"
      /\ ctx[c].state = "TransferInProgress"
      /\ toServer'[c] = toServer[c] /\ toClient'[c] = toClient[c] /\ sess'[c] = sess[c]
  BY DEF WritePushTransferData, Free, server, wires, TInv, ClientTypes, NoCall
<1>2. /\ ctx[c].crc = app[c].data /\ Pushes(toServer[c], toClient[c], sess[c], call[c])
      /\ \A i \in 1..Len(toServer[c]) : toServer[c][i].kind # "Sentinel"
  BY <1>1, PushingOrder DEF Pushing
<1>3. app'[c].op = "Push" /\ ctx'[c].state = "TransferInProgress" /\ ctx'[c].crc = app'[c].data
  <2> DEFINE data == [i \in 1..n |-> <<c, Len(app[c].data) + i>>]
  <2>1. ctx[c] \in ContextType /\ app[c] \in AppType /\ ctx \in [Clients -> ContextType] /\ app \in [Clients -> AppType]
    BY Typed DEF TInv, ClientTypes
  <2>2. app' = [app EXCEPT ![c].data = @ \o data] /\ ctx' = [ctx EXCEPT ![c].crc = @ \o data]
    BY DEF WritePushTransferData
  <2> HIDE DEF data
  <2> QED BY <1>1, <1>2, <2>1, <2>2 DEF ContextType, AppType
<1>4. Written(toServer'[c], ctx'[c], call'[c], app'[c])
  BY <1>1, <1>2, <1>3 DEF Written
<1>5. Pushes(toServer'[c], toClient'[c], sess'[c], call'[c])
  BY <1>1, <1>2 DEF Pushes
<1> QED BY <1>1, <1>3, <1>4, <1>5 DEF OrderAfter, Orderly, Pulling, Pushing

LEMMA ChunkSentOrder ==
  ASSUME TInv, TInv', NEW c \in Clients, Order(c), ChunkSent(c)
  PROVE  OrderAfter(c)
<1> DEFINE m == [NewMessage EXCEPT !.kind = "Chunk", !.data = call[c].data, !.req = app[c].req]
<1>1. /\ call[c].pc = "writing" /\ Write(c, m) /\ Return(c) /\ app' = app /\ ctx' = ctx
      /\ toClient'[c] = toClient[c] /\ sess'[c] = sess[c]
  BY DEF ChunkSent, Waits, server
<1>2. m \in MessageType /\ m.kind = "Chunk"
  BY NewMessageType, Typed DEF MessageType
<1> HIDE DEF m
<1>3. Adds(toServer[c], toServer'[c], m) /\ call'[c].pc = "none" /\ Lens(toServer[c], toClient[c], toServer'[c], toClient'[c])
  BY <1>1, <1>2, WritesOf, FieldsAfter, LensOf
<1>4. Pushing(ctx[c], app[c])
  BY <1>1 DEF Order, Orderly
<1>5. /\ ctx[c].state = "TransferInProgress" /\ app[c].op = "Push" /\ ctx[c].crc = app[c].data
      /\ Pushes(toServer[c], toClient[c], sess[c], call[c])
      /\ \A i \in 1..Len(toServer[c]) : toServer[c][i].kind # "Sentinel"
  BY <1>1, <1>4, PushingOrder
<1>6. Clean(toServer[c], toClient[c], sess[c])
  BY <1>1, <1>5 DEF Pushes
<1>7. Clean(toServer'[c], toClient'[c], sess'[c])
  BY <1>1, <1>2, <1>3, <1>6 DEF Clean, Adds, Lens
<1>8. Written(toServer'[c], ctx'[c], call'[c], app'[c])
  BY <1>1, <1>2, <1>3, <1>5 DEF Written, Adds, Lens
<1> QED BY <1>1, <1>3, <1>5, <1>7, <1>8 DEF OrderAfter, Orderly, Pulling, Pushing, Pushes

LEMMA ClosePushOrder ==
  ASSUME TInv, TInv', NEW c \in Clients, Order(c), NEW discard \in BOOLEAN, ClosePushTransfer(c, discard)
  PROVE  OrderAfter(c)
<1> DEFINE r == IF discard THEN "Aborted" ELSE "Success"
           m == [Sentinel(r, ctx[c].crc) EXCEPT !.req = app[c].req]
<1>1. /\ call[c].pc = "none" /\ app[c].op = "Push" /\ Enter(c, "closeReply") /\ ctx[c].state = "TransferInProgress"
      /\ toClient'[c] = toClient[c] /\ sess'[c] = sess[c] /\ Write(c, m) /\ ctx' = ctx /\ app' = app
  BY DEF ClosePushTransfer, Free, server
<1>2. r \in Results
  BY DEF Results
<1> HIDE DEF r
<1>3. m \in MessageType /\ m.kind = "Sentinel" /\ m.data = ctx[c].crc
  BY <1>2, Typed, SentinelType, StampedType
<1> HIDE DEF m
<1>4. Adds(toServer[c], toServer'[c], m) /\ call'[c].pc = "closeReply" /\ Lens(toServer[c], toClient[c], toServer'[c], toClient'[c])
  BY <1>1, <1>3, WritesOf, FieldsAfter, LensOf
<1>5. /\ ctx[c].crc = app[c].data /\ Pushes(toServer[c], toClient[c], sess[c], call[c])
      /\ \A i \in 1..Len(toServer[c]) : toServer[c][i].kind # "Sentinel"
  BY <1>1, PushingOrder DEF Pushing
<1>6. Clean(toServer[c], toClient[c], sess[c])
  BY <1>1, <1>5 DEF Pushes
<1>7. Clean(toServer'[c], toClient'[c], sess'[c])
  BY <1>1, <1>3, <1>4, <1>6 DEF Clean, Adds, Lens
<1>8. HasSentinel(toServer'[c])
  <2>1. Len(toServer'[c]) \in 1..Len(toServer'[c]) /\ toServer'[c][Len(toServer'[c])] = m
    BY <1>4 DEF Adds, Lens
  <2> QED BY <1>3, <2>1 DEF HasSentinel
<1>9. Written(toServer'[c], ctx'[c], call'[c], app'[c])
  <2>1. ASSUME NEW i \in 1..Len(toServer'[c]), toServer'[c][i].kind = "Sentinel"
        PROVE  i = Len(toServer'[c]) /\ toServer'[c][i] = m
    BY <1>4, <1>5, <2>1 DEF Adds, Lens
  <2> QED BY <1>1, <1>3, <1>4, <1>5, <2>1 DEF Written
<1> QED BY <1>1, <1>4, <1>7, <1>8, <1>9 DEF OrderAfter, Orderly, Pulling, Pushing, Pushes

LEMMA CloseAnsweredOrder ==
  ASSUME TInv, TInv', NEW c \in Clients, Order(c), CloseAnswered(c)
  PROVE  OrderAfter(c)
<1>1. Read(c, "closeReply") /\ UNCHANGED <<toServer, link>> /\ sess' = sess /\ Return(c)
  BY DEF CloseAnswered, server
<1>2. /\ call[c].pc = "closeReply" /\ toServer'[c] = toServer[c] /\ sess'[c] = sess[c] /\ call'[c].pc = "none"
      /\ Takes(toClient[c], toClient'[c]) /\ Answer(c) = toClient[c][1] /\ 1 \in 1..Len(toClient[c])
  BY <1>1, ReadsOf, FieldsAfter
<1>3. Pushing(ctx[c], app[c]) /\ Pushes(toServer[c], toClient[c], sess[c], call[c])
  BY <1>2 DEF Order, Orderly
<1>4. CASE Grants(Answer(c))
  <2>1. ctx' = [ctx EXCEPT ![c].state = "Idle"]
    BY <1>4 DEF CloseAnswered, Grants
  <2>2. ctx'[c].state = "Idle"
    BY <2>1, FieldsAfter
  <2>3. Closed(toServer[c], toClient[c], sess[c])
    BY <1>2, <1>3, <1>4 DEF Pushes, Clean
  <2>4. Len(toServer[c]) = 0 /\ Len(toClient[c]) = 1 /\ sess[c].st = "Idle"
    BY <1>2, <1>4, <2>3 DEF Closed
  <2>5. Len(toClient'[c]) = 0
    BY <1>2, <2>4 DEF Takes
  <2>6. Rests(toServer'[c], toClient'[c], sess'[c], 1)
    BY <1>2, <2>4, <2>5 DEF Rests, Due
  <2> QED BY <1>2, <2>2, <2>6, ReadsEnd
<1>5. CASE ~Grants(Answer(c))
  <2>1. ctx' = [ctx EXCEPT ![c].state = "Error"] /\ Told(c, "failed")
    BY <1>5 DEF CloseAnswered, Grants
  <2>2. ctx'[c].state = "Error"
    BY <2>1, FieldsAfter
  <2>3. app'[c].data = app[c].data
    BY <2>1, FieldsAfter
  <2> QED BY <1>2, <2>2, <2>3, FailedOrder
<1> QED BY <1>4, <1>5

LEMMA ConnectOrder ==
  ASSUME TInv, NEW c \in Clients, Before(c), Connect(c)
  PROVE  OrderAfter(c)
<1>1. link[c] = "down" /\ UNCHANGED <<toServer, toClient, sess, ctx, call, app>>
  BY DEF Connect, server, wires, client
<1>2. toServer[c] = <<>> /\ toClient[c] = <<>> /\ sess[c] = NewSession /\ ctx[c] = NewContext /\ call[c] = NoCall
  BY <1>1 DEF Before, LocalInv, CallOK
<1>3. NewContext.state = "Idle" /\ NoCall.pc = "none" /\ NewSession.st = "Idle"
  BY DEF NewContext, NoCall, NewSession
<1>4. Rests(toServer'[c], toClient'[c], sess'[c], 1)
  BY <1>1, <1>2, <1>3, EmptyData DEF Rests, Due
<1> QED BY <1>1, <1>2, <1>3, <1>4, ReadsEnd

\* No client gives up waiting.
LEMMA ClientOrder ==
  ASSUME ~TimeOuts, TInv, TInv', NEW c \in Clients, Before(c), link[c] = "up" => Order(c), ClientAction(c), link'[c] = "up"
  PROVE  OrderAfter(c)
<1>1. CASE link[c] # "up"
  <2>1. \A pc : ~Waits(c, pc) /\ ~Read(c, pc) /\ ~Free(c)
    BY <1>1 DEF Read, Waits, Free
  <2>2. ~PullAnswered(c) /\ ~Fetch(c) /\ ~CheckSentinel(c) /\ ~Discard(c) /\ ~PushAnswered(c) /\ ~CloseAnswered(c)
    BY <2>1 DEF PullAnswered, Fetch, CheckSentinel, Discard, PushAnswered, CloseAnswered
  <2>3. ~CopyOut(c) /\ ~ChunkSent(c) /\ ~ChunkNotReady(c)
    BY <2>1 DEF CopyOut, ChunkSent, ChunkNotReady
  <2>4. ~GiveUp(c) /\ ~Disconnect(c) /\ ~AbortPullTransfer(c)
    BY <1>1, <2>1 DEF GiveUp, Disconnect, AbortPullTransfer
  <2>5. /\ \A room : ~BeginRead(c, room)
        /\ \A n : ~WritePushTransferData(c, n)
        /\ \A discard : ~ClosePushTransfer(c, discard)
    BY <2>1 DEF BeginRead, WritePushTransferData, ClosePushTransfer
  <2>6. \A id, size : ~RequestPullTransfer(c, id) /\ ~RequestPushTransfer(c, id, size)
    BY <2>1 DEF RequestPullTransfer, RequestPushTransfer, Ask
  <2>7. Connect(c)
    BY <2>2, <2>3, <2>4, <2>5, <2>6 DEF ClientAction, ClientStep
  <2> QED BY <2>7, ConnectOrder
<1>2. CASE link[c] = "up"
  <2>0. Order(c)
    BY <1>2
  <2>1. CASE ClientStep(c)
    BY <2>0, <2>1, PullAnsweredOrder, CopyOutOrder, FetchOrder, CheckSentinelOrder, DiscardOrder, PushAnsweredOrder,
       ChunkSentOrder, CloseAnsweredOrder DEF ClientStep
  <2>2. ~ChunkNotReady(c) /\ ~GiveUp(c) /\ ~Connect(c) /\ ~Disconnect(c)
    <3>1. ~ChunkNotReady(c) /\ ~GiveUp(c)
      BY DEF ChunkNotReady, GiveUp
    <3>2. ~Connect(c)
      BY <1>2 DEF Connect
    <3>3. ~Disconnect(c)
      BY DEF Disconnect, TInv, WireTypes
    <3> QED BY <3>1, <3>2, <3>3
  <2>3. CASE AbortPullTransfer(c)
    BY <2>0, <2>3, AbortOrder
  <2>4. CASE \E room \in {1, Chunk + 1} : BeginRead(c, room)
    BY <2>0, <2>4, BeginReadOrder
  <2>5. CASE \E n \in 1..Chunk : WritePushTransferData(c, n)
    BY <2>0, <2>5, WritePushOrder
  <2>6. CASE \E discard \in BOOLEAN : ClosePushTransfer(c, discard)
    BY <2>0, <2>6, ClosePushOrder
  <2>7. ASSUME NEW id \in Ids, RequestPullTransfer(c, id) PROVE OrderAfter(c)
    <3>1. Ask(c, "Pull", id, 0, "pullReply")
      BY <2>7 DEF RequestPullTransfer
    <3> QED BY <2>0, <3>1, AskOrder
  <2>8. ASSUME NEW id \in Ids, NEW size \in PushSizes, RequestPushTransfer(c, id, size) PROVE OrderAfter(c)
    <3> DEFINE z == size % Width
    <3>1. Ask(c, "Push", id, z, "pushReply") /\ z \in Nat
      BY <2>8, TransferAssumption DEF RequestPushTransfer
    <3> HIDE DEF z
    <3> QED BY <2>0, <3>1, AskOrder
  <2> QED BY <2>1, <2>2, <2>3, <2>4, <2>5, <2>6, <2>7, <2>8 DEF ClientAction
<1> QED BY <1>1, <1>2

LEMMA OrderKept ==
  ASSUME ~TimeOuts, TInv, TInv', PInv, PushInv, [Next]_vars, NEW d \in Clients, link'[d] = "up"
  PROVE  OrderAfter(d)
<1>0. Before(d) /\ Prepared(sess[d]) /\ (link[d] = "up" => Order(d))
  BY DEF PInv, Before, PushInv, Order
<1>1. ASSUME /\ toServer'[d] = toServer[d] /\ toClient'[d] = toClient[d] /\ sess'[d] = sess[d] /\ ctx'[d] = ctx[d]
             /\ call'[d] = call[d] /\ app'[d] = app[d] /\ link'[d] = link[d]
      PROVE  OrderAfter(d)
  BY <1>0, <1>1 DEF Order, OrderAfter
<1>2. CASE UNCHANGED vars
  BY <1>1, <1>2 DEF vars
<1>3. CASE \E b \in Blocks : OpenServerBlock(b) \/ WriteAndClose(b) \/ CloseServerBlock(b)
  BY <1>1, <1>3, BlockSteps
<1>4. ASSUME NEW c \in Clients, UpdateSession(c) PROVE OrderAfter(d)
  <2>1. Updated(c) /\ Prepared(sess[c])
    BY <1>4, UpdateCases DEF PInv
  <2>2. link[c] = "up" /\ ctx' = ctx /\ call' = call /\ link' = link
    BY <2>1 DEF Updated
  <2>3. CASE d = c
    <3>1. Moved(d) /\ Expects(d)
      BY <1>4, <2>1, <2>3, UpdateMoves
    <3>2. PICK w : Moves(toServer[d], toClient[d], sess[d], toServer'[d], toClient'[d], sess'[d], w)
      BY <3>1 DEF Moved
    <3>3. Lens(toServer[d], toClient[d], toServer'[d], toClient'[d]) /\ Order(d)
      BY <1>0, <2>2, <2>3, LensOf
    <3>4. /\ call[d].pc = "pushReply" => ctx[d].state = "Idle"
          /\ ctx[d].state # "Error" /\ call[d].pc # "pullReply" => NoPull(toServer[d], toClient[d], sess[d])
      BY <1>0, <2>2, <2>3 DEF Before, LocalInv, CallOK, PullOK
    <3> DEFINE ts == toServer[d]
               tc == toClient[d]
               s == sess[d]
               us == toServer'[d]
               uc == toClient'[d]
               t == sess'[d]
               x == ctx[d]
               k == call[d]
               a == app[d]
               b == app'[d]
    <3>5. /\ Lens(ts, tc, us, uc) /\ Moves(ts, tc, s, us, uc, t, w) /\ b.data = a.data /\ b.op = a.op
          /\ IF t.st = "StartPull" THEN t.total = Len(b.expect) ELSE b.expect = a.expect
          /\ k.pc = "pushReply" => x.state = "Idle"
          /\ x.state # "Error" /\ k.pc # "pullReply" => NoPull(ts, tc, s)
          /\ Orderly(ts, tc, s, x, k, a)
      BY <3>1, <3>2, <3>3, <3>4 DEF Expects, Order
    <3> HIDE DEF ts, tc, s, us, uc, t, x, k, a, b
    <3>6. Orderly(us, uc, t, x, k, b)
      BY <3>5, MoveOrderly
    <3> QED BY <2>2, <3>6 DEF us, uc, t, x, k, b, OrderAfter
  <2>4. CASE d # c
    <3>1. toServer'[d] = toServer[d] /\ toClient'[d] = toClient[d] /\ sess'[d] = sess[d] /\ app'[d] = app[d]
      BY <2>1, <2>4, UpdateReduces
    <3> QED BY <1>1, <2>2, <3>1
  <2> QED BY <2>3, <2>4
<1>5. ASSUME NEW c \in Clients, SessionTerminated(c) PROVE OrderAfter(d)
  <2>1. d # c
    BY <1>5 DEF SessionTerminated, TInv, WireTypes
  <2>2. toServer'[d] = toServer[d] /\ toClient'[d] = toClient[d] /\ sess'[d] = sess[d] /\ link'[d] = link[d]
    BY <1>5, <2>1 DEF SessionTerminated, TInv, WireTypes, ServerTypes
  <2>3. ctx' = ctx /\ call' = call /\ app' = app
    BY <1>5 DEF SessionTerminated, client
  <2> QED BY <1>1, <2>2, <2>3
<1>6. ASSUME NEW c \in Clients, ClientAction(c) PROVE OrderAfter(d)
  <2>1. sess' = sess
    BY <1>6, ClientAlone
  <2>2. CASE d = c
    BY <1>0, <1>6, <2>2, ClientOrder
  <2>3. CASE d # c
    BY <1>1, <1>6, <2>1, <2>3, OthersAlone
  <2> QED BY <2>2, <2>3
<1> QED BY <1>2, <1>3, <1>4, <1>5, <1>6, NextCases

\* A push that ends with Success has found the CRC of its sentinel in the block.
LEMMA StoredStep ==
  ASSUME TInv, PInv, PushInv, [Next]_vars, NEW c \in Clients, sess[c].st = "Push", sess'[c].st # "Push",
         sess'[c].scratch.result = "Success", link'[c] = "up"
  PROVE  block'[sess[c].block].closed /\ block'[sess[c].block].data = app[c].data
<1>1. ReceivePush(c)
  <2>1. CASE UNCHANGED vars \/ \E b \in Blocks : OpenServerBlock(b) \/ WriteAndClose(b) \/ CloseServerBlock(b)
    <3>1. CASE UNCHANGED vars
      BY <3>1 DEF vars
    <3>2. CASE \E b \in Blocks : OpenServerBlock(b) \/ WriteAndClose(b) \/ CloseServerBlock(b)
      <4>1. UNCHANGED sess
        BY <3>2, BlockSteps
      <4> QED BY <4>1
    <3> QED BY <2>1, <3>1, <3>2
  <2>2. ASSUME NEW d \in Clients, UpdateSession(d) PROVE ReceivePush(c)
    <3>1. Updated(d) /\ Prepared(sess[d])
      BY <2>2, UpdateCases DEF PInv
    <3>2. d = c
      BY <3>1, UpdateReduces
    <3> QED BY <2>2, <3>2 DEF UpdateSession, ProcessRequest, ProcessLateAbort, ProcessUnreachable, Start, SendChunk,
                  StopPull, SendPayload, Receive, Serving
  <2>3. ASSUME NEW d \in Clients, SessionTerminated(d) PROVE ReceivePush(c)
    BY <2>3 DEF SessionTerminated, TInv, WireTypes, ServerTypes
  <2>4. ASSUME NEW d \in Clients, ClientAction(d) PROVE ReceivePush(c)
    BY <2>4, ClientAlone
  <2> QED BY <2>1, <2>2, <2>3, <2>4, NextCases
<1>2. PICK result \in Results :
         /\ SendScratch(c, [sess[c] EXCEPT !.block = None], Status(result)) /\ (result = "Success" => Finalizes(c))
  BY <1>1, PushReceives
<1>3. sess'[c].scratch = Status(result)
  BY <1>2 DEF SendScratch, TInv, ServerTypes, SessionType
<1>4. Finalizes(c)
  BY <1>2, <1>3, StatusType
<1>5. link[c] = "up" /\ Received(c) = toServer[c][1] /\ Takes(toServer[c], toServer'[c])
  BY <1>1, ReceivePushCases, TakesOf
<1>6. 1 \in 1..Len(toServer[c])
  <2>1. toServer[c] \in Seq(MessageType) /\ Len(toServer[c]) \in Nat
    BY Typed, LenProperties
  <2> QED BY <1>5, <2>1 DEF Takes
<1>7. Written(toServer[c], ctx[c], call[c], app[c])
  BY <1>5 DEF PushInv, Orderly
<1>8. Received(c).data = app[c].data
  BY <1>4, <1>5, <1>6, <1>7 DEF Written, Finalizes
<1> QED BY <1>4, <1>8 DEF Finalizes

(***************************************************************************)
(* PushedIsStored: when ReceivePushTransferData answers the sentinel of    *)
(* Finalize with Success, the block is closed with the very data that the  *)
(* application wrote: nothing of an earlier push, of another session or of *)
(* a transfer that was cancelled.  Clients wait for their answers, however *)
(* long it takes; aborted pulls, refusals, cancelled pushes, overruns and  *)
(* disconnections at any point are included.  The hypothesis is needed: a  *)
(* client that gives up waiting may take the late status for the answer to *)
(* its next request, and a chunk that it sends twice counts twice.         *)
(***************************************************************************)
THEOREM PushesAreStored == ~TimeOuts => (Spec => PushedIsStored)
<1> SUFFICES ASSUME ~TimeOuts PROVE Spec => PushedIsStored
  OBVIOUS
<1>1. Init => PushInv
  BY DEF Init, PushInv
<1>2. TInv /\ TInv' /\ PInv /\ PushInv /\ [Next]_vars => PushInv'
  BY OrderKept DEF PushInv, OrderAfter
<1>3. TInv /\ PInv /\ PushInv /\ [Next]_vars =>
         [\A c \in Clients :
             sess[c].st = "Push" /\ sess'[c].st # "Push" /\ sess'[c].scratch.result = "Success" /\ link'[c] = "up"
                 => LET B == block'[sess[c].block] IN B.closed /\ B.data = app[c].data]_vars
  BY StoredStep
<1>4. TInv /\ PInv /\ [Next]_vars => PInv'
  BY PullStep
<1> QED BY <1>1, <1>2, <1>3, <1>4, InitPulls, TypesHold, PTL DEF Spec, PushedIsStored
====
