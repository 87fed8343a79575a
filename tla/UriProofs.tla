------------------------------ MODULE UriProofs ------------------------------
(***************************************************************************)
(* Requests by URI, for every set of clients and services and any number   *)
(* of requests, blocks and timeouts: a service gets the post data of the   *)
(* request it handles, it does not run once it is unregistered, and what a *)
(* client reads is the response to its own request.                        *)
(*                                                                         *)
(* The argument for the data: a block is written once, by the client that  *)
(* was given it, before that client sends the request that names it        *)
(* (PostsOK); nothing the server or a client does later, after timeouts    *)
(* and reconnections either, changes a block that is closed and has data   *)
(* (Kept).  For the response: a session that no request has timed out on   *)
(* has at most one message under way (TurnsOK), and the block an answer    *)
(* names was closed with the response to that request (MessagesOK).        *)
(***************************************************************************)
EXTENDS Uri, SequenceTheorems, TLAPS

DataType == [c : Clients \cup {None}, n : Nat, whole : BOOLEAN]
BlockType == [st : {"unused", "open", "closed"}, registered : BOOLEAN, data : DataType]
RequestType == [kind : {"Post", "Request"}, req : Nat, svc : Services \cup {None},
                post : {"none", "inline", "block"}, blk : Ids \cup {None}]
AnswerType == [kind : {"PostResponse", "Response"}, result : {"Success", "Error"},
               blk : Ids \cup {None}, req : Nat]
SessionType == [response : Ids \cup {None}, pending : Ids \cup {None}, queued : AnswerType \cup {None}]
ClientType == [pc : {"none", "postReply", "push", "reply"}, state : {"Idle", "ReadResponse"}, req : Nat,
               svc : Services \cup {None}, post : {"none", "inline", "block"}, blk : Ids \cup {None},
               got : DataType, late : BOOLEAN]
RunningType == [c : Clients \cup {None}, svc : Services \cup {None}, req : Nat, data : DataType]

Types ==
    /\ services \subseteq Services /\ gone \subseteq Services
    /\ block \in [Ids -> BlockType]
    /\ running \in RunningType
    /\ sess \in [Clients -> SessionType]
    /\ toServer \in [Clients -> Seq(RequestType)]
    /\ toClient \in [Clients -> Seq(AnswerType)]
    /\ cl \in [Clients -> ClientType]

\* Post data that was pushed before the request was sent.
PostsOK ==
    \A c \in Clients : \A i \in 1..Len(toServer[c]) :
        LET m == toServer[c][i] IN
        m.kind = "Request" /\ m.post = "block" =>
            m.blk \in Ids /\ block[m.blk].st = "closed" /\ block[m.blk].data = Whole(c, m.req)

ServicesOK ==
    /\ \A s \in services : s \notin gone
    /\ running.c # None => running.svc \in services
    /\ running.c = None => running = NotRunning
    /\ PostDataIsOwn

\* A client that reads a response is in no call and has a block.
ReadsOK ==
    \A c \in Clients : cl[c].state = "ReadResponse" => cl[c].pc = "none" /\ cl[c].blk \in Ids

IInv == Types /\ PostsOK /\ ServicesOK /\ ReadsOK

LEMMA DataTypes ==
    /\ NoData \in DataType
    /\ \A c \in Clients, n \in Nat : Whole(c, n) \in DataType /\ Whole(c, n) # NoData
BY DEF NoData, Whole, DataType

LEMMA InitInv == Init => IInv
<1> SUFFICES ASSUME Init PROVE IInv
  OBVIOUS
<1>1. Types
  <2>1. block \in [Ids -> BlockType]
    BY DataTypes DEF Init, NoBlock, BlockType
  <2>2. running \in RunningType
    BY DataTypes DEF Init, NotRunning, RunningType
  <2>3. sess \in [Clients -> SessionType]
    BY DEF Init, NewSession, SessionType
  <2>4. cl \in [Clients -> ClientType]
    BY DataTypes DEF Init, NewClient, ClientType
  <2> QED BY <2>1, <2>2, <2>3, <2>4, EmptySeq DEF Init, Types
<1>2. PostsOK
  BY EmptySeq DEF Init, PostsOK
<1>3. ServicesOK
  BY DEF Init, ServicesOK, NotRunning, PostDataIsOwn
<1>4. ReadsOK
  BY DEF Init, ReadsOK, NewClient
<1> QED BY <1>1, <1>2, <1>3, <1>4 DEF IInv

-----------------------------------------------------------------------------
(***************************************************************************)
(* Blocks: what Opened, Released and a push return.                        *)
(***************************************************************************)
Keeps(B) == \A b \in Ids : block[b].st = "closed" /\ block[b].data # NoData
                => B[b].st = "closed" /\ B[b].data = block[b].data

LEMMA OpenedKeeps ==
    ASSUME Types, NEW b \in Fresh
    PROVE  /\ Opened(b) \in [Ids -> BlockType] /\ Keeps(Opened(b))
           /\ [Opened(b) EXCEPT ![b].st = "closed"] \in [Ids -> BlockType]
           /\ Keeps([Opened(b) EXCEPT ![b].st = "closed"])
BY DataTypes DEF Types, Fresh, Opened, Keeps, BlockType

LEMMA ReleasedKeeps ==
    ASSUME NEW B \in [Ids -> BlockType], Keeps(B), NEW b \in Ids \cup {None}
    PROVE  Released(B, b) \in [Ids -> BlockType] /\ Keeps(Released(B, b))
BY DEF Released, Keeps, BlockType

(***************************************************************************)
(* A response is sent or queued.                                           *)
(***************************************************************************)
LEMMA RespondTypes ==
    ASSUME Types, NEW c \in Clients, NEW s \in SessionType, NEW m \in AnswerType, Respond(c, s, m)
    PROVE  sess' \in [Clients -> SessionType] /\ toClient' \in [Clients -> Seq(AnswerType)]
<1>1. Append(toClient[c], m) \in Seq(AnswerType)
  BY AppendProperties DEF Types
<1>2. [s EXCEPT !.queued = m] \in SessionType
  BY DEF SessionType
<1> QED BY <1>1, <1>2 DEF Respond, Types

(***************************************************************************)
(* A message is taken from the server's end of a session.                  *)
(***************************************************************************)
LEMMA TailFacts ==
    ASSUME Types, PostsOK, NEW c \in Clients, toServer[c] # <<>>,
           toServer' = [toServer EXCEPT ![c] = Tail(@)]
    PROVE  /\ toServer' \in [Clients -> Seq(RequestType)]
           /\ Head(toServer[c]) \in RequestType
           /\ 1 \in 1..Len(toServer[c]) /\ Head(toServer[c]) = toServer[c][1]
           /\ Keeps(block') => PostsOK'
<1>1. /\ Head(toServer[c]) \in RequestType /\ Tail(toServer[c]) \in Seq(RequestType)
      /\ Len(Tail(toServer[c])) = Len(toServer[c]) - 1
      /\ \A i \in 1..Len(Tail(toServer[c])) : Tail(toServer[c])[i] = toServer[c][i + 1]
  BY HeadTailProperties DEF Types
<1>2. Len(toServer[c]) \in Nat \ {0}
  BY EmptySeq DEF Types
<1>3. toServer' \in [Clients -> Seq(RequestType)]
  BY <1>1 DEF Types
<1>4. \A d \in Clients : \A i \in 1..Len(toServer'[d]) :
        \E j \in 1..Len(toServer[d]) : toServer'[d][i] = toServer[d][j]
  <2> TAKE d \in Clients
  <2>1. CASE d = c
    <3> SUFFICES ASSUME NEW i \in 1..Len(toServer'[d])
                 PROVE  \E j \in 1..Len(toServer[d]) : toServer'[d][i] = toServer[d][j]
      OBVIOUS
    <3>1. toServer'[d] = Tail(toServer[c])
      BY <2>1 DEF Types
    <3>2. i \in 1..Len(toServer[c]) - 1
      BY <3>1, <1>1
    <3>3. i + 1 \in 1..Len(toServer[c])
      BY <3>2, <1>2
    <3> QED BY <3>1, <3>3, <1>1, <2>1
  <2>2. CASE d # c
    BY <2>2 DEF Types
  <2> QED BY <2>1, <2>2
<1>5. ASSUME Keeps(block') PROVE PostsOK'
  <2> SUFFICES ASSUME NEW d \in Clients, NEW i \in 1..Len(toServer'[d]),
                      toServer'[d][i].kind = "Request", toServer'[d][i].post = "block"
               PROVE  /\ toServer'[d][i].blk \in Ids /\ block'[toServer'[d][i].blk].st = "closed"
                      /\ block'[toServer'[d][i].blk].data = Whole(d, toServer'[d][i].req)
    BY DEF PostsOK, Whole
  <2>1. PICK j \in 1..Len(toServer[d]) : toServer'[d][i] = toServer[d][j]
    BY <1>4
  <2>2. toServer[d][j] \in RequestType
    BY DEF Types
  <2>3. toServer[d][j].req \in Nat
    BY <2>2 DEF RequestType
  <2>4. Whole(d, toServer[d][j].req) # NoData
    BY <2>3, DataTypes
  <2> QED BY <1>5, <2>1, <2>4 DEF PostsOK, Keeps
<1> QED BY <1>1, <1>2, <1>3, <1>5

(***************************************************************************)
(* Messages under way keep their post data while blocks are kept.          *)
(***************************************************************************)
LEMMA PostsKept ==
    ASSUME Types, PostsOK, toServer' = toServer, Keeps(block')
    PROVE  PostsOK'
<1> SUFFICES ASSUME NEW d \in Clients, NEW i \in 1..Len(toServer[d]),
                    toServer[d][i].kind = "Request", toServer[d][i].post = "block"
             PROVE  /\ toServer[d][i].blk \in Ids /\ block'[toServer[d][i].blk].st = "closed"
                    /\ block'[toServer[d][i].blk].data = Whole(d, toServer[d][i].req)
  BY DEF PostsOK, Whole
<1>1. toServer[d][i] \in RequestType
  BY DEF Types
<1>2. Whole(d, toServer[d][i].req) # NoData
  BY <1>1, DataTypes DEF RequestType
<1> QED BY <1>2 DEF PostsOK, Keeps

(***************************************************************************)
(* A client sends a request.                                               *)
(***************************************************************************)
LEMMA AppendFacts ==
    ASSUME Types, PostsOK, Keeps(block'), NEW c \in Clients, NEW m \in RequestType,
           toServer' = [toServer EXCEPT ![c] = Append(@, m)],
           m.kind = "Request" /\ m.post = "block" =>
               m.blk \in Ids /\ block'[m.blk].st = "closed" /\ block'[m.blk].data = Whole(c, m.req)
    PROVE  toServer' \in [Clients -> Seq(RequestType)] /\ PostsOK'
<1>1. /\ Append(toServer[c], m) \in Seq(RequestType)
      /\ Len(Append(toServer[c], m)) = Len(toServer[c]) + 1 /\ Len(toServer[c]) \in Nat
      /\ \A i \in 1..Len(toServer[c]) : Append(toServer[c], m)[i] = toServer[c][i]
      /\ Append(toServer[c], m)[Len(toServer[c]) + 1] = m
  BY AppendProperties, LenProperties DEF Types
<1>2. toServer' \in [Clients -> Seq(RequestType)]
  BY <1>1 DEF Types
<1>3. PostsOK'
  <2> SUFFICES ASSUME NEW d \in Clients, NEW i \in 1..Len(toServer'[d]),
                      toServer'[d][i].kind = "Request", toServer'[d][i].post = "block"
               PROVE  /\ toServer'[d][i].blk \in Ids /\ block'[toServer'[d][i].blk].st = "closed"
                      /\ block'[toServer'[d][i].blk].data = Whole(d, toServer'[d][i].req)
    BY DEF PostsOK, Whole
  <2>1. CASE d = c /\ i = Len(toServer[c]) + 1
    <3>1. toServer'[d][i] = m
      BY <2>1, <1>1 DEF Types
    <3> QED BY <3>1, <2>1
  <2>2. CASE ~(d = c /\ i = Len(toServer[c]) + 1)
    <3>1. i \in 1..Len(toServer[d]) /\ toServer'[d][i] = toServer[d][i]
      <4>1. CASE d = c
        <5>1. toServer'[d] = Append(toServer[c], m)
          BY <4>1 DEF Types
        <5>2. i \in 1..Len(toServer[c]) + 1
          BY <5>1, <1>1
        <5>3. i \in 1..Len(toServer[c])
          BY <5>2, <4>1, <2>2, <1>1
        <5> QED BY <5>1, <5>3, <4>1, <1>1
      <4>2. CASE d # c
        BY <4>2 DEF Types
      <4> QED BY <4>1, <4>2
    <3>2. toServer[d][i] \in RequestType
      BY <3>1 DEF Types
    <3>3. Whole(d, toServer[d][i].req) # NoData
      BY <3>2, DataTypes DEF RequestType
    <3> QED BY <3>1, <3>3 DEF PostsOK, Keeps
  <2> QED BY <2>1, <2>2
<1> QED BY <1>2, <1>3

LEMMA UnchangedKeeps == block' = block => Keeps(block')
BY DEF Keeps

LEMMA ReadsKept == ReadsOK /\ cl' = cl => ReadsOK'
BY DEF ReadsOK

LEMMA ServicesKept == ServicesOK /\ UNCHANGED <<services, gone, running>> => ServicesOK'
BY DEF ServicesOK, PostDataIsOwn

-----------------------------------------------------------------------------
(***************************************************************************)
(* The steps of the services and of the server's sessions.                 *)
(***************************************************************************)
LEMMA ServiceSteps ==
    ASSUME IInv, NEW s \in Services, RegisterService(s) \/ UnregisterService(s)
    PROVE  IInv'
<1>1. UNCHANGED <<block, running, sess, link, wires, cl>> /\ Types /\ PostsOK /\ ServicesOK /\ ReadsOK
  BY DEF IInv, RegisterService, UnregisterService
<1>2. services' \subseteq Services /\ gone' \subseteq Services
  BY <1>1 DEF RegisterService, UnregisterService, Types
<1>3. Types' /\ PostsOK'
  BY <1>1, <1>2, PostsKept, UnchangedKeeps DEF Types, wires
<1>4. ServicesOK'
  <2>1. running' = running /\ running.c = None /\ running = NotRunning
    BY <1>1 DEF RegisterService, UnregisterService, MutexFree, ServicesOK
  <2>2. \A x \in services' : x \notin gone'
    BY <1>1 DEF RegisterService, UnregisterService, ServicesOK
  <2> QED BY <1>1, <2>1, <2>2 DEF ServicesOK, PostDataIsOwn
<1> QED BY <1>1, <1>3, <1>4, ReadsKept DEF IInv

LEMMA SendQueuedStep ==
    ASSUME IInv, NEW c \in Clients, SendQueued(c)
    PROVE  IInv'
<1>1. /\ UNCHANGED <<services, gone, block, running, link, toServer, cl>> /\ Types /\ PostsOK /\ ServicesOK /\ ReadsOK
      /\ sess[c].queued # None
      /\ toClient' = [toClient EXCEPT ![c] = Append(@, sess[c].queued)]
      /\ sess' = [sess EXCEPT ![c].queued = None]
  BY DEF IInv, SendQueued
<1>2. sess[c].queued \in AnswerType /\ sess' \in [Clients -> SessionType]
  BY <1>1 DEF Types, SessionType
<1>3. Append(toClient[c], sess[c].queued) \in Seq(AnswerType)
  BY <1>1, <1>2, AppendProperties DEF Types
<1>4. Types'
  BY <1>1, <1>2, <1>3 DEF Types
<1> QED BY <1>1, <1>4, PostsKept, UnchangedKeeps, ServicesKept, ReadsKept DEF IInv

LEMMA ReceivePostStep ==
    ASSUME IInv, NEW c \in Clients, ReceivePost(c)
    PROVE  IInv'
<1>1. Types /\ PostsOK /\ ServicesOK /\ ReadsOK /\ UNCHANGED <<services, gone, running, link, cl>>
  BY DEF IInv, ReceivePost
<1>2. toServer[c] # <<>> /\ toServer' = [toServer EXCEPT ![c] = Tail(@)]
  BY DEF ReceivePost, Receive
<1>3. Head(toServer[c]) \in RequestType /\ toServer' \in [Clients -> Seq(RequestType)]
      /\ (Keeps(block') => PostsOK')
  BY <1>1, <1>2, TailFacts
<1> DEFINE m == Head(toServer[c])
           Answer(result, b) == [kind |-> "PostResponse", result |-> result, blk |-> b, req |-> m.req]
<1>4. \A b \in Ids \cup {None}, r \in {"Success", "Error"} : Answer(r, b) \in AnswerType
  BY <1>3 DEF AnswerType, RequestType
<1>5. /\ sess[c] \in SessionType
      /\ \A b \in Ids : [sess[c] EXCEPT !.pending = b] \in SessionType
  BY <1>1 DEF Types, SessionType
<1>6. \/ \E b \in Fresh : /\ block' = Opened(b)
                          /\ Respond(c, [sess[c] EXCEPT !.pending = b], Answer("Success", b))
      \/ Respond(c, sess[c], Answer("Error", None)) /\ UNCHANGED block
  BY DEF ReceivePost
<1> HIDE DEF Answer
<1>7. /\ block' \in [Ids -> BlockType] /\ Keeps(block')
      /\ sess' \in [Clients -> SessionType] /\ toClient' \in [Clients -> Seq(AnswerType)]
  <2>1. ASSUME NEW b \in Fresh, block' = Opened(b),
               Respond(c, [sess[c] EXCEPT !.pending = b], Answer("Success", b))
        PROVE  <1>7!:
    <3>1. b \in Ids
      BY DEF Fresh
    <3>2. Answer("Success", b) \in AnswerType /\ [sess[c] EXCEPT !.pending = b] \in SessionType
      BY <3>1, <1>4, <1>5
    <3> QED BY <1>1, <2>1, <3>2, OpenedKeeps, RespondTypes
  <2>2. ASSUME Respond(c, sess[c], Answer("Error", None)), UNCHANGED block
        PROVE  <1>7!:
    <3>1. Answer("Error", None) \in AnswerType
      BY <1>4
    <3> QED BY <1>1, <1>5, <2>2, <3>1, UnchangedKeeps, RespondTypes DEF Types
  <2> QED BY <1>6, <2>1, <2>2
<1> QED BY <1>1, <1>3, <1>7, ServicesKept, ReadsKept DEF IInv, Types

LEMMA BeginServiceStep ==
    ASSUME IInv, NEW c \in Clients, BeginService(c)
    PROVE  IInv'
<1> DEFINE m == Head(toServer[c])
           data == CASE m.post = "block" -> block[m.blk].data
                     [] m.post = "inline" -> Whole(c, m.req)
                     [] OTHER -> NoData
<1>1. Types /\ PostsOK /\ ServicesOK /\ ReadsOK /\ UNCHANGED <<services, gone, toClient, link, cl>>
  BY DEF IInv, BeginService
<1>2. /\ toServer[c] # <<>> /\ m.kind = "Request"
      /\ toServer' = [toServer EXCEPT ![c] = Tail(@)]
  BY DEF BeginService, Receive
<1>3. m \in RequestType /\ toServer' \in [Clients -> Seq(RequestType)] /\ (Keeps(block') => PostsOK')
      /\ 1 \in 1..Len(toServer[c]) /\ m = toServer[c][1]
  BY <1>1, <1>2, TailFacts
<1>4. PICK b \in Fresh : block' = Opened(b) /\ sess' = [sess EXCEPT ![c].response = b]
  BY DEF BeginService
<1>5. m.svc \in services /\ running' = [c |-> c, svc |-> m.svc, req |-> m.req, data |-> data]
  BY DEF BeginService
<1>6. data \in DataType /\ (data # NoData => data = Whole(c, m.req))
  <2>1. m.req \in Nat /\ m.post \in {"none", "inline", "block"}
    BY <1>3 DEF RequestType
  <2>2. CASE m.post = "block"
    <3>1. data = Whole(c, m.req)
      BY <1>1, <1>2, <1>3, <2>2 DEF PostsOK
    <3> QED BY <2>1, <3>1, DataTypes
  <2>3. CASE m.post = "inline"
    BY <2>1, <2>3, DataTypes
  <2>4. CASE m.post = "none"
    BY <2>1, <2>4, DataTypes
  <2> QED BY <2>1, <2>2, <2>3, <2>4
<1> HIDE DEF m, data
<1>7. b \in Ids
  BY DEF Fresh
<1>8. block' \in [Ids -> BlockType] /\ Keeps(block')
  BY <1>1, <1>4, OpenedKeeps
<1>9. sess' \in [Clients -> SessionType]
  BY <1>1, <1>4, <1>7 DEF Types, SessionType
<1>10. running' \in RunningType
  BY <1>1, <1>3, <1>5, <1>6 DEF RunningType, RequestType, Types
<1>11. Types' /\ PostsOK'
  BY <1>1, <1>3, <1>8, <1>9, <1>10 DEF Types
<1>12. ServicesOK'
  <2>1. running'.c = c /\ running'.svc = m.svc /\ running'.req = m.req /\ running'.data = data
    BY <1>5
  <2>2. c # None
    BY UriAssumption
  <2> QED BY <1>1, <1>5, <1>6, <2>1, <2>2 DEF ServicesOK, PostDataIsOwn
<1> QED BY <1>1, <1>11, <1>12, ReadsKept DEF IInv

LEMMA RefuseRequestStep ==
    ASSUME IInv, NEW c \in Clients, RefuseRequest(c)
    PROVE  IInv'
<1> DEFINE m == Head(toServer[c])
           no == [kind |-> "Response", result |-> "Error", blk |-> None, req |-> m.req]
           No(B, s) == block' = Released(B, s.pending) /\ Respond(c, [s EXCEPT !.pending = None], no)
<1>1. Types /\ PostsOK /\ ServicesOK /\ ReadsOK /\ UNCHANGED <<services, gone, running, link, cl>>
  BY DEF IInv, RefuseRequest
<1>2. toServer[c] # <<>> /\ toServer' = [toServer EXCEPT ![c] = Tail(@)]
  BY DEF RefuseRequest, Receive
<1>3. m \in RequestType /\ toServer' \in [Clients -> Seq(RequestType)] /\ (Keeps(block') => PostsOK')
  BY <1>1, <1>2, TailFacts
<1>4. no \in AnswerType
  BY <1>3 DEF AnswerType, RequestType
<1>5. sess[c] \in SessionType
  BY <1>1 DEF Types
<1>6. \/ UNCHANGED block /\ Respond(c, sess[c], no)
      \/ No(block, sess[c])
      \/ \E b \in Fresh : No([Opened(b) EXCEPT ![b].st = "closed"], [sess[c] EXCEPT !.response = b])
  BY DEF RefuseRequest
<1> HIDE DEF no
<1>7. ASSUME NEW B \in [Ids -> BlockType], Keeps(B), NEW s \in SessionType, No(B, s)
      PROVE  /\ block' \in [Ids -> BlockType] /\ Keeps(block')
             /\ sess' \in [Clients -> SessionType] /\ toClient' \in [Clients -> Seq(AnswerType)]
  <2>1. s.pending \in Ids \cup {None} /\ [s EXCEPT !.pending = None] \in SessionType
    BY DEF SessionType
  <2>2. Respond(c, [s EXCEPT !.pending = None], no) /\ block' = Released(B, s.pending)
    BY <1>7
  <2>3. sess' \in [Clients -> SessionType] /\ toClient' \in [Clients -> Seq(AnswerType)]
    BY <2>1, <2>2, <1>1, <1>4, RespondTypes
  <2> QED BY <1>7, <2>1, <2>2, <2>3, ReleasedKeeps
<1>8. /\ block' \in [Ids -> BlockType] /\ Keeps(block')
      /\ sess' \in [Clients -> SessionType] /\ toClient' \in [Clients -> Seq(AnswerType)]
  <2>1. ASSUME UNCHANGED block, Respond(c, sess[c], no) PROVE <1>8!:
    BY <1>1, <1>4, <1>5, <2>1, UnchangedKeeps, RespondTypes DEF Types
  <2>2. ASSUME No(block, sess[c]) PROVE <1>8!:
    <3>1. block \in [Ids -> BlockType] /\ Keeps(block)
      BY <1>1 DEF Types, Keeps
    <3> QED BY <3>1, <1>5, <1>7, <2>2
  <2>3. ASSUME NEW b \in Fresh,
               No([Opened(b) EXCEPT ![b].st = "closed"], [sess[c] EXCEPT !.response = b])
        PROVE  <1>8!:
    <3>1. [sess[c] EXCEPT !.response = b] \in SessionType
      BY <1>5 DEF SessionType, Fresh
    <3>2. [Opened(b) EXCEPT ![b].st = "closed"] \in [Ids -> BlockType]
          /\ Keeps([Opened(b) EXCEPT ![b].st = "closed"])
      BY <1>1, OpenedKeeps
    <3> HIDE DEF No
    <3> QED BY <3>1, <3>2, <1>7, <2>3
  <2> HIDE DEF No
  <2> QED BY <1>6, <2>1, <2>2, <2>3
<1> QED BY <1>1, <1>3, <1>8, ServicesKept, ReadsKept DEF IInv, Types

LEMMA FinishServiceStep ==
    ASSUME IInv, NEW c \in Clients, FinishService(c)
    PROVE  IInv'
<1> DEFINE b == sess[c].response
           Written(data) == [block EXCEPT ![b].st = "closed", ![b].data = IF @ = NoData THEN data ELSE @]
           Answer(result) == [kind |-> "Response", result |-> result, req |-> running.req,
                              blk |-> IF result = "Success" THEN b ELSE None]
<1>1. Types /\ PostsOK /\ ServicesOK /\ ReadsOK /\ UNCHANGED <<services, gone, link, toServer, cl>>
      /\ running' = NotRunning
  BY DEF IInv, FinishService
<1>2. sess[c] \in SessionType /\ b \in Ids \cup {None} /\ sess[c].pending \in Ids \cup {None}
      /\ running.req \in Nat
  BY <1>1 DEF Types, SessionType, RunningType
<1>3. PICK data \in {NoData, Whole(c, running.req)} : block' = Released(Written(data), sess[c].pending)
  BY DEF FinishService
<1>4. PICK result \in {"Success", "Error"} : Respond(c, [sess[c] EXCEPT !.pending = None], Answer(result))
  BY DEF FinishService
<1>5. Written(data) \in [Ids -> BlockType] /\ Keeps(Written(data))
  <2>1. data \in DataType
    BY <1>2, DataTypes
  <2> HIDE DEF b
  <2> QED BY <2>1, <1>1, DataTypes, ZenonT(40) DEF Types, Keeps, BlockType
<1>6. Answer(result) \in AnswerType /\ [sess[c] EXCEPT !.pending = None] \in SessionType
  BY <1>2 DEF AnswerType, SessionType
<1> HIDE DEF Written, Answer
<1>7. block' \in [Ids -> BlockType] /\ Keeps(block')
  BY <1>2, <1>3, <1>5, ReleasedKeeps
<1>8. sess' \in [Clients -> SessionType] /\ toClient' \in [Clients -> Seq(AnswerType)]
  BY <1>1, <1>4, <1>6, RespondTypes
<1>9. running' \in RunningType
  BY <1>1, DataTypes DEF NotRunning, RunningType
<1>10. Types' /\ PostsOK'
  BY <1>1, <1>7, <1>8, <1>9, PostsKept DEF Types
<1>11. ServicesOK'
  BY <1>1 DEF ServicesOK, NotRunning, PostDataIsOwn
<1> QED BY <1>1, <1>10, <1>11, ReadsKept DEF IInv

LEMMA SessionTerminatedStep ==
    ASSUME IInv, NEW c \in Clients, SessionTerminated(c)
    PROVE  IInv'
<1>1. Types /\ PostsOK /\ ServicesOK /\ ReadsOK /\ UNCHANGED <<services, gone, running, cl>>
      /\ block' = Released(Released(block, sess[c].response), sess[c].pending)
      /\ sess' = [sess EXCEPT ![c] = NewSession]
      /\ toServer' = [toServer EXCEPT ![c] = <<>>] /\ toClient' = [toClient EXCEPT ![c] = <<>>]
  BY DEF IInv, SessionTerminated
<1>2. sess[c].response \in Ids \cup {None} /\ sess[c].pending \in Ids \cup {None}
  BY <1>1 DEF Types, SessionType
<1>3. block \in [Ids -> BlockType] /\ Keeps(block)
  BY <1>1 DEF Types, Keeps
<1>4. Released(block, sess[c].response) \in [Ids -> BlockType] /\ Keeps(Released(block, sess[c].response))
  BY <1>2, <1>3, ReleasedKeeps
<1>5. block' \in [Ids -> BlockType] /\ Keeps(block')
  BY <1>1, <1>2, <1>4, ReleasedKeeps
<1>6. sess' \in [Clients -> SessionType]
  BY <1>1 DEF Types, NewSession, SessionType
<1>7. toServer' \in [Clients -> Seq(RequestType)] /\ toClient' \in [Clients -> Seq(AnswerType)]
  BY <1>1, EmptySeq DEF Types
<1>8. PostsOK'
  <2> SUFFICES ASSUME NEW d \in Clients, NEW i \in 1..Len(toServer'[d]),
                      toServer'[d][i].kind = "Request", toServer'[d][i].post = "block"
               PROVE  /\ toServer'[d][i].blk \in Ids /\ block'[toServer'[d][i].blk].st = "closed"
                      /\ block'[toServer'[d][i].blk].data = Whole(d, toServer'[d][i].req)
    BY DEF PostsOK, Whole
  <2>1. d # c /\ toServer'[d] = toServer[d]
    BY <1>1, EmptySeq DEF Types
  <2>2. toServer[d][i] \in RequestType
    BY <1>1, <2>1 DEF Types
  <2>3. Whole(d, toServer[d][i].req) # NoData
    BY <2>2, DataTypes DEF RequestType
  <2> QED BY <1>1, <1>5, <2>1, <2>3 DEF PostsOK, Keeps
<1>9. Types'
  BY <1>1, <1>5, <1>6, <1>7 DEF Types
<1> QED BY <1>1, <1>8, <1>9, ServicesKept, ReadsKept DEF IInv

-----------------------------------------------------------------------------
(***************************************************************************)
(* The steps of a client.                                                  *)
(***************************************************************************)
LEMMA NewClientType == NewClient \in ClientType /\ NewClient.state = "Idle"
BY DataTypes DEF NewClient, ClientType

LEMMA RequestURIStep ==
    ASSUME IInv, NEW c \in Clients, NEW s \in Services, NEW post \in Posts, RequestURI(c, s, post)
    PROVE  IInv'
<1> DEFINE wait == IF post = "block" THEN "postReply" ELSE "reply"
           next == cl[c].req + 1
           x == [NewClient EXCEPT !.req = next, !.svc = s, !.post = post, !.late = cl[c].late, !.pc = wait]
           kind == IF post = "block" THEN "Post" ELSE "Request"
           m == [kind |-> kind, req |-> cl'[c].req, svc |-> cl'[c].svc, post |-> cl'[c].post, blk |-> None]
<1>1. Types /\ PostsOK /\ ServicesOK /\ ReadsOK
      /\ UNCHANGED <<services, gone, block, running, sess, link, toClient>>
      /\ cl' = [cl EXCEPT ![c] = x]
  BY DEF IInv, RequestURI
<1>2. cl[c].req \in Nat /\ cl[c].late \in BOOLEAN /\ post \in {"none", "inline", "block"}
  BY <1>1, UriAssumption DEF Types, ClientType
<1>3. x \in ClientType /\ x.post = post /\ x.state = "Idle"
  <2>1. wait \in {"postReply", "reply"} /\ next \in Nat
    BY <1>2
  <2> HIDE DEF wait, next
  <2>2. x = [NewClient EXCEPT !.req = next, !.svc = s, !.post = post, !.late = cl[c].late, !.pc = wait]
    OBVIOUS
  <2> HIDE DEF x
  <2>3. PICK y \in ClientType : y = NewClient /\ y.state = "Idle"
    BY NewClientType
  <2>4. PICK l \in BOOLEAN : l = cl[c].late
    BY <1>2
  <2>5. PICK n \in Nat : n = next
    BY <2>1
  <2>6. x = [y EXCEPT !.req = n, !.svc = s, !.post = post, !.late = l, !.pc = wait]
    BY <2>2, <2>3, <2>4, <2>5
  <2> QED BY <2>1, <2>3, <2>6, <1>2, ZenonT(40) DEF ClientType
<1> HIDE DEF x
<1>4. cl' \in [Clients -> ClientType] /\ cl'[c] = x
  BY <1>1, <1>3 DEF Types
<1>5. m \in RequestType /\ ~(m.kind = "Request" /\ m.post = "block")
  BY <1>2, <1>3, <1>4 DEF RequestType, ClientType
<1>6. toServer' = [toServer EXCEPT ![c] = Append(@, m)]
  BY DEF RequestURI, SendRequest
<1> HIDE DEF m
<1>7. toServer' \in [Clients -> Seq(RequestType)] /\ PostsOK'
  BY <1>1, <1>5, <1>6, AppendFacts, UnchangedKeeps
<1>8. ReadsOK'
  BY <1>1, <1>3, <1>4 DEF ReadsOK, Types
<1> QED BY <1>1, <1>4, <1>7, <1>8, ServicesKept DEF IInv, Types

LEMMA PushPostDataStep ==
    ASSUME IInv, NEW c \in Clients, PushPostData(c)
    PROVE  IInv'
<1> DEFINE m == [kind |-> "Request", req |-> cl'[c].req, svc |-> cl'[c].svc, post |-> cl'[c].post,
                 blk |-> cl[c].blk]
<1>1. Types /\ PostsOK /\ ServicesOK /\ ReadsOK
      /\ UNCHANGED <<services, gone, running, sess, link, toClient>>
      /\ cl' = [cl EXCEPT ![c].pc = "reply"] /\ block' = Pushed(c)
      /\ cl[c].blk # None /\ block[cl[c].blk].st = "open"
  BY DEF IInv, PushPostData, Pushable
<1>2. cl[c] \in ClientType /\ cl[c].blk \in Ids /\ cl[c].req \in Nat
  BY <1>1 DEF Types, ClientType
<1>3. cl' \in [Clients -> ClientType] /\ cl'[c].req = cl[c].req
  BY <1>1, <1>2 DEF Types, ClientType
<1>4. m \in RequestType
  BY <1>2, <1>3 DEF RequestType, ClientType
<1>5. /\ block' \in [Ids -> BlockType] /\ Keeps(block')
      /\ block'[cl[c].blk].st = "closed" /\ block'[cl[c].blk].data = Whole(c, cl[c].req)
  <2>1. Whole(c, cl[c].req) \in DataType
    BY <1>2, DataTypes
  <2> QED BY <2>1, <1>1, <1>2 DEF Pushed, Types, Keeps, BlockType
<1>6. toServer' = [toServer EXCEPT ![c] = Append(@, m)]
  BY DEF PushPostData, SendRequest
<1>7. m.blk = cl[c].blk /\ m.req = cl[c].req
  BY <1>3
<1> HIDE DEF m
<1>8. toServer' \in [Clients -> Seq(RequestType)] /\ PostsOK'
  BY <1>1, <1>2, <1>4, <1>5, <1>6, <1>7, AppendFacts
<1>9. ReadsOK'
  <2>0. cl[c].pc = "push"
    BY DEF PushPostData, Waits
  <2>1. cl[c].state # "ReadResponse"
    BY <1>1, <2>0 DEF ReadsOK
  <2>2. cl'[c].state = cl[c].state
    BY <1>1, <1>2 DEF Types, ClientType
  <2> QED BY <1>1, <2>1, <2>2 DEF ReadsOK, Types
<1> QED BY <1>1, <1>3, <1>5, <1>8, <1>9, ServicesKept DEF IInv, Types

LEMMA PushFailsStep ==
    ASSUME IInv, NEW c \in Clients, PushPostDataFails(c)
    PROVE  IInv'
<1>1. Types /\ PostsOK /\ ServicesOK /\ ReadsOK
      /\ UNCHANGED <<services, gone, running, sess, link, toServer, toClient>>
      /\ cl' = [cl EXCEPT ![c].pc = "none"]
      /\ (UNCHANGED block \/ (Pushable(c) /\ block' = Pushed(c)))
  BY DEF IInv, PushPostDataFails, wires
<1>0. cl[c] \in ClientType /\ cl[c].blk \in Ids \cup {None} /\ cl[c].req \in Nat
  BY <1>1 DEF Types, ClientType
<1>2. cl' \in [Clients -> ClientType] /\ cl[c].blk \in Ids \cup {None} /\ cl[c].req \in Nat
  BY <1>0, <1>1 DEF Types, ClientType
<1>3. block' \in [Ids -> BlockType] /\ Keeps(block')
  <2>1. CASE UNCHANGED block
    BY <2>1, <1>1, UnchangedKeeps DEF Types
  <2>2. CASE Pushable(c) /\ block' = Pushed(c)
    <3>1. Whole(c, cl[c].req) \in DataType
      BY <1>2, DataTypes
    <3> QED BY <2>2, <3>1, <1>1, <1>2, ZenonT(40) DEF Pushable, Pushed, Types, Keeps, BlockType
  <2> QED BY <1>1, <2>1, <2>2
<1>4. ReadsOK'
  <2>1. cl'[c].state = cl[c].state /\ cl'[c].pc = "none" /\ cl'[c].blk = cl[c].blk
    BY <1>0, <1>1 DEF Types, ClientType
  <2> QED BY <1>1, <2>1 DEF ReadsOK, Types
<1> QED BY <1>1, <1>2, <1>3, <1>4, PostsKept, ServicesKept DEF IInv, Types

(***************************************************************************)
(* A client that takes an answer, reads, aborts, gives up, connects or     *)
(* disconnects leaves blocks and requests alone.                           *)
(***************************************************************************)
LEMMA AnswerSteps ==
    ASSUME IInv, NEW c \in Clients, PostAnswered(c) \/ Answered(c)
    PROVE  IInv'
<1>1. Types /\ PostsOK /\ ServicesOK /\ ReadsOK
      /\ UNCHANGED <<services, gone, block, running, sess, link, toServer>>
      /\ toClient[c] # <<>> /\ toClient' = [toClient EXCEPT ![c] = Tail(@)]
  BY DEF IInv, PostAnswered, Answered, Take
<1>2. Head(toClient[c]) \in AnswerType /\ Tail(toClient[c]) \in Seq(AnswerType)
  BY <1>1, HeadTailProperties DEF Types
<1>3. cl[c] \in ClientType /\ cl[c].state = "Idle" /\ Head(toClient[c]).blk \in Ids \cup {None}
  BY <1>1, <1>2 DEF Types, ClientType, AnswerType, ReadsOK, PostAnswered, Answered, Take, Waits
<1>4. PICK pc \in {"none", "push"}, st \in {"Idle", "ReadResponse"}, b \in Ids \cup {None} :
        /\ cl' = [cl EXCEPT ![c].pc = pc, ![c].state = st, ![c].blk = b]
        /\ st = "ReadResponse" => pc = "none" /\ b \in Ids
  <2> DEFINE m == Head(toClient[c])
             opens == m.kind = "Response" /\ m.result = "Success" /\ m.blk # None
                        /\ block[m.blk].registered /\ block[m.blk].st = "closed"
                        /\ block[m.blk].data # NoData
  <2>1. CASE PostAnswered(c)
    <3>1. cl' = [cl EXCEPT ![c].pc = IF m.result = "Success" THEN "push" ELSE "none",
                           ![c].blk = IF m.result = "Success" THEN m.blk ELSE None]
      BY <2>1 DEF PostAnswered
    <3>2. cl' = [cl EXCEPT ![c].pc = IF m.result = "Success" THEN "push" ELSE "none", ![c].state = "Idle",
                           ![c].blk = IF m.result = "Success" THEN m.blk ELSE None]
      BY <3>1, <1>1, <1>3, ZenonT(40) DEF Types, ClientType
    <3> QED BY <3>2, <1>3
  <2>2. CASE Answered(c)
    <3>1. cl' = [cl EXCEPT ![c].pc = "none", ![c].state = IF opens THEN "ReadResponse" ELSE @,
                           ![c].blk = IF opens THEN m.blk ELSE None]
      BY <2>2 DEF Answered
    <3>2. opens => m.blk \in Ids
      BY <1>3
    <3>3. CASE opens
      <4>1. cl' = [cl EXCEPT ![c].pc = "none", ![c].state = "ReadResponse", ![c].blk = m.blk]
        BY <3>1, <3>3
      <4> QED BY <4>1, <3>2, <3>3
    <3>4. CASE ~opens
      <4>1. cl' = [cl EXCEPT ![c].pc = "none", ![c].state = @, ![c].blk = None]
        BY <3>1, <3>4
      <4>2. cl' = [cl EXCEPT ![c].pc = "none", ![c].state = "Idle", ![c].blk = None]
        BY <4>1, <1>1, <1>3 DEF Types, ClientType
      <4> QED BY <4>2
    <3> QED BY <3>3, <3>4
  <2> QED BY <2>1, <2>2
<1>5. cl' \in [Clients -> ClientType] /\ ReadsOK'
  <2>1. [cl[c] EXCEPT !.pc = pc, !.state = st, !.blk = b] \in ClientType
    BY <1>3 DEF ClientType
  <2>2. cl' = [cl EXCEPT ![c] = [cl[c] EXCEPT !.pc = pc, !.state = st, !.blk = b]]
    BY <1>1, <1>4
  <2>3. cl' \in [Clients -> ClientType]
    BY <1>1, <2>1, <2>2 DEF Types
  <2>4. cl'[c].state = st /\ cl'[c].pc = pc /\ cl'[c].blk = b
    BY <1>1, <1>3, <2>2 DEF Types, ClientType
  <2> QED BY <1>1, <1>4, <2>2, <2>3, <2>4 DEF ReadsOK, Types
<1>6. Types'
  BY <1>1, <1>2, <1>5 DEF Types
<1> QED BY <1>1, <1>5, <1>6, PostsKept, UnchangedKeeps, ServicesKept DEF IInv

LEMMA OtherClientSteps ==
    ASSUME IInv, NEW c \in Clients,
           ReadResponse(c) \/ AbortRequest(c) \/ GiveUp(c) \/ Connect(c) \/ Disconnect(c)
    PROVE  IInv'
<1>1. Types /\ PostsOK /\ ServicesOK /\ ReadsOK
      /\ UNCHANGED <<services, gone, block, running, sess, toServer, toClient>>
  BY DEF IInv, ReadResponse, AbortRequest, GiveUp, Connect, Disconnect, wires
<1>2. cl[c] \in ClientType /\ cl[c].blk \in Ids \cup {None} /\ cl[c].req \in Nat
  BY <1>1 DEF Types, ClientType
<1>3. CASE Connect(c)
  <2>1. cl' = cl
    BY <1>3 DEF Connect
  <2> QED BY <1>1, <2>1, PostsKept, UnchangedKeeps, ServicesKept, ReadsKept DEF IInv, Types
<1>4. ASSUME ~Connect(c) PROVE cl' \in [Clients -> ClientType] /\ ReadsOK'
  <2>1. PICK x \in ClientType :
          cl' = [cl EXCEPT ![c] = x] /\ (x.state = "ReadResponse" => x.pc = "none" /\ x.blk \in Ids)
    <3>1. CASE ReadResponse(c)
      <4>1. cl[c].blk \in Ids
        BY <3>1, <1>1 DEF ReadResponse, ReadsOK
      <4>2. block[cl[c].blk].data \in DataType
        BY <4>1, <1>1 DEF Types, BlockType
      <4>3. [cl[c] EXCEPT !.state = "Idle", !.got = block[cl[c].blk].data] \in ClientType
        BY <4>2, <1>2 DEF ClientType
      <4>4. cl' = [cl EXCEPT ![c] = [cl[c] EXCEPT !.state = "Idle", !.got = block[cl[c].blk].data]]
        BY <3>1, <1>1, <1>2 DEF ReadResponse
      <4>5. [cl[c] EXCEPT !.state = "Idle", !.got = block[cl[c].blk].data].state = "Idle"
        BY <1>2 DEF ClientType
      <4> QED BY <4>3, <4>4, <4>5
    <3>2. CASE AbortRequest(c)
      <4>1. [cl[c] EXCEPT !.state = "Idle"] \in ClientType /\ [cl[c] EXCEPT !.state = "Idle"].state = "Idle"
        BY <1>2 DEF ClientType
      <4>2. cl' = [cl EXCEPT ![c] = [cl[c] EXCEPT !.state = "Idle"]]
        BY <3>2, <1>1, <1>2 DEF AbortRequest
      <4> QED BY <4>1, <4>2
    <3>3. CASE GiveUp(c)
      <4>1. cl[c].state # "ReadResponse"
        BY <3>3, <1>1 DEF GiveUp, ReadsOK
      <4>2. /\ [cl[c] EXCEPT !.pc = "none", !.late = TRUE] \in ClientType
            /\ [cl[c] EXCEPT !.pc = "none", !.late = TRUE].state = cl[c].state
        BY <1>2 DEF ClientType
      <4>3. cl' = [cl EXCEPT ![c] = [cl[c] EXCEPT !.pc = "none", !.late = TRUE]]
        BY <3>3, <1>1, <1>2 DEF GiveUp
      <4> QED BY <4>1, <4>2, <4>3
    <3>4. CASE Disconnect(c)
      <4>2. [NewClient EXCEPT !.req = cl[c].req] \in ClientType /\ [NewClient EXCEPT !.req = cl[c].req].state = "Idle"
        BY <1>2, NewClientType DEF ClientType
      <4>3. cl' = [cl EXCEPT ![c] = [NewClient EXCEPT !.req = cl[c].req]]
        BY <3>4 DEF Disconnect
      <4> QED BY <4>2, <4>3
    <3> QED BY <1>4, <3>1, <3>2, <3>3, <3>4
  <2>2. cl' \in [Clients -> ClientType] /\ cl'[c] = x
    BY <1>1, <2>1 DEF Types
  <2> QED BY <1>1, <2>1, <2>2 DEF ReadsOK, Types
<1> QED BY <1>1, <1>3, <1>4, PostsKept, UnchangedKeeps, ServicesKept DEF IInv, Types

-----------------------------------------------------------------------------
LEMMA NextInv == IInv /\ [Next]_vars => IInv'
<1> SUFFICES ASSUME IInv, [Next]_vars PROVE IInv'
  OBVIOUS
<1>1. CASE UNCHANGED vars
  <2>1. Types' /\ Types /\ PostsOK /\ ServicesOK /\ ReadsOK
    BY <1>1 DEF IInv, vars, wires, Types
  <2> QED BY <1>1, <2>1, PostsKept, UnchangedKeeps, ServicesKept, ReadsKept DEF IInv, vars
<1>2. ASSUME NEW s \in Services, RegisterService(s) \/ UnregisterService(s) PROVE IInv'
  BY <1>2, ServiceSteps
<1>3. ASSUME NEW c \in Clients, ServerStep(c) PROVE IInv'
  BY <1>3, SendQueuedStep, ReceivePostStep, BeginServiceStep, RefuseRequestStep, FinishServiceStep,
     SessionTerminatedStep DEF ServerStep
<1>4. ASSUME NEW c \in Clients, ClientStep(c) PROVE IInv'
  BY <1>4, AnswerSteps, PushPostDataStep, PushFailsStep DEF ClientStep
<1>5. ASSUME NEW c \in Clients, NEW s \in Services, NEW post \in Posts, RequestURI(c, s, post) PROVE IInv'
  BY <1>5, RequestURIStep
<1>6. ASSUME NEW c \in Clients,
             ReadResponse(c) \/ AbortRequest(c) \/ GiveUp(c) \/ Connect(c) \/ Disconnect(c)
      PROVE  IInv'
  BY <1>6, OtherClientSteps
<1> QED BY <1>1, <1>2, <1>3, <1>4, <1>5, <1>6 DEF Next

LEMMA InvHolds == Spec => []IInv
BY InitInv, NextInv, PTL DEF Spec

-----------------------------------------------------------------------------
(***************************************************************************)
(* A client reads the response to its last request.  A session that no     *)
(* request has timed out on has at most one message under way, on the one  *)
(* side or the other (TurnsOK); a response names a block that was closed   *)
(* with the response to that request (MessagesOK), and a closed block      *)
(* stays as it is: the block a service is writing to has been named to no  *)
(* client yet, so nobody pushes into it.                                   *)
(***************************************************************************)
\* The block the running service writes its response to.
Served == IF running.c = None THEN None ELSE sess[running.c].response
NotServed(b) == b # None => block[b].st # "unused" /\ b # Served
Answers(c, m) ==
    m.kind = "Response" /\ m.blk # None =>
        block[m.blk].st = "closed" /\ block[m.blk].data \in {NoData, Whole(c, m.req)}
Named(c, m) == NotServed(m.blk) /\ Answers(c, m)

ServedOK == running.c # None => Served \in Ids /\ block[Served].st = "open" /\ block[Served].data = NoData

MessagesOK ==
    \A c \in Clients :
        /\ \A i \in 1..Len(toClient[c]) : Named(c, toClient[c][i])
        /\ sess[c].queued # None => Named(c, sess[c].queued)
        /\ NotServed(cl[c].blk)

Quiet(c) == toServer[c] = <<>> /\ toClient[c] = <<>> /\ running.c # c
Asked(c) ==
    /\ Len(toServer[c]) = 1 /\ toClient[c] = <<>> /\ running.c # c
    /\ toServer[c][1].req = cl[c].req
    /\ toServer[c][1].kind = IF cl[c].pc = "postReply" THEN "Post" ELSE "Request"
Runs(c) ==
    /\ toServer[c] = <<>> /\ toClient[c] = <<>> /\ running.c = c
    /\ running.req = cl[c].req /\ cl[c].pc = "reply"
IsAnswered(c) ==
    /\ toServer[c] = <<>> /\ Len(toClient[c]) = 1 /\ running.c # c
    /\ toClient[c][1].req = cl[c].req
    /\ toClient[c][1].kind = IF cl[c].pc = "postReply" THEN "PostResponse" ELSE "Response"
TurnOK(c) ==
    /\ link[c] = "down" => Quiet(c) /\ sess[c].queued = None
    /\ link[c] # "up" => cl[c].pc = "none" /\ cl[c].state = "Idle" /\ cl[c].got = NoData
    /\ link[c] = "up" /\ ~cl[c].late =>
          /\ sess[c].queued = None
          /\ cl[c].pc \in {"none", "push"} => Quiet(c)
          /\ cl[c].pc \in {"postReply", "reply"} => Asked(c) \/ Runs(c) \/ IsAnswered(c)
ReadOK(c) ==
    /\ cl[c].state = "ReadResponse" /\ ~cl[c].late =>
          block[cl[c].blk].st = "closed" /\ block[cl[c].blk].data = Whole(c, cl[c].req)
    /\ cl[c].got # NoData /\ ~cl[c].late => cl[c].got = Whole(c, cl[c].req)

TurnsOK == link \in [Clients -> {"up", "closing", "down"}] /\ \A c \in Clients : TurnOK(c)
ReadingOK == \A c \in Clients : ReadOK(c)

RInv == ServedOK /\ MessagesOK /\ TurnsOK /\ ReadingOK

LEMMA InitReading == Init => RInv
<1> SUFFICES ASSUME Init PROVE RInv
  OBVIOUS
<1>1. ServedOK
  BY DEF Init, ServedOK, NotRunning
<1>2. MessagesOK
  BY EmptySeq DEF Init, MessagesOK, NewSession, NewClient, NotServed
<1>3. TurnsOK
  BY UriAssumption DEF Init, TurnsOK, TurnOK, Quiet, NewSession, NewClient, NotRunning
<1>4. ReadingOK
  BY DEF Init, ReadingOK, ReadOK, NewClient
<1> QED BY <1>1, <1>2, <1>3, <1>4 DEF RInv

(***************************************************************************)
(* What a step keeps of the blocks, and of the messages that name them.    *)
(***************************************************************************)
Frozen(B) == \A b \in Ids : /\ block[b].st = "closed" => B[b].st = "closed" /\ B[b].data = block[b].data
                            /\ block[b].st # "unused" => B[b].st # "unused"
\* A step serves what was served before, nothing, or a fresh block.
ServesOn == Served' \in {Served, None} \cup Fresh

LEMMA NamedKept ==
    ASSUME Frozen(block'), ServesOn
    PROVE  /\ \A b \in Ids \cup {None} : NotServed(b) => NotServed(b)'
           /\ \A c \in Clients, m \in AnswerType : Named(c, m) => Named(c, m)'
<1>1. ASSUME NEW b \in Ids \cup {None}, NotServed(b) PROVE NotServed(b)'
  BY <1>1 DEF NotServed, Frozen, ServesOn, Fresh
<1>2. ASSUME NEW c \in Clients, NEW m \in AnswerType, Named(c, m) PROVE Named(c, m)'
  <2>1. m.blk \in Ids \cup {None}
    BY DEF AnswerType
  <2>2. NotServed(m.blk)'
    BY <1>1, <1>2, <2>1 DEF Named
  <2>3. Answers(c, m)'
    BY <1>2, <2>1 DEF Named, Answers, Frozen
  <2> QED BY <2>2, <2>3 DEF Named
<1> QED BY <1>1, <1>2

\* Every message was there before or names its block rightly.
LEMMA MessagesKept ==
    ASSUME Types, Types', MessagesOK, Frozen(block'), ServesOn,
           \A c \in Clients : \A i \in 1..Len(toClient'[c]) :
               \/ \E j \in 1..Len(toClient[c]) : toClient'[c][i] = toClient[c][j]
               \/ sess[c].queued # None /\ toClient'[c][i] = sess[c].queued
               \/ Named(c, toClient[c][i])',
           \A c \in Clients : sess'[c].queued # None =>
               \/ sess[c].queued # None /\ sess'[c].queued = sess[c].queued
               \/ Named(c, sess[c].queued)',
           \A c \in Clients :
               \/ cl'[c].blk = cl[c].blk \/ cl'[c].blk = None
               \/ \E j \in 1..Len(toClient[c]) : cl'[c].blk = toClient[c][j].blk
    PROVE  MessagesOK'
<1> SUFFICES ASSUME NEW c \in Clients
             PROVE  /\ \A i \in 1..Len(toClient'[c]) : Named(c, toClient[c][i])'
                    /\ sess'[c].queued # None => Named(c, sess[c].queued)'
                    /\ NotServed(cl[c].blk)'
  BY DEF MessagesOK, NotServed, Named, Answers, Served
<1>0. sess[c] \in SessionType
  BY DEF Types
<1>1. sess[c].queued # None => sess[c].queued \in AnswerType
  BY <1>0 DEF SessionType
<1>2. \A j \in 1..Len(toClient[c]) : toClient[c][j] \in AnswerType /\ toClient[c][j].blk \in Ids \cup {None}
  <2>1. toClient[c] \in Seq(AnswerType)
    BY DEF Types
  <2>2. \A j \in 1..Len(toClient[c]) : toClient[c][j] \in AnswerType
    BY <2>1
  <2>3. \A m \in AnswerType : m.blk \in Ids \cup {None}
    BY DEF AnswerType
  <2> QED BY <2>2, <2>3
<1>3. cl[c].blk \in Ids \cup {None}
  BY DEF Types, ClientType
<1>4. ASSUME NEW i \in 1..Len(toClient'[c]) PROVE Named(c, toClient[c][i])'
  BY <1>1, <1>2, NamedKept DEF MessagesOK
<1>5. ASSUME sess'[c].queued # None PROVE Named(c, sess[c].queued)'
  BY <1>1, <1>5, NamedKept DEF MessagesOK
<1>6. NotServed(cl[c].blk)'
  <2>1. NotServed(None)'
    BY DEF NotServed
  <2>2. \A j \in 1..Len(toClient[c]) : NotServed(toClient[c][j].blk)
    BY DEF MessagesOK, Named
  <2> QED BY <1>2, <1>3, <2>1, <2>2, NamedKept DEF MessagesOK
<1> QED BY <1>4, <1>5, <1>6

LEMMA OpenedFrozen ==
    ASSUME Types, NEW b \in Fresh
    PROVE  Frozen(Opened(b)) /\ Frozen([Opened(b) EXCEPT ![b].st = "closed"])
BY DEF Types, Fresh, Opened, Frozen, BlockType

LEMMA ReleasedFrozen ==
    ASSUME NEW B \in [Ids -> BlockType], Frozen(B), NEW b \in Ids \cup {None}
    PROVE  /\ Frozen(Released(B, b))
           /\ \A x \in Ids : Released(B, b)[x].st = B[x].st /\ Released(B, b)[x].data = B[x].data
BY DEF Released, Frozen, BlockType

LEMMA SameFrozen == Types => Frozen(block)
BY DEF Frozen

\* A client that reads keeps its block, and one that has read what it read.
LEMMA ReadKept ==
    ASSUME Types, ReadsOK, Frozen(block'), NEW c \in Clients, ReadOK(c), cl'[c] = cl[c]
    PROVE  ReadOK(c)'
BY DEF ReadOK, ReadsOK, Frozen

\* A session that a step has nothing to do with.
LEMMA TurnKept ==
    ASSUME NEW c \in Clients, TurnOK(c), link'[c] = link[c], cl'[c] = cl[c], toServer'[c] = toServer[c],
           toClient'[c] = toClient[c], sess'[c].queued = sess[c].queued,
           running'.c = c <=> running.c = c, running'.c = c => running' = running
    PROVE  TurnOK(c)'
BY DEF TurnOK, Quiet, Asked, Runs, IsAnswered

LEMMA ShortSeqs ==
    ASSUME NEW S, NEW s \in Seq(S)
    PROVE  /\ s # <<>> => 1 \in 1..Len(s) /\ Head(s) = s[1] /\ Head(s) \in S
           /\ Len(s) = 1 => s # <<>> /\ Tail(s) = <<>>
           /\ s = <<>> => Len(s) = 0
           /\ \A m \in S : s = <<>> => Len(Append(s, m)) = 1 /\ Append(s, m)[1] = m
<1>1. Len(s) \in Nat /\ (s = <<>> <=> Len(s) = 0)
  BY EmptySeq, LenProperties
<1>2. s # <<>> => 1 \in 1..Len(s) /\ Head(s) = s[1] /\ Head(s) \in S
  BY <1>1
<1>3. ASSUME Len(s) = 1 PROVE Tail(s) = <<>>
  <2>1. Tail(s) \in Seq(S) /\ Len(Tail(s)) = 0
    BY <1>1, <1>3, HeadTailProperties
  <2> QED BY <2>1, EmptySeq
<1>4. \A m \in S : s = <<>> => Len(Append(s, m)) = 1 /\ Append(s, m)[1] = m
  BY <1>1, AppendProperties
<1> QED BY <1>1, <1>2, <1>3, <1>4

(***************************************************************************)
(* A step of client c or of its session.                                   *)
(***************************************************************************)
Others(c) ==
    \A d \in Clients \ {c} :
        /\ link'[d] = link[d] /\ cl'[d] = cl[d] /\ toServer'[d] = toServer[d] /\ toClient'[d] = toClient[d]
        /\ sess'[d].queued = sess[d].queued
        /\ running'.c = d <=> running.c = d
        /\ running'.c = d => running' = running

FromClient(c) ==
    \A i \in 1..Len(toClient'[c]) :
        \/ \E j \in 1..Len(toClient[c]) : toClient'[c][i] = toClient[c][j]
        \/ sess[c].queued # None /\ toClient'[c][i] = sess[c].queued
        \/ Named(c, toClient[c][i])'
FromQueue(c) ==
    sess'[c].queued # None =>
        \/ sess[c].queued # None /\ sess'[c].queued = sess[c].queued
        \/ Named(c, sess[c].queued)'
FromBlock(c) ==
    \/ cl'[c].blk = cl[c].blk \/ cl'[c].blk = None
    \/ \E j \in 1..Len(toClient[c]) : cl'[c].blk = toClient[c][j].blk

LEMMA ClientMoves ==
    ASSUME IInv, IInv', RInv, NEW c \in Clients, Others(c), Frozen(block'), ServesOn, ServedOK',
           link' \in [Clients -> {"up", "closing", "down"}],
           FromClient(c), FromQueue(c), FromBlock(c), TurnOK(c)', ReadOK(c)'
    PROVE  RInv'
<1>1. Types /\ Types' /\ ReadsOK /\ MessagesOK /\ TurnsOK /\ ReadingOK
  BY DEF IInv, RInv
<1>2. \A d \in Clients : FromClient(d) /\ FromQueue(d) /\ FromBlock(d)
  <2> SUFFICES ASSUME NEW d \in Clients, d # c PROVE FromClient(d) /\ FromQueue(d) /\ FromBlock(d)
    OBVIOUS
  <2>1. toClient'[d] = toClient[d] /\ sess'[d].queued = sess[d].queued /\ cl'[d] = cl[d]
    BY DEF Others
  <2> QED BY <2>1 DEF FromClient, FromQueue, FromBlock
<1>3. MessagesOK'
  BY <1>1, <1>2, MessagesKept DEF FromClient, FromQueue, FromBlock
<1>4. \A d \in Clients : TurnOK(d)'
  <2> SUFFICES ASSUME NEW d \in Clients, d # c PROVE TurnOK(d)'
    OBVIOUS
  <2> QED BY <1>1, TurnKept DEF Others, TurnsOK
<1>5. \A d \in Clients : ReadOK(d)'
  <2> SUFFICES ASSUME NEW d \in Clients, d # c PROVE ReadOK(d)'
    OBVIOUS
  <2> QED BY <1>1, ReadKept DEF Others, ReadingOK
<1> QED BY <1>3, <1>4, <1>5 DEF RInv, TurnsOK, ReadingOK

LEMMA StillReading ==
    ASSUME RInv, UNCHANGED <<block, running, sess, link, toServer, toClient, cl>>
    PROVE  RInv'
<1>1. Served' = Served
  BY DEF Served
<1>2. ServedOK'
  BY <1>1 DEF RInv, ServedOK
<1>3. MessagesOK'
  BY <1>1 DEF RInv, MessagesOK, Named, NotServed, Answers
<1>4. TurnsOK'
  BY DEF RInv, TurnsOK, TurnOK, Quiet, Asked, Runs, IsAnswered
<1>5. ReadingOK'
  BY DEF RInv, ReadingOK, ReadOK
<1> QED BY <1>2, <1>3, <1>4, <1>5 DEF RInv

\* A response that is sent or queued, and what it makes of the session.
LEMMA Responded ==
    ASSUME Types, Types', NEW c \in Clients, NEW s \in SessionType, NEW m \in AnswerType, Respond(c, s, m),
           s.queued = sess[c].queued, Named(c, m)'
    PROVE  /\ FromClient(c) /\ FromQueue(c)
           /\ \A d \in Clients \ {c} : toClient'[d] = toClient[d] /\ sess'[d] = sess[d]
           /\ sess'[c].response = s.response
           /\ toClient[c] = <<>> =>
                 /\ Len(toClient'[c]) = 1 /\ toClient'[c][1] = m
                 /\ sess'[c].queued = s.queued
<1>0. toClient[c] \in Seq(AnswerType) /\ Len(toClient[c]) \in Nat
  BY LenProperties DEF Types
<1>1. CASE Len(toClient[c]) < Window
  <2>1. toClient' = [toClient EXCEPT ![c] = Append(@, m)] /\ sess' = [sess EXCEPT ![c] = s]
    BY <1>1 DEF Respond
  <2>2. toClient'[c] = Append(toClient[c], m) /\ sess'[c] = s
        /\ \A d \in Clients \ {c} : toClient'[d] = toClient[d] /\ sess'[d] = sess[d]
    BY <2>1 DEF Types
  <2>3. FromClient(c)
    <3> SUFFICES ASSUME NEW i \in 1..Len(toClient'[c])
                 PROVE  \/ \E j \in 1..Len(toClient[c]) : toClient'[c][i] = toClient[c][j]
                        \/ Named(c, toClient[c][i])'
      BY DEF FromClient
    <3>1. /\ Len(toClient'[c]) = Len(toClient[c]) + 1
          /\ \A j \in 1..Len(toClient[c]) : toClient'[c][j] = toClient[c][j]
          /\ toClient'[c][Len(toClient[c]) + 1] = m
      BY <2>2, <1>0, AppendProperties
    <3>2. CASE i = Len(toClient[c]) + 1
      <4>1. toClient'[c][i] = m
        BY <3>1, <3>2
      <4> QED BY <4>1 DEF Named, NotServed, Answers
    <3>3. CASE i # Len(toClient[c]) + 1
      <4>1. i \in 1..Len(toClient[c])
        BY <3>1, <3>3, <1>0
      <4> QED BY <4>1, <3>1
    <3> QED BY <3>2, <3>3
  <2>4. FromQueue(c)
    BY <2>2 DEF FromQueue
  <2> QED BY <2>2, <2>3, <2>4, <1>0, ShortSeqs
<1>2. CASE ~(Len(toClient[c]) < Window)
  <2>1. toClient' = toClient /\ sess' = [sess EXCEPT ![c] = [s EXCEPT !.queued = m]]
    BY <1>2 DEF Respond
  <2>2. sess'[c].queued = m /\ sess'[c].response = s.response
        /\ \A d \in Clients \ {c} : sess'[d] = sess[d]
    BY <2>1 DEF Types, SessionType
  <2>3. FromClient(c)
    BY <2>1 DEF FromClient
  <2>4. FromQueue(c)
    BY <2>2 DEF FromQueue, Named, NotServed, Answers
  <2>5. toClient[c] # <<>>
    BY <1>0, <1>2, UriAssumption, EmptySeq
  <2> QED BY <2>1, <2>2, <2>3, <2>4, <2>5
<1> QED BY <1>1, <1>2

-----------------------------------------------------------------------------
(***************************************************************************)
(* The steps of a session.                                                 *)
(***************************************************************************)
LEMMA SendQueuedReads ==
    ASSUME IInv, IInv', RInv, NEW c \in Clients, SendQueued(c)
    PROVE  RInv'
<1>1. Types /\ Types' /\ ReadsOK /\ TurnsOK /\ ReadingOK /\ ServedOK
  BY DEF IInv, RInv
<1>2. /\ UNCHANGED <<block, running, link, toServer, cl>> /\ link[c] = "up" /\ running.c = None
      /\ sess[c].queued # None
      /\ toClient' = [toClient EXCEPT ![c] = Append(@, sess[c].queued)]
      /\ sess' = [sess EXCEPT ![c].queued = None]
  BY DEF SendQueued, MutexFree
<1>3. sess[c] \in SessionType /\ sess[c].queued \in AnswerType
  <2>1. sess[c] \in SessionType
    BY <1>1 DEF Types
  <2> QED BY <2>1, <1>2 DEF SessionType
<1>4. sess'[c].queued = None /\ \A d \in Clients \ {c} : sess'[d] = sess[d] /\ toClient'[d] = toClient[d]
  BY <1>1, <1>2, <1>3 DEF Types, SessionType
<1>5. FromClient(c) /\ FromQueue(c) /\ FromBlock(c)
  <2>1. toClient[c] \in Seq(AnswerType) /\ toClient'[c] = Append(toClient[c], sess[c].queued)
    BY <1>1, <1>2 DEF Types
  <2>2. /\ Len(toClient'[c]) = Len(toClient[c]) + 1 /\ Len(toClient[c]) \in Nat
        /\ \A i \in 1..Len(toClient[c]) : toClient'[c][i] = toClient[c][i]
        /\ toClient'[c][Len(toClient[c]) + 1] = sess[c].queued
    BY <1>3, <2>1, AppendProperties, LenProperties
  <2>3. \A i \in 1..Len(toClient'[c]) : i \in 1..Len(toClient[c]) \/ i = Len(toClient[c]) + 1
    BY <2>2
  <2> QED BY <1>2, <1>4, <2>2, <2>3 DEF FromClient, FromQueue, FromBlock
<1>6. cl[c].late
  <2>1. cl[c].late \in BOOLEAN
    BY <1>1 DEF Types, ClientType
  <2> QED BY <1>1, <1>2, <2>1 DEF TurnsOK, TurnOK
<1>7. TurnOK(c)' /\ ReadOK(c)'
  BY <1>1, <1>2, <1>6 DEF TurnOK, ReadOK, ReadingOK
<1>8. Others(c)
  BY <1>2, <1>4 DEF Others
<1>9. Frozen(block') /\ ServesOn /\ ServedOK'
  BY <1>1, <1>2, SameFrozen DEF ServesOn, Served, ServedOK
<1> QED BY <1>1, <1>2, <1>5, <1>7, <1>8, <1>9, ClientMoves DEF TurnsOK

\* A request is taken and answered at once.
LEMMA AnsweredAtOnce ==
    ASSUME IInv, IInv', RInv, NEW c \in Clients, NEW kind \in {"Post", "Request"}, Receive(c, kind),
           UNCHANGED <<running, link, cl>>, Frozen(block'), NEW s \in SessionType, s.queued = sess[c].queued,
           NEW m \in AnswerType, Respond(c, s, m), Named(c, m)', m.req = Head(toServer[c]).req,
           m.kind = IF kind = "Post" THEN "PostResponse" ELSE "Response"
    PROVE  RInv'
<1>1. Types /\ Types' /\ ReadsOK /\ TurnsOK /\ ReadingOK /\ ServedOK
  BY DEF IInv, RInv
<1>2. /\ link[c] = "up" /\ running.c = None /\ sess[c].queued = None /\ toServer[c] # <<>>
      /\ Head(toServer[c]).kind = kind
      /\ toServer' = [toServer EXCEPT ![c] = Tail(@)]
  BY DEF Receive, MutexFree
<1>3. toServer'[c] = Tail(toServer[c]) /\ \A d \in Clients \ {c} : toServer'[d] = toServer[d]
  BY <1>1, <1>2 DEF Types
<1>4. /\ FromClient(c) /\ FromQueue(c)
      /\ \A d \in Clients \ {c} : toClient'[d] = toClient[d] /\ sess'[d] = sess[d]
      /\ toClient[c] = <<>> => Len(toClient'[c]) = 1 /\ toClient'[c][1] = m /\ sess'[c].queued = s.queued
  BY <1>1, Responded
<1>5. Others(c)
  BY <1>3, <1>4 DEF Others
<1>6. ServesOn /\ ServedOK'
  BY <1>2 DEF ServesOn, Served, ServedOK
<1>7. FromBlock(c)
  BY DEF FromBlock
<1>8. ReadOK(c)'
  BY <1>1, ReadKept DEF ReadingOK
<1>9. c # None
  BY UriAssumption
<1>10. TurnOK(c)'
  <2>1. CASE cl[c].late
    BY <1>2, <2>1 DEF TurnOK
  <2>2. CASE ~cl[c].late
    <3>1. TurnOK(c)
      BY <1>1 DEF TurnsOK
    <3>2. cl[c].pc \in {"none", "push", "postReply", "reply"}
      BY <1>1 DEF Types, ClientType
    <3>3. Asked(c) /\ cl[c].pc \in {"postReply", "reply"}
      BY <3>1, <3>2, <2>2, <1>2, <1>9 DEF TurnOK, Quiet, Runs, IsAnswered
    <3>4. toServer[c] \in Seq(RequestType)
      BY <1>1 DEF Types
    <3>5. Tail(toServer[c]) = <<>> /\ Head(toServer[c]) = toServer[c][1]
      BY <3>3, <3>4, ShortSeqs DEF Asked
    <3>6. IsAnswered(c)'
      BY <1>2, <1>3, <1>4, <1>9, <3>3, <3>5 DEF Asked, IsAnswered
    <3> QED BY <1>2, <1>4, <3>1, <3>3, <3>6, <2>2 DEF TurnOK, Asked
  <2> QED BY <2>1, <2>2
<1> QED BY <1>1, <1>4, <1>5, <1>6, <1>7, <1>8, <1>10, ClientMoves DEF TurnsOK

LEMMA ReceivePostReads ==
    ASSUME IInv, IInv', RInv, NEW c \in Clients, ReceivePost(c)
    PROVE  RInv'
<1> DEFINE m == Head(toServer[c])
           Answer(result, b) == [kind |-> "PostResponse", result |-> result, blk |-> b, req |-> m.req]
<1>1. Types /\ Types' /\ PostsOK /\ UNCHANGED <<running, link, cl>> /\ Receive(c, "Post")
  BY DEF IInv, ReceivePost
<1>2. m \in RequestType /\ running.c = None
  BY <1>1, TailFacts DEF Receive, MutexFree
<1>3. \A b \in Ids \cup {None}, r \in {"Success", "Error"} : Answer(r, b) \in AnswerType
  BY <1>2 DEF AnswerType, RequestType
<1>4. sess[c] \in SessionType /\ \A b \in Ids : [sess[c] EXCEPT !.pending = b] \in SessionType
                              /\ [sess[c] EXCEPT !.pending = b].queued = sess[c].queued
  <2>1. sess[c] \in SessionType
    BY <1>1 DEF Types
  <2> QED BY <2>1 DEF SessionType
<1>5. ASSUME NEW b \in Fresh, block' = Opened(b),
             Respond(c, [sess[c] EXCEPT !.pending = b], Answer("Success", b))
      PROVE  RInv'
  <2>1. b \in Ids /\ Frozen(block')
    BY <1>1, <1>5, OpenedFrozen DEF Fresh
  <2>2. block'[b].st = "open" /\ Served' = None
    BY <1>1, <1>2, <1>5, <2>1 DEF Opened, Types, Served
  <2>3. ASSUME NEW x, x = Answer("Success", b) PROVE Named(c, x)'
    <3>1. x.kind = "PostResponse" /\ x.blk = b
      BY <2>3
    <3> QED BY <2>2, <3>1 DEF Named, NotServed, Answers
  <2>4. PICK x \in AnswerType : x = Answer("Success", b)
    BY <1>3, <2>1
  <2>5. x.req = m.req /\ x.kind = "PostResponse"
    BY <2>4
  <2>6. Respond(c, [sess[c] EXCEPT !.pending = b], x)
    BY <1>5, <2>4
  <2>7. PICK s \in SessionType : s = [sess[c] EXCEPT !.pending = b] /\ s.queued = sess[c].queued
    BY <1>4, <2>1
  <2> HIDE DEF m, Answer
  <2> QED BY <1>1, <2>1, <2>3, <2>4, <2>5, <2>6, <2>7, AnsweredAtOnce DEF m
<1>6. ASSUME Respond(c, sess[c], Answer("Error", None)), UNCHANGED block
      PROVE  RInv'
  <2>1. Frozen(block')
    BY <1>1, <1>6, SameFrozen
  <2>3. ASSUME NEW x, x = Answer("Error", None) PROVE Named(c, x)'
    <3>1. x.blk = None
      BY <2>3
    <3> QED BY <3>1 DEF Named, NotServed, Answers
  <2>4. PICK x \in AnswerType : x = Answer("Error", None)
    BY <1>3
  <2>5. x.req = m.req /\ x.kind = "PostResponse"
    BY <2>4
  <2>6. Respond(c, sess[c], x)
    BY <1>6, <2>4
  <2> HIDE DEF m, Answer
  <2> QED BY <1>1, <1>4, <2>1, <2>3, <2>4, <2>5, <2>6, AnsweredAtOnce DEF m
<1> QED BY <1>5, <1>6 DEF ReceivePost

LEMMA RefuseRequestReads ==
    ASSUME IInv, IInv', RInv, NEW c \in Clients, RefuseRequest(c)
    PROVE  RInv'
<1> DEFINE m == Head(toServer[c])
           no == [kind |-> "Response", result |-> "Error", blk |-> None, req |-> m.req]
           No(B, s) == block' = Released(B, s.pending) /\ Respond(c, [s EXCEPT !.pending = None], no)
<1>1. Types /\ Types' /\ PostsOK /\ UNCHANGED <<running, link, cl>> /\ Receive(c, "Request")
  BY DEF IInv, RefuseRequest
<1>2. m \in RequestType
  BY <1>1, TailFacts DEF Receive
<1>3. no \in AnswerType /\ no.blk = None /\ no.req = m.req /\ no.kind = "Response"
  BY <1>2 DEF AnswerType, RequestType
<1>4. PICK x \in AnswerType : x = no /\ x.blk = None /\ x.req = m.req /\ x.kind = "Response"
  BY <1>3
<1>5. Named(c, x)'
  BY <1>4 DEF Named, NotServed, Answers
<1>6. ASSUME Frozen(block'), NEW s \in SessionType, s.queued = sess[c].queued, Respond(c, s, no)
      PROVE  RInv'
  <2>1. Respond(c, s, x)
    BY <1>4, <1>6
  <2> HIDE DEF m, no
  <2> QED BY <1>1, <1>4, <1>5, <1>6, <2>1, AnsweredAtOnce DEF m
<1>7. sess[c] \in SessionType /\ Frozen(block) /\ block \in [Ids -> BlockType]
  BY <1>1, SameFrozen DEF Types
<1>8. ASSUME NEW B \in [Ids -> BlockType], Frozen(B), NEW s \in SessionType, s.queued = sess[c].queued, No(B, s)
      PROVE  RInv'
  <2>1. s.pending \in Ids \cup {None} /\ [s EXCEPT !.pending = None] \in SessionType
        /\ [s EXCEPT !.pending = None].queued = sess[c].queued
    BY <1>8 DEF SessionType
  <2>2. Frozen(block')
    BY <1>8, <2>1, ReleasedFrozen
  <2>3. PICK z \in SessionType : z = [s EXCEPT !.pending = None] /\ z.queued = sess[c].queued
    BY <2>1
  <2>4. Respond(c, z, no)
    BY <1>8, <2>3
  <2> HIDE DEF No, no
  <2> QED BY <1>6, <2>2, <2>3, <2>4
<1>9. \/ UNCHANGED block /\ Respond(c, sess[c], no)
      \/ No(block, sess[c])
      \/ \E b \in Fresh : No([Opened(b) EXCEPT ![b].st = "closed"], [sess[c] EXCEPT !.response = b])
  BY DEF RefuseRequest
<1>10. ASSUME UNCHANGED block, Respond(c, sess[c], no) PROVE RInv'
  <2> HIDE DEF no
  <2> QED BY <1>6, <1>7, <1>10
<1>11. ASSUME No(block, sess[c]) PROVE RInv'
  <2> HIDE DEF No
  <2> QED BY <1>7, <1>8, <1>11
<1>12. ASSUME NEW b \in Fresh, No([Opened(b) EXCEPT ![b].st = "closed"], [sess[c] EXCEPT !.response = b])
       PROVE  RInv'
  <2>1. [sess[c] EXCEPT !.response = b] \in SessionType /\ [sess[c] EXCEPT !.response = b].queued = sess[c].queued
    BY <1>7 DEF SessionType, Fresh
  <2>2. [Opened(b) EXCEPT ![b].st = "closed"] \in [Ids -> BlockType]
        /\ Frozen([Opened(b) EXCEPT ![b].st = "closed"])
    BY <1>1, OpenedKeeps, OpenedFrozen
  <2> HIDE DEF No
  <2> QED BY <1>8, <1>12, <2>1, <2>2
<1> HIDE DEF No, no
<1> QED BY <1>9, <1>10, <1>11, <1>12

LEMMA BeginServiceReads ==
    ASSUME IInv, IInv', RInv, NEW c \in Clients, BeginService(c)
    PROVE  RInv'
<1> DEFINE m == Head(toServer[c])
<1>1. Types /\ Types' /\ PostsOK /\ ReadsOK /\ TurnsOK /\ ReadingOK /\ UNCHANGED <<toClient, link, cl>>
  BY DEF IInv, RInv, BeginService
<1>2. /\ link[c] = "up" /\ running.c = None /\ sess[c].queued = None /\ toServer[c] # <<>> /\ m.kind = "Request"
      /\ toServer' = [toServer EXCEPT ![c] = Tail(@)]
  BY DEF BeginService, Receive, MutexFree
<1>3. PICK b \in Fresh : block' = Opened(b) /\ sess' = [sess EXCEPT ![c].response = b]
  BY DEF BeginService
<1>4. running'.c = c /\ running'.req = m.req
  BY DEF BeginService
<1>5. sess[c] \in SessionType
  BY <1>1 DEF Types
<1>6. /\ sess'[c].response = b /\ sess'[c].queued = None
      /\ toServer'[c] = Tail(toServer[c])
      /\ \A d \in Clients \ {c} : sess'[d] = sess[d] /\ toServer'[d] = toServer[d]
  BY <1>1, <1>2, <1>3, <1>5 DEF Types, SessionType
<1>7. c # None
  BY UriAssumption
<1>8. Served' = b /\ ServesOn
  BY <1>4, <1>6, <1>7 DEF Served, ServesOn
<1>9. b \in Ids /\ block'[b].st = "open" /\ block'[b].data = NoData
  BY <1>1, <1>3 DEF Fresh, Opened, Types
<1>10. ServedOK' /\ Frozen(block')
  BY <1>1, <1>3, <1>8, <1>9, OpenedFrozen DEF ServedOK
<1>11. Others(c)
  BY <1>1, <1>2, <1>4, <1>6, UriAssumption DEF Others
<1>12. FromClient(c) /\ FromQueue(c) /\ FromBlock(c)
  BY <1>1, <1>6 DEF FromClient, FromQueue, FromBlock
<1>13. ReadOK(c)'
  BY <1>1, <1>10, ReadKept DEF ReadingOK
<1>14. TurnOK(c)'
  <2>1. CASE cl[c].late
    BY <1>1, <1>2, <2>1 DEF TurnOK
  <2>2. CASE ~cl[c].late
    <3>1. TurnOK(c)
      BY <1>1 DEF TurnsOK
    <3>2. cl[c].pc \in {"none", "push", "postReply", "reply"}
      BY <1>1 DEF Types, ClientType
    <3>3. Asked(c) /\ cl[c].pc \in {"postReply", "reply"}
      BY <3>1, <3>2, <2>2, <1>2, <1>7 DEF TurnOK, Quiet, Runs, IsAnswered
    <3>4. toServer[c] \in Seq(RequestType)
      BY <1>1 DEF Types
    <3>5. Tail(toServer[c]) = <<>> /\ m = toServer[c][1]
      BY <3>3, <3>4, ShortSeqs DEF Asked
    <3>6. cl[c].pc = "reply"
      BY <1>2, <3>2, <3>3, <3>5 DEF Asked
    <3> HIDE DEF m
    <3>7. Runs(c)'
      BY <1>1, <1>4, <1>6, <3>3, <3>5, <3>6 DEF Asked, Runs
    <3> QED BY <1>1, <1>2, <1>6, <3>6, <3>7, <2>2 DEF TurnOK
  <2> QED BY <2>1, <2>2
<1> QED BY <1>1, <1>8, <1>10, <1>11, <1>12, <1>13, <1>14, ClientMoves DEF TurnsOK

LEMMA FinishServiceReads ==
    ASSUME IInv, IInv', RInv, NEW c \in Clients, FinishService(c)
    PROVE  RInv'
<1> DEFINE b == sess[c].response
           Written(data) == [block EXCEPT ![b].st = "closed", ![b].data = IF @ = NoData THEN data ELSE @]
           Answer(result) == [kind |-> "Response", result |-> result, req |-> running.req,
                              blk |-> IF result = "Success" THEN b ELSE None]
<1>1. Types /\ Types' /\ ReadsOK /\ TurnsOK /\ ReadingOK /\ ServedOK
      /\ UNCHANGED <<link, toServer, cl>> /\ running' = NotRunning /\ running.c = c
  BY DEF IInv, RInv, FinishService
<1>2. c # None
  BY UriAssumption
<1>3. Served = b /\ b \in Ids /\ block[b].st = "open" /\ block[b].data = NoData
  BY <1>1, <1>2 DEF Served, ServedOK
<1>4. sess[c] \in SessionType /\ sess[c].pending \in Ids \cup {None} /\ running.req \in Nat
  BY <1>1 DEF Types, SessionType, RunningType
<1>5. PICK data \in {NoData, Whole(c, running.req)} : block' = Released(Written(data), sess[c].pending)
  BY DEF FinishService
<1>6. PICK result \in {"Success", "Error"} : Respond(c, [sess[c] EXCEPT !.pending = None], Answer(result))
  BY DEF FinishService
<1>7. PICK s \in SessionType : s = [sess[c] EXCEPT !.pending = None] /\ s.queued = sess[c].queued
  <2>1. [sess[c] EXCEPT !.pending = None] \in SessionType
    BY <1>4 DEF SessionType
  <2>2. [sess[c] EXCEPT !.pending = None].queued = sess[c].queued
    BY <1>4 DEF SessionType
  <2> QED BY <2>1, <2>2
<1>8. PICK m \in AnswerType : m = Answer(result)
  <2>1. Answer(result) \in AnswerType
    BY <1>3, <1>4 DEF AnswerType
  <2> QED BY <2>1
<1>9. m.kind = "Response" /\ m.req = running.req /\ m.blk \in {b, None}
  BY <1>8
<1>10. Respond(c, s, m)
  BY <1>6, <1>7, <1>8
<1>11. /\ Written(data) \in [Ids -> BlockType] /\ Frozen(Written(data))
       /\ Written(data)[b].st = "closed" /\ Written(data)[b].data = data
  <2>1. data \in DataType
    BY <1>4, DataTypes
  <2> HIDE DEF b
  <2>2. block \in [Ids -> BlockType] /\ block[b] \in BlockType
    BY <1>1, <1>3 DEF Types
  <2>3. PICK x \in BlockType : x = [block[b] EXCEPT !.st = "closed", !.data = data]
    BY <2>1, <2>2 DEF BlockType
  <2>4. x.st = "closed" /\ x.data = data
    BY <2>2, <2>3 DEF BlockType
  <2>5. Written(data) = [block EXCEPT ![b] = x]
    BY <1>3, <2>2, <2>3
  <2> HIDE DEF Written
  <2> QED BY <1>3, <2>2, <2>4, <2>5 DEF Frozen
<1> HIDE DEF Written
<1>12. Frozen(block') /\ block'[b].st = "closed" /\ block'[b].data = data
  BY <1>3, <1>4, <1>5, <1>11, ReleasedFrozen
<1>13. running'.c = None /\ Served' = None /\ ServesOn /\ ServedOK'
  BY <1>1 DEF NotRunning, Served, ServesOn, ServedOK
<1>14. Named(c, m)'
  BY <1>9, <1>12, <1>13 DEF Named, NotServed, Answers
<1> HIDE DEF b, Answer
<1>15. /\ FromClient(c) /\ FromQueue(c)
       /\ \A d \in Clients \ {c} : toClient'[d] = toClient[d] /\ sess'[d] = sess[d]
       /\ toClient[c] = <<>> => Len(toClient'[c]) = 1 /\ toClient'[c][1] = m /\ sess'[c].queued = s.queued
  BY <1>1, <1>7, <1>10, <1>14, Responded
<1>16. Others(c)
  BY <1>1, <1>13, <1>15, UriAssumption DEF Others
<1>17. FromBlock(c)
  BY <1>1 DEF FromBlock
<1>18. ReadOK(c)'
  BY <1>1, <1>12, ReadKept DEF ReadingOK
<1>19. TurnOK(c)'
  <2>0. TurnOK(c) /\ link[c] \in {"up", "closing", "down"}
    BY <1>1 DEF TurnsOK
  <2>1. CASE cl[c].late \/ link[c] # "up"
    <3>1. link[c] # "down"
      BY <1>1, <2>0 DEF TurnOK, Quiet
    <3> QED BY <1>1, <2>0, <2>1, <3>1 DEF TurnOK
  <2>2. CASE ~cl[c].late /\ link[c] = "up"
    <3>2. cl[c].pc \in {"none", "push", "postReply", "reply"}
      BY <1>1 DEF Types, ClientType
    <3>3. Runs(c) /\ sess[c].queued = None
      BY <2>0, <3>2, <2>2, <1>1 DEF TurnOK, Quiet, Asked, IsAnswered
    <3>6. IsAnswered(c)'
      BY <1>1, <1>2, <1>9, <1>13, <1>15, <3>3 DEF Runs, IsAnswered
    <3> QED BY <1>1, <1>7, <1>15, <3>3, <3>6, <2>2 DEF TurnOK, Runs
  <2> QED BY <2>1, <2>2
<1> QED BY <1>1, <1>12, <1>13, <1>15, <1>16, <1>17, <1>18, <1>19, ClientMoves DEF TurnsOK

LEMMA SessionTerminatedReads ==
    ASSUME IInv, IInv', RInv, NEW c \in Clients, SessionTerminated(c)
    PROVE  RInv'
<1>1. Types /\ Types' /\ ReadsOK /\ TurnsOK /\ ReadingOK
      /\ UNCHANGED <<running, cl>> /\ link[c] = "closing" /\ running.c = None
      /\ link' = [link EXCEPT ![c] = "down"]
      /\ block' = Released(Released(block, sess[c].response), sess[c].pending)
      /\ sess' = [sess EXCEPT ![c] = NewSession]
      /\ toServer' = [toServer EXCEPT ![c] = <<>>] /\ toClient' = [toClient EXCEPT ![c] = <<>>]
  BY DEF IInv, RInv, SessionTerminated, MutexFree
<1>2. /\ link' \in [Clients -> {"up", "closing", "down"}] /\ link'[c] = "down"
      /\ \A d \in Clients \ {c} : link'[d] = link[d]
  BY <1>1 DEF TurnsOK
<1>3. /\ toServer'[c] = <<>> /\ toClient'[c] = <<>> /\ sess'[c] = NewSession
      /\ \A d \in Clients \ {c} : toServer'[d] = toServer[d] /\ toClient'[d] = toClient[d] /\ sess'[d] = sess[d]
  BY <1>1 DEF Types
<1>4. sess'[c].queued = None
  BY <1>3 DEF NewSession
<1>5. Frozen(block')
  <2>1. sess[c].response \in Ids \cup {None} /\ sess[c].pending \in Ids \cup {None}
    BY <1>1 DEF Types, SessionType
  <2>2. block \in [Ids -> BlockType] /\ Frozen(block) /\ Keeps(block)
    BY <1>1, SameFrozen DEF Types, Keeps
  <2>3. Released(block, sess[c].response) \in [Ids -> BlockType] /\ Frozen(Released(block, sess[c].response))
    BY <2>1, <2>2, ReleasedKeeps, ReleasedFrozen
  <2> QED BY <1>1, <2>1, <2>3, ReleasedFrozen
<1>6. Others(c)
  BY <1>1, <1>2, <1>3 DEF Others
<1>7. ServesOn /\ ServedOK'
  BY <1>1 DEF ServesOn, Served, ServedOK
<1>8. FromClient(c) /\ FromQueue(c) /\ FromBlock(c)
  BY <1>1, <1>3, <1>4, EmptySeq DEF FromClient, FromQueue, FromBlock
<1>9. ReadOK(c)'
  BY <1>1, <1>5, ReadKept DEF ReadingOK
<1>10. TurnOK(c)'
  BY <1>1, <1>2, <1>3, <1>4, UriAssumption DEF TurnsOK, TurnOK, Quiet
<1> QED BY <1>2, <1>5, <1>6, <1>7, <1>8, <1>9, <1>10, ClientMoves

-----------------------------------------------------------------------------
(***************************************************************************)
(* The steps of a client.                                                  *)
(***************************************************************************)
\* A step that leaves the server alone, but for blocks and what is sent.
LEMMA ServerStands ==
    ASSUME IInv, IInv', RInv, NEW c \in Clients, UNCHANGED <<running, sess>>, Frozen(block'), ServedOK',
           link' \in [Clients -> {"up", "closing", "down"}],
           \A d \in Clients \ {c} : link'[d] = link[d] /\ cl'[d] = cl[d] /\ toServer'[d] = toServer[d]
                                    /\ toClient'[d] = toClient[d],
           toClient' = toClient \/ (toClient[c] # <<>> /\ toClient'[c] = Tail(toClient[c])),
           FromBlock(c), TurnOK(c)', ReadOK(c)'
    PROVE  RInv'
<1>1. Types
  BY DEF IInv
<1>2. Others(c) /\ ServesOn /\ FromQueue(c)
  BY DEF Others, ServesOn, Served, FromQueue
<1>3. FromClient(c)
  <2>1. CASE toClient' = toClient
    BY <2>1 DEF FromClient
  <2>2. CASE toClient[c] # <<>> /\ toClient'[c] = Tail(toClient[c])
    <3>1. toClient[c] \in Seq(AnswerType) /\ Len(toClient[c]) \in Nat
      BY <1>1, LenProperties DEF Types
    <3>2. Len(toClient'[c]) = Len(toClient[c]) - 1
          /\ \A i \in 1..Len(toClient'[c]) : toClient'[c][i] = toClient[c][i + 1]
      BY <2>2, <3>1, HeadTailProperties
    <3>3. \A i \in 1..Len(toClient'[c]) : i + 1 \in 1..Len(toClient[c])
      BY <3>1, <3>2
    <3> QED BY <3>2, <3>3 DEF FromClient
  <2> QED BY <2>1, <2>2
<1> QED BY <1>2, <1>3, ClientMoves

LEMMA RequestURIReads ==
    ASSUME IInv, IInv', RInv, NEW c \in Clients, NEW s \in Services, NEW post \in Posts, RequestURI(c, s, post)
    PROVE  RInv'
<1> DEFINE wait == IF post = "block" THEN "postReply" ELSE "reply"
           next == cl[c].req + 1
           kind == IF post = "block" THEN "Post" ELSE "Request"
           m == [kind |-> kind, req |-> cl'[c].req, svc |-> cl'[c].svc, post |-> cl'[c].post, blk |-> None]
<1>1. Types /\ Types' /\ TurnsOK /\ ServedOK /\ UNCHANGED <<block, running, sess, link, toClient>>
      /\ cl' = [cl EXCEPT ![c] = [NewClient EXCEPT !.req = next, !.svc = s, !.post = post, !.late = cl[c].late,
                                                  !.pc = wait]]
      /\ toServer' = [toServer EXCEPT ![c] = Append(@, m)]
      /\ link[c] = "up" /\ cl[c].pc = "none"
  BY DEF IInv, RInv, RequestURI, SendRequest, Waits
<1>2. /\ cl'[c].req = next /\ cl'[c].late = cl[c].late /\ cl'[c].pc = wait /\ cl'[c].blk = None
      /\ cl'[c].state = "Idle" /\ cl'[c].got = NoData
  BY <1>1 DEF Types, NewClient
<1>3. cl'[c] \in ClientType /\ toServer[c] \in Seq(RequestType)
  BY <1>1 DEF Types
<1>4. m \in RequestType
  BY <1>3 DEF ClientType, RequestType
<1>5. PICK x \in RequestType : x = m /\ x.kind = kind /\ x.req = cl'[c].req
  BY <1>4
<1>6. /\ toServer'[c] = Append(toServer[c], x)
      /\ \A d \in Clients \ {c} : toServer'[d] = toServer[d] /\ cl'[d] = cl[d]
  BY <1>1, <1>5 DEF Types
<1> HIDE DEF m
<1>7. TurnOK(c)'
  <2>1. CASE cl[c].late
    BY <1>1, <1>2, <2>1 DEF TurnOK
  <2>2. CASE ~cl[c].late
    <3>1. TurnOK(c)
      BY <1>1 DEF TurnsOK
    <3>2. Quiet(c) /\ sess[c].queued = None
      BY <1>1, <2>2, <3>1 DEF TurnOK
    <3>3. Len(toServer'[c]) = 1 /\ toServer'[c][1] = x
      BY <1>3, <1>6, <3>2, ShortSeqs DEF Quiet
    <3>4. Asked(c)'
      BY <1>1, <1>2, <1>5, <3>2, <3>3 DEF Asked, Quiet
    <3> QED BY <1>1, <1>2, <2>2, <3>2, <3>4 DEF TurnOK
  <2> QED BY <2>1, <2>2
<1>8. ReadOK(c)'
  BY <1>2 DEF ReadOK
<1>9. FromBlock(c)
  BY <1>2 DEF FromBlock
<1>10. Frozen(block') /\ ServedOK'
  BY <1>1, SameFrozen DEF ServedOK, Served
<1> QED BY <1>1, <1>6, <1>7, <1>8, <1>9, <1>10, ServerStands DEF TurnsOK

\* What a push does to the blocks.
LEMMA PushFrozen ==
    ASSUME Types, ServedOK, MessagesOK, NEW c \in Clients, Pushable(c), block' = Pushed(c), UNCHANGED <<running, sess>>
    PROVE  Frozen(block') /\ ServedOK'
<1>1. cl[c].blk \in Ids /\ block[cl[c].blk].st = "open"
  BY DEF Types, ClientType, Pushable
<1>2. cl[c].blk # Served /\ Served' = Served
  BY <1>1 DEF MessagesOK, NotServed, Served, Pushable
<1>3. /\ block'[cl[c].blk].st = "closed"
      /\ \A b \in Ids : b # cl[c].blk => block'[b] = block[b]
  BY <1>1 DEF Types, Pushed, BlockType
<1>4. Frozen(block')
  BY <1>1, <1>3 DEF Frozen
<1> QED BY <1>2, <1>3, <1>4 DEF ServedOK

LEMMA PushReads ==
    ASSUME IInv, IInv', RInv, NEW c \in Clients, PushPostData(c) \/ PushPostDataFails(c)
    PROVE  RInv'
<1>1. Types /\ Types' /\ TurnsOK /\ ReadingOK /\ ReadsOK /\ ServedOK /\ MessagesOK
      /\ UNCHANGED <<running, sess, link, toClient>> /\ link[c] = "up" /\ cl[c].pc = "push"
      /\ TurnOK(c) /\ ReadOK(c)
  BY DEF IInv, RInv, PushPostData, PushPostDataFails, Waits, wires, TurnsOK, ReadingOK
<1>2. Frozen(block') /\ ServedOK'
  <2>1. CASE UNCHANGED block
    BY <1>1, <2>1, SameFrozen DEF ServedOK, Served
  <2>2. CASE Pushable(c) /\ block' = Pushed(c)
    BY <1>1, <2>2, PushFrozen
  <2> QED BY <2>1, <2>2 DEF PushPostData, PushPostDataFails
<1>3. cl[c] \in ClientType /\ cl[c].state # "ReadResponse"
  BY <1>1 DEF Types, ReadsOK
<1>4. PICK pc \in {"none", "reply"} : cl' = [cl EXCEPT ![c].pc = pc]
  BY DEF PushPostData, PushPostDataFails
<1>5. /\ cl'[c].pc = pc /\ cl'[c].blk = cl[c].blk /\ cl'[c].late = cl[c].late /\ cl'[c].req = cl[c].req
      /\ cl'[c].state = cl[c].state /\ cl'[c].got = cl[c].got
      /\ \A d \in Clients \ {c} : cl'[d] = cl[d]
  BY <1>1, <1>3, <1>4 DEF Types, ClientType
<1>6. FromBlock(c)
  BY <1>5 DEF FromBlock
<1>7. ReadOK(c)'
  BY <1>1, <1>3, <1>5 DEF ReadOK
<1>8. /\ \A d \in Clients \ {c} : toServer'[d] = toServer[d]
      /\ TurnOK(c)'
  <2>1. CASE PushPostData(c)
    <3> DEFINE m == [kind |-> "Request", req |-> cl'[c].req, svc |-> cl'[c].svc, post |-> cl'[c].post,
                     blk |-> cl[c].blk]
    <3>1. toServer' = [toServer EXCEPT ![c] = Append(@, m)] /\ cl' = [cl EXCEPT ![c].pc = "reply"]
      BY <2>1 DEF PushPostData, SendRequest
    <3>2. cl'[c] \in ClientType /\ toServer[c] \in Seq(RequestType) /\ cl'[c].pc = "reply"
      BY <1>1, <1>3, <3>1 DEF Types, ClientType
    <3>3. m \in RequestType
      BY <1>3, <3>2 DEF ClientType, RequestType
    <3>4. PICK x \in RequestType : x = m /\ x.kind = "Request" /\ x.req = cl[c].req
      BY <1>5, <3>3
    <3>5. toServer'[c] = Append(toServer[c], x) /\ \A d \in Clients \ {c} : toServer'[d] = toServer[d]
      BY <1>1, <3>1, <3>4 DEF Types
    <3> HIDE DEF m
    <3>6. CASE cl[c].late
      BY <1>1, <1>5, <3>5, <3>6 DEF TurnOK
    <3>7. CASE ~cl[c].late
      <4>1. Quiet(c) /\ sess[c].queued = None
        BY <1>1, <3>7 DEF TurnOK
      <4>2. Len(toServer'[c]) = 1 /\ toServer'[c][1] = x
        BY <3>2, <3>5, <4>1, ShortSeqs DEF Quiet
      <4>3. Asked(c)'
        BY <1>1, <1>5, <3>2, <3>4, <4>1, <4>2 DEF Asked, Quiet
      <4> QED BY <1>1, <1>5, <3>2, <3>5, <3>7, <4>1, <4>3 DEF TurnOK
    <3> QED BY <3>6, <3>7
  <2>2. CASE PushPostDataFails(c)
    <3>1. toServer' = toServer /\ cl'[c].pc = "none"
      <4>1. cl' = [cl EXCEPT ![c].pc = "none"] /\ toServer' = toServer
        BY <2>2 DEF PushPostDataFails, wires
      <4> QED BY <4>1, <1>1, <1>3 DEF Types, ClientType
    <3> QED BY <1>1, <1>5, <3>1 DEF TurnOK, Quiet
  <2> QED BY <2>1, <2>2
<1> QED BY <1>1, <1>2, <1>5, <1>6, <1>7, <1>8, ServerStands DEF TurnsOK

LEMMA AnswersRead ==
    ASSUME IInv, IInv', RInv, NEW c \in Clients, PostAnswered(c) \/ Answered(c)
    PROVE  RInv'
<1> DEFINE m == Head(toClient[c])
           opens == m.kind = "Response" /\ m.result = "Success" /\ m.blk # None
                      /\ block[m.blk].registered /\ block[m.blk].st = "closed"
                      /\ block[m.blk].data # NoData
<1>1. Types /\ Types' /\ TurnsOK /\ ReadingOK /\ ReadsOK /\ ServedOK /\ MessagesOK
      /\ UNCHANGED <<block, running, sess, link, toServer>> /\ link[c] = "up"
      /\ toClient[c] # <<>> /\ toClient' = [toClient EXCEPT ![c] = Tail(@)]
      /\ cl[c].pc \in {"postReply", "reply"} /\ TurnOK(c) /\ ReadOK(c)
  BY DEF IInv, RInv, PostAnswered, Answered, Take, Waits, TurnsOK, ReadingOK
<1>2. cl[c] \in ClientType /\ cl[c].state = "Idle" /\ toClient[c] \in Seq(AnswerType)
  BY <1>1 DEF Types, ClientType, ReadsOK
<1>3. 1 \in 1..Len(toClient[c]) /\ m = toClient[c][1] /\ Named(c, m)
  BY <1>1, <1>2, ShortSeqs DEF MessagesOK
<1>4. toClient'[c] = Tail(toClient[c]) /\ \A d \in Clients \ {c} : toClient'[d] = toClient[d]
  BY <1>1 DEF Types
<1>5. /\ cl'[c].late = cl[c].late /\ cl'[c].req = cl[c].req /\ cl'[c].got = cl[c].got
      /\ cl'[c].pc \in {"none", "push"} /\ cl'[c].blk \in {None, m.blk}
      /\ cl'[c].state = "ReadResponse" => Answered(c) /\ opens /\ cl'[c].blk = m.blk
      /\ \A d \in Clients \ {c} : cl'[d] = cl[d]
  <2>1. CASE PostAnswered(c)
    <3>1. cl' = [cl EXCEPT ![c].pc = IF m.result = "Success" THEN "push" ELSE "none",
                           ![c].blk = IF m.result = "Success" THEN m.blk ELSE None]
      BY <2>1 DEF PostAnswered
    <3> HIDE DEF m
    <3> QED BY <1>1, <1>2, <3>1 DEF Types, ClientType
  <2>2. CASE Answered(c)
    <3>1. cl' = [cl EXCEPT ![c].pc = "none", ![c].state = IF opens THEN "ReadResponse" ELSE @,
                           ![c].blk = IF opens THEN m.blk ELSE None]
      BY <2>2 DEF Answered
    <3> HIDE DEF m, opens
    <3> QED BY <1>1, <1>2, <2>2, <3>1 DEF Types, ClientType
  <2> QED BY <2>1, <2>2
<1>6. ASSUME ~cl[c].late PROVE IsAnswered(c) /\ sess[c].queued = None
  BY <1>1, <1>6 DEF TurnOK, Asked, Runs
<1>7. TurnOK(c)'
  <2>1. CASE cl[c].late
    BY <1>1, <1>5, <2>1 DEF TurnOK
  <2>2. CASE ~cl[c].late
    <3>1. toClient'[c] = <<>>
      BY <1>2, <1>4, <1>6, <2>2, ShortSeqs DEF IsAnswered
    <3> QED BY <1>1, <1>5, <1>6, <2>2, <3>1 DEF TurnOK, Quiet, IsAnswered
  <2> QED BY <2>1, <2>2
<1>8. ReadOK(c)'
  <2>1. ASSUME cl'[c].state = "ReadResponse", ~cl[c].late
        PROVE  block[m.blk].st = "closed" /\ block[m.blk].data = Whole(c, cl[c].req)
    <3>1. opens /\ m.req = cl[c].req
      BY <1>3, <1>5, <1>6, <2>1 DEF IsAnswered
    <3> QED BY <1>3, <3>1 DEF Named, Answers
  <2>2. cl'[c].state = "ReadResponse" => cl'[c].blk = m.blk
    BY <1>5
  <2> HIDE DEF m
  <2> QED BY <1>1, <1>5, <2>1, <2>2 DEF ReadOK
<1>9. FromBlock(c)
  BY <1>3, <1>5 DEF FromBlock
<1>10. Frozen(block') /\ ServedOK'
  BY <1>1, SameFrozen DEF ServedOK, Served
<1> HIDE DEF m, opens
<1> QED BY <1>1, <1>4, <1>5, <1>7, <1>8, <1>9, <1>10, ServerStands DEF TurnsOK

LEMMA OtherReads ==
    ASSUME IInv, IInv', RInv, NEW c \in Clients,
           ReadResponse(c) \/ AbortRequest(c) \/ GiveUp(c) \/ Connect(c) \/ Disconnect(c)
    PROVE  RInv'
<1>1. Types /\ Types' /\ TurnsOK /\ ReadingOK /\ ReadsOK /\ ServedOK
      /\ UNCHANGED <<block, running, sess, toServer, toClient>> /\ TurnOK(c) /\ ReadOK(c)
  BY DEF IInv, RInv, ReadResponse, AbortRequest, GiveUp, Connect, Disconnect, wires, TurnsOK, ReadingOK
<1>2. cl[c] \in ClientType
  BY <1>1 DEF Types
<1>3. Frozen(block') /\ ServedOK'
  BY <1>1, SameFrozen DEF ServedOK, Served
<1>4. ASSUME link' \in [Clients -> {"up", "closing", "down"}],
             \A d \in Clients \ {c} : link'[d] = link[d] /\ cl'[d] = cl[d],
             cl'[c].blk \in {cl[c].blk, None}, TurnOK(c)', ReadOK(c)'
      PROVE  RInv'
  BY <1>1, <1>3, <1>4, ServerStands DEF FromBlock
<1>5. CASE ReadResponse(c)
  <2>1. link' = link /\ cl' = [cl EXCEPT ![c].state = "Idle", ![c].got = block[cl[c].blk].data]
        /\ cl[c].state = "ReadResponse" /\ cl[c].pc = "none" /\ link[c] = "up"
    BY <1>5 DEF ReadResponse, Waits
  <2>2. /\ cl'[c].state = "Idle" /\ cl'[c].got = block[cl[c].blk].data /\ cl'[c].late = cl[c].late
        /\ cl'[c].pc = cl[c].pc /\ cl'[c].blk = cl[c].blk /\ cl'[c].req = cl[c].req
        /\ \A d \in Clients \ {c} : cl'[d] = cl[d]
    BY <1>1, <1>2, <2>1 DEF Types, ClientType
  <2>3. TurnOK(c)'
    BY <1>1, <2>1, <2>2 DEF TurnOK, Quiet
  <2>4. ReadOK(c)'
    BY <1>1, <2>1, <2>2 DEF ReadOK
  <2> QED BY <1>1, <1>4, <2>1, <2>2, <2>3, <2>4 DEF TurnsOK
<1>6. CASE AbortRequest(c)
  <2>1. link' = link /\ cl' = [cl EXCEPT ![c].state = "Idle"] /\ link[c] = "up" /\ cl[c].pc = "none"
    BY <1>6 DEF AbortRequest, wires, Waits
  <2>2. /\ cl'[c].state = "Idle" /\ cl'[c].got = cl[c].got /\ cl'[c].late = cl[c].late
        /\ cl'[c].pc = cl[c].pc /\ cl'[c].blk = cl[c].blk /\ cl'[c].req = cl[c].req
        /\ \A d \in Clients \ {c} : cl'[d] = cl[d]
    BY <1>1, <1>2, <2>1 DEF Types, ClientType
  <2>3. TurnOK(c)'
    BY <1>1, <2>1, <2>2 DEF TurnOK, Quiet
  <2>4. ReadOK(c)'
    BY <1>1, <2>2 DEF ReadOK
  <2> QED BY <1>1, <1>4, <2>1, <2>2, <2>3, <2>4 DEF TurnsOK
<1>7. CASE GiveUp(c)
  <2>1. link' = link /\ cl' = [cl EXCEPT ![c].pc = "none", ![c].late = TRUE] /\ link[c] = "up"
    BY <1>7 DEF GiveUp, wires
  <2>2. cl'[c].late = TRUE /\ cl'[c].blk = cl[c].blk /\ \A d \in Clients \ {c} : cl'[d] = cl[d]
    BY <1>1, <1>2, <2>1 DEF Types, ClientType
  <2> QED BY <1>1, <1>4, <2>1, <2>2 DEF TurnsOK, TurnOK, ReadOK
<1>8. CASE Connect(c)
  <2>1. link' = [link EXCEPT ![c] = "up"] /\ cl' = cl /\ link[c] = "down"
    BY <1>8 DEF Connect
  <2>2. /\ link' \in [Clients -> {"up", "closing", "down"}] /\ link'[c] = "up"
        /\ \A d \in Clients \ {c} : link'[d] = link[d]
    BY <1>1, <2>1 DEF TurnsOK
  <2>3. TurnOK(c)'
    BY <1>1, <2>1, <2>2 DEF TurnOK, Quiet
  <2>4. ReadOK(c)'
    BY <1>1, <2>1 DEF ReadOK
  <2> QED BY <1>4, <2>1, <2>2, <2>3, <2>4
<1>9. CASE Disconnect(c)
  <2>1. link' = [link EXCEPT ![c] = "closing"] /\ cl' = [cl EXCEPT ![c] = [NewClient EXCEPT !.req = cl[c].req]]
    BY <1>9 DEF Disconnect
  <2>2. /\ link' \in [Clients -> {"up", "closing", "down"}] /\ link'[c] = "closing"
        /\ \A d \in Clients \ {c} : link'[d] = link[d]
    BY <1>1, <2>1 DEF TurnsOK
  <2>3. /\ cl'[c].state = "Idle" /\ cl'[c].got = NoData /\ cl'[c].pc = "none" /\ cl'[c].blk = None
        /\ \A d \in Clients \ {c} : cl'[d] = cl[d]
    BY <1>1, <2>1 DEF Types, NewClient
  <2>4. TurnOK(c)' /\ ReadOK(c)'
    BY <2>2, <2>3 DEF TurnOK, ReadOK
  <2> QED BY <1>4, <2>2, <2>3, <2>4
<1> QED BY <1>5, <1>6, <1>7, <1>8, <1>9

LEMMA NextReads == IInv /\ IInv' /\ RInv /\ [Next]_vars => RInv'
<1> SUFFICES ASSUME IInv, IInv', RInv, [Next]_vars PROVE RInv'
  OBVIOUS
<1>1. CASE UNCHANGED vars
  BY <1>1, StillReading DEF vars
<1>2. ASSUME NEW s \in Services, RegisterService(s) \/ UnregisterService(s) PROVE RInv'
  BY <1>2, StillReading DEF RegisterService, UnregisterService, wires
<1>3. ASSUME NEW c \in Clients, ServerStep(c) PROVE RInv'
  BY <1>3, SendQueuedReads, ReceivePostReads, BeginServiceReads, RefuseRequestReads, FinishServiceReads,
     SessionTerminatedReads DEF ServerStep
<1>4. ASSUME NEW c \in Clients, ClientStep(c) PROVE RInv'
  BY <1>4, AnswersRead, PushReads DEF ClientStep
<1>5. ASSUME NEW c \in Clients, NEW s \in Services, NEW post \in Posts, RequestURI(c, s, post) PROVE RInv'
  BY <1>5, RequestURIReads
<1>6. ASSUME NEW c \in Clients,
             ReadResponse(c) \/ AbortRequest(c) \/ GiveUp(c) \/ Connect(c) \/ Disconnect(c)
      PROVE  RInv'
  BY <1>6, OtherReads
<1> QED BY <1>1, <1>2, <1>3, <1>4, <1>5, <1>6 DEF Next

LEMMA ReadsHold == Spec => []RInv
<1>1. Init => RInv
  BY InitReading
<1>2. IInv /\ IInv' /\ RInv /\ [Next]_vars => RInv'
  BY NextReads
<1> QED BY <1>1, <1>2, InvHolds, PTL DEF Spec

(***************************************************************************)
(* What a client has read since its last request is the whole response to  *)
(* that request, as long as no request of its session has timed out:       *)
(* whatever posts, refusals, failed pushes, aborted reads, reconnections   *)
(* and other clients come between.                                         *)
(***************************************************************************)
THEOREM ResponseIsOfRequest == Spec => []ReadsOwnResponse
<1>1. RInv => ReadsOwnResponse
  BY DEF RInv, ReadingOK, ReadOK, ReadsOwnResponse
<1> QED BY <1>1, ReadsHold, PTL

(***************************************************************************)
(* A service is given the post data of the very request it handles, all of *)
(* it or none: also after timeouts, failed pushes, refusals, aborted reads *)
(* and reconnections, which leave blocks and responses behind.             *)
(***************************************************************************)
THEOREM PostDataIsOfRequest == Spec => []PostDataIsOwn
<1>1. IInv => PostDataIsOwn
  BY DEF IInv, ServicesOK
<1> QED BY <1>1, InvHolds, PTL

(***************************************************************************)
(* A service that UnregisterService has removed is not running, although   *)
(* the request for it may have been received before.                       *)
(***************************************************************************)
THEOREM RemovedServiceIsQuiet == Spec => []UnregisteredIsQuiet
<1>1. IInv => UnregisteredIsQuiet
  BY UriAssumption DEF IInv, Types, ServicesOK, UnregisteredIsQuiet, NotRunning
<1> QED BY <1>1, InvHolds, PTL
=============================================================================
