--------------------------------- MODULE Uri ---------------------------------
(***************************************************************************)
(* Requests to services by URI: URIServer with its services and one        *)
(* URISession per session, and URIClients.  Data that does not fit in a    *)
(* message is pushed into a block the server opens for it, and a response  *)
(* is pulled from a block; a transfer is one step here that succeeds or    *)
(* fails (see Transfer).                                                   *)
(*                                                                         *)
(* A service runs inside the message thread, under the mutex of the        *)
(* server; applications register and remove services from other threads.   *)
(***************************************************************************)
EXTENDS Naturals, Sequences, FiniteSets

CONSTANTS
    Clients, Services, None,
    NumBlocks,        \* blocks the server may open
    MaxRequests,      \* bound on the requests of one client
    Window,           \* messages a session accepts
    Posts,            \* "none", "inline" and "block": the kinds of post data
    TimeOuts,         \* a client may give up waiting
    PushFails         \* a push may fail

ASSUME UriAssumption ==
    /\ NumBlocks \in Nat /\ MaxRequests \in Nat /\ Window \in Nat \ {0}
    /\ Posts \subseteq {"none", "inline", "block"}
    /\ TimeOuts \in BOOLEAN /\ PushFails \in BOOLEAN
    /\ None \notin Clients \cup Services

VARIABLES
    services,    \* m_registeredServices
    gone,        \* services whose UnregisterService has returned
    block,       \* the blocks of the transfer manager, by id
    running,     \* the request a service is handling, under m_mutex
    sess,        \* the URISession of each client
    link, toServer, toClient,
    cl           \* each URIClient

vars == <<services, gone, block, running, sess, link, toServer, toClient, cl>>
wires == <<toServer, toClient>>

Ids == 1..NumBlocks
\* What a block or a message holds: the data of one request, all of it or not.
NoData == [c |-> None, n |-> 0, whole |-> FALSE]
Whole(c, n) == [c |-> c, n |-> n, whole |-> TRUE]

NoBlock == [st |-> "unused", registered |-> FALSE, data |-> NoData]
NewSession == [response |-> None, pending |-> None, queued |-> None]
NewClient == [pc |-> "none", state |-> "Idle", req |-> 0, svc |-> None, post |-> "none", blk |-> None,
              got |-> NoData, late |-> FALSE]
NotRunning == [c |-> None, svc |-> None, req |-> 0, data |-> NoData]

TypeOK ==
    /\ services \subseteq Services /\ gone \subseteq Services
    /\ \A b \in Ids : block[b].st \in {"unused", "open", "closed"} /\ block[b].registered \in BOOLEAN
    /\ running.c \in Clients \cup {None}
    /\ \A c \in Clients :
          /\ sess[c].response \in Ids \cup {None} /\ sess[c].pending \in Ids \cup {None}
          /\ link[c] \in {"up", "closing", "down"}
          /\ Len(toServer[c]) <= Window /\ Len(toClient[c]) <= Window
          /\ cl[c].pc \in {"none", "postReply", "push", "reply"}
          /\ cl[c].state \in {"Idle", "ReadResponse"} /\ cl[c].blk \in Ids \cup {None}
          /\ cl[c].state = "ReadResponse" => block[cl[c].blk].st = "closed"

Init ==
    /\ services = {} /\ gone = {}
    /\ block = [b \in Ids |-> NoBlock]
    /\ running = NotRunning
    /\ sess = [c \in Clients |-> NewSession]
    /\ link = [c \in Clients |-> "up"]
    /\ toServer = [c \in Clients |-> <<>>] /\ toClient = [c \in Clients |-> <<>>]
    /\ cl = [c \in Clients |-> NewClient]

-----------------------------------------------------------------------------
(***************************************************************************)
(* Services, from threads of the application.                              *)
(***************************************************************************)
MutexFree == running.c = None

RegisterService(s) ==
    /\ MutexFree /\ s \notin services
    /\ services' = services \cup {s}
    /\ gone' = gone \ {s}
    /\ UNCHANGED <<block, running, sess, link, wires, cl>>

\* Changed: without the mutex.
UnregisterServiceUnlocked(s) ==
    /\ s \in services
    /\ services' = services \ {s}
    /\ gone' = gone \cup {s}
    /\ UNCHANGED <<block, running, sess, link, wires, cl>>

UnregisterService(s) ==
    /\ MutexFree /\ s \in services
    /\ services' = services \ {s}
    /\ gone' = gone \cup {s}
    /\ UNCHANGED <<block, running, sess, link, wires, cl>>

-----------------------------------------------------------------------------
(***************************************************************************)
(* URISession::Update.                                                     *)
(***************************************************************************)
Fresh == {b \in Ids : block[b].st = "unused"}
Opened(b) == [block EXCEPT ![b] = [st |-> "open", registered |-> TRUE, data |-> NoData]]
\* CloseServerBlock, for a block or none.
Released(B, b) == IF b = None THEN B ELSE [B EXCEPT ![b].registered = FALSE]

\* The response is sent, or queued if the window is full.
Respond(c, s, m) ==
    IF Len(toClient[c]) < Window
    THEN toClient' = [toClient EXCEPT ![c] = Append(@, m)] /\ sess' = [sess EXCEPT ![c] = s]
    ELSE sess' = [sess EXCEPT ![c] = [s EXCEPT !.queued = m]] /\ UNCHANGED toClient

\* Changed: the response stays queued.
SendQueuedNever(c) == FALSE /\ UNCHANGED vars

SendQueued(c) ==
    /\ link[c] = "up" /\ MutexFree /\ sess[c].queued # None /\ Len(toClient[c]) < Window
    /\ toClient' = [toClient EXCEPT ![c] = Append(@, sess[c].queued)]
    /\ sess' = [sess EXCEPT ![c].queued = None]
    /\ UNCHANGED <<services, gone, block, running, link, toServer, cl>>

Receive(c, kind) ==
    /\ link[c] = "up" /\ MutexFree /\ sess[c].queued = None
    /\ toServer[c] # <<>> /\ Head(toServer[c]).kind = kind
    /\ toServer' = [toServer EXCEPT ![c] = Tail(@)]

\* A URIPostRequest: a block for the data, if the service is there and takes
\* that much.
ReceivePost(c) ==
    /\ Receive(c, "Post")
    /\ LET m == Head(toServer[c])
           Answer(result, b) == [kind |-> "PostResponse", result |-> result, blk |-> b, req |-> m.req]
       IN  \/ /\ m.svc \in services
              /\ \E b \in Fresh :
                    /\ block' = Opened(b)
                    /\ Respond(c, [sess[c] EXCEPT !.pending = b], Answer("Success", b))
           \/ Respond(c, sess[c], Answer("Error", None)) /\ UNCHANGED block
    /\ UNCHANGED <<services, gone, running, link, cl>>

\* The post data of a request is where the session expects it.
PostIsGood(c, m) ==
    CASE m.post = "block" ->
            sess[c].pending # None /\ sess[c].pending = m.blk /\ block[m.blk].data.whole
      [] m.post = "inline" -> sess[c].pending = None
      [] OTHER -> TRUE

\* Changed: the block of the last response is used again.
BeginServiceAgain(c) ==
    /\ Receive(c, "Request")
    /\ LET m == Head(toServer[c]) IN
       /\ PostIsGood(c, m) /\ m.svc \in services
       /\ IF sess[c].response # None THEN UNCHANGED <<block, sess>>
          ELSE \E b \in Fresh : block' = Opened(b) /\ sess' = [sess EXCEPT ![c].response = b]
       /\ running' = [c |-> c, svc |-> m.svc, req |-> m.req, data |-> NoData]
    /\ UNCHANGED <<services, gone, toClient, link, cl>>

\* Changed: post data is taken from the pending block, whatever the request.
BeginServicePending(c) ==
    /\ Receive(c, "Request")
    /\ LET m == Head(toServer[c]) IN
       /\ PostIsGood(c, m) /\ m.svc \in services
       /\ \E b \in Fresh : block' = Opened(b) /\ sess' = [sess EXCEPT ![c].response = b]
       /\ running' = [c |-> c, svc |-> m.svc, req |-> m.req,
                      data |-> IF sess[c].pending = None THEN NoData ELSE block[sess[c].pending].data]
    /\ UNCHANGED <<services, gone, toClient, link, cl>>

\* A URIRequest whose service exists: it begins to handle the request.
BeginService(c) ==
    /\ Receive(c, "Request")
    /\ LET m == Head(toServer[c]) IN
       /\ PostIsGood(c, m) /\ m.svc \in services
       /\ \E b \in Fresh :
             /\ block' = Opened(b)
             /\ sess' = [sess EXCEPT ![c].response = b]
       /\ running' = [c |-> c, svc |-> m.svc, req |-> m.req,
                      data |-> CASE m.post = "block" -> block[m.blk].data
                                 [] m.post = "inline" -> Whole(c, m.req)
                                 [] OTHER -> NoData]
    /\ UNCHANGED <<services, gone, toClient, link, cl>>

\* The request is refused: a parse error, bad post data or no such service.
RefuseRequest(c) ==
    /\ Receive(c, "Request")
    /\ LET m == Head(toServer[c])
           No(B, s) == /\ block' = Released(B, s.pending)
                       /\ Respond(c, [s EXCEPT !.pending = None],
                                  [kind |-> "Response", result |-> "Error", blk |-> None, req |-> m.req])
       IN  \/ /\ UNCHANGED block
              /\ Respond(c, sess[c], [kind |-> "Response", result |-> "Error", blk |-> None, req |-> m.req])
           \/ ~PostIsGood(c, m) /\ No(block, sess[c])
           \/ /\ PostIsGood(c, m) /\ m.svc \notin services
              /\ \E b \in Fresh : No([Opened(b) EXCEPT ![b].st = "closed"], [sess[c] EXCEPT !.response = b])
    /\ UNCHANGED <<services, gone, running, link, cl>>

\* The service has written its response, if it has one, or failed.
FinishService(c) ==
    /\ running.c = c
    /\ LET b == sess[c].response
           Written(data) == [block EXCEPT ![b].st = "closed", ![b].data = IF @ = NoData THEN data ELSE @]
       IN  /\ \E data \in {NoData, Whole(c, running.req)} : block' = Released(Written(data), sess[c].pending)
           /\ \E result \in {"Success", "Error"} :
                 Respond(c, [sess[c] EXCEPT !.pending = None],
                         [kind |-> "Response", result |-> result, req |-> running.req,
                          blk |-> IF result = "Success" THEN b ELSE None])
    /\ running' = NotRunning
    /\ UNCHANGED <<services, gone, link, toServer, cl>>

\* SessionTerminated and ~URISession.
SessionTerminated(c) ==
    /\ link[c] = "closing" /\ MutexFree
    /\ link' = [link EXCEPT ![c] = "down"]
    /\ block' = Released(Released(block, sess[c].response), sess[c].pending)
    /\ sess' = [sess EXCEPT ![c] = NewSession]
    /\ toServer' = [toServer EXCEPT ![c] = <<>>] /\ toClient' = [toClient EXCEPT ![c] = <<>>]
    /\ UNCHANGED <<services, gone, running, cl>>

-----------------------------------------------------------------------------
(***************************************************************************)
(* URIClient.                                                              *)
(***************************************************************************)
Waits(c, pc) == link[c] = "up" /\ cl[c].pc = pc
Take(c, pc) == Waits(c, pc) /\ toClient[c] # <<>> /\ toClient' = [toClient EXCEPT ![c] = Tail(@)]
SendRequest(c, kind, blk) ==
    /\ Len(toServer[c]) < Window
    /\ toServer' = [toServer EXCEPT ![c] = Append(@, [kind |-> kind, req |-> cl'[c].req, svc |-> cl'[c].svc,
                                                     post |-> cl'[c].post, blk |-> blk])]

\* RequestURI, up to its first wait.
RequestURI(c, s, post) ==
    /\ Waits(c, "none") /\ cl[c].state = "Idle" /\ cl[c].req < MaxRequests
    /\ cl' = [cl EXCEPT ![c] = [NewClient EXCEPT !.req = cl[c].req + 1, !.svc = s, !.post = post,
                                                 !.late = cl[c].late,
                                                 !.pc = IF post = "block" THEN "postReply" ELSE "reply"]]
    /\ SendRequest(c, IF post = "block" THEN "Post" ELSE "Request", None)
    /\ UNCHANGED <<services, gone, block, running, sess, link, toClient>>

PostAnswered(c) ==
    /\ Take(c, "postReply")
    /\ LET m == Head(toClient[c]) IN
       cl' = [cl EXCEPT ![c].pc = IF m.result = "Success" THEN "push" ELSE "none",
                        ![c].blk = IF m.result = "Success" THEN m.blk ELSE None]
    /\ UNCHANGED <<services, gone, block, running, sess, link, toServer>>

\* OpenPushBlock, Write and Finalize, and the request itself.
Pushable(c) == cl[c].blk # None /\ block[cl[c].blk].registered /\ block[cl[c].blk].st = "open"
Pushed(c) == [block EXCEPT ![cl[c].blk].st = "closed", ![cl[c].blk].data = Whole(c, cl[c].req)]

PushPostData(c) ==
    /\ Waits(c, "push") /\ Pushable(c)
    /\ block' = Pushed(c)
    /\ cl' = [cl EXCEPT ![c].pc = "reply"]
    /\ SendRequest(c, "Request", cl[c].blk)
    /\ UNCHANGED <<services, gone, running, sess, link, toClient>>

\* The push fails: the block is not there, or data is lost, or the answer
\* to Finalize is.
PushPostDataFails(c) ==
    /\ Waits(c, "push")
    /\ PushFails \/ ~Pushable(c)
    /\ \/ UNCHANGED block
       \/ Pushable(c) /\ block' = Pushed(c)
    /\ cl' = [cl EXCEPT ![c].pc = "none"]
    /\ UNCHANGED <<services, gone, running, sess, link, wires>>

\* The answer to the request; the response is in a block that can be opened.
\* An empty one is closed at once.
Answered(c) ==
    /\ Take(c, "reply")
    /\ LET m == Head(toClient[c])
           opens == m.kind = "Response" /\ m.result = "Success" /\ m.blk # None
                      /\ block[m.blk].registered /\ block[m.blk].st = "closed"
                      /\ block[m.blk].data # NoData
       IN  cl' = [cl EXCEPT ![c].pc = "none",
                            ![c].state = IF opens THEN "ReadResponse" ELSE @,
                            ![c].blk = IF opens THEN m.blk ELSE None]
    /\ UNCHANGED <<services, gone, block, running, sess, link, toServer>>

\* ReadResponse to the end of the stream.
ReadResponse(c) ==
    /\ Waits(c, "none") /\ cl[c].state = "ReadResponse"
    /\ cl' = [cl EXCEPT ![c].state = "Idle", ![c].got = block[cl[c].blk].data]
    /\ UNCHANGED <<services, gone, block, running, sess, link, wires>>

\* AbortRequest, or a read that fails.
AbortRequest(c) ==
    /\ Waits(c, "none") /\ cl[c].state = "ReadResponse"
    /\ cl' = [cl EXCEPT ![c].state = "Idle"]
    /\ UNCHANGED <<services, gone, block, running, sess, link, wires>>

\* The transaction times out; the client can be used again.
GiveUp(c) ==
    /\ TimeOuts /\ link[c] = "up" /\ cl[c].pc \in {"postReply", "reply"} /\ toClient[c] = <<>>
    /\ cl' = [cl EXCEPT ![c].pc = "none", ![c].late = TRUE]
    /\ UNCHANGED <<services, gone, block, running, sess, link, wires>>

Connect(c) ==
    /\ link[c] = "down" /\ cl[c].req < MaxRequests
    /\ link' = [link EXCEPT ![c] = "up"]
    /\ UNCHANGED <<services, gone, block, running, sess, wires, cl>>

\* Disconnect, with ResetState.
Disconnect(c) ==
    /\ link[c] = "up"
    /\ link' = [link EXCEPT ![c] = "closing"]
    /\ cl' = [cl EXCEPT ![c] = [NewClient EXCEPT !.req = cl[c].req]]
    /\ UNCHANGED <<services, gone, block, running, sess, wires>>

ServerStep(c) ==
    \/ SendQueued(c) \/ ReceivePost(c) \/ BeginService(c) \/ RefuseRequest(c)
    \/ FinishService(c) \/ SessionTerminated(c)

ClientStep(c) ==
    PostAnswered(c) \/ PushPostData(c) \/ PushPostDataFails(c) \/ Answered(c)

Next ==
    \/ \E s \in Services : RegisterService(s) \/ UnregisterService(s)
    \/ \E c \in Clients :
          \/ ServerStep(c) \/ ClientStep(c)
          \/ ReadResponse(c) \/ AbortRequest(c) \/ GiveUp(c) \/ Connect(c) \/ Disconnect(c)
          \/ \E s \in Services, post \in Posts : RequestURI(c, s, post)

(***************************************************************************)
(* The message thread updates every session in turn (it may have to wait   *)
(* for the mutex), a service returns, and a client goes on with its call.  *)
(***************************************************************************)
Fairness ==
    \A c \in Clients : SF_vars(ServerStep(c)) /\ WF_vars(ClientStep(c))

Spec == Init /\ [][Next]_vars /\ Fairness

-----------------------------------------------------------------------------
(***************************************************************************)
(* The response a client reads is the response to its last request,        *)
(* however requests with and without post data, refusals, failed pushes    *)
(* and aborted reads follow each other on a session, as long as no request *)
(* of that session has timed out.                                          *)
(***************************************************************************)
ReadsOwnResponse ==
    \A c \in Clients : cl[c].got # NoData /\ ~cl[c].late => cl[c].got = Whole(c, cl[c].req)

(***************************************************************************)
(* The same with timeouts: ReadResponse "reads response data that was      *)
(* returned by a prior request".                                           *)
(***************************************************************************)
ReadsLastResponse ==
    \A c \in Clients : cl[c].got # NoData => cl[c].got = Whole(c, cl[c].req)

(***************************************************************************)
(* A service gets the post data of the request it handles, all of it.      *)
(***************************************************************************)
PostDataIsOwn ==
    running.data # NoData => running.data = Whole(running.c, running.req)

(***************************************************************************)
(* After UnregisterService has returned, the service is not running.       *)
(***************************************************************************)
UnregisteredIsQuiet == running.svc \notin gone

(***************************************************************************)
(* A request returns, without the help of a timeout.                       *)
(***************************************************************************)
RequestsReturn == \A c \in Clients : cl[c].pc # "none" ~> cl[c].pc = "none"

(***************************************************************************)
(* A session without a pending post gets a URIPostRequest: "We should      *)
(* never get to this point with a valid block still stored in              *)
(* m_pendingPostRequest".                                                  *)
(***************************************************************************)
NoPostIsPending ==
    \A c \in Clients :
        toServer[c] # <<>> /\ Head(toServer[c]).kind = "Post" /\ sess[c].queued = None
            => sess[c].pending = None

(***************************************************************************)
(* When every session has ended, no block is registered: a session         *)
(* releases its "server block before destroying it".                       *)
(***************************************************************************)
BlocksAreReleased ==
    (\A c \in Clients : link[c] = "down") => \A b \in Ids : ~block[b].registered
=============================================================================
