-------------------------- MODULE ClientDiscovery ---------------------------
(***************************************************************************)
(* MessageChannel::DiscoverClients (shared/legacy/src/messageChannel.inl): *)
(* a thread that calls it activates m_discoveredClientsQueue and waits on  *)
(* its event; while the queue is active the message thread broadcasts      *)
(* pings and queues the clients whose pongs match the filter.  The queue,  *)
(* the filter, the flag and the event are shared by all callers.           *)
(***************************************************************************)
EXTENDS Naturals, Sequences, SequencesExt

CONSTANTS
    Callers,   \* threads that call DiscoverClients
    Clients,   \* the other clients on the bus
    KindOf,    \* the metadata of a client
    Kinds,     \* the metadata a filter asks for
    MaxPongs,  \* bound on the pongs that are sent
    MaxCalls   \* bound on the calls

ASSUME DiscoveryAssumption ==
    /\ KindOf \in [Clients -> Kinds]
    /\ MaxPongs \in Nat /\ MaxCalls \in Nat

VARIABLES
    active,    \* m_discoveredClientsQueue.active
    filter,    \* m_discoveredClientsQueue.filter
    queue,     \* m_discoveredClientsQueue.clients
    signaled,  \* m_discoveredClientsQueue.hasDataEvent, a manual-reset event
    call,      \* the call of each caller
    pinged,    \* the clients a ping is on its way to
    pongs,     \* the pongs on their way back
    sent,      \* pongs sent so far
    calls      \* calls so far

queueVars == <<active, filter, queue, signaled>>
busVars == <<pinged, pongs, sent>>
vars == <<queueVars, call, busVars, calls>>

\* What Contains(clientHashSet) knows is what the callback was told.
CallState == [pc : {"idle", "wait", "woken", "stop"}, filter : Kinds, reported : SUBSET Clients]

TypeOK ==
    /\ active \in BOOLEAN /\ signaled \in BOOLEAN
    /\ filter \in Kinds
    /\ queue \in Seq(Clients)
    /\ call \in [Callers -> CallState]
    /\ pinged \subseteq Clients /\ pongs \subseteq Clients
    /\ sent \in 0..MaxPongs /\ calls \in 0..MaxCalls

Init ==
    /\ active = FALSE /\ signaled = FALSE
    /\ filter \in Kinds
    /\ queue = <<>>
    /\ call = [c \in Callers |-> [pc |-> "idle", filter |-> filter, reported |-> {}]]
    /\ pinged = {} /\ pongs = {} /\ sent = 0
    /\ calls = 0

Matches(f, client) == KindOf[client] = f

-----------------------------------------------------------------------------
(***************************************************************************)
(* A caller.                                                               *)
(***************************************************************************)
DiscoverClients(c, f) ==
    /\ call[c].pc = "idle"
    /\ calls < MaxCalls
    /\ calls' = calls + 1
    /\ filter' = f /\ active' = TRUE
    /\ call' = [call EXCEPT ![c] = [pc |-> "wait", filter |-> f, reported |-> {}]]
    /\ UNCHANGED <<queue, signaled, busVars>>

Wake(c) ==
    /\ call[c].pc = "wait"
    /\ signaled
    /\ call' = [call EXCEPT ![c].pc = "woken"]
    /\ UNCHANGED <<queueVars, busVars, calls>>

TimeOut(c) ==
    /\ call[c].pc = "wait"
    /\ call' = [call EXCEPT ![c].pc = "stop"]
    /\ UNCHANGED <<queueVars, busVars, calls>>

\* Changed: the event is cleared whenever an entry is taken.
PopAndClear(c) ==
    /\ call[c].pc = "woken"
    /\ queue # <<>>
    /\ queue' = Front(queue)
    /\ signaled' = FALSE
    /\ \E go \in BOOLEAN :
          call' = [call EXCEPT ![c].reported = @ \cup {Last(queue)},
                               ![c].pc = IF go \/ Last(queue) \in call[c].reported
                                         THEN "wait" ELSE "stop"]
    /\ UNCHANGED <<active, filter, busVars, calls>>

\* An entry is taken off the back; a client that was not seen before is
\* reported, and the callback says whether to go on.
Pop(c) ==
    /\ call[c].pc = "woken"
    /\ queue # <<>>
    /\ queue' = Front(queue)
    /\ signaled' = (signaled /\ queue' # <<>>)
    /\ \E go \in BOOLEAN :
          call' = [call EXCEPT ![c].reported = @ \cup {Last(queue)},
                               ![c].pc = IF go \/ Last(queue) \in call[c].reported
                                         THEN "wait" ELSE "stop"]
    /\ UNCHANGED <<active, filter, busVars, calls>>

\* Changed: what is left in the queue stays for the next call.
StopKeepsQueue(c) ==
    /\ call[c].pc = "stop"
    /\ active' = FALSE
    /\ call' = [call EXCEPT ![c].pc = "idle"]
    /\ UNCHANGED <<queue, signaled, filter, busVars, calls>>

\* Changed: the event stays as it is when the queue is emptied.
StopKeepsEvent(c) ==
    /\ call[c].pc = "stop"
    /\ active' = FALSE
    /\ queue' = <<>>
    /\ call' = [call EXCEPT ![c].pc = "idle"]
    /\ UNCHANGED <<signaled, filter, busVars, calls>>

Stop(c) ==
    /\ call[c].pc = "stop"
    /\ active' = FALSE
    /\ queue' = <<>> /\ signaled' = FALSE
    /\ call' = [call EXCEPT ![c].pc = "idle"]
    /\ UNCHANGED <<filter, busVars, calls>>

-----------------------------------------------------------------------------
(***************************************************************************)
(* The message thread and the bus.                                         *)
(***************************************************************************)
\* Update broadcasts a ping with the filter, to whom it may concern.
Ping ==
    /\ active
    /\ pinged' = pinged \cup {x \in Clients : Matches(filter, x)}
    /\ UNCHANGED <<queueVars, call, pongs, sent, calls>>

\* HandleMessageReceived of the other client.
Respond(x) ==
    /\ x \in pinged
    /\ pinged' = pinged \ {x}
    /\ sent < MaxPongs
    /\ sent' = sent + 1
    /\ pongs' = pongs \cup {x}
    /\ UNCHANGED <<queueVars, call, calls>>

\* Changed: the client is queued and nobody is told.
HandlePongSilently(x) ==
    /\ x \in pongs
    /\ pongs' = pongs \ {x}
    /\ queue' = IF active /\ Matches(filter, x) THEN Append(queue, x) ELSE queue
    /\ UNCHANGED <<active, filter, signaled, call, pinged, sent, calls>>

\* HandleMessageReceived of this channel.
HandlePong(x) ==
    /\ x \in pongs
    /\ pongs' = pongs \ {x}
    /\ IF active /\ Matches(filter, x)
       THEN queue' = Append(queue, x) /\ signaled' = TRUE
       ELSE UNCHANGED <<queue, signaled>>
    /\ UNCHANGED <<active, filter, call, pinged, sent, calls>>

Next ==
    \/ \E c \in Callers :
          \/ \E f \in Kinds : DiscoverClients(c, f)
          \/ Wake(c) \/ TimeOut(c) \/ Pop(c) \/ Stop(c)
    \/ Ping
    \/ \E x \in Clients : Respond(x) \/ HandlePong(x)

(***************************************************************************)
(* The message thread runs, the other clients respond, and a thread whose  *)
(* event is set wakes up.  Time is not required to run out.                *)
(***************************************************************************)
Fairness ==
    /\ WF_vars(Ping)
    /\ \A x \in Clients : WF_vars(Respond(x)) /\ WF_vars(HandlePong(x))
    /\ \A c \in Callers : WF_vars(Wake(c)) /\ WF_vars(Pop(c)) /\ WF_vars(Stop(c))

Spec == Init /\ [][Next]_vars /\ Fairness

-----------------------------------------------------------------------------
(***************************************************************************)
(* A caller that the event has woken finds an entry: "We should never have *)
(* an empty queue while the hasDataEvent is signaled."                     *)
(***************************************************************************)
WokenFindsClient ==
    \A c \in Callers : call[c].pc = "woken" => queue # <<>>

(***************************************************************************)
(* The event is set exactly while there is something in the queue: no      *)
(* entry waits for the next pong to be noticed.                            *)
(***************************************************************************)
EventTracksQueue == signaled <=> queue # <<>>

(***************************************************************************)
(* A caller is told only of clients that match its own filter, whatever    *)
(* earlier calls asked for and however late the pongs to them arrive.      *)
(***************************************************************************)
ReportsMatch ==
    \A c \in Callers : \A x \in call[c].reported : Matches(call[c].filter, x)

\* A matching client has answered, or the next pong that is sent is that of
\* one: MaxPongs allows it, and no ping of an earlier call is on its way.
Answered(c) ==
    \/ \E x \in pongs : Matches(call[c].filter, x)
    \/ /\ sent < MaxPongs
       /\ \E x \in Clients : Matches(call[c].filter, x)
       /\ \A x \in pinged : Matches(call[c].filter, x)

(***************************************************************************)
(* A call that waits while a matching client answers is told of a client:  *)
(* the pong goes through the queue and the event to the thread that waits, *)
(* whatever earlier calls have left behind.  Only the end of the call, by  *)
(* its callback or its timeout, may come before.                           *)
(***************************************************************************)
MatchingClientIsReported ==
    \A c \in Callers :
        (call[c].pc = "wait" /\ call[c].reported = {} /\ Answered(c))
        ~> (call[c].reported # {} \/ call[c].pc \in {"stop", "idle"})
=============================================================================
