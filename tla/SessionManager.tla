--------------------------- MODULE SessionManager ---------------------------
(***************************************************************************)
(* Two session managers (shared/legacy/src/sessionManager.cpp) that talk   *)
(* over a bus which may lose, duplicate and reorder datagrams: UDP and     *)
(* UNIX datagram sockets (socketMsgTransport.cpp) behind a router.         *)
(*                                                                         *)
(* Each side has a message thread, which handles received messages and     *)
(* updates the sessions of its table while it holds m_sessionMutex, and    *)
(* application threads in Session::Send and Session::Receive, which do not *)
(* take that mutex.  The message thread is interleaved with them wherever  *)
(* they could see, or change, the state in between.                        *)
(***************************************************************************)
EXTENDS Session, Sequences

CONSTANTS
    MaxSends,        \* Send calls per session
    Readers,         \* the sessions whose application calls Receive
    MaxLosses,       \* datagrams the bus may lose
    MaxDuplicates,   \* datagrams the bus may deliver once more
    MaxAckCount,     \* bound on m_sendWindow.lastAckCount
    Disruptions,     \* what else may happen: "reject", "disconnect", "unregister"
    Rooms,           \* how many datagrams the transport takes per Update
    Patient          \* packets time out only when no datagram of the session
                     \* is in flight

ASSUME BoundAssumption ==
    /\ MaxSends \in [Sessions -> Nat]
    /\ Readers \subseteq Sessions
    /\ MaxLosses \in Nat
    /\ MaxDuplicates \in Nat
    /\ MaxAckCount \in Nat
    /\ Disruptions \subseteq {"reject", "disconnect", "unregister"}
    /\ Rooms \subseteq Nat /\ Rooms # {}
    /\ Patient \in BOOLEAN

VARIABLES
    session,     \* the session objects
    key,         \* m_sessions: the key of an object, NoSession when not in it
    net,         \* the datagrams on the bus
    thread,      \* what the message thread of a side is in the middle of
    sending,     \* the sessions with an application thread inside Send
    receiving,   \* the sessions with an application thread inside Receive
    released,    \* the client application dropped its last reference
    registered,  \* a protocol server that supports the version is registered
    accepted,    \* the payloads Send accepted, in order
    delivered,   \* the payloads Receive returned, in order
    losses,      \* datagrams lost so far
    duplicates   \* datagrams duplicated so far

appVars == <<sending, receiving, released, accepted, delivered>>
busVars == <<losses, duplicates>>
vars == <<session, key, net, thread, registered, appVars, busVars>>

Idle == [pc |-> "idle", on |-> NoSession, windowSize |-> 0]

ThreadState == [pc : {"idle", "closing", "updated"},
                on : SessionId, windowSize : Nat]

TypeOK ==
    /\ session \in [Sessions -> SessionObject]
    /\ key \in [Sessions -> SessionId]
    /\ net \subseteq Datagram
    /\ thread \in [Side -> ThreadState]
    /\ sending \subseteq Sessions
    /\ receiving \subseteq Sessions
    /\ released \in BOOLEAN
    /\ registered \in BOOLEAN
    /\ accepted \in [Sessions -> Seq(Nat)]
    /\ delivered \in [Sessions -> Seq(Nat)]
    /\ losses \in Nat
    /\ duplicates \in Nat

Init ==
    /\ session = [o \in Sessions |-> NewSession(SideOf(o))]
    /\ key = [o \in Sessions |-> NoSession]
    /\ net = {}
    /\ thread = [side \in Side |-> Idle]
    /\ sending = {}
    /\ receiving = {}
    /\ released = FALSE
    /\ registered = TRUE
    /\ accepted = [o \in Sessions |-> <<>>]
    /\ delivered = [o \in Sessions |-> <<>>]
    /\ losses = 0
    /\ duplicates = 0

----------------------------------------------------------------------------
(***************************************************************************)
(* m_sessions.                                                             *)
(***************************************************************************)
InTable(o)  == key[o] # NoSession
IsOpen(o)   == session[o].state # Closed
IsUnused(o) == session[o] = NewSession(SideOf(o))

Find(side, sid) == {o \in Sessions : SideOf(o) = side /\ InTable(o) /\ key[o] = sid}

FindOpenSession(side, sid) == {o \in Find(side, sid) : IsOpen(o)}

MutexFree(side) == thread[side].pc = "idle"

(***************************************************************************)
(* SendReset: every reason it is called with is an error.                  *)
(***************************************************************************)
Reset(side, sid) ==
    MakeDatagram(MakePacket("Rst", sid, 1, 0, NoSession), Opposite(side), 0)

AckCountBounded(o) == session[o].sendWindow.lastAckCount < MaxAckCount

(***************************************************************************)
(* A session object after a call: its datagrams go to the bus.             *)
(***************************************************************************)
Quiet(s) == [s EXCEPT !.out = {}]

Put(o, s) == session' = [session EXCEPT ![o] = Quiet(s)]

(***************************************************************************)
(* The bus delivers d once, or keeps a copy to deliver again.              *)
(***************************************************************************)
Deliver(d, sent) ==
    \/ /\ net' = (net \ {d}) \cup sent
       /\ UNCHANGED busVars
    \/ /\ duplicates < MaxDuplicates
       /\ duplicates' = duplicates + 1
       /\ net' = net \cup sent
       /\ UNCHANGED losses

Lose(d) ==
    /\ losses < MaxLosses
    /\ losses' = losses + 1
    /\ net' = net \ {d}
    /\ UNCHANGED <<session, key, thread, registered, appVars, duplicates>>

----------------------------------------------------------------------------
(***************************************************************************)
(* EstablishSessionForClient.                                              *)
(***************************************************************************)
EstablishSessionForClient ==
    /\ MutexFree("client")
    /\ IsUnused(Client)
    /\ Put(Client, Connect(session[Client], Client))
    /\ key' = [key EXCEPT ![Client] = Client]
    /\ UNCHANGED <<net, thread, registered, appVars, busVars>>

(***************************************************************************)
(* HandleReceivedSessionMessage, by the kind of message.  A Syn that is    *)
(* not refused creates a session object, even when it is a duplicate; the  *)
(* protocol server may still reject it, which leaves a closed object in    *)
(* the table.                                                              *)
(***************************************************************************)
RefuseSyn(d) ==
    /\ d.packet.messageId = "Syn"
    /\ ~registered
    /\ Deliver(d, {Reset(d.dst, d.packet.sessionId)})
    /\ UNCHANGED <<session, key, thread, registered, appVars>>

RejectSyn(d, o) ==
    /\ "reject" \in Disruptions
    /\ d.packet.messageId = "Syn"
    /\ registered
    /\ IsUnused(o)
    /\ Put(o, Shutdown(BindToServer(session[o], o), FALSE))
    /\ key' = [key EXCEPT ![o] = o]
    /\ Deliver(d, {Reset(d.dst, d.packet.sessionId)})
    /\ UNCHANGED <<thread, registered, appVars>>

AcceptSyn(d, o) ==
    /\ d.packet.messageId = "Syn"
    /\ registered
    /\ IsUnused(o)
    /\ LET s == HandleMessage(BindToServer(session[o], o), d)
       IN  Put(o, s) /\ Deliver(d, s.out)
    /\ key' = [key EXCEPT ![o] = o]
    /\ UNCHANGED <<thread, registered, appVars>>

(***************************************************************************)
(* A SynAck is looked up under the id of the sender, then under the id the *)
(* client started with; the second moves the session to its final key.     *)
(* Closed sessions are found, too.                                         *)
(***************************************************************************)
SynAckTarget(d) ==
    LET byId == Find(d.dst, d.packet.sessionId)
    IN  IF byId # {} THEN byId ELSE Find(d.dst, d.packet.initial)

\* Changed: the session stays under the id the client started with.
ReceiveSynAckUnderOldKey(d, o) ==
    /\ d.packet.messageId = "SynAck"
    /\ o \in SynAckTarget(d)
    /\ AckCountBounded(o)
    /\ LET s == HandleMessage(session[o], d)
       IN  Put(o, s) /\ Deliver(d, s.out)
    /\ UNCHANGED <<key, thread, registered, appVars>>

ReceiveSynAck(d, o) ==
    /\ d.packet.messageId = "SynAck"
    /\ o \in SynAckTarget(d)
    /\ AckCountBounded(o)
    /\ LET s == HandleMessage(session[o], d)
       IN  Put(o, s) /\ Deliver(d, s.out)
    /\ key' = [key EXCEPT ![o] = d.packet.sessionId]
    /\ UNCHANGED <<thread, registered, appVars>>

ReceiveMessage(d, o) ==
    /\ d.packet.messageId \in {"Fin", "Data", "Ack", "Rst"}
    /\ o \in FindOpenSession(d.dst, d.packet.sessionId)
    /\ d.packet.messageId = "Fin" => ~FinIsFirst(session[o])
    /\ d.packet.messageId = "Ack" => AckCountBounded(o)
    /\ LET s == HandleMessage(session[o], d)
       IN  Put(o, s) /\ Deliver(d, s.out)
    /\ UNCHANGED <<key, thread, registered, appVars>>

ReceiveFin(d, o) ==
    /\ d.packet.messageId = "Fin"
    /\ o \in FindOpenSession(d.dst, d.packet.sessionId)
    /\ FinIsFirst(session[o])
    /\ LET s == StoreFin(session[o], d)
       IN  Put(o, s) /\ Deliver(d, s.out)
    /\ thread' = [thread EXCEPT ![d.dst] =
                    [pc |-> "closing", on |-> o, windowSize |-> d.windowSize]]
    /\ UNCHANGED <<key, registered, appVars>>

FinishFin(side) ==
    /\ thread[side].pc = "closing"
    /\ LET o == thread[side].on
       IN  Put(o, EnterClosing(session[o], thread[side].windowSize))
    /\ thread' = [thread EXCEPT ![side] = Idle]
    /\ UNCHANGED <<key, net, registered, appVars, busVars>>

(***************************************************************************)
(* No session takes the message: the sender is told with a Rst, also when  *)
(* the message is a Rst itself.                                            *)
(***************************************************************************)
ReceiveUnknown(d) ==
    /\ \/ /\ d.packet.messageId = "SynAck"
          /\ SynAckTarget(d) = {}
       \/ /\ d.packet.messageId \in {"Fin", "Data", "Ack", "Rst"}
          /\ FindOpenSession(d.dst, d.packet.sessionId) = {}
    /\ Deliver(d, {Reset(d.dst, d.packet.sessionId)})
    /\ UNCHANGED <<session, key, thread, registered, appVars>>

HandleReceivedSessionMessage(d) ==
    /\ MutexFree(d.dst)
    /\ \/ RefuseSyn(d)
       \/ \E o \in Server : RejectSyn(d, o) \/ AcceptSyn(d, o)
       \/ \E o \in Sessions :
              ReceiveSynAck(d, o) \/ ReceiveMessage(d, o) \/ ReceiveFin(d, o)
       \/ ReceiveUnknown(d)

----------------------------------------------------------------------------
(***************************************************************************)
(* UpdateSessions calls Update for a session and then, in a second look at *)
(* its state, removes it from the table when it is closed.                 *)
(***************************************************************************)
InFlight(o) == {d \in net : d.packet.sessionId = session[o].sessionId}

TimedOut(o) ==
    IF Patient /\ InFlight(o) # {} THEN {0}
    ELSE 0..Outstanding(session[o].sendWindow)

UpdateSession(o, late, room) ==
    /\ MutexFree(SideOf(o))
    /\ InTable(o)
    /\ LET s == Update(session[o], late, room, released)
       IN  Put(o, s) /\ net' = net \cup s.out
    /\ thread' = [thread EXCEPT ![SideOf(o)] =
                    [pc |-> "updated", on |-> o, windowSize |-> 0]]
    /\ UNCHANGED <<key, registered, appVars, busVars>>

RemoveIfClosed(side) ==
    /\ thread[side].pc = "updated"
    /\ LET o == thread[side].on
       IN  key' = [key EXCEPT ![o] = IF IsOpen(o) THEN @ ELSE NoSession]
    /\ thread' = [thread EXCEPT ![side] = Idle]
    /\ UNCHANGED <<session, net, registered, appVars, busVars>>

(***************************************************************************)
(* HandleClientDisconnection: the router reports that the peer is gone.    *)
(***************************************************************************)
HandleClientDisconnection(side) ==
    /\ "disconnect" \in Disruptions
    /\ MutexFree(side)
    /\ \E o \in Sessions : SideOf(o) = side /\ InTable(o) /\ IsOpen(o)
    /\ session' = [o \in Sessions |->
                     IF SideOf(o) = side /\ InTable(o)
                     THEN Shutdown(session[o], FALSE) ELSE session[o]]
    /\ UNCHANGED <<key, net, thread, registered, appVars, busVars>>

UnregisterProtocolServer ==
    /\ "unregister" \in Disruptions
    /\ MutexFree("server")
    /\ registered
    /\ registered' = FALSE
    /\ session' = [o \in Sessions |->
                     IF o \in Server /\ InTable(o)
                     THEN HandleUnregisterProtocolServer(session[o])
                     ELSE session[o]]
    /\ UNCHANGED <<key, net, thread, appVars, busVars>>

RegisterProtocolServer ==
    /\ MutexFree("server")
    /\ ~registered
    /\ registered' = TRUE
    /\ UNCHANGED <<session, key, net, thread, appVars, busVars>>

----------------------------------------------------------------------------
(***************************************************************************)
(* The applications.  A client gets its session from ddSocketConnect or    *)
(* LegacyProtocolClient::Connect, which return once m_connectionEvent is   *)
(* signalled (or drop the session); a server gets it in SessionEstablished.*)
(***************************************************************************)
HasSession(o) ==
    IF o = Client THEN session[o].connectionEvent /\ ~released
    ELSE session[o].callbackState # "None"

BeginSend(o) ==
    /\ HasSession(o)
    /\ o \notin sending
    /\ Len(accepted[o]) < MaxSends[o]
    /\ MaySend(session[o])
    /\ sending' = sending \cup {o}
    /\ UNCHANGED <<session, key, net, thread, registered, receiving, released,
                   accepted, delivered, busVars>>

EndSend(o) ==
    /\ o \in sending
    /\ HasFreeSlot(session[o].sendWindow)
    /\ LET payload == Len(accepted[o]) + 1
       IN  /\ Put(o, FinishSend(session[o], payload))
           /\ accepted' = [accepted EXCEPT ![o] = Append(@, payload)]
    /\ sending' = sending \ {o}
    /\ UNCHANGED <<key, net, thread, registered, receiving, released,
                   delivered, busVars>>

SendTimeout(o) ==
    /\ o \in sending
    /\ ~HasFreeSlot(session[o].sendWindow)
    /\ sending' = sending \ {o}
    /\ UNCHANGED <<session, key, net, thread, registered, receiving, released,
                   accepted, delivered, busVars>>

BeginReceive(o) ==
    /\ o \in Readers
    /\ HasSession(o)
    /\ o \notin receiving
    /\ MayReceive(session[o])
    /\ receiving' = receiving \cup {o}
    /\ UNCHANGED <<session, key, net, thread, registered, sending, released,
                   accepted, delivered, busVars>>

EndReceive(o) ==
    /\ o \in receiving
    /\ HasPacket(session[o].receiveWindow)
    /\ Put(o, FinishReceive(session[o]))
    /\ delivered' =
          IF DeliversData(session[o])
          THEN [delivered EXCEPT ![o] =
                  Append(@, NextUnread(session[o].receiveWindow).payload)]
          ELSE delivered
    /\ receiving' = receiving \ {o}
    /\ UNCHANGED <<key, net, thread, registered, sending, released, accepted,
                   busVars>>

(***************************************************************************)
(* The wait timed out, or the buffer is too small for the packet and the   *)
(* token goes back to the semaphore.                                       *)
(***************************************************************************)
ReceiveNothing(o) ==
    /\ o \in receiving
    /\ HasPacket(session[o].receiveWindow) => IsOpen(o)
    /\ receiving' = receiving \ {o}
    /\ UNCHANGED <<session, key, net, thread, registered, sending, released,
                   accepted, delivered, busVars>>

(***************************************************************************)
(* The client application drops its reference (LegacyProtocolClient::      *)
(* Disconnect, ddSocketClose, or a connection attempt that timed out).     *)
(***************************************************************************)
Release ==
    /\ ~released
    /\ ~IsUnused(Client)
    /\ Client \notin sending \cup receiving
    /\ released' = TRUE
    /\ UNCHANGED <<session, key, net, thread, registered, sending, receiving,
                   accepted, delivered, busVars>>

----------------------------------------------------------------------------
MessageThread ==
    \/ \E d \in net : HandleReceivedSessionMessage(d)
    \/ \E side \in Side : FinishFin(side) \/ RemoveIfClosed(side)
    \/ \E o \in Sessions : \E late \in TimedOut(o), room \in Rooms :
           UpdateSession(o, late, room)
    \/ \E side \in Side : HandleClientDisconnection(side)

Application ==
    \/ EstablishSessionForClient
    \/ Release
    \/ UnregisterProtocolServer
    \/ RegisterProtocolServer
    \/ \E o \in Sessions : \/ BeginSend(o) \/ EndSend(o) \/ SendTimeout(o)
                           \/ BeginReceive(o) \/ EndReceive(o) \/ ReceiveNothing(o)

Next == MessageThread \/ Application \/ \E d \in net : Lose(d)

Spec == Init /\ [][Next]_vars

----------------------------------------------------------------------------
(***************************************************************************)
(* Fairness.  A message thread that is in the middle of a handler finishes *)
(* it.  A session in the table is updated again and again, because the     *)
(* message thread loops over UpdateSessions as long as the channel exists, *)
(* and real time passes: of the updates that find a packet unacknowledged, *)
(* some find that it has timed out.  (This is strong fairness of           *)
(* UpdateSession with all timers expired, with its enabling condition      *)
(* written out.)                                                           *)
(***************************************************************************)
Updated(o) ==
    /\ thread[SideOf(o)].pc = "idle"
    /\ thread'[SideOf(o)].pc = "updated"
    /\ thread'[SideOf(o)].on = o

TimerFired(o) ==
    LET w == session[o].sendWindow
    IN  Outstanding(w) > 0 /\ TimedOut(o) # {0} =>
            \/ session'[o].sendWindow.retransmitCount = w.retransmitCount + 1
            \/ session'[o].state = Closed

UpdateFairness ==
    /\ \A side \in Side : WF_vars(FinishFin(side)) /\ WF_vars(RemoveIfClosed(side))
    /\ \A o \in Sessions :
          []<>(MutexFree(SideOf(o)) /\ InTable(o)) =>
              []<><<Updated(o) /\ TimerFired(o)>>_vars

(***************************************************************************)
(* No datagram stays on the bus for ever: it runs empty again and again.   *)
(***************************************************************************)
BusFairness == []<>(net = {})

LiveSpec == Spec /\ UpdateFairness

ReliableSpec == Spec /\ UpdateFairness /\ BusFairness

----------------------------------------------------------------------------
(***************************************************************************)
(*                              Properties                                 *)
(***************************************************************************)

(***************************************************************************)
(* The send window of every session is consistent: the semaphore counts    *)
(* exactly the free slots, a slot is valid exactly when it holds a packet  *)
(* that was written and not acknowledged, and it holds that packet.  These *)
(* are the assertions of MarkMessagesAsAcknowledged, UpdateSendWindow and  *)
(* WriteMessageIntoSendWindow, which the code relies on in release builds: *)
(* UpdateSendWindow loops for ever on a slot that does not match.          *)
(***************************************************************************)
SendWindowConsistent(w) ==
    LET live == w.nextUnacknowledgedSequence..(w.nextSequence - 1)
    IN  /\ w.semaphore + (w.nextSequence - w.nextUnacknowledgedSequence)
               = kDefaultWindowSize
        /\ w.lastSentSequence + 1 \in w.nextUnacknowledgedSequence..w.nextSequence
        /\ \A seq \in live : /\ w.valid[SlotOf(seq)]
                             /\ w.messages[SlotOf(seq)].sequence = seq
        /\ \A i \in Slot : w.valid[i] => \E seq \in live : i = SlotOf(seq)

SendWindowsConsistent ==
    \A o \in Sessions : SendWindowConsistent(session[o].sendWindow)

(***************************************************************************)
(* The receive window of every session is consistent: the packets from     *)
(* nextUnread up to nextExpected are all there, each in its slot; a slot   *)
(* never holds a packet outside the window; and Receive never gets a token *)
(* for a packet that is not there (its assertion nextUnread < nextExpected *)
(* holds whenever the semaphore lets it pass).                             *)
(***************************************************************************)
ReceiveWindowConsistent(w) ==
    /\ w.nextUnreadSequence <= w.nextExpectedSequence
    /\ w.nextExpectedSequence <= w.nextUnreadSequence + kDefaultWindowSize
    /\ w.lastUnacknowledgedSequence <= w.nextExpectedSequence
    /\ w.semaphore <= w.nextExpectedSequence - w.nextUnreadSequence
    /\ \A seq \in w.nextUnreadSequence..(w.nextExpectedSequence - 1) :
           w.valid[SlotOf(seq)]
    /\ \A i \in Slot : w.valid[i] =>
           /\ SlotOf(w.messages[i].sequence) = i
           /\ w.messages[i].sequence \in w.nextUnreadSequence..
                                  (w.nextUnreadSequence + kDefaultWindowSize - 1)

ReceiveWindowsConsistent ==
    \A o \in Sessions : ReceiveWindowConsistent(session[o].receiveWindow)

(***************************************************************************)
(* Who a session is connected to, seen from either end.                    *)
(***************************************************************************)
PeerOf(o) ==
    IF o = Client
    THEN IF session[o].sessionId \in Server THEN session[o].sessionId ELSE NoSession
    ELSE IF session[o].callbackState # "None" THEN Client ELSE NoSession

(***************************************************************************)
(* Sessions implement paired streams: however the bus loses, repeats and   *)
(* reorders datagrams, and whichever packets are retransmitted, a session  *)
(* is paired with one peer only, which is paired with it, and every        *)
(* Receive returns the next payload that the Send of that peer accepted.   *)
(***************************************************************************)
Streams == INSTANCE PairedStreams
           WITH Endpoint <- Sessions, Nobody <- NoSession,
                peer <- [o \in Sessions |-> PeerOf(o)]

ImplementsPairedStreams == Streams!Spec

(***************************************************************************)
(* A send slot is freed only when the peer has the packet: what a session  *)
(* takes as acknowledged, the session it is connected to has stored.       *)
(***************************************************************************)
AcknowledgedIsStored ==
    \A o \in Sessions :
        LET p == PeerOf(o)
        IN  p # NoSession =>
                session[o].sendWindow.nextUnacknowledgedSequence
                    <= session[p].receiveWindow.nextExpectedSequence

(***************************************************************************)
(* UpdateTimeout closes a session that received a Fin only when the        *)
(* application has read all data in front of the Fin: the handshake took   *)
(* sequence number 1, so Data carries 2, 3, ... and the Fin comes last.    *)
(***************************************************************************)
ClosedByFin(o) ==
    /\ session[o].state = Closing
    /\ session[o].callbackState # "TerminatedCalled"
    /\ session[o].sendWindow.retransmitCount <= kMaxRetransmits
    /\ thread[SideOf(o)].pc = "idle"
    /\ thread'[SideOf(o)].pc = "updated"
    /\ session'[o].state = Closed

SafeToClose ==
    [][\A o \in Sessions : ClosedByFin(o) =>
          /\ NextUnread(session[o].receiveWindow).messageId = "Fin"
          /\ Len(delivered[o]) + 2 = NextUnread(session[o].receiveWindow).sequence]_vars

(***************************************************************************)
(* A protocol server is there for every callback that is still due: the    *)
(* assertions pServer != nullptr of HandleMessage and Update.  A session   *)
(* in SynReceived will call SessionEstablished, one in Established         *)
(* UpdateSession, one whose callback state is EstablishedCalled            *)
(* SessionTerminated.                                                      *)
(***************************************************************************)
CallbacksHaveServer ==
    \A o \in Server : InTable(o) =>
        /\ session[o].callbackState = "EstablishedCalled" => registered
        /\ session[o].state \in {SynReceived, Established} => registered
        /\ session[o].state = Established =>
               session[o].callbackState = "EstablishedCalled"
        /\ session[o].state = SynReceived => session[o].callbackState = "None"

(***************************************************************************)
(* The key of an open session in m_sessions is its session id (the         *)
(* assertion of FindOpenSession), and two sessions of one side never share *)
(* a key, although the client changes key in the middle of the handshake.  *)
(***************************************************************************)
KeysAreIds ==
    /\ \A o \in Sessions : InTable(o) /\ IsOpen(o) => key[o] = session[o].sessionId
    /\ \A o, p \in Sessions :
           SideOf(o) = SideOf(p) /\ InTable(o) /\ key[o] = key[p] => o = p

(***************************************************************************)
(* Every race on the state of a session that closes sets it to Closed      *)
(* (session.cpp, Receive): a session that was opened and is closed stays   *)
(* closed.                                                                 *)
(***************************************************************************)
ClosedIsFinal ==
    [][\A o \in Sessions :
          ~IsUnused(o) /\ session[o].state = Closed => session'[o].state = Closed]_vars

(***************************************************************************)
(* SessionTerminated is called before a session that called                *)
(* SessionEstablished is destroyed (session.cpp, Update).                  *)
(***************************************************************************)
TerminatedBeforeRemoval ==
    \A o \in Server :
        ~IsUnused(o) /\ ~InTable(o) => session[o].callbackState # "EstablishedCalled"

(***************************************************************************)
(* Fast retransmit starts at the first unacknowledged packet and goes on   *)
(* with one more packet for every duplicate (session.cpp,                  *)
(* MarkMessagesAsAcknowledged): what it retransmits was sent and waits for *)
(* an acknowledgement.                                                     *)
(***************************************************************************)
FastRetransmitsOutstanding ==
    [][\A o \in Sessions :
          LET w == session'[o].sendWindow
          IN  /\ w.lastAckCount > session[o].sendWindow.lastAckCount
              /\ w.lastAckCount >= kFastRetransmitThreshold
              => FastRetransmitSequence(w) \in
                     w.nextUnacknowledgedSequence..w.lastSentSequence]_vars

(***************************************************************************)
(* A client session whose last reference was dropped is closed and leaves  *)
(* the table (session.cpp, Update).                                        *)
(***************************************************************************)
ReleasedSessionCloses == released ~> ~InTable(Client)

(***************************************************************************)
(* The loss of the Ack that answers a SynAck is handled                    *)
(* (sessionManager.cpp, HandleReceivedSessionMessage): when the client is  *)
(* established and its peer still waits for that Ack, the peer is          *)
(* established too, or the client session ends.                            *)
(***************************************************************************)
HalfOpen ==
    /\ session[Client].state = Established
    /\ PeerOf(Client) # NoSession
    /\ session[PeerOf(Client)].callbackState = "None"

LostAckIsHandled == HalfOpen ~> ~HalfOpen

=============================================================================
