------------------------------ MODULE Session -------------------------------
(***************************************************************************)
(* class Session (shared/legacy/src/session.cpp), one operator per member  *)
(* function.  A member function is an operator that takes the session      *)
(* object before the call and returns it after the call; out collects the  *)
(* datagrams the call hands to IMsgChannel::Forward, which the transport   *)
(* accepts (its failure is the subject of another module).                 *)
(*                                                                         *)
(* Result codes are abstracted to what Session tells apart: a reason for   *)
(* Shutdown is Result::Success (graceful) or an error.  m_sessionVersion   *)
(* is the version this repository negotiates with itself.                  *)
(***************************************************************************)
EXTENDS TransmitWindow, ReceiveWindow

SessionObject ==
    [side          : Side,                  \* m_sessionType
     state         : SessionState,
     callbackState : SessionCallbackState,
     sessionId     : SessionId,
     sendWindow    : SendWindow,
     receiveWindow : ReadWindow,
     connectionEvent    : BOOLEAN,
     disconnectionEvent : BOOLEAN,
     out           : SUBSET Datagram]

NewSession(side) ==
    [side          |-> side,
     state         |-> Closed,
     callbackState |-> "None",
     sessionId     |-> NoSession,
     sendWindow    |-> InitSendWindow,
     receiveWindow |-> InitReadWindow,
     connectionEvent    |-> FALSE,
     disconnectionEvent |-> FALSE,
     out           |-> {}]

SetState(s, state) == [s EXCEPT !.state = state]

----------------------------------------------------------------------------
(***************************************************************************)
(* Sending.  A datagram carries the advertised window of the moment it is  *)
(* handed to the transport.  A slot that was never written holds an        *)
(* all-zero header, which is not a session message: no session manager     *)
(* ever sees it.                                                           *)
(***************************************************************************)
Forward(s, packets) ==
    [s EXCEPT !.out = @ \cup
        {MakeDatagram(p, Opposite(s.side), s.receiveWindow.currentAvailableSize) :
            p \in packets \ {Unwritten}}]

SendControlMessage(s, id, seq) ==
    Forward(s, {MakePacket(id, s.sessionId, seq, 0, NoSession)})

\* Changed: the Ack names the packet that is expected next.
AckNextExpected(s) ==
    SendControlMessage([s EXCEPT !.receiveWindow = NoteAck(@)],
                       "Ack", s.receiveWindow.nextExpectedSequence)

SendAckMessage(s) ==
    SendControlMessage([s EXCEPT !.receiveWindow = NoteAck(@)],
                       "Ack", s.receiveWindow.nextExpectedSequence - 1)

ForwardSlots(s, seqs) ==
    Forward(s, {s.sendWindow.messages[SlotOf(seq)] : seq \in seqs})

----------------------------------------------------------------------------
(***************************************************************************)
(* The two windows, as the rest of the class uses them.                    *)
(***************************************************************************)
FastRetransmit(s) ==
    IF s.sendWindow.lastAckCount >= kFastRetransmitThreshold
    THEN ForwardSlots(s, {FastRetransmitSequence(s.sendWindow)})
    ELSE s

MarkMessagesAsAcknowledged(s, maxSequenceNumber) ==
    LET end == AckedUpTo(s.sendWindow, maxSequenceNumber)
    IN  IF s.sendWindow.nextUnacknowledgedSequence < end
        THEN [s EXCEPT !.sendWindow = FreeSlots(@, end)]
        ELSE FastRetransmit([s EXCEPT !.sendWindow = CountDuplicateAck(@)])

WriteMessageIntoReceiveWindow(s, packet) ==
    LET stored == [s EXCEPT !.receiveWindow = StorePacket(@, packet)]
    IN  CASE ~IsNew(s.receiveWindow, packet) -> SendAckMessage(s)
          [] IsNew(s.receiveWindow, packet) /\ ~Fits(s.receiveWindow, packet) -> s
          [] IsNew(s.receiveWindow, packet) /\ Fits(s.receiveWindow, packet) ->
                IF AcksEarly(s.receiveWindow, stored.receiveWindow)
                THEN SendAckMessage(stored) ELSE stored

CanWriteMessage(s) == s.state < FinWait2 /\ HasFreeSlot(s.sendWindow)

WriteMessageIntoSendWindow(s, id, payload, initial) ==
    [s EXCEPT !.sendWindow = WriteSlot(@, id, s.sessionId, payload, initial)]

TakeWindowSize(s, d) ==
    [s EXCEPT !.sendWindow = UpdateSendWindowSize(@, d.windowSize)]

----------------------------------------------------------------------------
(***************************************************************************)
(* Shutdown, Connect, BindToServer and the end of a protocol server.       *)
(***************************************************************************)
Shutdown(s, graceful) ==
    IF ~graceful \/ s.state < Established THEN SetState(s, Closed)
    ELSE IF s.state = Established THEN SetState(s, FinWait1)
    ELSE s

Connect(s, sid) ==
    SetState(WriteMessageIntoSendWindow([s EXCEPT !.sessionId = sid],
                                        "Syn", 0, NoSession), SynSent)

BindToServer(s, sid) == SetState([s EXCEPT !.sessionId = sid], Listening)

\* Changed: the callback runs, but the session is left open.
UnregisterWithoutShutdown(s) ==
    [s EXCEPT !.callbackState =
        IF @ = "EstablishedCalled" THEN "TerminatedCalled" ELSE @]

HandleUnregisterProtocolServer(s) ==
    Shutdown([s EXCEPT !.callbackState =
                  IF @ = "EstablishedCalled" THEN "TerminatedCalled" ELSE @], TRUE)

----------------------------------------------------------------------------
(***************************************************************************)
(* The message handlers.  d is the datagram.                               *)
(***************************************************************************)
\* Changed: the session is established before the client answers the SynAck.
EstablishOnSyn(s, d) ==
    IF CanWriteMessage(s)
    THEN [SetState(WriteMessageIntoSendWindow(s, "SynAck", d.packet.sequence,
                                              d.packet.sessionId), Established)
            EXCEPT !.receiveWindow = StartAfter(@, d.packet.sequence)]
    ELSE Shutdown(s, FALSE)

HandleSynMessage(s, d) ==
    IF CanWriteMessage(s)
    THEN [SetState(WriteMessageIntoSendWindow(s, "SynAck", d.packet.sequence,
                                              d.packet.sessionId), SynReceived)
            EXCEPT !.receiveWindow = StartAfter(@, d.packet.sequence)]
    ELSE Shutdown(s, FALSE)

HandleSynAckMessage(s, d) ==
    LET marked == MarkMessagesAsAcknowledged(s, d.packet.payload)
        opened == [SetState(marked, Established) EXCEPT
                      !.sessionId     = d.packet.sessionId,
                      !.receiveWindow = StartAfter(@, d.packet.sequence)]
        next   == IF s.state = SynSent THEN SendAckMessage(opened)
                  ELSE IF s.state >= Established
                       THEN MarkMessagesAsAcknowledged(s, d.packet.sequence)
                       ELSE s
    IN  TakeWindowSize(next, d)

(***************************************************************************)
(* HandleFinMessage writes the Fin into the receive window, which wakes an *)
(* application thread that waits in Receive, and only then sets the state: *)
(* the two halves are two steps of the message thread.  FinIsFirst is the  *)
(* case with the two halves; the other cases end in one state.             *)
(***************************************************************************)
FinIsFirst(s) == s.state < Closing

StoreFin(s, d) == WriteMessageIntoReceiveWindow(s, d.packet)

EnterClosing(s, windowSize) ==
    [SetState(s, Closing) EXCEPT
        !.sendWindow = UpdateSendWindowSize(@, windowSize)]

HandleLaterFinMessage(s, d) ==
    TakeWindowSize(IF s.state = FinWait2
                   THEN SetState(SendAckMessage(
                            WriteMessageIntoReceiveWindow(s, d.packet)), Closed)
                   ELSE s, d)

HandleDataMessage(s, d) ==
    TakeWindowSize(IF s.state \in {FinWait1, FinWait2, Established}
                   THEN WriteMessageIntoReceiveWindow(s, d.packet)
                   ELSE s, d)

HandleAckMessage(s, d) ==
    LET opened == IF s.state = SynReceived THEN SetState(s, Established) ELSE s
    IN  TakeWindowSize(IF opened.state >= Established
                       THEN MarkMessagesAsAcknowledged(opened, d.packet.sequence)
                       ELSE s, d)

HandleRstMessage(s, d) == TakeWindowSize(Shutdown(s, FALSE), d)

(***************************************************************************)
(* HandleMessage: dispatch, then the callback of a session that the        *)
(* message established.                                                    *)
(***************************************************************************)
Dispatch(s, d) ==
    CASE d.packet.messageId = "Syn"    -> HandleSynMessage(s, d)
      [] d.packet.messageId = "SynAck" -> HandleSynAckMessage(s, d)
      [] d.packet.messageId = "Fin"    -> HandleLaterFinMessage(s, d)
      [] d.packet.messageId = "Data"   -> HandleDataMessage(s, d)
      [] d.packet.messageId = "Ack"    -> HandleAckMessage(s, d)
      [] d.packet.messageId = "Rst"    -> HandleRstMessage(s, d)

HandleMessage(s, d) ==
    LET next == Dispatch(s, d)
    IN  IF s.state = next.state \/ next.state # Established THEN next
        ELSE IF s.side = "client" THEN [next EXCEPT !.connectionEvent = TRUE]
        ELSE [next EXCEPT !.callbackState = "EstablishedCalled"]

----------------------------------------------------------------------------
(***************************************************************************)
(* Update, the periodic work of the message thread.                        *)
(***************************************************************************)
UpdateReceiveWindow(s) ==
    IF PendingAck(s.receiveWindow) THEN SendAckMessage(s) ELSE s

RetransmitOrShutdown(s, late) ==
    IF Outstanding(s.sendWindow) = 0 THEN s
    ELSE IF s.sendWindow.retransmitCount > kMaxRetransmits THEN Shutdown(s, FALSE)
    ELSE [ForwardSlots(s, Retransmitted(s.sendWindow, late)) EXCEPT
             !.sendWindow = CountRetransmit(@, late)]

TransmitUnsent(s, room) ==
    [ForwardSlots(s, Transmitted(s.sendWindow, room)) EXCEPT
        !.sendWindow = Transmit(@, room)]

UpdateSendWindow(s, late, room) ==
    TransmitUnsent(RetransmitOrShutdown(s, late), room)

WriteFin(s) ==
    IF s.state = FinWait1 /\ CanWriteMessage(s)
    THEN SetState(WriteMessageIntoSendWindow(s, "Fin", 0, NoSession), FinWait2)
    ELSE s

MayClose(s) ==
    \/ s.state = FinWait2 /\ IsSendWindowEmpty(s.sendWindow)
    \/ /\ s.state = Closing
       /\ \/ s.side = "server" /\ s.callbackState = "TerminatedCalled"
          \/ OnlyFinLeft(s.receiveWindow)

CloseIfDone(s) == IF MayClose(s) THEN SetState(s, Closed) ELSE s

UpdateTimeout(s) == CloseIfDone(WriteFin(s))

ShutdownIfLastReference(s, lastReference) ==
    IF lastReference /\ s.side = "client" THEN Shutdown(s, TRUE) ELSE s

NotifyClosed(s) ==
    IF s.state # Closed THEN s
    ELSE [s EXCEPT
            !.disconnectionEvent = TRUE,
            !.callbackState = IF s.side = "server" /\ @ = "EstablishedCalled"
                              THEN "TerminatedCalled" ELSE @]

Update(s, late, room, lastReference) ==
    NotifyClosed(ShutdownIfLastReference(
        UpdateTimeout(UpdateSendWindow(UpdateReceiveWindow(s), late, room)),
        lastReference))

----------------------------------------------------------------------------
(***************************************************************************)
(* Send and Receive, as the application thread runs them: the check of the *)
(* state, and after the wait for the semaphore the rest.                   *)
(***************************************************************************)
MaySend(s)    == s.state # Closed /\ s.state < FinWait2
MayReceive(s) == s.state >= Established

FinishSend(s, payload) == WriteMessageIntoSendWindow(s, "Data", payload, NoSession)

(***************************************************************************)
(* A token taken from the semaphore of a session that closed meanwhile is  *)
(* not given back.                                                         *)
(***************************************************************************)
FinishReceive(s) ==
    LET taken == [s EXCEPT !.receiveWindow = TakeToken(@)]
        read  == [taken EXCEPT !.receiveWindow = ReadPacket(@)]
    IN  IF s.state = Closed THEN taken
        ELSE IF NextUnread(s.receiveWindow).messageId = "Data" THEN read
        ELSE SetState(read, Closed)

DeliversData(s) ==
    s.state # Closed /\ NextUnread(s.receiveWindow).messageId = "Data"
=============================================================================
