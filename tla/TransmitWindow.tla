--------------------------- MODULE TransmitWindow ---------------------------
(***************************************************************************)
(* Session::TransmitWindow (shared/legacy/src/session.h) and what the      *)
(* member functions of Session do to it under m_sendWindow.lock: a packet  *)
(* is written into the slot of its sequence number, transmitted, perhaps   *)
(* retransmitted, and its slot is freed when the peer acknowledges it.     *)
(*                                                                         *)
(* The parallel arrays messages[] and sequence[] are always written        *)
(* together, so sequence[i] is messages[i].sequence here.  The transmit    *)
(* times and the round trip estimate are abstracted: which packets have    *)
(* timed out is an input of Update.                                        *)
(***************************************************************************)
EXTENDS SessionProtocol

SendWindow ==
    [messages                   : [Slot -> Packet],
     valid                      : [Slot -> BOOLEAN],
     semaphore                  : Nat,
     nextSequence               : Nat,
     nextUnacknowledgedSequence : Nat,
     lastSentSequence           : Nat,
     lastAckCount               : Nat,
     retransmitCount            : Nat,
     lastAvailableSize          : Nat]

InitSendWindow ==
    [messages                   |-> [i \in Slot |-> Unwritten],
     valid                      |-> [i \in Slot |-> FALSE],
     semaphore                  |-> kDefaultWindowSize,
     nextSequence               |-> 1,
     nextUnacknowledgedSequence |-> 1,
     lastSentSequence           |-> 0,
     lastAckCount               |-> 0,
     retransmitCount            |-> 0,
     lastAvailableSize          |-> 1]

----------------------------------------------------------------------------
(***************************************************************************)
(* WriteMessageIntoSendWindow once the semaphore gave a slot: the packet   *)
(* takes the next sequence number.                                         *)
(***************************************************************************)
\* Changed: Send does not wait for a free slot.
IgnoreFullWindow(w) == TRUE

HasFreeSlot(w) == w.semaphore > 0

WriteSlot(w, id, sid, payload, initial) ==
    LET index == SlotOf(w.nextSequence)
        packet == MakePacket(id, sid, w.nextSequence, payload, initial)
    IN  [w EXCEPT !.semaphore    = @ - 1,
                  !.nextSequence = @ + 1,
                  !.messages     = [@ EXCEPT ![index] = packet],
                  !.valid        = [@ EXCEPT ![index] = TRUE]]

(***************************************************************************)
(* The sequence numbers whose slot still holds them.                       *)
(***************************************************************************)
Held(w) == {seq \in w.nextUnacknowledgedSequence..w.lastSentSequence :
                /\ w.valid[SlotOf(seq)]
                /\ w.messages[SlotOf(seq)].sequence = seq}

(***************************************************************************)
(* The first pass of MarkMessagesAsAcknowledged: where its loop stops, and *)
(* the window with the slots below freed.                                  *)
(***************************************************************************)
AckedUpTo(w, maxSequenceNumber) ==
    WalkEnd(w.nextUnacknowledgedSequence,
            Smaller(maxSequenceNumber, w.lastSentSequence),
            Held(w))

FreeSlots(w, end) ==
    LET freed == {SlotOf(seq) : seq \in w.nextUnacknowledgedSequence..(end - 1)}
    IN  [w EXCEPT !.valid     = [i \in Slot |-> @[i] /\ i \notin freed],
                  !.semaphore = @ + (end - w.nextUnacknowledgedSequence),
                  !.nextUnacknowledgedSequence = end,
                  !.retransmitCount = 0,
                  !.lastAckCount    = 0]

(***************************************************************************)
(* An acknowledgement that frees nothing is counted, and from              *)
(* kFastRetransmitThreshold on it retransmits the slot counted from the    *)
(* first unacknowledged sequence number.                                   *)
(***************************************************************************)
CountDuplicateAck(w) ==
    LET count == w.lastAckCount + 1
    IN  [w EXCEPT !.lastAckCount    = count,
                  !.retransmitCount =
                      IF count >= kFastRetransmitThreshold THEN 0 ELSE @]

FastRetransmitSequence(w) ==
    w.nextUnacknowledgedSequence + (w.lastAckCount - kFastRetransmitThreshold)

(***************************************************************************)
(* UpdateSendWindow.  late is how many of the packets that wait for an     *)
(* acknowledgement have timed out, room how many datagrams the transport   *)
(* takes before it answers NotReady.                                       *)
(***************************************************************************)
Outstanding(w) ==
    Larger(0, (w.lastSentSequence - w.nextUnacknowledgedSequence) + 1)

Retransmitted(w, late) ==
    w.nextUnacknowledgedSequence..(w.nextUnacknowledgedSequence + late - 1)

CountRetransmit(w, late) ==
    IF late > 0 THEN [w EXCEPT !.retransmitCount = @ + 1] ELSE w

\* Changed: the window the peer advertised is not a limit.
TransmittableIgnoringPeer(w, room) ==
    Smaller(room, (w.nextSequence - w.lastSentSequence) - 1)

Transmittable(w, room) ==
    Smaller(room, Smaller(w.lastAvailableSize,
                          (w.nextSequence - w.lastSentSequence) - 1))

Transmitted(w, room) ==
    (w.lastSentSequence + 1)..(w.lastSentSequence + Transmittable(w, room))

Transmit(w, room) ==
    [w EXCEPT !.lastSentSequence  = @ + Transmittable(w, room),
              !.lastAvailableSize = @ - Transmittable(w, room)]

(***************************************************************************)
(* IsSendWindowEmpty for the session versions this repository negotiates   *)
(* (kSessionProtocolVersionSynAckVersion).                                 *)
(***************************************************************************)
\* Changed: off by one against nextSequence.
IsSendWindowEmptyOffByOne(w) ==
    /\ w.nextUnacknowledgedSequence > w.lastSentSequence
    /\ w.lastSentSequence = w.nextSequence

IsSendWindowEmpty(w) ==
    /\ w.nextUnacknowledgedSequence > w.lastSentSequence
    /\ w.lastSentSequence + 1 = w.nextSequence

UpdateSendWindowSize(w, windowSize) == [w EXCEPT !.lastAvailableSize = windowSize]
=============================================================================
