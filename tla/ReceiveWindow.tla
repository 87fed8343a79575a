--------------------------- MODULE ReceiveWindow ----------------------------
(***************************************************************************)
(* Session::ReceiveWindow (shared/legacy/src/session.h) and what the       *)
(* member functions of Session do to it under m_receiveWindow.lock: a      *)
(* packet that arrives is kept in the slot of its sequence number, the     *)
(* semaphore counts the packets that can be read in order, and Receive     *)
(* takes them out one by one.                                              *)
(***************************************************************************)
EXTENDS SessionProtocol

MaxAdvertizedSize == kDefaultWindowSize - (kDefaultWindowSize \div 2)

ReadWindow ==
    [messages                   : [Slot -> Packet],
     valid                      : [Slot -> BOOLEAN],
     semaphore                  : Nat,
     nextUnreadSequence         : Nat,
     nextExpectedSequence       : Nat,
     lastUnacknowledgedSequence : Nat,
     currentAvailableSize       : Nat]

InitReadWindow ==
    [messages                   |-> [i \in Slot |-> Unwritten],
     valid                      |-> [i \in Slot |-> FALSE],
     semaphore                  |-> 0,
     nextUnreadSequence         |-> 1,
     nextExpectedSequence       |-> 1,
     lastUnacknowledgedSequence |-> 1,
     currentAvailableSize       |-> MaxAdvertizedSize]

(***************************************************************************)
(* CalculateCurrentWindowSize never advertises less than one packet.       *)
(***************************************************************************)
CalculateCurrentWindowSize(w) ==
    Larger(MaxAdvertizedSize - (w.nextExpectedSequence - w.nextUnreadSequence), 1)

(***************************************************************************)
(* HandleSynMessage and HandleSynAckMessage start the window after the     *)
(* sequence number the peer used for its half of the handshake.            *)
(***************************************************************************)
StartAfter(w, seq) ==
    [w EXCEPT !.nextUnreadSequence         = seq + 1,
              !.nextExpectedSequence       = seq + 1,
              !.lastUnacknowledgedSequence = seq + 1,
              !.currentAvailableSize       = MaxAdvertizedSize]

(***************************************************************************)
(* The state change of SendAckMessage; the Ack carries                     *)
(* nextExpectedSequence - 1.                                               *)
(***************************************************************************)
NoteAck(w) ==
    [w EXCEPT !.lastUnacknowledgedSequence = w.nextExpectedSequence,
              !.currentAvailableSize       = CalculateCurrentWindowSize(w)]

PendingAck(w) == w.nextExpectedSequence > w.lastUnacknowledgedSequence

----------------------------------------------------------------------------
(***************************************************************************)
(* WriteMessageIntoReceiveWindow.  A new packet is stored when it is less  *)
(* than a window ahead of the reader; nextExpectedSequence then steps over *)
(* every valid slot, and the semaphore is signalled once for each.         *)
(***************************************************************************)
IsNew(w, packet) == packet.sequence >= w.nextExpectedSequence

\* Changed: the packet one window ahead of the reader is taken, too.
FitsOffByOne(w, packet) == packet.sequence - w.nextUnreadSequence <= kDefaultWindowSize

Fits(w, packet) == packet.sequence - w.nextUnreadSequence < kDefaultWindowSize

Readable(w) == {seq \in w.nextUnreadSequence..
                            (w.nextUnreadSequence + kDefaultWindowSize - 1) :
                    w.valid[SlotOf(seq)]}

ExpectedAfter(w) ==
    WalkEnd(w.nextExpectedSequence,
            w.nextUnreadSequence + kDefaultWindowSize - 1,
            Readable(w))

StepExpected(w) ==
    [w EXCEPT !.nextExpectedSequence = ExpectedAfter(w),
              !.semaphore = @ + (ExpectedAfter(w) - w.nextExpectedSequence)]

\* Changed: packets are stored in the order they arrive.
StoreInArrivalOrder(w, packet) ==
    LET index == SlotOf(w.nextExpectedSequence)
    IN  StepExpected([w EXCEPT !.messages = [@ EXCEPT ![index] = packet],
                               !.valid    = [@ EXCEPT ![index] = TRUE]])

StorePacket(w, packet) ==
    LET index == SlotOf(packet.sequence)
    IN  StepExpected([w EXCEPT !.messages = [@ EXCEPT ![index] = packet],
                               !.valid    = [@ EXCEPT ![index] = TRUE]])

AcksEarly(before, after) ==
    /\ PendingAck(before)
    /\ after.nextExpectedSequence - after.lastUnacknowledgedSequence
           >= kMaxUnacknowledgedThreshold

----------------------------------------------------------------------------
(***************************************************************************)
(* Receive: the semaphore gives a packet, which is read and its slot freed.*)
(***************************************************************************)
HasPacket(w) == w.semaphore > 0

NextUnread(w) == w.messages[SlotOf(w.nextUnreadSequence)]

TakeToken(w) == [w EXCEPT !.semaphore = @ - 1]

ReadPacket(w) ==
    LET index == SlotOf(w.nextUnreadSequence)
        read  == [w EXCEPT !.valid = [@ EXCEPT ![index] = FALSE],
                           !.nextUnreadSequence = @ + 1]
    IN  [read EXCEPT !.currentAvailableSize = CalculateCurrentWindowSize(read)]

(***************************************************************************)
(* UpdateTimeout: the packet the application would read next is a Fin.     *)
(***************************************************************************)
\* Changed: a Fin anywhere in front of nextExpected is enough.
AnyFinLeft(w) ==
    \E seq \in w.nextUnreadSequence..(w.nextExpectedSequence - 1) :
        w.messages[SlotOf(seq)].messageId = "Fin"

OnlyFinLeft(w) ==
    /\ w.nextUnreadSequence < w.nextExpectedSequence
    /\ NextUnread(w).messageId = "Fin"
=============================================================================
