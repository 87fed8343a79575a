-------------------------- MODULE SessionProtocol --------------------------
(***************************************************************************)
(* The vocabulary of the session protocol: the states of a session         *)
(* (shared/legacy/src/session.h), the messages two session managers        *)
(* exchange (shared/legacy/inc/protocols/systemProtocols.h) and the        *)
(* parameters of the two windows of a session.                             *)
(*                                                                         *)
(* One client session object talks to server session objects.  Server is   *)
(* the set of server session objects that one run may create: every Syn    *)
(* that is accepted creates a new one.  A server object is its own session *)
(* id (GetNewSessionId returns an id no session of the table has); the id  *)
(* the client starts with is Client, and it adopts the id of a server      *)
(* object when the SynAck arrives.                                         *)
(***************************************************************************)
EXTENDS Integers

CONSTANTS
    Client,                       \* the client session object, and its initial id
    Server,                       \* the server session objects, and their ids
    NoSession,                    \* kInvalidSessionId
    kDefaultWindowSize,           \* slots of each window (128 in the code)
    kMaxRetransmits,              \* 5 in the code
    kFastRetransmitThreshold,     \* 3 in the code
    kMaxUnacknowledgedThreshold   \* 5 in the code

ASSUME ObjectAssumption ==
    /\ Client \notin Server
    /\ NoSession \notin Server \cup {Client}

ASSUME WindowAssumption ==
    /\ kDefaultWindowSize \in Nat \ {0}
    /\ kMaxRetransmits \in Nat
    /\ kFastRetransmitThreshold \in Nat \ {0}
    /\ kMaxUnacknowledgedThreshold \in Nat \ {0}

Sessions == Server \cup {Client}

----------------------------------------------------------------------------
(***************************************************************************)
(* SessionState.  The code compares states with < and >=, so a state is    *)
(* its position in the enumeration.                                        *)
(***************************************************************************)
Closed      == 0
Listening   == 1
SynSent     == 2
SynReceived == 3
Established == 4
FinWait1    == 5
Closing     == 6
FinWait2    == 7

SessionState == 0..7

SessionCallbackState == {"None", "EstablishedCalled", "TerminatedCalled"}

(***************************************************************************)
(* The message channel a message is addressed to: the one of the client or *)
(* the one of the protocol server.                                         *)
(***************************************************************************)
Side == {"client", "server"}

SideOf(o)   == IF o = Client THEN "client" ELSE "server"
Opposite(s) == IF s = "client" THEN "server" ELSE "client"

----------------------------------------------------------------------------
(***************************************************************************)
(* A packet is what a window slot keeps.  payload is the running number of *)
(* the Send call for a Data packet and, for a SynAck, the sequence number  *)
(* of the Syn it answers; initial is SynAckPayload::initialSessionId.      *)
(* Unwritten is the zero-initialised buffer of a slot nobody wrote yet.    *)
(***************************************************************************)
SessionMessage == {"Unknown", "Syn", "SynAck", "Fin", "Data", "Ack", "Rst"}

SessionId == Sessions \cup {NoSession}

Packet == [messageId : SessionMessage,
           sessionId : SessionId,
           sequence  : Nat,
           payload   : Nat,
           initial   : SessionId]

MakePacket(id, sid, seq, payload, initial) ==
    [messageId |-> id, sessionId |-> sid, sequence |-> seq,
     payload |-> payload, initial |-> initial]

Unwritten == MakePacket("Unknown", NoSession, 0, 0, NoSession)

(***************************************************************************)
(* A datagram on the bus: a packet, the channel it goes to, and the window *)
(* its sender advertises.                                                  *)
(***************************************************************************)
Datagram == [packet : Packet, dst : Side, windowSize : Nat]

MakeDatagram(packet, dst, windowSize) ==
    [packet |-> packet, dst |-> dst, windowSize |-> windowSize]

----------------------------------------------------------------------------
(***************************************************************************)
(* The slots of a window and the slot of a sequence number.                *)
(***************************************************************************)
Slot     == 0..(kDefaultWindowSize - 1)
SlotOf(seq) == seq % kDefaultWindowSize

(***************************************************************************)
(* Where a loop that walks upwards from lo and stops at the first number   *)
(* outside Good, or after hi, ends up.                                     *)
(***************************************************************************)
WalkEnd(lo, hi, Good) ==
    IF hi < lo THEN lo
    ELSE CHOOSE end \in lo..(hi + 1) :
            /\ \A seq \in lo..(end - 1) : seq \in Good
            /\ end \notin Good \/ end = hi + 1

Smaller(a, b) == IF a < b THEN a ELSE b
Larger(a, b)  == IF a < b THEN b ELSE a
=============================================================================
