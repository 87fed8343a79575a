---------------------------- MODULE SessionProofs ---------------------------
(***************************************************************************)
(* Sessions and session managers, in three parts: what the operators of    *)
(* TransmitWindow and ReceiveWindow and the member functions of Session    *)
(* preserve; the managers, which keep every session object well formed;    *)
(* and the streams, what is sent is what is read.                          *)
(***************************************************************************)
EXTENDS SessionManager, WellFoundedInduction, TLAPS

----------------------------------------------------------------------------
\* Slots.

\* Every sequence number has a slot (the index expression seq % size).
LEMMA SlotOfType == ASSUME NEW seq \in Nat PROVE SlotOf(seq) \in Slot
  BY WindowAssumption DEF SlotOf, Slot

\* Two sequence numbers less than a window apart have different slots.
LEMMA SlotsDistinct ==
  ASSUME NEW a \in Nat, NEW b \in Nat, a < b, b < a + kDefaultWindowSize
  PROVE  SlotOf(a) # SlotOf(b)
<1> DEFINE N == kDefaultWindowSize
           k == (b \div N) - (a \div N)
<1>0. N \in Nat \ {0}
  BY WindowAssumption
<1> SUFFICES ASSUME a % N = b % N PROVE FALSE
  BY DEF SlotOf
<1>1. a = (N * (a \div N)) + (a % N) /\ a \div N \in Int /\ a % N \in Int
  BY <1>0
<1>2. b = (N * (b \div N)) + (b % N) /\ b \div N \in Int /\ b % N \in Int
  BY <1>0
<1>3. k \in Int /\ b - a = N * k
  BY <1>0, <1>1, <1>2
<1>4. k <= 0 => N * k <= 0
  BY <1>0, <1>3
<1>5. k >= 1 => N * k >= N
  BY <1>0, <1>3
<1>6. b - a > 0 /\ b - a < N
  BY <1>0
<1> HIDE DEF k, N
<1> QED BY <1>0, <1>3, <1>4, <1>5, <1>6

\* In a window of sequence numbers, the slot determines the number.
LEMMA SlotInjective ==
  ASSUME NEW lo \in Nat, NEW a \in Nat, NEW b \in Nat,
         a >= lo, b >= lo,
         a < lo + kDefaultWindowSize, b < lo + kDefaultWindowSize,
         SlotOf(a) = SlotOf(b)
  PROVE  a = b
<1>0. kDefaultWindowSize \in Nat
  BY WindowAssumption
<1>1. CASE a < b
  BY <1>0, <1>1, SlotsDistinct
<1>2. CASE b < a
  BY <1>0, <1>2, SlotsDistinct
<1> QED BY <1>1, <1>2

\* A walk over good numbers only ends behind the last one.
LEMMA WalkEndAll ==
  ASSUME NEW lo \in Nat, NEW hi \in Int, NEW Good, lo..hi \subseteq Good
  PROVE  WalkEnd(lo, hi, Good) = IF hi < lo THEN lo ELSE hi + 1
<1>1. CASE hi < lo
  BY <1>1 DEF WalkEnd
<1>2. CASE ~(hi < lo)
  <2> DEFINE P(end) == /\ \A seq \in lo..(end - 1) : seq \in Good
                       /\ end \notin Good \/ end = hi + 1
  <2>1. hi + 1 \in lo..(hi + 1) /\ P(hi + 1)
    BY <1>2
  <2>2. \A end \in lo..(hi + 1) : P(end) => end = hi + 1
    BY <1>2
  <2>3. (CHOOSE end \in lo..(hi + 1) : P(end)) = hi + 1
    BY <2>1, <2>2
  <2> QED BY <1>2, <2>3 DEF WalkEnd
<1> QED BY <1>1, <1>2

\* A set of natural numbers that is not empty has a least element.
LEMMA LeastNat ==
  ASSUME NEW T, T \subseteq Nat, T # {}
  PROVE  \E x \in T : \A y \in T : x <= y
<1> DEFINE R == OpToRel(<, Nat)
<1>1. \E x \in T : \A y \in T : ~(<<y, x>> \in R)
  <2>1. IsWellFoundedOn(R, Nat)
    BY NatLessThanWellFounded
  <2> HIDE DEF R
  <2> QED BY <2>1, WFMin, Zenon
<1>2. ASSUME NEW x \in T, NEW y \in T, ~(<<y, x>> \in R)
      PROVE  x <= y
  <2>1. x \in Nat /\ y \in Nat
    OBVIOUS
  <2>2. ~(y < x)
    BY <1>2, <2>1 DEF OpToRel
  <2> QED BY <2>1, <2>2
<1> QED BY <1>1, <1>2

\* Where a walk ends in general.
LEMMA WalkEndStops ==
  ASSUME NEW lo \in Nat, NEW hi \in Int, NEW Good, lo <= hi + 1
  PROVE  /\ WalkEnd(lo, hi, Good) \in lo..(hi + 1)
         /\ \A seq \in lo..(WalkEnd(lo, hi, Good) - 1) : seq \in Good
<1>1. CASE hi < lo
  BY <1>1 DEF WalkEnd
<1>2. CASE ~(hi < lo)
  <2> DEFINE P(end) == /\ \A seq \in lo..(end - 1) : seq \in Good
                       /\ end \notin Good \/ end = hi + 1
             n0 == CHOOSE end \in lo..(hi + 1) : P(end)
             Stops == {end \in lo..(hi + 1) : end \notin Good \/ end = hi + 1}
  <2>1. \E end \in lo..(hi + 1) : P(end)
    <3>1. Stops \subseteq Nat /\ hi + 1 \in Stops
      BY <1>2
    <3>2. PICK x \in Stops : \A y \in Stops : x <= y
      BY <3>1, LeastNat
    <3>3. x \in lo..(hi + 1) /\ P(x)
      BY <3>2
    <3> QED BY <3>3
  <2>2. n0 \in lo..(hi + 1) /\ P(n0)
    BY <2>1
  <2> QED BY <1>2, <2>2 DEF WalkEnd
<1> QED BY <1>1, <1>2

----------------------------------------------------------------------------
\* The send window.  SendOK strengthens SendWindowConsistent with the
\* types of the fields; the code keeps it in every member function.
SendOK(w) ==
    /\ w \in SendWindow
    /\ w.nextUnacknowledgedSequence >= 1
    /\ SendWindowConsistent(w)

\* The zero-initialised buffer is a packet, and so is every packet that
\* WriteMessageIntoSendWindow or SendControlMessage puts together.
LEMMA MakePacketType ==
  ASSUME NEW id \in SessionMessage, NEW sid \in SessionId, NEW seq \in Nat,
         NEW payload \in Nat, NEW initial \in SessionId
  PROVE  MakePacket(id, sid, seq, payload, initial) \in Packet
  BY DEF MakePacket, Packet

\* The zero-initialised buffer of a slot is a packet.
LEMMA UnwrittenType == Unwritten \in Packet
  BY DEF Unwritten, MakePacket, Packet, SessionMessage, SessionId

\* The send window that the constructor makes is consistent.
LEMMA InitSendOK == SendOK(InitSendWindow)
<1>1. kDefaultWindowSize \in Nat
  BY WindowAssumption
<1>2. InitSendWindow \in SendWindow
  BY <1>1, UnwrittenType DEF InitSendWindow, SendWindow
<1> QED BY <1>1, <1>2 DEF SendOK, SendWindowConsistent, InitSendWindow

\* Writing a packet into a free slot keeps the window consistent: the slot
\* is not one of the slots that wait for an acknowledgement.
LEMMA WriteSlotOK ==
  ASSUME NEW w, SendOK(w), HasFreeSlot(w),
         NEW id \in SessionMessage, NEW sid \in SessionId,
         NEW payload \in Nat, NEW initial \in SessionId
  PROVE  SendOK(WriteSlot(w, id, sid, payload, initial))
<1> DEFINE n == w.nextSequence
           u == w.nextUnacknowledgedSequence
           v == WriteSlot(w, id, sid, payload, initial)
           p == MakePacket(id, sid, n, payload, initial)
<1>1. /\ w \in SendWindow /\ u >= 1 /\ n \in Nat /\ u \in Nat
      /\ w.semaphore \in Nat /\ w.semaphore > 0
      /\ w.semaphore + (n - u) = kDefaultWindowSize
      /\ kDefaultWindowSize \in Nat
      /\ w.lastSentSequence \in Nat /\ w.lastSentSequence + 1 \in u..n
  BY WindowAssumption DEF SendOK, SendWindowConsistent, SendWindow, HasFreeSlot
<1>2. p \in Packet /\ p.sequence = n
  BY <1>1, MakePacketType DEF MakePacket
<1>3. SlotOf(n) \in Slot
  BY <1>1, SlotOfType
<1>4. /\ w.messages \in [Slot -> Packet] /\ w.valid \in [Slot -> BOOLEAN]
      /\ w.lastAckCount \in Nat /\ w.retransmitCount \in Nat
      /\ w.lastAvailableSize \in Nat
  BY <1>1 DEF SendWindow
<1>5. /\ v.messages = [w.messages EXCEPT ![SlotOf(n)] = p]
      /\ v.valid = [w.valid EXCEPT ![SlotOf(n)] = TRUE]
  BY <1>1 DEF WriteSlot, SendWindow
<1>7. v \in SendWindow
  <2> DEFINE messages == [w.messages EXCEPT ![SlotOf(n)] = p]
             valid    == [w.valid EXCEPT ![SlotOf(n)] = TRUE]
  <2>1. messages \in [Slot -> Packet]
    BY <1>2, <1>3, <1>4
  <2>2. valid \in [Slot -> BOOLEAN]
    BY <1>3, <1>4
  <2>3. v = [w EXCEPT !.semaphore    = w.semaphore - 1,
                      !.nextSequence = n + 1,
                      !.messages     = messages,
                      !.valid        = valid]
    BY DEF WriteSlot
  <2>4. w.semaphore - 1 \in Nat /\ n + 1 \in Nat
    BY <1>1
  <2> HIDE DEF v, p, messages, valid
  <2> QED BY <1>1, <2>1, <2>2, <2>3, <2>4 DEF SendWindow
<1>6. \A seq \in u..(n - 1) : SlotOf(seq) # SlotOf(n)
  BY <1>1, SlotsDistinct
<1>8. ASSUME NEW seq \in u..n
      PROVE  v.valid[SlotOf(seq)] /\ v.messages[SlotOf(seq)].sequence = seq
  <2>1. CASE seq = n
    BY <1>2, <1>3, <1>4, <1>5, <2>1
  <2>2. CASE seq # n
    <3>1. seq \in u..(n - 1) /\ seq \in Nat
      BY <1>1, <1>8, <2>2
    <3>2. w.valid[SlotOf(seq)] /\ w.messages[SlotOf(seq)].sequence = seq
      BY <3>1 DEF SendOK, SendWindowConsistent
    <3>3. SlotOf(seq) # SlotOf(n) /\ SlotOf(seq) \in Slot
      BY <1>6, <3>1, SlotOfType
    <3> QED BY <1>3, <1>4, <1>5, <3>2, <3>3
  <2> QED BY <2>1, <2>2
<1>9. ASSUME NEW i \in Slot, v.valid[i]
      PROVE  \E seq \in u..n : i = SlotOf(seq)
  <2>1. CASE i = SlotOf(n)
    BY <1>1, <2>1
  <2>2. CASE i # SlotOf(n)
    <3>1. w.valid[i]
      BY <1>3, <1>4, <1>5, <1>9, <2>2
    <3>2. \E seq \in u..(n - 1) : i = SlotOf(seq)
      BY <3>1 DEF SendOK, SendWindowConsistent
    <3> QED BY <1>1, <3>2
  <2> QED BY <2>1, <2>2
<1>10. /\ v.semaphore = w.semaphore - 1 /\ v.nextSequence = n + 1
       /\ v.nextUnacknowledgedSequence = u
       /\ v.lastSentSequence = w.lastSentSequence
  BY <1>1 DEF WriteSlot, SendWindow
<1> HIDE DEF v, p, n, u
<1>11. v.semaphore + (v.nextSequence - v.nextUnacknowledgedSequence)
         = kDefaultWindowSize
  BY <1>1, <1>10
<1>12. v.lastSentSequence + 1 \in v.nextUnacknowledgedSequence..v.nextSequence
  BY <1>1, <1>10
<1>13. v.nextUnacknowledgedSequence..(v.nextSequence - 1) = u..n
  BY <1>1, <1>10
<1>14. SendOK(v)
  BY <1>1, <1>7, <1>8, <1>9, <1>10, <1>11, <1>12, <1>13
     DEF SendOK, SendWindowConsistent
<1> QED BY <1>14 DEF v

\* The first pass of MarkMessagesAsAcknowledged never meets a slot that
\* does not match, so it frees everything up to the acknowledged sequence
\* number that was sent.
LEMMA AckedUpToValue ==
  ASSUME NEW w, SendOK(w), NEW max \in Nat
  PROVE  LET hi == Smaller(max, w.lastSentSequence)
             u  == w.nextUnacknowledgedSequence
         IN  AckedUpTo(w, max) = IF hi < u THEN u ELSE hi + 1
<1> DEFINE hi == Smaller(max, w.lastSentSequence)
           u  == w.nextUnacknowledgedSequence
<1>1. /\ u \in Nat /\ w.lastSentSequence \in Nat /\ w.nextSequence \in Nat
      /\ w.lastSentSequence + 1 \in u..w.nextSequence
  BY DEF SendOK, SendWindowConsistent, SendWindow
<1>2. hi \in Nat /\ hi <= w.lastSentSequence
  BY <1>1 DEF Smaller
<1>3. u..hi \subseteq Held(w)
  <2>1. SUFFICES ASSUME NEW seq \in u..hi PROVE seq \in Held(w)
    OBVIOUS
  <2>2. seq \in u..w.lastSentSequence /\ seq \in u..(w.nextSequence - 1)
    BY <1>1, <1>2
  <2> QED BY <2>2 DEF Held, SendOK, SendWindowConsistent
<1> QED BY <1>1, <1>2, <1>3, WalkEndAll DEF AckedUpTo

\* Freeing the acknowledged slots keeps the window consistent: no packet
\* that still waits shares a slot with a freed one.
LEMMA FreeSlotsOK ==
  ASSUME NEW w, SendOK(w),
         NEW end \in w.nextUnacknowledgedSequence..(w.lastSentSequence + 1)
  PROVE  SendOK(FreeSlots(w, end))
<1> DEFINE n == w.nextSequence
           u == w.nextUnacknowledgedSequence
           v == FreeSlots(w, end)
           freed == {SlotOf(seq) : seq \in u..(end - 1)}
           valid == [i \in Slot |-> w.valid[i] /\ i \notin freed]
<1>1. /\ w \in SendWindow /\ u >= 1 /\ n \in Nat /\ u \in Nat
      /\ w.semaphore \in Nat /\ w.semaphore + (n - u) = kDefaultWindowSize
      /\ kDefaultWindowSize \in Nat
      /\ w.lastSentSequence \in Nat /\ w.lastSentSequence + 1 \in u..n
      /\ end \in Nat /\ u <= end /\ end <= w.lastSentSequence + 1
  BY WindowAssumption DEF SendOK, SendWindowConsistent, SendWindow
<1>2. v = [w EXCEPT !.valid     = valid,
                    !.semaphore = w.semaphore + (end - u),
                    !.nextUnacknowledgedSequence = end,
                    !.retransmitCount = 0,
                    !.lastAckCount    = 0]
  BY DEF FreeSlots
<1>3. v \in SendWindow
  <2>1. valid \in [Slot -> BOOLEAN]
    BY <1>1 DEF SendWindow
  <2>2. w.semaphore + (end - u) \in Nat
    BY <1>1
  <2> HIDE DEF v, valid
  <2> QED BY <1>1, <1>2, <2>1, <2>2 DEF SendWindow
<1>4. /\ v.messages = w.messages /\ v.valid = valid /\ v.nextSequence = n
      /\ v.semaphore = w.semaphore + (end - u)
      /\ v.nextUnacknowledgedSequence = end
      /\ v.lastSentSequence = w.lastSentSequence
  <2> HIDE DEF v, valid
  <2> QED BY <1>1, <1>2 DEF SendWindow
<1>5. ASSUME NEW seq \in end..(n - 1)
      PROVE  v.valid[SlotOf(seq)] /\ v.messages[SlotOf(seq)].sequence = seq
  <2>1. seq \in Nat /\ seq \in u..(n - 1) /\ seq < u + kDefaultWindowSize
    BY <1>1
  <2>2. w.valid[SlotOf(seq)] /\ w.messages[SlotOf(seq)].sequence = seq
    BY <2>1 DEF SendOK, SendWindowConsistent
  <2>3. SlotOf(seq) \notin freed
    <3>1. SUFFICES ASSUME NEW old \in u..(end - 1), SlotOf(old) = SlotOf(seq)
                   PROVE  FALSE
      OBVIOUS
    <3>2. old \in Nat /\ old >= u /\ old < seq
      BY <1>1, <2>1
    <3> QED BY <1>1, <2>1, <3>1, <3>2, SlotsDistinct
  <2>4. SlotOf(seq) \in Slot
    BY <2>1, SlotOfType
  <2> HIDE DEF freed, v
  <2> QED BY <1>4, <2>2, <2>3, <2>4
<1>6. ASSUME NEW i \in Slot, v.valid[i]
      PROVE  \E seq \in end..(n - 1) : i = SlotOf(seq)
  <2>1. w.valid[i] /\ i \notin freed
    <3> HIDE DEF freed, v
    <3> QED BY <1>4, <1>6
  <2>2. PICK seq \in u..(n - 1) : i = SlotOf(seq)
    BY <2>1 DEF SendOK, SendWindowConsistent
  <2>3. seq \notin u..(end - 1)
    BY <2>1, <2>2
  <2>4. seq \in end..(n - 1)
    BY <1>1, <2>2, <2>3
  <2> QED BY <2>2, <2>4
<1> HIDE DEF v, n, u, valid
<1>7. v.semaphore + (v.nextSequence - v.nextUnacknowledgedSequence)
         = kDefaultWindowSize
  BY <1>1, <1>4
<1>8. v.lastSentSequence + 1 \in v.nextUnacknowledgedSequence..v.nextSequence
  BY <1>1, <1>4
<1>9. v.nextUnacknowledgedSequence >= 1
  BY <1>1, <1>4
<1>10. SendOK(v)
  BY <1>3, <1>4, <1>5, <1>6, <1>7, <1>8, <1>9 DEF SendOK, SendWindowConsistent
<1> QED BY <1>10 DEF v

\* A call that leaves the slots, the semaphore and the two ends alone, and
\* moves lastSentSequence at most up to the last written packet.
LEMMA SameSlotsOK ==
  ASSUME NEW w, SendOK(w), NEW v \in SendWindow,
         v.messages = w.messages, v.valid = w.valid,
         v.semaphore = w.semaphore, v.nextSequence = w.nextSequence,
         v.nextUnacknowledgedSequence = w.nextUnacknowledgedSequence,
         v.lastSentSequence + 1 \in w.nextUnacknowledgedSequence..w.nextSequence
  PROVE  SendOK(v)
  BY DEF SendOK, SendWindowConsistent

\* Counting a duplicate acknowledgement keeps the send window consistent.
LEMMA CountDuplicateAckOK ==
  ASSUME NEW w, SendOK(w)
  PROVE  SendOK(CountDuplicateAck(w))
<1> DEFINE v == CountDuplicateAck(w)
<1>1. w \in SendWindow
  BY DEF SendOK
<1>2. /\ v \in SendWindow /\ v.messages = w.messages /\ v.valid = w.valid
      /\ v.semaphore = w.semaphore /\ v.nextSequence = w.nextSequence
      /\ v.nextUnacknowledgedSequence = w.nextUnacknowledgedSequence
      /\ v.lastSentSequence = w.lastSentSequence
  <2> DEFINE count == w.lastAckCount + 1
             retransmits == IF count >= kFastRetransmitThreshold
                            THEN 0 ELSE w.retransmitCount
  <2>1. w.lastAckCount \in Nat /\ w.retransmitCount \in Nat
    BY <1>1 DEF SendWindow
  <2>2. count \in Nat /\ retransmits \in Nat
    BY <2>1
  <2>3. v = [w EXCEPT !.lastAckCount = count, !.retransmitCount = retransmits]
    BY DEF CountDuplicateAck
  <2> HIDE DEF v, count, retransmits
  <2> QED BY <1>1, <2>2, <2>3 DEF SendWindow
<1>3. w.lastSentSequence + 1 \in w.nextUnacknowledgedSequence..w.nextSequence
  BY DEF SendOK, SendWindowConsistent
<1> HIDE DEF v
<1>4. SendOK(v)
  BY <1>2, <1>3, SameSlotsOK
<1> QED BY <1>4 DEF v

\* Counting a retransmission keeps the send window consistent.
LEMMA CountRetransmitOK ==
  ASSUME NEW w, SendOK(w), NEW late \in Nat
  PROVE  SendOK(CountRetransmit(w, late))
<1> DEFINE v == CountRetransmit(w, late)
<1>1. w \in SendWindow
  BY DEF SendOK
<1>2. /\ v \in SendWindow /\ v.messages = w.messages /\ v.valid = w.valid
      /\ v.semaphore = w.semaphore /\ v.nextSequence = w.nextSequence
      /\ v.nextUnacknowledgedSequence = w.nextUnacknowledgedSequence
      /\ v.lastSentSequence = w.lastSentSequence
  BY <1>1 DEF CountRetransmit, SendWindow
<1>3. w.lastSentSequence + 1 \in w.nextUnacknowledgedSequence..w.nextSequence
  BY DEF SendOK, SendWindowConsistent
<1> HIDE DEF v
<1>4. SendOK(v)
  BY <1>2, <1>3, SameSlotsOK
<1> QED BY <1>4 DEF v

\* Taking over the window the peer advertises keeps the send window
\* consistent.
LEMMA UpdateSendWindowSizeOK ==
  ASSUME NEW w, SendOK(w), NEW size \in Nat
  PROVE  SendOK(UpdateSendWindowSize(w, size))
<1> DEFINE v == UpdateSendWindowSize(w, size)
<1>1. w \in SendWindow
  BY DEF SendOK
<1>2. /\ v \in SendWindow /\ v.messages = w.messages /\ v.valid = w.valid
      /\ v.semaphore = w.semaphore /\ v.nextSequence = w.nextSequence
      /\ v.nextUnacknowledgedSequence = w.nextUnacknowledgedSequence
      /\ v.lastSentSequence = w.lastSentSequence
  BY <1>1 DEF UpdateSendWindowSize, SendWindow
<1>3. w.lastSentSequence + 1 \in w.nextUnacknowledgedSequence..w.nextSequence
  BY DEF SendOK, SendWindowConsistent
<1> HIDE DEF v
<1>4. SendOK(v)
  BY <1>2, <1>3, SameSlotsOK
<1> QED BY <1>4 DEF v

\* UpdateSendWindow never transmits past the last written packet, and the
\* advertised window never goes below zero.
LEMMA TransmitOK ==
  ASSUME NEW w, SendOK(w), NEW room \in Nat
  PROVE  /\ SendOK(Transmit(w, room))
         /\ Transmitted(w, room) \subseteq Nat
<1> DEFINE k == Transmittable(w, room)
           v == Transmit(w, room)
           u == w.nextUnacknowledgedSequence
<1>1. /\ w \in SendWindow /\ w.nextSequence \in Nat /\ u \in Nat
      /\ w.lastSentSequence \in Nat /\ w.lastAvailableSize \in Nat
      /\ w.lastSentSequence + 1 \in u..w.nextSequence
  BY DEF SendOK, SendWindowConsistent, SendWindow
<1>2. /\ k \in Nat /\ k <= w.lastAvailableSize
      /\ k <= (w.nextSequence - w.lastSentSequence) - 1
  BY <1>1 DEF Transmittable, Smaller
<1>3. v = [w EXCEPT !.lastSentSequence  = w.lastSentSequence + k,
                    !.lastAvailableSize = w.lastAvailableSize - k]
  BY DEF Transmit
<1>4. w.lastSentSequence + k \in Nat /\ w.lastAvailableSize - k \in Nat
  BY <1>1, <1>2
<1> HIDE DEF v, k
<1>5. /\ v \in SendWindow /\ v.messages = w.messages /\ v.valid = w.valid
      /\ v.semaphore = w.semaphore /\ v.nextSequence = w.nextSequence
      /\ v.nextUnacknowledgedSequence = u
      /\ v.lastSentSequence = w.lastSentSequence + k
  BY <1>1, <1>3, <1>4 DEF SendWindow
<1>6. v.lastSentSequence + 1 \in u..w.nextSequence
  BY <1>1, <1>2, <1>5
<1>7. SendOK(v)
  BY <1>5, <1>6, SameSlotsOK
<1>8. Transmitted(w, room) \subseteq Nat
  BY <1>1, <1>2 DEF Transmitted, k
<1> QED BY <1>7, <1>8 DEF v

----------------------------------------------------------------------------
\* The receive window.
RecvOK(w) ==
    /\ w \in ReadWindow
    /\ w.nextUnreadSequence >= 1
    /\ ReceiveWindowConsistent(w)

\* What the lemmas below use of a consistent window.
LEMMA RecvOKFields ==
  ASSUME NEW w, RecvOK(w)
  PROVE  /\ w \in ReadWindow
         /\ w.messages \in [Slot -> Packet] /\ w.valid \in [Slot -> BOOLEAN]
         /\ w.nextUnreadSequence \in Nat /\ w.nextUnreadSequence >= 1
         /\ w.nextExpectedSequence \in Nat
         /\ w.nextUnreadSequence <= w.nextExpectedSequence
         /\ w.nextExpectedSequence <= w.nextUnreadSequence + kDefaultWindowSize
         /\ w.lastUnacknowledgedSequence \in Nat
         /\ w.lastUnacknowledgedSequence <= w.nextExpectedSequence
         /\ w.semaphore \in Nat
         /\ w.semaphore <= w.nextExpectedSequence - w.nextUnreadSequence
         /\ w.currentAvailableSize \in Nat
         /\ kDefaultWindowSize \in Nat \ {0}
  BY WindowAssumption DEF RecvOK, ReceiveWindowConsistent, ReadWindow

\* The largest advertised size is a natural number: half of the window,
\* rounded up.
LEMMA MaxAdvertizedSizeType == MaxAdvertizedSize \in Nat
<1>1. kDefaultWindowSize \in Nat
  BY WindowAssumption
<1>2. /\ kDefaultWindowSize \div 2 \in Nat
      /\ kDefaultWindowSize \div 2 <= kDefaultWindowSize
  BY <1>1
<1> QED BY <1>1, <1>2 DEF MaxAdvertizedSize

\* The advertised window is at least one packet, however far the reader is
\* behind.
LEMMA WindowSizePositive ==
  ASSUME NEW w, w.nextExpectedSequence \in Nat, w.nextUnreadSequence \in Nat
  PROVE  /\ CalculateCurrentWindowSize(w) \in Nat
         /\ CalculateCurrentWindowSize(w) >= 1
  BY MaxAdvertizedSizeType DEF CalculateCurrentWindowSize, Larger

\* An empty window may start after any sequence number.
LEMMA InitReadWindowType == InitReadWindow \in ReadWindow
<1>1. [i \in Slot |-> Unwritten] \in [Slot -> Packet]
  BY UnwrittenType
<1>2. [i \in Slot |-> FALSE] \in [Slot -> BOOLEAN]
  OBVIOUS
<1> QED BY <1>1, <1>2, MaxAdvertizedSizeType DEF InitReadWindow, ReadWindow

\* The receive window that the constructor makes is consistent.
LEMMA InitReadOK == RecvOK(InitReadWindow)
<1>1. kDefaultWindowSize \in Nat
  BY WindowAssumption
<1>2. /\ InitReadWindow.nextUnreadSequence = 1
      /\ InitReadWindow.nextExpectedSequence = 1
      /\ InitReadWindow.lastUnacknowledgedSequence = 1
      /\ InitReadWindow.semaphore = 0
      /\ \A i \in Slot : ~InitReadWindow.valid[i]
  BY DEF InitReadWindow
<1> QED BY <1>1, <1>2, InitReadWindowType DEF RecvOK, ReceiveWindowConsistent

\* The handshake may move an untouched receive window to any sequence number.
LEMMA StartAfterOK ==
  ASSUME NEW seq \in Nat
  PROVE  LET v == StartAfter(InitReadWindow, seq)
         IN  /\ RecvOK(v)
             /\ v.nextUnreadSequence = seq + 1 /\ v.nextExpectedSequence = seq + 1
             /\ \A i \in Slot : ~v.valid[i]
<1> DEFINE v == StartAfter(InitReadWindow, seq)
<1>1. kDefaultWindowSize \in Nat
  BY WindowAssumption
<1>2. /\ v \in ReadWindow
      /\ v.nextUnreadSequence = seq + 1
      /\ v.nextExpectedSequence = seq + 1
      /\ v.lastUnacknowledgedSequence = seq + 1
      /\ v.semaphore = InitReadWindow.semaphore
      /\ v.valid = InitReadWindow.valid
  <2> DEFINE w == InitReadWindow
  <2>1. v = [w EXCEPT !.nextUnreadSequence         = seq + 1,
                      !.nextExpectedSequence       = seq + 1,
                      !.lastUnacknowledgedSequence = seq + 1,
                      !.currentAvailableSize       = MaxAdvertizedSize]
    BY DEF StartAfter
  <2>2. w \in ReadWindow /\ seq + 1 \in Nat
    BY InitReadWindowType
  <2> HIDE DEF v, w
  <2>3. /\ v \in ReadWindow
        /\ v.nextUnreadSequence = seq + 1
        /\ v.nextExpectedSequence = seq + 1
        /\ v.lastUnacknowledgedSequence = seq + 1
        /\ v.semaphore = w.semaphore
        /\ v.valid = w.valid
    BY <2>1, <2>2, MaxAdvertizedSizeType DEF ReadWindow
  <2> QED BY <2>3 DEF w
<1>3. InitReadWindow.semaphore = 0 /\ \A i \in Slot : ~InitReadWindow.valid[i]
  BY DEF InitReadWindow
<1> HIDE DEF v
<1>4. RecvOK(v)
  BY <1>1, <1>2, <1>3 DEF RecvOK, ReceiveWindowConsistent
<1> QED BY <1>2, <1>3, <1>4 DEF v

\* An acknowledgement only moves lastUnacknowledgedSequence.
LEMMA NoteAckOK ==
  ASSUME NEW w, RecvOK(w)
  PROVE  LET v == NoteAck(w)
         IN  /\ RecvOK(v)
             /\ v.messages = w.messages /\ v.valid = w.valid
             /\ v.nextUnreadSequence = w.nextUnreadSequence
             /\ v.nextExpectedSequence = w.nextExpectedSequence
<1> DEFINE v == NoteAck(w)
           size == CalculateCurrentWindowSize(w)
<1>1. w \in ReadWindow /\ size \in Nat /\ w.nextExpectedSequence \in Nat
  BY RecvOKFields, WindowSizePositive
<1>2. v = [w EXCEPT !.lastUnacknowledgedSequence = w.nextExpectedSequence,
                    !.currentAvailableSize       = size]
  BY DEF NoteAck
<1> HIDE DEF v, size
<1>3. /\ v \in ReadWindow
      /\ v.messages = w.messages /\ v.valid = w.valid
      /\ v.semaphore = w.semaphore
      /\ v.nextUnreadSequence = w.nextUnreadSequence
      /\ v.nextExpectedSequence = w.nextExpectedSequence
      /\ v.lastUnacknowledgedSequence = w.nextExpectedSequence
  BY <1>1, <1>2 DEF ReadWindow
<1>4. RecvOK(v)
  BY <1>3, RecvOKFields DEF RecvOK, ReceiveWindowConsistent
<1> QED BY <1>3, <1>4 DEF v

\* A token that Receive takes and does not give back keeps the receive window
\* consistent.
LEMMA TakeTokenOK ==
  ASSUME NEW w, RecvOK(w), HasPacket(w)
  PROVE  LET v == TakeToken(w)
         IN  /\ RecvOK(v) /\ v.semaphore = w.semaphore - 1
             /\ v.messages = w.messages /\ v.valid = w.valid
             /\ v.nextUnreadSequence = w.nextUnreadSequence
             /\ v.nextExpectedSequence = w.nextExpectedSequence
<1> DEFINE v == TakeToken(w)
<1>1. w \in ReadWindow /\ w.semaphore \in Nat /\ w.semaphore - 1 \in Nat
  BY RecvOKFields DEF HasPacket
<1>2. /\ v \in ReadWindow
      /\ v.messages = w.messages /\ v.valid = w.valid
      /\ v.semaphore = w.semaphore - 1
      /\ v.nextUnreadSequence = w.nextUnreadSequence
      /\ v.nextExpectedSequence = w.nextExpectedSequence
      /\ v.lastUnacknowledgedSequence = w.lastUnacknowledgedSequence
  BY <1>1 DEF TakeToken, ReadWindow
<1> HIDE DEF v
<1>3. v.semaphore <= v.nextExpectedSequence - v.nextUnreadSequence
  BY <1>1, <1>2, RecvOKFields
<1>4. RecvOK(v)
  BY <1>2, <1>3, RecvOKFields DEF RecvOK, ReceiveWindowConsistent
<1> QED BY <1>2, <1>4 DEF v

\* Receive reads the packet its token stands for: with a token there is an
\* unread packet, and the slot that is freed is not the slot of another.
LEMMA ReadPacketOK ==
  ASSUME NEW w, RecvOK(w), w.nextUnreadSequence < w.nextExpectedSequence,
         w.semaphore < w.nextExpectedSequence - w.nextUnreadSequence
  PROVE  LET v == ReadPacket(w)
         IN  /\ RecvOK(v)
             /\ v.nextUnreadSequence = w.nextUnreadSequence + 1
             /\ v.nextExpectedSequence = w.nextExpectedSequence
             /\ v.messages = w.messages
             /\ \A i \in Slot : v.valid[i] => w.valid[i]
<1> DEFINE u == w.nextUnreadSequence
           x == w.nextExpectedSequence
           index == SlotOf(u)
           valid == [w.valid EXCEPT ![index] = FALSE]
           read == [w EXCEPT !.valid = valid, !.nextUnreadSequence = u + 1]
           size == CalculateCurrentWindowSize(read)
           v == ReadPacket(w)
<1>1. /\ w \in ReadWindow /\ w.valid \in [Slot -> BOOLEAN]
      /\ u \in Nat /\ u >= 1 /\ x \in Nat /\ u < x /\ x <= u + kDefaultWindowSize
      /\ w.lastUnacknowledgedSequence \in Nat
      /\ w.lastUnacknowledgedSequence <= x
      /\ w.semaphore \in Nat /\ w.semaphore < x - u
      /\ kDefaultWindowSize \in Nat \ {0}
  BY RecvOKFields
<1>2. index \in Slot
  BY <1>1, SlotOfType
<1>3. valid \in [Slot -> BOOLEAN]
  BY <1>1, <1>2
<1>4. read.nextUnreadSequence = u + 1 /\ read.nextExpectedSequence = x
  BY <1>1 DEF ReadWindow
<1>5. size \in Nat
  <2>1. u + 1 \in Nat
    BY <1>1
  <2> HIDE DEF read, u
  <2> QED BY <1>1, <1>4, <2>1, WindowSizePositive
<1>6. v = [read EXCEPT !.currentAvailableSize = size]
  BY DEF ReadPacket
<1>7. /\ v \in ReadWindow
      /\ v.messages = w.messages /\ v.valid = valid
      /\ v.semaphore = w.semaphore
      /\ v.nextUnreadSequence = u + 1 /\ v.nextExpectedSequence = x
      /\ v.lastUnacknowledgedSequence = w.lastUnacknowledgedSequence
  <2>1. read \in ReadWindow /\ read.messages = w.messages /\ read.valid = valid
    <3>1. u + 1 \in Nat
      BY <1>1
    <3>2. read = [w EXCEPT !.valid = valid, !.nextUnreadSequence = u + 1]
      OBVIOUS
    <3> HIDE DEF valid, index, u, read
    <3> QED BY <1>1, <1>3, <3>1, <3>2 DEF ReadWindow
  <2>2. /\ read.semaphore = w.semaphore
        /\ read.lastUnacknowledgedSequence = w.lastUnacknowledgedSequence
    BY <1>1 DEF ReadWindow
  <2> HIDE DEF v, size, read, valid
  <2> QED BY <1>4, <1>5, <1>6, <2>1, <2>2 DEF ReadWindow
<1>8. ASSUME NEW seq \in (u + 1)..(x - 1)
      PROVE  v.valid[SlotOf(seq)]
  <2>1. seq \in Nat /\ u < seq /\ seq < u + kDefaultWindowSize /\ seq \in u..(x - 1)
    BY <1>1
  <2>2. SlotOf(seq) # index /\ SlotOf(seq) \in Slot
    BY <1>1, <2>1, SlotsDistinct, SlotOfType
  <2>3. w.valid[SlotOf(seq)]
    BY <2>1 DEF RecvOK, ReceiveWindowConsistent
  <2> HIDE DEF v, index
  <2> QED BY <1>1, <1>7, <2>2, <2>3
<1>9. ASSUME NEW i \in Slot, v.valid[i]
      PROVE  /\ SlotOf(v.messages[i].sequence) = i
             /\ v.messages[i].sequence
                    \in (u + 1)..((u + 1) + kDefaultWindowSize - 1)
  <2>1. w.valid[i] /\ i # index
    <3> HIDE DEF v, index
    <3> QED BY <1>1, <1>2, <1>7, <1>9
  <2>2. /\ SlotOf(w.messages[i].sequence) = i
        /\ w.messages[i].sequence \in u..(u + kDefaultWindowSize - 1)
    BY <2>1 DEF RecvOK, ReceiveWindowConsistent
  <2>3. w.messages[i].sequence # u
    BY <2>1, <2>2
  <2>4. w.messages[i].sequence \in (u + 1)..((u + 1) + kDefaultWindowSize - 1)
    BY <1>1, <2>2, <2>3
  <2> HIDE DEF v
  <2> QED BY <1>7, <2>2, <2>4
<1>12. \A i \in Slot : v.valid[i] => w.valid[i]
  <2> HIDE DEF v, index
  <2> QED BY <1>1, <1>2, <1>7
<1>13. /\ v.nextUnreadSequence = w.nextUnreadSequence + 1
       /\ v.nextExpectedSequence = w.nextExpectedSequence /\ v.messages = w.messages
  BY <1>7
<1> HIDE DEF v, u, x, valid
<1>10. /\ v.nextUnreadSequence >= 1
       /\ v.nextUnreadSequence <= v.nextExpectedSequence
       /\ v.nextExpectedSequence <= v.nextUnreadSequence + kDefaultWindowSize
       /\ v.lastUnacknowledgedSequence <= v.nextExpectedSequence
       /\ v.semaphore <= v.nextExpectedSequence - v.nextUnreadSequence
  BY <1>1, <1>7
<1>11. RecvOK(v)
  BY <1>7, <1>8, <1>9, <1>10 DEF RecvOK, ReceiveWindowConsistent
<1> QED BY <1>11, <1>12, <1>13 DEF v

\* A packet that is new and fits is stored without touching another one
\* inside the window, and the semaphore counts the packets that became
\* readable.
LEMMA StorePacketOK ==
  ASSUME NEW w, RecvOK(w), NEW packet \in Packet,
         IsNew(w, packet), Fits(w, packet)
  PROVE  LET v == StorePacket(w, packet)
         IN  /\ RecvOK(v)
             /\ v.nextUnreadSequence = w.nextUnreadSequence
             /\ w.nextExpectedSequence <= v.nextExpectedSequence
             /\ \A i \in Slot : v.valid[i] =>
                    \/ v.messages[i] = packet
                    \/ w.valid[i] /\ v.messages[i] = w.messages[i]
<1> DEFINE u == w.nextUnreadSequence
           x == w.nextExpectedSequence
           index    == SlotOf(packet.sequence)
           messages == [w.messages EXCEPT ![index] = packet]
           valid    == [w.valid EXCEPT ![index] = TRUE]
           kept     == [w EXCEPT !.messages = messages, !.valid = valid]
           end      == ExpectedAfter(kept)
           v        == StorePacket(w, packet)
<1>1. /\ w \in ReadWindow
      /\ w.messages \in [Slot -> Packet] /\ w.valid \in [Slot -> BOOLEAN]
      /\ u \in Nat /\ u >= 1 /\ x \in Nat /\ u <= x /\ x <= u + kDefaultWindowSize
      /\ w.lastUnacknowledgedSequence \in Nat
      /\ w.lastUnacknowledgedSequence <= x
      /\ w.semaphore \in Nat /\ w.semaphore <= x - u
      /\ kDefaultWindowSize \in Nat \ {0}
  BY RecvOKFields
<1>2. /\ packet.sequence \in Nat /\ packet.sequence >= x
      /\ packet.sequence < u + kDefaultWindowSize
  BY <1>1 DEF IsNew, Fits, Packet
<1>3. index \in Slot
  BY <1>2, SlotOfType
<1>4. messages \in [Slot -> Packet] /\ valid \in [Slot -> BOOLEAN]
  BY <1>1, <1>3
<1>5. /\ kept \in ReadWindow /\ kept.messages = messages /\ kept.valid = valid
      /\ kept.semaphore = w.semaphore
      /\ kept.nextUnreadSequence = u /\ kept.nextExpectedSequence = x
      /\ kept.lastUnacknowledgedSequence = w.lastUnacknowledgedSequence
  <2> HIDE DEF messages, valid, index
  <2> QED BY <1>1, <1>4 DEF ReadWindow
<1>6. v = [kept EXCEPT !.nextExpectedSequence = end,
                       !.semaphore = kept.semaphore + (end - x)]
  <2>1. v = StepExpected(kept)
    BY DEF StorePacket
  <2> HIDE DEF v, kept
  <2> QED BY <1>5, <2>1 DEF StepExpected
<1> HIDE DEF v, kept
<1>7. /\ end \in x..(u + kDefaultWindowSize)
      /\ \A seq \in x..(end - 1) : seq \in Readable(kept)
  <2> DEFINE hi == u + kDefaultWindowSize - 1
  <2>1. hi \in Int /\ x <= hi + 1 /\ hi + 1 = u + kDefaultWindowSize
    BY <1>1
  <2>2. end = WalkEnd(x, hi, Readable(kept))
    BY <1>5 DEF ExpectedAfter
  <2> HIDE DEF hi, x
  <2> QED BY <1>1, <2>1, <2>2, WalkEndStops
<1> HIDE DEF end
<1>8. end \in Nat /\ end - x \in Nat
  BY <1>1, <1>7
<1>9. /\ v \in ReadWindow /\ v.messages = messages /\ v.valid = valid
      /\ v.semaphore = w.semaphore + (end - x)
      /\ v.nextUnreadSequence = u /\ v.nextExpectedSequence = end
      /\ v.lastUnacknowledgedSequence = w.lastUnacknowledgedSequence
  <2> HIDE DEF messages, valid, u, x
  <2>1. kept.semaphore + (end - x) \in Nat
    BY <1>1, <1>5, <1>8
  <2> QED BY <1>5, <1>6, <1>8, <2>1 DEF ReadWindow
<1>10. ASSUME NEW seq \in u..(end - 1)
       PROVE  v.valid[SlotOf(seq)]
  <2>1. seq \in Nat /\ SlotOf(seq) \in Slot
    BY <1>1, <1>8, SlotOfType
  <2>2. CASE seq < x
    <3>1. seq \in u..(x - 1)
      BY <1>1, <2>1, <2>2
    <3>2. w.valid[SlotOf(seq)]
      BY <3>1 DEF RecvOK, ReceiveWindowConsistent
    <3> HIDE DEF index
    <3> QED BY <1>1, <1>9, <2>1, <3>2
  <2>3. CASE seq >= x
    <3>1. seq \in x..(end - 1)
      BY <1>1, <1>8, <2>1, <2>3
    <3>2. kept.valid[SlotOf(seq)]
      BY <1>7, <3>1 DEF Readable
    <3> QED BY <1>5, <1>9, <3>2
  <2> QED BY <1>1, <2>1, <2>2, <2>3
<1>11. ASSUME NEW i \in Slot, v.valid[i]
       PROVE  /\ SlotOf(v.messages[i].sequence) = i
              /\ v.messages[i].sequence \in u..(u + kDefaultWindowSize - 1)
  <2>1. CASE i = index
    <3>1. v.messages[i] = packet
      BY <1>1, <1>3, <1>9, <2>1
    <3>2. packet.sequence \in u..(u + kDefaultWindowSize - 1)
      BY <1>1, <1>2
    <3> QED BY <2>1, <3>1, <3>2
  <2>2. CASE i # index
    <3>1. w.valid[i] /\ v.messages[i] = w.messages[i]
      <4> HIDE DEF index
      <4> QED BY <1>1, <1>9, <1>11, <2>2
    <3>2. /\ SlotOf(w.messages[i].sequence) = i
          /\ w.messages[i].sequence \in u..(u + kDefaultWindowSize - 1)
      BY <3>1 DEF RecvOK, ReceiveWindowConsistent
    <3> QED BY <3>1, <3>2
  <2> QED BY <2>1, <2>2
<1>14. ASSUME NEW i \in Slot, v.valid[i]
       PROVE  \/ v.messages[i] = packet
              \/ w.valid[i] /\ v.messages[i] = w.messages[i]
  <2>1. CASE i = index
    <3>1. v.messages[i] = packet
      BY <1>1, <1>3, <1>9, <2>1
    <3> QED BY <3>1
  <2>2. CASE i # index
    <3> HIDE DEF index
    <3> QED BY <1>1, <1>9, <1>14, <2>2
  <2> QED BY <2>1, <2>2
<1>15. v.nextUnreadSequence = w.nextUnreadSequence
       /\ w.nextExpectedSequence <= v.nextExpectedSequence
  BY <1>1, <1>7, <1>9
<1> HIDE DEF u, x, messages, valid
<1>12. /\ v.nextUnreadSequence >= 1
       /\ v.nextUnreadSequence <= v.nextExpectedSequence
       /\ v.nextExpectedSequence <= v.nextUnreadSequence + kDefaultWindowSize
       /\ v.lastUnacknowledgedSequence <= v.nextExpectedSequence
       /\ v.semaphore <= v.nextExpectedSequence - v.nextUnreadSequence
  BY <1>1, <1>7, <1>8, <1>9
<1>13. RecvOK(v)
  BY <1>9, <1>10, <1>11, <1>12 DEF RecvOK, ReceiveWindowConsistent
<1> QED BY <1>13, <1>14, <1>15 DEF v

----------------------------------------------------------------------------
\* A session object that is well formed.  Fresh is the extra fact the
\* handshake needs: HandleSynAckMessage moves the ends of the receive
\* window of a session in SynSent without looking at its slots, so nothing
\* may have been stored before.
SessionOK(s) ==
    /\ s \in SessionObject
    /\ SendOK(s.sendWindow)
    /\ RecvOK(s.receiveWindow)

Fresh(s) == s.state = SynSent => s.receiveWindow = InitReadWindow

Good(s) == SessionOK(s) /\ Fresh(s)

----------------------------------------------------------------------------
\* Replacing one field of a session object.

\* SetState touches the state only.
LEMMA SetStateOK ==
  ASSUME NEW s, SessionOK(s), NEW state \in SessionState
  PROVE  LET t == SetState(s, state)
         IN  /\ SessionOK(t) /\ t.state = state
             /\ t.sendWindow = s.sendWindow
             /\ t.receiveWindow = s.receiveWindow
             /\ t.sessionId = s.sessionId
<1> DEFINE t == SetState(s, state)
<1>1. /\ t \in SessionObject /\ t.state = state
      /\ t.sendWindow = s.sendWindow /\ t.receiveWindow = s.receiveWindow
      /\ t.sessionId = s.sessionId
  BY DEF SetState, SessionOK, SessionObject
<1> HIDE DEF t
<1>2. SessionOK(t)
  BY <1>1 DEF SessionOK
<1> QED BY <1>1, <1>2 DEF t

\* A well-formed send window may replace another.
LEMMA WithSendWindow ==
  ASSUME NEW s, SessionOK(s), NEW w, SendOK(w)
  PROVE  LET t == [s EXCEPT !.sendWindow = w]
         IN  /\ SessionOK(t) /\ t.state = s.state
             /\ t.sendWindow = w /\ t.receiveWindow = s.receiveWindow
             /\ t.sessionId = s.sessionId
<1> DEFINE t == [s EXCEPT !.sendWindow = w]
<1>1. /\ t \in SessionObject /\ t.state = s.state
      /\ t.sendWindow = w /\ t.receiveWindow = s.receiveWindow
      /\ t.sessionId = s.sessionId
  BY DEF SendOK, SessionOK, SessionObject
<1> HIDE DEF t
<1>2. SessionOK(t)
  BY <1>1 DEF SessionOK
<1> QED BY <1>1, <1>2 DEF t

\* A well-formed receive window may replace another.
LEMMA WithReceiveWindow ==
  ASSUME NEW s, SessionOK(s), NEW w, RecvOK(w)
  PROVE  LET t == [s EXCEPT !.receiveWindow = w]
         IN  /\ SessionOK(t) /\ t.state = s.state
             /\ t.sendWindow = s.sendWindow /\ t.receiveWindow = w
             /\ t.sessionId = s.sessionId
<1> DEFINE t == [s EXCEPT !.receiveWindow = w]
<1>1. /\ t \in SessionObject /\ t.state = s.state
      /\ t.sendWindow = s.sendWindow /\ t.receiveWindow = w
      /\ t.sessionId = s.sessionId
  BY DEF RecvOK, SessionOK, SessionObject
<1> HIDE DEF t
<1>2. SessionOK(t)
  BY <1>1 DEF SessionOK
<1> QED BY <1>1, <1>2 DEF t

\* SendOrClose hands packets to the transport and changes nothing else.
LEMMA ForwardOK ==
  ASSUME NEW s, SessionOK(s), NEW packets, packets \subseteq Packet
  PROVE  LET t == Forward(s, packets)
         IN  /\ SessionOK(t) /\ t.state = s.state
             /\ t.sendWindow = s.sendWindow
             /\ t.receiveWindow = s.receiveWindow
             /\ t.sessionId = s.sessionId
<1> DEFINE t == Forward(s, packets)
           size == s.receiveWindow.currentAvailableSize
           new == {MakeDatagram(p, Opposite(s.side), size) :
                      p \in packets \ {Unwritten}}
<1>1. size \in Nat
  BY RecvOKFields DEF SessionOK
<1>2. Opposite(s.side) \in Side
  BY DEF Opposite, Side
<1>3. new \subseteq Datagram
  BY <1>1, <1>2 DEF MakeDatagram, Datagram
<1>4. t = [s EXCEPT !.out = s.out \cup new]
  BY DEF Forward
<1>5. s \in SessionObject /\ s.out \subseteq Datagram
  BY DEF SessionOK, SessionObject
<1>6. s.out \cup new \in SUBSET Datagram
  BY <1>3, <1>5
<1> HIDE DEF t, new
<1>7. /\ t \in SessionObject /\ t.state = s.state
      /\ t.sendWindow = s.sendWindow /\ t.receiveWindow = s.receiveWindow
      /\ t.sessionId = s.sessionId
  BY <1>4, <1>5, <1>6 DEF SessionObject
<1>8. SessionOK(t)
  BY <1>7 DEF SessionOK
<1> QED BY <1>7, <1>8 DEF t

----------------------------------------------------------------------------
\* SendAckMessage acknowledges what was stored; the number it sends is not
\* negative.
LEMMA SendAckMessageOK ==
  ASSUME NEW s, SessionOK(s)
  PROVE  LET t == SendAckMessage(s)
         IN  SessionOK(t) /\ t.state = s.state /\ t.sendWindow = s.sendWindow
<1> DEFINE a == [s EXCEPT !.receiveWindow = NoteAck(s.receiveWindow)]
           seq == s.receiveWindow.nextExpectedSequence - 1
           packet == MakePacket("Ack", a.sessionId, seq, 0, NoSession)
           t == SendAckMessage(s)
<1>1. RecvOK(NoteAck(s.receiveWindow))
  BY NoteAckOK DEF SessionOK
<1>2. /\ SessionOK(a) /\ a.state = s.state /\ a.sendWindow = s.sendWindow
      /\ a.sessionId = s.sessionId
  BY <1>1, WithReceiveWindow
<1>3. seq \in Nat
  BY RecvOKFields DEF SessionOK
<1>4. packet \in Packet
  <2>1. a.sessionId \in SessionId /\ NoSession \in SessionId
    BY <1>2 DEF SessionOK, SessionObject, SessionId
  <2> HIDE DEF a, seq
  <2> QED BY <1>3, <2>1, MakePacketType DEF SessionMessage
<1>5. t = Forward(a, {packet})
  BY DEF SendAckMessage, SendControlMessage
<1> HIDE DEF a, packet, t
<1>6. SessionOK(t) /\ t.state = a.state /\ t.sendWindow = a.sendWindow
  BY <1>2, <1>4, <1>5, ForwardOK
<1> QED BY <1>2, <1>6 DEF t

\* A retransmission or transmission forwards packets of the send window.
LEMMA ForwardSlotsOK ==
  ASSUME NEW s, SessionOK(s), NEW seqs, seqs \subseteq Nat
  PROVE  LET t == ForwardSlots(s, seqs)
         IN  /\ SessionOK(t) /\ t.state = s.state
             /\ t.sendWindow = s.sendWindow
             /\ t.receiveWindow = s.receiveWindow
<1>1. {s.sendWindow.messages[SlotOf(seq)] : seq \in seqs} \subseteq Packet
  BY SlotOfType DEF SessionOK, SendOK, SendWindow
<1> QED BY <1>1, ForwardOK DEF ForwardSlots

\* MarkMessagesAsAcknowledged frees slots or counts a duplicate.
LEMMA MarkMessagesAsAcknowledgedOK ==
  ASSUME NEW s, SessionOK(s), NEW max \in Nat
  PROVE  LET t == MarkMessagesAsAcknowledged(s, max)
         IN  /\ SessionOK(t) /\ t.state = s.state
             /\ t.receiveWindow = s.receiveWindow
<1> DEFINE w == s.sendWindow
           end == AckedUpTo(w, max)
           u == w.nextUnacknowledgedSequence
           t == MarkMessagesAsAcknowledged(s, max)
<1>1. SendOK(w)
  BY DEF SessionOK
<1>2. /\ u \in Nat /\ w.lastSentSequence \in Nat /\ w.nextSequence \in Nat
      /\ w.lastSentSequence + 1 \in u..w.nextSequence
  BY <1>1 DEF SendOK, SendWindowConsistent, SendWindow
<1>3. end \in u..(w.lastSentSequence + 1)
  <2>1. LET hi == Smaller(max, w.lastSentSequence)
        IN  end = IF hi < u THEN u ELSE hi + 1
    BY <1>1, AckedUpToValue
  <2> HIDE DEF end
  <2> QED BY <1>2, <2>1 DEF Smaller
<1>4. CASE u < end
  <2>1. SendOK(FreeSlots(w, end))
    BY <1>1, <1>3, FreeSlotsOK
  <2>2. t = [s EXCEPT !.sendWindow = FreeSlots(w, end)]
    BY <1>4 DEF MarkMessagesAsAcknowledged
  <2> HIDE DEF t, end
  <2>3. /\ SessionOK(t) /\ t.state = s.state
        /\ t.receiveWindow = s.receiveWindow
    BY <2>1, <2>2, WithSendWindow
  <2> QED BY <2>3 DEF t
<1>5. CASE ~(u < end)
  <2> DEFINE c == [s EXCEPT !.sendWindow = CountDuplicateAck(w)]
  <2>1. SendOK(CountDuplicateAck(w))
    BY <1>1, CountDuplicateAckOK
  <2>2. /\ SessionOK(c) /\ c.state = s.state /\ c.receiveWindow = s.receiveWindow
    BY <2>1, WithSendWindow
  <2>3. t = FastRetransmit(c)
    BY <1>5 DEF MarkMessagesAsAcknowledged
  <2> HIDE DEF t, c
  <2>4. c.sendWindow.lastAckCount \in Nat
        /\ c.sendWindow.nextUnacknowledgedSequence \in Nat
    BY <2>2 DEF SessionOK, SendOK, SendWindow
  <2>5. CASE c.sendWindow.lastAckCount >= kFastRetransmitThreshold
    <3>1. {FastRetransmitSequence(c.sendWindow)} \subseteq Nat
      BY <2>4, <2>5, WindowAssumption DEF FastRetransmitSequence
    <3>2. t = ForwardSlots(c, {FastRetransmitSequence(c.sendWindow)})
      BY <2>3, <2>5 DEF FastRetransmit
    <3>3. SessionOK(t) /\ t.state = c.state /\ t.receiveWindow = c.receiveWindow
      BY <2>2, <3>1, <3>2, ForwardSlotsOK
    <3> QED BY <2>2, <3>3 DEF t
  <2>6. CASE ~(c.sendWindow.lastAckCount >= kFastRetransmitThreshold)
    <3>1. t = c
      BY <2>3, <2>6 DEF FastRetransmit
    <3> QED BY <2>2, <3>1 DEF t
  <2> QED BY <2>5, <2>6
<1> QED BY <1>4, <1>5

\* WriteMessageIntoReceiveWindow stores the packet, drops it, or
\* acknowledges it again.
LEMMA WriteMessageIntoReceiveWindowOK ==
  ASSUME NEW s, SessionOK(s), NEW packet \in Packet
  PROVE  LET t == WriteMessageIntoReceiveWindow(s, packet)
         IN  SessionOK(t) /\ t.state = s.state
<1> DEFINE w == s.receiveWindow
           t == WriteMessageIntoReceiveWindow(s, packet)
           stored == [s EXCEPT !.receiveWindow = StorePacket(w, packet)]
<1>1. CASE ~IsNew(w, packet)
  <2>1. t = SendAckMessage(s)
    BY <1>1 DEF WriteMessageIntoReceiveWindow
  <2> QED BY <2>1, SendAckMessageOK
<1>2. CASE IsNew(w, packet) /\ ~Fits(w, packet)
  <2>1. t = s
    BY <1>2 DEF WriteMessageIntoReceiveWindow
  <2> QED BY <2>1
<1>3. CASE IsNew(w, packet) /\ Fits(w, packet)
  <2>1. RecvOK(StorePacket(w, packet))
    BY <1>3, StorePacketOK DEF SessionOK
  <2>2. SessionOK(stored) /\ stored.state = s.state
    BY <2>1, WithReceiveWindow
  <2>3. t = IF AcksEarly(w, stored.receiveWindow)
            THEN SendAckMessage(stored) ELSE stored
    BY <1>3 DEF WriteMessageIntoReceiveWindow
  <2> HIDE DEF t, stored
  <2>4. SessionOK(t) /\ t.state = s.state
    BY <2>2, <2>3, SendAckMessageOK
  <2> QED BY <2>4 DEF t
<1> QED BY <1>1, <1>2, <1>3

\* WriteMessageIntoSendWindow, called with a free slot.
LEMMA WriteMessageIntoSendWindowOK ==
  ASSUME NEW s, SessionOK(s), HasFreeSlot(s.sendWindow),
         NEW id \in SessionMessage, NEW payload \in Nat, NEW initial \in SessionId
  PROVE  LET t == WriteMessageIntoSendWindow(s, id, payload, initial)
         IN  /\ SessionOK(t) /\ t.state = s.state
             /\ t.receiveWindow = s.receiveWindow
<1> DEFINE v == WriteSlot(s.sendWindow, id, s.sessionId, payload, initial)
<1>1. s.sessionId \in SessionId
  BY DEF SessionOK, SessionObject
<1>2. SendOK(v)
  BY <1>1, WriteSlotOK DEF SessionOK
<1> HIDE DEF v
<1>3. WriteMessageIntoSendWindow(s, id, payload, initial)
        = [s EXCEPT !.sendWindow = v]
  BY DEF WriteMessageIntoSendWindow, v
<1> QED BY <1>2, <1>3, WithSendWindow

\* The advertised window of the peer is taken from every message.
LEMMA TakeWindowSizeOK ==
  ASSUME NEW s, SessionOK(s), NEW d \in Datagram
  PROVE  LET t == TakeWindowSize(s, d)
         IN  /\ SessionOK(t) /\ t.state = s.state
             /\ t.receiveWindow = s.receiveWindow
<1>1. d.windowSize \in Nat
  BY DEF Datagram
<1>2. SendOK(UpdateSendWindowSize(s.sendWindow, d.windowSize))
  BY <1>1, UpdateSendWindowSizeOK DEF SessionOK
<1> QED BY <1>2, WithSendWindow DEF TakeWindowSize

\* Shutdown leaves the windows alone and never opens a session.
LEMMA ShutdownOK ==
  ASSUME NEW s, SessionOK(s), NEW graceful \in BOOLEAN
  PROVE  LET t == Shutdown(s, graceful)
         IN  /\ SessionOK(t) /\ t.state \in {s.state, Closed, FinWait1}
             /\ t.receiveWindow = s.receiveWindow
<1>1. Closed \in SessionState /\ FinWait1 \in SessionState
  BY DEF Closed, FinWait1, SessionState
<1>2. /\ SessionOK(SetState(s, Closed)) /\ SetState(s, Closed).state = Closed
      /\ SetState(s, Closed).receiveWindow = s.receiveWindow
  BY <1>1, SetStateOK
<1>3. /\ SessionOK(SetState(s, FinWait1))
      /\ SetState(s, FinWait1).state = FinWait1
      /\ SetState(s, FinWait1).receiveWindow = s.receiveWindow
  BY <1>1, SetStateOK
<1> QED BY <1>2, <1>3 DEF Shutdown

\* A new session object, and its first step: Connect or BindToServer.
LEMMA NewSessionOK ==
  ASSUME NEW side \in Side
  PROVE  /\ Good(NewSession(side))
         /\ NewSession(side).receiveWindow = InitReadWindow
         /\ NewSession(side).sendWindow = InitSendWindow
<1> DEFINE s == NewSession(side)
<1>1. InitSendWindow \in SendWindow /\ InitReadWindow \in ReadWindow
  BY InitSendOK, InitReadOK DEF SendOK, RecvOK
<1>2. NoSession \in SessionId /\ Closed \in SessionState
  BY DEF SessionId, Closed, SessionState
<1>3. /\ s \in SessionObject /\ s.state = Closed
      /\ s.receiveWindow = InitReadWindow /\ s.sendWindow = InitSendWindow
  BY <1>1, <1>2 DEF NewSession, SessionObject, SessionCallbackState
<1> HIDE DEF s
<1>4. Good(s)
  BY <1>3, InitSendOK, InitReadOK DEF Good, SessionOK, Fresh
<1> QED BY <1>3, <1>4 DEF s

\* Assigning m_sessionId, as Connect and BindToServer do, keeps a session
\* well formed.
LEMMA WithSessionId ==
  ASSUME NEW s, SessionOK(s), NEW sid \in SessionId
  PROVE  LET t == [s EXCEPT !.sessionId = sid]
         IN  /\ SessionOK(t) /\ t.state = s.state
             /\ t.sendWindow = s.sendWindow
             /\ t.receiveWindow = s.receiveWindow
<1> DEFINE t == [s EXCEPT !.sessionId = sid]
<1>1. /\ t \in SessionObject /\ t.state = s.state
      /\ t.sendWindow = s.sendWindow /\ t.receiveWindow = s.receiveWindow
  BY DEF SessionOK, SessionObject
<1> HIDE DEF t
<1>2. SessionOK(t)
  BY <1>1 DEF SessionOK
<1> QED BY <1>1, <1>2 DEF t

\* Connect writes the Syn into a new session and leaves it well formed, in
\* SynSent with an untouched receive window.
LEMMA ConnectOK ==
  ASSUME NEW side \in Side, NEW sid \in SessionId
  PROVE  Good(Connect(NewSession(side), sid))
<1> DEFINE a == [NewSession(side) EXCEPT !.sessionId = sid]
           b == WriteMessageIntoSendWindow(a, "Syn", 0, NoSession)
           t == SetState(b, SynSent)
<1>1. /\ SessionOK(NewSession(side))
      /\ NewSession(side).receiveWindow = InitReadWindow
      /\ NewSession(side).sendWindow = InitSendWindow
  BY NewSessionOK DEF Good
<1>2. /\ SessionOK(a) /\ a.receiveWindow = InitReadWindow
      /\ a.sendWindow = InitSendWindow
  BY <1>1, WithSessionId
<1>3. HasFreeSlot(InitSendWindow)
  BY WindowAssumption DEF HasFreeSlot, InitSendWindow
<1>4. "Syn" \in SessionMessage /\ NoSession \in SessionId /\ SynSent \in SessionState
  BY DEF SessionMessage, SessionId, SynSent, SessionState
<1> HIDE DEF a
<1>5. SessionOK(b) /\ b.receiveWindow = InitReadWindow
  BY <1>2, <1>3, <1>4, WriteMessageIntoSendWindowOK
<1> HIDE DEF b
<1>6. SessionOK(t) /\ t.receiveWindow = InitReadWindow
  BY <1>4, <1>5, SetStateOK
<1> QED BY <1>6 DEF Connect, Good, Fresh, a, b

\* BindToServer leaves a new server session well formed, in Listening.
LEMMA BindToServerOK ==
  ASSUME NEW side \in Side, NEW sid \in SessionId
  PROVE  LET t == BindToServer(NewSession(side), sid)
         IN  /\ Good(t) /\ t.receiveWindow = InitReadWindow
<1> DEFINE a == [NewSession(side) EXCEPT !.sessionId = sid]
           t == SetState(a, Listening)
<1>1. /\ SessionOK(NewSession(side))
      /\ NewSession(side).receiveWindow = InitReadWindow
  BY NewSessionOK DEF Good
<1>2. SessionOK(a) /\ a.receiveWindow = InitReadWindow
  BY <1>1, WithSessionId
<1>3. Listening \in SessionState
  BY DEF Listening, SessionState
<1> HIDE DEF a
<1>4. SessionOK(t) /\ t.receiveWindow = InitReadWindow
  BY <1>2, <1>3, SetStateOK
<1> QED BY <1>4 DEF BindToServer, Good, Fresh, a

\* The callback state and the events do not matter to the windows.
LEMMA WithCallbackState ==
  ASSUME NEW s, SessionOK(s), NEW cb \in SessionCallbackState
  PROVE  LET t == [s EXCEPT !.callbackState = cb]
         IN  /\ SessionOK(t) /\ t.state = s.state
             /\ t.receiveWindow = s.receiveWindow
<1> DEFINE t == [s EXCEPT !.callbackState = cb]
<1>1. /\ t \in SessionObject /\ t.state = s.state
      /\ t.sendWindow = s.sendWindow /\ t.receiveWindow = s.receiveWindow
  BY DEF SessionOK, SessionObject
<1> HIDE DEF t
<1>2. SessionOK(t)
  BY <1>1 DEF SessionOK
<1> QED BY <1>1, <1>2 DEF t

\* A session whose protocol server goes away stays well formed.
LEMMA HandleUnregisterProtocolServerOK ==
  ASSUME NEW s, Good(s)
  PROVE  Good(HandleUnregisterProtocolServer(s))
<1> DEFINE cb == IF s.callbackState = "EstablishedCalled"
                 THEN "TerminatedCalled" ELSE s.callbackState
           a == [s EXCEPT !.callbackState = cb]
           t == Shutdown(a, TRUE)
<1>1. cb \in SessionCallbackState
  BY DEF Good, SessionOK, SessionObject, SessionCallbackState
<1> HIDE DEF cb
<1>2. SessionOK(a) /\ a.state = s.state /\ a.receiveWindow = s.receiveWindow
  BY <1>1, WithCallbackState DEF Good
<1> HIDE DEF a
<1>3. /\ SessionOK(t) /\ t.state \in {s.state, Closed, FinWait1}
      /\ t.receiveWindow = s.receiveWindow
  BY <1>2, ShutdownOK
<1> HIDE DEF t
<1>4. Good(t)
  BY <1>3 DEF Good, Fresh, SynSent, Closed, FinWait1
<1> QED BY <1>4 DEF HandleUnregisterProtocolServer, t, a, cb

----------------------------------------------------------------------------
\* The message handlers.  Each keeps a session well formed, and none of
\* them stores anything in a session that stays in SynSent.

\* HandleSynMessage runs on a session that was just bound to a server.
LEMMA HandleSynMessageOK ==
  ASSUME NEW s, SessionOK(s), s.receiveWindow = InitReadWindow,
         NEW d \in Datagram
  PROVE  Good(HandleSynMessage(s, d))
<1>1. /\ d.packet.sequence \in Nat /\ d.packet.sessionId \in SessionId
      /\ "SynAck" \in SessionMessage /\ SynReceived \in SessionState
  BY DEF Datagram, Packet, SessionMessage, SynReceived, SessionState
<1>2. CASE CanWriteMessage(s)
  <2> DEFINE a == WriteMessageIntoSendWindow(s, "SynAck", d.packet.sequence,
                                             d.packet.sessionId)
             b == SetState(a, SynReceived)
             w == StartAfter(InitReadWindow, d.packet.sequence)
             t == [b EXCEPT !.receiveWindow = w]
  <2>1. SessionOK(a) /\ a.receiveWindow = InitReadWindow
    BY <1>1, <1>2, WriteMessageIntoSendWindowOK DEF CanWriteMessage
  <2> HIDE DEF a
  <2>2. SessionOK(b) /\ b.receiveWindow = InitReadWindow /\ b.state = SynReceived
    BY <1>1, <2>1, SetStateOK
  <2> HIDE DEF b
  <2>3. RecvOK(w)
    BY <1>1, StartAfterOK
  <2>4. HandleSynMessage(s, d) = [b EXCEPT !.receiveWindow =
                                    StartAfter(b.receiveWindow, d.packet.sequence)]
    BY <1>2 DEF HandleSynMessage, a, b
  <2>5. HandleSynMessage(s, d) = t
    BY <2>2, <2>4
  <2> HIDE DEF w
  <2>6. SessionOK(t) /\ t.state = SynReceived
    BY <2>2, <2>3, WithReceiveWindow
  <2> HIDE DEF t
  <2>7. Good(t)
    BY <2>6 DEF Good, Fresh, SynReceived, SynSent
  <2> QED BY <2>5, <2>7
<1>3. CASE ~CanWriteMessage(s)
  <2> DEFINE t == Shutdown(s, FALSE)
  <2>1. SessionOK(t) /\ t.receiveWindow = InitReadWindow
    BY ShutdownOK
  <2>2. HandleSynMessage(s, d) = t
    BY <1>3 DEF HandleSynMessage
  <2> HIDE DEF t
  <2>3. Good(t)
    BY <2>1 DEF Good, Fresh
  <2> QED BY <2>2, <2>3
<1> QED BY <1>2, <1>3

\* HandleSynAckMessage moves the ends of a receive window that is empty,
\* because the session is in SynSent.
LEMMA HandleSynAckMessageOK ==
  ASSUME NEW s, Good(s), NEW d \in Datagram
  PROVE  Good(HandleSynAckMessage(s, d))
<1> DEFINE marked == MarkMessagesAsAcknowledged(s, d.packet.payload)
           b == SetState(marked, Established)
           opened == [b EXCEPT !.sessionId     = d.packet.sessionId,
                               !.receiveWindow = StartAfter(b.receiveWindow,
                                                            d.packet.sequence)]
           next == IF s.state = SynSent THEN SendAckMessage(opened)
                   ELSE IF s.state >= Established
                        THEN MarkMessagesAsAcknowledged(s, d.packet.sequence)
                        ELSE s
           t == TakeWindowSize(next, d)
<1>1. /\ d.packet.sequence \in Nat /\ d.packet.payload \in Nat
      /\ d.packet.sessionId \in SessionId /\ Established \in SessionState
  BY DEF Datagram, Packet, Established, SessionState
<1>2. SessionOK(next) /\ Fresh(next)
  <2>1. CASE s.state = SynSent
    <3>1. SessionOK(marked) /\ marked.receiveWindow = InitReadWindow
      BY <1>1, <2>1, MarkMessagesAsAcknowledgedOK DEF Good, Fresh
    <3> HIDE DEF marked
    <3>2. /\ SessionOK(b) /\ b.receiveWindow = InitReadWindow
          /\ b.state = Established
      BY <1>1, <3>1, SetStateOK
    <3> HIDE DEF b
    <3> DEFINE w == StartAfter(InitReadWindow, d.packet.sequence)
    <3>3. RecvOK(w)
      BY <1>1, StartAfterOK
    <3> HIDE DEF w
    <3>4. opened = [b EXCEPT !.sessionId = d.packet.sessionId,
                             !.receiveWindow = w]
      BY <3>2 DEF w
    <3> HIDE DEF opened
    <3>5. /\ opened \in SessionObject /\ opened.sendWindow = b.sendWindow
          /\ opened.receiveWindow = w /\ opened.state = Established
      BY <1>1, <3>2, <3>3, <3>4 DEF SessionOK, RecvOK, SessionObject
    <3>6. SessionOK(opened)
      BY <3>2, <3>3, <3>5 DEF SessionOK
    <3>7. SessionOK(SendAckMessage(opened))
          /\ SendAckMessage(opened).state = Established
      BY <3>5, <3>6, SendAckMessageOK
    <3>8. next = SendAckMessage(opened)
      BY <2>1
    <3> HIDE DEF next
    <3> QED BY <3>7, <3>8 DEF Fresh, Established, SynSent
  <2>2. CASE s.state # SynSent
    <3>1. next \in {s, MarkMessagesAsAcknowledged(s, d.packet.sequence)}
      BY <2>2
    <3> DEFINE m == MarkMessagesAsAcknowledged(s, d.packet.sequence)
    <3>2. SessionOK(m) /\ m.state = s.state
      BY <1>1, MarkMessagesAsAcknowledgedOK DEF Good
    <3> HIDE DEF next, m
    <3>3. next \in {s, m}
      BY <3>1 DEF m
    <3> QED BY <2>2, <3>2, <3>3 DEF Good, Fresh
  <2> QED BY <2>1, <2>2
<1> HIDE DEF next
<1>3. SessionOK(t) /\ t.state = next.state /\ t.receiveWindow = next.receiveWindow
  BY <1>2, TakeWindowSizeOK
<1> HIDE DEF t
<1>4. Good(t)
  BY <1>2, <1>3 DEF Good, Fresh
<1>5. HandleSynAckMessage(s, d) = t
  BY DEF HandleSynAckMessage, t, next
<1> QED BY <1>4, <1>5

\* Storing the Fin and then entering Closing.
LEMMA StoreFinOK ==
  ASSUME NEW s, SessionOK(s), NEW d \in Datagram
  PROVE  SessionOK(StoreFin(s, d))
<1>1. d.packet \in Packet
  BY DEF Datagram
<1> QED BY <1>1, WriteMessageIntoReceiveWindowOK DEF StoreFin

\* The second half of HandleFinMessage keeps a session well formed.
LEMMA EnterClosingOK ==
  ASSUME NEW s, SessionOK(s), NEW size \in Nat
  PROVE  Good(EnterClosing(s, size))
<1> DEFINE a == SetState(s, Closing)
           w == UpdateSendWindowSize(a.sendWindow, size)
           t == [a EXCEPT !.sendWindow = w]
<1>1. Closing \in SessionState
  BY DEF Closing, SessionState
<1>2. SessionOK(a) /\ a.state = Closing
  BY <1>1, SetStateOK
<1>3. EnterClosing(s, size) = t
  BY DEF EnterClosing
<1> HIDE DEF a
<1>4. SendOK(w)
  BY <1>2, UpdateSendWindowSizeOK DEF SessionOK
<1> HIDE DEF w
<1>5. SessionOK(t) /\ t.state = Closing
  BY <1>2, <1>4, WithSendWindow
<1> HIDE DEF t
<1> QED BY <1>3, <1>5 DEF Good, Fresh, Closing, SynSent

\* A Fin that arrives in Closing or FinWait2 keeps a session well formed.
LEMMA HandleLaterFinMessageOK ==
  ASSUME NEW s, Good(s), NEW d \in Datagram
  PROVE  Good(HandleLaterFinMessage(s, d))
<1> DEFINE a == WriteMessageIntoReceiveWindow(s, d.packet)
           b == SendAckMessage(a)
           c == SetState(b, Closed)
           next == IF s.state = FinWait2 THEN c ELSE s
           t == TakeWindowSize(next, d)
<1>1. d.packet \in Packet /\ Closed \in SessionState
  BY DEF Datagram, Closed, SessionState
<1>2. SessionOK(a)
  BY <1>1, WriteMessageIntoReceiveWindowOK DEF Good
<1> HIDE DEF a
<1>3. SessionOK(b)
  BY <1>2, SendAckMessageOK
<1> HIDE DEF b
<1>4. SessionOK(c) /\ c.state = Closed
  BY <1>1, <1>3, SetStateOK
<1> HIDE DEF c
<1>5. SessionOK(next) /\ Fresh(next)
  BY <1>4 DEF Good, Fresh, Closed, SynSent
<1> HIDE DEF next
<1>6. SessionOK(t) /\ t.state = next.state /\ t.receiveWindow = next.receiveWindow
  BY <1>5, TakeWindowSizeOK
<1> HIDE DEF t
<1>7. Good(t)
  BY <1>5, <1>6 DEF Good, Fresh
<1> QED BY <1>7 DEF HandleLaterFinMessage, t, next, c, b, a

\* HandleDataMessage keeps a session well formed, whatever the data's
\* sequence number.
LEMMA HandleDataMessageOK ==
  ASSUME NEW s, Good(s), NEW d \in Datagram
  PROVE  Good(HandleDataMessage(s, d))
<1> DEFINE a == WriteMessageIntoReceiveWindow(s, d.packet)
           next == IF s.state \in {FinWait1, FinWait2, Established} THEN a ELSE s
           t == TakeWindowSize(next, d)
<1>1. d.packet \in Packet
  BY DEF Datagram
<1>2. SessionOK(a) /\ a.state = s.state
  BY <1>1, WriteMessageIntoReceiveWindowOK DEF Good
<1> HIDE DEF a
<1>3. SessionOK(next) /\ Fresh(next)
  BY <1>2 DEF Good, Fresh, FinWait1, FinWait2, Established, SynSent
<1> HIDE DEF next
<1>4. SessionOK(t) /\ t.state = next.state /\ t.receiveWindow = next.receiveWindow
  BY <1>3, TakeWindowSizeOK
<1> HIDE DEF t
<1>5. Good(t)
  BY <1>3, <1>4 DEF Good, Fresh
<1> QED BY <1>5 DEF HandleDataMessage, t, next, a

\* HandleAckMessage keeps a session well formed, whatever it acknowledges.
LEMMA HandleAckMessageOK ==
  ASSUME NEW s, Good(s), NEW d \in Datagram
  PROVE  Good(HandleAckMessage(s, d))
<1> DEFINE e == SetState(s, Established)
           opened == IF s.state = SynReceived THEN e ELSE s
           m == MarkMessagesAsAcknowledged(opened, d.packet.sequence)
           next == IF opened.state >= Established THEN m ELSE s
           t == TakeWindowSize(next, d)
<1>1. d.packet.sequence \in Nat /\ Established \in SessionState
  BY DEF Datagram, Packet, Established, SessionState
<1>2. SessionOK(e) /\ e.state = Established
  BY <1>1, SetStateOK DEF Good
<1> HIDE DEF e
<1>3. SessionOK(opened) /\ Fresh(opened)
  BY <1>2 DEF Good, Fresh, Established, SynSent
<1> HIDE DEF opened
<1>4. SessionOK(m) /\ m.state = opened.state /\ m.receiveWindow = opened.receiveWindow
  BY <1>1, <1>3, MarkMessagesAsAcknowledgedOK
<1> HIDE DEF m
<1>5. SessionOK(next) /\ Fresh(next)
  BY <1>3, <1>4 DEF Good, Fresh
<1> HIDE DEF next
<1>6. SessionOK(t) /\ t.state = next.state /\ t.receiveWindow = next.receiveWindow
  BY <1>5, TakeWindowSizeOK
<1> HIDE DEF t
<1>7. Good(t)
  BY <1>5, <1>6 DEF Good, Fresh
<1> QED BY <1>7 DEF HandleAckMessage, t, next, m, opened, e

\* HandleRstMessage keeps a session well formed.
LEMMA HandleRstMessageOK ==
  ASSUME NEW s, Good(s), NEW d \in Datagram
  PROVE  Good(HandleRstMessage(s, d))
<1> DEFINE next == Shutdown(s, FALSE)
           t == TakeWindowSize(next, d)
<1>1. /\ SessionOK(next) /\ next.state \in {s.state, Closed, FinWait1}
      /\ next.receiveWindow = s.receiveWindow
  BY ShutdownOK DEF Good
<1> HIDE DEF next
<1>2. SessionOK(t) /\ t.state = next.state /\ t.receiveWindow = next.receiveWindow
  BY <1>1, TakeWindowSizeOK
<1> HIDE DEF t
<1>3. Good(t)
  BY <1>1, <1>2 DEF Good, Fresh, Closed, FinWait1, SynSent
<1> QED BY <1>3 DEF HandleRstMessage, t, next

\* HandleMessage: the handler, then the event or the callback.
LEMMA WithConnectionEvent ==
  ASSUME NEW s, SessionOK(s), NEW signalled \in BOOLEAN
  PROVE  LET t == [s EXCEPT !.connectionEvent = signalled]
         IN  /\ SessionOK(t) /\ t.state = s.state
             /\ t.receiveWindow = s.receiveWindow
<1> DEFINE t == [s EXCEPT !.connectionEvent = signalled]
<1>1. /\ t \in SessionObject /\ t.state = s.state
      /\ t.sendWindow = s.sendWindow /\ t.receiveWindow = s.receiveWindow
  BY DEF SessionOK, SessionObject
<1> HIDE DEF t
<1>2. SessionOK(t)
  BY <1>1 DEF SessionOK
<1> QED BY <1>1, <1>2 DEF t

\* The end of HandleMessage (connection event, SessionEstablished) touches
\* neither window nor state.
LEMMA NotifyEstablished ==
  ASSUME NEW s, NEW d, Good(Dispatch(s, d))
  PROVE  Good(HandleMessage(s, d))
<1> DEFINE next == Dispatch(s, d)
           a == [next EXCEPT !.connectionEvent = TRUE]
           b == [next EXCEPT !.callbackState = "EstablishedCalled"]
<1>1. HandleMessage(s, d) \in {next, a, b}
  BY DEF HandleMessage
<1> HIDE DEF next
<1>2. SessionOK(next) /\ Fresh(next)
  BY DEF Good, next
<1>3. Good(a)
  <2>1. /\ SessionOK(a) /\ a.state = next.state
        /\ a.receiveWindow = next.receiveWindow
    BY <1>2, WithConnectionEvent
  <2> HIDE DEF a
  <2> QED BY <1>2, <2>1 DEF Good, Fresh
<1>4. Good(b)
  <2>1. /\ SessionOK(b) /\ b.state = next.state
        /\ b.receiveWindow = next.receiveWindow
    BY <1>2, WithCallbackState DEF SessionCallbackState
  <2> HIDE DEF b
  <2> QED BY <1>2, <2>1 DEF Good, Fresh
<1>5. Good(next)
  BY DEF next
<1> HIDE DEF a, b
<1> QED BY <1>1, <1>3, <1>4, <1>5

\* HandleMessage of a Syn keeps a session that was just bound well formed.
LEMMA HandleSynOK ==
  ASSUME NEW s, SessionOK(s), s.receiveWindow = InitReadWindow,
         NEW d \in Datagram, d.packet.messageId = "Syn"
  PROVE  Good(HandleMessage(s, d))
<1>1. Dispatch(s, d) = HandleSynMessage(s, d)
  BY DEF Dispatch
<1>2. Good(HandleSynMessage(s, d))
  BY HandleSynMessageOK
<1> QED BY <1>1, <1>2, NotifyEstablished

\* HandleMessage keeps a session well formed, whatever message it dispatches.
LEMMA HandleMessageOK ==
  ASSUME NEW s, Good(s), NEW d \in Datagram,
         d.packet.messageId \in {"SynAck", "Fin", "Data", "Ack", "Rst"}
  PROVE  Good(HandleMessage(s, d))
<1>1. CASE d.packet.messageId = "SynAck"
  <2>1. Dispatch(s, d) = HandleSynAckMessage(s, d)
    BY <1>1 DEF Dispatch
  <2> QED BY <2>1, HandleSynAckMessageOK, NotifyEstablished
<1>2. CASE d.packet.messageId = "Fin"
  <2>1. Dispatch(s, d) = HandleLaterFinMessage(s, d)
    BY <1>2 DEF Dispatch
  <2> QED BY <2>1, HandleLaterFinMessageOK, NotifyEstablished
<1>3. CASE d.packet.messageId = "Data"
  <2>1. Dispatch(s, d) = HandleDataMessage(s, d)
    BY <1>3 DEF Dispatch
  <2> QED BY <2>1, HandleDataMessageOK, NotifyEstablished
<1>4. CASE d.packet.messageId = "Ack"
  <2>1. Dispatch(s, d) = HandleAckMessage(s, d)
    BY <1>4 DEF Dispatch
  <2> QED BY <2>1, HandleAckMessageOK, NotifyEstablished
<1>5. CASE d.packet.messageId = "Rst"
  <2>1. Dispatch(s, d) = HandleRstMessage(s, d)
    BY <1>5 DEF Dispatch
  <2> QED BY <2>1, HandleRstMessageOK, NotifyEstablished
<1> QED BY <1>1, <1>2, <1>3, <1>4, <1>5

----------------------------------------------------------------------------
\* Update, part by part.

\* UpdateReceiveWindow has nothing to acknowledge in SynSent.
LEMMA UpdateReceiveWindowOK ==
  ASSUME NEW s, Good(s)
  PROVE  Good(UpdateReceiveWindow(s))
<1> DEFINE a == SendAckMessage(s)
<1>1. SessionOK(a) /\ a.state = s.state
  BY SendAckMessageOK DEF Good
<1>2. ~PendingAck(InitReadWindow)
  BY DEF PendingAck, InitReadWindow
<1> HIDE DEF a
<1>3. CASE PendingAck(s.receiveWindow)
  <2>1. s.state # SynSent
    BY <1>2, <1>3 DEF Good, Fresh
  <2>2. Good(a)
    BY <1>1, <2>1 DEF Good, Fresh
  <2> QED BY <1>3, <2>2 DEF UpdateReceiveWindow, a
<1>4. CASE ~PendingAck(s.receiveWindow)
  BY <1>4 DEF UpdateReceiveWindow
<1> QED BY <1>3, <1>4

\* UpdateSendWindow gives up, or retransmits, and then transmits.
LEMMA RetransmitOrShutdownOK ==
  ASSUME NEW s, Good(s), NEW late \in Nat
  PROVE  Good(RetransmitOrShutdown(s, late))
<1> DEFINE w == s.sendWindow
           a == Shutdown(s, FALSE)
           b == ForwardSlots(s, Retransmitted(w, late))
           c == [b EXCEPT !.sendWindow = CountRetransmit(b.sendWindow, late)]
<1>1. RetransmitOrShutdown(s, late) \in {s, a, c}
  BY DEF RetransmitOrShutdown
<1>2. Good(a)
  <2>1. /\ SessionOK(a) /\ a.state \in {s.state, Closed, FinWait1}
        /\ a.receiveWindow = s.receiveWindow
    BY ShutdownOK DEF Good
  <2> HIDE DEF a
  <2> QED BY <2>1 DEF Good, Fresh, Closed, FinWait1, SynSent
<1>3. Good(c)
  <2>1. w.nextUnacknowledgedSequence \in Nat
    BY DEF Good, SessionOK, SendOK, SendWindow
  <2>2. Retransmitted(w, late) \subseteq Nat
    BY <2>1 DEF Retransmitted
  <2>3. /\ SessionOK(b) /\ b.state = s.state
        /\ b.receiveWindow = s.receiveWindow
    BY <2>2, ForwardSlotsOK DEF Good
  <2> HIDE DEF b
  <2>4. SendOK(CountRetransmit(b.sendWindow, late))
    BY <2>3, CountRetransmitOK DEF SessionOK
  <2>5. /\ SessionOK(c) /\ c.state = s.state
        /\ c.receiveWindow = s.receiveWindow
    BY <2>3, <2>4, WithSendWindow
  <2> HIDE DEF c
  <2> QED BY <2>5 DEF Good, Fresh
<1> HIDE DEF a, c
<1> QED BY <1>1, <1>2, <1>3

\* The second half of UpdateSendWindow, which transmits what was not sent
\* yet, keeps a session well formed.
LEMMA TransmitUnsentOK ==
  ASSUME NEW s, Good(s), NEW room \in Nat
  PROVE  Good(TransmitUnsent(s, room))
<1> DEFINE b == ForwardSlots(s, Transmitted(s.sendWindow, room))
           c == [b EXCEPT !.sendWindow = Transmit(b.sendWindow, room)]
<1>1. TransmitUnsent(s, room) = c
  BY DEF TransmitUnsent
<1>2. Transmitted(s.sendWindow, room) \subseteq Nat
  BY TransmitOK DEF Good, SessionOK
<1>3. SessionOK(b) /\ b.state = s.state /\ b.receiveWindow = s.receiveWindow
  BY <1>2, ForwardSlotsOK DEF Good
<1> HIDE DEF b
<1>4. SendOK(Transmit(b.sendWindow, room))
  BY <1>3, TransmitOK DEF SessionOK
<1>5. SessionOK(c) /\ c.state = s.state /\ c.receiveWindow = s.receiveWindow
  BY <1>3, <1>4, WithSendWindow
<1> HIDE DEF c
<1>6. Good(c)
  BY <1>5 DEF Good, Fresh
<1> QED BY <1>1, <1>6

\* UpdateTimeout writes the Fin, and closes the session.
LEMMA UpdateTimeoutOK ==
  ASSUME NEW s, Good(s)
  PROVE  Good(UpdateTimeout(s))
<1> DEFINE a == WriteMessageIntoSendWindow(s, "Fin", 0, NoSession)
           b == SetState(a, FinWait2)
           f == WriteFin(s)
           c == SetState(f, Closed)
<1>1. /\ "Fin" \in SessionMessage /\ NoSession \in SessionId
      /\ FinWait2 \in SessionState /\ Closed \in SessionState
  BY DEF SessionMessage, SessionId, FinWait2, Closed, SessionState
<1>2. Good(f)
  <2>1. CASE s.state = FinWait1 /\ CanWriteMessage(s)
    <3>1. SessionOK(a)
      BY <1>1, <2>1, WriteMessageIntoSendWindowOK DEF CanWriteMessage, Good
    <3> HIDE DEF a
    <3>2. SessionOK(b) /\ b.state = FinWait2
      BY <1>1, <3>1, SetStateOK
    <3> HIDE DEF b
    <3>3. Good(b)
      BY <3>2 DEF Good, Fresh, FinWait2, SynSent
    <3> QED BY <2>1, <3>3 DEF WriteFin, b, a
  <2>2. CASE ~(s.state = FinWait1 /\ CanWriteMessage(s))
    BY <2>2 DEF WriteFin
  <2> QED BY <2>1, <2>2
<1>3. UpdateTimeout(s) \in {f, c}
  BY DEF UpdateTimeout, CloseIfDone
<1> HIDE DEF f
<1>4. SessionOK(c) /\ c.state = Closed
  BY <1>1, <1>2, SetStateOK DEF Good
<1> HIDE DEF c
<1>5. Good(c)
  BY <1>4 DEF Good, Fresh, Closed, SynSent
<1> QED BY <1>2, <1>3, <1>5

\* The end of Update: the last reference, and the notification.
LEMMA ShutdownIfLastReferenceOK ==
  ASSUME NEW s, Good(s), NEW last \in BOOLEAN
  PROVE  Good(ShutdownIfLastReference(s, last))
<1> DEFINE a == Shutdown(s, TRUE)
<1>1. /\ SessionOK(a) /\ a.state \in {s.state, Closed, FinWait1}
      /\ a.receiveWindow = s.receiveWindow
  BY ShutdownOK DEF Good
<1>2. ShutdownIfLastReference(s, last) \in {s, a}
  BY DEF ShutdownIfLastReference
<1> HIDE DEF a
<1>3. Good(a)
  BY <1>1 DEF Good, Fresh, Closed, FinWait1, SynSent
<1> QED BY <1>2, <1>3

\* The end of Update (SessionTerminated, disconnection event) touches neither
\* window nor state.
LEMMA NotifyClosedOK ==
  ASSUME NEW s, Good(s)
  PROVE  Good(NotifyClosed(s))
<1> DEFINE cb == IF s.side = "server" /\ s.callbackState = "EstablishedCalled"
                 THEN "TerminatedCalled" ELSE s.callbackState
           t == [s EXCEPT !.disconnectionEvent = TRUE, !.callbackState = cb]
<1>1. s \in SessionObject /\ cb \in SessionCallbackState
  BY DEF Good, SessionOK, SessionObject, SessionCallbackState
<1> HIDE DEF cb
<1>2. /\ t \in SessionObject /\ t.state = s.state
      /\ t.sendWindow = s.sendWindow /\ t.receiveWindow = s.receiveWindow
  BY <1>1 DEF SessionObject
<1>3. NotifyClosed(s) \in {s, t}
  BY DEF NotifyClosed, cb
<1> HIDE DEF t
<1>4. Good(t)
  BY <1>2 DEF Good, SessionOK, Fresh
<1> QED BY <1>3, <1>4

\* Update keeps a session well formed.
LEMMA UpdateOK ==
  ASSUME NEW s, Good(s), NEW late \in Nat, NEW room \in Nat, NEW last \in BOOLEAN
  PROVE  Good(Update(s, late, room, last))
<1>1. Good(UpdateReceiveWindow(s))
  BY UpdateReceiveWindowOK
<1>2. Good(UpdateSendWindow(UpdateReceiveWindow(s), late, room))
  BY <1>1, RetransmitOrShutdownOK, TransmitUnsentOK DEF UpdateSendWindow
<1>3. Good(UpdateTimeout(UpdateSendWindow(UpdateReceiveWindow(s), late, room)))
  BY <1>2, UpdateTimeoutOK
<1> QED BY <1>3, ShutdownIfLastReferenceOK, NotifyClosedOK DEF Update

----------------------------------------------------------------------------
\* Send and Receive.

\* Send writes a Data packet and leaves the rest alone.
LEMMA FinishSendOK ==
  ASSUME NEW s, SessionOK(s), HasFreeSlot(s.sendWindow), NEW payload \in Nat
  PROVE  LET t == FinishSend(s, payload)
         IN  SessionOK(t) /\ (Fresh(s) => Fresh(t))
<1> DEFINE t == FinishSend(s, payload)
<1>1. "Data" \in SessionMessage /\ NoSession \in SessionId
  BY DEF SessionMessage, SessionId
<1>2. SessionOK(t) /\ t.state = s.state /\ t.receiveWindow = s.receiveWindow
  BY <1>1, WriteMessageIntoSendWindowOK DEF FinishSend
<1> HIDE DEF t
<1>3. SessionOK(t) /\ (Fresh(s) => Fresh(t))
  BY <1>2 DEF Fresh
<1> QED BY <1>3 DEF t

\* Receive, with a token, reads a packet that is there; a session in
\* SynSent has no token to give.
LEMMA FinishReceiveOK ==
  ASSUME NEW s, SessionOK(s), HasPacket(s.receiveWindow)
  PROVE  LET t == FinishReceive(s)
         IN  SessionOK(t) /\ (Fresh(s) => Fresh(t))
<1> DEFINE w == s.receiveWindow
           k == TakeToken(w)
           taken == [s EXCEPT !.receiveWindow = k]
           r == ReadPacket(k)
           read == [taken EXCEPT !.receiveWindow = r]
           c == SetState(read, Closed)
           t == FinishReceive(s)
<1>1. RecvOK(w)
  BY DEF SessionOK
<1>2. RecvOK(k)
  BY <1>1, TakeTokenOK
<1>3. /\ k.nextUnreadSequence < k.nextExpectedSequence
      /\ k.semaphore < k.nextExpectedSequence - k.nextUnreadSequence
  <2>1. /\ w.semaphore \in Nat /\ w.semaphore > 0
        /\ w.semaphore <= w.nextExpectedSequence - w.nextUnreadSequence
        /\ w.nextUnreadSequence \in Nat /\ w.nextExpectedSequence \in Nat
        /\ w \in ReadWindow
    BY <1>1, RecvOKFields DEF HasPacket
  <2>2. /\ k.semaphore = w.semaphore - 1
        /\ k.nextUnreadSequence = w.nextUnreadSequence
        /\ k.nextExpectedSequence = w.nextExpectedSequence
    BY <2>1 DEF TakeToken, ReadWindow
  <2> HIDE DEF k, w
  <2> QED BY <2>1, <2>2
<1>4. SessionOK(taken) /\ taken.state = s.state /\ taken.receiveWindow = k
  BY <1>2, WithReceiveWindow
<1>5. RecvOK(r)
  BY <1>2, <1>3, ReadPacketOK
<1>6. t = IF s.state = Closed THEN taken
          ELSE IF NextUnread(w).messageId = "Data" THEN read ELSE c
  <2>1. [taken EXCEPT !.receiveWindow = ReadPacket(@)] = read
    BY <1>4
  <2> QED BY <2>1 DEF FinishReceive
<1> HIDE DEF taken, r
<1>7. SessionOK(read) /\ read.state = s.state
  BY <1>4, <1>5, WithReceiveWindow
<1> HIDE DEF read
<1>8. SessionOK(c) /\ c.state = Closed
  BY <1>7, SetStateOK DEF Closed, SessionState
<1>9. Fresh(s) => s.state # SynSent
  <2>1. ~HasPacket(InitReadWindow)
    BY DEF HasPacket, InitReadWindow
  <2> QED BY <2>1 DEF Fresh
<1> HIDE DEF t, c
<1>10. SessionOK(t) /\ (Fresh(s) => Fresh(t))
  BY <1>4, <1>6, <1>7, <1>8, <1>9 DEF Fresh, Closed, SynSent
<1> QED BY <1>10 DEF t

-----------------------------------------------------------------------------
\* Two session managers keep every session object well formed: the
\* inductive invariant, one lemma per action, and the theorems.

\* The inductive invariant.  TypeOK says nothing about the contents of the
\* windows; SessionsOK does.  A session in SynSent has stored nothing,
\* except between the two halves of HandleFinMessage, when its message
\* thread holds m_sessionMutex and no SynAck can be handled; and a thread
\* in the middle of a handler is at work on a session object.
SessionsOK == \A o \in Sessions : SessionOK(session[o])

ClosingOn(o) == thread[SideOf(o)].pc = "closing" /\ thread[SideOf(o)].on = o

FreshUnlessClosing == \A o \in Sessions : Fresh(session[o]) \/ ClosingOn(o)

ThreadsOnSessions == \A side \in Side : thread[side].pc # "idle" =>
                                            thread[side].on \in Sessions

IInv == TypeOK /\ SessionsOK /\ FreshUnlessClosing /\ ThreadsOnSessions

----------------------------------------------------------------------------
\* Facts every action uses.

\* Every object belongs to a side.
LEMMA SideOfType == \A o : SideOf(o) \in Side
  BY DEF SideOf, Side

\* An object whose message thread is idle is fresh.
LEMMA FreshWhenIdle ==
  ASSUME IInv, NEW o \in Sessions, MutexFree(SideOf(o))
  PROVE  Good(session[o])
  BY DEF IInv, SessionsOK, FreshUnlessClosing, ClosingOn, MutexFree, Good

\* Handing the datagrams over changes no other field.
LEMMA QuietOK ==
  ASSUME NEW s, SessionOK(s)
  PROVE  SessionOK(Quiet(s)) /\ (Fresh(s) => Fresh(Quiet(s)))
<1> DEFINE t == Quiet(s)
<1>1. /\ t \in SessionObject /\ t.state = s.state
      /\ t.sendWindow = s.sendWindow /\ t.receiveWindow = s.receiveWindow
  BY DEF Quiet, SessionOK, SessionObject
<1> HIDE DEF t
<1>2. SessionOK(t) /\ (Fresh(s) => Fresh(t))
  BY <1>1 DEF SessionOK, Fresh
<1> QED BY <1>2 DEF t

\* What a call hands to the transport are datagrams.
LEMMA OutType ==
  ASSUME NEW s, SessionOK(s)
  PROVE  s.out \subseteq Datagram
  BY DEF SessionOK, SessionObject

\* One object is replaced by the result of a call.
LEMMA PutOK ==
  ASSUME IInv, NEW o \in Sessions, NEW s, SessionOK(s), Put(o, s)
  PROVE  /\ session' \in [Sessions -> SessionObject]
         /\ SessionsOK'
         /\ \A p \in Sessions \ {o} : session'[p] = session[p]
         /\ Fresh(s) => Fresh(session'[o])
<1> DEFINE q == Quiet(s)
<1>1. SessionOK(q) /\ (Fresh(s) => Fresh(q))
  BY QuietOK
<1>2. session' = [session EXCEPT ![o] = q]
  BY DEF Put
<1> HIDE DEF q
<1>3. session \in [Sessions -> SessionObject]
  BY DEF IInv, TypeOK
<1>4. q \in SessionObject
  BY <1>1 DEF SessionOK
<1>5. /\ session' \in [Sessions -> SessionObject]
      /\ session'[o] = q
      /\ \A p \in Sessions \ {o} : session'[p] = session[p]
  BY <1>2, <1>3, <1>4
<1>6. SessionsOK'
  BY <1>1, <1>5 DEF IInv, SessionsOK
<1> QED BY <1>1, <1>5, <1>6

\* The bus holds datagrams.
LEMMA DeliverOK ==
  ASSUME IInv, NEW d \in net, NEW sent, sent \subseteq Datagram, Deliver(d, sent)
  PROVE  net' \subseteq Datagram /\ losses' \in Nat /\ duplicates' \in Nat
  BY DEF IInv, TypeOK, Deliver, busVars

\* What SendReset sends is a datagram.
LEMMA ResetType ==
  ASSUME NEW side \in Side, NEW sid \in SessionId
  PROVE  {Reset(side, sid)} \subseteq Datagram
<1> DEFINE packet == MakePacket("Rst", sid, 1, 0, NoSession)
<1>1. packet \in Packet
  BY MakePacketType DEF SessionMessage, SessionId
<1>2. Opposite(side) \in Side
  BY DEF Opposite, Side
<1> HIDE DEF packet
<1> QED BY <1>1, <1>2 DEF Reset, MakeDatagram, Datagram, packet

\* A step in which one object is replaced by a good one, and the message
\* threads stand still.
LEMMA PutGood ==
  ASSUME IInv, NEW o \in Sessions, NEW s, Good(s), Put(o, s), UNCHANGED thread
  PROVE  /\ session' \in [Sessions -> SessionObject]
         /\ SessionsOK' /\ FreshUnlessClosing' /\ ThreadsOnSessions'
<1>1. /\ session' \in [Sessions -> SessionObject]
      /\ SessionsOK'
      /\ \A p \in Sessions \ {o} : session'[p] = session[p]
      /\ Fresh(session'[o])
  BY PutOK DEF Good
<1>2. FreshUnlessClosing'
  BY <1>1 DEF IInv, FreshUnlessClosing, ClosingOn
<1>3. ThreadsOnSessions'
  BY DEF IInv, ThreadsOnSessions
<1> QED BY <1>1, <1>2, <1>3

\* A step that leaves session objects and threads alone.
LEMMA StandStill ==
  ASSUME IInv, UNCHANGED <<session, thread>>
  PROVE  SessionsOK' /\ FreshUnlessClosing' /\ ThreadsOnSessions'
  BY DEF IInv, SessionsOK, FreshUnlessClosing, ClosingOn, ThreadsOnSessions

----------------------------------------------------------------------------
\* The initial state.
LEMMA InitIInv == Init => IInv
<1> SUFFICES ASSUME Init PROVE IInv
  OBVIOUS
<1>1. \A o \in Sessions : Good(session[o])
  BY NewSessionOK, SideOfType DEF Init
<1>2. session \in [Sessions -> SessionObject]
  <2>1. \A o \in Sessions : NewSession(SideOf(o)) \in SessionObject
    BY NewSessionOK, SideOfType DEF Good, SessionOK
  <2> QED BY <2>1 DEF Init
<1>3. TypeOK
  <2>1. NoSession \in SessionId
    BY DEF SessionId
  <2>2. Idle \in ThreadState
    BY <2>1 DEF Idle, ThreadState
  <2>3. <<>> \in Seq(Nat)
    OBVIOUS
  <2> QED BY <1>2, <2>1, <2>2, <2>3 DEF Init, TypeOK
<1>4. ThreadsOnSessions
  BY DEF Init, ThreadsOnSessions, Idle
<1> QED BY <1>1, <1>3, <1>4 DEF IInv, SessionsOK, FreshUnlessClosing, Good

----------------------------------------------------------------------------
\* The message thread.
LEMMA EstablishOK == IInv /\ EstablishSessionForClient => IInv'
<1> SUFFICES ASSUME IInv, EstablishSessionForClient PROVE IInv'
  OBVIOUS
<1> DEFINE s == Connect(session[Client], Client)
<1>1. Client \in Sessions /\ Client \in SessionId
  BY DEF Sessions, SessionId
<1>2. Good(s)
  BY <1>1, ConnectOK, SideOfType DEF EstablishSessionForClient, IsUnused
<1> HIDE DEF s
<1>3. Put(Client, s) /\ UNCHANGED thread
  BY DEF EstablishSessionForClient, s
<1>4. /\ session' \in [Sessions -> SessionObject]
      /\ SessionsOK' /\ FreshUnlessClosing' /\ ThreadsOnSessions'
  BY <1>1, <1>2, <1>3, PutGood
<1>5. TypeOK'
  BY <1>1, <1>4 DEF IInv, TypeOK, EstablishSessionForClient, appVars, busVars
<1> QED BY <1>4, <1>5 DEF IInv

\* Refusing a Syn keeps the invariant.
LEMMA RefuseSynOK ==
  ASSUME IInv, NEW d \in net, RefuseSyn(d)
  PROVE  IInv'
<1>1. d \in Datagram
  BY DEF IInv, TypeOK
<1>2. {Reset(d.dst, d.packet.sessionId)} \subseteq Datagram
  BY <1>1, ResetType DEF Datagram, Packet
<1>3. net' \subseteq Datagram /\ losses' \in Nat /\ duplicates' \in Nat
  BY <1>2, DeliverOK DEF RefuseSyn
<1>4. TypeOK'
  BY <1>3 DEF IInv, TypeOK, RefuseSyn, appVars
<1> QED BY <1>4, StandStill DEF IInv, RefuseSyn

\* Answering a message for an unknown session with a Rst keeps the invariant.
LEMMA ReceiveUnknownOK ==
  ASSUME IInv, NEW d \in net, ReceiveUnknown(d)
  PROVE  IInv'
<1>1. d \in Datagram
  BY DEF IInv, TypeOK
<1>2. {Reset(d.dst, d.packet.sessionId)} \subseteq Datagram
  BY <1>1, ResetType DEF Datagram, Packet
<1>3. net' \subseteq Datagram /\ losses' \in Nat /\ duplicates' \in Nat
  BY <1>2, DeliverOK DEF ReceiveUnknown
<1>4. TypeOK'
  BY <1>3 DEF IInv, TypeOK, ReceiveUnknown, appVars
<1> QED BY <1>4, StandStill DEF IInv, ReceiveUnknown

\* A server session that AcceptSession rejects keeps the invariant.
LEMMA RejectSynOK ==
  ASSUME IInv, NEW d \in net, NEW o \in Server, RejectSyn(d, o)
  PROVE  IInv'
<1> DEFINE b == BindToServer(session[o], o)
           s == Shutdown(b, FALSE)
<1>1. d \in Datagram /\ o \in Sessions /\ o \in SessionId
  BY DEF IInv, TypeOK, Sessions, SessionId
<1>2. SessionOK(b) /\ b.receiveWindow = InitReadWindow
  BY <1>1, BindToServerOK, SideOfType DEF RejectSyn, IsUnused, Good
<1> HIDE DEF b
<1>3. SessionOK(s) /\ s.receiveWindow = InitReadWindow
  BY <1>2, ShutdownOK
<1> HIDE DEF s
<1>4. Good(s)
  BY <1>3 DEF Good, Fresh
<1>5. Put(o, s) /\ UNCHANGED thread
  BY DEF RejectSyn, s, b
<1>6. /\ session' \in [Sessions -> SessionObject]
      /\ SessionsOK' /\ FreshUnlessClosing' /\ ThreadsOnSessions'
  BY <1>1, <1>4, <1>5, PutGood
<1>7. {Reset(d.dst, d.packet.sessionId)} \subseteq Datagram
  BY <1>1, ResetType DEF Datagram, Packet
<1>8. net' \subseteq Datagram /\ losses' \in Nat /\ duplicates' \in Nat
  BY <1>7, DeliverOK DEF RejectSyn
<1>9. TypeOK'
  BY <1>1, <1>6, <1>8 DEF IInv, TypeOK, RejectSyn, appVars
<1> QED BY <1>6, <1>9 DEF IInv

\* A Syn that is accepted is handled by a new object.
LEMMA AcceptSynOK ==
  ASSUME IInv, NEW d \in net, NEW o \in Server, AcceptSyn(d, o)
  PROVE  IInv'
<1> DEFINE b == BindToServer(session[o], o)
           s == HandleMessage(b, d)
<1>1. d \in Datagram /\ o \in Sessions /\ o \in SessionId
  BY DEF IInv, TypeOK, Sessions, SessionId
<1>2. SessionOK(b) /\ b.receiveWindow = InitReadWindow
  BY <1>1, BindToServerOK, SideOfType DEF AcceptSyn, IsUnused, Good
<1> HIDE DEF b
<1>3. Good(s)
  BY <1>1, <1>2, HandleSynOK DEF AcceptSyn
<1> HIDE DEF s
<1>4. Put(o, s) /\ Deliver(d, s.out) /\ UNCHANGED thread
  BY DEF AcceptSyn, s, b
<1>5. /\ session' \in [Sessions -> SessionObject]
      /\ SessionsOK' /\ FreshUnlessClosing' /\ ThreadsOnSessions'
  BY <1>1, <1>3, <1>4, PutGood
<1>6. net' \subseteq Datagram /\ losses' \in Nat /\ duplicates' \in Nat
  BY <1>3, <1>4, OutType, DeliverOK DEF Good
<1>7. TypeOK'
  BY <1>1, <1>5, <1>6 DEF IInv, TypeOK, AcceptSyn, appVars
<1> QED BY <1>5, <1>7 DEF IInv

\* Whoever a message is looked up for belongs to the side it is sent to.
LEMMA TargetSide ==
  ASSUME NEW d, NEW o,
         o \in SynAckTarget(d) \/ o \in FindOpenSession(d.dst, d.packet.sessionId)
  PROVE  SideOf(o) = d.dst
  BY DEF SynAckTarget, FindOpenSession, Find

\* Handling a SynAck keeps the invariant; this is where a fresh receive
\* window is needed.
LEMMA ReceiveSynAckOK ==
  ASSUME IInv, NEW d \in net, MutexFree(d.dst), NEW o \in Sessions,
         ReceiveSynAck(d, o)
  PROVE  IInv'
<1> DEFINE s == HandleMessage(session[o], d)
<1>1. d \in Datagram /\ d.packet.sessionId \in SessionId
  BY DEF IInv, TypeOK, Datagram, Packet
<1>2. Good(session[o])
  BY TargetSide, FreshWhenIdle DEF ReceiveSynAck
<1>3. Good(s)
  BY <1>1, <1>2, HandleMessageOK DEF ReceiveSynAck
<1> HIDE DEF s
<1>4. Put(o, s) /\ Deliver(d, s.out) /\ UNCHANGED thread
  BY DEF ReceiveSynAck, s
<1>5. /\ session' \in [Sessions -> SessionObject]
      /\ SessionsOK' /\ FreshUnlessClosing' /\ ThreadsOnSessions'
  BY <1>3, <1>4, PutGood
<1>6. net' \subseteq Datagram /\ losses' \in Nat /\ duplicates' \in Nat
  BY <1>3, <1>4, OutType, DeliverOK DEF Good
<1>7. TypeOK'
  BY <1>1, <1>5, <1>6 DEF IInv, TypeOK, ReceiveSynAck, appVars
<1> QED BY <1>5, <1>7 DEF IInv

\* Handling Data, an Ack, a Rst or a later Fin keeps the invariant.
LEMMA ReceiveMessageOK ==
  ASSUME IInv, NEW d \in net, MutexFree(d.dst), NEW o \in Sessions,
         ReceiveMessage(d, o)
  PROVE  IInv'
<1> DEFINE s == HandleMessage(session[o], d)
<1>1. d \in Datagram
  BY DEF IInv, TypeOK
<1>2. Good(session[o])
  BY TargetSide, FreshWhenIdle DEF ReceiveMessage
<1>3. Good(s)
  BY <1>1, <1>2, HandleMessageOK DEF ReceiveMessage
<1> HIDE DEF s
<1>4. Put(o, s) /\ Deliver(d, s.out) /\ UNCHANGED thread
  BY DEF ReceiveMessage, s
<1>5. /\ session' \in [Sessions -> SessionObject]
      /\ SessionsOK' /\ FreshUnlessClosing' /\ ThreadsOnSessions'
  BY <1>3, <1>4, PutGood
<1>6. net' \subseteq Datagram /\ losses' \in Nat /\ duplicates' \in Nat
  BY <1>3, <1>4, OutType, DeliverOK DEF Good
<1>7. TypeOK'
  BY <1>5, <1>6 DEF IInv, TypeOK, ReceiveMessage, appVars
<1> QED BY <1>5, <1>7 DEF IInv

\* The first half of HandleFinMessage leaves the object well formed, and
\* the thread in the middle of the handler.
LEMMA ReceiveFinOK ==
  ASSUME IInv, NEW d \in net, MutexFree(d.dst), NEW o \in Sessions,
         ReceiveFin(d, o)
  PROVE  IInv'
<1> DEFINE s == StoreFin(session[o], d)
           busy == [pc |-> "closing", on |-> o, windowSize |-> d.windowSize]
<1>1. d \in Datagram /\ d.windowSize \in Nat /\ d.dst \in Side
  BY DEF IInv, TypeOK, Datagram
<1>2. SideOf(o) = d.dst
  BY TargetSide DEF ReceiveFin
<1>3. SessionOK(s)
  BY <1>1, StoreFinOK DEF IInv, SessionsOK
<1> HIDE DEF s
<1>4. Put(o, s) /\ Deliver(d, s.out) /\ thread' = [thread EXCEPT ![d.dst] = busy]
  BY DEF ReceiveFin, s
<1>5. /\ session' \in [Sessions -> SessionObject]
      /\ SessionsOK'
      /\ \A p \in Sessions \ {o} : session'[p] = session[p]
  BY <1>3, <1>4, PutOK
<1>6. net' \subseteq Datagram /\ losses' \in Nat /\ duplicates' \in Nat
  BY <1>3, <1>4, OutType, DeliverOK
<1>7. busy \in ThreadState /\ busy.pc = "closing" /\ busy.on = o
  BY <1>1 DEF ThreadState, SessionId
<1>8. thread \in [Side -> ThreadState]
  BY DEF IInv, TypeOK
<1> HIDE DEF busy
<1>9. /\ thread' \in [Side -> ThreadState] /\ thread'[d.dst] = busy
      /\ \A side \in Side \ {d.dst} : thread'[side] = thread[side]
  BY <1>1, <1>4, <1>7, <1>8
<1>10. FreshUnlessClosing'
  <2> SUFFICES ASSUME NEW p \in Sessions
               PROVE  Fresh(session'[p]) \/ ClosingOn(p)'
    BY DEF FreshUnlessClosing
  <2>1. CASE p = o
    BY <1>2, <1>7, <1>9, <2>1 DEF ClosingOn
  <2>2. CASE p # o /\ SideOf(p) = d.dst
    BY <1>5, <2>2, FreshWhenIdle DEF Good
  <2>3. CASE p # o /\ SideOf(p) # d.dst
    BY <1>5, <1>9, <2>3, SideOfType DEF IInv, FreshUnlessClosing, ClosingOn
  <2> QED BY <2>1, <2>2, <2>3
<1>11. ThreadsOnSessions'
  BY <1>7, <1>9 DEF IInv, ThreadsOnSessions
<1>12. TypeOK'
  BY <1>5, <1>6, <1>9 DEF IInv, TypeOK, ReceiveFin, appVars
<1> QED BY <1>5, <1>10, <1>11, <1>12 DEF IInv

\* A thread that goes back to idle.
LEMMA BackToIdle ==
  ASSUME IInv, NEW side \in Side, thread' = [thread EXCEPT ![side] = Idle]
  PROVE  /\ thread' \in [Side -> ThreadState] /\ thread'[side] = Idle
         /\ \A other \in Side \ {side} : thread'[other] = thread[other]
         /\ ThreadsOnSessions'
<1>1. thread \in [Side -> ThreadState]
  BY DEF IInv, TypeOK
<1>2. Idle \in ThreadState /\ Idle.pc = "idle"
  BY DEF Idle, ThreadState, SessionId
<1>3. /\ thread' \in [Side -> ThreadState] /\ thread'[side] = Idle
      /\ \A other \in Side \ {side} : thread'[other] = thread[other]
  BY <1>1, <1>2
<1>4. ThreadsOnSessions'
  BY <1>2, <1>3 DEF IInv, ThreadsOnSessions
<1> QED BY <1>3, <1>4

\* The second half of HandleFinMessage keeps the invariant.
LEMMA FinishFinOK ==
  ASSUME IInv, NEW side \in Side, FinishFin(side)
  PROVE  IInv'
<1> DEFINE o == thread[side].on
           s == EnterClosing(session[o], thread[side].windowSize)
<1>1. o \in Sessions /\ thread[side].windowSize \in Nat
  BY DEF IInv, TypeOK, ThreadState, ThreadsOnSessions, FinishFin
<1>2. Good(s)
  BY <1>1, EnterClosingOK DEF IInv, SessionsOK
<1> HIDE DEF s
<1>3. Put(o, s) /\ thread' = [thread EXCEPT ![side] = Idle]
  BY DEF FinishFin, s
<1>4. /\ session' \in [Sessions -> SessionObject] /\ SessionsOK'
      /\ \A p \in Sessions \ {o} : session'[p] = session[p]
      /\ Fresh(session'[o])
  BY <1>1, <1>2, <1>3, PutOK DEF Good
<1>5. /\ thread' \in [Side -> ThreadState] /\ thread'[side] = Idle
      /\ \A other \in Side \ {side} : thread'[other] = thread[other]
      /\ ThreadsOnSessions'
  BY <1>3, BackToIdle
<1>6. FreshUnlessClosing'
  <2> SUFFICES ASSUME NEW p \in Sessions
               PROVE  Fresh(session'[p]) \/ ClosingOn(p)'
    BY DEF FreshUnlessClosing
  <2>1. CASE p = o
    BY <1>4, <2>1
  <2>2. CASE p # o
    <3>1. Fresh(session[p]) \/ ClosingOn(p)
      BY DEF IInv, FreshUnlessClosing
    <3>2. ClosingOn(p) => SideOf(p) # side
      BY <2>2 DEF ClosingOn
    <3> QED BY <1>4, <1>5, <2>2, <3>1, <3>2, SideOfType DEF ClosingOn
  <2> QED BY <2>1, <2>2
<1>7. TypeOK'
  BY <1>4, <1>5 DEF IInv, TypeOK, FinishFin, appVars, busVars
<1> QED BY <1>4, <1>5, <1>6, <1>7 DEF IInv

\* Session::Update, called from UpdateSessions, keeps the invariant.
LEMMA UpdateSessionOK ==
  ASSUME IInv, NEW o \in Sessions, NEW late \in TimedOut(o), NEW room \in Rooms,
         UpdateSession(o, late, room)
  PROVE  IInv'
<1> DEFINE s == Update(session[o], late, room, released)
           busy == [pc |-> "updated", on |-> o, windowSize |-> 0]
           side == SideOf(o)
<1>1. room \in Nat /\ released \in BOOLEAN /\ side \in Side
  BY BoundAssumption, SideOfType DEF IInv, TypeOK
<1>2. late \in Nat
  BY DEF TimedOut
<1>3. Good(session[o])
  BY FreshWhenIdle DEF UpdateSession
<1>4. Good(s)
  BY <1>1, <1>2, <1>3, UpdateOK
<1> HIDE DEF s
<1>5. /\ Put(o, s) /\ net' = net \cup s.out
      /\ thread' = [thread EXCEPT ![side] = busy]
  BY DEF UpdateSession, s
<1>6. /\ session' \in [Sessions -> SessionObject] /\ SessionsOK'
      /\ \A p \in Sessions \ {o} : session'[p] = session[p]
      /\ Fresh(session'[o])
  BY <1>4, <1>5, PutOK DEF Good
<1>7. net' \subseteq Datagram
  BY <1>4, <1>5, OutType DEF Good, IInv, TypeOK
<1>8. busy \in ThreadState /\ busy.on = o
  BY DEF ThreadState, SessionId
<1>9. thread \in [Side -> ThreadState]
  BY DEF IInv, TypeOK
<1> HIDE DEF busy
<1>10. /\ thread' \in [Side -> ThreadState] /\ thread'[side] = busy
       /\ \A other \in Side \ {side} : thread'[other] = thread[other]
  BY <1>1, <1>5, <1>8, <1>9
<1>11. FreshUnlessClosing'
  <2> SUFFICES ASSUME NEW p \in Sessions
               PROVE  Fresh(session'[p]) \/ ClosingOn(p)'
    BY DEF FreshUnlessClosing
  <2>1. CASE SideOf(p) = side
    BY <1>6, <2>1, FreshWhenIdle DEF UpdateSession, Good
  <2>2. CASE SideOf(p) # side
    BY <1>6, <1>10, <2>2, SideOfType DEF IInv, FreshUnlessClosing, ClosingOn
  <2> QED BY <2>1, <2>2
<1>12. ThreadsOnSessions'
  BY <1>8, <1>10 DEF IInv, ThreadsOnSessions
<1>13. TypeOK'
  BY <1>6, <1>7, <1>10 DEF IInv, TypeOK, UpdateSession, appVars, busVars
<1> QED BY <1>6, <1>11, <1>12, <1>13 DEF IInv

\* Removing a closed session in UpdateSessions keeps the invariant.
LEMMA RemoveIfClosedOK ==
  ASSUME IInv, NEW side \in Side, RemoveIfClosed(side)
  PROVE  IInv'
<1>1. /\ thread' \in [Side -> ThreadState] /\ thread'[side] = Idle
      /\ \A other \in Side \ {side} : thread'[other] = thread[other]
      /\ ThreadsOnSessions'
  BY BackToIdle DEF RemoveIfClosed
<1>2. SessionsOK' /\ UNCHANGED session
  BY DEF IInv, SessionsOK, RemoveIfClosed
<1>3. FreshUnlessClosing'
  <2> SUFFICES ASSUME NEW p \in Sessions
               PROVE  Fresh(session'[p]) \/ ClosingOn(p)'
    BY DEF FreshUnlessClosing
  <2>1. Fresh(session[p]) \/ ClosingOn(p)
    BY DEF IInv, FreshUnlessClosing
  <2>2. ClosingOn(p) => SideOf(p) # side
    BY DEF ClosingOn, RemoveIfClosed
  <2> QED BY <1>1, <1>2, <2>1, <2>2, SideOfType DEF ClosingOn
<1>4. key' \in [Sessions -> SessionId]
  <2>1. NoSession \in SessionId /\ key \in [Sessions -> SessionId]
    BY DEF SessionId, IInv, TypeOK
  <2> QED BY <2>1 DEF RemoveIfClosed
<1>5. TypeOK'
  BY <1>1, <1>4 DEF IInv, TypeOK, RemoveIfClosed, appVars, busVars
<1> QED BY <1>1, <1>2, <1>3, <1>5 DEF IInv

\* A step that replaces several objects of one side, whose thread is idle.
LEMMA ReplaceSide ==
  ASSUME IInv, UNCHANGED thread, NEW T,
         session' = [o \in Sessions |-> T[o]],
         \A o \in Sessions : T[o] = session[o] \/ Good(T[o])
  PROVE  /\ session' \in [Sessions -> SessionObject]
         /\ SessionsOK' /\ FreshUnlessClosing' /\ ThreadsOnSessions'
<1>1. ASSUME NEW o \in Sessions
      PROVE  SessionOK(session'[o]) /\ (Fresh(session'[o]) \/ ClosingOn(o)')
  <2>1. SessionOK(session[o]) /\ (Fresh(session[o]) \/ ClosingOn(o))
    BY DEF IInv, SessionsOK, FreshUnlessClosing
  <2>2. session'[o] = session[o] \/ Good(session'[o])
    OBVIOUS
  <2> QED BY <2>1, <2>2 DEF Good, ClosingOn
<1>2. session' \in [Sessions -> SessionObject]
  BY <1>1 DEF SessionOK
<1>3. ThreadsOnSessions'
  BY DEF IInv, ThreadsOnSessions
<1> QED BY <1>1, <1>2, <1>3 DEF SessionsOK, FreshUnlessClosing

\* HandleClientDisconnection keeps the invariant.
LEMMA HandleClientDisconnectionOK ==
  ASSUME IInv, NEW side \in Side, HandleClientDisconnection(side)
  PROVE  IInv'
<1> DEFINE T == [o \in Sessions |->
                    IF SideOf(o) = side /\ InTable(o)
                    THEN Shutdown(session[o], FALSE) ELSE session[o]]
<1>1. \A o \in Sessions : T[o] = session[o] \/ Good(T[o])
  <2> SUFFICES ASSUME NEW o \in Sessions, SideOf(o) = side
               PROVE  Good(Shutdown(session[o], FALSE))
    OBVIOUS
  <2> DEFINE s == session[o]
             t == Shutdown(s, FALSE)
  <2>1. Good(s)
    BY FreshWhenIdle DEF HandleClientDisconnection
  <2>2. /\ SessionOK(t) /\ t.state \in {s.state, Closed, FinWait1}
        /\ t.receiveWindow = s.receiveWindow
    BY <2>1, ShutdownOK DEF Good
  <2> HIDE DEF t, s
  <2>3. Good(t)
    BY <2>1, <2>2 DEF Good, Fresh, Closed, FinWait1, SynSent
  <2> QED BY <2>3 DEF t, s
<1>2. session' = [o \in Sessions |-> T[o]] /\ UNCHANGED thread
  BY DEF HandleClientDisconnection
<1> HIDE DEF T
<1>3. /\ session' \in [Sessions -> SessionObject]
      /\ SessionsOK' /\ FreshUnlessClosing' /\ ThreadsOnSessions'
  BY <1>1, <1>2, ReplaceSide
<1>4. TypeOK'
  BY <1>3 DEF IInv, TypeOK, HandleClientDisconnection, appVars, busVars
<1> QED BY <1>3, <1>4 DEF IInv

\* UnregisterProtocolServer keeps the invariant.
LEMMA UnregisterProtocolServerOK ==
  ASSUME IInv, UnregisterProtocolServer
  PROVE  IInv'
<1> DEFINE T == [o \in Sessions |->
                    IF o \in Server /\ InTable(o)
                    THEN HandleUnregisterProtocolServer(session[o])
                    ELSE session[o]]
<1>1. \A o \in Sessions : T[o] = session[o] \/ Good(T[o])
  <2> SUFFICES ASSUME NEW o \in Sessions, o \in Server
               PROVE  Good(HandleUnregisterProtocolServer(session[o]))
    OBVIOUS
  <2>1. SideOf(o) = "server"
    BY ObjectAssumption DEF SideOf
  <2>2. Good(session[o])
    BY <2>1, FreshWhenIdle DEF UnregisterProtocolServer
  <2> QED BY <2>2, HandleUnregisterProtocolServerOK
<1>2. session' = [o \in Sessions |-> T[o]] /\ UNCHANGED thread
  BY DEF UnregisterProtocolServer
<1> HIDE DEF T
<1>3. /\ session' \in [Sessions -> SessionObject]
      /\ SessionsOK' /\ FreshUnlessClosing' /\ ThreadsOnSessions'
  BY <1>1, <1>2, ReplaceSide
<1>4. TypeOK'
  BY <1>3 DEF IInv, TypeOK, UnregisterProtocolServer, appVars, busVars
<1> QED BY <1>3, <1>4 DEF IInv

----------------------------------------------------------------------------
\* The applications.  They do not hold m_sessionMutex, so the message
\* thread of the session may be in the middle of a handler.

\* A step of an application that replaces one object.
LEMMA ApplicationPut ==
  ASSUME IInv, NEW o \in Sessions, NEW s, SessionOK(s),
         Fresh(session[o]) => Fresh(s), Put(o, s), UNCHANGED thread
  PROVE  /\ session' \in [Sessions -> SessionObject]
         /\ SessionsOK' /\ FreshUnlessClosing' /\ ThreadsOnSessions'
<1>1. /\ session' \in [Sessions -> SessionObject] /\ SessionsOK'
      /\ \A p \in Sessions \ {o} : session'[p] = session[p]
      /\ Fresh(s) => Fresh(session'[o])
  BY PutOK
<1>2. FreshUnlessClosing'
  BY <1>1 DEF IInv, FreshUnlessClosing, ClosingOn
<1>3. ThreadsOnSessions'
  BY DEF IInv, ThreadsOnSessions
<1> QED BY <1>1, <1>2, <1>3

\* Send, once it has a free slot, keeps the invariant.
LEMMA EndSendOK ==
  ASSUME IInv, NEW o \in Sessions, EndSend(o)
  PROVE  IInv'
<1> DEFINE payload == Len(accepted[o]) + 1
           s == FinishSend(session[o], payload)
<1>1. accepted \in [Sessions -> Seq(Nat)] /\ payload \in Nat
  BY DEF IInv, TypeOK
<1>2. SessionOK(s) /\ (Fresh(session[o]) => Fresh(s))
  BY <1>1, FinishSendOK DEF EndSend, IInv, SessionsOK
<1> HIDE DEF s
<1>3. Put(o, s) /\ UNCHANGED thread
  BY DEF EndSend, s
<1>4. /\ session' \in [Sessions -> SessionObject]
      /\ SessionsOK' /\ FreshUnlessClosing' /\ ThreadsOnSessions'
  BY <1>2, <1>3, ApplicationPut
<1>5. accepted' \in [Sessions -> Seq(Nat)]
  <2>1. Append(accepted[o], payload) \in Seq(Nat)
    BY <1>1
  <2> QED BY <1>1, <2>1 DEF EndSend
<1>6. TypeOK'
  BY <1>4, <1>5 DEF IInv, TypeOK, EndSend, busVars
<1> QED BY <1>4, <1>6 DEF IInv

\* Receive, once it has a token, keeps the invariant.
LEMMA EndReceiveOK ==
  ASSUME IInv, NEW o \in Sessions, EndReceive(o)
  PROVE  IInv'
<1> DEFINE s == FinishReceive(session[o])
           w == session[o].receiveWindow
<1>1. SessionOK(s) /\ (Fresh(session[o]) => Fresh(s))
  BY FinishReceiveOK DEF EndReceive, IInv, SessionsOK
<1> HIDE DEF s
<1>2. Put(o, s) /\ UNCHANGED thread
  BY DEF EndReceive, s
<1>3. /\ session' \in [Sessions -> SessionObject]
      /\ SessionsOK' /\ FreshUnlessClosing' /\ ThreadsOnSessions'
  BY <1>1, <1>2, ApplicationPut
<1>4. delivered' \in [Sessions -> Seq(Nat)]
  <2>1. delivered \in [Sessions -> Seq(Nat)] /\ RecvOK(w)
    BY DEF IInv, TypeOK, SessionsOK, SessionOK
  <2>2. NextUnread(w).payload \in Nat
    <3>1. w.messages \in [Slot -> Packet] /\ SlotOf(w.nextUnreadSequence) \in Slot
      BY <2>1, RecvOKFields, SlotOfType
    <3>2. NextUnread(w) \in Packet
      BY <3>1 DEF NextUnread
    <3> QED BY <3>2 DEF Packet
  <2>3. Append(delivered[o], NextUnread(w).payload) \in Seq(Nat)
    BY <2>1, <2>2
  <2> QED BY <2>1, <2>3 DEF EndReceive
<1>5. TypeOK'
  BY <1>3, <1>4 DEF IInv, TypeOK, EndReceive, busVars
<1> QED BY <1>3, <1>5 DEF IInv

----------------------------------------------------------------------------
\* Every step keeps the inductive invariant.
LEMMA NextIInv == IInv /\ [Next]_vars => IInv'
<1> SUFFICES ASSUME IInv, [Next]_vars PROVE IInv'
  OBVIOUS
<1>1. ASSUME NEW d \in net, HandleReceivedSessionMessage(d) PROVE IInv'
  BY <1>1, RefuseSynOK, RejectSynOK, AcceptSynOK, ReceiveSynAckOK,
     ReceiveMessageOK, ReceiveFinOK, ReceiveUnknownOK
     DEF HandleReceivedSessionMessage
<1>2. ASSUME NEW side \in Side, FinishFin(side) \/ RemoveIfClosed(side)
                                \/ HandleClientDisconnection(side)
      PROVE  IInv'
  BY <1>2, FinishFinOK, RemoveIfClosedOK, HandleClientDisconnectionOK
<1>3. ASSUME NEW o \in Sessions, NEW late \in TimedOut(o), NEW room \in Rooms,
             UpdateSession(o, late, room)
      PROVE  IInv'
  BY <1>3, UpdateSessionOK
<1>4. CASE EstablishSessionForClient
  BY <1>4, EstablishOK
<1>5. CASE UnregisterProtocolServer
  BY <1>5, UnregisterProtocolServerOK
<1>6. ASSUME NEW o \in Sessions, EndSend(o) \/ EndReceive(o) PROVE IInv'
  BY <1>6, EndSendOK, EndReceiveOK
<1>7. CASE Release \/ RegisterProtocolServer
  <2>1. TypeOK'
    BY <1>7 DEF IInv, TypeOK, Release, RegisterProtocolServer, appVars, busVars
  <2> QED BY <1>7, <2>1, StandStill DEF IInv, Release, RegisterProtocolServer
<1>8. ASSUME NEW o \in Sessions,
             BeginSend(o) \/ SendTimeout(o) \/ BeginReceive(o) \/ ReceiveNothing(o)
      PROVE  IInv'
  <2>1. TypeOK'
    BY <1>8 DEF IInv, TypeOK, BeginSend, SendTimeout, BeginReceive,
                ReceiveNothing, busVars
  <2>2. UNCHANGED <<session, thread>>
    BY <1>8 DEF BeginSend, SendTimeout, BeginReceive, ReceiveNothing
  <2> QED BY <2>1, <2>2, StandStill DEF IInv
<1>9. ASSUME NEW d \in net, Lose(d) PROVE IInv'
  <2>1. TypeOK'
    BY <1>9 DEF IInv, TypeOK, Lose, appVars
  <2> QED BY <1>9, <2>1, StandStill DEF IInv, Lose
<1>10. CASE UNCHANGED vars
  <2>1. TypeOK'
    BY <1>10 DEF IInv, TypeOK, vars, appVars, busVars
  <2> QED BY <1>10, <2>1, StandStill DEF IInv, vars
<1> QED BY <1>1, <1>2, <1>3, <1>4, <1>5, <1>6, <1>7, <1>8, <1>9, <1>10
        DEF Next, MessageThread, Application

\* The inductive invariant holds in every reachable state.
LEMMA InvariantHolds == Spec => []IInv
  BY InitIInv, NextIInv, PTL DEF Spec

\* Every reachable state is type correct: in particular, no semaphore, no
\* advertised window and no acknowledged sequence number ever goes below
\* zero, whatever the bus does.
THEOREM TypeCorrect == Spec => []TypeOK
<1>1. IInv => TypeOK
  BY DEF IInv
<1> QED BY <1>1, InvariantHolds, PTL

\* The send window of every session is consistent: the assertions of
\* MarkMessagesAsAcknowledged, UpdateSendWindow and
\* WriteMessageIntoSendWindow hold for every window size.
THEOREM SendWindowsAreConsistent == Spec => []SendWindowsConsistent
<1>1. IInv => SendWindowsConsistent
  BY DEF IInv, SessionsOK, SessionOK, SendOK, SendWindowsConsistent
<1> QED BY <1>1, InvariantHolds, PTL

\* The receive window of every session is consistent: a token of its
\* semaphore always stands for a packet in its slot, for every window
\* size, although Fin packets are stored in any state of the session.
THEOREM ReceiveWindowsAreConsistent == Spec => []ReceiveWindowsConsistent
<1>1. IInv => ReceiveWindowsConsistent
  BY DEF IInv, SessionsOK, SessionOK, RecvOK, ReceiveWindowsConsistent
<1> QED BY <1>1, InvariantHolds, PTL

----------------------------------------------------------------------------
\* Whose packets are on the bus.  A session object sends no Rst (only the
\* session manager does); a server object sends nothing but packets with
\* its own id and answers Syns with SynAcks that name Client as the id the
\* client started with; the client object sends a Syn under that id only,
\* and never a SynAck.  Genuine says it of the packets an object keeps to
\* retransmit, and of those it hands to the transport.
IsOwn(o, p) ==
    /\ p.messageId # "Rst"
    /\ IF o = Client
       THEN /\ p.messageId # "SynAck"
            /\ p.messageId = "Syn" => p.sessionId = Client
       ELSE /\ p.sessionId = o
            /\ p.messageId # "Syn"
            /\ p.messageId = "SynAck" => p.initial = Client

OwnPacket(o) == {p \in Packet : IsOwn(o, p)}

OwnDatagram(o) ==
    {d \in Datagram : d.packet \in OwnPacket(o) /\ d.dst = Opposite(SideOf(o))}

OwnId(o) == IF o = Client THEN Sessions ELSE {o}

Genuine(o, s) ==
    /\ SessionOK(s)
    /\ s.side = SideOf(o)
    /\ s.sessionId \in OwnId(o)
    /\ s.sendWindow.messages \in [Slot -> OwnPacket(o) \cup {Unwritten}]
    /\ s.out \subseteq OwnDatagram(o)

\* Neither the id of a session nor what its server was told changes.
Alike(s, t) == t.sessionId = s.sessionId /\ t.callbackState = s.callbackState

\* A call that leaves the packets, the datagrams and the id alone.
LEMMA StaysGenuine ==
  ASSUME NEW o \in Sessions, NEW s, Genuine(o, s), NEW t, SessionOK(t),
         t.side = s.side, t.sessionId = s.sessionId, t.out = s.out,
         t.sendWindow.messages = s.sendWindow.messages
  PROVE  Genuine(o, t)
  BY DEF Genuine

\* SetState keeps a session genuine.
LEMMA SetStateGenuine ==
  ASSUME NEW o \in Sessions, NEW s, Genuine(o, s), NEW state \in SessionState
  PROVE  LET t == SetState(s, state)
         IN  Genuine(o, t) /\ Alike(s, t) /\ t.state = state
<1> DEFINE t == SetState(s, state)
<1>1. SessionOK(t) /\ t.state = state
  BY SetStateOK DEF Genuine
<1>2. /\ t.side = s.side /\ t.sessionId = s.sessionId /\ t.out = s.out
      /\ t.sendWindow = s.sendWindow /\ t.callbackState = s.callbackState
  BY DEF SetState, Genuine, SessionOK, SessionObject
<1> HIDE DEF t
<1>3. Genuine(o, t) /\ Alike(s, t)
  BY <1>1, <1>2, StaysGenuine DEF Alike
<1> QED BY <1>1, <1>3 DEF t

\* So does a send window with the same packets.
LEMMA SendWindowGenuine ==
  ASSUME NEW o \in Sessions, NEW s, Genuine(o, s), NEW w, SendOK(w),
         w.messages = s.sendWindow.messages
  PROVE  LET t == [s EXCEPT !.sendWindow = w]
         IN  Genuine(o, t) /\ Alike(s, t) /\ t.state = s.state
<1> DEFINE t == [s EXCEPT !.sendWindow = w]
<1>1. SessionOK(t) /\ t.state = s.state /\ t.sendWindow = w
  BY WithSendWindow DEF Genuine
<1>2. /\ t.side = s.side /\ t.sessionId = s.sessionId /\ t.out = s.out
      /\ t.callbackState = s.callbackState
  BY DEF Genuine, SessionOK, SessionObject
<1> HIDE DEF t
<1>3. Genuine(o, t) /\ Alike(s, t)
  BY <1>1, <1>2, StaysGenuine DEF Alike
<1> QED BY <1>1, <1>3 DEF t

\* And any receive window.
LEMMA ReceiveWindowGenuine ==
  ASSUME NEW o \in Sessions, NEW s, Genuine(o, s), NEW w, RecvOK(w)
  PROVE  LET t == [s EXCEPT !.receiveWindow = w]
         IN  Genuine(o, t) /\ Alike(s, t) /\ t.state = s.state
<1> DEFINE t == [s EXCEPT !.receiveWindow = w]
<1>1. SessionOK(t) /\ t.state = s.state
  BY WithReceiveWindow DEF Genuine
<1>2. /\ t.side = s.side /\ t.sessionId = s.sessionId /\ t.out = s.out
      /\ t.sendWindow = s.sendWindow /\ t.callbackState = s.callbackState
  BY DEF Genuine, SessionOK, SessionObject
<1> HIDE DEF t
<1>3. Genuine(o, t) /\ Alike(s, t)
  BY <1>1, <1>2, StaysGenuine DEF Alike
<1> QED BY <1>1, <1>3 DEF t

\* What is handed to the transport are own packets; an unwritten slot is
\* never sent.
LEMMA ForwardGenuine ==
  ASSUME NEW o \in Sessions, NEW s, Genuine(o, s), NEW packets,
         packets \subseteq OwnPacket(o) \cup {Unwritten}
  PROVE  LET t == Forward(s, packets)
         IN  Genuine(o, t) /\ Alike(s, t) /\ t.state = s.state
<1> DEFINE t == Forward(s, packets)
           size == s.receiveWindow.currentAvailableSize
           new == {MakeDatagram(p, Opposite(s.side), size) :
                      p \in packets \ {Unwritten}}
<1>1. Unwritten \in Packet
  BY MakePacketType DEF Unwritten, SessionMessage, SessionId
<1>2. SessionOK(t) /\ t.state = s.state /\ t.sendWindow = s.sendWindow
      /\ t.sessionId = s.sessionId
  <2>1. packets \subseteq Packet
    BY <1>1 DEF OwnPacket
  <2> QED BY <2>1, ForwardOK DEF Genuine
<1>3. new \subseteq OwnDatagram(o)
  <2>1. size \in Nat /\ Opposite(s.side) \in Side
    BY RecvOKFields DEF Genuine, SessionOK, Opposite, Side
  <2>2. packets \ {Unwritten} \subseteq OwnPacket(o) /\ OwnPacket(o) \subseteq Packet
    BY DEF OwnPacket
  <2> QED BY <2>1, <2>2 DEF OwnDatagram, MakeDatagram, Datagram, Genuine
<1>4. t = [s EXCEPT !.out = s.out \cup new]
  BY DEF Forward
<1> HIDE DEF new
<1>5. /\ t.side = s.side /\ t.callbackState = s.callbackState
      /\ t.out = s.out \cup new
  BY <1>4 DEF Genuine, SessionOK, SessionObject
<1> HIDE DEF t
<1>6. Genuine(o, t) /\ Alike(s, t)
  BY <1>2, <1>3, <1>5 DEF Genuine, Alike
<1> QED BY <1>2, <1>6 DEF t

\* An Ack carries the id of its session.
LEMMA SendAckMessageGenuine ==
  ASSUME NEW o \in Sessions, NEW s, Genuine(o, s)
  PROVE  LET t == SendAckMessage(s)
         IN  Genuine(o, t) /\ Alike(s, t) /\ t.state = s.state
<1> DEFINE a == [s EXCEPT !.receiveWindow = NoteAck(s.receiveWindow)]
           seq == s.receiveWindow.nextExpectedSequence - 1
           packet == MakePacket("Ack", a.sessionId, seq, 0, NoSession)
           t == SendAckMessage(s)
<1>1. RecvOK(NoteAck(s.receiveWindow))
  BY NoteAckOK DEF Genuine, SessionOK
<1>2. Genuine(o, a) /\ Alike(s, a) /\ a.state = s.state
  BY <1>1, ReceiveWindowGenuine
<1>3. seq \in Nat
  BY RecvOKFields DEF Genuine, SessionOK
<1> HIDE DEF a, seq
<1>4. packet \in OwnPacket(o)
  <2>1. a.sessionId \in SessionId /\ NoSession \in SessionId
    BY <1>2 DEF Genuine, SessionOK, SessionObject, SessionId
  <2>2. packet \in Packet
    BY <1>3, <2>1, MakePacketType DEF SessionMessage
  <2>3. packet.messageId = "Ack" /\ packet.sessionId = a.sessionId
    BY DEF MakePacket
  <2>4. o # Client => a.sessionId = o
    BY <1>2 DEF Genuine, OwnId
  <2> QED BY <2>2, <2>3, <2>4 DEF OwnPacket, IsOwn
<1>5. t = Forward(a, {packet})
  BY DEF SendAckMessage, SendControlMessage, a, seq
<1> HIDE DEF packet, t
<1>6. Genuine(o, t) /\ Alike(a, t) /\ t.state = a.state
  BY <1>2, <1>4, <1>5, ForwardGenuine
<1> QED BY <1>2, <1>6 DEF t, Alike

\* A retransmission sends what is in the slots.
LEMMA ForwardSlotsGenuine ==
  ASSUME NEW o \in Sessions, NEW s, Genuine(o, s), NEW seqs, seqs \subseteq Nat
  PROVE  LET t == ForwardSlots(s, seqs)
         IN  Genuine(o, t) /\ Alike(s, t) /\ t.state = s.state
<1>1. {s.sendWindow.messages[SlotOf(seq)] : seq \in seqs}
         \subseteq OwnPacket(o) \cup {Unwritten}
  BY SlotOfType DEF Genuine
<1> QED BY <1>1, ForwardGenuine DEF ForwardSlots

\* MarkMessagesAsAcknowledged frees slots or retransmits one.
LEMMA MarkMessagesAsAcknowledgedGenuine ==
  ASSUME NEW o \in Sessions, NEW s, Genuine(o, s), NEW max \in Nat
  PROVE  LET t == MarkMessagesAsAcknowledged(s, max)
         IN  Genuine(o, t) /\ Alike(s, t) /\ t.state = s.state
<1> DEFINE w == s.sendWindow
           end == AckedUpTo(w, max)
           f == FreeSlots(w, end)
           k == CountDuplicateAck(w)
           c == [s EXCEPT !.sendWindow = k]
           t == MarkMessagesAsAcknowledged(s, max)
<1>1. SendOK(w) /\ w \in SendWindow
  BY DEF Genuine, SessionOK, SendOK
<1>2. CASE w.nextUnacknowledgedSequence < end
  <2>1. t = [s EXCEPT !.sendWindow = f]
    BY <1>2 DEF MarkMessagesAsAcknowledged
  <2>2. f.messages = w.messages
    BY <1>1 DEF FreeSlots, SendWindow
  <2>3. SessionOK(t) /\ t.state = s.state
    BY MarkMessagesAsAcknowledgedOK DEF Genuine
  <2> HIDE DEF t, f, end
  <2>4. /\ t.side = s.side /\ t.sessionId = s.sessionId /\ t.out = s.out
        /\ t.sendWindow = f /\ t.callbackState = s.callbackState
    BY <2>1 DEF Genuine, SessionOK, SessionObject
  <2>5. Genuine(o, t) /\ Alike(s, t)
    BY <2>2, <2>3, <2>4, StaysGenuine DEF Alike
  <2> QED BY <2>3, <2>5 DEF t
<1>3. CASE ~(w.nextUnacknowledgedSequence < end)
  <2>1. SendOK(k) /\ k.messages = w.messages
    BY <1>1, CountDuplicateAckOK DEF CountDuplicateAck, SendWindow
  <2>2. t = FastRetransmit(c)
    BY <1>3 DEF MarkMessagesAsAcknowledged
  <2> HIDE DEF t, k
  <2>3. Genuine(o, c) /\ Alike(s, c) /\ c.state = s.state
    BY <2>1, SendWindowGenuine
  <2> HIDE DEF c
  <2>4. c.sendWindow.lastAckCount \in Nat
        /\ c.sendWindow.nextUnacknowledgedSequence \in Nat
    BY <2>3 DEF Genuine, SessionOK, SendOK, SendWindow
  <2>5. CASE c.sendWindow.lastAckCount >= kFastRetransmitThreshold
    <3>1. {FastRetransmitSequence(c.sendWindow)} \subseteq Nat
      BY <2>4, <2>5, WindowAssumption DEF FastRetransmitSequence
    <3>2. t = ForwardSlots(c, {FastRetransmitSequence(c.sendWindow)})
      BY <2>2, <2>5 DEF FastRetransmit
    <3>3. Genuine(o, t) /\ Alike(c, t) /\ t.state = c.state
      BY <2>3, <3>1, <3>2, ForwardSlotsGenuine
    <3> QED BY <2>3, <3>3 DEF t, Alike
  <2>6. CASE ~(c.sendWindow.lastAckCount >= kFastRetransmitThreshold)
    <3>1. t = c
      BY <2>2, <2>6 DEF FastRetransmit
    <3> QED BY <2>3, <3>1 DEF t
  <2> QED BY <2>5, <2>6
<1> QED BY <1>2, <1>3

\* WriteMessageIntoReceiveWindow sends an Ack at most.
LEMMA WriteMessageIntoReceiveWindowGenuine ==
  ASSUME NEW o \in Sessions, NEW s, Genuine(o, s), NEW packet \in Packet
  PROVE  LET t == WriteMessageIntoReceiveWindow(s, packet)
         IN  Genuine(o, t) /\ Alike(s, t) /\ t.state = s.state
<1> DEFINE w == s.receiveWindow
           t == WriteMessageIntoReceiveWindow(s, packet)
           stored == [s EXCEPT !.receiveWindow = StorePacket(w, packet)]
<1>1. CASE ~IsNew(w, packet)
  <2>1. t = SendAckMessage(s)
    BY <1>1 DEF WriteMessageIntoReceiveWindow
  <2> QED BY <2>1, SendAckMessageGenuine
<1>2. CASE IsNew(w, packet) /\ ~Fits(w, packet)
  <2>1. t = s
    BY <1>2 DEF WriteMessageIntoReceiveWindow
  <2> QED BY <2>1 DEF Alike
<1>3. CASE IsNew(w, packet) /\ Fits(w, packet)
  <2>1. RecvOK(StorePacket(w, packet))
    BY <1>3, StorePacketOK DEF Genuine, SessionOK
  <2>2. Genuine(o, stored) /\ Alike(s, stored) /\ stored.state = s.state
    BY <2>1, ReceiveWindowGenuine
  <2>3. t \in {SendAckMessage(stored), stored}
    BY <1>3 DEF WriteMessageIntoReceiveWindow
  <2> HIDE DEF t, stored
  <2>4. Genuine(o, t) /\ Alike(s, t) /\ t.state = s.state
    BY <2>2, <2>3, SendAckMessageGenuine DEF Alike
  <2> QED BY <2>4 DEF t
<1> QED BY <1>1, <1>2, <1>3

\* WriteMessageIntoSendWindow, called with an own packet.
LEMMA WriteMessageIntoSendWindowGenuine ==
  ASSUME NEW o \in Sessions, NEW s, Genuine(o, s), HasFreeSlot(s.sendWindow),
         NEW id \in SessionMessage, NEW payload \in Nat, NEW initial \in SessionId,
         \A seq : IsOwn(o, MakePacket(id, s.sessionId, seq, payload, initial))
  PROVE  LET t == WriteMessageIntoSendWindow(s, id, payload, initial)
         IN  Genuine(o, t) /\ Alike(s, t) /\ t.state = s.state
<1> DEFINE w == s.sendWindow
           packet == MakePacket(id, s.sessionId, w.nextSequence, payload, initial)
           v == WriteSlot(w, id, s.sessionId, payload, initial)
           t == WriteMessageIntoSendWindow(s, id, payload, initial)
<1>1. w \in SendWindow /\ w.nextSequence \in Nat /\ s.sessionId \in SessionId
  BY DEF Genuine, SessionOK, SessionObject, SendOK, SendWindow
<1>2. packet \in OwnPacket(o)
  BY <1>1, MakePacketType DEF OwnPacket
<1>3. v.messages = [w.messages EXCEPT ![SlotOf(w.nextSequence)] = packet]
  BY <1>1 DEF WriteSlot, SendWindow
<1>4. w.messages \in [Slot -> OwnPacket(o) \cup {Unwritten}]
  BY DEF Genuine
<1> HIDE DEF packet
<1>5. v.messages \in [Slot -> OwnPacket(o) \cup {Unwritten}]
  BY <1>2, <1>3, <1>4
<1>6. t = [s EXCEPT !.sendWindow = v]
  BY DEF WriteMessageIntoSendWindow
<1>7. SessionOK(t) /\ t.state = s.state
  BY WriteMessageIntoSendWindowOK DEF Genuine
<1> HIDE DEF v, t
<1>8. /\ t.side = s.side /\ t.sessionId = s.sessionId /\ t.out = s.out
      /\ t.sendWindow = v /\ t.callbackState = s.callbackState
  BY <1>6 DEF Genuine, SessionOK, SessionObject
<1>9. Genuine(o, t) /\ Alike(s, t)
  BY <1>5, <1>7, <1>8 DEF Genuine, Alike
<1> QED BY <1>7, <1>9 DEF t

\* A Data or Fin packet is an own packet of any session.
LEMMA DataIsOwn ==
  ASSUME NEW o \in Sessions, NEW s, Genuine(o, s), NEW id \in {"Data", "Fin"},
         NEW payload, NEW initial
  PROVE  \A seq : IsOwn(o, MakePacket(id, s.sessionId, seq, payload, initial))
<1>1. o # Client => s.sessionId = o
  BY DEF Genuine, OwnId
<1> QED BY <1>1 DEF IsOwn, MakePacket

\* The advertised window does not matter to the packets.
LEMMA TakeWindowSizeGenuine ==
  ASSUME NEW o \in Sessions, NEW s, Genuine(o, s), NEW d \in Datagram
  PROVE  LET t == TakeWindowSize(s, d)
         IN  Genuine(o, t) /\ Alike(s, t) /\ t.state = s.state
<1> DEFINE w == UpdateSendWindowSize(s.sendWindow, d.windowSize)
<1>1. d.windowSize \in Nat /\ s.sendWindow \in SendWindow
  BY DEF Datagram, Genuine, SessionOK, SendOK
<1>2. SendOK(w) /\ w.messages = s.sendWindow.messages
  BY <1>1, UpdateSendWindowSizeOK
     DEF Genuine, SessionOK, UpdateSendWindowSize, SendWindow
<1>3. TakeWindowSize(s, d) = [s EXCEPT !.sendWindow = w]
  BY DEF TakeWindowSize
<1> HIDE DEF w
<1> QED BY <1>2, <1>3, SendWindowGenuine

----------------------------------------------------------------------------
\* How the state of a session goes on when no handshake message is
\* handled: it stays, it becomes Closed, or an established session is on
\* its way to the end.
Advances(s, t) ==
    \/ t.state \in {s.state, Closed}
    \/ s.state >= Established /\ t.state >= FinWait1

\* What was told the server, when the session is told to have ended.
Informed(s, t) ==
    /\ t.sessionId = s.sessionId
    /\ \/ t.callbackState = s.callbackState
       \/ t.state = Closed /\ t.callbackState = "TerminatedCalled"

\* Two advances make one.
LEMMA AdvancesOn ==
  ASSUME NEW s, NEW t, NEW u, Advances(s, t), Advances(t, u)
  PROVE  Advances(s, u)
  BY DEF Advances, Closed, Established, FinWait1

\* Shutdown only ever goes forward, and closes a session in the handshake.
LEMMA ShutdownGenuine ==
  ASSUME NEW o \in Sessions, NEW s, Genuine(o, s), NEW graceful \in BOOLEAN
  PROVE  LET t == Shutdown(s, graceful)
         IN  /\ Genuine(o, t) /\ Alike(s, t) /\ Advances(s, t)
             /\ s.state < Established \/ ~graceful => t.state = Closed
             /\ t.state # Established
<1> DEFINE c == SetState(s, Closed)
           f == SetState(s, FinWait1)
           t == Shutdown(s, graceful)
<1>1. Closed \in SessionState /\ FinWait1 \in SessionState /\ s.state \in SessionState
  BY DEF Closed, FinWait1, SessionState, Genuine, SessionOK, SessionObject
<1>2. Genuine(o, c) /\ Alike(s, c) /\ c.state = Closed
  BY <1>1, SetStateGenuine
<1>3. Genuine(o, f) /\ Alike(s, f) /\ f.state = FinWait1
  BY <1>1, SetStateGenuine
<1>4. t = IF ~graceful \/ s.state < Established THEN c
          ELSE IF s.state = Established THEN f ELSE s
  BY DEF Shutdown
<1> HIDE DEF c, f, t
<1>5. /\ Genuine(o, t) /\ Alike(s, t) /\ Advances(s, t)
      /\ s.state < Established \/ ~graceful => t.state = Closed
      /\ t.state # Established
  <2>1. CASE ~graceful \/ s.state < Established
    BY <1>2, <1>4, <2>1 DEF Advances, Closed, Established
  <2>2. CASE graceful /\ ~(s.state < Established) /\ s.state = Established
    BY <1>3, <1>4, <2>2 DEF Advances, FinWait1, Established
  <2>3. CASE graceful /\ ~(s.state < Established) /\ s.state # Established
    BY <1>4, <2>3 DEF Advances, Alike
  <2> QED BY <2>1, <2>2, <2>3
<1> QED BY <1>5 DEF t

\* A new object, connected or bound, is genuine.
LEMMA NewIsGenuine ==
  ASSUME NEW o \in Sessions, NEW sid \in OwnId(o)
  PROVE  LET t == [NewSession(SideOf(o)) EXCEPT !.sessionId = sid]
         IN  /\ Genuine(o, t) /\ t.callbackState = "None" /\ t.sessionId = sid
             /\ t.sendWindow = InitSendWindow
<1> DEFINE n == NewSession(SideOf(o))
           t == [n EXCEPT !.sessionId = sid]
<1>1. SideOf(o) \in Side /\ sid \in SessionId
  BY DEF SideOf, Side, OwnId, SessionId
<1>2. SessionOK(n) /\ n.sendWindow = InitSendWindow
  BY <1>1, NewSessionOK DEF Good
<1>3. SessionOK(t)
  BY <1>1, <1>2, WithSessionId
<1>4. n.side = SideOf(o) /\ n.callbackState = "None" /\ n.out = {}
  BY DEF NewSession
<1> HIDE DEF n
<1>5. /\ t.side = SideOf(o) /\ t.callbackState = "None" /\ t.out = {}
      /\ t.sessionId = sid /\ t.sendWindow = InitSendWindow
  BY <1>2, <1>4 DEF SessionOK, SessionObject
<1> HIDE DEF t
<1>6. InitSendWindow.messages \in [Slot -> OwnPacket(o) \cup {Unwritten}]
  BY DEF InitSendWindow
<1>7. Genuine(o, t)
  BY <1>3, <1>5, <1>6 DEF Genuine
<1> QED BY <1>5, <1>7 DEF t, n

\* Connect sends a Syn under the id of the client.
LEMMA ConnectGenuine ==
  LET t == Connect(NewSession(SideOf(Client)), Client)
  IN  Genuine(Client, t) /\ t.sessionId = Client /\ t.state = SynSent
<1> DEFINE a == [NewSession(SideOf(Client)) EXCEPT !.sessionId = Client]
           b == WriteMessageIntoSendWindow(a, "Syn", 0, NoSession)
           t == SetState(b, SynSent)
<1>1. Client \in Sessions /\ Client \in OwnId(Client)
  BY DEF Sessions, OwnId
<1>2. Genuine(Client, a) /\ a.sessionId = Client /\ a.sendWindow = InitSendWindow
  BY <1>1, NewIsGenuine
<1> HIDE DEF a
<1>3. HasFreeSlot(a.sendWindow)
  BY <1>2, WindowAssumption DEF HasFreeSlot, InitSendWindow
<1>4. "Syn" \in SessionMessage /\ NoSession \in SessionId /\ SynSent \in SessionState
  BY DEF SessionMessage, SessionId, SynSent, SessionState
<1>5. \A seq : IsOwn(Client, MakePacket("Syn", a.sessionId, seq, 0, NoSession))
  BY <1>2 DEF IsOwn, MakePacket
<1>6. Genuine(Client, b) /\ Alike(a, b)
  BY <1>1, <1>2, <1>3, <1>4, <1>5, WriteMessageIntoSendWindowGenuine
<1> HIDE DEF b
<1>7. Genuine(Client, t) /\ Alike(b, t) /\ t.state = SynSent
  BY <1>1, <1>4, <1>6, SetStateGenuine
<1> QED BY <1>2, <1>6, <1>7 DEF Connect, Alike, a, b

\* BindToServer gives a server object its id.
LEMMA BindToServerGenuine ==
  ASSUME NEW o \in Server
  PROVE  LET t == BindToServer(NewSession(SideOf(o)), o)
         IN  Genuine(o, t) /\ t.callbackState = "None" /\ t.state = Listening
<1> DEFINE a == [NewSession(SideOf(o)) EXCEPT !.sessionId = o]
           t == SetState(a, Listening)
<1>1. o \in Sessions /\ o \in OwnId(o)
  BY DEF Sessions, OwnId
<1>2. Genuine(o, a) /\ a.callbackState = "None"
  BY <1>1, NewIsGenuine
<1>3. Listening \in SessionState
  BY DEF Listening, SessionState
<1> HIDE DEF a
<1>4. Genuine(o, t) /\ Alike(a, t) /\ t.state = Listening
  BY <1>1, <1>2, <1>3, SetStateGenuine
<1> QED BY <1>2, <1>4 DEF BindToServer, Alike, a

----------------------------------------------------------------------------
\* The message handlers.

\* HandleSynMessage, called with the Syn of the client: the SynAck names
\* the id of the client.
LEMMA HandleSynMessageGenuine ==
  ASSUME NEW o \in Server, NEW s, Genuine(o, s), s.receiveWindow = InitReadWindow,
         NEW d \in Datagram, d.packet.sessionId = Client
  PROVE  LET t == HandleSynMessage(s, d)
         IN  Genuine(o, t) /\ Alike(s, t) /\ t.state \in {SynReceived, Closed}
<1> DEFINE t == HandleSynMessage(s, d)
<1>1. /\ o \in Sessions /\ o # Client
      /\ d.packet.sequence \in Nat /\ d.packet.sessionId \in SessionId
      /\ "SynAck" \in SessionMessage /\ SynReceived \in SessionState
  BY ObjectAssumption
     DEF Sessions, Datagram, Packet, SessionMessage, SynReceived, SessionState
<1>2. CASE CanWriteMessage(s)
  <2> DEFINE a == WriteMessageIntoSendWindow(s, "SynAck", d.packet.sequence,
                                             d.packet.sessionId)
             b == SetState(a, SynReceived)
             w == StartAfter(b.receiveWindow, d.packet.sequence)
  <2>1. \A seq : IsOwn(o, MakePacket("SynAck", s.sessionId, seq,
                                     d.packet.sequence, d.packet.sessionId))
    BY <1>1 DEF IsOwn, MakePacket, Genuine, OwnId
  <2>2. Genuine(o, a) /\ Alike(s, a)
    BY <1>1, <1>2, <2>1, WriteMessageIntoSendWindowGenuine DEF CanWriteMessage
  <2>3. t = [b EXCEPT !.receiveWindow = w]
    BY <1>2 DEF HandleSynMessage
  <2>4. SessionOK(t)
    BY HandleSynMessageOK DEF Genuine, Good
  <2> HIDE DEF a, t
  <2>5. Genuine(o, b) /\ Alike(a, b) /\ b.state = SynReceived
    BY <1>1, <2>2, SetStateGenuine
  <2> HIDE DEF b, w
  <2>6. /\ t.side = b.side /\ t.sessionId = b.sessionId /\ t.out = b.out
        /\ t.sendWindow = b.sendWindow /\ t.callbackState = b.callbackState
        /\ t.state = b.state
    BY <2>3, <2>5 DEF Genuine, SessionOK, SessionObject
  <2>7. Genuine(o, t)
    BY <1>1, <2>4, <2>5, <2>6, StaysGenuine
  <2> QED BY <2>2, <2>5, <2>6, <2>7 DEF Alike, t
<1>3. CASE ~CanWriteMessage(s)
  <2>1. t = Shutdown(s, FALSE)
    BY <1>3 DEF HandleSynMessage
  <2> QED BY <1>1, <2>1, ShutdownGenuine
<1> QED BY <1>2, <1>3

\* The whole of HandleMessage for a Syn: nothing is established yet.
LEMMA HandleSynGenuine ==
  ASSUME NEW o \in Server, NEW s, Genuine(o, s), s.receiveWindow = InitReadWindow,
         NEW d \in Datagram, d.packet.messageId = "Syn", d.packet.sessionId = Client
  PROVE  LET t == HandleMessage(s, d)
         IN  Genuine(o, t) /\ Alike(s, t) /\ t.state \in {SynReceived, Closed}
<1> DEFINE next == HandleSynMessage(s, d)
<1>1. Dispatch(s, d) = next
  BY DEF Dispatch
<1>2. Genuine(o, next) /\ Alike(s, next) /\ next.state \in {SynReceived, Closed}
  BY HandleSynMessageGenuine
<1> HIDE DEF next
<1>3. next.state # Established
  BY <1>2 DEF SynReceived, Closed, Established
<1>4. HandleMessage(s, d) = next
  BY <1>1, <1>3 DEF HandleMessage
<1> QED BY <1>2, <1>4

\* A Fin that arrives in Closing or FinWait2 at most closes the session.
LEMMA HandleLaterFinMessageGenuine ==
  ASSUME NEW o \in Sessions, NEW s, Genuine(o, s), NEW d \in Datagram
  PROVE  LET t == HandleLaterFinMessage(s, d)
         IN  Genuine(o, t) /\ Alike(s, t) /\ Advances(s, t)
<1> DEFINE a == WriteMessageIntoReceiveWindow(s, d.packet)
           b == SendAckMessage(a)
           c == SetState(b, Closed)
           next == IF s.state = FinWait2 THEN c ELSE s
           t == TakeWindowSize(next, d)
<1>1. d.packet \in Packet /\ Closed \in SessionState
  BY DEF Datagram, Closed, SessionState
<1>2. Genuine(o, a) /\ Alike(s, a)
  BY <1>1, WriteMessageIntoReceiveWindowGenuine
<1> HIDE DEF a
<1>3. Genuine(o, b) /\ Alike(a, b)
  BY <1>2, SendAckMessageGenuine
<1> HIDE DEF b
<1>4. Genuine(o, c) /\ Alike(b, c) /\ c.state = Closed
  BY <1>1, <1>3, SetStateGenuine
<1> HIDE DEF c
<1>5. Genuine(o, next) /\ Alike(s, next) /\ Advances(s, next)
  BY <1>2, <1>3, <1>4 DEF Alike, Advances
<1> HIDE DEF next
<1>6. Genuine(o, t) /\ Alike(next, t) /\ t.state = next.state
  BY <1>5, TakeWindowSizeGenuine
<1> HIDE DEF t
<1>7. Genuine(o, t) /\ Alike(s, t) /\ Advances(s, t)
  BY <1>5, <1>6 DEF Alike, Advances
<1> QED BY <1>7 DEF HandleLaterFinMessage, t, next, c, b, a

\* Data does not change the state.
LEMMA HandleDataMessageGenuine ==
  ASSUME NEW o \in Sessions, NEW s, Genuine(o, s), NEW d \in Datagram
  PROVE  LET t == HandleDataMessage(s, d)
         IN  Genuine(o, t) /\ Alike(s, t) /\ t.state = s.state
<1> DEFINE a == WriteMessageIntoReceiveWindow(s, d.packet)
           next == IF s.state \in {FinWait1, FinWait2, Established} THEN a ELSE s
           t == TakeWindowSize(next, d)
<1>1. d.packet \in Packet
  BY DEF Datagram
<1>2. Genuine(o, a) /\ Alike(s, a) /\ a.state = s.state
  BY <1>1, WriteMessageIntoReceiveWindowGenuine
<1> HIDE DEF a
<1>3. Genuine(o, next) /\ Alike(s, next) /\ next.state = s.state
  BY <1>2 DEF Alike
<1> HIDE DEF next
<1>4. Genuine(o, t) /\ Alike(next, t) /\ t.state = next.state
  BY <1>3, TakeWindowSizeGenuine
<1> HIDE DEF t
<1>5. Genuine(o, t) /\ Alike(s, t) /\ t.state = s.state
  BY <1>3, <1>4 DEF Alike
<1> QED BY <1>5 DEF HandleDataMessage, t, next, a

\* An Ack establishes a session in SynReceived and no other.
LEMMA HandleAckMessageGenuine ==
  ASSUME NEW o \in Sessions, NEW s, Genuine(o, s), NEW d \in Datagram
  PROVE  LET t == HandleAckMessage(s, d)
         IN  /\ Genuine(o, t) /\ Alike(s, t)
             /\ t.state = IF s.state = SynReceived THEN Established ELSE s.state
<1> DEFINE e == SetState(s, Established)
           opened == IF s.state = SynReceived THEN e ELSE s
           m == MarkMessagesAsAcknowledged(opened, d.packet.sequence)
           next == IF opened.state >= Established THEN m ELSE s
           t == TakeWindowSize(next, d)
<1>1. d.packet.sequence \in Nat /\ Established \in SessionState
  BY DEF Datagram, Packet, Established, SessionState
<1>2. Genuine(o, e) /\ Alike(s, e) /\ e.state = Established
  BY <1>1, SetStateGenuine
<1> HIDE DEF e
<1>3. /\ Genuine(o, opened) /\ Alike(s, opened)
      /\ opened.state = IF s.state = SynReceived THEN Established ELSE s.state
      /\ s.state = SynReceived => opened.state >= Established
  BY <1>2 DEF Alike, Established
<1> HIDE DEF opened
<1>4. Genuine(o, m) /\ Alike(opened, m) /\ m.state = opened.state
  BY <1>1, <1>3, MarkMessagesAsAcknowledgedGenuine
<1> HIDE DEF m
<1>5. /\ Genuine(o, next) /\ Alike(s, next)
      /\ next.state = IF s.state = SynReceived THEN Established ELSE s.state
  BY <1>3, <1>4 DEF Alike
<1> HIDE DEF next
<1>6. Genuine(o, t) /\ Alike(next, t) /\ t.state = next.state
  BY <1>5, TakeWindowSizeGenuine
<1> HIDE DEF t
<1>7. /\ Genuine(o, t) /\ Alike(s, t)
      /\ t.state = IF s.state = SynReceived THEN Established ELSE s.state
  BY <1>5, <1>6 DEF Alike
<1> QED BY <1>7 DEF HandleAckMessage, t, next, m, opened, e

\* A Rst closes the session.
LEMMA HandleRstMessageGenuine ==
  ASSUME NEW o \in Sessions, NEW s, Genuine(o, s), NEW d \in Datagram
  PROVE  LET t == HandleRstMessage(s, d)
         IN  Genuine(o, t) /\ Alike(s, t) /\ t.state = Closed
<1> DEFINE next == Shutdown(s, FALSE)
           t == TakeWindowSize(next, d)
<1>1. Genuine(o, next) /\ Alike(s, next) /\ next.state = Closed
  BY ShutdownGenuine
<1> HIDE DEF next
<1>2. Genuine(o, t) /\ Alike(next, t) /\ t.state = next.state
  BY <1>1, TakeWindowSizeGenuine
<1> HIDE DEF t
<1>3. Genuine(o, t) /\ Alike(s, t) /\ t.state = Closed
  BY <1>1, <1>2 DEF Alike
<1> QED BY <1>3 DEF HandleRstMessage, t, next

\* A SynAck gives the client its final id, in SynSent only.
LEMMA HandleSynAckMessageGenuine ==
  ASSUME NEW s, Genuine(Client, s), Good(s), NEW d \in Datagram,
         d.packet.sessionId \in Server
  PROVE  LET t == HandleSynAckMessage(s, d)
         IN  /\ Genuine(Client, t)
             /\ IF s.state = SynSent
                THEN t.sessionId = d.packet.sessionId /\ t.state = Established
                ELSE t.sessionId = s.sessionId /\ t.state = s.state
<1> DEFINE marked == MarkMessagesAsAcknowledged(s, d.packet.payload)
           b == SetState(marked, Established)
           opened == [b EXCEPT !.sessionId     = d.packet.sessionId,
                               !.receiveWindow = StartAfter(b.receiveWindow,
                                                            d.packet.sequence)]
           again == MarkMessagesAsAcknowledged(s, d.packet.sequence)
           next == IF s.state = SynSent THEN SendAckMessage(opened)
                   ELSE IF s.state >= Established THEN again ELSE s
           t == TakeWindowSize(next, d)
<1>1. /\ d.packet.sequence \in Nat /\ d.packet.payload \in Nat
      /\ d.packet.sessionId \in OwnId(Client) /\ Established \in SessionState
      /\ d.packet.sessionId \in SessionId /\ Client \in Sessions
  BY DEF Datagram, Packet, Established, SessionState, OwnId, Sessions, SessionId
<1>2. /\ Genuine(Client, next)
      /\ IF s.state = SynSent
         THEN next.sessionId = d.packet.sessionId /\ next.state = Established
         ELSE next.sessionId = s.sessionId /\ next.state = s.state
  <2>1. CASE s.state = SynSent
    <3>1. Genuine(Client, marked) /\ marked.receiveWindow = InitReadWindow
      BY <1>1, <2>1, MarkMessagesAsAcknowledgedGenuine,
         MarkMessagesAsAcknowledgedOK DEF Good, Fresh
    <3> HIDE DEF marked
    <3>2. Genuine(Client, b) /\ b.receiveWindow = InitReadWindow
          /\ b.state = Established
      BY <1>1, <3>1, SetStateGenuine, SetStateOK DEF Genuine
    <3> HIDE DEF b
    <3> DEFINE w == StartAfter(InitReadWindow, d.packet.sequence)
    <3>3. RecvOK(w)
      BY <1>1, StartAfterOK
    <3> HIDE DEF w
    <3>4. opened = [b EXCEPT !.sessionId = d.packet.sessionId,
                             !.receiveWindow = w]
      BY <3>2 DEF w
    <3> HIDE DEF opened
    <3>5. /\ opened \in SessionObject /\ opened.sendWindow = b.sendWindow
          /\ opened.receiveWindow = w /\ opened.state = Established
          /\ opened.side = b.side /\ opened.out = b.out
          /\ opened.sessionId = d.packet.sessionId
      BY <1>1, <3>2, <3>3, <3>4 DEF Genuine, SessionOK, RecvOK, SessionObject
    <3>6. Genuine(Client, opened)
      BY <1>1, <3>2, <3>3, <3>5 DEF Genuine, SessionOK
    <3>7. /\ Genuine(Client, SendAckMessage(opened))
          /\ Alike(opened, SendAckMessage(opened))
          /\ SendAckMessage(opened).state = Established
      BY <1>1, <3>5, <3>6, SendAckMessageGenuine
    <3>8. next = SendAckMessage(opened)
      BY <2>1
    <3> HIDE DEF next
    <3> QED BY <2>1, <3>5, <3>7, <3>8 DEF Alike
  <2>2. CASE s.state # SynSent
    <3>1. Genuine(Client, again) /\ Alike(s, again) /\ again.state = s.state
      BY <1>1, MarkMessagesAsAcknowledgedGenuine
    <3>2. next \in {s, again}
      BY <2>2
    <3> HIDE DEF next, again
    <3> QED BY <2>2, <3>1, <3>2 DEF Alike
  <2> QED BY <2>1, <2>2
<1> HIDE DEF next
<1>3. Genuine(Client, t) /\ Alike(next, t) /\ t.state = next.state
  BY <1>1, <1>2, TakeWindowSizeGenuine
<1> HIDE DEF t
<1>4. /\ Genuine(Client, t)
      /\ IF s.state = SynSent
         THEN t.sessionId = d.packet.sessionId /\ t.state = Established
         ELSE t.sessionId = s.sessionId /\ t.state = s.state
  BY <1>2, <1>3 DEF Alike
<1>5. HandleSynAckMessage(s, d) = t
  BY DEF HandleSynAckMessage, t, next
<1> QED BY <1>4, <1>5

\* The end of HandleMessage: the server is told of a session that became
\* established, the client object signals its connection event.
LEMMA NotifyGenuine ==
  ASSUME NEW o \in Sessions, NEW s, Genuine(o, s), NEW d,
         Genuine(o, Dispatch(s, d))
  PROVE  LET t == HandleMessage(s, d)
             next == Dispatch(s, d)
         IN  /\ Genuine(o, t)
             /\ t.sessionId = next.sessionId /\ t.state = next.state
             /\ o \in Server =>
                    t.callbackState = IF s.state # next.state
                                         /\ next.state = Established
                                      THEN "EstablishedCalled"
                                      ELSE next.callbackState
<1> DEFINE next == Dispatch(s, d)
           a == [next EXCEPT !.connectionEvent = TRUE]
           b == [next EXCEPT !.callbackState = "EstablishedCalled"]
           t == HandleMessage(s, d)
<1>1. t = IF s.state = next.state \/ next.state # Established THEN next
          ELSE IF s.side = "client" THEN a ELSE b
  BY DEF HandleMessage
<1>2. s.side = SideOf(o) /\ Genuine(o, next)
  BY DEF Genuine
<1> HIDE DEF next, t
<1>3. /\ Genuine(o, a) /\ a.sessionId = next.sessionId /\ a.state = next.state
  <2>1. SessionOK(a) /\ a.state = next.state
    BY <1>2, WithConnectionEvent DEF Genuine
  <2>2. /\ a.side = next.side /\ a.sessionId = next.sessionId
        /\ a.out = next.out /\ a.sendWindow = next.sendWindow
    BY <1>2 DEF Genuine, SessionOK, SessionObject
  <2> HIDE DEF a
  <2> QED BY <1>2, <2>1, <2>2, StaysGenuine
<1>4. /\ Genuine(o, b) /\ b.sessionId = next.sessionId /\ b.state = next.state
      /\ b.callbackState = "EstablishedCalled"
  <2>1. SessionOK(b) /\ b.state = next.state
    BY <1>2, WithCallbackState DEF Genuine, SessionCallbackState
  <2>2. /\ b.side = next.side /\ b.sessionId = next.sessionId
        /\ b.out = next.out /\ b.sendWindow = next.sendWindow
        /\ b.callbackState = "EstablishedCalled"
    BY <1>2 DEF Genuine, SessionOK, SessionObject
  <2> HIDE DEF b
  <2> QED BY <1>2, <2>1, <2>2, StaysGenuine
<1> HIDE DEF a, b
<1>5. o \in Server => SideOf(o) # "client"
  BY ObjectAssumption DEF SideOf
<1>6. /\ Genuine(o, t)
      /\ t.sessionId = next.sessionId /\ t.state = next.state
      /\ o \in Server =>
             t.callbackState = IF s.state # next.state /\ next.state = Established
                               THEN "EstablishedCalled" ELSE next.callbackState
  BY <1>1, <1>2, <1>3, <1>4, <1>5
<1> QED BY <1>6 DEF next, t

\* HandleMessage of a SynAck.
LEMMA HandleSynAckGenuine ==
  ASSUME NEW s, Genuine(Client, s), Good(s), NEW d \in Datagram,
         d.packet.messageId = "SynAck", d.packet.sessionId \in Server
  PROVE  LET t == HandleMessage(s, d)
         IN  /\ Genuine(Client, t)
             /\ IF s.state = SynSent
                THEN t.sessionId = d.packet.sessionId /\ t.state = Established
                ELSE t.sessionId = s.sessionId /\ t.state = s.state
<1>1. Dispatch(s, d) = HandleSynAckMessage(s, d)
  BY DEF Dispatch
<1>2. Client \in Sessions
  BY DEF Sessions
<1> QED BY <1>1, <1>2, HandleSynAckMessageGenuine, NotifyGenuine

\* HandleMessage of any message after the handshake.
LEMMA HandleMessageGenuine ==
  ASSUME NEW o \in Sessions, NEW s, Genuine(o, s), NEW d \in Datagram,
         d.packet.messageId \in {"Fin", "Data", "Ack", "Rst"}
  PROVE  LET t == HandleMessage(s, d)
         IN  /\ Genuine(o, t) /\ t.sessionId = s.sessionId
             /\ \/ /\ Advances(s, t)
                   /\ o \in Server => t.callbackState = s.callbackState
                \/ /\ s.state = SynReceived /\ t.state = Established
                   /\ o \in Server => t.callbackState = "EstablishedCalled"
<1> DEFINE next == Dispatch(s, d)
           t == HandleMessage(s, d)
<1>1. /\ Genuine(o, next) /\ Alike(s, next)
      /\ \/ Advances(s, next)
         \/ s.state = SynReceived /\ next.state = Established
  <2>1. CASE d.packet.messageId = "Fin"
    BY <2>1, HandleLaterFinMessageGenuine DEF Dispatch
  <2>2. CASE d.packet.messageId = "Data"
    BY <2>2, HandleDataMessageGenuine DEF Dispatch, Advances
  <2>3. CASE d.packet.messageId = "Ack"
    BY <2>3, HandleAckMessageGenuine DEF Dispatch, Advances
  <2>4. CASE d.packet.messageId = "Rst"
    BY <2>4, HandleRstMessageGenuine DEF Dispatch, Advances
  <2> QED BY <2>1, <2>2, <2>3, <2>4
<1>2. /\ Genuine(o, t)
      /\ t.sessionId = next.sessionId /\ t.state = next.state
      /\ o \in Server =>
             t.callbackState = IF s.state # next.state /\ next.state = Established
                               THEN "EstablishedCalled" ELSE next.callbackState
  BY <1>1, NotifyGenuine
<1> HIDE DEF next, t
<1>3. CASE Advances(s, next)
  <2>1. next.state = Established => s.state = next.state
    BY <1>3 DEF Advances, Closed, Established, FinWait1
  <2> QED BY <1>1, <1>2, <1>3, <2>1 DEF Alike, Advances, t
<1>4. CASE s.state = SynReceived /\ next.state = Established
  <2>1. s.state # next.state
    BY <1>4 DEF SynReceived, Established
  <2> QED BY <1>1, <1>2, <1>4, <2>1 DEF Alike, t
<1> QED BY <1>1, <1>3, <1>4

----------------------------------------------------------------------------
\* Update, Send, Receive, and the end of a protocol server.

\* UpdateReceiveWindow acknowledges what is pending.
LEMMA UpdateReceiveWindowGenuine ==
  ASSUME NEW o \in Sessions, NEW s, Genuine(o, s)
  PROVE  LET t == UpdateReceiveWindow(s)
         IN  Genuine(o, t) /\ Alike(s, t) /\ t.state = s.state
<1>1. UpdateReceiveWindow(s) \in {s, SendAckMessage(s)}
  BY DEF UpdateReceiveWindow
<1> QED BY <1>1, SendAckMessageGenuine DEF Alike

\* UpdateSendWindow gives the session up, or sends packets of its window.
LEMMA RetransmitOrShutdownGenuine ==
  ASSUME NEW o \in Sessions, NEW s, Genuine(o, s), NEW late \in Nat
  PROVE  LET t == RetransmitOrShutdown(s, late)
         IN  Genuine(o, t) /\ Alike(s, t) /\ Advances(s, t)
<1> DEFINE w == s.sendWindow
           a == Shutdown(s, FALSE)
           b == ForwardSlots(s, Retransmitted(w, late))
           v == CountRetransmit(b.sendWindow, late)
           c == [b EXCEPT !.sendWindow = v]
           t == RetransmitOrShutdown(s, late)
<1>1. t \in {s, a, c}
  BY DEF RetransmitOrShutdown
<1>2. Genuine(o, a) /\ Alike(s, a) /\ Advances(s, a)
  BY ShutdownGenuine
<1>3. Genuine(o, c) /\ Alike(s, c) /\ c.state = s.state
  <2>1. w.nextUnacknowledgedSequence \in Nat
    BY DEF Genuine, SessionOK, SendOK, SendWindow
  <2>2. Retransmitted(w, late) \subseteq Nat
    BY <2>1 DEF Retransmitted
  <2>3. Genuine(o, b) /\ Alike(s, b) /\ b.state = s.state
    BY <2>2, ForwardSlotsGenuine
  <2> HIDE DEF b
  <2>4. SendOK(v) /\ v.messages = b.sendWindow.messages
    BY <2>3, CountRetransmitOK
       DEF Genuine, SessionOK, SendOK, SendWindow, CountRetransmit
  <2> HIDE DEF v
  <2>5. Genuine(o, c) /\ Alike(b, c) /\ c.state = b.state
    BY <2>3, <2>4, SendWindowGenuine
  <2> HIDE DEF c
  <2> QED BY <2>3, <2>5 DEF Alike
<1> HIDE DEF a, c, t
<1>4. Genuine(o, t) /\ Alike(s, t) /\ Advances(s, t)
  BY <1>1, <1>2, <1>3 DEF Alike, Advances
<1> QED BY <1>4 DEF t

\* The transmission of what was not sent yet.
LEMMA TransmitUnsentGenuine ==
  ASSUME NEW o \in Sessions, NEW s, Genuine(o, s), NEW room \in Nat
  PROVE  LET t == TransmitUnsent(s, room)
         IN  Genuine(o, t) /\ Alike(s, t) /\ t.state = s.state
<1> DEFINE b == ForwardSlots(s, Transmitted(s.sendWindow, room))
           v == Transmit(b.sendWindow, room)
           c == [b EXCEPT !.sendWindow = v]
<1>1. TransmitUnsent(s, room) = c
  BY DEF TransmitUnsent
<1>2. Transmitted(s.sendWindow, room) \subseteq Nat
  BY TransmitOK DEF Genuine, SessionOK
<1>3. Genuine(o, b) /\ Alike(s, b) /\ b.state = s.state
  BY <1>2, ForwardSlotsGenuine
<1> HIDE DEF b
<1>4. SendOK(v) /\ v.messages = b.sendWindow.messages
  BY <1>3, TransmitOK DEF Genuine, SessionOK, SendOK, SendWindow, Transmit
<1> HIDE DEF v
<1>5. Genuine(o, c) /\ Alike(b, c) /\ c.state = b.state
  BY <1>3, <1>4, SendWindowGenuine
<1> HIDE DEF c
<1> QED BY <1>1, <1>3, <1>5 DEF Alike

\* UpdateTimeout writes the Fin in FinWait1, and closes the session.
LEMMA UpdateTimeoutGenuine ==
  ASSUME NEW o \in Sessions, NEW s, Genuine(o, s)
  PROVE  LET t == UpdateTimeout(s)
         IN  Genuine(o, t) /\ Alike(s, t) /\ Advances(s, t)
<1> DEFINE a == WriteMessageIntoSendWindow(s, "Fin", 0, NoSession)
           b == SetState(a, FinWait2)
           f == WriteFin(s)
           c == SetState(f, Closed)
           t == UpdateTimeout(s)
<1>1. /\ "Fin" \in SessionMessage /\ NoSession \in SessionId
      /\ FinWait2 \in SessionState /\ Closed \in SessionState
  BY DEF SessionMessage, SessionId, FinWait2, Closed, SessionState
<1>2. Genuine(o, f) /\ Alike(s, f) /\ Advances(s, f)
  <2>1. CASE s.state = FinWait1 /\ CanWriteMessage(s)
    <3>1. \A seq : IsOwn(o, MakePacket("Fin", s.sessionId, seq, 0, NoSession))
      BY DataIsOwn
    <3>2. Genuine(o, a) /\ Alike(s, a)
      BY <1>1, <2>1, <3>1, WriteMessageIntoSendWindowGenuine DEF CanWriteMessage
    <3> HIDE DEF a
    <3>3. Genuine(o, b) /\ Alike(a, b) /\ b.state = FinWait2
      BY <1>1, <3>2, SetStateGenuine
    <3>4. f = b
      BY <2>1 DEF WriteFin, a
    <3> HIDE DEF b, f
    <3> QED BY <2>1, <3>2, <3>3, <3>4
            DEF Alike, Advances, FinWait1, FinWait2, Established
  <2>2. CASE ~(s.state = FinWait1 /\ CanWriteMessage(s))
    BY <2>2 DEF WriteFin, Alike, Advances
  <2> QED BY <2>1, <2>2
<1>3. t \in {f, c}
  BY DEF UpdateTimeout, CloseIfDone
<1> HIDE DEF f, t
<1>4. Genuine(o, c) /\ Alike(f, c) /\ c.state = Closed
  BY <1>1, <1>2, SetStateGenuine
<1> HIDE DEF c
<1>5. Genuine(o, t) /\ Alike(s, t) /\ Advances(s, t)
  BY <1>2, <1>3, <1>4 DEF Alike, Advances
<1> QED BY <1>5 DEF t

\* Update after the last reference to a client session is gone.
LEMMA ShutdownIfLastReferenceGenuine ==
  ASSUME NEW o \in Sessions, NEW s, Genuine(o, s), NEW last \in BOOLEAN
  PROVE  LET t == ShutdownIfLastReference(s, last)
         IN  Genuine(o, t) /\ Alike(s, t) /\ Advances(s, t)
<1>1. ShutdownIfLastReference(s, last) \in {s, Shutdown(s, TRUE)}
  BY DEF ShutdownIfLastReference
<1>2. Alike(s, s) /\ Advances(s, s)
  BY DEF Alike, Advances
<1> QED BY <1>1, <1>2, ShutdownGenuine

\* The server of a session that called SessionEstablished is told its end.
LEMMA NotifyClosedGenuine ==
  ASSUME NEW o \in Sessions, NEW s, Genuine(o, s)
  PROVE  LET t == NotifyClosed(s)
         IN  Genuine(o, t) /\ Informed(s, t) /\ t.state = s.state
<1> DEFINE cb == IF s.side = "server" /\ s.callbackState = "EstablishedCalled"
                 THEN "TerminatedCalled" ELSE s.callbackState
           a == [s EXCEPT !.disconnectionEvent = TRUE, !.callbackState = cb]
           t == NotifyClosed(s)
<1>1. s \in SessionObject /\ cb \in SessionCallbackState
  BY DEF Genuine, SessionOK, SessionObject, SessionCallbackState
<1>2. cb \in {s.callbackState, "TerminatedCalled"}
  OBVIOUS
<1>3. t = IF s.state # Closed THEN s ELSE a
  BY DEF NotifyClosed
<1> HIDE DEF cb, t
<1>4. /\ a \in SessionObject /\ a.state = s.state
      /\ a.sendWindow = s.sendWindow /\ a.receiveWindow = s.receiveWindow
      /\ a.side = s.side /\ a.sessionId = s.sessionId /\ a.out = s.out
      /\ a.callbackState = cb
  BY <1>1 DEF SessionObject
<1> HIDE DEF a
<1>5. SessionOK(a)
  BY <1>4 DEF Genuine, SessionOK
<1>6. Genuine(o, a)
  BY <1>4, <1>5, StaysGenuine
<1>7. Genuine(o, t) /\ Informed(s, t) /\ t.state = s.state
  BY <1>2, <1>3, <1>4, <1>6 DEF Informed
<1> QED BY <1>7 DEF t

\* Update as a whole.
LEMMA UpdateGenuine ==
  ASSUME NEW o \in Sessions, NEW s, Genuine(o, s),
         NEW late \in Nat, NEW room \in Nat, NEW last \in BOOLEAN
  PROVE  LET t == Update(s, late, room, last)
         IN  Genuine(o, t) /\ Informed(s, t) /\ Advances(s, t)
<1> DEFINE a == UpdateReceiveWindow(s)
           b == RetransmitOrShutdown(a, late)
           c == TransmitUnsent(b, room)
           e == UpdateTimeout(c)
           f == ShutdownIfLastReference(e, last)
           t == NotifyClosed(f)
<1>1. Genuine(o, a) /\ Alike(s, a) /\ Advances(s, a)
  BY UpdateReceiveWindowGenuine DEF Advances
<1> HIDE DEF a
<1>2. Genuine(o, b) /\ Alike(a, b) /\ Advances(a, b)
  BY <1>1, RetransmitOrShutdownGenuine
<1> HIDE DEF b
<1>3. Genuine(o, c) /\ Alike(b, c) /\ Advances(b, c)
  BY <1>2, TransmitUnsentGenuine DEF Advances
<1> HIDE DEF c
<1>4. Genuine(o, e) /\ Alike(c, e) /\ Advances(c, e)
  BY <1>3, UpdateTimeoutGenuine
<1> HIDE DEF e
<1>5. Genuine(o, f) /\ Alike(e, f) /\ Advances(e, f)
  BY <1>4, ShutdownIfLastReferenceGenuine
<1> HIDE DEF f
<1>6. Genuine(o, t) /\ Informed(f, t) /\ Advances(f, t)
  BY <1>5, NotifyClosedGenuine DEF Advances
<1> HIDE DEF t
<1>7. Advances(s, t)
  BY <1>1, <1>2, <1>3, <1>4, <1>5, <1>6, AdvancesOn
<1>8. Informed(s, t)
  BY <1>1, <1>2, <1>3, <1>4, <1>5, <1>6 DEF Alike, Informed
<1>9. t = Update(s, late, room, last)
  BY DEF Update, UpdateSendWindow, t, f, e, c, b, a
<1> QED BY <1>6, <1>7, <1>8, <1>9

\* The second half of HandleFinMessage.
LEMMA EnterClosingGenuine ==
  ASSUME NEW o \in Sessions, NEW s, Genuine(o, s), NEW size \in Nat
  PROVE  LET t == EnterClosing(s, size)
         IN  Genuine(o, t) /\ Alike(s, t) /\ t.state = Closing
<1> DEFINE a == SetState(s, Closing)
           w == UpdateSendWindowSize(a.sendWindow, size)
           t == [a EXCEPT !.sendWindow = w]
<1>1. Closing \in SessionState
  BY DEF Closing, SessionState
<1>2. Genuine(o, a) /\ Alike(s, a) /\ a.state = Closing
  BY <1>1, SetStateGenuine
<1>3. EnterClosing(s, size) = t
  BY DEF EnterClosing
<1> HIDE DEF a
<1>4. SendOK(w) /\ w.messages = a.sendWindow.messages
  BY <1>2, UpdateSendWindowSizeOK
     DEF Genuine, SessionOK, SendOK, UpdateSendWindowSize, SendWindow
<1> HIDE DEF w
<1>5. Genuine(o, t) /\ Alike(a, t) /\ t.state = a.state
  BY <1>2, <1>4, SendWindowGenuine
<1> HIDE DEF t
<1> QED BY <1>2, <1>3, <1>5 DEF Alike

\* Send writes Data under the id of the session.
LEMMA FinishSendGenuine ==
  ASSUME NEW o \in Sessions, NEW s, Genuine(o, s), HasFreeSlot(s.sendWindow),
         NEW payload \in Nat
  PROVE  LET t == FinishSend(s, payload)
         IN  Genuine(o, t) /\ Alike(s, t) /\ t.state = s.state
<1>1. "Data" \in SessionMessage /\ NoSession \in SessionId
  BY DEF SessionMessage, SessionId
<1>2. \A seq : IsOwn(o, MakePacket("Data", s.sessionId, seq, payload, NoSession))
  BY DataIsOwn
<1> QED BY <1>1, <1>2, WriteMessageIntoSendWindowGenuine DEF FinishSend

\* Receive sends nothing, and at most closes the session.
LEMMA FinishReceiveGenuine ==
  ASSUME NEW o \in Sessions, NEW s, Genuine(o, s), HasPacket(s.receiveWindow)
  PROVE  LET t == FinishReceive(s)
         IN  Genuine(o, t) /\ Alike(s, t) /\ Advances(s, t)
<1> DEFINE taken == [s EXCEPT !.receiveWindow = TakeToken(@)]
           read == [taken EXCEPT !.receiveWindow = ReadPacket(@)]
           c == [read EXCEPT !.state = Closed]
           t == FinishReceive(s)
<1>1. SessionOK(t)
  BY FinishReceiveOK DEF Genuine
<1>2. t \in {taken, read, c}
  BY DEF FinishReceive, SetState
<1>3. s \in SessionObject
  BY DEF Genuine, SessionOK
<1>4. /\ taken.side = s.side /\ taken.sessionId = s.sessionId
      /\ taken.out = s.out /\ taken.sendWindow = s.sendWindow
      /\ taken.callbackState = s.callbackState /\ taken.state = s.state
  BY <1>3 DEF SessionObject
<1>5. /\ read.side = s.side /\ read.sessionId = s.sessionId
      /\ read.out = s.out /\ read.sendWindow = s.sendWindow
      /\ read.callbackState = s.callbackState /\ read.state = s.state
  BY <1>3 DEF SessionObject
<1>6. /\ c.side = s.side /\ c.sessionId = s.sessionId
      /\ c.out = s.out /\ c.sendWindow = s.sendWindow
      /\ c.callbackState = s.callbackState /\ c.state = Closed
  BY <1>3 DEF SessionObject
<1> HIDE DEF taken, read, c, t
<1>7. /\ t.side = s.side /\ t.sessionId = s.sessionId
      /\ t.out = s.out /\ t.sendWindow = s.sendWindow
      /\ t.callbackState = s.callbackState /\ t.state \in {s.state, Closed}
  BY <1>2, <1>4, <1>5, <1>6
<1>8. Genuine(o, t) /\ Alike(s, t) /\ Advances(s, t)
  BY <1>1, <1>7, StaysGenuine DEF Alike, Advances
<1> QED BY <1>8 DEF t

\* When the protocol server goes, no callback is due any more.
LEMMA HandleUnregisterGenuine ==
  ASSUME NEW o \in Sessions, NEW s, Genuine(o, s)
  PROVE  LET t == HandleUnregisterProtocolServer(s)
         IN  /\ Genuine(o, t) /\ t.sessionId = s.sessionId /\ Advances(s, t)
             /\ t.callbackState # "EstablishedCalled"
             /\ t.state \notin {SynReceived, Established}
<1> DEFINE cb == IF s.callbackState = "EstablishedCalled"
                 THEN "TerminatedCalled" ELSE s.callbackState
           a == [s EXCEPT !.callbackState = cb]
           t == Shutdown(a, TRUE)
<1>1. cb \in SessionCallbackState /\ cb # "EstablishedCalled"
  BY DEF Genuine, SessionOK, SessionObject, SessionCallbackState
<1> HIDE DEF cb
<1>2. SessionOK(a) /\ a.state = s.state
  BY <1>1, WithCallbackState DEF Genuine
<1>3. /\ a.side = s.side /\ a.sessionId = s.sessionId /\ a.out = s.out
      /\ a.sendWindow = s.sendWindow /\ a.callbackState = cb
  BY DEF Genuine, SessionOK, SessionObject
<1> HIDE DEF a
<1>4. Genuine(o, a)
  BY <1>2, <1>3, StaysGenuine
<1>5. /\ Genuine(o, t) /\ Alike(a, t) /\ Advances(a, t)
      /\ a.state < Established => t.state = Closed
      /\ t.state # Established
  BY <1>4, ShutdownGenuine
<1> HIDE DEF t
<1>6. t.state # SynReceived
  BY <1>5 DEF Advances, SynReceived, Closed, Established, FinWait1
<1>7. /\ Genuine(o, t) /\ t.sessionId = s.sessionId /\ Advances(s, t)
      /\ t.callbackState # "EstablishedCalled"
      /\ t.state \notin {SynReceived, Established}
  BY <1>1, <1>2, <1>3, <1>5, <1>6 DEF Alike, Advances
<1> QED BY <1>7 DEF HandleUnregisterProtocolServer, t, a, cb
----------------------------------------------------------------------------
\* Keys and callbacks.  Both are kept by the two message threads, but only
\* because of what is on the bus: the client changes its key to the id a
\* SynAck carries, so there must be no SynAck but those of server objects,
\* under their own ids; and a server object must never get one, for
\* HandleSynAckMessage would establish it without a callback.
\*
\* TableFits is the claim itself, for one object: a server object has its
\* own id as its key and no callback due without a server; the client, as
\* long as it is open, has its id as its key, and is in SynSent while that
\* is the id it started with.  ThreadsFit covers the two halves of
\* HandleFinMessage, between which an application thread may close the
\* session, so that EnterClosing opens it again.
CallbackFits(s, isRegistered) ==
    /\ s.callbackState = "EstablishedCalled" => isRegistered
    /\ s.state \in {SynReceived, Established} => isRegistered
    /\ s.state = Established => s.callbackState = "EstablishedCalled"
    /\ s.state = SynReceived => s.callbackState = "None"

Fitting(o, s, k, isRegistered) ==
    /\ o \in Server /\ k # NoSession => k = o /\ CallbackFits(s, isRegistered)
    /\ o = Client /\ k # NoSession /\ s.state # Closed =>
           /\ k = s.sessionId
           /\ k = Client => s.state = SynSent

TableFits == \A o \in Sessions : Fitting(o, session[o], key[o], registered)

ObjectsAreGenuine == \A o \in Sessions : IsUnused(o) \/ Genuine(o, session[o])

UnusedIsApart == \A o \in Sessions : IsUnused(o) =>
                     ~InTable(o) /\ o \notin sending /\ o \notin receiving

BusyInTable ==
    \A side \in Side : thread[side].pc # "idle" =>
        SideOf(thread[side].on) = side /\ InTable(thread[side].on)

ClosingHasId ==
    thread["client"].pc = "closing" =>
        key[Client] = session[Client].sessionId /\ key[Client] # Client

ThreadsFit == BusyInTable /\ ClosingHasId

FromObject(d) == d.packet.messageId = "Rst" \/ \E o \in Sessions : d \in OwnDatagram(o)

NetIsGenuine == \A d \in net : FromObject(d)

IdInv == /\ IInv /\ ObjectsAreGenuine /\ TableFits /\ UnusedIsApart
         /\ ThreadsFit /\ NetIsGenuine

----------------------------------------------------------------------------
\* Facts every action uses.

\* A genuine object has an id, so it is not a new one.
LEMMA GenuineIsUsed ==
  ASSUME NEW o \in Sessions, NEW s, Genuine(o, s)
  PROVE  s # NewSession(SideOf(o)) /\ s.sessionId # NoSession
  BY ObjectAssumption DEF Genuine, OwnId, Sessions, NewSession

\* Handing over the datagrams changes nothing else.
LEMMA QuietGenuine ==
  ASSUME NEW o \in Sessions, NEW s, Genuine(o, s)
  PROVE  /\ Genuine(o, Quiet(s)) /\ Quiet(s).sessionId = s.sessionId
         /\ \A k, r : Fitting(o, s, k, r) => Fitting(o, Quiet(s), k, r)
<1> DEFINE t == Quiet(s)
<1>1. /\ t.side = s.side /\ t.sessionId = s.sessionId /\ t.out = {}
      /\ t.sendWindow = s.sendWindow /\ t.callbackState = s.callbackState
      /\ t.state = s.state
  BY DEF Quiet, Genuine, SessionOK, SessionObject
<1>2. SessionOK(t)
  BY QuietOK DEF Genuine
<1> HIDE DEF t
<1>3. Genuine(o, t)
  BY <1>1, <1>2 DEF Genuine
<1>4. \A k, r : Fitting(o, s, k, r) => Fitting(o, t, k, r)
  BY <1>1 DEF Fitting, CallbackFits
<1> QED BY <1>1, <1>3, <1>4 DEF t

\* An object that is in the table, or at work, is a genuine one.
LEMMA InTableIsGenuine ==
  ASSUME IdInv, NEW o \in Sessions,
         InTable(o) \/ o \in sending \/ o \in receiving
  PROVE  Genuine(o, session[o])
  BY DEF IdInv, ObjectsAreGenuine, UnusedIsApart

\* An object that goes on as Advances says still fits its key.
LEMMA AdvanceFits ==
  ASSUME NEW o \in Sessions, NEW s, NEW t, NEW k, NEW r, Fitting(o, s, k, r),
         Advances(s, t), t.sessionId = s.sessionId,
         o \in Server => Informed(s, t)
  PROVE  Fitting(o, t, k, r)
<1>1. t.state # Closed => s.state # Closed
  BY DEF Advances, Closed, Established, FinWait1
<1>2. t.state \in {SynSent, SynReceived, Established} => t.state = s.state
  BY DEF Advances, Closed, SynSent, SynReceived, Established, FinWait1
<1>3. t.state = Closed => t.state \notin {SynReceived, Established}
  BY DEF Closed, SynReceived, Established
<1>4. s.state = SynSent /\ t.state # Closed => t.state = SynSent
  BY DEF Advances, Closed, SynSent, Established
<1>5. o \in Server /\ k # NoSession => k = o /\ CallbackFits(t, r)
  BY <1>2, <1>3 DEF Fitting, CallbackFits, Informed
<1>6. o = Client /\ k # NoSession /\ t.state # Closed =>
          /\ k = t.sessionId
          /\ k = Client => t.state = SynSent
  BY <1>1, <1>4 DEF Fitting
<1> QED BY <1>5, <1>6 DEF Fitting

\* One object is replaced by one that fits its key.
LEMMA PutFits ==
  ASSUME IdInv, NEW o \in Sessions, NEW s, Genuine(o, s), Put(o, s),
         UNCHANGED registered, Fitting(o, s, key'[o], registered),
         \A p \in Sessions \ {o} : key'[p] = key[p]
  PROVE  /\ ObjectsAreGenuine' /\ TableFits' /\ ~IsUnused(o)'
         /\ session'[o].sessionId = s.sessionId
         /\ \A p \in Sessions \ {o} : session'[p] = session[p]
<1> DEFINE q == Quiet(s)
<1>1. Genuine(o, q) /\ q.sessionId = s.sessionId /\ Fitting(o, q, key'[o], registered)
  BY QuietGenuine
<1>2. session' = [session EXCEPT ![o] = q] /\ session \in [Sessions -> SessionObject]
  BY DEF Put, IdInv, IInv, TypeOK
<1> HIDE DEF q
<1>3. session'[o] = q /\ \A p \in Sessions \ {o} : session'[p] = session[p]
  BY <1>2
<1>4. ~IsUnused(o)'
  BY <1>1, <1>3, GenuineIsUsed DEF IsUnused
<1>5. ObjectsAreGenuine'
  BY <1>1, <1>3 DEF IdInv, ObjectsAreGenuine, IsUnused
<1>6. TableFits'
  BY <1>1, <1>3 DEF IdInv, TableFits
<1> QED BY <1>1, <1>3, <1>4, <1>5, <1>6

\* The other objects are as unused as before.
LEMMA OthersStayApart ==
  ASSUME IdInv, NEW o \in Sessions, ~IsUnused(o)',
         \A p \in Sessions \ {o} : session'[p] = session[p] /\ key'[p] = key[p],
         sending' \subseteq sending \cup {o}, receiving' \subseteq receiving \cup {o}
  PROVE  UnusedIsApart'
<1> SUFFICES ASSUME NEW p \in Sessions, IsUnused(p)'
             PROVE  ~InTable(p)' /\ p \notin sending' /\ p \notin receiving'
  BY DEF UnusedIsApart
<1>1. p # o
  OBVIOUS
<1>2. IsUnused(p)
  BY <1>1 DEF IsUnused
<1> QED BY <1>1, <1>2 DEF IdInv, UnusedIsApart, InTable

\* The threads stand still while an object enters the table.
LEMMA ThreadsStayFit ==
  ASSUME IdInv, UNCHANGED thread, \A p \in Sessions : InTable(p) => InTable(p)',
         \/ MutexFree("client")
         \/ /\ key'[Client] = key[Client]
            /\ session'[Client].sessionId = session[Client].sessionId
  PROVE  ThreadsFit'
<1>1. BusyInTable'
  BY DEF IdInv, IInv, ThreadsFit, BusyInTable, ThreadsOnSessions
<1>2. ClosingHasId'
  BY DEF IdInv, ThreadsFit, ClosingHasId, MutexFree
<1> QED BY <1>1, <1>2 DEF ThreadsFit

\* The bus takes Rsts and datagrams of objects.
LEMMA DeliverGenuine ==
  ASSUME IdInv, NEW d \in net, NEW sent, \A e \in sent : FromObject(e),
         Deliver(d, sent)
  PROVE  NetIsGenuine'
<1>1. net' \subseteq net \cup sent
  BY DEF Deliver
<1> QED BY <1>1 DEF IdInv, NetIsGenuine, FromObject

\* What SendReset sends is a Rst.
LEMMA ResetIsFromManager ==
  ASSUME NEW side, NEW sid
  PROVE  \A e \in {Reset(side, sid)} : FromObject(e)
  BY DEF FromObject, Reset, MakeDatagram, MakePacket

\* What a call on an object sends is from that object.
LEMMA OutIsFromObject ==
  ASSUME NEW o \in Sessions, NEW s, Genuine(o, s)
  PROVE  \A e \in s.out : FromObject(e)
  BY DEF Genuine, FromObject

\* Who sent a datagram that is no Rst.
LEMMA SenderOf ==
  ASSUME IdInv, NEW d \in net, d.packet.messageId # "Rst"
  PROVE  /\ d.packet.messageId = "Syn" => d.packet.sessionId = Client
         /\ d.packet.messageId = "SynAck" =>
                /\ d.dst = "client" /\ d.packet.sessionId \in Server
                /\ d.packet.initial = Client
         /\ d.packet.messageId \notin {"Syn", "SynAck"} /\ d.dst = "client" =>
                d.packet.sessionId \in Server
<1>1. PICK o \in Sessions : d \in OwnDatagram(o)
  BY DEF IdInv, NetIsGenuine, FromObject
<1>2. IsOwn(o, d.packet) /\ d.dst = Opposite(SideOf(o))
  BY <1>1 DEF OwnDatagram, OwnPacket
<1>3. CASE o = Client
  BY <1>2, <1>3 DEF IsOwn, SideOf, Opposite
<1>4. CASE o # Client
  BY <1>2, <1>4 DEF IsOwn, SideOf, Opposite, Sessions
<1> QED BY <1>3, <1>4

\* The client is the only object of its side.
LEMMA ClientIsAlone ==
  ASSUME NEW o \in Sessions
  PROVE  /\ SideOf(o) = "client" <=> o = Client
         /\ SideOf(o) = "server" <=> o \in Server
  BY ObjectAssumption DEF SideOf, Sessions

----------------------------------------------------------------------------
\* The invariant about ids, action by action.  IInv' is known by NextIInv.
IdRest == ObjectsAreGenuine /\ TableFits /\ UnusedIsApart /\ ThreadsFit /\ NetIsGenuine

LEMMA InitIds == Init => IdInv
<1> SUFFICES ASSUME Init PROVE IdInv
  OBVIOUS
<1>1. IInv
  BY InitIInv
<1>2. ObjectsAreGenuine /\ UnusedIsApart /\ NetIsGenuine
  BY DEF Init, ObjectsAreGenuine, UnusedIsApart, NetIsGenuine, IsUnused, InTable
<1>3. TableFits
  BY DEF Init, TableFits, Fitting
<1>4. ThreadsFit
  BY DEF Init, ThreadsFit, BusyInTable, ClosingHasId, Idle, Side
<1> QED BY <1>1, <1>2, <1>3, <1>4 DEF IdInv

\* The client connects under its own id.
LEMMA EstablishIds == IdInv /\ EstablishSessionForClient => IdRest'
<1> SUFFICES ASSUME IdInv, EstablishSessionForClient PROVE IdRest'
  OBVIOUS
<1> DEFINE s == Connect(session[Client], Client)
<1>1. Client \in Sessions /\ NoSession # Client
  BY ObjectAssumption DEF Sessions
<1>2. Genuine(Client, s) /\ s.sessionId = Client /\ s.state = SynSent
  BY ConnectGenuine DEF EstablishSessionForClient, IsUnused
<1> HIDE DEF s
<1>3. Put(Client, s)
  BY DEF EstablishSessionForClient, s
<1>4. key' = [key EXCEPT ![Client] = Client] /\ key \in [Sessions -> SessionId]
  BY DEF EstablishSessionForClient, IdInv, IInv, TypeOK
<1>5. /\ key'[Client] = Client
      /\ \A p \in Sessions \ {Client} : key'[p] = key[p]
  BY <1>1, <1>4
<1>6. /\ UNCHANGED <<net, thread, registered, sending, receiving>>
      /\ MutexFree("client")
  BY DEF EstablishSessionForClient, appVars
<1>7. Fitting(Client, s, key'[Client], registered)
  BY <1>2, <1>5, ObjectAssumption DEF Fitting
<1>8. /\ ObjectsAreGenuine' /\ TableFits' /\ ~IsUnused(Client)'
      /\ \A p \in Sessions \ {Client} : session'[p] = session[p]
  BY <1>1, <1>2, <1>3, <1>5, <1>6, <1>7, PutFits
<1>9. UnusedIsApart'
  BY <1>1, <1>5, <1>6, <1>8, OthersStayApart
<1>10. ThreadsFit'
  BY <1>1, <1>5, <1>6, ThreadsStayFit DEF InTable
<1>11. NetIsGenuine'
  BY <1>6 DEF IdInv, NetIsGenuine
<1> QED BY <1>8, <1>9, <1>10, <1>11 DEF IdRest

\* A step that leaves the objects and the table alone.
LEMMA TableUntouched ==
  ASSUME IdInv, UNCHANGED <<session, key, thread, registered>>,
         \A o \in Sessions : IsUnused(o) =>
             (o \in sending' => o \in sending) /\ (o \in receiving' => o \in receiving)
  PROVE  ObjectsAreGenuine' /\ TableFits' /\ UnusedIsApart' /\ ThreadsFit'
<1>1. ObjectsAreGenuine' /\ TableFits' /\ UnusedIsApart'
  BY DEF IdInv, ObjectsAreGenuine, TableFits, UnusedIsApart, IsUnused, InTable
<1>2. ThreadsFit'
  BY ThreadsStayFit DEF InTable
<1> QED BY <1>1, <1>2

\* A message nobody takes is answered with a Rst.
LEMMA AnswerWithResetIds ==
  ASSUME IdInv, NEW d \in net, RefuseSyn(d) \/ ReceiveUnknown(d)
  PROVE  IdRest'
<1>1. /\ Deliver(d, {Reset(d.dst, d.packet.sessionId)})
      /\ UNCHANGED <<session, key, thread, registered, sending, receiving>>
  BY DEF RefuseSyn, ReceiveUnknown, appVars
<1>2. NetIsGenuine'
  BY <1>1, DeliverGenuine, ResetIsFromManager
<1> QED BY <1>1, <1>2, TableUntouched DEF IdRest

\* A server object enters the table under its own id.
LEMMA EnterTable ==
  ASSUME IdInv, NEW o \in Server, NEW s, Genuine(o, s), Put(o, s),
         CallbackFits(s, registered), key' = [key EXCEPT ![o] = o],
         UNCHANGED <<thread, registered, sending, receiving>>
  PROVE  ObjectsAreGenuine' /\ TableFits' /\ UnusedIsApart' /\ ThreadsFit'
<1>1. o \in Sessions /\ o # Client /\ o # NoSession /\ key \in [Sessions -> SessionId]
  BY ObjectAssumption DEF Sessions, IdInv, IInv, TypeOK
<1>2. key'[o] = o /\ \A p \in Sessions \ {o} : key'[p] = key[p]
  BY <1>1
<1>3. Fitting(o, s, key'[o], registered)
  BY <1>1, <1>2 DEF Fitting
<1>4. /\ ObjectsAreGenuine' /\ TableFits' /\ ~IsUnused(o)'
      /\ \A p \in Sessions \ {o} : session'[p] = session[p]
  BY <1>1, <1>2, <1>3, PutFits
<1>5. UnusedIsApart'
  BY <1>1, <1>2, <1>4, OthersStayApart
<1>6. Client \in Sessions
  BY DEF Sessions
<1>7. ThreadsFit'
  BY <1>1, <1>2, <1>4, <1>6, ThreadsStayFit DEF InTable
<1> QED BY <1>4, <1>5, <1>7

\* A server session that AcceptSession rejects is closed at once.
LEMMA RejectSynIds ==
  ASSUME IdInv, NEW d \in net, NEW o \in Server, RejectSyn(d, o)
  PROVE  IdRest'
<1> DEFINE b == BindToServer(session[o], o)
           s == Shutdown(b, FALSE)
<1>1. o \in Sessions
  BY DEF Sessions
<1>2. Genuine(o, b) /\ b.callbackState = "None"
  BY BindToServerGenuine DEF RejectSyn, IsUnused
<1> HIDE DEF b
<1>3. Genuine(o, s) /\ s.callbackState = "None" /\ s.state = Closed
  BY <1>1, <1>2, ShutdownGenuine DEF Alike
<1> HIDE DEF s
<1>4. /\ Put(o, s) /\ key' = [key EXCEPT ![o] = o]
      /\ UNCHANGED <<thread, registered, sending, receiving>>
      /\ Deliver(d, {Reset(d.dst, d.packet.sessionId)})
  BY DEF RejectSyn, appVars, s, b
<1>5. CallbackFits(s, registered)
  BY <1>3 DEF CallbackFits, Closed, SynReceived, Established
<1>6. NetIsGenuine'
  BY <1>4, DeliverGenuine, ResetIsFromManager
<1>7. ObjectsAreGenuine' /\ TableFits' /\ UnusedIsApart' /\ ThreadsFit'
  BY <1>3, <1>4, <1>5, EnterTable
<1> QED BY <1>6, <1>7 DEF IdRest

\* An accepted Syn comes from the client; a server is registered.
LEMMA AcceptSynIds ==
  ASSUME IdInv, NEW d \in net, NEW o \in Server, AcceptSyn(d, o)
  PROVE  IdRest'
<1> DEFINE b == BindToServer(session[o], o)
           s == HandleMessage(b, d)
<1>1. o \in Sessions /\ o \in SessionId /\ SideOf(o) \in Side /\ d \in Datagram
  BY SideOfType DEF Sessions, SessionId, IdInv, IInv, TypeOK
<1>2. /\ Genuine(o, b) /\ b.callbackState = "None"
      /\ b.receiveWindow = InitReadWindow
  BY <1>1, BindToServerGenuine, BindToServerOK DEF AcceptSyn, IsUnused
<1> HIDE DEF b
<1>3. d.packet.messageId = "Syn" /\ d.packet.sessionId = Client /\ registered
  BY SenderOf DEF AcceptSyn
<1>4. /\ Genuine(o, s) /\ s.callbackState = "None"
      /\ s.state \in {SynReceived, Closed}
  BY <1>1, <1>2, <1>3, HandleSynGenuine DEF Alike
<1> HIDE DEF s
<1>5. /\ Put(o, s) /\ key' = [key EXCEPT ![o] = o]
      /\ UNCHANGED <<thread, registered, sending, receiving>>
      /\ Deliver(d, s.out)
  BY DEF AcceptSyn, appVars, s, b
<1>6. CallbackFits(s, registered)
  BY <1>3, <1>4 DEF CallbackFits, Closed, SynReceived, Established
<1>7. NetIsGenuine'
  BY <1>1, <1>4, <1>5, DeliverGenuine, OutIsFromObject
<1>8. ObjectsAreGenuine' /\ TableFits' /\ UnusedIsApart' /\ ThreadsFit'
  BY <1>4, <1>5, <1>6, EnterTable
<1> QED BY <1>7, <1>8 DEF IdRest

\* A SynAck is one of a server object, for the client: it is handled by
\* the object whose key is that id, or still the id of the client.
LEMMA ReceiveSynAckIds ==
  ASSUME IdInv, NEW d \in net, MutexFree(d.dst), NEW o \in Sessions,
         ReceiveSynAck(d, o)
  PROVE  IdRest'
<1> DEFINE sid == d.packet.sessionId
           c == session[Client]
           s == HandleMessage(c, d)
<1>1. /\ d.packet.messageId = "SynAck" /\ d.dst = "client" /\ sid \in Server
      /\ d.packet.initial = Client /\ d \in Datagram
  BY SenderOf DEF ReceiveSynAck, IdInv, IInv, TypeOK
<1>2. o = Client /\ Client \in Sessions /\ InTable(Client) /\ key[Client] \in {sid, Client}
  BY <1>1, ClientIsAlone DEF ReceiveSynAck, SynAckTarget, Find
<1>3. Genuine(Client, c) /\ Good(c)
  BY <1>1, <1>2, InTableIsGenuine, FreshWhenIdle, ClientIsAlone DEF IdInv
<1>4. /\ Genuine(Client, s)
      /\ IF c.state = SynSent
         THEN s.sessionId = sid /\ s.state = Established
         ELSE s.sessionId = c.sessionId /\ s.state = c.state
  BY <1>1, <1>3, HandleSynAckGenuine
<1> HIDE DEF s
<1>5. /\ Put(Client, s) /\ Deliver(d, s.out) /\ key' = [key EXCEPT ![Client] = sid]
      /\ UNCHANGED <<thread, registered, sending, receiving>>
  BY <1>2 DEF ReceiveSynAck, appVars, s
<1>6. /\ key'[Client] = sid /\ \A p \in Sessions \ {Client} : key'[p] = key[p]
      /\ sid # Client /\ sid # NoSession
  BY <1>1, <1>2, <1>5, ObjectAssumption DEF IdInv, IInv, TypeOK
<1>7. Fitting(Client, s, sid, registered)
  <2>1. Fitting(Client, c, key[Client], registered)
    BY <1>2 DEF IdInv, TableFits
  <2>2. CASE c.state = SynSent
    BY <1>4, <1>6, <2>2, ObjectAssumption DEF Fitting
  <2>3. CASE c.state # SynSent /\ c.state # Closed
    <3>1. key[Client] = c.sessionId /\ key[Client] # Client
      BY <1>2, <2>1, <2>3 DEF Fitting, InTable
    <3> QED BY <1>2, <1>4, <1>6, <2>3, <3>1, ObjectAssumption DEF Fitting
  <2>4. CASE c.state # SynSent /\ c.state = Closed
    BY <1>4, <2>4, ObjectAssumption DEF Fitting
  <2> QED BY <2>2, <2>3, <2>4
<1>8. /\ ObjectsAreGenuine' /\ TableFits' /\ ~IsUnused(Client)'
      /\ \A p \in Sessions \ {Client} : session'[p] = session[p]
  BY <1>2, <1>4, <1>5, <1>6, <1>7, PutFits
<1>9. UnusedIsApart'
  BY <1>2, <1>5, <1>6, <1>8, OthersStayApart
<1>10. ThreadsFit'
  BY <1>1, <1>2, <1>5, <1>6, ThreadsStayFit DEF InTable
<1>11. NetIsGenuine'
  BY <1>2, <1>4, <1>5, DeliverGenuine, OutIsFromObject
<1> QED BY <1>8, <1>9, <1>10, <1>11 DEF IdRest

\* A step of one object that keeps its key and its id.
LEMMA StepOfObject ==
  ASSUME IdInv, NEW o \in Sessions, NEW s, Genuine(o, s), Put(o, s),
         s.sessionId = session[o].sessionId, Fitting(o, s, key[o], registered),
         UNCHANGED <<key, registered>>,
         sending' \subseteq sending \cup {o}, receiving' \subseteq receiving \cup {o}
  PROVE  /\ ObjectsAreGenuine' /\ TableFits' /\ UnusedIsApart'
         /\ \A p \in Sessions : session'[p].sessionId = session[p].sessionId
<1>1. /\ ObjectsAreGenuine' /\ TableFits' /\ ~IsUnused(o)'
      /\ session'[o].sessionId = s.sessionId
      /\ \A p \in Sessions \ {o} : session'[p] = session[p]
  BY PutFits
<1>2. UnusedIsApart'
  BY <1>1, OthersStayApart
<1> QED BY <1>1, <1>2

\* If the threads stand still, they still fit.
LEMMA ThreadsFitSameIds ==
  ASSUME IdInv, UNCHANGED <<key, thread>>,
         \A p \in Sessions : session'[p].sessionId = session[p].sessionId
  PROVE  ThreadsFit'
  BY ThreadsStayFit DEF InTable, Sessions

\* A message of an open session advances it, or establishes it when it is
\* in SynReceived; then a server is registered.
LEMMA ReceiveMessageIds ==
  ASSUME IdInv, NEW d \in net, NEW o \in Sessions, ReceiveMessage(d, o)
  PROVE  IdRest'
<1> DEFINE c == session[o]
           s == HandleMessage(c, d)
<1>1. d \in Datagram /\ d.packet.messageId \in {"Fin", "Data", "Ack", "Rst"}
  BY DEF ReceiveMessage, IdInv, IInv, TypeOK
<1>2. InTable(o)
  BY DEF ReceiveMessage, FindOpenSession, Find
<1>3. Genuine(o, c) /\ Fitting(o, c, key[o], registered)
  BY <1>2, InTableIsGenuine DEF IdInv, TableFits
<1>4. /\ Genuine(o, s) /\ s.sessionId = c.sessionId
      /\ \/ /\ Advances(c, s)
            /\ o \in Server => s.callbackState = c.callbackState
         \/ /\ c.state = SynReceived /\ s.state = Established
            /\ o \in Server => s.callbackState = "EstablishedCalled"
  BY <1>1, <1>3, HandleMessageGenuine
<1> HIDE DEF s
<1>5. /\ Put(o, s) /\ Deliver(d, s.out)
      /\ UNCHANGED <<key, thread, registered, sending, receiving>>
  BY DEF ReceiveMessage, appVars, s
<1> HIDE DEF c
<1>6. Fitting(o, s, key[o], registered)
  <2>1. CASE Advances(c, s) /\ (o \in Server => s.callbackState = c.callbackState)
    BY <1>3, <1>4, <2>1, AdvanceFits DEF Informed
  <2>2. CASE /\ c.state = SynReceived /\ s.state = Established
             /\ o \in Server => s.callbackState = "EstablishedCalled"
    <3>1. /\ SynReceived # SynSent /\ SynReceived # Closed
          /\ Established # SynReceived
      BY DEF SynReceived, SynSent, Closed, Established
    <3> QED BY <1>3, <1>4, <2>2, <3>1 DEF Fitting, CallbackFits
  <2> QED BY <1>4, <2>1, <2>2
<1>7. /\ ObjectsAreGenuine' /\ TableFits' /\ UnusedIsApart'
      /\ \A p \in Sessions : session'[p].sessionId = session[p].sessionId
  BY <1>4, <1>5, <1>6, StepOfObject DEF c
<1>8. NetIsGenuine'
  BY <1>4, <1>5, DeliverGenuine, OutIsFromObject
<1> QED BY <1>5, <1>7, <1>8, ThreadsFitSameIds DEF IdRest

\* The first half of HandleFinMessage: the key is an id of a server object.
LEMMA ReceiveFinIds ==
  ASSUME IdInv, NEW d \in net, NEW o \in Sessions, ReceiveFin(d, o)
  PROVE  IdRest'
<1> DEFINE c == session[o]
           s == StoreFin(c, d)
           busy == [pc |-> "closing", on |-> o, windowSize |-> d.windowSize]
<1>1. /\ d \in Datagram /\ d.packet \in Packet /\ d.dst \in Side
      /\ d.packet.messageId = "Fin"
  BY DEF ReceiveFin, IdInv, IInv, TypeOK, Datagram
<1>2. /\ InTable(o) /\ SideOf(o) = d.dst /\ key[o] = d.packet.sessionId
      /\ c.state # Closed
  BY DEF ReceiveFin, FindOpenSession, Find, IsOpen
<1>3. Genuine(o, c) /\ Fitting(o, c, key[o], registered)
  BY <1>2, InTableIsGenuine DEF IdInv, TableFits
<1>4. Genuine(o, s) /\ Alike(c, s) /\ s.state = c.state
  BY <1>1, <1>3, WriteMessageIntoReceiveWindowGenuine DEF StoreFin
<1> HIDE DEF s
<1>5. /\ Put(o, s) /\ Deliver(d, s.out) /\ thread' = [thread EXCEPT ![d.dst] = busy]
      /\ UNCHANGED <<key, registered, sending, receiving>>
  BY DEF ReceiveFin, appVars, s
<1> HIDE DEF c
<1>6. Fitting(o, s, key[o], registered)
  BY <1>3, <1>4 DEF Fitting, CallbackFits, Alike
<1>7. /\ ObjectsAreGenuine' /\ TableFits' /\ UnusedIsApart'
      /\ \A p \in Sessions : session'[p].sessionId = session[p].sessionId
  BY <1>4, <1>5, <1>6, StepOfObject DEF c, Alike
<1>8. NetIsGenuine'
  BY <1>4, <1>5, DeliverGenuine, OutIsFromObject
<1>9. busy.on = o
  OBVIOUS
<1> HIDE DEF busy
<1>10. /\ thread'[d.dst] = busy
       /\ \A side \in Side \ {d.dst} : thread'[side] = thread[side]
  BY <1>1, <1>5 DEF IdInv, IInv, TypeOK
<1>11. BusyInTable'
  BY <1>2, <1>5, <1>9, <1>10 DEF IdInv, ThreadsFit, BusyInTable, InTable
<1>12. ClosingHasId'
  <2>1. CASE d.dst = "client"
    <3>1. o = Client /\ d.packet.sessionId \in Server
      BY <1>1, <1>2, <2>1, ClientIsAlone, SenderOf
    <3>2. key[Client] = session[Client].sessionId
      BY <1>2, <1>3, <3>1 DEF Fitting, InTable, c
    <3> QED BY <1>2, <1>5, <1>7, <3>1, <3>2, ObjectAssumption DEF ClosingHasId, Sessions
  <2>2. CASE d.dst # "client"
    BY <1>5, <1>7, <1>10, <2>2 DEF IdInv, ThreadsFit, ClosingHasId, Side, Sessions
  <2> QED BY <2>1, <2>2
<1> QED BY <1>7, <1>8, <1>11, <1>12 DEF IdRest, ThreadsFit

\* The second half, on an object that an application may have closed.
LEMMA FinishFinIds ==
  ASSUME IdInv, NEW side \in Side, FinishFin(side)
  PROVE  IdRest'
<1> DEFINE o == thread[side].on
           c == session[o]
           s == EnterClosing(c, thread[side].windowSize)
<1>1. /\ o \in Sessions /\ thread[side].windowSize \in Nat
      /\ SideOf(o) = side /\ InTable(o) /\ thread[side].pc = "closing"
  BY DEF IdInv, IInv, TypeOK, ThreadState, ThreadsOnSessions, ThreadsFit,
         BusyInTable, FinishFin
<1>2. Genuine(o, c) /\ Fitting(o, c, key[o], registered)
  BY <1>1, InTableIsGenuine DEF IdInv, TableFits
<1>3. Genuine(o, s) /\ Alike(c, s) /\ s.state = Closing
  BY <1>1, <1>2, EnterClosingGenuine
<1>4. o = Client => key[o] = c.sessionId /\ key[o] # Client
  BY <1>1, ClientIsAlone DEF IdInv, ThreadsFit, ClosingHasId
<1> HIDE DEF s
<1>5. /\ Put(o, s) /\ thread' = [thread EXCEPT ![side] = Idle]
      /\ UNCHANGED <<key, net, registered, sending, receiving>>
  BY DEF FinishFin, appVars, s
<1>6. Fitting(o, s, key[o], registered)
  BY <1>2, <1>3, <1>4
     DEF Fitting, CallbackFits, Alike, Closing, SynReceived, Established
<1>7. /\ ObjectsAreGenuine' /\ TableFits' /\ UnusedIsApart'
      /\ \A p \in Sessions : session'[p].sessionId = session[p].sessionId
  BY <1>1, <1>3, <1>5, <1>6, StepOfObject DEF Alike
<1>8. /\ thread'[side] = Idle
      /\ \A other \in Side \ {side} : thread'[other] = thread[other]
  BY <1>5, BackToIdle DEF IdInv
<1>9. ThreadsFit'
  BY <1>5, <1>7, <1>8
     DEF IdInv, ThreadsFit, BusyInTable, ClosingHasId, InTable, Idle, Side, Sessions
<1>10. NetIsGenuine'
  BY <1>5 DEF IdInv, NetIsGenuine
<1> QED BY <1>7, <1>9, <1>10 DEF IdRest

\* Update advances a session of the table.
LEMMA UpdateSessionIds ==
  ASSUME IdInv, NEW o \in Sessions, NEW late \in TimedOut(o), NEW room \in Rooms,
         UpdateSession(o, late, room)
  PROVE  IdRest'
<1> DEFINE c == session[o]
           s == Update(c, late, room, released)
           busy == [pc |-> "updated", on |-> o, windowSize |-> 0]
           side == SideOf(o)
<1>1. /\ room \in Nat /\ released \in BOOLEAN /\ side \in Side /\ late \in Nat
      /\ InTable(o)
  BY BoundAssumption, SideOfType DEF IdInv, IInv, TypeOK, TimedOut, UpdateSession
<1>2. Genuine(o, c) /\ Fitting(o, c, key[o], registered)
  BY <1>1, InTableIsGenuine DEF IdInv, TableFits
<1>3. Genuine(o, s) /\ Informed(c, s) /\ Advances(c, s)
  BY <1>1, <1>2, UpdateGenuine
<1> HIDE DEF s
<1>4. /\ Put(o, s) /\ net' = net \cup s.out
      /\ thread' = [thread EXCEPT ![side] = busy]
      /\ UNCHANGED <<key, registered, sending, receiving>>
  BY DEF UpdateSession, appVars, s
<1> HIDE DEF c
<1>5. Fitting(o, s, key[o], registered)
  BY <1>2, <1>3, AdvanceFits DEF Informed
<1>6. /\ ObjectsAreGenuine' /\ TableFits' /\ UnusedIsApart'
      /\ \A p \in Sessions : session'[p].sessionId = session[p].sessionId
  BY <1>3, <1>4, <1>5, StepOfObject DEF c, Informed
<1>7. busy.pc = "updated" /\ busy.on = o
  OBVIOUS
<1> HIDE DEF busy
<1>8. /\ thread'[side] = busy
      /\ \A other \in Side \ {side} : thread'[other] = thread[other]
  BY <1>1, <1>4 DEF IdInv, IInv, TypeOK
<1>9. BusyInTable'
  BY <1>1, <1>4, <1>7, <1>8 DEF IdInv, ThreadsFit, BusyInTable, InTable
<1>10. ClosingHasId'
  BY <1>4, <1>6, <1>7, <1>8 DEF IdInv, ThreadsFit, ClosingHasId, Side, Sessions
<1>11. NetIsGenuine'
  BY <1>3, <1>4, OutIsFromObject DEF IdInv, NetIsGenuine, FromObject
<1> QED BY <1>6, <1>9, <1>10, <1>11 DEF IdRest, ThreadsFit

\* A closed session leaves the table; the thread of the other side is at work
\* on another object.
LEMMA RemoveIfClosedIds ==
  ASSUME IdInv, NEW side \in Side, RemoveIfClosed(side)
  PROVE  IdRest'
<1> DEFINE o == thread[side].on
<1>1. o \in Sessions /\ SideOf(o) = side /\ thread[side].pc = "updated"
  BY DEF IdInv, IInv, ThreadsOnSessions, ThreadsFit, BusyInTable, RemoveIfClosed
<1>2. /\ key'[o] \in {key[o], NoSession}
      /\ \A p \in Sessions \ {o} : key'[p] = key[p]
      /\ UNCHANGED <<session, net, registered, sending, receiving>>
  BY <1>1 DEF RemoveIfClosed, IdInv, IInv, TypeOK, appVars
<1>3. /\ thread'[side] = Idle
      /\ \A other \in Side \ {side} : thread'[other] = thread[other]
  BY BackToIdle DEF IdInv, RemoveIfClosed
<1> HIDE DEF o
<1>4. ObjectsAreGenuine' /\ UnusedIsApart' /\ NetIsGenuine'
  BY <1>2 DEF IdInv, ObjectsAreGenuine, UnusedIsApart, NetIsGenuine, IsUnused, InTable
<1>5. TableFits'
  BY <1>2 DEF IdInv, TableFits, Fitting
<1>6. BusyInTable'
  BY <1>1, <1>2, <1>3 DEF IdInv, IInv, ThreadsOnSessions, ThreadsFit, BusyInTable,
                          InTable, Idle
<1>7. ClosingHasId'
  <2>1. CASE side = "client"
    BY <1>3, <2>1 DEF ClosingHasId, Idle
  <2>2. CASE side # "client"
    <3>1. o # Client /\ "client" \in Side \ {side} /\ Client \in Sessions
      BY <1>1, <2>2 DEF SideOf, Side, Sessions
    <3> QED BY <1>2, <1>3, <3>1 DEF IdInv, ThreadsFit, ClosingHasId
  <2> QED BY <2>1, <2>2
<1> QED BY <1>4, <1>5, <1>6, <1>7 DEF IdRest, ThreadsFit

\* Several objects of the table go on at once.
LEMMA ReplaceIds ==
  ASSUME IdInv, NEW T, session' = [o \in Sessions |-> T[o]],
         \A o \in Sessions :
             \/ T[o] = session[o] /\ Fitting(o, T[o], key[o], registered')
             \/ /\ Genuine(o, T[o]) /\ T[o].sessionId = session[o].sessionId
                /\ Fitting(o, T[o], key[o], registered'),
         UNCHANGED <<key, net, thread, sending, receiving>>
  PROVE  IdRest'
<1>1. \A o \in Sessions : session'[o] = T[o]
  OBVIOUS
<1>2. TableFits'
  BY <1>1 DEF TableFits
<1>3. \A o \in Sessions : session'[o].sessionId = session[o].sessionId
  BY <1>1
<1>4. \A o \in Sessions : IsUnused(o)' => IsUnused(o)
  BY <1>1, GenuineIsUsed DEF IsUnused
<1>5. ObjectsAreGenuine'
  BY <1>1 DEF IdInv, ObjectsAreGenuine, IsUnused
<1>6. UnusedIsApart' /\ NetIsGenuine'
  BY <1>4 DEF IdInv, UnusedIsApart, InTable, NetIsGenuine
<1> QED BY <1>2, <1>3, <1>5, <1>6, ThreadsFitSameIds DEF IdRest

\* The peer of a side is gone: its sessions are closed.
LEMMA HandleClientDisconnectionIds ==
  ASSUME IdInv, NEW side \in Side, HandleClientDisconnection(side)
  PROVE  IdRest'
<1> DEFINE T == [o \in Sessions |->
                    IF SideOf(o) = side /\ InTable(o)
                    THEN Shutdown(session[o], FALSE) ELSE session[o]]
<1>1. /\ session' = [o \in Sessions |-> T[o]]
      /\ UNCHANGED <<key, net, thread, registered, sending, receiving>>
  BY DEF HandleClientDisconnection, appVars
<1>2. ASSUME NEW o \in Sessions
      PROVE  \/ T[o] = session[o] /\ Fitting(o, T[o], key[o], registered)
             \/ /\ Genuine(o, T[o]) /\ T[o].sessionId = session[o].sessionId
                /\ Fitting(o, T[o], key[o], registered)
  <2>1. Fitting(o, session[o], key[o], registered)
    BY DEF IdInv, TableFits
  <2>2. CASE InTable(o)
    <3> DEFINE c == session[o]
               s == Shutdown(c, FALSE)
    <3>1. Genuine(o, s) /\ Alike(c, s) /\ Advances(c, s)
      BY <2>2, InTableIsGenuine, ShutdownGenuine
    <3>2. T[o] \in {c, s}
      OBVIOUS
    <3> HIDE DEF T, s, c
    <3>3. Fitting(o, s, key[o], registered)
      BY <2>1, <3>1, AdvanceFits DEF Alike, Informed, c
    <3> QED BY <2>1, <3>1, <3>2, <3>3 DEF Alike, c
  <2>3. CASE ~InTable(o)
    BY <2>1, <2>3
  <2> QED BY <2>2, <2>3
<1> HIDE DEF T
<1> QED BY <1>1, <1>2, ReplaceIds

\* The protocol server is gone, and no callback of the table is due.
LEMMA UnregisterProtocolServerIds == IdInv /\ UnregisterProtocolServer => IdRest'
<1> SUFFICES ASSUME IdInv, UnregisterProtocolServer PROVE IdRest'
  OBVIOUS
<1> DEFINE T == [o \in Sessions |->
                    IF o \in Server /\ InTable(o)
                    THEN HandleUnregisterProtocolServer(session[o])
                    ELSE session[o]]
<1>1. /\ session' = [o \in Sessions |-> T[o]] /\ registered' = FALSE
      /\ UNCHANGED <<key, net, thread, sending, receiving>>
  BY DEF UnregisterProtocolServer, appVars
<1>2. ASSUME NEW o \in Sessions
      PROVE  \/ T[o] = session[o] /\ Fitting(o, T[o], key[o], registered')
             \/ /\ Genuine(o, T[o]) /\ T[o].sessionId = session[o].sessionId
                /\ Fitting(o, T[o], key[o], registered')
  <2>1. Fitting(o, session[o], key[o], registered)
    BY DEF IdInv, TableFits
  <2>2. CASE o \in Server /\ InTable(o)
    <3> DEFINE c == session[o]
               s == HandleUnregisterProtocolServer(c)
    <3>1. /\ Genuine(o, s) /\ s.sessionId = c.sessionId
          /\ s.callbackState # "EstablishedCalled"
          /\ s.state \notin {SynReceived, Established}
      BY <2>2, InTableIsGenuine, HandleUnregisterGenuine
    <3>2. T[o] = s
      BY <2>2
    <3> HIDE DEF T, s, c
    <3>3. Fitting(o, s, key[o], registered')
      BY <2>1, <2>2, <3>1, ObjectAssumption DEF Fitting, CallbackFits
    <3> QED BY <3>1, <3>2, <3>3 DEF c
  <2>3. CASE ~(o \in Server /\ InTable(o))
    BY <2>1, <2>3 DEF Fitting, InTable
  <2> QED BY <2>2, <2>3
<1> HIDE DEF T
<1> QED BY <1>1, <1>2, ReplaceIds

\* Send adds Data under the id of its session.
LEMMA EndSendIds ==
  ASSUME IdInv, NEW o \in Sessions, EndSend(o)
  PROVE  IdRest'
<1> DEFINE c == session[o]
           payload == Len(accepted[o]) + 1
           s == FinishSend(c, payload)
<1>1. payload \in Nat /\ o \in sending /\ HasFreeSlot(c.sendWindow)
  BY DEF EndSend, IdInv, IInv, TypeOK
<1>2. Genuine(o, c) /\ Fitting(o, c, key[o], registered)
  BY <1>1, InTableIsGenuine DEF IdInv, TableFits
<1>3. Genuine(o, s) /\ Alike(c, s) /\ s.state = c.state
  BY <1>1, <1>2, FinishSendGenuine
<1> HIDE DEF s
<1>4. /\ Put(o, s) /\ sending' = sending \ {o}
      /\ UNCHANGED <<key, net, thread, registered, receiving>>
  BY DEF EndSend, s
<1> HIDE DEF c
<1>5. Fitting(o, s, key[o], registered)
  BY <1>2, <1>3 DEF Fitting, CallbackFits, Alike
<1>6. /\ ObjectsAreGenuine' /\ TableFits' /\ UnusedIsApart'
      /\ \A p \in Sessions : session'[p].sessionId = session[p].sessionId
  BY <1>3, <1>4, <1>5, StepOfObject DEF c, Alike
<1>7. NetIsGenuine'
  BY <1>4 DEF IdInv, NetIsGenuine
<1> QED BY <1>4, <1>6, <1>7, ThreadsFitSameIds DEF IdRest

\* Receive reads a packet, and at most closes the session.
LEMMA EndReceiveIds ==
  ASSUME IdInv, NEW o \in Sessions, EndReceive(o)
  PROVE  IdRest'
<1> DEFINE c == session[o]
           s == FinishReceive(c)
<1>1. o \in receiving /\ HasPacket(c.receiveWindow)
  BY DEF EndReceive
<1>2. Genuine(o, c) /\ Fitting(o, c, key[o], registered)
  BY <1>1, InTableIsGenuine DEF IdInv, TableFits
<1>3. Genuine(o, s) /\ Alike(c, s) /\ Advances(c, s)
  BY <1>1, <1>2, FinishReceiveGenuine
<1> HIDE DEF s
<1>4. /\ Put(o, s) /\ receiving' = receiving \ {o}
      /\ UNCHANGED <<key, net, thread, registered, sending>>
  BY DEF EndReceive, s
<1> HIDE DEF c
<1>5. Fitting(o, s, key[o], registered)
  BY <1>2, <1>3, AdvanceFits DEF Alike, Informed
<1>6. /\ ObjectsAreGenuine' /\ TableFits' /\ UnusedIsApart'
      /\ \A p \in Sessions : session'[p].sessionId = session[p].sessionId
  BY <1>3, <1>4, <1>5, StepOfObject DEF c, Alike
<1>7. NetIsGenuine'
  BY <1>4 DEF IdInv, NetIsGenuine
<1> QED BY <1>4, <1>6, <1>7, ThreadsFitSameIds DEF IdRest

\* An application that begins a call has a session object that was used.
LEMMA CallIds ==
  ASSUME IdInv, NEW o \in Sessions,
         BeginSend(o) \/ SendTimeout(o) \/ BeginReceive(o) \/ ReceiveNothing(o)
  PROVE  IdRest'
<1>1. UNCHANGED <<session, key, net, thread, registered>>
  BY DEF BeginSend, SendTimeout, BeginReceive, ReceiveNothing
<1>2. IsUnused(o) => ~HasSession(o)
  BY DEF IsUnused, HasSession, NewSession
<1>3. \A p \in Sessions : IsUnused(p) =>
          (p \in sending' => p \in sending) /\ (p \in receiving' => p \in receiving)
  BY <1>2 DEF BeginSend, SendTimeout, BeginReceive, ReceiveNothing
<1>4. NetIsGenuine'
  BY <1>1 DEF IdInv, NetIsGenuine
<1> QED BY <1>1, <1>3, <1>4, TableUntouched DEF IdRest

----------------------------------------------------------------------------
\* Every step keeps the invariant about ids.
LEMMA NextIds == IdInv /\ [Next]_vars => IdInv'
<1> SUFFICES ASSUME IdInv, [Next]_vars PROVE IdInv'
  OBVIOUS
<1>0. IInv'
  BY NextIInv DEF IdInv
<1> SUFFICES IdRest'
  BY <1>0 DEF IdInv, IdRest
<1>1. ASSUME NEW d \in net, HandleReceivedSessionMessage(d) PROVE IdRest'
  BY <1>1, AnswerWithResetIds, RejectSynIds, AcceptSynIds, ReceiveSynAckIds,
     ReceiveMessageIds, ReceiveFinIds DEF HandleReceivedSessionMessage
<1>2. ASSUME NEW side \in Side, FinishFin(side) \/ RemoveIfClosed(side)
                                \/ HandleClientDisconnection(side)
      PROVE  IdRest'
  BY <1>2, FinishFinIds, RemoveIfClosedIds, HandleClientDisconnectionIds
<1>3. ASSUME NEW o \in Sessions, NEW late \in TimedOut(o), NEW room \in Rooms,
             UpdateSession(o, late, room)
      PROVE  IdRest'
  BY <1>3, UpdateSessionIds
<1>4. CASE EstablishSessionForClient
  BY <1>4, EstablishIds
<1>5. CASE UnregisterProtocolServer
  BY <1>5, UnregisterProtocolServerIds
<1>6. ASSUME NEW o \in Sessions, EndSend(o) \/ EndReceive(o) PROVE IdRest'
  BY <1>6, EndSendIds, EndReceiveIds
<1>7. CASE RegisterProtocolServer
  <2>1. /\ UNCHANGED <<session, key, net, thread, sending, receiving>>
        /\ registered' = TRUE
    BY <1>7 DEF RegisterProtocolServer, appVars
  <2>2. ObjectsAreGenuine' /\ UnusedIsApart' /\ NetIsGenuine'
    BY <2>1 DEF IdInv, ObjectsAreGenuine, UnusedIsApart, NetIsGenuine, IsUnused, InTable
  <2>3. TableFits'
    BY <2>1 DEF IdInv, TableFits, Fitting, CallbackFits
  <2>4. ThreadsFit'
    BY <2>1, ThreadsFitSameIds
  <2> QED BY <2>2, <2>3, <2>4 DEF IdRest
<1>8. ASSUME NEW o \in Sessions,
             BeginSend(o) \/ SendTimeout(o) \/ BeginReceive(o) \/ ReceiveNothing(o)
      PROVE  IdRest'
  BY <1>8, CallIds
<1>9. ASSUME net' \subseteq net,
             UNCHANGED <<session, key, thread, registered, sending, receiving>>
      PROVE  IdRest'
  <2>1. NetIsGenuine'
    BY <1>9 DEF IdInv, NetIsGenuine
  <2> QED BY <1>9, <2>1, TableUntouched DEF IdRest
<1>10. ASSUME NEW d \in net, Lose(d) PROVE IdRest'
  BY <1>9, <1>10 DEF Lose, appVars
<1>11. CASE Release
  BY <1>9, <1>11 DEF Release
<1>12. CASE UNCHANGED vars
  BY <1>9, <1>12 DEF vars, appVars
<1> QED BY <1>1, <1>2, <1>3, <1>4, <1>5, <1>6, <1>7, <1>8, <1>10, <1>11, <1>12
        DEF Next, MessageThread, Application

\* The invariant about ids holds in every reachable state.
LEMMA IdsHold == Spec => []IdInv
  BY InitIds, NextIds, PTL DEF Spec

\* The key of an open session is its id and no two sessions of a side have
\* the same key, while the client changes its key in the handshake, for
\* any number of duplicated and reordered Syns and SynAcks: the assertion
\* of FindOpenSession.
THEOREM KeysAreSessionIds == Spec => []KeysAreIds
<1>1. ASSUME IdInv PROVE KeysAreIds
  <2>1. ASSUME NEW o \in Sessions, InTable(o)
        PROVE  /\ IsOpen(o) => key[o] = session[o].sessionId
               /\ o \in Server => key[o] = o
    <3>1. Genuine(o, session[o]) /\ Fitting(o, session[o], key[o], registered)
      BY <1>1, <2>1, InTableIsGenuine DEF IdInv, TableFits
    <3> QED BY <2>1, <3>1, ObjectAssumption
            DEF Fitting, Genuine, OwnId, InTable, IsOpen, Sessions
  <2>2. ASSUME NEW o \in Sessions, NEW p \in Sessions,
               SideOf(o) = SideOf(p), InTable(o), key[o] = key[p]
        PROVE  o = p
    <3>1. InTable(p)
      BY <2>2 DEF InTable
    <3>2. CASE o = Client
      BY <2>2, <3>2, ClientIsAlone
    <3>3. CASE o # Client
      <4>1. o \in Server /\ p \in Server
        BY <2>2, <3>3, ClientIsAlone DEF Sessions
      <4> QED BY <2>1, <2>2, <3>1, <4>1
    <3> QED BY <3>2, <3>3
  <2> QED BY <2>1, <2>2 DEF KeysAreIds
<1> QED BY <1>1, IdsHold, PTL

\* A protocol server is registered for every callback of a session that is
\* still due: the assertions pServer != nullptr of HandleMessage and
\* Update, however registrations and handshakes interleave.
THEOREM CallbacksFindServer == Spec => []CallbacksHaveServer
<1>1. ASSUME IdInv PROVE CallbacksHaveServer
  <2> SUFFICES ASSUME NEW o \in Server, InTable(o)
               PROVE  CallbackFits(session[o], registered)
    BY DEF CallbacksHaveServer, CallbackFits
  <2> QED BY <1>1 DEF IdInv, TableFits, Fitting, InTable, Sessions
<1> QED BY <1>1, IdsHold, PTL

-----------------------------------------------------------------------------
\* What is sent is what is read: sessions implement paired streams, slots
\* are freed only when the peer has the packet, and a session that got a
\* Fin is closed only when everything in front of it was read.

\* What a call on a session object may do to its two windows.  It writes
\* at most the packets of Q into the send window, each under the next
\* sequence number; it takes the packets below n for acknowledged; it
\* stores packets of P, and reads none; it sends packets of its slots and
\* Acks for what it has stored.  A receive window nothing was ever stored
\* in stays as it is, and nothing is acknowledged.
Writes(w, v, Q) ==
    /\ v.nextSequence = IF Q = {} THEN w.nextSequence ELSE w.nextSequence + 1
    /\ \A i \in Slot : v.messages[i] = w.messages[i] \/ v.messages[i] \in Q

Frees(w, v, n) ==
    \/ v.nextUnacknowledgedSequence <= w.nextUnacknowledgedSequence
    \/ v.nextUnacknowledgedSequence <= n

Stores(w, v, P) ==
    /\ v.nextUnreadSequence = w.nextUnreadSequence
    /\ w.nextExpectedSequence <= v.nextExpectedSequence
    /\ \A i \in Slot : v.valid[i] =>
           \/ v.messages[i] \in P
           \/ w.valid[i] /\ v.messages[i] = w.messages[i]
    /\ P = {} /\ w = InitReadWindow => v = InitReadWindow

Acks(s, t, p, P) ==
    /\ p.messageId = "Ack" /\ p.sessionId = s.sessionId
    /\ p.sequence < t.receiveWindow.nextExpectedSequence
    /\ P # {} \/ s.receiveWindow # InitReadWindow

Emits(s, t, p, P, Q) ==
    \/ p # Unwritten /\ \E i \in Slot : p = s.sendWindow.messages[i]
    \/ p \in Q
    \/ Acks(s, t, p, P)

Continues(s, t, P, Q, n) ==
    /\ t.sessionId = s.sessionId
    /\ Writes(s.sendWindow, t.sendWindow, Q)
    /\ Frees(s.sendWindow, t.sendWindow, n)
    /\ Stores(s.receiveWindow, t.receiveWindow, P)
    /\ \A d \in t.out : d \in s.out \/ Emits(s, t, d.packet, P, Q)

\* A session that ended, and perhaps has sent its Fin, does not begin
\* again, and the application is not told of a session.
Ended == {FinWait2, Closed}

Proceeds(s, t) ==
    /\ t.callbackState = "None" <=> s.callbackState = "None"
    /\ t.connectionEvent = s.connectionEvent
    /\ s.state \in Ended => t.state \in Ended

Follows(s, t, P, Q, n) == Continues(s, t, P, Q, n) /\ Proceeds(s, t)

----------------------------------------------------------------------------
\* The numbers of a session object.
LEMMA SessionNumbers ==
  ASSUME NEW s, SessionOK(s)
  PROVE  /\ s.sendWindow.nextSequence \in Nat
         /\ s.sendWindow.nextUnacknowledgedSequence \in Nat
         /\ s.sendWindow.messages \in [Slot -> Packet]
         /\ s.receiveWindow.nextUnreadSequence \in Nat
         /\ s.receiveWindow.nextExpectedSequence \in Nat
         /\ s.receiveWindow.nextUnreadSequence <= s.receiveWindow.nextExpectedSequence
         /\ s.receiveWindow.messages \in [Slot -> Packet]
         /\ s.receiveWindow.valid \in [Slot -> BOOLEAN]
<1>1. s.sendWindow \in SendWindow /\ RecvOK(s.receiveWindow)
  BY DEF SessionOK, SendOK
<1> QED BY <1>1, RecvOKFields DEF SendWindow

\* A call that writes nothing, and one that does, make one that writes.
LEMMA WritesOn ==
  ASSUME NEW w, NEW v, NEW u, NEW Q, NEW R, Q = {} \/ R = {},
         Writes(w, v, Q), Writes(v, u, R)
  PROVE  Writes(w, u, Q \cup R)
<1>1. u.nextSequence = IF Q \cup R = {} THEN w.nextSequence ELSE w.nextSequence + 1
  <2>1. CASE Q = {}
    BY <2>1 DEF Writes
  <2>2. CASE R = {} /\ Q # {}
    BY <2>2 DEF Writes
  <2> QED BY <2>1, <2>2
<1>2. \A i \in Slot : u.messages[i] = w.messages[i] \/ u.messages[i] \in Q \cup R
  BY DEF Writes
<1> QED BY <1>1, <1>2 DEF Writes

\* Two calls that store at most P store at most P.
LEMMA StoresOn ==
  ASSUME NEW w, NEW v, NEW u, NEW P, Stores(w, v, P), Stores(v, u, P),
         w.nextExpectedSequence \in Nat, v.nextExpectedSequence \in Nat,
         u.nextExpectedSequence \in Nat
  PROVE  Stores(w, u, P)
<1>1. /\ u.nextUnreadSequence = w.nextUnreadSequence
      /\ w.nextExpectedSequence <= u.nextExpectedSequence
  BY DEF Stores
<1>2. \A i \in Slot : u.valid[i] =>
          \/ u.messages[i] \in P
          \/ w.valid[i] /\ u.messages[i] = w.messages[i]
  BY DEF Stores
<1>3. P = {} /\ w = InitReadWindow => u = InitReadWindow
  BY DEF Stores
<1> QED BY <1>1, <1>2, <1>3 DEF Stores

\* Two calls in a row, of which at most one writes.
LEMMA FollowsOn ==
  ASSUME NEW s, NEW t, NEW u, SessionOK(s), SessionOK(t), SessionOK(u),
         NEW P, NEW Q, NEW R, Q = {} \/ R = {}, NEW n \in Nat,
         Follows(s, t, P, Q, n), Follows(t, u, P, R, n)
  PROVE  Follows(s, u, P, Q \cup R, n)
<1> DEFINE T == Q \cup R
<1>1. /\ s.sendWindow.nextUnacknowledgedSequence \in Nat
      /\ t.sendWindow.nextUnacknowledgedSequence \in Nat
      /\ u.sendWindow.nextUnacknowledgedSequence \in Nat
      /\ s.receiveWindow.nextExpectedSequence \in Nat
      /\ t.receiveWindow.nextExpectedSequence \in Nat
      /\ u.receiveWindow.nextExpectedSequence \in Nat
  BY SessionNumbers
<1>2. u.sessionId = s.sessionId /\ Proceeds(s, u)
  BY DEF Follows, Continues, Proceeds
<1>3. Writes(s.sendWindow, u.sendWindow, T)
  BY WritesOn DEF Follows, Continues
<1>4. Frees(s.sendWindow, u.sendWindow, n)
  BY <1>1 DEF Follows, Continues, Frees
<1>5. Stores(s.receiveWindow, u.receiveWindow, P)
  BY <1>1, StoresOn DEF Follows, Continues
<1>6. t.receiveWindow.nextExpectedSequence <= u.receiveWindow.nextExpectedSequence
  BY DEF Follows, Continues, Stores
<1>7. ASSUME NEW d \in u.out
      PROVE  d \in s.out \/ Emits(s, u, d.packet, P, T)
  <2> DEFINE p == d.packet
  <2>1. CASE d \in t.out
    <3>1. CASE Acks(s, t, p, P) /\ ~(d \in s.out)
      <4>1. d \in Datagram
        BY <2>1 DEF SessionOK, SessionObject
      <4>2. p.sequence \in Nat
        BY <4>1 DEF Datagram, Packet
      <4>3. Acks(s, u, p, P)
        BY <1>1, <1>6, <3>1, <4>2 DEF Acks
      <4> QED BY <4>3 DEF Emits
    <3>2. CASE ~Acks(s, t, p, P) \/ d \in s.out
      BY <2>1, <3>2 DEF Follows, Continues, Emits
    <3> QED BY <3>1, <3>2
  <2>2. CASE Emits(t, u, p, P, R)
    <3>1. CASE p # Unwritten /\ \E i \in Slot : p = t.sendWindow.messages[i]
      BY <3>1 DEF Follows, Continues, Writes, Emits
    <3>2. CASE p \in R
      BY <3>2 DEF Emits
    <3>3. CASE Acks(t, u, p, P)
      <4>1. P # {} \/ s.receiveWindow # InitReadWindow
        BY <3>3 DEF Acks, Follows, Continues, Stores
      <4>2. Acks(s, u, p, P)
        BY <3>3, <4>1 DEF Acks, Follows, Continues
      <4> QED BY <4>2 DEF Emits
    <3> QED BY <2>2, <3>1, <3>2, <3>3 DEF Emits
  <2> QED BY <2>1, <2>2 DEF Follows, Continues
<1> HIDE DEF T
<1>8. Follows(s, u, P, T, n)
  BY <1>2, <1>3, <1>4, <1>5, <1>7 DEF Follows, Continues
<1> QED BY <1>8 DEF T

----------------------------------------------------------------------------
\* The member functions of Session, one by one.

\* A window that is left alone.
LEMMA WindowsLeftAlone ==
  ASSUME NEW s, SessionOK(s), NEW P, NEW n
  PROVE  /\ Writes(s.sendWindow, s.sendWindow, {})
         /\ Frees(s.sendWindow, s.sendWindow, n)
         /\ Stores(s.receiveWindow, s.receiveWindow, P)
<1>1. /\ s.sendWindow.nextUnacknowledgedSequence \in Nat
      /\ s.receiveWindow.nextExpectedSequence \in Nat
  BY SessionNumbers
<1> QED BY <1>1 DEF Writes, Frees, Stores

\* A call that does nothing.
LEMMA NothingFollows ==
  ASSUME NEW s, SessionOK(s), NEW P, NEW n
  PROVE  Follows(s, s, P, {}, n)
  BY WindowsLeftAlone DEF Follows, Continues, Proceeds

\* SetState, unless it begins a session again.
LEMMA SetStateFollows ==
  ASSUME NEW s, SessionOK(s), NEW state \in SessionState, NEW P, NEW n,
         s.state \in Ended => state \in Ended
  PROVE  Follows(s, SetState(s, state), P, {}, n)
<1> DEFINE t == SetState(s, state)
<1>1. /\ t.sessionId = s.sessionId /\ t.sendWindow = s.sendWindow
      /\ t.receiveWindow = s.receiveWindow /\ t.out = s.out
      /\ t.callbackState = s.callbackState
      /\ t.connectionEvent = s.connectionEvent /\ t.state = state
  BY DEF SetState, SessionOK, SessionObject
<1> HIDE DEF t
<1>2. Follows(s, t, P, {}, n)
  BY <1>1, WindowsLeftAlone DEF Follows, Continues, Proceeds
<1> QED BY <1>2 DEF t

\* Another send window.
LEMMA SendWindowFollows ==
  ASSUME NEW s, SessionOK(s), NEW w, SendOK(w), NEW P, NEW Q, NEW n,
         Writes(s.sendWindow, w, Q), Frees(s.sendWindow, w, n)
  PROVE  Follows(s, [s EXCEPT !.sendWindow = w], P, Q, n)
<1> DEFINE t == [s EXCEPT !.sendWindow = w]
<1>1. /\ t.sessionId = s.sessionId /\ t.sendWindow = w
      /\ t.receiveWindow = s.receiveWindow /\ t.out = s.out
      /\ t.callbackState = s.callbackState
      /\ t.connectionEvent = s.connectionEvent /\ t.state = s.state
  BY DEF SessionOK, SessionObject
<1> HIDE DEF t
<1>2. Follows(s, t, P, Q, n)
  BY <1>1, WindowsLeftAlone DEF Follows, Continues, Proceeds
<1> QED BY <1>2 DEF t

\* Another receive window.
LEMMA ReceiveWindowFollows ==
  ASSUME NEW s, SessionOK(s), NEW w, NEW P, NEW n, Stores(s.receiveWindow, w, P)
  PROVE  Follows(s, [s EXCEPT !.receiveWindow = w], P, {}, n)
<1> DEFINE t == [s EXCEPT !.receiveWindow = w]
<1>1. /\ t.sessionId = s.sessionId /\ t.sendWindow = s.sendWindow
      /\ t.receiveWindow = w /\ t.out = s.out
      /\ t.callbackState = s.callbackState
      /\ t.connectionEvent = s.connectionEvent /\ t.state = s.state
  BY DEF SessionOK, SessionObject
<1> HIDE DEF t
<1>2. Follows(s, t, P, {}, n)
  BY <1>1, WindowsLeftAlone DEF Follows, Continues, Proceeds
<1> QED BY <1>2 DEF t

\* Packets that may be sent are handed to the transport.
LEMMA ForwardFollows ==
  ASSUME NEW s, SessionOK(s), NEW packets, NEW P, NEW n,
         \A p \in packets : p = Unwritten \/ Emits(s, s, p, P, {})
  PROVE  Follows(s, Forward(s, packets), P, {}, n)
<1> DEFINE size == s.receiveWindow.currentAvailableSize
           new == {MakeDatagram(p, Opposite(s.side), size) :
                      p \in packets \ {Unwritten}}
           t == Forward(s, packets)
<1>1. t = [s EXCEPT !.out = s.out \cup new]
  BY DEF Forward
<1>2. \A d \in new : d.packet \in packets \ {Unwritten}
  BY DEF MakeDatagram
<1> HIDE DEF new, t
<1>3. /\ t.sessionId = s.sessionId /\ t.sendWindow = s.sendWindow
      /\ t.receiveWindow = s.receiveWindow /\ t.out = s.out \cup new
      /\ t.callbackState = s.callbackState
      /\ t.connectionEvent = s.connectionEvent /\ t.state = s.state
  BY <1>1 DEF SessionOK, SessionObject
<1>4. \A d \in t.out : d \in s.out \/ Emits(s, t, d.packet, P, {})
  BY <1>2, <1>3 DEF Emits, Acks
<1>5. Follows(s, t, P, {}, n)
  BY <1>3, <1>4, WindowsLeftAlone DEF Follows, Continues, Proceeds
<1> QED BY <1>5 DEF t

\* An Ack names what was stored last.
LEMMA SendAckMessageFollows ==
  ASSUME NEW s, SessionOK(s), NEW P, NEW n \in Nat,
         P # {} \/ s.receiveWindow # InitReadWindow
  PROVE  /\ Follows(s, SendAckMessage(s), P, {}, n)
         /\ SessionOK(SendAckMessage(s))
<1> DEFINE w == s.receiveWindow
           v == NoteAck(w)
           a == [s EXCEPT !.receiveWindow = v]
           seq == w.nextExpectedSequence - 1
           packet == MakePacket("Ack", a.sessionId, seq, 0, NoSession)
           t == SendAckMessage(s)
<1>1. /\ RecvOK(v) /\ v.messages = w.messages /\ v.valid = w.valid
      /\ v.nextUnreadSequence = w.nextUnreadSequence
      /\ v.nextExpectedSequence = w.nextExpectedSequence
      /\ w.nextExpectedSequence \in Nat
  BY NoteAckOK, SessionNumbers DEF SessionOK
<1>2. P = {} /\ w = InitReadWindow => v = InitReadWindow
  OBVIOUS
<1> HIDE DEF v
<1>3. Stores(w, v, P)
  BY <1>1, <1>2 DEF Stores
<1>4. Follows(s, a, P, {}, n)
  BY <1>3, ReceiveWindowFollows
<1>5. SessionOK(a) /\ a.receiveWindow = v /\ a.sessionId = s.sessionId
  BY <1>1, WithReceiveWindow
<1>6. a.out = s.out /\ Proceeds(s, a)
  BY <1>4 DEF Follows, SessionOK, SessionObject
<1>7. SessionOK(t)
  BY SendAckMessageOK
<1>8. packet.messageId = "Ack" /\ packet.sessionId = s.sessionId
      /\ packet.sequence = seq
  BY <1>5 DEF MakePacket
<1> HIDE DEF a
<1>9. t = Forward(a, {packet})
  BY DEF SendAckMessage, SendControlMessage, a, v
<1> HIDE DEF packet, t
<1>10. \E size : t = [a EXCEPT !.out = a.out \cup
                   {MakeDatagram(p, Opposite(a.side), size) : p \in {packet} \ {Unwritten}}]
  BY <1>9 DEF Forward
<1>11. /\ t.sessionId = a.sessionId /\ t.sendWindow = a.sendWindow
       /\ t.receiveWindow = a.receiveWindow
       /\ t.callbackState = a.callbackState
       /\ t.connectionEvent = a.connectionEvent /\ t.state = a.state
       /\ \A d \in t.out : d \in a.out \/ d.packet = packet
  BY <1>5, <1>10 DEF SessionOK, SessionObject, MakeDatagram
<1>12. Acks(s, t, packet, P)
  BY <1>1, <1>5, <1>8, <1>11 DEF Acks
<1>13. \A d \in t.out : d \in s.out \/ Emits(s, t, d.packet, P, {})
  BY <1>6, <1>11, <1>12 DEF Emits
<1>14. Follows(s, t, P, {}, n)
  BY <1>4, <1>11, <1>13 DEF Follows, Continues, Proceeds
<1> QED BY <1>7, <1>14 DEF t

\* The packets of slots are handed to the transport.
LEMMA ForwardSlotsFollows ==
  ASSUME NEW s, SessionOK(s), NEW seqs, seqs \subseteq Nat, NEW P, NEW n
  PROVE  Follows(s, ForwardSlots(s, seqs), P, {}, n)
<1> DEFINE packets == {s.sendWindow.messages[SlotOf(seq)] : seq \in seqs}
<1>1. \A p \in packets : p = Unwritten \/ Emits(s, s, p, P, {})
  BY SlotOfType DEF Emits
<1> HIDE DEF packets
<1>2. Follows(s, Forward(s, packets), P, {}, n)
  BY <1>1, ForwardFollows
<1> QED BY <1>2 DEF ForwardSlots, packets

\* MarkMessagesAsAcknowledged frees nothing above the acknowledged number.
LEMMA MarkMessagesAsAcknowledgedFollows ==
  ASSUME NEW s, SessionOK(s), NEW max \in Nat, NEW P
  PROVE  Follows(s, MarkMessagesAsAcknowledged(s, max), P, {}, max + 1)
<1> DEFINE w == s.sendWindow
           end == AckedUpTo(w, max)
           f == FreeSlots(w, end)
           k == CountDuplicateAck(w)
           c == [s EXCEPT !.sendWindow = k]
           t == MarkMessagesAsAcknowledged(s, max)
<1>1. /\ SendOK(w) /\ w \in SendWindow /\ max + 1 \in Nat
      /\ w.nextUnacknowledgedSequence \in Nat /\ w.lastSentSequence \in Nat
  BY DEF SessionOK, SendOK, SendWindow
<1>2. CASE w.nextUnacknowledgedSequence < end
  <2> DEFINE hi == Smaller(max, w.lastSentSequence)
  <2>1. end = IF hi < w.nextUnacknowledgedSequence
              THEN w.nextUnacknowledgedSequence ELSE hi + 1
    BY <1>1, AckedUpToValue
  <2>2. hi \in Nat /\ hi <= max /\ hi <= w.lastSentSequence
    BY <1>1 DEF Smaller
  <2>3. t = [s EXCEPT !.sendWindow = f]
    BY <1>2 DEF MarkMessagesAsAcknowledged
  <2>4. /\ f.messages = w.messages /\ f.nextSequence = w.nextSequence
        /\ f.nextUnacknowledgedSequence = end
    BY <1>1 DEF FreeSlots, SendWindow
  <2> HIDE DEF t, f, end, hi
  <2>5. end = hi + 1
    BY <1>1, <1>2, <2>1, <2>2
  <2>6. end \in w.nextUnacknowledgedSequence..(w.lastSentSequence + 1)
    BY <1>1, <1>2, <2>2, <2>5
  <2>7. SendOK(f)
    BY <1>1, <2>6, FreeSlotsOK DEF f
  <2>8. Writes(w, f, {})
    BY <2>4 DEF Writes
  <2>9. Frees(w, f, max + 1)
    BY <2>2, <2>4, <2>5 DEF Frees
  <2>10. Follows(s, t, P, {}, max + 1)
    BY <2>3, <2>7, <2>8, <2>9, SendWindowFollows
  <2> QED BY <2>10 DEF t
<1>3. CASE ~(w.nextUnacknowledgedSequence < end)
  <2>1. /\ SendOK(k) /\ k.messages = w.messages /\ k.nextSequence = w.nextSequence
        /\ k.nextUnacknowledgedSequence = w.nextUnacknowledgedSequence
    BY <1>1, CountDuplicateAckOK DEF CountDuplicateAck, SendWindow
  <2>2. t = FastRetransmit(c)
    BY <1>3 DEF MarkMessagesAsAcknowledged
  <2> HIDE DEF t, k
  <2>3. Writes(w, k, {}) /\ Frees(w, k, max + 1)
    BY <1>1, <2>1 DEF Writes, Frees
  <2>4. Follows(s, c, P, {}, max + 1) /\ SessionOK(c)
    BY <2>1, <2>3, SendWindowFollows, WithSendWindow
  <2> HIDE DEF c
  <2>5. c.sendWindow.lastAckCount \in Nat
        /\ c.sendWindow.nextUnacknowledgedSequence \in Nat
    BY <2>4 DEF SessionOK, SendOK, SendWindow
  <2>6. CASE c.sendWindow.lastAckCount >= kFastRetransmitThreshold
    <3>1. {FastRetransmitSequence(c.sendWindow)} \subseteq Nat
      BY <2>5, <2>6, WindowAssumption DEF FastRetransmitSequence
    <3>2. t = ForwardSlots(c, {FastRetransmitSequence(c.sendWindow)})
      BY <2>2, <2>6 DEF FastRetransmit
    <3>3. Follows(c, t, P, {}, max + 1) /\ SessionOK(t)
      BY <2>4, <3>1, <3>2, ForwardSlotsFollows, ForwardSlotsOK
    <3>4. Follows(s, t, P, {} \cup {}, max + 1)
      BY <1>1, <2>4, <3>3, FollowsOn
    <3> QED BY <3>4 DEF t
  <2>7. CASE ~(c.sendWindow.lastAckCount >= kFastRetransmitThreshold)
    <3>1. t = c
      BY <2>2, <2>7 DEF FastRetransmit
    <3> QED BY <2>4, <3>1 DEF t
  <2> QED BY <2>6, <2>7
<1> QED BY <1>2, <1>3

\* WriteMessageIntoReceiveWindow stores the packet, if anything.
LEMMA WriteMessageIntoReceiveWindowFollows ==
  ASSUME NEW s, SessionOK(s), NEW packet \in Packet, NEW n \in Nat
  PROVE  Follows(s, WriteMessageIntoReceiveWindow(s, packet), {packet}, {}, n)
<1> DEFINE w == s.receiveWindow
           v == StorePacket(w, packet)
           P == {packet}
           t == WriteMessageIntoReceiveWindow(s, packet)
           stored == [s EXCEPT !.receiveWindow = v]
<1>1. CASE ~IsNew(w, packet)
  <2>1. t = SendAckMessage(s)
    BY <1>1 DEF WriteMessageIntoReceiveWindow
  <2>2. P # {}
    OBVIOUS
  <2> HIDE DEF P
  <2>3. Follows(s, SendAckMessage(s), P, {}, n)
    BY <2>2, SendAckMessageFollows
  <2> QED BY <2>1, <2>3 DEF P
<1>2. CASE IsNew(w, packet) /\ ~Fits(w, packet)
  <2>1. t = s
    BY <1>2 DEF WriteMessageIntoReceiveWindow
  <2> QED BY <2>1, NothingFollows
<1>3. CASE IsNew(w, packet) /\ Fits(w, packet)
  <2>1. RecvOK(v) /\ Stores(w, v, P)
    <3>1. RecvOK(w)
      BY DEF SessionOK
    <3>2. /\ RecvOK(v) /\ v.nextUnreadSequence = w.nextUnreadSequence
          /\ w.nextExpectedSequence <= v.nextExpectedSequence
          /\ \A i \in Slot : v.valid[i] =>
                 \/ v.messages[i] = packet
                 \/ w.valid[i] /\ v.messages[i] = w.messages[i]
      BY <1>3, <3>1, StorePacketOK
    <3> HIDE DEF v
    <3> QED BY <3>2 DEF Stores
  <2>2. t \in {SendAckMessage(stored), stored}
    BY <1>3 DEF WriteMessageIntoReceiveWindow
  <2>3. P # {}
    OBVIOUS
  <2> HIDE DEF t, v, P
  <2>4. Follows(s, stored, P, {}, n) /\ SessionOK(stored)
    BY <2>1, ReceiveWindowFollows, WithReceiveWindow
  <2> HIDE DEF stored
  <2>5. /\ Follows(stored, SendAckMessage(stored), P, {}, n)
        /\ SessionOK(SendAckMessage(stored))
    BY <2>3, <2>4, SendAckMessageFollows
  <2>6. Follows(s, SendAckMessage(stored), P, {} \cup {}, n)
    BY <2>4, <2>5, FollowsOn
  <2>7. Follows(s, t, P, {}, n)
    BY <2>2, <2>4, <2>6
  <2> QED BY <2>7 DEF t, P
<1> QED BY <1>1, <1>2, <1>3

\* WriteMessageIntoSendWindow gives the packet the next sequence number.
Written(s, id, payload, initial) ==
    MakePacket(id, s.sessionId, s.sendWindow.nextSequence, payload, initial)

LEMMA WriteMessageIntoSendWindowFollows ==
  ASSUME NEW s, SessionOK(s), HasFreeSlot(s.sendWindow),
         NEW id \in SessionMessage, NEW payload \in Nat, NEW initial \in SessionId,
         NEW P, NEW n
  PROVE  Follows(s, WriteMessageIntoSendWindow(s, id, payload, initial), P,
                 {Written(s, id, payload, initial)}, n)
<1> DEFINE w == s.sendWindow
           packet == Written(s, id, payload, initial)
           v == WriteSlot(w, id, s.sessionId, payload, initial)
           t == WriteMessageIntoSendWindow(s, id, payload, initial)
<1>1. /\ SendOK(w) /\ w \in SendWindow /\ w.nextSequence \in Nat
      /\ s.sessionId \in SessionId /\ w.nextUnacknowledgedSequence \in Nat
  BY DEF SessionOK, SessionObject, SendOK, SendWindow
<1>2. SendOK(v)
  BY <1>1, WriteSlotOK
<1>3. /\ v.messages = [w.messages EXCEPT ![SlotOf(w.nextSequence)] = packet]
      /\ v.nextSequence = w.nextSequence + 1
      /\ v.nextUnacknowledgedSequence = w.nextUnacknowledgedSequence
  BY <1>1 DEF WriteSlot, SendWindow, Written
<1>4. w.messages \in [Slot -> Packet]
  BY <1>1 DEF SendWindow
<1>5. t = [s EXCEPT !.sendWindow = v]
  BY DEF WriteMessageIntoSendWindow
<1> HIDE DEF v, t, packet
<1>6. Writes(w, v, {packet})
  BY <1>3, <1>4 DEF Writes
<1>7. Frees(w, v, n)
  BY <1>1, <1>3 DEF Frees
<1>8. Follows(s, t, P, {packet}, n)
  BY <1>2, <1>5, <1>6, <1>7, SendWindowFollows
<1> QED BY <1>8 DEF t, packet

\* TakeWindowSize.
LEMMA TakeWindowSizeFollows ==
  ASSUME NEW s, SessionOK(s), NEW size \in Nat, NEW P, NEW n
  PROVE  Follows(s, [s EXCEPT !.sendWindow = UpdateSendWindowSize(@, size)], P, {}, n)
<1> DEFINE w == s.sendWindow
           v == UpdateSendWindowSize(w, size)
<1>1. w \in SendWindow /\ w.nextUnacknowledgedSequence \in Nat /\ SendOK(w)
  BY DEF SessionOK, SendOK, SendWindow
<1>2. /\ v.messages = w.messages /\ v.nextSequence = w.nextSequence
      /\ v.nextUnacknowledgedSequence = w.nextUnacknowledgedSequence
  BY <1>1 DEF UpdateSendWindowSize, SendWindow
<1>3. SendOK(v)
  BY <1>1, UpdateSendWindowSizeOK
<1> HIDE DEF v
<1>4. Writes(w, v, {}) /\ Frees(w, v, n)
  BY <1>1, <1>2 DEF Writes, Frees
<1>5. Follows(s, [s EXCEPT !.sendWindow = v], P, {}, n)
  BY <1>3, <1>4, SendWindowFollows
<1> QED BY <1>5 DEF v

\* A handler ends with the window size of the peer.
LEMMA ThenTakeWindowSize ==
  ASSUME NEW s, SessionOK(s), NEW t, SessionOK(t), NEW d \in Datagram,
         NEW P, NEW n \in Nat, Follows(s, t, P, {}, n)
  PROVE  Follows(s, TakeWindowSize(t, d), P, {}, n)
<1> DEFINE u == TakeWindowSize(t, d)
<1>1. d.windowSize \in Nat
  BY DEF Datagram
<1>2. Follows(t, u, P, {}, n)
  BY <1>1, TakeWindowSizeFollows DEF TakeWindowSize
<1>3. SessionOK(u)
  BY TakeWindowSizeOK
<1> HIDE DEF u
<1>4. Follows(s, u, P, {} \cup {}, n)
  BY <1>2, <1>3, FollowsOn
<1> QED BY <1>4 DEF u

\* Shutdown does not begin a session again.
LEMMA ShutdownFollows ==
  ASSUME NEW s, SessionOK(s), NEW graceful \in BOOLEAN, NEW P, NEW n
  PROVE  Follows(s, Shutdown(s, graceful), P, {}, n)
<1>1. /\ Closed \in SessionState /\ FinWait1 \in SessionState
      /\ Closed \in Ended /\ Established \notin Ended
  BY DEF Closed, FinWait1, FinWait2, Established, SessionState, Ended
<1>2. Follows(s, SetState(s, Closed), P, {}, n)
  BY <1>1, SetStateFollows
<1>3. s.state = Established => Follows(s, SetState(s, FinWait1), P, {}, n)
  BY <1>1, SetStateFollows
<1>4. Follows(s, s, P, {}, n)
  BY NothingFollows
<1> QED BY <1>2, <1>3, <1>4 DEF Shutdown

\* The message handlers.
LEMMA HandleLaterFinMessageFollows ==
  ASSUME NEW s, SessionOK(s), NEW d \in Datagram, NEW n \in Nat
  PROVE  Follows(s, HandleLaterFinMessage(s, d), {d.packet}, {}, n)
<1> DEFINE P == {d.packet}
           a == WriteMessageIntoReceiveWindow(s, d.packet)
           b == SendAckMessage(a)
           c == SetState(b, Closed)
           t == IF s.state = FinWait2 THEN c ELSE s
<1>1. d.packet \in Packet /\ P # {} /\ Closed \in SessionState /\ Closed \in Ended
  BY DEF Datagram, Closed, SessionState, Ended
<1>2. Follows(s, a, P, {}, n) /\ SessionOK(a)
  BY <1>1, WriteMessageIntoReceiveWindowFollows, WriteMessageIntoReceiveWindowOK
<1> HIDE DEF a, P
<1>3. Follows(a, b, P, {}, n) /\ SessionOK(b)
  BY <1>1, <1>2, SendAckMessageFollows
<1> HIDE DEF b
<1>4. Follows(b, c, P, {}, n) /\ SessionOK(c)
  BY <1>1, <1>3, SetStateFollows, SetStateOK
<1> HIDE DEF c
<1>5. Follows(s, b, P, {} \cup {}, n)
  BY <1>2, <1>3, FollowsOn
<1>6. Follows(s, c, P, {} \cup {}, n)
  BY <1>3, <1>4, <1>5, FollowsOn
<1>7. Follows(s, t, P, {}, n) /\ SessionOK(t)
  BY <1>4, <1>6, NothingFollows
<1>8. HandleLaterFinMessage(s, d) = TakeWindowSize(t, d)
  BY DEF HandleLaterFinMessage, a, b, c
<1> HIDE DEF t
<1>9. Follows(s, TakeWindowSize(t, d), P, {}, n)
  BY <1>7, ThenTakeWindowSize
<1> QED BY <1>8, <1>9 DEF P

LEMMA HandleDataMessageFollows ==
  ASSUME NEW s, SessionOK(s), NEW d \in Datagram, NEW n \in Nat
  PROVE  Follows(s, HandleDataMessage(s, d), {d.packet}, {}, n)
<1> DEFINE P == {d.packet}
           a == WriteMessageIntoReceiveWindow(s, d.packet)
           t == IF s.state \in {FinWait1, FinWait2, Established} THEN a ELSE s
<1>1. d.packet \in Packet
  BY DEF Datagram
<1>2. Follows(s, a, P, {}, n) /\ SessionOK(a)
  BY <1>1, WriteMessageIntoReceiveWindowFollows, WriteMessageIntoReceiveWindowOK
<1> HIDE DEF a, P
<1>3. Follows(s, t, P, {}, n) /\ SessionOK(t)
  BY <1>2, NothingFollows
<1>4. HandleDataMessage(s, d) = TakeWindowSize(t, d)
  BY DEF HandleDataMessage, a
<1> HIDE DEF t
<1>5. Follows(s, TakeWindowSize(t, d), P, {}, n)
  BY <1>3, ThenTakeWindowSize
<1> QED BY <1>4, <1>5 DEF P

LEMMA HandleAckMessageFollows ==
  ASSUME NEW s, SessionOK(s), NEW d \in Datagram, NEW P
  PROVE  Follows(s, HandleAckMessage(s, d), P, {}, d.packet.sequence + 1)
<1> DEFINE n == d.packet.sequence + 1
           a == IF s.state = SynReceived THEN SetState(s, Established) ELSE s
           b == MarkMessagesAsAcknowledged(a, d.packet.sequence)
           t == IF a.state >= Established THEN b ELSE s
<1>1. d.packet.sequence \in Nat /\ n \in Nat
  BY DEF Datagram, Packet
<1>2. /\ Established \in SessionState
      /\ s.state = SynReceived => s.state \notin Ended
  BY DEF SynReceived, Established, FinWait2, Closed, SessionState, Ended
<1>3. Follows(s, a, P, {}, n) /\ SessionOK(a)
  BY <1>2, SetStateFollows, SetStateOK, NothingFollows
<1> HIDE DEF a
<1>4. Follows(a, b, P, {}, n) /\ SessionOK(b)
  BY <1>1, <1>3, MarkMessagesAsAcknowledgedFollows, MarkMessagesAsAcknowledgedOK
<1> HIDE DEF b, n
<1>5. Follows(s, b, P, {} \cup {}, n)
  BY <1>1, <1>3, <1>4, FollowsOn
<1>6. Follows(s, t, P, {}, n) /\ SessionOK(t)
  BY <1>4, <1>5, NothingFollows
<1>7. HandleAckMessage(s, d) = TakeWindowSize(t, d)
  BY DEF HandleAckMessage, a, b
<1> HIDE DEF t
<1>8. Follows(s, TakeWindowSize(t, d), P, {}, n)
  BY <1>1, <1>6, ThenTakeWindowSize
<1> QED BY <1>7, <1>8 DEF n

LEMMA HandleRstMessageFollows ==
  ASSUME NEW s, SessionOK(s), NEW d \in Datagram, NEW P, NEW n \in Nat
  PROVE  Follows(s, HandleRstMessage(s, d), P, {}, n)
<1> DEFINE t == Shutdown(s, FALSE)
<1>1. Follows(s, t, P, {}, n) /\ SessionOK(t)
  BY ShutdownFollows, ShutdownOK
<1> HIDE DEF t
<1>2. Follows(s, TakeWindowSize(t, d), P, {}, n)
  BY <1>1, ThenTakeWindowSize
<1> QED BY <1>2 DEF HandleRstMessage, t

\* A SynAck that comes again is taken for an acknowledgement.
LEMMA LaterSynAckFollows ==
  ASSUME NEW s, SessionOK(s), s.state # SynSent, NEW d \in Datagram, NEW P
  PROVE  \/ Follows(s, HandleSynAckMessage(s, d), P, {}, 0)
         \/ /\ s.state >= Established
            /\ Follows(s, HandleSynAckMessage(s, d), P, {}, d.packet.sequence + 1)
<1> DEFINE n == d.packet.sequence + 1
           b == MarkMessagesAsAcknowledged(s, d.packet.sequence)
           t == IF s.state >= Established THEN b ELSE s
<1>1. d.packet.sequence \in Nat /\ n \in Nat
  BY DEF Datagram, Packet
<1>2. HandleSynAckMessage(s, d) = TakeWindowSize(t, d)
  BY DEF HandleSynAckMessage
<1>3. CASE s.state >= Established
  <2>1. Follows(s, b, P, {}, n) /\ SessionOK(b)
    BY <1>1, MarkMessagesAsAcknowledgedFollows, MarkMessagesAsAcknowledgedOK
  <2>2. t = b
    BY <1>3
  <2> HIDE DEF b, t, n
  <2>3. Follows(s, TakeWindowSize(t, d), P, {}, n)
    BY <1>1, <2>1, <2>2, ThenTakeWindowSize
  <2> QED BY <1>2, <1>3, <2>3 DEF n
<1>4. CASE ~(s.state >= Established)
  <2>1. t = s /\ Follows(s, s, P, {}, 0)
    BY <1>4, NothingFollows
  <2> HIDE DEF t
  <2>2. Follows(s, TakeWindowSize(t, d), P, {}, 0)
    BY <2>1, ThenTakeWindowSize
  <2> QED BY <1>2, <2>2
<1> QED BY <1>3, <1>4

----------------------------------------------------------------------------
\* Update, part by part.
LEMMA UpdateReceiveWindowFollows ==
  ASSUME NEW s, SessionOK(s), NEW P, NEW n \in Nat
  PROVE  Follows(s, UpdateReceiveWindow(s), P, {}, n)
<1>1. CASE PendingAck(s.receiveWindow)
  <2>1. s.receiveWindow # InitReadWindow
    BY <1>1 DEF PendingAck, InitReadWindow
  <2>2. Follows(s, SendAckMessage(s), P, {}, n)
    BY <2>1, SendAckMessageFollows
  <2> QED BY <1>1, <2>2 DEF UpdateReceiveWindow
<1>2. CASE ~PendingAck(s.receiveWindow)
  BY <1>2, NothingFollows DEF UpdateReceiveWindow
<1> QED BY <1>1, <1>2

LEMMA RetransmitOrShutdownFollows ==
  ASSUME NEW s, SessionOK(s), NEW late \in Nat, NEW P, NEW n \in Nat
  PROVE  LET t == RetransmitOrShutdown(s, late)
         IN  /\ Follows(s, t, P, {}, n) /\ SessionOK(t)
             /\ t.state \in {s.state, Closed}
             /\ s.sendWindow.retransmitCount <= kMaxRetransmits => t.state = s.state
             /\ t.receiveWindow = s.receiveWindow
             /\ t.side = s.side /\ t.callbackState = s.callbackState
<1> DEFINE w == s.sendWindow
           a == Shutdown(s, FALSE)
           b == ForwardSlots(s, Retransmitted(w, late))
           v == CountRetransmit(b.sendWindow, late)
           c == [b EXCEPT !.sendWindow = v]
           t == RetransmitOrShutdown(s, late)
<1>1. /\ t \in {s, a, c}
      /\ w.retransmitCount <= kMaxRetransmits => t \in {s, c}
  <2>1. w.retransmitCount \in Nat /\ kMaxRetransmits \in Nat
    BY WindowAssumption DEF SessionOK, SendOK, SendWindow
  <2>2. t = IF Outstanding(w) = 0 THEN s
            ELSE IF w.retransmitCount > kMaxRetransmits THEN a ELSE c
    BY DEF RetransmitOrShutdown
  <2> HIDE DEF t, a, c
  <2> QED BY <2>1, <2>2
<1>2. /\ Follows(s, a, P, {}, n) /\ SessionOK(a) /\ a.state = Closed
      /\ a.receiveWindow = s.receiveWindow
      /\ a.side = s.side /\ a.callbackState = s.callbackState
  <2>1. a = SetState(s, Closed)
    BY DEF Shutdown
  <2>2. a.side = s.side /\ a.callbackState = s.callbackState /\ a.state = Closed
    BY <2>1 DEF SetState, SessionOK, SessionObject
  <2> QED BY <2>2, ShutdownFollows, ShutdownOK
<1>3. /\ Follows(s, c, P, {}, n) /\ SessionOK(c) /\ c.state = s.state
      /\ c.receiveWindow = s.receiveWindow
      /\ c.side = s.side /\ c.callbackState = s.callbackState
  <2>1. w.nextUnacknowledgedSequence \in Nat
    BY DEF SessionOK, SendOK, SendWindow
  <2>2. Retransmitted(w, late) \subseteq Nat
    BY <2>1 DEF Retransmitted
  <2>3. /\ Follows(s, b, P, {}, n) /\ SessionOK(b) /\ b.state = s.state
        /\ b.receiveWindow = s.receiveWindow
    BY <2>2, ForwardSlotsFollows, ForwardSlotsOK
  <2>4. b.side = s.side /\ b.callbackState = s.callbackState
    BY DEF ForwardSlots, Forward, SessionOK, SessionObject
  <2> HIDE DEF b
  <2>5. /\ b.sendWindow \in SendWindow
        /\ b.sendWindow.nextUnacknowledgedSequence \in Nat
    BY <2>3 DEF SessionOK, SendOK, SendWindow
  <2>6. /\ SendOK(v) /\ v.messages = b.sendWindow.messages
        /\ v.nextSequence = b.sendWindow.nextSequence
        /\ v.nextUnacknowledgedSequence = b.sendWindow.nextUnacknowledgedSequence
    BY <2>3, CountRetransmitOK DEF SessionOK, SendOK, SendWindow, CountRetransmit
  <2> HIDE DEF v
  <2>7. Writes(b.sendWindow, v, {}) /\ Frees(b.sendWindow, v, n)
    BY <2>5, <2>6 DEF Writes, Frees
  <2>8. /\ Follows(b, c, P, {}, n) /\ SessionOK(c) /\ c.state = b.state
        /\ c.receiveWindow = b.receiveWindow
    BY <2>3, <2>6, <2>7, SendWindowFollows, WithSendWindow
  <2>9. c.side = b.side /\ c.callbackState = b.callbackState
    BY <2>3 DEF SessionOK, SessionObject
  <2> HIDE DEF c
  <2>10. Follows(s, c, P, {} \cup {}, n)
    BY <2>3, <2>8, FollowsOn
  <2> QED BY <2>3, <2>4, <2>8, <2>9, <2>10
<1>4. Follows(s, s, P, {}, n)
  BY NothingFollows
<1> HIDE DEF a, c, t
<1>5. /\ Follows(s, t, P, {}, n) /\ SessionOK(t)
      /\ t.state \in {s.state, Closed}
      /\ w.retransmitCount <= kMaxRetransmits => t.state = s.state
      /\ t.receiveWindow = s.receiveWindow
      /\ t.side = s.side /\ t.callbackState = s.callbackState
  BY <1>1, <1>2, <1>3, <1>4
<1> QED BY <1>5 DEF t

LEMMA TransmitUnsentFollows ==
  ASSUME NEW s, SessionOK(s), NEW room \in Nat, NEW P, NEW n \in Nat
  PROVE  LET t == TransmitUnsent(s, room)
         IN  /\ Follows(s, t, P, {}, n) /\ SessionOK(t) /\ t.state = s.state
             /\ t.receiveWindow = s.receiveWindow
             /\ t.side = s.side /\ t.callbackState = s.callbackState
<1> DEFINE b == ForwardSlots(s, Transmitted(s.sendWindow, room))
           v == Transmit(b.sendWindow, room)
           c == [b EXCEPT !.sendWindow = v]
<1>1. TransmitUnsent(s, room) = c
  BY DEF TransmitUnsent
<1>2. Transmitted(s.sendWindow, room) \subseteq Nat
  BY TransmitOK DEF SessionOK
<1>3. /\ Follows(s, b, P, {}, n) /\ SessionOK(b) /\ b.state = s.state
      /\ b.receiveWindow = s.receiveWindow
  BY <1>2, ForwardSlotsFollows, ForwardSlotsOK
<1>4. b.side = s.side /\ b.callbackState = s.callbackState
  BY DEF ForwardSlots, Forward, SessionOK, SessionObject
<1> HIDE DEF b
<1>5. /\ b.sendWindow \in SendWindow
      /\ b.sendWindow.nextUnacknowledgedSequence \in Nat
  BY <1>3 DEF SessionOK, SendOK, SendWindow
<1>6. /\ SendOK(v) /\ v.messages = b.sendWindow.messages
      /\ v.nextSequence = b.sendWindow.nextSequence
      /\ v.nextUnacknowledgedSequence = b.sendWindow.nextUnacknowledgedSequence
  BY <1>3, TransmitOK DEF SessionOK, SendOK, SendWindow, Transmit
<1> HIDE DEF v
<1>7. Writes(b.sendWindow, v, {}) /\ Frees(b.sendWindow, v, n)
  BY <1>5, <1>6 DEF Writes, Frees
<1>8. /\ Follows(b, c, P, {}, n) /\ SessionOK(c) /\ c.state = b.state
      /\ c.receiveWindow = b.receiveWindow
  BY <1>3, <1>6, <1>7, SendWindowFollows, WithSendWindow
<1>9. c.side = b.side /\ c.callbackState = b.callbackState
  BY <1>3 DEF SessionOK, SessionObject
<1> HIDE DEF c
<1>10. Follows(s, c, P, {} \cup {}, n)
  BY <1>3, <1>8, FollowsOn
<1> QED BY <1>1, <1>3, <1>4, <1>8, <1>9, <1>10

\* A call that writes nothing, or the Fin in FinWait1.
FinOf(s) == Written(s, "Fin", 0, NoSession)

MayFin(s, t, P, n) ==
    \/ Follows(s, t, P, {}, n)
    \/ s.state = FinWait1 /\ t.state \in Ended /\ Follows(s, t, P, {FinOf(s)}, n)

\* A call that writes nothing in front of one that may write the Fin.
LEMMA ThenMayFin ==
  ASSUME NEW s, NEW t, NEW u, SessionOK(s), SessionOK(t), SessionOK(u),
         NEW P, NEW n \in Nat, Follows(s, t, P, {}, n),
         t.state \in {s.state, Closed}, MayFin(t, u, P, n)
  PROVE  MayFin(s, u, P, n)
<1>1. CASE Follows(t, u, P, {}, n)
  <2>1. Follows(s, u, P, {} \cup {}, n)
    BY <1>1, FollowsOn
  <2> QED BY <2>1 DEF MayFin
<1>2. CASE t.state = FinWait1 /\ u.state \in Ended /\ Follows(t, u, P, {FinOf(t)}, n)
  <2>1. FinOf(t) = FinOf(s)
    BY DEF FinOf, Written, Follows, Continues, Writes
  <2>2. s.state = FinWait1
    BY <1>2 DEF FinWait1, Closed
  <2> DEFINE Q == {FinOf(s)}
  <2>3. Follows(t, u, P, Q, n)
    BY <1>2, <2>1
  <2> HIDE DEF Q
  <2>4. Follows(s, u, P, {} \cup Q, n)
    BY <2>3, FollowsOn
  <2>5. {} \cup Q = Q
    OBVIOUS
  <2>6. Follows(s, u, P, Q, n)
    BY <2>4, <2>5
  <2> QED BY <1>2, <2>2, <2>6 DEF MayFin, Q
<1> QED BY <1>1, <1>2 DEF MayFin

\* A call that writes nothing after one that may have written the Fin.
LEMMA MayFinThen ==
  ASSUME NEW s, NEW t, NEW u, SessionOK(s), SessionOK(t), SessionOK(u),
         NEW P, NEW n \in Nat, MayFin(s, t, P, n), Follows(t, u, P, {}, n)
  PROVE  MayFin(s, u, P, n)
<1>1. CASE Follows(s, t, P, {}, n)
  <2>1. Follows(s, u, P, {} \cup {}, n)
    BY <1>1, FollowsOn
  <2> QED BY <2>1 DEF MayFin
<1>2. CASE s.state = FinWait1 /\ t.state \in Ended /\ Follows(s, t, P, {FinOf(s)}, n)
  <2> DEFINE Q == {FinOf(s)}
  <2>1. Follows(s, t, P, Q, n)
    BY <1>2
  <2> HIDE DEF Q
  <2>2. Follows(s, u, P, Q \cup {}, n)
    BY <2>1, FollowsOn
  <2>3. Q \cup {} = Q /\ u.state \in Ended
    BY <1>2 DEF Follows, Proceeds
  <2>4. Follows(s, u, P, Q, n)
    BY <2>2, <2>3
  <2> QED BY <1>2, <2>3, <2>4 DEF MayFin, Q
<1> QED BY <1>1, <1>2 DEF MayFin

\* UpdateTimeout writes the Fin in FinWait1, and may close the session.
LEMMA UpdateTimeoutMayFin ==
  ASSUME NEW s, Good(s), NEW P, NEW n \in Nat
  PROVE  MayFin(s, UpdateTimeout(s), P, n) /\ SessionOK(UpdateTimeout(s))
<1> DEFINE a == WriteMessageIntoSendWindow(s, "Fin", 0, NoSession)
           b == SetState(a, FinWait2)
           f == WriteFin(s)
           c == SetState(f, Closed)
           t == UpdateTimeout(s)
<1>1. /\ "Fin" \in SessionMessage /\ NoSession \in SessionId
      /\ FinWait2 \in SessionState /\ Closed \in SessionState
      /\ FinWait2 \in Ended /\ Closed \in Ended /\ FinWait1 \notin Ended
  BY DEF SessionMessage, SessionId, FinWait1, FinWait2, Closed, SessionState, Ended
<1>2. MayFin(s, f, P, n) /\ SessionOK(f)
  <2>1. CASE s.state = FinWait1 /\ CanWriteMessage(s)
    <3> DEFINE Q == {FinOf(s)}
    <3>1. Follows(s, a, P, Q, n) /\ SessionOK(a)
      BY <1>1, <2>1, WriteMessageIntoSendWindowFollows, WriteMessageIntoSendWindowOK
         DEF CanWriteMessage, Good, FinOf
    <3> HIDE DEF a, Q
    <3>2. Follows(a, b, P, {}, n) /\ SessionOK(b) /\ b.state = FinWait2
      BY <1>1, <3>1, SetStateFollows, SetStateOK
    <3>3. f = b
      BY <2>1 DEF WriteFin, a
    <3> HIDE DEF b, f
    <3>4. Follows(s, b, P, Q \cup {}, n)
      BY <3>1, <3>2, FollowsOn DEF Good
    <3>5. Q \cup {} = Q
      OBVIOUS
    <3>6. Follows(s, f, P, Q, n) /\ f.state \in Ended
      BY <1>1, <3>2, <3>3, <3>4, <3>5
    <3> QED BY <2>1, <3>2, <3>3, <3>6 DEF MayFin, Q
  <2>2. CASE ~(s.state = FinWait1 /\ CanWriteMessage(s))
    BY <2>2, NothingFollows DEF WriteFin, MayFin, Good
  <2> QED BY <2>1, <2>2
<1>3. t \in {f, c}
  BY DEF UpdateTimeout, CloseIfDone
<1> HIDE DEF f, t
<1>4. Follows(f, c, P, {}, n) /\ SessionOK(c)
  BY <1>1, <1>2, SetStateFollows, SetStateOK
<1> HIDE DEF c
<1>5. MayFin(s, c, P, n)
  BY <1>2, <1>4, MayFinThen DEF Good
<1>6. MayFin(s, t, P, n) /\ SessionOK(t)
  BY <1>2, <1>3, <1>4, <1>5
<1> QED BY <1>6 DEF t

\* The last reference.
LEMMA ShutdownIfLastReferenceFollows ==
  ASSUME NEW s, SessionOK(s), NEW last \in BOOLEAN, NEW P, NEW n
  PROVE  LET t == ShutdownIfLastReference(s, last)
         IN  Follows(s, t, P, {}, n) /\ SessionOK(t)
<1>1. ShutdownIfLastReference(s, last) \in {s, Shutdown(s, TRUE)}
  BY DEF ShutdownIfLastReference
<1>2. Follows(s, Shutdown(s, TRUE), P, {}, n) /\ SessionOK(Shutdown(s, TRUE))
  BY ShutdownFollows, ShutdownOK
<1> QED BY <1>1, <1>2, NothingFollows

\* SessionTerminated is called for a session that called SessionEstablished.
LEMMA NotifyClosedFollows ==
  ASSUME NEW s, SessionOK(s), NEW P, NEW n
  PROVE  LET t == NotifyClosed(s)
         IN  Follows(s, t, P, {}, n) /\ SessionOK(t) /\ t.state = s.state
<1> DEFINE cb == IF s.side = "server" /\ s.callbackState = "EstablishedCalled"
                 THEN "TerminatedCalled" ELSE s.callbackState
           a == [s EXCEPT !.disconnectionEvent = TRUE, !.callbackState = cb]
           t == NotifyClosed(s)
<1>1. s \in SessionObject /\ cb \in SessionCallbackState
  BY DEF SessionOK, SessionObject, SessionCallbackState
<1>2. cb = "None" <=> s.callbackState = "None"
  OBVIOUS
<1>3. t = IF s.state # Closed THEN s ELSE a
  BY DEF NotifyClosed
<1> HIDE DEF cb, t
<1>4. /\ a \in SessionObject /\ a.state = s.state
      /\ a.sendWindow = s.sendWindow /\ a.receiveWindow = s.receiveWindow
      /\ a.sessionId = s.sessionId /\ a.out = s.out
      /\ a.callbackState = cb /\ a.connectionEvent = s.connectionEvent
  BY <1>1 DEF SessionObject
<1> HIDE DEF a
<1>5. SessionOK(a)
  BY <1>4 DEF SessionOK
<1>6. Follows(s, a, P, {}, n)
  BY <1>2, <1>4, WindowsLeftAlone DEF Follows, Continues, Proceeds
<1>7. Follows(s, t, P, {}, n) /\ SessionOK(t) /\ t.state = s.state
  BY <1>3, <1>4, <1>5, <1>6, NothingFollows
<1> QED BY <1>7 DEF t

\* Update as a whole.
LEMMA UpdateMayFin ==
  ASSUME NEW s, Good(s), NEW late \in Nat, NEW room \in Nat, NEW last \in BOOLEAN,
         NEW P, NEW n \in Nat
  PROVE  MayFin(s, Update(s, late, room, last), P, n)
<1> DEFINE a == UpdateReceiveWindow(s)
           b == RetransmitOrShutdown(a, late)
           c == TransmitUnsent(b, room)
           e == UpdateTimeout(c)
           f == ShutdownIfLastReference(e, last)
           t == NotifyClosed(f)
<1>1. SessionOK(s)
  BY DEF Good
<1>2. Follows(s, a, P, {}, n) /\ Good(a)
  BY <1>1, UpdateReceiveWindowFollows, UpdateReceiveWindowOK
<1>3. a.state = s.state
  BY <1>1, SendAckMessageOK DEF UpdateReceiveWindow
<1> HIDE DEF a
<1>4. /\ Follows(a, b, P, {}, n) /\ SessionOK(b) /\ Good(b)
      /\ b.state \in {a.state, Closed}
  BY <1>2, RetransmitOrShutdownFollows, RetransmitOrShutdownOK DEF Good
<1> HIDE DEF b
<1>5. Follows(b, c, P, {}, n) /\ SessionOK(c) /\ Good(c) /\ c.state = b.state
  BY <1>4, TransmitUnsentFollows, TransmitUnsentOK
<1> HIDE DEF c
<1>6. MayFin(c, e, P, n) /\ SessionOK(e)
  BY <1>5, UpdateTimeoutMayFin
<1> HIDE DEF e
<1>7. Follows(e, f, P, {}, n) /\ SessionOK(f)
  BY <1>6, ShutdownIfLastReferenceFollows
<1> HIDE DEF f
<1>8. Follows(f, t, P, {}, n) /\ SessionOK(t)
  BY <1>7, NotifyClosedFollows
<1> HIDE DEF t
<1>9. MayFin(b, e, P, n)
  BY <1>4, <1>5, <1>6, ThenMayFin
<1>10. MayFin(a, e, P, n)
  BY <1>2, <1>4, <1>6, <1>9, ThenMayFin DEF Good
<1>11. MayFin(s, e, P, n)
  BY <1>1, <1>2, <1>3, <1>6, <1>10, ThenMayFin DEF Good
<1>12. MayFin(s, f, P, n)
  BY <1>1, <1>6, <1>7, <1>11, MayFinThen
<1>13. MayFin(s, t, P, n)
  BY <1>1, <1>7, <1>8, <1>12, MayFinThen
<1>14. t = Update(s, late, room, last)
  BY DEF Update, UpdateSendWindow, t, f, e, c, b, a
<1> QED BY <1>13, <1>14

\* Update closes a session that got a Fin when the Fin is the next packet
\* to be read, its server was told, or the peer does not answer any more.
LEMMA UpdateCloses ==
  ASSUME NEW s, Good(s), NEW late \in Nat, NEW room \in Nat, NEW last \in BOOLEAN,
         s.state = Closing, s.callbackState # "TerminatedCalled",
         s.sendWindow.retransmitCount <= kMaxRetransmits,
         Update(s, late, room, last).state = Closed
  PROVE  OnlyFinLeft(s.receiveWindow)
<1> DEFINE a == UpdateReceiveWindow(s)
           b == RetransmitOrShutdown(a, late)
           c == TransmitUnsent(b, room)
           e == UpdateTimeout(c)
           f == ShutdownIfLastReference(e, last)
           t == NotifyClosed(f)
<1>1. SessionOK(s) /\ RecvOK(s.receiveWindow)
  BY DEF Good, SessionOK
<1>2. /\ SessionOK(a) /\ a.state = s.state /\ a.sendWindow = s.sendWindow
      /\ a.callbackState = s.callbackState
      /\ OnlyFinLeft(a.receiveWindow) => OnlyFinLeft(s.receiveWindow)
  <2>1. CASE PendingAck(s.receiveWindow)
    <3> DEFINE v == NoteAck(s.receiveWindow)
    <3>1. a = SendAckMessage(s)
      BY <2>1 DEF UpdateReceiveWindow
    <3>2. /\ v.messages = s.receiveWindow.messages
          /\ v.nextUnreadSequence = s.receiveWindow.nextUnreadSequence
          /\ v.nextExpectedSequence = s.receiveWindow.nextExpectedSequence
      BY <1>1, NoteAckOK
    <3> HIDE DEF v
    <3>3. a.receiveWindow = v /\ a.callbackState = s.callbackState
      BY <1>1, <3>1 DEF SendAckMessage, SendControlMessage, Forward, v,
                        SessionOK, SessionObject
    <3> HIDE DEF a
    <3> QED BY <1>1, <3>1, <3>2, <3>3, SendAckMessageOK DEF OnlyFinLeft, NextUnread
  <2>2. CASE ~PendingAck(s.receiveWindow)
    BY <1>1, <2>2 DEF UpdateReceiveWindow
  <2> QED BY <2>1, <2>2
<1> HIDE DEF a
<1>3. /\ SessionOK(b) /\ b.state = a.state /\ b.receiveWindow = a.receiveWindow
      /\ b.callbackState = a.callbackState
  BY <1>2, RetransmitOrShutdownFollows
<1> HIDE DEF b
<1>4. /\ SessionOK(c) /\ c.state = b.state /\ c.receiveWindow = b.receiveWindow
      /\ c.callbackState = b.callbackState
  BY <1>3, TransmitUnsentFollows
<1> HIDE DEF c
<1>5. c.state = Closing /\ c.callbackState # "TerminatedCalled"
  BY <1>2, <1>3, <1>4
<1>6. WriteFin(c) = c
  BY <1>5 DEF WriteFin, Closing, FinWait1
<1>7. e = CloseIfDone(c)
  BY <1>6 DEF UpdateTimeout
<1>8. t = Update(s, late, room, last)
  BY DEF Update, UpdateSendWindow, c, b, a
<1>9. SUFFICES ASSUME ~OnlyFinLeft(c.receiveWindow)
               PROVE  FALSE
  BY <1>2, <1>3, <1>4
<1>10. e = c
  BY <1>5, <1>7, <1>9 DEF CloseIfDone, MayClose, Closing, FinWait2
<1> HIDE DEF e
<1>11. f = c
  BY <1>5, <1>10 DEF ShutdownIfLastReference, Shutdown, Closing, Established
<1> HIDE DEF f
<1>12. t = c
  BY <1>5, <1>11 DEF NotifyClosed, Closing, Closed
<1> QED BY <1>5, <1>8, <1>12 DEF Closing, Closed

----------------------------------------------------------------------------
\* HandleMessage tells the application of a session that it established;
\* nothing else changes after the handler.
LEMMA NotifyContinues ==
  ASSUME NEW s, NEW d, NEW P, NEW n, SessionOK(Dispatch(s, d)),
         Follows(s, Dispatch(s, d), P, {}, n)
  PROVE  LET t == HandleMessage(s, d)
             next == Dispatch(s, d)
         IN  /\ Continues(s, t, P, {}, n)
             /\ t.state = next.state
             /\ s.state = next.state \/ next.state # Established => t = next
<1> DEFINE next == Dispatch(s, d)
           a == [next EXCEPT !.connectionEvent = TRUE]
           b == [next EXCEPT !.callbackState = "EstablishedCalled"]
           t == HandleMessage(s, d)
<1>1. t = IF s.state = next.state \/ next.state # Established THEN next
          ELSE IF s.side = "client" THEN a ELSE b
  BY DEF HandleMessage
<1>2. SessionOK(next) /\ Follows(s, next, P, {}, n)
  OBVIOUS
<1> HIDE DEF next, t
<1>3. \A u \in {next, a, b} :
          /\ u.sessionId = next.sessionId /\ u.sendWindow = next.sendWindow
          /\ u.receiveWindow = next.receiveWindow /\ u.out = next.out
          /\ u.state = next.state
  BY <1>2 DEF SessionOK, SessionObject
<1>4. t \in {next, a, b}
  BY <1>1
<1> HIDE DEF a, b
<1>5. /\ t.sessionId = next.sessionId /\ t.sendWindow = next.sendWindow
      /\ t.receiveWindow = next.receiveWindow /\ t.out = next.out
      /\ t.state = next.state
  BY <1>3, <1>4
<1>6. Continues(s, t, P, {}, n)
  BY <1>2, <1>5 DEF Follows, Continues, Emits, Acks
<1> QED BY <1>1, <1>5, <1>6 DEF t, next

\* What a message may store, and what it acknowledges.
StoredBy(d) == IF d.packet.messageId \in {"Fin", "Data"} THEN {d.packet} ELSE {}

AckedBy(d) == IF d.packet.messageId = "Ack" THEN d.packet.sequence + 1 ELSE 0

LEMMA HandleMessageContinues ==
  ASSUME NEW s, Good(s), NEW d \in Datagram,
         d.packet.messageId \in {"Fin", "Data", "Ack", "Rst"}
  PROVE  LET t == HandleMessage(s, d)
         IN  /\ Continues(s, t, StoredBy(d), {}, AckedBy(d))
             /\ s.state \in Ended => t.state \in Ended
             /\ d.packet.messageId = "Rst" => Proceeds(s, t)
<1> DEFINE next == Dispatch(s, d)
           t == HandleMessage(s, d)
           P == StoredBy(d)
           n == AckedBy(d)
<1>1. SessionOK(s)
  BY DEF Good
<1>2. Follows(s, next, P, {}, n) /\ SessionOK(next)
  <2>1. CASE d.packet.messageId = "Fin"
    BY <1>1, <2>1, HandleLaterFinMessageFollows, HandleLaterFinMessageOK
       DEF Dispatch, Good, StoredBy, AckedBy
  <2>2. CASE d.packet.messageId = "Data"
    BY <1>1, <2>2, HandleDataMessageFollows, HandleDataMessageOK
       DEF Dispatch, Good, StoredBy, AckedBy
  <2>3. CASE d.packet.messageId = "Ack"
    BY <1>1, <2>3, HandleAckMessageFollows, HandleAckMessageOK
       DEF Dispatch, Good, StoredBy, AckedBy
  <2>4. CASE d.packet.messageId = "Rst"
    BY <1>1, <2>4, HandleRstMessageFollows, HandleRstMessageOK
       DEF Dispatch, Good, StoredBy, AckedBy
  <2> QED BY <2>1, <2>2, <2>3, <2>4
<1>3. d.packet.messageId = "Rst" => next.state = Closed
  <2>1. ASSUME d.packet.messageId = "Rst"
        PROVE  next.state = Closed
    <3>1. next = TakeWindowSize(SetState(s, Closed), d)
      BY <2>1 DEF Dispatch, HandleRstMessage, Shutdown
    <3>2. SessionOK(SetState(s, Closed)) /\ SetState(s, Closed).state = Closed
      BY <1>1, SetStateOK DEF Closed, SessionState
    <3> HIDE DEF next
    <3> QED BY <3>1, <3>2, TakeWindowSizeOK
  <2> QED BY <2>1
<1> HIDE DEF P, n
<1>4. /\ Continues(s, t, P, {}, n)
      /\ t.state = next.state
      /\ s.state = next.state \/ next.state # Established => t = next
  BY <1>2, NotifyContinues
<1> HIDE DEF t, next
<1>5. s.state \in Ended => t.state \in Ended
  BY <1>2, <1>4 DEF Follows, Proceeds
<1>6. d.packet.messageId = "Rst" => Proceeds(s, t)
  BY <1>2, <1>3, <1>4 DEF Follows, Closed, Established
<1> QED BY <1>4, <1>5, <1>6 DEF t, P, n

\* A SynAck for a session that has left SynSent.
LEMMA LaterSynAckMessage ==
  ASSUME NEW s, Genuine(Client, s), Good(s), s.state # SynSent,
         NEW d \in Datagram, d.packet.messageId = "SynAck",
         d.packet.sessionId \in Server
  PROVE  LET t == HandleMessage(s, d)
         IN  \/ Follows(s, t, {}, {}, 0)
             \/ /\ s.state >= Established
                /\ Follows(s, t, {}, {}, d.packet.sequence + 1)
<1> DEFINE next == HandleSynAckMessage(s, d)
<1>1. SessionOK(s)
  BY DEF Good
<1>2. Dispatch(s, d) = next
  BY DEF Dispatch
<1>3. \/ Follows(s, next, {}, {}, 0)
      \/ s.state >= Established /\ Follows(s, next, {}, {}, d.packet.sequence + 1)
  BY <1>1, LaterSynAckFollows
<1>4. next.state = s.state
  BY HandleSynAckMessageGenuine
<1> HIDE DEF next
<1>5. HandleMessage(s, d) = next
  BY <1>2, <1>4 DEF HandleMessage
<1> QED BY <1>3, <1>5

\* The second half of HandleFinMessage.
LEMMA EnterClosingContinues ==
  ASSUME NEW s, SessionOK(s), NEW size \in Nat, NEW P, NEW n \in Nat
  PROVE  LET t == EnterClosing(s, size)
         IN  /\ Continues(s, t, P, {}, n)
             /\ t.callbackState = s.callbackState
             /\ t.connectionEvent = s.connectionEvent
<1> DEFINE a == SetState(s, Closing)
           w == UpdateSendWindowSize(a.sendWindow, size)
           t == [a EXCEPT !.sendWindow = w]
<1>1. EnterClosing(s, size) = t
  BY DEF EnterClosing
<1>2. Closing \in SessionState
  BY DEF Closing, SessionState
<1>3. /\ SessionOK(a) /\ a.sessionId = s.sessionId /\ a.sendWindow = s.sendWindow
      /\ a.receiveWindow = s.receiveWindow /\ a.out = s.out
      /\ a.callbackState = s.callbackState
      /\ a.connectionEvent = s.connectionEvent
  BY <1>2, SetStateOK DEF SetState, SessionOK, SessionObject
<1> HIDE DEF a
<1>4. Follows(a, t, P, {}, n)
  BY <1>3, TakeWindowSizeFollows
<1>5. t.callbackState = a.callbackState /\ t.connectionEvent = a.connectionEvent
  BY <1>3 DEF SessionOK, SessionObject
<1> HIDE DEF t, w
<1>6. Continues(s, t, P, {}, n)
  BY <1>3, <1>4 DEF Follows, Continues, Emits, Acks
<1> QED BY <1>1, <1>3, <1>5, <1>6

\* The end of a protocol server.
LEMMA HandleUnregisterFollows ==
  ASSUME NEW s, SessionOK(s), NEW P, NEW n \in Nat
  PROVE  Follows(s, HandleUnregisterProtocolServer(s), P, {}, n)
<1> DEFINE cb == IF s.callbackState = "EstablishedCalled"
                 THEN "TerminatedCalled" ELSE s.callbackState
           a == [s EXCEPT !.callbackState = cb]
           t == Shutdown(a, TRUE)
<1>1. /\ cb \in SessionCallbackState
      /\ cb = "None" <=> s.callbackState = "None"
  BY DEF SessionOK, SessionObject, SessionCallbackState
<1> HIDE DEF cb
<1>2. SessionOK(a) /\ a.state = s.state
  BY <1>1, WithCallbackState
<1>3. /\ a.sessionId = s.sessionId /\ a.out = s.out /\ a.sendWindow = s.sendWindow
      /\ a.receiveWindow = s.receiveWindow /\ a.callbackState = cb
      /\ a.connectionEvent = s.connectionEvent
  BY DEF SessionOK, SessionObject
<1> HIDE DEF a
<1>4. Follows(s, a, P, {}, n)
  BY <1>1, <1>2, <1>3, WindowsLeftAlone DEF Follows, Continues, Proceeds
<1>5. Follows(a, t, P, {}, n) /\ SessionOK(t)
  BY <1>2, ShutdownFollows, ShutdownOK
<1> HIDE DEF t
<1>6. Follows(s, t, P, {} \cup {}, n)
  BY <1>2, <1>4, <1>5, FollowsOn
<1> QED BY <1>6 DEF HandleUnregisterProtocolServer, t, a, cb

\* Receive takes the next packet out of the window, or only its token when
\* the session closed in the meantime.
LEMMA FinishReceiveReads ==
  ASSUME NEW s, SessionOK(s), HasPacket(s.receiveWindow)
  PROVE  LET t == FinishReceive(s)
             w == s.receiveWindow
             v == t.receiveWindow
         IN  /\ t.sessionId = s.sessionId /\ t.sendWindow = s.sendWindow
             /\ t.out = s.out /\ t.callbackState = s.callbackState
             /\ t.connectionEvent = s.connectionEvent
             /\ t.state \in {s.state, Closed}
             /\ v.nextExpectedSequence = w.nextExpectedSequence
             /\ v.nextUnreadSequence = IF s.state = Closed
                                       THEN w.nextUnreadSequence
                                       ELSE w.nextUnreadSequence + 1
             /\ \A i \in Slot : v.valid[i] => w.valid[i] /\ v.messages[i] = w.messages[i]
             /\ w.nextUnreadSequence < w.nextExpectedSequence
<1> DEFINE w == s.receiveWindow
           k == TakeToken(w)
           taken == [s EXCEPT !.receiveWindow = k]
           r == ReadPacket(k)
           read == [taken EXCEPT !.receiveWindow = r]
           c == SetState(read, Closed)
           t == FinishReceive(s)
<1>1. RecvOK(w)
  BY DEF SessionOK
<1>2. /\ RecvOK(k) /\ k.semaphore = w.semaphore - 1
      /\ k.messages = w.messages /\ k.valid = w.valid
      /\ k.nextUnreadSequence = w.nextUnreadSequence
      /\ k.nextExpectedSequence = w.nextExpectedSequence
  BY <1>1, TakeTokenOK
<1>3. /\ w.semaphore \in Nat /\ w.semaphore > 0
      /\ w.semaphore <= w.nextExpectedSequence - w.nextUnreadSequence
      /\ w.nextUnreadSequence \in Nat /\ w.nextExpectedSequence \in Nat
  BY <1>1, RecvOKFields DEF HasPacket
<1> HIDE DEF k
<1>4. /\ k.nextUnreadSequence < k.nextExpectedSequence
      /\ k.semaphore < k.nextExpectedSequence - k.nextUnreadSequence
  BY <1>2, <1>3
<1>5. /\ RecvOK(r) /\ r.messages = k.messages
      /\ r.nextUnreadSequence = k.nextUnreadSequence + 1
      /\ r.nextExpectedSequence = k.nextExpectedSequence
      /\ \A i \in Slot : r.valid[i] => k.valid[i]
  BY <1>2, <1>4, ReadPacketOK
<1>6. t = IF s.state = Closed THEN taken
          ELSE IF NextUnread(w).messageId = "Data" THEN read ELSE c
  <2>1. taken.receiveWindow = k
    BY DEF SessionOK, SessionObject
  <2>2. [taken EXCEPT !.receiveWindow = ReadPacket(@)] = read
    BY <2>1
  <2> QED BY <2>2 DEF FinishReceive, k
<1> HIDE DEF r
<1>7. /\ taken.sessionId = s.sessionId /\ taken.sendWindow = s.sendWindow
      /\ taken.out = s.out /\ taken.callbackState = s.callbackState
      /\ taken.connectionEvent = s.connectionEvent /\ taken.state = s.state
      /\ taken.receiveWindow = k
  BY DEF SessionOK, SessionObject
<1>8. /\ read.sessionId = s.sessionId /\ read.sendWindow = s.sendWindow
      /\ read.out = s.out /\ read.callbackState = s.callbackState
      /\ read.connectionEvent = s.connectionEvent /\ read.state = s.state
      /\ read.receiveWindow = r
  BY DEF SessionOK, SessionObject
<1>9. /\ c.sessionId = s.sessionId /\ c.sendWindow = s.sendWindow
      /\ c.out = s.out /\ c.callbackState = s.callbackState
      /\ c.connectionEvent = s.connectionEvent /\ c.state = Closed
      /\ c.receiveWindow = r
  BY DEF SetState, SessionOK, SessionObject
<1> HIDE DEF taken, read, c, t
<1>10. /\ t.sessionId = s.sessionId /\ t.sendWindow = s.sendWindow
       /\ t.out = s.out /\ t.callbackState = s.callbackState
       /\ t.connectionEvent = s.connectionEvent
       /\ t.state \in {s.state, Closed}
       /\ t.receiveWindow = IF s.state = Closed THEN k ELSE r
  BY <1>6, <1>7, <1>8, <1>9
<1> QED BY <1>2, <1>4, <1>5, <1>10 DEF t

----------------------------------------------------------------------------
\* The handshake.  Connect writes the Syn, under sequence number 1.
LEMMA NewSessionParts ==
  ASSUME NEW o \in Sessions, NEW sid \in SessionId
  PROVE  LET t == [NewSession(SideOf(o)) EXCEPT !.sessionId = sid]
         IN  /\ SessionOK(t) /\ t.sessionId = sid
             /\ t.sendWindow = InitSendWindow /\ t.receiveWindow = InitReadWindow
             /\ t.out = {} /\ t.callbackState = "None" /\ ~t.connectionEvent
             /\ HasFreeSlot(t.sendWindow) /\ t.sendWindow.nextSequence = 1
<1> DEFINE n == NewSession(SideOf(o))
           t == [n EXCEPT !.sessionId = sid]
<1>1. SessionOK(n)
  BY NewSessionOK, SideOfType DEF Good
<1>2. SessionOK(t)
  BY <1>1, WithSessionId
<1>3. /\ t.sessionId = sid
      /\ t.sendWindow = InitSendWindow /\ t.receiveWindow = InitReadWindow
      /\ t.out = {} /\ t.callbackState = "None" /\ ~t.connectionEvent
  BY DEF NewSession
<1>4. HasFreeSlot(InitSendWindow) /\ InitSendWindow.nextSequence = 1
  BY WindowAssumption DEF HasFreeSlot, InitSendWindow
<1> QED BY <1>2, <1>3, <1>4

LEMMA ConnectWrites ==
  LET t == Connect(NewSession(SideOf(Client)), Client)
      syn == MakePacket("Syn", Client, 1, 0, NoSession)
  IN  /\ t.sessionId = Client /\ t.state = SynSent /\ t.out = {}
      /\ Writes(InitSendWindow, t.sendWindow, {syn})
      /\ t.sendWindow.nextUnacknowledgedSequence <= 1
      /\ t.receiveWindow = InitReadWindow
      /\ t.callbackState = "None" /\ ~t.connectionEvent
<1> DEFINE a == [NewSession(SideOf(Client)) EXCEPT !.sessionId = Client]
           syn == MakePacket("Syn", Client, 1, 0, NoSession)
           b == WriteMessageIntoSendWindow(a, "Syn", 0, NoSession)
           t == SetState(b, SynSent)
<1>1. /\ Client \in Sessions /\ Client \in SessionId /\ NoSession \in SessionId
      /\ "Syn" \in SessionMessage /\ SynSent \in SessionState
  BY DEF Sessions, SessionId, SessionMessage, SynSent, SessionState
<1>2. /\ SessionOK(a) /\ a.sessionId = Client
      /\ a.sendWindow = InitSendWindow /\ a.receiveWindow = InitReadWindow
      /\ a.out = {} /\ a.callbackState = "None" /\ ~a.connectionEvent
      /\ HasFreeSlot(a.sendWindow) /\ a.sendWindow.nextSequence = 1
  BY <1>1, NewSessionParts
<1> HIDE DEF a
<1>3. Written(a, "Syn", 0, NoSession) = syn
  BY <1>2 DEF Written
<1> HIDE DEF syn
<1>4. Follows(a, b, {}, {syn}, 1) /\ SessionOK(b)
  BY <1>1, <1>2, <1>3, WriteMessageIntoSendWindowFollows, WriteMessageIntoSendWindowOK
<1>5. b.receiveWindow = a.receiveWindow /\ b.out = a.out
      /\ b.callbackState = a.callbackState /\ b.connectionEvent = a.connectionEvent
  BY <1>2 DEF WriteMessageIntoSendWindow, SessionOK, SessionObject
<1> HIDE DEF b
<1>6. /\ t.sessionId = b.sessionId /\ t.sendWindow = b.sendWindow
      /\ t.receiveWindow = b.receiveWindow /\ t.out = b.out
      /\ t.callbackState = b.callbackState
      /\ t.connectionEvent = b.connectionEvent /\ t.state = SynSent
  BY <1>4 DEF SetState, SessionOK, SessionObject
<1> HIDE DEF t
<1>7. InitSendWindow.nextUnacknowledgedSequence = 1
  BY DEF InitSendWindow
<1>8. t.sendWindow.nextUnacknowledgedSequence <= 1
  BY <1>2, <1>4, <1>6, <1>7 DEF Follows, Continues, Frees
<1>9. t.sessionId = Client /\ Writes(InitSendWindow, t.sendWindow, {syn})
  BY <1>2, <1>4, <1>6 DEF Follows, Continues
<1>10. t = Connect(NewSession(SideOf(Client)), Client)
  BY DEF Connect, t, b, a
<1> QED BY <1>2, <1>5, <1>6, <1>8, <1>9, <1>10 DEF syn

\* BindToServer leaves the windows as they were created.
LEMMA BindToServerParts ==
  ASSUME NEW o \in Server
  PROVE  LET t == BindToServer(NewSession(SideOf(o)), o)
         IN  /\ SessionOK(t) /\ t.sessionId = o /\ t.state = Listening
             /\ t.sendWindow = InitSendWindow /\ t.receiveWindow = InitReadWindow
             /\ t.out = {} /\ t.callbackState = "None" /\ ~t.connectionEvent
             /\ HasFreeSlot(t.sendWindow) /\ t.sendWindow.nextSequence = 1
<1> DEFINE a == [NewSession(SideOf(o)) EXCEPT !.sessionId = o]
           t == SetState(a, Listening)
<1>1. o \in Sessions /\ o \in SessionId /\ Listening \in SessionState
  BY DEF Sessions, SessionId, Listening, SessionState
<1>2. /\ SessionOK(a) /\ a.sessionId = o
      /\ a.sendWindow = InitSendWindow /\ a.receiveWindow = InitReadWindow
      /\ a.out = {} /\ a.callbackState = "None" /\ ~a.connectionEvent
      /\ HasFreeSlot(a.sendWindow) /\ a.sendWindow.nextSequence = 1
  BY <1>1, NewSessionParts
<1>3. BindToServer(NewSession(SideOf(o)), o) = t
  BY DEF BindToServer
<1> HIDE DEF a
<1>4. /\ SessionOK(t) /\ t.sessionId = a.sessionId /\ t.sendWindow = a.sendWindow
      /\ t.receiveWindow = a.receiveWindow /\ t.state = Listening
  BY <1>1, <1>2, SetStateOK
<1>5. /\ t.out = a.out /\ t.callbackState = a.callbackState
      /\ t.connectionEvent = a.connectionEvent
  BY <1>2 DEF SetState, SessionOK, SessionObject
<1> HIDE DEF t
<1> QED BY <1>2, <1>3, <1>4, <1>5

\* An accepted Syn: the SynAck takes sequence number 1 and names the Syn.
LEMMA AcceptWrites ==
  ASSUME NEW o \in Server, NEW d \in Datagram, d.packet.messageId = "Syn"
  PROVE  LET t == HandleMessage(BindToServer(NewSession(SideOf(o)), o), d)
             answer == MakePacket("SynAck", o, 1, d.packet.sequence, d.packet.sessionId)
         IN  /\ t.sessionId = o /\ t.state = SynReceived /\ t.out = {}
             /\ Writes(InitSendWindow, t.sendWindow, {answer})
             /\ t.sendWindow.nextUnacknowledgedSequence <= 1
             /\ t.receiveWindow = StartAfter(InitReadWindow, d.packet.sequence)
             /\ t.callbackState = "None" /\ ~t.connectionEvent
<1> DEFINE s == BindToServer(NewSession(SideOf(o)), o)
           seq == d.packet.sequence
           sid == d.packet.sessionId
           answer == MakePacket("SynAck", o, 1, seq, sid)
           a == WriteMessageIntoSendWindow(s, "SynAck", seq, sid)
           b == SetState(a, SynReceived)
           w == StartAfter(b.receiveWindow, seq)
           t == [b EXCEPT !.receiveWindow = w]
<1>1. /\ seq \in Nat /\ sid \in SessionId
      /\ "SynAck" \in SessionMessage /\ SynReceived \in SessionState
  BY DEF Datagram, Packet, SessionMessage, SynReceived, SessionState
<1>2. /\ SessionOK(s) /\ s.sessionId = o /\ s.state = Listening
      /\ s.sendWindow = InitSendWindow /\ s.receiveWindow = InitReadWindow
      /\ s.out = {} /\ s.callbackState = "None" /\ ~s.connectionEvent
      /\ HasFreeSlot(s.sendWindow) /\ s.sendWindow.nextSequence = 1
  BY BindToServerParts
<1> HIDE DEF s
<1>3. Written(s, "SynAck", seq, sid) = answer
  BY <1>2 DEF Written
<1> HIDE DEF answer
<1>4. Follows(s, a, {}, {answer}, 1) /\ SessionOK(a)
  BY <1>1, <1>2, <1>3, WriteMessageIntoSendWindowFollows, WriteMessageIntoSendWindowOK
<1>5. a.receiveWindow = s.receiveWindow /\ a.out = s.out
      /\ a.callbackState = s.callbackState /\ a.connectionEvent = s.connectionEvent
  BY <1>2 DEF WriteMessageIntoSendWindow, SessionOK, SessionObject
<1>6. Dispatch(s, d) = t
  <2>1. CanWriteMessage(s)
    BY <1>2 DEF CanWriteMessage, Listening, FinWait2
  <2> QED BY <2>1 DEF Dispatch, HandleSynMessage
<1> HIDE DEF a
<1>7. /\ b.sessionId = a.sessionId /\ b.sendWindow = a.sendWindow
      /\ b.receiveWindow = a.receiveWindow /\ b.out = a.out
      /\ b.callbackState = a.callbackState /\ b.state = SynReceived
      /\ b.connectionEvent = a.connectionEvent /\ SessionOK(b)
  BY <1>1, <1>4, SetStateOK DEF SetState, SessionOK, SessionObject
<1> HIDE DEF b
<1>8. /\ t.sessionId = b.sessionId /\ t.sendWindow = b.sendWindow
      /\ t.receiveWindow = w /\ t.out = b.out
      /\ t.callbackState = b.callbackState /\ t.state = b.state
      /\ t.connectionEvent = b.connectionEvent
  BY <1>7 DEF SessionOK, SessionObject
<1>9. HandleMessage(s, d) = t
  <2>1. t.state # Established
    BY <1>7, <1>8 DEF SynReceived, Established
  <2> QED BY <1>6, <2>1 DEF HandleMessage
<1>10. w = StartAfter(InitReadWindow, seq)
  BY <1>2, <1>5, <1>7
<1> HIDE DEF t, w
<1>11. InitSendWindow.nextUnacknowledgedSequence = 1
  BY DEF InitSendWindow
<1>12. t.sendWindow.nextUnacknowledgedSequence <= 1
  BY <1>2, <1>4, <1>7, <1>8, <1>11 DEF Follows, Continues, Frees
<1>13. t.sessionId = o /\ Writes(InitSendWindow, t.sendWindow, {answer})
  BY <1>2, <1>4, <1>7, <1>8 DEF Follows, Continues
<1> QED BY <1>2, <1>5, <1>7, <1>8, <1>9, <1>10, <1>12, <1>13 DEF s, answer

\* The first SynAck: the client adopts the id of the server object, takes
\* the Syn for acknowledged, starts its receive window after the SynAck
\* and acknowledges that.
LEMMA FirstSynAckOpens ==
  ASSUME NEW s, Genuine(Client, s), Good(s), s.state = SynSent,
         NEW d \in Datagram, d.packet.messageId = "SynAck",
         d.packet.sessionId \in Server
  PROVE  LET t == HandleMessage(s, d)
             sid == d.packet.sessionId
             seq == d.packet.sequence
             v == t.receiveWindow
         IN  /\ t.sessionId = sid /\ t.state = Established
             /\ Writes(s.sendWindow, t.sendWindow, {})
             /\ Frees(s.sendWindow, t.sendWindow, d.packet.payload + 1)
             /\ v.nextUnreadSequence = seq + 1 /\ v.nextExpectedSequence = seq + 1
             /\ \A i \in Slot : ~v.valid[i]
             /\ t.callbackState = s.callbackState
             /\ \A e \in t.out : \/ e \in s.out
                                 \/ /\ e.packet # Unwritten
                                    /\ \E i \in Slot : e.packet = s.sendWindow.messages[i]
                                 \/ e.packet = MakePacket("Ack", sid, seq, 0, NoSession)
<1> DEFINE sid == d.packet.sessionId
           seq == d.packet.sequence
           n == d.packet.payload + 1
           m == MarkMessagesAsAcknowledged(s, d.packet.payload)
           b == SetState(m, Established)
           w == StartAfter(b.receiveWindow, seq)
           opened == [b EXCEPT !.sessionId = sid, !.receiveWindow = w]
           k == NoteAck(opened.receiveWindow)
           c == [opened EXCEPT !.receiveWindow = k]
           answer == MakePacket("Ack", c.sessionId,
                                opened.receiveWindow.nextExpectedSequence - 1,
                                0, NoSession)
           acked == Forward(c, {answer})
           next == TakeWindowSize(acked, d)
           t == HandleMessage(s, d)
<1>1. /\ seq \in Nat /\ d.packet.payload \in Nat /\ n \in Nat
      /\ sid \in SessionId /\ Established \in SessionState
      /\ SessionOK(s) /\ s.receiveWindow = InitReadWindow /\ d.windowSize \in Nat
      /\ Client \in Sessions
  BY DEF Datagram, Packet, Established, SessionState, Good, Fresh, Sessions
<1>2. Dispatch(s, d) = next
  BY DEF Dispatch, HandleSynAckMessage, SendAckMessage, SendControlMessage
<1>3. /\ Follows(s, m, {}, {}, n) /\ SessionOK(m)
      /\ m.receiveWindow = InitReadWindow /\ m.callbackState = s.callbackState
  BY <1>1, MarkMessagesAsAcknowledgedFollows, MarkMessagesAsAcknowledgedOK,
     MarkMessagesAsAcknowledgedGenuine DEF Alike
<1> HIDE DEF m, n
<1>4. /\ SessionOK(b) /\ b.sendWindow = m.sendWindow /\ b.out = m.out
      /\ b.receiveWindow = InitReadWindow /\ b.callbackState = s.callbackState
      /\ b.state = Established
  BY <1>1, <1>3, SetStateOK DEF SetState, SessionOK, SessionObject
<1> HIDE DEF b
<1>5. /\ RecvOK(w) /\ w.nextUnreadSequence = seq + 1
      /\ w.nextExpectedSequence = seq + 1 /\ \A i \in Slot : ~w.valid[i]
  BY <1>1, <1>4, StartAfterOK
<1> HIDE DEF w
<1>6. /\ opened \in SessionObject /\ opened.sessionId = sid
      /\ opened.sendWindow = m.sendWindow /\ opened.out = m.out
      /\ opened.receiveWindow = w /\ opened.callbackState = s.callbackState
      /\ opened.state = Established
  BY <1>1, <1>4, <1>5 DEF SessionOK, RecvOK, SessionObject
<1> HIDE DEF opened
<1>7. /\ RecvOK(k) /\ k.nextUnreadSequence = seq + 1
      /\ k.nextExpectedSequence = seq + 1 /\ \A i \in Slot : ~k.valid[i]
  BY <1>5, <1>6, NoteAckOK
<1> HIDE DEF k
<1>8. /\ c \in SessionObject /\ c.sessionId = sid
      /\ c.sendWindow = m.sendWindow /\ c.out = m.out
      /\ c.receiveWindow = k /\ c.callbackState = s.callbackState
      /\ c.state = Established
  BY <1>6, <1>7 DEF RecvOK, SessionObject
<1>9. SessionOK(c)
  BY <1>3, <1>7, <1>8 DEF SessionOK
<1> HIDE DEF c
<1>10. answer = MakePacket("Ack", sid, seq, 0, NoSession)
  <2>1. opened.receiveWindow.nextExpectedSequence - 1 = seq
    BY <1>1, <1>5, <1>6
  <2> QED BY <1>8, <2>1
<1>11. answer \in Packet
  <2>1. "Ack" \in SessionMessage /\ NoSession \in SessionId
    BY DEF SessionMessage, SessionId
  <2> QED BY <1>1, <1>10, <2>1, MakePacketType
<1> HIDE DEF answer
<1>12. /\ SessionOK(acked) /\ acked.sendWindow = m.sendWindow
       /\ acked.receiveWindow = k /\ acked.sessionId = sid
       /\ acked.state = Established
  BY <1>8, <1>9, <1>11, ForwardOK
<1>13. acked.callbackState = s.callbackState
  BY <1>8 DEF Forward, SessionObject
<1>14. \A e \in acked.out : e \in m.out \/ e.packet = answer
  BY <1>8 DEF Forward, SessionObject, MakeDatagram
<1> HIDE DEF acked
<1>15. Follows(acked, next, {}, {}, n) /\ SessionOK(next) /\ next.receiveWindow = k
       /\ next.state = Established
  BY <1>1, <1>12, TakeWindowSizeFollows, TakeWindowSizeOK DEF TakeWindowSize
<1>16. next.callbackState = s.callbackState /\ next.out = acked.out
  BY <1>12, <1>13 DEF TakeWindowSize, SessionOK, SessionObject
<1> HIDE DEF next
<1>17. /\ t.sessionId = next.sessionId /\ t.state = next.state
       /\ t.sendWindow = next.sendWindow /\ t.receiveWindow = next.receiveWindow
       /\ t.callbackState = next.callbackState /\ t.out = next.out
  <2>1. t = [next EXCEPT !.connectionEvent = TRUE]
    <3>1. s.state # next.state /\ next.state = Established
      BY <1>15 DEF SynSent, Established
    <3>2. s.side = "client"
      BY DEF Genuine, SideOf
    <3> QED BY <1>2, <3>1, <3>2 DEF HandleMessage
  <2> HIDE DEF t
  <2> QED BY <1>15, <2>1 DEF SessionOK, SessionObject
<1> HIDE DEF t
<1>18. Writes(s.sendWindow, t.sendWindow, {})
  <2>1. Writes(s.sendWindow, m.sendWindow, {}) /\ Writes(m.sendWindow, t.sendWindow, {})
    BY <1>3, <1>12, <1>15, <1>17 DEF Follows, Continues
  <2>2. Writes(s.sendWindow, t.sendWindow, {} \cup {})
    BY <2>1, WritesOn
  <2> QED BY <2>2
<1>19. Frees(s.sendWindow, t.sendWindow, n)
  <2>1. Frees(s.sendWindow, m.sendWindow, n) /\ Frees(m.sendWindow, t.sendWindow, n)
    BY <1>3, <1>12, <1>15, <1>17 DEF Follows, Continues
  <2>2. /\ s.sendWindow.nextUnacknowledgedSequence \in Nat
        /\ m.sendWindow.nextUnacknowledgedSequence \in Nat
        /\ t.sendWindow.nextUnacknowledgedSequence \in Nat
    BY <1>1, <1>3, <1>15, <1>17, SessionNumbers
  <2> QED BY <1>1, <2>1, <2>2 DEF Frees
<1>20. t.sessionId = sid
  BY <1>12, <1>15, <1>17 DEF Follows, Continues
<1>21. ASSUME NEW e \in t.out
       PROVE  \/ e \in s.out
              \/ /\ e.packet # Unwritten
                 /\ \E i \in Slot : e.packet = s.sendWindow.messages[i]
              \/ e.packet = MakePacket("Ack", sid, seq, 0, NoSession)
  <2>1. e \in m.out \/ e.packet = answer
    BY <1>14, <1>16, <1>17, <1>21
  <2>2. e \in m.out => e \in s.out \/ Emits(s, m, e.packet, {}, {})
    BY <1>3 DEF Follows, Continues
  <2>3. ~Acks(s, m, e.packet, {})
    BY <1>1 DEF Acks
  <2> QED BY <1>10, <2>1, <2>2, <2>3 DEF Emits
<1> QED BY <1>7, <1>15, <1>16, <1>17, <1>18, <1>19, <1>20, <1>21 DEF t, n

----------------------------------------------------------------------------
\* The invariant.  A session is connected to the session whose id the
\* client adopted, and that session to the client, also before the Ack of
\* the SynAck tells the server of it.
HasPartner(o) == IF o = Client THEN session[Client].sessionId \in Server
                 ELSE session[Client].sessionId = o

Partner(o) == IF o = Client THEN session[Client].sessionId ELSE Client

\* What a session wrote, by sequence number: the handshake is number 1,
\* and all others are Data but f, the Fin (0 when there is none); a Send
\* that was under way when the Fin was written has a number above it.
\* Before(f, n) is the number of Data packets below n, so that a Data
\* packet carries Before(f, its number + 1).
Before(f, n) == IF n <= 2 THEN 0 ELSE IF f # 0 /\ f < n THEN n - 3 ELSE n - 2

InStream(p, n, f) ==
    \/ /\ p.messageId = "Data"
       /\ p.sequence \in 2..(n - 1) /\ p.sequence # f
       /\ p.payload = Before(f, p.sequence + 1)
    \/ p.messageId = "Fin" /\ f # 0 /\ p.sequence = f

Kept(p, n, f) ==
    \/ p.messageId = "Syn" /\ p.sequence = 1
    \/ p.messageId = "SynAck" /\ p.sequence = 1 /\ p.payload = 1 /\ n >= 2
    \/ InStream(p, n, f)

\* The datagrams of a session that are on the bus: packets it wrote, and
\* Acks for what it has stored.
Sent(o) == {d \in net : /\ d.packet.messageId # "Rst"
                        /\ d.dst = Opposite(SideOf(o))
                        /\ o \in Server => d.packet.sessionId = o}

Owed(s, p, n, f) ==
    IF p.messageId = "Ack" THEN p.sequence < s.receiveWindow.nextExpectedSequence
    ELSE Kept(p, n, f)

Sending(o, f) ==
    LET n == session[o].sendWindow.nextSequence
    IN  /\ f # 0 => /\ f \in 2..(n - 1)
                    /\ session[o].state \in Ended
                    /\ ~ClosingOn(o)
        /\ Len(accepted[o]) = Before(f, n)
        /\ \A i \in Slot : LET p == session[o].sendWindow.messages[i]
                           IN  p = Unwritten \/ Kept(p, n, f)
        /\ \A d \in Sent(o) : Owed(session[o], d.packet, n, f)

\* What e has stored of what q wrote.
Reading(e, q, f) ==
    LET w == session[e].receiveWindow
        n == session[q].sendWindow.nextSequence
    IN  /\ Len(delivered[e]) = Before(f, w.nextUnreadSequence)
        /\ w.nextExpectedSequence <= n
        /\ \A i \in Slot : w.valid[i] => InStream(w.messages[i], n, f)
        /\ session[q].sendWindow.nextUnacknowledgedSequence <= w.nextExpectedSequence

Streaming ==
    \A o \in Sessions : \E f \in Nat :
        Sending(o, f) /\ (HasPartner(o) => Reading(Partner(o), o, f))

\* A session without a partner has neither got nor sent anything but the
\* handshake, and whoever uses a session has a partner.
Idling(o) ==
    LET w == session[o].receiveWindow
    IN  /\ delivered[o] = <<>>
        /\ w.nextUnreadSequence <= 2 /\ w.nextExpectedSequence <= 2
        /\ \A i \in Slot : ~w.valid[i]
        /\ session[o].sendWindow.nextUnacknowledgedSequence <= 1

Opening ==
    \A o \in Sessions :
        IF HasPartner(o)
        THEN /\ session[o].sendWindow.nextSequence >= 2
             /\ session[o].receiveWindow.nextUnreadSequence >= 2
        ELSE Idling(o)

Attached ==
    /\ \A o \in Sessions :
          /\ \/ session[o].state >= Established
             \/ ClosingOn(o)
             \/ PeerOf(o) # NoSession
             => HasPartner(o)
          /\ o \in sending \cup receiving => PeerOf(o) # NoSession
    /\ session[Client].connectionEvent => HasPartner(Client)

Answering ==
    \A o \in Server : session[o].sendWindow.nextSequence >= 2 =>
                          session[o].receiveWindow.nextExpectedSequence >= 2

\* The client sends nothing but its Syn to sessions it does not know.
ToPartner(p) ==
    p.messageId \in {"Data", "Fin", "Ack"} =>
        HasPartner(Client) /\ p.sessionId = session[Client].sessionId

ClientSpeaks ==
    /\ \A i \in Slot : ToPartner(session[Client].sendWindow.messages[i])
    /\ \A d \in Sent(Client) : ToPartner(d.packet)
    /\ ~HasPartner(Client) => session[Client].receiveWindow = InitReadWindow
    /\ session[Client].sessionId # NoSession =>
           session[Client].sendWindow.nextSequence >= 2

Numbering ==
    \A o \in Sessions : \A k \in 1..Len(accepted[o]) : accepted[o][k] = k

AllForwarded == \A o \in Sessions : session[o].out = {}

StreamInv ==
    /\ Attached /\ Opening /\ Answering /\ ClientSpeaks
    /\ Numbering /\ AllForwarded /\ Streaming

----------------------------------------------------------------------------
\* The stream of a session grows by one packet at a time, and at most once
\* by a Fin.
Grows(n, f, m, g) ==
    \/ m \in {n, n + 1} /\ g = f
    \/ f = 0 /\ g = n /\ m = n + 1

LEMMA BeforeGrows ==
  ASSUME NEW n \in Nat, NEW f \in Nat, NEW m \in Nat, NEW g \in Nat,
         Grows(n, f, m, g), NEW k \in Nat, k <= n
  PROVE  Before(g, k) = Before(f, k)
  BY DEF Grows, Before

LEMMA StreamGrows ==
  ASSUME NEW n \in Nat, NEW f \in Nat, NEW m \in Nat, NEW g \in Nat,
         Grows(n, f, m, g), NEW p \in Packet, InStream(p, n, f), f < n
  PROVE  InStream(p, m, g)
<1>1. p.sequence \in Nat
  BY DEF Packet
<1>2. CASE p.messageId = "Data"
  <2>1. p.sequence \in 2..(n - 1) /\ p.sequence # f
        /\ p.payload = Before(f, p.sequence + 1)
    BY <1>2 DEF InStream
  <2>2. Before(g, p.sequence + 1) = Before(f, p.sequence + 1)
    BY <1>1, <2>1, BeforeGrows
  <2>3. p.sequence \in 2..(m - 1) /\ p.sequence # g
    BY <1>1, <2>1 DEF Grows
  <2> QED BY <1>2, <2>1, <2>2, <2>3 DEF InStream
<1>3. CASE p.messageId = "Fin"
  BY <1>3 DEF InStream, Grows
<1> QED BY <1>2, <1>3 DEF InStream

LEMMA KeptGrows ==
  ASSUME NEW n \in Nat, NEW f \in Nat, NEW m \in Nat, NEW g \in Nat,
         Grows(n, f, m, g), NEW p \in Packet, Kept(p, n, f), f < n
  PROVE  Kept(p, m, g)
<1>1. n >= 2 => m >= 2
  BY DEF Grows
<1> QED BY <1>1, StreamGrows DEF Kept

\* Every packet of a stream has a number below the next one.
LEMMA StreamBelow ==
  ASSUME NEW n \in Nat, NEW f \in Nat, f < n, NEW p, InStream(p, n, f)
  PROVE  p.sequence <= n - 1
  BY DEF InStream

----------------------------------------------------------------------------
\* What lies in front of nextExpected is stored, each packet in its slot.
LEMMA StoredInSlot ==
  ASSUME NEW w, RecvOK(w),
         NEW seq \in w.nextUnreadSequence..(w.nextExpectedSequence - 1)
  PROVE  /\ SlotOf(seq) \in Slot /\ w.valid[SlotOf(seq)]
         /\ w.messages[SlotOf(seq)].sequence = seq
<1> DEFINE i == SlotOf(seq)
           lo == w.nextUnreadSequence
           k == w.messages[i].sequence
<1>1. /\ lo \in Nat /\ w.nextExpectedSequence \in Nat
      /\ w.nextExpectedSequence <= lo + kDefaultWindowSize
      /\ kDefaultWindowSize \in Nat /\ w.messages \in [Slot -> Packet]
  BY RecvOKFields
<1>2. seq \in Nat /\ seq >= lo /\ seq < lo + kDefaultWindowSize
  BY <1>1
<1>3. i \in Slot
  BY <1>2, SlotOfType
<1>4. w.valid[i]
  BY DEF RecvOK, ReceiveWindowConsistent
<1>5. SlotOf(k) = i /\ k \in lo..(lo + kDefaultWindowSize - 1)
  BY <1>3, <1>4 DEF RecvOK, ReceiveWindowConsistent
<1>6. k \in Nat /\ k >= lo /\ k < lo + kDefaultWindowSize
  BY <1>1, <1>5
<1> HIDE DEF i, k
<1>7. k = seq
  BY <1>1, <1>2, <1>5, <1>6, SlotInjective DEF i
<1> QED BY <1>3, <1>4, <1>7 DEF i, k

\* The numbers of a session, in a state and in the next one.
NextOf(o) == session[o].sendWindow.nextSequence

ExpectedOf(o) == session[o].receiveWindow.nextExpectedSequence

UnreadOf(o) == session[o].receiveWindow.nextUnreadSequence

FreedOf(o) == session[o].sendWindow.nextUnacknowledgedSequence

LEMMA ObjectNumbers ==
  ASSUME NEW s, SessionOK(s)
  PROVE  LET w == s.sendWindow
             r == s.receiveWindow
         IN  /\ w.nextSequence \in Nat /\ w.nextSequence >= 1
             /\ w.nextUnacknowledgedSequence \in Nat
             /\ w.nextUnacknowledgedSequence <= w.nextSequence
             /\ r.nextExpectedSequence \in Nat /\ r.nextUnreadSequence \in Nat
             /\ r.nextUnreadSequence <= r.nextExpectedSequence
             /\ r.nextUnreadSequence >= 1 /\ RecvOK(r)
<1> DEFINE w == s.sendWindow
<1>1. SendOK(w) /\ RecvOK(s.receiveWindow)
  BY DEF SessionOK
<1>2. /\ w.nextSequence \in Nat /\ w.nextUnacknowledgedSequence \in Nat
      /\ w.lastSentSequence \in Nat /\ w.nextUnacknowledgedSequence >= 1
      /\ w.lastSentSequence + 1 \in w.nextUnacknowledgedSequence..w.nextSequence
  BY <1>1 DEF SendOK, SendWindow, SendWindowConsistent
<1>3. w.nextSequence >= 1 /\ w.nextUnacknowledgedSequence <= w.nextSequence
  BY <1>2
<1> QED BY <1>1, <1>2, <1>3, RecvOKFields

LEMMA Numbers ==
  ASSUME IInv, NEW o \in Sessions
  PROVE  /\ NextOf(o) \in Nat /\ NextOf(o) >= 1
         /\ FreedOf(o) \in Nat /\ FreedOf(o) <= NextOf(o)
         /\ ExpectedOf(o) \in Nat /\ UnreadOf(o) \in Nat
         /\ UnreadOf(o) <= ExpectedOf(o) /\ UnreadOf(o) >= 1
         /\ SessionOK(session[o]) /\ RecvOK(session[o].receiveWindow)
<1>1. SessionOK(session[o])
  BY DEF IInv, SessionsOK
<1> QED BY <1>1, ObjectNumbers DEF NextOf, FreedOf, ExpectedOf, UnreadOf

LEMMA NumbersNext ==
  ASSUME IInv', NEW o \in Sessions
  PROVE  /\ NextOf(o)' \in Nat /\ NextOf(o)' >= 1
         /\ FreedOf(o)' \in Nat /\ FreedOf(o)' <= NextOf(o)'
         /\ ExpectedOf(o)' \in Nat /\ UnreadOf(o)' \in Nat
         /\ UnreadOf(o)' <= ExpectedOf(o)' /\ UnreadOf(o)' >= 1
         /\ SessionOK(session'[o]) /\ RecvOK(session'[o].receiveWindow)
<1>1. SessionOK(session'[o])
  BY DEF IInv, SessionsOK
<1> QED BY <1>1, ObjectNumbers DEF NextOf, FreedOf, ExpectedOf, UnreadOf

\* The number of the Fin is one that was used.
LEMMA FinBelow ==
  ASSUME IInv, NEW o \in Sessions, NEW f \in Nat, Sending(o, f)
  PROVE  f < NextOf(o)
<1>1. NextOf(o) \in Nat /\ NextOf(o) >= 1
  BY Numbers
<1>2. f # 0 => f \in 2..(NextOf(o) - 1)
  BY DEF Sending, NextOf
<1> QED BY <1>1, <1>2

\* A step of the sender.
LEMMA SendingOn ==
  ASSUME IInv, IInv', NEW o \in Sessions, NEW f \in Nat, NEW g \in Nat,
         Sending(o, f), Grows(NextOf(o), f, NextOf(o)', g),
         g # 0 => /\ g \in 2..(NextOf(o)' - 1)
                  /\ session'[o].state \in Ended /\ ~ClosingOn(o)',
         Len(accepted'[o]) = Before(g, NextOf(o)'),
         \A i \in Slot : LET p == session'[o].sendWindow.messages[i]
                         IN  \/ p = session[o].sendWindow.messages[i]
                             \/ Kept(p, NextOf(o)', g),
         ExpectedOf(o) <= ExpectedOf(o)',
         \A d \in Sent(o)' : \/ d \in Sent(o)
                             \/ \E i \in Slot : /\ d.packet # Unwritten
                                                /\ d.packet = session[o].sendWindow.messages[i]
                             \/ Owed(session'[o], d.packet, NextOf(o)', g)
  PROVE  Sending(o, g)'
<1> DEFINE n == NextOf(o)
           m == NextOf(o)'
<1>1. n \in Nat /\ m \in Nat /\ f < n /\ ExpectedOf(o) \in Nat /\ ExpectedOf(o)' \in Nat
  BY Numbers, NumbersNext, FinBelow
<1>2. ASSUME NEW p \in Packet, Kept(p, n, f)
      PROVE  Kept(p, m, g)
  BY <1>1, <1>2, KeptGrows
<1>3. /\ session[o].sendWindow.messages \in [Slot -> Packet]
      /\ session'[o].sendWindow.messages \in [Slot -> Packet]
  <2>1. SessionOK(session[o]) /\ SessionOK(session'[o])
    BY DEF IInv, SessionsOK
  <2> QED BY <2>1, SessionNumbers
<1>4. \A i \in Slot : LET p == session[o].sendWindow.messages[i]
                      IN  p = Unwritten \/ Kept(p, n, f)
  BY DEF Sending, NextOf
<1>5. \A i \in Slot : LET p == session'[o].sendWindow.messages[i]
                      IN  p = Unwritten \/ Kept(p, m, g)
  BY <1>2, <1>3, <1>4
<1>6. ASSUME NEW d \in Sent(o)'
      PROVE  Owed(session'[o], d.packet, m, g)
  <2>1. CASE d \in Sent(o)
    <3>1. Owed(session[o], d.packet, n, f)
      BY <2>1 DEF Sending, NextOf
    <3>2. d.packet \in Packet /\ d.packet.sequence \in Nat
      BY <2>1 DEF Sent, IInv, TypeOK, Datagram, Packet
    <3>3. CASE d.packet.messageId = "Ack"
      BY <1>1, <3>1, <3>2, <3>3 DEF Owed, ExpectedOf
    <3>4. CASE d.packet.messageId # "Ack"
      BY <1>2, <3>1, <3>2, <3>4 DEF Owed
    <3> QED BY <3>3, <3>4
  <2>2. ASSUME NEW i \in Slot, d.packet # Unwritten,
               d.packet = session[o].sendWindow.messages[i]
        PROVE  Owed(session'[o], d.packet, m, g)
    <3>1. Kept(d.packet, n, f) /\ d.packet \in Packet
      BY <1>3, <1>4, <2>2
    <3>2. d.packet.messageId # "Ack"
      BY <3>1 DEF Kept, InStream
    <3> QED BY <1>2, <3>1, <3>2 DEF Owed
  <2> QED BY <1>6, <2>1, <2>2
<1>7. /\ g # 0 => /\ g \in 2..(m - 1)
                  /\ session'[o].state \in Ended /\ ~ClosingOn(o)'
      /\ Len(accepted'[o]) = Before(g, m)
  OBVIOUS
<1> QED BY <1>5, <1>6, <1>7 DEF Sending, NextOf

\* A step of the reader, or of the sender, or of neither, in which nothing
\* is read.
LEMMA ReadingOn ==
  ASSUME IInv, IInv', NEW e \in Sessions, NEW q \in Sessions,
         NEW f \in Nat, NEW g \in Nat, f < NextOf(q), g < NextOf(q)',
         Reading(e, q, f), Grows(NextOf(q), f, NextOf(q)', g),
         delivered'[e] = delivered[e], UnreadOf(e)' = UnreadOf(e),
         ExpectedOf(e) <= ExpectedOf(e)',
         \A i \in Slot : session'[e].receiveWindow.valid[i] =>
             LET p == session'[e].receiveWindow.messages[i]
             IN  \/ InStream(p, NextOf(q), f)
                 \/ /\ session[e].receiveWindow.valid[i]
                    /\ p = session[e].receiveWindow.messages[i],
         FreedOf(q)' <= FreedOf(q) \/ FreedOf(q)' <= ExpectedOf(e)
  PROVE  Reading(e, q, g)'
<1> DEFINE n == NextOf(q)
           m == NextOf(q)'
           v == session'[e].receiveWindow
<1>1. /\ n \in Nat /\ m \in Nat /\ n <= m
      /\ UnreadOf(e) \in Nat /\ ExpectedOf(e) \in Nat /\ UnreadOf(e) <= ExpectedOf(e)
      /\ ExpectedOf(e)' \in Nat /\ FreedOf(q) \in Nat /\ FreedOf(q)' \in Nat
      /\ RecvOK(v) /\ UnreadOf(e)' <= ExpectedOf(e)'
  <2>1. n \in Nat /\ m \in Nat
    BY Numbers, NumbersNext
  <2>2. n <= m
    BY <2>1 DEF Grows
  <2> QED BY <2>1, <2>2, Numbers, NumbersNext
<1>2. /\ Len(delivered[e]) = Before(f, UnreadOf(e)) /\ ExpectedOf(e) <= n
      /\ \A i \in Slot : session[e].receiveWindow.valid[i] =>
             InStream(session[e].receiveWindow.messages[i], n, f)
      /\ FreedOf(q) <= ExpectedOf(e)
  BY DEF Reading, UnreadOf, ExpectedOf, FreedOf, NextOf
<1>3. Len(delivered'[e]) = Before(g, UnreadOf(e)')
  <2>1. UnreadOf(e) <= n
    BY <1>1, <1>2
  <2>2. Before(g, UnreadOf(e)) = Before(f, UnreadOf(e))
    BY <1>1, <2>1, BeforeGrows
  <2> QED BY <1>2, <2>2
<1>4. \A i \in Slot : v.valid[i] => InStream(v.messages[i], m, g)
  <2>1. v.messages \in [Slot -> Packet]
    BY <1>1, RecvOKFields
  <2>2. \A i \in Slot : v.valid[i] => InStream(v.messages[i], n, f)
    BY <1>2
  <2> QED BY <1>1, <2>1, <2>2, StreamGrows
<1>5. ExpectedOf(e)' <= m
  <2>1. CASE UnreadOf(e)' = ExpectedOf(e)'
    BY <1>1, <1>2, <2>1
  <2>2. CASE UnreadOf(e)' < ExpectedOf(e)'
    <3> DEFINE seq == ExpectedOf(e)' - 1
               i == SlotOf(seq)
    <3>1. seq \in v.nextUnreadSequence..(v.nextExpectedSequence - 1)
      BY <1>1, <2>2 DEF UnreadOf, ExpectedOf
    <3>2. i \in Slot /\ v.valid[i] /\ v.messages[i].sequence = seq
      BY <1>1, <3>1, StoredInSlot
    <3>3. seq <= m - 1
      BY <1>1, <1>4, <3>2, StreamBelow
    <3> QED BY <1>1, <3>3
  <2> QED BY <1>1, <2>1, <2>2
<1>6. FreedOf(q)' <= ExpectedOf(e)'
  BY <1>1, <1>2
<1> QED BY <1>3, <1>4, <1>5, <1>6 DEF Reading, UnreadOf, ExpectedOf, FreedOf, NextOf

\* Nothing is stored by a session that nobody talks to.
LEMMA IdlingOn ==
  ASSUME IInv', NEW o \in Sessions, Idling(o),
         delivered'[o] = delivered[o], UnreadOf(o)' = UnreadOf(o),
         \A i \in Slot : session'[o].receiveWindow.valid[i] =>
                             session[o].receiveWindow.valid[i],
         FreedOf(o)' <= FreedOf(o) \/ FreedOf(o)' <= 1, FreedOf(o) \in Nat
  PROVE  Idling(o)'
<1> DEFINE v == session'[o].receiveWindow
<1>1. /\ UnreadOf(o)' \in Nat /\ ExpectedOf(o)' \in Nat /\ RecvOK(v)
      /\ UnreadOf(o)' <= ExpectedOf(o)' /\ FreedOf(o)' \in Nat
  BY NumbersNext
<1>2. \A i \in Slot : ~v.valid[i]
  BY DEF Idling
<1>3. UnreadOf(o)' = ExpectedOf(o)'
  <2>1. SUFFICES ASSUME UnreadOf(o)' < ExpectedOf(o)'
                 PROVE  FALSE
    BY <1>1
  <2>2. UnreadOf(o)' \in v.nextUnreadSequence..(v.nextExpectedSequence - 1)
    BY <1>1, <2>1 DEF UnreadOf, ExpectedOf
  <2> QED BY <1>1, <1>2, <2>2, StoredInSlot
<1>4. UnreadOf(o)' <= 2 /\ delivered'[o] = <<>>
  BY DEF Idling, UnreadOf
<1>5. FreedOf(o)' <= 1
  BY <1>1 DEF Idling, FreedOf
<1> QED BY <1>2, <1>3, <1>4, <1>5 DEF Idling, UnreadOf, ExpectedOf, FreedOf

----------------------------------------------------------------------------
\* The step of one session object x, which stores packets of P, writes Q
\* and takes the packets below n for acknowledged.
Acting(x, P, Q, n) ==
    /\ Continues(session[x], session'[x], P, Q, n)
    /\ \A o \in Sessions \ {x} : Continues(session[o], session'[o], {}, {}, 0)
    /\ \A d \in net' : \/ d \in net
                       \/ d.packet.messageId = "Rst"
                       \/ /\ d \in OwnDatagram(x)
                          /\ Emits(session[x], session'[x], d.packet, P, Q)

Receives(x, P) ==
    \A p \in P : /\ HasPartner(x) /\ p.messageId \in {"Data", "Fin"}
                 /\ \E d \in Sent(Partner(x)) : p = d.packet

Acknowledged(x, n) == n <= 1 \/ (HasPartner(x) /\ n <= ExpectedOf(Partner(x)))

DataOf(x) == Written(session[x], "Data", Len(accepted[x]) + 1, NoSession)

WritesFin(x, Q) ==
    /\ Q = {FinOf(session[x])} /\ accepted' = accepted
    /\ session[x].state = FinWait1
    /\ session'[x].state \in Ended /\ ~ClosingOn(x)'

WritesData(x, Q) ==
    /\ Q = {DataOf(x)} /\ HasPartner(x)
    /\ accepted' = [accepted EXCEPT ![x] = Append(accepted[x], Len(accepted[x]) + 1)]

Adds(x, Q) ==
    \/ Q = {} /\ accepted' = accepted
    \/ WritesFin(x, Q)
    \/ WritesData(x, Q)

EndsForGood ==
    \A o \in Sessions : session[o].state \in Ended /\ ~ClosingOn(o) =>
                            session'[o].state \in Ended /\ ~ClosingOn(o)'

\* The step, seen from any object.
LEMMA SeenFrom ==
  ASSUME NEW x \in Sessions, NEW P, NEW Q, NEW n, Acting(x, P, Q, n),
         NEW o \in Sessions
  PROVE  LET Po == IF o = x THEN P ELSE {}
             Qo == IF o = x THEN Q ELSE {}
             no == IF o = x THEN n ELSE 0
         IN  /\ session'[o].sessionId = session[o].sessionId
             /\ NextOf(o)' = IF Qo = {} THEN NextOf(o) ELSE NextOf(o) + 1
             /\ \A i \in Slot :
                    \/ session'[o].sendWindow.messages[i] =
                           session[o].sendWindow.messages[i]
                    \/ session'[o].sendWindow.messages[i] \in Qo
             /\ FreedOf(o)' <= FreedOf(o) \/ FreedOf(o)' <= no
             /\ UnreadOf(o)' = UnreadOf(o)
             /\ ExpectedOf(o) <= ExpectedOf(o)'
             /\ \A i \in Slot : session'[o].receiveWindow.valid[i] =>
                    \/ session'[o].receiveWindow.messages[i] \in Po
                    \/ /\ session[o].receiveWindow.valid[i]
                       /\ session'[o].receiveWindow.messages[i] =
                              session[o].receiveWindow.messages[i]
             /\ Po = {} /\ session[o].receiveWindow = InitReadWindow =>
                    session'[o].receiveWindow = InitReadWindow
<1>1. CASE o = x
  BY <1>1 DEF Acting, Continues, Writes, Frees, Stores,
              NextOf, FreedOf, UnreadOf, ExpectedOf
<1>2. CASE o # x
  <2>1. Continues(session[o], session'[o], {}, {}, 0)
    BY <1>2 DEF Acting
  <2> QED BY <1>2, <2>1 DEF Continues, Writes, Frees, Stores,
                           NextOf, FreedOf, UnreadOf, ExpectedOf
<1> QED BY <1>1, <1>2

\* Only x sends.
LEMMA SentOn ==
  ASSUME NEW x \in Sessions, NEW P, NEW Q, NEW n, Acting(x, P, Q, n),
         NEW o \in Sessions, NEW d \in Sent(o)'
  PROVE  \/ d \in Sent(o)
         \/ o = x /\ Emits(session[x], session'[x], d.packet, P, Q)
<1>1. /\ d \in net' /\ d.packet.messageId # "Rst" /\ d.dst = Opposite(SideOf(o))
      /\ o \in Server => d.packet.sessionId = o
  BY DEF Sent
<1>2. CASE d \in net
  BY <1>1, <1>2 DEF Sent
<1>3. CASE d \in OwnDatagram(x) /\ Emits(session[x], session'[x], d.packet, P, Q)
  <2>1. d.dst = Opposite(SideOf(x)) /\ IsOwn(x, d.packet)
    BY <1>3 DEF OwnDatagram, OwnPacket
  <2>2. SideOf(o) = SideOf(x)
    BY <1>1, <2>1 DEF Opposite, SideOf
  <2>3. o = Client <=> x = Client
    BY <2>2 DEF SideOf
  <2>4. o # Client => o \in Server
    BY DEF Sessions
  <2>5. o = x
    BY <1>1, <2>1, <2>3, <2>4 DEF IsOwn
  <2> QED BY <1>3, <2>5
<1> QED BY <1>1, <1>2, <1>3 DEF Acting

\* Whoever writes has a partner.
LEMMA WriterHasPartner ==
  ASSUME StreamInv, NEW x \in Sessions, NEW Q, Adds(x, Q), Q # {}
  PROVE  /\ HasPartner(x) /\ NextOf(x) >= 2
         /\ \A p \in Q : p.sessionId = session[x].sessionId
<1>1. HasPartner(x)
  <2>1. CASE WritesFin(x, Q)
    <3>1. session[x].state >= Established
      BY <2>1 DEF WritesFin, FinWait1, Established
    <3> QED BY <3>1 DEF StreamInv, Attached
  <2>2. CASE WritesData(x, Q)
    BY <2>2 DEF WritesData
  <2> QED BY <2>1, <2>2 DEF Adds
<1>2. NextOf(x) >= 2
  BY <1>1 DEF StreamInv, Opening, NextOf
<1>3. Q = {FinOf(session[x])} \/ Q = {DataOf(x)}
  BY DEF Adds, WritesFin, WritesData
<1>4. \A p \in Q : p.sessionId = session[x].sessionId
  BY <1>3 DEF FinOf, DataOf, Written, MakePacket
<1> QED BY <1>1, <1>2, <1>4

LEMMA BeforeData ==
  ASSUME NEW f \in Nat, NEW n \in Nat, n >= 2, f < n, f # 0 => f >= 2
  PROVE  Before(f, n + 1) = Before(f, n) + 1
  BY DEF Before

LEMMA BeforeFin ==
  ASSUME NEW n \in Nat, n >= 2
  PROVE  Before(n, n + 1) = Before(0, n)
  BY DEF Before

\* The stream of every session goes on.
LEMMA SendingStep ==
  ASSUME IInv, IInv', StreamInv, NEW x \in Sessions, NEW P, NEW Q, NEW n,
         Acting(x, P, Q, n), Adds(x, Q), EndsForGood,
         NEW o \in Sessions, NEW f \in Nat, Sending(o, f)
  PROVE  \E g \in Nat : Grows(NextOf(o), f, NextOf(o)', g) /\ Sending(o, g)'
<1> DEFINE k == NextOf(o)
           m == NextOf(o)'
           Qo == IF o = x THEN Q ELSE {}
<1>1. /\ k \in Nat /\ m \in Nat /\ f < k /\ ExpectedOf(o) <= ExpectedOf(o)'
      /\ m = IF Qo = {} THEN k ELSE k + 1
      /\ \A i \in Slot : \/ session'[o].sendWindow.messages[i] =
                                session[o].sendWindow.messages[i]
                         \/ session'[o].sendWindow.messages[i] \in Qo
  BY Numbers, NumbersNext, FinBelow, SeenFrom
<1>2. /\ f # 0 => /\ f \in 2..(k - 1) /\ session[o].state \in Ended /\ ~ClosingOn(o)
      /\ Len(accepted[o]) = Before(f, k)
  BY DEF Sending, NextOf
<1>3. accepted \in [Sessions -> Seq(Nat)]
  BY DEF IInv, TypeOK
<1>4. ASSUME NEW g \in Nat, Grows(k, f, m, g),
             g # 0 => /\ g \in 2..(m - 1)
                      /\ session'[o].state \in Ended /\ ~ClosingOn(o)',
             Len(accepted'[o]) = Before(g, m),
             \A p \in Qo : Kept(p, m, g) /\ p.messageId # "Ack"
      PROVE  Sending(o, g)'
  <2>1. ASSUME NEW d \in Sent(o)'
        PROVE  \/ d \in Sent(o)
               \/ \E i \in Slot : /\ d.packet # Unwritten
                                  /\ d.packet = session[o].sendWindow.messages[i]
               \/ Owed(session'[o], d.packet, m, g)
    <3>1. d \in Sent(o) \/ (o = x /\ Emits(session[o], session'[o], d.packet, P, Qo))
      BY SentOn
    <3>2. d.packet \in Qo => Owed(session'[o], d.packet, m, g)
      BY <1>4 DEF Owed
    <3>3. Acks(session[o], session'[o], d.packet, P) =>
              Owed(session'[o], d.packet, m, g)
      BY DEF Acks, Owed
    <3> QED BY <3>1, <3>2, <3>3 DEF Emits
  <2>2. \A i \in Slot : LET p == session'[o].sendWindow.messages[i]
                        IN  \/ p = session[o].sendWindow.messages[i]
                            \/ Kept(p, m, g)
    BY <1>1, <1>4
  <2> HIDE DEF Qo
  <2> QED BY <1>1, <1>4, <2>1, <2>2, SendingOn
<1>5. CASE Qo = {} /\ accepted'[o] = accepted[o]
  <2>1. m = k /\ Grows(k, f, m, f)
    BY <1>1, <1>5 DEF Grows
  <2>2. f # 0 => /\ f \in 2..(m - 1)
                 /\ session'[o].state \in Ended /\ ~ClosingOn(o)'
    BY <1>2, <2>1 DEF EndsForGood
  <2>3. Sending(o, f)'
    BY <1>2, <1>4, <1>5, <2>1, <2>2
  <2> QED BY <2>1, <2>3
<1>6. CASE o = x /\ WritesFin(x, Q)
  <2> DEFINE p == FinOf(session[x])
  <2> PICK g \in Nat : g = k
    BY <1>1
  <2>1. Qo = {p} /\ m = g + 1 /\ g >= 2
    BY <1>1, <1>6, WriterHasPartner DEF WritesFin
  <2>2. f = 0
    <3>1. session[o].state \notin Ended
      BY <1>6 DEF WritesFin, FinWait1, FinWait2, Closed, Ended
    <3> QED BY <1>2, <3>1
  <2>3. Grows(k, f, m, g)
    BY <2>1, <2>2 DEF Grows
  <2>4. g # 0 => /\ g \in 2..(m - 1)
                 /\ session'[o].state \in Ended /\ ~ClosingOn(o)'
    BY <1>1, <1>6, <2>1 DEF WritesFin
  <2>5. Len(accepted'[o]) = Before(g, m)
    BY <1>1, <1>2, <1>6, <2>1, <2>2, BeforeFin DEF WritesFin
  <2>6. p.messageId = "Fin" /\ p.sequence = g
    BY <1>6 DEF FinOf, Written, MakePacket, NextOf
  <2>7. Kept(p, m, g)
    BY <1>1, <2>1, <2>6 DEF Kept, InStream
  <2>8. Sending(o, g)'
    BY <1>1, <1>4, <2>1, <2>3, <2>4, <2>5, <2>6, <2>7
  <2> QED BY <1>1, <2>3, <2>8
<1>7. CASE o = x /\ WritesData(x, Q)
  <2> DEFINE p == DataOf(x)
  <2>1. Qo = {p} /\ m = k + 1 /\ k >= 2
    BY <1>1, <1>7, WriterHasPartner DEF WritesData
  <2>2. Grows(k, f, m, f)
    BY <2>1 DEF Grows
  <2>3. f # 0 => /\ f \in 2..(m - 1)
                 /\ session'[o].state \in Ended /\ ~ClosingOn(o)'
    BY <1>1, <1>2, <2>1 DEF EndsForGood
  <2>4. Before(f, m) = Before(f, k) + 1
    <3>1. k \in Nat /\ f < k /\ (f # 0 => f >= 2)
      BY <1>1, <1>2
    <3>2. Before(f, k + 1) = Before(f, k) + 1
      BY <2>1, <3>1, BeforeData
    <3> QED BY <2>1, <3>2
  <2>5. Len(accepted'[o]) = Len(accepted[o]) + 1
    BY <1>3, <1>7 DEF WritesData
  <2>6. p.messageId = "Data" /\ p.sequence = k /\ p.payload = Len(accepted[o]) + 1
    BY <1>7 DEF DataOf, Written, MakePacket, NextOf
  <2>7. Kept(p, m, f)
    <3>1. p.sequence \in 2..(m - 1) /\ p.sequence # f
      BY <1>1, <2>1, <2>6
    <3>2. p.payload = Before(f, p.sequence + 1)
      BY <1>2, <2>1, <2>4, <2>6
    <3> QED BY <2>6, <3>1, <3>2 DEF Kept, InStream
  <2>8. Sending(o, f)'
    BY <1>2, <1>4, <2>1, <2>2, <2>3, <2>4, <2>5, <2>6, <2>7
  <2> QED BY <2>2, <2>8
<1>8. o # x => Qo = {} /\ accepted'[o] = accepted[o]
  BY <1>3 DEF Adds, WritesFin, WritesData
<1> QED BY <1>5, <1>6, <1>7, <1>8 DEF Adds

----------------------------------------------------------------------------
\* Partners are partners of each other.
LEMMA PartnerOf ==
  ASSUME NEW o \in Sessions, HasPartner(o)
  PROVE  /\ Partner(o) \in Sessions /\ HasPartner(Partner(o))
         /\ Partner(Partner(o)) = o /\ Partner(o) # o
         /\ SideOf(Partner(o)) = Opposite(SideOf(o))
<1>1. CASE o = Client
  BY <1>1, ObjectAssumption DEF HasPartner, Partner, Sessions, SideOf, Opposite
<1>2. CASE o # Client
  BY <1>2, ObjectAssumption DEF HasPartner, Partner, Sessions, SideOf, Opposite
<1> QED BY <1>1, <1>2

\* They stay partners as long as the client keeps its id.
LEMMA PartnerStays ==
  ASSUME NEW x \in Sessions, NEW P, NEW Q, NEW n, Acting(x, P, Q, n),
         NEW o \in Sessions
  PROVE  HasPartner(o)' = HasPartner(o) /\ Partner(o)' = Partner(o)
<1>1. Client \in Sessions
  BY DEF Sessions
<1>2. session'[Client].sessionId = session[Client].sessionId
  BY <1>1, SeenFrom
<1> QED BY <1>2 DEF HasPartner, Partner

\* What x stores, its partner has sent.
LEMMA StoresStream ==
  ASSUME NEW x \in Sessions, NEW P, Receives(x, P), NEW o \in Sessions,
         NEW f \in Nat, Sending(o, f), NEW p \in P, Partner(x) = o
  PROVE  HasPartner(x) /\ InStream(p, NextOf(o), f)
<1>1. PICK d \in Sent(o) : p = d.packet
  BY DEF Receives
<1>2. HasPartner(x) /\ p.messageId \in {"Data", "Fin"}
  BY DEF Receives
<1>3. Owed(session[o], p, NextOf(o), f)
  BY <1>1 DEF Sending, NextOf
<1> QED BY <1>2, <1>3 DEF Owed, Kept

LEMMA StreamingStep ==
  ASSUME IInv, IInv', StreamInv, NEW x \in Sessions, NEW P, NEW Q, NEW n \in Nat,
         Acting(x, P, Q, n), Receives(x, P), Acknowledged(x, n), Adds(x, Q),
         EndsForGood, UNCHANGED delivered
  PROVE  Streaming'
<1> SUFFICES ASSUME NEW o \in Sessions
             PROVE  (\E f \in Nat : /\ Sending(o, f)
                                    /\ HasPartner(o) => Reading(Partner(o), o, f))'
  BY DEF Streaming
<1>1. PICK f \in Nat : Sending(o, f) /\ (HasPartner(o) => Reading(Partner(o), o, f))
  BY DEF StreamInv, Streaming
<1>2. PICK g \in Nat : Grows(NextOf(o), f, NextOf(o)', g) /\ Sending(o, g)'
  BY <1>1, SendingStep
<1>3. ASSUME HasPartner(o)'
      PROVE  Reading(Partner(o), o, g)'
  <2>1. HasPartner(o) /\ Partner(o)' = Partner(o)
    BY <1>3, PartnerStays
  <2> PICK e \in Sessions : e = Partner(o)
    BY <2>1, PartnerOf
  <2>2. Partner(e) = o /\ HasPartner(e)
    BY <2>1, PartnerOf
  <2>3. /\ f < NextOf(o) /\ NextOf(o) \in Nat /\ NextOf(o)' \in Nat
        /\ UnreadOf(e) \in Nat /\ ExpectedOf(e) \in Nat /\ UnreadOf(e) >= 1
        /\ UnreadOf(e) <= ExpectedOf(e) /\ FreedOf(o)' \in Nat
    BY <1>1, FinBelow, Numbers, NumbersNext
  <2>4. g < NextOf(o)'
    BY <1>2, <2>3 DEF Grows
  <2>5. /\ UnreadOf(e)' = UnreadOf(e) /\ ExpectedOf(e) <= ExpectedOf(e)'
        /\ \A i \in Slot : session'[e].receiveWindow.valid[i] =>
               \/ e = x /\ session'[e].receiveWindow.messages[i] \in P
               \/ /\ session[e].receiveWindow.valid[i]
                  /\ session'[e].receiveWindow.messages[i] =
                         session[e].receiveWindow.messages[i]
    BY SeenFrom
  <2>6. \A i \in Slot : session'[e].receiveWindow.valid[i] =>
            LET p == session'[e].receiveWindow.messages[i]
            IN  \/ InStream(p, NextOf(o), f)
                \/ /\ session[e].receiveWindow.valid[i]
                   /\ p = session[e].receiveWindow.messages[i]
    BY <1>1, <2>2, <2>5, StoresStream
  <2>7. FreedOf(o)' <= FreedOf(o) \/ FreedOf(o)' <= ExpectedOf(e)
    <3>1. FreedOf(o)' <= FreedOf(o) \/ FreedOf(o)' <= IF o = x THEN n ELSE 0
      BY SeenFrom
    <3>2. o = x => n <= ExpectedOf(e)
      BY <2>3 DEF Acknowledged
    <3> QED BY <2>3, <3>1, <3>2
  <2>8. Reading(e, o, f) /\ delivered'[e] = delivered[e]
    BY <1>1, <2>1
  <2>9. Reading(e, o, g)'
    BY <1>2, <2>3, <2>4, <2>5, <2>6, <2>7, <2>8, ReadingOn
  <2> QED BY <2>1, <2>9 DEF Reading
<1> QED BY <1>2, <1>3

LEMMA OpeningStep ==
  ASSUME IInv, IInv', StreamInv, NEW x \in Sessions, NEW P, NEW Q, NEW n \in Nat,
         Acting(x, P, Q, n), Receives(x, P), Acknowledged(x, n),
         UNCHANGED delivered
  PROVE  Opening'
<1> SUFFICES ASSUME NEW o \in Sessions
             PROVE  IF HasPartner(o)' THEN NextOf(o)' >= 2 /\ UnreadOf(o)' >= 2
                    ELSE Idling(o)'
  BY DEF Opening, NextOf, UnreadOf
<1>1. HasPartner(o)' = HasPartner(o)
  BY PartnerStays
<1>2. /\ NextOf(o) \in Nat /\ FreedOf(o) \in Nat /\ FreedOf(o)' \in Nat
      /\ NextOf(o)' \in {NextOf(o), NextOf(o) + 1} /\ UnreadOf(o)' = UnreadOf(o)
  BY Numbers, NumbersNext, SeenFrom
<1>3. CASE HasPartner(o)
  <2>1. NextOf(o) >= 2 /\ UnreadOf(o) >= 2
    BY <1>3 DEF StreamInv, Opening, NextOf, UnreadOf
  <2> QED BY <1>1, <1>2, <1>3, <2>1
<1>4. CASE ~HasPartner(o)
  <2>1. Idling(o) /\ delivered'[o] = delivered[o]
    BY <1>4 DEF StreamInv, Opening
  <2>2. \A i \in Slot : session'[o].receiveWindow.valid[i] =>
                            session[o].receiveWindow.valid[i]
    <3>1. o = x => P = {}
      BY <1>4 DEF Receives
    <3> QED BY <3>1, SeenFrom
  <2>3. FreedOf(o)' <= FreedOf(o) \/ FreedOf(o)' <= 1
    <3>1. FreedOf(o)' <= FreedOf(o) \/ FreedOf(o)' <= IF o = x THEN n ELSE 0
      BY SeenFrom
    <3>2. o = x => n <= 1
      BY <1>4 DEF Acknowledged
    <3> QED BY <1>2, <3>1, <3>2
  <2>4. Idling(o)'
    BY <1>2, <2>1, <2>2, <2>3, IdlingOn
  <2> QED BY <1>1, <1>4, <2>4
<1> QED BY <1>3, <1>4

LEMMA AnsweringStep ==
  ASSUME IInv, IInv', StreamInv, NEW x \in Sessions, NEW P, NEW Q, NEW n,
         Acting(x, P, Q, n), Adds(x, Q)
  PROVE  Answering'
<1> SUFFICES ASSUME NEW o \in Server, NextOf(o)' >= 2
             PROVE  ExpectedOf(o)' >= 2
  BY DEF Answering, NextOf, ExpectedOf
<1>1. o \in Sessions
  BY DEF Sessions
<1>2. NextOf(o) >= 2
  <2>1. CASE o = x /\ Q # {}
    BY <2>1, WriterHasPartner
  <2>2. CASE ~(o = x /\ Q # {})
    BY <1>1, <2>2, SeenFrom
  <2> QED BY <2>1, <2>2
<1>3. ExpectedOf(o) >= 2
  BY <1>2 DEF StreamInv, Answering, NextOf, ExpectedOf
<1>4. ExpectedOf(o) <= ExpectedOf(o)' /\ ExpectedOf(o) \in Nat /\ ExpectedOf(o)' \in Nat
  BY <1>1, SeenFrom, Numbers, NumbersNext
<1> QED BY <1>3, <1>4

LEMMA ClientSpeaksStep ==
  ASSUME IInv, IInv', StreamInv, NEW x \in Sessions, NEW P, NEW Q, NEW n,
         Acting(x, P, Q, n), Receives(x, P), Adds(x, Q)
  PROVE  ClientSpeaks'
<1>1. Client \in Sessions
  BY DEF Sessions
<1>2. HasPartner(Client)' = HasPartner(Client)
  BY <1>1, PartnerStays
<1>3. session'[Client].sessionId = session[Client].sessionId
  BY <1>1, SeenFrom
<1>4. ASSUME NEW p, ToPartner(p)
      PROVE  ToPartner(p)'
  BY <1>2, <1>3, <1>4 DEF ToPartner
<1>5. ASSUME x = Client, NEW p \in Q
      PROVE  ToPartner(p)
  BY <1>5, WriterHasPartner DEF ToPartner
<1>6. /\ \A i \in Slot : ToPartner(session[Client].sendWindow.messages[i])
      /\ \A d \in Sent(Client) : ToPartner(d.packet)
      /\ ~HasPartner(Client) => session[Client].receiveWindow = InitReadWindow
      /\ session[Client].sessionId # NoSession => NextOf(Client) >= 2
  BY DEF StreamInv, ClientSpeaks, NextOf
<1>7. \A i \in Slot : ToPartner(session[Client].sendWindow.messages[i])'
  <2> SUFFICES ASSUME NEW i \in Slot
               PROVE  ToPartner(session'[Client].sendWindow.messages[i])
    BY <1>2, <1>3 DEF ToPartner
  <2>1. \/ session'[Client].sendWindow.messages[i] =
               session[Client].sendWindow.messages[i]
        \/ x = Client /\ session'[Client].sendWindow.messages[i] \in Q
    BY <1>1, SeenFrom
  <2> QED BY <1>5, <1>6, <2>1
<1>8. ASSUME NEW d \in Sent(Client)'
      PROVE  ToPartner(d.packet)'
  <2> DEFINE p == d.packet
  <2>1. \/ d \in Sent(Client)
        \/ x = Client /\ Emits(session[Client], session'[Client], p, P, Q)
    BY <1>1, <1>8, SentOn
  <2>2. CASE d \in Sent(Client)
    BY <1>4, <1>6, <2>2
  <2>3. CASE x = Client /\ \E i \in Slot : p = session[Client].sendWindow.messages[i]
    BY <1>4, <1>6, <2>3
  <2>4. CASE x = Client /\ p \in Q
    BY <1>4, <1>5, <2>4
  <2>5. CASE x = Client /\ Acks(session[Client], session'[Client], p, P)
    <3>1. HasPartner(Client)
      BY <1>6, <2>5 DEF Acks, Receives
    <3>2. ToPartner(p)
      BY <2>5, <3>1 DEF Acks, ToPartner
    <3> QED BY <1>4, <3>2
  <2> QED BY <2>1, <2>2, <2>3, <2>4, <2>5 DEF Emits
<1>9. ~HasPartner(Client) => session'[Client].receiveWindow = InitReadWindow
  <2>1. ~HasPartner(Client) /\ x = Client => P = {}
    BY DEF Receives
  <2> QED BY <1>1, <1>6, <2>1, SeenFrom
<1>10. session'[Client].sessionId # NoSession => NextOf(Client)' >= 2
  <2>1. NextOf(Client) \in Nat /\ NextOf(Client)' \in {NextOf(Client), NextOf(Client) + 1}
    BY <1>1, Numbers, SeenFrom
  <2> QED BY <1>3, <1>6, <2>1
<1> QED BY <1>2, <1>7, <1>8, <1>9, <1>10 DEF ClientSpeaks, NextOf

LEMMA NumberingStep ==
  ASSUME IInv, StreamInv, NEW x \in Sessions, NEW Q, Adds(x, Q)
  PROVE  Numbering'
<1>1. CASE accepted' = accepted
  BY <1>1 DEF StreamInv, Numbering
<1>2. CASE WritesData(x, Q)
  <2>1. accepted \in [Sessions -> Seq(Nat)]
    BY DEF IInv, TypeOK
  <2> SUFFICES ASSUME NEW o \in Sessions, NEW k \in 1..Len(accepted'[o])
               PROVE  accepted'[o][k] = k
    BY DEF Numbering
  <2>2. CASE o # x
    <3>1. accepted'[o] = accepted[o]
      BY <1>2, <2>1, <2>2 DEF WritesData
    <3> QED BY <3>1 DEF StreamInv, Numbering
  <2>3. CASE o = x
    <3> DEFINE a == accepted[x]
    <3>1. a \in Seq(Nat) /\ \A j \in 1..Len(a) : a[j] = j
      BY <2>1 DEF StreamInv, Numbering
    <3>2. accepted'[o] = Append(a, Len(a) + 1)
      BY <1>2, <2>1, <2>3 DEF WritesData
    <3> HIDE DEF a
    <3> QED BY <3>1, <3>2
  <2> QED BY <2>2, <2>3
<1> QED BY <1>1, <1>2 DEF Adds, WritesFin

\* A step of one object keeps the invariant.
LEMMA StreamStep ==
  ASSUME IInv, IInv', StreamInv, NEW x \in Sessions, NEW P, NEW Q, NEW n \in Nat,
         Acting(x, P, Q, n), Receives(x, P), Acknowledged(x, n), Adds(x, Q),
         EndsForGood, UNCHANGED delivered, Attached', AllForwarded'
  PROVE  StreamInv'
<1>1. Opening' /\ Answering' /\ ClientSpeaks' /\ Numbering' /\ Streaming'
  BY OpeningStep, AnsweringStep, ClientSpeaksStep, NumberingStep, StreamingStep
<1> QED BY <1>1 DEF StreamInv

----------------------------------------------------------------------------
\* What a step may do to the states: a session is used, is closing or has
\* ended only if it did so before or has a partner.
Ongoing(o) ==
    /\ o \in Server /\ session[o].callbackState # "None" =>
           session'[o].callbackState # "None"
    /\ \/ HasPartner(o)
       \/ Proceeds(session[o], session'[o]) /\ Advances(session[o], session'[o])
    /\ session[o].state \in Ended => ClosingOn(o) \/ session'[o].state \in Ended
    /\ ClosingOn(o)' => ClosingOn(o) \/ (HasPartner(o) /\ session[o].state \notin Ended)
    /\ o \in sending' \cup receiving' =>
           o \in sending \cup receiving \/ PeerOf(o) # NoSession

LEMMA AttachedOn ==
  ASSUME Attached, NEW x \in Sessions, NEW P, NEW Q, NEW n, Acting(x, P, Q, n),
         \A o \in Sessions : Ongoing(o)
  PROVE  Attached'
<1>1. \A o \in Sessions : HasPartner(o)' = HasPartner(o)
  BY PartnerStays
<1>2. \A o \in Sessions : session'[o].sessionId = session[o].sessionId
  BY SeenFrom
<1>3. Client \in Sessions /\ Client # NoSession /\ Client \notin Server
  BY ObjectAssumption DEF Sessions
<1>4. ASSUME NEW o \in Sessions, PeerOf(o) # NoSession
      PROVE  PeerOf(o)' # NoSession
  BY <1>2, <1>3, <1>4 DEF PeerOf, Ongoing, Sessions
<1>5. ASSUME NEW o \in Sessions, PeerOf(o)' # NoSession
      PROVE  PeerOf(o) # NoSession \/ HasPartner(o)
  <2>1. CASE o = Client
    BY <1>2, <1>3, <1>5, <2>1 DEF PeerOf
  <2>2. CASE o # Client
    BY <1>3, <1>5, <2>2 DEF PeerOf, Ongoing, Proceeds
  <2> QED BY <2>1, <2>2
<1>6. ASSUME NEW o \in Sessions, session'[o].state >= Established
      PROVE  session[o].state >= Established \/ HasPartner(o)
  BY <1>6 DEF Ongoing, Advances, Closed, Established
<1>7. session'[Client].connectionEvent =>
          session[Client].connectionEvent \/ HasPartner(Client)
  BY <1>3 DEF Ongoing, Proceeds
<1>8. \A o \in Sessions : ClosingOn(o)' => ClosingOn(o) \/ HasPartner(o)
  BY DEF Ongoing
<1>9. \A o \in Sessions : o \in sending' \cup receiving' =>
          o \in sending \cup receiving \/ PeerOf(o) # NoSession
  BY DEF Ongoing
<1>10. /\ \A o \in Sessions : session[o].state >= Established \/ ClosingOn(o)
                              \/ PeerOf(o) # NoSession => HasPartner(o)
       /\ \A o \in Sessions : o \in sending \cup receiving => PeerOf(o) # NoSession
       /\ session[Client].connectionEvent => HasPartner(Client)
  BY DEF Attached
<1>11. \A o \in Sessions : session'[o].state >= Established \/ ClosingOn(o)'
                           \/ PeerOf(o)' # NoSession => HasPartner(o)'
  BY <1>1, <1>5, <1>6, <1>8, <1>10
<1>12. \A o \in Sessions : o \in sending' \cup receiving' => PeerOf(o)' # NoSession
  BY <1>4, <1>9, <1>10
<1>13. session'[Client].connectionEvent => HasPartner(Client)'
  BY <1>1, <1>3, <1>7, <1>10
<1> QED BY <1>11, <1>12, <1>13 DEF Attached

LEMMA StreamKeeps ==
  ASSUME IInv, IInv', StreamInv, NEW x \in Sessions, NEW P, NEW Q, NEW n \in Nat,
         Acting(x, P, Q, n), Receives(x, P), Acknowledged(x, n), Adds(x, Q),
         UNCHANGED delivered, AllForwarded', \A o \in Sessions : Ongoing(o)
  PROVE  StreamInv'
<1>1. Attached'
  BY AttachedOn DEF StreamInv
<1>2. EndsForGood
  BY DEF EndsForGood, Ongoing
<1> QED BY <1>1, <1>2, StreamStep

\* Put replaces one object by the result of a call.
LEMMA PutParts ==
  ASSUME IInv, NEW x \in Sessions, NEW t, SessionOK(t), Put(x, t)
  PROVE  /\ session'[x].sessionId = t.sessionId /\ session'[x].state = t.state
         /\ session'[x].sendWindow = t.sendWindow
         /\ session'[x].receiveWindow = t.receiveWindow
         /\ session'[x].callbackState = t.callbackState
         /\ session'[x].connectionEvent = t.connectionEvent
         /\ session'[x].out = {}
         /\ \A o \in Sessions \ {x} : session'[o] = session[o]
<1> DEFINE q == Quiet(t)
<1>1. /\ q.sessionId = t.sessionId /\ q.state = t.state
      /\ q.sendWindow = t.sendWindow /\ q.receiveWindow = t.receiveWindow
      /\ q.callbackState = t.callbackState /\ q.out = {}
      /\ q.connectionEvent = t.connectionEvent
  BY DEF Quiet, SessionOK, SessionObject
<1>2. session' = [session EXCEPT ![x] = q] /\ session \in [Sessions -> SessionObject]
  BY DEF Put, IInv, TypeOK
<1> HIDE DEF q
<1>3. session'[x] = q /\ \A o \in Sessions \ {x} : session'[o] = session[o]
  BY <1>2
<1> QED BY <1>1, <1>3

LEMMA PutActs ==
  ASSUME IInv, AllForwarded, NEW x \in Sessions, NEW t, Genuine(x, t), Put(x, t),
         NEW P, NEW Q, NEW n, Continues(session[x], t, P, Q, n),
         net' \subseteq net \cup t.out
  PROVE  Acting(x, P, Q, n) /\ AllForwarded'
<1> DEFINE s == session[x]
           u == session'[x]
<1>1. /\ u.sessionId = t.sessionId /\ u.sendWindow = t.sendWindow
      /\ u.receiveWindow = t.receiveWindow /\ u.out = {}
      /\ \A o \in Sessions \ {x} : session'[o] = session[o]
  BY PutParts DEF Genuine
<1>2. \A p : Emits(s, t, p, P, Q) => Emits(s, u, p, P, Q)
  BY <1>1 DEF Emits, Acks
<1>3. Continues(s, u, P, Q, n)
  BY <1>1 DEF Continues
<1>4. \A o \in Sessions \ {x} : Continues(session[o], session'[o], {}, {}, 0)
  <2>1. \A o \in Sessions : SessionOK(session[o])
    BY DEF IInv, SessionsOK
  <2> QED BY <1>1, <2>1, NothingFollows DEF Follows
<1>5. ASSUME NEW d \in t.out
      PROVE  d \in OwnDatagram(x) /\ Emits(s, u, d.packet, P, Q)
  <2>1. s.out = {}
    BY DEF AllForwarded
  <2> QED BY <1>2, <2>1 DEF Continues, Genuine
<1>6. Acting(x, P, Q, n)
  BY <1>3, <1>4, <1>5 DEF Acting
<1>7. AllForwarded'
  BY <1>1 DEF AllForwarded
<1> QED BY <1>6, <1>7

\* A call on x, in a step that leaves the other objects alone.
LEMMA PutKeeps ==
  ASSUME IInv, IInv', StreamInv, NEW x \in Sessions, NEW t, Genuine(x, t), Put(x, t),
         NEW P, NEW Q, NEW n \in Nat, Continues(session[x], t, P, Q, n),
         net' \subseteq net \cup t.out, Receives(x, P), Acknowledged(x, n), Adds(x, Q),
         UNCHANGED delivered,
         x \in Server /\ session[x].callbackState # "None" => t.callbackState # "None",
         HasPartner(x) \/ (Proceeds(session[x], t) /\ Advances(session[x], t)),
         session[x].state \in Ended => ClosingOn(x) \/ t.state \in Ended,
         \A o \in Sessions : ClosingOn(o)' =>
             \/ ClosingOn(o)
             \/ o = x /\ HasPartner(x) /\ session[x].state \notin Ended,
         sending' \subseteq sending, receiving' \subseteq receiving
  PROVE  StreamInv'
<1>1. Acting(x, P, Q, n) /\ AllForwarded'
  BY PutActs DEF StreamInv
<1>2. /\ session'[x].state = t.state /\ session'[x].callbackState = t.callbackState
      /\ session'[x].connectionEvent = t.connectionEvent
      /\ \A o \in Sessions \ {x} : session'[o] = session[o]
  BY PutParts DEF Genuine
<1>3. ASSUME NEW o \in Sessions
      PROVE  Ongoing(o)
  <2>1. CASE o = x
    BY <1>2, <2>1 DEF Ongoing, Proceeds, Advances
  <2>2. CASE o # x
    <3>1. session'[o] = session[o]
      BY <1>2, <2>2
    <3> QED BY <2>2, <3>1 DEF Ongoing, Proceeds, Advances
  <2> QED BY <2>1, <2>2
<1> QED BY <1>1, <1>3, StreamKeeps

----------------------------------------------------------------------------
\* The invariant, action by action.
\*
\* A message that a session takes is one of its partner.
LEMMA MessageFromPartner ==
  ASSUME IdInv, StreamInv, NEW d \in net, d.packet.messageId \in {"Fin", "Data", "Ack"},
         NEW o \in Sessions, o \in FindOpenSession(d.dst, d.packet.sessionId)
  PROVE  HasPartner(o) /\ d \in Sent(Partner(o))
<1> DEFINE sid == d.packet.sessionId
<1>1. /\ SideOf(o) = d.dst /\ key[o] # NoSession /\ key[o] = sid
      /\ session[o].state # Closed
  BY DEF FindOpenSession, Find, InTable, IsOpen
<1>2. Fitting(o, session[o], key[o], registered)
  BY DEF IdInv, TableFits
<1>3. PICK y \in Sessions : d \in OwnDatagram(y)
  BY DEF IdInv, NetIsGenuine, FromObject
<1>4. d.dst = Opposite(SideOf(y)) /\ IsOwn(y, d.packet)
  BY <1>3 DEF OwnDatagram, OwnPacket
<1>5. CASE o = Client
  <2>1. y \in Server /\ y # Client /\ sid = y
    BY <1>1, <1>4, <1>5, ObjectAssumption DEF SideOf, Opposite, Sessions, IsOwn
  <2>2. session[Client].sessionId = y
    BY <1>1, <1>2, <1>5, <2>1 DEF Fitting
  <2> QED BY <1>4, <1>5, <2>1, <2>2 DEF HasPartner, Partner, Sent
<1>6. CASE o # Client
  <2>1. y = Client /\ o \in Server /\ sid = o
    BY <1>1, <1>2, <1>4, <1>6 DEF SideOf, Opposite, Sessions, Fitting
  <2>2. d \in Sent(Client)
    BY <1>4, <2>1, ObjectAssumption DEF Sent
  <2>3. ToPartner(d.packet)
    BY <2>2 DEF StreamInv, ClientSpeaks
  <2>4. HasPartner(o) /\ Partner(o) = Client
    BY <1>6, <2>1, <2>3 DEF ToPartner, HasPartner, Partner
  <2> QED BY <2>2, <2>4
<1> QED BY <1>5, <1>6

\* An Ack on the bus is for a packet its sender has stored.
LEMMA AckIsForStored ==
  ASSUME IInv, StreamInv, NEW q \in Sessions, NEW d \in Sent(q),
         d.packet.messageId = "Ack"
  PROVE  d.packet.sequence + 1 <= ExpectedOf(q)
<1>1. PICK f \in Nat : Sending(q, f)
  BY DEF StreamInv, Streaming
<1>2. d.packet.sequence < ExpectedOf(q)
  BY <1>1 DEF Sending, Owed, ExpectedOf
<1>3. d.packet.sequence \in Nat /\ ExpectedOf(q) \in Nat
  BY Numbers DEF Sent, IInv, TypeOK, Datagram, Packet
<1> QED BY <1>2, <1>3

\* Deliver adds nothing but what is sent.
LEMMA DeliverAdds ==
  ASSUME NEW d, NEW sent, Deliver(d, sent)
  PROVE  net' \subseteq net \cup sent
  BY DEF Deliver

LEMMA ReceiveMessageStream ==
  ASSUME IdInv, IInv', StreamInv, NEW d \in net, MutexFree(d.dst),
         NEW o \in Sessions, ReceiveMessage(d, o)
  PROVE  StreamInv'
<1> DEFINE c == session[o]
           t == HandleMessage(c, d)
           P == StoredBy(d)
           n == AckedBy(d)
<1>1. /\ d \in Datagram /\ d.packet.sequence \in Nat
      /\ d.packet.messageId \in {"Fin", "Data", "Ack", "Rst"}
      /\ o \in FindOpenSession(d.dst, d.packet.sessionId)
  BY DEF ReceiveMessage, IdInv, IInv, TypeOK, Datagram, Packet
<1>2. InTable(o) /\ SideOf(o) = d.dst
  BY <1>1 DEF FindOpenSession, Find
<1>3. Genuine(o, c) /\ Good(c) /\ Fitting(o, c, key[o], registered)
  BY <1>2, InTableIsGenuine, FreshWhenIdle DEF IdInv, TableFits
<1>4. /\ Continues(c, t, P, {}, n)
      /\ c.state \in Ended => t.state \in Ended
      /\ d.packet.messageId = "Rst" => Proceeds(c, t)
  BY <1>1, <1>3, HandleMessageContinues
<1>5. /\ Genuine(o, t)
      /\ \/ /\ Advances(c, t)
            /\ o \in Server => t.callbackState = c.callbackState
         \/ /\ c.state = SynReceived /\ t.state = Established
            /\ o \in Server => t.callbackState = "EstablishedCalled"
  BY <1>1, <1>3, HandleMessageGenuine
<1>6. d.packet.messageId = "Rst" => t.state = Closed
  <2> SUFFICES ASSUME d.packet.messageId = "Rst" PROVE t.state = Closed
    OBVIOUS
  <2> DEFINE next == Dispatch(c, d)
  <2>1. next.state = Closed /\ Closed # Established
    BY <1>1, <1>3, HandleRstMessageGenuine DEF Dispatch, Closed, Established
  <2> QED BY <2>1 DEF HandleMessage
<1> HIDE DEF t
<1>7. /\ Put(o, t) /\ Deliver(d, t.out)
      /\ UNCHANGED <<thread, sending, receiving, accepted, delivered>>
  BY DEF ReceiveMessage, appVars, t
<1>8. d.packet.messageId # "Rst" => HasPartner(o) /\ d \in Sent(Partner(o))
  BY <1>1, MessageFromPartner
<1>9. Receives(o, P)
  BY <1>8 DEF Receives, StoredBy
<1>10. Acknowledged(o, n) /\ n \in Nat
  <2>1. CASE d.packet.messageId = "Ack"
    <3>1. HasPartner(o) /\ Partner(o) \in Sessions /\ d \in Sent(Partner(o))
      BY <1>8, <2>1, PartnerOf
    <3>2. d.packet.sequence + 1 <= ExpectedOf(Partner(o))
      BY <2>1, <3>1, AckIsForStored DEF IdInv
    <3> QED BY <1>1, <2>1, <3>1, <3>2 DEF Acknowledged, AckedBy
  <2>2. CASE d.packet.messageId # "Ack"
    BY <2>2 DEF Acknowledged, AckedBy
  <2> QED BY <2>1, <2>2
<1>11. HasPartner(o) \/ (Proceeds(c, t) /\ Advances(c, t))
  BY <1>4, <1>6, <1>8 DEF Advances
<1>12. o \in Server /\ c.callbackState # "None" => t.callbackState # "None"
  BY <1>5
<1>13. net' \subseteq net \cup t.out /\ \A p \in Sessions : ClosingOn(p)' => ClosingOn(p)
  BY <1>7, DeliverAdds DEF ClosingOn
<1>14. Adds(o, {})
  BY <1>7 DEF Adds
<1> HIDE DEF P, n
<1> QED BY <1>4, <1>5, <1>7, <1>9, <1>10, <1>11, <1>12, <1>13, <1>14, PutKeeps DEF IdInv

LEMMA ReceiveFinStream ==
  ASSUME IdInv, IInv', StreamInv, NEW d \in net, NEW o \in Sessions, ReceiveFin(d, o)
  PROVE  StreamInv'
<1> DEFINE c == session[o]
           t == StoreFin(c, d)
           P == {d.packet}
<1>1. /\ d.packet \in Packet /\ d.packet.messageId = "Fin" /\ d.dst \in Side
      /\ o \in FindOpenSession(d.dst, d.packet.sessionId)
  BY DEF ReceiveFin, IdInv, IInv, TypeOK, Datagram
<1>2. InTable(o) /\ SideOf(o) = d.dst /\ c.state # Closed /\ c.state < Closing
  BY <1>1 DEF FindOpenSession, Find, IsOpen, ReceiveFin, FinIsFirst
<1>3. Genuine(o, c) /\ SessionOK(c)
  BY <1>2, InTableIsGenuine DEF Genuine
<1>4. Follows(c, t, P, {}, 0)
  BY <1>1, <1>3, WriteMessageIntoReceiveWindowFollows DEF StoreFin
<1>5. Genuine(o, t) /\ t.state = c.state
  BY <1>1, <1>3, WriteMessageIntoReceiveWindowGenuine DEF StoreFin
<1> HIDE DEF t
<1>6. /\ Put(o, t) /\ Deliver(d, t.out)
      /\ thread' = [thread EXCEPT ![d.dst] =
                      [pc |-> "closing", on |-> o, windowSize |-> d.windowSize]]
      /\ UNCHANGED <<sending, receiving, accepted, delivered>>
  BY DEF ReceiveFin, appVars, t
<1>7. HasPartner(o) /\ d \in Sent(Partner(o))
  BY <1>1, MessageFromPartner
<1>8. Receives(o, P) /\ Acknowledged(o, 0) /\ Adds(o, {})
  BY <1>1, <1>6, <1>7 DEF Receives, Acknowledged, Adds
<1>9. c.state \notin Ended
  BY <1>2 DEF Ended, Closed, FinWait2, Closing
<1>10. \A p \in Sessions : ClosingOn(p)' => ClosingOn(p) \/ p = o
  <2>1. thread \in [Side -> ThreadState] /\ \A p \in Sessions : SideOf(p) \in Side
    BY SideOfType DEF IdInv, IInv, TypeOK
  <2> QED BY <1>1, <1>6, <2>1 DEF ClosingOn
<1>11. net' \subseteq net \cup t.out
  BY <1>6, DeliverAdds
<1>12. Continues(c, t, P, {}, 0) /\ (c.callbackState # "None" => t.callbackState # "None")
  BY <1>4 DEF Follows, Proceeds
<1> HIDE DEF P, c
<1> QED BY <1>5, <1>6, <1>7, <1>8, <1>9, <1>10, <1>11, <1>12, PutKeeps DEF IdInv, c

LEMMA FinishFinStream ==
  ASSUME IdInv, IInv', StreamInv, NEW side \in Side, FinishFin(side)
  PROVE  StreamInv'
<1> PICK o \in Sessions : o = thread[side].on
  BY DEF IdInv, IInv, ThreadsOnSessions, FinishFin
<1> DEFINE c == session[o]
           t == EnterClosing(c, thread[side].windowSize)
<1>1. /\ thread[side].windowSize \in Nat /\ SideOf(o) = side /\ InTable(o)
      /\ thread[side].pc = "closing"
  BY DEF IdInv, IInv, TypeOK, ThreadState, ThreadsFit, BusyInTable, FinishFin
<1>2. Genuine(o, c) /\ SessionOK(c)
  BY <1>1, InTableIsGenuine DEF Genuine
<1>3. /\ Continues(c, t, {}, {}, 0) /\ t.callbackState = c.callbackState
      /\ Genuine(o, t)
  BY <1>1, <1>2, EnterClosingContinues, EnterClosingGenuine
<1> HIDE DEF t
<1>4. /\ Put(o, t) /\ thread' = [thread EXCEPT ![side] = Idle]
      /\ UNCHANGED <<net, sending, receiving, accepted, delivered>>
  BY DEF FinishFin, appVars, t
<1>5. /\ thread'[side] = Idle
      /\ \A other \in Side \ {side} : thread'[other] = thread[other]
  BY <1>4, BackToIdle DEF IdInv
<1>6. ClosingOn(o)
  BY <1>1 DEF ClosingOn
<1>7. HasPartner(o)
  BY <1>6 DEF StreamInv, Attached
<1>8. \A p \in Sessions : ClosingOn(p)' => ClosingOn(p)
  BY <1>5, SideOfType DEF ClosingOn, Idle
<1>9. Receives(o, {}) /\ Acknowledged(o, 0) /\ Adds(o, {})
  BY <1>4 DEF Receives, Acknowledged, Adds
<1>10. net' \subseteq net \cup t.out /\ sending' \subseteq sending
       /\ receiving' \subseteq receiving
  BY <1>4
<1> HIDE DEF c
<1> QED BY <1>3, <1>4, <1>6, <1>7, <1>8, <1>9, <1>10, PutKeeps DEF IdInv, c

LEMMA UpdateSessionStream ==
  ASSUME IdInv, IInv', StreamInv, NEW o \in Sessions, NEW late \in TimedOut(o),
         NEW room \in Rooms, UpdateSession(o, late, room)
  PROVE  StreamInv'
<1> DEFINE c == session[o]
           t == Update(c, late, room, released)
           busy == [pc |-> "updated", on |-> o, windowSize |-> 0]
<1>1. /\ room \in Nat /\ released \in BOOLEAN /\ late \in Nat
      /\ InTable(o) /\ MutexFree(SideOf(o))
  BY BoundAssumption DEF IdInv, IInv, TypeOK, TimedOut, UpdateSession
<1>2. Genuine(o, c) /\ Good(c)
  BY <1>1, InTableIsGenuine, FreshWhenIdle DEF IdInv
<1>3. Genuine(o, t) /\ Advances(c, t) /\ MayFin(c, t, {}, 0)
  BY <1>1, <1>2, UpdateGenuine, UpdateMayFin
<1> HIDE DEF t
<1>4. /\ Put(o, t) /\ net' = net \cup t.out
      /\ thread' = [thread EXCEPT ![SideOf(o)] = busy]
      /\ UNCHANGED <<sending, receiving, accepted, delivered>>
  BY DEF UpdateSession, appVars, t
<1>5. busy.pc = "updated"
  OBVIOUS
<1> HIDE DEF busy
<1>6. /\ thread'[SideOf(o)] = busy
      /\ \A side \in Side \ {SideOf(o)} : thread'[side] = thread[side]
  BY <1>4, SideOfType DEF IdInv, IInv, TypeOK
<1>7. ~ClosingOn(o)' /\ \A p \in Sessions : ClosingOn(p)' => ClosingOn(p)
  BY <1>5, <1>6, SideOfType DEF ClosingOn
<1>8. Receives(o, {}) /\ Acknowledged(o, 0)
  BY DEF Receives, Acknowledged
<1>9. session'[o].state = t.state
  BY <1>3, <1>4, PutParts DEF IdInv, Genuine
<1>10. ASSUME NEW Q, Adds(o, Q), Follows(c, t, {}, Q, 0)
       PROVE  StreamInv'
  <2>1. Continues(c, t, {}, Q, 0) /\ Proceeds(c, t)
    BY <1>10 DEF Follows
  <2>2. /\ c.callbackState # "None" => t.callbackState # "None"
        /\ c.state \in Ended => t.state \in Ended
    BY <2>1 DEF Proceeds
  <2>3. net' \subseteq net \cup t.out /\ sending' \subseteq sending
        /\ receiving' \subseteq receiving
    BY <1>4
  <2> HIDE DEF c
  <2> QED BY <1>3, <1>4, <1>7, <1>8, <1>10, <2>1, <2>2, <2>3, PutKeeps DEF IdInv, c
<1>11. CASE Follows(c, t, {}, {}, 0)
  <2>1. Adds(o, {})
    BY <1>4 DEF Adds
  <2> QED BY <1>10, <1>11, <2>1
<1>12. CASE c.state = FinWait1 /\ t.state \in Ended /\ Follows(c, t, {}, {FinOf(c)}, 0)
  <2>1. Adds(o, {FinOf(c)})
    BY <1>4, <1>7, <1>9, <1>12 DEF Adds, WritesFin
  <2> QED BY <1>10, <1>12, <2>1
<1> QED BY <1>3, <1>11, <1>12 DEF MayFin

\* Send writes the next payload, for the partner to read.
LEMMA EndSendStream ==
  ASSUME IdInv, IInv', StreamInv, NEW o \in Sessions, EndSend(o)
  PROVE  StreamInv' /\ HasPartner(o)
<1> DEFINE c == session[o]
           payload == Len(accepted[o]) + 1
           t == FinishSend(c, payload)
<1>1. payload \in Nat /\ o \in sending /\ HasFreeSlot(c.sendWindow)
  BY DEF EndSend, IdInv, IInv, TypeOK
<1>2. Genuine(o, c) /\ SessionOK(c)
  BY <1>1, InTableIsGenuine DEF Genuine
<1>3. Genuine(o, t) /\ Alike(c, t) /\ t.state = c.state
  BY <1>1, <1>2, FinishSendGenuine
<1>4. Follows(c, t, {}, {DataOf(o)}, 0)
  <2>1. "Data" \in SessionMessage /\ NoSession \in SessionId
    BY DEF SessionMessage, SessionId
  <2> QED BY <1>1, <1>2, <2>1, WriteMessageIntoSendWindowFollows DEF FinishSend, DataOf
<1> HIDE DEF t
<1>5. /\ Put(o, t) /\ sending' = sending \ {o}
      /\ accepted' = [accepted EXCEPT ![o] = Append(accepted[o], payload)]
      /\ UNCHANGED <<net, thread, receiving, delivered>>
  BY DEF EndSend, t
<1>6. HasPartner(o)
  BY <1>1 DEF StreamInv, Attached
<1>7. Receives(o, {}) /\ Acknowledged(o, 0) /\ Adds(o, {DataOf(o)})
  BY <1>5, <1>6 DEF Receives, Acknowledged, Adds, WritesData
<1>8. /\ Continues(c, t, {}, {DataOf(o)}, 0)
      /\ c.callbackState # "None" => t.callbackState # "None"
  BY <1>3, <1>4 DEF Follows, Alike
<1>9. /\ net' \subseteq net \cup t.out /\ sending' \subseteq sending
      /\ receiving' \subseteq receiving
      /\ \A p \in Sessions : ClosingOn(p)' => ClosingOn(p)
  BY <1>5 DEF ClosingOn
<1> HIDE DEF c
<1>10. StreamInv'
  BY <1>3, <1>5, <1>6, <1>7, <1>8, <1>9, PutKeeps DEF IdInv, c
<1> QED BY <1>6, <1>10

\* Several objects go on at once, and nothing is sent but Rsts.
LEMMA AllFollow ==
  ASSUME IdInv, IInv', StreamInv,
         \A o \in Sessions : /\ Follows(session[o], session'[o], {}, {}, 0)
                             /\ Advances(session[o], session'[o])
                             /\ session'[o].out = session[o].out
                             /\ ClosingOn(o)' => ClosingOn(o)
                             /\ o \in sending' \cup receiving' =>
                                    \/ o \in sending \cup receiving
                                    \/ PeerOf(o) # NoSession,
         \A d \in net' : d \in net \/ d.packet.messageId = "Rst",
         UNCHANGED <<accepted, delivered>>
  PROVE  StreamInv'
<1>1. Client \in Sessions
  BY DEF Sessions
<1>2. Acting(Client, {}, {}, 0)
  BY <1>1 DEF Acting, Follows
<1>3. Receives(Client, {}) /\ Acknowledged(Client, 0) /\ Adds(Client, {})
  BY DEF Receives, Acknowledged, Adds
<1>4. AllForwarded'
  BY DEF StreamInv, AllForwarded
<1>5. \A o \in Sessions : Ongoing(o)
  BY DEF Ongoing, Follows, Proceeds
<1> QED BY <1>1, <1>2, <1>3, <1>4, <1>5, StreamKeeps DEF IdInv

\* No object is touched.
LEMMA NoneActs ==
  ASSUME IdInv, IInv', StreamInv, UNCHANGED <<session, accepted, delivered>>,
         \A d \in net' : d \in net \/ d.packet.messageId = "Rst",
         \A o \in Sessions : /\ ClosingOn(o)' => ClosingOn(o)
                             /\ o \in sending' \cup receiving' =>
                                    \/ o \in sending \cup receiving
                                    \/ PeerOf(o) # NoSession
  PROVE  StreamInv'
<1>1. \A o \in Sessions : SessionOK(session[o])
  BY DEF IdInv, IInv, SessionsOK
<1>2. ASSUME NEW o \in Sessions
      PROVE  /\ Follows(session[o], session'[o], {}, {}, 0)
             /\ Advances(session[o], session'[o])
             /\ session'[o].out = session[o].out
  BY <1>1, NothingFollows DEF Advances
<1> QED BY <1>2, AllFollow

LEMMA AnswerWithResetStream ==
  ASSUME IdInv, IInv', StreamInv, NEW d \in net, RefuseSyn(d) \/ ReceiveUnknown(d)
  PROVE  StreamInv'
<1> DEFINE r == Reset(d.dst, d.packet.sessionId)
<1>1. Deliver(d, {r}) /\ UNCHANGED <<session, thread, sending, receiving, accepted, delivered>>
  BY DEF RefuseSyn, ReceiveUnknown, appVars
<1>2. r.packet.messageId = "Rst"
  BY DEF Reset, MakeDatagram, MakePacket
<1> HIDE DEF r
<1>3. \A e \in net' : e \in net \/ e.packet.messageId = "Rst"
  BY <1>1, <1>2, DeliverAdds
<1> QED BY <1>1, <1>3, NoneActs DEF ClosingOn

\* The calls of an application that find or leave the session as it is.
LEMMA CallStream ==
  ASSUME IdInv, IInv', StreamInv, NEW o \in Sessions,
         BeginSend(o) \/ SendTimeout(o) \/ BeginReceive(o) \/ ReceiveNothing(o)
  PROVE  StreamInv'
<1>1. /\ UNCHANGED <<session, net, thread, accepted, delivered>>
      /\ sending' \subseteq sending \/ (HasSession(o) /\ sending' = sending \cup {o})
      /\ receiving' \subseteq receiving \/ (HasSession(o) /\ receiving' = receiving \cup {o})
  BY DEF BeginSend, SendTimeout, BeginReceive, ReceiveNothing
<1>2. HasSession(o) => PeerOf(o) # NoSession
  BY ObjectAssumption DEF HasSession, PeerOf, StreamInv, Attached, HasPartner
<1>3. \A p \in Sessions : p \in sending' \cup receiving' =>
          p \in sending \cup receiving \/ PeerOf(p) # NoSession
  BY <1>1, <1>2
<1> QED BY <1>1, <1>3, NoneActs DEF ClosingOn

LEMMA HandleClientDisconnectionStream ==
  ASSUME IdInv, IInv', StreamInv, NEW side \in Side, HandleClientDisconnection(side)
  PROVE  StreamInv'
<1>1. UNCHANGED <<net, thread, sending, receiving, accepted, delivered>>
  BY DEF HandleClientDisconnection, appVars
<1>2. ASSUME NEW o \in Sessions
      PROVE  /\ Follows(session[o], session'[o], {}, {}, 0)
             /\ Advances(session[o], session'[o])
             /\ session'[o].out = session[o].out
  <2> DEFINE c == session[o]
             t == Shutdown(c, FALSE)
  <2>1. SessionOK(c)
    BY DEF IdInv, IInv, SessionsOK
  <2>2. session'[o] = IF SideOf(o) = side /\ InTable(o) THEN t ELSE c
    BY DEF HandleClientDisconnection
  <2>3. Follows(c, c, {}, {}, 0) /\ Advances(c, c)
    BY <2>1, NothingFollows DEF Advances
  <2>4. Follows(c, t, {}, {}, 0)
    BY <2>1, ShutdownFollows
  <2>5. t.state = Closed /\ t.out = c.out
    BY <2>1 DEF Shutdown, SetState, SessionOK, SessionObject
  <2> HIDE DEF t, c
  <2>6. Advances(c, t)
    BY <2>5 DEF Advances
  <2> QED BY <2>2, <2>3, <2>4, <2>5, <2>6 DEF c
<1> QED BY <1>1, <1>2, AllFollow DEF ClosingOn

LEMMA UnregisterProtocolServerStream ==
  ASSUME IdInv, IInv', StreamInv, UnregisterProtocolServer
  PROVE  StreamInv'
<1>1. UNCHANGED <<net, thread, sending, receiving, accepted, delivered>>
  BY DEF UnregisterProtocolServer, appVars
<1>2. ASSUME NEW o \in Sessions
      PROVE  /\ Follows(session[o], session'[o], {}, {}, 0)
             /\ Advances(session[o], session'[o])
             /\ session'[o].out = session[o].out
  <2> DEFINE c == session[o]
             t == HandleUnregisterProtocolServer(c)
             cb == IF c.callbackState = "EstablishedCalled"
                   THEN "TerminatedCalled" ELSE c.callbackState
             a == [c EXCEPT !.callbackState = cb]
  <2>1. SessionOK(c)
    BY DEF IdInv, IInv, SessionsOK
  <2>2. session'[o] = IF o \in Server /\ InTable(o) THEN t ELSE c
    BY DEF UnregisterProtocolServer
  <2>3. Follows(c, c, {}, {}, 0) /\ Advances(c, c)
    BY <2>1, NothingFollows DEF Advances
  <2>4. Follows(c, t, {}, {}, 0)
    BY <2>1, HandleUnregisterFollows
  <2>5. a \in SessionObject /\ a.out = c.out
    BY <2>1 DEF SessionOK, SessionObject, SessionCallbackState
  <2>6. t = Shutdown(a, TRUE)
    BY DEF HandleUnregisterProtocolServer
  <2> HIDE DEF a
  <2>7. t.out = c.out
    BY <2>5, <2>6 DEF Shutdown, SetState, SessionObject
  <2>8. InTable(o) => Advances(c, t)
    BY InTableIsGenuine, HandleUnregisterGenuine
  <2> HIDE DEF t, c
  <2> QED BY <2>2, <2>3, <2>4, <2>7, <2>8 DEF c
<1> QED BY <1>1, <1>2, AllFollow DEF ClosingOn

----------------------------------------------------------------------------
\* The handshake.  A new object x writes at most the packet Q of the
\* handshake, and has no partner, before and after.
Starts(x, Q) ==
    LET t == session'[x]
    IN  /\ \A p \in Q : Kept(p, 2, 0) /\ p.messageId \in {"Syn", "SynAck"}
        /\ Writes(InitSendWindow, t.sendWindow, Q)
        /\ t.sendWindow.nextUnacknowledgedSequence <= 1
        /\ t.receiveWindow.nextUnreadSequence <= 2
        /\ t.receiveWindow.nextExpectedSequence <= 2
        /\ \A i \in Slot : ~t.receiveWindow.valid[i]
        /\ t.state < Established /\ t.callbackState = "None" /\ ~t.connectionEvent
        /\ t.out = {}
        /\ IF x = Client
           THEN /\ t.sessionId = Client /\ Q # {}
                /\ t.receiveWindow = InitReadWindow
           ELSE Q # {} => t.receiveWindow.nextExpectedSequence >= 2

LEMMA StartKeeps ==
  ASSUME IInv, IInv', StreamInv, NEW x \in Sessions, IsUnused(x), NEW Q, Starts(x, Q),
         \A o \in Sessions \ {x} : session'[o] = session[o],
         \A d \in net' : d \in net \/ d.packet.messageId = "Rst",
         UNCHANGED <<thread, sending, receiving, accepted, delivered>>
  PROVE  StreamInv'
<1>1. /\ session[x].sendWindow = InitSendWindow /\ session[x].receiveWindow = InitReadWindow
      /\ session[x].callbackState = "None" /\ session[x].sessionId = NoSession
      /\ NextOf(x) = 1 /\ ExpectedOf(x) = 1
  BY DEF IsUnused, NewSession, NextOf, ExpectedOf, InitSendWindow, InitReadWindow
<1>2. ~HasPartner(x) /\ Client \in Sessions /\ Client \notin Server
  BY <1>1, ObjectAssumption DEF StreamInv, Opening, NextOf, Sessions
<1>3. ASSUME NEW o \in Sessions
      PROVE  HasPartner(o)' = HasPartner(o) /\ (HasPartner(o) => Partner(o)' = Partner(o))
  <2>1. CASE x = Client
    <3>1. session'[Client].sessionId = Client /\ session[Client].sessionId \notin Server
      BY <1>2, <2>1 DEF Starts, HasPartner
    <3> QED BY <1>2, <3>1 DEF HasPartner, Sessions
  <2>2. CASE x # Client
    <3>1. session'[Client] = session[Client]
      BY <1>2, <2>2
    <3> QED BY <3>1 DEF HasPartner, Partner
  <2> QED BY <2>1, <2>2
<1>4. /\ NextOf(x)' = IF Q = {} THEN 1 ELSE 2
      /\ \A i \in Slot : \/ session'[x].sendWindow.messages[i] =
                                session[x].sendWindow.messages[i]
                         \/ session'[x].sendWindow.messages[i] \in Q
  BY <1>1 DEF Starts, Writes, NextOf
<1>5. \A o \in Sessions : Sent(o)' \subseteq Sent(o)
  BY DEF Sent
<1>6. Streaming'
  <2> SUFFICES ASSUME NEW o \in Sessions
               PROVE  (\E f \in Nat : /\ Sending(o, f)
                                      /\ HasPartner(o) => Reading(Partner(o), o, f))'
    BY DEF Streaming
  <2>1. PICK f \in Nat : Sending(o, f) /\ (HasPartner(o) => Reading(Partner(o), o, f))
    BY DEF StreamInv, Streaming
  <2>2. /\ f # 0 => /\ f \in 2..(NextOf(o) - 1) /\ session[o].state \in Ended
                    /\ ~ClosingOn(o)
        /\ Len(accepted[o]) = Before(f, NextOf(o))
    BY <2>1 DEF Sending, NextOf
  <2>3. /\ ExpectedOf(o)' \in Nat /\ UnreadOf(o)' \in Nat /\ UnreadOf(o)' >= 1
        /\ UnreadOf(o)' <= ExpectedOf(o)' /\ NextOf(o) \in Nat /\ ExpectedOf(o) \in Nat
    BY Numbers, NumbersNext
  <2>4. CASE o = x
    <3>1. f = 0
      BY <1>1, <2>2, <2>4
    <3>2. Grows(NextOf(o), 0, NextOf(o)', 0)
      BY <1>1, <1>4, <2>4 DEF Grows
    <3>3. Len(accepted'[o]) = Before(0, NextOf(o)')
      BY <1>1, <1>4, <2>2, <2>4, <3>1 DEF Before
    <3>4. ExpectedOf(o) <= ExpectedOf(o)'
      BY <1>1, <2>3, <2>4
    <3>5. \A i \in Slot : LET p == session'[o].sendWindow.messages[i]
                          IN  \/ p = session[o].sendWindow.messages[i]
                              \/ Kept(p, NextOf(o)', 0)
      BY <1>4, <2>4 DEF Starts
    <3>6. \A d \in Sent(o)' : d \in Sent(o)
      BY <1>5
    <3>7. Sending(o, 0)'
      BY <2>1, <3>1, <3>2, <3>3, <3>4, <3>5, <3>6, SendingOn
    <3> QED BY <1>2, <1>3, <2>4, <3>7
  <2>5. CASE o # x
    <3>1. session'[o] = session[o] /\ NextOf(o)' = NextOf(o) /\ ExpectedOf(o)' = ExpectedOf(o)
      BY <2>5 DEF NextOf, ExpectedOf
    <3>2. Grows(NextOf(o), f, NextOf(o)', f)
      BY <3>1 DEF Grows
    <3>3. f # 0 => /\ f \in 2..(NextOf(o)' - 1) /\ session'[o].state \in Ended
                   /\ ~ClosingOn(o)'
      BY <2>2, <3>1 DEF ClosingOn
    <3>4. \A d \in Sent(o)' : d \in Sent(o)
      BY <1>5
    <3>5. Len(accepted'[o]) = Before(f, NextOf(o)')
      BY <2>2, <3>1
    <3>6. ExpectedOf(o) <= ExpectedOf(o)'
      BY <2>3, <3>1
    <3>7. Sending(o, f)'
      BY <2>1, <3>1, <3>2, <3>3, <3>4, <3>5, <3>6, SendingOn
    <3>8. ASSUME HasPartner(o)
          PROVE  Reading(Partner(o), o, f)'
      <4>1. Partner(o) \in Sessions /\ Partner(o) # x /\ Partner(o)' = Partner(o)
        BY <1>2, <1>3, <3>8, PartnerOf
      <4>2. session'[Partner(o)] = session[Partner(o)]
        BY <4>1
      <4> QED BY <2>1, <3>1, <3>8, <4>1, <4>2 DEF Reading
    <3> QED BY <1>3, <3>7, <3>8
  <2> QED BY <2>4, <2>5
<1>7. Opening'
  <2> SUFFICES ASSUME NEW o \in Sessions
               PROVE  IF HasPartner(o)' THEN NextOf(o)' >= 2 /\ UnreadOf(o)' >= 2
                      ELSE Idling(o)'
    BY DEF Opening, NextOf, UnreadOf
  <2>1. CASE o = x
    <3>1. delivered'[o] = <<>>
      BY <1>2, <2>1 DEF StreamInv, Opening, Idling
    <3> QED BY <1>2, <1>3, <2>1, <3>1 DEF Idling, Starts
  <2>2. CASE o # x
    BY <1>3, <2>2 DEF StreamInv, Opening, Idling, NextOf, UnreadOf
  <2> QED BY <2>1, <2>2
<1>8. Answering'
  <2> SUFFICES ASSUME NEW o \in Server, NextOf(o)' >= 2
               PROVE  ExpectedOf(o)' >= 2
    BY DEF Answering, NextOf, ExpectedOf
  <2>1. CASE o = x
    BY <1>2, <1>4, <2>1 DEF Starts, ExpectedOf
  <2>2. CASE o # x
    BY <2>2 DEF StreamInv, Answering, NextOf, ExpectedOf, Sessions
  <2> QED BY <2>1, <2>2
<1>9. ClientSpeaks'
  <2>1. ASSUME NEW p, ToPartner(p)
        PROVE  ToPartner(p)'
    <3>1. CASE x # Client
      BY <1>2, <1>3, <2>1, <3>1 DEF ToPartner
    <3>2. CASE x = Client
      BY <1>2, <2>1, <3>2 DEF ToPartner
    <3> QED BY <3>1, <3>2
  <2>2. \A i \in Slot : ToPartner(session[Client].sendWindow.messages[i])'
    <3> SUFFICES ASSUME NEW i \in Slot
                 PROVE  ToPartner(session[Client].sendWindow.messages[i])'
      OBVIOUS
    <3>1. PICK p : p = session'[Client].sendWindow.messages[i]
      OBVIOUS
    <3>2. CASE p = session[Client].sendWindow.messages[i]
      <4>1. ToPartner(p)'
        BY <2>1, <3>2 DEF StreamInv, ClientSpeaks
      <4> QED BY <3>1, <4>1 DEF ToPartner
    <3>3. CASE p # session[Client].sendWindow.messages[i]
      <4>1. p \in Q
        BY <1>2, <1>4, <3>1, <3>3
      <4>2. p.messageId \in {"Syn", "SynAck"}
        BY <4>1 DEF Starts
      <4> QED BY <3>1, <4>2 DEF ToPartner
    <3> QED BY <3>2, <3>3
  <2>3. \A d \in Sent(Client)' : ToPartner(d.packet)'
    <3> SUFFICES ASSUME NEW d \in Sent(Client)' PROVE ToPartner(d.packet)'
      OBVIOUS
    <3>1. ToPartner(d.packet)
      BY <1>2, <1>5 DEF StreamInv, ClientSpeaks
    <3> QED BY <2>1, <3>1
  <2>4. ~HasPartner(Client)' => session'[Client].receiveWindow = InitReadWindow
    BY <1>2, <1>3 DEF StreamInv, ClientSpeaks, Starts
  <2>5. session'[Client].sessionId # NoSession => NextOf(Client)' >= 2
    <3>1. CASE x = Client
      BY <1>4, <3>1 DEF Starts
    <3>2. CASE x # Client
      BY <1>2, <3>2 DEF StreamInv, ClientSpeaks, NextOf
    <3> QED BY <3>1, <3>2
  <2> QED BY <2>2, <2>3, <2>4, <2>5 DEF ClientSpeaks, NextOf
<1>10. Attached'
  <2>1. ASSUME NEW o \in Sessions
        PROVE  /\ session'[o].state >= Established \/ ClosingOn(o)'
                  \/ PeerOf(o)' # NoSession => HasPartner(o)'
               /\ o \in sending' \cup receiving' => PeerOf(o)' # NoSession
    <3>1. CASE o = x
      <4>1. ~ClosingOn(o)' /\ o \notin sending' \cup receiving'
        BY <1>2, <3>1 DEF StreamInv, Attached, ClosingOn
      <4>2. ~(session'[o].state >= Established)
        <5>1. session'[o].state \in SessionState
          BY DEF IInv, TypeOK, SessionObject
        <5> QED BY <3>1, <5>1 DEF Starts, SessionState, Established
      <4>3. PeerOf(o)' = NoSession
        BY <1>2, <3>1 DEF PeerOf, Starts
      <4> QED BY <4>1, <4>2, <4>3
    <3>2. CASE o # x
      <4>1. session'[o] = session[o] /\ ClosingOn(o)' = ClosingOn(o)
        BY <3>2 DEF ClosingOn
      <4>2. PeerOf(o)' = PeerOf(o)
        BY <4>1 DEF PeerOf
      <4> QED BY <1>3, <4>1, <4>2 DEF StreamInv, Attached
    <3> QED BY <3>1, <3>2
  <2>2. session'[Client].connectionEvent => HasPartner(Client)'
    BY <1>2, <1>3 DEF StreamInv, Attached, Starts
  <2> QED BY <2>1, <2>2 DEF Attached
<1>11. Numbering' /\ AllForwarded'
  BY DEF StreamInv, Numbering, AllForwarded, Starts
<1> QED BY <1>6, <1>7, <1>8, <1>9, <1>10, <1>11 DEF StreamInv

LEMMA EstablishStream ==
  ASSUME IdInv, IInv', StreamInv, EstablishSessionForClient
  PROVE  StreamInv'
<1> DEFINE syn == MakePacket("Syn", Client, 1, 0, NoSession)
           Q == {syn}
           c == NewSession(SideOf(Client))
           t == Connect(c, Client)
<1>1. Client \in Sessions /\ session[Client] = c
  BY DEF Sessions, EstablishSessionForClient, IsUnused
<1>2. /\ t.sessionId = Client /\ t.state = SynSent /\ t.out = {}
      /\ Writes(InitSendWindow, t.sendWindow, Q)
      /\ t.sendWindow.nextUnacknowledgedSequence <= 1
      /\ t.receiveWindow = InitReadWindow
      /\ t.callbackState = "None" /\ ~t.connectionEvent
  BY ConnectWrites
<1>3. SessionOK(t)
  BY <1>1, ConnectGenuine DEF Genuine
<1> HIDE DEF t
<1>4. /\ Put(Client, t)
      /\ UNCHANGED <<net, thread, sending, receiving, accepted, delivered>>
  BY <1>1 DEF EstablishSessionForClient, appVars, t
<1>5. /\ session'[Client].sessionId = t.sessionId /\ session'[Client].state = t.state
      /\ session'[Client].sendWindow = t.sendWindow
      /\ session'[Client].receiveWindow = t.receiveWindow
      /\ session'[Client].callbackState = t.callbackState
      /\ session'[Client].connectionEvent = t.connectionEvent
      /\ session'[Client].out = {}
      /\ \A o \in Sessions \ {Client} : session'[o] = session[o]
  BY <1>1, <1>3, <1>4, PutParts DEF IdInv
<1>6. \A p \in Q : Kept(p, 2, 0) /\ p.messageId \in {"Syn", "SynAck"}
  BY DEF Kept, MakePacket
<1>7. /\ InitReadWindow.nextUnreadSequence <= 2 /\ InitReadWindow.nextExpectedSequence <= 2
      /\ \A i \in Slot : ~InitReadWindow.valid[i]
      /\ SynSent < Established /\ Q # {}
  BY DEF InitReadWindow, SynSent, Established
<1> HIDE DEF Q
<1>8. Starts(Client, Q)
  BY <1>2, <1>5, <1>6, <1>7 DEF Starts
<1>9. IsUnused(Client)
  BY DEF EstablishSessionForClient
<1> QED BY <1>1, <1>4, <1>5, <1>8, <1>9, StartKeeps DEF IdInv

\* The Syn on the bus is the client's, with number 1.
LEMMA SynIsFirst ==
  ASSUME IdInv, StreamInv, NEW d \in net, d.packet.messageId = "Syn"
  PROVE  d.packet.sequence = 1
<1>1. PICK y \in Sessions : d \in OwnDatagram(y)
  BY DEF IdInv, NetIsGenuine, FromObject
<1>2. y = Client /\ d \in Sent(Client)
  BY <1>1, ObjectAssumption DEF OwnDatagram, OwnPacket, IsOwn, Sent
<1>3. PICK f \in Nat : Sending(Client, f)
  BY DEF StreamInv, Streaming, Sessions
<1> QED BY <1>2, <1>3 DEF Sending, Owed, Kept, InStream

LEMMA AcceptSynStream ==
  ASSUME IdInv, IInv', StreamInv, NEW d \in net, NEW o \in Server, AcceptSyn(d, o)
  PROVE  StreamInv'
<1> DEFINE answer == MakePacket("SynAck", o, 1, d.packet.sequence, d.packet.sessionId)
           Q == {answer}
           c == NewSession(SideOf(o))
           t == HandleMessage(BindToServer(c, o), d)
           w == StartAfter(InitReadWindow, 1)
<1>1. /\ o \in Sessions /\ o # Client /\ session[o] = c /\ IsUnused(o)
      /\ d \in Datagram /\ d.packet.messageId = "Syn"
  BY ObjectAssumption DEF Sessions, AcceptSyn, IsUnused, IdInv, IInv, TypeOK
<1>2. d.packet.sequence = 1
  BY <1>1, SynIsFirst
<1>3. /\ t.sessionId = o /\ t.state = SynReceived /\ t.out = {}
      /\ Writes(InitSendWindow, t.sendWindow, Q)
      /\ t.sendWindow.nextUnacknowledgedSequence <= 1
      /\ t.receiveWindow = w
      /\ t.callbackState = "None" /\ ~t.connectionEvent
  BY <1>1, <1>2, AcceptWrites
<1>4. SessionOK(t)
  <2> DEFINE b == BindToServer(c, o)
  <2>1. /\ Genuine(o, b) /\ b.receiveWindow = InitReadWindow
    BY <1>1, BindToServerGenuine, BindToServerParts
  <2>2. d.packet.sessionId = Client
    BY <1>1, SenderOf
  <2> HIDE DEF b
  <2>3. Genuine(o, HandleMessage(b, d))
    BY <1>1, <2>1, <2>2, HandleSynGenuine
  <2> QED BY <2>3 DEF Genuine, b
<1> HIDE DEF t
<1>5. /\ Put(o, t) /\ Deliver(d, t.out)
      /\ UNCHANGED <<thread, sending, receiving, accepted, delivered>>
  BY <1>1 DEF AcceptSyn, appVars, t
<1>6. /\ session'[o].sessionId = t.sessionId /\ session'[o].state = t.state
      /\ session'[o].sendWindow = t.sendWindow
      /\ session'[o].receiveWindow = t.receiveWindow
      /\ session'[o].callbackState = t.callbackState
      /\ session'[o].connectionEvent = t.connectionEvent
      /\ session'[o].out = {}
      /\ \A p \in Sessions \ {o} : session'[p] = session[p]
  BY <1>1, <1>4, <1>5, PutParts DEF IdInv
<1>7. \A p \in Q : Kept(p, 2, 0) /\ p.messageId \in {"Syn", "SynAck"}
  BY <1>2 DEF Kept, MakePacket
<1>8. /\ w.nextUnreadSequence = 2 /\ w.nextExpectedSequence = 2
      /\ \A i \in Slot : ~w.valid[i]
      /\ SynReceived < Established
  BY DEF StartAfter, InitReadWindow, SynReceived, Established
<1> HIDE DEF Q, w
<1>9. Starts(o, Q)
  BY <1>1, <1>3, <1>6, <1>7, <1>8 DEF Starts
<1>10. \A e \in net' : e \in net
  BY <1>3, <1>5, DeliverAdds
<1> QED BY <1>1, <1>5, <1>6, <1>9, <1>10, StartKeeps DEF IdInv

LEMMA RejectSynStream ==
  ASSUME IdInv, IInv', StreamInv, NEW d \in net, NEW o \in Server, RejectSyn(d, o)
  PROVE  StreamInv'
<1> DEFINE c == NewSession(SideOf(o))
           b == BindToServer(c, o)
           t == Shutdown(b, FALSE)
           r == Reset(d.dst, d.packet.sessionId)
<1>1. o \in Sessions /\ o # Client /\ session[o] = c /\ IsUnused(o)
  BY ObjectAssumption DEF Sessions, RejectSyn, IsUnused
<1>2. /\ SessionOK(b) /\ b.sessionId = o
      /\ b.sendWindow = InitSendWindow /\ b.receiveWindow = InitReadWindow
      /\ b.out = {} /\ b.callbackState = "None" /\ ~b.connectionEvent
  BY BindToServerParts
<1> HIDE DEF b
<1>3. /\ t.sessionId = o /\ t.sendWindow = InitSendWindow
      /\ t.receiveWindow = InitReadWindow /\ t.out = {}
      /\ t.callbackState = "None" /\ ~t.connectionEvent /\ t.state = Closed
  BY <1>2 DEF Shutdown, SetState, SessionOK, SessionObject
<1>4. SessionOK(t)
  BY <1>1, <1>2, ShutdownGenuine, BindToServerGenuine DEF Genuine, b
<1> HIDE DEF t
<1>5. /\ Put(o, t) /\ Deliver(d, {r})
      /\ UNCHANGED <<thread, sending, receiving, accepted, delivered>>
  BY <1>1 DEF RejectSyn, appVars, t, b
<1>6. /\ session'[o].sessionId = t.sessionId /\ session'[o].state = t.state
      /\ session'[o].sendWindow = t.sendWindow
      /\ session'[o].receiveWindow = t.receiveWindow
      /\ session'[o].callbackState = t.callbackState
      /\ session'[o].connectionEvent = t.connectionEvent
      /\ session'[o].out = {}
      /\ \A p \in Sessions \ {o} : session'[p] = session[p]
  BY <1>1, <1>4, <1>5, PutParts DEF IdInv
<1>7. /\ InitReadWindow.nextUnreadSequence <= 2 /\ InitReadWindow.nextExpectedSequence <= 2
      /\ \A i \in Slot : ~InitReadWindow.valid[i]
      /\ InitSendWindow.nextUnacknowledgedSequence <= 1
      /\ Writes(InitSendWindow, InitSendWindow, {})
      /\ Closed < Established
  BY DEF InitReadWindow, InitSendWindow, Closed, Established, Writes
<1>8. Starts(o, {})
  BY <1>1, <1>3, <1>6, <1>7 DEF Starts
<1>9. r.packet.messageId = "Rst"
  BY DEF Reset, MakeDatagram, MakePacket
<1> HIDE DEF r
<1>10. \A e \in net' : e \in net \/ e.packet.messageId = "Rst"
  BY <1>5, <1>9, DeliverAdds
<1> QED BY <1>1, <1>5, <1>6, <1>8, <1>10, StartKeeps DEF IdInv

\* A SynAck on the bus is the one of its sender, which has got the Syn.
LEMMA SynAckIsFirst ==
  ASSUME IdInv, StreamInv, NEW d \in net, d.packet.messageId = "SynAck"
  PROVE  LET q == d.packet.sessionId
         IN  /\ q \in Server /\ q \in Sessions /\ d.dst = "client"
             /\ d.packet.initial = Client
             /\ d.packet.sequence = 1 /\ d.packet.payload = 1
             /\ NextOf(q) >= 2 /\ ExpectedOf(q) >= 2
<1> DEFINE q == d.packet.sessionId
<1>1. d.dst = "client" /\ q \in Server /\ q \in Sessions /\ d.packet.initial = Client
  BY SenderOf DEF Sessions
<1>2. d \in Sent(q)
  BY <1>1, ObjectAssumption DEF Sent, SideOf, Opposite
<1>3. PICK f \in Nat : Sending(q, f)
  BY <1>1 DEF StreamInv, Streaming
<1>4. Kept(d.packet, NextOf(q), f)
  BY <1>2, <1>3 DEF Sending, Owed, NextOf
<1>5. d.packet.sequence = 1 /\ d.packet.payload = 1 /\ NextOf(q) >= 2
  BY <1>4 DEF Kept, InStream
<1>6. ExpectedOf(q) >= 2
  BY <1>1, <1>5 DEF StreamInv, Answering, NextOf, ExpectedOf
<1> QED BY <1>1, <1>5, <1>6

LEMMA LaterSynAckStream ==
  ASSUME IdInv, IInv', StreamInv, NEW d \in net, MutexFree(d.dst),
         ReceiveSynAck(d, Client), session[Client].state # SynSent
  PROVE  StreamInv'
<1> DEFINE q == d.packet.sessionId
           c == session[Client]
           t == HandleMessage(c, d)
<1>1. /\ q \in Server /\ q \in Sessions /\ d.dst = "client" /\ d.packet.initial = Client
      /\ d.packet.sequence = 1 /\ ExpectedOf(q) >= 2
      /\ d \in Datagram /\ d.packet.messageId = "SynAck"
  BY SynAckIsFirst DEF ReceiveSynAck, IdInv, IInv, TypeOK
<1>2. Client \in Sessions /\ InTable(Client) /\ key[Client] \in {q, Client}
  BY <1>1 DEF ReceiveSynAck, SynAckTarget, Find, Sessions
<1>3. Genuine(Client, c) /\ Good(c) /\ Fitting(Client, c, key[Client], registered)
  BY <1>1, <1>2, InTableIsGenuine, FreshWhenIdle, ClientIsAlone DEF IdInv, TableFits
<1>4. Genuine(Client, t) /\ t.state = c.state
  BY <1>1, <1>3, HandleSynAckGenuine
<1>5. \/ Follows(c, t, {}, {}, 0)
      \/ c.state >= Established /\ Follows(c, t, {}, {}, d.packet.sequence + 1)
  BY <1>1, <1>3, LaterSynAckMessage
<1> HIDE DEF t
<1>6. /\ Put(Client, t) /\ Deliver(d, t.out)
      /\ UNCHANGED <<thread, sending, receiving, accepted, delivered>>
  BY DEF ReceiveSynAck, appVars, t
<1>7. c.state >= Established => HasPartner(Client) /\ Partner(Client) = q
  <2> SUFFICES ASSUME c.state >= Established
               PROVE  HasPartner(Client) /\ Partner(Client) = q
    OBVIOUS
  <2>1. c.state # Closed /\ c.state # SynSent
    BY DEF Closed, SynSent, Established
  <2>2. c.sessionId = q
    BY <1>2, <1>3, <2>1 DEF Fitting, InTable
  <2> QED BY <1>1, <2>2 DEF HasPartner, Partner
<1>8. ASSUME NEW n \in Nat, Follows(c, t, {}, {}, n), Acknowledged(Client, n)
      PROVE  StreamInv'
  <2>1. Continues(c, t, {}, {}, n) /\ Proceeds(c, t)
    BY <1>8 DEF Follows
  <2>2. /\ c.callbackState # "None" => t.callbackState # "None"
        /\ Advances(c, t)
    BY <1>4, <2>1 DEF Proceeds, Advances
  <2>3. /\ net' \subseteq net \cup t.out
        /\ \A p \in Sessions : ClosingOn(p)' => ClosingOn(p)
    BY <1>6, DeliverAdds DEF ClosingOn
  <2>4. Receives(Client, {}) /\ Adds(Client, {})
    BY <1>6 DEF Receives, Adds
  <2> HIDE DEF c
  <2> QED BY <1>2, <1>4, <1>6, <1>8, <2>1, <2>2, <2>3, <2>4, PutKeeps DEF IdInv, c
<1>9. Acknowledged(Client, 0)
  BY DEF Acknowledged
<1>10. c.state >= Established => Acknowledged(Client, 2)
  BY <1>1, <1>7 DEF Acknowledged
<1>11. d.packet.sequence + 1 = 2
  BY <1>1
<1> QED BY <1>5, <1>8, <1>9, <1>10, <1>11

\* The first SynAck makes partners of the client and its sender.
LEMMA NobodyHasPartner ==
  ASSUME IdInv, StreamInv, MutexFree("client"), session[Client].state = SynSent
  PROVE  /\ \A o \in Sessions : ~HasPartner(o) /\ Idling(o) /\ PeerOf(o) = NoSession
         /\ session[Client].receiveWindow = InitReadWindow
<1>1. Client \in Sessions /\ Client \notin Server /\ SideOf(Client) = "client"
  BY ObjectAssumption DEF Sessions, SideOf
<1>2. session[Client].receiveWindow = InitReadWindow
  BY <1>1, FreshWhenIdle DEF IdInv, Good, Fresh
<1>3. ~HasPartner(Client)
  BY <1>1, <1>2 DEF StreamInv, Opening, InitReadWindow
<1>4. \A o \in Sessions : ~HasPartner(o)
  BY <1>3 DEF HasPartner, Sessions
<1>5. \A o \in Sessions : Idling(o) /\ PeerOf(o) = NoSession
  BY <1>4 DEF StreamInv, Opening, Attached
<1> QED BY <1>2, <1>4, <1>5

\* An idle session that got the Syn waits for number 2.
LEMMA IdleUnread ==
  ASSUME IInv, NEW q \in Sessions, Idling(q), ExpectedOf(q) >= 2
  PROVE  UnreadOf(q) = 2 /\ ExpectedOf(q) = 2
<1> DEFINE w == session[q].receiveWindow
<1>1. /\ ExpectedOf(q) \in Nat /\ UnreadOf(q) \in Nat /\ UnreadOf(q) <= ExpectedOf(q)
      /\ RecvOK(w)
  BY Numbers
<1>2. ExpectedOf(q) = 2 /\ UnreadOf(q) <= 2 /\ \A i \in Slot : ~w.valid[i]
  BY <1>1 DEF Idling, ExpectedOf, UnreadOf
<1>3. UnreadOf(q) < ExpectedOf(q) =>
          UnreadOf(q) \in w.nextUnreadSequence..(w.nextExpectedSequence - 1)
  BY <1>1 DEF UnreadOf, ExpectedOf
<1>4. ~(UnreadOf(q) < ExpectedOf(q))
  BY <1>1, <1>2, <1>3, StoredInSlot
<1> QED BY <1>1, <1>2, <1>4

LEMMA FirstSynAckStream ==
  ASSUME IdInv, IInv', StreamInv, NEW d \in net, MutexFree(d.dst),
         ReceiveSynAck(d, Client), session[Client].state = SynSent
  PROVE  /\ StreamInv' /\ session'[Client].sessionId = d.packet.sessionId
         /\ d.packet.sessionId \in Server
         /\ \A o \in Sessions \ {Client} : session'[o] = session[o]
<1> PICK q \in Server : q = d.packet.sessionId
  BY SynAckIsFirst DEF ReceiveSynAck
<1> DEFINE c == session[Client]
           t == HandleMessage(c, d)
           ack == MakePacket("Ack", q, 1, 0, NoSession)
<1>1. /\ q \in Sessions /\ d.dst = "client" /\ d.packet.initial = Client
      /\ d.packet.sequence = 1 /\ d.packet.payload = 1
      /\ NextOf(q) >= 2 /\ ExpectedOf(q) >= 2
      /\ d \in Datagram /\ d.packet.messageId = "SynAck"
  BY SynAckIsFirst DEF ReceiveSynAck, IdInv, IInv, TypeOK
<1>2. /\ Client \in Sessions /\ Client \notin Server /\ q # Client
      /\ InTable(Client) /\ SideOf(Client) = "client"
  BY <1>1, ObjectAssumption DEF ReceiveSynAck, SynAckTarget, Find, Sessions, SideOf
<1>3. Genuine(Client, c) /\ Good(c) /\ c.sessionId # NoSession
  BY <1>1, <1>2, InTableIsGenuine, FreshWhenIdle, GenuineIsUsed DEF IdInv
<1>4. /\ \A o \in Sessions : ~HasPartner(o) /\ Idling(o) /\ PeerOf(o) = NoSession
      /\ c.receiveWindow = InitReadWindow
  BY <1>1, NobodyHasPartner
<1>5. /\ t.sessionId = q /\ t.state = Established
      /\ Writes(c.sendWindow, t.sendWindow, {})
      /\ Frees(c.sendWindow, t.sendWindow, 2)
      /\ t.receiveWindow.nextUnreadSequence = 2
      /\ t.receiveWindow.nextExpectedSequence = 2
      /\ \A i \in Slot : ~t.receiveWindow.valid[i]
      /\ \A e \in t.out : \/ e \in c.out
                          \/ /\ e.packet # Unwritten
                             /\ \E i \in Slot : e.packet = c.sendWindow.messages[i]
                          \/ e.packet = ack
  <2>1. d.packet.sequence + 1 = 2 /\ d.packet.payload + 1 = 2
    BY <1>1
  <2> QED BY <1>1, <1>3, <2>1, FirstSynAckOpens
<1>6. Genuine(Client, t)
  BY <1>1, <1>3, HandleSynAckGenuine
<1> HIDE DEF t
<1>7. /\ Put(Client, t) /\ Deliver(d, t.out)
      /\ UNCHANGED <<thread, sending, receiving, accepted, delivered>>
  BY DEF ReceiveSynAck, appVars, t
<1>8. /\ session'[Client].sessionId = q /\ session'[Client].state = Established
      /\ session'[Client].sendWindow = t.sendWindow
      /\ session'[Client].receiveWindow = t.receiveWindow
      /\ session'[Client].out = {}
      /\ \A o \in Sessions \ {Client} : session'[o] = session[o]
  BY <1>2, <1>5, <1>6, <1>7, PutParts DEF IdInv, Genuine
<1>9. /\ HasPartner(Client)' /\ HasPartner(q)' /\ Partner(Client)' = q /\ Partner(q)' = Client
      /\ \A o \in Sessions \ {Client, q} : ~HasPartner(o)'
  BY <1>2, <1>8 DEF HasPartner, Partner
<1>10. /\ NextOf(Client)' = NextOf(Client) /\ NextOf(Client) \in Nat /\ NextOf(Client) >= 2
       /\ UnreadOf(Client)' = 2 /\ ExpectedOf(Client)' = 2 /\ ExpectedOf(Client) = 1
       /\ \A i \in Slot : session'[Client].sendWindow.messages[i] =
                              session[Client].sendWindow.messages[i]
  <2>1. NextOf(Client) \in Nat /\ NextOf(Client) >= 2
    BY <1>2, <1>3, Numbers DEF StreamInv, ClientSpeaks, NextOf, IdInv
  <2>2. ExpectedOf(Client) = 1
    BY <1>4 DEF ExpectedOf, InitReadWindow
  <2> QED BY <1>5, <1>8, <2>1, <2>2 DEF Writes, NextOf, UnreadOf, ExpectedOf
<1>11. UnreadOf(q) = 2 /\ ExpectedOf(q) = 2
  BY <1>1, <1>4, IdleUnread DEF IdInv
<1>12. ASSUME NEW e \in Sent(Client)'
       PROVE  \/ e \in Sent(Client)
              \/ /\ e.packet # Unwritten
                 /\ \E i \in Slot : e.packet = c.sendWindow.messages[i]
              \/ e.packet = ack
  <2>1. e \in net \/ e \in t.out
    BY <1>7, DeliverAdds DEF Sent
  <2>2. c.out = {}
    BY <1>2 DEF StreamInv, AllForwarded
  <2>3. e \in net => e \in Sent(Client)
    BY DEF Sent
  <2> QED BY <1>5, <2>1, <2>2, <2>3
<1>13. ASSUME NEW o \in Server
       PROVE  Sent(o)' \subseteq Sent(o)
  <2> SUFFICES ASSUME NEW e \in Sent(o)' PROVE e \in Sent(o)
    OBVIOUS
  <2>1. e.dst = "client"
    BY <1>2 DEF Sent, SideOf, Opposite
  <2>2. e \notin t.out
    BY <1>2, <1>6, <2>1 DEF Genuine, OwnDatagram, Opposite
  <2> QED BY <1>7, <2>2, DeliverAdds DEF Sent
<1> HIDE DEF c, t
<1>14. Streaming'
  <2> SUFFICES ASSUME NEW o \in Sessions
               PROVE  (\E f \in Nat : /\ Sending(o, f)
                                      /\ HasPartner(o) => Reading(Partner(o), o, f))'
    BY DEF Streaming
  <2>1. PICK f \in Nat : Sending(o, f)
    BY DEF StreamInv, Streaming
  <2>2. /\ f # 0 => /\ f \in 2..(NextOf(o) - 1) /\ session[o].state \in Ended
                    /\ ~ClosingOn(o)
        /\ Len(accepted[o]) = Before(f, NextOf(o))
    BY <2>1 DEF Sending, NextOf
  <2>3. NextOf(o) \in Nat /\ ExpectedOf(o) \in Nat /\ FreedOf(o) \in Nat /\ FreedOf(o)' \in Nat
    BY Numbers, NumbersNext DEF IdInv
  <2>4. FreedOf(o) <= 1 /\ delivered[o] = <<>>
    BY <1>4 DEF Idling, FreedOf
  <2>5. delivered'[q] = <<>> /\ delivered'[Client] = <<>>
    BY <1>1, <1>2, <1>4, <1>7 DEF Idling
  <2>6. CASE o = Client
    <3>1. f = 0
      BY <2>2, <2>6 DEF Ended, SynSent, Closed, FinWait2
    <3>2. Grows(NextOf(o), 0, NextOf(o)', 0)
      BY <1>10, <2>6 DEF Grows
    <3>3. Len(accepted'[o]) = Before(0, NextOf(o)')
      BY <1>7, <1>10, <2>2, <2>6, <3>1
    <3>4. ExpectedOf(o) <= ExpectedOf(o)'
      BY <1>10, <2>6
    <3>5. \A i \in Slot : LET p == session'[o].sendWindow.messages[i]
                          IN  \/ p = session[o].sendWindow.messages[i]
                              \/ Kept(p, NextOf(o)', 0)
      BY <1>10, <2>6
    <3>6. Owed(session'[o], ack, NextOf(o)', 0)
      BY <1>10, <2>6 DEF Owed, MakePacket, ExpectedOf
    <3>7. \A e \in Sent(o)' : \/ e \in Sent(o)
                              \/ \E i \in Slot :
                                     /\ e.packet # Unwritten
                                     /\ e.packet = session[o].sendWindow.messages[i]
                              \/ Owed(session'[o], e.packet, NextOf(o)', 0)
      BY <1>12, <2>6, <3>6 DEF c
    <3>8. Sending(o, 0)'
      BY <2>1, <3>1, <3>2, <3>3, <3>4, <3>5, <3>7, SendingOn DEF IdInv
    <3>9. Reading(q, o, 0)'
      <4>1. session'[q] = session[q] /\ Len(delivered'[q]) = 0
        BY <1>1, <1>2, <1>8, <2>5
      <4>2. /\ session'[q].receiveWindow.nextUnreadSequence = 2
            /\ session'[q].receiveWindow.nextExpectedSequence = 2
            /\ \A i \in Slot : ~session'[q].receiveWindow.valid[i]
        BY <1>1, <1>4, <1>11, <4>1 DEF Idling, UnreadOf, ExpectedOf
      <4>3. FreedOf(o)' <= 2
        BY <1>5, <1>8, <2>3, <2>4, <2>6 DEF Frees, FreedOf, c
      <4>4. Before(0, 2) = 0 /\ 2 <= NextOf(o)'
        BY <1>10, <2>6 DEF Before
      <4> QED BY <4>1, <4>2, <4>3, <4>4 DEF Reading, NextOf, FreedOf
    <3>10. Reading(Partner(o), o, 0)'
      BY <1>9, <2>6, <3>9 DEF Reading
    <3> QED BY <3>8, <3>10
  <2>7. CASE o # Client
    <3>1. /\ session'[o] = session[o] /\ NextOf(o)' = NextOf(o) /\ o \in Server
          /\ ExpectedOf(o)' = ExpectedOf(o)
      BY <1>8, <2>7 DEF NextOf, ExpectedOf, Sessions
    <3>2. Grows(NextOf(o), f, NextOf(o)', f)
      BY <3>1 DEF Grows
    <3>3. f # 0 => /\ f \in 2..(NextOf(o)' - 1) /\ session'[o].state \in Ended
                   /\ ~ClosingOn(o)'
      BY <1>7, <2>2, <3>1 DEF ClosingOn
    <3>4. \A e \in Sent(o)' : e \in Sent(o)
      BY <1>13, <3>1
    <3>5. Len(accepted'[o]) = Before(f, NextOf(o)') /\ ExpectedOf(o) <= ExpectedOf(o)'
      BY <1>7, <2>2, <2>3, <3>1
    <3>6. Sending(o, f)'
      BY <2>1, <3>1, <3>2, <3>3, <3>4, <3>5, SendingOn DEF IdInv
    <3>7. ASSUME o = q
          PROVE  Reading(Client, o, f)'
      <4>1. /\ session'[Client].receiveWindow.nextUnreadSequence = 2
            /\ session'[Client].receiveWindow.nextExpectedSequence = 2
            /\ \A i \in Slot : ~session'[Client].receiveWindow.valid[i]
        BY <1>5, <1>8
      <4>2. Before(f, 2) = 0 /\ Len(delivered'[Client]) = 0
        BY <2>5 DEF Before
      <4>3. FreedOf(o)' <= 2 /\ 2 <= NextOf(o)'
        BY <1>1, <2>3, <2>4, <3>1, <3>7 DEF FreedOf
      <4> QED BY <4>1, <4>2, <4>3 DEF Reading, NextOf, FreedOf
    <3>8. HasPartner(o)' => Reading(Partner(o), o, f)'
      <4> SUFFICES ASSUME HasPartner(o)' PROVE Reading(Partner(o), o, f)'
        OBVIOUS
      <4>1. o = q
        BY <1>9, <2>7
      <4> QED BY <1>9, <3>7, <4>1 DEF Reading
    <3> QED BY <3>6, <3>8
  <2> QED BY <2>6, <2>7
<1>15. Opening'
  <2> SUFFICES ASSUME NEW o \in Sessions
               PROVE  IF HasPartner(o)' THEN NextOf(o)' >= 2 /\ UnreadOf(o)' >= 2
                      ELSE Idling(o)'
    BY DEF Opening, NextOf, UnreadOf
  <2>1. CASE o = Client
    BY <1>9, <1>10, <2>1
  <2>2. CASE o = q
    <3>1. NextOf(q)' = NextOf(q) /\ UnreadOf(q)' = UnreadOf(q)
      BY <1>1, <1>2, <1>8 DEF NextOf, UnreadOf
    <3> QED BY <1>1, <1>9, <1>11, <2>2, <3>1
  <2>3. CASE o # Client /\ o # q
    <3>1. Idling(o) /\ session'[o] = session[o]
      BY <1>4, <1>8, <2>3
    <3> QED BY <1>7, <1>9, <2>3, <3>1 DEF Idling
  <2> QED BY <2>1, <2>2, <2>3
<1>16. Answering'
  BY <1>2, <1>8 DEF StreamInv, Answering, Sessions
<1>17. ClientSpeaks'
  <2>1. ASSUME NEW p, ToPartner(p)
        PROVE  ToPartner(p)'
    BY <1>2, <1>4, <2>1 DEF ToPartner
  <2>2. \A i \in Slot : ToPartner(session[Client].sendWindow.messages[i])
    BY DEF StreamInv, ClientSpeaks
  <2>3. \A i \in Slot : ToPartner(session[Client].sendWindow.messages[i])'
    BY <1>2, <1>4, <1>10, <2>2 DEF ToPartner
  <2>4. ASSUME NEW e \in Sent(Client)'
        PROVE  ToPartner(e.packet)'
    <3>1. CASE e \in Sent(Client)
      BY <2>1, <3>1 DEF StreamInv, ClientSpeaks
    <3>2. CASE \E i \in Slot : e.packet = session[Client].sendWindow.messages[i]
      BY <2>1, <2>2, <3>2
    <3>3. CASE e.packet = ack
      <4>1. e.packet.sessionId = q
        BY <3>3 DEF MakePacket
      <4> QED BY <1>8, <1>9, <4>1 DEF ToPartner
    <3> QED BY <1>12, <3>1, <3>2, <3>3 DEF c
  <2> QED BY <1>9, <1>10, <2>3, <2>4 DEF ClientSpeaks, NextOf
<1>18. Attached'
  <2>1. ASSUME NEW o \in Sessions, o # Client
        PROVE  /\ ~(session'[o].state >= Established) /\ ~ClosingOn(o)'
               /\ PeerOf(o)' = NoSession
    <3>1. session'[o] = session[o]
      BY <1>8, <2>1
    <3>2. ~(session[o].state >= Established) /\ ~ClosingOn(o) /\ PeerOf(o) = NoSession
      BY <1>4 DEF StreamInv, Attached
    <3> QED BY <1>7, <2>1, <3>1, <3>2 DEF ClosingOn, PeerOf
  <2>2. \A o \in Sessions : o \notin sending' \cup receiving'
    BY <1>4, <1>7 DEF StreamInv, Attached
  <2> QED BY <1>9, <2>1, <2>2 DEF Attached
<1>19. Numbering' /\ AllForwarded'
  BY <1>7, <1>8 DEF StreamInv, Numbering, AllForwarded
<1>20. StreamInv'
  BY <1>14, <1>15, <1>16, <1>17, <1>18, <1>19 DEF StreamInv
<1> QED BY <1>8, <1>20

\* What a session reads next: the next payload of its partner, or the Fin,
\* when all payloads in front of it were read.
LEMMA BeforeNext ==
  ASSUME NEW f \in Nat, NEW u \in Nat, u >= 2, f # 0 => f >= 2
  PROVE  /\ u # f => Before(f, u + 1) = Before(f, u) + 1
         /\ u = f => Before(f, u + 1) = Before(f, u) /\ Before(f, u) + 2 = u
  BY DEF Before

LEMMA BeforeMonotonic ==
  ASSUME NEW f \in Nat, NEW m \in Nat, NEW n \in Nat, m <= n, f # 0 => f >= 2
  PROVE  Before(f, m) <= Before(f, n)
  BY DEF Before

LEMMA NextToRead ==
  ASSUME IdInv, StreamInv, NEW o \in Sessions, HasPartner(o),
         UnreadOf(o) < ExpectedOf(o), NEW f \in Nat,
         Sending(Partner(o), f), Reading(o, Partner(o), f)
  PROVE  LET p == NextUnread(session[o].receiveWindow)
             u == UnreadOf(o)
             k == Len(delivered[o])
         IN  /\ p.messageId = "Data" =>
                    /\ p.payload = k + 1 /\ Before(f, u + 1) = k + 1
                    /\ k + 1 <= Len(accepted[Partner(o)])
             /\ p.messageId # "Data" =>
                    /\ p.messageId = "Fin" /\ p.sequence = u /\ k + 2 = u
                    /\ Before(f, u + 1) = k
<1> DEFINE w == session[o].receiveWindow
           p == NextUnread(w)
           u == UnreadOf(o)
           q == Partner(o)
           n == NextOf(q)
<1>1. q \in Sessions
  BY PartnerOf
<1>2. /\ u \in Nat /\ ExpectedOf(o) \in Nat /\ n \in Nat /\ RecvOK(w)
      /\ f < n
  BY <1>1, Numbers, FinBelow DEF IdInv
<1>3. /\ Len(delivered[o]) = Before(f, u) /\ ExpectedOf(o) <= n
      /\ \A i \in Slot : w.valid[i] => InStream(w.messages[i], n, f)
  BY DEF Reading, UnreadOf, ExpectedOf, NextOf
<1>4. u \in w.nextUnreadSequence..(w.nextExpectedSequence - 1)
  BY <1>2 DEF UnreadOf, ExpectedOf
<1>5. /\ SlotOf(u) \in Slot /\ w.valid[SlotOf(u)] /\ w.messages[SlotOf(u)].sequence = u
  BY <1>2, <1>4, StoredInSlot
<1>6. p = w.messages[SlotOf(u)]
  BY DEF NextUnread, UnreadOf
<1>7. InStream(p, n, f) /\ p.sequence = u
  BY <1>3, <1>5, <1>6
<1>8. f # 0 => f >= 2
  BY DEF Sending
<1>9. Len(accepted[q]) = Before(f, n)
  BY DEF Sending, NextOf
<1>10. u >= 2
  BY <1>7, <1>8 DEF InStream
<1> HIDE DEF p, u, w, n, q
<1>11. ASSUME p.messageId = "Data"
       PROVE  /\ p.payload = Len(delivered[o]) + 1
              /\ Before(f, u + 1) = Len(delivered[o]) + 1
              /\ Len(delivered[o]) + 1 <= Len(accepted[q])
  <2>1. u # f /\ p.payload = Before(f, u + 1)
    BY <1>7, <1>11 DEF InStream
  <2>2. Before(f, u + 1) = Before(f, u) + 1
    BY <1>2, <1>8, <1>10, <2>1, BeforeNext
  <2>3. u + 1 <= n
    BY <1>2, <1>3 DEF u
  <2>4. Before(f, u + 1) <= Before(f, n)
    BY <1>2, <1>8, <2>3, BeforeMonotonic
  <2> QED BY <1>3, <1>9, <2>1, <2>2, <2>4
<1>12. ASSUME p.messageId # "Data"
       PROVE  /\ p.messageId = "Fin" /\ p.sequence = u /\ Len(delivered[o]) + 2 = u
              /\ Before(f, u + 1) = Len(delivered[o])
  <2>1. p.messageId = "Fin" /\ u = f
    BY <1>7, <1>12 DEF InStream
  <2> QED BY <1>2, <1>3, <1>7, <1>8, <1>10, <2>1, BeforeNext
<1> QED BY <1>11, <1>12 DEF p, u, w, q

\* Receive returns the next payload of the partner.
LEMMA EndReceiveReads ==
  ASSUME IdInv, StreamInv, NEW o \in Sessions, EndReceive(o)
  PROVE  /\ PeerOf(o) # NoSession /\ HasPartner(o) /\ UnreadOf(o) < ExpectedOf(o)
         /\ DeliversData(session[o]) =>
                LET k == Len(delivered[o])
                IN  /\ k < Len(accepted[Partner(o)])
                    /\ NextUnread(session[o].receiveWindow).payload =
                           accepted[Partner(o)][k + 1]
<1>1. o \in receiving /\ HasPacket(session[o].receiveWindow)
  BY DEF EndReceive
<1>2. PeerOf(o) # NoSession /\ HasPartner(o)
  BY <1>1 DEF StreamInv, Attached
<1>3. Partner(o) \in Sessions /\ Partner(Partner(o)) = o /\ HasPartner(Partner(o))
  BY <1>2, PartnerOf
<1>4. UnreadOf(o) < ExpectedOf(o)
  <2>1. SessionOK(session[o])
    BY DEF IdInv, IInv, SessionsOK
  <2> QED BY <1>1, <2>1, FinishReceiveReads DEF UnreadOf, ExpectedOf
<1>5. PICK f \in Nat : Sending(Partner(o), f) /\ Reading(o, Partner(o), f)
  BY <1>3 DEF StreamInv, Streaming
<1> DEFINE k == Len(delivered[o])
           p == NextUnread(session[o].receiveWindow)
<1>6. p.messageId = "Data" => p.payload = k + 1 /\ k + 1 <= Len(accepted[Partner(o)])
  BY <1>2, <1>4, <1>5, NextToRead
<1>7. k \in Nat /\ Len(accepted[Partner(o)]) \in Nat
  BY <1>3 DEF IdInv, IInv, TypeOK
<1> HIDE DEF k, p
<1>8. DeliversData(session[o]) =>
          k < Len(accepted[Partner(o)]) /\ p.payload = accepted[Partner(o)][k + 1]
  BY <1>3, <1>6, <1>7 DEF DeliversData, StreamInv, Numbering, p
<1> QED BY <1>2, <1>4, <1>8 DEF k, p

LEMMA EndReceiveStream ==
  ASSUME IdInv, IInv', StreamInv, NEW o \in Sessions, EndReceive(o)
  PROVE  StreamInv'
<1> DEFINE c == session[o]
           t == FinishReceive(c)
           w == c.receiveWindow
           v == t.receiveWindow
<1>1. o \in receiving /\ HasPacket(w) /\ SessionOK(c)
  BY DEF EndReceive, IdInv, IInv, SessionsOK
<1>2. HasPartner(o) /\ UnreadOf(o) < ExpectedOf(o)
  BY EndReceiveReads
<1>3. /\ t.sessionId = c.sessionId /\ t.sendWindow = c.sendWindow
      /\ t.callbackState = c.callbackState
      /\ t.connectionEvent = c.connectionEvent
      /\ t.state \in {c.state, Closed}
      /\ v.nextExpectedSequence = w.nextExpectedSequence
      /\ v.nextUnreadSequence = IF c.state = Closed THEN w.nextUnreadSequence
                                ELSE w.nextUnreadSequence + 1
      /\ \A i \in Slot : v.valid[i] => w.valid[i] /\ v.messages[i] = w.messages[i]
  BY <1>1, FinishReceiveReads
<1>4. SessionOK(t)
  BY <1>1, FinishReceiveOK
<1> HIDE DEF t
<1>5. /\ Put(o, t)
      /\ delivered' = IF DeliversData(c)
                      THEN [delivered EXCEPT ![o] = Append(delivered[o], NextUnread(w).payload)]
                      ELSE delivered
      /\ receiving' = receiving \ {o}
      /\ UNCHANGED <<net, thread, sending, accepted>>
  BY DEF EndReceive, t
<1>6. /\ session'[o].sessionId = c.sessionId /\ session'[o].state = t.state
      /\ session'[o].sendWindow = c.sendWindow
      /\ session'[o].receiveWindow = v
      /\ session'[o].callbackState = c.callbackState
      /\ session'[o].connectionEvent = c.connectionEvent
      /\ session'[o].out = {}
      /\ \A p \in Sessions \ {o} : session'[p] = session[p]
  BY <1>3, <1>4, <1>5, PutParts DEF IdInv
<1>7. \A p \in Sessions : /\ session'[p].sessionId = session[p].sessionId
                          /\ session'[p].sendWindow = session[p].sendWindow
                          /\ NextOf(p)' = NextOf(p) /\ FreedOf(p)' = FreedOf(p)
                          /\ ExpectedOf(p)' = ExpectedOf(p)
                          /\ session'[p].callbackState = session[p].callbackState
                          /\ session'[p].state \in {session[p].state, Closed}
                          /\ Sent(p)' = Sent(p) /\ ClosingOn(p)' = ClosingOn(p)
  BY <1>3, <1>5, <1>6 DEF NextOf, FreedOf, ExpectedOf, Sent, ClosingOn
<1>8. \A p \in Sessions : HasPartner(p)' = HasPartner(p) /\ Partner(p)' = Partner(p)
  BY <1>7 DEF HasPartner, Partner, Sessions
<1>9. /\ UnreadOf(o)' = IF c.state = Closed THEN UnreadOf(o) ELSE UnreadOf(o) + 1
      /\ \A p \in Sessions \ {o} : UnreadOf(p)' = UnreadOf(p)
      /\ UnreadOf(o) \in Nat
  BY <1>3, <1>6, Numbers DEF UnreadOf, IdInv
<1> HIDE DEF c, v, w
<1>10. Streaming'
  <2> SUFFICES ASSUME NEW q \in Sessions
               PROVE  (\E f \in Nat : /\ Sending(q, f)
                                      /\ HasPartner(q) => Reading(Partner(q), q, f))'
    BY DEF Streaming
  <2>1. PICK f \in Nat : Sending(q, f) /\ (HasPartner(q) => Reading(Partner(q), q, f))
    BY DEF StreamInv, Streaming
  <2>2. /\ NextOf(q) \in Nat /\ ExpectedOf(q) \in Nat
        /\ f # 0 => /\ f \in 2..(NextOf(q) - 1) /\ session[q].state \in Ended
                    /\ ~ClosingOn(q)
        /\ Len(accepted[q]) = Before(f, NextOf(q))
    BY <2>1, Numbers DEF Sending, NextOf, IdInv
  <2>3. Grows(NextOf(q), f, NextOf(q)', f)
    BY <1>7 DEF Grows
  <2>4. f # 0 => /\ f \in 2..(NextOf(q)' - 1) /\ session'[q].state \in Ended
                 /\ ~ClosingOn(q)'
    BY <1>7, <2>2 DEF Ended
  <2>5. Sending(q, f)'
    BY <1>5, <1>7, <2>1, <2>2, <2>3, <2>4, SendingOn DEF IdInv
  <2>6. ASSUME HasPartner(q), Partner(q) = o
        PROVE  Reading(o, q, f)'
    <3>1. Partner(o) = q /\ Reading(o, q, f)
      BY <2>1, <2>6, PartnerOf
    <3> DEFINE p == NextUnread(session[o].receiveWindow)
               k == Len(delivered[o])
               u == UnreadOf(o)
    <3>2. /\ p.messageId = "Data" => Before(f, u + 1) = k + 1
          /\ p.messageId # "Data" => Before(f, u + 1) = k
      BY <1>2, <2>1, <3>1, NextToRead
    <3>3. Before(f, u) = k /\ k \in Nat
      BY <3>1 DEF Reading, UnreadOf, IdInv, IInv, TypeOK
    <3>4. Len(delivered'[o]) = IF DeliversData(c) THEN k + 1 ELSE k
      BY <1>5 DEF IdInv, IInv, TypeOK
    <3>5. Len(delivered'[o]) = Before(f, UnreadOf(o)')
      BY <1>9, <3>2, <3>3, <3>4 DEF DeliversData, c
    <3>6. /\ ExpectedOf(o)' <= NextOf(q)' /\ FreedOf(q)' <= ExpectedOf(o)'
      BY <1>7, <3>1 DEF Reading, ExpectedOf, NextOf, FreedOf
    <3>7. \A i \in Slot : session'[o].receiveWindow.valid[i] =>
              InStream(session'[o].receiveWindow.messages[i], NextOf(q)', f)
      BY <1>3, <1>6, <1>7, <3>1 DEF Reading, NextOf, w, c
    <3> QED BY <3>5, <3>6, <3>7 DEF Reading, UnreadOf, ExpectedOf, NextOf, FreedOf
  <2>7. ASSUME HasPartner(q), Partner(q) # o
        PROVE  Reading(Partner(q), q, f)'
    <3>1. Partner(q) \in Sessions /\ Partner(q)' = Partner(q)
      BY <1>8, <2>7, PartnerOf
    <3>2. session'[Partner(q)] = session[Partner(q)]
      BY <1>6, <2>7, <3>1
    <3>3. delivered'[Partner(q)] = delivered[Partner(q)]
      BY <1>5, <2>7, <3>1 DEF IdInv, IInv, TypeOK
    <3> QED BY <1>7, <2>1, <2>7, <3>1, <3>2, <3>3 DEF Reading
  <2>8. HasPartner(q)' => Reading(Partner(q), q, f)'
    <3> SUFFICES ASSUME HasPartner(q)' PROVE Reading(Partner(q), q, f)'
      OBVIOUS
    <3>1. HasPartner(q) /\ Partner(q)' = Partner(q)
      BY <1>8
    <3>2. CASE Partner(q) = o
      BY <2>6, <3>1, <3>2 DEF Reading
    <3>3. CASE Partner(q) # o
      BY <2>7, <3>1, <3>3
    <3> QED BY <3>2, <3>3
  <2> QED BY <2>5, <2>8
<1>11. Opening'
  <2> SUFFICES ASSUME NEW p \in Sessions
               PROVE  IF HasPartner(p)' THEN NextOf(p)' >= 2 /\ UnreadOf(p)' >= 2
                      ELSE Idling(p)'
    BY DEF Opening, NextOf, UnreadOf
  <2>1. CASE HasPartner(p)
    <3>1. NextOf(p) >= 2 /\ UnreadOf(p) >= 2
      BY <2>1 DEF StreamInv, Opening, NextOf, UnreadOf
    <3> QED BY <1>7, <1>8, <1>9, <2>1, <3>1
  <2>2. CASE ~HasPartner(p)
    <3>1. p # o /\ Idling(p)
      BY <1>2, <2>2 DEF StreamInv, Opening
    <3>2. session'[p] = session[p] /\ delivered'[p] = delivered[p]
      BY <1>5, <1>6, <3>1 DEF IdInv, IInv, TypeOK
    <3> QED BY <1>8, <2>2, <3>1, <3>2 DEF Idling
  <2> QED BY <2>1, <2>2
<1>12. Answering'
  BY <1>7 DEF StreamInv, Answering, Sessions, NextOf, ExpectedOf
<1>13. Client \in Sessions
  BY DEF Sessions
<1>14. ClientSpeaks'
  <2>1. ASSUME NEW p, ToPartner(p)
        PROVE  ToPartner(p)'
    BY <1>7, <1>8, <1>13, <2>1 DEF ToPartner
  <2>2. \A i \in Slot : ToPartner(session[Client].sendWindow.messages[i])'
    BY <1>7, <1>8, <1>13 DEF ToPartner, StreamInv, ClientSpeaks
  <2>3. \A d \in Sent(Client)' : ToPartner(d.packet)'
    BY <1>7, <1>13, <2>1 DEF StreamInv, ClientSpeaks
  <2>4. ~HasPartner(Client)' => session'[Client].receiveWindow = InitReadWindow
    BY <1>2, <1>6, <1>8, <1>13 DEF StreamInv, ClientSpeaks
  <2>5. session'[Client].sessionId # NoSession => NextOf(Client)' >= 2
    BY <1>7, <1>13 DEF StreamInv, ClientSpeaks, NextOf
  <2> QED BY <2>2, <2>3, <2>4, <2>5 DEF ClientSpeaks, NextOf
<1>15. Attached'
  <2>1. \A p \in Sessions : PeerOf(p)' = PeerOf(p)
    BY <1>7 DEF PeerOf
  <2>2. \A p \in Sessions : session'[p].state >= Established =>
                                session[p].state >= Established
    BY <1>7 DEF Established, Closed
  <2>3. session'[Client].connectionEvent = session[Client].connectionEvent
    BY <1>6, <1>13 DEF c
  <2> QED BY <1>5, <1>7, <1>8, <1>13, <2>1, <2>2, <2>3 DEF StreamInv, Attached
<1>16. Numbering' /\ AllForwarded'
  BY <1>5, <1>6 DEF StreamInv, Numbering, AllForwarded
<1> QED BY <1>10, <1>11, <1>12, <1>14, <1>15, <1>16 DEF StreamInv

----------------------------------------------------------------------------
\* The invariant holds in every reachable state.
LEMMA SynAckIsForClient ==
  ASSUME IdInv, NEW d \in net, NEW o \in Sessions, ReceiveSynAck(d, o)
  PROVE  o = Client
<1>1. d.packet.messageId = "SynAck" /\ d.dst = "client"
  BY SenderOf DEF ReceiveSynAck
<1> QED BY <1>1, ClientIsAlone DEF ReceiveSynAck, SynAckTarget, Find

LEMMA RemoveIfClosedStream ==
  ASSUME IdInv, IInv', StreamInv, NEW side \in Side, RemoveIfClosed(side)
  PROVE  StreamInv'
<1>1. /\ thread' = [thread EXCEPT ![side] = Idle]
      /\ UNCHANGED <<session, net, sending, receiving, accepted, delivered>>
  BY DEF RemoveIfClosed, appVars
<1>2. /\ thread'[side] = Idle
      /\ \A other \in Side \ {side} : thread'[other] = thread[other]
  BY <1>1, BackToIdle DEF IdInv
<1>3. \A o \in Sessions : ClosingOn(o)' => ClosingOn(o)
  BY <1>2, SideOfType DEF ClosingOn, Idle
<1> QED BY <1>1, <1>3, NoneActs

LEMMA InitStream == Init => StreamInv
<1> SUFFICES ASSUME Init PROVE StreamInv
  OBVIOUS
<1>1. ASSUME NEW o \in Sessions
      PROVE  /\ session[o].sessionId = NoSession /\ session[o].state = Closed
             /\ session[o].sendWindow = InitSendWindow
             /\ session[o].receiveWindow = InitReadWindow
             /\ session[o].out = {} /\ session[o].callbackState = "None"
             /\ ~session[o].connectionEvent
             /\ accepted[o] = <<>> /\ delivered[o] = <<>> /\ Sent(o) = {}
             /\ ~ClosingOn(o)
  BY SideOfType DEF Init, NewSession, Sent, ClosingOn, Idle
<1>2. Client \in Sessions /\ \A o \in Server : o \in Sessions
  BY DEF Sessions
<1>3. \A o \in Sessions : ~HasPartner(o) /\ PeerOf(o) = NoSession
  BY <1>1, <1>2, ObjectAssumption DEF HasPartner, PeerOf, Sessions
<1>4. /\ InitSendWindow.nextSequence = 1
      /\ InitSendWindow.nextUnacknowledgedSequence = 1
      /\ \A i \in Slot : InitSendWindow.messages[i] = Unwritten
      /\ InitReadWindow.nextUnreadSequence = 1 /\ InitReadWindow.nextExpectedSequence = 1
      /\ \A i \in Slot : ~InitReadWindow.valid[i]
  BY DEF InitSendWindow, InitReadWindow
<1>5. ~(Closed >= Established) /\ sending = {} /\ receiving = {}
  BY DEF Closed, Established, Init
<1>6. Attached
  BY <1>1, <1>2, <1>3, <1>5 DEF Attached
<1>7. Opening
  BY <1>1, <1>3, <1>4 DEF Opening, Idling
<1>8. Answering
  BY <1>1, <1>2, <1>4 DEF Answering
<1>9. ClientSpeaks
  <2>1. Unwritten.messageId \notin {"Data", "Fin", "Ack"}
    BY DEF Unwritten, MakePacket
  <2> QED BY <1>1, <1>2, <1>4, <2>1 DEF ClientSpeaks, ToPartner
<1>10. Numbering
  BY <1>1 DEF Numbering
<1>11. AllForwarded
  BY <1>1 DEF AllForwarded
<1>12. \A o \in Sessions : Sending(o, 0)
  BY <1>1, <1>4 DEF Sending, Before
<1>13. Streaming
  BY <1>3, <1>12 DEF Streaming
<1> QED BY <1>6, <1>7, <1>8, <1>9, <1>10, <1>11, <1>13 DEF StreamInv

LEMMA NextStream == IdInv /\ StreamInv /\ [Next]_vars => StreamInv'
<1> SUFFICES ASSUME IdInv, StreamInv, [Next]_vars PROVE StreamInv'
  OBVIOUS
<1>0. IInv'
  BY NextIInv DEF IdInv
<1>1. ASSUME NEW d \in net, HandleReceivedSessionMessage(d) PROVE StreamInv'
  <2>1. MutexFree(d.dst)
    BY <1>1 DEF HandleReceivedSessionMessage
  <2>2. CASE RefuseSyn(d) \/ ReceiveUnknown(d)
    BY <1>0, <2>2, AnswerWithResetStream
  <2>3. ASSUME NEW o \in Server, RejectSyn(d, o) \/ AcceptSyn(d, o) PROVE StreamInv'
    BY <1>0, <2>3, RejectSynStream, AcceptSynStream
  <2>4. ASSUME NEW o \in Sessions, ReceiveSynAck(d, o) PROVE StreamInv'
    <3>1. ReceiveSynAck(d, Client)
      BY <2>4, SynAckIsForClient
    <3> QED BY <1>0, <2>1, <3>1, FirstSynAckStream, LaterSynAckStream
  <2>5. ASSUME NEW o \in Sessions, ReceiveMessage(d, o) \/ ReceiveFin(d, o)
        PROVE  StreamInv'
    BY <1>0, <2>1, <2>5, ReceiveMessageStream, ReceiveFinStream
  <2> QED BY <1>1, <2>2, <2>3, <2>4, <2>5 DEF HandleReceivedSessionMessage
<1>2. ASSUME NEW side \in Side, FinishFin(side) \/ RemoveIfClosed(side)
                                \/ HandleClientDisconnection(side)
      PROVE  StreamInv'
  BY <1>0, <1>2, FinishFinStream, RemoveIfClosedStream, HandleClientDisconnectionStream
<1>3. ASSUME NEW o \in Sessions, NEW late \in TimedOut(o), NEW room \in Rooms,
             UpdateSession(o, late, room)
      PROVE  StreamInv'
  BY <1>0, <1>3, UpdateSessionStream
<1>4. CASE EstablishSessionForClient
  BY <1>0, <1>4, EstablishStream
<1>5. CASE UnregisterProtocolServer
  BY <1>0, <1>5, UnregisterProtocolServerStream
<1>6. ASSUME NEW o \in Sessions, EndSend(o) \/ EndReceive(o) PROVE StreamInv'
  BY <1>0, <1>6, EndSendStream, EndReceiveStream
<1>7. ASSUME NEW o \in Sessions,
             BeginSend(o) \/ SendTimeout(o) \/ BeginReceive(o) \/ ReceiveNothing(o)
      PROVE  StreamInv'
  BY <1>0, <1>7, CallStream
<1>8. ASSUME net' \subseteq net,
             UNCHANGED <<session, thread, sending, receiving, accepted, delivered>>
      PROVE  StreamInv'
  BY <1>0, <1>8, NoneActs DEF ClosingOn
<1>9. ASSUME NEW d \in net, Lose(d) PROVE StreamInv'
  BY <1>8, <1>9 DEF Lose, appVars
<1>10. CASE Release \/ RegisterProtocolServer \/ UNCHANGED vars
  BY <1>8, <1>10 DEF Release, RegisterProtocolServer, vars, appVars
<1> QED BY <1>1, <1>2, <1>3, <1>4, <1>5, <1>6, <1>7, <1>9, <1>10
        DEF Next, MessageThread, Application

LEMMA StreamsHold == Spec => [](IdInv /\ StreamInv)
  BY InitIds, InitStream, NextIds, NextStream, PTL DEF Spec

----------------------------------------------------------------------------
\* A session that knows its peer has it for a partner.
LEMMA PeerIsPartner ==
  ASSUME StreamInv, NEW o \in Sessions, PeerOf(o) # NoSession
  PROVE  HasPartner(o) /\ PeerOf(o) = Partner(o) /\ Partner(o) \in Sessions
<1>1. HasPartner(o)
  BY DEF StreamInv, Attached
<1>2. PeerOf(o) = Partner(o)
  BY DEF PeerOf, Partner
<1> QED BY <1>1, <1>2, PartnerOf

\* What the partner of a session wrote, and how much of it the session has.
LEMMA PartnersStream ==
  ASSUME StreamInv, NEW o \in Sessions, HasPartner(o)
  PROVE  \E f \in Nat : Sending(Partner(o), f) /\ Reading(o, Partner(o), f)
<1>1. /\ Partner(o) \in Sessions /\ HasPartner(Partner(o))
      /\ Partner(Partner(o)) = o
  BY PartnerOf
<1> QED BY <1>1 DEF StreamInv, Streaming

\* A send slot is freed only when the peer has stored the packet, however
\* the bus repeats and reorders Acks and with any number of stale sessions
\* on the server: MarkMessagesAsAcknowledged never gives up a packet that
\* might still be lost.
THEOREM AcknowledgedHasBeenStored == Spec => []AcknowledgedIsStored
<1>1. ASSUME StreamInv PROVE AcknowledgedIsStored
  <2> SUFFICES ASSUME NEW o \in Sessions, PeerOf(o) # NoSession
               PROVE  session[o].sendWindow.nextUnacknowledgedSequence
                          <= session[PeerOf(o)].receiveWindow.nextExpectedSequence
    BY DEF AcknowledgedIsStored
  <2>1. HasPartner(o) /\ PeerOf(o) = Partner(o)
    BY <1>1, PeerIsPartner
  <2>2. PICK f \in Nat : Reading(Partner(o), o, f)
    BY <1>1, <2>1 DEF StreamInv, Streaming
  <2> QED BY <2>1, <2>2 DEF Reading
<1> QED BY <1>1, StreamsHold, PTL

\* A session is marked as updated by UpdateSession only.
LEMMA UpdatedByUpdate ==
  ASSUME IdInv, NEW o \in Sessions, thread[SideOf(o)].pc = "idle",
         thread'[SideOf(o)].pc = "updated", [Next]_vars
  PROVE  \E p \in Sessions : \E late \in TimedOut(p), room \in Rooms :
             SideOf(p) = SideOf(o) /\ UpdateSession(p, late, room)
<1> DEFINE side == SideOf(o)
<1>1. side \in Side /\ thread \in [Side -> ThreadState] /\ Idle.pc # "updated"
  BY SideOfType DEF IdInv, IInv, TypeOK, Idle
<1>2. ASSUME NEW d \in net, NEW p \in Sessions, ReceiveFin(d, p) PROVE FALSE
  <2>1. thread' = [thread EXCEPT ![d.dst] =
                      [pc |-> "closing", on |-> p, windowSize |-> d.windowSize]]
    BY <1>2 DEF ReceiveFin
  <2> QED BY <1>1, <2>1
<1>3. ASSUME NEW s \in Side, FinishFin(s) \/ RemoveIfClosed(s) PROVE FALSE
  <2>1. thread' = [thread EXCEPT ![s] = Idle]
    BY <1>3 DEF FinishFin, RemoveIfClosed
  <2> QED BY <1>1, <2>1
<1>4. ASSUME NEW p \in Sessions, NEW late \in TimedOut(p), NEW room \in Rooms,
             UpdateSession(p, late, room)
      PROVE  SideOf(p) = side
  <2>1. thread' = [thread EXCEPT ![SideOf(p)] =
                      [pc |-> "updated", on |-> p, windowSize |-> 0]]
    BY <1>4 DEF UpdateSession
  <2> QED BY <1>1, <2>1
<1>5. thread' # thread
  BY <1>1
<1>6. ASSUME NEW d \in net, HandleReceivedSessionMessage(d) PROVE FALSE
  BY <1>2, <1>5, <1>6 DEF HandleReceivedSessionMessage, RefuseSyn, RejectSyn, AcceptSyn,
                          ReceiveSynAck, ReceiveMessage, ReceiveUnknown
<1>7. ~Application
  BY <1>5 DEF Application, EstablishSessionForClient, Release, UnregisterProtocolServer,
              RegisterProtocolServer, BeginSend, EndSend, SendTimeout, BeginReceive,
              EndReceive, ReceiveNothing
<1>8. ~\E s \in Side : HandleClientDisconnection(s)
  BY <1>5 DEF HandleClientDisconnection
<1>9. ~(\E d \in net : Lose(d)) /\ ~UNCHANGED vars
  BY <1>5 DEF Lose, vars
<1> QED BY <1>3, <1>4, <1>6, <1>7, <1>8, <1>9 DEF Next, MessageThread

\* UpdateTimeout closes a session that received a Fin only when the
\* application has read all data in front of the Fin: no data is lost
\* because a graceful close overtakes the reader.
THEOREM ClosedWhenAllIsRead == Spec => SafeToClose
<1> DEFINE Safe(o) ==
        ClosedByFin(o) =>
          /\ NextUnread(session[o].receiveWindow).messageId = "Fin"
          /\ Len(delivered[o]) + 2 = NextUnread(session[o].receiveWindow).sequence
<1>1. ASSUME IdInv, StreamInv, [Next]_vars, NEW o \in Sessions, ClosedByFin(o)
      PROVE  /\ NextUnread(session[o].receiveWindow).messageId = "Fin"
             /\ Len(delivered[o]) + 2 = NextUnread(session[o].receiveWindow).sequence
  <2> DEFINE c == session[o]
             w == c.receiveWindow
  <2>1. /\ c.state = Closing /\ c.callbackState # "TerminatedCalled"
        /\ c.sendWindow.retransmitCount <= kMaxRetransmits
        /\ session'[o].state = Closed
        /\ thread[SideOf(o)].pc = "idle" /\ thread'[SideOf(o)].pc = "updated"
    BY <1>1 DEF ClosedByFin
  <2>2. PICK p \in Sessions : \E late \in TimedOut(p), room \in Rooms :
            SideOf(p) = SideOf(o) /\ UpdateSession(p, late, room)
    BY <1>1, <2>1, UpdatedByUpdate
  <2>3. PICK late \in TimedOut(p), room \in Rooms : UpdateSession(p, late, room)
    BY <2>2
  <2> DEFINE t == Update(session[p], late, room, released)
  <2>4. /\ room \in Nat /\ released \in BOOLEAN /\ late \in Nat
        /\ InTable(p) /\ MutexFree(SideOf(p))
    BY <1>1, <2>3, BoundAssumption DEF IdInv, IInv, TypeOK, TimedOut, UpdateSession
  <2>5. Genuine(p, session[p]) /\ Good(session[p])
    BY <1>1, <2>4, InTableIsGenuine, FreshWhenIdle DEF IdInv
  <2>6. SessionOK(t)
    BY <2>4, <2>5, UpdateGenuine DEF Genuine
  <2>7. Put(p, t)
    BY <2>3 DEF UpdateSession
  <2> HIDE DEF t
  <2>8. /\ session'[p].state = t.state
        /\ \A q \in Sessions \ {p} : session'[q] = session[q]
    BY <1>1, <2>6, <2>7, PutParts DEF IdInv
  <2>9. o = p /\ t.state = Closed
    BY <2>1, <2>8 DEF Closed, Closing
  <2>10. OnlyFinLeft(w)
    BY <2>1, <2>4, <2>5, <2>9, UpdateCloses DEF t
  <2>11. HasPartner(o)
    BY <1>1, <2>1 DEF StreamInv, Attached, Closing, Established
  <2>12. PICK f \in Nat : Sending(Partner(o), f) /\ Reading(o, Partner(o), f)
    BY <1>1, <2>11, PartnersStream
  <2>13. UnreadOf(o) < ExpectedOf(o) /\ NextUnread(w).messageId = "Fin"
    BY <2>10 DEF OnlyFinLeft, UnreadOf, ExpectedOf
  <2> QED BY <1>1, <2>11, <2>12, <2>13, NextToRead
<1>2. ASSUME IdInv, StreamInv, [Next]_vars
      PROVE  [\A o \in Sessions : Safe(o)]_vars
  BY <1>1, <1>2
<1> QED BY <1>2, StreamsHold, PTL DEF Spec, SafeToClose

----------------------------------------------------------------------------
\* Sessions implement paired streams.  A session is paired when it learns
\* who its peer is: the client from the first SynAck, the server from the
\* message that establishes it.
SamePeers == \A o \in Sessions : PeerOf(o)' = PeerOf(o)

LEMMA StepOrStutter ==
  ASSUME SamePeers, UNCHANGED <<accepted, delivered>>
  PROVE  [Streams!Next]_Streams!vars
  BY DEF SamePeers, Streams!vars

\* A step of one object that keeps what PeerOf looks at.
LEMMA PutSamePeers ==
  ASSUME IdInv, NEW x \in Sessions, NEW t, SessionOK(t), Put(x, t),
         x = Client => t.sessionId = session[x].sessionId
                       \/ (t.sessionId \notin Server /\ session[x].sessionId \notin Server),
         x \in Server => (t.callbackState = "None" <=> session[x].callbackState = "None")
  PROVE  SamePeers
<1>1. /\ session'[x].sessionId = t.sessionId
      /\ session'[x].callbackState = t.callbackState
      /\ \A o \in Sessions \ {x} : session'[o] = session[o]
  BY PutParts DEF IdInv
<1>2. ASSUME NEW o \in Sessions PROVE PeerOf(o)' = PeerOf(o)
  <2>1. CASE o # x
    BY <1>1, <2>1 DEF PeerOf
  <2>2. CASE o = x /\ x = Client
    BY <1>1, <2>2 DEF PeerOf
  <2>3. CASE o = x /\ x # Client
    BY <1>1, <2>3 DEF PeerOf, Sessions
  <2> QED BY <2>1, <2>2, <2>3
<1> QED BY <1>2 DEF SamePeers

\* Several objects go on at once.
LEMMA AllSamePeers ==
  ASSUME \A o \in Sessions :
             /\ session'[o].sessionId = session[o].sessionId
             /\ session'[o].callbackState = "None" <=> session[o].callbackState = "None"
  PROVE  SamePeers
  BY DEF SamePeers, PeerOf

LEMMA InitPairs == Init => Streams!Init
<1> SUFFICES ASSUME Init PROVE Streams!Init
  OBVIOUS
<1>1. \A o \in Sessions : session[o].sessionId = NoSession
                          /\ session[o].callbackState = "None"
  BY DEF Init, NewSession
<1>2. \A o \in Sessions : PeerOf(o) = NoSession
  BY <1>1, ObjectAssumption DEF PeerOf
<1> QED BY <1>2 DEF Init, Streams!Init

\* The handshake but for its two last steps pairs nobody.
LEMMA EstablishPairsNobody ==
  ASSUME IdInv, EstablishSessionForClient
  PROVE  SamePeers
<1> DEFINE c == NewSession(SideOf(Client))
           t == Connect(c, Client)
<1>1. Client \in Sessions /\ Client \notin Server /\ NoSession \notin Server
  BY ObjectAssumption DEF Sessions
<1>2. session[Client] = c /\ Put(Client, t)
  BY DEF EstablishSessionForClient, IsUnused
<1>3. c.sessionId = NoSession
  BY DEF NewSession
<1>4. t.sessionId = Client
  BY ConnectWrites
<1>5. SessionOK(t)
  BY ConnectGenuine DEF Genuine
<1> HIDE DEF t, c
<1> QED BY <1>1, <1>2, <1>3, <1>4, <1>5, PutSamePeers

LEMMA SynPairsNobody ==
  ASSUME IdInv, NEW d \in net, NEW o \in Server, RejectSyn(d, o) \/ AcceptSyn(d, o)
  PROVE  SamePeers
<1> DEFINE c == NewSession(SideOf(o))
           b == BindToServer(c, o)
<1>1. /\ o \in Sessions /\ o # Client /\ d \in Datagram /\ session[o] = c
      /\ d.packet.messageId = "Syn"
  BY ObjectAssumption DEF Sessions, RejectSyn, AcceptSyn, IsUnused, IdInv, IInv, TypeOK
<1>2. c.callbackState = "None"
  BY DEF NewSession
<1>3. Genuine(o, b) /\ b.callbackState = "None"
  BY BindToServerParts, BindToServerGenuine
<1>4. CASE RejectSyn(d, o)
  <2> DEFINE t == Shutdown(b, FALSE)
  <2>1. Put(o, t)
    BY <1>1, <1>4 DEF RejectSyn
  <2>2. Genuine(o, t) /\ Alike(b, t)
    BY <1>1, <1>3, ShutdownGenuine
  <2> HIDE DEF t, b, c
  <2> QED BY <1>1, <1>2, <1>3, <2>1, <2>2, PutSamePeers DEF Genuine, Alike
<1>5. CASE AcceptSyn(d, o)
  <2> DEFINE t == HandleMessage(b, d)
  <2>1. Put(o, t)
    BY <1>1, <1>5 DEF AcceptSyn
  <2>2. t.callbackState = "None"
    BY <1>1, AcceptWrites
  <2>3. SessionOK(t)
    <3>1. SessionOK(b) /\ b.receiveWindow = InitReadWindow
      BY BindToServerParts
    <3> QED BY <1>1, <3>1, HandleSynOK DEF Good
  <2> HIDE DEF t, b, c
  <2> QED BY <1>1, <1>2, <2>1, <2>2, <2>3, PutSamePeers
<1> QED BY <1>4, <1>5

\* The first SynAck pairs the client with its sender; nobody is paired
\* before.
LEMMA FirstSynAckPairs ==
  ASSUME IdInv, IInv', StreamInv, NEW d \in net, MutexFree(d.dst),
         ReceiveSynAck(d, Client), session[Client].state = SynSent
  PROVE  Streams!Next
<1> PICK q \in Server : q = d.packet.sessionId
  BY FirstSynAckStream
<1>1. /\ Client \in Sessions /\ q \in Sessions \ {Client} /\ q # NoSession
      /\ Client # NoSession
  BY ObjectAssumption DEF Sessions
<1>2. d.dst = "client"
  BY SynAckIsFirst DEF ReceiveSynAck
<1>3. \A o \in Sessions : PeerOf(o) = NoSession
  BY <1>2, NobodyHasPartner
<1>4. /\ session'[Client].sessionId = q
      /\ \A o \in Sessions \ {Client} : session'[o] = session[o]
  BY FirstSynAckStream
<1>5. PeerOf(Client)' = q
  BY <1>4 DEF PeerOf
<1>6. \A o \in Sessions \ {Client} : PeerOf(o)' = PeerOf(o)
  BY <1>4 DEF PeerOf
<1>7. UNCHANGED <<accepted, delivered>>
  BY DEF ReceiveSynAck, appVars
<1>8. Streams!Pair(Client, q)
  BY <1>1, <1>3, <1>5, <1>6, <1>7 DEF Streams!Pair
<1> QED BY <1>1, <1>8 DEF Streams!Next

\* A later SynAck changes nothing.
LEMMA LaterSynAckPairsNobody ==
  ASSUME IdInv, StreamInv, NEW d \in net, MutexFree(d.dst),
         ReceiveSynAck(d, Client), session[Client].state # SynSent
  PROVE  SamePeers
<1> DEFINE c == session[Client]
           t == HandleMessage(c, d)
<1>1. /\ Client \in Sessions /\ Client \notin Server /\ SideOf(Client) = "client"
      /\ d.packet.messageId = "SynAck" /\ d.dst = "client"
      /\ d.packet.sessionId \in Server /\ d \in Datagram
  BY SynAckIsFirst, ObjectAssumption DEF ReceiveSynAck, Sessions, SideOf, IdInv, IInv, TypeOK
<1>2. InTable(Client)
  BY DEF ReceiveSynAck, SynAckTarget, Find
<1>3. Genuine(Client, c) /\ Good(c)
  BY <1>1, <1>2, InTableIsGenuine, FreshWhenIdle DEF IdInv
<1>4. Genuine(Client, t) /\ t.sessionId = c.sessionId
  BY <1>1, <1>3, HandleSynAckGenuine
<1> HIDE DEF t
<1>5. Put(Client, t)
  BY DEF ReceiveSynAck, t
<1> QED BY <1>1, <1>4, <1>5, PutSamePeers DEF Genuine

\* A message pairs a server session with the client when it establishes
\* the session, which is then the one the client is paired with.
LEMMA ReceiveMessagePairs ==
  ASSUME IdInv, StreamInv, NEW d \in net, MutexFree(d.dst), NEW o \in Sessions,
         ReceiveMessage(d, o)
  PROVE  [Streams!Next]_Streams!vars
<1> DEFINE c == session[o]
           t == HandleMessage(c, d)
<1>1. /\ d \in Datagram /\ d.packet.messageId \in {"Fin", "Data", "Ack", "Rst"}
      /\ o \in FindOpenSession(d.dst, d.packet.sessionId)
  BY DEF ReceiveMessage, IdInv, IInv, TypeOK
<1>2. InTable(o) /\ SideOf(o) = d.dst
  BY <1>1 DEF FindOpenSession, Find
<1>3. Genuine(o, c) /\ Fitting(o, c, key[o], registered)
  BY <1>2, InTableIsGenuine DEF IdInv, TableFits
<1>4. /\ Genuine(o, t) /\ t.sessionId = c.sessionId
      /\ \/ o \in Server => t.callbackState = c.callbackState
         \/ /\ c.state = SynReceived /\ t.state = Established
            /\ o \in Server => t.callbackState = "EstablishedCalled"
  BY <1>1, <1>3, HandleMessageGenuine
<1>5. d.packet.messageId = "Rst" => t.state = Closed
  <2> SUFFICES ASSUME d.packet.messageId = "Rst" PROVE t.state = Closed
    OBVIOUS
  <2>1. Dispatch(c, d).state = Closed /\ Closed # Established
    BY <1>1, <1>3, HandleRstMessageGenuine DEF Dispatch, Closed, Established
  <2> QED BY <2>1 DEF HandleMessage
<1> HIDE DEF t
<1>6. Put(o, t) /\ UNCHANGED <<accepted, delivered>>
  BY DEF ReceiveMessage, appVars, t
<1>7. CASE o \in Server => t.callbackState = c.callbackState
  <2>1. SamePeers
    BY <1>4, <1>6, <1>7, PutSamePeers DEF Genuine
  <2> QED BY <1>6, <2>1, StepOrStutter
<1>8. CASE /\ o \in Server /\ c.state = SynReceived /\ t.state = Established
           /\ t.callbackState = "EstablishedCalled"
  <2>1. d.packet.messageId # "Rst"
    BY <1>5, <1>8 DEF Closed, Established
  <2>2. HasPartner(o)
    BY <1>1, <2>1, MessageFromPartner
  <2>3. /\ Client \in Sessions /\ Client \notin Server /\ o # Client
        /\ NoSession \notin Sessions
    BY <1>8, ObjectAssumption DEF Sessions
  <2>4. session[Client].sessionId = o
    BY <2>2, <2>3 DEF HasPartner
  <2>5. c.callbackState = "None"
    BY <1>2, <1>3, <1>8 DEF Fitting, CallbackFits, InTable
  <2>6. PeerOf(o) = NoSession /\ PeerOf(Client) = o
    BY <1>8, <2>3, <2>4, <2>5 DEF PeerOf
  <2>7. \A g \in Sessions : PeerOf(g) = o => g = Client
    BY <1>8, <2>3 DEF PeerOf
  <2>8. /\ session'[o].callbackState = t.callbackState
        /\ \A p \in Sessions \ {o} : session'[p] = session[p]
    BY <1>4, <1>6, PutParts DEF IdInv, Genuine
  <2>9. PeerOf(o)' = Client
    BY <1>8, <2>3, <2>8 DEF PeerOf
  <2>10. \A p \in Sessions \ {o} : PeerOf(p)' = PeerOf(p)
    BY <2>8 DEF PeerOf
  <2>11. Streams!Pair(o, Client)
    BY <1>6, <2>3, <2>6, <2>7, <2>9, <2>10 DEF Streams!Pair
  <2> QED BY <2>3, <2>11 DEF Streams!Next
<1> QED BY <1>4, <1>7, <1>8

\* The other steps of one session object pair nobody.
LEMMA ReceiveFinPairsNobody ==
  ASSUME IdInv, NEW d \in net, NEW o \in Sessions, ReceiveFin(d, o)
  PROVE  SamePeers
<1> DEFINE c == session[o]
           t == StoreFin(c, d)
<1>1. d.packet \in Packet /\ d.packet.messageId = "Fin" /\ InTable(o)
  BY DEF ReceiveFin, IdInv, IInv, TypeOK, Datagram, FindOpenSession, Find
<1>2. Genuine(o, c) /\ SessionOK(c)
  BY <1>1, InTableIsGenuine DEF Genuine
<1>3. Genuine(o, t) /\ Alike(c, t)
  BY <1>1, <1>2, WriteMessageIntoReceiveWindowGenuine DEF StoreFin
<1> HIDE DEF t
<1>4. Put(o, t)
  BY DEF ReceiveFin, t
<1> QED BY <1>3, <1>4, PutSamePeers DEF Genuine, Alike

LEMMA FinishFinPairsNobody ==
  ASSUME IdInv, NEW side \in Side, FinishFin(side)
  PROVE  SamePeers
<1> PICK o \in Sessions : o = thread[side].on
  BY DEF IdInv, IInv, ThreadsOnSessions, FinishFin
<1> DEFINE c == session[o]
           t == EnterClosing(c, thread[side].windowSize)
<1>1. thread[side].windowSize \in Nat /\ InTable(o)
  BY DEF IdInv, IInv, TypeOK, ThreadState, ThreadsFit, BusyInTable, FinishFin
<1>2. Genuine(o, t) /\ Alike(c, t)
  BY <1>1, InTableIsGenuine, EnterClosingGenuine
<1> HIDE DEF t
<1>3. Put(o, t)
  BY DEF FinishFin, t
<1> QED BY <1>2, <1>3, PutSamePeers DEF Genuine, Alike

LEMMA UpdatePairsNobody ==
  ASSUME IdInv, NEW o \in Sessions, NEW late \in TimedOut(o), NEW room \in Rooms,
         UpdateSession(o, late, room)
  PROVE  SamePeers
<1> DEFINE c == session[o]
           t == Update(c, late, room, released)
<1>1. /\ room \in Nat /\ released \in BOOLEAN /\ late \in Nat
      /\ InTable(o) /\ MutexFree(SideOf(o))
  BY BoundAssumption DEF IdInv, IInv, TypeOK, TimedOut, UpdateSession
<1>2. Genuine(o, c) /\ Good(c)
  BY <1>1, InTableIsGenuine, FreshWhenIdle DEF IdInv
<1>3. Genuine(o, t) /\ MayFin(c, t, {}, 0)
  BY <1>1, <1>2, UpdateGenuine, UpdateMayFin
<1> HIDE DEF t
<1>4. Put(o, t)
  BY DEF UpdateSession, t
<1>5. t.sessionId = c.sessionId /\ (t.callbackState = "None" <=> c.callbackState = "None")
  BY <1>3 DEF MayFin, Follows, Continues, Proceeds
<1> QED BY <1>3, <1>4, <1>5, PutSamePeers DEF Genuine

LEMMA ShutdownsPairNobody ==
  ASSUME IdInv, UnregisterProtocolServer
                \/ \E side \in Side : HandleClientDisconnection(side)
  PROVE  SamePeers
<1>1. ASSUME NEW o \in Sessions
      PROVE  /\ session'[o].sessionId = session[o].sessionId
             /\ session'[o].callbackState = "None" <=> session[o].callbackState = "None"
  <2> DEFINE c == session[o]
  <2>1. SessionOK(c)
    BY DEF IdInv, IInv, SessionsOK
  <2>2. session'[o] \in {c, Shutdown(c, FALSE), HandleUnregisterProtocolServer(c)}
    BY DEF HandleClientDisconnection, UnregisterProtocolServer
  <2>3. /\ Follows(c, Shutdown(c, FALSE), {}, {}, 0)
        /\ Follows(c, HandleUnregisterProtocolServer(c), {}, {}, 0)
    BY <2>1, ShutdownFollows, HandleUnregisterFollows
  <2> QED BY <2>2, <2>3 DEF Follows, Continues, Proceeds
<1> QED BY <1>1, AllSamePeers

\* Send accepts the next payload of a paired session, Receive delivers the
\* next payload of its peer.
LEMMA EndSendAccepts ==
  ASSUME IdInv, IInv', StreamInv, NEW o \in Sessions, EndSend(o)
  PROVE  Streams!Next
<1> DEFINE c == session[o]
           payload == Len(accepted[o]) + 1
           t == FinishSend(c, payload)
<1>1. payload \in Nat /\ o \in sending /\ HasFreeSlot(c.sendWindow)
  BY DEF EndSend, IdInv, IInv, TypeOK
<1>2. Genuine(o, c)
  BY <1>1, InTableIsGenuine
<1>3. Genuine(o, t) /\ Alike(c, t)
  BY <1>1, <1>2, FinishSendGenuine
<1> HIDE DEF t
<1>4. /\ Put(o, t) /\ UNCHANGED delivered
      /\ accepted' = [accepted EXCEPT ![o] = Append(accepted[o], Len(accepted[o]) + 1)]
  BY DEF EndSend, t
<1>5. SamePeers
  BY <1>3, <1>4, PutSamePeers DEF Genuine, Alike
<1>6. PeerOf(o) # NoSession
  BY <1>1 DEF StreamInv, Attached
<1>7. Streams!Accept(o)
  BY <1>4, <1>5, <1>6 DEF Streams!Accept, SamePeers
<1> QED BY <1>7 DEF Streams!Next

LEMMA EndReceiveDelivers ==
  ASSUME IdInv, StreamInv, NEW o \in Sessions, EndReceive(o)
  PROVE  [Streams!Next]_Streams!vars
<1> DEFINE c == session[o]
           t == FinishReceive(c)
           q == Partner(o)
           k == Len(delivered[o])
<1>1. /\ PeerOf(o) # NoSession
      /\ DeliversData(c) => /\ k < Len(accepted[q])
                            /\ NextUnread(c.receiveWindow).payload = accepted[q][k + 1]
  BY EndReceiveReads
<1>2. PeerOf(o) = q
  BY <1>1, PeerIsPartner
<1>3. o \in receiving /\ HasPacket(c.receiveWindow)
  BY DEF EndReceive
<1>4. Genuine(o, c)
  BY <1>3, InTableIsGenuine
<1>5. Genuine(o, t) /\ Alike(c, t)
  BY <1>3, <1>4, FinishReceiveGenuine
<1> HIDE DEF t
<1>6. /\ Put(o, t) /\ UNCHANGED accepted
      /\ delivered' = IF DeliversData(c)
                      THEN [delivered EXCEPT ![o] =
                              Append(delivered[o], NextUnread(c.receiveWindow).payload)]
                      ELSE delivered
  BY DEF EndReceive, t
<1>7. SamePeers
  BY <1>5, <1>6, PutSamePeers DEF Genuine, Alike
<1> HIDE DEF c, q
<1>8. CASE DeliversData(c)
  <2>1. delivered' = [delivered EXCEPT ![o] =
                        Append(delivered[o], accepted[PeerOf(o)][Len(delivered[o]) + 1])]
    BY <1>1, <1>2, <1>6, <1>8
  <2>2. Len(delivered[o]) < Len(accepted[PeerOf(o)])
    BY <1>1, <1>2, <1>8
  <2>3. Streams!Deliver(o)
    BY <1>1, <1>6, <1>7, <2>1, <2>2 DEF Streams!Deliver, SamePeers
  <2> QED BY <2>3 DEF Streams!Next
<1>9. CASE ~DeliversData(c)
  BY <1>6, <1>7, <1>9, StepOrStutter
<1> QED BY <1>8, <1>9

\* Every step of the sessions is a step of the paired streams, or leaves
\* them as they are.
LEMMA NextPairs ==
  IdInv /\ StreamInv /\ [Next]_vars => [Streams!Next]_Streams!vars
<1> SUFFICES ASSUME IdInv, StreamInv, [Next]_vars
             PROVE  [Streams!Next]_Streams!vars
  OBVIOUS
<1>0. IInv'
  BY NextIInv DEF IdInv
<1>1. ASSUME UNCHANGED <<session, accepted, delivered>>
      PROVE  [Streams!Next]_Streams!vars
  <2>1. SamePeers
    BY <1>1 DEF SamePeers, PeerOf
  <2> QED BY <1>1, <2>1, StepOrStutter
<1>2. ASSUME NEW d \in net, HandleReceivedSessionMessage(d)
      PROVE  [Streams!Next]_Streams!vars
  <2>1. MutexFree(d.dst)
    BY <1>2 DEF HandleReceivedSessionMessage
  <2>2. CASE RefuseSyn(d) \/ ReceiveUnknown(d)
    BY <1>1, <2>2 DEF RefuseSyn, ReceiveUnknown, appVars
  <2>3. ASSUME NEW o \in Server, RejectSyn(d, o) \/ AcceptSyn(d, o)
        PROVE  [Streams!Next]_Streams!vars
    <3>1. UNCHANGED <<accepted, delivered>>
      BY <2>3 DEF RejectSyn, AcceptSyn, appVars
    <3> QED BY <2>3, <3>1, SynPairsNobody, StepOrStutter
  <2>4. ASSUME NEW o \in Sessions, ReceiveSynAck(d, o)
        PROVE  [Streams!Next]_Streams!vars
    <3>1. ReceiveSynAck(d, Client) /\ UNCHANGED <<accepted, delivered>>
      BY <2>4, SynAckIsForClient DEF ReceiveSynAck, appVars
    <3>2. CASE session[Client].state = SynSent
      BY <1>0, <2>1, <3>1, <3>2, FirstSynAckPairs
    <3>3. CASE session[Client].state # SynSent
      BY <2>1, <3>1, <3>3, LaterSynAckPairsNobody, StepOrStutter
    <3> QED BY <3>2, <3>3
  <2>5. ASSUME NEW o \in Sessions, ReceiveMessage(d, o)
        PROVE  [Streams!Next]_Streams!vars
    BY <2>1, <2>5, ReceiveMessagePairs
  <2>6. ASSUME NEW o \in Sessions, ReceiveFin(d, o)
        PROVE  [Streams!Next]_Streams!vars
    <3>1. UNCHANGED <<accepted, delivered>>
      BY <2>6 DEF ReceiveFin, appVars
    <3> QED BY <2>6, <3>1, ReceiveFinPairsNobody, StepOrStutter
  <2> QED BY <1>2, <2>2, <2>3, <2>4, <2>5, <2>6 DEF HandleReceivedSessionMessage
<1>3. ASSUME NEW side \in Side, FinishFin(side)
      PROVE  [Streams!Next]_Streams!vars
  <2>1. UNCHANGED <<accepted, delivered>>
    BY <1>3 DEF FinishFin, appVars
  <2> QED BY <1>3, <2>1, FinishFinPairsNobody, StepOrStutter
<1>4. ASSUME NEW side \in Side, RemoveIfClosed(side)
      PROVE  [Streams!Next]_Streams!vars
  BY <1>1, <1>4 DEF RemoveIfClosed, appVars
<1>5. ASSUME NEW o \in Sessions, NEW late \in TimedOut(o), NEW room \in Rooms,
             UpdateSession(o, late, room)
      PROVE  [Streams!Next]_Streams!vars
  <2>1. UNCHANGED <<accepted, delivered>>
    BY <1>5 DEF UpdateSession, appVars
  <2> QED BY <1>5, <2>1, UpdatePairsNobody, StepOrStutter
<1>6. CASE UnregisterProtocolServer \/ \E side \in Side : HandleClientDisconnection(side)
  <2>1. UNCHANGED <<accepted, delivered>>
    BY <1>6 DEF UnregisterProtocolServer, HandleClientDisconnection, appVars
  <2> QED BY <1>6, <2>1, ShutdownsPairNobody, StepOrStutter
<1>7. CASE EstablishSessionForClient
  <2>1. UNCHANGED <<accepted, delivered>>
    BY <1>7 DEF EstablishSessionForClient, appVars
  <2> QED BY <1>7, <2>1, EstablishPairsNobody, StepOrStutter
<1>8. ASSUME NEW o \in Sessions, EndSend(o) \/ EndReceive(o)
      PROVE  [Streams!Next]_Streams!vars
  BY <1>0, <1>8, EndSendAccepts, EndReceiveDelivers
<1>9. ASSUME NEW o \in Sessions,
             BeginSend(o) \/ SendTimeout(o) \/ BeginReceive(o) \/ ReceiveNothing(o)
      PROVE  [Streams!Next]_Streams!vars
  BY <1>1, <1>9 DEF BeginSend, SendTimeout, BeginReceive, ReceiveNothing
<1>10. CASE Release \/ RegisterProtocolServer \/ (\E d \in net : Lose(d)) \/ UNCHANGED vars
  BY <1>1, <1>10 DEF Release, RegisterProtocolServer, Lose, vars, appVars
<1> QED BY <1>2, <1>3, <1>4, <1>5, <1>6, <1>7, <1>8, <1>9, <1>10
        DEF Next, MessageThread, Application

\* However the bus loses, repeats and reorders datagrams, whatever is
\* retransmitted and whenever a peer goes away, a session is paired with
\* one peer only, which is paired with it, and every Receive returns the
\* next payload that the Send of that peer accepted.
THEOREM SessionsArePairedStreams == Spec => ImplementsPairedStreams
  BY InitPairs, NextPairs, StreamsHold, PTL DEF Spec, ImplementsPairedStreams, Streams!Spec
=============================================================================
