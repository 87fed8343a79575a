--------------------------- MODULE DiscoveryProofs ---------------------------
(***************************************************************************)
(* Client discovery, for every set of clients and every number of pongs    *)
(* and calls.  That the event follows the queue holds for any number of    *)
(* callers; what a caller is told is right as long as one thread at a time *)
(* discovers clients.                                                      *)
(***************************************************************************)
EXTENDS ClientDiscovery, SequenceTheorems, TLAPS

QueueOK == queue \in Seq(Clients) /\ signaled \in BOOLEAN
Tracked == QueueOK /\ EventTracksQueue

(***************************************************************************)
(* What Pop takes off the queue, and what it leaves.                       *)
(***************************************************************************)
LEMMA PopFacts ==
    ASSUME NEW q \in Seq(Clients), q # <<>>
    PROVE  /\ Front(q) \in Seq(Clients)
           /\ Last(q) \in Clients
           /\ \E i \in 1..Len(q) : Last(q) = q[i]
           /\ \A i \in 1..Len(Front(q)) : i \in 1..Len(q) /\ Front(q)[i] = q[i]
<1>1. Len(q) \in Nat \ {0} /\ Len(q) \in 1..Len(q)
  OBVIOUS
<1>2. Last(q) = q[Len(q)]
  BY DEF Last
<1>3. Front(q) = SubSeq(q, 1, Len(q) - 1)
  BY DEF Front
<1>4. \A i \in 1..Len(q) - 1 : q[i] \in Clients
  BY <1>1
<1>5. /\ Front(q) \in Seq(Clients) /\ Len(Front(q)) = Len(q) - 1
      /\ \A i \in 1..Len(q) - 1 : Front(q)[i] = q[i]
  <2> DEFINE n == Len(q) - 1
  <2>1. n \in Nat /\ n - 1 + 1 = n /\ \A i \in 1..n : 1 + i - 1 = i
    BY <1>1
  <2>2. /\ SubSeq(q, 1, n) \in Seq(Clients)
        /\ Len(SubSeq(q, 1, n)) = IF 1 <= n THEN n - 1 + 1 ELSE 0
        /\ \A i \in 1..n - 1 + 1 : SubSeq(q, 1, n)[i] = q[1 + i - 1]
    <3> HIDE DEF n
    <3> QED BY <2>1, <1>4, SubSeqProperties DEF n
  <2> QED BY <1>1, <1>3, <2>1, <2>2
<1> QED BY <1>1, <1>2, <1>5

LEMMA TrackedInit == Init => Tracked
BY EmptySeq DEF Init, Tracked, QueueOK, EventTracksQueue

(***************************************************************************)
(* Every step keeps the event and the queue together.                      *)
(***************************************************************************)
LEMMA TrackedStep == Tracked /\ [Next]_vars => Tracked'
<1> SUFFICES ASSUME Tracked, [Next]_vars PROVE Tracked'
  OBVIOUS
<1> USE DEF Tracked, QueueOK, EventTracksQueue, queueVars, busVars
<1>1. ASSUME NEW c \in Callers, NEW f \in Kinds, DiscoverClients(c, f) PROVE Tracked'
  BY <1>1 DEF DiscoverClients
<1>2. ASSUME NEW c \in Callers, Wake(c) \/ TimeOut(c) PROVE Tracked'
  BY <1>2 DEF Wake, TimeOut
<1>3. ASSUME NEW c \in Callers, Pop(c) PROVE Tracked'
  <2>1. queue' \in Seq(Clients)
    BY <1>3, PopFacts DEF Pop
  <2>2. signaled' \in BOOLEAN /\ (signaled' <=> queue' # <<>>)
    BY <1>3, Zenon DEF Pop
  <2> QED BY <2>1, <2>2
<1>4. ASSUME NEW c \in Callers, Stop(c) PROVE Tracked'
  BY <1>4, EmptySeq DEF Stop
<1>5. CASE Ping
  BY <1>5 DEF Ping
<1>6. ASSUME NEW x \in Clients, Respond(x) PROVE Tracked'
  BY <1>6 DEF Respond
<1>7. ASSUME NEW x \in Clients, HandlePong(x) PROVE Tracked'
  <2>1. Append(queue, x) \in Seq(Clients) /\ Append(queue, x) # <<>>
    BY AppendProperties, EmptySeq
  <2> QED BY <1>7, <2>1 DEF HandlePong
<1>8. CASE UNCHANGED vars
  BY <1>8 DEF vars
<1> QED BY <1>1, <1>2, <1>3, <1>4, <1>5, <1>6, <1>7, <1>8 DEF Next

LEMMA TrackedHolds == Spec => []Tracked
BY TrackedInit, TrackedStep, PTL DEF Spec

(***************************************************************************)
(* The event is set exactly while the queue has an entry, however many     *)
(* threads discover clients at once: no thread waits in DiscoverClients    *)
(* for an entry that is there.                                             *)
(***************************************************************************)
THEOREM EventFollowsQueue == Spec => []EventTracksQueue
<1>1. Tracked => EventTracksQueue
  BY DEF Tracked
<1> QED BY <1>1, TrackedHolds, PTL

-----------------------------------------------------------------------------
(***************************************************************************)
(* One caller.  The queue holds entries for the call that is active only,  *)
(* and it is empty between two calls.                                      *)
(***************************************************************************)
OneCaller == \A c, d \in Callers : c = d

CallsOK == /\ filter \in Kinds
           /\ call \in [Callers -> CallState]

QueueIsForCaller ==
    \A c \in Callers :
        /\ call[c].pc = "idle" => queue = <<>> /\ ~active
        /\ call[c].pc # "idle" => call[c].filter = filter
        /\ call[c].pc = "woken" => queue # <<>>
        /\ \A i \in 1..Len(queue) : Matches(filter, queue[i])
        /\ \A x \in call[c].reported : Matches(call[c].filter, x)

CallerInv == Tracked /\ CallsOK /\ active \in BOOLEAN /\ QueueIsForCaller

LEMMA CallerInit == Init => CallerInv
<1> SUFFICES ASSUME Init PROVE CallerInv
  OBVIOUS
<1>1. CallsOK /\ active \in BOOLEAN
  BY DEF Init, CallsOK, CallState
<1>2. QueueIsForCaller
  BY EmptySeq DEF Init, QueueIsForCaller
<1> QED BY <1>1, <1>2, TrackedInit DEF CallerInv

(***************************************************************************)
(* Every step keeps the queue to the caller's own filter.                  *)
(***************************************************************************)
LEMMA CallerStep == ASSUME OneCaller PROVE CallerInv /\ [Next]_vars => CallerInv'
<1> SUFFICES ASSUME CallerInv, [Next]_vars PROVE CallerInv'
  OBVIOUS
<1>0. Tracked'
  BY TrackedStep DEF CallerInv
<1>a. Tracked /\ CallsOK /\ active \in BOOLEAN /\ QueueIsForCaller
  BY DEF CallerInv
<1>b. SUFFICES CallsOK' /\ (active \in BOOLEAN)' /\ QueueIsForCaller'
  BY <1>0 DEF CallerInv
<1> USE DEF queueVars, busVars, CallState
<1>1. ASSUME NEW c \in Callers, NEW f \in Kinds, DiscoverClients(c, f)
      PROVE  CallsOK' /\ (active \in BOOLEAN)' /\ QueueIsForCaller'
  <2>1. queue = <<>> /\ queue' = <<>>
    BY <1>1, <1>a DEF DiscoverClients, QueueIsForCaller
  <2>2. CallsOK' /\ active' \in BOOLEAN
    BY <1>1, <1>a DEF DiscoverClients, CallsOK
  <2>3. call' = [call EXCEPT ![c] = [pc |-> "wait", filter |-> f, reported |-> {}]] /\ filter' = f
    BY <1>1 DEF DiscoverClients
  <2> QED BY <2>1, <2>2, <2>3, <1>a DEF QueueIsForCaller, CallsOK, OneCaller
<1>2. ASSUME NEW c \in Callers, Wake(c) \/ TimeOut(c)
      PROVE  CallsOK' /\ (active \in BOOLEAN)' /\ QueueIsForCaller'
  BY <1>2, <1>a DEF Wake, TimeOut, CallsOK, QueueIsForCaller, Tracked, EventTracksQueue, OneCaller
<1>3. ASSUME NEW c \in Callers, Pop(c)
      PROVE  CallsOK' /\ (active \in BOOLEAN)' /\ QueueIsForCaller'
  <2>1. queue \in Seq(Clients) /\ queue # <<>>
    BY <1>3, <1>a DEF Pop, Tracked, QueueOK
  <2>2. PICK go \in BOOLEAN :
          call' = [call EXCEPT ![c].reported = @ \cup {Last(queue)},
                               ![c].pc = IF go \/ Last(queue) \in call[c].reported THEN "wait" ELSE "stop"]
    BY <1>3 DEF Pop
  <2>3. Last(queue) \in Clients /\ Matches(filter, Last(queue))
    BY <2>1, <1>a, PopFacts DEF QueueIsForCaller
  <2>4. \A i \in 1..Len(queue') : Matches(filter', queue'[i])
    BY <1>3, <2>1, <1>a, PopFacts DEF Pop, QueueIsForCaller
  <2>5. CallsOK' /\ active' \in BOOLEAN
    BY <1>3, <2>2, <2>3, <1>a DEF Pop, CallsOK
  <2>6. call[c].filter = filter /\ filter' = filter
    BY <1>3, <1>a DEF Pop, QueueIsForCaller
  <2>7. call'[c].pc \in {"wait", "stop"} /\ call'[c].filter = call[c].filter
        /\ call'[c].reported = call[c].reported \cup {Last(queue)}
    BY <2>2, <1>a DEF CallsOK
  <2>8. \A x \in call'[c].reported : Matches(call'[c].filter, x)
    BY <2>3, <2>6, <2>7, <1>a DEF QueueIsForCaller
  <2> QED BY <2>4, <2>5, <2>6, <2>7, <2>8 DEF QueueIsForCaller, OneCaller
<1>4. ASSUME NEW c \in Callers, Stop(c)
      PROVE  CallsOK' /\ (active \in BOOLEAN)' /\ QueueIsForCaller'
  <2>1. queue' = <<>> /\ ~active' /\ active' \in BOOLEAN /\ filter' = filter
        /\ call' = [call EXCEPT ![c].pc = "idle"]
    BY <1>4 DEF Stop
  <2>2. CallsOK'
    BY <2>1, <1>a DEF CallsOK
  <2>3. call'[c].pc = "idle" /\ call'[c].filter = call[c].filter /\ call'[c].reported = call[c].reported
    BY <2>1, <1>a DEF CallsOK
  <2>4. 1..Len(queue') = {}
    BY <2>1, EmptySeq
  <2> QED BY <2>1, <2>2, <2>3, <2>4, <1>a DEF QueueIsForCaller, OneCaller
<1>5. CASE Ping
  BY <1>5, <1>a DEF Ping, CallsOK, QueueIsForCaller
<1>6. ASSUME NEW x \in Clients, Respond(x)
      PROVE  CallsOK' /\ (active \in BOOLEAN)' /\ QueueIsForCaller'
  BY <1>6, <1>a DEF Respond, CallsOK, QueueIsForCaller
<1>7. ASSUME NEW x \in Clients, HandlePong(x)
      PROVE  CallsOK' /\ (active \in BOOLEAN)' /\ QueueIsForCaller'
  <2>1. CASE active /\ Matches(filter, x)
    <3>1. queue' = Append(queue, x) /\ queue \in Seq(Clients)
      BY <1>7, <2>1, <1>a DEF HandlePong, Tracked, QueueOK
    <3>2. queue' # <<>> /\ Len(queue') = Len(queue) + 1 /\ Len(queue) \in Nat
          /\ \A i \in 1..Len(queue) + 1 : queue'[i] = IF i = Len(queue) + 1 THEN x ELSE queue[i]
      BY <3>1
    <3>3. UNCHANGED <<active, filter, call>>
      BY <1>7 DEF HandlePong
    <3>4. ASSUME NEW c \in Callers PROVE \A i \in 1..Len(queue') : Matches(filter', queue'[i])
      BY <2>1, <3>2, <3>3, <1>a DEF QueueIsForCaller, Matches
    <3> QED BY <2>1, <3>2, <3>3, <3>4, <1>a DEF QueueIsForCaller, CallsOK
  <2>2. CASE ~(active /\ Matches(filter, x))
    BY <1>7, <2>2, <1>a DEF HandlePong, CallsOK, QueueIsForCaller
  <2> QED BY <2>1, <2>2
<1>8. CASE UNCHANGED vars
  BY <1>8, <1>a DEF vars, CallsOK, QueueIsForCaller
<1> QED BY <1>1, <1>2, <1>3, <1>4, <1>5, <1>6, <1>7, <1>8 DEF Next

LEMMA CallerHolds == ASSUME OneCaller PROVE Spec => []CallerInv
BY CallerInit, CallerStep, PTL DEF Spec

(***************************************************************************)
(* With one caller, a thread that the event wakes finds an entry: the      *)
(* assertion of DiscoverClients holds for any number of clients and calls. *)
(***************************************************************************)
THEOREM OneCallerFindsClient == ASSUME OneCaller PROVE Spec => []WokenFindsClient
<1>1. CallerInv => WokenFindsClient
  BY DEF CallerInv, QueueIsForCaller, WokenFindsClient
<1> QED BY <1>1, CallerHolds, PTL

(***************************************************************************)
(* With one caller, every client that is reported matches the filter of    *)
(* the call, however late the pongs to earlier calls arrive.               *)
(***************************************************************************)
THEOREM OneCallerGetsMatches == ASSUME OneCaller PROVE Spec => []ReportsMatch
<1>1. CallerInv => ReportsMatch
  BY DEF CallerInv, QueueIsForCaller, ReportsMatch
<1> QED BY <1>1, CallerHolds, PTL
=============================================================================
