----------------------------- MODULE EventServer -----------------------------
(***************************************************************************)
(* Event streaming (protocols/ddEventServer.cpp, ddEventServerSession.cpp, *)
(* ddEventProvider.cpp): threads of the application write events into the  *)
(* chunks of a provider; chunks are flushed into the queue of the session  *)
(* that has subscribed to the provider; the message thread sends them to   *)
(* the client in packets.  Clients are those of apis/ddEvent.              *)
(*                                                                         *)
(* Three locks: m_updateMutex of the server serializes the message thread  *)
(* and the threads that register providers; m_chunkMutex of a provider     *)
(* guards its chunks; the session a provider points to, and whether it is  *)
(* enabled, are written under the first and read by writers that hold at   *)
(* most the second.                                                        *)
(***************************************************************************)
EXTENDS Naturals, Sequences, FiniteSets, SequencesExt

CONSTANTS
    Providers, Sessions, Writers, None,
    Capacity,      \* of m_pendingSessions
    ChunkSize,     \* kEventChunkMaxDataSize, in units of one packet
    Sizes,         \* sizes of events
    Window,        \* packets a session accepts
    MaxEvents,     \* bound on the events of a provider
    MaxUpdates,    \* bound on the EnableProviders, DisableProviders before a client is gone
    BeyondRisk     \* whether to go on when the writers of a provider are at risk

\* One unit of the n-th event of provider p, and the answers to requests.
Part == [p : Providers, n : Nat, part : Nat]
Response(result) == [kind |-> "Response", result |-> result]

ASSUME EventAssumption ==
    /\ IsFiniteSet(Providers) /\ IsFiniteSet(Sessions)
    /\ None \notin Providers \cup Sessions \cup Writers \cup Part
    /\ None \notin {Response("Success"), Response("Unavailable"), Response("Error")}
    /\ Capacity \in Nat /\ ChunkSize \in Nat \ {0} /\ Window \in Nat \ {0}
    /\ Sizes \subseteq Nat \ {0} /\ MaxEvents \in Nat /\ MaxUpdates \in Nat
    /\ BeyondRisk \in BOOLEAN

VARIABLES
    prov,      \* the BaseEventProvider objects
    pending,   \* m_pendingSessions
    objs,      \* the EventServerSession objects that have not been deleted
    sess,      \* what each of them holds
    op,        \* the operation that holds m_updateMutex between two steps
    writer,    \* the call of WriteEvent each writer is in
    link, toServer, toClient,
    cl,        \* the client of each session
    written,   \* the data accepted for each session
    fault,     \* a pointer to no session, or to a deleted one, was followed
    risk       \* providers whose writers the code does not protect, see below

vars == <<prov, pending, objs, sess, op, writer, link, toServer, toClient, cl, written, fault, risk>>
wires == <<link, toServer, toClient, cl>>

NewProvider == [reg |-> FALSE, session |-> None, enabled |-> FALSE, chunks |-> <<>>, index |-> 0, lock |-> None]
NewSession == [queue |-> <<>>, chunk |-> <<>>, payload |-> None, reply |-> None, of |-> None]
NoOp == [name |-> "none", pc |-> "none", p |-> None, s |-> None]
NewClient == [pc |-> "new", subscribed |-> FALSE, updates |-> 0, got |-> <<>>]

Init ==
    /\ prov = [p \in Providers |-> NewProvider]
    /\ pending = {} /\ objs = {}
    /\ sess = [s \in Sessions |-> NewSession]
    /\ op = NoOp
    /\ writer = [w \in Writers |-> [pc |-> "idle", p |-> None]]
    /\ link = [s \in Sessions |-> "down"]
    /\ toServer = [s \in Sessions |-> <<>>] /\ toClient = [s \in Sessions |-> <<>>]
    /\ cl = [s \in Sessions |-> NewClient]
    /\ written = [s \in Sessions |-> <<>>]
    /\ fault = FALSE /\ risk = {}

-----------------------------------------------------------------------------
(***************************************************************************)
(* Providers.                                                              *)
(***************************************************************************)
Inside(w, p) == writer[w].p = p /\ writer[w].pc # "idle"
AtRisk(P) == risk' = risk \cup P

\* The chunks that are not empty, in their order.
Filled(q) ==
    LET upto(i) == Cardinality({j \in 1..i : q[j] # <<>>})
    IN  [k \in 1..upto(Len(q)) |-> q[CHOOSE i \in 1..Len(q) : q[i] # <<>> /\ upto(i) = k]]

\* Flush with EnqueueEventChunks, which leaves out empty chunks.
FlushTo(p) ==
    IF prov[p].chunks = <<>> THEN UNCHANGED <<sess, fault>>
    ELSE IF prov[p].session \notin objs THEN fault' = TRUE /\ UNCHANGED sess
    ELSE /\ sess' = [sess EXCEPT ![prov[p].session].queue = @ \o Filled(prov[p].chunks)]
         /\ UNCHANGED fault

\* The room in the last chunk.
Room(p) == IF prov[p].chunks = <<>> THEN 0 ELSE ChunkSize - Len(Last(prov[p].chunks))

\* The chunks after an event of n units was written: AcquireEventChunks takes
\* the last chunk and new ones until they hold the event and one unit more,
\* the time stamp that may be needed.
Chunks(p, parts) ==
    LET old == prov[p].chunks
        room == Room(p)
        n == Len(parts)
        new == IF room >= n + 1 THEN 0 ELSE (n + ChunkSize - room) \div ChunkSize
        Upto(i) == IF i < n THEN i ELSE n
        fresh == [i \in 1..new |->
                    SubSeq(parts, room + (i - 1) * ChunkSize + 1, Upto(room + i * ChunkSize))]
    IN  IF old = <<>> THEN fresh
        ELSE Append(Front(old), Last(old) \o SubSeq(parts, 1, Upto(room))) \o fresh

\* Whether that needs a chunk from the session.
Allocates(p, n) == Room(p) < n + 1

Parts(p, n) == [i \in 1..n |-> [p |-> p, n |-> prov[p].index + 1, part |-> i]]

\* QueryEventWriteStatus, without a lock.
QueryEventWriteStatus(w, p) ==
    /\ writer[w].pc = "idle"
    /\ prov[p].reg /\ prov[p].enabled /\ prov[p].index < MaxEvents
    /\ writer' = [writer EXCEPT ![w] = [pc |-> "checked", p |-> p]]
    /\ AtRisk(IF op.p = p /\ op.pc = "off" THEN {p} ELSE {})
    /\ UNCHANGED <<prov, pending, objs, sess, op, wires, written, fault>>

\* WriteEventWithHeader under m_chunkMutex, up to the flush timer; memory may
\* run out.
WriteEvent(w, n) ==
    LET p == writer[w].p
        s == prov[p].session
        parts == Parts(p, n)
    IN  /\ writer[w].pc = "checked" /\ prov[p].lock = None
        /\ writer' = [writer EXCEPT ![w].pc = "locked"]
        /\ IF Allocates(p, n) /\ s \notin objs
           THEN fault' = TRUE /\ UNCHANGED <<prov, written>>
           ELSE /\ \/ /\ prov' = [prov EXCEPT ![p].lock = w, ![p].index = @ + 1, ![p].chunks = Chunks(p, parts)]
                      /\ written' = IF s = None THEN written ELSE [written EXCEPT ![s] = @ \o parts]
                   \/ /\ Allocates(p, n)
                      /\ prov' = [prov EXCEPT ![p].lock = w, ![p].index = @ + 1]
                      /\ UNCHANGED written
                /\ UNCHANGED fault
        /\ UNCHANGED <<pending, objs, sess, op, wires, risk>>

\* UpdateFlushTimer and the unlock.
FinishWrite(w, flush) ==
    LET p == writer[w].p IN
    /\ writer[w].pc = "locked"
    /\ writer' = [writer EXCEPT ![w] = [pc |-> "idle", p |-> None]]
    /\ IF flush THEN FlushTo(p) /\ prov' = [prov EXCEPT ![p].lock = None, ![p].chunks = <<>>]
       ELSE prov' = [prov EXCEPT ![p].lock = None] /\ UNCHANGED <<sess, fault>>
    /\ UNCHANGED <<pending, objs, op, wires, written, risk>>

-----------------------------------------------------------------------------
(***************************************************************************)
(* EventServer: registration of providers, and sessions that come and go.  *)
(* An operation that flushes a provider waits for its writers; the rest of *)
(* it does not.                                                            *)
(***************************************************************************)
UpdateLock == op.name = "none"

\* A provider that is still enabled from an earlier registration can be
\* written to before it has a session.  With apis/ddEvent an object is deleted
\* when it is unregistered, nobody writes to it any more, and a new one that is
\* not enabled is registered under its id.
RegisterProvider(p) ==
    /\ UpdateLock /\ ~prov[p].reg /\ prov[p].index < MaxEvents
    /\ \/ /\ prov' = [prov EXCEPT ![p].reg = TRUE]
          /\ AtRisk(IF prov[p].enabled THEN {p} ELSE {})
       \/ /\ \A w \in Writers : ~Inside(w, p)
          /\ prov' = [prov EXCEPT ![p] = [NewProvider EXCEPT !.reg = TRUE, !.index = prov[p].index]]
          /\ UNCHANGED risk
    /\ UNCHANGED <<pending, objs, sess, op, writer, wires, written, fault>>

UnregisterProvider(p) ==
    /\ UpdateLock /\ prov[p].reg
    /\ op' = [name |-> "unregister", pc |-> "flush", p |-> p, s |-> prov[p].session]
    /\ UNCHANGED <<prov, pending, objs, sess, writer, wires, written, fault, risk>>

\* AcceptSession; the session is established later.
AcceptSession(s) ==
    /\ UpdateLock /\ cl[s].pc = "new" /\ link[s] = "down"
    /\ Cardinality(pending) < Capacity
    /\ \E p \in Providers : prov[p].reg /\ prov[p].session = None
    /\ link' = [link EXCEPT ![s] = "accepted"]
    /\ UNCHANGED <<prov, pending, objs, sess, op, writer, toServer, toClient, cl, written, fault, risk>>

SessionEstablished(s) ==
    /\ UpdateLock /\ link[s] = "accepted"
    /\ link' = [link EXCEPT ![s] = "up"]
    /\ pending' = pending \cup {s} /\ objs' = objs \cup {s}
    /\ cl' = [cl EXCEPT ![s].pc = "ready"]
    /\ UNCHANGED <<prov, sess, op, writer, toServer, toClient, written, fault, risk>>

\* FindProviderBySessionId.
HasAcquired(p, s) == prov[p].reg /\ prov[p].session = s
ProviderOf(s) == {p \in Providers : HasAcquired(p, s)}

\* Disable, if the provider is enabled: flush, "off"; then "reset".
Disabling(name, p, s) ==
    op' = [name |-> name, pc |-> IF prov[p].enabled THEN "flush" ELSE "reset", p |-> p, s |-> s]

\* Nothing of a session is delivered once it is down.
Down(s) ==
    /\ link' = [link EXCEPT ![s] = "down"]
    /\ toServer' = [toServer EXCEPT ![s] = <<>>]
    /\ toClient' = [toClient EXCEPT ![s] = <<>>]
    /\ cl' = [cl EXCEPT ![s] = [NewClient EXCEPT !.pc = "done"]]
    /\ written' = [written EXCEPT ![s] = <<>>]

SessionTerminated(s) ==
    /\ UpdateLock /\ link[s] = "leaving"
    /\ Down(s)
    /\ IF s \in pending
       THEN pending' = pending \ {s} /\ objs' = objs \ {s} /\ UNCHANGED op
       ELSE /\ IF ProviderOf(s) = {} THEN UNCHANGED op
               ELSE \E p \in ProviderOf(s) : Disabling("terminate", p, s)
            /\ UNCHANGED <<pending, objs>>
    /\ UNCHANGED <<prov, sess, writer, fault, risk>>

\* Changed: the flush does not wait for the writer that holds the chunks.
FlushUnlocked ==
    /\ op.pc = "flush"
    /\ FlushTo(op.p)
    /\ prov' = [prov EXCEPT ![op.p].chunks = <<>>]
    /\ op' = [op EXCEPT !.pc = "off"]
    /\ AtRisk(IF \E w \in Writers : Inside(w, op.p) /\ prov[op.p].lock = None THEN {op.p} ELSE {})
    /\ UNCHANGED <<pending, objs, writer, wires, written>>

\* The flush of Disable and Unregister, with m_chunkMutex.
FlushProvider ==
    /\ op.pc = "flush" /\ prov[op.p].lock = None
    /\ FlushTo(op.p)
    /\ prov' = [prov EXCEPT ![op.p].chunks = <<>>]
    /\ op' = [op EXCEPT !.pc = "off"]
    /\ AtRisk(IF \E w \in Writers : Inside(w, op.p) THEN {op.p} ELSE {})
    /\ UNCHANGED <<pending, objs, writer, wires, written>>

\* m_isEnabled = false, or m_pServer = nullptr.
TurnOff ==
    /\ op.pc = "off"
    /\ prov' = IF op.name = "unregister" THEN [prov EXCEPT ![op.p].reg = FALSE]
               ELSE [prov EXCEPT ![op.p].enabled = FALSE]
    /\ op' = [op EXCEPT !.pc = "reset"]
    /\ UNCHANGED <<pending, objs, sess, writer, wires, written, fault, risk>>

Delete(s) ==
    /\ objs' = objs \ {s}
    /\ sess' = [x \in Sessions |-> IF x = s THEN [NewSession EXCEPT !.of = sess[x].of] ELSE sess[x]]

\* ResetSession; the object is deleted unless the client has unsubscribed.
\* An update that disables a provider leaves it its session.
Reset ==
    /\ op.pc = "reset"
    /\ prov' = IF op.name = "disable" THEN prov ELSE [prov EXCEPT ![op.p].session = None]
    /\ IF op.name \in {"terminate", "unregister"} THEN Delete(op.s) ELSE UNCHANGED <<objs, sess>>
    /\ op' = NoOp
    /\ UNCHANGED <<pending, writer, wires, written, fault, risk>>

OpStep == FlushProvider \/ TurnOff \/ Reset

-----------------------------------------------------------------------------
(***************************************************************************)
(* UpdateSession, for a session that is pending or acquired.               *)
(***************************************************************************)
Updates(s) ==
    /\ UpdateLock /\ link[s] \in {"up", "leaving"}
    /\ s \in pending \/ ProviderOf(s) # {}

Space(s) == Len(toClient[s]) < Window
Send(s, m) == toClient' = [toClient EXCEPT ![s] = Append(@, m)]
Data(part) == [kind |-> "Data", part |-> part]

\* Changed: what does not fill a chunk stays with the provider.
UpdateProviderFull(s) ==
    /\ Updates(s)
    /\ \E p \in ProviderOf(s) :
          /\ prov[p].lock = None /\ prov[p].chunks # <<>> /\ Len(Last(prov[p].chunks)) = ChunkSize
          /\ FlushTo(p)
          /\ prov' = [prov EXCEPT ![p].chunks = <<>>]
    /\ UNCHANGED <<pending, objs, op, writer, wires, written, risk>>

\* BaseEventProvider::Update, when the timer is due and the lock is free.
UpdateProvider(s) ==
    /\ Updates(s)
    /\ \E p \in ProviderOf(s) :
          /\ prov[p].lock = None /\ prov[p].chunks # <<>>
          /\ FlushTo(p)
          /\ prov' = [prov EXCEPT ![p].chunks = <<>>]
    /\ UNCHANGED <<pending, objs, op, writer, wires, written, risk>>

\* Changed: a payload that does not fit in the window is forgotten.
SendEventDataOrDrop(s) ==
    /\ Updates(s) /\ sess[s].reply = None /\ toServer[s] = <<>>
    /\ LET x == sess[s]
           chunk == IF x.chunk # <<>> THEN x.chunk ELSE Head(x.queue)
       IN  /\ x.chunk # <<>> \/ x.queue # <<>>
           /\ sess' = [sess EXCEPT ![s].chunk = Tail(chunk),
                                   ![s].queue = IF x.chunk = <<>> THEN Tail(@) ELSE @]
           /\ IF Space(s) THEN Send(s, Data(Head(chunk))) ELSE UNCHANGED toClient
    /\ UNCHANGED <<prov, pending, objs, op, writer, link, toServer, cl, written, fault, risk>>

\* SendEventData, one packet: the one that did not fit in the window before,
\* or the next part of the chunk, for which the chunk is done with.
SendEventData(s) ==
    /\ Updates(s) /\ sess[s].reply = None /\ toServer[s] = <<>>
    /\ LET x == sess[s]
           chunk == IF x.chunk # <<>> THEN x.chunk ELSE Head(x.queue)
       IN  IF x.payload # None
           THEN Space(s) /\ Send(s, Data(x.payload)) /\ sess' = [sess EXCEPT ![s].payload = None]
           ELSE /\ x.chunk # <<>> \/ x.queue # <<>>
                /\ sess' = [sess EXCEPT ![s].chunk = Tail(chunk),
                                        ![s].queue = IF x.chunk = <<>> THEN Tail(@) ELSE @,
                                        ![s].payload = IF Space(s) THEN None ELSE Head(chunk)]
                /\ IF Space(s) THEN Send(s, Data(Head(chunk))) ELSE UNCHANGED toClient
    /\ UNCHANGED <<prov, pending, objs, op, writer, link, toServer, cl, written, fault, risk>>

Receives(s, kind) ==
    /\ Updates(s) /\ sess[s].reply = None
    /\ toServer[s] # <<>> /\ Head(toServer[s]).kind = kind
    /\ toServer' = [toServer EXCEPT ![s] = Tail(@)]

SendReply(s) ==
    /\ Updates(s) /\ sess[s].reply # None /\ Space(s)
    /\ Send(s, sess[s].reply)
    /\ sess' = [sess EXCEPT ![s].reply = None]
    /\ UNCHANGED <<prov, pending, objs, op, writer, link, toServer, cl, written, fault, risk>>

\* Changed: a provider that has a session already takes the new one.
SubscribeAnyway(s) ==
    /\ Receives(s, "Subscribe")
    /\ LET p == Head(toServer[s]).p IN
       IF prov[p].reg
       THEN /\ prov' = [prov EXCEPT ![p].session = s, ![p].enabled = TRUE]
            /\ pending' = pending \ {s}
            /\ sess' = [sess EXCEPT ![s].reply = Response("Success"), ![s].of = p]
       ELSE /\ sess' = [sess EXCEPT ![s].reply = Response("Unavailable")]
            /\ UNCHANGED <<prov, pending>>
    /\ UNCHANGED <<objs, op, writer, link, toClient, cl, written, fault, risk>>

\* HandleSubscribeToProviderRequest, AssignSessionToProvider.
HandleSubscribe(s) ==
    /\ Receives(s, "Subscribe")
    /\ LET p == Head(toServer[s]).p IN
       IF prov[p].reg /\ prov[p].session = None
       THEN /\ prov' = [prov EXCEPT ![p].session = s, ![p].enabled = TRUE]
            /\ pending' = pending \ {s}
            /\ sess' = [sess EXCEPT ![s].reply = Response("Success"), ![s].of = p]
       ELSE /\ sess' = [sess EXCEPT ![s].reply = Response("Unavailable")]
            /\ UNCHANGED <<prov, pending>>
    /\ UNCHANGED <<objs, op, writer, link, toClient, cl, written, fault, risk>>

\* HandleApplyProviderUpdatesRequest with one update; QueryProviders and
\* AllocateProviderUpdates before it only read.  A provider without a session
\* is enabled all the same.
HandleApply(s) ==
    /\ Receives(s, "Apply")
    /\ LET m == Head(toServer[s]) IN
       /\ sess' = [sess EXCEPT ![s].reply = Response(IF prov[m.p].reg THEN "Success" ELSE "Error")]
       /\ IF m.enable
          THEN /\ prov' = [prov EXCEPT ![m.p].enabled = prov[m.p].reg \/ @]
               /\ AtRisk(IF prov[m.p].reg /\ prov[m.p].session = None THEN {m.p} ELSE {})
               /\ UNCHANGED op
          ELSE /\ IF prov[m.p].reg /\ prov[m.p].enabled THEN Disabling("disable", m.p, s) ELSE UNCHANGED op
               /\ UNCHANGED <<prov, risk>>
    /\ UNCHANGED <<pending, objs, writer, link, toClient, cl, written, fault>>

\* HandleUnsubscribeFromProviderRequest, UnassignSessionFromProvider.
HandleUnsubscribe(s) ==
    /\ Receives(s, "Unsubscribe")
    /\ IF sess[s].of = None THEN UNCHANGED op ELSE Disabling("unsubscribe", sess[s].of, s)
    /\ UNCHANGED <<prov, pending, objs, sess, writer, link, toClient, cl, written, fault, risk>>

\* The provider has unregistered, or the client has unsubscribed.
TellUnavailable(s) ==
    /\ UpdateLock /\ link[s] \in {"up", "leaving"}
    /\ s \notin pending /\ ProviderOf(s) = {} /\ Space(s)
    /\ Send(s, Response("Unavailable"))
    /\ UNCHANGED <<prov, pending, objs, sess, op, writer, link, toServer, cl, written, fault, risk>>

UpdateSession(s) ==
    \/ SendEventData(s) \/ SendReply(s) \/ HandleSubscribe(s) \/ HandleApply(s)
    \/ HandleUnsubscribe(s) \/ TellUnavailable(s)

-----------------------------------------------------------------------------
(***************************************************************************)
(* The client: it subscribes once, when it is created, and then reads,     *)
(* enables and disables providers.                                         *)
(***************************************************************************)
Ask(s, m, pc) ==
    /\ link[s] = "up" /\ cl[s].pc = "ready"
    /\ toServer' = [toServer EXCEPT ![s] = Append(@, m)]
    /\ cl' = [cl EXCEPT ![s].pc = pc, ![s].updates = IF m.kind = "Apply" THEN @ + 1 ELSE @]
    /\ UNCHANGED <<prov, pending, objs, sess, op, writer, link, toClient, written, fault, risk>>

SubscribeToProvider(s, p) ==
    ~cl[s].subscribed /\ Ask(s, [kind |-> "Subscribe", p |-> p], "subscribing")

UpdateProviders(s, p, enable) ==
    /\ cl[s].subscribed /\ \A x \in Sessions : cl[x].updates < MaxUpdates
    /\ Ask(s, [kind |-> "Apply", p |-> p, enable |-> enable], "updating")

\* ReadEventData, TransactPayloadContainer, ReceiveResponsePayload.
Read(s) ==
    /\ link[s] = "up" /\ toClient[s] # <<>>
    /\ toClient' = [toClient EXCEPT ![s] = Tail(@)]
    /\ LET m == Head(toClient[s])
           x == cl[s]
           ok == m.kind = "Response" /\ m.result = "Success"
       IN  cl' = [cl EXCEPT ![s] =
                CASE x.pc = "subscribing" ->
                        [x EXCEPT !.pc = IF ok THEN "ready" ELSE "failed", !.subscribed = ok]
                  [] x.pc # "subscribing" /\ m.kind = "Data" -> [x EXCEPT !.got = Append(@, m.part)]
                  [] OTHER -> [x EXCEPT !.pc = IF @ = "updating" THEN "ready" ELSE @]]
    /\ UNCHANGED <<prov, pending, objs, sess, op, writer, link, toServer, written, fault, risk>>

\* ddEventClientDestroy, also after a failed creation.
Destroy(s) ==
    /\ link[s] = "up" /\ cl[s].pc \in {"ready", "failed"}
    /\ toServer' = [toServer EXCEPT ![s] = Append(@, [kind |-> "Unsubscribe"])]
    /\ link' = [link EXCEPT ![s] = "leaving"]
    /\ UNCHANGED <<prov, pending, objs, sess, op, writer, toClient, cl, written, fault, risk>>

\* The client, or the connection, is gone.
Lose(s) ==
    /\ link[s] = "up"
    /\ link' = [link EXCEPT ![s] = "leaving"]
    /\ UNCHANGED <<prov, pending, objs, sess, op, writer, toServer, toClient, cl, written, fault, risk>>

Next ==
    /\ ~fault /\ (BeyondRisk \/ risk = {})
    /\ \/ OpStep
       \/ \E w \in Writers :
             \/ \E p \in Providers : QueryEventWriteStatus(w, p)
             \/ \E n \in Sizes : WriteEvent(w, n)
             \/ \E flush \in BOOLEAN : FinishWrite(w, flush)
       \/ \E p \in Providers : RegisterProvider(p) \/ UnregisterProvider(p)
       \/ \E s \in Sessions :
             \/ AcceptSession(s) \/ SessionEstablished(s) \/ SessionTerminated(s)
             \/ UpdateProvider(s) \/ UpdateSession(s)
             \/ Read(s) \/ Destroy(s) \/ Lose(s)
             \/ \E p \in Providers :
                   \/ SubscribeToProvider(s, p)
                   \/ \E enable \in BOOLEAN : UpdateProviders(s, p, enable)

(***************************************************************************)
(* The message thread updates every session and finishes what it began, a  *)
(* writer inside WriteEvent goes on, the flush timer comes due while the   *)
(* chunks are not locked, and the client reads.                            *)
(***************************************************************************)
Fairness ==
    /\ WF_vars(OpStep)
    /\ \A w \in Writers :
          WF_vars((\E n \in Sizes : WriteEvent(w, n)) \/ (\E flush \in BOOLEAN : FinishWrite(w, flush)))
    /\ \A s \in Sessions :
          WF_vars(UpdateProvider(s)) /\ WF_vars(UpdateSession(s)) /\ WF_vars(Read(s))

Spec == Init /\ [][Next]_vars /\ Fairness

-----------------------------------------------------------------------------
(***************************************************************************)
(* A writer that is inside WriteEvent, or about to lock the chunks, has a  *)
(* session to take chunks from and to flush them to, although it looked    *)
(* at the provider without a lock.  The code does not see to it (risk)     *)
(* when a writer has looked before the provider is flushed to be turned    *)
(* off, or looks between that flush and the turning off, and when a        *)
(* provider is enabled that has no session.                                *)
(***************************************************************************)
WriterFindsSession ==
    \A w \in Writers, p \in Providers : Inside(w, p) /\ p \notin risk => prov[p].session \in objs

(***************************************************************************)
(* What a client has received is a prefix of what was written for it: no   *)
(* event is lost, repeated, cut or out of order on its way through chunks, *)
(* queue and packets, and none was meant for an earlier subscriber.        *)
(***************************************************************************)
StreamIsPrefix ==
    \A s \in Sessions : sess[s].of \notin risk => IsPrefix(cl[s].got, written[s])

(***************************************************************************)
(* A session object is in one place, the pending list or one provider:     *)
(* "If the session is in the pending list, it couldn't have been acquired  *)
(* by a provider."  A subscribed client is not replaced by another one.    *)
(***************************************************************************)
SessionHasOnePlace ==
    /\ \A p \in Providers : prov[p].session \notin pending
    /\ \A s \in Sessions :
          cl[s].subscribed /\ link[s] = "up" /\ UpdateLock /\ s \in objs
              => prov[sess[s].of].session = s

(***************************************************************************)
(* The client catches up with the writers, unless it is gone or its        *)
(* provider is: no event that was accepted is left in a chunk, behind a    *)
(* full window or behind a request.                                        *)
(***************************************************************************)
CaughtUp(s) ==
    \/ Len(cl[s].got) = Len(written[s])
    \/ link[s] # "up" \/ ProviderOf(s) = {} \/ fault \/ risk # {}
EventsArrive == []<>(\A s \in Sessions : CaughtUp(s))

(***************************************************************************)
(* No writer follows a pointer to no session or to a deleted one.  The     *)
(* code does not keep to it once a provider is at risk.                    *)
(***************************************************************************)
PointersAreLive == ~fault

(***************************************************************************)
(* The object of a session that has ended is deleted: "Delete the          *)
(* EventServerSession object referencing this `pSession`."                 *)
(***************************************************************************)
EndedSessionIsDeleted ==
    \A s \in Sessions : UpdateLock /\ link[s] = "down" => s \notin objs
=============================================================================
