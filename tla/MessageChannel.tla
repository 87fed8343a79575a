--------------------------- MODULE MessageChannel ---------------------------
(***************************************************************************)
(* The life of a message channel (shared/legacy/src/messageChannel.inl)    *)
(* and of the sessions in its table (sessionManager.cpp): Register starts  *)
(* a message thread that updates the channel; any failure of the transport *)
(* disconnects it, wherever it is noticed; Unregister stops the thread,    *)
(* closes the sessions and disconnects.                                    *)
(*                                                                         *)
(* Two threads run this code, "app" (Register, Unregister) and "msg" (the  *)
(* message thread), and they call into each other's functions: Unregister  *)
(* updates the channel while it waits for its sessions, and a write that   *)
(* fails deep inside an update disconnects, which shuts all sessions down. *)
(* A thread is a stack of labels, its own position first and the places it *)
(* returns to behind it.  m_sessionMutex is the POSIX one, not recursive:  *)
(* a thread that holds it and locks it again waits for itself.             *)
(***************************************************************************)
EXTENDS Naturals, Sequences

CONSTANTS
    SessionIds,        \* slots of the session table
    MaxRegistrations,  \* bound on the calls of Register
    MaxSessions,       \* bound on the sessions that are created
    Faults             \* what may go wrong, see below

(***************************************************************************)
(*   "locked_write"  the transport fails in a write made while the session *)
(*                   mutex is held, not only in a read or another write    *)
(*   "establish"     another application thread opens client sessions      *)
(*   "join_timeout"  the message thread is still busy when the join times  *)
(*                   out                                                   *)
(***************************************************************************)
ASSUME ChannelAssumption ==
    /\ MaxRegistrations \in Nat
    /\ MaxSessions \in Nat
    /\ Faults \subseteq {"locked_write", "establish", "join_timeout"}

VARIABLES
    connected,      \* m_clientId # kBroadcastClientId
    active,         \* m_msgThreadParams.active
    bound,          \* the session manager's m_pMessageChannel is set
    serving,        \* the channel's own protocol servers are registered
    session,        \* m_sessions: the state of each entry, "none" if absent
    mutex,          \* the holder of m_sessionMutex, "none" if it is free
    stack,          \* what each thread is doing
    registrations,  \* calls of Register so far
    created         \* sessions created so far

vars == <<connected, active, bound, serving, session, mutex, stack,
          registrations, created>>

Threads == {"app", "msg"}

Labels == {"unregistered", "registered", "join", "servers", "destroy",
           "destroyed", "notify", "loop", "read", "handle", "handled",
           "update", "updating", "updated", "disconnect", "shut", "graceful",
           "wait", "waited", "check", "force", "end"}

\* "connecting": opened by this side, before the answer; "accepting": by its peer.
SessionStates == {"none", "connecting", "accepting", "established", "finWait", "closed"}

\* Every function that takes the mutex releases it before it returns.
TypeOK ==
    /\ connected \in BOOLEAN /\ active \in BOOLEAN
    /\ bound \in BOOLEAN /\ serving \in BOOLEAN
    /\ session \in [SessionIds -> SessionStates]
    /\ mutex \in Threads \cup {"none"}
    /\ stack \in [Threads -> Seq(Labels)] /\ stack["app"] # <<>>
    /\ \A t \in Threads : mutex = t <=>
          \E i \in 1 .. Len(stack[t]) : stack[t][i] \in {"handle", "handled", "updating"}
    /\ registrations \in 0..MaxRegistrations
    /\ created \in 0..MaxSessions

Init ==
    /\ connected = FALSE /\ active = FALSE
    /\ bound = FALSE /\ serving = FALSE
    /\ session = [s \in SessionIds |-> "none"]
    /\ mutex = "none"
    /\ stack = [t \in Threads |-> IF t = "app" THEN <<"unregistered">> ELSE <<>>]
    /\ registrations = 0 /\ created = 0

At(t, label) == stack[t] # <<>> /\ Head(stack[t]) = label

\* t moves on within its function; calls another, to come back at ret; returns.
Goto(t, label) == stack' = [stack EXCEPT ![t] = <<label>> \o Tail(@)]
Call(t, label, ret) == stack' = [stack EXCEPT ![t] = <<label, ret>> \o Tail(@)]
Return(t) == stack' = [stack EXCEPT ![t] = Tail(@)]

NoSessions == \A s \in SessionIds : session[s] = "none"

\* Session::Shutdown with Result::Success, and with any other reason.
ShutdownState(state, success) ==
    CASE state = "none" -> "none"
      [] state = "established" /\ success -> "finWait"
      [] state = "finWait" /\ success -> "finWait"
      [] OTHER -> "closed"

Shutdown(S, success) ==
    session' = [s \in SessionIds |->
                  IF s \in S THEN ShutdownState(session[s], success) ELSE session[s]]

\* A session enters the table.
Create(state) ==
    /\ created < MaxSessions
    /\ created' = created + 1
    /\ \E s \in SessionIds : /\ session[s] = "none"
                             /\ session' = [session EXCEPT ![s] = state]

-----------------------------------------------------------------------------
(***************************************************************************)
(* Registration.  CreateMsgThread may fail, which leaves a channel that is *)
(* connected and has no message thread.                                    *)
(***************************************************************************)
Register ==
    /\ At("app", "unregistered")
    /\ registrations < MaxRegistrations
    /\ registrations' = registrations + 1
    /\ connected' = TRUE /\ bound' = TRUE /\ serving' = TRUE
    /\ \E started \in BOOLEAN :
          /\ started => stack["msg"] = <<>>
          /\ active' = started
          /\ stack' = [app |-> <<"registered">>,
                       msg |-> IF started THEN <<"loop">> ELSE stack["msg"]]
    /\ UNCHANGED <<session, mutex, created>>

\* Another thread of the application opens a session to some other client; the
\* session has taken m_pMessageChannel before it locks the mutex.
EstablishSessionForClient ==
    /\ "establish" \in Faults
    /\ ~At("app", "unregistered")
    /\ mutex = "none"
    /\ Create("connecting")
    /\ UNCHANGED <<connected, active, bound, serving, mutex, stack, registrations>>

(***************************************************************************)
(* Unregister, from DestroyMsgThread on.                                   *)
(***************************************************************************)
Unregister ==
    /\ At("app", "registered")
    /\ active' = FALSE
    /\ Goto("app", "join")
    /\ UNCHANGED <<connected, bound, serving, session, mutex, registrations, created>>

Join ==
    /\ At("app", "join")
    /\ "join_timeout" \notin Faults => stack["msg"] = <<>>
    /\ Goto("app", "servers")
    /\ UNCHANGED <<connected, active, bound, serving, session, mutex, registrations, created>>

\* The URI server and the transfer server are unregistered and deleted; their
\* sessions are shut down gracefully.
UnregisterServers ==
    /\ At("app", "servers")
    /\ mutex = "none"
    /\ serving' = FALSE
    /\ \E S \in SUBSET SessionIds : Shutdown(S, TRUE)
    /\ Goto("app", "destroy")
    /\ UNCHANGED <<connected, active, bound, mutex, registrations, created>>

\* Changed: the pointer to the channel is cleared before the sessions are shut down.
DestroyUnbound ==
    /\ At("app", "destroy")
    /\ bound' = FALSE
    /\ Call("app", "shut", "destroyed")
    /\ UNCHANGED <<connected, active, serving, session, mutex, registrations, created>>

\* SessionManager::Destroy; Register has bound the channel.
Destroy ==
    /\ At("app", "destroy")
    /\ Call("app", "shut", "destroyed")
    /\ UNCHANGED <<connected, active, bound, serving, session, mutex, registrations, created>>

Destroyed ==
    /\ At("app", "destroyed")
    /\ bound' = FALSE
    /\ Goto("app", "notify")
    /\ UNCHANGED <<connected, active, serving, session, mutex, registrations, created>>

\* The notification is written past Forward, so it never disconnects.
NotifyAndDisconnect ==
    /\ At("app", "notify")
    /\ Call("app", "disconnect", "unregistered")
    /\ UNCHANGED <<connected, active, bound, serving, session, mutex, registrations, created>>

-----------------------------------------------------------------------------
(***************************************************************************)
(* The message thread, and Update, which the thread that unregisters also  *)
(* runs.                                                                   *)
(***************************************************************************)
\* Changed: the loop does not look at the active flag.
MsgChannelReceiveFuncIgnoresActive ==
    /\ At("msg", "loop")
    /\ IF connected THEN Call("msg", "read", "loop") ELSE Return("msg")
    /\ UNCHANGED <<connected, active, bound, serving, session, mutex, registrations, created>>

MsgChannelReceiveFunc ==
    /\ At("msg", "loop")
    /\ IF active /\ connected THEN Call("msg", "read", "loop") ELSE Return("msg")
    /\ UNCHANGED <<connected, active, bound, serving, session, mutex, registrations, created>>

\* A session message, or one that says another client is gone: handled under
\* the session mutex.
ReceiveLocked(t) ==
    /\ At(t, "read")
    /\ connected
    /\ mutex = "none"
    /\ mutex' = t
    /\ Goto(t, "handle")
    /\ UNCHANGED <<connected, active, bound, serving, session, registrations, created>>

\* A Syn is accepted, a session is established or closed by its peer, or
\* nothing changes.
HandleReceivedSessionMessage(t) ==
    /\ At(t, "handle")
    /\ \/ serving /\ Create("accepting")
       \/ /\ \E s \in SessionIds :
                \/ /\ session[s] \in {"connecting", "accepting"}
                   /\ session' = [session EXCEPT ![s] = "established"]
                \/ /\ session[s] # "none"
                   /\ session' = [session EXCEPT ![s] = "closed"]
          /\ UNCHANGED created
       \/ UNCHANGED <<session, created>>
    /\ Goto(t, "handled")
    /\ UNCHANGED <<connected, active, bound, serving, mutex, registrations>>

\* The answer is written; Forward disconnects when that fails.
AnswerFails(t) ==
    /\ "locked_write" \in Faults
    /\ At(t, "handled")
    /\ connected
    /\ Call(t, "disconnect", "handled")
    /\ UNCHANGED <<connected, active, bound, serving, session, mutex, registrations, created>>

\* Changed: an early return leaves the mutex locked.
HandledStillLocked(t) ==
    /\ At(t, "handled")
    /\ Goto(t, "read")
    /\ UNCHANGED <<connected, active, bound, serving, session, mutex, registrations, created>>

Handled(t) ==
    /\ At(t, "handled")
    /\ mutex' = "none"
    /\ Goto(t, "read")
    /\ UNCHANGED <<connected, active, bound, serving, session, registrations, created>>

\* HandleClientDisconnection.
HandleClientDisconnection(t) ==
    /\ At(t, "handle")
    /\ \E S \in SUBSET SessionIds : Shutdown(S, FALSE)
    /\ Goto(t, "handled")
    /\ UNCHANGED <<connected, active, bound, serving, mutex, registrations, created>>

\* No more messages, or the transport failed: in the read, in the answer to a
\* ping or a query, in the ping of a discovery or in a keep-alive.
ReadDone(t) ==
    /\ At(t, "read")
    /\ \/ Goto(t, "update")
       \/ Call(t, "disconnect", "update")
    /\ UNCHANGED <<connected, active, bound, serving, session, mutex, registrations, created>>

UpdateSessions(t) ==
    /\ At(t, "update")
    /\ mutex = "none"
    /\ mutex' = t
    /\ Goto(t, "updating")
    /\ UNCHANGED <<connected, active, bound, serving, session, registrations, created>>

\* A session retransmits or acknowledges, and the write fails.
UpdateFails(t) ==
    /\ "locked_write" \in Faults
    /\ At(t, "updating")
    /\ connected /\ ~NoSessions
    /\ Call(t, "disconnect", "updating")
    /\ UNCHANGED <<connected, active, bound, serving, session, mutex, registrations, created>>

\* The sessions that are closed, or close in their own update, are removed.
SessionsUpdated(t) ==
    /\ At(t, "updating")
    /\ \E given \in SUBSET {s \in SessionIds : session[s] \notin {"none", "closed"}} :
          session' = [s \in SessionIds |->
                        IF s \in given \/ session[s] = "closed" THEN "none" ELSE session[s]]
    /\ mutex' = "none"
    /\ Return(t)
    /\ UNCHANGED <<connected, active, bound, serving, registrations, created>>

\* Changed: the client id is cleared after the sessions are shut down.
DisconnectLate(t) ==
    /\ At(t, "disconnect")
    /\ IF connected THEN Goto(t, "shut") ELSE Return(t)
    /\ UNCHANGED <<connected, active, bound, serving, session, mutex, registrations, created>>

\* Changed: the session manager is not told.
DisconnectSilently(t) ==
    /\ At(t, "disconnect")
    /\ connected' = FALSE
    /\ Return(t)
    /\ UNCHANGED <<active, bound, serving, session, mutex, registrations, created>>

Disconnect(t) ==
    /\ At(t, "disconnect")
    /\ connected' = FALSE
    /\ IF connected THEN Goto(t, "shut") ELSE Return(t)
    /\ UNCHANGED <<active, bound, serving, session, mutex, registrations, created>>

-----------------------------------------------------------------------------
(***************************************************************************)
(* ShutDownAllSessions.                                                    *)
(***************************************************************************)
ShutDownAllSessions(t) ==
    /\ At(t, "shut")
    /\ IF NoSessions THEN Return(t)
       ELSE Goto(t, IF connected THEN "graceful" ELSE "check")
    /\ UNCHANGED <<connected, active, bound, serving, session, mutex, registrations, created>>

Graceful(t) ==
    /\ At(t, "graceful")
    /\ mutex = "none"
    /\ Shutdown(SessionIds, TRUE)
    /\ Goto(t, "wait")
    /\ UNCHANGED <<connected, active, bound, serving, mutex, registrations, created>>

WaitForSessions(t) ==
    /\ At(t, "wait")
    /\ IF NoSessions THEN Goto(t, "check") ELSE Call(t, "read", "waited")
    /\ UNCHANGED <<connected, active, bound, serving, session, mutex, registrations, created>>

WaitAgain(t) ==
    /\ At(t, "waited")
    /\ connected
    /\ Goto(t, "wait")
    /\ UNCHANGED <<connected, active, bound, serving, session, mutex, registrations, created>>

\* The transport is gone, or kShutdownTimeoutInMs is over.
GiveUp(t) ==
    /\ At(t, "waited")
    /\ Goto(t, "check")
    /\ UNCHANGED <<connected, active, bound, serving, session, mutex, registrations, created>>

CheckSessions(t) ==
    /\ At(t, "check")
    /\ Goto(t, IF NoSessions THEN "end" ELSE "force")
    /\ UNCHANGED <<connected, active, bound, serving, session, mutex, registrations, created>>

ForceShutdown(t) ==
    /\ At(t, "force")
    /\ mutex = "none"
    /\ Shutdown(SessionIds, FALSE)
    /\ Call(t, "update", "end")
    /\ UNCHANGED <<connected, active, bound, serving, mutex, registrations, created>>

ShutDownDone(t) ==
    /\ At(t, "end")
    /\ Return(t)
    /\ UNCHANGED <<connected, active, bound, serving, session, mutex, registrations, created>>

-----------------------------------------------------------------------------
\* The steps of t that only wait for the mutex or for nothing at all.
Step(t) ==
    \/ HandleReceivedSessionMessage(t) \/ HandleClientDisconnection(t)
    \/ Handled(t) \/ ReadDone(t) \/ UpdateSessions(t) \/ SessionsUpdated(t)
    \/ Disconnect(t) \/ ShutDownAllSessions(t) \/ Graceful(t)
    \/ WaitForSessions(t) \/ WaitAgain(t) \/ GiveUp(t) \/ CheckSessions(t)
    \/ ForceShutdown(t) \/ ShutDownDone(t)

Unregistering ==
    \/ Join \/ UnregisterServers \/ Destroy \/ Destroyed \/ NotifyAndDisconnect

Next ==
    \/ Register \/ EstablishSessionForClient \/ Unregister \/ Unregistering
    \/ MsgChannelReceiveFunc
    \/ \E t \in Threads : Step(t) \/ ReceiveLocked(t) \/ AnswerFails(t) \/ UpdateFails(t)

(***************************************************************************)
(* The scheduler runs both threads and hands the mutex to a thread that    *)
(* keeps asking for it; the transport does not deliver messages for ever   *)
(* without a pause; time passes, so the wait for the sessions ends.        *)
(***************************************************************************)
Fairness ==
    /\ WF_vars(Unregistering)
    /\ SF_vars(UnregisterServers)
    /\ WF_vars(MsgChannelReceiveFunc)
    /\ \A t \in Threads :
          /\ WF_vars(Step(t))
          /\ SF_vars(ReadDone(t))
          /\ SF_vars(UpdateSessions(t))
          /\ SF_vars(Graceful(t))
          /\ SF_vars(ForceShutdown(t))
          /\ SF_vars(GiveUp(t))

Spec == Init /\ [][Next]_vars /\ Fairness

-----------------------------------------------------------------------------
\* t holds the session mutex and waits for it: Forward has disconnected from
\* inside session processing.
SelfLocked ==
    \E t \in Threads : mutex = t /\ (At(t, "force") \/ At(t, "update"))

\* A session that another thread has just begun to connect may enter the table
\* after the last look of any shutdown; the others are the ones it is for.
Open(s) == session[s] \notin {"none", "connecting"}

(***************************************************************************)
(* At the end of ShutDownAllSessions the table is empty: "We should        *)
(* definitely have no active sessions by this point".  Not so when another *)
(* thread opens a session meanwhile.                                       *)
(***************************************************************************)
ShutdownLeavesNoSession ==
    \A t \in Threads : At(t, "end") => NoSessions

(***************************************************************************)
(* ShutDownAllSessions dereferences m_pMessageChannel for any entry of the *)
(* table, also for a session that is only being opened, and the pointer is *)
(* cleared by Destroy.  (Null is taken for a channel that is not connected *)
(* here.)  The code does not keep to this when another thread opens a      *)
(* session after the last look of Destroy.                                 *)
(***************************************************************************)
EntryHasChannel ==
    \A t \in Threads : At(t, "shut") /\ ~NoSessions => bound

(***************************************************************************)
(* The sessions that such a thread began to open are the only ones: those  *)
(* that were established, accepted or closed before are all gone when      *)
(* Destroy clears the pointer, or a shutdown beside it still has the       *)
(* channel.                                                                *)
(***************************************************************************)
ChannelIsBound ==
    \A t \in Threads : At(t, "shut") /\ (\E s \in SessionIds : Open(s)) => bound

(***************************************************************************)
(* A thread that disconnects while it holds the session mutex does not try *)
(* to close its sessions gracefully: it would update the channel from      *)
(* inside an update, and wait up to five seconds with the mutex.           *)
(***************************************************************************)
HolderDoesNotWait ==
    \A t \in Threads : \A i \in 1 .. Len(stack[t]) :
        stack[t][i] \in {"handle", "handled", "updating"} =>
            \A j \in 1 .. i - 1 : stack[t][j] \notin {"graceful", "wait", "waited"}

(***************************************************************************)
(* The sessions of a channel that has lost its transport are closed and    *)
(* removed, unless the loss was noticed under the session mutex, where the *)
(* thread that notices it blocks on itself.                                *)
(***************************************************************************)
DisconnectEndsSessions ==
    \A s \in SessionIds :
        (~connected /\ Open(s)) ~> (~Open(s) \/ connected \/ SelfLocked)

(***************************************************************************)
(* Unregister returns, with the channel disconnected, unless a thread has  *)
(* blocked on itself.                                                      *)
(***************************************************************************)
UnregisterReturns ==
    At("app", "join") ~> (SelfLocked \/ (At("app", "unregistered") /\ ~connected))
=============================================================================
