---------------------------- MODULE ChannelProofs ----------------------------
(***************************************************************************)
(* The locks and the shutdown of a message channel, for any number of      *)
(* sessions, registrations and failures of the transport.                  *)
(***************************************************************************)
EXTENDS MessageChannel, TLAPS

-----------------------------------------------------------------------------
(***************************************************************************)
(* What a stack may look like.                                             *)
(***************************************************************************)
Reading == {"read", "handle", "handled", "update", "updating"}
Shutting == {"shut", "graceful", "wait", "waited", "check", "force", "end"}

\* x runs on behalf of y.
Above(x, y) ==
    \/ y \in {"loop", "waited"} /\ x \in Reading
    \/ y = "destroyed" /\ x \in Shutting
    \/ y \in {"unregistered", "handled", "updating", "update"} /\ x \in Shutting \cup {"disconnect"}
    \/ y = "end" /\ x \in {"update", "updating"}

Bases == {"unregistered", "registered", "join", "servers", "destroy", "destroyed", "notify"}

WellFormed(t, s) ==
    /\ s \in Seq(Labels)
    /\ t = "app" => s # <<>> /\ s[Len(s)] \in Bases
    /\ t = "msg" => s = <<>> \/ s[Len(s)] = "loop"
    /\ \A i \in 1 .. Len(s) - 1 : Above(s[i], s[i + 1])

Stacks == stack = [t \in Threads |-> stack[t]] /\ \A t \in Threads : WellFormed(t, stack[t])

(***************************************************************************)
(* Who holds the session mutex: only the top of a stack can be inside of   *)
(* it, or one shutdown above.                                              *)
(***************************************************************************)
Locked == {"handle", "handled", "updating"}

Holds(s) == s # <<>> /\ (s[1] \in Locked \/ (Len(s) > 1 /\ s[2] \in Locked))

Shallow(s) ==
    /\ \A i \in 3 .. Len(s) : s[i] \notin Locked
    /\ Len(s) > 1 /\ s[2] \in Locked => s[1] \in {"disconnect", "shut", "graceful", "check", "force", "end"}

Locks == \A t \in Threads : Shallow(stack[t]) /\ (mutex = t <=> Holds(stack[t]))

Rest ==
    /\ connected \in BOOLEAN /\ active \in BOOLEAN /\ bound \in BOOLEAN /\ serving \in BOOLEAN
    /\ session \in [SessionIds -> SessionStates]
    /\ mutex \in Threads \cup {"none"}
    /\ registrations \in 0..MaxRegistrations
    /\ created \in 0..MaxSessions

LockInv == Rest /\ Stacks /\ Locks

(***************************************************************************)
(* The life of the channel, when the join does not time out.               *)
(***************************************************************************)
\* The message thread runs only while the channel is registered.
ThreadIsJoined == stack["msg"] # <<>> => stack["app"][1] \in {"registered", "join"}

\* Only Destroy waits for the sessions; any other shutdown has lost the transport.
Plain(x, y, c) ==
    y # "destroyed" => /\ x \notin {"graceful", "wait", "waited"}
                       /\ x \in {"shut", "check", "force", "end"} => ~c

WaitIsInDestroy ==
    \A t \in Threads : \A i \in 1 .. Len(stack[t]) - 1 : Plain(stack[t][i], stack[t][i + 1], connected)

NoneOpen == \A s \in SessionIds : ~Open(s)

AppBase == stack["app"][Len(stack["app"])]
AppTopIn(S) == stack["app"][1] \in S

\* What is left to do after Destroy.
Unbound ==
    ~bound =>
        /\ AppBase \in {"unregistered", "notify"}
        /\ AppTopIn({"notify", "disconnect", "shut"}) => NoneOpen
        /\ ~AppTopIn({"notify", "disconnect"}) => ~connected

\* Destroy ends without an open session.
Forced == \A s \in SessionIds : session[s] \in {"none", "connecting", "closed"}
Ending == \E i \in 2 .. Len(stack["app"]) : stack["app"][i] = "end"

DestroyCloses ==
    /\ AppTopIn({"destroyed"}) => NoneOpen
    /\ AppTopIn({"end"}) /\ Len(stack["app"]) > 1 /\ stack["app"][2] = "destroyed" => NoneOpen
    /\ Ending => Forced

LifeInv == ThreadIsJoined /\ WaitIsInDestroy /\ Unbound /\ DestroyCloses

-----------------------------------------------------------------------------
(***************************************************************************)
(* Goto, Call and Return on one stack.                                     *)
(***************************************************************************)
LEMMA Going ==
    ASSUME NEW s \in Seq(Labels), s # <<>>, NEW l \in Labels
    PROVE  LET n == <<l>> \o Tail(s) IN
           /\ n \in Seq(Labels) /\ Len(n) = Len(s) /\ n # <<>> /\ n[1] = l
           /\ \A i \in 2 .. Len(s) : n[i] = s[i]
OBVIOUS

LEMMA Calling ==
    ASSUME NEW s \in Seq(Labels), s # <<>>, NEW l \in Labels, NEW r \in Labels
    PROVE  LET n == <<l, r>> \o Tail(s) IN
           /\ n \in Seq(Labels) /\ Len(n) = Len(s) + 1 /\ n # <<>> /\ n[1] = l /\ n[2] = r
           /\ \A i \in 3 .. Len(s) + 1 : n[i] = s[i - 1]
OBVIOUS

LEMMA Returning ==
    ASSUME NEW s \in Seq(Labels), s # <<>>
    PROVE  /\ Tail(s) \in Seq(Labels) /\ Len(Tail(s)) = Len(s) - 1 /\ Len(s) \in Nat \ {0}
           /\ \A i \in 1 .. Len(s) - 1 : Tail(s)[i] = s[i + 1]
OBVIOUS


\* A label at the bottom of the stack of t.
Bottom(t, l) == (t = "app" => l \in Bases) /\ (t = "msg" => l = "loop")
Holders == {"disconnect", "shut", "graceful", "check", "force", "end"}

LEMMA GoingFits ==
    ASSUME NEW t \in Threads, NEW s, WellFormed(t, s), Shallow(s), s # <<>>, NEW l \in Labels,
           Len(s) = 1 => Bottom(t, l), Len(s) > 1 => Above(l, s[2]),
           Len(s) > 1 /\ s[2] \in Locked => l \in Holders
    PROVE  LET n == <<l>> \o Tail(s) IN
           /\ WellFormed(t, n) /\ Shallow(n)
           /\ Holds(n) <=> l \in Locked \/ (Len(s) > 1 /\ s[2] \in Locked)
<1> DEFINE n == <<l>> \o Tail(s)
<1>1. /\ n \in Seq(Labels) /\ Len(n) = Len(s) /\ n # <<>> /\ n[1] = l /\ Len(s) \in Nat \ {0}
      /\ \A i \in 2 .. Len(s) : n[i] = s[i]
  BY Going, Returning DEF WellFormed
<1> HIDE DEF n
<1>2. \A i \in 1 .. Len(n) - 1 : Above(n[i], n[i + 1])
  BY <1>1 DEF WellFormed
<1>3. WellFormed(t, n)
  BY <1>1, <1>2 DEF WellFormed, Bottom
<1>4. Shallow(n)
  BY <1>1 DEF Shallow, Holders
<1>5. Holds(n) <=> l \in Locked \/ (Len(s) > 1 /\ s[2] \in Locked)
  BY <1>1 DEF Holds
<1> QED BY <1>3, <1>4, <1>5 DEF n

LEMMA CallingFits ==
    ASSUME NEW t \in Threads, NEW s, WellFormed(t, s), Shallow(s), s # <<>>, NEW l \in Labels, NEW r \in Labels,
           Above(l, r), Len(s) = 1 => Bottom(t, r), Len(s) > 1 => Above(r, s[2]) /\ s[2] \notin Locked,
           r \in Locked => l \in Holders
    PROVE  LET n == <<l, r>> \o Tail(s) IN
           /\ WellFormed(t, n) /\ Shallow(n)
           /\ Holds(n) <=> l \in Locked \/ r \in Locked
<1> DEFINE n == <<l, r>> \o Tail(s)
<1>1. /\ n \in Seq(Labels) /\ Len(n) = Len(s) + 1 /\ n # <<>> /\ n[1] = l /\ n[2] = r /\ Len(s) \in Nat \ {0}
      /\ \A i \in 3 .. Len(s) + 1 : n[i] = s[i - 1]
  BY Calling, Returning DEF WellFormed
<1> HIDE DEF n
<1>2. ASSUME NEW i \in 1 .. Len(n) - 1 PROVE Above(n[i], n[i + 1])
  <2>1. CASE i = 1
    BY <1>1, <2>1
  <2>2. CASE i = 2
    BY <1>1, <1>2, <2>2
  <2>3. CASE i > 2
    <3>1. n[i] = s[i - 1] /\ n[i + 1] = s[i] /\ i - 1 \in 1 .. Len(s) - 1
      BY <1>1, <1>2, <2>3
    <3>2. Above(s[i - 1], s[(i - 1) + 1])
      BY <3>1 DEF WellFormed
    <3> QED BY <3>1, <3>2
  <2> QED BY <2>1, <2>2, <2>3
<1>3. WellFormed(t, n)
  <2>1. CASE Len(s) = 1
    <3>1. n[Len(n)] = r
      BY <1>1, <2>1
    <3> QED BY <1>1, <1>2, <2>1, <3>1 DEF WellFormed, Bottom
  <2>2. CASE Len(s) # 1
    <3>1. Len(s) + 1 \in 3 .. Len(s) + 1 /\ (Len(s) + 1) - 1 = Len(s)
      <4>1. Len(s) \in Nat \ {0}
        BY <1>1
      <4>2. \A k \in Nat \ {0} : k # 1 => k + 1 \in 3 .. k + 1 /\ (k + 1) - 1 = k
        OBVIOUS
      <4> QED BY <2>2, <4>1, <4>2
    <3>2. n[Len(n)] = s[Len(s)]
      BY <1>1, <3>1
    <3> QED BY <1>1, <1>2, <3>2 DEF WellFormed
  <2> QED BY <2>1, <2>2
<1>4. Shallow(n)
  BY <1>1 DEF Shallow, Holders
<1>5. Holds(n) <=> l \in Locked \/ r \in Locked
  BY <1>1 DEF Holds
<1> QED BY <1>3, <1>4, <1>5 DEF n

LEMMA ReturningFits ==
    ASSUME NEW t \in Threads, NEW s, WellFormed(t, s), Shallow(s), s # <<>>, t = "app" => Len(s) > 1
    PROVE  /\ WellFormed(t, Tail(s)) /\ Shallow(Tail(s))
           /\ Holds(Tail(s)) <=> Len(s) > 1 /\ s[2] \in Locked
<1> DEFINE n == Tail(s)
<1>1. /\ n \in Seq(Labels) /\ Len(n) = Len(s) - 1 /\ Len(s) \in Nat \ {0}
      /\ \A i \in 1 .. Len(s) - 1 : n[i] = s[i + 1]
  BY Returning DEF WellFormed
<1> HIDE DEF n
<1>a. n = <<>> <=> Len(n) = 0
  BY <1>1
<1>2. Len(s) > 1 <=> n # <<>>
  BY <1>1, <1>a
<1>3. ASSUME NEW i \in 1 .. Len(n) - 1 PROVE Above(n[i], n[i + 1])
  <2>1. n[i] = s[i + 1] /\ n[i + 1] = s[(i + 1) + 1] /\ i + 1 \in 1 .. Len(s) - 1
    BY <1>1, <1>3
  <2> QED BY <2>1 DEF WellFormed
<1>4. WellFormed(t, n)
  <2>1. n # <<>> => n[Len(n)] = s[Len(s)]
    BY <1>1, <1>2
  <2> QED BY <1>1, <1>2, <1>3, <2>1 DEF WellFormed
<1>5. Shallow(n)
  <2>1. \A i \in 2 .. Len(n) : n[i] \notin Locked
    BY <1>1 DEF Shallow
  <2> QED BY <1>1, <2>1 DEF Shallow
<1>6. Holds(n) <=> Len(s) > 1 /\ s[2] \in Locked
  <2>1. CASE Len(s) > 1
    <3>1. n # <<>> /\ n[1] = s[2] /\ (Len(n) > 1 => n[2] = s[3] /\ s[3] \notin Locked)
      BY <1>1, <1>2, <2>1 DEF Shallow
    <3> QED BY <2>1, <3>1 DEF Holds
  <2>2. CASE ~(Len(s) > 1)
    BY <1>2, <2>2 DEF Holds
  <2> QED BY <2>1, <2>2
<1> QED BY <1>4, <1>5, <1>6 DEF n

-----------------------------------------------------------------------------
(***************************************************************************)
(* The same on the stacks of both threads, with the session mutex.         *)
(***************************************************************************)
LEMMA StackChanges ==
    ASSUME Stacks, Locks, NEW t \in Threads, NEW n, WellFormed(t, n), Shallow(n),
           stack' = [stack EXCEPT ![t] = n],
           mutex' = t <=> Holds(n), \A u \in Threads \ {t} : mutex' = u <=> mutex = u
    PROVE  Stacks' /\ Locks'
<1>1. stack' = [u \in Threads |-> stack'[u]] /\ stack'[t] = n
      /\ \A u \in Threads \ {t} : stack'[u] = stack[u]
  BY DEF Stacks
<1>2. \A u \in Threads : WellFormed(u, stack'[u])
  BY <1>1 DEF Stacks
<1>3. \A u \in Threads : Shallow(stack'[u]) /\ (mutex' = u <=> Holds(stack'[u]))
  BY <1>1 DEF Locks
<1> QED BY <1>1, <1>2, <1>3 DEF Stacks, Locks

\* Above the mutex there is nothing, or a shutdown.
Within(s) == Len(s) > 1 /\ s[2] \in Locked

LEMMA GotoKeeps ==
    ASSUME Stacks, Locks, NEW t \in Threads, stack[t] # <<>>, NEW l \in Labels, Goto(t, l),
           Len(stack[t]) = 1 => Bottom(t, l), Len(stack[t]) > 1 => Above(l, stack[t][2]),
           Within(stack[t]) => l \in Holders,
           mutex' = t <=> l \in Locked \/ Within(stack[t]),
           \A u \in Threads \ {t} : mutex' = u <=> mutex = u
    PROVE  Stacks' /\ Locks'
<1> DEFINE n == <<l>> \o Tail(stack[t])
<1>1. WellFormed(t, stack[t]) /\ Shallow(stack[t])
  BY DEF Stacks, Locks
<1>2. WellFormed(t, n) /\ Shallow(n) /\ (Holds(n) <=> l \in Locked \/ Within(stack[t]))
  BY <1>1, GoingFits DEF Within
<1>3. stack' = [stack EXCEPT ![t] = n]
  BY DEF Goto
<1> HIDE DEF n
<1> QED BY <1>2, <1>3, StackChanges

LEMMA CallKeeps ==
    ASSUME Stacks, Locks, NEW t \in Threads, stack[t] # <<>>, NEW l \in Labels, NEW r \in Labels, Call(t, l, r),
           Above(l, r), Len(stack[t]) = 1 => Bottom(t, r), Len(stack[t]) > 1 => Above(r, stack[t][2]),
           ~Within(stack[t]),
           r \in Locked => l \in Holders,
           mutex' = t <=> l \in Locked \/ r \in Locked,
           \A u \in Threads \ {t} : mutex' = u <=> mutex = u
    PROVE  Stacks' /\ Locks'
<1> DEFINE n == <<l, r>> \o Tail(stack[t])
<1>1. WellFormed(t, stack[t]) /\ Shallow(stack[t])
  BY DEF Stacks, Locks
<1>2. WellFormed(t, n) /\ Shallow(n) /\ (Holds(n) <=> l \in Locked \/ r \in Locked)
  BY <1>1, CallingFits DEF Within
<1>3. stack' = [stack EXCEPT ![t] = n]
  BY DEF Call
<1> HIDE DEF n
<1> QED BY <1>2, <1>3, StackChanges

LEMMA ReturnKeeps ==
    ASSUME Stacks, Locks, NEW t \in Threads, stack[t] # <<>>, Return(t), t = "app" => Len(stack[t]) > 1,
           mutex' = t <=> Within(stack[t]),
           \A u \in Threads \ {t} : mutex' = u <=> mutex = u
    PROVE  Stacks' /\ Locks'
<1> DEFINE n == Tail(stack[t])
<1>1. WellFormed(t, stack[t]) /\ Shallow(stack[t])
  BY DEF Stacks, Locks
<1>2. WellFormed(t, n) /\ Shallow(n) /\ (Holds(n) <=> Within(stack[t]))
  BY <1>1, ReturningFits DEF Within
<1>3. stack' = [stack EXCEPT ![t] = n]
  BY DEF Return
<1> HIDE DEF n
<1> QED BY <1>2, <1>3, StackChanges

\* What the position of a thread says of its stack.
LEMMA Position ==
    ASSUME Stacks, Locks, NEW t \in Threads, NEW x, At(t, x)
    PROVE  /\ stack[t] # <<>> /\ stack[t][1] = x /\ x \in Labels
           /\ stack[t] \in Seq(Labels) /\ Len(stack[t]) \in Nat \ {0}
           /\ Len(stack[t]) = 1 => Bottom(t, x)
           /\ Len(stack[t]) > 1 => Above(x, stack[t][2])
           /\ Within(stack[t]) => x \in Holders
           /\ mutex = t <=> x \in Locked \/ Within(stack[t])
<1> DEFINE s == stack[t]
<1>1. WellFormed(t, s) /\ Shallow(s) /\ (mutex = t <=> Holds(s)) /\ s # <<>>
  BY DEF Stacks, Locks, At
<1>2. s \in Seq(Labels) /\ Len(s) \in Nat \ {0}
  BY <1>1, Returning DEF WellFormed
<1>3. s[1] = x
  BY <1>2, <1>1 DEF At
<1> HIDE DEF s
<1>4. x \in Labels
  BY <1>2, <1>3
<1>5. (Len(s) = 1 => Bottom(t, x)) /\ (Len(s) > 1 => Above(x, s[2]))
  BY <1>1, <1>2, <1>3 DEF WellFormed, Bottom
<1>6. (Within(s) => x \in Holders) /\ (mutex = t <=> x \in Locked \/ Within(s))
  BY <1>1, <1>2, <1>3 DEF Shallow, Holds, Within, Holders
<1> QED BY <1>1, <1>2, <1>3, <1>4, <1>5, <1>6 DEF s

\* A call from position x that neither takes nor releases the mutex.
LEMMA CallAt ==
    ASSUME Stacks, Locks, NEW t \in Threads, NEW x, At(t, x), NEW l \in Labels, NEW r \in Labels, Call(t, l, r),
           Above(l, r), Bottom(t, x) => Bottom(t, r), \A y : Above(x, y) => Above(r, y),
           x \notin Holders \/ mutex = "none",
           l \notin Locked, x \in Locked <=> r \in Locked, r \in Locked => l \in Holders,
           mutex' = mutex
    PROVE  Stacks' /\ Locks'
<1>1. /\ stack[t] # <<>>
      /\ Len(stack[t]) = 1 => Bottom(t, x)
      /\ Len(stack[t]) > 1 => Above(x, stack[t][2])
      /\ Within(stack[t]) => x \in Holders
      /\ mutex = t <=> x \in Locked \/ Within(stack[t])
  BY Position
<1>2. t # "none"
  BY DEF Threads
<1>3. ~Within(stack[t])
  BY <1>1, <1>2
<1>4. mutex' = t <=> l \in Locked \/ r \in Locked
  BY <1>1, <1>3
<1> QED BY <1>1, <1>3, <1>4, CallKeeps
-----------------------------------------------------------------------------
(***************************************************************************)
(* Every step keeps the stacks and the mutex in order, whatever fails.     *)
(***************************************************************************)
LEMMA ShutdownStates ==
    ASSUME session \in [SessionIds -> SessionStates], NEW S, NEW b \in BOOLEAN, Shutdown(S, b)
    PROVE  session' \in [SessionIds -> SessionStates]
BY DEF Shutdown, ShutdownState, SessionStates

LEMMA CreateStates ==
    ASSUME session \in [SessionIds -> SessionStates], created \in 0..MaxSessions,
           NEW x \in SessionStates, Create(x)
    PROVE  session' \in [SessionIds -> SessionStates] /\ created' \in 0..MaxSessions
BY ChannelAssumption DEF Create, SessionStates

LEMMA Called ==
    ASSUME Stacks, Locks, NEW t \in Threads, NEW x, At(t, x), x \notin Bases \cup {"loop"}
    PROVE  Len(stack[t]) > 1
<1>1. Len(stack[t]) \in Nat \ {0} /\ (Len(stack[t]) = 1 => Bottom(t, x))
  BY Position
<1>2. Len(stack[t]) # 1
  BY <1>1 DEF Bottom, Threads
<1>3. \A k \in Nat \ {0} : k # 1 => k > 1
  OBVIOUS
<1> QED BY <1>1, <1>2, <1>3

LEMMA AppLock ==
    ASSUME LockInv, Register \/ EstablishSessionForClient \/ Unregister \/ Unregistering \/ MsgChannelReceiveFunc
    PROVE  LockInv'
<1> USE DEF LockInv
<1>1. CASE Register
  <2>1. stack["app"][1] = "unregistered" /\ Len(stack["app"]) = 1 /\ stack["app"] \in Seq(Labels)
    <3>1. "app" \in Threads
      BY DEF Threads
    <3> QED BY <1>1, <3>1, Position DEF Register, Above, Reading, Shutting
  <2>2. PICK started \in BOOLEAN :
           /\ started => stack["msg"] = <<>>
           /\ active' = started
           /\ stack' = [app |-> <<"registered">>, msg |-> IF started THEN <<"loop">> ELSE stack["msg"]]
    BY <1>1 DEF Register
  <2>3. mutex # "app" /\ (mutex = "msg" <=> Holds(stack["msg"]))
    BY <2>1 DEF Locks, Threads, Holds, Locked
  <2>4. Rest'
    BY <1>1, <2>2, ChannelAssumption DEF Rest, Register
  <2>5. stack' = [t \in Threads |-> stack'[t]]
    BY <2>2 DEF Threads
  <2>6. WellFormed("app", <<"registered">>) /\ Shallow(<<"registered">>) /\ ~Holds(<<"registered">>)
    BY DEF WellFormed, Shallow, Holds, Locked, Labels, Bases
  <2>7. WellFormed("msg", <<"loop">>) /\ Shallow(<<"loop">>) /\ ~Holds(<<"loop">>)
    BY DEF WellFormed, Shallow, Holds, Locked, Labels
  <2>8. /\ WellFormed("msg", stack'["msg"]) /\ Shallow(stack'["msg"])
        /\ mutex = "msg" <=> Holds(stack'["msg"])
    <3>1. CASE started
      BY <2>2, <2>3, <2>7, <3>1 DEF Holds
    <3>2. CASE ~started
      BY <2>2, <2>3, <3>2 DEF Stacks, Locks, Threads
    <3> QED BY <3>1, <3>2
  <2>9. stack'["app"] = <<"registered">> /\ mutex' = mutex
    BY <1>1, <2>2 DEF Register
  <2> QED BY <2>3, <2>4, <2>5, <2>6, <2>8, <2>9 DEF Stacks, Locks, Threads
<1>2. CASE EstablishSessionForClient
  <2>1. Rest'
    BY <1>2, CreateStates DEF Rest, EstablishSessionForClient, SessionStates
  <2> QED BY <1>2, <2>1 DEF EstablishSessionForClient, Stacks, Locks
<1>3. CASE Unregister
  <2>1. Rest'
    BY <1>3, ShutdownStates DEF Rest, Unregister
  <2>2. At("app", "registered") /\ "app" \in Threads /\ mutex' = mutex /\ Goto("app", "join")
    BY <1>3 DEF Unregister, Threads
  <2>3. Stacks' /\ Locks'
    BY <2>2, Position, GotoKeeps DEF Labels, Above, Bottom, Bases, Reading, Shutting, Holders, Locked, Threads, LockInv, Within
  <2> QED BY <2>1, <2>3
<1>4. CASE Join
  <2>1. Rest'
    BY <1>4, ShutdownStates DEF Rest, Join
  <2>2. At("app", "join") /\ "app" \in Threads /\ mutex' = mutex /\ Goto("app", "servers")
    BY <1>4 DEF Join, Threads
  <2>3. Stacks' /\ Locks'
    BY <2>2, Position, GotoKeeps DEF Labels, Above, Bottom, Bases, Reading, Shutting, Holders, Locked, Threads, LockInv, Within
  <2> QED BY <2>1, <2>3
<1>5. CASE UnregisterServers
  <2>1. Rest'
    BY <1>5, ShutdownStates DEF Rest, UnregisterServers
  <2>2. At("app", "servers") /\ "app" \in Threads /\ mutex' = mutex /\ Goto("app", "destroy")
    BY <1>5 DEF UnregisterServers, Threads
  <2>3. Stacks' /\ Locks'
    BY <2>2, Position, GotoKeeps DEF Labels, Above, Bottom, Bases, Reading, Shutting, Holders, Locked, Threads, LockInv, Within
  <2> QED BY <2>1, <2>3
<1>6. CASE Destroy
  <2>1. Rest'
    BY <1>6, ShutdownStates DEF Rest, Destroy
  <2>2. At("app", "destroy") /\ "app" \in Threads /\ mutex' = mutex /\ Call("app", "shut", "destroyed")
    BY <1>6 DEF Destroy, Threads
  <2>3. Stacks' /\ Locks'
    <3>1. "shut" \in Labels /\ "destroyed" \in Labels /\ Above("shut", "destroyed")
      BY DEF Labels, Above, Reading, Shutting
    <3>2. (Bottom("app", "destroy") => Bottom("app", "destroyed")) /\ \A y : Above("destroy", y) => Above("destroyed", y)
      BY DEF Bottom, Bases, Above, Reading, Shutting, Threads
    <3>3. /\ "destroy" \notin Holders \/ mutex = "none"
          /\ "shut" \notin Locked /\ ("destroy" \in Locked <=> "destroyed" \in Locked) /\ ("destroyed" \in Locked => "shut" \in Holders)
      BY DEF Holders, Locked
    <3> QED BY <2>2, <3>1, <3>2, <3>3, CallAt
  <2> QED BY <2>1, <2>3
<1>7. CASE Destroyed
  <2>1. Rest'
    BY <1>7, ShutdownStates DEF Rest, Destroyed
  <2>2. At("app", "destroyed") /\ "app" \in Threads /\ mutex' = mutex /\ Goto("app", "notify")
    BY <1>7 DEF Destroyed, Threads
  <2>3. Stacks' /\ Locks'
    BY <2>2, Position, GotoKeeps DEF Labels, Above, Bottom, Bases, Reading, Shutting, Holders, Locked, Threads, LockInv, Within
  <2> QED BY <2>1, <2>3
<1>8. CASE NotifyAndDisconnect
  <2>1. Rest'
    BY <1>8, ShutdownStates DEF Rest, NotifyAndDisconnect
  <2>2. At("app", "notify") /\ "app" \in Threads /\ mutex' = mutex /\ Call("app", "disconnect", "unregistered")
    BY <1>8 DEF NotifyAndDisconnect, Threads
  <2>3. Stacks' /\ Locks'
    <3>1. "disconnect" \in Labels /\ "unregistered" \in Labels /\ Above("disconnect", "unregistered")
      BY DEF Labels, Above, Reading, Shutting
    <3>2. (Bottom("app", "notify") => Bottom("app", "unregistered")) /\ \A y : Above("notify", y) => Above("unregistered", y)
      BY DEF Bottom, Bases, Above, Reading, Shutting, Threads
    <3>3. /\ "notify" \notin Holders \/ mutex = "none"
          /\ "disconnect" \notin Locked /\ ("notify" \in Locked <=> "unregistered" \in Locked) /\ ("unregistered" \in Locked => "disconnect" \in Holders)
      BY DEF Holders, Locked
    <3> QED BY <2>2, <3>1, <3>2, <3>3, CallAt
  <2> QED BY <2>1, <2>3
<1>9. CASE MsgChannelReceiveFunc
  <2>1. Rest'
    BY <1>9 DEF Rest, MsgChannelReceiveFunc
  <2>2. At("msg", "loop") /\ "msg" \in Threads /\ mutex' = mutex
    BY <1>9 DEF MsgChannelReceiveFunc, Threads
  <2>3. CASE Call("msg", "read", "loop")
    <3>1. Stacks' /\ Locks'
      <4>1. "read" \in Labels /\ "loop" \in Labels /\ Above("read", "loop")
        BY DEF Labels, Above, Reading, Shutting
      <4>2. (Bottom("msg", "loop") => Bottom("msg", "loop")) /\ \A y : Above("loop", y) => Above("loop", y)
        BY DEF Bottom, Bases, Above, Reading, Shutting, Threads
      <4>3. /\ "loop" \notin Holders \/ mutex = "none"
            /\ "read" \notin Locked /\ ("loop" \in Locked <=> "loop" \in Locked) /\ ("loop" \in Locked => "read" \in Holders)
        BY DEF Holders, Locked
      <4> QED BY <2>2, <2>3, <4>1, <4>2, <4>3, CallAt
    <3> QED BY <2>1, <3>1
  <2>4. CASE Return("msg")
    <3>1. Stacks' /\ Locks'
      BY <2>2, <2>4, Position, ReturnKeeps DEF Labels, Above, Bottom, Bases, Reading, Shutting, Holders, Locked, Threads, Within
    <3> QED BY <2>1, <3>1
  <2> QED BY <1>9, <2>3, <2>4 DEF MsgChannelReceiveFunc
<1> QED BY <1>1, <1>2, <1>3, <1>4, <1>5, <1>6, <1>7, <1>8, <1>9 DEF Unregistering

LEMMA ThreadLock ==
    ASSUME LockInv, NEW t \in Threads, Step(t) \/ ReceiveLocked(t) \/ AnswerFails(t) \/ UpdateFails(t)
    PROVE  LockInv'
<1> USE DEF LockInv
<1>1. CASE HandleReceivedSessionMessage(t)
  <2>1. Rest'
    BY <1>1, CreateStates DEF Rest, HandleReceivedSessionMessage, SessionStates
  <2>2. At(t, "handle") /\ mutex' = mutex
    BY <1>1 DEF HandleReceivedSessionMessage
  <2>3. Goto(t, "handled")
    BY <1>1 DEF HandleReceivedSessionMessage
  <2>4. Stacks' /\ Locks'
    BY <2>2, <2>3, Position, GotoKeeps DEF Labels, Above, Bottom, Bases, Reading, Shutting, Holders, Locked, Threads, Within
  <2> QED BY <2>1, <2>4
<1>2. CASE HandleClientDisconnection(t)
  <2>1. Rest'
    BY <1>2, ShutdownStates DEF Rest, HandleClientDisconnection
  <2>2. At(t, "handle") /\ mutex' = mutex
    BY <1>2 DEF HandleClientDisconnection
  <2>3. Goto(t, "handled")
    BY <1>2 DEF HandleClientDisconnection
  <2>4. Stacks' /\ Locks'
    BY <2>2, <2>3, Position, GotoKeeps DEF Labels, Above, Bottom, Bases, Reading, Shutting, Holders, Locked, Threads, Within
  <2> QED BY <2>1, <2>4
<1>3. CASE Handled(t)
  <2>1. Rest'
    BY <1>3 DEF Rest, Handled
  <2>2. At(t, "handled") /\ mutex' = "none"
    BY <1>3 DEF Handled
  <2>3. Goto(t, "read")
    BY <1>3 DEF Handled
  <2>4. Stacks' /\ Locks'
    BY <2>2, <2>3, Position, GotoKeeps DEF Labels, Above, Bottom, Bases, Reading, Shutting, Holders, Locked, Threads, Within
  <2> QED BY <2>1, <2>4
<1>4. CASE ReadDone(t)
  <2>1. Rest'
    BY <1>4 DEF Rest, ReadDone
  <2>2. At(t, "read") /\ mutex' = mutex
    BY <1>4 DEF ReadDone
  <2>3. CASE Goto(t, "update")
    <3>1. Stacks' /\ Locks'
      BY <2>2, <2>3, Position, GotoKeeps DEF Labels, Above, Bottom, Bases, Reading, Shutting, Holders, Locked, Threads, Within
    <3> QED BY <2>1, <3>1
  <2>4. CASE Call(t, "disconnect", "update")
    <3>1. Stacks' /\ Locks'
      <4>1. "disconnect" \in Labels /\ "update" \in Labels /\ Above("disconnect", "update")
        BY DEF Labels, Above, Reading, Shutting
      <4>2. (Bottom(t, "read") => Bottom(t, "update")) /\ \A y : Above("read", y) => Above("update", y)
        BY DEF Bottom, Bases, Above, Reading, Shutting, Threads
      <4>3. /\ "read" \notin Holders \/ mutex = "none"
            /\ "disconnect" \notin Locked /\ ("read" \in Locked <=> "update" \in Locked) /\ ("update" \in Locked => "disconnect" \in Holders)
        BY DEF Holders, Locked
      <4> QED BY <2>2, <2>4, <4>1, <4>2, <4>3, CallAt
    <3> QED BY <2>1, <3>1
  <2> QED BY <1>4, <2>3, <2>4 DEF ReadDone
<1>5. CASE UpdateSessions(t)
  <2>1. Rest'
    BY <1>5 DEF Rest, UpdateSessions
  <2>2. At(t, "update") /\ mutex = "none" /\ mutex' = t
    BY <1>5 DEF UpdateSessions
  <2>3. Goto(t, "updating")
    BY <1>5 DEF UpdateSessions
  <2>4. Stacks' /\ Locks'
    BY <2>2, <2>3, Position, GotoKeeps DEF Labels, Above, Bottom, Bases, Reading, Shutting, Holders, Locked, Threads, Within
  <2> QED BY <2>1, <2>4
<1>6. CASE SessionsUpdated(t)
  <2>1. Rest'
    BY <1>6 DEF Rest, SessionsUpdated, SessionStates
  <2>2. At(t, "updating") /\ mutex' = "none"
    BY <1>6 DEF SessionsUpdated
  <2>3. Return(t)
    BY <1>6 DEF SessionsUpdated
  <2>4. Len(stack[t]) > 1 /\ (mutex' = t <=> Within(stack[t])) /\ \A u \in Threads \ {t} : mutex' = u <=> mutex = u
    BY <2>2, Called, Position DEF Bases, Locked, Threads, Above, Shutting, Reading, Within, Holders
  <2>5. Stacks' /\ Locks'
    BY <2>2, <2>3, <2>4, Position, ReturnKeeps
  <2> QED BY <2>1, <2>5
<1>7. CASE Disconnect(t)
  <2>1. Rest'
    BY <1>7 DEF Rest, Disconnect
  <2>2. At(t, "disconnect") /\ mutex' = mutex
    BY <1>7 DEF Disconnect
  <2>3. CASE Goto(t, "shut")
    <3>1. Stacks' /\ Locks'
      BY <2>2, <2>3, Position, GotoKeeps DEF Labels, Above, Bottom, Bases, Reading, Shutting, Holders, Locked, Threads, Within
    <3> QED BY <2>1, <3>1
  <2>4. CASE Return(t)
    <3>1. Len(stack[t]) > 1 /\ (mutex' = t <=> Within(stack[t]))
      BY <2>2, Called, Position DEF Bases, Locked
    <3>2. Stacks' /\ Locks'
      BY <2>2, <2>4, <3>1, Position, ReturnKeeps
    <3> QED BY <2>1, <3>2
  <2> QED BY <1>7, <2>3, <2>4 DEF Disconnect
<1>8. CASE ShutDownAllSessions(t)
  <2>1. Rest'
    BY <1>8 DEF Rest, ShutDownAllSessions
  <2>2. At(t, "shut") /\ mutex' = mutex
    BY <1>8 DEF ShutDownAllSessions
  <2>3. CASE Return(t)
    <3>1. Len(stack[t]) > 1 /\ (mutex' = t <=> Within(stack[t]))
      BY <2>2, Called, Position DEF Bases, Locked
    <3>2. Stacks' /\ Locks'
      BY <2>2, <2>3, <3>1, Position, ReturnKeeps
    <3> QED BY <2>1, <3>2
  <2>4. CASE Goto(t, "graceful")
    <3>1. Stacks' /\ Locks'
      BY <2>2, <2>4, Position, GotoKeeps DEF Labels, Above, Bottom, Bases, Reading, Shutting, Holders, Locked, Threads, Within
    <3> QED BY <2>1, <3>1
  <2>5. CASE Goto(t, "check")
    <3>1. Stacks' /\ Locks'
      BY <2>2, <2>5, Position, GotoKeeps DEF Labels, Above, Bottom, Bases, Reading, Shutting, Holders, Locked, Threads, Within
    <3> QED BY <2>1, <3>1
  <2> QED BY <1>8, <2>3, <2>4, <2>5 DEF ShutDownAllSessions
<1>9. CASE Graceful(t)
  <2>1. Rest'
    BY <1>9, ShutdownStates DEF Rest, Graceful
  <2>2. At(t, "graceful") /\ mutex = "none" /\ mutex' = mutex
    BY <1>9 DEF Graceful
  <2>3. Goto(t, "wait")
    BY <1>9 DEF Graceful
  <2>4. Stacks' /\ Locks'
    BY <2>2, <2>3, Position, GotoKeeps DEF Labels, Above, Bottom, Bases, Reading, Shutting, Holders, Locked, Threads, Within
  <2> QED BY <2>1, <2>4
<1>10. CASE WaitForSessions(t)
  <2>1. Rest'
    BY <1>10 DEF Rest, WaitForSessions
  <2>2. At(t, "wait") /\ mutex' = mutex
    BY <1>10 DEF WaitForSessions
  <2>3. CASE Goto(t, "check")
    <3>1. Stacks' /\ Locks'
      BY <2>2, <2>3, Position, GotoKeeps DEF Labels, Above, Bottom, Bases, Reading, Shutting, Holders, Locked, Threads, Within
    <3> QED BY <2>1, <3>1
  <2>4. CASE Call(t, "read", "waited")
    <3>1. Stacks' /\ Locks'
      <4>1. "read" \in Labels /\ "waited" \in Labels /\ Above("read", "waited")
        BY DEF Labels, Above, Reading, Shutting
      <4>2. (Bottom(t, "wait") => Bottom(t, "waited")) /\ \A y : Above("wait", y) => Above("waited", y)
        BY DEF Bottom, Bases, Above, Reading, Shutting, Threads
      <4>3. /\ "wait" \notin Holders \/ mutex = "none"
            /\ "read" \notin Locked /\ ("wait" \in Locked <=> "waited" \in Locked) /\ ("waited" \in Locked => "read" \in Holders)
        BY DEF Holders, Locked
      <4> QED BY <2>2, <2>4, <4>1, <4>2, <4>3, CallAt
    <3> QED BY <2>1, <3>1
  <2> QED BY <1>10, <2>3, <2>4 DEF WaitForSessions
<1>11. CASE WaitAgain(t)
  <2>1. Rest'
    BY <1>11 DEF Rest, WaitAgain
  <2>2. At(t, "waited") /\ mutex' = mutex
    BY <1>11 DEF WaitAgain
  <2>3. Goto(t, "wait")
    BY <1>11 DEF WaitAgain
  <2>4. Stacks' /\ Locks'
    BY <2>2, <2>3, Position, GotoKeeps DEF Labels, Above, Bottom, Bases, Reading, Shutting, Holders, Locked, Threads, Within
  <2> QED BY <2>1, <2>4
<1>12. CASE GiveUp(t)
  <2>1. Rest'
    BY <1>12 DEF Rest, GiveUp
  <2>2. At(t, "waited") /\ mutex' = mutex
    BY <1>12 DEF GiveUp
  <2>3. Goto(t, "check")
    BY <1>12 DEF GiveUp
  <2>4. Stacks' /\ Locks'
    BY <2>2, <2>3, Position, GotoKeeps DEF Labels, Above, Bottom, Bases, Reading, Shutting, Holders, Locked, Threads, Within
  <2> QED BY <2>1, <2>4
<1>13. CASE CheckSessions(t)
  <2>1. Rest'
    BY <1>13 DEF Rest, CheckSessions
  <2>2. At(t, "check") /\ mutex' = mutex
    BY <1>13 DEF CheckSessions
  <2>3. CASE Goto(t, "end")
    <3>1. Stacks' /\ Locks'
      BY <2>2, <2>3, Position, GotoKeeps DEF Labels, Above, Bottom, Bases, Reading, Shutting, Holders, Locked, Threads, Within
    <3> QED BY <2>1, <3>1
  <2>4. CASE Goto(t, "force")
    <3>1. Stacks' /\ Locks'
      BY <2>2, <2>4, Position, GotoKeeps DEF Labels, Above, Bottom, Bases, Reading, Shutting, Holders, Locked, Threads, Within
    <3> QED BY <2>1, <3>1
  <2> QED BY <1>13, <2>3, <2>4 DEF CheckSessions
<1>14. CASE ForceShutdown(t)
  <2>1. Rest'
    BY <1>14, ShutdownStates DEF Rest, ForceShutdown
  <2>2. At(t, "force") /\ mutex = "none" /\ mutex' = mutex
    BY <1>14 DEF ForceShutdown
  <2>3. Call(t, "update", "end")
    BY <1>14 DEF ForceShutdown
  <2>4. Stacks' /\ Locks'
    <3>1. "update" \in Labels /\ "end" \in Labels /\ Above("update", "end")
      BY DEF Labels, Above, Reading, Shutting
    <3>2. (Bottom(t, "force") => Bottom(t, "end")) /\ \A y : Above("force", y) => Above("end", y)
      BY DEF Bottom, Bases, Above, Reading, Shutting, Threads
    <3>3. /\ "force" \notin Holders \/ mutex = "none"
          /\ "update" \notin Locked /\ ("force" \in Locked <=> "end" \in Locked) /\ ("end" \in Locked => "update" \in Holders)
      BY <2>2 DEF Holders, Locked
    <3> QED BY <2>2, <2>3, <3>1, <3>2, <3>3, CallAt
  <2> QED BY <2>1, <2>4
<1>15. CASE ShutDownDone(t)
  <2>1. Rest'
    BY <1>15 DEF Rest, ShutDownDone
  <2>2. At(t, "end") /\ mutex' = mutex
    BY <1>15 DEF ShutDownDone
  <2>3. Return(t)
    BY <1>15 DEF ShutDownDone
  <2>4. Len(stack[t]) > 1 /\ (mutex' = t <=> Within(stack[t])) /\ \A u \in Threads \ {t} : mutex' = u <=> mutex = u
    BY <2>2, Called, Position DEF Bases, Locked, Threads, Above, Shutting, Reading, Within, Holders
  <2>5. Stacks' /\ Locks'
    BY <2>2, <2>3, <2>4, Position, ReturnKeeps
  <2> QED BY <2>1, <2>5
<1>16. CASE ReceiveLocked(t)
  <2>1. Rest'
    BY <1>16 DEF Rest, ReceiveLocked
  <2>2. At(t, "read") /\ mutex = "none" /\ mutex' = t
    BY <1>16 DEF ReceiveLocked
  <2>3. Goto(t, "handle")
    BY <1>16 DEF ReceiveLocked
  <2>4. Stacks' /\ Locks'
    BY <2>2, <2>3, Position, GotoKeeps DEF Labels, Above, Bottom, Bases, Reading, Shutting, Holders, Locked, Threads, Within
  <2> QED BY <2>1, <2>4
<1>17. CASE AnswerFails(t)
  <2>1. Rest'
    BY <1>17 DEF Rest, AnswerFails
  <2>2. At(t, "handled") /\ mutex' = mutex
    BY <1>17 DEF AnswerFails
  <2>3. Call(t, "disconnect", "handled")
    BY <1>17 DEF AnswerFails
  <2>4. Stacks' /\ Locks'
    <3>1. "disconnect" \in Labels /\ "handled" \in Labels /\ Above("disconnect", "handled")
      BY DEF Labels, Above, Reading, Shutting
    <3>2. (Bottom(t, "handled") => Bottom(t, "handled")) /\ \A y : Above("handled", y) => Above("handled", y)
      BY DEF Bottom, Bases, Above, Reading, Shutting, Threads
    <3>3. /\ "handled" \notin Holders \/ mutex = "none"
          /\ "disconnect" \notin Locked /\ ("handled" \in Locked <=> "handled" \in Locked) /\ ("handled" \in Locked => "disconnect" \in Holders)
      BY DEF Holders, Locked
    <3> QED BY <2>2, <2>3, <3>1, <3>2, <3>3, CallAt
  <2> QED BY <2>1, <2>4
<1>18. CASE UpdateFails(t)
  <2>1. Rest'
    BY <1>18 DEF Rest, UpdateFails
  <2>2. At(t, "updating") /\ mutex' = mutex
    BY <1>18 DEF UpdateFails
  <2>3. Call(t, "disconnect", "updating")
    BY <1>18 DEF UpdateFails
  <2>4. Stacks' /\ Locks'
    <3>1. "disconnect" \in Labels /\ "updating" \in Labels /\ Above("disconnect", "updating")
      BY DEF Labels, Above, Reading, Shutting
    <3>2. (Bottom(t, "updating") => Bottom(t, "updating")) /\ \A y : Above("updating", y) => Above("updating", y)
      BY DEF Bottom, Bases, Above, Reading, Shutting, Threads
    <3>3. /\ "updating" \notin Holders \/ mutex = "none"
          /\ "disconnect" \notin Locked /\ ("updating" \in Locked <=> "updating" \in Locked) /\ ("updating" \in Locked => "disconnect" \in Holders)
      BY DEF Holders, Locked
    <3> QED BY <2>2, <2>3, <3>1, <3>2, <3>3, CallAt
  <2> QED BY <2>1, <2>4
<1> QED BY <1>1, <1>2, <1>3, <1>4, <1>5, <1>6, <1>7, <1>8, <1>9, <1>10, <1>11, <1>12, <1>13, <1>14, <1>15, <1>16, <1>17, <1>18 DEF Step

LEMMA InitLock ==
    ASSUME Init
    PROVE  LockInv
<1>1. Rest
  <2>1. session \in [SessionIds -> SessionStates] /\ mutex \in Threads \cup {"none"}
    BY DEF Init, SessionStates
  <2>2. registrations \in 0..MaxRegistrations /\ created \in 0..MaxSessions
    BY ChannelAssumption DEF Init
  <2> QED BY <2>1, <2>2 DEF Init, Rest
<1>2. stack = [t \in Threads |-> stack[t]] /\ stack["app"] = <<"unregistered">> /\ stack["msg"] = <<>> /\ mutex = "none"
  BY DEF Init, Threads
<1>3. WellFormed("app", <<"unregistered">>) /\ Shallow(<<"unregistered">>) /\ ~Holds(<<"unregistered">>)
  BY DEF WellFormed, Shallow, Holds, Locked, Labels, Bases
<1>4. WellFormed("msg", <<>>) /\ Shallow(<<>>) /\ ~Holds(<<>>)
  BY DEF WellFormed, Shallow, Holds
<1> QED BY <1>1, <1>2, <1>3, <1>4 DEF LockInv, Stacks, Locks, Threads

LEMMA NextLock ==
    ASSUME LockInv, [Next]_vars
    PROVE  LockInv'
<1>1. CASE UNCHANGED vars
  BY <1>1 DEF LockInv, Rest, Stacks, Locks, vars
<1> QED BY <1>1, AppLock, ThreadLock DEF Next

LEMMA LockedFits ==
    ASSUME LockInv
    PROVE  TypeOK
<1>1. ASSUME NEW t \in Threads
      PROVE  Holds(stack[t]) <=> \E i \in 1 .. Len(stack[t]) : stack[t][i] \in Locked
  <2>1. stack[t] \in Seq(Labels) /\ Shallow(stack[t])
    BY DEF LockInv, Stacks, Locks, WellFormed
  <2>2. Len(stack[t]) \in Nat /\ (stack[t] = <<>> <=> Len(stack[t]) = 0)
    BY <2>1
  <2> QED BY <2>1, <2>2 DEF Holds, Shallow
<1>2. stack \in [Threads -> Seq(Labels)] /\ stack["app"] # <<>>
  BY DEF LockInv, Stacks, WellFormed, Threads
<1> QED BY <1>1, <1>2 DEF LockInv, Rest, Locks, Locked, TypeOK

(***************************************************************************)
(* Every thread that holds m_sessionMutex is inside a function that will   *)
(* release it, and nobody else thinks to hold it: for any number of        *)
(* sessions and of failures, a join that times out included.               *)
(***************************************************************************)
THEOREM ChannelTypeCorrect == Spec => []TypeOK
<1>1. Init => LockInv
  BY InitLock
<1>2. LockInv /\ [Next]_vars => LockInv'
  BY NextLock
<1>3. LockInv => TypeOK
  BY LockedFits
<1> QED BY <1>1, <1>2, <1>3, PTL DEF Spec

-----------------------------------------------------------------------------
(***************************************************************************)
(* What Goto, Call and Return leave of the stacks.                         *)
(***************************************************************************)
LEMMA GotoShape ==
    ASSUME Stacks, NEW t \in Threads, stack[t] # <<>>, NEW l \in Labels, Goto(t, l)
    PROVE  /\ Len(stack'[t]) = Len(stack[t]) /\ Len(stack[t]) \in Nat \ {0}
           /\ stack'[t] # <<>> /\ stack'[t][1] = l
           /\ \A i \in 2 .. Len(stack[t]) : stack'[t][i] = stack[t][i]
           /\ \A u \in Threads \ {t} : stack'[u] = stack[u]
<1>1. stack'[t] = <<l>> \o Tail(stack[t]) /\ \A u \in Threads \ {t} : stack'[u] = stack[u]
  BY DEF Stacks, Goto
<1>2. stack[t] \in Seq(Labels)
  BY DEF Stacks, WellFormed
<1> QED BY <1>1, <1>2, Going, Returning

LEMMA CallShape ==
    ASSUME Stacks, NEW t \in Threads, stack[t] # <<>>, NEW l \in Labels, NEW r \in Labels, Call(t, l, r)
    PROVE  /\ Len(stack'[t]) = Len(stack[t]) + 1 /\ Len(stack[t]) \in Nat \ {0}
           /\ stack'[t] # <<>> /\ stack'[t][1] = l /\ stack'[t][2] = r
           /\ \A i \in 3 .. Len(stack[t]) + 1 : stack'[t][i] = stack[t][i - 1]
           /\ \A u \in Threads \ {t} : stack'[u] = stack[u]
<1>1. stack'[t] = <<l, r>> \o Tail(stack[t]) /\ \A u \in Threads \ {t} : stack'[u] = stack[u]
  BY DEF Stacks, Call
<1>2. stack[t] \in Seq(Labels)
  BY DEF Stacks, WellFormed
<1> QED BY <1>1, <1>2, Calling, Returning

LEMMA ReturnShape ==
    ASSUME Stacks, NEW t \in Threads, stack[t] # <<>>, Return(t)
    PROVE  /\ Len(stack'[t]) = Len(stack[t]) - 1 /\ Len(stack[t]) \in Nat \ {0}
           /\ \A i \in 1 .. Len(stack[t]) - 1 : stack'[t][i] = stack[t][i + 1]
           /\ \A u \in Threads \ {t} : stack'[u] = stack[u]
<1>1. stack'[t] = Tail(stack[t]) /\ \A u \in Threads \ {t} : stack'[u] = stack[u]
  BY DEF Stacks, Return
<1>2. stack[t] \in Seq(Labels)
  BY DEF Stacks, WellFormed
<1> QED BY <1>1, <1>2, Returning

-----------------------------------------------------------------------------
(***************************************************************************)
(* Only Destroy waits.                                                     *)
(***************************************************************************)
LEMMA PlainKeeps ==
    ASSUME NEW x, NEW y, NEW c, NEW d, Plain(x, y, c), d => c
    PROVE  Plain(x, y, d)
BY DEF Plain

LEMMA GotoPlain ==
    ASSUME Stacks, WaitIsInDestroy, NEW t \in Threads, stack[t] # <<>>, NEW l \in Labels, Goto(t, l),
           connected' => connected, Len(stack[t]) > 1 => Plain(l, stack[t][2], connected')
    PROVE  WaitIsInDestroy'
<1> SUFFICES ASSUME NEW u \in Threads, NEW i \in 1 .. Len(stack'[u]) - 1
             PROVE  Plain(stack'[u][i], stack'[u][i + 1], connected')
  BY DEF WaitIsInDestroy
<1>1. CASE u # t
  BY <1>1, GotoShape, PlainKeeps DEF WaitIsInDestroy
<1>2. CASE u = t /\ i = 1
  BY <1>2, GotoShape
<1>3. CASE u = t /\ i # 1
  <2>1. i \in 1 .. Len(stack[u]) - 1 /\ i \in 2 .. Len(stack[u]) /\ i + 1 \in 2 .. Len(stack[u])
    BY <1>3, GotoShape
  <2>2. Plain(stack[u][i], stack[u][i + 1], connected)
    BY <2>1 DEF WaitIsInDestroy
  <2> QED BY <1>3, <2>1, <2>2, GotoShape, PlainKeeps
<1> QED BY <1>1, <1>2, <1>3

LEMMA CallPlain ==
    ASSUME Stacks, WaitIsInDestroy, NEW t \in Threads, stack[t] # <<>>, NEW l \in Labels, NEW r \in Labels,
           Call(t, l, r), connected' => connected, Plain(l, r, connected'),
           Len(stack[t]) > 1 => Plain(r, stack[t][2], connected')
    PROVE  WaitIsInDestroy'
<1> SUFFICES ASSUME NEW u \in Threads, NEW i \in 1 .. Len(stack'[u]) - 1
             PROVE  Plain(stack'[u][i], stack'[u][i + 1], connected')
  BY DEF WaitIsInDestroy
<1>1. CASE u # t
  BY <1>1, CallShape, PlainKeeps DEF WaitIsInDestroy
<1>2. CASE u = t /\ i = 1
  BY <1>2, CallShape
<1>3. CASE u = t /\ i = 2
  BY <1>3, CallShape
<1>4. CASE u = t /\ i > 2
  <2>1. i - 1 \in 1 .. Len(stack[u]) - 1 /\ i \in 3 .. Len(stack[u]) + 1 /\ i + 1 \in 3 .. Len(stack[u]) + 1
        /\ (i - 1) + 1 = i /\ (i + 1) - 1 = i
    <3>1. Len(stack'[u]) = Len(stack[u]) + 1 /\ Len(stack[u]) \in Nat
      BY <1>4, CallShape
    <3>2. i \in 1 .. (Len(stack[u]) + 1) - 1 /\ i > 2
      BY <1>4, <3>1
    <3>3. \A n \in Nat : \A k \in 1 .. (n + 1) - 1 : k > 2 =>
             k - 1 \in 1 .. n - 1 /\ k \in 3 .. n + 1 /\ k + 1 \in 3 .. n + 1 /\ (k - 1) + 1 = k /\ (k + 1) - 1 = k
      OBVIOUS
    <3> QED BY <3>1, <3>2, <3>3
  <2>2. Plain(stack[u][i - 1], stack[u][i], connected)
    BY <2>1 DEF WaitIsInDestroy
  <2> QED BY <1>4, <2>1, <2>2, CallShape, PlainKeeps
<1> QED BY <1>1, <1>2, <1>3, <1>4

LEMMA ReturnPlain ==
    ASSUME Stacks, WaitIsInDestroy, NEW t \in Threads, stack[t] # <<>>, Return(t), connected' => connected
    PROVE  WaitIsInDestroy'
<1> SUFFICES ASSUME NEW u \in Threads, NEW i \in 1 .. Len(stack'[u]) - 1
             PROVE  Plain(stack'[u][i], stack'[u][i + 1], connected')
  BY DEF WaitIsInDestroy
<1>1. CASE u # t
  BY <1>1, ReturnShape, PlainKeeps DEF WaitIsInDestroy
<1>2. CASE u = t
  <2>1. i \in 1 .. Len(stack[u]) - 1 /\ i + 1 \in 1 .. Len(stack[u]) - 1
    BY <1>2, ReturnShape
  <2>2. Plain(stack[u][i + 1], stack[u][(i + 1) + 1], connected)
    BY <2>1 DEF WaitIsInDestroy
  <2> QED BY <1>2, <2>1, <2>2, ReturnShape, PlainKeeps
<1> QED BY <1>1, <1>2

\* What the position of a thread says of where it returns to.
LEMMA PlainTop ==
    ASSUME Stacks, Locks, WaitIsInDestroy, NEW t \in Threads, NEW x, At(t, x)
    PROVE  Len(stack[t]) > 1 => Plain(x, stack[t][2], connected)
<1>1. stack[t][1] = x /\ Len(stack[t]) \in Nat
  BY Position
<1> QED BY <1>1 DEF WaitIsInDestroy

LEMMA AppWaits ==
    ASSUME LockInv, ThreadIsJoined, WaitIsInDestroy,
           Register \/ EstablishSessionForClient \/ Unregister \/ Unregistering \/ MsgChannelReceiveFunc
    PROVE  WaitIsInDestroy'
<1> USE DEF LockInv
<1>1. CASE Register
  <2>1. At("app", "unregistered") /\ "app" \in Threads
    BY <1>1 DEF Register, Threads
  <2>2. stack["msg"] = <<>>
    BY <2>1, Position DEF ThreadIsJoined
  <2>3. Len(stack'["app"]) = 1 /\ (stack'["msg"] = <<>> \/ Len(stack'["msg"]) = 1)
    BY <1>1, <2>2 DEF Register
  <2>4. Len(<<>>) = 0
    OBVIOUS
  <2>5. \A t \in Threads : 1 .. Len(stack'[t]) - 1 = {}
    <3>1. \A t \in Threads : Len(stack'[t]) \in {0, 1}
      BY <2>3, <2>4 DEF Threads
    <3>2. \A k \in {0, 1} : 1 .. k - 1 = {}
      OBVIOUS
    <3> QED BY <3>1, <3>2
  <2> QED BY <2>5 DEF WaitIsInDestroy
<1>2. CASE EstablishSessionForClient
  BY <1>2 DEF EstablishSessionForClient, WaitIsInDestroy
<1>3. CASE Unregister
  <2>1. At("app", "registered") /\ "app" \in Threads /\ connected' = connected /\ Goto("app", "join")
    BY <1>3 DEF Unregister, Threads
  <2> QED BY <2>1, Position, GotoPlain DEF Labels, Plain, Above, Reading, Shutting
<1>4. CASE Join
  <2>1. At("app", "join") /\ "app" \in Threads /\ connected' = connected /\ Goto("app", "servers")
    BY <1>4 DEF Join, Threads
  <2> QED BY <2>1, Position, GotoPlain DEF Labels, Plain, Above, Reading, Shutting
<1>5. CASE UnregisterServers
  <2>1. At("app", "servers") /\ "app" \in Threads /\ connected' = connected /\ Goto("app", "destroy")
    BY <1>5 DEF UnregisterServers, Threads
  <2> QED BY <2>1, Position, GotoPlain DEF Labels, Plain, Above, Reading, Shutting
<1>6. CASE Destroy
  <2>1. At("app", "destroy") /\ "app" \in Threads /\ connected' = connected /\ Call("app", "shut", "destroyed")
    BY <1>6 DEF Destroy, Threads
  <2> QED BY <2>1, Position, CallPlain DEF Labels, Plain, Above, Reading, Shutting
<1>7. CASE Destroyed
  <2>1. At("app", "destroyed") /\ "app" \in Threads /\ connected' = connected /\ Goto("app", "notify")
    BY <1>7 DEF Destroyed, Threads
  <2> QED BY <2>1, Position, GotoPlain DEF Labels, Plain, Above, Reading, Shutting
<1>8. CASE NotifyAndDisconnect
  <2>1. At("app", "notify") /\ "app" \in Threads /\ connected' = connected /\ Call("app", "disconnect", "unregistered")
    BY <1>8 DEF NotifyAndDisconnect, Threads
  <2> QED BY <2>1, Position, CallPlain DEF Labels, Plain, Above, Reading, Shutting
<1>9. CASE MsgChannelReceiveFunc
  <2>1. At("msg", "loop") /\ "msg" \in Threads /\ connected' = connected
    BY <1>9 DEF MsgChannelReceiveFunc, Threads
  <2>2. CASE Call("msg", "read", "loop")
    BY <2>1, <2>2, Position, CallPlain DEF Labels, Plain
  <2>3. CASE Return("msg")
    BY <2>1, <2>3, Position, ReturnPlain
  <2> QED BY <1>9, <2>2, <2>3 DEF MsgChannelReceiveFunc
<1> QED BY <1>1, <1>2, <1>3, <1>4, <1>5, <1>6, <1>7, <1>8, <1>9 DEF Unregistering

LEMMA ThreadWaits ==
    ASSUME LockInv, WaitIsInDestroy, NEW t \in Threads,
           Step(t) \/ ReceiveLocked(t) \/ AnswerFails(t) \/ UpdateFails(t)
    PROVE  WaitIsInDestroy'
<1> USE DEF LockInv
<1>1. CASE HandleReceivedSessionMessage(t)
  <2>1. At(t, "handle") /\ connected' = connected
    BY <1>1 DEF HandleReceivedSessionMessage
  <2>2. Goto(t, "handled")
    BY <1>1 DEF HandleReceivedSessionMessage
  <2> QED BY <2>1, <2>2, Position, PlainTop, GotoPlain DEF Labels, Plain
<1>2. CASE HandleClientDisconnection(t)
  <2>1. At(t, "handle") /\ connected' = connected
    BY <1>2 DEF HandleClientDisconnection
  <2>2. Goto(t, "handled")
    BY <1>2 DEF HandleClientDisconnection
  <2> QED BY <2>1, <2>2, Position, PlainTop, GotoPlain DEF Labels, Plain
<1>3. CASE Handled(t)
  <2>1. At(t, "handled") /\ connected' = connected
    BY <1>3 DEF Handled
  <2>2. Goto(t, "read")
    BY <1>3 DEF Handled
  <2> QED BY <2>1, <2>2, Position, PlainTop, GotoPlain DEF Labels, Plain
<1>4. CASE ReadDone(t)
  <2>1. At(t, "read") /\ connected' = connected
    BY <1>4 DEF ReadDone
  <2>2. CASE Goto(t, "update")
    BY <2>1, <2>2, Position, PlainTop, GotoPlain DEF Labels, Plain
  <2>3. CASE Call(t, "disconnect", "update")
    BY <2>1, <2>3, Position, PlainTop, CallPlain DEF Labels, Plain
  <2> QED BY <1>4, <2>2, <2>3 DEF ReadDone
<1>5. CASE UpdateSessions(t)
  <2>1. At(t, "update") /\ connected' = connected
    BY <1>5 DEF UpdateSessions
  <2>2. Goto(t, "updating")
    BY <1>5 DEF UpdateSessions
  <2> QED BY <2>1, <2>2, Position, PlainTop, GotoPlain DEF Labels, Plain
<1>6. CASE SessionsUpdated(t)
  <2>1. At(t, "updating") /\ connected' = connected
    BY <1>6 DEF SessionsUpdated
  <2>2. Return(t)
    BY <1>6 DEF SessionsUpdated
  <2> QED BY <2>1, <2>2, Position, PlainTop, ReturnPlain DEF Labels, Plain
<1>7. CASE Disconnect(t)
  <2>1. At(t, "disconnect") /\ ~connected'
    BY <1>7 DEF Disconnect
  <2>2. CASE Goto(t, "shut")
    BY <2>1, <2>2, Position, PlainTop, GotoPlain DEF Labels, Plain
  <2>3. CASE Return(t)
    BY <2>1, <2>3, Position, PlainTop, ReturnPlain DEF Labels, Plain
  <2> QED BY <1>7, <2>2, <2>3 DEF Disconnect
<1>8. CASE ShutDownAllSessions(t)
  <2>1. At(t, "shut") /\ connected' = connected
    BY <1>8 DEF ShutDownAllSessions
  <2>2. CASE Return(t)
    BY <2>1, <2>2, Position, PlainTop, ReturnPlain DEF Labels, Plain
  <2>3. CASE Goto(t, "graceful") /\ connected
    BY <2>1, <2>3, Position, PlainTop, GotoPlain DEF Labels, Plain
  <2>4. CASE Goto(t, "check") /\ ~connected
    BY <2>1, <2>4, Position, PlainTop, GotoPlain DEF Labels, Plain
  <2> QED BY <1>8, <2>2, <2>3, <2>4 DEF ShutDownAllSessions
<1>9. CASE Graceful(t)
  <2>1. At(t, "graceful") /\ connected' = connected
    BY <1>9 DEF Graceful
  <2>2. Goto(t, "wait")
    BY <1>9 DEF Graceful
  <2> QED BY <2>1, <2>2, Position, PlainTop, GotoPlain DEF Labels, Plain
<1>10. CASE WaitForSessions(t)
  <2>1. At(t, "wait") /\ connected' = connected
    BY <1>10 DEF WaitForSessions
  <2>2. CASE Goto(t, "check")
    BY <2>1, <2>2, Position, PlainTop, GotoPlain DEF Labels, Plain
  <2>3. CASE Call(t, "read", "waited")
    BY <2>1, <2>3, Position, PlainTop, CallPlain DEF Labels, Plain
  <2> QED BY <1>10, <2>2, <2>3 DEF WaitForSessions
<1>11. CASE WaitAgain(t)
  <2>1. At(t, "waited") /\ connected' = connected
    BY <1>11 DEF WaitAgain
  <2>2. Goto(t, "wait")
    BY <1>11 DEF WaitAgain
  <2> QED BY <2>1, <2>2, Position, PlainTop, GotoPlain DEF Labels, Plain
<1>12. CASE GiveUp(t)
  <2>1. At(t, "waited") /\ connected' = connected
    BY <1>12 DEF GiveUp
  <2>2. Goto(t, "check")
    BY <1>12 DEF GiveUp
  <2> QED BY <2>1, <2>2, Position, PlainTop, GotoPlain DEF Labels, Plain
<1>13. CASE CheckSessions(t)
  <2>1. At(t, "check") /\ connected' = connected
    BY <1>13 DEF CheckSessions
  <2>2. CASE Goto(t, "end")
    BY <2>1, <2>2, Position, PlainTop, GotoPlain DEF Labels, Plain
  <2>3. CASE Goto(t, "force")
    BY <2>1, <2>3, Position, PlainTop, GotoPlain DEF Labels, Plain
  <2> QED BY <1>13, <2>2, <2>3 DEF CheckSessions
<1>14. CASE ForceShutdown(t)
  <2>1. At(t, "force") /\ connected' = connected
    BY <1>14 DEF ForceShutdown
  <2>2. Call(t, "update", "end")
    BY <1>14 DEF ForceShutdown
  <2> QED BY <2>1, <2>2, Position, PlainTop, CallPlain DEF Labels, Plain
<1>15. CASE ShutDownDone(t)
  <2>1. At(t, "end") /\ connected' = connected
    BY <1>15 DEF ShutDownDone
  <2>2. Return(t)
    BY <1>15 DEF ShutDownDone
  <2> QED BY <2>1, <2>2, Position, PlainTop, ReturnPlain DEF Labels, Plain
<1>16. CASE ReceiveLocked(t)
  <2>1. At(t, "read") /\ connected' = connected
    BY <1>16 DEF ReceiveLocked
  <2>2. Goto(t, "handle")
    BY <1>16 DEF ReceiveLocked
  <2> QED BY <2>1, <2>2, Position, PlainTop, GotoPlain DEF Labels, Plain
<1>17. CASE AnswerFails(t)
  <2>1. At(t, "handled") /\ connected' = connected
    BY <1>17 DEF AnswerFails
  <2>2. Call(t, "disconnect", "handled")
    BY <1>17 DEF AnswerFails
  <2> QED BY <2>1, <2>2, Position, PlainTop, CallPlain DEF Labels, Plain
<1>18. CASE UpdateFails(t)
  <2>1. At(t, "updating") /\ connected' = connected
    BY <1>18 DEF UpdateFails
  <2>2. Call(t, "disconnect", "updating")
    BY <1>18 DEF UpdateFails
  <2> QED BY <2>1, <2>2, Position, PlainTop, CallPlain DEF Labels, Plain
<1> QED BY <1>1, <1>2, <1>3, <1>4, <1>5, <1>6, <1>7, <1>8, <1>9, <1>10, <1>11, <1>12, <1>13, <1>14, <1>15, <1>16, <1>17, <1>18 DEF Step

LEMMA NextWaits ==
    ASSUME LockInv, ThreadIsJoined, WaitIsInDestroy, [Next]_vars
    PROVE  WaitIsInDestroy'
<1>1. CASE UNCHANGED vars
  BY <1>1 DEF WaitIsInDestroy, vars
<1> QED BY <1>1, AppWaits, ThreadWaits DEF Next

-----------------------------------------------------------------------------
(***************************************************************************)
(* The thread that unregisters works alone once it has joined the message  *)
(* thread.                                                                 *)
(***************************************************************************)
\* What one step does to the stack of t: it leaves the other one alone.
LEMMA OneStack ==
    ASSUME Stacks, NEW t \in Threads, Step(t) \/ ReceiveLocked(t) \/ AnswerFails(t) \/ UpdateFails(t)
    PROVE  /\ \A u \in Threads \ {t} : stack'[u] = stack[u]
           /\ stack[t] # <<>> /\ Head(stack[t]) \notin Bases \cup {"loop"}
<1>1. \A u \in Threads \ {t} : stack'[u] = stack[u]
  BY DEF Stacks, Step, HandleReceivedSessionMessage, HandleClientDisconnection, Handled, ReadDone,
         UpdateSessions, SessionsUpdated, Disconnect, ShutDownAllSessions, Graceful, WaitForSessions,
         WaitAgain, GiveUp, CheckSessions, ForceShutdown, ShutDownDone, ReceiveLocked, AnswerFails,
         UpdateFails, Goto, Call, Return
<1>2. stack[t] # <<>> /\ Head(stack[t]) \notin Bases \cup {"loop"}
  BY DEF Step, HandleReceivedSessionMessage, HandleClientDisconnection, Handled, ReadDone,
         UpdateSessions, SessionsUpdated, Disconnect, ShutDownAllSessions, Graceful, WaitForSessions,
         WaitAgain, GiveUp, CheckSessions, ForceShutdown, ShutDownDone, ReceiveLocked, AnswerFails,
         UpdateFails, At, Bases
<1> QED BY <1>1, <1>2

LEMMA AppTop ==
    ASSUME Stacks, Locks
    PROVE  /\ stack["app"] # <<>> /\ stack["app"][1] = Head(stack["app"])
           /\ stack["app"] \in Seq(Labels) /\ Len(stack["app"]) \in Nat \ {0}
<1>1. "app" \in Threads /\ stack["app"] # <<>>
  BY DEF Threads, Stacks, WellFormed
<1>2. At("app", Head(stack["app"]))
  BY <1>1 DEF At
<1> QED BY <1>1, <1>2, Position

LEMMA NextJoined ==
    ASSUME LockInv, ThreadIsJoined, "join_timeout" \notin Faults, [Next]_vars
    PROVE  ThreadIsJoined'
<1> USE DEF LockInv
<1>0. "app" \in Threads /\ "msg" \in Threads
  BY DEF Threads
<1>1. CASE UNCHANGED vars
  BY <1>1 DEF ThreadIsJoined, vars
<1>2. CASE Register
  <2>1. stack'["app"] = <<"registered">>
    BY <1>2 DEF Register
  <2> QED BY <2>1 DEF ThreadIsJoined
<1>3. CASE EstablishSessionForClient
  BY <1>3 DEF EstablishSessionForClient, ThreadIsJoined
<1>4. CASE Unregister
  <2>1. At("app", "registered") /\ Goto("app", "join")
    BY <1>4 DEF Unregister
  <2>2. stack'["app"][1] = "join"
    BY <1>0, <2>1, GotoShape DEF At, Labels
  <2> QED BY <2>2 DEF ThreadIsJoined
<1>5. CASE Unregistering
  <2>1. stack["msg"] = <<>>
    <3>1. CASE Join
      BY <3>1 DEF Join
    <3>2. CASE UnregisterServers \/ Destroy \/ Destroyed \/ NotifyAndDisconnect
      <4>1. stack["app"][1] \in {"servers", "destroy", "destroyed", "notify"}
        BY <3>2, AppTop DEF UnregisterServers, Destroy, Destroyed, NotifyAndDisconnect, At
      <4> QED BY <4>1 DEF ThreadIsJoined
    <3> QED BY <1>5, <3>1, <3>2 DEF Unregistering
  <2>2. stack'["msg"] = stack["msg"]
    BY <1>5, <1>0 DEF Unregistering, Join, UnregisterServers, Destroy, Destroyed, NotifyAndDisconnect,
           Goto, Call, Stacks
  <2> QED BY <2>1, <2>2 DEF ThreadIsJoined
<1>6. CASE MsgChannelReceiveFunc
  <2>1. stack["msg"] # <<>> /\ stack'["app"] = stack["app"]
    BY <1>6, <1>0 DEF MsgChannelReceiveFunc, At, Call, Return, Stacks
  <2> QED BY <2>1 DEF ThreadIsJoined
<1>7. ASSUME NEW t \in Threads, Step(t) \/ ReceiveLocked(t) \/ AnswerFails(t) \/ UpdateFails(t)
      PROVE  ThreadIsJoined'
  <2>1. CASE t = "msg"
    <3>1. stack["msg"] # <<>> /\ stack'["app"] = stack["app"]
      BY <1>0, <1>7, <2>1, OneStack
    <3> QED BY <3>1 DEF ThreadIsJoined
  <2>2. CASE t = "app"
    <3>1. Head(stack["app"]) \notin Bases /\ stack'["msg"] = stack["msg"]
      BY <1>0, <1>7, <2>2, OneStack
    <3>2. stack["msg"] = <<>>
      BY <3>1, AppTop DEF ThreadIsJoined, Bases
    <3> QED BY <3>1, <3>2 DEF ThreadIsJoined
  <2> QED BY <2>1, <2>2 DEF Threads
<1> QED BY <1>1, <1>2, <1>3, <1>4, <1>5, <1>6, <1>7 DEF Next

LEMMA Below ==
    ASSUME NEW k \in Nat \ {0}
    PROVE  /\ k # 1 => 1 \in 1 .. k - 1
           /\ k # 1 /\ k # 2 => 2 \in 1 .. k - 1
           /\ k # 1 /\ k # 2 /\ k # 3 => 3 \in 1 .. k - 1
OBVIOUS

\* Where the thread that unregisters may be reading, and where it may wait.
LEMMA AppReads ==
    ASSUME LockInv, WaitIsInDestroy, stack["app"][1] \in {"read", "handle", "handled"}
    PROVE  Len(stack["app"]) = 3 /\ stack["app"][2] = "waited" /\ stack["app"][3] = "destroyed"
<1> DEFINE s == stack["app"]
<1>1. /\ s \in Seq(Labels) /\ Len(s) \in Nat \ {0} /\ s[Len(s)] \in Bases
      /\ \A i \in 1 .. Len(s) - 1 : Above(s[i], s[i + 1])
      /\ \A i \in 1 .. Len(s) - 1 : Plain(s[i], s[i + 1], connected)
  BY AppTop DEF LockInv, Stacks, WellFormed, Threads, WaitIsInDestroy
<1>2. s[1] \in {"read", "handle", "handled"}
  OBVIOUS
<1> HIDE DEF s
<1>3. Len(s) # 1
  BY <1>1, <1>2 DEF Bases
<1>4. 1 \in 1 .. Len(s) - 1
  BY <1>1, <1>3, Below
<1>5. s[2] \in {"loop", "waited"}
  <2>1. Above(s[1], s[1 + 1])
    BY <1>1, <1>4
  <2> QED BY <2>1, <1>2 DEF Above, Shutting
<1>6. Len(s) # 2
  BY <1>1, <1>5 DEF Bases
<1>7. 2 \in 1 .. Len(s) - 1
  BY <1>1, <1>3, <1>6, Below
<1>8. Above(s[2], s[2 + 1]) /\ Plain(s[2], s[2 + 1], connected)
  BY <1>1, <1>7
<1>9. s[2] = "waited" /\ s[3] = "destroyed"
  BY <1>5, <1>8 DEF Above, Plain, Reading, Shutting
<1>10. Len(s) = 3
  <2>1. SUFFICES ASSUME Len(s) # 3 PROVE FALSE
    OBVIOUS
  <2>2. 3 \in 1 .. Len(s) - 1
    BY <1>1, <1>3, <1>6, <2>1, Below
  <2>3. Above(s[3], s[3 + 1])
    BY <1>1, <2>2
  <2> QED BY <1>9, <2>3 DEF Above, Reading, Shutting
<1> QED BY <1>9, <1>10 DEF s

LEMMA AppCloses ==
    ASSUME LockInv, WaitIsInDestroy, stack["app"][1] \in {"graceful", "wait", "waited"}
    PROVE  Len(stack["app"]) = 2 /\ stack["app"][2] = "destroyed"
<1> DEFINE s == stack["app"]
<1>1. /\ s \in Seq(Labels) /\ Len(s) \in Nat \ {0} /\ s[Len(s)] \in Bases
      /\ \A i \in 1 .. Len(s) - 1 : Above(s[i], s[i + 1])
      /\ \A i \in 1 .. Len(s) - 1 : Plain(s[i], s[i + 1], connected)
  BY AppTop DEF LockInv, Stacks, WellFormed, Threads, WaitIsInDestroy
<1>2. s[1] \in {"graceful", "wait", "waited"}
  OBVIOUS
<1> HIDE DEF s
<1>3. Len(s) # 1
  BY <1>1, <1>2 DEF Bases
<1>4. 1 \in 1 .. Len(s) - 1
  BY <1>1, <1>3, Below
<1>5. s[2] = "destroyed"
  <2>1. Plain(s[1], s[1 + 1], connected)
    BY <1>1, <1>4
  <2> QED BY <2>1, <1>2 DEF Plain
<1>6. Len(s) = 2
  <2>1. SUFFICES ASSUME Len(s) # 2 PROVE FALSE
    OBVIOUS
  <2>2. 2 \in 1 .. Len(s) - 1
    BY <1>1, <1>3, <2>1, Below
  <2>3. Above(s[2], s[2 + 1])
    BY <1>1, <2>2
  <2> QED BY <1>5, <2>3 DEF Above, Reading, Shutting
<1> QED BY <1>5, <1>6 DEF s

\* A label that nothing runs below is alone on the stack.
LEMMA AppAlone ==
    ASSUME LockInv, stack["app"][1] \in Bases
    PROVE  Len(stack["app"]) = 1
<1>1. /\ Len(stack["app"]) \in Nat \ {0}
      /\ Len(stack["app"]) > 1 => Above(stack["app"][1], stack["app"][2])
  <2>1. "app" \in Threads /\ At("app", stack["app"][1])
    BY AppTop DEF LockInv, At, Threads
  <2> QED BY <2>1, Position DEF LockInv
<1>2. ~(Len(stack["app"]) > 1)
  BY <1>1 DEF Above, Bases, Reading, Shutting
<1>3. \A k \in Nat \ {0} : ~(k > 1) => k = 1
  OBVIOUS
<1> QED BY <1>1, <1>2, <1>3

-----------------------------------------------------------------------------
(***************************************************************************)
(* A channel that is unbound has closed its sessions.                      *)
(***************************************************************************)
LEMMA AppGoes ==
    ASSUME LockInv, NEW l \in Labels, Goto("app", l), Len(stack["app"]) > 1
    PROVE  stack'["app"][1] = l /\ AppBase' = AppBase /\ (Ending' => Ending) /\ Len(stack'["app"]) > 1
           /\ stack'["app"][2] = stack["app"][2]
<1>1. "app" \in Threads /\ stack["app"] # <<>> /\ Len(stack["app"]) \in Nat \ {0}
  BY AppTop DEF Threads, LockInv
<1>2. Len(stack["app"]) \in 2 .. Len(stack["app"]) /\ 2 \in 2 .. Len(stack["app"])
  <2>1. \A k \in Nat \ {0} : k > 1 => k \in 2 .. k /\ 2 \in 2 .. k
    OBVIOUS
  <2> QED BY <1>1, <2>1
<1> QED BY <1>1, <1>2, GotoShape DEF LockInv, AppBase, Ending

LEMMA AppCalls ==
    ASSUME LockInv, NEW l \in Labels, NEW r \in Labels, Call("app", l, r), Len(stack["app"]) > 1
    PROVE  stack'["app"][1] = l /\ AppBase' = AppBase /\ (r # "end" /\ Ending' => Ending)
<1> DEFINE s == stack["app"]
           n == stack'["app"]
<1>1. "app" \in Threads /\ s # <<>> /\ Len(s) \in Nat \ {0}
  BY AppTop DEF Threads, LockInv
<1>2. n[1] = l /\ n[2] = r /\ Len(n) = Len(s) + 1 /\ \A i \in 3 .. Len(s) + 1 : n[i] = s[i - 1]
  BY <1>1, CallShape DEF LockInv
<1>3. Len(s) > 1
  OBVIOUS
<1>4. AppBase = s[Len(s)] /\ AppBase' = n[Len(n)]
  BY DEF AppBase
<1>5. (Ending <=> \E i \in 2 .. Len(s) : s[i] = "end") /\ (Ending' <=> \E i \in 2 .. Len(n) : n[i] = "end")
  BY DEF Ending
<1> HIDE DEF s, n
<1>6. \A k \in Nat \ {0} : k > 1 => k + 1 \in 3 .. k + 1 /\ (k + 1) - 1 = k
  OBVIOUS
<1>7. n[Len(n)] = s[Len(s)]
  BY <1>1, <1>2, <1>3, <1>6
<1>8. ASSUME r # "end", NEW i \in 2 .. Len(n), n[i] = "end" PROVE \E j \in 2 .. Len(s) : s[j] = "end"
  <2>1. i # 2
    BY <1>2, <1>8
  <2>2. i \in 3 .. Len(s) + 1 /\ i - 1 \in 2 .. Len(s)
    BY <1>1, <1>2, <1>8, <2>1
  <2> QED BY <1>2, <1>8, <2>2
<1> QED BY <1>2, <1>4, <1>5, <1>7, <1>8 DEF n

LEMMA AppReturns ==
    ASSUME LockInv, Return("app"), Len(stack["app"]) > 1
    PROVE  stack'["app"][1] = stack["app"][2] /\ AppBase' = AppBase /\ (Ending' => Ending)
           /\ (stack["app"][2] = "end" => Ending)
<1> DEFINE s == stack["app"]
           n == stack'["app"]
<1>1. "app" \in Threads /\ s # <<>> /\ Len(s) \in Nat \ {0}
  BY AppTop DEF Threads, LockInv
<1>2. Len(n) = Len(s) - 1 /\ \A i \in 1 .. Len(s) - 1 : n[i] = s[i + 1]
  BY <1>1, ReturnShape DEF LockInv
<1>3. Len(s) > 1
  OBVIOUS
<1>4. AppBase = s[Len(s)] /\ AppBase' = n[Len(n)]
  BY DEF AppBase
<1>5. (Ending <=> \E i \in 2 .. Len(s) : s[i] = "end") /\ (Ending' <=> \E i \in 2 .. Len(n) : n[i] = "end")
  BY DEF Ending
<1> HIDE DEF s, n
<1>6. \A k \in Nat \ {0} : k > 1 => k - 1 \in 1 .. k - 1 /\ (k - 1) + 1 = k /\ 1 \in 1 .. k - 1 /\ 2 \in 2 .. k
  OBVIOUS
<1>7. n[Len(n)] = s[Len(s)] /\ n[1] = s[2] /\ 2 \in 2 .. Len(s)
  BY <1>1, <1>2, <1>3, <1>6
<1>8. ASSUME NEW i \in 2 .. Len(n), n[i] = "end" PROVE \E j \in 2 .. Len(s) : s[j] = "end"
  <2>1. i \in 1 .. Len(s) - 1 /\ i + 1 \in 2 .. Len(s)
    BY <1>1, <1>2, <1>8
  <2> QED BY <1>2, <1>8, <2>1
<1> QED BY <1>4, <1>5, <1>7, <1>8 DEF n, s

LEMMA UnboundKeeps ==
    ASSUME LockInv, Unbound, bound' = bound, AppBase' = AppBase, connected' => connected,
           ~AppTopIn(Bases), AppTopIn({"disconnect"}) => ~connected',
           ~bound /\ AppTopIn({"notify", "disconnect", "shut"})' => NoneOpen'
    PROVE  Unbound'
BY DEF Unbound, AppTopIn, Bases

\* A channel that is not bound neither reads nor writes under the mutex.
LEMMA UnboundIsQuiet ==
    ASSUME LockInv, WaitIsInDestroy, Unbound, ~bound
    PROVE  ~AppTopIn({"read", "handle", "handled", "graceful", "wait", "waited"})
<1>1. ASSUME AppTopIn({"read", "handle", "handled"}) PROVE FALSE
  <2>1. Len(stack["app"]) = 3 /\ stack["app"][3] = "destroyed"
    BY <1>1, AppReads DEF AppTopIn
  <2> QED BY <2>1 DEF Unbound, AppBase
<1>2. ASSUME AppTopIn({"graceful", "wait", "waited"}) PROVE FALSE
  <2>1. Len(stack["app"]) = 2 /\ stack["app"][2] = "destroyed"
    BY <1>2, AppCloses DEF AppTopIn
  <2> QED BY <2>1 DEF Unbound, AppBase
<1> QED BY <1>1, <1>2 DEF AppTopIn

\* Nothing is open where Destroy reads, waits or closes gracefully, and no end is below.
LEMMA NotEnding ==
    ASSUME LockInv, WaitIsInDestroy, AppTopIn({"read", "handle", "handled", "graceful", "wait", "waited"})
    PROVE  ~Ending
<1>1. CASE AppTopIn({"read", "handle", "handled"})
  <2>1. Len(stack["app"]) = 3 /\ stack["app"][2] = "waited" /\ stack["app"][3] = "destroyed"
    BY <1>1, AppReads DEF AppTopIn
  <2> QED BY <2>1 DEF Ending
<1>2. CASE AppTopIn({"graceful", "wait", "waited"})
  <2>1. Len(stack["app"]) = 2 /\ stack["app"][2] = "destroyed"
    BY <1>2, AppCloses DEF AppTopIn
  <2> QED BY <2>1 DEF Ending
<1> QED BY <1>1, <1>2 DEF AppTopIn

LEMMA ForcedStates ==
    ASSUME session \in [SessionIds -> SessionStates], Shutdown(SessionIds, FALSE)
    PROVE  Forced'
BY DEF Shutdown, ShutdownState, SessionStates, Forced

LEMMA UpdatedStates ==
    ASSUME SessionsUpdated("app")
    PROVE  (Forced => Forced') /\ (Forced => NoneOpen')
<1>1. PICK given : session' = [s \in SessionIds |->
                        IF s \in given \/ session[s] = "closed" THEN "none" ELSE session[s]]
  BY DEF SessionsUpdated
<1> QED BY <1>1 DEF Forced, NoneOpen, Open

LEMMA NoneIsOpen ==
    ASSUME NoSessions
    PROVE  NoneOpen
BY DEF NoSessions, NoneOpen, Open

LEMMA AppStepCloses ==
    ASSUME LockInv, WaitIsInDestroy, Unbound, DestroyCloses,
           Step("app") \/ ReceiveLocked("app") \/ AnswerFails("app") \/ UpdateFails("app")
    PROVE  Unbound' /\ DestroyCloses'
<1>0. "app" \in Threads
  BY DEF Threads
<1>1. CASE HandleReceivedSessionMessage("app")
  <2>1. At("app", "handle") /\ bound' = bound /\ connected' = connected
    BY <1>1 DEF HandleReceivedSessionMessage
  <2>2. Len(stack["app"]) > 1 /\ stack["app"][1] = "handle" /\ Above("handle", stack["app"][2])
    BY <1>0, <2>1, Called, Position DEF LockInv, Bases
  <2>3. Ending => Forced'
    BY <1>0, <2>2, NotEnding DEF AppTopIn
  <2>4. CASE Goto("app", "handled")
    <3>1. stack'["app"][1] = "handled" /\ AppBase' = AppBase /\ (Ending' => Ending)
      BY <2>2, <2>4, AppGoes DEF Labels
    <3>2. stack'["app"][1] \notin {"notify", "disconnect", "shut"}
      BY <3>1
    <3>3. Unbound'
      BY <2>1, <2>2, <3>1, <3>2, UnboundKeeps DEF AppTopIn, Bases
    <3>4. stack'["app"][1] \notin {"destroyed", "end"}
      BY <3>1
    <3> QED BY <2>3, <3>1, <3>3, <3>4 DEF DestroyCloses, AppTopIn
  <2> QED BY <1>1, <2>4 DEF HandleReceivedSessionMessage
<1>2. CASE HandleClientDisconnection("app")
  <2>1. At("app", "handle") /\ bound' = bound /\ connected' = connected
    BY <1>2 DEF HandleClientDisconnection
  <2>2. Len(stack["app"]) > 1 /\ stack["app"][1] = "handle" /\ Above("handle", stack["app"][2])
    BY <1>0, <2>1, Called, Position DEF LockInv, Bases
  <2>3. Ending => Forced'
    BY <1>0, <2>2, NotEnding DEF AppTopIn
  <2>4. CASE Goto("app", "handled")
    <3>1. stack'["app"][1] = "handled" /\ AppBase' = AppBase /\ (Ending' => Ending)
      BY <2>2, <2>4, AppGoes DEF Labels
    <3>2. stack'["app"][1] \notin {"notify", "disconnect", "shut"}
      BY <3>1
    <3>3. Unbound'
      BY <2>1, <2>2, <3>1, <3>2, UnboundKeeps DEF AppTopIn, Bases
    <3>4. stack'["app"][1] \notin {"destroyed", "end"}
      BY <3>1
    <3> QED BY <2>3, <3>1, <3>3, <3>4 DEF DestroyCloses, AppTopIn
  <2> QED BY <1>2, <2>4 DEF HandleClientDisconnection
<1>3. CASE Handled("app")
  <2>1. At("app", "handled") /\ bound' = bound /\ connected' = connected
    BY <1>3 DEF Handled
  <2>2. Len(stack["app"]) > 1 /\ stack["app"][1] = "handled" /\ Above("handled", stack["app"][2])
    BY <1>0, <2>1, Called, Position DEF LockInv, Bases
  <2>3. (Ending => Forced') /\ (NoneOpen => NoneOpen')
    BY <1>3 DEF Handled, DestroyCloses, Forced, NoneOpen, Open
  <2>4. CASE Goto("app", "read")
    <3>1. stack'["app"][1] = "read" /\ AppBase' = AppBase /\ (Ending' => Ending)
      BY <2>2, <2>4, AppGoes DEF Labels
    <3>2. stack'["app"][1] \notin {"notify", "disconnect", "shut"}
      BY <3>1
    <3>3. Unbound'
      BY <2>1, <2>2, <3>1, <3>2, UnboundKeeps DEF AppTopIn, Bases
    <3>4. stack'["app"][1] \notin {"destroyed", "end"}
      BY <3>1
    <3> QED BY <2>3, <3>1, <3>3, <3>4 DEF DestroyCloses, AppTopIn
  <2> QED BY <1>3, <2>4 DEF Handled
<1>4. CASE ReadDone("app")
  <2>1. At("app", "read") /\ bound' = bound /\ connected' = connected
    BY <1>4 DEF ReadDone
  <2>2. Len(stack["app"]) > 1 /\ stack["app"][1] = "read" /\ Above("read", stack["app"][2])
    BY <1>0, <2>1, Called, Position DEF LockInv, Bases
  <2>3. (Ending => Forced') /\ (NoneOpen => NoneOpen')
    BY <1>4 DEF ReadDone, DestroyCloses, Forced, NoneOpen, Open
  <2>4. CASE Goto("app", "update")
    <3>1. stack'["app"][1] = "update" /\ AppBase' = AppBase /\ (Ending' => Ending)
      BY <2>2, <2>4, AppGoes DEF Labels
    <3>2. stack'["app"][1] \notin {"notify", "disconnect", "shut"}
      BY <3>1
    <3>3. Unbound'
      BY <2>1, <2>2, <3>1, <3>2, UnboundKeeps DEF AppTopIn, Bases
    <3>4. stack'["app"][1] \notin {"destroyed", "end"}
      BY <3>1
    <3> QED BY <2>3, <3>1, <3>3, <3>4 DEF DestroyCloses, AppTopIn
  <2>5. CASE Call("app", "disconnect", "update")
    <3>1. stack'["app"][1] = "disconnect" /\ AppBase' = AppBase /\ (Ending' => Ending)
      BY <2>2, <2>5, AppCalls DEF Labels
    <3>2. bound
      BY <2>2, UnboundIsQuiet DEF AppTopIn
    <3>3. Unbound'
      BY <2>1, <2>2, <3>1, <3>2, UnboundKeeps DEF AppTopIn, Bases
    <3>4. stack'["app"][1] \notin {"destroyed", "end"}
      BY <3>1
    <3> QED BY <2>3, <3>1, <3>3, <3>4 DEF DestroyCloses, AppTopIn
  <2> QED BY <1>4, <2>4, <2>5 DEF ReadDone
<1>5. CASE UpdateSessions("app")
  <2>1. At("app", "update") /\ bound' = bound /\ connected' = connected
    BY <1>5 DEF UpdateSessions
  <2>2. Len(stack["app"]) > 1 /\ stack["app"][1] = "update" /\ Above("update", stack["app"][2])
    BY <1>0, <2>1, Called, Position DEF LockInv, Bases
  <2>3. (Ending => Forced') /\ (NoneOpen => NoneOpen')
    BY <1>5 DEF UpdateSessions, DestroyCloses, Forced, NoneOpen, Open
  <2>4. CASE Goto("app", "updating")
    <3>1. stack'["app"][1] = "updating" /\ AppBase' = AppBase /\ (Ending' => Ending)
      BY <2>2, <2>4, AppGoes DEF Labels
    <3>2. stack'["app"][1] \notin {"notify", "disconnect", "shut"}
      BY <3>1
    <3>3. Unbound'
      BY <2>1, <2>2, <3>1, <3>2, UnboundKeeps DEF AppTopIn, Bases
    <3>4. stack'["app"][1] \notin {"destroyed", "end"}
      BY <3>1
    <3> QED BY <2>3, <3>1, <3>3, <3>4 DEF DestroyCloses, AppTopIn
  <2> QED BY <1>5, <2>4 DEF UpdateSessions
<1>6. CASE SessionsUpdated("app")
  <2>1. At("app", "updating") /\ bound' = bound /\ connected' = connected
    BY <1>6 DEF SessionsUpdated
  <2>2. Len(stack["app"]) > 1 /\ stack["app"][1] = "updating" /\ Above("updating", stack["app"][2])
    BY <1>0, <2>1, Called, Position DEF LockInv, Bases
  <2>3. Ending => Forced' /\ NoneOpen'
    BY <1>6, UpdatedStates DEF DestroyCloses
  <2>4. CASE Return("app")
    <3>1. stack'["app"][1] = stack["app"][2] /\ AppBase' = AppBase /\ (Ending' => Ending) /\ (stack["app"][2] = "end" => Ending)
      BY <2>2, <2>4, AppReturns DEF Labels
    <3>2. stack["app"][2] \notin {"notify", "disconnect", "shut"}
      BY <2>2 DEF Above
    <3>3. Unbound'
      BY <2>1, <2>2, <3>1, <3>2, UnboundKeeps DEF AppTopIn, Bases
    <3>4. stack["app"][2] = "end" => NoneOpen'
      BY <2>3, <3>1
    <3>5. stack["app"][2] # "destroyed"
      BY <2>2 DEF Above, Shutting
    <3> QED BY <2>3, <3>1, <3>3, <3>4, <3>5 DEF DestroyCloses, AppTopIn
  <2> QED BY <1>6, <2>4 DEF SessionsUpdated
<1>7. CASE Disconnect("app")
  <2>1. At("app", "disconnect") /\ bound' = bound /\ ~connected'
    BY <1>7 DEF Disconnect
  <2>2. Len(stack["app"]) > 1 /\ stack["app"][1] = "disconnect" /\ Above("disconnect", stack["app"][2])
    BY <1>0, <2>1, Called, Position DEF LockInv, Bases
  <2>3. (Ending => Forced') /\ (NoneOpen => NoneOpen')
    BY <1>7 DEF Disconnect, DestroyCloses, Forced, NoneOpen, Open
  <2>4. CASE Goto("app", "shut")
    <3>1. stack'["app"][1] = "shut" /\ AppBase' = AppBase /\ (Ending' => Ending)
      BY <2>2, <2>4, AppGoes DEF Labels
    <3>2. ~bound => NoneOpen'
      BY <2>2, <2>3 DEF Unbound, AppTopIn
    <3>3. Unbound'
      BY <2>1, <2>2, <3>1, <3>2, UnboundKeeps DEF AppTopIn, Bases
    <3>4. stack'["app"][1] \notin {"destroyed", "end"}
      BY <3>1
    <3> QED BY <2>3, <3>1, <3>3, <3>4 DEF DestroyCloses, AppTopIn
  <2>5. CASE Return("app")
    <3>1. stack'["app"][1] = stack["app"][2] /\ AppBase' = AppBase /\ (Ending' => Ending) /\ (stack["app"][2] = "end" => Ending)
      BY <2>2, <2>5, AppReturns DEF Labels
    <3>2. stack["app"][2] \notin {"notify", "disconnect", "shut"}
      BY <2>2 DEF Above
    <3>3. Unbound'
      BY <2>1, <2>2, <3>1, <3>2, UnboundKeeps DEF AppTopIn, Bases
    <3>4. stack["app"][2] \notin {"destroyed", "end"}
      BY <2>2 DEF Above, Shutting, Reading
    <3> QED BY <2>3, <3>1, <3>3, <3>4 DEF DestroyCloses, AppTopIn
  <2> QED BY <1>7, <2>4, <2>5 DEF Disconnect
<1>8. CASE ShutDownAllSessions("app")
  <2>1. At("app", "shut") /\ bound' = bound /\ connected' = connected
    BY <1>8 DEF ShutDownAllSessions
  <2>2. Len(stack["app"]) > 1 /\ stack["app"][1] = "shut" /\ Above("shut", stack["app"][2])
    BY <1>0, <2>1, Called, Position DEF LockInv, Bases
  <2>3. (Ending => Forced') /\ (NoneOpen => NoneOpen')
    BY <1>8 DEF ShutDownAllSessions, DestroyCloses, Forced, NoneOpen, Open
  <2>4. CASE Return("app") /\ NoSessions
    <3>1. stack'["app"][1] = stack["app"][2] /\ AppBase' = AppBase /\ (Ending' => Ending) /\ (stack["app"][2] = "end" => Ending)
      BY <2>2, <2>4, AppReturns DEF Labels
    <3>2. stack["app"][2] \notin {"notify", "disconnect", "shut"}
      BY <2>2 DEF Above
    <3>3. Unbound'
      BY <2>1, <2>2, <3>1, <3>2, UnboundKeeps DEF AppTopIn, Bases
    <3>4. NoneOpen'
      BY <2>3, <2>4, NoneIsOpen
    <3> QED BY <2>3, <3>1, <3>3, <3>4 DEF DestroyCloses, AppTopIn
  <2>5. CASE Goto("app", "graceful")
    <3>1. stack'["app"][1] = "graceful" /\ AppBase' = AppBase /\ (Ending' => Ending)
      BY <2>2, <2>5, AppGoes DEF Labels
    <3>2. stack'["app"][1] \notin {"notify", "disconnect", "shut"}
      BY <3>1
    <3>3. Unbound'
      BY <2>1, <2>2, <3>1, <3>2, UnboundKeeps DEF AppTopIn, Bases
    <3>4. stack'["app"][1] \notin {"destroyed", "end"}
      BY <3>1
    <3> QED BY <2>3, <3>1, <3>3, <3>4 DEF DestroyCloses, AppTopIn
  <2>6. CASE Goto("app", "check")
    <3>1. stack'["app"][1] = "check" /\ AppBase' = AppBase /\ (Ending' => Ending)
      BY <2>2, <2>6, AppGoes DEF Labels
    <3>2. stack'["app"][1] \notin {"notify", "disconnect", "shut"}
      BY <3>1
    <3>3. Unbound'
      BY <2>1, <2>2, <3>1, <3>2, UnboundKeeps DEF AppTopIn, Bases
    <3>4. stack'["app"][1] \notin {"destroyed", "end"}
      BY <3>1
    <3> QED BY <2>3, <3>1, <3>3, <3>4 DEF DestroyCloses, AppTopIn
  <2> QED BY <1>8, <2>4, <2>5, <2>6 DEF ShutDownAllSessions
<1>9. CASE Graceful("app")
  <2>1. At("app", "graceful") /\ bound' = bound /\ connected' = connected
    BY <1>9 DEF Graceful
  <2>2. Len(stack["app"]) > 1 /\ stack["app"][1] = "graceful" /\ Above("graceful", stack["app"][2])
    BY <1>0, <2>1, Called, Position DEF LockInv, Bases
  <2>3. Ending => Forced'
    BY <1>0, <2>2, NotEnding DEF AppTopIn
  <2>4. CASE Goto("app", "wait")
    <3>1. stack'["app"][1] = "wait" /\ AppBase' = AppBase /\ (Ending' => Ending)
      BY <2>2, <2>4, AppGoes DEF Labels
    <3>2. stack'["app"][1] \notin {"notify", "disconnect", "shut"}
      BY <3>1
    <3>3. Unbound'
      BY <2>1, <2>2, <3>1, <3>2, UnboundKeeps DEF AppTopIn, Bases
    <3>4. stack'["app"][1] \notin {"destroyed", "end"}
      BY <3>1
    <3> QED BY <2>3, <3>1, <3>3, <3>4 DEF DestroyCloses, AppTopIn
  <2> QED BY <1>9, <2>4 DEF Graceful
<1>10. CASE WaitForSessions("app")
  <2>1. At("app", "wait") /\ bound' = bound /\ connected' = connected
    BY <1>10 DEF WaitForSessions
  <2>2. Len(stack["app"]) > 1 /\ stack["app"][1] = "wait" /\ Above("wait", stack["app"][2])
    BY <1>0, <2>1, Called, Position DEF LockInv, Bases
  <2>3. (Ending => Forced') /\ (NoneOpen => NoneOpen')
    BY <1>10 DEF WaitForSessions, DestroyCloses, Forced, NoneOpen, Open
  <2>4. CASE Goto("app", "check")
    <3>1. stack'["app"][1] = "check" /\ AppBase' = AppBase /\ (Ending' => Ending)
      BY <2>2, <2>4, AppGoes DEF Labels
    <3>2. stack'["app"][1] \notin {"notify", "disconnect", "shut"}
      BY <3>1
    <3>3. Unbound'
      BY <2>1, <2>2, <3>1, <3>2, UnboundKeeps DEF AppTopIn, Bases
    <3>4. stack'["app"][1] \notin {"destroyed", "end"}
      BY <3>1
    <3> QED BY <2>3, <3>1, <3>3, <3>4 DEF DestroyCloses, AppTopIn
  <2>5. CASE Call("app", "read", "waited")
    <3>1. stack'["app"][1] = "read" /\ AppBase' = AppBase /\ (Ending' => Ending)
      BY <2>2, <2>5, AppCalls DEF Labels
    <3>2. stack'["app"][1] \notin {"notify", "disconnect", "shut"}
      BY <3>1
    <3>3. Unbound'
      BY <2>1, <2>2, <3>1, <3>2, UnboundKeeps DEF AppTopIn, Bases
    <3>4. stack'["app"][1] \notin {"destroyed", "end"}
      BY <3>1
    <3> QED BY <2>3, <3>1, <3>3, <3>4 DEF DestroyCloses, AppTopIn
  <2> QED BY <1>10, <2>4, <2>5 DEF WaitForSessions
<1>11. CASE WaitAgain("app")
  <2>1. At("app", "waited") /\ bound' = bound /\ connected' = connected
    BY <1>11 DEF WaitAgain
  <2>2. Len(stack["app"]) > 1 /\ stack["app"][1] = "waited" /\ Above("waited", stack["app"][2])
    BY <1>0, <2>1, Called, Position DEF LockInv, Bases
  <2>3. (Ending => Forced') /\ (NoneOpen => NoneOpen')
    BY <1>11 DEF WaitAgain, DestroyCloses, Forced, NoneOpen, Open
  <2>4. CASE Goto("app", "wait")
    <3>1. stack'["app"][1] = "wait" /\ AppBase' = AppBase /\ (Ending' => Ending)
      BY <2>2, <2>4, AppGoes DEF Labels
    <3>2. stack'["app"][1] \notin {"notify", "disconnect", "shut"}
      BY <3>1
    <3>3. Unbound'
      BY <2>1, <2>2, <3>1, <3>2, UnboundKeeps DEF AppTopIn, Bases
    <3>4. stack'["app"][1] \notin {"destroyed", "end"}
      BY <3>1
    <3> QED BY <2>3, <3>1, <3>3, <3>4 DEF DestroyCloses, AppTopIn
  <2> QED BY <1>11, <2>4 DEF WaitAgain
<1>12. CASE GiveUp("app")
  <2>1. At("app", "waited") /\ bound' = bound /\ connected' = connected
    BY <1>12 DEF GiveUp
  <2>2. Len(stack["app"]) > 1 /\ stack["app"][1] = "waited" /\ Above("waited", stack["app"][2])
    BY <1>0, <2>1, Called, Position DEF LockInv, Bases
  <2>3. (Ending => Forced') /\ (NoneOpen => NoneOpen')
    BY <1>12 DEF GiveUp, DestroyCloses, Forced, NoneOpen, Open
  <2>4. CASE Goto("app", "check")
    <3>1. stack'["app"][1] = "check" /\ AppBase' = AppBase /\ (Ending' => Ending)
      BY <2>2, <2>4, AppGoes DEF Labels
    <3>2. stack'["app"][1] \notin {"notify", "disconnect", "shut"}
      BY <3>1
    <3>3. Unbound'
      BY <2>1, <2>2, <3>1, <3>2, UnboundKeeps DEF AppTopIn, Bases
    <3>4. stack'["app"][1] \notin {"destroyed", "end"}
      BY <3>1
    <3> QED BY <2>3, <3>1, <3>3, <3>4 DEF DestroyCloses, AppTopIn
  <2> QED BY <1>12, <2>4 DEF GiveUp
<1>13. CASE CheckSessions("app")
  <2>1. At("app", "check") /\ bound' = bound /\ connected' = connected
    BY <1>13 DEF CheckSessions
  <2>2. Len(stack["app"]) > 1 /\ stack["app"][1] = "check" /\ Above("check", stack["app"][2])
    BY <1>0, <2>1, Called, Position DEF LockInv, Bases
  <2>3. (Ending => Forced') /\ (NoneOpen => NoneOpen')
    BY <1>13 DEF CheckSessions, DestroyCloses, Forced, NoneOpen, Open
  <2>4. CASE Goto("app", "end") /\ NoSessions
    <3>1. stack'["app"][1] = "end" /\ AppBase' = AppBase /\ (Ending' => Ending)
      BY <2>2, <2>4, AppGoes DEF Labels
    <3>2. stack'["app"][1] \notin {"notify", "disconnect", "shut"}
      BY <3>1
    <3>3. Unbound'
      BY <2>1, <2>2, <3>1, <3>2, UnboundKeeps DEF AppTopIn, Bases
    <3>4. NoneOpen'
      BY <2>3, <2>4, NoneIsOpen
    <3> QED BY <2>3, <3>1, <3>3, <3>4 DEF DestroyCloses, AppTopIn
  <2>5. CASE Goto("app", "force")
    <3>1. stack'["app"][1] = "force" /\ AppBase' = AppBase /\ (Ending' => Ending)
      BY <2>2, <2>5, AppGoes DEF Labels
    <3>2. stack'["app"][1] \notin {"notify", "disconnect", "shut"}
      BY <3>1
    <3>3. Unbound'
      BY <2>1, <2>2, <3>1, <3>2, UnboundKeeps DEF AppTopIn, Bases
    <3>4. stack'["app"][1] \notin {"destroyed", "end"}
      BY <3>1
    <3> QED BY <2>3, <3>1, <3>3, <3>4 DEF DestroyCloses, AppTopIn
  <2> QED BY <1>13, <2>4, <2>5 DEF CheckSessions
<1>14. CASE ForceShutdown("app")
  <2>1. At("app", "force") /\ bound' = bound /\ connected' = connected
    BY <1>14 DEF ForceShutdown
  <2>2. Len(stack["app"]) > 1 /\ stack["app"][1] = "force" /\ Above("force", stack["app"][2])
    BY <1>0, <2>1, Called, Position DEF LockInv, Bases
  <2>3. Forced'
    BY <1>14, ForcedStates DEF ForceShutdown, LockInv, Rest
  <2>4. CASE Call("app", "update", "end")
    <3>1. stack'["app"][1] = "update" /\ AppBase' = AppBase /\ (TRUE)
      BY <2>2, <2>4, AppCalls DEF Labels
    <3>2. stack'["app"][1] \notin {"notify", "disconnect", "shut"}
      BY <3>1
    <3>3. Unbound'
      BY <2>1, <2>2, <3>1, <3>2, UnboundKeeps DEF AppTopIn, Bases
    <3>4. stack'["app"][1] \notin {"destroyed", "end"}
      BY <3>1
    <3> QED BY <2>3, <3>1, <3>3, <3>4 DEF DestroyCloses, AppTopIn
  <2> QED BY <1>14, <2>4 DEF ForceShutdown
<1>15. CASE ShutDownDone("app")
  <2>1. At("app", "end") /\ bound' = bound /\ connected' = connected
    BY <1>15 DEF ShutDownDone
  <2>2. Len(stack["app"]) > 1 /\ stack["app"][1] = "end" /\ Above("end", stack["app"][2])
    BY <1>0, <2>1, Called, Position DEF LockInv, Bases
  <2>3. (Ending => Forced') /\ (NoneOpen => NoneOpen')
    BY <1>15 DEF ShutDownDone, DestroyCloses, Forced, NoneOpen, Open
  <2>4. CASE Return("app")
    <3>1. stack'["app"][1] = stack["app"][2] /\ AppBase' = AppBase /\ (Ending' => Ending) /\ (stack["app"][2] = "end" => Ending)
      BY <2>2, <2>4, AppReturns DEF Labels
    <3>2. stack["app"][2] \notin {"notify", "disconnect", "shut"}
      BY <2>2 DEF Above
    <3>3. Unbound'
      BY <2>1, <2>2, <3>1, <3>2, UnboundKeeps DEF AppTopIn, Bases
    <3>4. stack["app"][2] = "destroyed" => NoneOpen'
      BY <2>2, <2>3 DEF DestroyCloses, AppTopIn
    <3>5. stack["app"][2] # "end"
      BY <2>2 DEF Above, Reading
    <3> QED BY <2>3, <3>1, <3>3, <3>4, <3>5 DEF DestroyCloses, AppTopIn
  <2> QED BY <1>15, <2>4 DEF ShutDownDone
<1>16. CASE ReceiveLocked("app")
  <2>1. At("app", "read") /\ bound' = bound /\ connected' = connected
    BY <1>16 DEF ReceiveLocked
  <2>2. Len(stack["app"]) > 1 /\ stack["app"][1] = "read" /\ Above("read", stack["app"][2])
    BY <1>0, <2>1, Called, Position DEF LockInv, Bases
  <2>3. (Ending => Forced') /\ (NoneOpen => NoneOpen')
    BY <1>16 DEF ReceiveLocked, DestroyCloses, Forced, NoneOpen, Open
  <2>4. CASE Goto("app", "handle")
    <3>1. stack'["app"][1] = "handle" /\ AppBase' = AppBase /\ (Ending' => Ending)
      BY <2>2, <2>4, AppGoes DEF Labels
    <3>2. stack'["app"][1] \notin {"notify", "disconnect", "shut"}
      BY <3>1
    <3>3. Unbound'
      BY <2>1, <2>2, <3>1, <3>2, UnboundKeeps DEF AppTopIn, Bases
    <3>4. stack'["app"][1] \notin {"destroyed", "end"}
      BY <3>1
    <3> QED BY <2>3, <3>1, <3>3, <3>4 DEF DestroyCloses, AppTopIn
  <2> QED BY <1>16, <2>4 DEF ReceiveLocked
<1>17. CASE AnswerFails("app")
  <2>1. At("app", "handled") /\ bound' = bound /\ connected' = connected
    BY <1>17 DEF AnswerFails
  <2>2. Len(stack["app"]) > 1 /\ stack["app"][1] = "handled" /\ Above("handled", stack["app"][2])
    BY <1>0, <2>1, Called, Position DEF LockInv, Bases
  <2>3. (Ending => Forced') /\ (NoneOpen => NoneOpen')
    BY <1>17 DEF AnswerFails, DestroyCloses, Forced, NoneOpen, Open
  <2>4. CASE Call("app", "disconnect", "handled")
    <3>1. stack'["app"][1] = "disconnect" /\ AppBase' = AppBase /\ (Ending' => Ending)
      BY <2>2, <2>4, AppCalls DEF Labels
    <3>2. bound
      BY <1>17, <2>2 DEF Unbound, AppTopIn, AnswerFails
    <3>3. Unbound'
      BY <2>1, <2>2, <3>1, <3>2, UnboundKeeps DEF AppTopIn, Bases
    <3>4. stack'["app"][1] \notin {"destroyed", "end"}
      BY <3>1
    <3> QED BY <2>3, <3>1, <3>3, <3>4 DEF DestroyCloses, AppTopIn
  <2> QED BY <1>17, <2>4 DEF AnswerFails
<1>18. CASE UpdateFails("app")
  <2>1. At("app", "updating") /\ bound' = bound /\ connected' = connected
    BY <1>18 DEF UpdateFails
  <2>2. Len(stack["app"]) > 1 /\ stack["app"][1] = "updating" /\ Above("updating", stack["app"][2])
    BY <1>0, <2>1, Called, Position DEF LockInv, Bases
  <2>3. (Ending => Forced') /\ (NoneOpen => NoneOpen')
    BY <1>18 DEF UpdateFails, DestroyCloses, Forced, NoneOpen, Open
  <2>4. CASE Call("app", "disconnect", "updating")
    <3>1. stack'["app"][1] = "disconnect" /\ AppBase' = AppBase /\ (Ending' => Ending)
      BY <2>2, <2>4, AppCalls DEF Labels
    <3>2. bound
      BY <1>18, <2>2 DEF Unbound, AppTopIn, UpdateFails
    <3>3. Unbound'
      BY <2>1, <2>2, <3>1, <3>2, UnboundKeeps DEF AppTopIn, Bases
    <3>4. stack'["app"][1] \notin {"destroyed", "end"}
      BY <3>1
    <3> QED BY <2>3, <3>1, <3>3, <3>4 DEF DestroyCloses, AppTopIn
  <2> QED BY <1>18, <2>4 DEF UpdateFails
<1> QED BY <1>1, <1>2, <1>3, <1>4, <1>5, <1>6, <1>7, <1>8, <1>9, <1>10, <1>11, <1>12, <1>13, <1>14, <1>15, <1>16, <1>17, <1>18 DEF Step

\* The message thread, and a thread that opens a session, work on a channel that is registered.
LEMMA OthersLife ==
    ASSUME LockInv, LifeInv, stack["msg"] # <<>>, stack'["app"] = stack["app"], bound' = bound
    PROVE  Unbound' /\ DestroyCloses'
<1>1. stack["app"][1] \in {"registered", "join"}
  BY DEF LifeInv, ThreadIsJoined
<1>2. Len(stack["app"]) = 1
  BY <1>1, AppAlone DEF Bases
<1>3. bound /\ ~Ending'
  <2>1. AppBase \in {"registered", "join"}
    BY <1>1, <1>2 DEF AppBase
  <2>2. bound
    BY <2>1 DEF LifeInv, Unbound
  <2>3. ~Ending
    BY <1>2 DEF Ending
  <2>4. Ending' <=> Ending
    BY DEF Ending
  <2> QED BY <2>2, <2>3, <2>4
<1> QED BY <1>1, <1>3 DEF Unbound, DestroyCloses, AppTopIn

LEMMA NextLife ==
    ASSUME LockInv, LifeInv, "join_timeout" \notin Faults, [Next]_vars
    PROVE  LifeInv'
<1>0. "app" \in Threads /\ "msg" \in Threads
  BY DEF Threads
<1>a. ThreadIsJoined' /\ WaitIsInDestroy'
  BY NextJoined, NextWaits DEF LifeInv
<1> SUFFICES Unbound' /\ DestroyCloses'
  BY <1>a DEF LifeInv
\* A step of Unregister itself, which is alone on its stack.
<1>b. ASSUME NEW x \in Bases, At("app", x)
      PROVE  Len(stack["app"]) = 1 /\ stack["app"][1] = x /\ AppBase = x /\ stack["app"] # <<>>
  <2>1. stack["app"][1] = x /\ stack["app"] # <<>>
    BY <1>b, <1>0, Position DEF LockInv
  <2>2. Len(stack["app"]) = 1
    BY <2>1, AppAlone
  <2> QED BY <2>1, <2>2 DEF AppBase
<1>1. CASE UNCHANGED vars
  BY <1>1 DEF LifeInv, Unbound, DestroyCloses, AppBase, AppTopIn, Ending, Forced, NoneOpen, Open, vars
<1>2. CASE Register
  <2>1. stack'["app"] = <<"registered">> /\ bound'
    BY <1>2 DEF Register
  <2> QED BY <2>1 DEF Unbound, DestroyCloses, AppTopIn, Ending
<1>3. CASE EstablishSessionForClient
  <2>1. UNCHANGED <<stack, bound, connected>>
    BY <1>3 DEF EstablishSessionForClient
  <2>2. (NoneOpen => NoneOpen') /\ (Forced => Forced')
    BY <1>3 DEF EstablishSessionForClient, Create, NoneOpen, Open, Forced
  <2> QED BY <2>1, <2>2 DEF LifeInv, Unbound, DestroyCloses, AppBase, AppTopIn, Ending
<1>4. ASSUME NEW x \in {"registered", "join", "servers"}, NEW l \in {"join", "servers", "destroy"},
             At("app", x), Goto("app", l), bound' = bound
      PROVE  Unbound' /\ DestroyCloses'
  <2>1. Len(stack["app"]) = 1 /\ AppBase = x /\ stack["app"] # <<>>
    BY <1>4, <1>b DEF Bases
  <2>2. bound
    BY <2>1 DEF LifeInv, Unbound
  <2>3. Len(stack'["app"]) = 1 /\ stack'["app"][1] = l
    BY <1>0, <1>4, <2>1, GotoShape DEF LockInv, Labels
  <2> QED BY <1>4, <2>2, <2>3 DEF Unbound, DestroyCloses, AppTopIn, Ending
<1>5. CASE Unregister \/ Join \/ UnregisterServers
  BY <1>4, <1>5 DEF Unregister, Join, UnregisterServers
<1>6. CASE Destroy
  <2>1. Len(stack["app"]) = 1 /\ AppBase = "destroy" /\ stack["app"] # <<>>
    BY <1>6, <1>b DEF Bases, Destroy
  <2>2. bound /\ bound' = bound
    BY <1>6, <2>1 DEF LifeInv, Unbound, Destroy
  <2>3. Len(stack'["app"]) = 2 /\ stack'["app"][1] = "shut" /\ stack'["app"][2] = "destroyed"
    <3>1. Call("app", "shut", "destroyed") /\ "shut" \in Labels /\ "destroyed" \in Labels
      BY <1>6 DEF Destroy, Labels
    <3>2. Len(stack'["app"]) = Len(stack["app"]) + 1 /\ stack'["app"][1] = "shut" /\ stack'["app"][2] = "destroyed"
      <4>1. stack["app"] # <<>> /\ Stacks
        BY <2>1 DEF LockInv
      <4> QED BY ONLY <1>0, <3>1, <4>1, CallShape
    <3> QED BY <2>1, <3>2
  <2> QED BY <2>2, <2>3 DEF Unbound, DestroyCloses, AppTopIn, Ending
<1>7. CASE Destroyed
  <2>1. Len(stack["app"]) = 1 /\ stack["app"][1] = "destroyed" /\ stack["app"] # <<>>
    BY <1>7, <1>b DEF Bases, Destroyed
  <2>2. NoneOpen'
    BY <1>7, <2>1 DEF LifeInv, DestroyCloses, AppTopIn, NoneOpen, Open, Destroyed
  <2>3. Len(stack'["app"]) = 1 /\ stack'["app"][1] = "notify"
    BY <1>0, <1>7, <2>1, GotoShape DEF LockInv, Labels, Destroyed
  <2> QED BY <2>2, <2>3 DEF Unbound, DestroyCloses, AppTopIn, AppBase, Ending
<1>8. CASE NotifyAndDisconnect
  <2>1. Len(stack["app"]) = 1 /\ stack["app"][1] = "notify" /\ stack["app"] # <<>>
    BY <1>8, <1>b DEF Bases, NotifyAndDisconnect
  <2>2. bound' = bound /\ (~bound => NoneOpen')
    BY <1>8, <2>1 DEF LifeInv, Unbound, AppTopIn, NoneOpen, Open, NotifyAndDisconnect
  <2>3. Len(stack'["app"]) = 2 /\ stack'["app"][1] = "disconnect" /\ stack'["app"][2] = "unregistered"
    <3>1. Call("app", "disconnect", "unregistered") /\ "disconnect" \in Labels /\ "unregistered" \in Labels
      BY <1>8 DEF NotifyAndDisconnect, Labels
    <3>2. Len(stack'["app"]) = Len(stack["app"]) + 1 /\ stack'["app"][1] = "disconnect" /\ stack'["app"][2] = "unregistered"
      <4>1. stack["app"] # <<>> /\ Stacks
        BY <2>1 DEF LockInv
      <4> QED BY ONLY <1>0, <3>1, <4>1, CallShape
    <3> QED BY <2>1, <3>2
  <2> QED BY <2>2, <2>3 DEF Unbound, DestroyCloses, AppTopIn, AppBase, Ending
<1>9. CASE MsgChannelReceiveFunc
  <2>1. stack["msg"] # <<>> /\ stack'["app"] = stack["app"] /\ bound' = bound
    BY <1>9, <1>0 DEF MsgChannelReceiveFunc, At, Call, Return, LockInv, Stacks
  <2> QED BY <2>1, OthersLife
<1>10. ASSUME NEW t \in Threads, Step(t) \/ ReceiveLocked(t) \/ AnswerFails(t) \/ UpdateFails(t)
       PROVE  Unbound' /\ DestroyCloses'
  <2>1. CASE t = "app"
    BY <1>10, <2>1, AppStepCloses DEF LifeInv
  <2>2. CASE t = "msg"
    <3>1. stack["msg"] # <<>> /\ stack'["app"] = stack["app"]
      BY <1>0, <1>10, <2>2, OneStack DEF LockInv
    <3>2. bound' = bound
      BY <1>10 DEF Step, HandleReceivedSessionMessage, HandleClientDisconnection, Handled, ReadDone,
           UpdateSessions, SessionsUpdated, Disconnect, ShutDownAllSessions, Graceful, WaitForSessions,
           WaitAgain, GiveUp, CheckSessions, ForceShutdown, ShutDownDone, ReceiveLocked, AnswerFails,
           UpdateFails
    <3> QED BY <3>1, <3>2, OthersLife
  <2> QED BY <2>1, <2>2 DEF Threads
<1> QED BY <1>1, <1>2, <1>3, <1>5, <1>6, <1>7, <1>8, <1>9, <1>10 DEF Next, Unregistering

LEMMA InitLife ==
    ASSUME Init
    PROVE  LifeInv
<1>1. stack["app"] = <<"unregistered">> /\ stack["msg"] = <<>> /\ ~connected /\ ~bound
  BY DEF Init, Threads
<1>2. ThreadIsJoined
  BY <1>1 DEF ThreadIsJoined
<1>3. WaitIsInDestroy
  <2>0. Len(<<>>) = 0 /\ Len(<<"unregistered">>) = 1
    OBVIOUS
  <2>1. \A t \in Threads : Len(stack[t]) \in {0, 1}
    BY <1>1, <2>0 DEF Threads
  <2>2. \A k \in {0, 1} : 1 .. k - 1 = {}
    OBVIOUS
  <2> QED BY <2>1, <2>2 DEF WaitIsInDestroy
<1>4. Unbound /\ DestroyCloses
  BY <1>1 DEF Unbound, DestroyCloses, AppBase, AppTopIn, Ending
<1> QED BY <1>2, <1>3, <1>4 DEF LifeInv

LEMMA HoldersFit ==
    ASSUME LockInv, LifeInv
    PROVE  HolderDoesNotWait
<1> SUFFICES ASSUME NEW t \in Threads, NEW i \in 1 .. Len(stack[t]), stack[t][i] \in Locked,
                    NEW j \in 1 .. i - 1
             PROVE  stack[t][j] \notin {"graceful", "wait", "waited"}
  BY DEF HolderDoesNotWait, Locked
<1>1. Shallow(stack[t]) /\ stack[t] \in Seq(Labels)
  BY DEF LockInv, Stacks, Locks, WellFormed
<1>2. Len(stack[t]) \in Nat
  BY <1>1
<1>3. ~(i \in 3 .. Len(stack[t]))
  BY <1>1 DEF Shallow
<1>4. i = 2 /\ j = 1 /\ 1 \in 1 .. Len(stack[t]) - 1
  BY <1>2, <1>3
<1>5. Plain(stack[t][1], stack[t][1 + 1], connected)
  BY <1>4 DEF LifeInv, WaitIsInDestroy
<1> QED BY <1>4, <1>5 DEF Plain, Locked

LEMMA BoundFits ==
    ASSUME LockInv, LifeInv
    PROVE  ChannelIsBound
<1> SUFFICES ASSUME NEW t \in Threads, At(t, "shut"), ~NoneOpen, ~bound
             PROVE  FALSE
  BY DEF ChannelIsBound, NoneOpen
<1>1. stack[t] # <<>> /\ stack[t][1] = "shut"
  BY Position DEF LockInv
<1>2. CASE t = "app"
  BY <1>1, <1>2 DEF LifeInv, Unbound, AppTopIn
<1>3. CASE t = "msg"
  <2>1. stack["app"][1] \in {"registered", "join"}
    BY <1>1, <1>3 DEF LifeInv, ThreadIsJoined
  <2>2. Len(stack["app"]) = 1
    BY <2>1, AppAlone DEF Bases
  <2> QED BY <2>1, <2>2 DEF LifeInv, Unbound, AppBase
<1> QED BY <1>2, <1>3 DEF Threads

-----------------------------------------------------------------------------
(***************************************************************************)
(* A thread that loses the transport while it holds m_sessionMutex does    *)
(* not go on to wait for its sessions: the channel is not connected then,  *)
(* and ShutDownAllSessions takes the other way.  So for any number of      *)
(* sessions and failures, as long as the message thread is gone once       *)
(* Unregister has joined it; a registration beside a thread left over from *)
(* a join that timed out makes the channel connected again.                *)
(***************************************************************************)
THEOREM HolderNeverWaits ==
    ASSUME "join_timeout" \notin Faults
    PROVE  Spec => []HolderDoesNotWait
<1>1. Init => LockInv /\ LifeInv
  BY InitLock, InitLife
<1>2. LockInv /\ LifeInv /\ [Next]_vars => (LockInv /\ LifeInv)'
  BY NextLock, NextLife
<1>3. LockInv /\ LifeInv => HolderDoesNotWait
  BY HoldersFit
<1> QED BY <1>1, <1>2, <1>3, PTL DEF Spec

(***************************************************************************)
(* Once Destroy has cleared the pointer to the channel no shutdown meets a *)
(* session that was established, accepted or closed before: what the table *)
(* may still hold is what another thread began to connect too late.        *)
(***************************************************************************)
THEOREM ShutdownIsBound ==
    ASSUME "join_timeout" \notin Faults
    PROVE  Spec => []ChannelIsBound
<1>1. Init => LockInv /\ LifeInv
  BY InitLock, InitLife
<1>2. LockInv /\ LifeInv /\ [Next]_vars => (LockInv /\ LifeInv)'
  BY NextLock, NextLife
<1>3. LockInv /\ LifeInv => ChannelIsBound
  BY BoundFits
<1> QED BY <1>1, <1>2, <1>3, PTL DEF Spec

-----------------------------------------------------------------------------
(***************************************************************************)
(* A channel beside which no other thread opens sessions, whether or not   *)
(* the message thread is joined in time.  Once its servers are             *)
(* unregistered no session is accepted any more, so what Destroy has       *)
(* closed and removed stays away.                                          *)
(***************************************************************************)
AllClosed == \A s \in SessionIds : session[s] \in {"none", "closed"}

Retired == AppBase \in {"destroy", "destroyed", "notify", "unregistered"} => ~serving
Released == ~bound => AppBase \in {"notify", "unregistered"}
Emptied ==
    /\ AppBase \in {"notify", "unregistered"} => NoSessions
    /\ AppTopIn({"destroyed", "end"}) => NoSessions
    /\ Ending => AllClosed

EmptyInv == Retired /\ Released /\ Emptied

\* Without a server the table only shrinks.
LEMMA ShutdownShrinks ==
    ASSUME NEW S \in SUBSET SessionIds, NEW b \in BOOLEAN, Shutdown(S, b)
    PROVE  (NoSessions => NoSessions') /\ (AllClosed => AllClosed')
BY DEF Shutdown, ShutdownState, NoSessions, AllClosed

LEMMA StepShrinks ==
    ASSUME ~serving, NEW t \in Threads, Step(t)
    PROVE  (NoSessions => NoSessions') /\ (AllClosed => AllClosed')
<1>1. CASE UNCHANGED session
  BY <1>1 DEF NoSessions, AllClosed
<1>2. CASE HandleReceivedSessionMessage(t)
  <2>1. CASE \E s \in SessionIds : session[s] \in {"connecting", "accepting"}
    BY <2>1 DEF NoSessions, AllClosed
  <2>2. ASSUME NEW s \in SessionIds, session[s] # "none", session' = [session EXCEPT ![s] = "closed"]
        PROVE  ~NoSessions /\ (AllClosed => AllClosed')
    BY <2>2 DEF NoSessions, AllClosed
  <2>3. \/ \E s \in SessionIds : session[s] \in {"connecting", "accepting"}
        \/ \E s \in SessionIds : session[s] # "none" /\ session' = [session EXCEPT ![s] = "closed"]
        \/ UNCHANGED session
    BY <1>2 DEF HandleReceivedSessionMessage
  <2> QED BY <1>1, <2>1, <2>2, <2>3
<1>3. CASE HandleClientDisconnection(t)
  BY <1>3, ShutdownShrinks DEF HandleClientDisconnection
<1>4. CASE Graceful(t)
  BY <1>4, ShutdownShrinks DEF Graceful
<1>5. CASE ForceShutdown(t)
  BY <1>5, ShutdownShrinks DEF ForceShutdown
<1>6. CASE SessionsUpdated(t)
  BY <1>6 DEF SessionsUpdated, NoSessions, AllClosed
<1>7. CASE \/ Handled(t) \/ ReadDone(t) \/ UpdateSessions(t) \/ Disconnect(t) \/ ShutDownAllSessions(t)
           \/ WaitForSessions(t) \/ WaitAgain(t) \/ GiveUp(t) \/ CheckSessions(t) \/ ShutDownDone(t)
  BY <1>1, <1>7 DEF Handled, ReadDone, UpdateSessions, Disconnect, ShutDownAllSessions, WaitForSessions,
                    WaitAgain, GiveUp, CheckSessions, ShutDownDone
<1> QED BY <1>2, <1>3, <1>4, <1>5, <1>6, <1>7 DEF Step

LEMMA TableShrinks ==
    ASSUME "establish" \notin Faults, ~serving, [Next]_vars
    PROVE  (NoSessions => NoSessions') /\ (AllClosed => AllClosed')
<1>1. CASE UNCHANGED session
  BY <1>1 DEF NoSessions, AllClosed
<1>2. CASE UnregisterServers
  BY <1>2, ShutdownShrinks DEF UnregisterServers
<1>3. CASE \/ Register \/ Unregister \/ Join \/ Destroy \/ Destroyed \/ NotifyAndDisconnect
           \/ MsgChannelReceiveFunc \/ UNCHANGED vars
  BY <1>1, <1>3 DEF Register, Unregister, Join, Destroy, Destroyed, NotifyAndDisconnect,
                    MsgChannelReceiveFunc, vars
<1>4. CASE \E t \in Threads : ReceiveLocked(t) \/ AnswerFails(t) \/ UpdateFails(t)
  BY <1>1, <1>4 DEF ReceiveLocked, AnswerFails, UpdateFails
<1> QED BY <1>2, <1>3, <1>4, StepShrinks DEF Next, Unregistering, EstablishSessionForClient

\* Functions run below Destroy or the last Disconnect of Unregister.
LEMMA BusyBase ==
    ASSUME LockInv, Len(stack["app"]) > 1
    PROVE  AppBase \in {"destroyed", "unregistered"}
<1> DEFINE s == stack["app"]
<1>1. /\ Len(s) \in Nat \ {0} /\ s[Len(s)] \in Bases
      /\ \A i \in 1 .. Len(s) - 1 : Above(s[i], s[i + 1])
  BY AppTop DEF LockInv, Stacks, WellFormed, Threads
<1> HIDE DEF s
<1>2. \A k \in Nat \ {0} : k > 1 => k - 1 \in 1 .. k - 1 /\ (k - 1) + 1 = k
  OBVIOUS
<1>3. Above(s[Len(s) - 1], s[Len(s)])
  BY <1>1, <1>2 DEF s
<1>4. s[Len(s)] \in {"destroyed", "unregistered"}
  BY <1>1, <1>3 DEF Above, Bases
<1> QED BY <1>4 DEF AppBase, s

LEMMA RetiredStates ==
    ASSUME LockInv, Retired, AppTopIn({"destroyed", "end"}) \/ Ending \/ Len(stack["app"]) > 1
    PROVE  ~serving
<1>1. CASE AppTopIn({"destroyed"})
  <2>1. Len(stack["app"]) = 1 /\ stack["app"][1] = "destroyed"
    BY <1>1, AppAlone DEF AppTopIn, Bases
  <2> QED BY <2>1 DEF Retired, AppBase
<1>2. CASE AppTopIn({"end"})
  <2>1. "app" \in Threads /\ At("app", "end")
    BY <1>2, AppTop DEF AppTopIn, At, Threads, LockInv
  <2>2. Len(stack["app"]) > 1
    BY <2>1, Called DEF LockInv, Bases
  <2> QED BY <2>2, BusyBase DEF Retired
<1>3. CASE Ending
  <2>1. Len(stack["app"]) > 1
    BY <1>3, AppTop DEF Ending, LockInv
  <2> QED BY <2>1, BusyBase DEF Retired
<1>4. CASE Len(stack["app"]) > 1
  BY <1>4, BusyBase DEF Retired
<1> QED BY <1>1, <1>2, <1>3, <1>4 DEF AppTopIn

\* A step that leaves the bottom of the stack alone.
LEMMA EmptyKeeps ==
    ASSUME LockInv, EmptyInv, "establish" \notin Faults, [Next]_vars,
           AppBase' = AppBase, bound' = bound, serving' = serving,
           Ending' => Ending \/ AllClosed',
           AppTopIn({"destroyed", "end"})' => NoSessions'
    PROVE  EmptyInv'
<1>1. Retired' /\ Released'
  BY DEF EmptyInv, Retired, Released
<1>2. AppBase \in {"notify", "unregistered"} => NoSessions'
  BY TableShrinks DEF EmptyInv, Retired, Emptied
<1>3. Ending => AllClosed'
  BY TableShrinks, RetiredStates DEF EmptyInv, Emptied
<1> QED BY <1>1, <1>2, <1>3 DEF EmptyInv, Emptied

\* A step of another thread.
LEMMA OthersEmpty ==
    ASSUME LockInv, EmptyInv, "establish" \notin Faults, [Next]_vars,
           stack'["app"] = stack["app"], bound' = bound, serving' = serving
    PROVE  EmptyInv'
<1>1. AppBase' = AppBase /\ (Ending' => Ending) /\ (AppTopIn({"destroyed", "end"})' => AppTopIn({"destroyed", "end"}))
  BY DEF AppBase, Ending, AppTopIn
<1>2. AppTopIn({"destroyed", "end"}) => NoSessions'
  BY TableShrinks, RetiredStates DEF EmptyInv, Emptied
<1> QED BY <1>1, <1>2, EmptyKeeps

\* The three ways on of the thread that unregisters.
LEMMA GoesEmpty ==
    ASSUME LockInv, EmptyInv, "establish" \notin Faults, [Next]_vars, bound' = bound, serving' = serving,
           Len(stack["app"]) > 1, NEW l \in Labels, Goto("app", l),
           l # "destroyed", l = "end" => NoSessions'
    PROVE  EmptyInv'
<1>1. stack'["app"][1] = l /\ AppBase' = AppBase /\ (Ending' => Ending)
  BY AppGoes
<1> QED BY <1>1, EmptyKeeps DEF AppTopIn

LEMMA CallsEmpty ==
    ASSUME LockInv, EmptyInv, "establish" \notin Faults, [Next]_vars, bound' = bound, serving' = serving,
           Len(stack["app"]) > 1, NEW l \in Labels, NEW r \in Labels, Call("app", l, r),
           l \notin {"destroyed", "end"}, r = "end" => AllClosed'
    PROVE  EmptyInv'
<1>1. stack'["app"][1] = l /\ AppBase' = AppBase /\ (r # "end" /\ Ending' => Ending)
  BY AppCalls
<1> QED BY <1>1, EmptyKeeps DEF AppTopIn

LEMMA ReturnsEmpty ==
    ASSUME LockInv, EmptyInv, "establish" \notin Faults, [Next]_vars, bound' = bound, serving' = serving,
           Len(stack["app"]) > 1, Return("app"),
           stack["app"][2] \in {"destroyed", "end"} => NoSessions'
    PROVE  EmptyInv'
<1>1. stack'["app"][1] = stack["app"][2] /\ AppBase' = AppBase /\ (Ending' => Ending)
  BY AppReturns
<1> QED BY <1>1, EmptyKeeps DEF AppTopIn

LEMMA AppStepEmpties ==
    ASSUME LockInv, EmptyInv, "establish" \notin Faults,
           Step("app") \/ ReceiveLocked("app") \/ AnswerFails("app") \/ UpdateFails("app")
    PROVE  EmptyInv'
<1>1. "app" \in Threads
  BY DEF Threads
<1>2. [Next]_vars
  BY <1>1 DEF Next
<1>3. bound' = bound /\ serving' = serving
  BY DEF Step, HandleReceivedSessionMessage, HandleClientDisconnection, Handled, ReadDone,
         UpdateSessions, SessionsUpdated, Disconnect, ShutDownAllSessions, Graceful, WaitForSessions,
         WaitAgain, GiveUp, CheckSessions, ForceShutdown, ShutDownDone, ReceiveLocked, AnswerFails,
         UpdateFails
<1>4. Len(stack["app"]) > 1
  <2>1. stack["app"] # <<>> /\ Head(stack["app"]) \notin Bases \cup {"loop"}
    BY <1>1, OneStack DEF LockInv
  <2>2. At("app", Head(stack["app"]))
    BY <2>1 DEF At
  <2> QED BY <1>1, <2>1, <2>2, Called DEF LockInv
<1>5. ASSUME NEW x, At("app", x) PROVE stack["app"][1] = x /\ Above(x, stack["app"][2])
  BY <1>1, <1>4, <1>5, Position DEF LockInv
<1>6. ASSUME NEW l \in Labels \ {"destroyed", "end"}, Goto("app", l) PROVE EmptyInv'
  BY <1>2, <1>3, <1>4, <1>6, GoesEmpty
<1>7. ASSUME NEW l \in Labels \ {"destroyed", "end"}, NEW r \in Labels \ {"end"}, Call("app", l, r) PROVE EmptyInv'
  BY <1>2, <1>3, <1>4, <1>7, CallsEmpty
<1>8. CASE \/ HandleReceivedSessionMessage("app") \/ HandleClientDisconnection("app") \/ Handled("app")
           \/ UpdateSessions("app") \/ Graceful("app") \/ WaitAgain("app") \/ GiveUp("app") \/ ReceiveLocked("app")
  BY <1>6, <1>8 DEF HandleReceivedSessionMessage, HandleClientDisconnection, Handled, UpdateSessions, Graceful,
                    WaitAgain, GiveUp, ReceiveLocked, Labels
<1>9. CASE ReadDone("app") \/ WaitForSessions("app") \/ AnswerFails("app") \/ UpdateFails("app")
  BY <1>6, <1>7, <1>9 DEF ReadDone, WaitForSessions, AnswerFails, UpdateFails, Labels
<1>10. CASE SessionsUpdated("app")
  <2>1. At("app", "updating") /\ Return("app")
    BY <1>10 DEF SessionsUpdated
  <2>2. stack["app"][2] # "destroyed"
    BY <1>5, <2>1 DEF Above, Shutting
  <2>3. stack["app"][2] = "end" => Ending
    BY <1>4, <2>1, AppReturns
  <2>4. AllClosed => NoSessions'
    BY <1>10 DEF SessionsUpdated, AllClosed, NoSessions
  <2> QED BY <1>2, <1>3, <1>4, <2>1, <2>2, <2>3, <2>4, ReturnsEmpty DEF EmptyInv, Emptied
<1>11. CASE Disconnect("app")
  <2>1. At("app", "disconnect") /\ (Goto("app", "shut") \/ Return("app"))
    BY <1>11 DEF Disconnect
  <2>2. stack["app"][2] \notin {"destroyed", "end"}
    BY <1>5, <2>1 DEF Above, Shutting, Reading
  <2> QED BY <1>2, <1>3, <1>4, <1>6, <2>1, <2>2, ReturnsEmpty DEF Labels
<1>12. CASE ShutDownAllSessions("app")
  <2>1. \/ NoSessions /\ Return("app")
        \/ \E l \in {"graceful", "check"} : Goto("app", l)
    BY <1>12 DEF ShutDownAllSessions
  <2>2. NoSessions => NoSessions'
    BY <1>12 DEF ShutDownAllSessions, NoSessions
  <2> QED BY <1>2, <1>3, <1>4, <1>6, <2>1, <2>2, ReturnsEmpty DEF Labels
<1>13. CASE CheckSessions("app")
  <2>1. \/ NoSessions /\ Goto("app", "end")
        \/ Goto("app", "force")
    BY <1>13 DEF CheckSessions
  <2>2. NoSessions => NoSessions'
    BY <1>13 DEF CheckSessions, NoSessions
  <2> QED BY <1>2, <1>3, <1>4, <1>6, <2>1, <2>2, GoesEmpty DEF Labels
<1>14. CASE ForceShutdown("app")
  <2>1. Call("app", "update", "end")
    BY <1>14 DEF ForceShutdown
  <2>2. AllClosed'
    BY <1>14 DEF ForceShutdown, Shutdown, ShutdownState, AllClosed
  <2> QED BY <1>2, <1>3, <1>4, <2>1, <2>2, CallsEmpty DEF Labels
<1>15. CASE ShutDownDone("app")
  <2>1. At("app", "end") /\ Return("app") /\ UNCHANGED session
    BY <1>15 DEF ShutDownDone
  <2>2. NoSessions'
    BY <1>5, <2>1 DEF EmptyInv, Emptied, AppTopIn, NoSessions
  <2> QED BY <1>2, <1>3, <1>4, <2>1, <2>2, ReturnsEmpty
<1> QED BY <1>8, <1>9, <1>10, <1>11, <1>12, <1>13, <1>14, <1>15 DEF Step

LEMMA NextEmpty ==
    ASSUME LockInv, EmptyInv, "establish" \notin Faults, [Next]_vars
    PROVE  EmptyInv'
<1>1. "app" \in Threads /\ "msg" \in Threads
  BY DEF Threads
\* A step of Unregister itself, which is alone on its stack.
<1>2. ASSUME NEW x \in Bases, At("app", x)
      PROVE  Len(stack["app"]) = 1 /\ stack["app"][1] = x /\ AppBase = x /\ stack["app"] # <<>>
  <2>1. stack["app"][1] = x /\ stack["app"] # <<>>
    BY <1>1, <1>2, Position DEF LockInv
  <2>2. Len(stack["app"]) = 1
    BY <2>1, AppAlone
  <2> QED BY <2>1, <2>2 DEF AppBase
<1>3. ASSUME NEW x \in Bases, NEW l \in Bases \ {"destroyed"}, At("app", x), Goto("app", l)
      PROVE  AppBase = x /\ AppBase' = l /\ ~AppTopIn({"destroyed", "end"})' /\ ~Ending'
  <2>1. Len(stack["app"]) = 1 /\ AppBase = x /\ stack["app"] # <<>>
    BY <1>2, <1>3
  <2>2. Len(stack'["app"]) = 1 /\ stack'["app"][1] = l
    BY <1>1, <1>3, <2>1, GotoShape DEF LockInv, Labels, Bases
  <2> QED BY <2>1, <2>2 DEF AppBase, AppTopIn, Ending, Bases
<1>4. ASSUME NEW x \in Bases, NEW l \in {"shut", "disconnect"}, NEW r \in Bases, At("app", x), Call("app", l, r)
      PROVE  AppBase = x /\ AppBase' = r /\ ~AppTopIn({"destroyed", "end"})' /\ ~Ending'
  <2>1. Len(stack["app"]) = 1 /\ AppBase = x /\ stack["app"] # <<>>
    BY <1>2, <1>4
  <2>2. Len(stack'["app"]) = 2 /\ stack'["app"][1] = l /\ stack'["app"][2] = r
    <3>1. l \in Labels /\ r \in Labels
      BY DEF Labels, Bases
    <3>2. Len(stack'["app"]) = Len(stack["app"]) + 1 /\ stack'["app"][1] = l /\ stack'["app"][2] = r
      <4>1. Stacks /\ Call("app", l, r) /\ stack["app"] # <<>>
        BY <1>4, <2>1 DEF LockInv
      <4> QED BY ONLY <1>1, <3>1, <4>1, CallShape
    <3>3. Len(stack["app"]) = 1
      BY <2>1
    <3> QED BY ONLY <3>2, <3>3
  <2> QED BY <2>1, <2>2 DEF AppBase, AppTopIn, Ending, Bases
<1>5. CASE UNCHANGED vars
  BY <1>5, OthersEmpty DEF vars
<1>6. CASE Register
  <2>1. stack'["app"] = <<"registered">> /\ bound'
    BY <1>6 DEF Register
  <2> QED BY <2>1 DEF EmptyInv, Retired, Released, Emptied, AppBase, AppTopIn, Ending
<1>7. CASE Unregister \/ Join
  <2>1. PICK x \in {"registered", "join"}, l \in {"join", "servers"} : At("app", x) /\ Goto("app", l)
    BY <1>7 DEF Unregister, Join
  <2>2. AppBase = x /\ AppBase' = l /\ ~AppTopIn({"destroyed", "end"})' /\ ~Ending'
    BY <1>3, <2>1 DEF Bases
  <2>3. bound' = bound
    BY <1>7 DEF Unregister, Join
  <2> QED BY <2>2, <2>3 DEF EmptyInv, Retired, Released, Emptied
<1>8. CASE UnregisterServers
  <2>1. AppBase = "servers" /\ AppBase' = "destroy" /\ ~AppTopIn({"destroyed", "end"})' /\ ~Ending'
    BY <1>3, <1>8 DEF UnregisterServers, Bases
  <2> QED BY <1>8, <2>1 DEF UnregisterServers, EmptyInv, Retired, Released, Emptied
<1>9. CASE Destroy
  <2>1. AppBase = "destroy" /\ AppBase' = "destroyed" /\ ~AppTopIn({"destroyed", "end"})' /\ ~Ending'
    BY <1>4, <1>9 DEF Destroy, Bases
  <2> QED BY <1>9, <2>1 DEF Destroy, EmptyInv, Retired, Released, Emptied
<1>10. CASE Destroyed
  <2>1. AppBase = "destroyed" /\ AppBase' = "notify" /\ ~AppTopIn({"destroyed", "end"})' /\ ~Ending'
    BY <1>3, <1>10 DEF Destroyed, Bases
  <2>2. NoSessions'
    BY <1>2, <1>10 DEF Destroyed, Bases, EmptyInv, Emptied, AppTopIn, NoSessions
  <2> QED BY <1>10, <2>1, <2>2 DEF Destroyed, EmptyInv, Retired, Released, Emptied
<1>11. CASE NotifyAndDisconnect
  <2>1. AppBase = "notify" /\ AppBase' = "unregistered" /\ ~AppTopIn({"destroyed", "end"})' /\ ~Ending'
    BY <1>4, <1>11 DEF NotifyAndDisconnect, Bases
  <2>2. NoSessions'
    BY <1>11, <2>1 DEF NotifyAndDisconnect, EmptyInv, Emptied, NoSessions
  <2> QED BY <1>11, <2>1, <2>2 DEF NotifyAndDisconnect, EmptyInv, Retired, Released, Emptied
<1>12. CASE MsgChannelReceiveFunc
  <2>1. stack'["app"] = stack["app"] /\ bound' = bound /\ serving' = serving
    BY <1>1, <1>12 DEF MsgChannelReceiveFunc, At, Call, Return, LockInv, Stacks
  <2> QED BY <2>1, OthersEmpty
<1>13. ASSUME NEW t \in Threads, Step(t) \/ ReceiveLocked(t) \/ AnswerFails(t) \/ UpdateFails(t)
       PROVE  EmptyInv'
  <2>1. CASE t = "app"
    BY <1>13, <2>1, AppStepEmpties
  <2>2. CASE t = "msg"
    <3>1. stack'["app"] = stack["app"]
      BY <1>1, <1>13, <2>2, OneStack DEF LockInv
    <3>2. bound' = bound /\ serving' = serving
      BY <1>13 DEF Step, HandleReceivedSessionMessage, HandleClientDisconnection, Handled, ReadDone,
           UpdateSessions, SessionsUpdated, Disconnect, ShutDownAllSessions, Graceful, WaitForSessions,
           WaitAgain, GiveUp, CheckSessions, ForceShutdown, ShutDownDone, ReceiveLocked, AnswerFails,
           UpdateFails
    <3> QED BY <3>1, <3>2, OthersEmpty
  <2> QED BY <2>1, <2>2 DEF Threads
<1> QED BY <1>5, <1>6, <1>7, <1>8, <1>9, <1>10, <1>11, <1>12, <1>13 DEF Next, Unregistering, EstablishSessionForClient

LEMMA InitEmpty ==
    ASSUME Init
    PROVE  EmptyInv
<1>1. stack["app"] = <<"unregistered">> /\ ~serving /\ NoSessions /\ AllClosed
  BY DEF Init, Threads, NoSessions, AllClosed
<1>2. AppBase = "unregistered" /\ ~AppTopIn({"destroyed", "end"})
  BY <1>1 DEF AppBase, AppTopIn
<1> QED BY <1>1, <1>2 DEF EmptyInv, Retired, Released, Emptied

(***************************************************************************)
(* Whatever ShutDownAllSessions finds in the table, opening, open, closing *)
(* or closed, its m_pMessageChannel is set, for any number of sessions and *)
(* registrations, with any failure of the transport and even if the        *)
(* message thread outlives its join, as long as no other thread opens      *)
(* sessions: UnregisterProtocolServer comes before Destroy, so nothing is  *)
(* accepted after the last look at the table.                              *)
(***************************************************************************)
THEOREM ShutdownHasChannel ==
    ASSUME "establish" \notin Faults
    PROVE  Spec => []EntryHasChannel
<1>1. Init => LockInv /\ EmptyInv
  BY InitLock, InitEmpty
<1>2. LockInv /\ EmptyInv /\ [Next]_vars => (LockInv /\ EmptyInv)'
  BY NextLock, NextEmpty
<1>3. LockInv /\ EmptyInv => EntryHasChannel
  BY DEF EmptyInv, Released, Emptied, EntryHasChannel
<1> QED BY <1>1, <1>2, <1>3, PTL DEF Spec

=============================================================================
