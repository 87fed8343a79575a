----------------------------- MODULE EventProofs ----------------------------
(***************************************************************************)
(* Event streaming, for any number of providers, sessions and threads that *)
(* write, and for every size of chunks, events and windows: a writer finds *)
(* the session of its provider, a session object is in one place, and what *)
(* a client receives is a prefix of what was written for it.               *)
(***************************************************************************)
EXTENDS EventServer, FiniteSetTheorems, SequenceTheorems, TLAPS

-----------------------------------------------------------------------------
(***************************************************************************)
(* Types.                                                                  *)
(***************************************************************************)
Chunk == Seq(Part)
Results == {"Success", "Unavailable", "Error"}
Reply == [kind : {"Response"}, result : Results]
Packet == [kind : {"Data"}, part : Part] \cup Reply
Message == [kind : {"Subscribe"}, p : Providers] \cup [kind : {"Apply"}, p : Providers, enable : BOOLEAN]
             \cup [kind : {"Unsubscribe"}]
ProviderType == [reg : BOOLEAN, session : Sessions \cup {None}, enabled : BOOLEAN, chunks : Seq(Chunk),
                 index : Nat, lock : Writers \cup {None}]
SessionType == [queue : Seq(Chunk), chunk : Chunk, payload : Part \cup {None}, reply : Reply \cup {None},
                of : Providers \cup {None}]
OpType == [name : {"none", "terminate", "unregister", "disable", "unsubscribe"}, pc : {"none", "flush", "off", "reset"},
           p : Providers \cup {None}, s : Sessions \cup {None}]
WriterType == [pc : {"idle", "checked", "locked"}, p : Providers \cup {None}]
ClientType == [pc : {"new", "ready", "subscribing", "updating", "failed", "done"}, subscribed : BOOLEAN,
               updates : Nat, got : Seq(Part)]

ServerTypes ==
    /\ prov \in [Providers -> ProviderType]
    /\ pending \subseteq Sessions /\ objs \subseteq Sessions
    /\ sess \in [Sessions -> SessionType]
    /\ op \in OpType /\ writer \in [Writers -> WriterType]
    /\ written \in [Sessions -> Seq(Part)]
    /\ fault \in BOOLEAN /\ risk \subseteq Providers
WireTypes ==
    /\ link \in [Sessions -> {"down", "accepted", "up", "leaving"}]
    /\ toServer \in [Sessions -> Seq(Message)] /\ toClient \in [Sessions -> Seq(Packet)]
    /\ cl \in [Sessions -> ClientType]
TInv == ServerTypes /\ WireTypes

(***************************************************************************)
(* Who points to whom.  A session belongs to the provider it subscribed to *)
(* and to no other, since a client sends one request to subscribe; a       *)
(* provider points to an object that exists; an operation that holds the   *)
(* update lock is about a provider and the session it has, and only while  *)
(* a provider is unregistered does it keep its session unregistered.       *)
(***************************************************************************)
Fresh(s) == cl[s].pc \in {"new", "ready"} /\ ~cl[s].subscribed
Asks(s, i) == toServer[s][i].kind = "Subscribe"

OneSubscription(s) ==
    /\ Fresh(s) => sess[s].of = None
    /\ \A i \in 1..Len(toServer[s]) :
          Asks(s, i) => /\ ~Fresh(s) /\ sess[s].of = None
                        /\ \A j \in 1..Len(toServer[s]) : Asks(s, j) => j = i
Subscribed(s) ==
    /\ cl[s].subscribed \/ cl[s].pc = "updating" => cl[s].subscribed /\ sess[s].of # None
    /\ \A i \in 1..Len(toServer[s]) : toServer[s][i].kind = "Apply" => sess[s].of # None
    /\ \A i \in 1..Len(toClient[s]) : toClient[s][i] = Response("Success") => sess[s].of # None
    /\ sess[s].reply = Response("Success") => sess[s].of # None
Placed(s) ==
    /\ s \in pending => s \in objs /\ sess[s].of = None
    /\ sess[s].of # None => link[s] # "accepted" /\ cl[s].pc # "new"
    /\ link[s] = "accepted" => cl[s].pc = "new"
    /\ link[s] = "up" /\ s \in objs /\ sess[s].of # None => prov[sess[s].of].session = s
    /\ (\E i \in 1..Len(toServer[s]) : toServer[s][i].kind = "Unsubscribe") => link[s] = "leaving"
Points(p) ==
    prov[p].session # None => prov[p].session \in objs /\ sess[prov[p].session].of = p
OpOK ==
    /\ op.name = "none" <=> op.pc = "none"
    /\ op.name = "none" => op = NoOp
    /\ op.name # "none" =>
          /\ op.p \in Providers
          /\ op.name # "disable" => op.s = prov[op.p].session
          /\ op.name \in {"terminate", "unsubscribe"} => op.s \in Sessions /\ link[op.s] # "up"
          /\ op.pc \in {"flush", "off"} /\ op.name # "unregister" => prov[op.p].enabled
          /\ op.pc \in {"flush", "off"} => prov[op.p].reg
          /\ op.pc = "reset" => IF op.name = "unregister" THEN ~prov[op.p].reg ELSE ~prov[op.p].enabled
    /\ \A p \in Providers :
          ~prov[p].reg => \/ prov[p].session = None
                          \/ op.name = "unregister" /\ op.pc = "reset" /\ op.p = p

PlaceInv ==
    /\ \A s \in Sessions : OneSubscription(s) /\ Subscribed(s) /\ Placed(s)
    /\ \A p \in Providers : Points(p)
    /\ OpOK

(***************************************************************************)
(* Writers.  Unless a provider is at risk, it is written to only while it  *)
(* is registered, enabled and not flushed to be turned off, and it has a   *)
(* session then; otherwise its chunks are empty.                           *)
(***************************************************************************)
Closing(p) == op.p = p /\ op.pc \in {"off", "reset"}
Open(p) == prov[p].reg /\ prov[p].enabled /\ ~Closing(p)

WriterInv ==
    \A p \in Providers : p \notin risk =>
        /\ prov[p].reg /\ prov[p].enabled => prov[p].session # None
        /\ \A w \in Writers : Inside(w, p) => Open(p)
        /\ ~Open(p) => prov[p].chunks = <<>>

(***************************************************************************)
(* Chunks hold at most ChunkSize, and only the last one of a provider is   *)
(* empty.                                                                  *)
(***************************************************************************)
Filling(q) ==
    /\ \A i \in 1..Len(q) : Len(q[i]) <= ChunkSize
    /\ \A i \in 1..Len(q) : i < Len(q) => q[i] # <<>>
ChunkInv ==
    /\ \A p \in Providers : Filling(prov[p].chunks)
    /\ \A s \in Sessions : \A i \in 1..Len(sess[s].queue) : sess[s].queue[i] # <<>>
CallInv ==
    /\ \A w \in Writers : writer[w].pc # "idle" => writer[w].p \in Providers
    /\ op.pc # "none" => op.p \in Providers
BInv == TInv /\ ChunkInv /\ CallInv

(***************************************************************************)
(* Data on the way.  x is the part of w from a to b; the chunks of q are,  *)
(* one after the other.                                                    *)
(***************************************************************************)
Slice(w, a, x, b) ==
    /\ b = a + Len(x) /\ b <= Len(w)
    /\ \A k \in 1..Len(x) : x[k] = w[a + k]
Carries(w, a, q, b) ==
    \E off \in [0..Len(q) -> a..b] :
        /\ off[0] = a /\ off[Len(q)] = b
        /\ \A i, j \in 0..Len(q) : i <= j => off[i] <= off[j]
        /\ \A i \in 1..Len(q) : Slice(w, off[i - 1], q[i], off[i])
Content(m) == IF m.kind = "Data" THEN <<m.part>> ELSE <<>>
Contents(q) == [i \in 1..Len(q) |-> Content(q[i])]
Held(payload) == IF payload = None THEN <<>> ELSE <<payload>>

Active(s) == link[s] \in {"up", "leaving"} /\ sess[s].of # None /\ prov[sess[s].of].session = s

(***************************************************************************)
(* What was written for a session is what its client has, then what is in  *)
(* the window, the packet held back, the rest of the chunk that is being   *)
(* sent, the queue, and the chunks of the provider.                        *)
(***************************************************************************)
InFlight(s, b) ==
    \E c, d, e \in 0..Len(written[s]) :
        /\ Slice(written[s], b, Held(sess[s].payload), c)
        /\ Slice(written[s], c, sess[s].chunk, d)
        /\ Carries(written[s], d, sess[s].queue, e)
        /\ Carries(written[s], e, prov[sess[s].of].chunks, Len(written[s]))
Arrived(s, a, b) ==
    Slice(written[s], 0, cl[s].got, a) /\ Carries(written[s], a, Contents(toClient[s]), b)
Streams(s) ==
    \E a, b \in 0..Len(written[s]) : Arrived(s, a, b) /\ (Active(s) => InFlight(s, b))
\* The answer to a request to subscribe is in front of the data.
Answered(s) ==
    cl[s].pc = "subscribing" =>
        IF toClient[s] = <<>> THEN Active(s) => sess[s].reply # None
        ELSE toClient[s][1].kind = "Response"
Unused(s) ==
    sess[s].of = None => /\ sess[s].queue = <<>> /\ sess[s].chunk = <<>> /\ sess[s].payload = None
                         /\ written[s] = <<>>
StreamInv ==
    \A s \in Sessions : Unused(s) /\ Answered(s) /\ (sess[s].of \notin risk => Streams(s))

-----------------------------------------------------------------------------
(***************************************************************************)
(* Slices and chunks of what was written.                                  *)
(***************************************************************************)
LEMMA SliceLonger ==
  ASSUME NEW D, NEW w \in Seq(D), NEW y \in Seq(D), NEW x \in Seq(D), NEW a \in Nat, NEW b \in Nat, Slice(w, a, x, b)
  PROVE  Slice(w \o y, a, x, b)
<1>1. Len(w \o y) = Len(w) + Len(y) /\ \A k \in 1..Len(w) : (w \o y)[k] = w[k]
  BY ConcatProperties
<1>2. Len(w) \in Nat /\ Len(x) \in Nat /\ Len(y) \in Nat
  BY LenProperties
<1>3. \A k \in 1..Len(x) : a + k \in 1..Len(w)
  BY <1>2 DEF Slice
<1> QED BY <1>1, <1>2, <1>3 DEF Slice

LEMMA SliceEnd ==
  ASSUME NEW D, NEW w \in Seq(D), NEW y \in Seq(D)
  PROVE  Slice(w \o y, Len(w), y, Len(w \o y))
<1>1. Len(w \o y) = Len(w) + Len(y) /\ \A k \in 1..Len(y) : (w \o y)[Len(w) + k] = y[k]
  <2>1. Len(w \o y) = Len(w) + Len(y)
    BY ConcatProperties
  <2>2. ASSUME NEW k \in 1..Len(y) PROVE (w \o y)[Len(w) + k] = y[k]
    <3>1. Len(w) \in Nat /\ Len(y) \in Nat
      BY LenProperties
    <3>2. Len(w) + k \in (Len(w) + 1)..(Len(w) + Len(y)) /\ Len(w) + k \in 1..(Len(w) + Len(y)) /\ Len(w) + k > Len(w)
      BY <3>1
    <3> QED BY <3>1, <3>2
  <2> QED BY <2>1, <2>2
<1>2. Len(w) \in Nat /\ Len(y) \in Nat
  BY LenProperties
<1> QED BY <1>1, <1>2 DEF Slice

LEMMA SliceConcat ==
  ASSUME NEW D, NEW w \in Seq(D), NEW x \in Seq(D), NEW y \in Seq(D), NEW a \in Nat, NEW b \in Nat, NEW c \in Nat,
         Slice(w, a, x, b), Slice(w, b, y, c)
  PROVE  Slice(w, a, x \o y, c)
<1>1. Len(x) \in Nat /\ Len(y) \in Nat /\ Len(w) \in Nat /\ Len(x \o y) = Len(x) + Len(y)
  BY LenProperties, ConcatProperties
<1>2. ASSUME NEW k \in 1..Len(x \o y) PROVE (x \o y)[k] = w[a + k]
  <2>1. CASE k <= Len(x)
    <3>1. k \in 1..Len(x) /\ (x \o y)[k] = x[k]
      BY <1>1, <2>1
    <3> QED BY <3>1 DEF Slice
  <2>2. CASE k > Len(x)
    <3>1. k - Len(x) \in 1..Len(y) /\ (x \o y)[k] = y[k - Len(x)]
      BY <1>1, <2>2
    <3>2. b + (k - Len(x)) = a + k
      BY <1>1, <3>1 DEF Slice
    <3>3. y[k - Len(x)] = w[b + (k - Len(x))]
      BY <3>1 DEF Slice
    <3> QED BY <3>1, <3>2, <3>3
  <2> QED BY <1>1, <2>1, <2>2
<1> QED BY <1>1, <1>2 DEF Slice

\* The first element and the rest.
LEMMA SliceCut ==
  ASSUME NEW D, NEW w \in Seq(D), NEW x \in Seq(D), NEW a \in Nat, NEW b \in Nat, Slice(w, a, x, b), x # <<>>
  PROVE  Slice(w, a, <<Head(x)>>, a + 1) /\ Slice(w, a + 1, Tail(x), b) /\ a + 1 <= b
<1>1. /\ Len(x) \in Nat /\ Len(x) > 0 /\ Head(x) = x[1] /\ Tail(x) \in Seq(D) /\ Len(Tail(x)) = Len(x) - 1
      /\ \A k \in 1..Len(Tail(x)) : Tail(x)[k] = x[k + 1]
  BY HeadTailProperties, LenProperties
<1>2. Len(w) \in Nat
  BY LenProperties
<1>3. x[1] = w[a + 1]
  BY <1>1 DEF Slice
<1>4. ASSUME NEW k \in 1..Len(Tail(x)) PROVE Tail(x)[k] = w[(a + 1) + k]
  <2>1. k + 1 \in 1..Len(x) /\ a + (k + 1) = (a + 1) + k
    BY <1>1
  <2> QED BY <1>1, <2>1 DEF Slice
<1> QED BY <1>1, <1>2, <1>3, <1>4 DEF Slice

LEMMA SliceNothing ==
  ASSUME NEW w, NEW a \in Nat, Len(w) \in Nat, a <= Len(w)
  PROVE  Slice(w, a, <<>>, a)
BY DEF Slice

-----------------------------------------------------------------------------
LEMMA CarriesNothing ==
  ASSUME NEW w, NEW a \in Nat
  PROVE  Carries(w, a, <<>>, a)
<1> DEFINE off == [i \in 0..0 |-> a]
<1>1. off \in [0..Len(<<>>) -> a..a] /\ off[0] = a /\ off[Len(<<>>)] = a
  OBVIOUS
<1>2. \A i \in 1..Len(<<>>) : Slice(w, off[i - 1], <<>>[i], off[i])
  OBVIOUS
<1>3. \A i, j \in 0..Len(<<>>) : i <= j => off[i] <= off[j]
  OBVIOUS
<1> QED BY <1>1, <1>2, <1>3 DEF Carries

LEMMA CarriesBounds ==
  ASSUME NEW w, NEW q, Len(q) \in Nat, NEW a \in Nat, NEW b \in Nat, Carries(w, a, q, b)
  PROVE  a <= b
<1>1. PICK off \in [0..Len(q) -> a..b] : off[0] = a
  BY DEF Carries
<1> QED BY <1>1

LEMMA CarriesLonger ==
  ASSUME NEW D, NEW w \in Seq(D), NEW y \in Seq(D), NEW q \in Seq(Seq(D)), NEW a \in Nat, NEW b \in Nat,
         Carries(w, a, q, b)
  PROVE  Carries(w \o y, a, q, b)
<1>1. PICK off \in [0..Len(q) -> a..b] :
         /\ off[0] = a /\ off[Len(q)] = b
         /\ \A i, j \in 0..Len(q) : i <= j => off[i] <= off[j]
         /\ \A i \in 1..Len(q) : Slice(w, off[i - 1], q[i], off[i])
  BY DEF Carries
<1>2. ASSUME NEW i \in 1..Len(q) PROVE Slice(w \o y, off[i - 1], q[i], off[i])
  <2>0. Len(q) \in Nat
    BY LenProperties
  <2>1. i - 1 \in 0..Len(q) /\ i \in 0..Len(q)
    BY <2>0
  <2>a. off[i - 1] \in a..b /\ off[i] \in a..b
    BY <1>1, <2>1
  <2>b. q[i] \in Seq(D)
    BY ElementOfSeq
  <2>2. off[i - 1] \in Nat /\ off[i] \in Nat /\ q[i] \in Seq(D)
    BY <2>a, <2>b
  <2>3. Slice(w, off[i - 1], q[i], off[i])
    BY <1>1
  <2> QED BY <2>2, <2>3, SliceLonger
<1> QED BY <1>1, <1>2 DEF Carries

LEMMA CarriesConcat ==
  ASSUME NEW D, NEW w, NEW q \in Seq(D), NEW r \in Seq(D), NEW a \in Nat, NEW b \in Nat, NEW c \in Nat,
         Carries(w, a, q, b), Carries(w, b, r, c)
  PROVE  Carries(w, a, q \o r, c)
<1>1. PICK f \in [0..Len(q) -> a..b] :
         /\ f[0] = a /\ f[Len(q)] = b
         /\ \A i, j \in 0..Len(q) : i <= j => f[i] <= f[j]
         /\ \A i \in 1..Len(q) : Slice(w, f[i - 1], q[i], f[i])
  BY DEF Carries
<1>2. PICK g \in [0..Len(r) -> b..c] :
         /\ g[0] = b /\ g[Len(r)] = c
         /\ \A i, j \in 0..Len(r) : i <= j => g[i] <= g[j]
         /\ \A i \in 1..Len(r) : Slice(w, g[i - 1], r[i], g[i])
  BY DEF Carries
<1>3. PICK m \in Nat, n \in Nat : m = Len(q) /\ n = Len(r) /\ Len(q \o r) = m + n
  BY LenProperties, ConcatProperties
<1>4. a <= b /\ b <= c
  BY <1>1, <1>2, <1>3
<1> DEFINE h == [i \in 0..(m + n) |-> IF i <= m THEN f[i] ELSE g[i - m]]
<1>5. h \in [0..(m + n) -> a..c]
  <2>1. ASSUME NEW i \in 0..(m + n), i <= m PROVE f[i] \in a..c
    <3>1. i \in 0..Len(q)
      BY <1>3, <2>1
    <3>2. f[i] \in a..b
      BY <1>1, <3>1
    <3> QED BY <1>4, <3>2
  <2>2. ASSUME NEW i \in 0..(m + n), ~(i <= m) PROVE g[i - m] \in a..c
    <3>1. i - m \in 0..Len(r)
      BY <2>2, <1>3
    <3>2. g[i - m] \in b..c
      BY <1>2, <3>1
    <3> QED BY <1>4, <3>2
  <2> QED BY <2>1, <2>2
<1>6. h[0] = a /\ h[m + n] = c
  <2>1. h[0] = a
    BY <1>1, <1>3
  <2>2. CASE n = 0
    BY <1>1, <1>2, <1>3, <2>2
  <2>3. CASE n > 0
    <3>1. m + n \in 0..(m + n) /\ ~(m + n <= m) /\ (m + n) - m = n
      BY <1>3, <2>3
    <3>2. h[m + n] = g[n]
      BY <3>1
    <3> QED BY <1>2, <1>3, <2>1, <3>2
  <2> QED BY <1>3, <2>1, <2>2, <2>3
<1>7. ASSUME NEW i \in 1..(m + n) PROVE Slice(w, h[i - 1], (q \o r)[i], h[i])
  <2>1. CASE i <= m
    <3>1. h[i - 1] = f[i - 1] /\ h[i] = f[i] /\ (q \o r)[i] = q[i] /\ i \in 1..Len(q)
      BY <1>3, <2>1
    <3> QED BY <1>1, <3>1
  <2>2. CASE i > m
    <3>1. i - m \in 1..n /\ (q \o r)[i] = r[i - m] /\ h[i] = g[i - m]
      BY <1>3, <2>2
    <3>2. h[i - 1] = g[(i - m) - 1]
      <4>1. CASE i = m + 1
        BY <1>1, <1>2, <1>3, <4>1
      <4>2. CASE i # m + 1
        <5>1. i - 1 \in 0..(m + n) /\ ~(i - 1 <= m) /\ (i - 1) - m = (i - m) - 1
          BY <1>3, <2>2, <4>2
        <5> QED BY <5>1
      <4> QED BY <4>1, <4>2
    <3>3. Slice(w, g[(i - m) - 1], r[i - m], g[i - m])
      BY <1>2, <1>3, <3>1
    <3> QED BY <3>1, <3>2, <3>3
  <2> QED BY <1>3, <2>1, <2>2
<1>8. ASSUME NEW i \in 0..(m + n), NEW j \in 0..(m + n), i <= j PROVE h[i] <= h[j]
  <2>1. CASE j <= m
    BY <1>1, <1>3, <1>8, <2>1
  <2>2. CASE i <= m /\ ~(j <= m)
    <3>1. i \in 0..m /\ j - m \in 0..n
      BY <1>3, <2>2
    <3>2. f[i] \in a..b /\ g[j - m] \in b..c /\ h[i] = f[i] /\ h[j] = g[j - m]
      BY <1>1, <1>2, <1>3, <2>2, <3>1
    <3> QED BY <3>2
  <2>3. CASE ~(i <= m)
    <3>1. i - m \in 0..n /\ j - m \in 0..n /\ i - m <= j - m /\ ~(j <= m)
      BY <1>3, <1>8, <2>3
    <3>2. h[i] = g[i - m] /\ h[j] = g[j - m]
      BY <2>3, <3>1
    <3> QED BY <1>2, <1>3, <3>1, <3>2
  <2> QED BY <1>3, <2>1, <2>2, <2>3
<1> HIDE DEF h
<1> QED BY <1>3, <1>5, <1>6, <1>7, <1>8 DEF Carries

LEMMA CarriesOne ==
  ASSUME NEW D, NEW w, NEW x \in Seq(D), NEW a \in Nat, NEW b \in Nat, Slice(w, a, x, b)
  PROVE  Carries(w, a, <<x>>, b)
<1> DEFINE off == [i \in 0..1 |-> IF i = 0 THEN a ELSE b]
<1>1. Len(x) \in Nat /\ b = a + Len(x)
  BY LenProperties DEF Slice
<1>2. off \in [0..1 -> a..b] /\ off[0] = a /\ off[1] = b
  BY <1>1
<1>3. Len(<<x>>) = 1 /\ <<x>>[1] = x
  OBVIOUS
<1>4. ASSUME NEW i \in 1..1 PROVE Slice(w, off[i - 1], <<x>>[i], off[i])
  <2>1. i = 1 /\ i - 1 = 0
    OBVIOUS
  <2> QED BY <1>2, <1>3, <2>1
<1>5. \A i, j \in 0..1 : i <= j => off[i] <= off[j]
  BY <1>1
<1> HIDE DEF off
<1> QED BY <1>2, <1>3, <1>4, <1>5 DEF Carries

LEMMA CarriesAppend ==
  ASSUME NEW D, NEW w, NEW q \in Seq(Seq(D)), NEW x \in Seq(D), NEW a \in Nat, NEW b \in Nat, NEW c \in Nat,
         Carries(w, a, q, b), Slice(w, b, x, c)
  PROVE  Carries(w, a, Append(q, x), c)
<1>1. Carries(w, b, <<x>>, c)
  BY CarriesOne
<1>2. Append(q, x) = q \o <<x>> /\ <<x>> \in Seq(Seq(D))
  OBVIOUS
<1> QED BY <1>1, <1>2, CarriesConcat

LEMMA CarriesTail ==
  ASSUME NEW D, NEW w, NEW q \in Seq(Seq(D)), NEW a \in Nat, NEW b \in Nat, Carries(w, a, q, b), q # <<>>
  PROVE  \E m \in a..b : Slice(w, a, Head(q), m) /\ Carries(w, m, Tail(q), b)
<1>1. PICK off \in [0..Len(q) -> a..b] :
         /\ off[0] = a /\ off[Len(q)] = b
         /\ \A i, j \in 0..Len(q) : i <= j => off[i] <= off[j]
         /\ \A i \in 1..Len(q) : Slice(w, off[i - 1], q[i], off[i])
  BY DEF Carries
<1>2. PICK n \in Nat : n = Len(q) /\ n > 0
  BY LenProperties, EmptySeq
<1>3. /\ Head(q) = q[1] /\ Len(Tail(q)) = n - 1 /\ \A i \in 1..(n - 1) : Tail(q)[i] = q[i + 1]
      /\ \A i \in 1..n : q[i] \in Seq(D)
  BY <1>2, HeadTailProperties, ElementOfSeq
<1> DEFINE h == [i \in 0..(n - 1) |-> off[i + 1]]
           m == off[1]
<1>4. m \in a..b /\ h \in [0..(n - 1) -> m..b] /\ h[0] = m /\ h[n - 1] = b
  <2>1. m \in a..b
    <3>1. 1 \in 0..Len(q)
      BY <1>2
    <3> QED BY <1>1, <3>1
  <2>2. ASSUME NEW i \in 0..(n - 1) PROVE off[i + 1] \in m..b
    <3>1. i + 1 \in 0..n /\ 1 \in 0..n /\ 1 <= i + 1
      BY <1>2
    <3>2. off[i + 1] \in a..b /\ m <= off[i + 1]
      BY <1>1, <1>2, <3>1
    <3> QED BY <2>1, <3>2
  <2>3. h[0] = m /\ h[n - 1] = b
    BY <1>1, <1>2
  <2> QED BY <2>1, <2>2, <2>3
<1>5. ASSUME NEW i \in 0..(n - 1), NEW j \in 0..(n - 1), i <= j PROVE h[i] <= h[j]
  <2>1. i + 1 \in 0..n /\ j + 1 \in 0..n /\ i + 1 <= j + 1
    BY <1>2, <1>5
  <2> QED BY <1>1, <1>2, <2>1
<1>6. ASSUME NEW i \in 1..(n - 1) PROVE Slice(w, h[i - 1], Tail(q)[i], h[i])
  <2>1. i + 1 \in 1..n /\ (i + 1) - 1 = i /\ i - 1 \in 0..(n - 1) /\ (i - 1) + 1 = i
    BY <1>2
  <2>2. h[i - 1] = off[i] /\ h[i] = off[i + 1] /\ Tail(q)[i] = q[i + 1]
    BY <1>3, <2>1
  <2> QED BY <1>1, <1>2, <2>1, <2>2
<1>7. Slice(w, a, Head(q), m)
  BY <1>1, <1>2, <1>3
<1> HIDE DEF h, m
<1>8. Carries(w, m, Tail(q), b)
  BY <1>3, <1>4, <1>5, <1>6 DEF Carries
<1> QED BY <1>4, <1>7, <1>8

-----------------------------------------------------------------------------
(***************************************************************************)
(* EnqueueEventChunks leaves out the last chunk at most, and nothing of    *)
(* what the chunks carry.                                                  *)
(***************************************************************************)
LEMMA FilledIs ==
  ASSUME NEW q \in Seq(Chunk), Filling(q)
  PROVE  \E m \in Nat : /\ m <= Len(q) /\ Filled(q) = [k \in 1..m |-> q[k]]
                        /\ \A k \in 1..m : q[k] # <<>>
                        /\ m = Len(q) \/ (m = Len(q) - 1 /\ q[Len(q)] = <<>>)
<1> DEFINE upto(i) == Cardinality({j \in 1..i : q[j] # <<>>})
<1>1. Filled(q) = [k \in 1..upto(Len(q)) |-> q[CHOOSE i \in 1..Len(q) : q[i] # <<>> /\ upto(i) = k]]
  BY DEF Filled
<1>2. PICK n \in Nat : n = Len(q)
  BY LenProperties
<1>3. PICK m \in Nat : /\ m <= n /\ \A k \in 1..n : q[k] # <<>> <=> k \in 1..m
                       /\ m = n \/ (m = n - 1 /\ q[n] = <<>>)
  <2>1. \A k \in 1..n : k < n => q[k] # <<>>
    BY <1>2 DEF Filling
  <2>2. CASE n = 0 \/ q[n] # <<>>
    <3>1. \A k \in 1..n : q[k] # <<>> <=> k \in 1..n
      BY <1>2, <2>1, <2>2
    <3> QED BY <1>2, <3>1
  <2>3. CASE n > 0 /\ q[n] = <<>>
    <3>1. n - 1 \in Nat /\ n - 1 <= n /\ \A k \in 1..n : q[k] # <<>> <=> k \in 1..(n - 1)
      BY <1>2, <2>1, <2>3
    <3> QED BY <2>3, <3>1
  <2> QED BY <1>2, <2>2, <2>3
<1>4. ASSUME NEW i \in 0..m PROVE upto(i) = i
  <2>1. {j \in 1..i : q[j] # <<>>} = 1..i
    BY <1>2, <1>3
  <2>2. Cardinality(1..i) = i
    BY FS_Interval
  <2> QED BY <2>1, <2>2
<1>5. upto(n) = m
  <2>1. {j \in 1..n : q[j] # <<>>} = 1..m
    BY <1>2, <1>3
  <2>2. Cardinality(1..m) = m
    BY FS_Interval
  <2> QED BY <2>1, <2>2
<1>6. ASSUME NEW k \in 1..m PROVE (CHOOSE i \in 1..n : q[i] # <<>> /\ upto(i) = k) = k
  <2>1. k \in 1..n /\ q[k] # <<>> /\ upto(k) = k
    BY <1>2, <1>3, <1>4
  <2>2. ASSUME NEW i \in 1..n, q[i] # <<>>, upto(i) = k PROVE i = k
    <3>1. i \in 0..m
      BY <1>3, <2>2
    <3> QED BY <1>4, <2>2, <3>1
  <2> HIDE DEF upto
  <2> QED BY <2>1, <2>2
<1> HIDE DEF upto
<1>7. Filled(q) = [k \in 1..m |-> q[k]]
  BY <1>1, <1>2, <1>5, <1>6
<1> QED BY <1>2, <1>3, <1>7

LEMMA FilledProperties ==
  ASSUME NEW q \in Seq(Chunk), Filling(q)
  PROVE  Filled(q) \in Seq(Chunk) /\ \A k \in 1..Len(Filled(q)) : Filled(q)[k] # <<>>
<1>1. PICK m \in Nat : /\ m <= Len(q) /\ Filled(q) = [k \in 1..m |-> q[k]]
                       /\ \A k \in 1..m : q[k] # <<>>
  BY FilledIs
<1>2. \A k \in 1..m : q[k] \in Chunk
  BY <1>1, LenProperties, ElementOfSeq
<1>3. Filled(q) \in Seq(Chunk) /\ Len(Filled(q)) = m
  BY <1>1, <1>2
<1> QED BY <1>1, <1>3

LEMMA CarriesFilled ==
  ASSUME NEW w, NEW q \in Seq(Chunk), Filling(q), NEW a \in Nat, NEW b \in Nat, Carries(w, a, q, b)
  PROVE  Carries(w, a, Filled(q), b)
<1>1. PICK m \in Nat : /\ m <= Len(q) /\ Filled(q) = [k \in 1..m |-> q[k]]
                       /\ m = Len(q) \/ (m = Len(q) - 1 /\ q[Len(q)] = <<>>)
  BY FilledIs
<1>2. PICK n \in Nat : n = Len(q)
  BY LenProperties
<1>3. PICK off \in [0..n -> a..b] :
         /\ off[0] = a /\ off[n] = b
         /\ \A i, j \in 0..n : i <= j => off[i] <= off[j]
         /\ \A i \in 1..n : Slice(w, off[i - 1], q[i], off[i])
  BY <1>2 DEF Carries
<1>4. off[m] = b
  <2>1. CASE m = n
    BY <1>3, <2>1
  <2>2. CASE m = n - 1 /\ q[n] = <<>>
    <3>1. n \in 1..n /\ m \in 0..n
      BY <1>1, <1>2, <2>2
    <3>2. off[m] \in a..b /\ Slice(w, off[m], <<>>, off[n])
      BY <1>3, <2>2, <3>1
    <3>3. off[m] \in Nat /\ off[n] = off[m] + 0
      BY <3>2 DEF Slice
    <3> QED BY <1>3, <3>3
  <2> QED BY <1>1, <1>2, <2>1, <2>2
<1> DEFINE h == [i \in 0..m |-> off[i]]
<1>5. m <= n /\ h \in [0..m -> a..b] /\ h[0] = a /\ h[m] = b /\ Len(Filled(q)) = m
  <2>1. m <= n
    BY <1>1, <1>2
  <2>2. ASSUME NEW i \in 0..m PROVE off[i] \in a..b
    <3>1. i \in 0..n
      BY <1>2, <2>1
    <3> QED BY <1>3, <3>1
  <2>3. h[0] = a /\ h[m] = b
    BY <1>3, <1>4
  <2>4. Len(Filled(q)) = m
    BY <1>1
  <2> QED BY <2>1, <2>2, <2>3, <2>4
<1>6. \A i, j \in 0..m : i <= j => h[i] <= h[j]
  BY <1>3, <1>5
<1>7. ASSUME NEW i \in 1..m PROVE Slice(w, h[i - 1], Filled(q)[i], h[i])
  <2>1. i \in 1..n /\ i - 1 \in 0..m /\ i \in 0..m
    BY <1>5
  <2>2. h[i - 1] = off[i - 1] /\ h[i] = off[i] /\ Filled(q)[i] = q[i]
    BY <1>1, <2>1
  <2> QED BY <1>3, <2>1, <2>2
<1> HIDE DEF h
<1> QED BY <1>5, <1>6, <1>7 DEF Carries

-----------------------------------------------------------------------------
(***************************************************************************)
(* The chunks after an event: what they carried, and then the event.       *)
(***************************************************************************)
LEMMA Multiples ==
  ASSUME NEW c \in Nat \ {0}
  PROVE  /\ \A i \in Nat : i * c \in Nat
         /\ \A i, j \in Nat : i <= j => i * c <= j * c
         /\ \A i \in Nat : i > 0 => (i - 1) * c + c = i * c
<1>1. \A i \in Nat : i * c \in Nat
  OBVIOUS
<1>2. ASSUME NEW i \in Nat, NEW j \in Nat, i <= j PROVE i * c <= j * c
  <2>1. PICK d \in Nat : j = i + d
    <3>1. j - i \in Nat /\ j = i + (j - i)
      BY <1>2
    <3> QED BY <3>1
  <2>2. (i + d) * c = i * c + d * c /\ d * c \in Nat /\ i * c \in Nat
    OBVIOUS
  <2> QED BY <2>1, <2>2
<1>3. ASSUME NEW i \in Nat, i > 0 PROVE (i - 1) * c + c = i * c
  OBVIOUS
<1> QED BY <1>1, <1>2, <1>3

\* The number of new chunks.
LEMMA NewChunks ==
  ASSUME NEW c \in Nat \ {0}, NEW r \in Nat, NEW n \in Nat, r <= n
  PROVE  LET new == (n + c - r) \div c
         IN  new \in Nat /\ new > 0 /\ r + (new - 1) * c <= n /\ n < r + new * c
<1> DEFINE x == n + c - r
           new == x \div c
<1>1. x \in Nat /\ x >= c
  OBVIOUS
<1>2. x = c * new + (x % c) /\ x % c \in 0..(c - 1) /\ new \in Nat
  BY <1>1
<1>3. new > 0
  <2>1. SUFFICES ASSUME new = 0 PROVE FALSE
    BY <1>2
  <2>2. c * new = 0
    BY <2>1
  <2> QED BY <1>1, <1>2, <2>2
<1>4. c * new = new * c /\ (new - 1) * c = new * c - c /\ new * c \in Nat
  BY <1>2, <1>3
<1>5. r + (new - 1) * c <= n
  BY <1>1, <1>2, <1>4
<1>6. n < r + new * c
  BY <1>1, <1>2, <1>4
<1> QED BY <1>2, <1>3, <1>5, <1>6

LEMMA CarriesFront ==
  ASSUME NEW D, NEW w, NEW q \in Seq(D), NEW a \in Nat, NEW b \in Nat, Carries(w, a, q, b), q # <<>>
  PROVE  \E m \in a..b : Carries(w, a, Front(q), m) /\ Slice(w, m, Last(q), b)
<1>1. PICK n \in Nat : n = Len(q) /\ n > 0
  BY LenProperties, EmptySeq
<1>2. PICK off \in [0..n -> a..b] :
         /\ off[0] = a /\ off[n] = b
         /\ \A i, j \in 0..n : i <= j => off[i] <= off[j]
         /\ \A i \in 1..n : Slice(w, off[i - 1], q[i], off[i])
  BY <1>1 DEF Carries
<1>3. Last(q) = q[n] /\ Len(Front(q)) = n - 1 /\ \A i \in 1..(n - 1) : Front(q)[i] = q[i]
  BY <1>1 DEF Last, Front
<1> DEFINE m == off[n - 1]
           h == [i \in 0..(n - 1) |-> off[i]]
<1>4. n - 1 \in 0..n /\ n \in 1..n /\ m \in a..b
  <2>1. n - 1 \in 0..n /\ n \in 1..n
    BY <1>1
  <2> QED BY <1>2, <2>1
<1>5. ASSUME NEW i \in 0..(n - 1) PROVE off[i] \in a..m
  <2>1. i \in 0..n /\ i <= n - 1
    BY <1>1
  <2>2. off[i] \in a..b /\ off[i] <= m
    BY <1>2, <1>4, <2>1
  <2> QED BY <1>4, <2>2
<1>6. h \in [0..(n - 1) -> a..m] /\ h[0] = a /\ h[n - 1] = m
  BY <1>1, <1>2, <1>5
<1>7. \A i, j \in 0..(n - 1) : i <= j => h[i] <= h[j]
  BY <1>1, <1>2
<1>8. ASSUME NEW i \in 1..(n - 1) PROVE Slice(w, h[i - 1], Front(q)[i], h[i])
  <2>1. i \in 1..n /\ i - 1 \in 0..(n - 1) /\ i \in 0..(n - 1)
    BY <1>1
  <2>2. h[i - 1] = off[i - 1] /\ h[i] = off[i] /\ Front(q)[i] = q[i]
    BY <1>3, <2>1
  <2> QED BY <1>2, <2>1, <2>2
<1>9. Slice(w, m, Last(q), b)
  BY <1>2, <1>3, <1>4
<1> HIDE DEF h, m
<1>10. Carries(w, a, Front(q), m)
  BY <1>3, <1>6, <1>7, <1>8 DEF Carries
<1> QED BY <1>4, <1>9, <1>10

Least(i, n) == IF i < n THEN i ELSE n
Fresh0(parts, r, new) ==
    [i \in 1..new |-> SubSeq(parts, r + (i - 1) * ChunkSize + 1, Least(r + i * ChunkSize, Len(parts)))]

\* New chunks hold what is left of the event, and all but the last are full.
LEMMA FreshChunks ==
  ASSUME NEW parts \in Seq(Part), NEW r \in Nat, NEW new \in Nat, new > 0, r + (new - 1) * ChunkSize <= Len(parts),
         Len(parts) < r + new * ChunkSize
  PROVE  LET f == Fresh0(parts, r, new)
         IN  /\ f \in Seq(Chunk) /\ Len(f) = new /\ Filling(f)
             /\ \A v : \A o \in Nat : Len(v) \in Nat /\ Slice(v, o, parts, o + Len(parts))
                                        => Carries(v, o + r, f, o + Len(parts))
<1> DEFINE f == Fresh0(parts, r, new)
           e(i) == r + i * ChunkSize
           b(i) == Least(e(i), Len(parts))
<1>0. PICK n \in Nat : n = Len(parts)
  BY LenProperties
<1>c. ChunkSize \in Nat \ {0}
  BY EventAssumption
<1>1. /\ \A i \in Nat : e(i) \in Nat
      /\ \A i, j \in Nat : i <= j => e(i) <= e(j)
      /\ \A i \in Nat : i > 0 => e(i - 1) + ChunkSize = e(i)
  BY <1>c, Multiples
<1>2. e(new - 1) <= n /\ n < e(new) /\ e(0) = r
  BY <1>0, <1>c
<1>3. ASSUME NEW i \in 1..new
      PROVE  /\ e(i - 1) \in Nat /\ e(i) \in Nat /\ e(i - 1) <= n /\ e(i) = e(i - 1) + ChunkSize
             /\ i < new => e(i) <= n
             /\ f[i] = SubSeq(parts, e(i - 1) + 1, b(i))
  <2>1. /\ i \in Nat /\ i > 0 /\ i - 1 \in Nat /\ i - 1 <= new - 1 /\ new - 1 \in Nat
        /\ i < new => i <= new - 1
    OBVIOUS
  <2>2. f[i] = SubSeq(parts, e(i - 1) + 1, b(i))
    BY DEF Fresh0
  <2> HIDE DEF e
  <2>3. e(i - 1) \in Nat /\ e(i) \in Nat /\ e(new - 1) \in Nat /\ e(i) = e(i - 1) + ChunkSize
    <3>1. \A j \in Nat : e(j) \in Nat
      BY <1>1
    <3>2. e(i - 1) + ChunkSize = e(i)
      BY <1>1, <2>1
    <3> QED BY <2>1, <3>1, <3>2
  <2>4. e(i - 1) <= e(new - 1) /\ (i < new => e(i) <= e(new - 1))
    <3>1. \A j, k \in Nat : j <= k => e(j) <= e(k)
      BY <1>1
    <3> QED BY <2>1, <3>1
  <2> HIDE DEF b, f
  <2> QED BY <1>0, <1>2, <2>2, <2>3, <2>4
<1>4. \A i \in 0..new : e(i) \in Nat /\ b(i) \in r..n
  <2> HIDE DEF e
  <2>1. ASSUME NEW i \in 0..new PROVE e(i) \in Nat /\ e(0) <= e(i)
    <3>1. i \in Nat /\ 0 \in Nat /\ 0 <= i
      OBVIOUS
    <3> QED BY <1>1, <3>1
  <2>2. r <= n
    <3>1. 1 \in 1..new /\ 1 - 1 = 0
      OBVIOUS
    <3>2. e(0) <= n
      BY <1>3, <3>1
    <3> QED BY <1>2, <3>2
  <2> QED BY <1>0, <1>2, <2>1, <2>2 DEF Least
<1>5. \A i, j \in 0..new : i <= j => b(i) <= b(j)
  <2>1. ASSUME NEW i \in 0..new, NEW j \in 0..new, i <= j PROVE e(i) <= e(j)
    BY <1>1, <2>1
  <2> HIDE DEF e
  <2> QED BY <1>0, <1>4, <2>1 DEF Least
<1>6. b(0) = r /\ b(new) = n
  <2>1. e(0) <= n /\ e(0) \in Nat /\ e(new) \in Nat
    <3>1. 1 \in 1..new /\ 1 - 1 = 0
      OBVIOUS
    <3> QED BY <1>1, <1>3, <3>1
  <2> HIDE DEF e
  <2> QED BY <1>0, <1>2, <2>1 DEF Least
<1> HIDE DEF e
\* One new chunk.
<1>7. ASSUME NEW i \in 1..new
      PROVE  /\ f[i] \in Chunk /\ b(i - 1) = e(i - 1) /\ Len(f[i]) = b(i) - b(i - 1) /\ Len(f[i]) <= ChunkSize
             /\ i < new => Len(f[i]) = ChunkSize
             /\ \A k \in 1..Len(f[i]) : f[i][k] = parts[b(i - 1) + k]
  <2>1. i - 1 \in 0..new /\ i \in 0..new
    OBVIOUS
  <2>2. e(i - 1) \in Nat /\ e(i) \in Nat /\ e(i - 1) <= n /\ e(i) = e(i - 1) + ChunkSize /\ (i < new => e(i) <= n)
    BY <1>3
  <2>3. b(i - 1) = e(i - 1)
    BY <1>0, <2>2 DEF Least
  <2>4. b(i) \in Nat /\ b(i) <= n /\ e(i - 1) <= b(i) /\ b(i) <= e(i - 1) + ChunkSize
        /\ (i < new => b(i) = e(i - 1) + ChunkSize)
    BY <1>0, <1>c, <2>2 DEF Least
  <2> HIDE DEF b, f
  <2>5. PICK x \in Nat, y \in Nat : x = e(i - 1) /\ y = b(i) /\ f[i] = SubSeq(parts, x + 1, y)
    <3>1. f[i] = SubSeq(parts, e(i - 1) + 1, b(i))
      BY <1>3
    <3> QED BY <2>2, <2>4, <3>1
  <2>6. x + 1 \in 1..(n + 1) /\ y \in x..n
    <3>1. x <= n /\ x <= y /\ y <= n
      BY <2>2, <2>4, <2>5
    <3> HIDE DEF e
    <3> QED BY <3>1
  <2>7. f[i] \in Chunk /\ Len(f[i]) = y - x /\ \A k \in 1..(y - x) : f[i][k] = parts[x + k]
    <3>1. SubSeq(parts, x + 1, y) \in Seq(Part)
      BY <1>0, <2>6, SubSeqProperties
    <3>2. Len(SubSeq(parts, x + 1, y)) = y - x
      BY <1>0, <2>6
    <3>3. ASSUME NEW k \in 1..(y - x) PROVE SubSeq(parts, x + 1, y)[k] = parts[x + k]
      BY <1>0, <2>6
    <3> QED BY <2>5, <3>1, <3>2, <3>3 DEF Chunk
  <2>8. b(i - 1) = x /\ b(i) = y /\ y - x <= ChunkSize /\ (i < new => y - x = ChunkSize)
    <3>1. b(i - 1) = x /\ b(i) = y
      BY <2>3, <2>5
    <3>2. y <= x + ChunkSize /\ (i < new => y = x + ChunkSize)
      BY <2>4, <2>5
    <3> QED BY <1>c, <3>1, <3>2
  <2>9. \A k \in 1..Len(f[i]) : f[i][k] = parts[b(i - 1) + k]
    BY <2>7, <2>8
  <2> QED BY <2>3, <2>7, <2>8, <2>9
<1>8. f \in Seq(Chunk) /\ Len(f) = new
  BY <1>7 DEF Fresh0
<1>9. Filling(f)
  <2>1. ASSUME NEW i \in 1..new, i < new PROVE f[i] # <<>>
    <3>1. Len(f[i]) = ChunkSize
      BY <1>7, <2>1
    <3> QED BY <1>c, <3>1
  <2> HIDE DEF f
  <2> QED BY <1>7, <1>8, <2>1 DEF Filling
<1>10. ASSUME NEW v, Len(v) \in Nat, NEW o \in Nat, Slice(v, o, parts, o + n)
       PROVE  Carries(v, o + r, f, o + n)
  <2> DEFINE h == [i \in 0..new |-> o + b(i)]
  <2>1. h \in [0..new -> (o + r)..(o + n)] /\ h[0] = o + r /\ h[new] = o + n
    <3> HIDE DEF b
    <3>1. ASSUME NEW i \in 0..new PROVE o + b(i) \in (o + r)..(o + n)
      <4>1. b(i) \in r..n
        BY <1>4
      <4> QED BY <4>1
    <3>2. h[0] = o + r /\ h[new] = o + n
      BY <1>6
    <3> QED BY <3>1, <3>2
  <2>2. \A i, j \in 0..new : i <= j => h[i] <= h[j]
    <3> HIDE DEF b
    <3>1. ASSUME NEW i \in 0..new PROVE h[i] = o + b(i) /\ b(i) \in Nat
      <4>1. b(i) \in r..n
        BY <1>4
      <4> QED BY <4>1
    <3> HIDE DEF h
    <3>2. ASSUME NEW i \in 0..new, NEW j \in 0..new, i <= j PROVE h[i] <= h[j]
      <4>1. b(i) <= b(j) /\ b(i) \in Nat /\ b(j) \in Nat
        BY <1>5, <3>1, <3>2
      <4> QED BY <3>1, <4>1
    <3> QED BY <3>2
  <2>3. ASSUME NEW i \in 1..new PROVE Slice(v, h[i - 1], f[i], h[i])
    <3>1. i - 1 \in 0..new /\ i \in 0..new
      OBVIOUS
    <3>2. h[i - 1] = o + b(i - 1) /\ h[i] = o + b(i) /\ b(i - 1) \in r..n /\ b(i) \in r..n
      BY <1>4, <3>1
    <3>3. Len(f[i]) = b(i) - b(i - 1) /\ \A k \in 1..Len(f[i]) : f[i][k] = parts[b(i - 1) + k]
      BY <1>7
    <3> HIDE DEF b, f, h
    <3>4. PICK x \in Nat, y \in Nat : x = b(i - 1) /\ y = b(i) /\ x <= n /\ y <= n
      BY <3>2
    <3>5. ASSUME NEW k \in 1..Len(f[i]) PROVE f[i][k] = v[(o + x) + k]
      <4>1. k \in 1..(y - x) /\ f[i][k] = parts[x + k]
        BY <3>3, <3>4
      <4>2. x + k \in 1..Len(parts) /\ o + (x + k) = (o + x) + k
        <5>1. k \in Nat /\ k > 0 /\ x + k <= n
          BY <3>4, <4>1
        <5> QED BY <1>0, <5>1
      <4>3. parts[x + k] = v[o + (x + k)]
        BY <1>10, <4>2 DEF Slice
      <4> QED BY <4>1, <4>2, <4>3
    <3>a. o + n <= Len(v)
      BY <1>10 DEF Slice
    <3>6. o + y = (o + x) + Len(f[i]) /\ o + y <= Len(v)
      <4>1. Len(f[i]) = y - x
        BY <3>3, <3>4
      <4>2. o + y = (o + x) + (y - x)
        OBVIOUS
      <4>3. o + y <= o + n
        BY <3>4
      <4>4. PICK l \in Nat : l = Len(v) /\ o + n <= l
        BY <1>10, <3>a
      <4>5. o + y <= l
        BY <4>3, <4>4
      <4> QED BY <4>1, <4>2, <4>4, <4>5
    <3> QED BY <3>2, <3>4, <3>5, <3>6 DEF Slice
  <2> HIDE DEF h, f
  <2> QED BY <1>8, <2>1, <2>2, <2>3 DEF Carries
<1> HIDE DEF f
<1>11. /\ f \in Seq(Chunk) /\ Len(f) = new /\ Filling(f)
       /\ \A v : \A o \in Nat : Len(v) \in Nat /\ Slice(v, o, parts, o + Len(parts))
                                  => Carries(v, o + r, f, o + Len(parts))
  BY <1>0, <1>8, <1>9, <1>10
<1> QED BY <1>11 DEF f

LEMMA FillingConcat ==
  ASSUME NEW q \in Seq(Chunk), NEW r \in Seq(Chunk), Filling(r), \A i \in 1..Len(q) : Len(q[i]) <= ChunkSize,
         \A i \in 1..Len(q) : q[i] # <<>>
  PROVE  Filling(q \o r)
<1>1. PICK m \in Nat, n \in Nat : m = Len(q) /\ n = Len(r) /\ Len(q \o r) = m + n
  BY LenProperties, ConcatProperties
<1>2. ASSUME NEW i \in 1..(m + n) PROVE Len((q \o r)[i]) <= ChunkSize /\ (i < m + n => (q \o r)[i] # <<>>)
  <2>1. CASE i <= m
    <3>1. i \in 1..Len(q) /\ (q \o r)[i] = q[i]
      BY <1>1, <2>1
    <3> QED BY <3>1
  <2>2. CASE i > m
    <3>1. i - m \in 1..Len(r) /\ (q \o r)[i] = r[i - m] /\ (i < m + n => i - m < Len(r))
      BY <1>1, <2>2
    <3> QED BY <3>1 DEF Filling
  <2> QED BY <1>1, <2>1, <2>2
<1> QED BY <1>1, <1>2 DEF Filling

LEMMA AppendJoins ==
  ASSUME NEW D, NEW q \in Seq(D), NEW x \in D
  PROVE  Append(q, x) \in Seq(D) /\ Append(q, x) = q \o <<x>> /\ <<x>> \in Seq(D)
OBVIOUS

LEMMA ChunksProperties ==
  ASSUME NEW p \in Providers, prov[p].chunks \in Seq(Chunk), Filling(prov[p].chunks), NEW parts \in Seq(Part),
         Len(parts) > 0
  PROVE  /\ Chunks(p, parts) \in Seq(Chunk) /\ Filling(Chunks(p, parts))
         /\ \A w \in Seq(Part), a \in Nat :
               Carries(w, a, prov[p].chunks, Len(w)) => Carries(w \o parts, a, Chunks(p, parts), Len(w \o parts))
<1> DEFINE Goal == /\ Chunks(p, parts) \in Seq(Chunk) /\ Filling(Chunks(p, parts))
                   /\ \A w \in Seq(Part), a \in Nat :
                         Carries(w, a, prov[p].chunks, Len(w))
                           => Carries(w \o parts, a, Chunks(p, parts), Len(w \o parts))
           old == prov[p].chunks
           room == Room(p)
           new == IF room >= Len(parts) + 1 THEN 0 ELSE (Len(parts) + ChunkSize - room) \div ChunkSize
           fresh == Fresh0(parts, room, new)
           last == Last(old) \o SubSeq(parts, 1, Least(room, Len(parts)))
<1>0. PICK n \in Nat : n = Len(parts) /\ n > 0
  BY LenProperties
<1>c. ChunkSize \in Nat \ {0}
  BY EventAssumption
<1>1. Chunks(p, parts) = IF old = <<>> THEN fresh ELSE Append(Front(old), last) \o fresh
  BY DEF Chunks, Fresh0, Least
<1>2. old # <<>> => /\ Last(old) \in Chunk /\ Len(Last(old)) \in Nat /\ room = ChunkSize - Len(Last(old)) /\ room \in Nat
                    /\ Front(old) \in Seq(Chunk) /\ \A i \in 1..Len(Front(old)) : Len(Front(old)[i]) <= ChunkSize
                    /\ \A i \in 1..Len(Front(old)) : Front(old)[i] # <<>>
  <2>1. SUFFICES ASSUME old # <<>>
                 PROVE  /\ Last(old) \in Chunk /\ Len(Last(old)) \in Nat /\ room = ChunkSize - Len(Last(old)) /\ room \in Nat
                        /\ Front(old) \in Seq(Chunk) /\ \A i \in 1..Len(Front(old)) : Len(Front(old)[i]) <= ChunkSize
                        /\ \A i \in 1..Len(Front(old)) : Front(old)[i] # <<>>
    OBVIOUS
  <2>2. PICK m \in Nat : m = Len(old) /\ m > 0
    BY <2>1, LenProperties, EmptySeq
  <2>3. Last(old) = old[m] /\ m \in 1..Len(old) /\ old[m] \in Chunk /\ Len(old[m]) <= ChunkSize
    BY <2>2, ElementOfSeq DEF Last, Filling
  <2>4. Len(Last(old)) \in Nat
    BY <2>3, LenProperties DEF Chunk
  <2>5. Front(old) \in Seq(Chunk) /\ Len(Front(old)) = m - 1 /\ \A i \in 1..(m - 1) : Front(old)[i] = old[i]
    BY <2>2 DEF Front
  <2>6. \A i \in 1..(m - 1) : Len(old[i]) <= ChunkSize /\ old[i] # <<>>
    BY <2>2 DEF Filling
  <2>7. room = ChunkSize - Len(Last(old))
    BY <2>1 DEF Room
  <2> HIDE DEF old, room
  <2> QED BY <1>c, <2>2, <2>3, <2>4, <2>5, <2>6, <2>7
<1>3. old = <<>> => room = 0
  BY DEF Room
<1>4. room \in Nat
  BY <1>2, <1>3
<1>5. ASSUME NEW w \in Seq(Part)
      PROVE  /\ w \o parts \in Seq(Part) /\ Len(w) \in Nat /\ Len(w \o parts) = Len(w) + n
             /\ Slice(w \o parts, Len(w), parts, Len(w) + n)
  <2>1. w \o parts \in Seq(Part) /\ Len(w) \in Nat /\ Len(w \o parts) = Len(w) + n
    BY <1>0, LenProperties, ConcatProperties
  <2> QED BY <2>1, SliceEnd
\* The event, or its beginning, in the last chunk.
<1>6. ASSUME old # <<>>, NEW r \in Nat, r <= n, r = Least(room, n)
      PROVE  /\ last \in Chunk /\ Len(last) = Len(Last(old)) + r
             /\ \A w \in Seq(Part), m \in Nat :
                  Slice(w, m, Last(old), Len(w)) => Slice(w \o parts, m, last, Len(w) + r)
  <2> DEFINE x == SubSeq(parts, 1, r)
  <2>1. x \in Seq(Part) /\ Len(x) = r /\ \A k \in 1..r : x[k] = parts[k]
    <3>1. x \in Seq(Part)
      BY <1>0, <1>6, SubSeqProperties
    <3> QED BY <1>0, <1>6, <3>1
  <2>2. last = Last(old) \o x
    BY <1>0, <1>6
  <2> HIDE DEF x, old, last, room
  <2>3. last \in Chunk /\ Len(last) = Len(Last(old)) + r
    <3>1. Last(old) \in Seq(Part)
      BY <1>2, <1>6 DEF Chunk
    <3>2. Last(old) \o x \in Seq(Part) /\ Len(Last(old) \o x) = Len(Last(old)) + r
      BY <2>1, <3>1, ConcatProperties
    <3> QED BY <2>2, <3>2 DEF Chunk
  <2>4. ASSUME NEW w \in Seq(Part), NEW m \in Nat, Slice(w, m, Last(old), Len(w))
        PROVE  Slice(w \o parts, m, last, Len(w) + r)
    <3>1. Slice(w \o parts, m, Last(old), Len(w))
      BY <1>2, <1>5, <1>6, <2>4, SliceLonger DEF Chunk
    <3>2. Slice(w \o parts, Len(w), x, Len(w) + r)
      <4>1. PICK l \in Nat : l = Len(w)
        BY <1>5
      <4>2. l + n <= Len(w \o parts) /\ \A k \in 1..n : parts[k] = (w \o parts)[l + k]
        BY <1>0, <1>5, <4>1 DEF Slice
      <4>a. Len(x) = r /\ \A k \in 1..r : k \in 1..n
        BY <1>0, <1>6, <2>1
      <4>3. \A k \in 1..Len(x) : x[k] = (w \o parts)[l + k]
        BY <2>1, <4>2, <4>a
      <4>4. l + r <= Len(w \o parts) /\ l + r = l + Len(x)
        BY <1>5, <1>6, <2>1, <4>1
      <4> QED BY <4>1, <4>3, <4>4 DEF Slice
    <3>3. Len(w) \in Nat /\ Len(w) + r \in Nat /\ w \o parts \in Seq(Part) /\ Last(old) \in Seq(Part)
      BY <1>2, <1>5, <1>6 DEF Chunk
    <3> QED BY <2>1, <2>2, <3>1, <3>2, <3>3, SliceConcat
  <2> QED BY <2>3, <2>4
<1>7. CASE room >= n + 1
  <2>1. old # <<>> /\ new = 0 /\ Least(room, n) = n
    BY <1>0, <1>3, <1>4, <1>7 DEF Least
  <2>2. fresh = <<>>
    BY <2>1 DEF Fresh0
  <2>3. last \in Chunk /\ Len(last) = Len(Last(old)) + n
        /\ \A w \in Seq(Part), m \in Nat :
              Slice(w, m, Last(old), Len(w)) => Slice(w \o parts, m, last, Len(w) + n)
    <3>1. n <= n /\ n = Least(room, n)
      BY <2>1
    <3> HIDE DEF last, old, room
    <3> QED BY <1>6, <2>1, <3>1
  <2>4. Chunks(p, parts) = Append(Front(old), last)
    <3>1. Append(Front(old), last) \in Seq(Chunk)
      <4> HIDE DEF last, old
      <4> QED BY <1>2, <2>1, <2>3
    <3> HIDE DEF old, last, fresh
    <3> QED BY <1>1, <2>1, <2>2, <3>1
  <2> HIDE DEF old, last, fresh, new, room
  <2>5. Append(Front(old), last) \in Seq(Chunk) /\ Append(Front(old), last) = Front(old) \o <<last>> /\ <<last>> \in Seq(Chunk)
    <3>1. Front(old) \in Seq(Chunk)
      BY <1>2, <2>1
    <3> QED BY <2>3, <3>1, AppendJoins
  <2>6. Filling(<<last>>)
    <3>1. Len(last) <= ChunkSize
      BY <1>2, <1>c, <1>7, <2>1, <2>3
    <3> QED BY <3>1 DEF Filling
  <2>7. Filling(Chunks(p, parts))
    BY <1>2, <2>1, <2>4, <2>5, <2>6, FillingConcat
  <2>8. ASSUME NEW w \in Seq(Part), NEW a \in Nat, Carries(w, a, old, Len(w))
        PROVE  Carries(w \o parts, a, Chunks(p, parts), Len(w \o parts))
    <3>1. PICK m \in a..Len(w) : Carries(w, a, Front(old), m) /\ Slice(w, m, Last(old), Len(w))
      BY <1>5, <2>1, <2>8, CarriesFront DEF old
    <3>2. m \in Nat
      BY <1>5, <3>1
    <3>3. Carries(w \o parts, a, Front(old), m)
      BY <1>2, <2>1, <3>1, <3>2, CarriesLonger DEF Chunk
    <3>4. Slice(w \o parts, m, last, Len(w) + n) /\ Len(w) + n \in Nat
      BY <1>5, <2>3, <3>1, <3>2
    <3> QED BY <1>2, <1>5, <2>1, <2>3, <2>4, <3>2, <3>3, <3>4, CarriesAppend DEF Chunk
  <2> QED BY <2>4, <2>5, <2>7, <2>8 DEF old
<1>8. CASE ~(room >= n + 1)
  <2>1. room <= n /\ Least(room, n) = room
    BY <1>0, <1>4, <1>8 DEF Least
  <2>2. new = (n + ChunkSize - room) \div ChunkSize
    BY <1>0, <1>8
  <2> HIDE DEF room, new
  <2>3. new \in Nat /\ new > 0 /\ room + (new - 1) * ChunkSize <= n /\ n < room + new * ChunkSize
    BY <1>0, <1>4, <1>c, <2>1, <2>2, NewChunks
  <2>4. /\ fresh \in Seq(Chunk) /\ Filling(fresh)
        /\ \A v : \A o \in Nat : Len(v) \in Nat /\ Slice(v, o, parts, o + Len(parts))
                                   => Carries(v, o + room, fresh, o + Len(parts))
    BY <1>0, <1>4, <2>3, FreshChunks
  <2> HIDE DEF fresh
  <2>5. ASSUME NEW w \in Seq(Part) PROVE Carries(w \o parts, Len(w) + room, fresh, Len(w \o parts))
    <3>1. Len(w \o parts) \in Nat /\ Len(w) \in Nat
      BY <1>0, <1>5
    <3> QED BY <1>0, <1>5, <2>4, <3>1
  <2>6. CASE old = <<>>
    <3>1. room = 0 /\ Chunks(p, parts) = fresh
      BY <1>1, <1>3, <2>6 DEF room
    <3>2. ASSUME NEW w \in Seq(Part), NEW a \in Nat, Carries(w, a, old, Len(w))
          PROVE  Carries(w \o parts, a, Chunks(p, parts), Len(w \o parts))
      <4>1. a = Len(w)
        BY <2>6, <3>2 DEF Carries
      <4>2. Len(w) + room = Len(w)
        BY <1>5, <3>1
      <4> QED BY <2>5, <3>1, <4>1, <4>2
    <3> QED BY <2>4, <3>1, <3>2
  <2>7. CASE old # <<>>
    <3>1. last \in Chunk /\ Len(last) = Len(Last(old)) + room
          /\ \A w \in Seq(Part), m \in Nat :
                Slice(w, m, Last(old), Len(w)) => Slice(w \o parts, m, last, Len(w) + room)
      BY <1>4, <1>6, <2>1, <2>7
    <3>2. Chunks(p, parts) = Append(Front(old), last) \o fresh
      BY <1>1, <2>7
    <3> HIDE DEF old, last
    <3>3. Front(old) \in Seq(Chunk) /\ Append(Front(old), last) \in Seq(Chunk)
      BY <1>2, <2>7, <3>1
    <3>4. Len(last) = ChunkSize /\ last # <<>>
      <4>1. Len(last) = ChunkSize
        BY <1>2, <1>c, <2>7, <3>1
      <4> QED BY <1>c, <4>1
    <3>5. /\ \A i \in 1..Len(Append(Front(old), last)) : Len(Append(Front(old), last)[i]) <= ChunkSize
          /\ \A i \in 1..Len(Append(Front(old), last)) : Append(Front(old), last)[i] # <<>>
      <4>1. PICK m \in Nat : m = Len(Front(old)) /\ Len(Append(Front(old), last)) = m + 1
        BY <3>3, LenProperties
      <4>2. ASSUME NEW i \in 1..(m + 1)
            PROVE  Append(Front(old), last)[i] = IF i <= m THEN Front(old)[i] ELSE last
        BY <3>3, <4>1
      <4>3. ASSUME NEW i \in 1..(m + 1)
            PROVE  Len(Append(Front(old), last)[i]) <= ChunkSize /\ Append(Front(old), last)[i] # <<>>
        <5>1. CASE i <= m
          BY <1>2, <2>7, <4>1, <4>2, <5>1
        <5>2. CASE ~(i <= m)
          <6>1. Append(Front(old), last)[i] = last
            BY <4>2, <5>2
          <6>2. ChunkSize <= ChunkSize
            BY <1>c
          <6> QED BY <3>4, <6>1, <6>2
        <5> QED BY <5>1, <5>2
      <4> QED BY <4>1, <4>3
    <3>6. Filling(Chunks(p, parts)) /\ Chunks(p, parts) \in Seq(Chunk)
      BY <2>4, <3>2, <3>3, <3>5, FillingConcat, ConcatProperties
    <3>7. ASSUME NEW w \in Seq(Part), NEW a \in Nat, Carries(w, a, old, Len(w))
          PROVE  Carries(w \o parts, a, Chunks(p, parts), Len(w \o parts))
      <4>1. PICK m \in a..Len(w) : Carries(w, a, Front(old), m) /\ Slice(w, m, Last(old), Len(w))
        BY <1>5, <2>7, <3>7, CarriesFront DEF old
      <4>2. m \in Nat
        BY <1>5, <4>1
      <4>3. Carries(w \o parts, a, Front(old), m)
        BY <3>3, <4>1, <4>2, CarriesLonger DEF Chunk
      <4>4. Slice(w \o parts, m, last, Len(w) + room) /\ Len(w) + room \in Nat
        BY <1>4, <1>5, <3>1, <4>1, <4>2
      <4>5. Carries(w \o parts, a, Append(Front(old), last), Len(w) + room)
        BY <3>1, <3>3, <4>2, <4>3, <4>4, CarriesAppend DEF Chunk
      <4>6. Len(w \o parts) \in Nat
        BY <1>5
      <4> QED BY <2>4, <2>5, <3>2, <3>3, <4>4, <4>5, <4>6, CarriesConcat
    <3> QED BY <3>6, <3>7 DEF old
  <2> QED BY <2>6, <2>7
<1> QED BY <1>4, <1>7, <1>8

-----------------------------------------------------------------------------
(***************************************************************************)
(* Types.                                                                  *)
(***************************************************************************)
LEMMA ProviderFields ==
  ASSUME TInv, NEW p \in Providers
  PROVE  /\ prov[p] \in ProviderType /\ prov[p].reg \in BOOLEAN /\ prov[p].session \in Sessions \cup {None}
         /\ prov[p].enabled \in BOOLEAN /\ prov[p].chunks \in Seq(Chunk) /\ prov[p].index \in Nat
         /\ prov[p].lock \in Writers \cup {None}
<1>1. prov[p] \in ProviderType
  BY DEF TInv, ServerTypes
<1> QED BY <1>1 DEF ProviderType

LEMMA SessionFields ==
  ASSUME TInv, NEW s \in Sessions
  PROVE  /\ sess[s] \in SessionType /\ sess[s].queue \in Seq(Chunk) /\ sess[s].chunk \in Chunk
         /\ sess[s].payload \in Part \cup {None} /\ sess[s].reply \in Reply \cup {None}
         /\ sess[s].of \in Providers \cup {None} /\ written[s] \in Seq(Part)
<1>1. sess[s] \in SessionType /\ written[s] \in Seq(Part)
  BY DEF TInv, ServerTypes
<1> QED BY <1>1 DEF SessionType

LEMMA ClientFields ==
  ASSUME TInv, NEW s \in Sessions
  PROVE  /\ cl[s] \in ClientType /\ cl[s].subscribed \in BOOLEAN /\ cl[s].got \in Seq(Part) /\ cl[s].updates \in Nat
         /\ cl[s].pc \in {"new", "ready", "subscribing", "updating", "failed", "done"}
         /\ toServer[s] \in Seq(Message) /\ toClient[s] \in Seq(Packet)
         /\ link[s] \in {"down", "accepted", "up", "leaving"}
<1>1. /\ cl[s] \in ClientType /\ toServer[s] \in Seq(Message) /\ toClient[s] \in Seq(Packet)
      /\ link[s] \in {"down", "accepted", "up", "leaving"}
  BY DEF TInv, WireTypes
<1> QED BY <1>1 DEF ClientType

LEMMA OpFields ==
  ASSUME TInv
  PROVE  /\ op \in OpType /\ op.pc \in {"none", "flush", "off", "reset"}
         /\ op.name \in {"none", "terminate", "unregister", "disable", "unsubscribe"}
         /\ op.p \in Providers \cup {None} /\ op.s \in Sessions \cup {None}
<1>1. op \in OpType
  BY DEF TInv, ServerTypes
<1> QED BY <1>1 DEF OpType

LEMMA WriterFields ==
  ASSUME TInv, NEW w \in Writers
  PROVE  writer[w] \in WriterType /\ writer[w].pc \in {"idle", "checked", "locked"} /\ writer[w].p \in Providers \cup {None}
<1>1. writer[w] \in WriterType
  BY DEF TInv, ServerTypes
<1> QED BY <1>1 DEF WriterType

\* The head of a sequence of messages.
LEMMA HeadMessage ==
  ASSUME TInv, NEW s \in Sessions, toServer[s] # <<>>
  PROVE  /\ Head(toServer[s]) \in Message /\ Head(toServer[s]) = toServer[s][1] /\ 1 \in 1..Len(toServer[s])
         /\ Head(toServer[s]).kind \in {"Subscribe", "Apply"} => Head(toServer[s]).p \in Providers
<1>1. toServer[s] \in Seq(Message)
  BY ClientFields
<1>2. Head(toServer[s]) \in Message /\ Head(toServer[s]) = toServer[s][1]
  BY <1>1, HeadTailProperties
<1>3. 1 \in 1..Len(toServer[s])
  BY <1>1, LenProperties, EmptySeq
<1>4. Head(toServer[s]).kind \in {"Subscribe", "Apply"} => Head(toServer[s]).p \in Providers
  BY <1>2 DEF Message
<1> QED BY <1>2, <1>3, <1>4

\* Changes of one provider, one session, one client.
LEMMA ProvTypes ==
  ASSUME TInv, NEW p \in Providers
  PROVE  /\ \A x \in BOOLEAN : [prov EXCEPT ![p].reg = x] \in [Providers -> ProviderType]
         /\ \A x \in BOOLEAN : [prov EXCEPT ![p].enabled = x] \in [Providers -> ProviderType]
         /\ [prov EXCEPT ![p].session = None] \in [Providers -> ProviderType]
         /\ [prov EXCEPT ![p].chunks = <<>>] \in [Providers -> ProviderType]
         /\ [prov EXCEPT ![p].lock = None] \in [Providers -> ProviderType]
         /\ [prov EXCEPT ![p].lock = None, ![p].chunks = <<>>] \in [Providers -> ProviderType]
         /\ \A s \in Sessions : [prov EXCEPT ![p].session = s, ![p].enabled = TRUE] \in [Providers -> ProviderType]
         /\ \A w \in Writers : [prov EXCEPT ![p].lock = w, ![p].index = @ + 1] \in [Providers -> ProviderType]
         /\ \A w \in Writers, q \in Seq(Chunk) :
               [prov EXCEPT ![p].lock = w, ![p].index = @ + 1, ![p].chunks = q] \in [Providers -> ProviderType]
<1>1. prov \in [Providers -> ProviderType]
  BY DEF TInv, ServerTypes
<1>2. prov[p] \in ProviderType /\ <<>> \in Seq(Chunk)
  BY <1>1
<1>3. \A x \in BOOLEAN : [prov EXCEPT ![p].reg = x] \in [Providers -> ProviderType]
  BY <1>1, <1>2 DEF ProviderType
<1>4. \A x \in BOOLEAN : [prov EXCEPT ![p].enabled = x] \in [Providers -> ProviderType]
  BY <1>1, <1>2 DEF ProviderType
<1>5. [prov EXCEPT ![p].session = None] \in [Providers -> ProviderType]
  BY <1>1, <1>2 DEF ProviderType
<1>6. [prov EXCEPT ![p].chunks = <<>>] \in [Providers -> ProviderType]
  BY <1>1, <1>2 DEF ProviderType
<1>7. [prov EXCEPT ![p].lock = None] \in [Providers -> ProviderType]
  BY <1>1, <1>2 DEF ProviderType
<1>8. [prov EXCEPT ![p].lock = None, ![p].chunks = <<>>] \in [Providers -> ProviderType]
  BY <1>1, <1>2 DEF ProviderType
<1>9. ASSUME NEW s \in Sessions
      PROVE  [prov EXCEPT ![p].session = s, ![p].enabled = TRUE] \in [Providers -> ProviderType]
  BY <1>1, <1>2 DEF ProviderType
<1>10. ASSUME NEW w \in Writers
       PROVE  [prov EXCEPT ![p].lock = w, ![p].index = @ + 1] \in [Providers -> ProviderType]
  <2>1. [prov EXCEPT ![p].lock = w, ![p].index = @ + 1] = [prov EXCEPT ![p].lock = w, ![p].index = prov[p].index + 1]
    BY <1>1, <1>2 DEF ProviderType
  <2>2. PICK i \in Nat : i = prov[p].index + 1
    BY ProviderFields
  <2>3. [prov EXCEPT ![p].lock = w, ![p].index = i] \in [Providers -> ProviderType]
    BY <1>1, <1>2 DEF ProviderType
  <2> QED BY <2>1, <2>2, <2>3
<1>11. ASSUME NEW w \in Writers, NEW q \in Seq(Chunk)
       PROVE  [prov EXCEPT ![p].lock = w, ![p].index = @ + 1, ![p].chunks = q] \in [Providers -> ProviderType]
  <2>1. [prov EXCEPT ![p].lock = w, ![p].index = @ + 1, ![p].chunks = q]
          = [prov EXCEPT ![p].lock = w, ![p].index = prov[p].index + 1, ![p].chunks = q]
    BY <1>1, <1>2 DEF ProviderType
  <2>2. PICK i \in Nat : i = prov[p].index + 1
    BY ProviderFields
  <2>3. [prov EXCEPT ![p].lock = w, ![p].index = i, ![p].chunks = q] \in [Providers -> ProviderType]
    BY <1>1, <1>2 DEF ProviderType
  <2> QED BY <2>1, <2>2, <2>3
<1> QED BY <1>3, <1>4, <1>5, <1>6, <1>7, <1>8, <1>9, <1>10, <1>11

LEMMA SessTypes ==
  ASSUME TInv, NEW s \in Sessions
  PROVE  /\ \A q \in Seq(Chunk) : [sess EXCEPT ![s].queue = @ \o q] \in [Sessions -> SessionType]
         /\ \A r \in Reply \cup {None} : [sess EXCEPT ![s].reply = r] \in [Sessions -> SessionType]
         /\ [sess EXCEPT ![s].payload = None] \in [Sessions -> SessionType]
         /\ \A r \in Reply, p \in Providers : [sess EXCEPT ![s].reply = r, ![s].of = p] \in [Sessions -> SessionType]
         /\ \A c \in Chunk, q \in Seq(Chunk), y \in Part \cup {None} :
               [sess EXCEPT ![s].chunk = c, ![s].queue = q, ![s].payload = y] \in [Sessions -> SessionType]
<1>1. sess \in [Sessions -> SessionType]
  BY DEF TInv, ServerTypes
<1>2. sess[s] \in SessionType
  BY <1>1
<1>3. ASSUME NEW q \in Seq(Chunk) PROVE [sess EXCEPT ![s].queue = @ \o q] \in [Sessions -> SessionType]
  <2>1. sess[s].queue \o q \in Seq(Chunk)
    BY SessionFields, ConcatProperties
  <2> QED BY <1>1, <1>2, <2>1 DEF SessionType
<1>4. \A r \in Reply \cup {None} : [sess EXCEPT ![s].reply = r] \in [Sessions -> SessionType]
  BY <1>1, <1>2 DEF SessionType
<1>5. [sess EXCEPT ![s].payload = None] \in [Sessions -> SessionType]
  BY <1>1, <1>2 DEF SessionType
<1>6. ASSUME NEW r \in Reply, NEW p \in Providers
      PROVE  [sess EXCEPT ![s].reply = r, ![s].of = p] \in [Sessions -> SessionType]
  BY <1>1, <1>2 DEF SessionType
<1>7. ASSUME NEW c \in Chunk, NEW q \in Seq(Chunk), NEW y \in Part \cup {None}
      PROVE  [sess EXCEPT ![s].chunk = c, ![s].queue = q, ![s].payload = y] \in [Sessions -> SessionType]
  BY <1>1, <1>2 DEF SessionType
<1> QED BY <1>3, <1>4, <1>5, <1>6, <1>7

-----------------------------------------------------------------------------
(***************************************************************************)
(* What the actions change.                                                *)
(***************************************************************************)
KeepsProv == \A p \in Providers : /\ prov'[p].reg = prov[p].reg /\ prov'[p].session = prov[p].session
                                  /\ prov'[p].enabled = prov[p].enabled
KeepsSess == \A s \in Sessions : sess'[s].of = sess[s].of /\ sess'[s].reply = sess[s].reply
KeepsData == \A s \in Sessions : /\ sess'[s].payload = sess[s].payload /\ sess'[s].chunk = sess[s].chunk
                                 /\ sess'[s].queue = sess[s].queue
KeepsChunks == \A p \in Providers : prov'[p].chunks = prov[p].chunks

\* Flush of provider p: its chunks are in the queue of its session.
Flushed(p) ==
    /\ \A s \in Sessions :
          /\ sess'[s].payload = sess[s].payload /\ sess'[s].chunk = sess[s].chunk
          /\ sess'[s].queue = IF prov[p].session = s /\ s \in objs THEN sess[s].queue \o Filled(prov[p].chunks)
                              ELSE sess[s].queue
    /\ \A q \in Providers : prov'[q].chunks = IF q = p THEN <<>> ELSE prov[q].chunks

LEMMA FilledNothing == Filled(<<>>) = <<>>
<1>1. <<>> \in Seq(Chunk) /\ Len(<<>>) = 0
  OBVIOUS
<1>2. Filling(<<>>)
  BY <1>1 DEF Filling
<1>3. PICK m \in Nat : m <= Len(<<>>) /\ Filled(<<>>) = [k \in 1..m |-> <<>>[k]]
  BY <1>1, <1>2, FilledIs
<1> QED BY <1>1, <1>3

LEMMA QueueGrows ==
  ASSUME NEW q \in Seq(Chunk), NEW r \in Seq(Chunk), \A i \in 1..Len(q) : q[i] # <<>>, \A i \in 1..Len(r) : r[i] # <<>>
  PROVE  \A i \in 1..Len(q \o r) : (q \o r)[i] # <<>>
<1>1. PICK m \in Nat, n \in Nat : m = Len(q) /\ n = Len(r) /\ Len(q \o r) = m + n
  BY LenProperties, ConcatProperties
<1>2. ASSUME NEW i \in 1..(m + n) PROVE (q \o r)[i] # <<>>
  <2>1. CASE i <= m
    <3>1. i \in 1..Len(q) /\ (q \o r)[i] = q[i]
      BY <1>1, <2>1
    <3> QED BY <3>1
  <2>2. CASE i > m
    <3>1. i - m \in 1..Len(r) /\ (q \o r)[i] = r[i - m]
      BY <1>1, <2>2
    <3> QED BY <3>1
  <2> QED BY <1>1, <2>1, <2>2
<1> QED BY <1>1, <1>2

LEMMA FlushEffect ==
  ASSUME BInv, NEW p \in Providers, FlushTo(p),
         \A q \in Providers : /\ prov'[q].reg = prov[q].reg /\ prov'[q].session = prov[q].session
                              /\ prov'[q].enabled = prov[q].enabled
                              /\ prov'[q].chunks = IF q = p THEN <<>> ELSE prov[q].chunks
  PROVE  /\ sess' \in [Sessions -> SessionType] /\ fault' \in BOOLEAN /\ ChunkInv'
         /\ KeepsProv /\ KeepsSess /\ Flushed(p)
         /\ prov[p].session \in objs \/ prov[p].chunks = <<>> => fault' = fault
<1> DEFINE t == prov[p].session
           f == Filled(prov[p].chunks)
<1>0. /\ sess \in [Sessions -> SessionType] /\ fault \in BOOLEAN /\ objs \subseteq Sessions
      /\ prov[p].chunks \in Seq(Chunk) /\ Filling(prov[p].chunks) /\ t \in Sessions \cup {None}
  BY ProviderFields DEF BInv, TInv, ServerTypes, ChunkInv
<1>1. f \in Seq(Chunk) /\ \A i \in 1..Len(f) : f[i] # <<>>
  BY <1>0, FilledProperties
<1>2. KeepsProv /\ \A q \in Providers : prov'[q].chunks = IF q = p THEN <<>> ELSE prov[q].chunks
  BY DEF KeepsProv
<1>3. \A q \in Providers : Filling(prov'[q].chunks)
  <2>1. Filling(<<>>)
    BY DEF Filling
  <2> QED BY <1>2, <2>1 DEF BInv, ChunkInv
<1>4. \A s \in Sessions : /\ sess[s] \in SessionType /\ sess[s].queue \in Seq(Chunk)
                          /\ \A i \in 1..Len(sess[s].queue) : sess[s].queue[i] # <<>>
  BY SessionFields DEF BInv, ChunkInv
<1>5. CASE prov[p].chunks = <<>>
  <2>1. sess' = sess /\ fault' = fault
    BY <1>5 DEF FlushTo
  <2>2. f = <<>> /\ \A s \in Sessions : sess[s].queue \o f = sess[s].queue
    BY <1>4, <1>5, FilledNothing
  <2>3. Flushed(p)
    BY <1>2, <2>1, <2>2 DEF Flushed
  <2> QED BY <1>0, <1>2, <1>3, <1>4, <2>1, <2>3 DEF ChunkInv, KeepsSess
<1>6. CASE prov[p].chunks # <<>> /\ t \notin objs
  <2>1. sess' = sess /\ fault' = TRUE
    BY <1>6 DEF FlushTo
  <2>3. Flushed(p)
    BY <1>2, <1>6, <2>1 DEF Flushed
  <2> QED BY <1>0, <1>2, <1>3, <1>4, <1>6, <2>1, <2>3 DEF ChunkInv, KeepsSess
<1>7. CASE prov[p].chunks # <<>> /\ t \in objs
  <2>1. sess' = [sess EXCEPT ![t].queue = @ \o f] /\ fault' = fault /\ t \in Sessions
    BY <1>0, <1>7 DEF FlushTo
  <2>2. sess' \in [Sessions -> SessionType]
    BY <1>1, <2>1, SessTypes DEF BInv
  <2> HIDE DEF f
  <2>3. \A s \in Sessions : /\ sess'[s].payload = sess[s].payload /\ sess'[s].chunk = sess[s].chunk
                            /\ sess'[s].of = sess[s].of /\ sess'[s].reply = sess[s].reply
                            /\ sess'[s].queue = IF s = t THEN sess[s].queue \o f ELSE sess[s].queue
    BY <1>0, <1>4, <2>1 DEF SessionType
  <2>4. KeepsSess /\ Flushed(p)
    BY <1>2, <1>7, <2>3 DEF KeepsSess, Flushed, f
  <2>5. ASSUME NEW s \in Sessions PROVE \A i \in 1..Len(sess'[s].queue) : sess'[s].queue[i] # <<>>
    <3>1. CASE s = t
      <4>1. \A i \in 1..Len(sess[s].queue \o f) : (sess[s].queue \o f)[i] # <<>>
        BY <1>1, <1>4, QueueGrows
      <4> QED BY <2>3, <3>1, <4>1
    <3>2. CASE s # t
      BY <1>4, <2>3, <3>2
    <3> QED BY <3>1, <3>2
  <2> QED BY <1>0, <1>2, <1>3, <2>1, <2>2, <2>4, <2>5 DEF ChunkInv
<1> QED BY <1>5, <1>6, <1>7

\* The chunks of one provider are emptied, and perhaps its lock released.
LEMMA EmptiedFields ==
  ASSUME TInv, NEW p \in Providers,
         \/ prov' = [prov EXCEPT ![p].chunks = <<>>] \/ prov' = [prov EXCEPT ![p].lock = None, ![p].chunks = <<>>]
  PROVE  /\ prov' \in [Providers -> ProviderType]
         /\ \A q \in Providers : /\ prov'[q].reg = prov[q].reg /\ prov'[q].session = prov[q].session
                                 /\ prov'[q].enabled = prov[q].enabled
                                 /\ prov'[q].chunks = IF q = p THEN <<>> ELSE prov[q].chunks
<1>a. [prov EXCEPT ![p].chunks = <<>>] \in [Providers -> ProviderType]
  BY ProvTypes
<1>b. [prov EXCEPT ![p].lock = None, ![p].chunks = <<>>] \in [Providers -> ProviderType]
  BY ProvTypes
<1>1. prov' \in [Providers -> ProviderType]
  BY <1>a, <1>b
<1>2. prov \in [Providers -> ProviderType] /\ prov[p] \in ProviderType
  BY ProviderFields DEF TInv, ServerTypes
<1>3. CASE prov' = [prov EXCEPT ![p].chunks = <<>>]
  BY <1>1, <1>2, <1>3 DEF ProviderType
<1>4. CASE prov' = [prov EXCEPT ![p].lock = None, ![p].chunks = <<>>]
  BY <1>1, <1>2, <1>4 DEF ProviderType
<1> QED BY <1>3, <1>4

LEMMA WireTypesSame ==
  ASSUME BInv, UNCHANGED wires
  PROVE  WireTypes'
BY DEF BInv, TInv, WireTypes, wires

LEMMA FlushProviderEffect ==
  ASSUME BInv, FlushProvider
  PROVE  /\ BInv' /\ op.p \in Providers /\ op.pc = "flush" /\ op' = [op EXCEPT !.pc = "off"]
         /\ op'.name = op.name /\ op'.p = op.p /\ op'.s = op.s /\ op'.pc = "off"
         /\ KeepsProv /\ KeepsSess /\ Flushed(op.p)
         /\ risk' = risk \cup (IF \E w \in Writers : Inside(w, op.p) THEN {op.p} ELSE {})
         /\ UNCHANGED <<pending, objs, writer, wires, written>>
<1>1. op.p \in Providers /\ op.pc = "flush" /\ op \in OpType
  BY OpFields DEF FlushProvider, BInv, CallInv
<1>2. prov' \in [Providers -> ProviderType]
      /\ \A q \in Providers : /\ prov'[q].reg = prov[q].reg /\ prov'[q].session = prov[q].session
                              /\ prov'[q].enabled = prov[q].enabled
                              /\ prov'[q].chunks = IF q = op.p THEN <<>> ELSE prov[q].chunks
  BY <1>1, EmptiedFields DEF FlushProvider, BInv
<1>3. /\ sess' \in [Sessions -> SessionType] /\ fault' \in BOOLEAN /\ ChunkInv'
      /\ KeepsProv /\ KeepsSess /\ Flushed(op.p)
  BY <1>1, <1>2, FlushEffect DEF FlushProvider
<1>4. op' = [op EXCEPT !.pc = "off"] /\ op' \in OpType
      /\ op'.name = op.name /\ op'.p = op.p /\ op'.s = op.s /\ op'.pc = "off"
  BY <1>1 DEF FlushProvider, OpType
<1>5. risk' = risk \cup (IF \E w \in Writers : Inside(w, op.p) THEN {op.p} ELSE {})
      /\ UNCHANGED <<pending, objs, writer, wires, written>>
  BY DEF FlushProvider, AtRisk
<1>6. risk' \subseteq Providers
  BY <1>1, <1>5 DEF BInv, TInv, ServerTypes
<1>7. TInv'
  BY <1>2, <1>3, <1>4, <1>5, <1>6, WireTypesSame DEF BInv, TInv, ServerTypes
<1>8. CallInv'
  BY <1>1, <1>4, <1>5 DEF BInv, CallInv
<1> QED BY <1>1, <1>3, <1>4, <1>5, <1>7, <1>8 DEF BInv

LEMMA TurnOffEffect ==
  ASSUME BInv, TurnOff
  PROVE  /\ BInv' /\ op.p \in Providers /\ op.pc = "off"
         /\ op'.name = op.name /\ op'.p = op.p /\ op'.s = op.s /\ op'.pc = "reset"
         /\ \A p \in Providers :
               /\ prov'[p].session = prov[p].session /\ prov'[p].chunks = prov[p].chunks
               /\ prov'[p].reg = (prov[p].reg /\ ~(op.name = "unregister" /\ p = op.p))
               /\ prov'[p].enabled = (prov[p].enabled /\ ~(op.name # "unregister" /\ p = op.p))
         /\ UNCHANGED <<pending, objs, sess, writer, wires, written, fault, risk>>
<1>1. op.p \in Providers /\ op.pc = "off" /\ op \in OpType
  BY OpFields DEF TurnOff, BInv, CallInv
<1>2. op' \in OpType /\ op'.name = op.name /\ op'.p = op.p /\ op'.s = op.s /\ op'.pc = "reset"
  BY <1>1 DEF TurnOff, OpType
<1>3. prov \in [Providers -> ProviderType] /\ \A p \in Providers : prov[p] \in ProviderType
  BY DEF BInv, TInv, ServerTypes
<1>4. prov' \in [Providers -> ProviderType]
  BY <1>1, ProvTypes DEF TurnOff, BInv
<1>5. ASSUME NEW p \in Providers
      PROVE  /\ prov'[p].session = prov[p].session /\ prov'[p].chunks = prov[p].chunks
             /\ prov'[p].reg = (prov[p].reg /\ ~(op.name = "unregister" /\ p = op.p))
             /\ prov'[p].enabled = (prov[p].enabled /\ ~(op.name # "unregister" /\ p = op.p))
  <2>1. prov[p].reg \in BOOLEAN /\ prov[p].enabled \in BOOLEAN
    BY ProviderFields DEF BInv
  <2>2. CASE op.name = "unregister"
    <3>1. prov' = [prov EXCEPT ![op.p].reg = FALSE]
      BY <2>2 DEF TurnOff
    <3> QED BY <1>1, <1>3, <2>1, <2>2, <3>1 DEF ProviderType
  <2>3. CASE op.name # "unregister"
    <3>1. prov' = [prov EXCEPT ![op.p].enabled = FALSE]
      BY <2>3 DEF TurnOff
    <3> QED BY <1>1, <1>3, <2>1, <2>3, <3>1 DEF ProviderType
  <2> QED BY <2>2, <2>3
<1>6. UNCHANGED <<pending, objs, sess, writer, wires, written, fault, risk>>
  BY DEF TurnOff
<1>7. TInv'
  BY <1>2, <1>4, <1>6, WireTypesSame DEF BInv, TInv, ServerTypes
<1>8. CallInv' /\ ChunkInv'
  BY <1>1, <1>2, <1>5, <1>6 DEF BInv, CallInv, ChunkInv
<1> QED BY <1>1, <1>2, <1>5, <1>6, <1>7, <1>8 DEF BInv

LEMMA ResetEffect ==
  ASSUME BInv, Reset
  PROVE  /\ BInv' /\ op.p \in Providers /\ op.pc = "reset" /\ op' = NoOp
         /\ \A p \in Providers :
               /\ prov'[p].reg = prov[p].reg /\ prov'[p].enabled = prov[p].enabled /\ prov'[p].chunks = prov[p].chunks
               /\ prov'[p].session = IF op.name # "disable" /\ p = op.p THEN None ELSE prov[p].session
         /\ objs' = IF op.name \in {"terminate", "unregister"} THEN objs \ {op.s} ELSE objs
         /\ \A s \in Sessions :
               /\ sess'[s].of = sess[s].of
               /\ IF op.name \in {"terminate", "unregister"} /\ s = op.s THEN sess'[s].reply = None
                  ELSE sess'[s] = sess[s]
         /\ \A s \in Sessions : sess[s].queue = <<>> /\ sess[s].chunk = <<>> /\ sess[s].payload = None
                 => sess'[s].queue = <<>> /\ sess'[s].chunk = <<>> /\ sess'[s].payload = None
         /\ UNCHANGED <<pending, writer, wires, written, fault, risk>>
<1>1. op.p \in Providers /\ op.pc = "reset" /\ op' = NoOp
  BY DEF Reset, BInv, CallInv
<1>2. NoOp \in OpType /\ NoOp.pc = "none"
  BY DEF NoOp, OpType
<1>3. prov \in [Providers -> ProviderType] /\ \A p \in Providers : prov[p] \in ProviderType
  BY DEF BInv, TInv, ServerTypes
<1>4. prov' \in [Providers -> ProviderType]
  BY <1>1, <1>3, ProvTypes DEF Reset, BInv
<1>5. ASSUME NEW p \in Providers
      PROVE  /\ prov'[p].reg = prov[p].reg /\ prov'[p].enabled = prov[p].enabled /\ prov'[p].chunks = prov[p].chunks
             /\ prov'[p].session = IF op.name # "disable" /\ p = op.p THEN None ELSE prov[p].session
  <2>1. CASE op.name = "disable"
    BY <2>1 DEF Reset
  <2>2. CASE op.name # "disable"
    <3>1. prov' = [prov EXCEPT ![op.p].session = None]
      BY <2>2 DEF Reset
    <3> QED BY <1>1, <1>3, <2>2, <3>1 DEF ProviderType
  <2> QED BY <2>1, <2>2
<1>6. objs' = IF op.name \in {"terminate", "unregister"} THEN objs \ {op.s} ELSE objs
  BY DEF Reset, Delete
<1>7. sess \in [Sessions -> SessionType] /\ objs \subseteq Sessions
  BY DEF BInv, TInv, ServerTypes
<1>8. ASSUME NEW s \in Sessions
      PROVE  LET n == [NewSession EXCEPT !.of = sess[s].of]
             IN  /\ n \in SessionType /\ n.of = sess[s].of /\ n.reply = None /\ n.queue = <<>> /\ n.chunk = <<>>
                 /\ n.payload = None
  <2>1. sess[s].of \in Providers \cup {None} /\ <<>> \in Seq(Chunk) /\ <<>> \in Chunk
    BY SessionFields DEF BInv, Chunk
  <2> QED BY <2>1 DEF NewSession, SessionType
<1>9. CASE op.name \in {"terminate", "unregister"}
  <2>1. sess' = [x \in Sessions |-> IF x = op.s THEN [NewSession EXCEPT !.of = sess[x].of] ELSE sess[x]]
    BY <1>9 DEF Reset, Delete
  <2>2. ASSUME NEW s \in Sessions
        PROVE  /\ sess'[s] \in SessionType /\ sess'[s].of = sess[s].of
               /\ IF s = op.s THEN /\ sess'[s].reply = None /\ sess'[s].queue = <<>> /\ sess'[s].chunk = <<>>
                                   /\ sess'[s].payload = None
                  ELSE sess'[s] = sess[s]
    <3>1. CASE s = op.s
      <4>1. sess'[s] = [NewSession EXCEPT !.of = sess[s].of]
        BY <2>1, <3>1
      <4> QED BY <1>8, <3>1, <4>1
    <3>2. CASE s # op.s
      BY <1>7, <2>1, <3>2
    <3> QED BY <3>1, <3>2
  <2>3. sess' \in [Sessions -> SessionType]
    <3>1. sess' = [x \in Sessions |-> sess'[x]]
      BY <2>1
    <3> QED BY <2>2, <3>1
  <2>4. \A s \in Sessions : sess'[s].queue = <<>> \/ sess'[s].queue = sess[s].queue
    BY <2>2
  <2> QED
    <3>1. UNCHANGED <<pending, writer, wires, written, fault, risk>>
      BY DEF Reset
    <3>2. TInv'
      BY <1>1, <1>2, <1>4, <1>6, <1>7, <2>3, <3>1, WireTypesSame DEF BInv, TInv, ServerTypes
    <3>3. CallInv'
      BY <1>1, <1>2, <3>1 DEF BInv, CallInv
    <3>4. ChunkInv'
      <4>1. \A p \in Providers : Filling(prov'[p].chunks)
        BY <1>5 DEF BInv, ChunkInv
      <4>2. ASSUME NEW s \in Sessions PROVE \A i \in 1..Len(sess'[s].queue) : sess'[s].queue[i] # <<>>
        BY <2>4 DEF BInv, ChunkInv
      <4> QED BY <4>1, <4>2 DEF ChunkInv
    <3> QED BY <1>1, <1>5, <1>6, <1>9, <2>2, <3>1, <3>2, <3>3, <3>4 DEF BInv
<1>10. CASE op.name \notin {"terminate", "unregister"}
  <2>1. sess' = sess
    BY <1>10 DEF Reset
  <2>2. UNCHANGED <<pending, writer, wires, written, fault, risk>>
    BY DEF Reset
  <2>3. TInv'
    BY <1>1, <1>2, <1>4, <1>6, <1>7, <2>1, <2>2, WireTypesSame DEF BInv, TInv, ServerTypes
  <2>4. CallInv' /\ ChunkInv'
    BY <1>1, <1>2, <1>5, <2>1, <2>2 DEF BInv, CallInv, ChunkInv
  <2> QED BY <1>1, <1>5, <1>6, <1>10, <2>1, <2>2, <2>3, <2>4 DEF BInv
<1> QED BY <1>9, <1>10

\* The actions of writers.
LEMMA QueryEffect ==
  ASSUME BInv, NEW w \in Writers, NEW p \in Providers, QueryEventWriteStatus(w, p)
  PROVE  /\ BInv' /\ prov[p].reg /\ prov[p].enabled
         /\ \A v \in Writers, q \in Providers : Inside(v, q)' => Inside(v, q) \/ q = p
         /\ risk' = risk \cup (IF op.p = p /\ op.pc = "off" THEN {p} ELSE {})
         /\ UNCHANGED <<prov, pending, objs, sess, op, wires, written, fault>>
<1>1. /\ prov[p].reg /\ prov[p].enabled /\ writer' = [writer EXCEPT ![w] = [pc |-> "checked", p |-> p]]
      /\ risk' = risk \cup (IF op.p = p /\ op.pc = "off" THEN {p} ELSE {})
      /\ UNCHANGED <<prov, pending, objs, sess, op, wires, written, fault>>
  BY DEF QueryEventWriteStatus, AtRisk
<1>2. writer \in [Writers -> WriterType] /\ [pc |-> "checked", p |-> p] \in WriterType
  BY DEF BInv, TInv, ServerTypes, WriterType
<1>3. /\ writer' \in [Writers -> WriterType] /\ \A v \in Writers : v # w => writer'[v] = writer[v]
      /\ writer'[w].p = p
  BY <1>1, <1>2
<1>4. TInv'
  BY <1>1, <1>3, WireTypesSame DEF BInv, TInv, ServerTypes
<1>5. CallInv' /\ ChunkInv'
  BY <1>1, <1>3 DEF BInv, CallInv, ChunkInv
<1>6. ASSUME NEW v \in Writers, NEW q \in Providers, Inside(v, q)' PROVE Inside(v, q) \/ q = p
  <2>1. writer'[v].p = q /\ writer'[v].pc # "idle"
    BY <1>6 DEF Inside
  <2> QED BY <1>3, <2>1 DEF Inside
<1> QED BY <1>1, <1>4, <1>5, <1>6 DEF BInv

LEMMA PartsType ==
  ASSUME BInv, NEW p \in Providers, NEW n \in Sizes
  PROVE  Parts(p, n) \in Seq(Part) /\ Len(Parts(p, n)) = n /\ n \in Nat /\ n > 0
<1>1. n \in Nat /\ n > 0
  BY EventAssumption
<1>2. prov[p].index + 1 \in Nat
  BY ProviderFields DEF BInv
<1>3. \A i \in 1..n : [p |-> p, n |-> prov[p].index + 1, part |-> i] \in Part
  BY <1>1, <1>2 DEF Part
<1> QED BY <1>1, <1>3 DEF Parts

\* An event is written, or memory is short, or a pointer is followed that is
\* not one to a session.
LEMMA WriteEventEffect ==
  ASSUME BInv, NEW w \in Writers, NEW n \in Sizes, WriteEvent(w, n)
  PROVE  LET p == writer[w].p
             s == prov[p].session
             parts == Parts(p, n)
         IN  /\ BInv' /\ p \in Providers /\ Inside(w, p) /\ KeepsProv
             /\ \A v \in Writers, q \in Providers : Inside(v, q)' => Inside(v, q)
             /\ \A q \in Providers : q # p => prov'[q].chunks = prov[q].chunks
             /\ \A t \in Sessions : t # s => written'[t] = written[t]
             /\ \/ prov'[p].chunks = prov[p].chunks /\ (s \in Sessions => written'[s] = written[s])
                \/ prov'[p].chunks = Chunks(p, parts) /\ (s \in Sessions => written'[s] = written[s] \o parts)
             /\ s \in objs => fault' = fault
             /\ UNCHANGED <<pending, objs, sess, op, wires, risk>>
<1> DEFINE p == writer[w].p
           s == prov[p].session
           parts == Parts(p, n)
           Goal == /\ BInv' /\ p \in Providers /\ Inside(w, p) /\ KeepsProv
                   /\ \A v \in Writers, q \in Providers : Inside(v, q)' => Inside(v, q)
                   /\ \A q \in Providers : q # p => prov'[q].chunks = prov[q].chunks
                   /\ \A t \in Sessions : t # s => written'[t] = written[t]
                   /\ \/ prov'[p].chunks = prov[p].chunks /\ (s \in Sessions => written'[s] = written[s])
                      \/ prov'[p].chunks = Chunks(p, parts) /\ (s \in Sessions => written'[s] = written[s] \o parts)
                   /\ s \in objs => fault' = fault
                   /\ UNCHANGED <<pending, objs, sess, op, wires, risk>>
<1>1. /\ writer[w].pc = "checked" /\ writer' = [writer EXCEPT ![w].pc = "locked"]
      /\ UNCHANGED <<pending, objs, sess, op, wires, risk>>
      /\ \/ s \notin objs /\ fault' = TRUE /\ UNCHANGED <<prov, written>>
         \/ /\ prov' = [prov EXCEPT ![p].lock = w, ![p].index = @ + 1, ![p].chunks = Chunks(p, parts)]
            /\ written' = IF s = None THEN written ELSE [written EXCEPT ![s] = @ \o parts]
            /\ UNCHANGED fault
         \/ /\ prov' = [prov EXCEPT ![p].lock = w, ![p].index = @ + 1]
            /\ UNCHANGED <<written, fault>>
  BY DEF WriteEvent
<1>2. p \in Providers /\ Inside(w, p) /\ prov \in [Providers -> ProviderType] /\ prov[p] \in ProviderType
      /\ writer \in [Writers -> WriterType] /\ writer[w] \in WriterType
  BY <1>1 DEF BInv, CallInv, TInv, ServerTypes, Inside
<1>3. /\ writer' \in [Writers -> WriterType] /\ \A v \in Writers : v # w => writer'[v] = writer[v]
      /\ writer'[w].p = p /\ writer'[w].pc = "locked"
  BY <1>1, <1>2 DEF WriterType
<1>4. ASSUME NEW v \in Writers, NEW q \in Providers, Inside(v, q)' PROVE Inside(v, q)
  <2>1. writer'[v].p = q /\ writer'[v].pc # "idle"
    BY <1>4 DEF Inside
  <2>2. CASE v = w
    BY <1>2, <1>3, <2>1, <2>2
  <2>3. CASE v # w
    BY <1>3, <2>1, <2>3 DEF Inside
  <2> QED BY <2>2, <2>3
<1>5. CallInv'
  <2>1. ASSUME NEW v \in Writers, writer'[v].pc # "idle" PROVE writer'[v].p \in Providers
    <3>1. CASE v = w
      BY <1>2, <1>3, <3>1
    <3>2. CASE v # w
      BY <1>3, <2>1, <3>2 DEF BInv, CallInv
    <3> QED BY <3>1, <3>2
  <2>2. op' = op
    BY <1>1
  <2> QED BY <2>1, <2>2 DEF BInv, CallInv
<1>6. ASSUME prov' \in [Providers -> ProviderType], written' \in [Sessions -> Seq(Part)], fault' \in BOOLEAN,
             \A q \in Providers : Filling(prov'[q].chunks)
      PROVE  BInv'
  <2>1. TInv'
    BY <1>1, <1>3, <1>6, WireTypesSame DEF BInv, TInv, ServerTypes
  <2>2. ChunkInv'
    BY <1>1, <1>6 DEF BInv, ChunkInv
  <2> QED BY <1>5, <2>1, <2>2 DEF BInv
<1>7. CASE s \notin objs /\ fault' = TRUE /\ UNCHANGED <<prov, written>>
  <2>1. BInv'
    BY <1>6, <1>7 DEF BInv, TInv, ServerTypes, ChunkInv
  <2> QED BY <1>1, <1>2, <1>4, <1>7, <2>1 DEF KeepsProv
<1>8. CASE /\ prov' = [prov EXCEPT ![p].lock = w, ![p].index = @ + 1, ![p].chunks = Chunks(p, parts)]
           /\ written' = IF s = None THEN written ELSE [written EXCEPT ![s] = @ \o parts]
           /\ UNCHANGED fault
  <2> DEFINE q0 == Chunks(p, parts)
  <2>1. parts \in Seq(Part) /\ Len(parts) > 0
    BY <1>2, PartsType
  <2>2. q0 \in Seq(Chunk) /\ Filling(q0)
    BY <1>2, <2>1, ProviderFields, ChunksProperties DEF BInv, ChunkInv
  <2>3. prov' = [prov EXCEPT ![p].lock = w, ![p].index = @ + 1, ![p].chunks = q0]
    BY <1>8
  <2> HIDE DEF q0
  <2>4. prov' \in [Providers -> ProviderType]
    BY <1>2, <2>2, <2>3, ProvTypes DEF BInv
  <2>5. \A q \in Providers : /\ prov'[q].reg = prov[q].reg /\ prov'[q].session = prov[q].session
                             /\ prov'[q].enabled = prov[q].enabled
                             /\ prov'[q].chunks = IF q = p THEN q0 ELSE prov[q].chunks
    BY <1>2, <2>3 DEF ProviderType
  <2>6. s \in Sessions \cup {None} /\ None \notin Sessions /\ written \in [Sessions -> Seq(Part)] /\ objs \subseteq Sessions
    BY <1>2, ProviderFields, EventAssumption DEF BInv, TInv, ServerTypes
  <2> HIDE DEF s, parts, p
  <2>7. /\ written' \in [Sessions -> Seq(Part)] /\ \A t \in Sessions : t # s => written'[t] = written[t]
        /\ s \in Sessions => written'[s] = written[s] \o parts
    <3>1. CASE s = None
      BY <1>8, <2>6, <3>1
    <3>2. CASE s \in Sessions
      <4>1. written[s] \o parts \in Seq(Part)
        BY <2>1, <2>6, <3>2, ConcatProperties
      <4>2. written' = [written EXCEPT ![s] = written[s] \o parts]
        BY <1>8, <2>6, <3>2
      <4> QED BY <2>6, <3>2, <4>1, <4>2
    <3> QED BY <2>6, <3>1, <3>2
  <2>8. \A q \in Providers : Filling(prov'[q].chunks)
    BY <2>2, <2>5 DEF BInv, ChunkInv
  <2>9. BInv'
    BY <1>6, <1>8, <2>4, <2>7, <2>8 DEF BInv, TInv, ServerTypes
  <2>10. KeepsProv
    BY <2>5 DEF KeepsProv
  <2>11. prov'[p].chunks = Chunks(p, parts) /\ \A q \in Providers : q # p => prov'[q].chunks = prov[q].chunks
    BY <1>2, <2>5 DEF q0
  <2>12. fault' = fault /\ UNCHANGED <<pending, objs, sess, op, wires, risk>>
    BY <1>1, <1>8
  <2> QED BY <1>2, <1>4, <2>7, <2>9, <2>10, <2>11, <2>12 DEF p, s, parts
<1>9. CASE prov' = [prov EXCEPT ![p].lock = w, ![p].index = @ + 1] /\ UNCHANGED <<written, fault>>
  <2>1. prov' \in [Providers -> ProviderType]
    BY <1>2, <1>9, ProvTypes DEF BInv
  <2>2. \A q \in Providers : /\ prov'[q].reg = prov[q].reg /\ prov'[q].session = prov[q].session
                             /\ prov'[q].enabled = prov[q].enabled /\ prov'[q].chunks = prov[q].chunks
    BY <1>2, <1>9 DEF ProviderType
  <2>3. BInv'
    BY <1>6, <1>9, <2>1, <2>2 DEF BInv, TInv, ServerTypes, ChunkInv
  <2>4. KeepsProv
    BY <2>2 DEF KeepsProv
  <2> QED BY <1>1, <1>2, <1>4, <1>9, <2>2, <2>3, <2>4
<1>10. Goal
  BY <1>1, <1>7, <1>8, <1>9
<1> QED BY <1>10

LEMMA FinishWriteEffect ==
  ASSUME BInv, NEW w \in Writers, NEW flush \in BOOLEAN, FinishWrite(w, flush)
  PROVE  LET p == writer[w].p
         IN  /\ BInv' /\ p \in Providers /\ Inside(w, p) /\ KeepsProv /\ KeepsSess
             /\ \A v \in Writers, q \in Providers : Inside(v, q)' => Inside(v, q)
             /\ Flushed(p) \/ (KeepsData /\ KeepsChunks)
             /\ UNCHANGED <<pending, objs, op, wires, written, risk>>
<1> DEFINE p == writer[w].p
<1>1. /\ writer[w].pc = "locked" /\ writer' = [writer EXCEPT ![w] = [pc |-> "idle", p |-> None]]
      /\ UNCHANGED <<pending, objs, op, wires, written, risk>>
  BY DEF FinishWrite
<1>2. p \in Providers /\ Inside(w, p) /\ prov \in [Providers -> ProviderType] /\ prov[p] \in ProviderType
      /\ writer \in [Writers -> WriterType] /\ [pc |-> "idle", p |-> None] \in WriterType
  BY <1>1 DEF BInv, CallInv, TInv, ServerTypes, Inside, WriterType
<1>3. /\ writer' \in [Writers -> WriterType] /\ \A v \in Writers : v # w => writer'[v] = writer[v]
      /\ writer'[w].pc = "idle"
  BY <1>1, <1>2
<1>4. ASSUME NEW v \in Writers, NEW q \in Providers, Inside(v, q)' PROVE Inside(v, q)
  <2>1. writer'[v].p = q /\ writer'[v].pc # "idle"
    BY <1>4 DEF Inside
  <2> QED BY <1>3, <2>1 DEF Inside
<1>5. CallInv'
  BY <1>1, <1>3 DEF BInv, CallInv
<1>6. CASE flush
  <2>1. FlushTo(p) /\ prov' = [prov EXCEPT ![p].lock = None, ![p].chunks = <<>>]
    BY <1>6 DEF FinishWrite
  <2>2. prov' \in [Providers -> ProviderType]
        /\ \A q \in Providers : /\ prov'[q].reg = prov[q].reg /\ prov'[q].session = prov[q].session
                                /\ prov'[q].enabled = prov[q].enabled
                                /\ prov'[q].chunks = IF q = p THEN <<>> ELSE prov[q].chunks
    BY <1>2, <2>1, EmptiedFields DEF BInv
  <2>3. /\ sess' \in [Sessions -> SessionType] /\ fault' \in BOOLEAN /\ ChunkInv' /\ KeepsProv /\ KeepsSess /\ Flushed(p)
    BY <1>2, <2>1, <2>2, FlushEffect
  <2>4. TInv'
    BY <1>1, <1>3, <2>2, <2>3, WireTypesSame DEF BInv, TInv, ServerTypes
  <2> QED BY <1>1, <1>2, <1>4, <1>5, <2>3, <2>4 DEF BInv
<1>7. CASE ~flush
  <2>1. prov' = [prov EXCEPT ![p].lock = None] /\ UNCHANGED <<sess, fault>>
    BY <1>7 DEF FinishWrite
  <2>2. prov' \in [Providers -> ProviderType]
    BY <1>2, <2>1, ProvTypes DEF BInv
  <2>3. \A q \in Providers : /\ prov'[q].reg = prov[q].reg /\ prov'[q].session = prov[q].session
                             /\ prov'[q].enabled = prov[q].enabled /\ prov'[q].chunks = prov[q].chunks
    BY <1>2, <2>1 DEF ProviderType
  <2>4. TInv'
    BY <1>1, <1>3, <2>1, <2>2, WireTypesSame DEF BInv, TInv, ServerTypes
  <2>5. ChunkInv' /\ KeepsProv /\ KeepsSess /\ KeepsData /\ KeepsChunks
    BY <2>1, <2>3 DEF BInv, ChunkInv, KeepsProv, KeepsSess, KeepsData, KeepsChunks
  <2> QED BY <1>1, <1>2, <1>4, <1>5, <2>4, <2>5 DEF BInv
<1> QED BY <1>6, <1>7

\* Registration, and sessions that come and go.
LEMMA RegisteredAnew ==
  ASSUME NEW i \in Nat
  PROVE  LET x == [NewProvider EXCEPT !.reg = TRUE, !.index = i]
         IN  /\ x \in ProviderType /\ x.reg = TRUE /\ x.session = None /\ x.enabled = FALSE /\ x.chunks = <<>>
<1> DEFINE x == [NewProvider EXCEPT !.reg = TRUE, !.index = i]
<1>1. <<>> \in Seq(Chunk)
  OBVIOUS
<1>2. NewProvider \in ProviderType
  BY <1>1 DEF NewProvider, ProviderType
<1>3. x.reg = TRUE /\ x.session = None /\ x.enabled = FALSE /\ x.chunks = <<>>
  BY DEF NewProvider
<1>4. x \in ProviderType
  BY <1>2 DEF ProviderType
<1> QED BY <1>3, <1>4

LEMMA RegisterEffect ==
  ASSUME BInv, NEW p \in Providers, RegisterProvider(p)
  PROVE  /\ BInv' /\ op.name = "none" /\ ~prov[p].reg /\ prov'[p].reg
         /\ \A q \in Providers : q # p => prov'[q] = prov[q]
         /\ \/ /\ prov'[p].session = prov[p].session /\ prov'[p].enabled = prov[p].enabled
               /\ prov'[p].chunks = prov[p].chunks
               /\ risk' = risk \cup (IF prov[p].enabled THEN {p} ELSE {})
            \/ /\ prov'[p].session = None /\ prov'[p].enabled = FALSE /\ prov'[p].chunks = <<>>
               /\ \A w \in Writers : ~Inside(w, p)
               /\ risk' = risk
         /\ UNCHANGED <<pending, objs, sess, op, writer, wires, written, fault>>
<1>1. /\ op.name = "none" /\ ~prov[p].reg
      /\ UNCHANGED <<pending, objs, sess, op, writer, wires, written, fault>>
  BY DEF RegisterProvider, UpdateLock
<1>2. prov \in [Providers -> ProviderType] /\ prov[p] \in ProviderType
  BY DEF BInv, TInv, ServerTypes
<1>3. CASE prov' = [prov EXCEPT ![p].reg = TRUE] /\ risk' = risk \cup (IF prov[p].enabled THEN {p} ELSE {})
  <2>1. prov' \in [Providers -> ProviderType]
    BY <1>3, ProvTypes DEF BInv
  <2>2. \A q \in Providers : q # p => prov'[q] = prov[q]
    BY <1>2, <1>3
  <2>3. /\ prov'[p].reg /\ prov'[p].session = prov[p].session /\ prov'[p].enabled = prov[p].enabled
        /\ prov'[p].chunks = prov[p].chunks
    BY <1>2, <1>3 DEF ProviderType
  <2>4. TInv'
    BY <1>1, <1>3, <2>1, WireTypesSame DEF BInv, TInv, ServerTypes
  <2>5. ChunkInv' /\ CallInv'
    BY <1>1, <2>2, <2>3 DEF BInv, ChunkInv, CallInv
  <2> QED BY <1>1, <1>3, <2>2, <2>3, <2>4, <2>5 DEF BInv
<1>4. CASE /\ \A w \in Writers : ~Inside(w, p)
           /\ prov' = [prov EXCEPT ![p] = [NewProvider EXCEPT !.reg = TRUE, !.index = prov[p].index]]
           /\ risk' = risk
  <2> DEFINE x == [NewProvider EXCEPT !.reg = TRUE, !.index = prov[p].index]
  <2>1. prov[p].index \in Nat
    BY <1>2 DEF ProviderType
  <2>2. /\ x \in ProviderType /\ x.reg = TRUE /\ x.session = None /\ x.enabled = FALSE /\ x.chunks = <<>>
    BY <2>1, RegisteredAnew
  <2>3. prov' = [prov EXCEPT ![p] = x]
    BY <1>4
  <2> HIDE DEF x
  <2>4. prov' \in [Providers -> ProviderType] /\ prov'[p] = x /\ \A q \in Providers : q # p => prov'[q] = prov[q]
    BY <1>2, <2>2, <2>3
  <2>5. TInv'
    BY <1>1, <1>4, <2>4, WireTypesSame DEF BInv, TInv, ServerTypes
  <2>6. Filling(<<>>)
    BY DEF Filling
  <2>7. ChunkInv' /\ CallInv'
    BY <1>1, <2>2, <2>4, <2>6 DEF BInv, ChunkInv, CallInv
  <2> QED BY <1>1, <1>4, <2>2, <2>4, <2>5, <2>7 DEF BInv
<1> QED BY <1>3, <1>4 DEF RegisterProvider, AtRisk

\* An operation that takes the update lock.
LEMMA TakesLock ==
  ASSUME NEW name \in {"terminate", "unregister", "disable", "unsubscribe"}, NEW pc \in {"flush", "reset"},
         NEW p \in Providers, NEW s \in Sessions \cup {None}
  PROVE  LET o == [name |-> name, pc |-> pc, p |-> p, s |-> s]
         IN  o \in OpType /\ o.name = name /\ o.pc = pc /\ o.p = p /\ o.s = s
BY DEF OpType

LEMMA DisablingEffect ==
  ASSUME BInv, NEW name \in {"terminate", "disable", "unsubscribe"}, NEW p \in Providers, NEW s \in Sessions,
         Disabling(name, p, s)
  PROVE  /\ op' \in OpType /\ op'.name = name /\ op'.p = p /\ op'.s = s
         /\ op'.pc = IF prov[p].enabled THEN "flush" ELSE "reset"
<1> DEFINE pc == IF prov[p].enabled THEN "flush" ELSE "reset"
<1>1. pc \in {"flush", "reset"}
  OBVIOUS
<1>2. op' = [name |-> name, pc |-> pc, p |-> p, s |-> s]
  BY DEF Disabling
<1> HIDE DEF pc
<1>3. op' \in OpType /\ op'.name = name /\ op'.p = p /\ op'.s = s /\ op'.pc = pc
  BY <1>1, <1>2, TakesLock
<1> QED BY <1>3 DEF pc

LEMMA UnregisterEffect ==
  ASSUME BInv, NEW p \in Providers, UnregisterProvider(p)
  PROVE  /\ BInv' /\ op.name = "none" /\ prov[p].reg
         /\ op'.name = "unregister" /\ op'.pc = "flush" /\ op'.p = p /\ op'.s = prov[p].session
         /\ UNCHANGED <<prov, pending, objs, sess, writer, wires, written, fault, risk>>
<1>1. /\ op.name = "none" /\ prov[p].reg
      /\ op' = [name |-> "unregister", pc |-> "flush", p |-> p, s |-> prov[p].session]
      /\ UNCHANGED <<prov, pending, objs, sess, writer, wires, written, fault, risk>>
  BY DEF UnregisterProvider, UpdateLock
<1>2. prov[p].session \in Sessions \cup {None}
  BY ProviderFields DEF BInv
<1>3. op' \in OpType /\ op'.name = "unregister" /\ op'.pc = "flush" /\ op'.p = p /\ op'.s = prov[p].session
  BY <1>1, <1>2 DEF OpType
<1>4. TInv'
  BY <1>1, <1>3, WireTypesSame DEF BInv, TInv, ServerTypes
<1>5. ChunkInv' /\ CallInv'
  BY <1>1, <1>3 DEF BInv, ChunkInv, CallInv
<1> QED BY <1>1, <1>3, <1>4, <1>5 DEF BInv

LEMMA AcceptEffect ==
  ASSUME BInv, NEW s \in Sessions, AcceptSession(s) \/ Lose(s)
  PROVE  BInv'
<1>1. link \in [Sessions -> {"down", "accepted", "up", "leaving"}]
  BY DEF BInv, TInv, WireTypes
<1>2. /\ link' \in [Sessions -> {"down", "accepted", "up", "leaving"}]
      /\ UNCHANGED <<prov, pending, objs, sess, op, writer, toServer, toClient, cl, written, fault, risk>>
  BY <1>1 DEF AcceptSession, Lose
<1> QED BY <1>2 DEF BInv, TInv, ServerTypes, WireTypes, ChunkInv, CallInv

LEMMA EstablishedEffect ==
  ASSUME BInv, NEW s \in Sessions, SessionEstablished(s)
  PROVE  /\ BInv' /\ link[s] = "accepted"
         /\ link' = [link EXCEPT ![s] = "up"] /\ pending' = pending \cup {s} /\ objs' = objs \cup {s}
         /\ cl'[s].pc = "ready" /\ cl'[s].subscribed = cl[s].subscribed /\ cl'[s].got = cl[s].got
         /\ \A t \in Sessions : t # s => cl'[t] = cl[t] /\ link'[t] = link[t]
         /\ UNCHANGED <<prov, sess, op, writer, toServer, toClient, written, fault, risk>>
<1>1. /\ link[s] = "accepted"
      /\ link' = [link EXCEPT ![s] = "up"] /\ pending' = pending \cup {s} /\ objs' = objs \cup {s}
      /\ cl' = [cl EXCEPT ![s].pc = "ready"]
      /\ UNCHANGED <<prov, sess, op, writer, toServer, toClient, written, fault, risk>>
  BY DEF SessionEstablished
<1>2. /\ link \in [Sessions -> {"down", "accepted", "up", "leaving"}] /\ cl \in [Sessions -> ClientType]
      /\ cl[s] \in ClientType /\ pending \subseteq Sessions /\ objs \subseteq Sessions
  BY DEF BInv, TInv, ServerTypes, WireTypes
<1>3. cl' \in [Sessions -> ClientType] /\ cl'[s].pc = "ready" /\ cl'[s].subscribed = cl[s].subscribed
      /\ cl'[s].got = cl[s].got
  BY <1>1, <1>2 DEF ClientType
<1>4. \A t \in Sessions : t # s => cl'[t] = cl[t] /\ link'[t] = link[t]
  BY <1>1, <1>2
<1>5. link' \in [Sessions -> {"down", "accepted", "up", "leaving"}] /\ pending' \subseteq Sessions /\ objs' \subseteq Sessions
  BY <1>1, <1>2
<1>6. TInv'
  BY <1>1, <1>3, <1>5 DEF BInv, TInv, ServerTypes, WireTypes
<1>7. ChunkInv' /\ CallInv'
  BY <1>1 DEF BInv, ChunkInv, CallInv
<1> QED BY <1>1, <1>3, <1>4, <1>6, <1>7 DEF BInv

LEMMA DownEffect ==
  ASSUME BInv, NEW s \in Sessions, Down(s)
  PROVE  /\ WireTypes' /\ written' \in [Sessions -> Seq(Part)]
         /\ link'[s] = "down" /\ toServer'[s] = <<>> /\ toClient'[s] = <<>> /\ written'[s] = <<>>
         /\ cl'[s].pc = "done" /\ ~cl'[s].subscribed /\ cl'[s].got = <<>>
         /\ \A t \in Sessions : t # s => /\ link'[t] = link[t] /\ toServer'[t] = toServer[t]
                                         /\ toClient'[t] = toClient[t] /\ cl'[t] = cl[t] /\ written'[t] = written[t]
<1> DEFINE n == [NewClient EXCEPT !.pc = "done"]
<1>1. n \in ClientType /\ n.pc = "done" /\ ~n.subscribed /\ n.got = <<>>
  <2>1. <<>> \in Seq(Part)
    OBVIOUS
  <2>2. NewClient \in ClientType /\ ~NewClient.subscribed /\ NewClient.got = <<>>
    BY <2>1 DEF NewClient, ClientType
  <2> QED BY <2>2 DEF ClientType
<1>2. cl' = [cl EXCEPT ![s] = n]
  BY DEF Down
<1> HIDE DEF n
<1>3. /\ link \in [Sessions -> {"down", "accepted", "up", "leaving"}] /\ cl \in [Sessions -> ClientType]
      /\ toServer \in [Sessions -> Seq(Message)] /\ toClient \in [Sessions -> Seq(Packet)]
      /\ written \in [Sessions -> Seq(Part)]
  BY DEF BInv, TInv, ServerTypes, WireTypes
<1>4. cl' \in [Sessions -> ClientType] /\ cl'[s] = n /\ \A t \in Sessions : t # s => cl'[t] = cl[t]
  BY <1>1, <1>2, <1>3
<1>5. /\ link' \in [Sessions -> {"down", "accepted", "up", "leaving"}] /\ link'[s] = "down"
      /\ \A t \in Sessions : t # s => link'[t] = link[t]
  BY <1>3 DEF Down
<1>6. /\ toServer' \in [Sessions -> Seq(Message)] /\ toServer'[s] = <<>>
      /\ \A t \in Sessions : t # s => toServer'[t] = toServer[t]
  BY <1>3 DEF Down
<1>7. /\ toClient' \in [Sessions -> Seq(Packet)] /\ toClient'[s] = <<>>
      /\ \A t \in Sessions : t # s => toClient'[t] = toClient[t]
  BY <1>3 DEF Down
<1>8. /\ written' \in [Sessions -> Seq(Part)] /\ written'[s] = <<>>
      /\ \A t \in Sessions : t # s => written'[t] = written[t]
  BY <1>3 DEF Down
<1> QED BY <1>1, <1>4, <1>5, <1>6, <1>7, <1>8 DEF WireTypes

LEMMA TerminatedEffect ==
  ASSUME BInv, NEW s \in Sessions, SessionTerminated(s)
  PROVE  /\ BInv' /\ op.name = "none" /\ link[s] = "leaving" /\ Down(s)
         /\ \/ s \in pending /\ pending' = pending \ {s} /\ objs' = objs \ {s} /\ op' = op
            \/ s \notin pending /\ UNCHANGED <<pending, objs, op>>
            \/ /\ s \notin pending /\ UNCHANGED <<pending, objs>>
               /\ \E p \in Providers : /\ prov[p].reg /\ prov[p].session = s
                                       /\ op'.name = "terminate" /\ op'.p = p /\ op'.s = s
                                       /\ op'.pc = IF prov[p].enabled THEN "flush" ELSE "reset"
         /\ UNCHANGED <<prov, sess, writer, fault, risk>>
<1>1. op.name = "none" /\ link[s] = "leaving" /\ Down(s) /\ UNCHANGED <<prov, sess, writer, fault, risk>>
  BY DEF SessionTerminated, UpdateLock
<1>2. WireTypes' /\ written' \in [Sessions -> Seq(Part)]
  BY <1>1, DownEffect
<1>3. ASSUME op' \in OpType, op'.pc # "none" => op'.p \in Providers, pending' \subseteq pending, objs' \subseteq objs
      PROVE  BInv'
  <2>1. TInv'
    BY <1>1, <1>2, <1>3 DEF BInv, TInv, ServerTypes
  <2>2. ChunkInv' /\ CallInv'
    BY <1>1, <1>3 DEF BInv, ChunkInv, CallInv
  <2> QED BY <2>1, <2>2 DEF BInv
<1>4. op \in OpType /\ (op.pc # "none" => op.p \in Providers)
  BY OpFields DEF BInv, CallInv
<1>5. CASE s \in pending
  <2>1. pending' = pending \ {s} /\ objs' = objs \ {s} /\ op' = op
    BY <1>5 DEF SessionTerminated
  <2> QED BY <1>1, <1>3, <1>4, <1>5, <2>1
<1>6. CASE s \notin pending /\ ProviderOf(s) = {}
  <2>1. UNCHANGED <<pending, objs, op>>
    BY <1>6 DEF SessionTerminated
  <2> QED BY <1>1, <1>3, <1>4, <1>6, <2>1
<1>7. CASE s \notin pending /\ ProviderOf(s) # {}
  <2>1. UNCHANGED <<pending, objs>>
    BY <1>7 DEF SessionTerminated
  <2>2. PICK p \in ProviderOf(s) : Disabling("terminate", p, s)
    BY <1>7 DEF SessionTerminated
  <2>3. p \in Providers /\ prov[p].reg /\ prov[p].session = s
    BY <2>2 DEF ProviderOf, HasAcquired
  <2>4. /\ op' \in OpType /\ op'.name = "terminate" /\ op'.p = p /\ op'.s = s
        /\ op'.pc = IF prov[p].enabled THEN "flush" ELSE "reset"
    BY <2>2, <2>3, DisablingEffect
  <2>5. BInv'
    BY <1>3, <2>1, <2>3, <2>4
  <2> QED BY <1>1, <1>7, <2>1, <2>3, <2>4, <2>5
<1> QED BY <1>5, <1>6, <1>7

\* Messages.
LEMMA SendEffect ==
  ASSUME BInv, NEW s \in Sessions, NEW m \in Packet, Send(s, m), UNCHANGED <<link, toServer, cl>>
  PROVE  /\ WireTypes' /\ toClient'[s] = Append(toClient[s], m)
         /\ \A t \in Sessions : t # s => toClient'[t] = toClient[t]
<1>1. toClient \in [Sessions -> Seq(Packet)]
  BY DEF BInv, TInv, WireTypes
<1>2. Append(toClient[s], m) \in Seq(Packet)
  BY <1>1
<1>3. toClient' = [toClient EXCEPT ![s] = Append(toClient[s], m)]
  BY DEF Send
<1> QED BY <1>1, <1>2, <1>3 DEF BInv, TInv, WireTypes

LEMMA ReceiveEffect ==
  ASSUME BInv, NEW s \in Sessions, NEW kind, Receives(s, kind), UNCHANGED <<link, toClient, cl>>
  PROVE  /\ WireTypes' /\ toServer'[s] = Tail(toServer[s]) /\ toServer[s] # <<>>
         /\ Head(toServer[s]) \in Message /\ Head(toServer[s]) = toServer[s][1] /\ 1 \in 1..Len(toServer[s])
         /\ Head(toServer[s]).kind = kind
         /\ kind \in {"Subscribe", "Apply"} => Head(toServer[s]).p \in Providers
         /\ \A t \in Sessions : t # s => toServer'[t] = toServer[t]
         /\ op.name = "none" /\ sess[s].reply = None /\ link[s] \in {"up", "leaving"}
         /\ s \in pending \/ \E p \in Providers : prov[p].reg /\ prov[p].session = s
<1>1. toServer \in [Sessions -> Seq(Message)] /\ toServer[s] # <<>> /\ Head(toServer[s]).kind = kind
      /\ toServer' = [toServer EXCEPT ![s] = Tail(toServer[s])]
  BY DEF BInv, TInv, WireTypes, Receives
<1>2. Tail(toServer[s]) \in Seq(Message)
  BY <1>1, HeadTailProperties
<1>3. /\ WireTypes' /\ toServer'[s] = Tail(toServer[s]) /\ \A t \in Sessions : t # s => toServer'[t] = toServer[t]
  BY <1>1, <1>2 DEF BInv, TInv, WireTypes
<1>4. op.name = "none" /\ sess[s].reply = None /\ link[s] \in {"up", "leaving"}
  BY DEF Receives, Updates, UpdateLock
<1>5. s \in pending \/ \E p \in Providers : prov[p].reg /\ prov[p].session = s
  BY DEF Receives, Updates, ProviderOf, HasAcquired
<1> QED BY <1>1, <1>3, <1>4, <1>5, HeadMessage DEF BInv

LEMMA Responses ==
  /\ Response("Success") \in Reply /\ Response("Unavailable") \in Reply /\ Response("Error") \in Reply
  /\ Reply \subseteq Packet /\ None \notin Reply /\ \A r \in Reply : r.kind = "Response"
  /\ Response("Unavailable") # Response("Success") /\ Response("Error") # Response("Success")
<1>1. /\ Response("Success") \in Reply /\ Response("Unavailable") \in Reply /\ Response("Error") \in Reply
      /\ Reply \subseteq Packet /\ \A r \in Reply : r.kind = "Response"
  BY DEF Response, Reply, Packet, Results
<1>2. None \notin Reply
  <2>1. SUFFICES ASSUME NEW r \in Reply PROVE r # None
    OBVIOUS
  <2>2. r = Response(r.result) /\ r.result \in Results
    BY DEF Reply, Response
  <2>3. r = Response("Success") \/ r = Response("Unavailable") \/ r = Response("Error")
    BY <2>2 DEF Results
  <2> QED BY <2>3, EventAssumption
<1>3. Response("Unavailable").result # Response("Success").result /\ Response("Error").result # Response("Success").result
  BY DEF Response
<1> QED BY <1>1, <1>2, <1>3

\* The timer of a provider is due.
LEMMA UpdateProviderEffect ==
  ASSUME BInv, NEW s \in Sessions, UpdateProvider(s)
  PROVE  /\ BInv' /\ KeepsProv /\ KeepsSess /\ \E p \in Providers : Flushed(p)
         /\ UNCHANGED <<pending, objs, op, writer, wires, written, risk>>
<1>1. PICK p \in ProviderOf(s) : FlushTo(p) /\ prov' = [prov EXCEPT ![p].chunks = <<>>]
  BY DEF UpdateProvider
<1>2. UNCHANGED <<pending, objs, op, writer, wires, written, risk>>
  BY DEF UpdateProvider
<1>3. p \in Providers
  BY <1>1 DEF ProviderOf
<1>4. prov' \in [Providers -> ProviderType]
      /\ \A q \in Providers : /\ prov'[q].reg = prov[q].reg /\ prov'[q].session = prov[q].session
                              /\ prov'[q].enabled = prov[q].enabled
                              /\ prov'[q].chunks = IF q = p THEN <<>> ELSE prov[q].chunks
  BY <1>1, <1>3, EmptiedFields DEF BInv
<1>5. /\ sess' \in [Sessions -> SessionType] /\ fault' \in BOOLEAN /\ ChunkInv' /\ KeepsProv /\ KeepsSess /\ Flushed(p)
  BY <1>1, <1>3, <1>4, FlushEffect
<1>6. TInv'
  BY <1>2, <1>4, <1>5, WireTypesSame DEF BInv, TInv, ServerTypes
<1>7. CallInv'
  BY <1>2 DEF BInv, CallInv
<1> QED BY <1>2, <1>3, <1>5, <1>6, <1>7 DEF BInv

\* A packet is sent, or held back.
SentHeld(s) ==
    /\ sess[s].payload # None /\ sess'[s].payload = None
    /\ sess'[s].chunk = sess[s].chunk /\ sess'[s].queue = sess[s].queue
    /\ toClient'[s] = Append(toClient[s], Data(sess[s].payload))
SentNext(s, chunk) ==
    /\ sess[s].payload = None /\ chunk \in Chunk /\ chunk # <<>> /\ sess'[s].chunk = Tail(chunk)
    /\ \/ chunk = sess[s].chunk /\ sess'[s].queue = sess[s].queue
       \/ /\ sess[s].chunk = <<>> /\ sess[s].queue # <<>> /\ chunk = Head(sess[s].queue)
          /\ sess'[s].queue = Tail(sess[s].queue)
    /\ \/ sess'[s].payload = None /\ toClient'[s] = Append(toClient[s], Data(Head(chunk)))
       \/ sess'[s].payload = Head(chunk) /\ toClient'[s] = toClient[s]

LEMMA DataType ==
  ASSUME NEW x \in Part
  PROVE  Data(x) \in Packet /\ Data(x).kind = "Data" /\ Data(x).part = x /\ x # None /\ Data(x) # Response("Success")
<1>1. Data(x) \in Packet /\ Data(x).kind = "Data" /\ Data(x).part = x
  BY DEF Data, Packet
<1>2. x # None
  BY EventAssumption
<1>3. Response("Success").kind = "Response"
  BY DEF Response
<1> QED BY <1>1, <1>2, <1>3

LEMMA SendDataEffect ==
  ASSUME BInv, NEW s \in Sessions, SendEventData(s)
  PROVE  /\ BInv' /\ KeepsSess /\ sess[s].reply = None
         /\ s \in pending \/ \E p \in Providers : prov[p].reg /\ prov[p].session = s
         /\ SentHeld(s) \/ \E chunk : SentNext(s, chunk)
         /\ \A t \in Sessions : t # s => sess'[t] = sess[t] /\ toClient'[t] = toClient[t]
         /\ UNCHANGED <<prov, pending, objs, op, writer, link, toServer, cl, written, fault, risk>>
<1> DEFINE x == sess[s]
           chunk == IF x.chunk # <<>> THEN x.chunk ELSE Head(x.queue)
           Goal == /\ BInv' /\ KeepsSess /\ sess[s].reply = None
                   /\ s \in pending \/ \E p \in Providers : prov[p].reg /\ prov[p].session = s
                   /\ SentHeld(s) \/ \E c : SentNext(s, c)
                   /\ \A t \in Sessions : t # s => sess'[t] = sess[t] /\ toClient'[t] = toClient[t]
                   /\ UNCHANGED <<prov, pending, objs, op, writer, link, toServer, cl, written, fault, risk>>
<1>1. /\ sess[s].reply = None
      /\ s \in pending \/ \E p \in Providers : prov[p].reg /\ prov[p].session = s
  BY DEF SendEventData, Updates, ProviderOf, HasAcquired
<1>2. UNCHANGED <<prov, pending, objs, op, writer, link, toServer, cl, written, fault, risk>> /\ sess[s].reply = None
  BY DEF SendEventData
<1>3. sess \in [Sessions -> SessionType] /\ sess[s] \in SessionType /\ toClient \in [Sessions -> Seq(Packet)]
  BY DEF BInv, TInv, ServerTypes, WireTypes
<1>4. ASSUME sess' \in [Sessions -> SessionType], WireTypes',
             \A t \in Sessions : \A i \in 1..Len(sess'[t].queue) : sess'[t].queue[i] # <<>>
      PROVE  BInv'
  <2>1. TInv'
    BY <1>2, <1>4 DEF BInv, TInv, ServerTypes
  <2>2. ChunkInv' /\ CallInv'
    BY <1>2, <1>4 DEF BInv, ChunkInv, CallInv
  <2> QED BY <2>1, <2>2 DEF BInv
<1>5. CASE x.payload # None
  <2>1. Send(s, Data(x.payload)) /\ sess' = [sess EXCEPT ![s].payload = None]
    BY <1>5 DEF SendEventData
  <2>2. x.payload \in Part
    BY <1>5, SessionFields DEF BInv
  <2>3. /\ WireTypes' /\ toClient'[s] = Append(toClient[s], Data(x.payload))
        /\ \A t \in Sessions : t # s => toClient'[t] = toClient[t]
    BY <1>2, <2>1, <2>2, SendEffect, DataType
  <2>4. sess' \in [Sessions -> SessionType]
    BY <2>1, SessTypes DEF BInv
  <2>5. /\ sess'[s].payload = None /\ sess'[s].chunk = sess[s].chunk /\ sess'[s].queue = sess[s].queue
        /\ sess'[s].of = sess[s].of /\ sess'[s].reply = sess[s].reply
        /\ \A t \in Sessions : t # s => sess'[t] = sess[t]
    BY <1>3, <2>1 DEF SessionType
  <2>6. KeepsSess /\ SentHeld(s)
    BY <1>5, <2>3, <2>5 DEF KeepsSess, SentHeld
  <2>7. \A t \in Sessions : sess'[t].queue = sess[t].queue
    BY <2>5
  <2>8. BInv'
    BY <1>4, <2>3, <2>4, <2>7 DEF BInv, ChunkInv
  <2> QED BY <1>1, <1>2, <2>3, <2>5, <2>6, <2>8
<1>6. CASE x.payload = None
  <2> DEFINE q0 == IF x.chunk = <<>> THEN Tail(x.queue) ELSE x.queue
             y == IF Space(s) THEN None ELSE Head(chunk)
             c0 == Tail(chunk)
  <2>1. /\ x.chunk # <<>> \/ x.queue # <<>>
        /\ sess' = [sess EXCEPT ![s].chunk = c0, ![s].queue = IF x.chunk = <<>> THEN Tail(@) ELSE @, ![s].payload = y]
        /\ IF Space(s) THEN Send(s, Data(Head(chunk))) ELSE UNCHANGED toClient
    BY <1>6 DEF SendEventData
  <2>2. /\ x.chunk \in Chunk /\ x.queue \in Seq(Chunk) /\ \A i \in 1..Len(x.queue) : x.queue[i] # <<>>
    BY SessionFields DEF BInv, ChunkInv
  <2>3. x.queue # <<>> => /\ Head(x.queue) \in Chunk /\ Head(x.queue) # <<>> /\ Tail(x.queue) \in Seq(Chunk)
                          /\ \A i \in 1..Len(Tail(x.queue)) : Tail(x.queue)[i] # <<>>
    <3>1. SUFFICES ASSUME x.queue # <<>>
                   PROVE  /\ Head(x.queue) \in Chunk /\ Head(x.queue) # <<>> /\ Tail(x.queue) \in Seq(Chunk)
                          /\ \A i \in 1..Len(Tail(x.queue)) : Tail(x.queue)[i] # <<>>
      OBVIOUS
    <3> HIDE DEF x
    <3>2. PICK n \in Nat : n = Len(x.queue) /\ n > 0
      BY <2>2, <3>1, LenProperties, EmptySeq
    <3>3. /\ Head(x.queue) = x.queue[1] /\ Head(x.queue) \in Chunk /\ Tail(x.queue) \in Seq(Chunk)
          /\ Len(Tail(x.queue)) = n - 1 /\ \A i \in 1..(n - 1) : Tail(x.queue)[i] = x.queue[i + 1]
      BY <2>2, <3>1, <3>2, HeadTailProperties
    <3> QED BY <2>2, <3>2, <3>3
  <2>4. chunk \in Chunk /\ chunk # <<>> /\ q0 \in Seq(Chunk) /\ (x.chunk = <<>> => x.queue # <<>>)
    <3> HIDE DEF x
    <3> QED BY <2>1, <2>2, <2>3
  <2>5. \A i \in 1..Len(q0) : q0[i] # <<>>
    BY <2>1, <2>2, <2>3
  <2>6. Head(chunk) \in Part /\ c0 \in Chunk
    <3> HIDE DEF chunk
    <3> QED BY <2>4, HeadTailProperties DEF Chunk
  <2>7. sess' = [sess EXCEPT ![s].chunk = c0, ![s].queue = q0, ![s].payload = y]
    <3>1. [sess EXCEPT ![s].chunk = c0, ![s].queue = IF x.chunk = <<>> THEN Tail(@) ELSE @, ![s].payload = y]
            = [sess EXCEPT ![s].chunk = c0, ![s].queue = IF x.chunk = <<>> THEN Tail(sess[s].queue) ELSE sess[s].queue,
                           ![s].payload = y]
      <4> HIDE DEF c0, y
      <4> QED BY <1>3 DEF SessionType
    <3> QED BY <2>1, <3>1
  <2>8. y \in Part \cup {None}
    BY <2>6
  <2> HIDE DEF q0, y, c0
  <2>9. sess' \in [Sessions -> SessionType]
    BY <2>4, <2>6, <2>7, <2>8, SessTypes DEF BInv
  <2>10. /\ sess'[s].payload = y /\ sess'[s].chunk = c0 /\ sess'[s].queue = q0
         /\ sess'[s].of = sess[s].of /\ sess'[s].reply = sess[s].reply
         /\ \A t \in Sessions : t # s => sess'[t] = sess[t]
    BY <1>3, <2>7 DEF SessionType
  <2>11. KeepsSess
    BY <2>10 DEF KeepsSess
  <2>12. /\ WireTypes' /\ \A t \in Sessions : t # s => toClient'[t] = toClient[t]
         /\ \/ y = None /\ toClient'[s] = Append(toClient[s], Data(Head(chunk)))
            \/ y = Head(chunk) /\ toClient'[s] = toClient[s]
    <3>1. CASE Space(s)
      <4>1. Send(s, Data(Head(chunk))) /\ y = None /\ Data(Head(chunk)) \in Packet
        BY <2>1, <2>6, <3>1, DataType DEF y
      <4> HIDE DEF chunk
      <4> QED BY <1>2, <4>1, SendEffect
    <3>2. CASE ~Space(s)
      <4>1. toClient' = toClient /\ y = Head(chunk)
        BY <2>1, <3>2 DEF y
      <4>2. UNCHANGED wires
        BY <1>2, <4>1 DEF wires
      <4> QED BY <4>1, <4>2, WireTypesSame
    <3> QED BY <3>1, <3>2
  <2>13. \/ chunk = x.chunk /\ q0 = x.queue
         \/ x.chunk = <<>> /\ x.queue # <<>> /\ chunk = Head(x.queue) /\ q0 = Tail(x.queue)
    BY <2>4 DEF q0
  <2>14. SentNext(s, chunk)
    <3> HIDE DEF chunk
    <3> QED BY <1>6, <2>4, <2>10, <2>12, <2>13 DEF SentNext, c0
  <2>15. \A t \in Sessions : \A i \in 1..Len(sess'[t].queue) : sess'[t].queue[i] # <<>>
    BY <2>5, <2>10 DEF BInv, ChunkInv
  <2>16. BInv'
    BY <1>4, <2>9, <2>12, <2>15
  <2> HIDE DEF chunk
  <2> QED BY <1>1, <1>2, <2>10, <2>11, <2>12, <2>14, <2>16
<1> QED BY <1>5, <1>6

LEMMA ReplyFields ==
  ASSUME BInv, NEW s \in Sessions, NEW r \in Reply \cup {None}, sess' = [sess EXCEPT ![s].reply = r]
  PROVE  /\ sess' \in [Sessions -> SessionType] /\ KeepsData /\ sess'[s].reply = r
         /\ \A t \in Sessions : sess'[t].of = sess[t].of
         /\ \A t \in Sessions : t # s => sess'[t] = sess[t]
<1>1. sess \in [Sessions -> SessionType] /\ sess[s] \in SessionType
  BY DEF BInv, TInv, ServerTypes
<1>2. sess' \in [Sessions -> SessionType]
  BY SessTypes DEF BInv
<1>3. /\ sess'[s].reply = r /\ sess'[s].of = sess[s].of /\ sess'[s].payload = sess[s].payload
      /\ sess'[s].chunk = sess[s].chunk /\ sess'[s].queue = sess[s].queue
      /\ \A t \in Sessions : t # s => sess'[t] = sess[t]
  BY <1>1 DEF SessionType
<1> QED BY <1>2, <1>3 DEF KeepsData

\* What a change of wires and replies keeps.
LEMMA BInvKept ==
  ASSUME BInv, sess' \in [Sessions -> SessionType], KeepsData, WireTypes',
         UNCHANGED <<prov, pending, objs, op, writer, written, fault, risk>>
  PROVE  BInv'
<1>1. TInv'
  BY DEF BInv, TInv, ServerTypes
<1>2. ChunkInv' /\ CallInv'
  BY DEF BInv, ChunkInv, CallInv, KeepsData
<1> QED BY <1>1, <1>2 DEF BInv

LEMMA SendReplyEffect ==
  ASSUME BInv, NEW s \in Sessions, SendReply(s)
  PROVE  /\ BInv' /\ KeepsData /\ sess[s].reply \in Reply /\ toClient'[s] = Append(toClient[s], sess[s].reply)
         /\ \A t \in Sessions : sess'[t].of = sess[t].of /\ sess'[t].reply = IF t = s THEN None ELSE sess[t].reply
         /\ \A t \in Sessions : t # s => toClient'[t] = toClient[t]
         /\ UNCHANGED <<prov, pending, objs, op, writer, link, toServer, cl, written, fault, risk>>
<1>1. /\ sess[s].reply # None /\ Send(s, sess[s].reply) /\ sess' = [sess EXCEPT ![s].reply = None]
      /\ UNCHANGED <<prov, pending, objs, op, writer, link, toServer, cl, written, fault, risk>>
  BY DEF SendReply
<1>2. sess[s].reply \in Reply /\ sess[s].reply \in Packet
  BY <1>1, SessionFields, Responses DEF BInv
<1>3. /\ WireTypes' /\ toClient'[s] = Append(toClient[s], sess[s].reply)
      /\ \A t \in Sessions : t # s => toClient'[t] = toClient[t]
  BY <1>1, <1>2, SendEffect
<1>4. /\ sess' \in [Sessions -> SessionType] /\ KeepsData /\ sess'[s].reply = None
      /\ \A t \in Sessions : sess'[t].of = sess[t].of
      /\ \A t \in Sessions : t # s => sess'[t] = sess[t]
  BY <1>1, ReplyFields
<1>5. BInv'
  BY <1>1, <1>3, <1>4, BInvKept
<1> QED BY <1>1, <1>2, <1>3, <1>4, <1>5

LEMMA TellEffect ==
  ASSUME BInv, NEW s \in Sessions, TellUnavailable(s)
  PROVE  /\ BInv' /\ toClient'[s] = Append(toClient[s], Response("Unavailable"))
         /\ \A t \in Sessions : t # s => toClient'[t] = toClient[t]
         /\ UNCHANGED <<prov, pending, objs, sess, op, writer, link, toServer, cl, written, fault, risk>>
<1>1. /\ Send(s, Response("Unavailable"))
      /\ UNCHANGED <<prov, pending, objs, sess, op, writer, link, toServer, cl, written, fault, risk>>
  BY DEF TellUnavailable
<1>2. Response("Unavailable") \in Packet
  BY Responses
<1>3. /\ WireTypes' /\ toClient'[s] = Append(toClient[s], Response("Unavailable"))
      /\ \A t \in Sessions : t # s => toClient'[t] = toClient[t]
  BY <1>1, <1>2, SendEffect
<1>4. BInv'
  BY <1>1, <1>3, BInvKept DEF BInv, TInv, ServerTypes, KeepsData
<1> QED BY <1>1, <1>3, <1>4

LEMMA HandleSubscribeEffect ==
  ASSUME BInv, NEW s \in Sessions, HandleSubscribe(s)
  PROVE  LET p == Head(toServer[s]).p
         IN  /\ BInv' /\ Receives(s, "Subscribe") /\ p \in Providers /\ KeepsData /\ KeepsChunks
             /\ \A t \in Sessions : t # s => sess'[t] = sess[t]
             /\ \A q \in Providers : q # p => prov'[q] = prov[q]
             /\ \/ /\ prov[p].reg /\ prov[p].session = None
                   /\ prov'[p].reg /\ prov'[p].session = s /\ prov'[p].enabled
                   /\ pending' = pending \ {s} /\ sess'[s].of = p /\ sess'[s].reply = Response("Success")
                \/ /\ UNCHANGED <<prov, pending>>
                   /\ sess'[s].of = sess[s].of /\ sess'[s].reply = Response("Unavailable")
             /\ UNCHANGED <<objs, op, writer, link, toClient, cl, written, fault, risk>>
<1> DEFINE p == Head(toServer[s]).p
<1>1. Receives(s, "Subscribe") /\ UNCHANGED <<objs, op, writer, link, toClient, cl, written, fault, risk>>
  BY DEF HandleSubscribe
<1>2. WireTypes' /\ p \in Providers
  BY <1>1, ReceiveEffect
<1> HIDE DEF p
<1>3. CASE prov[p].reg /\ prov[p].session = None
  <2>1. /\ prov' = [prov EXCEPT ![p].session = s, ![p].enabled = TRUE] /\ pending' = pending \ {s}
        /\ sess' = [sess EXCEPT ![s].reply = Response("Success"), ![s].of = p]
    BY <1>3 DEF HandleSubscribe, p
  <2> DEFINE r == Response("Success")
  <2>2. r \in Reply /\ sess' = [sess EXCEPT ![s].reply = r, ![s].of = p]
    BY <2>1, Responses
  <2> HIDE DEF r
  <2>3. /\ sess \in [Sessions -> SessionType] /\ sess[s] \in SessionType
        /\ prov \in [Providers -> ProviderType] /\ prov[p] \in ProviderType /\ pending \subseteq Sessions
    BY <1>2 DEF BInv, TInv, ServerTypes
  <2>4. sess' \in [Sessions -> SessionType]
    BY <1>2, <2>2, SessTypes DEF BInv
  <2>5. prov' \in [Providers -> ProviderType]
    BY <1>2, <2>1, ProvTypes DEF BInv
  <2>6. /\ sess'[s].reply = r /\ sess'[s].of = p /\ sess'[s].payload = sess[s].payload
        /\ sess'[s].chunk = sess[s].chunk /\ sess'[s].queue = sess[s].queue
        /\ \A t \in Sessions : t # s => sess'[t] = sess[t]
    BY <2>2, <2>3 DEF SessionType
  <2>7. /\ prov'[p].reg = prov[p].reg /\ prov'[p].session = s /\ prov'[p].enabled
        /\ prov'[p].chunks = prov[p].chunks /\ \A q \in Providers : q # p => prov'[q] = prov[q]
    BY <1>2, <2>1, <2>3 DEF ProviderType
  <2>8. KeepsData /\ KeepsChunks
    BY <1>2, <2>6, <2>7 DEF KeepsData, KeepsChunks
  <2>9. TInv'
    BY <1>1, <1>2, <2>1, <2>3, <2>4, <2>5 DEF BInv, TInv, ServerTypes
  <2>10. ChunkInv' /\ CallInv'
    BY <1>1, <2>8 DEF BInv, ChunkInv, CallInv, KeepsData, KeepsChunks
  <2> QED BY <1>1, <1>2, <1>3, <2>1, <2>6, <2>7, <2>8, <2>9, <2>10 DEF BInv, p, r
<1>4. CASE ~(prov[p].reg /\ prov[p].session = None)
  <2>1. UNCHANGED <<prov, pending>> /\ sess' = [sess EXCEPT ![s].reply = Response("Unavailable")]
    BY <1>4 DEF HandleSubscribe, p
  <2>2. /\ sess' \in [Sessions -> SessionType] /\ KeepsData /\ sess'[s].reply = Response("Unavailable")
        /\ \A t \in Sessions : sess'[t].of = sess[t].of
        /\ \A t \in Sessions : t # s => sess'[t] = sess[t]
    BY <2>1, Responses, ReplyFields
  <2>3. BInv'
    BY <1>1, <1>2, <2>1, <2>2, BInvKept
  <2>4. KeepsChunks
    BY <2>1 DEF KeepsChunks
  <2> QED BY <1>1, <1>2, <2>1, <2>2, <2>3, <2>4 DEF p
<1> QED BY <1>3, <1>4

LEMMA HandleApplyEffect ==
  ASSUME BInv, NEW s \in Sessions, HandleApply(s)
  PROVE  LET m == Head(toServer[s])
         IN  /\ BInv' /\ Receives(s, "Apply") /\ m.p \in Providers /\ KeepsData /\ KeepsChunks
             /\ sess'[s].reply \in Reply
             /\ \A t \in Sessions : sess'[t].of = sess[t].of /\ (t # s => sess'[t] = sess[t])
             /\ \A q \in Providers : /\ prov'[q].reg = prov[q].reg /\ prov'[q].session = prov[q].session
                                     /\ q # m.p => prov'[q].enabled = prov[q].enabled
             /\ \/ /\ prov'[m.p].enabled = (prov[m.p].enabled \/ prov[m.p].reg) /\ op' = op
                   /\ risk' = risk \cup (IF prov[m.p].reg /\ prov[m.p].session = None THEN {m.p} ELSE {})
                \/ UNCHANGED <<prov, op, risk>>
                \/ /\ UNCHANGED <<prov, risk>> /\ prov[m.p].reg /\ prov[m.p].enabled
                   /\ op'.name = "disable" /\ op'.pc = "flush" /\ op'.p = m.p /\ op'.s = s
             /\ UNCHANGED <<pending, objs, writer, link, toClient, cl, written, fault>>
<1> DEFINE m == Head(toServer[s])
           r == Response(IF prov[m.p].reg THEN "Success" ELSE "Error")
<1>1. Receives(s, "Apply") /\ UNCHANGED <<pending, objs, writer, link, toClient, cl, written, fault>>
  BY DEF HandleApply
<1>2. WireTypes' /\ m.p \in Providers
  BY <1>1, ReceiveEffect
<1>3. r \in Reply /\ sess' = [sess EXCEPT ![s].reply = r]
  BY Responses DEF HandleApply
<1>4. \/ /\ prov' = [prov EXCEPT ![m.p].enabled = prov[m.p].reg \/ @] /\ op' = op
         /\ risk' = risk \cup (IF prov[m.p].reg /\ prov[m.p].session = None THEN {m.p} ELSE {})
      \/ UNCHANGED <<prov, op, risk>>
      \/ UNCHANGED <<prov, risk>> /\ prov[m.p].reg /\ prov[m.p].enabled /\ Disabling("disable", m.p, s)
  BY DEF HandleApply, AtRisk
<1> HIDE DEF m, r
<1>5. /\ sess' \in [Sessions -> SessionType] /\ KeepsData /\ sess'[s].reply = r
      /\ \A t \in Sessions : sess'[t].of = sess[t].of
      /\ \A t \in Sessions : t # s => sess'[t] = sess[t]
  BY <1>3, ReplyFields
<1>6. CASE /\ prov' = [prov EXCEPT ![m.p].enabled = prov[m.p].reg \/ @] /\ op' = op
           /\ risk' = risk \cup (IF prov[m.p].reg /\ prov[m.p].session = None THEN {m.p} ELSE {})
  <2> DEFINE e == prov[m.p].reg \/ prov[m.p].enabled
  <2>1. prov \in [Providers -> ProviderType] /\ prov[m.p] \in ProviderType /\ e \in BOOLEAN
    BY <1>2 DEF BInv, TInv, ServerTypes
  <2>2. prov' = [prov EXCEPT ![m.p].enabled = e]
    BY <1>2, <1>6, <2>1 DEF ProviderType
  <2> HIDE DEF e
  <2>3. prov' \in [Providers -> ProviderType]
    BY <1>2, <2>1, <2>2, ProvTypes DEF BInv
  <2>4. /\ \A q \in Providers : /\ prov'[q].reg = prov[q].reg /\ prov'[q].session = prov[q].session
                                /\ prov'[q].chunks = prov[q].chunks
                                /\ q # m.p => prov'[q].enabled = prov[q].enabled
        /\ prov'[m.p].enabled = e
    BY <1>2, <2>1, <2>2 DEF ProviderType
  <2>5. KeepsChunks /\ risk' \subseteq Providers
    BY <1>2, <1>6, <2>4 DEF KeepsChunks, BInv, TInv, ServerTypes
  <2>6. TInv'
    BY <1>1, <1>2, <1>5, <1>6, <2>3, <2>5 DEF BInv, TInv, ServerTypes
  <2>7. ChunkInv' /\ CallInv'
    BY <1>1, <1>5, <1>6, <2>5 DEF BInv, ChunkInv, CallInv, KeepsData, KeepsChunks
  <2>8. prov'[m.p].enabled = (prov[m.p].enabled \/ prov[m.p].reg)
    BY <2>4 DEF e
  <2> QED BY <1>1, <1>2, <1>3, <1>5, <1>6, <2>4, <2>5, <2>6, <2>7, <2>8 DEF BInv, m
<1>7. CASE UNCHANGED <<prov, op, risk>>
  <2>1. BInv'
    BY <1>1, <1>2, <1>5, <1>7, BInvKept
  <2>2. KeepsChunks
    BY <1>7 DEF KeepsChunks
  <2> QED BY <1>1, <1>2, <1>3, <1>5, <1>7, <2>1, <2>2 DEF m
<1>8. CASE UNCHANGED <<prov, risk>> /\ prov[m.p].reg /\ prov[m.p].enabled /\ Disabling("disable", m.p, s)
  <2>1. op' \in OpType /\ op'.name = "disable" /\ op'.pc = "flush" /\ op'.p = m.p /\ op'.s = s
    BY <1>2, <1>8, DisablingEffect
  <2>2. TInv'
    BY <1>1, <1>2, <1>5, <1>8, <2>1 DEF BInv, TInv, ServerTypes
  <2>3. ChunkInv' /\ CallInv' /\ KeepsChunks
    BY <1>1, <1>2, <1>5, <1>8, <2>1 DEF BInv, ChunkInv, CallInv, KeepsData, KeepsChunks
  <2> QED BY <1>1, <1>2, <1>3, <1>5, <1>8, <2>1, <2>2, <2>3 DEF BInv, m
<1> QED BY <1>4, <1>6, <1>7, <1>8

LEMMA HandleUnsubscribeEffect ==
  ASSUME BInv, NEW s \in Sessions, HandleUnsubscribe(s)
  PROVE  /\ BInv' /\ Receives(s, "Unsubscribe")
         /\ \/ op' = op
            \/ /\ sess[s].of \in Providers /\ op'.name = "unsubscribe" /\ op'.p = sess[s].of /\ op'.s = s
               /\ op'.pc = IF prov[sess[s].of].enabled THEN "flush" ELSE "reset"
         /\ UNCHANGED <<prov, pending, objs, sess, writer, link, toClient, cl, written, fault, risk>>
<1>1. /\ Receives(s, "Unsubscribe")
      /\ UNCHANGED <<prov, pending, objs, sess, writer, link, toClient, cl, written, fault, risk>>
  BY DEF HandleUnsubscribe
<1>2. WireTypes' /\ sess[s].of \in Providers \cup {None}
  BY <1>1, ReceiveEffect, SessionFields DEF BInv
<1>3. CASE sess[s].of = None
  <2>1. op' = op
    BY <1>3 DEF HandleUnsubscribe
  <2> QED BY <1>1, <1>2, <2>1, BInvKept DEF BInv, TInv, ServerTypes, KeepsData
<1>4. CASE sess[s].of # None
  <2>1. Disabling("unsubscribe", sess[s].of, s) /\ sess[s].of \in Providers
    BY <1>2, <1>4 DEF HandleUnsubscribe
  <2>2. /\ op' \in OpType /\ op'.name = "unsubscribe" /\ op'.p = sess[s].of /\ op'.s = s
        /\ op'.pc = IF prov[sess[s].of].enabled THEN "flush" ELSE "reset"
    BY <2>1, DisablingEffect
  <2>3. TInv'
    BY <1>1, <1>2, <2>2 DEF BInv, TInv, ServerTypes
  <2>4. ChunkInv' /\ CallInv'
    BY <1>1, <2>1, <2>2 DEF BInv, ChunkInv, CallInv
  <2> QED BY <1>1, <2>1, <2>2, <2>3, <2>4 DEF BInv
<1> QED BY <1>3, <1>4

\* The client.
LEMMA AskEffect ==
  ASSUME BInv, NEW s \in Sessions, NEW m \in Message, NEW pc \in {"subscribing", "updating"}, Ask(s, m, pc)
  PROVE  /\ BInv' /\ link[s] = "up" /\ cl[s].pc = "ready" /\ toServer'[s] = Append(toServer[s], m)
         /\ cl'[s].pc = pc /\ cl'[s].subscribed = cl[s].subscribed /\ cl'[s].got = cl[s].got
         /\ \A t \in Sessions : t # s => cl'[t] = cl[t] /\ toServer'[t] = toServer[t]
         /\ UNCHANGED <<prov, pending, objs, sess, op, writer, link, toClient, written, fault, risk>>
<1> DEFINE u == IF m.kind = "Apply" THEN cl[s].updates + 1 ELSE cl[s].updates
<1>1. /\ link[s] = "up" /\ cl[s].pc = "ready" /\ toServer' = [toServer EXCEPT ![s] = Append(toServer[s], m)]
      /\ UNCHANGED <<prov, pending, objs, sess, op, writer, link, toClient, written, fault, risk>>
  BY DEF Ask
<1>2. /\ cl \in [Sessions -> ClientType] /\ cl[s] \in ClientType /\ toServer \in [Sessions -> Seq(Message)]
      /\ u \in Nat
  BY ClientFields DEF BInv, TInv, WireTypes
<1>3. cl' = [cl EXCEPT ![s].pc = pc, ![s].updates = u]
  BY <1>2 DEF Ask, ClientType
<1> HIDE DEF u
<1>4. cl' \in [Sessions -> ClientType]
  BY <1>2, <1>3 DEF ClientType
<1>5. /\ cl'[s].pc = pc /\ cl'[s].subscribed = cl[s].subscribed /\ cl'[s].got = cl[s].got
      /\ \A t \in Sessions : t # s => cl'[t] = cl[t]
  BY <1>2, <1>3 DEF ClientType
<1>6. Append(toServer[s], m) \in Seq(Message)
  BY <1>2
<1>7. /\ toServer' \in [Sessions -> Seq(Message)] /\ toServer'[s] = Append(toServer[s], m)
      /\ \A t \in Sessions : t # s => toServer'[t] = toServer[t]
  BY <1>1, <1>2, <1>6
<1>8. WireTypes'
  BY <1>1, <1>4, <1>7 DEF BInv, TInv, WireTypes
<1>9. BInv'
  BY <1>1, <1>8, BInvKept DEF BInv, TInv, ServerTypes, KeepsData
<1> QED BY <1>1, <1>5, <1>7, <1>9

LEMMA DestroyEffect ==
  ASSUME BInv, NEW s \in Sessions, Destroy(s)
  PROVE  /\ BInv' /\ link[s] = "up" /\ link'[s] = "leaving" /\ toServer'[s] = Append(toServer[s], [kind |-> "Unsubscribe"])
         /\ \A t \in Sessions : t # s => link'[t] = link[t] /\ toServer'[t] = toServer[t]
         /\ UNCHANGED <<prov, pending, objs, sess, op, writer, toClient, cl, written, fault, risk>>
<1> DEFINE m == [kind |-> "Unsubscribe"]
<1>1. /\ link[s] = "up" /\ toServer' = [toServer EXCEPT ![s] = Append(toServer[s], m)]
      /\ link' = [link EXCEPT ![s] = "leaving"]
      /\ UNCHANGED <<prov, pending, objs, sess, op, writer, toClient, cl, written, fault, risk>>
  BY DEF Destroy
<1>2. m \in Message
  BY DEF Message
<1> HIDE DEF m
<1>3. toServer \in [Sessions -> Seq(Message)] /\ link \in [Sessions -> {"down", "accepted", "up", "leaving"}]
  BY DEF BInv, TInv, WireTypes
<1>4. Append(toServer[s], m) \in Seq(Message)
  BY <1>2, <1>3
<1>5. /\ toServer' \in [Sessions -> Seq(Message)] /\ toServer'[s] = Append(toServer[s], m)
      /\ link' \in [Sessions -> {"down", "accepted", "up", "leaving"}] /\ link'[s] = "leaving"
      /\ \A t \in Sessions : t # s => link'[t] = link[t] /\ toServer'[t] = toServer[t]
  BY <1>1, <1>3, <1>4
<1>6. WireTypes'
  BY <1>1, <1>5 DEF BInv, TInv, WireTypes
<1>7. BInv'
  BY <1>1, <1>6, BInvKept DEF BInv, TInv, ServerTypes, KeepsData
<1> QED BY <1>1, <1>5, <1>7 DEF m

LEMMA ReadEffect ==
  ASSUME BInv, NEW s \in Sessions, Read(s)
  PROVE  LET m == Head(toClient[s])
         IN  /\ BInv' /\ link[s] = "up" /\ toClient[s] # <<>> /\ m \in Packet /\ m = toClient[s][1] /\ 1 \in 1..Len(toClient[s])
             /\ toClient'[s] = Tail(toClient[s])
             /\ \/ /\ cl[s].pc = "subscribing" /\ cl'[s].got = cl[s].got
                   /\ \/ m = Response("Success") /\ cl'[s].pc = "ready" /\ cl'[s].subscribed
                      \/ cl'[s].pc = "failed" /\ ~cl'[s].subscribed
                \/ /\ cl[s].pc # "subscribing" /\ m.kind = "Data" /\ m.part \in Part
                   /\ cl'[s].got = Append(cl[s].got, m.part)
                   /\ cl'[s].pc = cl[s].pc /\ cl'[s].subscribed = cl[s].subscribed
                \/ /\ cl[s].pc # "subscribing" /\ m.kind = "Response" /\ cl'[s].got = cl[s].got
                   /\ cl'[s].subscribed = cl[s].subscribed
                   /\ cl'[s].pc = IF cl[s].pc = "updating" THEN "ready" ELSE cl[s].pc
             /\ \A t \in Sessions : t # s => cl'[t] = cl[t] /\ toClient'[t] = toClient[t]
             /\ UNCHANGED <<prov, pending, objs, sess, op, writer, link, toServer, written, fault, risk>>
<1> DEFINE m == Head(toClient[s])
           x == cl[s]
           ok == m.kind = "Response" /\ m.result = "Success"
           Goal1 == /\ cl[s].pc = "subscribing" /\ cl'[s].got = cl[s].got
                    /\ \/ m = Response("Success") /\ cl'[s].pc = "ready" /\ cl'[s].subscribed
                       \/ cl'[s].pc = "failed" /\ ~cl'[s].subscribed
           Goal2 == /\ cl[s].pc # "subscribing" /\ m.kind = "Data" /\ m.part \in Part
                    /\ cl'[s].got = Append(cl[s].got, m.part)
                    /\ cl'[s].pc = cl[s].pc /\ cl'[s].subscribed = cl[s].subscribed
           Goal3 == /\ cl[s].pc # "subscribing" /\ m.kind = "Response" /\ cl'[s].got = cl[s].got
                    /\ cl'[s].subscribed = cl[s].subscribed
                    /\ cl'[s].pc = IF cl[s].pc = "updating" THEN "ready" ELSE cl[s].pc
<1>1. /\ link[s] = "up" /\ toClient[s] # <<>> /\ toClient' = [toClient EXCEPT ![s] = Tail(toClient[s])]
      /\ UNCHANGED <<prov, pending, objs, sess, op, writer, link, toServer, written, fault, risk>>
  BY DEF Read
<1>2. toClient \in [Sessions -> Seq(Packet)] /\ cl \in [Sessions -> ClientType] /\ x \in ClientType
  BY DEF BInv, TInv, WireTypes
<1>3. m \in Packet /\ m = toClient[s][1] /\ Tail(toClient[s]) \in Seq(Packet)
  BY <1>1, <1>2, HeadTailProperties
<1>4. 1 \in 1..Len(toClient[s])
  BY <1>1, <1>2, LenProperties, EmptySeq
<1>5. /\ toClient' \in [Sessions -> Seq(Packet)] /\ toClient'[s] = Tail(toClient[s])
      /\ \A t \in Sessions : t # s => toClient'[t] = toClient[t]
  BY <1>1, <1>2, <1>3
<1>6. PICK y : /\ cl' = [cl EXCEPT ![s] = y]
               /\ y = CASE x.pc = "subscribing" ->
                              [x EXCEPT !.pc = IF ok THEN "ready" ELSE "failed", !.subscribed = ok]
                        [] x.pc # "subscribing" /\ m.kind = "Data" -> [x EXCEPT !.got = Append(@, m.part)]
                        [] OTHER -> [x EXCEPT !.pc = IF @ = "updating" THEN "ready" ELSE @]
  BY DEF Read
<1>7. m.kind \in {"Data", "Response"} /\ (m.kind = "Data" => m.part \in Part) /\ (ok => m = Response("Success")) /\ ok \in BOOLEAN
  <2>1. CASE m \in Reply
    <3>1. m.kind = "Response" /\ m = Response(m.result)
      BY <2>1 DEF Reply, Response
    <3> QED BY <3>1
  <2>2. CASE m \in [kind : {"Data"}, part : Part]
    BY <2>2
  <2> QED BY <1>3, <2>1, <2>2 DEF Packet
<1>8. x.got \in Seq(Part) /\ x.pc \in {"new", "ready", "subscribing", "updating", "failed", "done"} /\ x.subscribed \in BOOLEAN
  BY <1>2 DEF ClientType
<1> HIDE DEF m, x, ok
<1>9. CASE x.pc = "subscribing"
  <2> DEFINE z == IF ok THEN "ready" ELSE "failed"
  <2>1. y = [x EXCEPT !.pc = z, !.subscribed = ok] /\ z \in {"ready", "failed"}
    BY <1>6, <1>9
  <2>2. z = IF ok THEN "ready" ELSE "failed"
    OBVIOUS
  <2> HIDE DEF z
  <2>3. y \in ClientType /\ y.pc = z /\ y.subscribed = ok /\ y.got = x.got
    BY <1>2, <1>7, <2>1 DEF ClientType
  <2>4. cl' \in [Sessions -> ClientType] /\ cl'[s] = y /\ \A t \in Sessions : t # s => cl'[t] = cl[t]
    BY <1>2, <1>6, <2>3
  <2>5. Goal1
    BY <1>7, <1>9, <2>2, <2>3, <2>4 DEF x
  <2> QED
    <3>1. BInv'
      BY <1>1, <1>5, <2>4, BInvKept DEF BInv, TInv, ServerTypes, WireTypes, KeepsData
    <3> QED BY <1>1, <1>3, <1>4, <1>5, <2>4, <2>5, <3>1 DEF m
<1>10. CASE x.pc # "subscribing" /\ m.kind = "Data"
  <2>1. y = [x EXCEPT !.got = Append(x.got, m.part)] /\ Append(x.got, m.part) \in Seq(Part)
    BY <1>6, <1>7, <1>8, <1>10
  <2> DEFINE g == Append(x.got, m.part)
  <2>2. y = [x EXCEPT !.got = g] /\ g \in Seq(Part)
    BY <2>1
  <2> HIDE DEF g
  <2>3. y \in ClientType /\ y.pc = x.pc /\ y.subscribed = x.subscribed /\ y.got = g
    BY <1>2, <2>2 DEF ClientType
  <2>4. cl' \in [Sessions -> ClientType] /\ cl'[s] = y /\ \A t \in Sessions : t # s => cl'[t] = cl[t]
    BY <1>2, <1>6, <2>3
  <2>5. Goal2
    BY <1>7, <1>10, <2>3, <2>4 DEF x, g
  <2> QED
    <3>1. BInv'
      BY <1>1, <1>5, <2>4, BInvKept DEF BInv, TInv, ServerTypes, WireTypes, KeepsData
    <3> QED BY <1>1, <1>3, <1>4, <1>5, <2>4, <2>5, <3>1 DEF m
<1>11. CASE x.pc # "subscribing" /\ m.kind # "Data"
  <2> DEFINE z == IF x.pc = "updating" THEN "ready" ELSE x.pc
  <2>1. y = [x EXCEPT !.pc = z] /\ z \in {"new", "ready", "subscribing", "updating", "failed", "done"}
    BY <1>6, <1>8, <1>11
  <2>2. z = IF x.pc = "updating" THEN "ready" ELSE x.pc
    OBVIOUS
  <2> HIDE DEF z
  <2>3. y \in ClientType /\ y.pc = z /\ y.subscribed = x.subscribed /\ y.got = x.got
    BY <1>2, <2>1 DEF ClientType
  <2>4. cl' \in [Sessions -> ClientType] /\ cl'[s] = y /\ \A t \in Sessions : t # s => cl'[t] = cl[t]
    BY <1>2, <1>6, <2>3
  <2>5. Goal3
    BY <1>7, <1>11, <2>2, <2>3, <2>4 DEF x
  <2> QED
    <3>1. BInv'
      BY <1>1, <1>5, <2>4, BInvKept DEF BInv, TInv, ServerTypes, WireTypes, KeepsData
    <3> QED BY <1>1, <1>3, <1>4, <1>5, <2>4, <2>5, <3>1 DEF m
<1> QED BY <1>9, <1>10, <1>11

-----------------------------------------------------------------------------
(***************************************************************************)
(* The types are kept.                                                     *)
(***************************************************************************)
LEMMA BInit ==
  ASSUME Init
  PROVE  BInv
<1> USE EventAssumption
<1>1. ServerTypes
  <2>1. NewProvider \in ProviderType /\ NewSession \in SessionType
    BY DEF NewProvider, NewSession, ProviderType, SessionType, Chunk
  <2>2. prov \in [Providers -> ProviderType] /\ sess \in [Sessions -> SessionType]
    BY <2>1 DEF Init
  <2>3. op \in OpType /\ writer \in [Writers -> WriterType]
    BY DEF Init, NoOp, OpType, WriterType
  <2>4. pending \subseteq Sessions /\ objs \subseteq Sessions /\ fault \in BOOLEAN /\ risk \subseteq Providers
    BY DEF Init
  <2>5. written \in [Sessions -> Seq(Part)]
    BY DEF Init
  <2> QED BY <2>2, <2>3, <2>4, <2>5 DEF ServerTypes
<1>2. WireTypes
  BY DEF Init, WireTypes, NewClient, ClientType
<1>3. ChunkInv
  BY DEF Init, ChunkInv, Filling, NewProvider, NewSession
<1>4. CallInv
  BY DEF Init, CallInv, NoOp
<1> QED BY <1>1, <1>2, <1>3, <1>4 DEF BInv, TInv

LEMMA BUnchanged ==
  ASSUME BInv, UNCHANGED vars
  PROVE  BInv'
<1>1. ServerTypes' /\ WireTypes'
  BY DEF BInv, TInv, ServerTypes, WireTypes, vars
<1>2. ChunkInv' /\ CallInv'
  BY DEF BInv, ChunkInv, CallInv, Filling, vars
<1> QED BY <1>1, <1>2 DEF BInv, TInv

LEMMA MessageTypes ==
  ASSUME NEW p \in Providers, NEW enable \in BOOLEAN
  PROVE  /\ [kind |-> "Subscribe", p |-> p] \in Message
         /\ [kind |-> "Apply", p |-> p, enable |-> enable] \in Message
         /\ [kind |-> "Unsubscribe"] \in Message
BY DEF Message

LEMMA BNext ==
  ASSUME BInv, [Next]_vars
  PROVE  BInv'
<1>1. CASE OpStep
  BY <1>1, FlushProviderEffect, TurnOffEffect, ResetEffect DEF OpStep
<1>2. ASSUME NEW w \in Writers, NEW p \in Providers, QueryEventWriteStatus(w, p) PROVE BInv'
  BY <1>2, QueryEffect
<1>3. ASSUME NEW w \in Writers, NEW n \in Sizes, WriteEvent(w, n) PROVE BInv'
  BY <1>3, WriteEventEffect
<1>4. ASSUME NEW w \in Writers, NEW flush \in BOOLEAN, FinishWrite(w, flush) PROVE BInv'
  BY <1>4, FinishWriteEffect
<1>5. ASSUME NEW p \in Providers, RegisterProvider(p) \/ UnregisterProvider(p) PROVE BInv'
  BY <1>5, RegisterEffect, UnregisterEffect
<1>6. ASSUME NEW s \in Sessions, AcceptSession(s) \/ SessionEstablished(s) \/ SessionTerminated(s) \/ Lose(s) PROVE BInv'
  BY <1>6, AcceptEffect, EstablishedEffect, TerminatedEffect
<1>7. ASSUME NEW s \in Sessions, UpdateProvider(s) PROVE BInv'
  BY <1>7, UpdateProviderEffect
<1>8. ASSUME NEW s \in Sessions, UpdateSession(s) PROVE BInv'
  BY <1>8, SendDataEffect, SendReplyEffect, HandleSubscribeEffect, HandleApplyEffect, HandleUnsubscribeEffect,
     TellEffect DEF UpdateSession
<1>9. ASSUME NEW s \in Sessions, Read(s) \/ Destroy(s) PROVE BInv'
  BY <1>9, ReadEffect, DestroyEffect
<1>10. ASSUME NEW s \in Sessions, NEW p \in Providers, SubscribeToProvider(s, p) PROVE BInv'
  BY <1>10, AskEffect, MessageTypes DEF SubscribeToProvider
<1>11. ASSUME NEW s \in Sessions, NEW p \in Providers, NEW enable \in BOOLEAN, UpdateProviders(s, p, enable) PROVE BInv'
  BY <1>11, AskEffect, MessageTypes DEF UpdateProviders
<1>12. CASE UNCHANGED vars
  BY <1>12, BUnchanged
<1> QED BY <1>1, <1>2, <1>3, <1>4, <1>5, <1>6, <1>7, <1>8, <1>9, <1>10, <1>11, <1>12 DEF Next

-----------------------------------------------------------------------------
(***************************************************************************)
(* Who points to whom.                                                     *)
(***************************************************************************)
SessionPlace(s) == OneSubscription(s) /\ Subscribed(s) /\ Placed(s)

LEMMA PlaceParts ==
  /\ PlaceInv <=> (\A s \in Sessions : SessionPlace(s)) /\ (\A p \in Providers : Points(p)) /\ OpOK
  /\ PlaceInv' <=> (\A s \in Sessions : SessionPlace(s)') /\ (\A p \in Providers : Points(p)') /\ OpOK'
BY DEF PlaceInv, SessionPlace

\* A step that does not touch a session, except that its answer may be gone
\* and a provider may let go of it.
LEMMA SessionKept ==
  ASSUME BInv, BInv', NEW t \in Sessions, SessionPlace(t),
         link'[t] = link[t], toServer'[t] = toServer[t], toClient'[t] = toClient[t],
         cl'[t].pc = cl[t].pc, cl'[t].subscribed = cl[t].subscribed,
         sess'[t].of = sess[t].of, sess'[t].reply = sess[t].reply \/ sess'[t].reply = None,
         t \in pending' => t \in pending /\ t \in objs',
         t \in objs' => t \in objs,
         \A p \in Providers : prov[p].session = t => prov'[p].session = t \/ t \notin objs' \/ link[t] # "up"
  PROVE  SessionPlace(t)'
<1>1. None # Response("Success") /\ sess[t].of \in Providers \cup {None}
  BY EventAssumption, SessionFields DEF BInv
<1>2. OneSubscription(t)'
  BY DEF SessionPlace, OneSubscription, Fresh, Asks
<1>3. Subscribed(t)'
  BY <1>1 DEF SessionPlace, Subscribed
<1>4. Placed(t)'
  BY <1>1 DEF SessionPlace, Placed
<1> QED BY <1>2, <1>3, <1>4 DEF SessionPlace

LEMMA SessionsSame ==
  ASSUME BInv, BInv', PlaceInv, UNCHANGED <<pending, objs, wires>>, KeepsSess,
         \A p \in Providers : prov'[p].session = prov[p].session
  PROVE  (\A t \in Sessions : SessionPlace(t)') /\ (\A p \in Providers : Points(p)')
<1>1. ASSUME NEW t \in Sessions PROVE SessionPlace(t)'
  BY SessionKept, PlaceParts DEF wires, KeepsSess, SessionPlace, Placed
<1>2. ASSUME NEW p \in Providers PROVE Points(p)'
  <2>1. Points(p) /\ prov[p].session \in Sessions \cup {None} /\ prov'[p].session = prov[p].session
    BY PlaceParts, ProviderFields DEF BInv
  <2> QED BY <2>1 DEF Points, KeepsSess
<1> QED BY <1>1, <1>2

LEMMA OpKept ==
  ASSUME BInv, PlaceInv, op' = op, KeepsProv, \A s \in Sessions : link'[s] = "up" => link[s] = "up"
  PROVE  OpOK'
BY PlaceParts DEF OpOK, KeepsProv

LEMMA PlaceKept ==
  ASSUME BInv, BInv', PlaceInv, UNCHANGED <<pending, objs, op, wires>>, KeepsProv, KeepsSess
  PROVE  PlaceInv'
BY SessionsSame, OpKept, PlaceParts DEF KeepsProv, wires

\* One session is changed, and nothing of providers.
LEMMA PlaceOne ==
  ASSUME BInv, BInv', PlaceInv, NEW s \in Sessions, SessionPlace(s)', UNCHANGED <<prov, op>>,
         \A t \in Sessions : sess'[t].of = sess[t].of,
         \A t \in Sessions : t # s => /\ link'[t] = link[t] /\ toServer'[t] = toServer[t] /\ toClient'[t] = toClient[t]
                                      /\ cl'[t] = cl[t] /\ sess'[t].reply = sess[t].reply
                                      /\ t \in pending' <=> t \in pending
                                      /\ t \in objs' <=> t \in objs,
         s \in objs => s \in objs' \/ \A p \in Providers : prov[p].session # s,
         link'[s] = "up" => link[s] = "up" \/ op = NoOp
  PROVE  PlaceInv'
<1>1. ASSUME NEW t \in Sessions, t # s PROVE SessionPlace(t)'
  <2>1. SessionPlace(t) /\ (t \in pending => t \in objs)
    BY PlaceParts DEF SessionPlace, Placed
  <2> QED BY <1>1, <2>1, SessionKept
<1>2. ASSUME NEW p \in Providers PROVE Points(p)'
  <2>1. Points(p) /\ prov[p].session \in Sessions \cup {None} /\ prov'[p].session = prov[p].session
    BY PlaceParts, ProviderFields DEF BInv
  <2> QED BY <2>1 DEF Points
<1>3. OpOK'
  <2>1. CASE op = NoOp
    <3>1. op' = NoOp /\ op'.name = "none" /\ op'.pc = "none"
      BY <2>1 DEF NoOp
    <3> QED BY <2>1, <3>1, PlaceParts DEF OpOK
  <2>2. CASE op # NoOp
    BY <2>2, OpKept DEF KeepsProv
  <2> QED BY <2>1, <2>2
<1> QED BY <1>1, <1>2, <1>3, PlaceParts

LEMMA PlaceOps ==
  ASSUME BInv, PlaceInv, OpStep
  PROVE  PlaceInv'
<1> USE PlaceParts
<1>1. CASE FlushProvider
  <2>1. /\ BInv' /\ op.pc = "flush" /\ op'.name = op.name /\ op'.p = op.p /\ op'.s = op.s /\ op'.pc = "off"
        /\ KeepsProv /\ KeepsSess /\ UNCHANGED <<pending, objs, wires>>
    BY <1>1, FlushProviderEffect
  <2>2. OpOK'
    BY <2>1, OpFields DEF OpOK, KeepsProv, wires, BInv
  <2>3. \A p \in Providers : prov'[p].session = prov[p].session
    BY <2>1 DEF KeepsProv
  <2> QED BY <2>1, <2>2, <2>3, SessionsSame
<1>2. CASE TurnOff
  <2>1. /\ BInv' /\ op.pc = "off" /\ op'.name = op.name /\ op'.p = op.p /\ op'.s = op.s /\ op'.pc = "reset"
        /\ op.p \in Providers
        /\ \A p \in Providers :
               /\ prov'[p].session = prov[p].session
               /\ prov'[p].reg = (prov[p].reg /\ ~(op.name = "unregister" /\ p = op.p))
               /\ prov'[p].enabled = (prov[p].enabled /\ ~(op.name # "unregister" /\ p = op.p))
        /\ UNCHANGED <<pending, objs, sess, wires>>
    BY <1>2, TurnOffEffect
  <2>2. OpOK'
    BY <2>1, OpFields DEF OpOK, wires, BInv
  <2>3. KeepsSess
    BY <2>1 DEF KeepsSess
  <2> QED BY <2>1, <2>2, <2>3, SessionsSame
<1>3. CASE Reset
  <2>1. /\ BInv' /\ op.p \in Providers /\ op.pc = "reset" /\ op' = NoOp
        /\ \A p \in Providers :
              /\ prov'[p].reg = prov[p].reg
              /\ prov'[p].session = IF op.name # "disable" /\ p = op.p THEN None ELSE prov[p].session
        /\ objs' = IF op.name \in {"terminate", "unregister"} THEN objs \ {op.s} ELSE objs
        /\ \A s \in Sessions :
              /\ sess'[s].of = sess[s].of
              /\ IF op.name \in {"terminate", "unregister"} /\ s = op.s THEN sess'[s].reply = None
                 ELSE sess'[s] = sess[s]
        /\ UNCHANGED <<pending, wires>>
    BY <1>3, ResetEffect
  <2>2. /\ op.name \in {"terminate", "unregister", "disable", "unsubscribe"}
        /\ op.name # "disable" => op.s = prov[op.p].session
        /\ op.name \in {"terminate", "unsubscribe"} => link[op.s] # "up"
    BY <2>1, OpFields DEF OpOK, BInv
  <2>3. \A p \in Providers : Points(p) /\ prov[p].session \in Sessions \cup {None}
    BY ProviderFields DEF BInv
  <2>4. ASSUME NEW t \in Sessions PROVE SessionPlace(t)'
    <3>1. SessionPlace(t) /\ (t \in pending => t \in objs /\ sess[t].of = None)
      BY DEF SessionPlace, Placed
    <3>2. t \in pending => t \in objs'
      BY <2>1, <2>2, <2>3, <3>1, EventAssumption DEF Points
    <3>3. ASSUME NEW p \in Providers, prov[p].session = t PROVE prov'[p].session = t \/ t \notin objs' \/ link[t] # "up"
      BY <2>1, <2>2, <3>3
    <3>4. sess'[t].of = sess[t].of /\ (sess'[t].reply = sess[t].reply \/ sess'[t].reply = None)
      BY <2>1
    <3>5. t \in objs' => t \in objs
      BY <2>1
    <3> QED BY <2>1, <3>1, <3>2, <3>3, <3>4, <3>5, SessionKept DEF wires
  <2>5. ASSUME NEW p \in Providers PROVE Points(p)'
    <3> DEFINE x == prov[p].session
    <3>1. SUFFICES ASSUME prov'[p].session # None PROVE prov'[p].session \in objs' /\ sess'[prov'[p].session].of = p
      BY DEF Points
    <3>2. prov'[p].session = x /\ x \in Sessions /\ x \in objs /\ sess[x].of = p
      BY <2>1, <2>3, <3>1 DEF Points
    <3>3. op.name \in {"terminate", "unregister"} => x # op.s
      <4> SUFFICES ASSUME op.name \in {"terminate", "unregister"}, x = op.s PROVE FALSE
        OBVIOUS
      <4>1. prov[op.p].session = x /\ op.p # p
        BY <2>1, <2>2, <3>1
      <4> QED BY <2>1, <2>3, <3>2, <4>1, EventAssumption DEF Points
    <3> QED BY <2>1, <3>2, <3>3
  <2>6. OpOK'
    <3>1. \A p \in Providers : ~prov'[p].reg => prov'[p].session = None
      BY <2>1 DEF OpOK
    <3> QED BY <2>1, <3>1 DEF OpOK, NoOp
  <2> QED BY <2>4, <2>5, <2>6
<1> QED BY <1>1, <1>2, <1>3 DEF OpStep

LEMMA PlaceWriters ==
  ASSUME BInv, PlaceInv, NEW w \in Writers, \/ \E p \in Providers : QueryEventWriteStatus(w, p)
                                            \/ \E n \in Sizes : WriteEvent(w, n)
                                            \/ \E flush \in BOOLEAN : FinishWrite(w, flush)
  PROVE  PlaceInv'
<1>1. ASSUME NEW p \in Providers, QueryEventWriteStatus(w, p) PROVE PlaceInv'
  <2>1. BInv' /\ UNCHANGED <<prov, pending, objs, sess, op, wires>>
    BY <1>1, QueryEffect
  <2> QED BY <2>1, PlaceKept DEF KeepsProv, KeepsSess
<1>2. ASSUME NEW n \in Sizes, WriteEvent(w, n) PROVE PlaceInv'
  <2>1. BInv' /\ KeepsProv /\ UNCHANGED <<pending, objs, sess, op, wires>>
    BY <1>2, WriteEventEffect
  <2> QED BY <2>1, PlaceKept DEF KeepsSess
<1>3. ASSUME NEW flush \in BOOLEAN, FinishWrite(w, flush) PROVE PlaceInv'
  <2>1. BInv' /\ KeepsProv /\ KeepsSess /\ UNCHANGED <<pending, objs, op, wires>>
    BY <1>3, FinishWriteEffect
  <2> QED BY <2>1, PlaceKept
<1> QED BY <1>1, <1>2, <1>3

LEMMA PlaceRegistration ==
  ASSUME BInv, PlaceInv, NEW p \in Providers, RegisterProvider(p) \/ UnregisterProvider(p)
  PROVE  PlaceInv'
<1> USE PlaceParts
<1>1. CASE RegisterProvider(p)
  <2>1. /\ BInv' /\ op.name = "none" /\ ~prov[p].reg /\ prov'[p].reg
        /\ \A q \in Providers : q # p => prov'[q] = prov[q]
        /\ prov'[p].session = prov[p].session \/ prov'[p].session = None
        /\ UNCHANGED <<pending, objs, sess, op, wires>>
    BY <1>1, RegisterEffect
  <2>2. \A q \in Providers : prov'[q].session = prov[q].session
    BY <2>1 DEF OpOK
  <2>3. OpOK'
    BY <2>1 DEF OpOK
  <2> QED BY <2>1, <2>2, <2>3, SessionsSame DEF KeepsSess
<1>2. CASE UnregisterProvider(p)
  <2>1. /\ BInv' /\ op.name = "none" /\ prov[p].reg
        /\ op'.name = "unregister" /\ op'.pc = "flush" /\ op'.p = p /\ op'.s = prov[p].session
        /\ UNCHANGED <<prov, pending, objs, sess, wires>>
    BY <1>2, UnregisterEffect
  <2>2. OpOK'
    BY <2>1 DEF OpOK
  <2> QED BY <2>1, <2>2, SessionsSame DEF KeepsSess
<1> QED BY <1>1, <1>2

\* Facts about sequences of messages that end in a new one or lose the first.
LEMMA AppendedAt ==
  ASSUME NEW D, NEW q \in Seq(D), NEW m \in D
  PROVE  /\ Append(q, m) \in Seq(D) /\ Len(Append(q, m)) = Len(q) + 1 /\ Len(q) \in Nat
         /\ \A i \in 1..Len(Append(q, m)) :
               \/ i \in 1..Len(q) /\ Append(q, m)[i] = q[i]
               \/ i = Len(q) + 1 /\ Append(q, m)[i] = m
<1>1. Len(q) \in Nat /\ Append(q, m) \in Seq(D) /\ Len(Append(q, m)) = Len(q) + 1
  BY LenProperties, AppendProperties
<1>2. /\ Append(q, m)[Len(q) + 1] = m
      /\ \A i \in 1..Len(q) : Append(q, m)[i] = q[i]
  BY AppendProperties
<1> QED BY <1>1, <1>2

LEMMA TailAt ==
  ASSUME NEW D, NEW q \in Seq(D), q # <<>>
  PROVE  /\ Tail(q) \in Seq(D) /\ Len(Tail(q)) = Len(q) - 1 /\ Len(q) \in Nat /\ Len(q) > 0
         /\ \A i \in 1..Len(Tail(q)) : i + 1 \in 1..Len(q) /\ Tail(q)[i] = q[i + 1]
<1>1. /\ Tail(q) \in Seq(D) /\ Len(Tail(q)) = Len(q) - 1
      /\ \A i \in 1..Len(Tail(q)) : Tail(q)[i] = q[i + 1]
  BY HeadTailProperties
<1>2. Len(q) \in Nat /\ Len(q) > 0
  BY LenProperties, EmptySeq
<1> QED BY <1>1, <1>2

LEMMA PlaceAccept ==
  ASSUME BInv, PlaceInv, NEW s \in Sessions, AcceptSession(s) \/ Lose(s)
  PROVE  PlaceInv'
<1> USE PlaceParts
<1>0. BInv' /\ link \in [Sessions -> {"down", "accepted", "up", "leaving"}] /\ SessionPlace(s)
  BY AcceptEffect DEF BInv, TInv, WireTypes
<1>1. /\ UNCHANGED <<prov, pending, objs, sess, op, toServer, toClient, cl>>
      /\ \A t \in Sessions : t # s => link'[t] = link[t]
      /\ \/ cl[s].pc = "new" /\ link[s] = "down" /\ link'[s] = "accepted"
         \/ link[s] = "up" /\ link'[s] = "leaving"
  BY <1>0 DEF AcceptSession, Lose
<1>2. SessionPlace(s)'
  BY <1>0, <1>1 DEF SessionPlace, OneSubscription, Subscribed, Placed, Fresh, Asks
<1> QED BY <1>0, <1>1, <1>2, PlaceOne

LEMMA PlaceEstablished ==
  ASSUME BInv, PlaceInv, NEW s \in Sessions, SessionEstablished(s)
  PROVE  PlaceInv'
<1> USE PlaceParts
<1>0. SessionPlace(s) /\ OpOK
  OBVIOUS
<1>1. /\ BInv' /\ link[s] = "accepted" /\ link'[s] = "up" /\ pending' = pending \cup {s} /\ objs' = objs \cup {s}
      /\ cl'[s].pc = "ready" /\ cl'[s].subscribed = cl[s].subscribed
      /\ \A t \in Sessions : t # s => cl'[t] = cl[t] /\ link'[t] = link[t]
      /\ UNCHANGED <<prov, sess, op, toServer, toClient>>
  BY EstablishedEffect DEF BInv, TInv, WireTypes
<1>2. op = NoOp
  BY <1>0 DEF SessionEstablished, UpdateLock, OpOK
<1>3. SessionPlace(s)'
  BY <1>0, <1>1 DEF SessionPlace, OneSubscription, Subscribed, Placed, Fresh, Asks
<1> QED BY <1>1, <1>2, <1>3, PlaceOne

LEMMA PlaceTerminated ==
  ASSUME BInv, PlaceInv, NEW s \in Sessions, SessionTerminated(s)
  PROVE  PlaceInv'
<1> USE PlaceParts
<1>0. SessionPlace(s) /\ OpOK /\ \A p \in Providers : Points(p)
  OBVIOUS
<1>1. /\ BInv' /\ op.name = "none" /\ link[s] = "leaving"
      /\ \/ s \in pending /\ pending' = pending \ {s} /\ objs' = objs \ {s} /\ op' = op
         \/ s \notin pending /\ UNCHANGED <<pending, objs, op>>
         \/ /\ s \notin pending /\ UNCHANGED <<pending, objs>>
            /\ \E p \in Providers : /\ prov[p].reg /\ prov[p].session = s
                                    /\ op'.name = "terminate" /\ op'.p = p /\ op'.s = s
                                    /\ op'.pc = IF prov[p].enabled THEN "flush" ELSE "reset"
      /\ UNCHANGED <<prov, sess>>
  BY TerminatedEffect
<1>2. /\ link'[s] = "down" /\ toServer'[s] = <<>> /\ toClient'[s] = <<>> /\ cl'[s].pc = "done" /\ ~cl'[s].subscribed
      /\ \A t \in Sessions : t # s => /\ link'[t] = link[t] /\ toServer'[t] = toServer[t]
                                      /\ toClient'[t] = toClient[t] /\ cl'[t] = cl[t]
  BY TerminatedEffect, DownEffect
<1>3. /\ s \in pending => s \in objs /\ sess[s].of = None
      /\ s \in pending' => s \in objs'
  BY <1>0, <1>1 DEF SessionPlace, Placed
<1>4. SessionPlace(s)'
  <2>1. OneSubscription(s)' /\ Subscribed(s)'
    BY <1>0, <1>1, <1>2 DEF SessionPlace, OneSubscription, Subscribed, Fresh, Asks
  <2>2. Placed(s)'
    BY <1>0, <1>1, <1>2, <1>3 DEF SessionPlace, Placed
  <2> QED BY <2>1, <2>2 DEF SessionPlace
<1>5. ASSUME NEW t \in Sessions, t # s PROVE SessionPlace(t)'
  <2>1. SessionPlace(t) /\ (t \in pending => t \in objs)
    BY DEF SessionPlace, Placed
  <2>2. (t \in pending' <=> t \in pending) /\ (t \in objs' <=> t \in objs)
    BY <1>1, <1>5
  <2> QED BY <1>1, <1>2, <1>5, <2>1, <2>2, SessionKept
<1>6. ASSUME NEW p \in Providers PROVE Points(p)'
  <2>1. Points(p) /\ prov[p].session \in Sessions \cup {None} /\ prov'[p].session = prov[p].session
    BY <1>1, ProviderFields DEF BInv
  <2>2. prov[p].session = s => s \notin pending
    BY <1>3, <2>1, EventAssumption DEF Points
  <2> QED BY <1>1, <2>1, <2>2 DEF Points
<1>7. OpOK'
  <2>1. CASE op' = op
    BY <1>0, <1>1, <2>1 DEF OpOK
  <2>2. ASSUME NEW p \in Providers, prov[p].reg, prov[p].session = s, op'.name = "terminate", op'.p = p, op'.s = s,
               op'.pc = IF prov[p].enabled THEN "flush" ELSE "reset"
        PROVE  OpOK'
    BY <1>1, <1>2, <2>2 DEF OpOK
  <2> QED BY <1>1, <2>1, <2>2
<1> QED BY <1>4, <1>5, <1>6, <1>7

LEMMA PlaceSend ==
  ASSUME BInv, PlaceInv, NEW s \in Sessions, SendEventData(s) \/ SendReply(s) \/ TellUnavailable(s)
  PROVE  PlaceInv'
<1> USE PlaceParts
<1>0. SessionPlace(s) /\ sess[s].reply \in Reply \cup {None} /\ toClient[s] \in Seq(Packet)
  BY SessionFields, ClientFields DEF BInv
<1>1. /\ BInv' /\ UNCHANGED <<prov, pending, objs, op, link, toServer, cl>>
      /\ \A t \in Sessions : sess'[t].of = sess[t].of
      /\ \A t \in Sessions : t # s => toClient'[t] = toClient[t] /\ sess'[t].reply = sess[t].reply
  <2>1. CASE SendEventData(s)
    BY <2>1, SendDataEffect DEF KeepsSess
  <2>2. CASE SendReply(s)
    BY <2>2, SendReplyEffect
  <2>3. CASE TellUnavailable(s)
    BY <2>3, TellEffect
  <2> QED BY <2>1, <2>2, <2>3
<1>2. /\ sess'[s].reply = sess[s].reply \/ sess'[s].reply = None
      /\ \/ toClient'[s] = toClient[s]
         \/ \E m \in Packet : /\ toClient'[s] = Append(toClient[s], m)
                              /\ m = Response("Success") => sess[s].reply = Response("Success")
  <2>1. CASE SendEventData(s)
    <3>1. KeepsSess /\ (SentHeld(s) \/ \E chunk : SentNext(s, chunk))
      BY <2>1, SendDataEffect
    <3>2. ASSUME SentHeld(s) PROVE \E x \in Part : toClient'[s] = Append(toClient[s], Data(x))
      BY <3>2, SessionFields DEF SentHeld, BInv
    <3>3. ASSUME NEW chunk, SentNext(s, chunk)
          PROVE  toClient'[s] = toClient[s] \/ \E x \in Part : toClient'[s] = Append(toClient[s], Data(x))
      <4>1. Head(chunk) \in Part
        BY <3>3, HeadTailProperties DEF SentNext, Chunk
      <4> QED BY <3>3, <4>1 DEF SentNext
    <3>4. toClient'[s] = toClient[s] \/ \E x \in Part : toClient'[s] = Append(toClient[s], Data(x))
      BY <3>1, <3>2, <3>3
    <3> QED BY <3>1, <3>4, DataType DEF KeepsSess
  <2>2. CASE SendReply(s)
    BY <2>2, SendReplyEffect, Responses
  <2>3. CASE TellUnavailable(s)
    BY <2>3, TellEffect, Responses
  <2> QED BY <2>1, <2>2, <2>3
<1>3. ASSUME NEW i \in 1..Len(toClient'[s]), toClient'[s][i] = Response("Success") PROVE sess[s].of # None
  <2>1. CASE toClient'[s] = toClient[s]
    BY <1>0, <1>3, <2>1 DEF SessionPlace, Subscribed
  <2>2. ASSUME NEW m \in Packet, toClient'[s] = Append(toClient[s], m),
               m = Response("Success") => sess[s].reply = Response("Success")
        PROVE  sess[s].of # None
    BY <1>0, <1>3, <2>2, AppendedAt DEF SessionPlace, Subscribed
  <2> QED BY <1>2, <2>1, <2>2
<1>4. SessionPlace(s)'
  <2>1. OneSubscription(s)'
    BY <1>0, <1>1 DEF SessionPlace, OneSubscription, Fresh, Asks
  <2>2. Subscribed(s)'
    BY <1>0, <1>1, <1>2, <1>3, EventAssumption DEF SessionPlace, Subscribed
  <2>3. Placed(s)'
    BY <1>0, <1>1 DEF SessionPlace, Placed
  <2> QED BY <2>1, <2>2, <2>3 DEF SessionPlace
<1> QED BY <1>1, <1>4, PlaceOne

\* A request is taken: the ones behind it stay.
LEMMA TakenMessages ==
  ASSUME BInv, NEW s \in Sessions, toServer[s] # <<>>, toServer'[s] = Tail(toServer[s])
  PROVE  \A i \in 1..Len(toServer'[s]) : i + 1 \in 1..Len(toServer[s]) /\ toServer'[s][i] = toServer[s][i + 1]
BY ClientFields, TailAt DEF BInv

LEMMA PlaceHandleSubscribe ==
  ASSUME BInv, PlaceInv, NEW s \in Sessions, HandleSubscribe(s)
  PROVE  PlaceInv'
<1> USE PlaceParts
<1> DEFINE p == Head(toServer[s]).p
<1>1. /\ BInv' /\ p \in Providers /\ \A t \in Sessions : t # s => sess'[t] = sess[t]
      /\ \A q \in Providers : q # p => prov'[q] = prov[q]
      /\ \/ /\ prov[p].reg /\ prov[p].session = None
            /\ prov'[p].reg /\ prov'[p].session = s
            /\ pending' = pending \ {s} /\ sess'[s].of = p /\ sess'[s].reply = Response("Success")
         \/ /\ UNCHANGED <<prov, pending>>
            /\ sess'[s].of = sess[s].of /\ sess'[s].reply = Response("Unavailable")
      /\ UNCHANGED <<objs, op, link, toClient, cl>>
  BY HandleSubscribeEffect
<1>2. Receives(s, "Subscribe") /\ UNCHANGED <<link, toClient, cl>>
  BY HandleSubscribeEffect
<1>3. /\ toServer'[s] = Tail(toServer[s]) /\ toServer[s] # <<>> /\ 1 \in 1..Len(toServer[s]) /\ Asks(s, 1)
      /\ \A t \in Sessions : t # s => toServer'[t] = toServer[t]
      /\ op.name = "none" /\ link[s] \in {"up", "leaving"}
      /\ s \in pending \/ \E q \in Providers : prov[q].session = s
  BY <1>2, ReceiveEffect DEF Asks
<1> HIDE DEF p
<1>4. SessionPlace(s) /\ OpOK /\ \A q \in Providers : Points(q) /\ prov[q].session \in Sessions \cup {None}
  BY ProviderFields DEF BInv
<1>5. ~Fresh(s) /\ sess[s].of = None /\ \A j \in 1..Len(toServer[s]) : Asks(s, j) => j = 1
  BY <1>3, <1>4 DEF SessionPlace, OneSubscription
<1>6. s \in objs /\ cl[s].pc # "new" /\ \A q \in Providers : prov[q].session # s
  <2>1. \A q \in Providers : prov[q].session # s
    BY <1>4, <1>5, EventAssumption DEF Points
  <2> QED BY <1>3, <1>4, <1>5, <2>1 DEF SessionPlace, Placed, Subscribed, Fresh
<1>7. \A i \in 1..Len(toServer'[s]) : i + 1 \in 1..Len(toServer[s]) /\ toServer'[s][i] = toServer[s][i + 1]
  BY <1>3, TakenMessages
<1>8. SessionPlace(s)'
  <2>0. ASSUME NEW i \in 1..Len(toServer'[s]) PROVE toServer'[s][i].kind # "Subscribe"
    <3>1. i + 1 # 1
      OBVIOUS
    <3> QED BY <1>5, <1>7, <3>1 DEF Asks
  <2>1. OneSubscription(s)'
    BY <1>1, <1>5, <2>0 DEF OneSubscription, Fresh, Asks
  <2>2. Subscribed(s)'
    BY <1>1, <1>4, <1>5, <1>7, Responses, EventAssumption DEF SessionPlace, Subscribed
  <2>3. Placed(s)'
    BY <1>1, <1>3, <1>4, <1>5, <1>6, <1>7, EventAssumption DEF SessionPlace, Placed
  <2> QED BY <2>1, <2>2, <2>3 DEF SessionPlace
<1>9. ASSUME NEW t \in Sessions, t # s PROVE SessionPlace(t)'
  <2>1. SessionPlace(t) /\ (t \in pending => t \in objs)
    BY DEF SessionPlace, Placed
  <2>2. t \in pending' <=> t \in pending
    BY <1>1, <1>9
  <2>3. \A q \in Providers : prov[q].session = t => prov'[q].session = t
    BY <1>1, EventAssumption
  <2> QED BY <1>1, <1>3, <1>9, <2>1, <2>2, <2>3, SessionKept
<1>10. ASSUME NEW q \in Providers PROVE Points(q)'
  <2>1. Points(q) /\ prov[q].session \in Sessions \cup {None} /\ prov[q].session # s
    BY <1>4, <1>6
  <2>2. CASE prov'[q].session = prov[q].session
    BY <1>1, <2>1, <2>2 DEF Points
  <2>3. CASE q = p /\ prov'[q].session = s /\ sess'[s].of = p
    BY <1>1, <1>6, <2>3 DEF Points
  <2> QED BY <1>1, <2>2, <2>3
<1>11. OpOK'
  <2>1. \A q \in Providers : ~prov'[q].reg => prov'[q].session = None
    BY <1>1, <1>3, <1>4 DEF OpOK
  <2> QED BY <1>1, <1>3, <1>4, <2>1 DEF OpOK
<1> QED BY <1>8, <1>9, <1>10, <1>11

LEMMA PlaceHandleApply ==
  ASSUME BInv, PlaceInv, NEW s \in Sessions, HandleApply(s)
  PROVE  PlaceInv'
<1> USE PlaceParts
<1> DEFINE m == Head(toServer[s])
<1>1. /\ BInv' /\ m.p \in Providers /\ sess'[s].reply \in Reply
      /\ \A t \in Sessions : sess'[t].of = sess[t].of /\ (t # s => sess'[t] = sess[t])
      /\ \A q \in Providers : prov'[q].reg = prov[q].reg /\ prov'[q].session = prov[q].session
      /\ \/ op' = op
         \/ /\ UNCHANGED prov /\ prov[m.p].reg /\ prov[m.p].enabled
            /\ op'.name = "disable" /\ op'.pc = "flush" /\ op'.p = m.p /\ op'.s = s
      /\ UNCHANGED <<pending, objs, link, toClient, cl>>
  BY HandleApplyEffect
<1>2. Receives(s, "Apply") /\ UNCHANGED <<link, toClient, cl>>
  BY HandleApplyEffect
<1>3. /\ toServer'[s] = Tail(toServer[s]) /\ toServer[s] # <<>> /\ 1 \in 1..Len(toServer[s])
      /\ toServer[s][1].kind = "Apply"
      /\ \A t \in Sessions : t # s => toServer'[t] = toServer[t]
      /\ op.name = "none"
  BY <1>2, ReceiveEffect
<1> HIDE DEF m
<1>4. SessionPlace(s) /\ OpOK /\ \A q \in Providers : Points(q) /\ prov[q].session \in Sessions \cup {None}
  BY ProviderFields DEF BInv
<1>5. sess[s].of # None
  BY <1>3, <1>4 DEF SessionPlace, Subscribed
<1>7. \A i \in 1..Len(toServer'[s]) : i + 1 \in 1..Len(toServer[s]) /\ toServer'[s][i] = toServer[s][i + 1]
  BY <1>3, TakenMessages
<1>8. SessionPlace(s)'
  <2>1. OneSubscription(s)'
    BY <1>1, <1>4, <1>5, <1>7 DEF SessionPlace, OneSubscription, Fresh, Asks
  <2>2. Subscribed(s)'
    BY <1>1, <1>4, <1>5 DEF SessionPlace, Subscribed
  <2>3. Placed(s)'
    <3>1. sess[s].of \in Providers
      BY <1>5, SessionFields DEF BInv
    <3> QED BY <1>1, <1>4, <1>7, <3>1 DEF SessionPlace, Placed
  <2> QED BY <2>1, <2>2, <2>3 DEF SessionPlace
<1>9. ASSUME NEW t \in Sessions, t # s PROVE SessionPlace(t)'
  <2>1. SessionPlace(t) /\ (t \in pending => t \in objs)
    BY DEF SessionPlace, Placed
  <2> QED BY <1>1, <1>3, <1>9, <2>1, SessionKept
<1>10. ASSUME NEW q \in Providers PROVE Points(q)'
  BY <1>1, <1>4 DEF Points
<1>11. OpOK'
  BY <1>1, <1>3, <1>4 DEF OpOK
<1> QED BY <1>8, <1>9, <1>10, <1>11

LEMMA PlaceHandleUnsubscribe ==
  ASSUME BInv, PlaceInv, NEW s \in Sessions, HandleUnsubscribe(s)
  PROVE  PlaceInv'
<1> USE PlaceParts
<1>1. /\ BInv'
      /\ \/ op' = op
         \/ /\ sess[s].of \in Providers /\ op'.name = "unsubscribe" /\ op'.p = sess[s].of /\ op'.s = s
            /\ op'.pc = IF prov[sess[s].of].enabled THEN "flush" ELSE "reset"
      /\ UNCHANGED <<prov, pending, objs, sess, link, toClient, cl>>
  BY HandleUnsubscribeEffect
<1>2. Receives(s, "Unsubscribe") /\ UNCHANGED <<link, toClient, cl>>
  BY HandleUnsubscribeEffect
<1>3. /\ toServer'[s] = Tail(toServer[s]) /\ toServer[s] # <<>> /\ 1 \in 1..Len(toServer[s])
      /\ toServer[s][1].kind = "Unsubscribe"
      /\ \A t \in Sessions : t # s => toServer'[t] = toServer[t]
      /\ op.name = "none"
      /\ s \in pending \/ \E q \in Providers : prov[q].reg /\ prov[q].session = s
  BY <1>2, ReceiveEffect
<1>4. SessionPlace(s) /\ OpOK /\ \A q \in Providers : Points(q) /\ prov[q].session \in Sessions \cup {None}
  BY ProviderFields DEF BInv
<1>5. link[s] = "leaving"
  BY <1>3, <1>4 DEF SessionPlace, Placed
<1>6. sess[s].of \in Providers => prov[sess[s].of].reg /\ prov[sess[s].of].session = s
  BY <1>3, <1>4, EventAssumption DEF SessionPlace, Placed, Points
<1>7. \A i \in 1..Len(toServer'[s]) : i + 1 \in 1..Len(toServer[s]) /\ toServer'[s][i] = toServer[s][i + 1]
  BY <1>3, TakenMessages
<1>8. SessionPlace(s)'
  <2>0. OneSubscription(s) /\ Len(toServer[s]) \in Nat /\ (Fresh(s)' <=> Fresh(s)) /\ sess'[s].of = sess[s].of
    BY <1>1, <1>4, ClientFields, LenProperties DEF SessionPlace, Fresh, BInv
  <2>1. OneSubscription(s)'
    <3>1. ASSUME NEW i \in 1..Len(toServer'[s]), Asks(s, i)'
          PROVE  i + 1 \in 1..Len(toServer[s]) /\ Asks(s, i + 1) /\ i \in Nat
      BY <1>7, <3>1 DEF Asks
    <3>2. ASSUME NEW i \in 1..Len(toServer'[s]), Asks(s, i)'
          PROVE  ~Fresh(s) /\ sess[s].of = None
      BY <2>0, <3>1, <3>2 DEF OneSubscription
    <3>3. ASSUME NEW i \in 1..Len(toServer'[s]), Asks(s, i)', NEW j \in 1..Len(toServer'[s]), Asks(s, j)'
          PROVE  j = i
      <4>1. j + 1 = i + 1 /\ i \in Nat /\ j \in Nat
        BY <2>0, <3>1, <3>3 DEF OneSubscription
      <4> QED BY <4>1
    <3> QED BY <2>0, <3>2, <3>3 DEF OneSubscription
  <2>2. Subscribed(s)'
    BY <1>1, <1>4, <1>7 DEF SessionPlace, Subscribed
  <2>3. Placed(s)'
    BY <1>1, <1>4, <1>7 DEF SessionPlace, Placed
  <2> QED BY <2>1, <2>2, <2>3 DEF SessionPlace
<1>9. ASSUME NEW t \in Sessions, t # s PROVE SessionPlace(t)'
  <2>1. SessionPlace(t) /\ (t \in pending => t \in objs)
    BY DEF SessionPlace, Placed
  <2> QED BY <1>1, <1>3, <1>9, <2>1, SessionKept
<1>10. ASSUME NEW q \in Providers PROVE Points(q)'
  BY <1>1, <1>4 DEF Points
<1>11. OpOK'
  BY <1>1, <1>3, <1>4, <1>5, <1>6 DEF OpOK
<1> QED BY <1>8, <1>9, <1>10, <1>11

LEMMA PlaceAsk ==
  ASSUME BInv, PlaceInv, NEW s \in Sessions, NEW p \in Providers,
         SubscribeToProvider(s, p) \/ \E enable \in BOOLEAN : UpdateProviders(s, p, enable)
  PROVE  PlaceInv'
<1> USE PlaceParts
<1>1. PICK m \in Message, pc \in {"subscribing", "updating"} :
         /\ Ask(s, m, pc)
         /\ \/ m.kind = "Subscribe" /\ ~cl[s].subscribed /\ pc = "subscribing"
            \/ m.kind = "Apply" /\ cl[s].subscribed /\ pc = "updating"
  BY MessageTypes DEF SubscribeToProvider, UpdateProviders
<1>2. /\ BInv' /\ link[s] = "up" /\ cl[s].pc = "ready" /\ toServer'[s] = Append(toServer[s], m)
      /\ cl'[s].pc = pc /\ cl'[s].subscribed = cl[s].subscribed
      /\ \A t \in Sessions : t # s => cl'[t] = cl[t] /\ toServer'[t] = toServer[t]
      /\ UNCHANGED <<prov, pending, objs, sess, op, link, toClient>>
  BY <1>1, AskEffect
<1>3. SessionPlace(s) /\ toServer[s] \in Seq(Message)
  BY ClientFields DEF BInv
<1>4. /\ Len(toServer'[s]) = Len(toServer[s]) + 1 /\ Len(toServer[s]) \in Nat
      /\ \A i \in 1..Len(toServer'[s]) : \/ i \in 1..Len(toServer[s]) /\ toServer'[s][i] = toServer[s][i]
                                         \/ i = Len(toServer[s]) + 1 /\ toServer'[s][i] = m
  BY <1>2, <1>3, AppendedAt
<1>5. SessionPlace(s)'
  <2>1. OneSubscription(s)'
    BY <1>1, <1>2, <1>3, <1>4 DEF SessionPlace, OneSubscription, Fresh, Asks
  <2>2. Subscribed(s)'
    BY <1>1, <1>2, <1>3, <1>4 DEF SessionPlace, Subscribed
  <2>3. Placed(s)'
    BY <1>1, <1>2, <1>3, <1>4 DEF SessionPlace, Placed
  <2> QED BY <2>1, <2>2, <2>3 DEF SessionPlace
<1> QED BY <1>2, <1>5, PlaceOne

LEMMA PlaceDestroy ==
  ASSUME BInv, PlaceInv, NEW s \in Sessions, Destroy(s)
  PROVE  PlaceInv'
<1> USE PlaceParts
<1> DEFINE m == [kind |-> "Unsubscribe"]
<1>1. /\ BInv' /\ link[s] = "up" /\ link'[s] = "leaving" /\ toServer'[s] = Append(toServer[s], m)
      /\ \A t \in Sessions : t # s => link'[t] = link[t] /\ toServer'[t] = toServer[t]
      /\ UNCHANGED <<prov, pending, objs, sess, op, toClient, cl>>
  BY DestroyEffect
<1>2. SessionPlace(s) /\ toServer[s] \in Seq(Message) /\ m \in Message /\ m.kind = "Unsubscribe"
  BY ClientFields DEF BInv, Message
<1> HIDE DEF m
<1>3. /\ Len(toServer'[s]) = Len(toServer[s]) + 1 /\ Len(toServer[s]) \in Nat
      /\ \A i \in 1..Len(toServer'[s]) : \/ i \in 1..Len(toServer[s]) /\ toServer'[s][i] = toServer[s][i]
                                         \/ i = Len(toServer[s]) + 1 /\ toServer'[s][i] = m
  BY <1>1, <1>2, AppendedAt
<1>4. SessionPlace(s)'
  <2>1. OneSubscription(s)'
    BY <1>1, <1>2, <1>3 DEF SessionPlace, OneSubscription, Fresh, Asks
  <2>2. Subscribed(s)'
    BY <1>1, <1>2, <1>3 DEF SessionPlace, Subscribed
  <2>3. Placed(s)'
    BY <1>1, <1>2, <1>3 DEF SessionPlace, Placed
  <2> QED BY <2>1, <2>2, <2>3 DEF SessionPlace
<1> QED BY <1>1, <1>4, PlaceOne

LEMMA PlaceRead ==
  ASSUME BInv, PlaceInv, NEW s \in Sessions, Read(s)
  PROVE  PlaceInv'
<1> USE PlaceParts
<1> DEFINE m == Head(toClient[s])
<1>1. /\ BInv' /\ link[s] = "up" /\ toClient[s] # <<>> /\ m = toClient[s][1] /\ 1 \in 1..Len(toClient[s])
      /\ toClient'[s] = Tail(toClient[s])
      /\ \/ /\ cl[s].pc = "subscribing"
            /\ \/ m = Response("Success") /\ cl'[s].pc = "ready" /\ cl'[s].subscribed
               \/ cl'[s].pc = "failed" /\ ~cl'[s].subscribed
         \/ /\ cl[s].pc # "subscribing" /\ cl'[s].pc = cl[s].pc /\ cl'[s].subscribed = cl[s].subscribed
         \/ /\ cl[s].pc # "subscribing" /\ cl'[s].subscribed = cl[s].subscribed
            /\ cl'[s].pc = IF cl[s].pc = "updating" THEN "ready" ELSE cl[s].pc
      /\ \A t \in Sessions : t # s => cl'[t] = cl[t] /\ toClient'[t] = toClient[t]
      /\ UNCHANGED <<prov, pending, objs, sess, op, link, toServer>>
  BY ReadEffect
<1> HIDE DEF m
<1>2. SessionPlace(s) /\ toClient[s] \in Seq(Packet)
  BY ClientFields DEF BInv
<1>3. \A i \in 1..Len(toClient'[s]) : i + 1 \in 1..Len(toClient[s]) /\ toClient'[s][i] = toClient[s][i + 1]
  BY <1>1, <1>2, TailAt
<1>4. m = Response("Success") => sess[s].of # None
  BY <1>1, <1>2 DEF SessionPlace, Subscribed
<1>5. SessionPlace(s)'
  <2>1. OneSubscription(s)'
    BY <1>1, <1>2, <1>4 DEF SessionPlace, OneSubscription, Subscribed, Fresh, Asks
  <2>2. Subscribed(s)'
    BY <1>1, <1>2, <1>3, <1>4 DEF SessionPlace, Subscribed
  <2>3. Placed(s)'
    BY <1>1, <1>2 DEF SessionPlace, Placed
  <2> QED BY <2>1, <2>2, <2>3 DEF SessionPlace
<1> QED BY <1>1, <1>5, PlaceOne

LEMMA PlaceInit ==
  ASSUME Init
  PROVE  PlaceInv
<1>1. ASSUME NEW s \in Sessions PROVE OneSubscription(s) /\ Subscribed(s) /\ Placed(s)
  BY EventAssumption DEF Init, OneSubscription, Subscribed, Placed, Asks, NewSession, NewClient
<1>2. ASSUME NEW p \in Providers PROVE Points(p)
  BY DEF Init, Points, NewProvider
<1>3. OpOK
  BY DEF Init, OpOK, NoOp, NewProvider
<1> QED BY <1>1, <1>2, <1>3 DEF PlaceInv

LEMMA PlaceNext ==
  ASSUME BInv, PlaceInv, [Next]_vars
  PROVE  PlaceInv'
<1>1. ASSUME NEW s \in Sessions, UpdateProvider(s) PROVE PlaceInv'
  BY <1>1, UpdateProviderEffect, PlaceKept
<1>2. ASSUME NEW s \in Sessions, UpdateSession(s) PROVE PlaceInv'
  BY <1>2, PlaceSend, PlaceHandleSubscribe, PlaceHandleApply, PlaceHandleUnsubscribe DEF UpdateSession
<1>3. CASE UNCHANGED vars
  BY <1>3, PlaceKept, BUnchanged DEF vars, wires, KeepsProv, KeepsSess
<1>4. ASSUME NEW s \in Sessions, Read(s) \/ Destroy(s) \/ Lose(s) \/ AcceptSession(s) \/ SessionEstablished(s)
                                 \/ SessionTerminated(s)
      PROVE  PlaceInv'
  BY <1>4, PlaceRead, PlaceDestroy, PlaceAccept, PlaceEstablished, PlaceTerminated
<1> QED BY <1>1, <1>2, <1>3, <1>4, PlaceOps, PlaceWriters, PlaceRegistration, PlaceAsk DEF Next

-----------------------------------------------------------------------------
(***************************************************************************)
(* Writers.                                                                *)
(***************************************************************************)
WriterOK(p) ==
    /\ prov[p].reg /\ prov[p].enabled => prov[p].session # None
    /\ \A w \in Writers : Inside(w, p) => Open(p)
    /\ ~Open(p) => prov[p].chunks = <<>>

LEMMA WriterParts ==
  /\ WriterInv <=> \A p \in Providers : p \notin risk => WriterOK(p)
  /\ WriterInv' <=> \A p \in Providers : p \notin risk' => WriterOK(p)'
BY DEF WriterInv, WriterOK

\* A provider that is as open as before, with the session it had unless it
\* cannot be written to.
LEMMA WriterKept ==
  ASSUME NEW p \in Providers, WriterOK(p), Open(p)' <=> Open(p),
         \A w \in Writers : Inside(w, p)' => Inside(w, p),
         prov'[p].chunks = prov[p].chunks \/ prov'[p].chunks = <<>>,
         prov'[p].reg /\ prov'[p].enabled => prov[p].reg /\ prov[p].enabled /\ prov'[p].session = prov[p].session
  PROVE  WriterOK(p)'
BY DEF WriterOK

\* Steps that leave the state of providers and the update lock alone.
LEMMA WritersSame ==
  ASSUME BInv, WriterInv, KeepsProv, risk \subseteq risk', op' = op, writer' = writer, KeepsChunks
  PROVE  WriterInv'
<1> SUFFICES ASSUME NEW p \in Providers, p \notin risk' PROVE WriterOK(p)'
  BY WriterParts
<1>1. WriterOK(p)
  BY WriterParts
<1>2. Open(p)' <=> Open(p)
  BY DEF Open, Closing, KeepsProv
<1> QED BY <1>1, <1>2, WriterKept DEF KeepsProv, KeepsChunks, Inside

\* An operation that begins: the provider is enabled, or nothing is to be
\* flushed.
LEMMA WritersOpBegins ==
  ASSUME BInv, PlaceInv, WriterInv, op.name = "none", UNCHANGED <<prov, writer, risk>>, NEW p \in Providers, op'.p = p,
         op'.pc = IF prov[p].enabled THEN "flush" ELSE "reset"
  PROVE  WriterInv'
<1> SUFFICES ASSUME NEW q \in Providers, q \notin risk' PROVE WriterOK(q)'
  BY WriterParts
<1>1. WriterOK(q) /\ op.pc = "none"
  BY WriterParts, PlaceParts DEF OpOK
<1>2. Open(q)' <=> Open(q)
  BY <1>1 DEF Open, Closing
<1> QED BY <1>1, <1>2, WriterKept DEF Inside

LEMMA WritersFlushed ==
  ASSUME BInv, WriterInv, KeepsProv, NEW p \in Providers, Flushed(p), risk \subseteq risk', op' = op,
         \A v \in Writers, q \in Providers : Inside(v, q)' => Inside(v, q)
  PROVE  WriterInv'
<1> SUFFICES ASSUME NEW q \in Providers, q \notin risk' PROVE WriterOK(q)'
  BY WriterParts
<1>1. WriterOK(q)
  BY WriterParts
<1>2. Open(q)' <=> Open(q)
  BY DEF Open, Closing, KeepsProv
<1>3. prov'[q].chunks = prov[q].chunks \/ prov'[q].chunks = <<>>
  BY DEF Flushed
<1> QED BY <1>1, <1>2, <1>3, WriterKept DEF KeepsProv

LEMMA WritersOps ==
  ASSUME BInv, PlaceInv, WriterInv, OpStep
  PROVE  WriterInv'
<1> USE WriterParts
<1>1. CASE FlushProvider
  <2>1. /\ op.p \in Providers /\ op.pc = "flush" /\ op'.p = op.p /\ op'.pc = "off" /\ KeepsProv /\ Flushed(op.p)
        /\ risk' = risk \cup (IF \E w \in Writers : Inside(w, op.p) THEN {op.p} ELSE {}) /\ writer' = writer
    BY <1>1, FlushProviderEffect
  <2> SUFFICES ASSUME NEW q \in Providers, q \notin risk' PROVE WriterOK(q)'
    OBVIOUS
  <2>2. WriterOK(q) /\ \A w \in Writers : Inside(w, q)' <=> Inside(w, q)
    BY <2>1 DEF Inside
  <2>3. CASE q = op.p
    <3>1. \A w \in Writers : ~Inside(w, q)'
      BY <2>1, <2>2, <2>3
    <3>2. prov'[q].chunks = <<>>
      BY <2>1, <2>3 DEF Flushed
    <3> QED BY <2>1, <2>2, <3>1, <3>2 DEF WriterOK, KeepsProv
  <2>4. CASE q # op.p
    <3>1. Open(q)' <=> Open(q)
      BY <2>1, <2>4 DEF Open, Closing, KeepsProv
    <3>2. prov'[q].chunks = prov[q].chunks
      BY <2>1, <2>4 DEF Flushed
    <3> QED BY <2>1, <2>2, <3>1, <3>2, WriterKept DEF KeepsProv
  <2> QED BY <2>3, <2>4
<1>2. CASE TurnOff
  <2>1. /\ op.p \in Providers /\ op.pc = "off" /\ op'.p = op.p /\ op'.pc = "reset"
        /\ \A p \in Providers :
               /\ prov'[p].session = prov[p].session /\ prov'[p].chunks = prov[p].chunks
               /\ prov'[p].reg = (prov[p].reg /\ ~(op.name = "unregister" /\ p = op.p))
               /\ prov'[p].enabled = (prov[p].enabled /\ ~(op.name # "unregister" /\ p = op.p))
        /\ UNCHANGED <<writer, risk>>
    BY <1>2, TurnOffEffect
  <2> SUFFICES ASSUME NEW q \in Providers, q \notin risk' PROVE WriterOK(q)'
    OBVIOUS
  <2>2. WriterOK(q) /\ (\A w \in Writers : Inside(w, q)' <=> Inside(w, q))
    BY <2>1 DEF Inside
  <2>3. Open(q)' <=> Open(q)
    BY <2>1 DEF Open, Closing
  <2> QED BY <2>1, <2>2, <2>3, WriterKept
<1>3. CASE Reset
  <2>1. /\ op.p \in Providers /\ op.pc = "reset" /\ op' = NoOp
        /\ \A p \in Providers :
               /\ prov'[p].reg = prov[p].reg /\ prov'[p].enabled = prov[p].enabled /\ prov'[p].chunks = prov[p].chunks
               /\ prov'[p].session = IF op.name # "disable" /\ p = op.p THEN None ELSE prov[p].session
        /\ UNCHANGED <<writer, risk>>
    BY <1>3, ResetEffect
  <2>2. ~(prov[op.p].reg /\ prov[op.p].enabled) /\ op'.pc = "none"
    BY <2>1, PlaceParts DEF OpOK, NoOp
  <2> SUFFICES ASSUME NEW q \in Providers, q \notin risk' PROVE WriterOK(q)'
    OBVIOUS
  <2>3. WriterOK(q) /\ (\A w \in Writers : Inside(w, q)' <=> Inside(w, q))
    BY <2>1 DEF Inside
  <2>4. Open(q)' <=> Open(q)
    BY <2>1, <2>2 DEF Open, Closing
  <2>5. prov[q].reg /\ prov[q].enabled => q # op.p
    BY <2>2
  <2> QED BY <2>1, <2>3, <2>4, <2>5, WriterKept
<1> QED BY <1>1, <1>2, <1>3 DEF OpStep

LEMMA WritersWrite ==
  ASSUME BInv, PlaceInv, WriterInv, NEW w \in Writers, \/ \E p \in Providers : QueryEventWriteStatus(w, p)
                                                       \/ \E n \in Sizes : WriteEvent(w, n)
                                                       \/ \E flush \in BOOLEAN : FinishWrite(w, flush)
  PROVE  WriterInv'
<1> USE WriterParts
<1>1. ASSUME NEW p \in Providers, QueryEventWriteStatus(w, p) PROVE WriterInv'
  <2>1. /\ prov[p].reg /\ prov[p].enabled
        /\ \A v \in Writers, q \in Providers : Inside(v, q)' => Inside(v, q) \/ q = p
        /\ risk' = risk \cup (IF op.p = p /\ op.pc = "off" THEN {p} ELSE {})
        /\ UNCHANGED <<prov, op>>
    BY <1>1, QueryEffect
  <2> SUFFICES ASSUME NEW q \in Providers, q \notin risk' PROVE WriterOK(q)'
    OBVIOUS
  <2>2. WriterOK(q) /\ q \notin risk
    BY <2>1
  <2>3. Open(q)' <=> Open(q)
    BY <2>1 DEF Open, Closing
  <2>4. CASE q = p
    <3>1. ~(op.p = p /\ op.pc = "off")
      BY <2>1, <2>4
    <3>2. ~(op.p = p /\ op.pc = "reset")
      BY <2>1, PlaceParts DEF OpOK
    <3>3. Open(q)
      BY <2>1, <2>4, <3>1, <3>2 DEF Open, Closing
    <3> QED BY <2>1, <2>2, <2>3, <3>3 DEF WriterOK
  <2>5. CASE q # p
    BY <2>1, <2>2, <2>3, <2>5, WriterKept
  <2> QED BY <2>4, <2>5
<1>2. ASSUME NEW n \in Sizes, WriteEvent(w, n) PROVE WriterInv'
  <2> DEFINE p == writer[w].p
  <2>1. /\ p \in Providers /\ Inside(w, p) /\ KeepsProv
        /\ \A v \in Writers, q \in Providers : Inside(v, q)' => Inside(v, q)
        /\ \A q \in Providers : q # p => prov'[q].chunks = prov[q].chunks
        /\ UNCHANGED <<op, risk>>
    BY <1>2, WriteEventEffect
  <2> HIDE DEF p
  <2> SUFFICES ASSUME NEW q \in Providers, q \notin risk' PROVE WriterOK(q)'
    OBVIOUS
  <2>2. WriterOK(q) /\ q \notin risk
    BY <2>1
  <2>3. Open(q)' <=> Open(q)
    BY <2>1 DEF Open, Closing, KeepsProv
  <2>4. CASE q = p
    BY <2>1, <2>2, <2>3, <2>4 DEF WriterOK, KeepsProv
  <2>5. CASE q # p
    BY <2>1, <2>2, <2>3, <2>5, WriterKept DEF KeepsProv
  <2> QED BY <2>4, <2>5
<1>3. ASSUME NEW flush \in BOOLEAN, FinishWrite(w, flush) PROVE WriterInv'
  <2> DEFINE p == writer[w].p
  <2>1. /\ p \in Providers /\ KeepsProv
        /\ \A v \in Writers, q \in Providers : Inside(v, q)' => Inside(v, q)
        /\ Flushed(p) \/ KeepsChunks
        /\ UNCHANGED <<op, risk>>
    BY <1>3, FinishWriteEffect
  <2> HIDE DEF p
  <2>2. CASE Flushed(p)
    BY <2>1, <2>2, WritersFlushed
  <2>3. CASE KeepsChunks
    <3> SUFFICES ASSUME NEW q \in Providers, q \notin risk' PROVE WriterOK(q)'
      OBVIOUS
    <3>1. WriterOK(q) /\ (Open(q)' <=> Open(q))
      BY <2>1 DEF Open, Closing, KeepsProv
    <3> QED BY <2>1, <2>3, <3>1, WriterKept DEF KeepsProv, KeepsChunks
  <2> QED BY <2>1, <2>2, <2>3
<1> QED BY <1>1, <1>2, <1>3

LEMMA WritersRegistration ==
  ASSUME BInv, PlaceInv, WriterInv, NEW p \in Providers, RegisterProvider(p) \/ UnregisterProvider(p)
  PROVE  WriterInv'
<1> USE WriterParts
<1>1. CASE RegisterProvider(p)
  <2>1. /\ ~prov[p].reg /\ prov'[p].reg
        /\ \A q \in Providers : q # p => prov'[q] = prov[q]
        /\ risk \subseteq risk' /\ UNCHANGED <<op, writer>>
    BY <1>1, RegisterEffect
  <2> SUFFICES ASSUME NEW q \in Providers, q \notin risk' PROVE WriterOK(q)'
    OBVIOUS
  <2>2. WriterOK(q) /\ (\A w \in Writers : Inside(w, q)' <=> Inside(w, q))
    BY <2>1 DEF Inside
  <2>3. CASE q # p
    <3>1. prov'[q] = prov[q] /\ (Open(q)' <=> Open(q))
      BY <2>1, <2>3 DEF Open, Closing
    <3> QED BY <2>2, <3>1, WriterKept
  <2>4. CASE q = p /\ ~prov[p].enabled /\ ~prov'[p].enabled /\ prov'[p].chunks = prov[p].chunks
    <3>1. ~Open(q)' /\ ~Open(q)
      BY <2>4 DEF Open
    <3> QED BY <2>2, <2>4, <3>1, WriterKept
  <2>5. CASE q = p /\ ~prov'[p].enabled /\ prov'[p].chunks = <<>> /\ \A w \in Writers : ~Inside(w, p)
    BY <2>2, <2>5 DEF WriterOK
  <2> QED BY <1>1, <2>3, <2>4, <2>5, RegisterEffect
<1>2. CASE UnregisterProvider(p)
  <2>1. /\ op.name = "none" /\ op'.pc = "flush" /\ UNCHANGED <<prov, writer, risk>>
    BY <1>2, UnregisterEffect
  <2> SUFFICES ASSUME NEW q \in Providers, q \notin risk' PROVE WriterOK(q)'
    OBVIOUS
  <2>2. WriterOK(q) /\ op.pc = "none"
    BY <2>1, PlaceParts DEF OpOK
  <2>3. Open(q)' <=> Open(q)
    BY <2>1, <2>2 DEF Open, Closing
  <2> QED BY <2>1, <2>2, <2>3, WriterKept DEF Inside
<1> QED BY <1>1, <1>2

LEMMA WritersTerminated ==
  ASSUME BInv, PlaceInv, WriterInv, NEW s \in Sessions, SessionTerminated(s) \/ HandleUnsubscribe(s)
  PROVE  WriterInv'
<1>1. /\ op.name = "none" /\ UNCHANGED <<prov, writer, risk>>
      /\ op' = op \/ \E p \in Providers : op'.p = p /\ op'.pc = IF prov[p].enabled THEN "flush" ELSE "reset"
  <2>1. CASE SessionTerminated(s)
    BY <2>1, TerminatedEffect
  <2>2. CASE HandleUnsubscribe(s)
    <3>1. Receives(s, "Unsubscribe") /\ UNCHANGED <<link, toClient, cl>>
      BY <2>2, HandleUnsubscribeEffect
    <3>2. op.name = "none"
      BY <3>1, ReceiveEffect
    <3> QED BY <2>2, <3>2, HandleUnsubscribeEffect
  <2> QED BY <2>1, <2>2
<1>2. CASE op' = op
  BY <1>1, <1>2, WritersSame DEF KeepsProv, KeepsChunks
<1>3. ASSUME NEW p \in Providers, op'.p = p, op'.pc = IF prov[p].enabled THEN "flush" ELSE "reset" PROVE WriterInv'
  BY <1>1, <1>3, WritersOpBegins
<1> QED BY <1>1, <1>2, <1>3

LEMMA WritersHandleSubscribe ==
  ASSUME BInv, PlaceInv, WriterInv, NEW s \in Sessions, HandleSubscribe(s)
  PROVE  WriterInv'
<1> USE WriterParts
<1> DEFINE p == Head(toServer[s]).p
<1>1. /\ p \in Providers /\ \A q \in Providers : q # p => prov'[q] = prov[q]
      /\ \/ prov'[p].reg /\ prov'[p].session = s /\ prov'[p].enabled
         \/ UNCHANGED prov
      /\ UNCHANGED <<op, writer, risk>> /\ KeepsChunks
  BY HandleSubscribeEffect
<1>2. Receives(s, "Subscribe") /\ UNCHANGED <<link, toClient, cl>>
  BY HandleSubscribeEffect
<1>3. op.name = "none" /\ op.pc = "none"
  BY <1>2, ReceiveEffect, PlaceParts DEF OpOK
<1> HIDE DEF p
<1>4. CASE UNCHANGED prov
  BY <1>1, <1>4, WritersSame DEF KeepsProv
<1>5. CASE prov'[p].reg /\ prov'[p].session = s /\ prov'[p].enabled
  <2> SUFFICES ASSUME NEW q \in Providers, q \notin risk' PROVE WriterOK(q)'
    OBVIOUS
  <2>1. WriterOK(q)
    BY <1>1
  <2>2. CASE q = p
    <3>1. Open(q)'
      BY <1>1, <1>3, <1>5, <2>2 DEF Open, Closing
    <3> QED BY <1>5, <2>2, <3>1, EventAssumption DEF WriterOK
  <2>3. CASE q # p
    <3>1. Open(q)' <=> Open(q)
      BY <1>1, <2>3 DEF Open, Closing
    <3> QED BY <1>1, <2>1, <2>3, <3>1, WriterKept DEF Inside
  <2> QED BY <2>2, <2>3
<1> QED BY <1>1, <1>4, <1>5

LEMMA WritersHandleApply ==
  ASSUME BInv, PlaceInv, WriterInv, NEW s \in Sessions, HandleApply(s)
  PROVE  WriterInv'
<1> USE WriterParts
<1> DEFINE p == Head(toServer[s]).p
<1>1. /\ p \in Providers /\ KeepsChunks
      /\ \A q \in Providers : /\ prov'[q].reg = prov[q].reg /\ prov'[q].session = prov[q].session
                              /\ q # p => prov'[q].enabled = prov[q].enabled
      /\ \/ /\ prov'[p].enabled = (prov[p].enabled \/ prov[p].reg) /\ op' = op
            /\ risk' = risk \cup (IF prov[p].reg /\ prov[p].session = None THEN {p} ELSE {})
         \/ UNCHANGED <<prov, op, risk>>
         \/ UNCHANGED <<prov, risk>> /\ prov[p].enabled /\ op'.pc = "flush" /\ op'.p = p
      /\ UNCHANGED writer
  BY HandleApplyEffect
<1>2. Receives(s, "Apply") /\ UNCHANGED <<link, toClient, cl>>
  BY HandleApplyEffect
<1>3. op.name = "none" /\ op.pc = "none"
  BY <1>2, ReceiveEffect, PlaceParts DEF OpOK
<1> HIDE DEF p
<1>4. CASE UNCHANGED <<prov, op, risk>>
  BY <1>1, <1>4, WritersSame DEF KeepsProv
<1>5. CASE UNCHANGED <<prov, risk>> /\ prov[p].enabled /\ op'.pc = "flush" /\ op'.p = p
  BY <1>1, <1>3, <1>5, WritersOpBegins
<1>6. CASE /\ prov'[p].enabled = (prov[p].enabled \/ prov[p].reg) /\ op' = op
           /\ risk' = risk \cup (IF prov[p].reg /\ prov[p].session = None THEN {p} ELSE {})
  <2> SUFFICES ASSUME NEW q \in Providers, q \notin risk' PROVE WriterOK(q)'
    OBVIOUS
  <2>1. WriterOK(q) /\ q \notin risk
    BY <1>6
  <2>2. CASE q = p /\ prov[p].reg
    <3>1. Open(q)' /\ prov'[q].session # None
      BY <1>1, <1>3, <1>6, <2>2 DEF Open, Closing
    <3> QED BY <3>1 DEF WriterOK
  <2>3. CASE ~(q = p /\ prov[p].reg)
    <3>1. prov'[q].enabled = prov[q].enabled
      BY <1>1, <1>6, <2>3, ProviderFields DEF BInv
    <3>2. Open(q)' <=> Open(q)
      BY <1>1, <1>6, <3>1 DEF Open, Closing
    <3> QED BY <1>1, <2>1, <3>1, <3>2, WriterKept DEF Inside, KeepsChunks
  <2> QED BY <2>2, <2>3
<1> QED BY <1>1, <1>4, <1>5, <1>6

LEMMA WritersInit ==
  ASSUME Init
  PROVE  WriterInv
BY EventAssumption DEF Init, WriterInv, Inside, NewProvider

LEMMA WritersNext ==
  ASSUME BInv, PlaceInv, WriterInv, [Next]_vars
  PROVE  WriterInv'
<1>1. ASSUME UNCHANGED <<prov, op, writer, risk>> PROVE WriterInv'
  BY <1>1, WritersSame DEF KeepsProv, KeepsChunks
<1>2. ASSUME NEW s \in Sessions, UpdateProvider(s) PROVE WriterInv'
  <2>1. PICK p \in Providers : Flushed(p)
    BY <1>2, UpdateProviderEffect
  <2>2. KeepsProv /\ UNCHANGED <<op, writer, risk>>
    BY <1>2, UpdateProviderEffect
  <2> QED BY <2>1, <2>2, WritersFlushed DEF Inside
<1>3. ASSUME NEW s \in Sessions, UpdateSession(s) PROVE WriterInv'
  <2>1. CASE SendEventData(s) \/ SendReply(s) \/ TellUnavailable(s)
    BY <1>1, <2>1, SendDataEffect, SendReplyEffect, TellEffect
  <2> QED BY <1>3, <2>1, WritersHandleSubscribe, WritersHandleApply, WritersTerminated DEF UpdateSession
<1>4. ASSUME NEW s \in Sessions, Read(s) \/ Destroy(s) \/ Lose(s) \/ AcceptSession(s) \/ SessionEstablished(s)
      PROVE  WriterInv'
  <2>1. CASE Read(s) \/ Destroy(s) \/ SessionEstablished(s)
    BY <1>1, <2>1, ReadEffect, DestroyEffect, EstablishedEffect
  <2>2. CASE Lose(s) \/ AcceptSession(s)
    BY <1>1, <2>2 DEF Lose, AcceptSession
  <2> QED BY <1>4, <2>1, <2>2
<1>5. ASSUME NEW s \in Sessions, NEW p \in Providers,
             SubscribeToProvider(s, p) \/ \E enable \in BOOLEAN : UpdateProviders(s, p, enable)
      PROVE  WriterInv'
  BY <1>1, <1>5 DEF SubscribeToProvider, UpdateProviders, Ask
<1>6. CASE UNCHANGED vars
  BY <1>1, <1>6 DEF vars
<1> QED BY <1>2, <1>3, <1>4, <1>5, <1>6, WritersOps, WritersWrite, WritersRegistration, WritersTerminated DEF Next

-----------------------------------------------------------------------------
(***************************************************************************)
(* A writer has a session to take chunks from and to flush them to, and a  *)
(* session object is in one place.                                         *)
(***************************************************************************)
EInv == BInv /\ PlaceInv /\ WriterInv

LEMMA EInvariant == Spec => []EInv
<1>1. Init => EInv
  BY BInit, PlaceInit, WritersInit DEF EInv
<1>2. EInv /\ [Next]_vars => EInv'
  BY BNext, PlaceNext, WritersNext DEF EInv
<1> QED BY <1>1, <1>2, PTL DEF Spec

\* A writer inside WriteEvent, which looked at the provider without a lock,
\* finds a session that has not been deleted, unless its provider is one of
\* those the code leaves at risk (ddEventProvider.cpp, WriteEventWithHeader).
THEOREM WritersFindSessions == Spec => []WriterFindsSession
<1>1. EInv => WriterFindsSession
  <2> SUFFICES ASSUME EInv, NEW w \in Writers, NEW p \in Providers, Inside(w, p), p \notin risk
               PROVE  prov[p].session \in objs
    BY DEF WriterFindsSession
  <2>1. Open(p) /\ prov[p].session # None
    BY WriterParts DEF EInv, WriterOK, Open
  <2> QED BY <2>1, PlaceParts DEF EInv, Points
<1> QED BY <1>1, EInvariant, PTL

\* A session object is in the list of pending sessions or with one provider,
\* and a subscribed client keeps the provider it asked for (ddEventServer.cpp,
\* AssignSessionToProvider and SessionTerminated).
THEOREM SessionsHaveOnePlace == Spec => []SessionHasOnePlace
<1>1. EInv => SessionHasOnePlace
  <2> SUFFICES ASSUME EInv PROVE SessionHasOnePlace
    OBVIOUS
  <2> USE PlaceParts DEF EInv
  <2>1. ASSUME NEW p \in Providers PROVE prov[p].session \notin pending
    <3>1. Points(p) /\ prov[p].session \in Sessions \cup {None} /\ pending \subseteq Sessions
      BY ProviderFields DEF BInv, TInv, ServerTypes
    <3>2. \A s \in Sessions : s \in pending => sess[s].of = None
      BY DEF SessionPlace, Placed
    <3> QED BY <3>1, <3>2, EventAssumption DEF Points
  <2>2. ASSUME NEW s \in Sessions, cl[s].subscribed, link[s] = "up", s \in objs PROVE prov[sess[s].of].session = s
    BY <2>2 DEF SessionPlace, Subscribed, Placed
  <2> QED BY <2>1, <2>2 DEF SessionHasOnePlace
<1> QED BY <1>1, EInvariant, PTL

-----------------------------------------------------------------------------
(***************************************************************************)
(* The data of packets.                                                    *)
(***************************************************************************)
LEMMA ContentType ==
  ASSUME NEW m \in Packet
  PROVE  /\ Content(m) \in Chunk /\ m.kind \in {"Data", "Response"}
         /\ m.kind = "Response" => Content(m) = <<>>
         /\ m.kind = "Data" => m.part \in Part /\ Content(m) = <<m.part>>
BY DEF Content, Packet, Reply, Chunk

LEMMA ContentsType ==
  ASSUME NEW q \in Seq(Packet)
  PROVE  /\ Contents(q) \in Seq(Chunk) /\ Len(Contents(q)) = Len(q) /\ Len(q) \in Nat
         /\ \A i \in 1..Len(q) : Contents(q)[i] = Content(q[i]) /\ q[i] \in Packet
<1>1. Len(q) \in Nat /\ \A i \in 1..Len(q) : q[i] \in Packet
  BY LenProperties, ElementOfSeq
<1>2. \A i \in 1..Len(q) : Content(q[i]) \in Chunk
  BY <1>1, ContentType
<1>3. Contents(q) \in [1..Len(q) -> Chunk]
  BY <1>2 DEF Contents
<1>4. Contents(q) \in Seq(Chunk) /\ Len(Contents(q)) = Len(q)
  BY <1>1, <1>3, IsASeq, LenProperties DEF Contents
<1> QED BY <1>1, <1>4 DEF Contents

LEMMA ContentsAppend ==
  ASSUME NEW q \in Seq(Packet), NEW m \in Packet
  PROVE  Contents(Append(q, m)) = Append(Contents(q), Content(m))
<1> DEFINE r == Append(q, m)
           x == Append(Contents(q), Content(m))
<1>1. /\ r \in Seq(Packet) /\ Len(r) = Len(q) + 1 /\ Len(q) \in Nat
      /\ \A i \in 1..Len(r) : \/ i \in 1..Len(q) /\ r[i] = q[i]
                              \/ i = Len(q) + 1 /\ r[i] = m
  BY AppendedAt
<1>2. Contents(q) \in Seq(Chunk) /\ Len(Contents(q)) = Len(q) /\ \A i \in 1..Len(q) : Contents(q)[i] = Content(q[i])
  BY ContentsType
<1>3. /\ x \in Seq(Chunk) /\ Len(x) = Len(q) + 1
      /\ \A i \in 1..Len(x) : \/ i \in 1..Len(q) /\ x[i] = Contents(q)[i]
                              \/ i = Len(q) + 1 /\ x[i] = Content(m)
  <2>1. Content(m) \in Chunk
    BY ContentType
  <2> QED BY <1>2, <2>1, AppendedAt
<1>4. Contents(r) \in Seq(Chunk) /\ Len(Contents(r)) = Len(r) /\ \A i \in 1..Len(r) : Contents(r)[i] = Content(r[i])
  BY <1>1, ContentsType
<1> HIDE DEF r, x
<1>5. ASSUME NEW i \in 1..Len(x) PROVE Contents(r)[i] = x[i]
  <2>1. i \in 1..Len(r) /\ i \in Nat
    BY <1>1, <1>3
  <2>2. CASE i \in 1..Len(q)
    <3>1. i # Len(q) + 1
      BY <1>1, <2>2
    <3> QED BY <1>1, <1>2, <1>3, <1>4, <1>5, <2>1, <2>2, <3>1
  <2>3. CASE i = Len(q) + 1
    <3>1. i \notin 1..Len(q)
      BY <1>1, <2>3
    <3> QED BY <1>1, <1>3, <1>4, <2>1, <2>3, <3>1
  <2> QED BY <1>1, <1>3, <2>2, <2>3
<1>6. Contents(r) = x
  BY <1>1, <1>3, <1>4, <1>5, SeqEqual
<1> QED BY <1>6 DEF r, x

LEMMA ContentsTail ==
  ASSUME NEW q \in Seq(Packet), q # <<>>
  PROVE  Contents(q) # <<>> /\ Head(Contents(q)) = Content(Head(q)) /\ Tail(Contents(q)) = Contents(Tail(q))
<1>1. /\ Tail(q) \in Seq(Packet) /\ Len(Tail(q)) = Len(q) - 1 /\ Len(q) \in Nat /\ Len(q) > 0
      /\ \A i \in 1..Len(Tail(q)) : i + 1 \in 1..Len(q) /\ Tail(q)[i] = q[i + 1]
  BY TailAt
<1>2. Contents(q) \in Seq(Chunk) /\ Len(Contents(q)) = Len(q) /\ \A i \in 1..Len(q) : Contents(q)[i] = Content(q[i])
  BY ContentsType
<1>3. /\ Contents(Tail(q)) \in Seq(Chunk) /\ Len(Contents(Tail(q))) = Len(Tail(q))
      /\ \A i \in 1..Len(Tail(q)) : Contents(Tail(q))[i] = Content(Tail(q)[i])
  BY <1>1, ContentsType
<1>4. Contents(q) # <<>>
  BY <1>1, <1>2, EmptySeq
<1>5. Head(Contents(q)) = Contents(q)[1] /\ Head(q) = q[1] /\ 1 \in 1..Len(q)
  BY <1>1, <1>2, <1>4, HeadTailProperties
<1> DEFINE x == Tail(Contents(q))
<1>6. x \in Seq(Chunk) /\ Len(x) = Len(q) - 1 /\ \A i \in 1..Len(x) : x[i] = Contents(q)[i + 1]
  BY <1>2, <1>4, TailAt
<1> HIDE DEF x
<1>7. x = Contents(Tail(q))
  <2>1. ASSUME NEW i \in 1..Len(x) PROVE x[i] = Contents(Tail(q))[i]
    BY <1>1, <1>2, <1>3, <1>6
  <2> QED BY <1>1, <1>3, <1>6, <2>1, SeqEqual
<1> QED BY <1>2, <1>4, <1>5, <1>7 DEF x

LEMMA HeldType ==
  ASSUME NEW x \in Part \cup {None}
  PROVE  Held(x) \in Chunk /\ (x = None => Held(x) = <<>>) /\ (x # None => Held(x) = <<x>> /\ x \in Part)
BY DEF Held, Chunk

\* Nothing can be sliced from an empty sequence but empty ones.
LEMMA CarriesEmpty ==
  ASSUME NEW q \in Seq(Chunk), Carries(<<>>, 0, q, 0), NEW i \in 1..Len(q)
  PROVE  q[i] = <<>>
<1>1. PICK off \in [0..Len(q) -> 0..0] : \A j \in 1..Len(q) : Slice(<<>>, off[j - 1], q[j], off[j])
  BY DEF Carries
<1>2. Len(q) \in Nat /\ q[i] \in Seq(Part) /\ Len(q[i]) \in Nat
  BY LenProperties, ElementOfSeq DEF Chunk
<1>3. i \in 0..Len(q) /\ i - 1 \in 0..Len(q)
  BY <1>2
<1>4. off[i] = 0 /\ off[i - 1] = 0
  BY <1>3
<1>5. Slice(<<>>, 0, q[i], 0)
  BY <1>1, <1>4
<1>6. Len(q[i]) = 0
  BY <1>2, <1>5 DEF Slice
<1> QED BY <1>2, <1>6, EmptySeq

-----------------------------------------------------------------------------
(***************************************************************************)
(* The stream of a session.                                                *)
(***************************************************************************)
StreamOK(s) == Unused(s) /\ Answered(s) /\ (sess[s].of \notin risk => Streams(s))

LEMMA StreamParts ==
  (StreamInv <=> \A s \in Sessions : StreamOK(s)) /\ (StreamInv' <=> \A s \in Sessions : StreamOK(s)')
BY DEF StreamInv, StreamOK

LEMMA RiskGrows ==
  ASSUME NEW P, AtRisk(P)
  PROVE  risk \subseteq risk'
BY DEF AtRisk

\* The client has what it had, the data is where it was unless the provider
\* has let go of the session.
LEMMA StreamKept ==
  ASSUME NEW s \in Sessions, StreamOK(s), risk \subseteq risk', sess'[s].of = sess[s].of,
         written'[s] = written[s], cl'[s].got = cl[s].got, toClient'[s] = toClient[s],
         cl'[s].pc = cl[s].pc \/ cl'[s].pc # "subscribing",
         Active(s)' => /\ Active(s) /\ (sess'[s].reply = sess[s].reply \/ sess'[s].reply # None)
                       /\ sess'[s].payload = sess[s].payload /\ sess'[s].chunk = sess[s].chunk
                       /\ sess'[s].queue = sess[s].queue /\ prov'[sess[s].of].chunks = prov[sess[s].of].chunks,
         sess[s].of = None /\ sess[s].queue = <<>> /\ sess[s].chunk = <<>> /\ sess[s].payload = None
            => sess'[s].queue = <<>> /\ sess'[s].chunk = <<>> /\ sess'[s].payload = None
  PROVE  StreamOK(s)'
<1>1. Unused(s)'
  BY DEF StreamOK, Unused
<1>2. Answered(s)'
  BY DEF StreamOK, Answered
<1>3. ASSUME Streams(s) PROVE Streams(s)'
  <2>1. PICK a \in 0..Len(written[s]), b \in 0..Len(written[s]) : Arrived(s, a, b) /\ (Active(s) => InFlight(s, b))
    BY <1>3 DEF Streams
  <2>2. Arrived(s, a, b)'
    BY <2>1 DEF Arrived
  <2>3. Active(s)' => InFlight(s, b)'
    <3> SUFFICES ASSUME Active(s)' PROVE InFlight(s, b)'
      OBVIOUS
    <3>1. InFlight(s, b)
      BY <2>1
    <3> QED BY <3>1 DEF InFlight
  <2>4. a \in 0..Len(written'[s]) /\ b \in 0..Len(written'[s])
    OBVIOUS
  <2> QED BY <2>2, <2>3, <2>4 DEF Streams
<1>4. sess'[s].of \notin risk' => sess[s].of \notin risk
  OBVIOUS
<1> QED BY <1>1, <1>2, <1>3, <1>4 DEF StreamOK

\* Steps that do not touch data, packets, clients, or who points to whom.
LEMMA StreamsSame ==
  ASSUME StreamInv, risk \subseteq risk', UNCHANGED <<sess, wires, written>>, KeepsChunks, BInv,
         \A p \in Providers : prov'[p].session = prov[p].session
  PROVE  StreamInv'
<1> SUFFICES ASSUME NEW s \in Sessions PROVE StreamOK(s)'
  BY StreamParts
<1>1. StreamOK(s) /\ sess[s].of \in Providers \cup {None}
  BY StreamParts, SessionFields DEF BInv
<1>2. CASE sess[s].of \in Providers
  <2>1. Active(s)' => Active(s) /\ prov'[sess[s].of].chunks = prov[sess[s].of].chunks
    BY <1>2 DEF Active, wires, KeepsChunks
  <2> QED BY <1>1, <2>1, StreamKept DEF wires
<1>3. CASE sess[s].of = None
  <2>1. ~Active(s)'
    BY <1>3 DEF Active
  <2> QED BY <1>1, <2>1, StreamKept DEF wires
<1> QED BY <1>1, <1>2, <1>3

\* One session is touched.
LEMMA StreamOthers ==
  ASSUME StreamInv, BInv, NEW s \in Sessions, StreamOK(s)', risk \subseteq risk', KeepsChunks,
         \A p \in Providers, t \in Sessions : t # s /\ prov'[p].session = t => prov[p].session = t,
         \A t \in Sessions : t # s => /\ link'[t] = link[t] /\ toClient'[t] = toClient[t] /\ cl'[t] = cl[t]
                                      /\ sess'[t] = sess[t] /\ written'[t] = written[t]
  PROVE  StreamInv'
<1> SUFFICES ASSUME NEW t \in Sessions, t # s PROVE StreamOK(t)'
  BY StreamParts
<1>1. StreamOK(t) /\ sess[t].of \in Providers \cup {None}
  BY StreamParts, SessionFields DEF BInv
<1>2. Active(t)' => Active(t) /\ prov'[sess[t].of].chunks = prov[sess[t].of].chunks
  <2> SUFFICES ASSUME Active(t)' PROVE Active(t) /\ prov'[sess[t].of].chunks = prov[sess[t].of].chunks
    OBVIOUS
  <2>1. sess[t].of \in Providers
    BY <1>1 DEF Active
  <2> QED BY <2>1 DEF Active, KeepsChunks
<1> QED BY <1>1, <1>2, StreamKept

\* A session without a provider has nothing on the way.
LEMMA NothingYet ==
  ASSUME BInv, NEW s \in Sessions, StreamOK(s), sess[s].of = None
  PROVE  /\ Arrived(s, 0, 0) /\ Len(written[s]) = 0 /\ cl[s].got = <<>>
         /\ \A i \in 1..Len(toClient[s]) : toClient[s][i].kind = "Response"
<1>1. /\ written[s] = <<>> /\ Streams(s) /\ toClient[s] \in Seq(Packet) /\ cl[s].got \in Seq(Part)
  BY SessionFields, ClientFields, EventAssumption DEF StreamOK, Unused, BInv, TInv, ServerTypes
<1>2. Len(written[s]) = 0 /\ 0..Len(written[s]) = {0}
  BY <1>1
<1>3. Arrived(s, 0, 0)
  BY <1>1, <1>2 DEF Streams
<1>4. cl[s].got = <<>>
  <2>1. Len(cl[s].got) \in Nat /\ 0 = 0 + Len(cl[s].got)
    BY <1>1, <1>3, LenProperties DEF Arrived, Slice
  <2> QED BY <1>1, <2>1, EmptySeq
<1>5. ASSUME NEW i \in 1..Len(toClient[s]) PROVE toClient[s][i].kind = "Response"
  <2>1. /\ Contents(toClient[s]) \in Seq(Chunk) /\ Len(Contents(toClient[s])) = Len(toClient[s])
        /\ Contents(toClient[s])[i] = Content(toClient[s][i]) /\ toClient[s][i] \in Packet
    BY <1>1, ContentsType
  <2>2. Carries(<<>>, 0, Contents(toClient[s]), 0)
    BY <1>1, <1>3 DEF Arrived
  <2>3. Content(toClient[s][i]) = <<>>
    BY <2>1, <2>2, CarriesEmpty
  <2>4. toClient[s][i].kind # "Data"
    <3>1. toClient[s][i].kind = "Data" => Content(toClient[s][i]) = <<toClient[s][i].part>>
      BY <2>1, ContentType
    <3>2. \A x : <<x>> # <<>>
      OBVIOUS
    <3> QED BY <2>3, <3>1, <3>2
  <2> QED BY <2>1, <2>4, ContentType
<1> QED BY <1>2, <1>3, <1>4, <1>5

\* The providers of sessions, by who points to whom.
LEMMA OfSession ==
  ASSUME BInv, PlaceInv, NEW s \in Sessions, NEW p \in Providers, prov[p].session = s
  PROVE  sess[s].of = p /\ s \in objs /\ s \notin pending /\ sess[s].of # None
<1>1. Points(p) /\ SessionPlace(s)
  BY PlaceParts
<1>2. sess[s].of = p /\ s \in objs /\ p # None /\ s # None
  BY <1>1, EventAssumption DEF Points
<1> QED BY <1>1, <1>2 DEF SessionPlace, Placed

\* Data moves from a provider to the queue of its session.
LEMMA StreamsFlushed ==
  ASSUME BInv, BInv', PlaceInv, StreamInv, KeepsProv, KeepsSess, NEW p \in Providers, Flushed(p), risk \subseteq risk',
         UNCHANGED <<objs, wires, written>>
  PROVE  StreamInv'
<1> SUFFICES ASSUME NEW s \in Sessions PROVE StreamOK(s)'
  BY StreamParts
<1>1. /\ StreamOK(s) /\ sess[s].of \in Providers \cup {None} /\ sess'[s].of = sess[s].of /\ sess'[s].reply = sess[s].reply
      /\ sess'[s].payload = sess[s].payload /\ sess'[s].chunk = sess[s].chunk
      /\ UNCHANGED <<link, toClient, cl, written>>
  BY StreamParts, SessionFields DEF BInv, KeepsSess, Flushed, wires
<1>2. CASE ~(prov[p].session = s /\ Active(s))
  <2>1. sess'[s].queue = sess[s].queue \/ (prov[p].session = s /\ sess[s].of = p)
    BY OfSession DEF Flushed
  <2>2. sess[s].of = None => prov[p].session # s
    BY OfSession
  <2>3. ASSUME Active(s)' PROVE Active(s) /\ sess'[s].queue = sess[s].queue /\ prov'[sess[s].of].chunks = prov[sess[s].of].chunks
    <3>1. sess[s].of \in Providers /\ Active(s)
      BY <1>1, <2>3 DEF Active, KeepsProv
    <3>2. sess[s].of # p
      BY <1>2, <3>1 DEF Active
    <3> QED BY <1>2, <2>1, <3>1, <3>2 DEF Flushed
  <2>4. sess[s].of = None => sess'[s].queue = sess[s].queue
    BY <2>1, <2>2
  <2> QED BY <1>1, <2>3, <2>4, StreamKept
<1>3. CASE prov[p].session = s /\ Active(s)
  <2>1. sess[s].of = p /\ s \in objs /\ p # None
    BY <1>3, OfSession
  <2> DEFINE w == written[s]
             q == sess[s].queue
             r == prov[p].chunks
  <2>2. sess'[s].queue = q \o Filled(r) /\ prov'[p].chunks = <<>>
    BY <1>3, <2>1 DEF Flushed
  <2>3. w \in Seq(Part) /\ Len(w) \in Nat /\ q \in Seq(Chunk) /\ r \in Seq(Chunk) /\ Filling(r) /\ Filled(r) \in Seq(Chunk)
    BY SessionFields, ProviderFields, LenProperties, FilledProperties DEF BInv, ChunkInv
  <2>4. Unused(s)' /\ Answered(s)'
    <3>1. Active(s)' => Active(s)
      BY <1>3
    <3> QED BY <1>1, <2>1, <3>1 DEF StreamOK, Unused, Answered
  <2>5. ASSUME sess[s].of \notin risk PROVE Streams(s)'
    <3>1. PICK a \in 0..Len(w), b \in 0..Len(w) : Arrived(s, a, b) /\ InFlight(s, b)
      BY <1>1, <1>3, <2>5 DEF StreamOK, Streams
    <3>2. PICK c \in 0..Len(w), d \in 0..Len(w), e \in 0..Len(w) :
            /\ Slice(w, b, Held(sess[s].payload), c) /\ Slice(w, c, sess[s].chunk, d)
            /\ Carries(w, d, q, e) /\ Carries(w, e, r, Len(w))
      BY <2>1, <3>1 DEF InFlight
    <3> HIDE DEF w, q, r
    <3>3. Carries(w, e, Filled(r), Len(w))
      BY <2>3, <3>2, CarriesFilled
    <3>4. Carries(w, d, q \o Filled(r), Len(w)) /\ Carries(w, Len(w), <<>>, Len(w))
      BY <2>3, <3>2, <3>3, CarriesConcat, CarriesNothing
    <3>5. Len(w) \in 0..Len(w)
      BY <2>3
    <3>6. InFlight(s, b)'
      BY <1>1, <2>1, <2>2, <3>2, <3>4, <3>5 DEF InFlight, w
    <3>7. Arrived(s, a, b)'
      BY <1>1, <3>1 DEF Arrived
    <3> QED BY <1>1, <3>1, <3>6, <3>7 DEF Streams, w
  <2> QED BY <1>1, <2>4, <2>5 DEF StreamOK
<1> QED BY <1>2, <1>3

\* An event is written.
LEMMA StreamsWritten ==
  ASSUME BInv, PlaceInv, StreamInv, NEW w \in Writers, NEW n \in Sizes, WriteEvent(w, n)
  PROVE  StreamInv'
<1> DEFINE p == writer[w].p
           parts == Parts(p, n)
<1>1. /\ BInv' /\ p \in Providers /\ KeepsProv
      /\ \A q \in Providers : q # p => prov'[q].chunks = prov[q].chunks
      /\ \A t \in Sessions : t # prov[p].session => written'[t] = written[t]
      /\ \/ prov'[p].chunks = prov[p].chunks /\ (prov[p].session \in Sessions => written'[prov[p].session] = written[prov[p].session])
         \/ /\ prov'[p].chunks = Chunks(p, parts)
            /\ prov[p].session \in Sessions => written'[prov[p].session] = written[prov[p].session] \o parts
      /\ UNCHANGED <<sess, wires, risk>>
  BY WriteEventEffect
<1>2. parts \in Seq(Part) /\ Len(parts) > 0
  BY <1>1, PartsType
<1> HIDE DEF p, parts
<1> SUFFICES ASSUME NEW s \in Sessions PROVE StreamOK(s)'
  BY StreamParts
<1>3. /\ StreamOK(s) /\ sess[s].of \in Providers \cup {None} /\ UNCHANGED <<link, toClient, cl, sess>>
  BY <1>1, StreamParts, SessionFields DEF BInv, wires
<1>4. Active(s)' => Active(s) /\ sess[s].of \in Providers
  BY <1>1, <1>3 DEF Active, KeepsProv
<1>5. CASE s # prov[p].session
  <2>1. Active(s)' => prov'[sess[s].of].chunks = prov[sess[s].of].chunks
    BY <1>1, <1>4, <1>5 DEF Active
  <2> QED BY <1>1, <1>3, <1>4, <1>5, <2>1, StreamKept
<1>6. CASE s = prov[p].session /\ prov'[p].chunks = prov[p].chunks /\ written'[s] = written[s]
  <2>1. Active(s)' => prov'[sess[s].of].chunks = prov[sess[s].of].chunks
    BY <1>1, <1>4, <1>6
  <2> QED BY <1>1, <1>3, <1>4, <1>6, <2>1, StreamKept
<1>7. CASE s = prov[p].session /\ prov'[p].chunks = Chunks(p, parts) /\ written'[s] = written[s] \o parts
  <2>1. sess[s].of = p /\ sess[s].of # None
    BY <1>1, <1>7, OfSession
  <2> DEFINE v == written[s]
             y == v \o parts
  <2>2. /\ v \in Seq(Part) /\ Len(v) \in Nat /\ y \in Seq(Part) /\ Len(y) \in Nat /\ Len(v) <= Len(y)
        /\ toClient[s] \in Seq(Packet) /\ cl[s].got \in Seq(Part) /\ Contents(toClient[s]) \in Seq(Chunk)
        /\ sess[s].queue \in Seq(Chunk) /\ sess[s].chunk \in Chunk /\ Held(sess[s].payload) \in Chunk
        /\ prov[p].chunks \in Seq(Chunk) /\ Filling(prov[p].chunks)
    <3>1. v \in Seq(Part) /\ Len(v) \in Nat /\ y \in Seq(Part) /\ Len(y) = Len(v) + Len(parts) /\ Len(parts) \in Nat
      BY <1>2, SessionFields, LenProperties, ConcatProperties DEF BInv
    <3>2. /\ toClient[s] \in Seq(Packet) /\ cl[s].got \in Seq(Part) /\ Contents(toClient[s]) \in Seq(Chunk)
          /\ sess[s].queue \in Seq(Chunk) /\ sess[s].chunk \in Chunk /\ Held(sess[s].payload) \in Chunk
      BY SessionFields, ClientFields, ContentsType, HeldType DEF BInv
    <3>3. prov[p].chunks \in Seq(Chunk) /\ Filling(prov[p].chunks)
      BY <1>1, ProviderFields DEF BInv, ChunkInv
    <3> HIDE DEF v, y
    <3>4. Len(y) \in Nat /\ Len(v) <= Len(y)
      BY <3>1
    <3> QED BY <3>1, <3>2, <3>3, <3>4
  <2>3. Unused(s)' /\ Answered(s)'
    BY <1>3, <1>4, <2>1 DEF StreamOK, Unused, Answered
  <2>4. ASSUME sess[s].of \notin risk PROVE Streams(s)'
    <3>1. PICK a \in 0..Len(v), b \in 0..Len(v) : Arrived(s, a, b) /\ (Active(s) => InFlight(s, b))
      BY <1>3, <2>4 DEF StreamOK, Streams
    <3>a. written'[s] = y
      BY <1>7
    <3>2. Slice(v, 0, cl[s].got, a) /\ Carries(v, a, Contents(toClient[s]), b)
      BY <3>1 DEF Arrived
    <3>b. Active(s) => InFlight(s, b)
      BY <3>1
    <3>c. \E c, d, e \in 0..Len(v) :
              Active(s) => /\ Slice(v, b, Held(sess[s].payload), c) /\ Slice(v, c, sess[s].chunk, d)
                           /\ Carries(v, d, sess[s].queue, e) /\ Carries(v, e, prov[p].chunks, Len(v))
      BY <2>1, <3>b DEF InFlight
    <3> HIDE DEF v
    <3>d. \A x \in 0..Len(v) : x \in 0..Len(y) /\ x \in Nat
      BY <2>2
    <3>3. Slice(y, 0, cl[s].got, a) /\ Carries(y, a, Contents(toClient[s]), b)
      <4>1. Slice(y, 0, cl[s].got, a)
        BY <1>2, <2>2, <3>2, <3>d, SliceLonger
      <4>2. Carries(y, a, Contents(toClient[s]), b)
        BY <1>2, <2>2, <3>2, <3>d, CarriesLonger DEF Chunk
      <4> QED BY <4>1, <4>2
    <3>4. Arrived(s, a, b)'
      BY <1>3, <3>3, <3>a DEF Arrived
    <3>5. ASSUME Active(s) PROVE InFlight(s, b)'
      <4>1. PICK c \in 0..Len(v), d \in 0..Len(v), e \in 0..Len(v) :
              /\ Slice(v, b, Held(sess[s].payload), c) /\ Slice(v, c, sess[s].chunk, d)
              /\ Carries(v, d, sess[s].queue, e) /\ Carries(v, e, prov[p].chunks, Len(v))
        BY <3>c, <3>5
      <4>2. Slice(y, b, Held(sess[s].payload), c) /\ Slice(y, c, sess[s].chunk, d)
        BY <1>2, <2>2, <3>d, <4>1, SliceLonger DEF Chunk
      <4>3. Carries(y, d, sess[s].queue, e)
        BY <1>2, <2>2, <3>d, <4>1, CarriesLonger DEF Chunk
      <4>4. Carries(y, e, prov'[p].chunks, Len(y))
        BY <1>1, <1>2, <1>7, <2>2, <3>d, <4>1, ChunksProperties
      <4> HIDE DEF y
      <4> QED BY <1>3, <2>1, <3>a, <3>d, <4>1, <4>2, <4>3, <4>4 DEF InFlight
    <3> HIDE DEF y
    <3>6. a \in 0..Len(y) /\ b \in 0..Len(y)
      BY <3>d
    <3> QED BY <1>4, <3>4, <3>5, <3>6, <3>a DEF Streams
  <2> QED BY <1>1, <1>3, <2>3, <2>4 DEF StreamOK
<1> QED BY <1>1, <1>5, <1>6, <1>7

\* A packet is put into the window.
LEMMA ArrivedAppend ==
  ASSUME BInv, NEW s \in Sessions, NEW m \in Packet, NEW a \in 0..Len(written[s]), NEW b \in 0..Len(written[s]),
         Arrived(s, a, b), NEW c \in 0..Len(written[s]), Slice(written[s], b, Content(m), c),
         toClient'[s] = Append(toClient[s], m), UNCHANGED <<cl, written>>
  PROVE  Arrived(s, a, c)'
<1>1. /\ toClient[s] \in Seq(Packet) /\ Contents(toClient[s]) \in Seq(Chunk) /\ Content(m) \in Chunk /\ Len(written[s]) \in Nat
  BY ClientFields, SessionFields, LenProperties, ContentsType, ContentType DEF BInv
<1>2. Contents(toClient'[s]) = Append(Contents(toClient[s]), Content(m))
  BY <1>1, ContentsAppend
<1>3. Carries(written[s], a, Contents(toClient[s]), b) /\ a \in Nat /\ b \in Nat /\ c \in Nat
  BY <1>1 DEF Arrived
<1>4. Carries(written[s], a, Append(Contents(toClient[s]), Content(m)), c)
  BY <1>1, <1>3, CarriesAppend DEF Chunk
<1> QED BY <1>2, <1>4 DEF Arrived

\* A response is put into the window, and may be taken from the session.
LEMMA StreamResponse ==
  ASSUME BInv, NEW s \in Sessions, StreamOK(s), NEW m \in Packet, m.kind = "Response",
         toClient'[s] = Append(toClient[s], m), sess'[s].of = sess[s].of,
         sess'[s].queue = sess[s].queue, sess'[s].chunk = sess[s].chunk, sess'[s].payload = sess[s].payload,
         UNCHANGED <<prov, link, cl, written, risk>>
  PROVE  StreamOK(s)'
<1>1. /\ toClient[s] \in Seq(Packet) /\ Content(m) = <<>> /\ written[s] \in Seq(Part) /\ Len(written[s]) \in Nat
  BY ClientFields, SessionFields, LenProperties, ContentType DEF BInv
<1>2. Unused(s)' /\ (Active(s)' <=> Active(s))
  BY DEF StreamOK, Unused, Active
<1>3. toClient'[s] # <<>> /\ (toClient[s] = <<>> => toClient'[s][1] = m) /\ (toClient[s] # <<>> => toClient'[s][1] = toClient[s][1])
  BY <1>1
<1>4. Answered(s)'
  BY <1>3 DEF StreamOK, Answered
<1>5. ASSUME Streams(s) PROVE Streams(s)'
  <2>1. PICK a \in 0..Len(written[s]), b \in 0..Len(written[s]) : Arrived(s, a, b) /\ (Active(s) => InFlight(s, b))
    BY <1>5 DEF Streams
  <2>2. Slice(written[s], b, Content(m), b)
    BY <1>1, <2>1, SliceNothing
  <2>3. Arrived(s, a, b)'
    BY <2>1, <2>2, ArrivedAppend
  <2>4. InFlight(s, b) => InFlight(s, b)'
    BY DEF InFlight
  <2> QED BY <1>2, <2>1, <2>3, <2>4 DEF Streams
<1> QED BY <1>2, <1>4, <1>5 DEF StreamOK

LEMMA StreamsResponse ==
  ASSUME BInv, StreamInv, NEW s \in Sessions, SendReply(s) \/ TellUnavailable(s)
  PROVE  StreamInv'
<1>1. /\ \E m \in Packet : m.kind = "Response" /\ toClient'[s] = Append(toClient[s], m)
      /\ sess'[s].of = sess[s].of /\ sess'[s].queue = sess[s].queue /\ sess'[s].chunk = sess[s].chunk
      /\ sess'[s].payload = sess[s].payload
      /\ \A t \in Sessions : t # s => toClient'[t] = toClient[t] /\ sess'[t] = sess[t]
      /\ UNCHANGED <<prov, link, cl, written, risk>>
  <2>1. CASE SendReply(s)
    <3>1. /\ KeepsData /\ sess[s].reply \in Reply /\ toClient'[s] = Append(toClient[s], sess[s].reply)
          /\ \A t \in Sessions : sess'[t].of = sess[t].of
          /\ \A t \in Sessions : t # s => toClient'[t] = toClient[t]
          /\ UNCHANGED <<prov, link, cl, written, risk>>
      BY <2>1, SendReplyEffect
    <3>2. sess \in [Sessions -> SessionType] /\ sess' = [sess EXCEPT ![s].reply = None]
      BY <2>1 DEF SendReply, BInv, TInv, ServerTypes
    <3>3. \A t \in Sessions : t # s => sess'[t] = sess[t]
      BY <3>2
    <3>4. sess[s].reply \in Packet /\ sess[s].reply.kind = "Response"
      BY <3>1, Responses
    <3> QED BY <3>1, <3>3, <3>4 DEF KeepsData
  <2>2. CASE TellUnavailable(s)
    <3>1. Response("Unavailable") \in Packet /\ Response("Unavailable").kind = "Response"
      BY Responses
    <3> QED BY <2>2, <3>1, TellEffect
  <2> QED BY <2>1, <2>2
<1>2. StreamOK(s)'
  BY <1>1, StreamParts, StreamResponse
<1> QED BY <1>1, <1>2, StreamOthers DEF KeepsChunks

\* A session that sends data has a provider.
LEMMA SendsActive ==
  ASSUME BInv, PlaceInv, NEW s \in Sessions, Unused(s), SendEventData(s)
  PROVE  Active(s)
<1>1. s \in pending \/ \E p \in Providers : prov[p].reg /\ prov[p].session = s
  BY SendDataEffect
<1>2. link[s] \in {"up", "leaving"}
  BY DEF SendEventData, Updates
<1>3. CASE s \in pending
  <2>1. sess[s].of = None
    BY <1>3, PlaceParts DEF SessionPlace, Placed
  <2>2. sess[s].queue = <<>> /\ sess[s].chunk = <<>> /\ sess[s].payload = None
    BY <2>1 DEF Unused
  <2>3. SentHeld(s) \/ \E chunk : SentNext(s, chunk)
    BY SendDataEffect
  <2> QED BY <2>2, <2>3 DEF SentHeld, SentNext
<1>4. ASSUME NEW p \in Providers, prov[p].session = s PROVE Active(s)
  BY <1>2, <1>4, OfSession DEF Active
<1> QED BY <1>1, <1>3, <1>4

LEMMA StreamsSent ==
  ASSUME BInv, PlaceInv, StreamInv, NEW s \in Sessions, SendEventData(s)
  PROVE  StreamInv'
<1> DEFINE w == written[s]
           p == sess[s].of
<1>1. /\ BInv' /\ KeepsSess /\ sess[s].reply = None
      /\ SentHeld(s) \/ \E chunk : SentNext(s, chunk)
      /\ \A t \in Sessions : t # s => sess'[t] = sess[t] /\ toClient'[t] = toClient[t]
      /\ UNCHANGED <<prov, pending, objs, op, link, toServer, cl, written, fault, risk>>
  BY SendDataEffect
<1>2. StreamOK(s) /\ Unused(s) /\ Answered(s)
  BY StreamParts DEF StreamOK
<1>3. Active(s) /\ p # None /\ sess'[s].of = p
  BY <1>1, <1>2, SendsActive DEF Active, KeepsSess
<1>4. Unused(s)' /\ (Active(s)' <=> Active(s))
  BY <1>1, <1>3 DEF Unused, Active
<1>5. /\ toClient[s] \in Seq(Packet) /\ w \in Seq(Part) /\ Len(w) \in Nat /\ sess[s].queue \in Seq(Chunk)
      /\ sess[s].chunk \in Chunk /\ sess[s].payload \in Part \cup {None}
  BY ClientFields, SessionFields, LenProperties DEF BInv
<1>6. ASSUME NEW chunk, SentNext(s, chunk) PROVE Head(chunk) \in Part /\ Tail(chunk) \in Chunk /\ chunk \in Seq(Part) /\ chunk # <<>>
  BY <1>6, HeadTailProperties DEF SentNext, Chunk
<1>7. toClient'[s] = toClient[s] \/ \E x \in Part : toClient'[s] = Append(toClient[s], Data(x))
  BY <1>1, <1>5, <1>6 DEF SentHeld, SentNext
<1>8. Answered(s)'
  <2> SUFFICES ASSUME cl[s].pc = "subscribing"
               PROVE  toClient'[s] # <<>> /\ toClient'[s][1].kind = "Response"
    BY <1>1 DEF Answered
  <2>1. toClient[s] # <<>> /\ toClient[s][1].kind = "Response"
    BY <1>1, <1>2, <1>3 DEF Answered
  <2>2. ASSUME NEW x \in Part, toClient'[s] = Append(toClient[s], Data(x)) PROVE toClient'[s] # <<>> /\ toClient'[s][1] = toClient[s][1]
    <3>1. Len(toClient[s]) \in Nat /\ Len(toClient[s]) > 0 /\ Data(x) \in Packet
      BY <1>5, <2>1, TailAt, DataType
    <3>2. /\ Append(toClient[s], Data(x)) \in Seq(Packet) /\ Len(Append(toClient[s], Data(x))) = Len(toClient[s]) + 1
          /\ \A i \in 1..Len(toClient[s]) : Append(toClient[s], Data(x))[i] = toClient[s][i]
      BY <1>5, <3>1, AppendProperties
    <3>3. 1 \in 1..Len(toClient[s]) /\ Len(toClient'[s]) # 0
      BY <2>2, <3>1, <3>2
    <3> QED BY <2>2, <3>2, <3>3
  <2> QED BY <1>7, <2>1, <2>2
<1>9. ASSUME p \notin risk PROVE Streams(s)'
  <2>1. PICK a \in 0..Len(w), b \in 0..Len(w) : Arrived(s, a, b) /\ InFlight(s, b)
    BY <1>2, <1>3, <1>9 DEF StreamOK, Streams
  <2>2. PICK c \in 0..Len(w), d \in 0..Len(w), e \in 0..Len(w) :
          /\ Slice(w, b, Held(sess[s].payload), c) /\ Slice(w, c, sess[s].chunk, d)
          /\ Carries(w, d, sess[s].queue, e) /\ Carries(w, e, prov[p].chunks, Len(w))
    BY <2>1 DEF InFlight
  <2>3. ASSUME NEW x \in Part, NEW b1 \in 0..Len(w), toClient'[s] = Append(toClient[s], Data(x)), Slice(w, b, <<x>>, b1)
        PROVE  Arrived(s, a, b1)'
    <3>1. Data(x) \in Packet /\ Content(Data(x)) = <<x>>
      BY DataType, ContentType
    <3> QED BY <1>1, <2>1, <2>3, <3>1, ArrivedAppend
  <2>4. ASSUME NEW b1 \in 0..Len(w), Arrived(s, a, b1)', NEW c1 \in 0..Len(w), NEW d1 \in 0..Len(w), NEW e1 \in 0..Len(w),
               Slice(w, b1, Held(sess'[s].payload), c1), Slice(w, c1, sess'[s].chunk, d1),
               Carries(w, d1, sess'[s].queue, e1), Carries(w, e1, prov[p].chunks, Len(w))
        PROVE  Streams(s)'
    <3>1. InFlight(s, b1)'
      BY <1>1, <1>3, <2>4 DEF InFlight
    <3> QED BY <1>1, <2>1, <2>4, <3>1 DEF Streams
  <2> HIDE DEF w, p
  <2>5. CASE SentHeld(s)
    <3>1. /\ sess[s].payload \in Part /\ Held(sess[s].payload) = <<sess[s].payload>> /\ Held(sess'[s].payload) = <<>>
          /\ sess'[s].chunk = sess[s].chunk /\ sess'[s].queue = sess[s].queue
          /\ toClient'[s] = Append(toClient[s], Data(sess[s].payload))
      BY <1>5, <2>5 DEF SentHeld, Held
    <3>2. Arrived(s, a, c)'
      BY <2>2, <2>3, <3>1
    <3>3. Slice(w, c, <<>>, c)
      BY <1>5, <2>2, SliceNothing
    <3> QED BY <2>2, <2>4, <3>1, <3>2, <3>3
  <2>6. ASSUME NEW chunk, SentNext(s, chunk) PROVE Streams(s)'
    <3>1. sess[s].payload = None /\ sess'[s].chunk = Tail(chunk) /\ Held(sess[s].payload) = <<>> /\ chunk \in Seq(Part) /\ chunk # <<>>
      BY <1>6, <2>6 DEF SentNext, Held
    <3>2. b = c
      BY <1>5, <2>2, <3>1 DEF Slice
    <3>3. PICK d1 \in 0..Len(w) : Slice(w, c, chunk, d1) /\ Carries(w, d1, sess'[s].queue, e)
      <4>1. CASE chunk = sess[s].chunk /\ sess'[s].queue = sess[s].queue
        BY <2>2, <4>1
      <4>2. CASE /\ sess[s].chunk = <<>> /\ sess[s].queue # <<>> /\ chunk = Head(sess[s].queue)
                 /\ sess'[s].queue = Tail(sess[s].queue)
        <5>1. c = d
          BY <1>5, <2>2, <4>2 DEF Slice
        <5>2. d \in Nat /\ e \in Nat
          BY <1>5
        <5>3. PICK m \in d..e : Slice(w, d, Head(sess[s].queue), m) /\ Carries(w, m, Tail(sess[s].queue), e)
          BY <1>5, <2>2, <4>2, <5>2, CarriesTail DEF Chunk
        <5>4. m \in 0..Len(w)
          BY <1>5, <5>2, <5>3
        <5> QED BY <4>2, <5>1, <5>3, <5>4
      <4> QED BY <2>6, <4>1, <4>2 DEF SentNext
    <3>4. Slice(w, c, <<Head(chunk)>>, c + 1) /\ Slice(w, c + 1, Tail(chunk), d1) /\ c + 1 <= d1
      <4>1. c \in Nat /\ d1 \in Nat
        BY <1>5
      <4> QED BY <1>5, <3>1, <3>3, <4>1, SliceCut
    <3>5. c + 1 \in 0..Len(w) /\ Head(chunk) \in Part /\ Head(chunk) # None
      BY <1>5, <1>6, <2>6, <3>4, DataType
    <3>6. CASE sess'[s].payload = None /\ toClient'[s] = Append(toClient[s], Data(Head(chunk)))
      <4>1. Arrived(s, a, c + 1)'
        BY <2>3, <3>2, <3>4, <3>5, <3>6
      <4>2. Slice(w, c + 1, Held(sess'[s].payload), c + 1)
        BY <1>5, <3>5, <3>6, SliceNothing DEF Held
      <4> QED BY <2>2, <2>4, <3>1, <3>3, <3>4, <3>5, <4>1, <4>2
    <3>7. CASE sess'[s].payload = Head(chunk) /\ toClient'[s] = toClient[s]
      <4>1. Arrived(s, a, b)'
        BY <1>1, <2>1, <3>7 DEF Arrived
      <4>2. Slice(w, b, Held(sess'[s].payload), c + 1)
        BY <3>2, <3>4, <3>5, <3>7 DEF Held
      <4> QED BY <2>2, <2>4, <3>1, <3>3, <3>4, <3>5, <4>1, <4>2
    <3> QED BY <2>6, <3>6, <3>7 DEF SentNext
  <2> QED BY <1>1, <2>5, <2>6
<1>10. StreamOK(s)'
  BY <1>1, <1>3, <1>4, <1>8, <1>9 DEF StreamOK
<1> QED BY <1>1, <1>10, StreamOthers DEF KeepsChunks

\* The client takes a packet: data behind what it has, or an answer.
LEMMA StreamsRead ==
  ASSUME BInv, StreamInv, NEW s \in Sessions, Read(s)
  PROVE  StreamInv'
<1> DEFINE m == Head(toClient[s])
           w == written[s]
<1>1. /\ toClient[s] # <<>> /\ m \in Packet /\ m = toClient[s][1]
      /\ toClient'[s] = Tail(toClient[s])
      /\ \/ /\ cl[s].pc = "subscribing" /\ cl'[s].got = cl[s].got /\ cl'[s].pc # "subscribing"
         \/ /\ cl[s].pc # "subscribing" /\ m.kind = "Data" /\ m.part \in Part
            /\ cl'[s].got = Append(cl[s].got, m.part) /\ cl'[s].pc # "subscribing"
         \/ /\ cl[s].pc # "subscribing" /\ m.kind = "Response" /\ cl'[s].got = cl[s].got
            /\ cl'[s].pc # "subscribing"
      /\ \A t \in Sessions : t # s => cl'[t] = cl[t] /\ toClient'[t] = toClient[t]
      /\ UNCHANGED <<prov, pending, objs, sess, op, link, written, fault, risk>>
  BY ReadEffect
<1>2. StreamOK(s)
  BY StreamParts
<1>3. \/ m.kind = "Response" /\ cl'[s].got = cl[s].got
      \/ m.kind = "Data" /\ cl'[s].got = Append(cl[s].got, m.part)
  BY <1>1, <1>2 DEF StreamOK, Answered
<1>4. /\ toClient[s] \in Seq(Packet) /\ w \in Seq(Part) /\ Len(w) \in Nat /\ cl[s].got \in Seq(Part)
      /\ Contents(toClient[s]) \in Seq(Chunk)
  BY ClientFields, SessionFields, LenProperties, ContentsType DEF BInv
<1>5. Unused(s)' /\ Answered(s)' /\ (Active(s)' <=> Active(s))
  BY <1>1, <1>2 DEF StreamOK, Unused, Answered, Active
<1>6. ASSUME Streams(s) PROVE Streams(s)'
  <2>1. PICK a \in 0..Len(w), b \in 0..Len(w) : Arrived(s, a, b) /\ (Active(s) => InFlight(s, b))
    BY <1>6 DEF Streams
  <2>2. Slice(w, 0, cl[s].got, a) /\ Carries(w, a, Contents(toClient[s]), b) /\ a \in Nat /\ b \in Nat
    BY <1>4, <2>1 DEF Arrived
  <2>3. /\ Contents(toClient[s]) # <<>> /\ Head(Contents(toClient[s])) = Content(m)
        /\ Tail(Contents(toClient[s])) = Contents(toClient'[s])
    BY <1>1, <1>4, ContentsTail
  <2> HIDE DEF m, w
  <2>4. PICK c \in a..b : Slice(w, a, Content(m), c) /\ Carries(w, c, Contents(toClient'[s]), b)
    BY <1>4, <2>2, <2>3, CarriesTail DEF Chunk
  <2>5. c \in 0..Len(w) /\ c \in Nat
    BY <1>4, <2>1, <2>2, <2>4
  <2>6. Slice(w, 0, cl'[s].got, c)
    <3>1. CASE m.kind = "Response" /\ cl'[s].got = cl[s].got
      <4>1. Content(m) = <<>>
        BY <1>1, <3>1, ContentType
      <4>2. c = a
        BY <2>2, <2>4, <4>1 DEF Slice
      <4> QED BY <2>2, <3>1, <4>2
    <3>2. CASE m.kind = "Data" /\ cl'[s].got = Append(cl[s].got, m.part)
      <4>1. Content(m) = <<m.part>> /\ m.part \in Part /\ <<m.part>> \in Seq(Part)
        BY <1>1, <3>2, ContentType
      <4>2. Append(cl[s].got, m.part) = cl[s].got \o <<m.part>>
        BY <1>4, <4>1, AppendJoins
      <4>3. Slice(w, 0, cl[s].got \o <<m.part>>, c)
        BY <1>4, <2>2, <2>4, <2>5, <4>1, SliceConcat
      <4> QED BY <3>2, <4>2, <4>3
    <3> QED BY <1>3, <3>1, <3>2
  <2>7. Arrived(s, c, b)'
    BY <1>1, <2>4, <2>6 DEF Arrived, w
  <2>8. InFlight(s, b) => InFlight(s, b)'
    BY <1>1 DEF InFlight
  <2> QED BY <1>1, <1>5, <2>1, <2>5, <2>7, <2>8 DEF Streams, w
<1>7. StreamOK(s)'
  BY <1>1, <1>2, <1>5, <1>6 DEF StreamOK
<1> QED BY <1>1, <1>7, StreamOthers DEF KeepsChunks

\* Nothing is left of what an earlier subscriber was sent: the provider has
\* no chunks.
LEMMA StreamsSubscribe ==
  ASSUME BInv, PlaceInv, WriterInv, StreamInv, NEW s \in Sessions, HandleSubscribe(s)
  PROVE  StreamInv'
<1> DEFINE p == Head(toServer[s]).p
<1>1. /\ BInv' /\ p \in Providers /\ KeepsData /\ KeepsChunks /\ \A t \in Sessions : t # s => sess'[t] = sess[t]
      /\ \A q \in Providers : q # p => prov'[q] = prov[q]
      /\ \/ /\ prov[p].reg /\ prov[p].session = None /\ prov'[p].session = s
            /\ sess'[s].of = p /\ sess'[s].reply = Response("Success")
         \/ /\ UNCHANGED prov
            /\ sess'[s].of = sess[s].of /\ sess'[s].reply = Response("Unavailable")
      /\ UNCHANGED <<objs, op, link, toClient, cl, written, risk>>
  BY HandleSubscribeEffect
<1>2. Receives(s, "Subscribe") /\ UNCHANGED <<link, toClient, cl>>
  BY HandleSubscribeEffect
<1>3. 1 \in 1..Len(toServer[s]) /\ Asks(s, 1)
  BY <1>2, ReceiveEffect DEF Asks
<1> HIDE DEF p
<1>4. sess[s].of = None /\ StreamOK(s)
  BY <1>3, PlaceParts, StreamParts DEF SessionPlace, OneSubscription
<1>5. /\ sess[s].queue = <<>> /\ sess[s].chunk = <<>> /\ sess[s].payload = None /\ written[s] = <<>>
      /\ sess'[s].queue = <<>> /\ sess'[s].chunk = <<>> /\ sess'[s].payload = None
  BY <1>1, <1>4 DEF StreamOK, Unused, KeepsData
<1>6. sess'[s].reply # None
  BY <1>1, EventAssumption
<1>7. CASE UNCHANGED prov /\ sess'[s].of = sess[s].of
  <2>1. ~Active(s)'
    BY <1>4, <1>7 DEF Active
  <2>2. StreamOK(s)'
    BY <1>1, <1>4, <1>5, <1>7, <2>1, StreamKept
  <2> QED BY <1>1, <1>7, <2>2, StreamOthers
<1>8. CASE prov[p].reg /\ prov[p].session = None /\ prov'[p].session = s /\ sess'[s].of = p
  <2>1. Unused(s)' /\ Answered(s)'
    <3>1. p # None
      BY <1>1, EventAssumption
    <3> QED BY <1>1, <1>4, <1>6, <1>8, <3>1 DEF StreamOK, Unused, Answered
  <2>2. ASSUME p \notin risk PROVE Streams(s)'
    <3>1. Arrived(s, 0, 0) /\ Len(written[s]) = 0
      BY <1>4, NothingYet
    <3>2. prov[p].chunks = <<>>
      BY <1>1, <1>8, <2>2, WriterParts DEF WriterOK, Open
    <3>3. Arrived(s, 0, 0)'
      BY <1>1, <3>1 DEF Arrived
    <3>4. prov'[p].chunks = <<>> /\ Held(sess'[s].payload) = <<>> /\ Len(written'[s]) = 0
      BY <1>1, <1>5, <3>1, <3>2 DEF KeepsChunks, Held
    <3>5. Slice(written'[s], 0, <<>>, 0) /\ Carries(written'[s], 0, <<>>, 0) /\ 0 \in 0..Len(written'[s])
      BY <3>4, SliceNothing, CarriesNothing
    <3>6. InFlight(s, 0)'
      BY <1>5, <1>8, <3>4, <3>5 DEF InFlight
    <3> QED BY <3>3, <3>5, <3>6 DEF Streams
  <2>3. StreamOK(s)'
    BY <1>1, <1>8, <2>1, <2>2 DEF StreamOK
  <2>4. \A q \in Providers, t \in Sessions : t # s /\ prov'[q].session = t => prov[q].session = t
    BY <1>1, <1>8
  <2> QED BY <1>1, <2>3, <2>4, StreamOthers
<1> QED BY <1>1, <1>7, <1>8

LEMMA StreamsApply ==
  ASSUME BInv, StreamInv, NEW s \in Sessions, HandleApply(s)
  PROVE  StreamInv'
<1> DEFINE p == Head(toServer[s]).p
<1>1. /\ BInv' /\ KeepsData /\ KeepsChunks /\ sess'[s].reply \in Reply
      /\ \A t \in Sessions : sess'[t].of = sess[t].of /\ (t # s => sess'[t] = sess[t])
      /\ \A q \in Providers : prov'[q].session = prov[q].session
      /\ risk \subseteq risk'
      /\ UNCHANGED <<link, toClient, cl, written>>
  BY HandleApplyEffect
<1>2. StreamOK(s) /\ sess[s].of \in Providers \cup {None} /\ sess'[s].reply # None
  BY <1>1, StreamParts, SessionFields, Responses DEF BInv
<1>3. ASSUME Active(s)' PROVE Active(s) /\ prov'[sess[s].of].chunks = prov[sess[s].of].chunks
  <2>1. sess[s].of \in Providers
    BY <1>1, <1>2, <1>3 DEF Active
  <2> QED BY <1>1, <1>3, <2>1 DEF Active, KeepsChunks
<1>4. StreamOK(s)'
  BY <1>1, <1>2, <1>3, StreamKept DEF KeepsData
<1> QED BY <1>1, <1>4, StreamOthers

\* The client asks: before it has subscribed nothing but answers can come.
LEMMA StreamsAsk ==
  ASSUME BInv, PlaceInv, StreamInv, NEW s \in Sessions, NEW p \in Providers,
         SubscribeToProvider(s, p) \/ \E enable \in BOOLEAN : UpdateProviders(s, p, enable)
  PROVE  StreamInv'
<1>1. PICK m \in Message, pc \in {"subscribing", "updating"} :
         Ask(s, m, pc) /\ (pc = "subscribing" => ~cl[s].subscribed)
  BY MessageTypes DEF SubscribeToProvider, UpdateProviders
<1>2. /\ cl[s].pc = "ready" /\ cl'[s].pc = pc /\ cl'[s].got = cl[s].got
      /\ \A t \in Sessions : t # s => cl'[t] = cl[t]
      /\ UNCHANGED <<prov, sess, link, toClient, written, risk>>
  BY <1>1, AskEffect
<1>3. StreamOK(s) /\ toClient[s] \in Seq(Packet)
  BY StreamParts, ClientFields DEF BInv
<1>4. CASE pc # "subscribing"
  <2>1. Active(s)' => Active(s)
    BY <1>2 DEF Active
  <2>2. StreamOK(s)'
    BY <1>2, <1>3, <1>4, <2>1, StreamKept
  <2> QED BY <1>2, <2>2, StreamOthers DEF KeepsChunks
<1>5. CASE pc = "subscribing"
  <2>1. sess[s].of = None
    BY <1>1, <1>2, <1>5, PlaceParts DEF SessionPlace, OneSubscription, Fresh
  <2>2. \A i \in 1..Len(toClient[s]) : toClient[s][i].kind = "Response"
    BY <1>3, <2>1, NothingYet
  <2>3. toClient[s] # <<>> => 1 \in 1..Len(toClient[s])
    BY <1>3, TailAt
  <2>4. ~Active(s)' /\ ~Active(s)
    BY <1>2, <2>1 DEF Active
  <2>5. Answered(s)' /\ Unused(s)'
    BY <1>2, <1>3, <2>2, <2>3, <2>4 DEF Answered, StreamOK, Unused
  <2>6. ASSUME Streams(s) PROVE Streams(s)'
    <3>1. PICK a \in 0..Len(written[s]), b \in 0..Len(written[s]) : Arrived(s, a, b)
      BY <2>6 DEF Streams
    <3>2. Arrived(s, a, b)'
      BY <1>2, <3>1 DEF Arrived
    <3> QED BY <1>2, <2>4, <3>1, <3>2 DEF Streams
  <2>7. StreamOK(s)'
    BY <1>2, <1>3, <2>5, <2>6 DEF StreamOK
  <2> QED BY <1>2, <2>7, StreamOthers DEF KeepsChunks
<1> QED BY <1>4, <1>5

\* Sessions that come and go.
LEMMA StreamsLinks ==
  ASSUME BInv, PlaceInv, StreamInv, NEW s \in Sessions,
         Destroy(s) \/ Lose(s) \/ AcceptSession(s) \/ SessionEstablished(s)
  PROVE  StreamInv'
<1>1. /\ link \in [Sessions -> {"down", "accepted", "up", "leaving"}]
      /\ UNCHANGED <<prov, sess, toClient, written, risk>> /\ cl'[s].got = cl[s].got
      /\ cl'[s].pc = cl[s].pc \/ cl'[s].pc # "subscribing"
      /\ \A t \in Sessions : t # s => cl'[t] = cl[t] /\ link'[t] = link[t]
      /\ \/ link[s] = "up" /\ link'[s] = "leaving"
         \/ link'[s] = "accepted"
         \/ link[s] = "accepted"
  <2>0. link \in [Sessions -> {"down", "accepted", "up", "leaving"}]
    BY DEF BInv, TInv, WireTypes
  <2>1. CASE SessionEstablished(s)
    BY <2>0, <2>1, EstablishedEffect
  <2>2. CASE Lose(s) \/ AcceptSession(s)
    BY <2>0, <2>2 DEF Lose, AcceptSession
  <2>3. CASE Destroy(s)
    BY <2>0, <2>3, DestroyEffect
  <2> QED BY <2>1, <2>2, <2>3
<1>2. StreamOK(s) /\ (link[s] = "accepted" => sess[s].of = None)
  BY StreamParts, PlaceParts DEF SessionPlace, Placed
<1>3. Active(s)' => Active(s)
  BY <1>1, <1>2 DEF Active
<1>4. StreamOK(s)'
  BY <1>1, <1>2, <1>3, StreamKept
<1> QED BY <1>1, <1>4, StreamOthers DEF KeepsChunks

LEMMA StreamsTerminated ==
  ASSUME BInv, StreamInv, NEW s \in Sessions, SessionTerminated(s)
  PROVE  StreamInv'
<1>1. UNCHANGED <<prov, sess, risk>>
  BY TerminatedEffect
<1>2. /\ link'[s] = "down" /\ toClient'[s] = <<>> /\ cl'[s].pc = "done" /\ cl'[s].got = <<>> /\ written'[s] = <<>>
      /\ \A t \in Sessions : t # s => /\ link'[t] = link[t] /\ written'[t] = written[t]
                                      /\ toClient'[t] = toClient[t] /\ cl'[t] = cl[t]
  BY TerminatedEffect, DownEffect
<1>3. StreamOK(s)
  BY StreamParts
<1>4. Unused(s)' /\ Answered(s)' /\ ~Active(s)'
  BY <1>1, <1>2, <1>3 DEF StreamOK, Unused, Answered, Active
<1>5. Arrived(s, 0, 0)'
  <2>1. Contents(toClient'[s]) = <<>> /\ Len(written'[s]) = 0
    BY <1>2 DEF Contents
  <2>2. Slice(written'[s], 0, cl'[s].got, 0)
    BY <1>2, <2>1, SliceNothing
  <2>3. Carries(written'[s], 0, Contents(toClient'[s]), 0)
    BY <2>1, CarriesNothing
  <2> QED BY <2>2, <2>3 DEF Arrived
<1>6. Streams(s)'
  <2>1. 0 \in 0..Len(written'[s])
    BY <1>2
  <2> QED BY <1>4, <1>5, <2>1 DEF Streams
<1>7. StreamOK(s)'
  BY <1>4, <1>6 DEF StreamOK
<1> QED BY <1>1, <1>2, <1>7, StreamOthers DEF KeepsChunks

LEMMA StreamsOps ==
  ASSUME BInv, PlaceInv, StreamInv, OpStep
  PROVE  StreamInv'
<1>1. CASE FlushProvider
  <2>1. /\ BInv' /\ op.p \in Providers /\ KeepsProv /\ KeepsSess /\ Flushed(op.p) /\ risk \subseteq risk'
        /\ UNCHANGED <<objs, wires, written>>
    BY <1>1, FlushProviderEffect
  <2> QED BY <2>1, StreamsFlushed
<1>2. CASE TurnOff
  <2>1. /\ \A p \in Providers : prov'[p].session = prov[p].session /\ prov'[p].chunks = prov[p].chunks
        /\ UNCHANGED <<sess, wires, written, risk>>
    BY <1>2, TurnOffEffect
  <2> QED BY <2>1, StreamsSame DEF KeepsChunks
<1>3. CASE Reset
  <2>1. /\ op.p \in Providers /\ op.pc = "reset"
        /\ \A p \in Providers :
              /\ prov'[p].chunks = prov[p].chunks
              /\ prov'[p].session = IF op.name # "disable" /\ p = op.p THEN None ELSE prov[p].session
        /\ \A s \in Sessions :
              /\ sess'[s].of = sess[s].of
              /\ IF op.name \in {"terminate", "unregister"} /\ s = op.s THEN sess'[s].reply = None
                 ELSE sess'[s] = sess[s]
        /\ \A s \in Sessions : sess[s].queue = <<>> /\ sess[s].chunk = <<>> /\ sess[s].payload = None
                => sess'[s].queue = <<>> /\ sess'[s].chunk = <<>> /\ sess'[s].payload = None
        /\ UNCHANGED <<wires, written, risk>>
    BY <1>3, ResetEffect
  <2>2. op.name \in {"terminate", "unregister"} => op.s = prov[op.p].session
    BY <2>1, PlaceParts DEF OpOK
  <2> SUFFICES ASSUME NEW s \in Sessions PROVE StreamOK(s)'
    BY StreamParts
  <2>3. StreamOK(s) /\ sess[s].of \in Providers \cup {None} /\ UNCHANGED <<link, toClient, cl>>
    BY <2>1, StreamParts, SessionFields DEF BInv, wires
  <2>4. ASSUME Active(s)' PROVE Active(s) /\ sess'[s] = sess[s] /\ prov'[sess[s].of].chunks = prov[sess[s].of].chunks
    <3>1. sess[s].of \in Providers /\ prov'[sess[s].of].session = s /\ s # None
      BY <2>1, <2>3, <2>4, EventAssumption DEF Active
    <3>2. prov[sess[s].of].session = s /\ ~(op.name # "disable" /\ sess[s].of = op.p)
      BY <2>1, <3>1
    <3>3. Active(s)
      BY <2>1, <2>3, <2>4, <3>1, <3>2 DEF Active
    <3>4. op.name \in {"terminate", "unregister"} => s # op.s
      <4> SUFFICES ASSUME op.name \in {"terminate", "unregister"}, s = op.s PROVE FALSE
        OBVIOUS
      <4>1. sess[s].of = op.p
        BY <2>1, <2>2, OfSession
      <4> QED BY <3>2, <4>1
    <3> QED BY <2>1, <3>1, <3>3, <3>4
  <2> QED BY <2>1, <2>3, <2>4, StreamKept
<1> QED BY <1>1, <1>2, <1>3 DEF OpStep

LEMMA StreamsInit ==
  ASSUME Init
  PROVE  StreamInv
<1> SUFFICES ASSUME NEW s \in Sessions PROVE StreamOK(s)
  BY StreamParts
<1>1. /\ sess[s] = NewSession /\ written[s] = <<>> /\ toClient[s] = <<>> /\ cl[s] = NewClient /\ link[s] = "down"
  BY DEF Init
<1>2. Unused(s) /\ Answered(s) /\ ~Active(s)
  BY <1>1 DEF Unused, Answered, Active, NewSession, NewClient
<1>3. Arrived(s, 0, 0)
  <2>1. Contents(toClient[s]) = <<>> /\ Len(written[s]) = 0 /\ cl[s].got = <<>>
    BY <1>1 DEF Contents, NewClient
  <2>2. Slice(written[s], 0, cl[s].got, 0)
    BY <2>1, SliceNothing
  <2>3. Carries(written[s], 0, Contents(toClient[s]), 0)
    BY <2>1, CarriesNothing
  <2> QED BY <2>2, <2>3 DEF Arrived
<1>4. 0 \in 0..Len(written[s])
  BY <1>1
<1> QED BY <1>2, <1>3, <1>4 DEF StreamOK, Streams

LEMMA StreamsNext ==
  ASSUME BInv, PlaceInv, WriterInv, StreamInv, [Next]_vars
  PROVE  StreamInv'
<1>0. BInv'
  BY BNext
<1>1. ASSUME UNCHANGED <<sess, wires, written>>, risk \subseteq risk', KeepsChunks,
             \A p \in Providers : prov'[p].session = prov[p].session
      PROVE  StreamInv'
  BY <1>1, StreamsSame
<1>2. ASSUME NEW s \in Sessions, UpdateProvider(s) PROVE StreamInv'
  <2>1. PICK p \in Providers : Flushed(p)
    BY <1>2, UpdateProviderEffect
  <2>2. KeepsProv /\ KeepsSess /\ UNCHANGED <<objs, wires, written, risk>>
    BY <1>2, UpdateProviderEffect
  <2> QED BY <1>0, <2>1, <2>2, StreamsFlushed
<1>3. ASSUME NEW w \in Writers, NEW p \in Providers, QueryEventWriteStatus(w, p) PROVE StreamInv'
  <2>1. UNCHANGED <<prov, sess, wires, written>> /\ risk \subseteq risk'
    BY <1>3, QueryEffect
  <2> QED BY <1>1, <2>1 DEF KeepsChunks
<1>4. ASSUME NEW w \in Writers, NEW flush \in BOOLEAN, FinishWrite(w, flush) PROVE StreamInv'
  <2> DEFINE p == writer[w].p
  <2>1. /\ p \in Providers /\ KeepsProv /\ KeepsSess
        /\ Flushed(p) \/ (KeepsData /\ KeepsChunks)
        /\ UNCHANGED <<objs, wires, written, risk>>
    BY <1>4, FinishWriteEffect
  <2> HIDE DEF p
  <2>2. CASE Flushed(p)
    BY <1>0, <2>1, <2>2, StreamsFlushed
  <2>3. CASE KeepsData /\ KeepsChunks
    <3> SUFFICES ASSUME NEW s \in Sessions PROVE StreamOK(s)'
      BY StreamParts
    <3>1. StreamOK(s) /\ sess[s].of \in Providers \cup {None} /\ UNCHANGED <<link, toClient, cl>>
      BY <2>1, StreamParts, SessionFields DEF BInv, wires
    <3>2. Active(s)' => Active(s) /\ sess[s].of \in Providers
      BY <2>1, <3>1 DEF Active, KeepsProv, KeepsSess
    <3> QED BY <2>1, <2>3, <3>1, <3>2, StreamKept DEF KeepsData, KeepsSess, KeepsChunks
  <2> QED BY <2>1, <2>2, <2>3
<1>5. ASSUME NEW p \in Providers, RegisterProvider(p) \/ UnregisterProvider(p) PROVE StreamInv'
  <2>1. CASE RegisterProvider(p)
    <3>1. /\ op.name = "none" /\ ~prov[p].reg /\ \A q \in Providers : q # p => prov'[q] = prov[q]
          /\ prov'[p].session = prov[p].session \/ prov'[p].session = None
          /\ risk \subseteq risk' /\ UNCHANGED <<sess, wires, written>>
      BY <2>1, RegisterEffect
    <3>2. prov[p].session = None /\ prov'[p].session = None
      BY <3>1, PlaceParts DEF OpOK
    <3> SUFFICES ASSUME NEW s \in Sessions PROVE StreamOK(s)'
      BY StreamParts
    <3>3. StreamOK(s) /\ s # None /\ sess[s].of \in Providers \cup {None}
      BY StreamParts, SessionFields, EventAssumption DEF BInv
    <3>4. UNCHANGED <<link, toClient, cl>>
      BY <3>1 DEF wires
    <3>5. Active(s)' => Active(s) /\ prov'[sess[s].of].chunks = prov[sess[s].of].chunks
      BY <3>1, <3>2, <3>3, <3>4 DEF Active
    <3> QED BY <3>1, <3>3, <3>4, <3>5, StreamKept
  <2>2. CASE UnregisterProvider(p)
    BY <1>1, <2>2, UnregisterEffect DEF KeepsChunks
  <2> QED BY <1>5, <2>1, <2>2
<1>6. ASSUME NEW s \in Sessions, HandleUnsubscribe(s) PROVE StreamInv'
  <2>1. UNCHANGED <<prov, sess, link, toClient, cl, written, risk>>
    BY <1>6, HandleUnsubscribeEffect
  <2>2. \A t \in Sessions : Active(t)' => Active(t)
    BY <2>1 DEF Active
  <2>3. ASSUME NEW t \in Sessions PROVE StreamOK(t)'
    BY <2>1, <2>2, StreamParts, StreamKept
  <2> QED BY <2>3, StreamParts
<1>7. ASSUME NEW s \in Sessions, UpdateSession(s) PROVE StreamInv'
  BY <1>6, <1>7, StreamsSent, StreamsResponse, StreamsSubscribe, StreamsApply DEF UpdateSession
<1>8. CASE UNCHANGED vars
  BY <1>1, <1>8 DEF vars, wires, KeepsChunks
<1>9. ASSUME NEW s \in Sessions, Read(s) \/ Destroy(s) \/ Lose(s) \/ AcceptSession(s) \/ SessionEstablished(s)
                                 \/ SessionTerminated(s)
      PROVE  StreamInv'
  BY <1>9, StreamsRead, StreamsLinks, StreamsTerminated
<1> QED BY <1>2, <1>3, <1>4, <1>5, <1>7, <1>8, <1>9, StreamsOps, StreamsWritten, StreamsAsk DEF Next

-----------------------------------------------------------------------------
LEMMA StreamInvariant == Spec => [](EInv /\ StreamInv)
<1>1. Init => EInv /\ StreamInv
  BY BInit, PlaceInit, WritersInit, StreamsInit DEF EInv
<1>2. (EInv /\ StreamInv) /\ [Next]_vars => (EInv /\ StreamInv)'
  BY BNext, PlaceNext, WritersNext, StreamsNext DEF EInv
<1> QED BY <1>1, <1>2, PTL DEF Spec

\* What a client has received is a prefix of what was accepted for it: no
\* event is lost, repeated, cut or out of order in the chunks of the provider,
\* the queue of the session, the packet held back and the window, and nothing
\* is left of an earlier subscriber (ddEventProvider.cpp, AcquireEventChunks
\* and Flush; ddEventServerSession.cpp, SendEventData).
THEOREM StreamsArePrefixes == Spec => []StreamIsPrefix
<1>1. EInv /\ StreamInv => StreamIsPrefix
  <2> SUFFICES ASSUME EInv, StreamInv, NEW s \in Sessions, sess[s].of \notin risk PROVE IsPrefix(cl[s].got, written[s])
    BY DEF StreamIsPrefix
  <2>1. PICK a \in 0..Len(written[s]), b \in 0..Len(written[s]) : Arrived(s, a, b)
    BY StreamParts DEF StreamOK, Streams
  <2>2. cl[s].got \in Seq(Part) /\ written[s] \in Seq(Part) /\ Len(cl[s].got) \in Nat /\ Len(written[s]) \in Nat
    BY ClientFields, SessionFields, LenProperties DEF EInv, BInv
  <2>3. /\ Len(cl[s].got) <= Len(written[s])
        /\ \A k \in 1..Len(cl[s].got) : cl[s].got[k] = written[s][0 + k]
    BY <2>1, <2>2 DEF Arrived, Slice
  <2>4. \A k \in 1..Len(cl[s].got) : cl[s].got[k] = written[s][k]
    BY <2>2, <2>3
  <2> QED BY <2>2, <2>3, <2>4 DEF IsPrefix
<1> QED BY <1>1, StreamInvariant, PTL
=============================================================================
