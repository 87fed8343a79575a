--------------------------- MODULE PairedStreams ----------------------------
(***************************************************************************)
(* What a session promises to the two applications that use it, without    *)
(* windows, acknowledgements or retransmissions: two session objects are   *)
(* paired once and for all, each of them with the other, and then each     *)
(* Receive returns the next payload that the peer's Send accepted.         *)
(* Payloads are numbered by the Send calls.  Nothing is promised about how *)
(* far the reader gets: either session may close at any time.              *)
(***************************************************************************)
EXTENDS Naturals, Sequences

CONSTANTS
    Endpoint,
    Nobody      \* not an Endpoint

VARIABLES peer, accepted, delivered

vars == <<peer, accepted, delivered>>

Init ==
    /\ peer = [e \in Endpoint |-> Nobody]
    /\ accepted = [e \in Endpoint |-> <<>>]
    /\ delivered = [e \in Endpoint |-> <<>>]

Pair(e, f) ==
    /\ peer[e] = Nobody
    /\ \A g \in Endpoint : peer[g] = e => g = f
    /\ peer[f] \in {Nobody, e}
    /\ peer' = [peer EXCEPT ![e] = f]
    /\ UNCHANGED <<accepted, delivered>>

Accept(e) ==
    /\ peer[e] # Nobody
    /\ accepted' = [accepted EXCEPT ![e] = Append(@, Len(@) + 1)]
    /\ UNCHANGED <<peer, delivered>>

Deliver(e) ==
    /\ peer[e] # Nobody
    /\ Len(delivered[e]) < Len(accepted[peer[e]])
    /\ delivered' = [delivered EXCEPT ![e] =
                        Append(@, accepted[peer[e]][Len(@) + 1])]
    /\ UNCHANGED <<peer, accepted>>

Next == \E e \in Endpoint : \/ Accept(e) \/ Deliver(e)
                            \/ \E f \in Endpoint \ {e} : Pair(e, f)

Spec == Init /\ [][Next]_vars
=============================================================================
