-------------------------- MODULE MCSessionManager --------------------------
(***************************************************************************)
(* The session manager pair on small instances.                            *)
(***************************************************************************)
EXTENDS SessionManager, TLC

CONSTANTS ClientSends, ServerSends

MCMaxSends == [o \in Sessions |-> IF o = Client THEN ClientSends ELSE ServerSends]

\* The session objects of the server are interchangeable.
ServerSymmetry == Permutations(Server)
=============================================================================
