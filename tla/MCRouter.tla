------------------------------ MODULE MCRouter ------------------------------
(***************************************************************************)
(* A router with a local socket and, in some runs, a second transport.     *)
(***************************************************************************)
EXTENDS Router, TLC

CONSTANTS Near, Far   \* connections through the first and the second transport

\* The ids that the router assigns are interchangeable.
IdSymmetry == Permutations(Ids \ Foreign)

MCVia == [c \in Connections |-> IF c \in Far THEN "far" ELSE "near"]
=============================================================================
