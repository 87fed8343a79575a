------------------------- MODULE MCClientDiscovery --------------------------
(***************************************************************************)
(* Client discovery with a driver, a tool and a second driver on the bus.  *)
(***************************************************************************)
EXTENDS ClientDiscovery

MCClients == {"driver1", "driver2", "tool"}
MCKindOf == [x \in MCClients |-> IF x = "tool" THEN "Tool" ELSE "Driver"]
=============================================================================
