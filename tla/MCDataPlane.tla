---------------------------- MODULE MCDataPlane ----------------------------
(***************************************************************************)
(* One relay or two at the server, and clients behind them.                *)
(***************************************************************************)
EXTENDS DataPlane

OneRoute == <<[to |-> "A", id |-> "m-1"]>>
TwoRoutes == OneRoute \o <<[to |-> "B", id |-> "m-2"]>>

\* A serves C1 and sends B the stream, which serves C2.
Tree == [n \in Relays |-> IF n = "A" THEN {"B", "C1"} ELSE {"C2"}]
=============================================================================
