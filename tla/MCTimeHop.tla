----------------------------- MODULE MCTimeHop -----------------------------
(***************************************************************************)
(* Two relays with a connection between them: two floods one way and one   *)
(* the other.                                                              *)
(***************************************************************************)
EXTENDS TimeHop

TwoEnds == {<<"A", "B">>, <<"B", "A">>}
BothWays == [f \in Floods |-> IF f = "h3" THEN <<"B", "A">> ELSE <<"A", "B">>]
=============================================================================
