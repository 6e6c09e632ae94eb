---------------------------- MODULE MCBootstrap ----------------------------
(***************************************************************************)
(* A server S and two POPs: A announces itself to the server and to B.     *)
(***************************************************************************)
EXTENDS Bootstrap

TwoAnnounces == {<<"A", "S">>, <<"A", "B">>}
=============================================================================
