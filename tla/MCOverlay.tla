----------------------------- MODULE MCOverlay -----------------------------
(***************************************************************************)
(* Small overlays for TLC.  S is the server, A and B are relays, P is a    *)
(* POP, C1 and C2 are clients.                                             *)
(***************************************************************************)
EXTENDS Overlay, TLC

\* A and B announce themselves to the server, P to A and B.
DiamondAnnounces ==
    {<<"A", "S">>, <<"B", "S">>, <<"P", "A">>, <<"P", "B">>}

\* The same with A and B started with the address of the POP: floods towards
\* the POP open a connection each.
DialledAnnounces ==
    {<<"A", "S">>, <<"B", "S">>, <<"A", "P">>, <<"B", "P">>}

\* The diamond with a POP that announces itself to the server, too.
ServedAnnounces == DiamondAnnounces \union {<<"P", "S">>}

\* The diamond with a link between A and B.
LinkedAnnounces == DiamondAnnounces \union {<<"B", "A">>}

\* Three relays that are no POPs, linked to each other; A and B know the server.
RingAnnounces ==
    {<<"A", "S">>, <<"B", "S">>, <<"B", "A">>, <<"D", "A">>, <<"D", "B">>}

WantsM == [c \in Clients |-> "m"]

\* Each client wants a content of its own.  Nothing else tells the clients and
\* the contents apart, so two clients and what they want may change places.
WantsOwn ==
    CHOOSE f \in [Clients -> Contents] :
        \A c, d \in Clients : f[c] = f[d] => c = d
ClientsWithContents ==
    {[x \in Clients \union Contents |->
        IF x \in Clients THEN p[x]
        ELSE WantsOwn[p[CHOOSE c \in Clients : WantsOwn[c] = x]]] :
     p \in Permutations(Clients)}

OwnKeys == [c \in Contents |-> c]
=============================================================================
