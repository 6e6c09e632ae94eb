-------------------------- MODULE MCServerStreams --------------------------
(***************************************************************************)
(* Acceptances at the server: two branches of content m and one of content *)
(* n, accepted by two relays, in three goroutines.                         *)
(***************************************************************************)
EXTENDS ServerStreams

CONSTANTS contentM, contentN

OwnKeys == [c \in Contents |-> c]
TwoContents ==
    {[content |-> contentM, path |-> <<1>>], [content |-> contentM, path |-> <<2>>],
     [content |-> contentN, path |-> <<1>>]}
=============================================================================
