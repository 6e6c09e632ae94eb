----------------------------- MODULE DataPlane -----------------------------
(***************************************************************************)
(* The packets of one stream (src/rtp-streaming, ListenStreams of          *)
(* src/node/main.go, src/common/packets.go): the server reads frames,      *)
(* sends each along its routes under a header that names the branch;       *)
(* relays take the header off, put it on again and forward along the       *)
(* entries in use; clients take it off and show the frame.  The routes are *)
(* those of an overlay at rest.                                            *)
(*                                                                         *)
(* A packet is the number of its frame and the headers in front of it,     *)
(* outermost first.  Identifiers are shorter than 16 characters: the first *)
(* byte of a header then reads as an RTP header without extension, and     *)
(* Unmarshal takes it for one.  Datagrams may be lost and overtaken.       *)
(***************************************************************************)
EXTENDS Integers, Sequences

CONSTANTS
    Relays, Clients,
    Branch,     \* the identifiers of branches
    Routes,     \* the routes of the server: a sequence of [to, id]
    Out,        \* the hosts each relay forwards the content to
    LastFrame,  \* bound: the frames of the file
    SeqMod      \* bound: sequence numbers wrap (2^16 in the code)

Hosts == Relays \union Clients

ASSUME RoutesAssumption == Routes \in Seq([to : Hosts, id : Branch])
ASSUME OutAssumption == Out \in [Relays -> SUBSET Hosts]
ASSUME BoundsAssumption == LastFrame \in Nat /\ SeqMod \in Nat \ {0}

VARIABLES
    read,    \* the frames PacketizeVideo has read
    packet,  \* the packet DupStream is sending
    todo,    \* the routes it still has to send it along
    net,     \* the datagrams on their way
    seq,     \* the sequence number each client has seen last
    shown    \* the frames each client has shown

vars == <<read, packet, todo, net, seq, shown>>

Packet == [frame : 1 .. LastFrame, headers : Seq(Branch)]
Datagram == [dst : Hosts, body : Packet]

Wrap(p, id) == [p EXCEPT !.headers = <<id>> \o @]
Unwrap(p)   == [p EXCEPT !.headers = Tail(@)]

\* What Unmarshal reads in the place of the sequence number.
SequenceNumbers(p) ==
    IF p.headers = <<>> THEN {p.frame % SeqMod} ELSE 0 .. SeqMod - 1

Init ==
    /\ read = 0
    /\ packet = [frame |-> 0, headers |-> <<>>] /\ todo = <<>>
    /\ net = {}
    /\ seq = [c \in Clients |-> 0]
    /\ shown = [c \in Clients |-> {}]

\* PacketizeVideo hands DupStream the next frame; the channel has no buffer.
PacketizeVideo ==
    /\ read < LastFrame /\ todo = <<>>
    /\ read' = read + 1
    /\ packet' = [frame |-> read', headers |-> <<>>]
    /\ todo' = Routes
    /\ UNCHANGED <<net, seq, shown>>

\* One iteration of the inner loop of DupStream: the packet it wraps is the
\* one the iteration before has wrapped.
DupStream ==
    /\ todo # <<>>
    /\ packet' = Wrap(packet, Head(todo).id)
    /\ net' = net \union {[dst |-> Head(todo).to, body |-> packet']}
    /\ todo' = Tail(todo)
    /\ UNCHANGED <<read, seq, shown>>

\* Mutant of ListenStreams: what came is wrapped, not what was unwrapped.
ListenStreamsWrapped(d) ==
    /\ d.dst \in Relays
    /\ net' = (net \ {d}) \union
          {[dst |-> x, body |-> Wrap(d.body, Head(d.body.headers))] : x \in Out[d.dst]}
    /\ UNCHANGED <<read, packet, todo, seq, shown>>

\* ListenStreams: the header is the one that came, not that of the entry.
ListenStreams(d) ==
    /\ d.dst \in Relays
    /\ net' = (net \ {d}) \union
          {[dst |-> x, body |-> Wrap(Unwrap(d.body), Head(d.body.headers))] :
              x \in Out[d.dst]}
    /\ UNCHANGED <<read, packet, todo, seq, shown>>

\* ListenStream: seq is set before it is compared with, so no frame is shown.
ListenStream(d) ==
    /\ d.dst \in Clients
    /\ net' = net \ {d}
    /\ \E s \in SequenceNumbers(Unwrap(d.body)) :
          /\ seq' = [seq EXCEPT ![d.dst] = s]
          /\ shown' = [shown EXCEPT ![d.dst] =
                          @ \union {f \in {d.body.frame} : s > seq'[d.dst]}]
    /\ UNCHANGED <<read, packet, todo>>

Lose(d) ==
    /\ net' = net \ {d}
    /\ UNCHANGED <<read, packet, todo, seq, shown>>

Next ==
    \/ PacketizeVideo
    \/ DupStream
    \/ \E d \in net : ListenStreams(d) \/ ListenStream(d) \/ Lose(d)

Spec == Init /\ [][Next]_vars
-----------------------------------------------------------------------------
\* "Send packet to each IP address in the routing table for this stream"
\* (DupStream): what travels is the packet of a frame under one header, which
\* the next host takes off.
OneHeader == \A d \in net : Len(d.body.headers) = 1
=============================================================================
