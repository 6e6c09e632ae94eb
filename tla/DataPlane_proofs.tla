-------------------------- MODULE DataPlane_proofs --------------------------
(***************************************************************************)
(* With at most one route at the server, packets travel under one header,  *)
(* along every tree or graph of relays, for every file.  (With two routes  *)
(* they do not: DupStream keeps what it has wrapped.)                      *)
(***************************************************************************)
EXTENDS DataPlane, SequenceTheorems, TLAPS

\* A packet that DupStream still has to send has no header yet.
Fresh == todo # <<>> => Len(todo) = 1 /\ packet.headers = <<>>

Shapes ==
    /\ read \in Nat
    /\ todo \in Seq([to : Hosts, id : Branch])
    /\ packet \in [frame : Nat, headers : Seq(Branch)]
    /\ net \subseteq [dst : Hosts, body : [frame : Nat, headers : Seq(Branch)]]

DataInv == Shapes /\ Fresh /\ OneHeader

\* The only element of a sequence, and what is left after it.
LEMMA OnlyElement ==
    ASSUME NEW S, NEW s \in Seq(S), Len(s) = 1
    PROVE  Head(s) \in S /\ Tail(s) = <<>>
<1>1. s # <<>>
  BY EmptySeq
<1>2. Head(s) \in S /\ Tail(s) \in Seq(S) /\ Len(Tail(s)) = 0
  BY <1>1, HeadTailProperties
<1> QED
  BY <1>2, EmptySeq

\* A sequence of at most one element that is not empty has one.
LEMMA AtMostOne ==
    ASSUME NEW S, NEW s \in Seq(S), Len(s) <= 1, s # <<>>
    PROVE  Len(s) = 1
<1>1. Len(s) \in Nat /\ Len(s) # 0
  BY EmptySeq
<1> DEFINE n == Len(s)
<1>2. n \in Nat /\ n # 0 /\ n <= 1
  BY <1>1
<1> HIDE DEF n
<1>3. n = 1
  BY <1>2
<1> QED
  BY <1>3 DEF n

\* Putting a header on a bare packet makes it one header long.
LEMMA WrapBare ==
    ASSUME NEW p \in [frame : Nat, headers : Seq(Branch)], p.headers = <<>>,
           NEW id \in Branch
    PROVE  /\ Wrap(p, id) \in [frame : Nat, headers : Seq(Branch)]
           /\ Len(Wrap(p, id).headers) = 1
<1>1. <<id>> \in Seq(Branch) /\ Len(<<id>>) = 1
  OBVIOUS
<1>2. <<id>> \o p.headers \in Seq(Branch) /\ Len(<<id>> \o p.headers) = 1
  BY <1>1
<1> QED
  BY <1>2 DEF Wrap

\* Taking the only header off leaves a bare packet.
LEMMA UnwrapOne ==
    ASSUME NEW p \in [frame : Nat, headers : Seq(Branch)], Len(p.headers) = 1
    PROVE  /\ Unwrap(p) \in [frame : Nat, headers : Seq(Branch)]
           /\ Unwrap(p).headers = <<>>
           /\ Head(p.headers) \in Branch
<1>1. p.headers \in Seq(Branch)
  OBVIOUS
<1>2. Head(p.headers) \in Branch /\ Tail(p.headers) = <<>>
  BY <1>1, OnlyElement
<1> QED
  BY <1>2 DEF Unwrap

LEMMA InitData == Init => DataInv
<1> SUFFICES ASSUME Init PROVE DataInv
  OBVIOUS
<1>1. Shapes
  BY DEF Init, Shapes
<1> QED
  BY <1>1 DEF Init, DataInv, Fresh, OneHeader

LEMMA NextData ==
    ASSUME Len(Routes) <= 1, DataInv, [Next]_vars
    PROVE  DataInv'
<1>1. CASE PacketizeVideo
  <2>1. Routes # <<>> => Len(Routes) = 1
    BY RoutesAssumption, AtMostOne
  <2>2. Shapes'
    <3>1. /\ read' \in Nat /\ net' = net /\ todo' = Routes
          /\ packet' = [frame |-> read', headers |-> <<>>]
      BY <1>1 DEF DataInv, Shapes, PacketizeVideo
    <3> QED
      BY <3>1, RoutesAssumption DEF DataInv, Shapes
  <2> QED
    BY <1>1, <2>1, <2>2 DEF DataInv, PacketizeVideo, Fresh, OneHeader
<1>2. CASE DupStream
  <2> DEFINE id == Head(todo).id
  <2>1. /\ todo # <<>> /\ Len(todo) = 1 /\ packet.headers = <<>>
        /\ Head(todo) \in [to : Hosts, id : Branch] /\ Tail(todo) = <<>>
    <3>1. Len(todo) = 1 /\ packet.headers = <<>> /\ todo # <<>>
      BY <1>2 DEF DupStream, DataInv, Fresh
    <3> QED
      BY <3>1, OnlyElement DEF DataInv, Shapes
  <2>2. /\ packet' = Wrap(packet, id)
        /\ packet' \in [frame : Nat, headers : Seq(Branch)]
        /\ Len(packet'.headers) = 1
    BY <1>2, <2>1, WrapBare DEF DupStream, DataInv, Shapes
  <2>3. todo' = <<>> /\ <<>> \in Seq([to : Hosts, id : Branch])
    BY <1>2, <2>1, EmptySeq DEF DupStream
  <2>4. net' = net \union {[dst |-> Head(todo).to, body |-> packet']}
    BY <1>2 DEF DupStream
  <2>5. Shapes'
    BY <1>2, <2>1, <2>2, <2>3, <2>4 DEF DataInv, Shapes, DupStream
  <2>6. OneHeader'
    BY <2>2, <2>4 DEF DataInv, OneHeader
  <2> QED
    BY <2>3, <2>5, <2>6 DEF DataInv, Fresh
<1>3. ASSUME NEW d \in net, ListenStreams(d)
      PROVE  DataInv'
  <2>1. /\ d.body \in [frame : Nat, headers : Seq(Branch)]
        /\ Len(d.body.headers) = 1 /\ d.dst \in Relays
    BY <1>3 DEF DataInv, Shapes, OneHeader, ListenStreams
  <2> DEFINE again == Wrap(Unwrap(d.body), Head(d.body.headers))
  <2>2. /\ again \in [frame : Nat, headers : Seq(Branch)]
        /\ Len(again.headers) = 1
    BY <2>1, UnwrapOne, WrapBare
  <2>3. Out[d.dst] \subseteq Hosts
    BY <2>1, OutAssumption
  <2>4. net' = (net \ {d}) \union {[dst |-> x, body |-> again] : x \in Out[d.dst]}
    BY <1>3 DEF ListenStreams
  <2> HIDE DEF again
  <2>5. Shapes'
    BY <1>3, <2>2, <2>3, <2>4 DEF DataInv, Shapes, ListenStreams
  <2>6. OneHeader'
    BY <2>2, <2>4 DEF DataInv, OneHeader
  <2> QED
    BY <1>3, <2>5, <2>6 DEF DataInv, Fresh, ListenStreams
<1>4. ASSUME NEW d \in net, ListenStream(d) \/ Lose(d)
      PROVE  DataInv'
  <2>1. net' \subseteq net /\ packet' = packet /\ todo' = todo /\ read' = read
    BY <1>4 DEF ListenStream, Lose
  <2> QED
    BY <2>1 DEF DataInv, Shapes, Fresh, OneHeader
<1>5. CASE UNCHANGED vars
  BY <1>5 DEF vars, DataInv, Shapes, Fresh, OneHeader
<1> QED
  BY <1>1, <1>2, <1>3, <1>4, <1>5 DEF Next

\* What travels between server, relays and clients is always the packet of a
\* frame under exactly one header, if the server has one route at most.
THEOREM OneHeaderAlways == Len(Routes) <= 1 => (Spec => []OneHeader)
<1> SUFFICES ASSUME Len(Routes) <= 1 PROVE Spec => []OneHeader
  OBVIOUS
<1>1. DataInv /\ [Next]_vars => DataInv'
  BY NextData
<1>2. DataInv => OneHeader
  BY DEF DataInv
<1> QED
  BY <1>1, <1>2, InitData, PTL DEF Spec
=============================================================================
