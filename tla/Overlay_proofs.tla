--------------------------- MODULE Overlay_proofs ---------------------------
(***************************************************************************)
(* Theorems about the overlay, for any hosts, contents, topology and set   *)
(* of processes that may stop.                                             *)
(***************************************************************************)
EXTENDS Overlay, TLAPS

USE DEF Hosts, Ips

-----------------------------------------------------------------------------
(***************************************************************************)
(* Identifiers and tables.                                                 *)
(***************************************************************************)
LEMMA ChildIsId ==
    ASSUME NEW id \in ConnId, NEW n \in Suffixes
    PROVE  /\ Child(id, n) \in ConnId
           /\ Child(id, n).content = id.content
  BY DEF Child, ConnId

\* The server names the first branches.
LEMMA RootBranch ==
    ASSUME NEW c \in Contents, NEW n \in Suffixes
    PROVE  /\ Child(Root(c), n) \in ConnId
           /\ Child(Root(c), n).content = c
  <1>1. <<>> \in Seq(Suffixes)
    OBVIOUS
  <1>2. Root(c) \in ConnId /\ Root(c).content = c
    BY <1>1 DEF Root, ConnId
  <1> QED
    BY <1>2, ChildIsId

LEMMA KeyIsContent ==
    ASSUME NEW id \in ConnId
    PROVE  KeyOf(id) \in Contents
  BY ContentKeyAssumption DEF KeyOf, ConnId

\* AddOutgoingForConn hands out identifiers of the branch's content.
LEMMA OutgoingIdIsId ==
    ASSUME NEW T \in SUBSET Entry(Ips), NEW id \in ConnId, NEW a,
           NEW new \in OutgoingIds(T, id, a)
    PROVE  new \in ConnId /\ new.content = id.content
  <1>1. CASE OutgoingOf(T, id, a) # {}
    <2>1. PICK e \in OutgoingOf(T, id, a) : new = e.id
      BY <1>1 DEF OutgoingIds
    <2>2. e \in Entry(Ips) /\ Parent(e.id) = id
      BY <2>1 DEF OutgoingOf, TosOf
    <2>3. e.id \in ConnId
      BY <2>2 DEF Entry
    <2>4. Parent(e.id).content = e.id.content
      BY <2>3 DEF Parent, ConnId
    <2> QED
      BY <2>1, <2>2, <2>3, <2>4
  <1>2. CASE OutgoingOf(T, id, a) = {}
    BY <1>2, ChildIsId DEF OutgoingIds
  <1> QED
    BY <1>1, <1>2

LEMMA ToEntryIsEntry ==
    ASSUME NEW a \in Addr(Ips), NEW id \in ConnId, NEW u \in BOOLEAN
    PROVE  ToEntry(a, id, u) \in Entry(Ips) /\ FromEntry(a, id, u) \in Entry(Ips)
  BY DEF ToEntry, FromEntry, Entry

LEMMA AddEntryIsTable ==
    ASSUME NEW T \in SUBSET Entry(Ips), NEW e \in Entry(Ips)
    PROVE  AddEntry(T, e) \in SUBSET Entry(Ips)
  BY DEF AddEntry

LEMMA AddOutgoingIsTable ==
    ASSUME NEW T \in SUBSET Entry(Ips), NEW id, NEW a \in Addr(Ips),
           NEW new \in ConnId
    PROVE  AddOutgoing(T, id, a, new) \in SUBSET Entry(Ips)
  BY ToEntryIsEntry DEF AddOutgoing

\* Map leaves the keys of the entries alone and marks those of S.
LEMMA MarkInUseEntry ==
    ASSUME NEW T \in SUBSET Entry(Ips), NEW S, NEW f \in MarkInUse(T, S)
    PROVE  /\ f \in Entry(Ips)
           /\ \E e \in T : /\ SameKey(e, f)
                           /\ f.inUse => e.inUse \/ e \in S
  <1>1. PICK e \in T : f = [e EXCEPT !.inUse = @ \/ e \in S]
    BY DEF MarkInUse
  <1>2. e \in Entry(Ips)
    OBVIOUS
  <1>3. /\ f.side = e.side /\ f.addr = e.addr /\ f.id = e.id
        /\ f.inUse = (e.inUse \/ e \in S)
    BY <1>1, <1>2 DEF Entry
  <1>4. f \in Entry(Ips)
    BY <1>1, <1>2 DEF Entry
  <1> QED
    BY <1>3, <1>4 DEF SameKey

LEMMA LostIsPart ==
    ASSUME NEW T, NEW ip
    PROVE  LostWith(T, ip) \subseteq T
  BY DEF LostWith, EntriesOfHost, BelowCut, Orphans, TosOf

LEMMA InterruptedHosts ==
    ASSUME NEW T \in SUBSET Entry(Ips), NEW key,
           NEW ip \in Interrupted(T, key)
    PROVE  /\ ip \in Ips
           /\ \E e \in TosOf(T) : e.inUse /\ e.addr.ip = ip /\ KeyOf(e.id) = key
  BY DEF Interrupted, OfContent, TosOf, Entry, Addr
-----------------------------------------------------------------------------
(***************************************************************************)
(* Messages.                                                               *)
(***************************************************************************)
LEMMA MessageKinds ==
    ASSUME NEW m \in Message
    PROVE  /\ m.type = "ConnFlood" => m \in Flood
           /\ m.type = "AcceptedConn" => m \in Accepted
           /\ m.type = "EndOfStream" => m \in EndOfStream
           /\ m.type = "IWantStream" => m \in IWantStream
  BY DEF Message, Flood, Accepted, EmptyAccepted, EndOfStream, IWantStream

LEMMA FloodIsMessage ==
    ASSUME NEW dst \in Relays \union Clients, NEW from \in Addr(Ips),
           NEW id \in ConnId, NEW c \in Clients \union {NoClient},
           NEW t \in SUBSET Relays
    PROVE  FloodMsg(dst, from, id, c, t) \in Message
  BY DEF FloodMsg, Message, Flood

LEMMA AcceptedIsMessage ==
    ASSUME NEW dst \in Hosts, NEW from \in Addr(Relays \union Clients),
           NEW id \in ConnId
    PROVE  AcceptedMsg(dst, from, id) \in Message
  BY DEF AcceptedMsg, Message, Accepted

LEMMA EndIsMessage ==
    ASSUME NEW dst \in Hosts, NEW key \in Contents
    PROVE  EndMsg(dst, key) \in Message
  BY DEF EndMsg, Message, EndOfStream

LEMMA Addresses ==
    /\ \A x \in Ips : At(x) \in Addr(Ips)
    /\ \A x \in Relays \union Clients : At(x) \in Addr(Relays \union Clients)
    /\ \A x \in Relays : \A a : /\ Seen(x, a) \in Addr(Relays \union Clients)
                                /\ Seen(x, a).ip = x
  BY DEF At, Seen, Addr
-----------------------------------------------------------------------------
(***************************************************************************)
(* Type correctness.                                                       *)
(***************************************************************************)
LEMMA TypeInit == Init => TypeOK
  <1> SUFFICES ASSUME Init PROVE TypeOK
    OBVIOUS
  <1>1. ASSUME NEW x \in Relays, NEW a \in peers[x]
        PROVE  a \in Addr(Ips)
    <2>1. \/ \E y \in Relays \union {Server} : a = At(y)
          \/ \E y \in Relays : a = [ip |-> y, port |-> 1]
      BY DEF Init
    <2> QED
      BY <2>1 DEF At, Addr
  <1>2. peers \in [Relays -> SUBSET Addr(Ips)]
    BY <1>1 DEF Init
  <1>3. table \in [Relays -> SUBSET Entry(Ips)]
    BY DEF Init
  <1>4. status \in [Clients -> {"STARTING", "AWAITING_STREAM"}]
    BY DEF Init
  <1>5. refreshes \in 0 .. MaxRefresh
    BY SetupAssumption DEF Init
  <1> QED
    BY <1>2, <1>3, <1>4, <1>5 DEF Init, TypeOK

LEMMA TypeIWantStream ==
    ASSUME TypeOK, NEW m \in net, HandleIWantStream(m)
    PROVE  TypeOK'
  <1>1. m.client \in Clients
    BY MessageKinds DEF TypeOK, HandleIWantStream, Inbox, IWantStream
  <1>2. PICK f \in Numberings(Neighbours, 1) :
           net' \subseteq net \union
              {FloodMsg(x, At(Server), Child(Root(Wants[m.client]), f[x]),
                        m.client, {}) : x \in Neighbours}
    BY DEF HandleIWantStream, Reaching
  <1>3. ASSUME NEW x \in Neighbours
        PROVE  FloodMsg(x, At(Server), Child(Root(Wants[m.client]), f[x]),
                        m.client, {}) \in Message
    <2>1. x \in Relays /\ f[x] \in Suffixes /\ Wants[m.client] \in Contents
      BY <1>1, SetupAssumption DEF Neighbours, Numberings
    <2> QED
      BY <1>1, <2>1, RootBranch, Addresses, FloodIsMessage
  <1>4. net' \subseteq Message
    BY <1>2, <1>3 DEF TypeOK
  <1> QED
    BY <1>4 DEF TypeOK, HandleIWantStream, relayVars, serverVars, clientVars

LEMMA TypeAcceptedAtServer ==
    ASSUME TypeOK, NEW m \in net, HandleAcceptedAtServer(m)
    PROVE  TypeOK'
  <1>1. m \in Accepted
    BY MessageKinds DEF TypeOK, HandleAcceptedAtServer, Inbox
  <1>2. /\ [to |-> m.from.ip, id |-> m.id] \in [to : Relays \union Clients, id : ConnId]
        /\ m.id.content \in Contents
    BY <1>1 DEF Accepted, Addr, ConnId
  <1> QED
    BY <1>2 DEF TypeOK, HandleAcceptedAtServer, relayVars, clientVars

LEMMA TypeEndStream ==
    ASSUME TypeOK, NEW c \in Contents, EndStream(c)
    PROVE  TypeOK'
  <1>1. ASSUME NEW x \in Receivers(c), x \in alive
        PROVE  EndMsg(x, c) \in Message
    BY <1>1, EndIsMessage DEF TypeOK
  <1>2. net' \subseteq Message
    BY <1>1 DEF EndStream, Reaching, EndMsg, TypeOK
  <1> QED
    BY <1>2 DEF TypeOK, EndStream, relayVars, clientVars

LEMMA RefreshFloodsAreMessages ==
    ASSUME TypeOK, NEW c \in Contents, NEW pick \in KeptRoutes(c), NEW top,
           NEW f \in Numberings(Receivers(c), top),
           NEW m \in RefreshFloods(c, pick, f)
    PROVE  m \in Message /\ m.client = NoClient /\ m.type = "ConnFlood"
  <1>1. PICK x \in Receivers(c) :
           \/ m = FloodMsg(x, At(Server), pick[x].id, NoClient, {})
           \/ m = FloodMsg(x, At(Server), Child(Root(c), f[x]), NoClient, {})
    BY DEF RefreshFloods
  <1>2. x \in Relays \union Clients /\ pick[x].id \in ConnId
    BY DEF TypeOK, Receivers, RoutesOf, KeptRoutes
  <1>3. Child(Root(c), f[x]) \in ConnId
    <2>1. f[x] \in Suffixes
      BY DEF Numberings
    <2> QED
      BY <2>1, RootBranch
  <1>4. m \in Message
    BY <1>1, <1>2, <1>3, Addresses, FloodIsMessage
  <1> QED
    BY <1>1, <1>4 DEF FloodMsg

LEMMA TypeRefresh ==
    ASSUME TypeOK, NEW c \in Contents, Refresh(c)
    PROVE  TypeOK'
  <1>1. PICK pick \in KeptRoutes(c), top \in LargestSuffix(c) :
        \E f \in Numberings(Receivers(c), top) :
           net' = net \union Reaching(RefreshFloods(c, pick, f))
    BY DEF Refresh
  <1>2. net' \subseteq Message
    BY <1>1, RefreshFloodsAreMessages DEF TypeOK, Reaching
  <1>3. refreshes' \in 0 .. MaxRefresh
    BY SetupAssumption DEF Refresh, TypeOK
  <1> QED
    BY <1>2, <1>3 DEF TypeOK, Refresh, relayVars, clientVars

LEMMA TypeFloods ==
    ASSUME TypeOK, NEW m \in net, RefuseFlood(m) \/ StartFlood(m)
    PROVE  TypeOK'
  <1>1. CASE RefuseFlood(m)
    BY <1>1 DEF TypeOK, RefuseFlood, relayVars, serverVars, clientVars
  <1>2. CASE StartFlood(m)
    <2>1. m \in Flood /\ m.dst \in Relays
      BY <1>2, MessageKinds DEF TypeOK, StartFlood
    <2>2. [node |-> m.dst, stage |-> "timing", from |-> m.from, id |-> m.id,
           client |-> m.client, trail |-> m.trail, todo |-> {}] \in Handler
      BY <2>1 DEF Flood, Handler
    <2>3. handlers' \subseteq Handler
      BY <1>2, <2>2 DEF StartFlood, TypeOK
    <2> QED
      BY <1>2, <2>3 DEF TypeOK, StartFlood, serverVars, clientVars
  <1> QED
    BY <1>1, <1>2

LEMMA TypeFloodTimed ==
    ASSUME TypeOK, NEW h \in handlers, FloodTimed(h)
    PROVE  TypeOK'
  <1>1. h \in Handler
    BY DEF TypeOK
  <1>2. /\ h.node \in Relays /\ h.from \in Addr(Ips) /\ h.id \in ConnId
        /\ h.client \in Clients \union {NoClient}
    BY <1>1 DEF Handler
  <1>3. table' \in [Relays -> SUBSET Entry(Ips)]
    <2>1. AddEntry(table[h.node], FromEntry(h.from, h.id, FALSE))
             \in SUBSET Entry(Ips)
      BY <1>2, ToEntryIsEntry, AddEntryIsTable DEF TypeOK
    <2> QED
      BY <2>1 DEF FloodTimed, TypeOK
  <1>4. At(h.client) \in Addr(Ips) /\ At(h.client) \in Addr(Ips \ {Server})
    BY <1>2, HostsAssumption DEF At, Addr
  <1>5. peers' \in [Relays -> SUBSET Addr(Ips)]
    BY <1>2, <1>4 DEF FloodTimed, TypeOK
  <1>6. Targets(h) \in SUBSET Addr(Ips \ {Server})
    BY <1>2, <1>4 DEF Targets, TypeOK, Addr
  <1>7. [h EXCEPT !.stage = "forwarding", !.todo = Targets(h)] \in Handler
    BY <1>1, <1>6 DEF Handler
  <1>8. handlers' \subseteq Handler
    BY <1>7 DEF FloodTimed, Advance, TypeOK
  <1> QED
    BY <1>3, <1>5, <1>8 DEF TypeOK, FloodTimed, serverVars, clientVars

LEMMA TypeForwardFlood ==
    ASSUME TypeOK, NEW h \in handlers, NEW a \in h.todo, ForwardFlood(h, a)
    PROVE  TypeOK'
  <1>1. h \in Handler
    BY DEF TypeOK
  <1>2. /\ h.node \in Relays /\ h.id \in ConnId
        /\ a \in Addr(Ips) /\ a \in Addr(Ips \ {Server})
        /\ h.client \in Clients \union {NoClient}
        /\ h.trail \union {h.node} \in SUBSET Relays
    BY <1>1 DEF Handler, Addr
  <1>3. PICK new \in OutgoingIds(table[h.node], h.id, a) :
        \E k \in ArrivalPorts(h.node, a, new) :
          /\ table' = [table EXCEPT ![h.node] = AddOutgoing(@, h.id, a, new)]
          /\ net' = net \union Reaching(
                {FloodMsg(a.ip, [ip |-> h.node, port |-> k], new, h.client,
                          h.trail \union {h.node})})
    BY DEF ForwardFlood
  <1>k. PICK k \in ArrivalPorts(h.node, a, new) :
          /\ table' = [table EXCEPT ![h.node] = AddOutgoing(@, h.id, a, new)]
          /\ net' = net \union Reaching(
                {FloodMsg(a.ip, [ip |-> h.node, port |-> k], new, h.client,
                          h.trail \union {h.node})})
    BY <1>3
  <1>4. table[h.node] \in SUBSET Entry(Ips)
    BY <1>2 DEF TypeOK
  <1>5. new \in ConnId
    BY <1>2, <1>4, OutgoingIdIsId
  <1>6. table' \in [Relays -> SUBSET Entry(Ips)]
    BY <1>2, <1>k, <1>4, <1>5, AddOutgoingIsTable DEF TypeOK
  <1>7. [ip |-> h.node, port |-> k] \in Addr(Ips)
    <2>1. k \in Nat
      BY SetupAssumption DEF ArrivalPorts
    <2> QED
      BY <1>2, <2>1 DEF Addr
  <1>8. ASSUME a.ip \in alive
        PROVE  FloodMsg(a.ip, [ip |-> h.node, port |-> k], new, h.client,
                        h.trail \union {h.node}) \in Message
    <2>1. a.ip \in Relays \union Clients
      BY <1>2, <1>8, HostsAssumption DEF Addr, TypeOK
    <2> QED
      BY <1>2, <1>5, <1>7, <2>1, FloodIsMessage
  <1>9. net' \subseteq Message
    <2> DEFINE f == FloodMsg(a.ip, [ip |-> h.node, port |-> k], new, h.client,
                             h.trail \union {h.node})
    <2>1. f.dst = a.ip
      BY DEF FloodMsg
    <2>2. ASSUME NEW m \in net', m \notin net
          PROVE  m = f /\ f.dst \in alive
      BY <1>k, <2>2 DEF Reaching
    <2> HIDE DEF f
    <2>3. a.ip \in alive => f \in Message
      BY <1>8 DEF f
    <2> QED
      BY <2>1, <2>2, <2>3 DEF TypeOK
  <1>10. [h EXCEPT !.todo = @ \ {a}] \in Handler
    BY <1>1 DEF Handler
  <1>11. handlers' \subseteq Handler
    BY <1>10 DEF ForwardFlood, Advance, TypeOK
  <1> QED
    BY <1>6, <1>9, <1>11 DEF TypeOK, ForwardFlood, serverVars, clientVars

\* Marking entries leaves a table of entries.
LEMMA MarkInUseIsTable ==
    ASSUME NEW T \in SUBSET Entry(Ips), NEW S
    PROVE  MarkInUse(T, S) \in SUBSET Entry(Ips)
  BY MarkInUseEntry

LEMMA AcceptedUpAreMessages ==
    ASSUME TypeOK, NEW n \in Relays, NEW e \in Entry(Ips), NEW a,
           NEW x \in Reaching({AcceptedMsg(e.addr.ip, Seen(n, a), e.id)})
    PROVE  x \in Message
  <1>1. x = AcceptedMsg(e.addr.ip, Seen(n, a), e.id) /\ x.dst \in alive
    BY DEF Reaching
  <1>2. e.addr.ip \in Hosts
    BY <1>1 DEF AcceptedMsg, TypeOK
  <1>3. e.id \in ConnId /\ Seen(n, a) \in Addr(Relays \union Clients)
    BY Addresses DEF Entry
  <1> QED
    BY <1>1, <1>2, <1>3, AcceptedIsMessage

LEMMA TypeAcceptedConn ==
    ASSUME TypeOK, NEW m \in net, HandleAcceptedConn(m)
    PROVE  TypeOK'
  <1> DEFINE up == Upstreams(table[m.dst], m.id)
  <1>1. m \in Accepted /\ m.dst \in Relays
    BY MessageKinds DEF TypeOK, HandleAcceptedConn
  <1>2. table[m.dst] \in SUBSET Entry(Ips)
    BY <1>1 DEF TypeOK
  <1>3. up \subseteq table[m.dst]
    BY DEF Upstreams, FromsOf
  <1>4. table' \in [Relays -> SUBSET Entry(Ips)]
    <2>1. Accept(table[m.dst], m.id, m.from) \in SUBSET Entry(Ips)
      BY <1>2, MarkInUseIsTable DEF Accept
    <2> QED
      BY <1>1, <2>1 DEF HandleAcceptedConn, TypeOK
  <1>5. ASSUME NEW x \in net', x \notin net
        PROVE  x \in Message
    <2>1. PICK e \in up :
             x = AcceptedMsg(e.addr.ip, Seen(m.dst, e.addr), e.id)
             /\ x.dst \in alive
      BY <1>5 DEF HandleAcceptedConn, Reaching
    <2>2. e \in Entry(Ips)
      BY <1>2, <1>3
    <2>3. x \in Reaching({AcceptedMsg(e.addr.ip, Seen(m.dst, e.addr), e.id)})
      BY <2>1 DEF Reaching
    <2> QED
      BY <1>1, <2>2, <2>3, AcceptedUpAreMessages
  <1>6. ASSUME NEW e \in up
        PROVE  <<m.dst, e.addr.ip, KeyOf(e.id)>> \in Ips \X Ips \X Contents
    <2>1. e.addr \in Addr(Ips) /\ e.id \in ConnId
      BY <1>2, <1>3 DEF Entry
    <2> QED
      BY <1>1, <2>1, KeyIsContent DEF Addr
  <1>7. net' \subseteq Message
    BY <1>5 DEF TypeOK
  <1>8. accepts' \subseteq Ips \X Ips \X Contents
    BY <1>6 DEF HandleAcceptedConn, TypeOK
  <1> QED
    BY <1>4, <1>7, <1>8 DEF TypeOK, HandleAcceptedConn, serverVars, clientVars

LEMMA NotifiedAreMessages ==
    ASSUME TypeOK, NEW T, NEW key \in Contents,
           NEW x \in Notified(T, key), x.dst \in alive
    PROVE  x \in Message
  <1>1. PICK ip : x = EndMsg(ip, key)
    BY DEF Notified
  <1>2. ip \in Hosts
    BY <1>1 DEF EndMsg, TypeOK
  <1> QED
    BY <1>1, <1>2, EndIsMessage

LEMMA TypeEndOfStream ==
    ASSUME TypeOK, NEW m \in net, HandleEndOfStream(m)
    PROVE  TypeOK'
  <1>1. m \in EndOfStream /\ m.dst \in Relays
    BY MessageKinds DEF TypeOK, HandleEndOfStream
  <1>2. m.key \in Contents
    BY <1>1 DEF EndOfStream
  <1>3. net' \subseteq Message
    BY <1>2, NotifiedAreMessages DEF HandleEndOfStream, Reaching, TypeOK
  <1>4. table' \in [Relays -> SUBSET Entry(Ips)]
    BY <1>1 DEF HandleEndOfStream, TypeOK
  <1> QED
    BY <1>3, <1>4 DEF TypeOK, HandleEndOfStream, serverVars, clientVars

LEMMA TypeForget ==
    ASSUME TypeOK, NEW n \in Relays, NEW a, Forget(n, a)
    PROVE  /\ peers' \in [Relays -> SUBSET Addr(Ips)]
           /\ handlers' \subseteq Handler
  <1>1. ASSUME NEW h \in handlers
        PROVE  [h EXCEPT !.todo = @ \ {a}] \in Handler
    BY DEF TypeOK, Handler
  <1>2. handlers' \subseteq Handler
    BY <1>1 DEF Forget, TypeOK
  <1>3. peers' \in [Relays -> SUBSET Addr(Ips)]
    BY DEF Forget, TypeOK
  <1> QED
    BY <1>2, <1>3

LEMMA TypeDeath ==
    ASSUME TypeOK, NEW n \in Relays, NEW a,
           ClientDeath(n, a) \/ ServerDeath(n, a) \/ RelayDeath(n, a)
    PROVE  TypeOK'
  <1>1. table[n] \in SUBSET Entry(Ips)
    BY DEF TypeOK
  <1>2. CASE ClientDeath(n, a)
    <2>1. table' \in [Relays -> SUBSET Entry(Ips)]
      BY <1>1, <1>2 DEF ClientDeath, TypeOK
    <2> QED
      BY <1>2, <2>1, TypeForget
      DEF TypeOK, ClientDeath, serverVars, clientVars
  <1>3. CASE ServerDeath(n, a)
    <2> DEFINE from == {e \in FromsOf(table[n]) : e.addr.ip = Server}
               keys == {KeyOf(e.id) : e \in from}
    <2>1. keys \subseteq Contents
      BY <1>1, KeyIsContent DEF FromsOf, Entry
    <2>2. table' \in [Relays -> SUBSET Entry(Ips)]
      BY <1>1, <1>3 DEF ServerDeath, TypeOK
    <2>3. net' = net \union Reaching(UNION {Notified(table[n], key) : key \in keys})
      BY <1>3 DEF ServerDeath
    <2> HIDE DEF keys
    <2>4. net' \subseteq Message
      <3>1. ASSUME NEW x \in net', x \notin net
            PROVE  x \in Message
        <4>1. /\ x.dst \in alive
              /\ \E key \in keys : x \in Notified(table[n], key)
          BY <2>3, <3>1 DEF Reaching
        <4> QED
          BY <2>1, <4>1, NotifiedAreMessages
      <3> QED
        BY <3>1 DEF TypeOK
    <2> QED
      BY <1>3, <2>2, <2>4, TypeForget
      DEF TypeOK, ServerDeath, serverVars, clientVars
  <1>4. CASE RelayDeath(n, a)
    <2> DEFINE lost == LostWith(table[n], a.ip)
    <2>1. lost \in SUBSET Entry(Ips)
      BY <1>1, LostIsPart
    <2>2. table' \in [Relays -> SUBSET Entry(Ips)]
      BY <1>1, <1>4 DEF RelayDeath, TypeOK
    <2>3. ASSUME NEW key \in Contents
          PROVE  [stage |-> "source", node |-> n, key |-> key,
                  dests |-> Interrupted(lost, key)] \in Recovery
      <3>1. Interrupted(lost, key) \in SUBSET Ips
        BY <2>1, InterruptedHosts
      <3> HIDE DEF lost
      <3> QED
        BY <3>1 DEF Recovery
    <2>4. recoveries' \subseteq Recovery
      BY <1>4, <2>3 DEF RelayDeath, TypeOK
    <2> QED
      BY <1>4, <2>2, <2>4, TypeForget
      DEF TypeOK, RelayDeath, serverVars, clientVars
  <1> QED
    BY <1>2, <1>3, <1>4

\* A step that only takes away, whatever empty acceptances it sends.
TakesAway ==
    /\ alive' \subseteq alive
    /\ \A n \in Relays : table'[n] \subseteq table[n] /\ peers'[n] \subseteq peers[n]
    /\ handlers' \subseteq handlers /\ recoveries' \subseteq recoveries
    /\ pending' \subseteq pending
    /\ routes' \subseteq routes /\ ongoing' \subseteq ongoing
    /\ \A m \in net' : m \in net \/ m.type = "EmptyAccepted"
    /\ UNCHANGED <<asked, status, accepts>>

LEMMA TypeStop ==
    ASSUME TypeOK, NEW x, NEW last, Stop(x, last),
           \A m \in last : m.dst \in alive => m \in EmptyAccepted
    PROVE  TypeOK' /\ TakesAway
  <1>1. Reaching(last) \subseteq EmptyAccepted
    BY DEF Reaching
  <1>2. net' \subseteq Message
    BY <1>1 DEF Stop, TypeOK, Message
  <1>3. TypeOK'
    BY <1>2 DEF TypeOK, Stop
  <1>4. \A m \in net' : m \in net \/ m.type = "EmptyAccepted"
    BY <1>1 DEF Stop, EmptyAccepted
  <1>5. TakesAway
    BY <1>4 DEF TypeOK, Stop, TakesAway
  <1> QED
    BY <1>3, <1>5

\* Every process that stops stops in one of these ways.
LEMMA StopsTakeAway ==
    ASSUME TypeOK
    PROVE  /\ \A x : Crash(x) => TypeOK' /\ TakesAway
           /\ \A r : RestorePanics(r) => TypeOK' /\ TakesAway
           /\ \A m \in net : HandleEmptyAccepted(m) => TypeOK' /\ TakesAway
  <1>1. ASSUME NEW x, Crash(x) PROVE TypeOK' /\ TakesAway
    BY <1>1, TypeStop DEF Crash
  <1>2. ASSUME NEW r, RestorePanics(r) PROVE TypeOK' /\ TakesAway
    <2> DEFINE f == EmptyAcceptedMsg(r.source.ip)
    <2>1. f.dst \in alive => f \in EmptyAccepted
      BY DEF EmptyAcceptedMsg, EmptyAccepted, TypeOK
    <2>2. Stop(r.node, {f})
      BY <1>2 DEF RestorePanics
    <2> HIDE DEF f
    <2> QED
      BY <2>1, <2>2, TypeStop
  <1>3. ASSUME NEW m \in net, HandleEmptyAccepted(m) PROVE TypeOK' /\ TakesAway
    <2>1. CASE Stop(Server, {})
      BY <2>1, TypeStop
    <2>2. CASE /\ net' = net \ {m}
               /\ UNCHANGED <<alive, relayVars, serverVars, clientVars, accepts>>
      BY <2>2 DEF TypeOK, TakesAway, relayVars, serverVars, clientVars
    <2> QED
      BY <1>3, <2>1, <2>2 DEF HandleEmptyAccepted
  <1> QED
    BY <1>1, <1>2, <1>3

LEMMA NearestAreEntries ==
    ASSUME TypeOK, NEW n \in Relays, NEW s, NEW e \in Nearest(n, s)
    PROVE  /\ e \in Entry(Ips)
           /\ e \in table[n] /\ e.side = "from" /\ e.addr.ip = s.ip
  BY DEF Nearest, FromsOf, TypeOK

LEMMA TypeRestoreSource ==
    ASSUME TypeOK, NEW r \in recoveries, RestoreSource(r)
    PROVE  TypeOK'
  <1>1. r \in Recovery /\ r.stage = "source"
    BY DEF TypeOK, RestoreSource
  <1>2. r.node \in Relays /\ r.key \in Contents /\ r.dests \in SUBSET Ips
    BY <1>1 DEF Recovery
  <1>3. ASSUME NEW e \in OfContent(FromsOf(table[r.node]), r.key)
        PROVE  [stage |-> "choose", node |-> r.node, key |-> r.key,
                dests |-> r.dests, source |-> e.addr] \in Recovery
    <2>1. e.addr \in Addr(Ips)
      <3>1. table[r.node] \in SUBSET Entry(Ips) /\ e \in table[r.node]
        BY <1>2 DEF OfContent, FromsOf, TypeOK
      <3> QED
        BY <3>1 DEF Entry
    <2> QED
      BY <1>2, <2>1 DEF Recovery
  <1>4. recoveries' \subseteq Recovery
    BY <1>3 DEF RestoreSource, TypeOK
  <1> QED
    BY <1>4 DEF TypeOK, RestoreSource, serverVars, clientVars

LEMMA TypeRestoreChoose ==
    ASSUME TypeOK, NEW r \in recoveries, RestoreChoose(r)
    PROVE  TypeOK'
  <1>1. r \in Recovery /\ r.stage = "choose"
    BY DEF TypeOK, RestoreChoose
  <1>2. /\ r.node \in Relays /\ r.key \in Contents /\ r.dests \in SUBSET Ips
        /\ r.source \in Addr(Ips)
    BY <1>1 DEF Recovery
  <1>3. PICK e \in Nearest(r.node, r.source) :
          /\ net' = net \union Reaching(
                {AcceptedMsg(r.source.ip, Seen(r.node, r.source), e.id)})
          /\ accepts' = accepts \union {<<r.node, r.source.ip, KeyOf(e.id)>>}
          /\ recoveries' = (recoveries \ {r}) \union
                {[stage |-> "accept", node |-> r.node, key |-> r.key,
                  dests |-> r.dests, pick |-> e]}
    BY DEF RestoreChoose
  <1>4. e \in Entry(Ips) /\ e.addr.ip = r.source.ip
    BY <1>2, NearestAreEntries
  <1>5. [stage |-> "accept", node |-> r.node, key |-> r.key,
         dests |-> r.dests, pick |-> e] \in Recovery
    BY <1>2, <1>4 DEF Recovery
  <1>6. recoveries' \subseteq Recovery
    BY <1>3, <1>5 DEF TypeOK
  <1>7. net' \subseteq Message
    BY <1>2, <1>3, <1>4, AcceptedUpAreMessages DEF TypeOK
  <1>8. accepts' \subseteq Ips \X Ips \X Contents
    <2>1. e.id \in ConnId
      BY <1>4 DEF Entry
    <2>2. <<r.node, r.source.ip, KeyOf(e.id)>> \in Ips \X Ips \X Contents
      BY <1>2, <2>1, KeyIsContent DEF Addr
    <2> QED
      BY <1>3, <2>2 DEF TypeOK
  <1> QED
    BY <1>6, <1>7, <1>8 DEF TypeOK, RestoreChoose, serverVars, clientVars

LEMMA TypeRestoreAccept ==
    ASSUME TypeOK, NEW r \in recoveries, RestoreAccept(r)
    PROVE  TypeOK'
  <1>1. r \in Recovery /\ r.stage = "accept"
    BY DEF TypeOK, RestoreAccept
  <1>2. r.node \in Relays /\ r.pick \in Entry(Ips)
    BY <1>1 DEF Recovery
  <1> DEFINE pick == [r.pick EXCEPT !.inUse = TRUE]
             T    == AddEntry(table[r.node], pick)
  <1>3. pick \in Entry(Ips)
    BY <1>2 DEF Entry
  <1>4. T \in SUBSET Entry(Ips)
    BY <1>2, <1>3, AddEntryIsTable DEF TypeOK
  <1>5. Reactivate(T, r.key, r.dests) \in SUBSET Entry(Ips)
    BY <1>4, MarkInUseIsTable DEF Reactivate
  <1>6. table' \in [Relays -> SUBSET Entry(Ips)]
    BY <1>2, <1>5 DEF RestoreAccept, TypeOK
  <1> QED
    BY <1>6 DEF TypeOK, RestoreAccept, serverVars, clientVars

LEMMA TypeAsk ==
    ASSUME TypeOK, NEW c \in Clients, Ask(c)
    PROVE  TypeOK'
  <1>1. [type |-> "IWantStream", dst |-> Server, client |-> c] \in Message
    BY DEF Message, IWantStream
  <1>2. net' \subseteq Message
    BY <1>1 DEF Ask, Reaching, TypeOK
  <1> QED
    BY <1>2 DEF TypeOK, Ask, relayVars, serverVars

LEMMA TypeReceiveOffer ==
    ASSUME TypeOK, NEW m \in net, ReceiveOffer(m)
    PROVE  TypeOK'
  <1>1. m \in Flood
    BY MessageKinds DEF TypeOK, ReceiveOffer
  <1>2. ASSUME m.dst \in Clients
        PROVE  [client |-> m.dst, from |-> m.from, id |-> m.id] \in Offer
    BY <1>1, <1>2 DEF Flood, Offer
  <1>3. pending' \subseteq Offer
    BY <1>2 DEF ReceiveOffer, TypeOK
  <1> QED
    BY <1>3 DEF TypeOK, ReceiveOffer, relayVars, serverVars

LEMMA TypeAcceptOffer ==
    ASSUME TypeOK, NEW p \in pending, AcceptOffer(p)
    PROVE  TypeOK'
  <1>1. p.client \in Clients /\ p.from \in Addr(Ips) /\ p.id \in ConnId
    BY DEF TypeOK, Offer
  <1>2. <<p.client, p.from.ip, KeyOf(p.id)>> \in Ips \X Ips \X Contents
    BY <1>1, KeyIsContent DEF Addr
  <1>3. ASSUME p.from.ip \in alive
        PROVE  AcceptedMsg(p.from.ip, At(p.client), p.id) \in Message
    BY <1>1, <1>3, Addresses, AcceptedIsMessage DEF TypeOK
  <1>4. net' \subseteq Message
    <2> DEFINE f == AcceptedMsg(p.from.ip, At(p.client), p.id)
    <2>1. f.dst = p.from.ip
      BY DEF AcceptedMsg
    <2>2. ASSUME NEW m \in net', m \notin net
          PROVE  m = f /\ f.dst \in alive
      BY <2>2 DEF AcceptOffer, Reaching
    <2> QED
      BY <1>3, <2>1, <2>2 DEF TypeOK
  <1>5. status' \in [Clients -> {"STARTING", "AWAITING_STREAM"}]
    BY <1>1 DEF AcceptOffer, TypeOK
  <1>6. accepts' \subseteq Ips \X Ips \X Contents
    BY <1>2 DEF AcceptOffer, TypeOK
  <1> QED
    BY <1>4, <1>5, <1>6 DEF TypeOK, AcceptOffer, relayVars, serverVars

LEMMA TypeStep ==
    TypeOK /\ [Next]_vars => TypeOK'
  <1> SUFFICES ASSUME TypeOK, [Next]_vars PROVE TypeOK'
    OBVIOUS
  <1>1. CASE Step
    <2>1. ASSUME NEW m \in net,
                 HandleIWantStream(m) \/ HandleAcceptedAtServer(m)
                 \/ HandleEmptyAccepted(m) \/ RefuseFlood(m) \/ StartFlood(m)
                 \/ HandleAcceptedConn(m) \/ HandleEndOfStream(m)
                 \/ ReceiveOffer(m)
          PROVE  TypeOK'
      BY <2>1, TypeIWantStream, TypeAcceptedAtServer, TypeFloods,
         TypeAcceptedConn, TypeEndOfStream, TypeReceiveOffer, StopsTakeAway
    <2>2. ASSUME NEW r \in recoveries,
                 RestoreSource(r) \/ RestoreChoose(r) \/ RestorePanics(r)
                 \/ RestoreAccept(r)
          PROVE  TypeOK'
      BY <2>2, TypeRestoreSource, TypeRestoreChoose, TypeRestoreAccept,
         StopsTakeAway
    <2> QED
      BY <1>1, <2>1, <2>2, TypeForwardFlood, TypeAcceptOffer, TypeDeath DEF Step
  <1>2. CASE Timed
    BY <1>2, TypeFloodTimed DEF Timed
  <1>3. CASE Outside
    BY <1>3, TypeAsk, TypeEndStream, TypeRefresh, StopsTakeAway DEF Outside
  <1>4. CASE UNCHANGED vars
    BY <1>4 DEF TypeOK, vars, relayVars, serverVars, clientVars
  <1> QED
    BY <1>1, <1>2, <1>3, <1>4 DEF Next

\* Every variable keeps to its kind: no step of any process builds an entry,
\* a goroutine or a message of a host or a content that does not exist.
THEOREM TypeCorrect == Spec => []TypeOK
  BY TypeInit, TypeStep, PTL DEF Spec
=============================================================================
