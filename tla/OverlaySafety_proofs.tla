------------------------ MODULE OverlaySafety_proofs ------------------------
(***************************************************************************)
(* What flows in the overlay, for any topology, any number of clients and  *)
(* contents and any set of processes that may stop, in three stages, each  *)
(* resting on the ones before it: nobody is sent what it has not accepted; *)
(* a client is fed only what it asked for; and the overlay implements the  *)
(* abstract specification Demand.                                          *)
(***************************************************************************)
EXTENDS Overlay_proofs

-----------------------------------------------------------------------------
(***************************************************************************)
(* Nobody is sent what it has not accepted.                                *)
(*                                                                         *)
(* Solicited is not inductive: HandleAcceptedConn marks the entries an     *)
(* acceptance names, and RestoreAccept those of the hosts a goroutine has  *)
(* kept since it purged the table, so both must go back to an acceptance.  *)
(***************************************************************************)
AcceptancesSent ==
    \A m \in net : m.type = "AcceptedConn" =>
        <<m.from.ip, m.dst, KeyOf(m.id)>> \in accepts

DestsAccepted ==
    \A r \in recoveries : \A d \in r.dests : <<d, r.node, r.key>> \in accepts

PicksAreSources ==
    \A r \in recoveries : r.stage = "accept" => r.pick.side = "from"

SolicitedInv ==
    TypeOK /\ Solicited /\ AcceptancesSent /\ DestsAccepted /\ PicksAreSources

\* A step that marks no outgoing entry, sends no acceptance, starts no
\* recovery and takes nothing back preserves the invariant.
LEMMA NothingMarked ==
    ASSUME SolicitedInv, TypeOK', accepts \subseteq accepts',
           \A n \in Relays : \A e \in TosOf(table'[n]) :
               e.inUse => e \in TosOf(table[n]),
           \A m \in net' : m.type = "AcceptedConn" => m \in net,
           recoveries' \subseteq recoveries
    PROVE  SolicitedInv'
  <1>1. Solicited'
    BY DEF Solicited, SolicitedInv
  <1>2. AcceptancesSent'
    BY DEF AcceptancesSent, SolicitedInv
  <1>3. DestsAccepted' /\ PicksAreSources'
    BY DEF DestsAccepted, PicksAreSources, SolicitedInv
  <1> QED
    BY <1>1, <1>2, <1>3 DEF SolicitedInv

\* An entry that Map leaves in use was in use or has been marked.
LEMMA MarkedTo ==
    ASSUME NEW T, T \subseteq Entry(Ips), NEW S,
           NEW f, f \in TosOf(MarkInUse(T, S)), f.inUse
    PROVE  \E e \in TosOf(T) : /\ e.addr = f.addr /\ e.id = f.id
                               /\ e.inUse \/ e \in S
  <1>1. f \in MarkInUse(T, S) /\ f.side = "to"
    BY DEF TosOf
  <1>2. PICK e \in T : SameKey(e, f) /\ (f.inUse => e.inUse \/ e \in S)
    BY <1>1, MarkInUseEntry
  <1>3. e \in TosOf(T)
    BY <1>1, <1>2 DEF SameKey, TosOf
  <1> QED
    BY <1>2, <1>3 DEF SameKey

LEMMA SolicitedServer ==
    ASSUME SolicitedInv, TypeOK',
           \/ \E m \in net : \/ HandleIWantStream(m) \/ HandleAcceptedAtServer(m)
                             \/ RefuseFlood(m) \/ StartFlood(m) \/ ReceiveOffer(m)
           \/ \E c \in Clients : Ask(c)
    PROVE  SolicitedInv'
  <1>1. \A m \in net' : m.type = "AcceptedConn" => m \in net
    BY DEF HandleIWantStream, HandleAcceptedAtServer, RefuseFlood, StartFlood,
           ReceiveOffer, Ask, Reaching, FloodMsg
  <1>2. UNCHANGED <<table, recoveries, accepts>>
    BY DEF HandleIWantStream, HandleAcceptedAtServer, RefuseFlood, StartFlood,
           ReceiveOffer, Ask, relayVars
  <1> QED
    BY <1>1, <1>2, NothingMarked DEF TosOf

LEMMA SolicitedStream ==
    ASSUME SolicitedInv, TypeOK', NEW c \in Contents, EndStream(c) \/ Refresh(c)
    PROVE  SolicitedInv'
  <1>1. UNCHANGED <<table, recoveries, accepts>>
    BY DEF EndStream, Refresh, relayVars
  <1>2. CASE EndStream(c)
    BY <1>1, <1>2, NothingMarked DEF TosOf, EndStream, Reaching, EndMsg
  <1>3. CASE Refresh(c)
    <2>1. \A m \in net' : m.type = "AcceptedConn" => m \in net
      BY <1>3, RefreshFloodsAreMessages DEF Refresh, Reaching, SolicitedInv
    <2> QED
      BY <1>1, <2>1, NothingMarked DEF TosOf
  <1> QED
    BY <1>2, <1>3

LEMMA SolicitedFloods ==
    ASSUME SolicitedInv, TypeOK', NEW h \in handlers,
           FloodTimed(h) \/ \E a \in h.todo : ForwardFlood(h, a)
    PROVE  SolicitedInv'
  <1>1. h.node \in Relays /\ table \in [Relays -> SUBSET Entry(Ips)]
    BY DEF SolicitedInv, TypeOK, Handler
  <1>2. CASE FloodTimed(h)
    <2>1. UNCHANGED <<net, recoveries, accepts>>
      BY <1>2 DEF FloodTimed
    <2>2. \A n \in Relays : \A e \in TosOf(table'[n]) : e \in TosOf(table[n])
      BY <1>1, <1>2 DEF FloodTimed, TosOf, AddEntry, FromEntry
    <2> QED
      BY <2>1, <2>2, NothingMarked
  <1>3. ASSUME NEW a \in h.todo, ForwardFlood(h, a)
        PROVE  SolicitedInv'
    <2>1. UNCHANGED <<recoveries, accepts>>
      BY <1>3 DEF ForwardFlood
    <2>2. \A m \in net' : m.type = "AcceptedConn" => m \in net
      BY <1>3 DEF ForwardFlood, Reaching, FloodMsg
    <2>3. \A n \in Relays : \A e \in TosOf(table'[n]) :
             e.inUse => e \in TosOf(table[n])
      BY <1>1, <1>3 DEF ForwardFlood, AddOutgoing, TosOf, ToEntry
    <2> QED
      BY <2>1, <2>2, <2>3, NothingMarked
  <1> QED
    BY <1>2, <1>3

LEMMA SolicitedAcceptedConn ==
    ASSUME SolicitedInv, TypeOK', NEW m \in net, HandleAcceptedConn(m)
    PROVE  SolicitedInv'
  <1> DEFINE up == Upstreams(table[m.dst], m.id)
             to == {e \in TosOf(table[m.dst]) : e.id = m.id /\ e.addr = m.from}
  <1>1. /\ m.type = "AcceptedConn" /\ m.dst \in Relays
        /\ table \in [Relays -> SUBSET Entry(Ips)]
        /\ accepts \subseteq accepts' /\ UNCHANGED recoveries
    BY DEF SolicitedInv, TypeOK, HandleAcceptedConn
  <1>2. <<m.from.ip, m.dst, KeyOf(m.id)>> \in accepts
    BY <1>1 DEF SolicitedInv, AcceptancesSent
  <1>3. table' = [table EXCEPT ![m.dst] = MarkInUse(@, up \union to)]
    BY DEF HandleAcceptedConn, Accept
  <1>4. ASSUME NEW n \in Relays, NEW f \in TosOf(table'[n]), f.inUse
        PROVE  <<f.addr.ip, n, KeyOf(f.id)>> \in accepts
    <2>1. CASE n # m.dst
      BY <1>1, <1>3, <1>4, <2>1 DEF SolicitedInv, Solicited
    <2>2. CASE n = m.dst
      <3>1. /\ table[n] \in SUBSET Entry(Ips)
            /\ f \in TosOf(MarkInUse(table[n], up \union to))
        BY <1>1, <1>3, <2>2
      <3>2. PICK e \in TosOf(table[n]) :
               /\ e.addr = f.addr /\ e.id = f.id
               /\ e.inUse \/ e \in up \union to
        <4> DEFINE S == up \union to
        <4>1. f \in TosOf(MarkInUse(table[n], S))
          BY <3>1
        <4> HIDE DEF S
        <4>2. \E e \in TosOf(table[n]) : /\ e.addr = f.addr /\ e.id = f.id
                                         /\ e.inUse \/ e \in S
          BY <1>4, <3>1, <4>1, MarkedTo
        <4> QED
          BY <4>2 DEF S
      <3>3. CASE e.inUse
        BY <3>2, <3>3 DEF SolicitedInv, Solicited
      <3>4. CASE e \in up
        BY <3>2, <3>4 DEF Upstreams, FromsOf, TosOf
      <3>5. CASE e \in to
        BY <1>2, <2>2, <3>2, <3>5
      <3> QED
        BY <3>2, <3>3, <3>4, <3>5
    <2> QED
      BY <2>1, <2>2
  <1>5. Solicited'
    BY <1>1, <1>4 DEF Solicited
  <1>6. ASSUME NEW x \in net', x.type = "AcceptedConn"
        PROVE  <<x.from.ip, x.dst, KeyOf(x.id)>> \in accepts'
    <2>1. CASE x \in net
      BY <1>1, <1>6, <2>1 DEF SolicitedInv, AcceptancesSent
    <2>2. CASE x \notin net
      <3>1. PICK e \in up : x = AcceptedMsg(e.addr.ip, Seen(m.dst, e.addr), e.id)
        <4>1. net' = (net \ {m}) \union Reaching(
                 {AcceptedMsg(e.addr.ip, Seen(m.dst, e.addr), e.id) : e \in up})
          BY DEF HandleAcceptedConn
        <4> HIDE DEF up
        <4> QED
          BY <2>2, <4>1 DEF Reaching
      <3>2. x.from.ip = m.dst /\ x.dst = e.addr.ip /\ x.id = e.id
        BY <3>1 DEF AcceptedMsg, Seen
      <3> QED
        BY <3>2 DEF HandleAcceptedConn
    <2> QED
      BY <2>1, <2>2
  <1>7. AcceptancesSent'
    BY <1>6 DEF AcceptancesSent
  <1>8. DestsAccepted' /\ PicksAreSources'
    BY <1>1 DEF SolicitedInv, DestsAccepted, PicksAreSources
  <1> QED
    BY <1>5, <1>7, <1>8 DEF SolicitedInv

LEMMA SolicitedEndOfStream ==
    ASSUME SolicitedInv, TypeOK', NEW m \in net, HandleEndOfStream(m)
    PROVE  SolicitedInv'
  <1>1. UNCHANGED <<recoveries, accepts>>
    BY DEF HandleEndOfStream
  <1>2. \A x \in net' : x.type = "AcceptedConn" => x \in net
    BY DEF HandleEndOfStream, Reaching, Notified, EndMsg
  <1>3. \A n \in Relays : table'[n] \subseteq table[n]
    BY DEF HandleEndOfStream, SolicitedInv, TypeOK
  <1> QED
    BY <1>1, <1>2, <1>3, NothingMarked DEF TosOf

LEMMA SolicitedDeath ==
    ASSUME SolicitedInv, TypeOK', NEW n \in Relays, NEW a,
           ClientDeath(n, a) \/ ServerDeath(n, a) \/ RelayDeath(n, a)
    PROVE  SolicitedInv'
  <1>1. /\ table \in [Relays -> SUBSET Entry(Ips)]
        /\ UNCHANGED accepts
    BY DEF SolicitedInv, TypeOK, ClientDeath, ServerDeath, RelayDeath
  <1>2. \A x \in Relays : table'[x] \subseteq table[x]
    BY <1>1 DEF ClientDeath, ServerDeath, RelayDeath, TosOf
  <1>3. \A m \in net' : m.type = "AcceptedConn" => m \in net
    BY DEF ClientDeath, ServerDeath, RelayDeath, Reaching, Notified, EndMsg
  <1>4. CASE ClientDeath(n, a) \/ ServerDeath(n, a)
    <2>1. UNCHANGED recoveries
      BY <1>4 DEF ClientDeath, ServerDeath
    <2> QED
      BY <1>1, <1>2, <1>3, <2>1, NothingMarked DEF TosOf
  <1>5. CASE RelayDeath(n, a)
    <2> DEFINE lost == LostWith(table[n], a.ip)
    <2>1. Solicited'
      BY <1>1, <1>2 DEF SolicitedInv, Solicited, TosOf
    <2>2. AcceptancesSent'
      BY <1>1, <1>3 DEF SolicitedInv, AcceptancesSent
    <2>3. ASSUME NEW key \in Contents, NEW d \in Interrupted(lost, key)
          PROVE  <<d, n, key>> \in accepts
      <3>1. lost \in SUBSET Entry(Ips) /\ lost \subseteq table[n]
        BY <1>1, LostIsPart
      <3>2. PICK e \in TosOf(lost) : e.inUse /\ e.addr.ip = d /\ KeyOf(e.id) = key
        BY <3>1, InterruptedHosts
      <3>3. e \in TosOf(table[n])
        BY <3>1, <3>2 DEF TosOf
      <3> QED
        BY <3>2, <3>3 DEF SolicitedInv, Solicited
    <2>4. ASSUME NEW r \in recoveries', r \notin recoveries
          PROVE  /\ r.stage = "source"
                 /\ \A d \in r.dests : <<d, r.node, r.key>> \in accepts
      <3>1. PICK key \in Contents :
               r = [stage |-> "source", node |-> n, key |-> key,
                    dests |-> Interrupted(lost, key)]
        BY <1>5, <2>4 DEF RelayDeath
      <3> HIDE DEF lost
      <3> QED
        BY <2>3, <3>1
    <2>5. DestsAccepted' /\ PicksAreSources'
      BY <1>1, <2>4 DEF SolicitedInv, DestsAccepted, PicksAreSources
    <2> QED
      BY <2>1, <2>2, <2>5 DEF SolicitedInv
  <1> QED
    BY <1>4, <1>5

LEMMA SolicitedRestore ==
    ASSUME SolicitedInv, TypeOK', NEW r \in recoveries,
           RestoreSource(r) \/ RestoreChoose(r) \/ RestoreAccept(r)
    PROVE  SolicitedInv'
  <1>1. /\ r \in Recovery /\ r.node \in Relays /\ r.dests \in SUBSET Ips
        /\ table \in [Relays -> SUBSET Entry(Ips)]
    BY DEF SolicitedInv, TypeOK, Recovery
  <1>2. \A d \in r.dests : <<d, r.node, r.key>> \in accepts
    BY DEF SolicitedInv, DestsAccepted
  <1>3. CASE RestoreSource(r)
    <2>1. UNCHANGED <<table, net, accepts>>
      BY <1>3 DEF RestoreSource
    <2>2. ASSUME NEW x \in recoveries', x \notin recoveries
          PROVE  /\ x.stage = "choose" /\ x.node = r.node
                 /\ x.key = r.key /\ x.dests = r.dests
      BY <1>3, <2>2 DEF RestoreSource
    <2>3. DestsAccepted' /\ PicksAreSources'
      BY <1>2, <2>1, <2>2 DEF SolicitedInv, DestsAccepted, PicksAreSources
    <2> QED
      BY <2>1, <2>3 DEF SolicitedInv, Solicited, AcceptancesSent
  <1>4. CASE RestoreChoose(r)
    <2>1. PICK e \in Nearest(r.node, r.source) :
            /\ net' = net \union Reaching(
                  {AcceptedMsg(r.source.ip, Seen(r.node, r.source), e.id)})
            /\ accepts' = accepts \union {<<r.node, r.source.ip, KeyOf(e.id)>>}
            /\ recoveries' = (recoveries \ {r}) \union
                  {[stage |-> "accept", node |-> r.node, key |-> r.key,
                    dests |-> r.dests, pick |-> e]}
            /\ UNCHANGED table
      BY <1>4 DEF RestoreChoose
    <2>2. e.side = "from"
      BY <1>1, NearestAreEntries DEF SolicitedInv
    <2>3. DestsAccepted' /\ PicksAreSources'
      BY <1>2, <2>1, <2>2 DEF SolicitedInv, DestsAccepted, PicksAreSources
    <2>4. AcceptancesSent'
      <3>1. ASSUME NEW x \in net', x \notin net
            PROVE  x.from.ip = r.node /\ x.dst = r.source.ip /\ x.id = e.id
        BY <2>1, <3>1 DEF Reaching, AcceptedMsg, Seen
      <3> QED
        BY <2>1, <3>1 DEF SolicitedInv, AcceptancesSent
    <2>5. Solicited'
      BY <2>1 DEF SolicitedInv, Solicited
    <2> QED
      BY <2>3, <2>4, <2>5 DEF SolicitedInv
  <1>5. CASE RestoreAccept(r)
    <2> DEFINE pick == [r.pick EXCEPT !.inUse = TRUE]
               T    == AddEntry(table[r.node], pick)
               S    == {e \in OfContent(TosOf(T), r.key) : e.addr.ip \in r.dests}
    <2>1. UNCHANGED <<net, accepts>> /\ recoveries' \subseteq recoveries
      BY <1>5 DEF RestoreAccept
    <2>2. r.stage = "accept" /\ r.pick \in Entry(Ips) /\ r.pick.side = "from"
      BY <1>1, <1>5 DEF RestoreAccept, Recovery, SolicitedInv, PicksAreSources
    <2>3. pick \in Entry(Ips) /\ pick.side = "from"
      BY <2>2 DEF Entry
    <2>4. T \in SUBSET Entry(Ips) /\ TosOf(T) \subseteq TosOf(table[r.node])
      BY <1>1, <2>3, AddEntryIsTable DEF AddEntry, TosOf
    <2>5. table' = [table EXCEPT ![r.node] = MarkInUse(T, S)]
      BY <1>5 DEF RestoreAccept, Reactivate
    <2>6. ASSUME NEW f \in TosOf(MarkInUse(T, S)), f.inUse
          PROVE  <<f.addr.ip, r.node, KeyOf(f.id)>> \in accepts
      <3> HIDE DEF T, S
      <3>1. PICK e \in TosOf(T) : /\ e.addr = f.addr /\ e.id = f.id
                                  /\ e.inUse \/ e \in S
        BY <2>4, <2>6, MarkedTo
      <3>2. CASE e.inUse
        BY <1>1, <2>4, <3>1, <3>2 DEF SolicitedInv, Solicited
      <3>3. CASE e \in S
        BY <1>2, <3>1, <3>3 DEF OfContent, S
      <3> QED
        BY <3>1, <3>2, <3>3
    <2>7. Solicited'
      <3> HIDE DEF T, S
      <3> QED
        BY <1>1, <2>1, <2>5, <2>6 DEF SolicitedInv, Solicited
    <2>8. AcceptancesSent' /\ DestsAccepted' /\ PicksAreSources'
      BY <2>1 DEF SolicitedInv, AcceptancesSent, DestsAccepted, PicksAreSources
    <2> QED
      BY <2>7, <2>8 DEF SolicitedInv
  <1> QED
    BY <1>3, <1>4, <1>5

LEMMA SolicitedAcceptOffer ==
    ASSUME SolicitedInv, TypeOK', NEW p \in pending, AcceptOffer(p)
    PROVE  SolicitedInv'
  <1>1. UNCHANGED <<table, recoveries>> /\ accepts \subseteq accepts'
    BY DEF AcceptOffer, relayVars
  <1>2. ASSUME NEW x \in net', x \notin net
        PROVE  x.from.ip = p.client /\ x.dst = p.from.ip /\ x.id = p.id
    BY <1>2 DEF AcceptOffer, Reaching, AcceptedMsg, At
  <1>3. <<p.client, p.from.ip, KeyOf(p.id)>> \in accepts'
    BY DEF AcceptOffer
  <1>4. AcceptancesSent'
    BY <1>1, <1>2, <1>3 DEF SolicitedInv, AcceptancesSent
  <1>5. Solicited' /\ DestsAccepted' /\ PicksAreSources'
    BY <1>1 DEF SolicitedInv, Solicited, DestsAccepted, PicksAreSources
  <1> QED
    BY <1>4, <1>5 DEF SolicitedInv

LEMMA SolicitedStop ==
    ASSUME SolicitedInv, TypeOK', TakesAway
    PROVE  SolicitedInv'
  BY NothingMarked DEF TakesAway, TosOf

LEMMA SolicitedInit == Init => SolicitedInv
  BY TypeInit DEF Init, SolicitedInv, Solicited, TosOf, AcceptancesSent,
                  DestsAccepted, PicksAreSources

LEMMA SolicitedStep == SolicitedInv /\ [Next]_vars => SolicitedInv'
  <1> SUFFICES ASSUME SolicitedInv, [Next]_vars PROVE SolicitedInv'
    OBVIOUS
  <1>1. TypeOK'
    BY TypeStep DEF SolicitedInv
  <1>2. CASE Step
    <2>1. ASSUME NEW m \in net,
                 HandleIWantStream(m) \/ HandleAcceptedAtServer(m)
                 \/ HandleEmptyAccepted(m) \/ RefuseFlood(m) \/ StartFlood(m)
                 \/ HandleAcceptedConn(m) \/ HandleEndOfStream(m)
                 \/ ReceiveOffer(m)
          PROVE  SolicitedInv'
      BY <1>1, <2>1, SolicitedServer, SolicitedAcceptedConn, SolicitedEndOfStream,
         SolicitedStop, StopsTakeAway DEF SolicitedInv
    <2>2. ASSUME NEW r \in recoveries,
                 RestoreSource(r) \/ RestoreChoose(r) \/ RestorePanics(r)
                 \/ RestoreAccept(r)
          PROVE  SolicitedInv'
      BY <1>1, <2>2, SolicitedRestore, SolicitedStop, StopsTakeAway DEF SolicitedInv
    <2> QED
      BY <1>1, <1>2, <2>1, <2>2, SolicitedFloods, SolicitedAcceptOffer,
         SolicitedDeath DEF Step
  <1>3. CASE Timed
    BY <1>1, <1>3, SolicitedFloods DEF Timed
  <1>4. CASE Outside
    BY <1>1, <1>4, SolicitedServer, SolicitedStream, SolicitedStop,
       StopsTakeAway DEF Outside, SolicitedInv
  <1>5. CASE UNCHANGED vars
    BY <1>1, <1>5 DEF SolicitedInv, Solicited, AcceptancesSent, DestsAccepted,
       PicksAreSources, vars, relayVars
  <1> QED
    BY <1>2, <1>3, <1>4, <1>5 DEF Next

\* ListenStreams forwards packets of a content only to hosts that accepted
\* that content from this relay, whatever was flooded, refreshed, purged or
\* restored in the meantime.
THEOREM SolicitedAlways == Spec => []Solicited
  <1>1. SolicitedInv => Solicited
    BY DEF SolicitedInv
  <1> QED
    BY SolicitedInit, SolicitedStep, <1>1, PTL DEF Spec
-----------------------------------------------------------------------------
(***************************************************************************)
(* What a client is fed, for any topology and any set of processes that    *)
(* may stop.  A client does not look at the content of the offer it takes, *)
(* so the argument follows the request: the server floods what the client  *)
(* asked for, every identifier made of a branch keeps its content, a flood *)
(* goes to no client but the one it names, and those of the periodic       *)
(* refresh name none.                                                      *)
(***************************************************************************)

Wanted(c, id) == c \in Clients => c \in asked /\ id.content = Wants[c]

MessageWanted(m) ==
    /\ m.type = "ConnFlood" =>
          /\ Wanted(m.client, m.id)
          /\ m.dst \in Clients => m.dst = m.client /\ m.from.ip \in Relays
    /\ m.type = "IWantStream" => m.client \in asked
    /\ m.type = "AcceptedConn" /\ m.dst = Server => m.from.ip \in Relays

HandlerWanted(h) ==
    /\ Wanted(h.client, h.id)
    /\ \A a \in h.todo : a.ip \in Clients => a.ip = h.client

OfferWanted(p) == Wanted(p.client, p.id) /\ p.from.ip \in Relays

ClientsAccept ==
    \A c \in Clients, x \in Ips, key \in Contents :
        <<c, x, key>> \in accepts =>
            /\ c \in asked
            /\ status[c] = "AWAITING_STREAM"
            /\ key = ContentKey[Wants[c]]

ClientInv ==
    /\ TypeOK
    /\ ClientsAccept
    /\ \A m \in net : MessageWanted(m)
    /\ \A h \in handlers : HandlerWanted(h)
    /\ \A p \in pending : OfferWanted(p)
    /\ \A n \in Relays \ Pops : \A a \in peers[n] : a.ip \notin Clients
    /\ \A r \in routes : r.to \in Relays

\* A step preserves the invariant when all it adds is wanted and no client
\* accepts anything.
LEMMA WantedKept ==
    ASSUME ClientInv, TypeOK', asked \subseteq asked', UNCHANGED status,
           \A c \in Clients, x \in Ips, key \in Contents :
               <<c, x, key>> \in accepts' => <<c, x, key>> \in accepts,
           \A m \in net' : m \in net \/ MessageWanted(m)',
           \A h \in handlers' : h \in handlers \/ HandlerWanted(h)',
           \A p \in pending' : p \in pending \/ OfferWanted(p)',
           \A n \in Relays \ Pops : peers'[n] \subseteq peers[n],
           \A r \in routes' : r \in routes \/ r.to \in Relays
    PROVE  ClientInv'
  <1>1. ClientsAccept'
    BY DEF ClientInv, ClientsAccept
  <1>2. \A m \in net' : MessageWanted(m)'
    BY DEF ClientInv, MessageWanted, Wanted
  <1>3. \A h \in handlers' : HandlerWanted(h)'
    BY DEF ClientInv, HandlerWanted, Wanted
  <1>4. \A p \in pending' : OfferWanted(p)'
    BY DEF ClientInv, OfferWanted, Wanted
  <1> QED
    BY <1>1, <1>2, <1>3, <1>4 DEF ClientInv

LEMMA WantedIWantStream ==
    ASSUME ClientInv, TypeOK', NEW m \in net, HandleIWantStream(m)
    PROVE  ClientInv'
  <1>1. m.client \in asked /\ m.client \in Clients
    BY DEF ClientInv, TypeOK, MessageWanted, HandleIWantStream, Inbox
  <1>2. PICK f \in Numberings(Neighbours, 1) :
           net' \subseteq net \union
              {FloodMsg(x, At(Server), Child(Root(Wants[m.client]), f[x]),
                        m.client, {}) : x \in Neighbours}
    BY DEF HandleIWantStream, Reaching
  <1>3. ASSUME NEW x \in Neighbours
        PROVE  MessageWanted(FloodMsg(x, At(Server),
                     Child(Root(Wants[m.client]), f[x]), m.client, {}))'
    <2>1. x \in Relays /\ x \notin Clients /\ asked' = asked
      BY HostsAssumption DEF Neighbours, HandleIWantStream, clientVars
    <2>2. Child(Root(Wants[m.client]), f[x]).content = Wants[m.client]
      BY DEF Child, Root
    <2> HIDE DEF Child, Root
    <2> QED
      BY <1>1, <2>1, <2>2 DEF MessageWanted, Wanted, FloodMsg
  <1> QED
    BY <1>2, <1>3, WantedKept
    DEF HandleIWantStream, relayVars, serverVars, clientVars

LEMMA WantedAcceptedAtServer ==
    ASSUME ClientInv, TypeOK', NEW m \in net, HandleAcceptedAtServer(m)
    PROVE  ClientInv'
  <1>1. m.from.ip \in Relays
    BY DEF ClientInv, MessageWanted, HandleAcceptedAtServer, Inbox
  <1> QED
    BY <1>1, WantedKept DEF HandleAcceptedAtServer, relayVars, clientVars

LEMMA WantedStream ==
    ASSUME ClientInv, TypeOK', NEW c \in Contents, EndStream(c) \/ Refresh(c)
    PROVE  ClientInv'
  <1>1. CASE EndStream(c)
    <2>1. \A m \in net' : m \in net \/ MessageWanted(m)'
      BY <1>1 DEF EndStream, Reaching, EndMsg, MessageWanted
    <2> QED
      BY <1>1, <2>1, WantedKept DEF EndStream, relayVars, clientVars
  <1>2. CASE Refresh(c)
    <2>1. PICK pick \in KeptRoutes(c), top \in LargestSuffix(c) :
          \E f \in Numberings(Receivers(c), top) :
             net' = net \union Reaching(RefreshFloods(c, pick, f))
      BY <1>2 DEF Refresh
    <2>2. ASSUME NEW f \in Numberings(Receivers(c), top),
                 NEW m \in RefreshFloods(c, pick, f)
          PROVE  MessageWanted(m)'
      <3>1. m.client = NoClient /\ m.type = "ConnFlood"
        BY RefreshFloodsAreMessages DEF ClientInv
      <3>2. m.dst \in Receivers(c)
        BY DEF RefreshFloods, FloodMsg
      <3>3. m.dst \notin Clients
        BY <3>2, HostsAssumption DEF ClientInv, Receivers, RoutesOf
      <3> QED
        BY <3>1, <3>3, HostsAssumption DEF MessageWanted, Wanted
    <2>3. \A m \in net' : m \in net \/ MessageWanted(m)'
      BY <2>1, <2>2 DEF Reaching
    <2> QED
      BY <1>2, <2>3, WantedKept DEF Refresh, relayVars, clientVars
  <1> QED
    BY <1>1, <1>2

LEMMA WantedFloods ==
    ASSUME ClientInv, TypeOK', NEW m \in net, RefuseFlood(m) \/ StartFlood(m)
    PROVE  ClientInv'
  <1>1. CASE RefuseFlood(m)
    BY <1>1, WantedKept DEF RefuseFlood, relayVars, serverVars, clientVars
  <1>2. CASE StartFlood(m)
    <2>1. Wanted(m.client, m.id)'
      BY <1>2 DEF ClientInv, MessageWanted, StartFlood, Wanted, clientVars
    <2>2. \A h \in handlers' : h \in handlers \/ HandlerWanted(h)'
      BY <1>2, <2>1 DEF StartFlood, HandlerWanted, Wanted
    <2> QED
      BY <1>2, <2>2, WantedKept DEF StartFlood, serverVars, clientVars
  <1> QED
    BY <1>1, <1>2

LEMMA WantedFloodTimed ==
    ASSUME ClientInv, TypeOK', NEW h \in handlers, FloodTimed(h)
    PROVE  ClientInv'
  <1>1. h \in Handler /\ HandlerWanted(h) /\ h.node \in Relays
    BY DEF ClientInv, TypeOK, Handler
  <1>2. peers \in [Relays -> SUBSET Addr(Ips)]
    BY DEF ClientInv, TypeOK
  <1>3. \A a \in Targets(h) : a.ip \in Clients => a.ip = h.client
    BY <1>1 DEF Targets, At, ClientInv
  <1>4. ASSUME NEW g \in handlers', g \notin handlers
        PROVE  HandlerWanted(g)'
    <2>1. g = [h EXCEPT !.stage = "forwarding", !.todo = Targets(h)]
      BY <1>4 DEF FloodTimed, Advance
    <2>2. g.client = h.client /\ g.id = h.id /\ g.todo = Targets(h)
      BY <1>1, <2>1 DEF Handler
    <2>3. asked' = asked
      BY DEF FloodTimed, clientVars
    <2> QED
      BY <1>1, <1>3, <2>2, <2>3 DEF HandlerWanted, Wanted
  <1>5. \A x \in handlers' : x \in handlers \/ HandlerWanted(x)'
    BY <1>4
  <1>6. \A n \in Relays \ Pops : peers'[n] \subseteq peers[n]
    BY <1>1, <1>2 DEF FloodTimed
  <1> QED
    BY <1>5, <1>6, WantedKept DEF FloodTimed, serverVars, clientVars

LEMMA WantedForwardFlood ==
    ASSUME ClientInv, TypeOK', NEW h \in handlers, NEW a \in h.todo,
           ForwardFlood(h, a)
    PROVE  ClientInv'
  <1>1. /\ h \in Handler /\ HandlerWanted(h)
        /\ h.node \in Relays /\ h.id \in ConnId
        /\ table[h.node] \in SUBSET Entry(Ips)
    BY DEF ClientInv, TypeOK, Handler
  <1>2. asked' = asked
    BY DEF ForwardFlood, clientVars
  <1>3. PICK new \in OutgoingIds(table[h.node], h.id, a) :
        \E k \in ArrivalPorts(h.node, a, new) :
           net' = net \union Reaching(
              {FloodMsg(a.ip, [ip |-> h.node, port |-> k], new, h.client,
                        h.trail \union {h.node})})
    BY DEF ForwardFlood
  <1>4. PICK k \in ArrivalPorts(h.node, a, new) :
           net' = net \union Reaching(
              {FloodMsg(a.ip, [ip |-> h.node, port |-> k], new, h.client,
                        h.trail \union {h.node})})
    BY <1>3
  <1> DEFINE f == FloodMsg(a.ip, [ip |-> h.node, port |-> k], new, h.client,
                           h.trail \union {h.node})
  <1>5. new.content = h.id.content
    BY <1>1, OutgoingIdIsId
  <1>6. MessageWanted(f)'
    <2>1. /\ f.type = "ConnFlood" /\ f.dst = a.ip /\ f.from.ip = h.node
          /\ f.client = h.client /\ f.id = new
      BY DEF FloodMsg
    <2> HIDE DEF f
    <2> QED
      BY <1>1, <1>2, <1>5, <2>1 DEF MessageWanted, HandlerWanted, Wanted
  <1>7. \A m \in net' : m \in net \/ MessageWanted(m)'
    BY <1>4, <1>6 DEF Reaching
  <1>8. HandlerWanted([h EXCEPT !.todo = @ \ {a}])'
    <2>1. HandlerWanted([h EXCEPT !.todo = @ \ {a}])
      BY <1>1 DEF Handler, HandlerWanted
    <2> QED
      BY <1>2, <2>1 DEF HandlerWanted, Wanted
  <1>9. \A x \in handlers' : x \in handlers \/ HandlerWanted(x)'
    BY <1>8 DEF ForwardFlood, Advance
  <1> QED
    BY <1>7, <1>9, WantedKept DEF ForwardFlood, serverVars, clientVars

LEMMA WantedAcceptedConn ==
    ASSUME ClientInv, TypeOK', NEW m \in net, HandleAcceptedConn(m)
    PROVE  ClientInv'
  <1>1. m.dst \in Relays /\ m.dst \notin Clients
    BY HostsAssumption DEF HandleAcceptedConn
  <1>2. ASSUME NEW x \in net', x \notin net
        PROVE  x.type = "AcceptedConn" /\ x.from.ip = m.dst
    <2> DEFINE up == Upstreams(table[m.dst], m.id)
    <2>1. net' = (net \ {m}) \union Reaching(
             {AcceptedMsg(e.addr.ip, Seen(m.dst, e.addr), e.id) : e \in up})
      BY DEF HandleAcceptedConn
    <2> HIDE DEF up
    <2>2. PICK e \in up : x = AcceptedMsg(e.addr.ip, Seen(m.dst, e.addr), e.id)
      BY <1>2, <2>1 DEF Reaching
    <2> QED
      BY <2>2 DEF AcceptedMsg, Seen
  <1>3. \A x \in net' : x \in net \/ MessageWanted(x)'
    BY <1>1, <1>2 DEF MessageWanted
  <1>4. \A c \in Clients, x \in Ips, key \in Contents :
           <<c, x, key>> \in accepts' => <<c, x, key>> \in accepts
    BY <1>1 DEF HandleAcceptedConn
  <1> QED
    BY <1>3, <1>4, WantedKept DEF HandleAcceptedConn, serverVars, clientVars

LEMMA WantedEndOfStream ==
    ASSUME ClientInv, TypeOK', NEW m \in net, HandleEndOfStream(m)
    PROVE  ClientInv'
  <1>1. \A x \in net' : x \in net \/ MessageWanted(x)'
    BY DEF HandleEndOfStream, Reaching, Notified, EndMsg, MessageWanted
  <1> QED
    BY <1>1, WantedKept DEF HandleEndOfStream, serverVars, clientVars

LEMMA WantedDeath ==
    ASSUME ClientInv, TypeOK', NEW n \in Relays, NEW a,
           ClientDeath(n, a) \/ ServerDeath(n, a) \/ RelayDeath(n, a)
    PROVE  ClientInv'
  <1>1. Forget(n, a) /\ UNCHANGED <<asked, status, pending, routes, accepts>>
    BY DEF ClientDeath, ServerDeath, RelayDeath, serverVars, clientVars
  <1>2. \A x \in net' : x \in net \/ MessageWanted(x)'
    BY DEF ClientDeath, ServerDeath, RelayDeath, Reaching, Notified, EndMsg,
           MessageWanted
  <1>3. ASSUME NEW h \in handlers
        PROVE  HandlerWanted([h EXCEPT !.todo = @ \ {a}])'
    <2>1. HandlerWanted(h) /\ h \in Handler
      BY DEF ClientInv, TypeOK
    <2> QED
      BY <1>1, <2>1 DEF Handler, HandlerWanted, Wanted
  <1>4. \A h \in handlers' : h \in handlers \/ HandlerWanted(h)'
    BY <1>1, <1>3 DEF Forget
  <1>5. \A x \in Relays \ Pops : peers'[x] \subseteq peers[x]
    BY <1>1 DEF Forget, ClientInv, TypeOK
  <1> QED
    BY <1>1, <1>2, <1>4, <1>5, WantedKept

LEMMA WantedRestore ==
    ASSUME ClientInv, TypeOK', NEW r \in recoveries,
           RestoreSource(r) \/ RestoreChoose(r) \/ RestoreAccept(r)
    PROVE  ClientInv'
  <1>1. /\ UNCHANGED <<asked, status, pending, routes, peers, handlers>>
        /\ r.node \in Relays /\ r.node \notin Clients
    BY HostsAssumption
    DEF RestoreSource, RestoreChoose, RestoreAccept, serverVars, clientVars,
        ClientInv, TypeOK, Recovery
  <1>2. \A x \in net' : x \in net \/ MessageWanted(x)'
    <2>1. CASE RestoreSource(r) \/ RestoreAccept(r)
      BY <2>1 DEF RestoreSource, RestoreAccept
    <2>2. CASE RestoreChoose(r)
      <3>1. ASSUME NEW x \in net', x \notin net
            PROVE  x.type = "AcceptedConn" /\ x.from.ip = r.node
        BY <2>2, <3>1 DEF RestoreChoose, Reaching, AcceptedMsg, Seen
      <3> QED
        BY <1>1, <3>1 DEF MessageWanted
    <2> QED
      BY <2>1, <2>2
  <1>3. \A c \in Clients, x \in Ips, key \in Contents :
           <<c, x, key>> \in accepts' => <<c, x, key>> \in accepts
    <2>1. \/ accepts' = accepts
          \/ \E x, key : accepts' = accepts \union {<<r.node, x, key>>}
      BY DEF RestoreSource, RestoreChoose, RestoreAccept
    <2> QED
      BY <1>1, <2>1
  <1> QED
    BY <1>1, <1>2, <1>3, WantedKept

LEMMA WantedAsk ==
    ASSUME ClientInv, TypeOK', NEW c \in Clients, Ask(c)
    PROVE  ClientInv'
  <1>1. \A x \in net' : x \in net \/ MessageWanted(x)'
    BY DEF Ask, Reaching, MessageWanted
  <1> QED
    BY <1>1, WantedKept DEF Ask, relayVars, serverVars

LEMMA WantedReceiveOffer ==
    ASSUME ClientInv, TypeOK', NEW m \in net, ReceiveOffer(m)
    PROVE  ClientInv'
  <1>1. MessageWanted(m) /\ m.type = "ConnFlood" /\ m.dst \in Clients
    BY DEF ClientInv, ReceiveOffer
  <1>2. \A p \in pending' : p \in pending \/ OfferWanted(p)'
    BY <1>1 DEF ReceiveOffer, MessageWanted, OfferWanted, Wanted
  <1> QED
    BY <1>2, WantedKept DEF ReceiveOffer, relayVars, serverVars

\* The one step in which a client accepts.
LEMMA WantedAcceptOffer ==
    ASSUME ClientInv, TypeOK', NEW p \in pending, AcceptOffer(p)
    PROVE  ClientInv'
  <1>1. /\ p.client \in Clients /\ p.client \in asked
        /\ p.id.content = Wants[p.client] /\ p.from.ip \in Relays
    BY DEF ClientInv, TypeOK, Offer, OfferWanted, Wanted
  <1>2. UNCHANGED <<asked, handlers, peers, routes>> /\ pending' \subseteq pending
    BY DEF AcceptOffer, relayVars, serverVars
  <1>3. ASSUME NEW x \in net', x \notin net
        PROVE  MessageWanted(x)'
    <2>1. x = AcceptedMsg(p.from.ip, At(p.client), p.id)
      BY <1>3 DEF AcceptOffer, Reaching
    <2>2. x.type = "AcceptedConn" /\ x.dst # Server
      BY <1>1, <2>1, HostsAssumption DEF AcceptedMsg
    <2> QED
      BY <2>2 DEF MessageWanted
  <1>4. \A m \in net' : MessageWanted(m)'
    BY <1>2, <1>3 DEF ClientInv, MessageWanted, Wanted
  <1>5. \A q \in pending' : OfferWanted(q)'
    BY <1>2 DEF ClientInv, OfferWanted, Wanted
  <1>6. \A h \in handlers' : HandlerWanted(h)'
    BY <1>2 DEF ClientInv, HandlerWanted, Wanted
  <1>7. ClientsAccept'
    <2>1. /\ accepts' = accepts \union {<<p.client, p.from.ip, KeyOf(p.id)>>}
          /\ status' = [status EXCEPT ![p.client] = "AWAITING_STREAM"]
          /\ status \in [Clients -> {"STARTING", "AWAITING_STREAM"}]
      BY DEF AcceptOffer, ClientInv, TypeOK
    <2>2. KeyOf(p.id) = ContentKey[Wants[p.client]]
      BY <1>1 DEF KeyOf
    <2> QED
      BY <1>1, <1>2, <2>1, <2>2 DEF ClientInv, ClientsAccept
  <1> QED
    BY <1>2, <1>4, <1>5, <1>6, <1>7 DEF ClientInv

LEMMA WantedStop ==
    ASSUME ClientInv, TypeOK', TakesAway
    PROVE  ClientInv'
  <1>1. \A m \in net' : m \in net \/ MessageWanted(m)'
    BY DEF TakesAway, MessageWanted
  <1> QED
    BY <1>1, WantedKept DEF TakesAway

LEMMA WantedInit == Init => ClientInv
  <1> SUFFICES ASSUME Init PROVE ClientInv
    OBVIOUS
  <1>1. ASSUME NEW n \in Relays \ Pops, NEW a \in peers[n]
        PROVE  a.ip \notin Clients
    <2>1. \/ \E y \in Relays \union {Server} : a = At(y)
          \/ \E y \in Relays : a = [ip |-> y, port |-> 1]
      BY DEF Init
    <2> QED
      BY <2>1, HostsAssumption DEF At
  <1> QED
    BY <1>1, TypeInit DEF Init, ClientInv, ClientsAccept

LEMMA WantedStep == ClientInv /\ [Next]_vars => ClientInv'
  <1> SUFFICES ASSUME ClientInv, [Next]_vars PROVE ClientInv'
    OBVIOUS
  <1>1. TypeOK'
    BY TypeStep DEF ClientInv
  <1>2. CASE Step
    <2>1. ASSUME NEW m \in net,
                 HandleIWantStream(m) \/ HandleAcceptedAtServer(m)
                 \/ HandleEmptyAccepted(m) \/ RefuseFlood(m) \/ StartFlood(m)
                 \/ HandleAcceptedConn(m) \/ HandleEndOfStream(m)
                 \/ ReceiveOffer(m)
          PROVE  ClientInv'
      BY <1>1, <2>1, WantedIWantStream, WantedAcceptedAtServer, WantedFloods,
         WantedAcceptedConn, WantedEndOfStream, WantedReceiveOffer,
         WantedStop, StopsTakeAway DEF ClientInv
    <2>2. ASSUME NEW r \in recoveries,
                 RestoreSource(r) \/ RestoreChoose(r) \/ RestorePanics(r)
                 \/ RestoreAccept(r)
          PROVE  ClientInv'
      BY <1>1, <2>2, WantedRestore, WantedStop, StopsTakeAway DEF ClientInv
    <2> QED
      BY <1>1, <1>2, <2>1, <2>2, WantedForwardFlood, WantedAcceptOffer,
         WantedDeath DEF Step
  <1>3. CASE Timed
    BY <1>1, <1>3, WantedFloodTimed DEF Timed
  <1>4. CASE Outside
    BY <1>1, <1>4, WantedAsk, WantedStream, WantedStop, StopsTakeAway
    DEF Outside, ClientInv
  <1>5. CASE UNCHANGED vars
    BY <1>1, <1>5, WantedKept DEF vars, relayVars, serverVars, clientVars
  <1> QED
    BY <1>2, <1>3, <1>4, <1>5 DEF Next

\* Packets are forwarded to a client only if it has asked, has taken an offer,
\* and the packets are of the content it asked for: what it has accepted goes
\* back to its own request, and it is sent nothing it has not accepted.
THEOREM ClientsGetTheirContentAlways == Spec => []ClientsGetTheirContent
  <1>1. SolicitedInv /\ ClientInv => ClientsGetTheirContent
    <2> SUFFICES ASSUME SolicitedInv, ClientInv,
                        NEW n \in Relays, NEW e \in TosOf(table[n]),
                        e.inUse, e.addr.ip \in Clients
                 PROVE  /\ e.addr.ip \in asked
                        /\ status[e.addr.ip] = "AWAITING_STREAM"
                        /\ KeyOf(e.id) = ContentKey[Wants[e.addr.ip]]
      BY DEF ClientsGetTheirContent
    <2>1. <<e.addr.ip, n, KeyOf(e.id)>> \in accepts
      BY DEF SolicitedInv, Solicited
    <2>3. e.addr.ip \in Clients /\ n \in Ips
      BY DEF Hosts, Ips
    <2>2. KeyOf(e.id) \in Contents
      <3>1. e \in Entry(Ips)
        BY DEF ClientInv, TypeOK, TosOf
      <3> QED
        BY <3>1, KeyIsContent DEF Entry
    <2> QED
      BY <2>1, <2>2, <2>3 DEF ClientInv, ClientsAccept
  <1> QED
    BY SolicitedInit, SolicitedStep, WantedInit, WantedStep, <1>1, PTL DEF Spec
-----------------------------------------------------------------------------
(***************************************************************************)
(* The overlay implements Demand, for any topology, any number of clients  *)
(* and contents and any set of processes that may stop.  Every identifier  *)
(* anywhere in the overlay is of a content that a client has asked the     *)
(* server for, and every branch comes from a relay or from the server; an  *)
(* acceptance passes on the demand of the one it answers, because both     *)
(* name branches of one content.                                           *)
(***************************************************************************)

Sources == Relays \union {Server}

\* Some client has asked the server for c.
InDemand(c) == \E x \in asked : c = Wants[x]

MessageInDemand(m) ==
    /\ m.type = "ConnFlood" => InDemand(m.id.content) /\ m.from.ip \in Sources
    /\ m.type = "AcceptedConn" => InDemand(m.id.content)

EntryInDemand(e) ==
    InDemand(e.id.content) /\ (e.side = "from" => e.addr.ip \in Sources)

HandlerInDemand(h) == InDemand(h.id.content) /\ h.from.ip \in Sources

RecoveryInDemand(r) ==
    /\ r.dests # {}
    /\ r.stage = "choose" => r.source.ip \in Sources
    /\ r.stage = "accept" => EntryInDemand(r.pick)

DemandInv ==
    /\ \A m \in net : MessageInDemand(m)
    /\ \A n \in Relays : \A e \in table[n] : EntryInDemand(e)
    /\ \A h \in handlers : HandlerInDemand(h)
    /\ \A r \in recoveries : RecoveryInDemand(r)
    /\ \A p \in pending : InDemand(p.id.content)
    /\ \A c \in ongoing : InDemand(c)
    /\ \A r \in routes : InDemand(r.id.content)

\* A step preserves the invariant when all it adds is in demand; an entry that
\* is only marked is not new.
LEMMA DemandKept ==
    ASSUME DemandInv, asked \subseteq asked',
           \A m \in net' : m \in net \/ MessageInDemand(m),
           \A n \in Relays : \A e \in table'[n] :
               (\E f \in table[n] : SameKey(f, e)) \/ EntryInDemand(e),
           \A h \in handlers' :
               (\E g \in handlers : g.id = h.id /\ g.from = h.from)
               \/ HandlerInDemand(h),
           \A r \in recoveries' : r \in recoveries \/ RecoveryInDemand(r),
           \A p \in pending' : p \in pending \/ InDemand(p.id.content),
           \A c \in ongoing' : c \in ongoing \/ InDemand(c),
           \A r \in routes' : r \in routes \/ InDemand(r.id.content)
    PROVE  DemandInv'
  <1>1. \A c : InDemand(c) => InDemand(c)'
    BY DEF InDemand
  <1>2. \A m \in net' : MessageInDemand(m)'
    BY <1>1 DEF DemandInv, MessageInDemand, Sources
  <1>3. \A n \in Relays : \A e \in table'[n] : EntryInDemand(e)'
    BY <1>1 DEF DemandInv, EntryInDemand, SameKey, Sources
  <1>4. \A h \in handlers' : HandlerInDemand(h)'
    BY <1>1 DEF DemandInv, HandlerInDemand, Sources
  <1>5. \A r \in recoveries' : RecoveryInDemand(r)'
    BY <1>1 DEF DemandInv, RecoveryInDemand, EntryInDemand, Sources
  <1> QED
    BY <1>1, <1>2, <1>3, <1>4, <1>5 DEF DemandInv

LEMMA KeptKeys ==
    ASSUME NEW n \in Relays, table'[n] \subseteq table[n]
    PROVE  \A e \in table'[n] : \E f \in table[n] : SameKey(f, e)
  BY DEF SameKey

LEMMA DemandIWantStream ==
    ASSUME TypeOK, ClientInv, DemandInv, NEW m \in net, HandleIWantStream(m)
    PROVE  DemandInv'
  <1>1. m.client \in asked
    BY DEF ClientInv, MessageWanted, HandleIWantStream, Inbox
  <1>2. PICK f \in Numberings(Neighbours, 1) :
           net' \subseteq net \union
              {FloodMsg(x, At(Server), Child(Root(Wants[m.client]), f[x]),
                        m.client, {}) : x \in Neighbours}
    BY DEF HandleIWantStream, Reaching
  <1>3. ASSUME NEW x \in Neighbours
        PROVE  MessageInDemand(FloodMsg(x, At(Server),
                     Child(Root(Wants[m.client]), f[x]), m.client, {}))
    <2>1. Child(Root(Wants[m.client]), f[x]).content = Wants[m.client]
      BY DEF Child, Root
    <2> HIDE DEF Child, Root
    <2> QED
      BY <1>1, <2>1 DEF MessageInDemand, InDemand, FloodMsg, At, Sources
  <1>4. UNCHANGED <<relayVars, serverVars, clientVars>>
    BY DEF HandleIWantStream
  <1> QED
    BY <1>2, <1>3, <1>4, DemandKept, KeptKeys
    DEF relayVars, serverVars, clientVars

LEMMA DemandAcceptedAtServer ==
    ASSUME TypeOK, DemandInv, NEW m \in net, HandleAcceptedAtServer(m)
    PROVE  DemandInv'
  <1>1. InDemand(m.id.content)
    BY DEF DemandInv, MessageInDemand, HandleAcceptedAtServer, Inbox
  <1> QED
    BY <1>1, DemandKept, KeptKeys
    DEF HandleAcceptedAtServer, relayVars, clientVars

LEMMA DemandEndStream ==
    ASSUME TypeOK, DemandInv, NEW c \in Contents, EndStream(c)
    PROVE  DemandInv'
  <1>1. \A m \in net' : m \in net \/ MessageInDemand(m)
    BY DEF EndStream, Reaching, EndMsg, MessageInDemand
  <1> QED
    BY <1>1, DemandKept, KeptKeys DEF EndStream, relayVars, clientVars

\* The refresh floods the branches of ongoing contents.
LEMMA DemandRefresh ==
    ASSUME TypeOK, DemandInv, NEW c \in Contents, Refresh(c)
    PROVE  DemandInv'
  <1>1. PICK pick \in KeptRoutes(c), top \in LargestSuffix(c) :
        \E f \in Numberings(Receivers(c), top) :
           net' = net \union Reaching(RefreshFloods(c, pick, f))
    BY DEF Refresh
  <1>2. ASSUME NEW f \in Numberings(Receivers(c), top),
               NEW m \in RefreshFloods(c, pick, f)
        PROVE  MessageInDemand(m)
    <2>1. PICK x \in Receivers(c) :
             \/ m = FloodMsg(x, At(Server), pick[x].id, NoClient, {})
             \/ m = FloodMsg(x, At(Server), Child(Root(c), f[x]), NoClient, {})
      BY DEF RefreshFloods
    <2>2. InDemand(pick[x].id.content)
      BY DEF KeptRoutes, RoutesOf, DemandInv
    <2>3. InDemand(Child(Root(c), f[x]).content)
      <3>1. Child(Root(c), f[x]).content = c
        BY DEF Child, Root
      <3> QED
        BY <3>1 DEF Refresh, DemandInv
    <2> HIDE DEF Child, Root
    <2> QED
      BY <2>1, <2>2, <2>3 DEF MessageInDemand, FloodMsg, At, Sources
  <1>3. \A m \in net' : m \in net \/ MessageInDemand(m)
    BY <1>1, <1>2 DEF Reaching
  <1> QED
    BY <1>3, DemandKept, KeptKeys DEF Refresh, relayVars, clientVars

LEMMA DemandFloods ==
    ASSUME TypeOK, DemandInv, NEW m \in net, RefuseFlood(m) \/ StartFlood(m)
    PROVE  DemandInv'
  <1>1. CASE RefuseFlood(m)
    BY <1>1, DemandKept, KeptKeys DEF RefuseFlood, relayVars, serverVars, clientVars
  <1>2. CASE StartFlood(m)
    <2>1. \A h \in handlers' : h \in handlers \/ HandlerInDemand(h)
      BY <1>2 DEF StartFlood, DemandInv, MessageInDemand, HandlerInDemand
    <2> QED
      BY <1>2, <2>1, DemandKept, KeptKeys DEF StartFlood, serverVars, clientVars
  <1> QED
    BY <1>1, <1>2

LEMMA DemandFloodTimed ==
    ASSUME TypeOK, DemandInv, NEW h \in handlers, FloodTimed(h)
    PROVE  DemandInv'
  <1>1. h \in Handler /\ HandlerInDemand(h) /\ h.node \in Relays
    BY DEF DemandInv, TypeOK, Handler
  <1>2. ASSUME NEW n \in Relays, NEW e \in table'[n]
        PROVE  (\E f \in table[n] : SameKey(f, e)) \/ EntryInDemand(e)
    <2> DEFINE new == FromEntry(h.from, h.id, FALSE)
    <2>1. table'[n] \subseteq table[n] \union {new}
      BY <1>1 DEF FloodTimed, AddEntry, TypeOK
    <2>2. EntryInDemand(new)
      BY <1>1 DEF EntryInDemand, HandlerInDemand, FromEntry
    <2> HIDE DEF new
    <2> QED
      BY <2>1, <2>2 DEF SameKey
  <1>3. \A x \in handlers' : \E g \in handlers : g.id = x.id /\ g.from = x.from
    <2>1. /\ [h EXCEPT !.stage = "forwarding", !.todo = Targets(h)].id = h.id
          /\ [h EXCEPT !.stage = "forwarding", !.todo = Targets(h)].from = h.from
      BY <1>1 DEF Handler
    <2> QED
      BY <2>1 DEF FloodTimed, Advance
  <1> QED
    BY <1>2, <1>3, DemandKept DEF FloodTimed, serverVars, clientVars

LEMMA DemandForwardFlood ==
    ASSUME TypeOK, DemandInv, NEW h \in handlers, NEW a \in h.todo,
           ForwardFlood(h, a)
    PROVE  DemandInv'
  <1>1. /\ h \in Handler /\ HandlerInDemand(h)
        /\ h.node \in Relays /\ h.id \in ConnId
        /\ table[h.node] \in SUBSET Entry(Ips)
    BY DEF DemandInv, TypeOK, Handler
  <1>2. PICK new \in OutgoingIds(table[h.node], h.id, a) :
        \E k \in ArrivalPorts(h.node, a, new) :
          /\ table' = [table EXCEPT ![h.node] = AddOutgoing(@, h.id, a, new)]
          /\ net' = net \union Reaching(
                {FloodMsg(a.ip, [ip |-> h.node, port |-> k], new, h.client,
                          h.trail \union {h.node})})
    BY DEF ForwardFlood
  <1>3. new.content = h.id.content
    BY <1>1, OutgoingIdIsId
  <1>4. InDemand(new.content)
    BY <1>1, <1>3 DEF HandlerInDemand
  <1>5. ASSUME NEW m \in net', m \notin net
        PROVE  MessageInDemand(m)
    <2>1. PICK k : m = FloodMsg(a.ip, [ip |-> h.node, port |-> k], new,
                                h.client, h.trail \union {h.node})
      BY <1>2, <1>5 DEF Reaching
    <2>2. m.type = "ConnFlood" /\ m.id = new /\ m.from.ip = h.node
      BY <2>1 DEF FloodMsg
    <2> QED
      BY <1>1, <1>4, <2>2 DEF MessageInDemand, Sources
  <1>6. ASSUME NEW n \in Relays, NEW e \in table'[n]
        PROVE  (\E f \in table[n] : SameKey(f, e)) \/ EntryInDemand(e)
    <2> DEFINE e1 == ToEntry(a, new, FALSE)
    <2>1. table'[n] \subseteq table[n] \union {e1}
      BY <1>1, <1>2 DEF AddOutgoing, TypeOK
    <2>2. EntryInDemand(e1)
      BY <1>4 DEF EntryInDemand, ToEntry
    <2> HIDE DEF e1
    <2> QED
      BY <2>1, <2>2 DEF SameKey
  <1>7. \A x \in handlers' : \E g \in handlers : g.id = x.id /\ g.from = x.from
    <2>1. /\ [h EXCEPT !.todo = @ \ {a}].id = h.id
          /\ [h EXCEPT !.todo = @ \ {a}].from = h.from
      BY <1>1 DEF Handler
    <2> QED
      BY <2>1 DEF ForwardFlood, Advance
  <1> QED
    BY <1>5, <1>6, <1>7, DemandKept DEF ForwardFlood, serverVars, clientVars

\* The entries an acceptance goes up along are of the content of its branch.
LEMMA UpstreamsInDemand ==
    ASSUME TypeOK, DemandInv, NEW n \in Relays, NEW id,
           NEW e \in Upstreams(table[n], id)
    PROVE  /\ e \in Entry(Ips)
           /\ e.id.content = id.content /\ InDemand(e.id.content)
           /\ e.addr.ip \in Sources
  BY DEF Upstreams, FromsOf, HasPrefix, TypeOK, DemandInv, EntryInDemand

LEMMA MarkedKeys ==
    ASSUME NEW T \in SUBSET Entry(Ips), NEW S, NEW e \in MarkInUse(T, S)
    PROVE  \E f \in T : SameKey(f, e)
  BY MarkInUseEntry

LEMMA DemandAcceptedConn ==
    ASSUME TypeOK, DemandInv, NEW m \in net, HandleAcceptedConn(m)
    PROVE  DemandInv'
  <1> DEFINE up == Upstreams(table[m.dst], m.id)
  <1>1. /\ m.dst \in Relays /\ table \in [Relays -> SUBSET Entry(Ips)]
        /\ UNCHANGED <<handlers, recoveries, asked, pending, routes, ongoing>>
    BY DEF TypeOK, HandleAcceptedConn, serverVars, clientVars
  <1>2. ASSUME NEW x \in net', x \notin net
        PROVE  MessageInDemand(x)
    <2>1. net' = (net \ {m}) \union Reaching(
             {AcceptedMsg(e.addr.ip, Seen(m.dst, e.addr), e.id) : e \in up})
      BY DEF HandleAcceptedConn
    <2> HIDE DEF up
    <2>2. PICK e \in up : x = AcceptedMsg(e.addr.ip, Seen(m.dst, e.addr), e.id)
      BY <1>2, <2>1 DEF Reaching
    <2>3. InDemand(e.id.content)
      BY <1>1, UpstreamsInDemand DEF up
    <2> QED
      BY <2>2, <2>3 DEF MessageInDemand, AcceptedMsg
  <1>3. \A n \in Relays : \A e \in table'[n] : \E f \in table[n] : SameKey(f, e)
    <2>1. \A n \in Relays : \/ table'[n] = table[n]
                           \/ \E S : table'[n] = MarkInUse(table[n], S)
      BY <1>1 DEF HandleAcceptedConn, Accept
    <2> QED
      BY <1>1, <2>1, MarkedKeys, KeptKeys
  <1> QED
    BY <1>1, <1>2, <1>3, DemandKept

LEMMA DemandEndOfStream ==
    ASSUME TypeOK, DemandInv, NEW m \in net, HandleEndOfStream(m)
    PROVE  DemandInv'
  <1>1. \A x \in net' : x \in net \/ MessageInDemand(x)
    BY DEF HandleEndOfStream, Reaching, Notified, EndMsg, MessageInDemand
  <1>2. \A n \in Relays : table'[n] \subseteq table[n]
    BY DEF HandleEndOfStream, TypeOK
  <1> QED
    BY <1>1, <1>2, DemandKept, KeptKeys
    DEF HandleEndOfStream, serverVars, clientVars

\* A recovery starts for the contents that somebody was being fed.
LEMMA DemandDeath ==
    ASSUME TypeOK, DemandInv, NEW n \in Relays, NEW a,
           ClientDeath(n, a) \/ ServerDeath(n, a) \/ RelayDeath(n, a)
    PROVE  DemandInv'
  <1>1. Forget(n, a) /\ UNCHANGED <<asked, pending, routes, ongoing>>
    BY DEF ClientDeath, ServerDeath, RelayDeath, serverVars, clientVars
  <1>2. \A x \in net' : x \in net \/ MessageInDemand(x)
    BY DEF ClientDeath, ServerDeath, RelayDeath, Reaching, Notified, EndMsg,
           MessageInDemand
  <1>3. \A x \in Relays : table'[x] \subseteq table[x]
    BY DEF ClientDeath, ServerDeath, RelayDeath, TypeOK
  <1>4. \A x \in handlers' : \E g \in handlers : g.id = x.id /\ g.from = x.from
    <2>1. \A h \in handlers : /\ [h EXCEPT !.todo = @ \ {a}].id = h.id
                             /\ [h EXCEPT !.todo = @ \ {a}].from = h.from
      BY DEF TypeOK, Handler
    <2> QED
      BY <1>1, <2>1 DEF Forget
  <1>5. \A r \in recoveries' : r \in recoveries \/ RecoveryInDemand(r)
    BY DEF ClientDeath, ServerDeath, RelayDeath, RecoveryInDemand
  <1> QED
    BY <1>1, <1>2, <1>3, <1>4, <1>5, DemandKept, KeptKeys

LEMMA DemandRestore ==
    ASSUME TypeOK, DemandInv, NEW r \in recoveries,
           RestoreSource(r) \/ RestoreChoose(r) \/ RestoreAccept(r)
    PROVE  DemandInv'
  <1>1. /\ r \in Recovery /\ r.node \in Relays /\ RecoveryInDemand(r)
        /\ table \in [Relays -> SUBSET Entry(Ips)]
        /\ UNCHANGED <<asked, pending, routes, ongoing, handlers>>
    BY DEF TypeOK, Recovery, DemandInv, RestoreSource, RestoreChoose,
           RestoreAccept, serverVars, clientVars
  <1>2. CASE RestoreSource(r)
    <2>1. \A e \in OfContent(FromsOf(table[r.node]), r.key) : e.addr.ip \in Sources
      BY <1>1 DEF OfContent, FromsOf, DemandInv, EntryInDemand
    <2>2. \A x \in recoveries' : x \in recoveries \/ RecoveryInDemand(x)
      BY <1>1, <1>2, <2>1 DEF RestoreSource, RecoveryInDemand
    <2> QED
      BY <1>1, <1>2, <2>2, DemandKept, KeptKeys DEF RestoreSource
  <1>3. CASE RestoreChoose(r)
    <2>1. PICK e \in Nearest(r.node, r.source) :
            /\ net' = net \union Reaching(
                  {AcceptedMsg(r.source.ip, Seen(r.node, r.source), e.id)})
            /\ recoveries' = (recoveries \ {r}) \union
                  {[stage |-> "accept", node |-> r.node, key |-> r.key,
                    dests |-> r.dests, pick |-> e]}
            /\ UNCHANGED table
      BY <1>3 DEF RestoreChoose
    <2>2. EntryInDemand(e)
      BY <1>1, NearestAreEntries DEF DemandInv
    <2>3. \A x \in recoveries' : x \in recoveries \/ RecoveryInDemand(x)
      BY <1>1, <2>1, <2>2 DEF RecoveryInDemand
    <2>4. \A x \in net' : x \in net \/ MessageInDemand(x)
      BY <2>1, <2>2 DEF Reaching, AcceptedMsg, MessageInDemand, EntryInDemand
    <2> QED
      BY <1>1, <2>1, <2>3, <2>4, DemandKept, KeptKeys
  <1>4. CASE RestoreAccept(r)
    <2> DEFINE pick == [r.pick EXCEPT !.inUse = TRUE]
               T    == AddEntry(table[r.node], pick)
    <2>1. /\ r.pick \in Entry(Ips) /\ EntryInDemand(r.pick)
          /\ UNCHANGED net /\ recoveries' \subseteq recoveries
      BY <1>1, <1>4 DEF RestoreAccept, Recovery, RecoveryInDemand
    <2>2. pick \in Entry(Ips) /\ EntryInDemand(pick)
      BY <2>1 DEF Entry, EntryInDemand
    <2>3. T \in SUBSET Entry(Ips) /\ T \subseteq table[r.node] \union {pick}
      BY <1>1, <2>2, AddEntryIsTable DEF AddEntry
    <2>4. PICK S : table' = [table EXCEPT ![r.node] = MarkInUse(T, S)]
      BY <1>4 DEF RestoreAccept, Reactivate
    <2>5. ASSUME NEW n \in Relays, NEW e \in table'[n]
          PROVE  (\E f \in table[n] : SameKey(f, e)) \/ EntryInDemand(e)
      <3> HIDE DEF T, pick
      <3>1. CASE n # r.node
        BY <1>1, <2>4, <3>1 DEF SameKey
      <3>2. CASE n = r.node
        <4>1. PICK f \in T : SameKey(f, e)
          BY <1>1, <2>3, <2>4, <3>2, MarkedKeys
        <4>2. f \in table[n] \/ f = pick
          BY <2>3, <3>2, <4>1
        <4> QED
          BY <2>2, <4>1, <4>2 DEF SameKey, EntryInDemand
      <3> QED
        BY <3>1, <3>2
    <2> QED
      BY <1>1, <2>1, <2>5, DemandKept
  <1> QED
    BY <1>2, <1>3, <1>4

LEMMA DemandClient ==
    ASSUME TypeOK, DemandInv,
           \/ \E c \in Clients : Ask(c)
           \/ \E m \in net : ReceiveOffer(m)
           \/ \E p \in pending : AcceptOffer(p)
    PROVE  DemandInv'
  <1>1. ASSUME NEW c \in Clients, Ask(c)
        PROVE  DemandInv'
    <2>1. \A x \in net' : x \in net \/ MessageInDemand(x)
      BY <1>1 DEF Ask, Reaching, MessageInDemand
    <2> QED
      BY <1>1, <2>1, DemandKept, KeptKeys DEF Ask, relayVars, serverVars
  <1>2. ASSUME NEW m \in net, ReceiveOffer(m)
        PROVE  DemandInv'
    <2>1. \A p \in pending' : p \in pending \/ InDemand(p.id.content)
      BY <1>2 DEF ReceiveOffer, DemandInv, MessageInDemand
    <2> QED
      BY <1>2, <2>1, DemandKept, KeptKeys DEF ReceiveOffer, relayVars, serverVars
  <1>3. ASSUME NEW p \in pending, AcceptOffer(p)
        PROVE  DemandInv'
    <2>1. \A x \in net' : x \in net \/ MessageInDemand(x)
      BY <1>3 DEF AcceptOffer, Reaching, AcceptedMsg, DemandInv, MessageInDemand
    <2> QED
      BY <1>3, <2>1, DemandKept, KeptKeys DEF AcceptOffer, relayVars, serverVars
  <1> QED
    BY <1>1, <1>2, <1>3

LEMMA DemandStop ==
    ASSUME DemandInv, TakesAway
    PROVE  DemandInv'
  <1>1. \A m \in net' : m \in net \/ MessageInDemand(m)
    BY DEF TakesAway, MessageInDemand
  <1> QED
    BY <1>1, DemandKept, KeptKeys DEF TakesAway

LEMMA DemandInit == Init => DemandInv
  BY DEF Init, DemandInv

LEMMA DemandStep ==
    TypeOK /\ ClientInv /\ DemandInv /\ [Next]_vars => DemandInv'
  <1> SUFFICES ASSUME TypeOK, ClientInv, DemandInv, [Next]_vars
               PROVE  DemandInv'
    OBVIOUS
  <1>1. CASE Step
    <2>1. ASSUME NEW m \in net,
                 HandleIWantStream(m) \/ HandleAcceptedAtServer(m)
                 \/ HandleEmptyAccepted(m) \/ RefuseFlood(m) \/ StartFlood(m)
                 \/ HandleAcceptedConn(m) \/ HandleEndOfStream(m)
                 \/ ReceiveOffer(m)
          PROVE  DemandInv'
      BY <2>1, DemandIWantStream, DemandAcceptedAtServer, DemandFloods,
         DemandAcceptedConn, DemandEndOfStream, DemandClient, DemandStop,
         StopsTakeAway
    <2>2. ASSUME NEW r \in recoveries,
                 RestoreSource(r) \/ RestoreChoose(r) \/ RestorePanics(r)
                 \/ RestoreAccept(r)
          PROVE  DemandInv'
      BY <2>2, DemandRestore, DemandStop, StopsTakeAway
    <2> QED
      BY <1>1, <2>1, <2>2, DemandForwardFlood, DemandClient, DemandDeath DEF Step
  <1>2. CASE Timed
    BY <1>2, DemandFloodTimed DEF Timed
  <1>3. CASE Outside
    BY <1>3, DemandClient, DemandEndStream, DemandRefresh, DemandStop,
       StopsTakeAway DEF Outside
  <1>4. CASE UNCHANGED vars
    BY <1>4, DemandKept, KeptKeys DEF vars, relayVars, serverVars, clientVars
  <1> QED
    BY <1>1, <1>2, <1>3, <1>4 DEF Next
-----------------------------------------------------------------------------
(***************************************************************************)
(* Every step of the overlay is a step of Demand.                          *)
(***************************************************************************)
FlowStep == [Demand!Next]_(Demand!vars)

LEMMA KeyOfDemanded ==
    ASSUME NEW id \in ConnId, InDemand(id.content), asked \subseteq Clients
    PROVE  KeyOf(id) \in Demand!Demanded
  BY DEF InDemand, KeyOf, Demand!Demanded

\* Whoever is fed is fed by the server or by a relay.
LEMMA FedBy ==
    ASSUME NEW f
    PROVE  f \in Feeding <=>
             \/ \E r \in routes : f = <<r.to, Server, KeyOf(r.id)>>
             \/ \E n \in Relays : \E e \in TosOf(table[n]) :
                   e.inUse /\ f = <<e.addr.ip, n, KeyOf(e.id)>>
  BY DEF Feeding

LEMMA FedNext ==
    ASSUME NEW f
    PROVE  f \in Feeding' <=>
             \/ \E r \in routes' : f = <<r.to, Server, KeyOf(r.id)>>
             \/ \E n \in Relays : \E e \in TosOf(table'[n]) :
                   e.inUse /\ f = <<e.addr.ip, n, KeyOf(e.id)>>
  BY DEF Feeding

\* Map takes no entry out of use.
LEMMA MarkedStay ==
    ASSUME NEW T, T \subseteq Entry(Ips), NEW S, NEW e, e \in TosOf(T), e.inUse
    PROVE  e \in TosOf(MarkInUse(T, S))
  <1>1. e \in Entry(Ips) /\ e \in T /\ e.side = "to"
    BY DEF TosOf
  <1>2. [e EXCEPT !.inUse = @ \/ e \in S] = e
    BY <1>1 DEF Entry
  <1> QED
    BY <1>1, <1>2 DEF MarkInUse, TosOf

LEMMA StillFed ==
    ASSUME UNCHANGED routes,
           \A n \in Relays : \A e \in TosOf(table[n]) :
               e.inUse => e \in TosOf(table'[n])
    PROVE  Feeding \subseteq Feeding'
  <1> SUFFICES ASSUME NEW f \in Feeding PROVE f \in Feeding'
    OBVIOUS
  <1> QED
    BY FedBy, FedNext

\* A step that accepts nothing and marks nothing ends streams at most.
LEMMA NothingFed ==
    ASSUME UNCHANGED <<asked, accepts>>, routes' \subseteq routes,
           \A n \in Relays : \A e \in TosOf(table'[n]) :
               e.inUse => e \in TosOf(table[n])
    PROVE  FlowStep
  <1>1. Feeding' \subseteq Feeding
    BY DEF Feeding
  <1> QED
    BY <1>1 DEF FlowStep, Demand!Next, Demand!Cease

LEMMA FlowMessages ==
    ASSUME TypeOK, NEW m \in net,
           HandleIWantStream(m) \/ RefuseFlood(m) \/ StartFlood(m)
           \/ HandleEndOfStream(m) \/ ReceiveOffer(m)
    PROVE  FlowStep
  <1>1. UNCHANGED <<asked, accepts>> /\ routes' \subseteq routes
    BY DEF HandleIWantStream, RefuseFlood, StartFlood, HandleEndOfStream,
           ReceiveOffer, serverVars, clientVars
  <1>2. \A n \in Relays : table'[n] \subseteq table[n]
    BY DEF HandleIWantStream, RefuseFlood, StartFlood, HandleEndOfStream,
           ReceiveOffer, relayVars, TypeOK
  <1> QED
    BY <1>1, <1>2, NothingFed DEF TosOf

LEMMA FlowStream ==
    ASSUME NEW c \in Contents, EndStream(c) \/ Refresh(c)
    PROVE  FlowStep
  BY NothingFed DEF EndStream, Refresh, relayVars, clientVars, TosOf

LEMMA FlowFloods ==
    ASSUME TypeOK, NEW h \in handlers,
           FloodTimed(h) \/ \E a \in h.todo : ForwardFlood(h, a)
    PROVE  FlowStep
  <1>1. h.node \in Relays /\ table \in [Relays -> SUBSET Entry(Ips)]
    BY DEF TypeOK, Handler
  <1>2. UNCHANGED <<asked, accepts, routes>>
    BY DEF FloodTimed, ForwardFlood, serverVars, clientVars
  <1>3. \A n \in Relays : \A e \in TosOf(table'[n]) :
           e.inUse => e \in TosOf(table[n])
    <2>1. CASE FloodTimed(h)
      BY <1>1, <2>1 DEF FloodTimed, TosOf, AddEntry, FromEntry
    <2>2. ASSUME NEW a \in h.todo, ForwardFlood(h, a)
          PROVE  \A n \in Relays : \A e \in TosOf(table'[n]) :
                    e.inUse => e \in TosOf(table[n])
      BY <1>1, <2>2 DEF ForwardFlood, AddOutgoing, TosOf, ToEntry
    <2> QED
      BY <2>1, <2>2
  <1> QED
    BY <1>2, <1>3, NothingFed

LEMMA FlowDeath ==
    ASSUME TypeOK, NEW n \in Relays, NEW a,
           ClientDeath(n, a) \/ ServerDeath(n, a) \/ RelayDeath(n, a)
    PROVE  FlowStep
  <1>1. UNCHANGED <<asked, accepts, routes>>
    BY DEF ClientDeath, ServerDeath, RelayDeath, serverVars, clientVars
  <1>2. \A x \in Relays : table'[x] \subseteq table[x]
    BY DEF ClientDeath, ServerDeath, RelayDeath, TypeOK
  <1> QED
    BY <1>1, <1>2, NothingFed DEF TosOf

LEMMA FlowStop ==
    ASSUME TakesAway
    PROVE  FlowStep
  BY NothingFed DEF TakesAway, TosOf

LEMMA FlowAsk ==
    ASSUME NEW c \in Clients, Ask(c)
    PROVE  FlowStep
  <1>1. UNCHANGED <<routes, table, accepts>>
    BY DEF Ask, relayVars, serverVars
  <1>2. Feeding' = Feeding
    BY <1>1 DEF Feeding, TosOf
  <1>3. Demand!Ask(c)
    BY <1>1, <1>2 DEF Ask, Demand!Ask
  <1> QED
    BY <1>3 DEF FlowStep, Demand!Next

LEMMA FlowAcceptOffer ==
    ASSUME TypeOK, ClientInv, NEW p \in pending, AcceptOffer(p)
    PROVE  FlowStep
  <1>1. /\ p.client \in Clients /\ p.client \in asked
        /\ p.id.content = Wants[p.client] /\ p.from.ip \in Relays
    BY DEF ClientInv, TypeOK, Offer, OfferWanted, Wanted
  <1>2. UNCHANGED <<routes, table, asked>>
    BY DEF AcceptOffer, relayVars, serverVars
  <1>3. Feeding' = Feeding
    BY <1>2 DEF Feeding, TosOf
  <1>4. accepts' = accepts \union
           {<<p.client, p.from.ip, ContentKey[Wants[p.client]]>>}
    BY <1>1 DEF AcceptOffer, KeyOf
  <1>5. Demand!Take(p.client, p.from.ip)
    BY <1>1, <1>2, <1>3, <1>4 DEF Demand!Take
  <1> QED
    BY <1>1, <1>5 DEF FlowStep, Demand!Next

\* The server was asked by the relay whose branch it records.
LEMMA FlowAcceptedAtServer ==
    ASSUME SolicitedInv, NEW m \in net, HandleAcceptedAtServer(m)
    PROVE  FlowStep
  <1> DEFINE a == <<m.from.ip, Server, KeyOf(m.id)>>
  <1>1. a \in accepts
    BY DEF SolicitedInv, AcceptancesSent, HandleAcceptedAtServer, Inbox
  <1>2. /\ UNCHANGED <<asked, accepts, table>>
        /\ routes' = routes \union {[to |-> m.from.ip, id |-> m.id]}
    BY DEF HandleAcceptedAtServer, relayVars, clientVars
  <1>3. Feeding' = Feeding \union {a}
    <2> DEFINE relayed == UNION {{<<e.addr.ip, n, KeyOf(e.id)>> :
                  e \in {e \in TosOf(table[n]) : e.inUse}} : n \in Relays}
               sent == {<<r.to, Server, KeyOf(r.id)>> : r \in routes}
    <2>1. relayed' = relayed
      BY <1>2 DEF TosOf
    <2>2. sent' = sent \union {a}
      <3> DEFINE route == [to |-> m.from.ip, id |-> m.id]
      <3>1. a = <<route.to, Server, KeyOf(route.id)>>
        OBVIOUS
      <3>2. routes' = routes \union {route}
        BY <1>2
      <3> HIDE DEF a, route
      <3> QED
        BY <3>1, <3>2
    <2>3. Feeding = sent \union relayed
      BY DEF Feeding
    <2>4. Feeding' = sent' \union relayed'
      BY DEF Feeding
    <2> HIDE DEF relayed, sent, a
    <2> QED
      BY <2>1, <2>2, <2>3, <2>4
  <1>4. Demand!PassOn(a)
    <2>1. /\ {} \in SUBSET Demand!Sources
          /\ accepts' = accepts \union {<<a[2], y, a[3]>> : y \in {}}
      BY <1>2
    <2> HIDE DEF a
    <2> QED
      BY <1>2, <1>3, <2>1 DEF Demand!PassOn
  <1> QED
    BY <1>1, <1>4 DEF FlowStep, Demand!Next

\* The relay passes on, under the same content, what it was asked for, and
\* feeds whoever asked.
LEMMA FlowAcceptedConn ==
    ASSUME SolicitedInv, DemandInv, NEW m \in net, HandleAcceptedConn(m)
    PROVE  FlowStep
  <1> DEFINE a  == <<m.from.ip, m.dst, KeyOf(m.id)>>
             up == Upstreams(table[m.dst], m.id)
             to == {e \in TosOf(table[m.dst]) : e.id = m.id /\ e.addr = m.from}
             T  == table[m.dst]
             S  == up \union to
  <1>1. /\ m.dst \in Relays /\ table \in [Relays -> SUBSET Entry(Ips)]
        /\ UNCHANGED <<asked, routes>> /\ TypeOK
    BY DEF SolicitedInv, TypeOK, HandleAcceptedConn, serverVars, clientVars
  <1>2. a \in accepts
    BY DEF SolicitedInv, AcceptancesSent, HandleAcceptedConn
  <1>3. /\ table' = [table EXCEPT ![m.dst] = MarkInUse(T, S)]
        /\ accepts' = accepts \union {<<m.dst, e.addr.ip, KeyOf(e.id)>> : e \in up}
    BY DEF HandleAcceptedConn, Accept
  <1>4. T \subseteq Entry(Ips)
    BY <1>1
  <1>5. Feeding \subseteq Feeding'
    <2> HIDE DEF T, S
    <2>1. ASSUME NEW n \in Relays, NEW e \in TosOf(table[n]), e.inUse
          PROVE  e \in TosOf(table'[n])
      <3>1. CASE n # m.dst
        BY <1>1, <1>3, <2>1, <3>1
      <3>2. CASE n = m.dst
        <4>1. table'[n] = MarkInUse(T, S) /\ table[n] = T
          BY <1>1, <1>3, <3>2 DEF T
        <4>2. e \in TosOf(T)
          BY <4>1
        <4>3. e \in TosOf(MarkInUse(T, S))
          BY <1>4, <2>1, <4>2, MarkedStay
        <4> QED
          BY <4>1, <4>3
      <3> QED
        BY <3>1, <3>2
    <2> QED
      BY <1>1, <2>1, StillFed
  <1>6. ASSUME NEW n \in Relays, NEW f \in TosOf(table'[n]), f.inUse
        PROVE  <<f.addr.ip, n, KeyOf(f.id)>> \in Feeding \union {a}
    <2>1. CASE n # m.dst
      BY <1>1, <1>3, <1>6, <2>1, FedBy
    <2>2. CASE n = m.dst
      <3> HIDE DEF T, S
      <3>1. f \in TosOf(MarkInUse(T, S)) /\ table[n] = T
        BY <1>1, <1>3, <1>6, <2>2 DEF T
      <3>2. PICK e \in TosOf(T) : /\ e.addr = f.addr /\ e.id = f.id
                                  /\ e.inUse \/ e \in S
        BY <1>4, <1>6, <3>1, MarkedTo
      <3>3. CASE e.inUse
        BY <3>1, <3>2, <3>3, FedBy
      <3>4. CASE e \in up
        BY <3>2, <3>4 DEF Upstreams, FromsOf, TosOf
      <3>5. CASE e \in to
        BY <2>2, <3>2, <3>5
      <3> QED
        BY <3>2, <3>3, <3>4, <3>5 DEF S
    <2> QED
      BY <2>1, <2>2
  <1>7. Feeding' \in {Feeding, Feeding \union {a}}
    <2>1. ASSUME NEW f \in Feeding'
          PROVE  f \in Feeding \union {a}
      <3> HIDE DEF a
      <3>1. CASE \E r \in routes' : f = <<r.to, Server, KeyOf(r.id)>>
        BY <1>1, <3>1, FedBy
      <3>2. CASE \E n \in Relays : \E e \in TosOf(table'[n]) :
                   e.inUse /\ f = <<e.addr.ip, n, KeyOf(e.id)>>
        BY <1>6, <3>2
      <3> QED
        BY <2>1, <3>1, <3>2, FedNext
    <2> HIDE DEF a
    <2> QED
      BY <1>5, <2>1
  <1>8. \E hosts \in SUBSET Demand!Sources :
           accepts' = accepts \union {<<a[2], y, a[3]>> : y \in hosts}
    <2> DEFINE hosts == {e.addr.ip : e \in up}
    <2>1. \A e \in up : KeyOf(e.id) = KeyOf(m.id) /\ e.addr.ip \in Demand!Sources
      BY <1>1, UpstreamsInDemand DEF KeyOf, Sources, Demand!Sources
    <2>2. a[2] = m.dst /\ a[3] = KeyOf(m.id)
      OBVIOUS
    <2>3. hosts \in SUBSET Demand!Sources
      BY <2>1
    <2> HIDE DEF up, a
    <2>4. {<<m.dst, e.addr.ip, KeyOf(e.id)>> : e \in up}
            = {<<a[2], y, a[3]>> : y \in hosts}
      BY <2>1, <2>2
    <2> QED
      BY <1>3, <2>3, <2>4
  <1>9. Demand!PassOn(a)
    <2> HIDE DEF a
    <2> QED
      BY <1>1, <1>7, <1>8 DEF Demand!PassOn
  <1> QED
    BY <1>2, <1>9 DEF FlowStep, Demand!Next

\* A recovery has somebody to restore, who asked this relay; the branch it
\* picks, of whatever content, is of one in demand.
LEMMA FlowRestoreChoose ==
    ASSUME SolicitedInv, DemandInv, NEW r \in recoveries, RestoreChoose(r)
    PROVE  FlowStep
  <1>1. /\ r.node \in Relays /\ r.key \in Contents /\ r.source.ip \in Sources
        /\ TypeOK /\ asked \subseteq Clients
    BY DEF SolicitedInv, TypeOK, Recovery, DemandInv, RecoveryInDemand, RestoreChoose
  <1>2. PICK d \in r.dests : <<d, r.node, r.key>> \in accepts
    BY DEF DemandInv, RecoveryInDemand, SolicitedInv, DestsAccepted
  <1>3. PICK e \in Nearest(r.node, r.source) :
           accepts' = accepts \union {<<r.node, r.source.ip, KeyOf(e.id)>>}
    BY DEF RestoreChoose
  <1>4. e \in Entry(Ips) /\ EntryInDemand(e)
    BY <1>1, NearestAreEntries DEF DemandInv
  <1>5. KeyOf(e.id) \in Contents /\ KeyOf(e.id) \in Demand!Demanded
    BY <1>1, <1>4, KeyIsContent, KeyOfDemanded DEF Entry, EntryInDemand
  <1>6. UNCHANGED <<routes, table, asked>>
    BY DEF RestoreChoose, serverVars, clientVars
  <1>7. Feeding' = Feeding
    BY <1>6 DEF Feeding, TosOf
  <1>8. Demand!FailOver(<<d, r.node, r.key>>, r.source.ip, KeyOf(e.id))
    BY <1>1, <1>3, <1>5, <1>6, <1>7 DEF Demand!FailOver
  <1>9. r.source.ip \in Demand!Sources
    BY <1>1 DEF Sources, Demand!Sources
  <1> QED
    BY <1>2, <1>5, <1>8, <1>9 DEF FlowStep, Demand!Next

LEMMA FlowRestoreAccept ==
    ASSUME SolicitedInv, NEW r \in recoveries, RestoreAccept(r)
    PROVE  FlowStep
  <1> DEFINE pick == [r.pick EXCEPT !.inUse = TRUE]
             T    == AddEntry(table[r.node], pick)
             S    == {e \in OfContent(TosOf(T), r.key) : e.addr.ip \in r.dests}
  <1>1. /\ r.node \in Relays /\ table \in [Relays -> SUBSET Entry(Ips)]
        /\ UNCHANGED <<asked, accepts, routes>>
        /\ r.pick \in Entry(Ips) /\ r.pick.side = "from"
    BY DEF SolicitedInv, TypeOK, Recovery, RestoreAccept, PicksAreSources,
           serverVars, clientVars
  <1>2. \A d \in r.dests : <<d, r.node, r.key>> \in accepts
    BY DEF SolicitedInv, DestsAccepted
  <1>3. pick \in Entry(Ips) /\ pick.side = "from"
    BY <1>1 DEF Entry
  <1>4. T \subseteq Entry(Ips) /\ TosOf(T) = TosOf(table[r.node])
    <2>1. T \in SUBSET Entry(Ips)
      BY <1>1, <1>3, AddEntryIsTable
    <2> QED
      BY <1>1, <1>3, <2>1 DEF AddEntry, TosOf, SameKey
  <1>5. table' = [table EXCEPT ![r.node] = MarkInUse(T, S)]
    BY DEF RestoreAccept, Reactivate
  <1> HIDE DEF T, pick
  <1>6. Feeding \subseteq Feeding'
    <2>1. ASSUME NEW n \in Relays, NEW e \in TosOf(table[n]), e.inUse
          PROVE  e \in TosOf(table'[n])
      <3> HIDE DEF S
      <3>1. CASE n # r.node
        BY <1>1, <1>5, <2>1, <3>1
      <3>2. CASE n = r.node
        <4>1. table'[n] = MarkInUse(T, S) /\ e \in TosOf(T)
          BY <1>1, <1>4, <1>5, <3>2
        <4>2. e \in TosOf(MarkInUse(T, S))
          BY <1>4, <2>1, <4>1, MarkedStay
        <4> QED
          BY <4>1, <4>2
      <3> QED
        BY <3>1, <3>2
    <2> QED
      BY <1>1, <2>1, StillFed
  <1>7. ASSUME NEW n \in Relays, NEW f \in TosOf(table'[n]), f.inUse
        PROVE  \/ <<f.addr.ip, n, KeyOf(f.id)>> \in Feeding
               \/ n = r.node /\ <<f.addr.ip, n, KeyOf(f.id)>> \in accepts
    <2>1. CASE n # r.node
      BY <1>1, <1>5, <1>7, <2>1, FedBy
    <2>2. CASE n = r.node
      <3> HIDE DEF S
      <3>1. f \in TosOf(MarkInUse(T, S))
        BY <1>1, <1>5, <1>7, <2>2
      <3>2. PICK e \in TosOf(T) : /\ e.addr = f.addr /\ e.id = f.id
                                  /\ e.inUse \/ e \in S
        BY <1>4, <1>7, <3>1, MarkedTo
      <3>3. CASE e.inUse
        BY <1>4, <2>2, <3>2, <3>3, FedBy
      <3>4. CASE e \in S
        BY <1>2, <2>2, <3>2, <3>4 DEF OfContent, S
      <3> QED
        BY <3>2, <3>3, <3>4
    <2> QED
      BY <2>1, <2>2
  <1>8. ASSUME NEW f \in Feeding', f \notin Feeding
        PROVE  f \in accepts /\ f[2] = r.node
    <2>1. CASE \E x \in routes' : f = <<x.to, Server, KeyOf(x.id)>>
      BY <1>1, <1>8, <2>1, FedBy
    <2>2. CASE \E n \in Relays : \E e \in TosOf(table'[n]) :
                 e.inUse /\ f = <<e.addr.ip, n, KeyOf(e.id)>>
      <3>1. PICK n \in Relays : \E e \in TosOf(table'[n]) :
                 e.inUse /\ f = <<e.addr.ip, n, KeyOf(e.id)>>
        BY <2>2
      <3>2. PICK e \in TosOf(table'[n]) :
                 e.inUse /\ f = <<e.addr.ip, n, KeyOf(e.id)>>
        BY <3>1
      <3>3. f[2] = n
        BY <3>2
      <3> QED
        BY <1>7, <1>8, <3>2, <3>3
    <2> QED
      BY <1>8, <2>1, <2>2, FedNext
  <1>9. Demand!Resume(r.node)
    BY <1>1, <1>6, <1>8 DEF Demand!Resume
  <1> QED
    BY <1>1, <1>9 DEF FlowStep, Demand!Next

LEMMA FlowRestoreSource ==
    ASSUME NEW r \in recoveries, RestoreSource(r)
    PROVE  FlowStep
  BY NothingFed DEF RestoreSource, serverVars, clientVars, TosOf
-----------------------------------------------------------------------------
LEMMA FlowInit == Init => Demand!Init
  BY DEF Init, Demand!Init, Feeding, TosOf

LEMMA FlowsStep ==
    SolicitedInv /\ ClientInv /\ DemandInv /\ [Next]_vars => FlowStep
  <1> SUFFICES ASSUME SolicitedInv, ClientInv, DemandInv, [Next]_vars
               PROVE  FlowStep
    OBVIOUS
  <1>1. TypeOK
    BY DEF SolicitedInv
  <1>2. CASE Step
    <2>1. ASSUME NEW m \in net,
                 HandleIWantStream(m) \/ HandleAcceptedAtServer(m)
                 \/ HandleEmptyAccepted(m) \/ RefuseFlood(m) \/ StartFlood(m)
                 \/ HandleAcceptedConn(m) \/ HandleEndOfStream(m)
                 \/ ReceiveOffer(m)
          PROVE  FlowStep
      BY <1>1, <2>1, FlowMessages, FlowAcceptedAtServer, FlowAcceptedConn, FlowStop,
         StopsTakeAway
    <2>2. ASSUME NEW r \in recoveries,
                 RestoreSource(r) \/ RestoreChoose(r) \/ RestorePanics(r)
                 \/ RestoreAccept(r)
          PROVE  FlowStep
      BY <1>1, <2>2, FlowRestoreSource, FlowRestoreChoose, FlowRestoreAccept,
         FlowStop, StopsTakeAway
    <2> QED
      BY <1>1, <1>2, <2>1, <2>2, FlowFloods, FlowAcceptOffer, FlowDeath DEF Step
  <1>3. CASE Timed
    BY <1>1, <1>3, FlowFloods DEF Timed
  <1>4. CASE Outside
    BY <1>1, <1>4, FlowAsk, FlowStream, FlowStop, StopsTakeAway DEF Outside
  <1>5. CASE UNCHANGED vars
    BY <1>5, NothingFed DEF vars, relayVars, serverVars, clientVars, TosOf
  <1> QED
    BY <1>2, <1>3, <1>4, <1>5 DEF Next

\* The overlay implements Demand: contents flow only where they are in demand,
\* and what a host accepts from its own sources goes back to a client's
\* request, through every flood, refresh, death and recovery.
THEOREM Implementation == Spec => FlowsOnDemand
  <1>1. SolicitedInv => TypeOK
    BY DEF SolicitedInv
  <1>2. SolicitedInv /\ ClientInv /\ DemandInv /\ [Next]_vars
           => [Demand!Next]_(Demand!vars)
    BY FlowsStep DEF FlowStep
  <1> QED
    BY SolicitedInit, SolicitedStep, WantedInit, WantedStep, DemandInit,
       DemandStep, FlowInit, <1>1, <1>2, PTL
    DEF Spec, FlowsOnDemand, Demand!Spec
=============================================================================
