------------------------------ MODULE Overlay ------------------------------
(***************************************************************************)
(* The control plane of the streaming overlay: one server, relays (some of *)
(* them POPs, which serve clients) and clients                             *)
(* (src/server/main.go, src/node/main.go, src/client/main.go).             *)
(*                                                                         *)
(* A client asks the server for a content; the server floods a branch to   *)
(* each neighbour; relays time the hop, record the branch and pass it on;  *)
(* a POP offers it to the client; the client accepts the first offer, and  *)
(* the acceptance travels back up the branch, marking entries in use, to   *)
(* the server, which starts the stream.  The end of a stream is announced  *)
(* down the branches; the death of a neighbour makes a relay purge what    *)
(* went through it and accept another branch.                              *)
(*                                                                         *)
(* Announcements have been made: "peers" starts as they leave it.  Several *)
(* goroutines read one connection (SendOpen starts one more each time), so *)
(* messages are taken in any order.  Undelivered messages that are alike   *)
(* are one element of "net", and goroutines that are alike one element of  *)
(* "handlers".                                                             *)
(***************************************************************************)
EXTENDS RoutingTable, FiniteSets

CONSTANTS
    Server, Relays, Clients,
    Pops,        \* the relays started with -pop
    NoClient,    \* the zero ClientIp of a flood of the periodic refresh
    Announces,   \* <<x, y>>: relay x is started with the address of y
    Wants,       \* the content each client asks for
    Available,   \* the contents the server has a file for
    MayEnd,      \* the contents whose file may end during the run
    MayCrash,    \* the processes that may stop
    MaxRefresh,  \* bound: the rounds of the periodic refresh
    DialPorts    \* bound: the ephemeral ports of later connections

Hosts == {Server} \union Relays \union Clients
Ips   == Hosts \union {NoClient}

ASSUME HostsAssumption ==
    /\ Server \notin Relays \union Clients \union {NoClient}
    /\ NoClient \notin Relays \union Clients
    /\ Relays \intersect Clients = {}
    /\ Pops \subseteq Relays
ASSUME SetupAssumption ==
    /\ Announces \subseteq Relays \X (Relays \union {Server})
    /\ Wants \in [Clients -> Contents]
    /\ MayEnd \subseteq Contents
    /\ MayCrash \subseteq Hosts
    /\ DialPorts \subseteq Nat \ {0, 1}
    /\ MaxRefresh \in Nat

VARIABLES
    alive,       \* the processes that run
    peers,       \* KnownPeers of each relay
    table,       \* RoutingTable of each relay
    handlers,    \* the goroutines of the relays inside handleConnFlood
    recoveries,  \* the goroutines of the relays choosing another source
    routes,      \* RoutingTable of the server (every entry is in use)
    ongoing,     \* OngoingStreams of the server
    refreshes,   \* the rounds of chronFun that have run
    asked,       \* the clients that have sent their request
    status,      \* Status of each client
    pending,     \* the goroutines of the clients past the test of Status
    net,         \* the messages on their way
    accepts      \* ghost: <<x, y, key>>, x has accepted content key from y

serverVars == <<routes, ongoing, refreshes>>
relayVars  == <<peers, table, handlers, recoveries>>
clientVars == <<asked, status, pending>>
vars == <<alive, relayVars, serverVars, clientVars, net, accepts>>

(***************************************************************************)
(* Messages and goroutines.  "from" is the sender as the receiver sees it. *)
(* The trail of a flood is a ghost: the relays it has been through.        *)
(***************************************************************************)
Flood == [type : {"ConnFlood"}, dst : Relays \union Clients, from : Addr(Ips),
          id : ConnId, client : Clients \union {NoClient},
          trail : SUBSET Relays]
Accepted == [type : {"AcceptedConn"}, dst : Hosts,
             from : Addr(Relays \union Clients), id : ConnId]
EmptyAccepted == [type : {"EmptyAccepted"}, dst : Hosts]
EndOfStream == [type : {"EndOfStream"}, dst : Hosts, key : Contents]
IWantStream == [type : {"IWantStream"}, dst : {Server}, client : Clients]
Message ==
    Flood \union Accepted \union EmptyAccepted \union EndOfStream
          \union IWantStream

Handler == [node : Relays, stage : {"timing", "forwarding"}, from : Addr(Ips),
            id : ConnId, client : Clients \union {NoClient},
            trail : SUBSET Relays, todo : SUBSET Addr(Ips \ {Server})]

Recovery ==
    [stage : {"source"}, node : Relays, key : Contents, dests : SUBSET Ips]
    \union [stage : {"choose"}, node : Relays, key : Contents,
            dests : SUBSET Ips, source : Addr(Ips)]
    \union [stage : {"accept"}, node : Relays, key : Contents,
            dests : SUBSET Ips, pick : Entry(Ips)]

Offer == [client : Clients, from : Addr(Ips), id : ConnId]

FloodMsg(dst, from, id, client, trail) ==
    [type |-> "ConnFlood", dst |-> dst, from |-> from, id |-> id,
     client |-> client, trail |-> trail]
AcceptedMsg(dst, from, id) ==
    [type |-> "AcceptedConn", dst |-> dst, from |-> from, id |-> id]
EmptyAcceptedMsg(dst) == [type |-> "EmptyAccepted", dst |-> dst]
EndMsg(dst, key) == [type |-> "EndOfStream", dst |-> dst, key |-> key]

\* The listening address of a host, and the address a peer of n sees n at on
\* the connection n sees that peer at address a on.
At(x) == [ip |-> x, port |-> 0]
Seen(n, a) == [ip |-> n, port |-> IF a.port = 0 THEN 1 ELSE 0]

\* What is written to a process that has stopped is lost.
Reaching(msgs) == {m \in msgs : m.dst \in alive}

Inbox(x, type) == {m \in net : m.dst = x /\ m.type = type}

\* The process stops, with its last messages sent; its state is gone and what
\* it was sent is lost.
Stop(x, last) ==
    /\ alive' = alive \ {x}
    /\ table' = [n \in Relays |-> IF n = x THEN {} ELSE table[n]]
    /\ peers' = [n \in Relays |-> IF n = x THEN {} ELSE peers[n]]
    /\ handlers' = {h \in handlers : h.node # x}
    /\ recoveries' = {r \in recoveries : r.node # x}
    /\ pending' = {p \in pending : p.client # x}
    /\ routes' = IF x = Server THEN {} ELSE routes
    /\ ongoing' = IF x = Server THEN {} ELSE ongoing
    /\ net' = {m \in net \union Reaching(last) : m.dst # x}
    /\ UNCHANGED <<refreshes, asked, status, accepts>>

Init ==
    /\ alive = Hosts
    /\ peers = [x \in Relays |->
          {At(y) : y \in {y \in Relays \union {Server} : <<x, y>> \in Announces}}
          \union
          {[ip |-> y, port |-> 1] : y \in {y \in Relays : <<y, x>> \in Announces}}]
    /\ table = [x \in Relays |-> {}]
    /\ handlers = {} /\ recoveries = {} /\ pending = {}
    /\ routes = {} /\ ongoing = {} /\ refreshes = 0
    /\ asked = {}
    /\ status = [c \in Clients |-> "STARTING"]
    /\ net = {}
    /\ accepts = {}
-----------------------------------------------------------------------------
(***************************************************************************)
(* The server.                                                             *)
(***************************************************************************)
\* The relays that have sent it a Hello; nobody is ever removed.
Neighbours == {x \in Relays : <<x, Server>> \in Announces}

\* n numbers from low upwards, one for each member of S, in any order: the
\* iteration order of a Go map.
Numberings(S, low) ==
    {f \in [S -> Suffixes] :
        /\ \A x, y \in S : x # y => f[x] # f[y]
        /\ \A x \in S : f[x] >= low /\ f[x] < low + Cardinality(S)}

\* HandleIWantStream: a request for a file the server has is flooded on one
\* branch per neighbour, numbered afresh from 1.
HandleIWantStream(m) ==
    /\ m \in Inbox(Server, "IWantStream")
    /\ \E f \in Numberings(Neighbours, 1) :
          net' = (net \ {m}) \union
                 (IF Wants[m.client] \notin Available THEN {} ELSE
                  Reaching({FloodMsg(x, At(Server),
                                     Child(Root(Wants[m.client]), f[x]),
                                     m.client, {}) : x \in Neighbours}))
    /\ UNCHANGED <<alive, relayVars, serverVars, clientVars, accepts>>

\* HandleAcceptedConn: the branch is recorded, and Stream starts the content
\* unless it is being streamed.
HandleAcceptedAtServer(m) ==
    /\ m \in Inbox(Server, "AcceptedConn")
    /\ net' = net \ {m}
    /\ routes' = routes \union {[to |-> m.from.ip, id |-> m.id]}
    /\ ongoing' = ongoing \union {m.id.content}
    /\ UNCHANGED <<alive, refreshes, relayVars, clientVars, accepts>>

\* An acceptance that names no branch: the server slices the empty identifier,
\* which panics; no entry of a relay matches it.
HandleEmptyAccepted(m) ==
    /\ m.type = "EmptyAccepted"
    /\ \/ m.dst = Server /\ Stop(Server, {})
       \/ /\ m.dst # Server
          /\ net' = net \ {m}
          /\ UNCHANGED <<alive, relayVars, serverVars, clientVars, accepts>>

RoutesOf(c) == {r \in routes : KeyOf(r.id) = c}
Receivers(c) == {r.to : r \in RoutesOf(c)}

\* Stream, after PacketizeVideo has returned: the routes whose key is this
\* content are removed and their relays told.
EndStream(c) ==
    /\ Server \in alive
    /\ c \in ongoing \intersect MayEnd
    /\ ongoing' = ongoing \ {c}
    /\ routes' = routes \ RoutesOf(c)
    /\ net' = net \union Reaching({EndMsg(x, c) : x \in Receivers(c)})
    /\ UNCHANGED <<alive, refreshes, relayVars, clientVars, accepts>>

\* chronFun: the branch kept for each receiver, and the largest last number.
KeptRoutes(c) ==
    {pick \in [Receivers(c) -> RoutesOf(c)] :
        \A x \in Receivers(c) : pick[x].to = x}
LargestSuffix(c) ==
    {n \in {0} \union {LastOf(r.id) : r \in RoutesOf(c)} :
        \A r \in RoutesOf(c) : LastOf(r.id) <= n}

\* chronFun: each receiver gets the branch kept for it and one numbered by f.
RefreshFloods(c, pick, f) ==
    {FloodMsg(x, At(Server), pick[x].id, NoClient, {}) : x \in Receivers(c)}
    \union
    {FloodMsg(x, At(Server), Child(Root(c), f[x]), NoClient, {}) :
        x \in Receivers(c)}

\* chronFun, for one content: its branches are flooded again, and the same
\* relays get a second flood each, numbered upwards from the largest number.
Refresh(c) ==
    /\ Server \in alive
    /\ c \in ongoing
    /\ refreshes < MaxRefresh
    /\ refreshes' = refreshes + 1
    /\ \E pick \in KeptRoutes(c), top \in LargestSuffix(c) :
       \E f \in Numberings(Receivers(c), top) :
          net' = net \union Reaching(RefreshFloods(c, pick, f))
    /\ UNCHANGED <<alive, routes, ongoing, relayVars, clientVars, accepts>>
-----------------------------------------------------------------------------
(***************************************************************************)
(* A relay: handleConnFlood.                                               *)
(***************************************************************************)
RefuseFlood(m) ==
    /\ m.type = "ConnFlood" /\ m.dst \in Relays
    /\ PassesThrough(table[m.dst], m.id)
    /\ net' = net \ {m}
    /\ UNCHANGED <<alive, relayVars, serverVars, clientVars, accepts>>

\* A flood whose branch does not come back: the goroutine calls TimeHop and
\* waits for the echo of the sender, for ever if the sender has stopped.
StartFlood(m) ==
    /\ m.type = "ConnFlood" /\ m.dst \in Relays
    /\ ~PassesThrough(table[m.dst], m.id)
    /\ net' = net \ {m}
    /\ handlers' = handlers \union
          {[node |-> m.dst, stage |-> "timing", from |-> m.from, id |-> m.id,
            client |-> m.client, trail |-> m.trail, todo |-> {}]
              : x \in {m.from.ip} \intersect alive}
    /\ UNCHANGED <<alive, peers, table, recoveries, serverVars, clientVars,
                   accepts>>

\* Where a relay passes a flood on to: a POP to the client it is for, any
\* other relay to every peer but the server and the host it came from.
Targets(h) ==
    IF h.node \in Pops
    THEN {At(h.client)}
    ELSE {a \in peers[h.node] : a.ip \notin {h.from.ip, Server}}

\* The goroutines without h, which goes on as next unless it is done.
Advance(h, next) ==
    (handlers \ {h}) \union {g \in {next} : g.todo # {}}

\* The echo has come: the branch is recorded, not in use, whatever the entry
\* was before, and a POP makes the client a peer.
FloodTimed(h) ==
    /\ h.stage = "timing"
    /\ table' = [table EXCEPT
                    ![h.node] = AddEntry(@, FromEntry(h.from, h.id, FALSE))]
    /\ peers' = [peers EXCEPT ![h.node] =
                    @ \union IF h.node \in Pops THEN {At(h.client)} ELSE {}]
    /\ handlers' = Advance(h, [h EXCEPT !.stage = "forwarding",
                                        !.todo = Targets(h)])
    /\ UNCHANGED <<alive, recoveries, serverVars, clientVars, net, accepts>>

\* The ports the relay y sees branch id of host x arrive from.
PortsInUse(x, y, id) ==
    {m.from.port : m \in {m \in Inbox(y, "ConnFlood") : m.from.ip = x /\ m.id = id}}
    \union
    {h.from.port : h \in {h \in handlers : h.node = y /\ h.from.ip = x /\ h.id = id}}
    \union
    {e.addr.port : e \in {e \in FromsOf(table[y]) : e.addr.ip = x /\ e.id = id}}

\* The ports n's flood of id arrives from: a known connection for a peer that
\* announced itself, a new connection for an address of the command line.
\* A client answers on the connection it is called on.
ArrivalPorts(n, a, id) ==
    IF a.ip \in Relays /\ a.port = 0
    THEN LET free == DialPorts \ PortsInUse(n, a.ip, id)
         IN  {k \in free : \A j \in free : k <= j}
    ELSE {0}

\* One iteration of the loop over KnownPeers: AddOutgoingForConn and SendOpen.
\* The flood a POP sends for the zero ClientIp goes to itself (it dials
\* ":8888") and is refused there, since the entry is made first.
ForwardFlood(h, a) ==
    /\ h.stage = "forwarding" /\ a \in h.todo
    /\ \E new \in OutgoingIds(table[h.node], h.id, a) :
       \E k \in ArrivalPorts(h.node, a, new) :
          /\ table' = [table EXCEPT ![h.node] = AddOutgoing(@, h.id, a, new)]
          /\ net' = net \union Reaching(
                {FloodMsg(a.ip, [ip |-> h.node, port |-> k], new, h.client,
                          h.trail \union {h.node})})
    /\ handlers' = Advance(h, [h EXCEPT !.todo = @ \ {a}])
    /\ UNCHANGED <<alive, peers, recoveries, serverVars, clientVars, accepts>>
-----------------------------------------------------------------------------
(***************************************************************************)
(* A relay: acceptances and the end of a stream.                           *)
(***************************************************************************)
\* handleAcceptedConn, under the lock of the table from end to end.
HandleAcceptedConn(m) ==
    /\ m.type = "AcceptedConn" /\ m.dst \in Relays
    /\ LET up == Upstreams(table[m.dst], m.id) IN
       /\ table' = [table EXCEPT ![m.dst] = Accept(@, m.id, m.from)]
       /\ net' = (net \ {m}) \union Reaching(
             {AcceptedMsg(e.addr.ip, Seen(m.dst, e.addr), e.id) : e \in up})
       /\ accepts' = accepts \union
             {<<m.dst, e.addr.ip, KeyOf(e.id)>> : e \in up}
    /\ UNCHANGED <<alive, peers, handlers, recoveries, serverVars, clientVars>>

\* Send finds no connection under the address of a command line or of a
\* client: the end of a stream goes only to the peers that announced
\* themselves to this relay.
Notified(T, key) ==
    {EndMsg(e.addr.ip, key) : e \in {f \in OfContent(TosOf(T), key) : f.addr.port = 1}}

HandleEndOfStream(m) ==
    /\ m.type = "EndOfStream" /\ m.dst \in Relays
    /\ table' = [table EXCEPT ![m.dst] = @ \ OfContent(@, m.key)]
    /\ net' = (net \ {m}) \union Reaching(Notified(table[m.dst], m.key))
    /\ UNCHANGED <<alive, peers, handlers, recoveries, serverVars, clientVars,
                   accepts>>
-----------------------------------------------------------------------------
(***************************************************************************)
(* A relay: handleDeath.                                                   *)
(***************************************************************************)
\* delete(KnownPeers, addr): a flood loop that has not come to the peer will
\* not see it.  Each connection to a peer that ends calls handleDeath; one that
\* ends late may find a client that a POP has made a peer again meanwhile.
Forget(n, a) ==
    /\ a.ip \notin alive \union {NoClient}
    /\ n \in alive
    /\ a \in peers[n]
    /\ peers' = [peers EXCEPT ![n] = @ \ {a}]
    /\ handlers' = {IF h.node = n /\ n \notin Pops
                    THEN [h EXCEPT !.todo = @ \ {a}] ELSE h : h \in handlers}

ClientDeath(n, a) ==
    /\ a.ip \in Clients
    /\ Forget(n, a)
    /\ table' = [table EXCEPT ![n] = @ \ {e \in TosOf(@) : e.addr = a}]
    /\ UNCHANGED <<alive, recoveries, serverVars, clientVars, net, accepts>>

\* Every content that came from the server is removed and its receivers told.
ServerDeath(n, a) ==
    LET T    == table[n]
        from == {e \in FromsOf(T) : e.addr.ip = Server}
        keys == {KeyOf(e.id) : e \in from}
    IN
    /\ a.ip = Server
    /\ Forget(n, a)
    /\ table' = [table EXCEPT ![n] =
                    {e \in T \ from : KeyOf(e.id) \notin keys}]
    /\ net' = net \union
              Reaching(UNION {Notified(T, key) : key \in keys})
    /\ UNCHANGED <<alive, recoveries, serverVars, clientVars, accepts>>

\* Mutant of RelayDeath: looks for a source of every content that was removed,
\* whether it was in use or not.
RelayDeathEager(n, a) ==
    LET lost == LostWith(table[n], a.ip)
        cut  == {key \in Contents : OfContent(lost, key) # {}}
    IN
    /\ a.ip \in Relays
    /\ Forget(n, a)
    /\ table' = [table EXCEPT ![n] = @ \ lost]
    /\ recoveries' = recoveries \union
          {[stage |-> "source", node |-> n, key |-> key,
            dests |-> Interrupted(lost, key)] : key \in cut}
    /\ UNCHANGED <<alive, serverVars, clientVars, net, accepts>>

\* The entries that went through the relay are removed; for every content
\* whose receivers lost their branch the goroutine goes on to choose a source.
RelayDeath(n, a) ==
    LET lost == LostWith(table[n], a.ip)
        cut  == {key \in Contents : Interrupted(lost, key) # {}}
    IN
    /\ a.ip \in Relays
    /\ Forget(n, a)
    /\ table' = [table EXCEPT ![n] = @ \ lost]
    /\ recoveries' = recoveries \union
          {[stage |-> "source", node |-> n, key |-> key,
            dests |-> Interrupted(lost, key)] : key \in cut}
    /\ UNCHANGED <<alive, serverVars, clientVars, net, accepts>>

\* GetContentSources: the loop body runs for the first source only.
RestoreSource(r) ==
    LET sources == {e.addr : e \in OfContent(FromsOf(table[r.node]), r.key)} IN
    /\ r.stage = "source"
    /\ \/ /\ sources = {}
          /\ recoveries' = recoveries \ {r}
       \/ \E s \in sources :
             recoveries' = (recoveries \ {r}) \union
                {[stage |-> "choose", node |-> r.node, key |-> r.key,
                  dests |-> r.dests, source |-> s]}
    /\ UNCHANGED <<alive, peers, table, handlers, serverVars, clientVars, net,
                   accepts>>

\* HopsSinceSplit of an incoming entry.
Hops(n, id) == IF n \in Pops THEN Len(id.path) ELSE 0

\* The incoming entries of the host of s with the fewest hops, whatever their
\* content.
Nearest(n, s) ==
    LET from == {e \in FromsOf(table[n]) : e.addr.ip = s.ip}
    IN  {e \in from : \A f \in from : Hops(n, e.id) <= Hops(n, f.id)}

\* The nearest entry of the source is accepted upstream.
RestoreChoose(r) ==
    /\ r.stage = "choose"
    /\ \E e \in Nearest(r.node, r.source) :
          /\ net' = net \union Reaching(
                {AcceptedMsg(r.source.ip, Seen(r.node, r.source), e.id)})
          /\ accepts' = accepts \union {<<r.node, r.source.ip, KeyOf(e.id)>>}
          /\ recoveries' = (recoveries \ {r}) \union
                {[stage |-> "accept", node |-> r.node, key |-> r.key,
                  dests |-> r.dests, pick |-> e]}
    /\ UNCHANGED <<alive, peers, table, handlers, serverVars, clientVars>>

\* Every entry of the source has gone since: the entry to accept is the zero
\* value.  Its empty identifier is sent to the source as an acceptance before
\* GetConnContent of it panics.
RestorePanics(r) ==
    /\ r.stage = "choose"
    /\ Nearest(r.node, r.source) = {}
    /\ Stop(r.node, {EmptyAcceptedMsg(r.source.ip)})

RestoreAccept(r) ==
    /\ r.stage = "accept"
    /\ table' = [table EXCEPT ![r.node] =
          Reactivate(AddEntry(@, [r.pick EXCEPT !.inUse = TRUE]),
                     r.key, r.dests)]
    /\ recoveries' = recoveries \ {r}
    /\ UNCHANGED <<alive, peers, handlers, serverVars, clientVars, net, accepts>>
-----------------------------------------------------------------------------
(***************************************************************************)
(* A client.                                                               *)
(***************************************************************************)
\* askForStream
Ask(c) ==
    /\ c \in alive \ asked
    /\ asked' = asked \union {c}
    /\ net' = net \union
              Reaching({[type |-> "IWantStream", dst |-> Server, client |-> c]})
    /\ UNCHANGED <<alive, relayVars, serverVars, status, pending, accepts>>

\* handleNewConn tests Status ...
ReceiveOffer(m) ==
    /\ m.type = "ConnFlood" /\ m.dst \in Clients
    /\ net' = net \ {m}
    /\ pending' = pending \union
          {[client |-> c, from |-> m.from, id |-> m.id] :
              c \in {c \in {m.dst} : status[c] = "STARTING"}}
    /\ UNCHANGED <<alive, relayVars, serverVars, asked, status, accepts>>

\* ... and sets it once the acceptance is sent.
AcceptOffer(p) ==
    /\ net' = net \union
              Reaching({AcceptedMsg(p.from.ip, At(p.client), p.id)})
    /\ status' = [status EXCEPT ![p.client] = "AWAITING_STREAM"]
    /\ pending' = pending \ {p}
    /\ accepts' = accepts \union {<<p.client, p.from.ip, KeyOf(p.id)>>}
    /\ UNCHANGED <<alive, relayVars, serverVars, asked>>
-----------------------------------------------------------------------------
Crash(x) == x \in alive \intersect MayCrash /\ Stop(x, {})

\* The steps of goroutines that nothing outside the overlay has to trigger.
Step ==
    \/ \E m \in net :
          \/ HandleIWantStream(m) \/ HandleAcceptedAtServer(m)
          \/ HandleEmptyAccepted(m)
          \/ RefuseFlood(m) \/ StartFlood(m)
          \/ HandleAcceptedConn(m) \/ HandleEndOfStream(m)
          \/ ReceiveOffer(m)
    \/ \E h \in handlers : \E a \in h.todo : ForwardFlood(h, a)
    \/ \E r \in recoveries :
          \/ RestoreSource(r) \/ RestoreChoose(r)
          \/ RestorePanics(r) \/ RestoreAccept(r)
    \/ \E p \in pending : AcceptOffer(p)
    \/ \E n \in Relays : \E a \in peers[n] :
          \/ ClientDeath(n, a) \/ ServerDeath(n, a) \/ RelayDeath(n, a)

\* The echo of a sender that stops meanwhile may come or not.
Timed == \E h \in handlers : FloodTimed(h)

Outside ==
    \/ \E c \in Clients : Ask(c)
    \/ \E c \in Contents : EndStream(c) \/ Refresh(c)
    \/ \E x \in Hosts : Crash(x)

Next == Step \/ Timed \/ Outside

Spec == Init /\ [][Next]_vars

\* Messages are read, the scheduler runs every goroutine, and a relay that
\* runs answers a TimeHop.
Fairness ==
    /\ WF_vars(Step)
    /\ WF_vars(\E h \in handlers : h.from.ip \in alive /\ FloodTimed(h))

FairSpec == Spec /\ Fairness
-----------------------------------------------------------------------------
(***************************************************************************)
(* Properties.                                                             *)
(***************************************************************************)
\* The variables hold values of their kinds: entries, goroutines and messages
\* name hosts that exist and identifiers the code can build.
TypeOK ==
    /\ alive \subseteq Hosts
    /\ peers \in [Relays -> SUBSET Addr(Ips)]
    /\ table \in [Relays -> SUBSET Entry(Ips)]
    /\ handlers \subseteq Handler
    /\ recoveries \subseteq Recovery
    /\ routes \subseteq [to : Relays \union Clients, id : ConnId]
    /\ ongoing \subseteq Contents
    /\ refreshes \in 0 .. MaxRefresh
    /\ asked \subseteq Clients
    /\ status \in [Clients -> {"STARTING", "AWAITING_STREAM"}]
    /\ pending \subseteq Offer
    /\ net \subseteq Message
    /\ accepts \subseteq Ips \X Ips \X Contents

\* Who may be sent packets of which content by whom.
Feeding ==
    {<<r.to, Server, KeyOf(r.id)>> : r \in routes}
    \union
    UNION {{<<e.addr.ip, n, KeyOf(e.id)>> :
               e \in {e \in TosOf(table[n]) : e.inUse}} : n \in Relays}

Demand == INSTANCE Demand WITH
    Keys  <- Contents,
    Want  <- [c \in Clients |-> ContentKey[Wants[c]]],
    feeds <- Feeding

\* Contents flow only where they are in demand: whoever is sent packets has
\* accepted the content from that sender, which accepted it from its own
\* source because of that, or is restoring a stream; and no content is
\* accepted anywhere that no client has asked the server for.
FlowsOnDemand == Demand!Spec

\* Nobody is sent a stream that it has not accepted: ListenStreams forwards
\* packets of a content along the outgoing entries in use, and each of them
\* goes to a host that accepted that content from this very relay, whatever
\* was refreshed, purged or restored since.
Solicited ==
    \A n \in Relays : \A e \in TosOf(table[n]) :
        e.inUse => <<e.addr.ip, n, KeyOf(e.id)>> \in accepts

\* A client is fed only the content it asked for, and only once it has taken
\* an offer: handleNewConn does not look at the content of the offer, so this
\* rests on the floods of every relay on the way.
ClientsGetTheirContent ==
    \A n \in Relays : \A e \in TosOf(table[n]) :
        e.inUse /\ e.addr.ip \in Clients =>
            /\ e.addr.ip \in asked
            /\ status[e.addr.ip] = "AWAITING_STREAM"
            /\ KeyOf(e.id) = ContentKey[Wants[e.addr.ip]]

\* A relay that works on a flood has not worked on it before: PassesThrough
\* stops every branch that comes back, also one that comes back while the
\* relay still waits for an echo or loops over its peers.
NoFloodLoops == \A h \in handlers : h.node \notin h.trail

\* An identifier, which grows with every hop and is sent before every packet of
\* its branch, has at most one number for each relay and one for the client: a
\* flood goes on while its identifier grows, so every flood ends.  These are
\* numbers, not bytes: a name of a content can be of any length.
ShortIds ==
    \A n \in Relays : \A e \in table[n] :
        Len(e.id.path) <= Cardinality(Relays) + 1

\* Who sends the packets of content c to whom: DupStream and ListenStreams.
Feeds(c) ==
    {<<Server, r.to>> : r \in {r \in routes : c \in ongoing /\ KeyOf(r.id) = c}}
    \union
    UNION {{<<n, e.addr.ip>> : e \in {e \in TosOf(table[n]) :
                e.inUse /\ KeyOf(e.id) = ContentKey[c]}} : n \in Relays}

\* "Used to avoid loops" (PassesThrough): two relays never send each other the
\* packets of one content, which would go round between them for ever.
NoFeedLoops ==
    \A c \in Contents : \A x, y \in Relays :
        <<x, y>> \in Feeds(c) => <<y, x>> \notin Feeds(c)

\* The client is reached by the packets of its content from the server on:
\* relays that pass them on to no other relay have one that sends them to it.
Fed(c) ==
    LET edges == Feeds(Wants[c]) IN
    \A R \in SUBSET Relays :
        (\A e \in edges : e[1] \in R \union {Server} => e[2] \in R \union Clients)
            => \E x \in R \union {Server} : <<x, c>> \in edges

\* Nothing is on its way and no goroutine is at work.
Quiet == net = {} /\ handlers = {} /\ recoveries = {} /\ pending = {}

\* Once the overlay comes to rest, every client that asked is reached by its
\* stream: a request made while the floods and acceptances of another one are
\* on the same relays, reusing their identifiers, is not lost among them.
FedWhenQuiet ==
    Quiet /\ alive = Hosts => \A c \in asked : Wants[c] \in Available => Fed(c)

\* A client that has taken an offer is reached by its stream as soon as no
\* acceptance is under way, whatever else is: nothing but the acceptances of
\* a branch has to arrive, and no flood undoes what they did.
TakenIsFed ==
    (\A m \in net : m.type # "AcceptedConn") =>
        \A c \in Clients : status[c] = "AWAITING_STREAM" => Fed(c)

\* A client that asks is eventually fed and stays fed: the offers reach it,
\* its acceptance reaches the server whatever branch it took, and no later
\* flood takes a branch out of use again.
EveryClientFed ==
    \A c \in Clients : (c \in asked /\ Wants[c] \in Available) ~> []Fed(c)

\* A branch recorded by a relay is recorded by the relay it came from, as
\* going to this one: otherwise an acceptance sent up along it would stop
\* there, marking nothing.
BranchHeldUpstream ==
    \A n \in Relays : \A e \in FromsOf(table[n]) : e.addr.ip \in Relays =>
        \E f \in TosOf(table[e.addr.ip]) : f.addr.ip = n /\ f.id = e.id

\* An acceptance on its way to a relay finds there the very branch it accepts,
\* under the address it comes from, and the branch that one grew from, along
\* which it goes on: no acceptance is lost on its way to the server.
AcceptanceFindsBranch ==
    \A m \in net : m.type = "AcceptedConn" /\ m.dst \in Relays =>
        /\ \E e \in TosOf(table[m.dst]) : e.id = m.id /\ e.addr = m.from
        /\ \E e \in FromsOf(table[m.dst]) : e.id = Parent(m.id)

\* The host that f came from feeds n on that branch, or is about to be told by
\* n that it accepts it.
FedOn(n, f) ==
    \/ AcceptedMsg(f.addr.ip, Seen(n, f.addr), f.id) \in net
    \/ f.addr.ip = Server /\ [to |-> n, id |-> f.id] \in routes
    \/ /\ f.addr.ip \in Relays
       /\ ToEntry(Seen(n, f.addr), f.id, TRUE) \in table[f.addr.ip]

\* Whoever is fed is fed by a host that is fed itself, on the branch that this
\* one grew from, or that has asked its own source for it; and a client that
\* has taken an offer is fed by the relay that made it, or its acceptance is
\* on its way there.  Nobody waits at the end of a branch that was accepted
\* only in part, whatever is flooded again on the entries that it uses.
BranchesFed ==
    /\ \A n \in Relays : \A e \in TosOf(table[n]) :
          e.inUse => \E f \in FromsOf(table[n]) :
                        f.id = Parent(e.id) /\ FedOn(n, f)
    /\ \A c \in Clients : status[c] = "AWAITING_STREAM" =>
          \E n \in Relays :
             \/ \E m \in Inbox(n, "AcceptedConn") : m.from.ip = c
             \/ \E e \in TosOf(table[n]) : e.inUse /\ e.addr.ip = c

\* A relay gives no identifier to two receivers, however floods, purges and
\* restarts of its numbering interleave: an acceptance names one of them.
OneReceiver ==
    \A n \in Relays : \A e, f \in TosOf(table[n]) : e.id = f.id => e = f

\* The POP n feeds client c, does not know yet that a peer has stopped, and
\* has also offered c a branch that the death of that peer will leave alone.
HasBackup(n, c) ==
    /\ {n, c} \subseteq alive
    /\ \E e \in TosOf(table[n]) : e.inUse /\ e.addr.ip = c
    /\ \E a \in peers[n] :
          /\ a.ip \in Relays \ alive
          /\ LET left == table[n] \ LostWith(table[n], a.ip) IN
             \E f \in FromsOf(left), g \in TosOf(left) :
                f.addr.ip \in alive /\ g.addr.ip = c /\ Parent(g.id) = f.id

\* A client whose POP has such a branch gets its stream back: handleDeath
\* finds it among what it purges, accepts it upstream and feeds the client.
\* Only the death of the server or the client, or the end of the content,
\* which clears the tables of it, may come before that.  Stated for one client
\* and the time before the first refresh, on the diamond, with or without a
\* link from the POP to the server: where a death meets another flood, of a
\* refresh or across a link between the relays, it fails: the branch chosen may
\* be gone upstream, or one of the dead relay that is recorded after the purge.
RestoredByBackup ==
    \A c \in Clients : (\E n \in Pops : HasBackup(n, c)) ~>
        \/ Fed(c)
        \/ ~({Server, c} \subseteq alive)
        \/ \A n \in Pops : \A e \in TosOf(table[n]) : e.addr.ip # c
=============================================================================
