------------------------------ MODULE Bootstrap -----------------------------
(***************************************************************************)
(* How the processes meet: Announce and Hello (src/node/main.go,           *)
(* src/server/main.go), the request of a client and its answer             *)
(* (src/client/main.go), and the connections that carry them               *)
(* (src/tcp-server/tcp-connections.go).                                    *)
(*                                                                         *)
(* Processes start in any order, stop and start again.  A relay dials the  *)
(* addresses of its command line, a few times, and says Hello; the server  *)
(* answers and makes it a neighbour, a relay makes it a known peer.  The   *)
(* pool finds a connection only under the very address object of that      *)
(* connection; any other address is dialled.  The server is started        *)
(* without addresses, as the scripts do, so its own Announce does nothing. *)
(*                                                                         *)
(* Every relay here is a POP: it offers each branch to the client.  What   *)
(* the messages do to the routing tables is in Overlay, the timing of a    *)
(* hop in TimeHop, and a connection has one reader, which takes all that   *)
(* was sent before it sees the end.                                        *)
(***************************************************************************)
EXTENDS Integers, FiniteSets

CONSTANTS
    Server, Relays, Clients,
    Announces,  \* <<x, y>>: relay x is started with the address of y
    MayStop,    \* the processes that may stop
    MaxStarts,  \* bound: how often a process is started
    RETRIES     \* the attempts of an announcement

Hosts == {Server} \union Relays \union Clients

ASSUME HostsAssumption ==
    /\ Server \notin Relays \union Clients
    /\ Relays \intersect Clients = {}
    /\ "none" \notin Clients    \* an id no request has
    /\ MayStop \subseteq Hosts \ Clients
ASSUME AnnouncesAssumption ==
    Announces \subseteq Relays \X (Relays \union {Server})
ASSUME BoundsAssumption == RETRIES \in Nat /\ MaxStarts \in Nat \ {0}

VARIABLES
    up,          \* the processes that run and listen
    starts,      \* how often each process was started
    made,        \* how many connections x has dialled to y
    open,        \* the ends of connections that are open
    net,         \* the messages no reader has taken
    tries,       \* the goroutine of each announcement: attempts made and state
    known,       \* KnownPeers of each relay
    neighbours,  \* Neighbours of the server
    lacking,     \* the clients that want a content the server has no file for
    request,     \* askForStream of each client
    status,      \* Status of each client
    answer,      \* ghost: what a request was given as its answer
    early        \* ghost: the clients whose answer came before it was awaited

linkVars   == <<made, open, net>>
hostVars   == <<up, starts>>
clientVars == <<lacking, request, status, answer, early>>
vars == <<hostVars, linkVars, tries, known, neighbours, clientVars>>

(***************************************************************************)
(* A connection is <<dialler, listener, number>>.  Port 0 is the listening *)
(* port 8888, a positive one the ephemeral port of that connection.        *)
(***************************************************************************)
Conn   == Hosts \X Hosts \X (Nat \ {0})
NoConn == <<Server, Server, 0>>
Addr   == Hosts \X Nat

End(c, x) == [conn |-> c, host |-> x]
FarHost(e) == IF e.host = e.conn[1] THEN e.conn[2] ELSE e.conn[1]
Far(e) == End(e.conn, FarHost(e))
EndsOf(c) == {End(c, c[1]), End(c, c[2])}

\* conn.RemoteAddr()
RemoteAddr(e) == <<FarHost(e), IF e.host = e.conn[1] THEN 0 ELSE e.conn[3]>>

Msg(c, dst, type, id) == [conn |-> c, dst |-> dst, type |-> type, id |-> id]

Init ==
    /\ up = Clients
    /\ starts = [x \in Hosts |-> IF x \in Clients THEN 1 ELSE 0]
    /\ made = [p \in Hosts \X Hosts |-> 0]
    /\ open = {} /\ net = {}
    /\ tries = [l \in Announces |-> [made |-> 0, pc |-> "off"]]
    /\ known = [x \in Relays |-> {}]
    /\ neighbours = {}
    /\ lacking \in SUBSET Clients
    /\ request = [c \in Clients |-> "start"]
    /\ status = [c \in Clients |-> "STARTING"]
    /\ answer = [c \in Clients |-> "none"]
    /\ early = {}
-----------------------------------------------------------------------------
(***************************************************************************)
(* The pool.                                                               *)
(***************************************************************************)
\* A process listens at address a: OpenConn succeeds.
Dialable(a) == a[2] = 0 /\ a[1] \in up

\* SendOpen by x, to each target (an address and the connection it is the
\* object of): on the connection if the pool has it, else on a new one.
\* What is written to an end that has closed is lost.
SendOpen(x, targets, type, id, left) ==
    LET held == {t \in targets : End(t.conn, x) \in open}
        new  == {<<x, t.addr[1], made[x, t.addr[1]] + 1>> :
                    t \in {t \in targets \ held : Dialable(t.addr)}}
        used == {t.conn : t \in {t \in held : Far(End(t.conn, x)) \in open}}
    IN
    /\ open' = open \union UNION {EndsOf(c) : c \in new}
    /\ made' = [p \in DOMAIN made |->
                   IF \E c \in new : p = <<c[1], c[2]>> THEN made[p] + 1
                                                        ELSE made[p]]
    /\ net' = left \union {Msg(c, FarHost(End(c, x)), type, id) : c \in used \union new}

\* The target an address that was parsed or built is.
Parsed(y) == {[addr |-> <<y, 0>>, conn |-> NoConn]}
-----------------------------------------------------------------------------
(***************************************************************************)
(* Processes start and stop.                                               *)
(***************************************************************************)
Start(x) ==
    /\ x \notin up /\ starts[x] < MaxStarts
    /\ x \notin Clients
    /\ up' = up \union {x}
    /\ starts' = [starts EXCEPT ![x] = @ + 1]
    /\ tries' = [l \in Announces |->
                    IF l[1] # x THEN tries[l]
                    ELSE [made |-> 0, pc |-> IF RETRIES = 0 THEN "done" ELSE "dial"]]
    /\ known' = [n \in Relays |->
                    IF n # x THEN known[n]
                    ELSE {[addr |-> <<l[2], 0>>, type |-> "UNKNOWN"] :
                             l \in {l \in Announces : l[1] = x}}]
    /\ UNCHANGED <<linkVars, neighbours, clientVars>>

\* What the end of process x closes.
Close(x) ==
    /\ up' = up \ {x}
    /\ open' = {e \in open : e.host # x}

Stop(x) ==
    /\ x \in up \intersect MayStop
    /\ Close(x)
    /\ net' = {m \in net : m.dst # x}
    /\ tries' = [l \in Announces |->
                    IF l[1] = x THEN [made |-> 0, pc |-> "off"] ELSE tries[l]]
    /\ known' = [n \in Relays |-> IF n = x THEN {} ELSE known[n]]
    /\ neighbours' = IF x = Server THEN {} ELSE neighbours
    /\ UNCHANGED <<starts, made, clientVars>>
-----------------------------------------------------------------------------
(***************************************************************************)
(* Announcing.                                                             *)
(***************************************************************************)
\* The goroutine after one more attempt.
Tried(l) ==
    [made |-> tries[l].made + 1,
     pc |-> IF tries[l].made + 1 = RETRIES THEN "done" ELSE "dial"]

\* Announce of a relay dials, only to look whether that works.  It keeps no
\* hold of the connection, whose end finds no peer with its port.
Dial(l) ==
    /\ tries[l].pc = "dial"
    /\ tries' = [tries EXCEPT ![l] =
          IF Dialable(<<l[2], 0>>) THEN [@ EXCEPT !.pc = "open"] ELSE Tried(l)]
    /\ UNCHANGED <<hostVars, linkVars, known, neighbours, clientVars>>

\* Then SendOpen dials again; the goroutine returns even if that fails.
SayHello(l) ==
    /\ tries[l].pc = "open"
    /\ tries' = [tries EXCEPT ![l].pc = "done"]
    /\ SendOpen(l[1], Parsed(l[2]), "Hello", "none", net)
    /\ UNCHANGED <<hostVars, known, neighbours, clientVars>>

\* Mutant of Named: the port of the connection stays.
NamedByPort(e) == [key |-> RemoteAddr(e), addr |-> RemoteAddr(e), conn |-> e.conn]

\* HandleHello sets the port of the address object to 8888 and then prints it.
Named(e) ==
    [key |-> <<FarHost(e), 0>>, addr |-> <<FarHost(e), 0>>, conn |-> e.conn]

\* HandleHello of the server.
HandleHello(m) ==
    LET e == End(m.conn, Server) IN
    /\ m.dst = Server /\ m.type = "Hello"
    /\ net' = (net \ {m}) \union
              {Msg(m.conn, f.host, "Hello", "none") : f \in {Far(e)} \intersect open}
    /\ neighbours' =
          {r \in neighbours : r.key # Named(e).key} \union {Named(e)}
    /\ UNCHANGED <<hostVars, made, open, tries, known, clientVars>>

TypeOf(x) == IF x = Server THEN "SERVER" ELSE "NODE"

\* Mutant of RelayHello: a POP is not taken for a relay.
RelayHelloExact(m) ==
    LET e == End(m.conn, m.dst) IN
    /\ m.dst \in Relays /\ m.type = "Hello"
    /\ net' = net \ {m}
    /\ known' = [known EXCEPT ![m.dst] =
          {k \in @ : k.addr # RemoteAddr(e)} \union
          {[addr |-> RemoteAddr(e), type |-> TypeOf(x)] :
              x \in {FarHost(e)} \ Relays}]
    /\ UNCHANGED <<hostVars, made, open, tries, neighbours, clientVars>>

\* handleHello of a relay.
RelayHello(m) ==
    LET e == End(m.conn, m.dst) IN
    /\ m.dst \in Relays /\ m.type = "Hello"
    /\ net' = net \ {m}
    /\ known' = [known EXCEPT ![m.dst] =
          {k \in @ : k.addr # RemoteAddr(e)} \union
          {[addr |-> RemoteAddr(e), type |-> TypeOf(FarHost(e))]}]
    /\ UNCHANGED <<hostVars, made, open, tries, neighbours, clientVars>>

\* Mutants of Forgotten: every peer of the host; none, as at the server.
ForgottenByIp(n, e) == {k \in known[n] : k.addr[1] = FarHost(e)}
ForgottenNever(n, e) == {}

\* handleDeath: the peer that has the address of the connection.
Forgotten(n, e) == {k \in known[n] : k.addr = RemoteAddr(e)}

\* The dispatcher reads the end of a connection.
Eof(e) ==
    /\ Far(e) \notin open
    /\ \A m \in net : ~(m.conn = e.conn /\ m.dst = e.host)
    /\ open' = open \ {e}
    /\ known' = [n \in Relays |->
                    IF n = e.host THEN known[n] \ Forgotten(n, e) ELSE known[n]]
    /\ UNCHANGED <<hostVars, made, net, tries, neighbours, clientVars>>
-----------------------------------------------------------------------------
(***************************************************************************)
(* The request of a client.                                                *)
(***************************************************************************)
\* askForStream sends the request ...
Ask(c) ==
    /\ request[c] = "start"
    /\ request' = [request EXCEPT ![c] = "sent"]
    /\ SendOpen(c, Parsed(Server), "IWantStream", c, net)
    /\ UNCHANGED <<hostVars, tries, known, neighbours, lacking, status, answer, early>>

\* ... and then enters its id among those awaited.
Await(c) ==
    /\ request[c] = "sent"
    /\ request' = [request EXCEPT ![c] = "waiting"]
    /\ UNCHANGED <<hostVars, linkVars, tries, known, neighbours, lacking, status,
                   answer, early>>

\* Mutant of AnswerId: an id of its own, as in a Hello.
AnswerFresh(m) == "none"

\* HandleIWantStream gives the answer the id of the request.
AnswerId(m) == m.id

\* The answer goes out first.  The floods carry the id of the request too.
HandleIWantStream(m) ==
    LET e      == End(m.conn, Server)
        verdict == IF m.id \in lacking THEN "Error" ELSE "Ok"
        replies == {Msg(m.conn, f.host, verdict, AnswerId(m)) : f \in {Far(e)} \intersect open}
    IN
    /\ m.dst = Server /\ m.type = "IWantStream"
    /\ IF verdict = "Error"
       THEN net' = (net \ {m}) \union replies /\ UNCHANGED <<made, open>>
       ELSE SendOpen(Server, {[addr |-> r.addr, conn |-> r.conn] : r \in neighbours},
                     "ConnFlood", m.id, (net \ {m}) \union replies)
    /\ UNCHANGED <<hostVars, tries, known, neighbours, clientVars>>

\* Mutant of OfferId: the header of the flood goes on.
OfferKeepsId(m) == m.id

\* handleConnFlood writes a header without an id.
OfferId(m) == "none"

\* handleConnFlood of a POP: the client becomes a peer and is dialled.  Without
\* the echo of the sender, which may have stopped, nothing more happens.
HandleFlood(m) ==
    /\ m.dst \in Relays /\ m.type = "ConnFlood"
    /\ \/ /\ Far(End(m.conn, m.dst)) \in open
          /\ \E c \in Clients :
                /\ c = m.id
                /\ known' = [known EXCEPT ![m.dst] =
                      {k \in @ : k.addr # <<c, 0>>} \union
                      {[addr |-> <<c, 0>>, type |-> "CLIENT"]}]
                /\ SendOpen(m.dst, Parsed(c), "ConnFlood", OfferId(m), net \ {m})
       \/ /\ Far(End(m.conn, m.dst)) \notin open
          /\ net' = net \ {m}
          /\ UNCHANGED <<known, made, open>>
    /\ UNCHANGED <<hostVars, tries, neighbours, clientVars>>

Awaited(m) == m.id = m.dst /\ request[m.dst] = "waiting"

\* packetHandler: an id that is awaited is handed over, whatever the message,
\* and askForStream goes on.
TakeAnswer(m) ==
    /\ m.dst \in Clients /\ Awaited(m)
    /\ m.type # "Error"
    /\ net' = net \ {m}
    /\ answer' = [answer EXCEPT ![m.dst] = m.type]
    /\ request' = [request EXCEPT ![m.dst] = "listening"]
    /\ UNCHANGED <<hostVars, made, open, tries, known, neighbours, lacking,
                   status, early>>

\* log.Fatal
TakeRefusal(m) ==
    /\ m.dst \in Clients /\ Awaited(m)
    /\ m.type = "Error"
    /\ Close(m.dst)
    /\ net' = {x \in net : x.dst # m.dst}
    /\ answer' = [answer EXCEPT ![m.dst] = m.type]
    /\ request' = [request EXCEPT ![m.dst] = "exited"]
    /\ UNCHANGED <<starts, made, tries, known, neighbours, lacking, status, early>>

\* An answer that is not awaited is dropped.
DropAnswer(m) ==
    /\ m.dst \in Clients /\ ~Awaited(m) /\ m.type # "ConnFlood"
    /\ net' = net \ {m}
    /\ early' = early \union {c \in {m.dst} : request[c] = "sent"}
    /\ UNCHANGED <<hostVars, made, open, tries, known, neighbours, lacking,
                   request, status, answer>>

\* handleNewConn: the first offer is accepted; the acceptance goes on in
\* Overlay.
HandleNewConn(m) ==
    /\ m.dst \in Clients /\ ~Awaited(m) /\ m.type = "ConnFlood"
    /\ net' = net \ {m}
    /\ status' = [status EXCEPT ![m.dst] = "AWAITING_STREAM"]
    /\ UNCHANGED <<hostVars, made, open, tries, known, neighbours, lacking,
                   request, answer, early>>
-----------------------------------------------------------------------------
Step ==
    \/ \E l \in Announces : Dial(l) \/ SayHello(l)
    \/ \E e \in open : Eof(e)
    \/ \E c \in Clients : Await(c)
    \/ \E m \in net :
          \/ HandleHello(m) \/ RelayHello(m) \/ HandleIWantStream(m)
          \/ HandleFlood(m) \/ TakeAnswer(m) \/ TakeRefusal(m) \/ DropAnswer(m)
          \/ HandleNewConn(m)

Next ==
    \/ Step
    \/ \E x \in Hosts : Start(x) \/ Stop(x)
    \/ \E c \in Clients : Ask(c)

Spec == Init /\ [][Next]_vars

\* Goroutines run and messages are read.  Nothing starts or
\* stops a process, or makes a client ask, at any time.
FairSpec == Spec /\ WF_vars(Step)
-----------------------------------------------------------------------------
\* The variables hold values of their kinds.
TypeOK ==
    /\ up \subseteq Hosts
    /\ starts \in [Hosts -> 0 .. MaxStarts]
    /\ made \in [Hosts \X Hosts -> Nat]
    /\ open \subseteq [conn : Conn, host : up]
    /\ \A m \in net :
          /\ m.conn \in Conn /\ End(m.conn, m.dst) \in open
          /\ m.type \in {"Hello", "IWantStream", "Ok", "Error", "ConnFlood"}
          /\ m.id \in Clients \union {"none"}
    /\ tries \in [Announces -> [made : 0 .. RETRIES,
                                pc : {"off", "dial", "open", "done"}]]
    /\ known \in [Relays -> SUBSET [addr : Addr,
                     type : {"UNKNOWN", "SERVER", "NODE", "CLIENT"}]]
    /\ neighbours \subseteq [key : Addr, addr : Addr, conn : Conn]
    /\ request \in [Clients -> {"start", "sent", "waiting", "listening", "exited"}]
    /\ status \in [Clients -> {"STARTING", "AWAITING_STREAM"}]
    /\ answer \in [Clients -> {"none", "Ok", "Error"}]
    /\ early \subseteq Clients

\* A relay that stops and announces itself again takes the place of what it was
\* among the neighbours of the server, which nobody removes: a request is
\* flooded once to each relay.
NeighbourOnce ==
    \A r, s \in neighbours : r.addr[1] = s.addr[1] => r = s

\* The end of a connection of an earlier life of a peer, or of one of several
\* connections to it, does not make a relay forget the peer: it forgets one only when
\* the process it knew has ended.
NoFalseDeath ==
    [][\A n \in Relays : \A k \in known[n] \ known'[n] :
          \/ n \notin up'
          \/ \E j \in known'[n] : j.addr = k.addr
          \/ /\ k.addr[2] = 0
             /\ k.addr[1] \notin up \/ starts[k.addr[1]] > 1
          \/ /\ k.addr[2] > 0
             /\ End(<<k.addr[1], n, k.addr[2]>>, k.addr[1]) \notin open]_vars

\* The server has an address of x it can dial, a relay the connection that x
\* announced itself on.  A Hello of an earlier life of x that is handled late
\* leaves the server with an address object the pool no longer finds.
Knows(y, x) ==
    IF y = Server
    THEN \E r \in neighbours : r.addr = <<x, 0>>
    ELSE \E k \in known[y] :
            /\ k.addr[1] = x /\ k.addr[2] > 0 /\ k.type = TypeOf(x)
            /\ EndsOf(<<x, y, k.addr[2]>>) \subseteq open

\* A process that announces itself to one that listens is known there and stays
\* known, whoever starts first and whatever the server and others dial, until one
\* of them stops.
MetForGood ==
    \A l \in Announces :
        [](tries[l].pc \in {"dial", "open"} /\ l[2] \in up =>
              \/ <>[]Knows(l[2], l[1])
              \/ <>(l[1] \notin up) \/ <>(l[2] \notin up))

\* The peer a relay knows by a connection that the peer's end has closed.
Stale(n) ==
    {k \in known[n] : /\ k.addr[2] > 0
                      /\ End(<<k.addr[1], n, k.addr[2]>>, k.addr[1]) \notin open}

\* A relay does not keep a peer that has stopped: what it knows of an earlier
\* life of a process goes, also while the process announces itself again.
StaleForgotten == \A n \in Relays : Stale(n) # {} ~> Stale(n) = {}

\* What a request is given as its answer is the answer of the server, although
\* the floods that become the client's offers carry the same id.
AnswerIsTheAnswer ==
    \A c \in Clients :
        answer[c] \in {"none", IF c \in lacking THEN "Error" ELSE "Ok"}

\* A request that reaches the server is answered and the client goes on or
\* ends, unless the answer came before the client awaited it.
EveryRequestResolved ==
    \A c \in Clients :
        (\E m \in net : m.type = "IWantStream" /\ m.id = c) ~>
            \/ request[c] \in {"listening", "exited"}
            \/ c \in early
            \/ Server \notin up

\* The server has relay y as a neighbour and is not mistaken about the
\* connection: it is open at both ends or known to have ended, and no Hello of
\* an earlier life of y is still to be handled.
InReach(y) ==
    /\ y \in up
    /\ \E r \in neighbours :
          /\ r.addr[1] = y
          /\ End(r.conn, Server) \in open => EndsOf(r.conn) \subseteq open
    /\ \A m \in net :
          m.type = "Hello" /\ m.conn[1] = y /\ m.dst = Server =>
              EndsOf(m.conn) \subseteq open

\* A client that asks for a content of the server gets an offer through every
\* neighbour in reach, also one that has restarted and not announced itself
\* again, which the server has to dial.
AskerGetsOffer ==
    \A c \in Clients, y \in Relays :
        (/\ \E m \in net : m.type = "IWantStream" /\ m.id = c
         /\ c \notin lacking /\ InReach(y)) ~>
            status[c] = "AWAITING_STREAM" \/ ~({Server, y} \subseteq up)
=============================================================================
