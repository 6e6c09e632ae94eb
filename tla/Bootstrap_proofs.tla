--------------------------- MODULE Bootstrap_proofs ---------------------------
(***************************************************************************)
(* The safety of the bootstrap, for any processes and command lines: the   *)
(* server knows each relay once, a request is given the answer of the      *)
(* server, and a relay forgets a peer only when that peer has ended.       *)
(***************************************************************************)
EXTENDS Bootstrap, TLAPS

USE DEF Hosts

-----------------------------------------------------------------------------
(***************************************************************************)
(* What the invariants rest on.                                            *)
(***************************************************************************)
\* Processes that run have been started, announce themselves only while they
\* run and have attempts left; only a client that was refused has ended; a
\* relay that does not run knows nobody.
Running ==
    /\ \A x \in up : starts[x] >= 1
    /\ \A l \in Announces : tries[l].pc \in {"dial", "open"} =>
          l[1] \in up /\ tries[l].made < RETRIES
    /\ \A c \in Clients : request[c] # "exited" => c \in up
    /\ \A n \in Relays \ up : known[n] = {}

\* The open ends belong to the hosts of their connections, and an end is left
\* alone only by a process that has stopped since.
HalfOpen ==
    \A e \in open :
        /\ e.host \in {e.conn[1], e.conn[2]}
        /\ starts[FarHost(e)] >= 1
        /\ Far(e) \in open \/ FarHost(e) \notin up \/ starts[FarHost(e)] > 1

\* The server keeps one neighbour under each address, which is the listening
\* address of its host.
OneKey ==
    /\ \A r \in neighbours : r.key = r.addr /\ r.addr[2] = 0
    /\ \A r, s \in neighbours : r.key = s.key => r = s

\* No announcement involves a client.
NoClientAnnounced ==
    /\ \A r \in neighbours :
          r.addr[1] \notin Clients /\ r.conn[1] \notin Clients /\ r.conn[2] \notin Clients
    /\ \A m \in net : m.type = "Hello" =>
          m.conn[1] \notin Clients /\ m.conn[2] \notin Clients

\* The only messages that reach a client under the id of a request are the
\* answers of the server to it.
IdsOfAnswers ==
    \A m \in net :
        /\ m.type \in {"Ok", "Error"} =>
              /\ m.id \in Clients
              /\ m.type = IF m.id \in lacking THEN "Error" ELSE "Ok"
        /\ m.type = "Hello" => m.id = "none"
        /\ m.type = "IWantStream" => m.id \in Clients /\ m.dst = Server
        /\ m.type = "ConnFlood" /\ m.dst \in Clients => m.id = "none"

BootInv ==
    /\ TypeOK /\ Running /\ HalfOpen /\ OneKey /\ NoClientAnnounced
    /\ IdsOfAnswers /\ AnswerIsTheAnswer
-----------------------------------------------------------------------------
(***************************************************************************)
(* Connections.                                                            *)
(***************************************************************************)
LEMMA NextNat == \A k \in Nat : k + 1 \in Nat \ {0}
  OBVIOUS

LEMMA ConnOf ==
    ASSUME NEW x \in Hosts, NEW y \in Hosts, NEW n \in Nat \ {0}
    PROVE  /\ <<x, y, n>> \in Conn
           /\ <<x, y, n>>[1] = x /\ <<x, y, n>>[2] = y
  BY DEF Conn

\* The far end of a far end is the end itself.
LEMMA FarOfFar ==
    ASSUME NEW c, NEW x \in {c[1], c[2]}
    PROVE  /\ FarHost(End(c, x)) \in {c[1], c[2]}
           /\ Far(Far(End(c, x))) = End(c, x)
  BY DEF FarHost, Far, End

\* SendOpen leaves the connections that are open, opens both ends of new ones
\* and writes to hosts the targets are about.
LEMMA Sending ==
    ASSUME TypeOK, NEW x \in up, NEW targets, NEW type, NEW id, NEW left,
           \A t \in targets : t.addr \in Addr,
           SendOpen(x, targets, type, id, left)
    PROVE  /\ made' \in [Hosts \X Hosts -> Nat]
           /\ open \subseteq open'
           /\ \A e \in open' \ open :
                 /\ e \in [conn : Conn, host : up]
                 /\ e.host \in {e.conn[1], e.conn[2]}
                 /\ FarHost(e) \in up /\ Far(e) \in open'
           /\ left \subseteq net'
           /\ \A m \in net' \ left :
                 /\ m.type = type /\ m.id = id
                 /\ m.conn \in Conn /\ End(m.conn, m.dst) \in open'
                 /\ \E t \in targets :
                       \/ /\ m.conn[1] = x /\ m.conn[2] = t.addr[1]
                          /\ m.dst = t.addr[1]
                       \/ /\ m.conn = t.conn /\ End(t.conn, x) \in open
                          /\ m.dst = FarHost(End(t.conn, x))
  <1> DEFINE held == {t \in targets : End(t.conn, x) \in open}
             toNew == {t \in targets \ held : Dialable(t.addr)}
             new == {<<x, t.addr[1], made[x, t.addr[1]] + 1>> : t \in toNew}
             used == {t.conn : t \in {t \in held : Far(End(t.conn, x)) \in open}}
  <1>1. /\ open' = open \union UNION {EndsOf(c) : c \in new}
        /\ made' = [p \in DOMAIN made |->
                       IF \E c \in new : p = <<c[1], c[2]>> THEN made[p] + 1
                                                            ELSE made[p]]
        /\ net' = left \union
                  {Msg(c, FarHost(End(c, x)), type, id) : c \in used \union new}
    BY DEF SendOpen
  <1>2. x \in Hosts /\ up \subseteq Hosts /\ made \in [Hosts \X Hosts -> Nat]
        /\ open \subseteq [conn : Conn, host : up]
    BY DEF TypeOK
  <1>3. ASSUME NEW c \in new
        PROVE  /\ c \in Conn /\ c[1] = x /\ c[2] \in up
               /\ \E t \in targets : c[2] = t.addr[1]
    <2>1. PICK t \in toNew : c = <<x, t.addr[1], made[x, t.addr[1]] + 1>>
      OBVIOUS
    <2>2. t \in targets /\ t.addr[1] \in up
      BY DEF Dialable
    <2>3. made[x, t.addr[1]] + 1 \in Nat \ {0}
      <3>1. <<x, t.addr[1]>> \in Hosts \X Hosts
        BY <1>2, <2>2
      <3>2. made[<<x, t.addr[1]>>] \in Nat
        BY <1>2, <3>1
      <3> QED
        BY NextNat, <3>2
    <2> QED
      BY <1>2, <2>1, <2>2, <2>3, ConnOf
  <1>4. made' \in [Hosts \X Hosts -> Nat]
    <2> HIDE DEF new, used
    <2>1. \A p \in Hosts \X Hosts : made[p] \in Nat /\ made[p] + 1 \in Nat
      BY <1>2, NextNat
    <2> QED
      BY <1>1, <1>2, <2>1
  <1>5. ASSUME NEW e \in open' \ open
        PROVE  /\ e \in [conn : Conn, host : up]
               /\ e.host \in {e.conn[1], e.conn[2]}
               /\ FarHost(e) \in up /\ Far(e) \in open'
    <2>1. PICK c \in new : e \in EndsOf(c)
      BY <1>1
    <2>2. PICK y \in {c[1], c[2]} : e = End(c, y)
      BY <2>1 DEF EndsOf
    <2>3. e.conn = c /\ e.host = y
      BY <2>2 DEF End
    <2>4. FarHost(e) \in {c[1], c[2]}
      BY <2>2, FarOfFar
    <2>5. Far(e) \in EndsOf(c)
      BY <2>3, <2>4 DEF Far, EndsOf
    <2> QED
      BY <1>1, <1>3, <2>2, <2>3, <2>4, <2>5 DEF End
  <1>6. ASSUME NEW m \in net' \ left
        PROVE  /\ m.type = type /\ m.id = id
               /\ m.conn \in Conn /\ End(m.conn, m.dst) \in open'
               /\ \E t \in targets :
                     \/ /\ m.conn[1] = x /\ m.conn[2] = t.addr[1]
                        /\ m.dst = t.addr[1]
                     \/ /\ m.conn = t.conn /\ End(t.conn, x) \in open
                        /\ m.dst = FarHost(End(t.conn, x))
    <2>1. PICK c \in used \union new : m = Msg(c, FarHost(End(c, x)), type, id)
      BY <1>1
    <2>2. m.conn = c /\ m.dst = FarHost(End(c, x)) /\ m.type = type /\ m.id = id
      BY <2>1 DEF Msg
    <2>3. End(c, FarHost(End(c, x))) = Far(End(c, x))
      BY DEF Far, End
    <2>4. CASE c \in used
      <3>1. PICK t \in held : c = t.conn /\ Far(End(c, x)) \in open
        BY <2>4
      <3>2. c \in Conn
        BY <1>2, <3>1 DEF End
      <3> QED
        BY <1>1, <2>2, <2>3, <3>1, <3>2
    <2>5. CASE c \in new
      <3>1. /\ c \in Conn /\ c[1] = x
            /\ \E t \in targets : c[2] = t.addr[1]
        BY <1>3, <2>5
      <3>2. FarHost(End(c, x)) = c[2]
        BY <3>1 DEF FarHost, End
      <3>3. End(c, c[2]) \in open'
        <4> HIDE DEF new
        <4> QED
          BY <1>1, <2>5 DEF EndsOf
      <3> QED
        BY <2>2, <3>1, <3>2, <3>3
    <2> QED
      BY <2>4, <2>5
  <1> QED
    BY <1>1, <1>4, <1>5, <1>6

\* So the ends stay as HalfOpen says, and every message has an end to arrive at.
LEMMA SendingKeepsLinks ==
    ASSUME TypeOK, Running, HalfOpen, NEW x \in up, NEW targets, NEW type,
           NEW id, NEW left, \A t \in targets : t.addr \in Addr,
           \A m \in left : m.conn \in Conn /\ End(m.conn, m.dst) \in open,
           SendOpen(x, targets, type, id, left), UNCHANGED hostVars
    PROVE  /\ HalfOpen'
           /\ open' \subseteq [conn : Conn, host : up']
           /\ made' \in [Hosts \X Hosts -> Nat]
           /\ \A m \in net' : m.conn \in Conn /\ End(m.conn, m.dst) \in open'
  <1>1. up' = up /\ starts' = starts
    BY DEF hostVars
  <1>2. made' \in [Hosts \X Hosts -> Nat] /\ open \subseteq open'
    BY Sending
  <1>3. \A e \in open' \ open :
           /\ e \in [conn : Conn, host : up]
           /\ e.host \in {e.conn[1], e.conn[2]}
           /\ FarHost(e) \in up /\ Far(e) \in open'
    BY Sending
  <1>4. \A m \in net' \ left : m.conn \in Conn /\ End(m.conn, m.dst) \in open'
    BY Sending
  <1>5. open \subseteq [conn : Conn, host : up]
    BY DEF TypeOK
  <1>6. ASSUME NEW e \in open'
        PROVE  /\ e.host \in {e.conn[1], e.conn[2]}
               /\ starts[FarHost(e)] >= 1
               /\ Far(e) \in open' \/ FarHost(e) \notin up \/ starts[FarHost(e)] > 1
    BY <1>2, <1>3 DEF HalfOpen, Running
  <1> QED
    BY <1>1, <1>2, <1>3, <1>4, <1>5, <1>6 DEF HalfOpen, Far, FarHost, End

-----------------------------------------------------------------------------
(***************************************************************************)
(* Steps that leave the processes and the connections alone.               *)
(***************************************************************************)
\* A goroutine that announces makes another attempt.
LEMMA BootDial ==
    ASSUME BootInv, NEW l \in Announces, Dial(l)
    PROVE  BootInv'
  <1>1. /\ UNCHANGED <<up, starts, made, open, net, known, neighbours, lacking,
                       request, status, answer, early>>
        /\ tries[l].pc = "dial"
        /\ tries' = [tries EXCEPT ![l] =
              IF Dialable(<<l[2], 0>>) THEN [@ EXCEPT !.pc = "open"] ELSE Tried(l)]
    BY DEF Dial, hostVars, linkVars, clientVars
  <1>2. /\ tries \in [Announces -> [made : 0 .. RETRIES,
                                    pc : {"off", "dial", "open", "done"}]]
        /\ l[1] \in up /\ tries[l].made < RETRIES
    BY <1>1 DEF BootInv, TypeOK, Running
  <1>3. /\ Tried(l) \in [made : 0 .. RETRIES, pc : {"done", "dial"}]
        /\ Tried(l).pc = "dial" => Tried(l).made < RETRIES
    BY <1>2, BoundsAssumption DEF Tried
  <1>4. \A k \in Announces :
           /\ tries'[k] \in [made : 0 .. RETRIES, pc : {"off", "dial", "open", "done"}]
           /\ tries'[k].pc \in {"dial", "open"} =>
                 k[1] \in up /\ tries'[k].made < RETRIES
    <2>1. ASSUME NEW k \in Announces, k # l
          PROVE  tries'[k] = tries[k]
      BY <1>1, <1>2, <2>1
    <2>2. \/ tries'[l] = Tried(l)
          \/ tries'[l] = [tries[l] EXCEPT !.pc = "open"]
      BY <1>1, <1>2
    <2> QED
      BY <1>2, <1>3, <2>1, <2>2 DEF BootInv, Running
  <1>5. tries' \in [Announces -> [made : 0 .. RETRIES,
                                  pc : {"off", "dial", "open", "done"}]]
    BY <1>1, <1>2, <1>4
  <1>6. TypeOK'
    BY <1>1, <1>5 DEF BootInv, TypeOK
  <1>7. Running'
    BY <1>1, <1>4 DEF BootInv, Running
  <1> QED
    BY <1>1, <1>6, <1>7
    DEF BootInv, HalfOpen, OneKey, NoClientAnnounced, IdsOfAnswers,
        AnswerIsTheAnswer, Far, FarHost, End

\* Taking messages that are answered with none, if the clients' variables keep
\* their kinds and the answers are as they should be.
LEMMA BootTaken ==
    ASSUME BootInv, net' \subseteq net,
           \A c \in Clients : request[c] = "exited" => request'[c] = "exited",
           request' \in [Clients -> {"start", "sent", "waiting", "listening", "exited"}],
           status' \in [Clients -> {"STARTING", "AWAITING_STREAM"}],
           answer' \in [Clients -> {"none", "Ok", "Error"}],
           early' \subseteq Clients, AnswerIsTheAnswer',
           UNCHANGED <<up, starts, made, open, tries, known, neighbours, lacking>>
    PROVE  BootInv'
  <1>1. TypeOK'
    BY DEF BootInv, TypeOK
  <1>2. Running' /\ HalfOpen' /\ OneKey'
    BY DEF BootInv, Running, HalfOpen, OneKey, Far, FarHost, End
  <1>3. NoClientAnnounced' /\ IdsOfAnswers'
    BY DEF BootInv, NoClientAnnounced, IdsOfAnswers
  <1> QED
    BY <1>1, <1>2, <1>3 DEF BootInv

\* packetHandler hands over answers of the server only.
LEMMA BootTakeAnswer ==
    ASSUME BootInv, NEW m \in net, TakeAnswer(m)
    PROVE  BootInv'
  <1>1. /\ m.dst \in Clients /\ m.id = m.dst /\ request[m.dst] = "waiting"
        /\ net' = net \ {m}
        /\ answer' = [answer EXCEPT ![m.dst] = m.type]
        /\ request' = [request EXCEPT ![m.dst] = "listening"]
        /\ UNCHANGED <<up, starts, made, open, tries, known, neighbours, lacking,
                       status, early>>
    BY DEF TakeAnswer, Awaited, hostVars
  <1>2. m.type = IF m.dst \in lacking THEN "Error" ELSE "Ok"
    <2>1. m.type \in {"Hello", "IWantStream", "Ok", "Error", "ConnFlood"}
      BY DEF BootInv, TypeOK
    <2>2. m.type \notin {"Hello", "IWantStream", "ConnFlood"}
      BY <1>1, HostsAssumption DEF BootInv, IdsOfAnswers
    <2> QED
      BY <1>1, <2>1, <2>2 DEF BootInv, IdsOfAnswers
  <1>3. /\ request \in [Clients -> {"start", "sent", "waiting", "listening", "exited"}]
        /\ answer \in [Clients -> {"none", "Ok", "Error"}]
        /\ status \in [Clients -> {"STARTING", "AWAITING_STREAM"}]
        /\ early \subseteq Clients
    BY DEF BootInv, TypeOK
  <1>4. AnswerIsTheAnswer'
    BY <1>1, <1>2, <1>3 DEF BootInv, AnswerIsTheAnswer
  <1> QED
    BY <1>1, <1>2, <1>3, <1>4, BootTaken

LEMMA BootDropAnswer ==
    ASSUME BootInv, NEW m \in net, DropAnswer(m) \/ HandleNewConn(m)
    PROVE  BootInv'
  <1>1. /\ m.dst \in Clients /\ net' = net \ {m}
        /\ UNCHANGED <<up, starts, made, open, tries, known, neighbours, lacking,
                       request, answer>>
        /\ early' \subseteq early \union {m.dst}
        /\ status' = status \/ status' = [status EXCEPT ![m.dst] = "AWAITING_STREAM"]
    BY DEF DropAnswer, HandleNewConn, hostVars
  <1>2. /\ request \in [Clients -> {"start", "sent", "waiting", "listening", "exited"}]
        /\ answer \in [Clients -> {"none", "Ok", "Error"}]
        /\ status \in [Clients -> {"STARTING", "AWAITING_STREAM"}]
        /\ early \subseteq Clients
    BY DEF BootInv, TypeOK
  <1>3. AnswerIsTheAnswer'
    BY <1>1 DEF BootInv, AnswerIsTheAnswer
  <1>4. early' \subseteq Clients
    BY <1>1, <1>2
  <1>5. status' \in [Clients -> {"STARTING", "AWAITING_STREAM"}]
    BY <1>1, <1>2
  <1>6. net' \subseteq net
    BY <1>1
  <1> QED
    BY <1>1, <1>2, <1>3, <1>4, <1>5, <1>6, BootTaken

LEMMA BootAwait ==
    ASSUME BootInv, NEW c \in Clients, Await(c)
    PROVE  BootInv'
  <1>1. /\ request[c] = "sent" /\ request' = [request EXCEPT ![c] = "waiting"]
        /\ UNCHANGED <<up, starts, made, open, net, tries, known, neighbours,
                       lacking, status, answer, early>>
    BY DEF Await, hostVars, linkVars
  <1>2. /\ request \in [Clients -> {"start", "sent", "waiting", "listening", "exited"}]
        /\ answer \in [Clients -> {"none", "Ok", "Error"}]
        /\ status \in [Clients -> {"STARTING", "AWAITING_STREAM"}]
        /\ early \subseteq Clients
    BY DEF BootInv, TypeOK
  <1>3. AnswerIsTheAnswer'
    BY <1>1 DEF BootInv, AnswerIsTheAnswer
  <1>4. request' \in [Clients -> {"start", "sent", "waiting", "listening", "exited"}]
    BY <1>1, <1>2
  <1> QED
    BY <1>1, <1>2, <1>3, <1>4, BootTaken

\* A Hello taken by its receiver, which runs; the far end is a host.
LEMMA Receiving ==
    ASSUME BootInv, NEW m \in net
    PROVE  /\ m.conn \in Conn /\ m.dst \in up /\ m.dst \in {m.conn[1], m.conn[2]}
           /\ End(m.conn, m.dst) \in open
           /\ FarHost(End(m.conn, m.dst)) \in {m.conn[1], m.conn[2]}
           /\ FarHost(End(m.conn, m.dst)) \in Hosts
           /\ RemoteAddr(End(m.conn, m.dst)) \in Addr
  <1>1. m.conn \in Conn /\ End(m.conn, m.dst) \in open
    BY DEF BootInv, TypeOK
  <1>2. m.dst \in up /\ m.dst \in {m.conn[1], m.conn[2]}
    <2>1. End(m.conn, m.dst) \in [conn : Conn, host : up]
      BY <1>1 DEF BootInv, TypeOK
    <2> QED
      BY <1>1, <2>1 DEF BootInv, HalfOpen, End
  <1>3. m.conn[1] \in Hosts /\ m.conn[2] \in Hosts /\ m.conn[3] \in Nat
    BY <1>1 DEF Conn
  <1>4. FarHost(End(m.conn, m.dst)) \in {m.conn[1], m.conn[2]}
    BY <1>2, FarOfFar
  <1>5. RemoteAddr(End(m.conn, m.dst)) \in Addr
    BY <1>3, <1>4 DEF RemoteAddr, Addr, End
  <1> QED
    BY <1>1, <1>2, <1>3, <1>4, <1>5

LEMMA BootRelayHello ==
    ASSUME BootInv, NEW m \in net, RelayHello(m)
    PROVE  BootInv'
  <1> DEFINE peer == [addr |-> RemoteAddr(End(m.conn, m.dst)),
                      type |-> TypeOf(FarHost(End(m.conn, m.dst)))]
  <1>1. /\ m.dst \in Relays /\ net' = net \ {m}
        /\ known' = [known EXCEPT ![m.dst] =
              {k \in @ : k.addr # RemoteAddr(End(m.conn, m.dst))} \union {peer}]
        /\ UNCHANGED <<up, starts, made, open, tries, neighbours, lacking,
                       request, status, answer, early>>
    BY DEF RelayHello, hostVars, clientVars
  <1>2. peer \in [addr : Addr, type : {"UNKNOWN", "SERVER", "NODE", "CLIENT"}]
    BY Receiving DEF TypeOf
  <1> HIDE DEF peer
  <1>3. ASSUME NEW n \in Relays
        PROVE  /\ known'[n] \subseteq known[n] \union {peer}
               /\ n # m.dst => known'[n] = known[n]
    BY <1>1 DEF BootInv, TypeOK
  <1>4. TypeOK'
    BY <1>1, <1>2, <1>3 DEF BootInv, TypeOK
  <1>5. Running'
    BY <1>1, <1>3, Receiving DEF BootInv, Running
  <1>6. HalfOpen' /\ OneKey' /\ NoClientAnnounced' /\ IdsOfAnswers' /\ AnswerIsTheAnswer'
    BY <1>1 DEF BootInv, HalfOpen, OneKey, NoClientAnnounced, IdsOfAnswers,
                AnswerIsTheAnswer, Far, FarHost, End
  <1> QED
    BY <1>4, <1>5, <1>6 DEF BootInv

LEMMA BootHandleHello ==
    ASSUME BootInv, NEW m \in net, HandleHello(m)
    PROVE  BootInv'
  <1> DEFINE e == End(m.conn, Server)
             reply == {Msg(m.conn, f.host, "Hello", "none") : f \in {Far(e)} \intersect open}
  <1>1. /\ m.dst = Server /\ m.type = "Hello"
        /\ net' = (net \ {m}) \union reply
        /\ neighbours' = {r \in neighbours : r.key # Named(e).key} \union {Named(e)}
        /\ UNCHANGED <<up, starts, made, open, tries, known, lacking, request,
                       status, answer, early>>
    BY DEF HandleHello, hostVars, clientVars
  <1>2. /\ m.conn \in Conn /\ FarHost(e) \in Hosts
        /\ FarHost(e) \in {m.conn[1], m.conn[2]}
        /\ m.conn[1] \notin Clients /\ m.conn[2] \notin Clients
    BY <1>1, Receiving DEF BootInv, NoClientAnnounced
  <1>3. ASSUME NEW x \in reply
        PROVE  /\ x.conn = m.conn /\ x.type = "Hello" /\ x.id = "none"
               /\ End(x.conn, x.dst) \in open
    BY <1>2 DEF Msg, Far, End
  <1>4. /\ Named(e) \in [key : Addr, addr : Addr, conn : Conn]
        /\ Named(e).key = Named(e).addr /\ Named(e).addr[2] = 0
        /\ Named(e).addr[1] = FarHost(e) /\ Named(e).conn = m.conn
    BY <1>2 DEF Named, Addr, End
  <1> HIDE DEF reply
  <1>5. TypeOK'
    BY <1>1, <1>2, <1>3, <1>4 DEF BootInv, TypeOK
  <1>6. Running' /\ HalfOpen' /\ AnswerIsTheAnswer'
    BY <1>1 DEF BootInv, Running, HalfOpen, AnswerIsTheAnswer, Far, FarHost, End
  <1>7. OneKey'
    BY <1>1, <1>4 DEF BootInv, OneKey
  <1>8. NoClientAnnounced'
    BY <1>1, <1>2, <1>3, <1>4 DEF BootInv, NoClientAnnounced
  <1>9. IdsOfAnswers'
    BY <1>1, <1>3 DEF BootInv, IdsOfAnswers
  <1> QED
    BY <1>5, <1>6, <1>7, <1>8, <1>9 DEF BootInv

-----------------------------------------------------------------------------
(***************************************************************************)
(* Steps that open connections.                                            *)
(***************************************************************************)
\* The address object of a command line is no object of a connection.
LEMMA ParsedTarget ==
    ASSUME TypeOK, NEW y \in Hosts, NEW t \in Parsed(y)
    PROVE  /\ t.addr \in Addr /\ t.addr[1] = y
           /\ \A x : End(t.conn, x) \notin open
  <1>1. t = [addr |-> <<y, 0>>, conn |-> NoConn]
    BY DEF Parsed
  <1>2. \A x : End(NoConn, x) \notin open
    BY DEF TypeOK, End, NoConn, Conn
  <1> QED
    BY <1>1, <1>2 DEF Addr

\* What SendOpen to such an address writes travels on a connection to it.
LEMMA SendingParsed ==
    ASSUME TypeOK, NEW x \in up, NEW y \in Hosts, NEW type, NEW id, NEW left,
           SendOpen(x, Parsed(y), type, id, left)
    PROVE  \A m \in net' \ left :
              /\ m.type = type /\ m.id = id
              /\ m.conn[1] = x /\ m.conn[2] = y /\ m.dst = y
  <1>1. \A t \in Parsed(y) : t.addr \in Addr
    BY ParsedTarget
  <1>2. ASSUME NEW m \in net' \ left
        PROVE  /\ m.type = type /\ m.id = id
               /\ \E t \in Parsed(y) :
                     \/ /\ m.conn[1] = x /\ m.conn[2] = t.addr[1]
                        /\ m.dst = t.addr[1]
                     \/ /\ m.conn = t.conn /\ End(t.conn, x) \in open
                        /\ m.dst = FarHost(End(t.conn, x))
    BY <1>1, Sending
  <1> QED
    BY <1>2, ParsedTarget

LEMMA BootSayHello ==
    ASSUME BootInv, NEW l \in Announces, SayHello(l)
    PROVE  BootInv'
  <1>1. /\ tries[l].pc = "open"
        /\ tries' = [tries EXCEPT ![l].pc = "done"]
        /\ SendOpen(l[1], Parsed(l[2]), "Hello", "none", net)
        /\ UNCHANGED <<up, starts, known, neighbours, lacking, request, status,
                       answer, early>>
    BY DEF SayHello, hostVars, clientVars
  <1>2. /\ TypeOK /\ Running /\ HalfOpen /\ l[1] \in up /\ l[2] \in Hosts
        /\ l[1] \notin Clients /\ l[2] \notin Clients
    BY <1>1, AnnouncesAssumption, HostsAssumption DEF BootInv, Running
  <1>3. /\ \A t \in Parsed(l[2]) : t.addr \in Addr
        /\ \A m \in net : m.conn \in Conn /\ End(m.conn, m.dst) \in open
        /\ UNCHANGED hostVars
    BY <1>1, <1>2, ParsedTarget DEF TypeOK, hostVars
  <1>4. /\ HalfOpen'
        /\ open' \subseteq [conn : Conn, host : up']
        /\ made' \in [Hosts \X Hosts -> Nat]
        /\ \A m \in net' : m.conn \in Conn /\ End(m.conn, m.dst) \in open'
    BY <1>1, <1>2, <1>3, SendingKeepsLinks
  <1>5. \A m \in net' \ net :
           /\ m.type = "Hello" /\ m.id = "none"
           /\ m.conn[1] = l[1] /\ m.conn[2] = l[2] /\ m.dst = l[2]
    BY <1>1, <1>2, SendingParsed
  <1>6. /\ tries' \in [Announces -> [made : 0 .. RETRIES,
                                     pc : {"off", "dial", "open", "done"}]]
        /\ \A k \in Announces : tries'[k].pc \in {"dial", "open"} =>
              tries'[k] = tries[k]
    BY <1>1, <1>2 DEF TypeOK
  <1>7. TypeOK'
    BY <1>1, <1>2, <1>4, <1>5, <1>6 DEF TypeOK
  <1>8. Running'
    BY <1>1, <1>2, <1>6 DEF Running
  <1>9. OneKey' /\ AnswerIsTheAnswer'
    BY <1>1 DEF BootInv, OneKey, AnswerIsTheAnswer
  <1>10. NoClientAnnounced' /\ IdsOfAnswers'
    BY <1>1, <1>2, <1>5 DEF BootInv, NoClientAnnounced, IdsOfAnswers
  <1> QED
    BY <1>4, <1>7, <1>8, <1>9, <1>10 DEF BootInv

LEMMA BootAsk ==
    ASSUME BootInv, NEW c \in Clients, Ask(c)
    PROVE  BootInv'
  <1>1. /\ request[c] = "start"
        /\ request' = [request EXCEPT ![c] = "sent"]
        /\ SendOpen(c, Parsed(Server), "IWantStream", c, net)
        /\ UNCHANGED <<up, starts, tries, known, neighbours, lacking, status,
                       answer, early>>
    BY DEF Ask, hostVars
  <1>2. TypeOK /\ Running /\ HalfOpen /\ c \in up
    BY <1>1 DEF BootInv, Running
  <1>3. /\ \A t \in Parsed(Server) : t.addr \in Addr
        /\ \A m \in net : m.conn \in Conn /\ End(m.conn, m.dst) \in open
        /\ UNCHANGED hostVars
    BY <1>1, <1>2, ParsedTarget DEF TypeOK, hostVars
  <1>4. /\ HalfOpen'
        /\ open' \subseteq [conn : Conn, host : up']
        /\ made' \in [Hosts \X Hosts -> Nat]
        /\ \A m \in net' : m.conn \in Conn /\ End(m.conn, m.dst) \in open'
    BY <1>1, <1>2, <1>3, SendingKeepsLinks
  <1>5. \A m \in net' \ net :
           m.type = "IWantStream" /\ m.id = c /\ m.dst = Server
    BY <1>1, <1>2, SendingParsed
  <1>6. /\ request' \in [Clients -> {"start", "sent", "waiting", "listening", "exited"}]
        /\ \A d \in Clients : request'[d] # "exited" => request[d] # "exited"
    BY <1>1, <1>2 DEF TypeOK
  <1>7. TypeOK'
    BY <1>1, <1>2, <1>4, <1>5, <1>6 DEF TypeOK
  <1>8. Running'
    BY <1>1, <1>2, <1>6 DEF Running
  <1>9. OneKey' /\ AnswerIsTheAnswer'
    BY <1>1 DEF BootInv, OneKey, AnswerIsTheAnswer
  <1>10. NoClientAnnounced' /\ IdsOfAnswers'
    BY <1>1, <1>5 DEF BootInv, NoClientAnnounced, IdsOfAnswers
  <1> QED
    BY <1>4, <1>7, <1>8, <1>9, <1>10 DEF BootInv

\* The floods go to neighbours, never to a client; the answer goes back on the
\* connection of the request.
LEMMA BootHandleIWantStream ==
    ASSUME BootInv, NEW m \in net, HandleIWantStream(m)
    PROVE  BootInv'
  <1> DEFINE e == End(m.conn, Server)
             verdict == IF m.id \in lacking THEN "Error" ELSE "Ok"
             replies == {Msg(m.conn, f.host, verdict, AnswerId(m)) :
                            f \in {Far(e)} \intersect open}
             targets == {[addr |-> r.addr, conn |-> r.conn] : r \in neighbours}
             left == (net \ {m}) \union replies
  <1>1. /\ m.dst = Server /\ m.type = "IWantStream"
        /\ \/ net' = left /\ UNCHANGED <<made, open>>
           \/ SendOpen(Server, targets, "ConnFlood", m.id, left)
        /\ UNCHANGED <<up, starts, tries, known, neighbours, lacking, request,
                       status, answer, early>>
    BY DEF HandleIWantStream, hostVars, clientVars
  <1>2. /\ TypeOK /\ Running /\ HalfOpen /\ Server \in up /\ m.id \in Clients
        /\ m.conn \in Conn
    BY <1>1, Receiving DEF BootInv, IdsOfAnswers
  <1>3. ASSUME NEW x \in replies
        PROVE  /\ x.conn = m.conn /\ x.id = m.id /\ x.type = verdict
               /\ End(x.conn, x.dst) \in open
    BY DEF Msg, Far, End, AnswerId
  <1>4. ASSUME NEW t \in targets
        PROVE  /\ t.addr \in Addr /\ t.addr[1] \notin Clients
               /\ End(t.conn, Server) \in open =>
                     FarHost(End(t.conn, Server)) \notin Clients
    <2>1. PICK r \in neighbours : t.addr = r.addr /\ t.conn = r.conn
      OBVIOUS
    <2>2. /\ r.addr[1] \notin Clients
          /\ r.conn[1] \notin Clients /\ r.conn[2] \notin Clients
      BY DEF BootInv, NoClientAnnounced
    <2>3. End(r.conn, Server) \in open => Server \in {r.conn[1], r.conn[2]}
      BY <1>2 DEF HalfOpen, End
    <2>4. End(r.conn, Server) \in open =>
             FarHost(End(r.conn, Server)) \in {r.conn[1], r.conn[2]}
      BY <2>3, FarOfFar
    <2>5. r.addr \in Addr
      BY <1>2 DEF TypeOK
    <2> QED
      BY <2>1, <2>2, <2>4, <2>5
  <1>5. \A x \in left : x.conn \in Conn /\ End(x.conn, x.dst) \in open
    BY <1>2, <1>3 DEF TypeOK
  <1> HIDE DEF replies, targets
  <1>6. /\ HalfOpen'
        /\ open' \subseteq [conn : Conn, host : up']
        /\ made' \in [Hosts \X Hosts -> Nat]
        /\ \A x \in net' : x.conn \in Conn /\ End(x.conn, x.dst) \in open'
    <2>1. CASE net' = left /\ UNCHANGED <<made, open>>
      BY <1>1, <1>2, <1>5, <2>1 DEF TypeOK, HalfOpen, Far, FarHost, End
    <2>2. CASE SendOpen(Server, targets, "ConnFlood", m.id, left)
      <3>1. UNCHANGED hostVars /\ \A t \in targets : t.addr \in Addr
        BY <1>1, <1>4 DEF hostVars
      <3> QED
        BY <1>2, <1>5, <2>2, <3>1, SendingKeepsLinks
    <2> QED
      BY <1>1, <2>1, <2>2
  <1>7. ASSUME NEW x \in net'
        PROVE  \/ x \in net \/ x \in replies
               \/ x.type = "ConnFlood" /\ x.id = m.id /\ x.dst \notin Clients
    <2>1. CASE x \in left
      BY <2>1
    <2>2. CASE x \notin left
      <3>1. SendOpen(Server, targets, "ConnFlood", m.id, left)
        BY <1>1, <2>2
      <3>2. \A t \in targets : t.addr \in Addr
        BY <1>4
      <3>3. /\ x.type = "ConnFlood" /\ x.id = m.id
            /\ \E t \in targets :
                  \/ /\ x.conn[1] = Server /\ x.conn[2] = t.addr[1]
                     /\ x.dst = t.addr[1]
                  \/ /\ x.conn = t.conn /\ End(t.conn, Server) \in open
                     /\ x.dst = FarHost(End(t.conn, Server))
        BY <1>2, <2>2, <3>1, <3>2, Sending
      <3> QED
        BY <1>4, <3>3
    <2> QED
      BY <2>1, <2>2
  <1>8. TypeOK'
    BY <1>1, <1>2, <1>3, <1>6, <1>7 DEF TypeOK
  <1>9. Running' /\ OneKey' /\ AnswerIsTheAnswer'
    BY <1>1 DEF BootInv, Running, OneKey, AnswerIsTheAnswer
  <1>10. NoClientAnnounced' /\ IdsOfAnswers'
    BY <1>1, <1>2, <1>3, <1>7 DEF BootInv, NoClientAnnounced, IdsOfAnswers
  <1> QED
    BY <1>6, <1>8, <1>9, <1>10 DEF BootInv

\* A POP makes the client a peer and dials it; the offer has no id.
LEMMA BootHandleFlood ==
    ASSUME BootInv, NEW m \in net, HandleFlood(m)
    PROVE  BootInv'
  <1>1. /\ m.dst \in Relays
        /\ UNCHANGED <<up, starts, tries, neighbours, lacking, request, status,
                       answer, early>>
    BY DEF HandleFlood, hostVars, clientVars
  <1>2. TypeOK /\ Running /\ HalfOpen /\ m.dst \in up
    BY Receiving DEF BootInv
  <1>3. CASE net' = net \ {m} /\ UNCHANGED <<known, made, open>>
    <2>1. TypeOK' /\ Running' /\ HalfOpen'
      BY <1>1, <1>2, <1>3 DEF TypeOK, Running, HalfOpen, Far, FarHost, End
    <2>2. OneKey' /\ NoClientAnnounced' /\ IdsOfAnswers' /\ AnswerIsTheAnswer'
      BY <1>1, <1>3 DEF BootInv, OneKey, NoClientAnnounced, IdsOfAnswers,
                        AnswerIsTheAnswer
    <2> QED
      BY <2>1, <2>2 DEF BootInv
  <1>4. ASSUME NEW c \in Clients,
               known' = [known EXCEPT ![m.dst] =
                   {k \in @ : k.addr # <<c, 0>>} \union
                   {[addr |-> <<c, 0>>, type |-> "CLIENT"]}],
               SendOpen(m.dst, Parsed(c), "ConnFlood", OfferId(m), net \ {m})
        PROVE  BootInv'
    <2>1. /\ \A t \in Parsed(c) : t.addr \in Addr
          /\ \A x \in net \ {m} : x.conn \in Conn /\ End(x.conn, x.dst) \in open
          /\ UNCHANGED hostVars
      BY <1>1, <1>2, ParsedTarget DEF TypeOK, hostVars
    <2>2. /\ HalfOpen'
          /\ open' \subseteq [conn : Conn, host : up']
          /\ made' \in [Hosts \X Hosts -> Nat]
          /\ \A x \in net' : x.conn \in Conn /\ End(x.conn, x.dst) \in open'
      BY <1>2, <1>4, <2>1, SendingKeepsLinks
    <2>3. \A x \in net' \ (net \ {m}) : x.type = "ConnFlood" /\ x.id = "none"
      BY <1>2, <1>4, SendingParsed DEF OfferId
    <2>4. /\ known' \in [Relays -> SUBSET [addr : Addr,
                            type : {"UNKNOWN", "SERVER", "NODE", "CLIENT"}]]
          /\ \A n \in Relays : n # m.dst => known'[n] = known[n]
      <3>1. [addr |-> <<c, 0>>, type |-> "CLIENT"] \in
               [addr : Addr, type : {"UNKNOWN", "SERVER", "NODE", "CLIENT"}]
        BY DEF Addr
      <3> QED
        BY <1>1, <1>2, <1>4, <3>1 DEF TypeOK
    <2>5. TypeOK'
      BY <1>1, <1>2, <2>2, <2>3, <2>4 DEF TypeOK
    <2>6. Running'
      BY <1>1, <1>2, <2>4 DEF Running
    <2>7. OneKey' /\ AnswerIsTheAnswer'
      BY <1>1 DEF BootInv, OneKey, AnswerIsTheAnswer
    <2>8. NoClientAnnounced' /\ IdsOfAnswers'
      BY <1>1, <2>3 DEF BootInv, NoClientAnnounced, IdsOfAnswers
    <2> QED
      BY <2>2, <2>5, <2>6, <2>7, <2>8 DEF BootInv
  <1> QED
    BY <1>3, <1>4 DEF HandleFlood

-----------------------------------------------------------------------------
(***************************************************************************)
(* Steps that close connections.                                           *)
(***************************************************************************)
\* The end of a connection is read only after the far end has closed, so the
\* end that is removed leaves no other one alone.
LEMMA BootEof ==
    ASSUME BootInv, NEW e \in open, Eof(e)
    PROVE  BootInv'
  <1>1. /\ Far(e) \notin open
        /\ \A m \in net : ~(m.conn = e.conn /\ m.dst = e.host)
        /\ open' = open \ {e}
        /\ known' = [n \in Relays |->
                        IF n = e.host THEN known[n] \ Forgotten(n, e) ELSE known[n]]
        /\ UNCHANGED <<up, starts, made, net, tries, neighbours, lacking, request,
                       status, answer, early>>
    BY DEF Eof, hostVars, clientVars
  <1>2. TypeOK /\ Running /\ HalfOpen
    BY DEF BootInv
  <1>3. ASSUME NEW m \in net
        PROVE  End(m.conn, m.dst) \in open'
    <2>1. End(m.conn, m.dst).conn = m.conn /\ End(m.conn, m.dst).host = m.dst
      BY DEF End
    <2>2. End(m.conn, m.dst) \in open
      BY <1>2 DEF TypeOK
    <2> QED
      BY <1>1, <2>1, <2>2
  <1>4. TypeOK'
    BY <1>1, <1>2, <1>3 DEF TypeOK
  <1>5. Running'
    BY <1>1, <1>2 DEF Running
  <1>6. ASSUME NEW f \in open', Far(f) = e
        PROVE  FALSE
    <2>1. f \in [conn : Conn, host : up] /\ f.host \in {f.conn[1], f.conn[2]}
      BY <1>1, <1>2 DEF TypeOK, HalfOpen
    <2>2. f = End(f.conn, f.host)
      BY <2>1 DEF End
    <2>3. Far(e) = f
      BY <1>6, <2>1, <2>2, FarOfFar
    <2> QED
      BY <1>1, <2>3
  <1>7. HalfOpen'
    BY <1>1, <1>2, <1>6 DEF HalfOpen, Far, FarHost, End
  <1>8. OneKey' /\ NoClientAnnounced' /\ IdsOfAnswers' /\ AnswerIsTheAnswer'
    BY <1>1 DEF BootInv, OneKey, NoClientAnnounced, IdsOfAnswers, AnswerIsTheAnswer
  <1> QED
    BY <1>4, <1>5, <1>7, <1>8 DEF BootInv

\* The end of a process leaves the far ends of its connections alone.
LEMMA Closing ==
    ASSUME TypeOK, HalfOpen, NEW x \in Hosts, Close(x), starts' = starts
    PROVE  HalfOpen' /\ open' \subseteq [conn : Conn, host : up'] /\ up' \subseteq Hosts
  <1>1. up' = up \ {x} /\ open' = {e \in open : e.host # x}
    BY DEF Close
  <1>2. open \subseteq [conn : Conn, host : up] /\ up \subseteq Hosts
    BY DEF TypeOK
  <1>3. ASSUME NEW e \in open'
        PROVE  /\ e.host \in {e.conn[1], e.conn[2]}
               /\ starts[FarHost(e)] >= 1
               /\ Far(e) \in open' \/ FarHost(e) \notin up' \/ starts[FarHost(e)] > 1
    <2>1. e \in open
      BY <1>1
    <2>2. Far(e) \in open => Far(e) \in open' \/ FarHost(e) = x
      BY <1>1 DEF Far, End
    <2> QED
      BY <1>1, <2>1, <2>2 DEF HalfOpen
  <1> QED
    BY <1>1, <1>2, <1>3 DEF HalfOpen, Far, FarHost, End

LEMMA BootTakeRefusal ==
    ASSUME BootInv, NEW m \in net, TakeRefusal(m)
    PROVE  BootInv'
  <1>1. /\ m.dst \in Clients /\ m.id = m.dst /\ m.type = "Error"
        /\ Close(m.dst)
        /\ net' = {x \in net : x.dst # m.dst}
        /\ answer' = [answer EXCEPT ![m.dst] = m.type]
        /\ request' = [request EXCEPT ![m.dst] = "exited"]
        /\ UNCHANGED <<starts, made, tries, known, neighbours, lacking, status,
                       early>>
    BY DEF TakeRefusal, Awaited
  <1>2. /\ TypeOK /\ Running /\ HalfOpen
        /\ m.dst \in lacking
    BY <1>1 DEF BootInv, IdsOfAnswers
  <1>3. HalfOpen' /\ open' \subseteq [conn : Conn, host : up'] /\ up' \subseteq Hosts
    BY <1>1, <1>2, Closing
  <1>4. up' = up \ {m.dst} /\ open' = {e \in open : e.host # m.dst}
    BY <1>1 DEF Close
  <1>5. \A x \in net' : x \in net /\ End(x.conn, x.dst) \in open'
    BY <1>1, <1>2, <1>4 DEF TypeOK, End
  <1>6. TypeOK'
    BY <1>1, <1>2, <1>3, <1>5 DEF TypeOK
  <1>7. Running'
    <2>1. \A l \in Announces : l[1] # m.dst
      BY <1>1, AnnouncesAssumption, HostsAssumption
    <2>2. \A c \in Clients : request'[c] # "exited" => c # m.dst /\ request[c] # "exited"
      BY <1>1, <1>2 DEF TypeOK
    <2>3. \A n \in Relays : n # m.dst
      BY <1>1, HostsAssumption
    <2> QED
      BY <1>1, <1>2, <1>4, <2>1, <2>2, <2>3 DEF Running
  <1>8. OneKey' /\ NoClientAnnounced' /\ IdsOfAnswers'
    BY <1>1 DEF BootInv, OneKey, NoClientAnnounced, IdsOfAnswers
  <1>9. AnswerIsTheAnswer'
    BY <1>1, <1>2 DEF BootInv, AnswerIsTheAnswer, TypeOK
  <1> QED
    BY <1>3, <1>6, <1>7, <1>8, <1>9 DEF BootInv

LEMMA BootStop ==
    ASSUME BootInv, NEW x \in Hosts, Stop(x)
    PROVE  BootInv'
  <1>1. /\ x \in up \intersect MayStop /\ Close(x)
        /\ net' = {m \in net : m.dst # x}
        /\ tries' = [l \in Announces |->
                        IF l[1] = x THEN [made |-> 0, pc |-> "off"] ELSE tries[l]]
        /\ known' = [n \in Relays |-> IF n = x THEN {} ELSE known[n]]
        /\ neighbours' \subseteq neighbours
        /\ UNCHANGED <<starts, made, lacking, request, status, answer, early>>
    BY DEF Stop, clientVars
  <1>2. TypeOK /\ Running /\ HalfOpen /\ x \notin Clients
    BY <1>1, HostsAssumption DEF BootInv
  <1>3. HalfOpen' /\ open' \subseteq [conn : Conn, host : up'] /\ up' \subseteq Hosts
    BY <1>1, <1>2, Closing
  <1>4. up' = up \ {x} /\ open' = {e \in open : e.host # x}
    BY <1>1 DEF Close
  <1>5. \A m \in net' : m \in net /\ End(m.conn, m.dst) \in open'
    BY <1>1, <1>2, <1>4 DEF TypeOK, End
  <1>6. tries' \in [Announces -> [made : 0 .. RETRIES,
                                  pc : {"off", "dial", "open", "done"}]]
    BY <1>1, <1>2, BoundsAssumption DEF TypeOK
  <1>7. TypeOK'
    BY <1>1, <1>2, <1>3, <1>5, <1>6 DEF TypeOK
  <1>8. Running'
    BY <1>1, <1>2, <1>4 DEF Running
  <1>9. OneKey' /\ NoClientAnnounced' /\ IdsOfAnswers' /\ AnswerIsTheAnswer'
    BY <1>1 DEF BootInv, OneKey, NoClientAnnounced, IdsOfAnswers, AnswerIsTheAnswer
  <1> QED
    BY <1>3, <1>7, <1>8, <1>9 DEF BootInv

\* A process that starts again has been started more than once: what its
\* earlier life left open stays accounted for.
LEMMA BootStart ==
    ASSUME BootInv, NEW x \in Hosts, Start(x)
    PROVE  BootInv'
  <1>1. /\ x \notin up /\ starts[x] < MaxStarts /\ x \notin Clients
        /\ up' = up \union {x}
        /\ starts' = [starts EXCEPT ![x] = @ + 1]
        /\ tries' = [l \in Announces |->
                        IF l[1] # x THEN tries[l]
                        ELSE [made |-> 0, pc |-> IF RETRIES = 0 THEN "done" ELSE "dial"]]
        /\ known' = [n \in Relays |->
                        IF n # x THEN known[n]
                        ELSE {[addr |-> <<l[2], 0>>, type |-> "UNKNOWN"] :
                                 l \in {l \in Announces : l[1] = x}}]
        /\ UNCHANGED <<made, open, net, neighbours, lacking, request, status,
                       answer, early>>
    BY DEF Start, linkVars, clientVars
  <1>2. TypeOK /\ Running /\ HalfOpen /\ starts \in [Hosts -> 0 .. MaxStarts]
    BY DEF BootInv, TypeOK
  <1>3. /\ starts' \in [Hosts -> 0 .. MaxStarts]
        /\ starts'[x] = starts[x] + 1 /\ starts'[x] >= 1
        /\ \A y \in Hosts : y # x => starts'[y] = starts[y]
    BY <1>1, <1>2, BoundsAssumption
  <1>4. known' \in [Relays -> SUBSET [addr : Addr,
                       type : {"UNKNOWN", "SERVER", "NODE", "CLIENT"}]]
    <2>1. \A l \in Announces : <<l[2], 0>> \in Addr
      BY AnnouncesAssumption DEF Addr
    <2> QED
      BY <1>1, <1>2, <2>1 DEF TypeOK
  <1>5. ASSUME NEW l \in Announces
        PROVE  /\ tries'[l] \in [made : 0 .. RETRIES, pc : {"off", "dial", "open", "done"}]
               /\ l[1] # x => tries'[l] = tries[l]
               /\ l[1] = x /\ tries'[l].pc \in {"dial", "open"} =>
                     tries'[l].made < RETRIES
    BY <1>1, <1>2, BoundsAssumption DEF TypeOK
  <1>6. tries' \in [Announces -> [made : 0 .. RETRIES,
                                  pc : {"off", "dial", "open", "done"}]]
    BY <1>1, <1>5
  <1>7. TypeOK'
    BY <1>1, <1>2, <1>3, <1>4, <1>6 DEF TypeOK
  <1>8. Running'
    BY <1>1, <1>2, <1>3, <1>5 DEF Running, TypeOK
  <1>9. HalfOpen'
    <2>1. ASSUME NEW e \in open
          PROVE  /\ FarHost(e) \in Hosts
                 /\ starts'[FarHost(e)] >= 1
                 /\ \/ Far(e) \in open \/ FarHost(e) \notin up'
                    \/ starts'[FarHost(e)] > 1
      <3>1. FarHost(e) \in Hosts /\ starts[FarHost(e)] >= 1
        BY <1>2 DEF TypeOK, HalfOpen, FarHost, Conn
      <3>2. CASE FarHost(e) = x
        BY <1>2, <1>3, <3>1, <3>2
      <3>3. CASE FarHost(e) # x
        BY <1>1, <1>2, <1>3, <3>1, <3>3 DEF HalfOpen
      <3> QED
        BY <3>1, <3>2, <3>3
    <2> QED
      BY <1>1, <1>2, <2>1 DEF HalfOpen, Far, FarHost, End
  <1>10. OneKey' /\ NoClientAnnounced' /\ IdsOfAnswers' /\ AnswerIsTheAnswer'
    BY <1>1 DEF BootInv, OneKey, NoClientAnnounced, IdsOfAnswers, AnswerIsTheAnswer
  <1> QED
    BY <1>7, <1>8, <1>9, <1>10 DEF BootInv

-----------------------------------------------------------------------------
(***************************************************************************)
(* The theorems.                                                           *)
(***************************************************************************)
LEMMA BootInit == Init => BootInv
  <1> SUFFICES ASSUME Init PROVE BootInv
    OBVIOUS
  <1>1. TypeOK
    BY BoundsAssumption DEF Init, TypeOK
  <1>2. Running
    BY HostsAssumption, AnnouncesAssumption DEF Init, Running
  <1>3. HalfOpen /\ OneKey /\ NoClientAnnounced /\ IdsOfAnswers /\ AnswerIsTheAnswer
    BY DEF Init, HalfOpen, OneKey, NoClientAnnounced, IdsOfAnswers,
           AnswerIsTheAnswer
  <1> QED
    BY <1>1, <1>2, <1>3 DEF BootInv

LEMMA BootStep == BootInv /\ [Next]_vars => BootInv'
  <1> SUFFICES ASSUME BootInv, [Next]_vars PROVE BootInv'
    OBVIOUS
  <1>1. CASE Step
    BY <1>1, BootDial, BootSayHello, BootEof, BootAwait, BootHandleHello,
       BootRelayHello, BootHandleIWantStream, BootHandleFlood, BootTakeAnswer,
       BootTakeRefusal, BootDropAnswer DEF Step
  <1>2. CASE \E x \in Hosts : Start(x) \/ Stop(x)
    BY <1>2, BootStart, BootStop
  <1>3. CASE \E c \in Clients : Ask(c)
    BY <1>3, BootAsk
  <1>4. CASE UNCHANGED vars
    BY <1>4 DEF vars, hostVars, linkVars, clientVars, BootInv, TypeOK, Running,
       HalfOpen, OneKey, NoClientAnnounced, IdsOfAnswers, AnswerIsTheAnswer,
       Far, FarHost, End
  <1> QED
    BY <1>1, <1>2, <1>3, <1>4 DEF Next

\* What the processes know of each other, the connections and the messages
\* stay well formed whoever starts, stops, dials and answers.
THEOREM TypeCorrect == Spec => []TypeOK
  <1>1. BootInv => TypeOK
    BY DEF BootInv
  <1> QED
    BY BootInit, BootStep, <1>1, PTL DEF Spec

\* HandleHello: the server has one entry for each relay, however often the
\* relay restarts and announces itself, so a request is flooded to it once.
THEOREM NeighbourOnceAlways == Spec => []NeighbourOnce
  <1>1. BootInv => NeighbourOnce
    <2> SUFFICES ASSUME BootInv, NEW r \in neighbours, NEW s \in neighbours,
                        r.addr[1] = s.addr[1]
                 PROVE  r = s
      BY DEF NeighbourOnce
    <2>1. r.addr \in Addr /\ s.addr \in Addr
      BY DEF BootInv, TypeOK
    <2>2. r.addr = s.addr
      BY <2>1 DEF BootInv, OneKey, Addr
    <2> QED
      BY <2>2 DEF BootInv, OneKey
  <1> QED
    BY BootInit, BootStep, <1>1, PTL DEF Spec

\* packetHandler of the client: what is handed over under the id of a request is
\* the server's answer to it, although floods carry that id too.
THEOREM AnswerIsTheAnswerAlways == Spec => []AnswerIsTheAnswer
  <1>1. BootInv => AnswerIsTheAnswer
    BY DEF BootInv
  <1> QED
    BY BootInit, BootStep, <1>1, PTL DEF Spec

\* The peer that handleDeath removes is the one at the far end of a connection
\* that only its process can have closed.
LEMMA EofForgets ==
    ASSUME BootInv, NEW e \in open, Eof(e), NEW n \in Relays,
           NEW k \in known[n] \ known'[n]
    PROVE  \/ /\ k.addr[2] = 0
              /\ k.addr[1] \notin up \/ starts[k.addr[1]] > 1
           \/ /\ k.addr[2] > 0
              /\ End(<<k.addr[1], n, k.addr[2]>>, k.addr[1]) \notin open
  <1>1. /\ Far(e) \notin open
        /\ n = e.host /\ k.addr = RemoteAddr(e)
    BY DEF Eof, Forgotten
  <1>2. /\ e.conn \in Conn /\ e.host \in {e.conn[1], e.conn[2]}
        /\ FarHost(e) \notin up \/ starts[FarHost(e)] > 1
    BY <1>1 DEF BootInv, TypeOK, HalfOpen
  <1>3. CASE e.host = e.conn[1]
    BY <1>1, <1>2, <1>3 DEF RemoteAddr, FarHost
  <1>4. CASE e.host # e.conn[1]
    <2>1. /\ n = e.conn[2] /\ FarHost(e) = e.conn[1]
          /\ k.addr[1] = e.conn[1] /\ k.addr[2] = e.conn[3]
      BY <1>1, <1>2, <1>4 DEF RemoteAddr, FarHost
    <2>2. e.conn = <<e.conn[1], e.conn[2], e.conn[3]>> /\ e.conn[3] > 0
      BY <1>2 DEF Conn
    <2>3. Far(e) = End(<<k.addr[1], n, k.addr[2]>>, k.addr[1])
      BY <2>1, <2>2 DEF Far
    <2> QED
      BY <1>1, <2>1, <2>2, <2>3
  <1> QED
    BY <1>3, <1>4

\* Whoever takes a place among the peers of a relay is there afterwards.
LEMMA Replacing ==
    ASSUME BootInv, NEW d \in Relays, NEW j,
           known' = [known EXCEPT ![d] = {x \in @ : x.addr # j.addr} \union {j}],
           NEW n \in Relays, NEW k \in known[n] \ known'[n]
    PROVE  \E i \in known'[n] : i.addr = k.addr
  <1>1. /\ known'[d] = {x \in known[d] : x.addr # j.addr} \union {j}
        /\ n # d => known'[n] = known[n]
    BY DEF BootInv, TypeOK
  <1> QED
    BY <1>1

LEMMA PeerReplaced ==
    ASSUME BootInv, NEW m \in net, RelayHello(m) \/ HandleFlood(m),
           NEW n \in Relays, NEW k \in known[n] \ known'[n]
    PROVE  \E j \in known'[n] : j.addr = k.addr
  <1>1. CASE RelayHello(m)
    <2> DEFINE j == [addr |-> RemoteAddr(End(m.conn, m.dst)),
                     type |-> TypeOf(FarHost(End(m.conn, m.dst)))]
    <2>1. /\ m.dst \in Relays
          /\ known' = [known EXCEPT ![m.dst] =
                          {x \in @ : x.addr # j.addr} \union {j}]
      BY <1>1 DEF RelayHello
    <2> HIDE DEF j
    <2> QED
      BY <2>1, Replacing
  <1>2. CASE HandleFlood(m)
    <2>1. PICK c \in Clients : known' = [known EXCEPT ![m.dst] =
             {x \in @ : x.addr # <<c, 0>>} \union
             {[addr |-> <<c, 0>>, type |-> "CLIENT"]}]
      BY <1>2 DEF HandleFlood
    <2> DEFINE j == [addr |-> <<c, 0>>, type |-> "CLIENT"]
    <2>2. /\ m.dst \in Relays
          /\ known' = [known EXCEPT ![m.dst] =
                          {x \in @ : x.addr # j.addr} \union {j}]
      BY <1>2, <2>1 DEF HandleFlood
    <2> HIDE DEF j
    <2> QED
      BY <2>2, Replacing
  <1> QED
    BY <1>1, <1>2

\* handleDeath: the end of one of several connections to a peer, or of one of an
\* earlier life of it, makes no relay forget a peer that is still there.
THEOREM NoFalseDeathAlways == Spec => NoFalseDeath
  <1> DEFINE Just == \A n \in Relays : \A k \in known[n] \ known'[n] :
          \/ n \notin up'
          \/ \E j \in known'[n] : j.addr = k.addr
          \/ /\ k.addr[2] = 0
             /\ k.addr[1] \notin up \/ starts[k.addr[1]] > 1
          \/ /\ k.addr[2] > 0
             /\ End(<<k.addr[1], n, k.addr[2]>>, k.addr[1]) \notin open
  <1>1. BootInv /\ [Next]_vars => [Just]_vars
    <2> SUFFICES ASSUME BootInv, Next, NEW n \in Relays,
                        NEW k \in known[n] \ known'[n]
                 PROVE  \/ n \notin up'
                        \/ \E j \in known'[n] : j.addr = k.addr
                        \/ /\ k.addr[2] = 0
                           /\ k.addr[1] \notin up \/ starts[k.addr[1]] > 1
                        \/ /\ k.addr[2] > 0
                           /\ End(<<k.addr[1], n, k.addr[2]>>, k.addr[1]) \notin open
      OBVIOUS
    <2>1. CASE \E e \in open : Eof(e)
      BY <2>1, EofForgets
    <2>2. CASE \E m \in net : RelayHello(m) \/ HandleFlood(m)
      BY <2>2, PeerReplaced
    <2>3. CASE \E x \in Hosts : Start(x) \/ Stop(x)
      <3>1. PICK x \in Hosts : Start(x) \/ Stop(x)
        BY <2>3
      <3>2. CASE Start(x)
        <4>1. n = x /\ x \notin up
          BY <3>2 DEF Start
        <4> QED
          BY <4>1 DEF BootInv, Running
      <3>3. CASE Stop(x)
        <4>1. n = x /\ up' = up \ {x}
          BY <3>3 DEF Stop, Close
        <4> QED
          BY <4>1
      <3> QED
        BY <3>1, <3>2, <3>3
    <2>4. CASE \/ \E l \in Announces : Dial(l) \/ SayHello(l)
               \/ \E c \in Clients : Await(c) \/ Ask(c)
               \/ \E m \in net : \/ HandleHello(m) \/ HandleIWantStream(m)
                                 \/ TakeAnswer(m) \/ TakeRefusal(m)
                                 \/ DropAnswer(m) \/ HandleNewConn(m)
      BY <2>4 DEF Dial, SayHello, Await, Ask, HandleHello, HandleIWantStream,
         TakeAnswer, TakeRefusal, DropAnswer, HandleNewConn
    <2> QED
      BY <2>1, <2>2, <2>3, <2>4 DEF Next, Step
  <1> QED
    BY BootInit, BootStep, <1>1, PTL DEF Spec, NoFalseDeath
=============================================================================
