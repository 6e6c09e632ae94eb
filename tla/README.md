# A verification of the streaming overlay

The repository is a video streaming overlay in Go: a server, relay nodes (some of
them points of presence, POPs, that serve clients) and clients. Control messages
travel over TCP, packets of video over UDP. This directory holds TLA+ models of
the program, TLC runs that check them on small instances, and TLAPS proofs of
their main invariants for every instance. All paths below are relative to
`src/src/` of the repository.

## 1. The system

| part | state | operations | talks to |
|---|---|---|---|
| server (`server/main.go`) | `Neighbours`, `RoutingTable`, `OngoingStreams`, `StreamingTable` | request, acceptance, stream goroutines, periodic refresh | relays (control), first relays (packets) |
| relay, POP (`node/main.go`) | `KnownPeers`, `RoutingTable`, `MessagesAwaitingResponse` | flood, acceptance, end of a stream, death of a neighbour, timing of a hop, forwarding of packets | relays, server, clients |
| client (`client/main.go`) | `Status`, `MessagesAwaitingResponse` | request, offers, showing frames | server, POPs |
| routing table (`common/routingTable.go`) | entries (From or To, identifier, in use) under a lock | AddEntry, AddOutgoingForConn, PassesThrough, Map, FilterInPlace, PruneOrphans, GetContentSources | used by server and relays |
| connection pool (`tcp-server/`) | connections by address | Send, SendOpen, Listen, dispatcher | everything that sends |
| codec (`control-protocol/`, `common/packets.go`) | none | encoding and decoding of messages | the pool |
| data plane (`rtp-streaming/`, `common/packets.go`, `ListenStreams`) | the packet being sent, sequence numbers | PacketizeVideo, DupStream, ListenStreams, ListenStream | UDP |
| announcing (`Announce`, `handleHello`) | `KnownPeers`, `Neighbours` | Hello and its answer | at the start |
| helpers, `ff-streaming/`, `testing/`, `scripts/` | | logging, command line, earlier experiments | |

How a stream comes about: a client asks the server (IWantStream). The server
floods one branch of the content to each neighbour (ConnFlood), named `[c]-1`,
`[c]-2` and so on. A relay times the hop to where the flood came from, records the
branch, appends a number to the identifier for every peer and passes the flood on;
a POP offers the branch to the client. The client accepts the first offer
(AcceptedConn), and every relay on the way back marks the branch in use, up to the
server, which starts the stream. The end of a file is announced down the branches
(EndOfStream). When a connection to a relay ends, the neighbour purges what went
through it and accepts another branch of the same content. Every five seconds the
server floods the branches of ongoing streams again.

What makes it hard:

- every message is handled in the goroutine of the reader that took it, there are
  several readers per connection, and handlers block in the middle (the echo of a
  hop), so floods, acceptances and purges interleave on the tables;
- tests and settings are apart (`Status` of a client, `OngoingStreams`, the id of
  a TimeHop and the message that carries it);
- identifiers are reused: branches are numbered anew for every request, and
  relays tell branches apart by prefixes of identifiers;
- processes die at any point, and nothing is retried;
- datagrams are lost and overtaken.

What each part must get right: branches are known at both ends and acceptances
find their way to the server (BranchHeldUpstream, AcceptanceFindsBranch), no branch
is accepted only in part (BranchesFed), so that a client that took an offer is reached
by the packets (TakenIsFed), and every request leads to an offer (FedWhenQuiet); no
identifier goes to two receivers (OneReceiver); nobody is sent what it did not accept
(Solicited); a client gets its own content (ClientsGetTheirContent) and keeps it
(EveryClientFed); floods end (NoFloodLoops, ShortIds); streams survive a death where a
backup is there (RestoredByBackup); routes of the server are always looked after
(NoRouteAbandoned) and their receivers told of the end (EveryReceiverTold);
timing a hop never blocks for ever (EveryHopTimed, NoReaderStranded); packets
arrive as they were sent (OneHeader), and messages and headers are read as they
were written (MessageReadAsSent, PacketUnwrapped); processes that are up find each
other, forget what has stopped and nothing else (MetForGood, StaleForgotten,
NoFalseDeath), and a client learns whether its content is there and gets an offer
(EveryRequestResolved, AskerGetsOffer). Over all of it, contents flow only on
demand (FlowsOnDemand).

## 2. The modules

| module | models | lines of the code |
|---|---|---|
| `ConnIds` | identifiers: parent, child, prefix, content key | `common/routingTable.go` |
| `RoutingTable` (extends ConnIds) | one operator per critical section of the table, on sets of entries | `common/routingTable.go`, `node/main.go` 170-252, 289-298, 494-507 |
| `Overlay` (extends RoutingTable) | server, relays, clients and the messages between them | `server/main.go`, `node/main.go`, `client/main.go` |
| `ServerStreams` (extends ConnIds) | the goroutines of the server's streams, step by step | `server/main.go` 100-145 |
| `TimeHop` | the readers of connections and the echo they wait for | `node/main.go` 306-357, 658-692, `tcp-server/tcp-connections.go` |
| `Demand` | what the overlay promises about demand: the abstract specification that `Overlay` implements | (none: it speaks of hosts and contents only) |
| `Bootstrap` | announcing, the pool's view of addresses and ends of connections, the request of a client and its answer | `node/main.go` 108-122, 329-351, 376-401, 549-598, `server/main.go` 80-98, 148-209, `client/main.go` 44-120, `tcp-server/tcp-connections.go` |
| `Codec` | bytes of messages and of packet headers | `control-protocol/message.go`, `common/packets.go` |
| `DataPlane` | frames, headers, forwarding, showing | `rtp-streaming/`, `common/packets.go`, `node/main.go` 55-106 |
| `Overlay_proofs`, `OverlaySafety_proofs`, `OverlayBranches_proofs`, `Bootstrap_proofs`, `ServerStreams_proofs`, `TimeHop_proofs`, `DataPlane_proofs`, `Codec_proofs` | the theorems | |
| `MCOverlay`, `MCServerStreams`, `MCTimeHop`, `MCDataPlane`, `MCBootstrap` | values of the constants for TLC | |

### Overlay

State and code: `peers` is `KnownPeers`, `table` the `RoutingTable` of each relay,
`routes` and `ongoing` those of the server, `status` the client's `Status`,
`net` the messages that no reader has taken. A goroutine that is in the middle of
a handler is an element of a set: `handlers` (in `handleConnFlood`: waiting for
the echo, or looping over the peers), `recoveries` (in `handleDeath`: reading the
sources, choosing, accepting) and `pending` (a client past its test of `Status`).
`accepts` and the `trail` of a flood are ghosts for the properties.

| action | code |
|---|---|
| `HandleIWantStream`, `HandleAcceptedAtServer`, `EndStream`, `Refresh` | `server/main.go` HandleIWantStream, HandleAcceptedConn and Stream, chronFun |
| `RefuseFlood`, `StartFlood`, `FloodTimed`, `ForwardFlood` | `handleConnFlood`: refusal, up to TimeHop, after it, one turn of the loop |
| `HandleAcceptedConn`, `HandleEndOfStream` | the handlers of those names |
| `ClientDeath`, `ServerDeath`, `RelayDeath`, `RestoreSource`, `RestoreChoose`, `RestorePanics`, `RestoreAccept` | `handleDeath` |
| `HandleEmptyAccepted` | `HandleAcceptedConn` of the server, or `handleAcceptedConn` of a relay, for a body without an identifier |
| `Ask`, `ReceiveOffer`, `AcceptOffer` | `client/main.go` |
| `Crash` | a process stops |

A step is one critical section of a table, or what a goroutine does between two
of them. These are merged into one step: the two AddEntry calls of a POP; the
filters `handleDeath` runs back to back; AddOutgoingForConn and the SendOpen that
follows it; the test of `OngoingStreams` and its setting (`ServerStreams` takes
them apart). A recovery whose source has lost all its entries sends that source an
acceptance without an identifier and then panics (`RestorePanics`); the server panics
when it reads one, a relay finds no entry for it (`HandleEmptyAccepted`). The contents a
dead relay has interrupted are restored by one
goroutine in turn and modelled as independent goroutines, which allows more. Alike
messages, and alike goroutines, are one element of their set. Relays have
announced themselves and know each other's kind (`Bootstrap` is about how they
come to). The answer Ok or Error to a request is in `Bootstrap`, too; the flood a
POP sends to itself when the refresh names no client, and refuses, is left out. `Send` finds a connection only under the address the pool stores,
so messages to addresses of the command line and to clients are not sent by it:
`Notified` says which are, and `ArrivalPorts` where a `SendOpen` dials anew.

### Demand

The abstract specification has three variables: the clients that have asked, who
has accepted which content from whom, and who forwards which content to whom. A
client takes its content from a relay (`Take`), a host that was asked passes the
demand on and may start to feed (`PassOn`), a relay turns to another source
(`FailOver`), feeding resumes (`Resume`) or ceases (`Cease`). `Overlay` implements
it under the mapping `Feeding`: the routes of the server and the outgoing entries
in use of the relays. Floods, identifiers, messages, refreshes and deaths are steps
that leave the abstract state alone or take feeding away. What it rules out: a host
that is fed what it did not ask for, a relay that accepts a content no client wants
or accepts one before anybody asked the relay for something, and feeding that comes
back for somebody else than the one that asked.

### Bootstrap

| state | code |
|---|---|
| `up`, `starts` | the processes that run, and their lives |
| `made`, `open`, `net` | connections by number, their open ends, messages on them |
| `tries` | the goroutine of `Announce` for each address of the command line |
| `known`, `neighbours` | `KnownPeers` of relays, `Neighbours` of the server |
| `lacking`, `request`, `status` | missing files, `askForStream`, `Status` |

| action | code |
|---|---|
| `Start`, `Stop` | `main` (the peers of the command line, of unknown kind); the end of a process |
| `Dial`, `SayHello` | `Announce`: the attempt, and the SendOpen that dials once more |
| `HandleHello`, `RelayHello` | the handlers of the server and of relays |
| `Eof` | the dispatcher reads the end of a connection; `handleDeath` forgets the peer |
| `Ask`, `Await` | `askForStream`: sending, and entering the id |
| `HandleIWantStream`, `HandleFlood` | the answer and the floods; the offer of a POP |
| `TakeAnswer`, `TakeRefusal`, `DropAnswer`, `HandleNewConn` | `packetHandler` of the client, `log.Fatal`, the first offer |

`SendOpen` does what the pool does with keys that are pointers: a connection is
found only under the address object that came with it (`conn` of a target), and any
other address is dialled, also an equal one. A flood of the server goes out on the
connection of the Hello because `HandleHello` keeps that object, with its port set to
8888. Simplified: every relay is a POP that offers the branch of each flood to the
client it names, once; a connection has one reader; the server has no addresses to
announce itself to, as the scripts start it, so its own `Announce` returns at once.
The connection that `Announce` opens to look whether the peer listens stays open
and idle until its process ends; no peer is known by its port, so it is left out.
What the floods do to the tables is in `Overlay`.

### ServerStreams

Every acceptance starts a goroutine (`Workers`): `Look` is the test of
`OngoingStreams`, `Start` the setting, `Finish` the end of the file and the
`delete`, then come the filters of `StreamingTable` (`Unlist`) and of the routing
table with the EndOfStream messages (`Purge`). `OngoingStreams` is a plain map
used by several goroutines without a lock; `MapFault` is the end the Go runtime
may put to the process. Contents have no hyphen in their names (assumption
`PlainNames`): of `[a-b]`, GetConnContent sees only `a`, and the routes of `a-b` are
never purged.

### TimeHop

`wire` holds the bytes under way as whole messages, `readers` the readers that
have taken messages (their own bufio buffer), `idle` counts the others. `Read`
takes any prefix, `Match` and `Give` are the two halves of the hand-over in
`packetHandler`, `Echo` is `handleTimeHop`, and `Request`, `Register`, `Finish`
are the parts of `TimeHop` around the wait. A request and its answer are the same
message, so `Echo` also sends an early answer back, as the code does.

### Codec

Operators on sequences of bytes: a header is 17 bytes, a body follows it, and the
size field, 16 bits, is all that divides messages. `Complete` says when
`DecodeMessage`, which reads from a connection, can return, and `Left` what it leaves
there. `WrapUDPPacket` writes the length of an identifier in one byte. There is
nothing to run; the theorems of `Codec_proofs` are about every message and packet.

### DataPlane

A packet is its frame and the headers in front of it. The routes are fixed.
`DupStream` is one turn of the inner loop with the variable it overwrites;
`ListenStream` sets `seq` before the comparison, as the code does.

## 3. The runs

`tlc -workers 2 -config X.cfg M` repeats each.

| run | instance | what it shows |
|---|---|---|
| `join` | S, A, B, POP P, link A-B, one client | BranchHeldUpstream, EveryClientFed (liveness) |
| `loops` | three relays in a ring, no POP, so no acceptance and no refresh | NoFloodLoops, ShortIds |
| `two_clients` | diamond with dialled links, two clients, one content | FedWhenQuiet, BranchesFed, AcceptanceFindsBranch, OneReceiver |
| `contents_crash` | diamond, two clients, two contents, A may die | ClientsGetTheirContent, FlowsOnDemand (refinement of Demand) |
| `faults` | diamond with a link from P to S, one client; A and C1 may die, the file may end | TypeOK, Solicited, RestoredByBackup (liveness) |
| `refresh` | diamond, one client, one refresh | TakenIsFed, EveryClientFed (liveness) |
| `streams` | three goroutines, two contents, two neighbours | TypeOK, OngoingPlayed, NoRouteAbandoned, EveryReceiverTold (liveness) |
| `hops` | two relays, three floods in both directions | TypeOK, NoReaderStranded, EveryHopTimed (liveness) |
| `packets` | two relays, two clients, one route at the server | OneHeader |
| `bootstrap` | server, POPs A and B, a client; A announces itself to both, stops and starts again | TypeOK, NeighbourOnce, AnswerIsTheAnswer, NoFalseDeath (steps), MetForGood, StaleForgotten, EveryRequestResolved, AskerGetsOffer (liveness) |
| `feed_loop` | as `join`; violated | NoFeedLoops |
| `two_routes` | as `packets`, two routes; violated | OneHeader |

The two runs that end in a violation are disagreements of the code with its own
comments:

- `feed_loop`: a client that accepts two offers (its test of `Status` and the
  setting are apart), or two clients, accept a branch through A and B and one
  through B and A. `ListenStreams` forwards by content, so A and B send every
  packet back and forth. The test that lets both branches through is there
  "to avoid loops" (`common/routingTable.go:339`).
- `two_routes`: `DupStream` wraps the packet it has wrapped for the receiver
  before (`rtp-streaming/server/rtp-streaming.go:21`).

More disagreements are visible in the models without a run of their own. The client
compares a sequence number with itself (`rtp-streaming/client/client.go:47`), so it
shows no frame (`DataPlane.ListenStream`).
`AddEntry` replaces the entry it finds, although its comment says "do not add it"
(`common/routingTable.go:75-76`): a refresh takes the incoming entry of a branch
in use out of use. And since the server numbers its neighbours in the order of a
map, anew for each request, a relay may refuse a flood for an identifier it has
handed out for another client.

Bounds. Branch numbers go to 6 and later connections take ports 2 to 5: no run
comes to either end, apart from the many rounds a refresh would take, which
`MaxRefresh` bounds. Two relays before a POP are the least number for which
branches compete, cross (with the link), and replace each other; three relays in
a ring the least for a flood to come back. ShortIds is about that ring without a
refresh; that a refresh does not make identifiers longer is shown by the theorem
ShortIdsAlways only. It counts numbers: of the bytes of an identifier,
`Codec_proofs` says what they may be. In `contents_crash` each client
wants a content of its own and nothing else tells the two apart, so TLC may exchange
one client and its content for the other (`ClientsWithContents`, a symmetry; the run
checks no liveness). In `streams`, three goroutines let one
end while a second plays and a third accepts. In `hops`, two floods one way let a
reader be blocked with another flood in its buffer, and the third lets both ends
wait for each other; `MaxIdle` only stops counting idle readers at two.
In `bootstrap`, A is started twice at most (`MaxStarts`), which lets messages and the
end of a connection of its first life meet its second, and makes two attempts
(`RETRIES`), which tells the last from the others; only A stops, B and the server
start at any time or never. Deadlock is not checked because the overlay may come to
rest.

Fairness. `Overlay`: weak fairness of the steps of goroutines together, since
the sets of messages and goroutines shrink with each of them, and of the echo of
a neighbour that runs. Requests, crashes, the refresh and the end of files are
free. `ServerStreams`: each goroutine runs, and files end. `TimeHop`: each
connection is read and each goroutine runs; this needs to be fair to each of them,
since an early echo goes back and forth until the id is registered. `Bootstrap`:
goroutines run and messages are read, taken together (each step uses up an attempt, a
message or an end); starts, stops and requests are free.

What the runs do not show: RestoredByBackup is about a POP that has offered the
other branch, on the diamond. On the linked overlay a death can meet a flood on its
way, the branch chosen may not exist upstream any more, nobody retries, and the
client stays without a stream. With a round of the refresh before the death it fails
on the diamond, too: a flood of the relay that dies may still wait for its echo, its
branch is recorded after the purge (`node/main.go:368`), and the recovery chooses the
dead relay as its source. When all sources of a POP die, nothing is left to accept. In
`faults` the server stops only by an empty acceptance (`HandleEmptyAccepted`), which the
end of the file makes possible between two steps of a recovery, and the purges that
follow are those of `ServerDeath`; with S in `MayCrash` the run would take too long,
and the proofs of TypeOK and Solicited are for every `MayCrash`. NoFloodLoops and ShortIds are checked without deaths: a purge removes
the entries by which a relay knows a flood again. BranchesFed, AcceptanceFindsBranch,
TakenIsFed and FedWhenQuiet are about topologies in which each link is on one command line (section 4). Solicited and
ClientsGetTheirContent hold with deaths as well, and are proved. AskerGetsOffer and
MetForGood except one window (`InReach`, `Knows`): a Hello of an earlier life of a
relay that is handled after the one of its new life leaves the server with the address
object of the dead connection, and what it floods is lost until the end of that
connection is read. MetForGood asks nothing once one of the two has stopped: a peer
that stops between the two dials of `Announce` is not announced to again.
EveryRequestResolved excepts the answer that comes before its id is entered
(`early`), which the client drops and then waits for ever.

## 4. The proofs

`tlapm X_proofs.tla` checks each module.

- `Overlay_proofs`: `TypeCorrect`, TypeOK is an invariant; one lemma per action. All the
  ways in which a process stops are steps that only take away (TakesAway), which is all
  the other invariants need to know of them.
- `OverlaySafety_proofs`, who is sent what, in three parts of one lemma per action
  each:
  - `SolicitedAlways`. Solicited is not inductive by itself. The strengthening
    SolicitedInv adds that every acceptance on its way was recorded when it was sent
    (AcceptancesSent), that the receivers a recovery will feed had accepted the
    content from this relay (DestsAccepted), and that what a recovery picks is an
    incoming entry (PicksAreSources).
  - `ClientsGetTheirContentAlways`. ClientInv carries the link between a client and
    the content of a branch from the request through every flood, handler, outgoing
    entry and offer to the acceptance, and adds that clients never are among the
    peers of a relay that is no POP.
  - `Implementation`, Spec => FlowsOnDemand, for every topology. Each action is shown
    to be a step of `Demand` or a stutter (`FlowStep`). For this one has to know of
    everything that names a content, that is entries, floods, handlers, offers,
    acceptances and recoveries, that some client asked for that content; that sources
    are relays or the server; and that a recovery has receivers that had asked.
    DemandInv carries that.
- `OverlayBranches_proofs`, what floods leave in the tables:
  - `PrefixIsPath`: as long as branches have numbers below ten, strings.HasPrefix is
    the test it is meant to be, and `PrefixMistaken`: with numbers 1 and 12 it is not.
  - `NoFloodLoopsAlways`. LoopInv says that a relay in the trail of a flood holds an
    outgoing entry the identifier of the flood descends from, wherever that flood is:
    on its way, waiting for an echo, or in the loop over the peers. A copy that comes
    back is then refused by PassesThrough.
  - `ShortIdsAlways`. ShortInv counts: an identifier has at most one number more than
    its flood has been through relays, which NoFloodLoops makes different ones. A
    refresh floods identifiers whose trail is forgotten; these are of one number,
    because they come from acceptances of branches that the server made.
  - `OneReceiverAlways`: the number AddOutgoingForConn takes is above all that it sees
    below the branch, and purges only take entries away.
  - `BranchHeldUpstreamAlways`, from BranchInv: every flood, handler, incoming entry
    and offer names a branch that its sender holds as an outgoing entry.
  - `AcceptanceFindsBranchAlways` and `BranchesFedAlways`: every acceptance names such a
    branch, under the address it was handed out to, and what a client or a relay is
    fed on is fed by the host above or is accepted by a message on its way there.
    Entries are replaced by a refresh, so that has to be shown for the entries as
    they are and not as they were when they were accepted.
  - `TakenIsFedAlways`. BranchesFed proves the links of the chain from a client to the
    server; that the chain ends at the server, and not at an identifier that has no
    number left, is the rest. WayInv says that whatever a relay has of a branch came to
    it along a way of links that is no longer than the identifier, and from the server
    itself only if the relay is its neighbour. Of the relays that are fed on the content
    but not through the server, the one with the shortest identifier would then have to
    have a sender with a shorter one.
  - `FedWhenQuietAlways`. A relay refuses a flood when it has handed out an identifier
    that this one descends from, be it of another branch that another request has
    numbered alike. So one takes a shortest way from the server to a POP and the
    flood on it: a relay at place i of that way handed out only identifiers of more than
    i numbers, as nothing gets to it sooner (WayInv), and refuses no flood whose
    identifier has i; nor is the next relay the one the flood came from. Served follows
    the request of a client along that way: it is under way, or a flood for the
    client is at one of the places, or an offer, or the client has taken one. When
    everything is at rest only the last is left, and TakenIsFed is the rest.
- `Bootstrap_proofs`: `TypeCorrect`, `NeighbourOnceAlways`, `AnswerIsTheAnswerAlways`,
  `NoFalseDeathAlways`. BootInv adds to TypeOK what one life of a process leaves to the
  next one: who runs has been started and who does not knows nobody (Running), an open
  end belongs to one of the two hosts of its connection, and the other end
  is open too unless that host has stopped since (HalfOpen); of the messages, who sends which
  kind to whom; of the server, one entry for each relay; of a request, that its id
  comes back only in the server's answer.
- `ServerStreams_proofs`: `TypeCorrect`, `NoRouteAbandonedAlways`, `OngoingPlayedAlways`. A
  goroutine that ends on the sight of an ongoing stream leaves its route to the
  goroutine that plays it; that there is one is OngoingPlayed, and the two are
  inductive together with TypeOK.
- `TimeHop_proofs`: `TypeCorrect`, `NoReaderStrandedAlways`. A reader with an answer could
  be stranded if there were two answers, or one for a hop that has had its answer.
  HopInv adds that no message is in two places (NoCopies), that an answer or request
  is only under way while the handler of its flood has sent it or waits (Asked), and
  that an id is awaited only while its handler waits or has just been answered
  (Entered).
- `Codec_proofs`: `MessageReadAsSent` (a sized message is decoded as it was and what
  follows is left), `SetBodySizes`, `PartWaits` (no start of a message is taken for a
  whole one), `PacketUnwrapped` for identifiers of at most 255 bytes, and
  `LongIdentifierLost` for longer ones. Direct proofs on slices of sequences.
- `DataPlane_proofs`: `OneHeaderAlways`. With one route at most, the packet that
  DupStream still has to send is bare (Fresh), so that what it wraps gets one
  header; a relay takes one off before it puts one on. Two routes break Fresh, and
  the run `two_routes` shows the packet with two headers.

They rest on the named assumptions of the modules: hosts of different kinds are
different, POPs are relays, no client has the name that stands for none, the tables of
constants have their types, a process starts at least once, and, for ServerStreams,
names without hyphen. For TimeHop, connections have two directions and each flood is
sent along one of them. They hold for any number of relays, clients, contents,
goroutines, readers, deaths and refreshes. (The large numbers of `Codec_proofs` are left
to the SMT solver.) The theorems about branches have more hypotheses, in their
statements:

- NoFaults, for all of them but OneReceiver: no process stops and no file ends. A purge
  removes the entries by which a relay knows a flood again, or the branch that a flood
  on its way was to be recorded for, and TLC finds counterexamples with one death.
- OneEnd, for AcceptanceFindsBranch, BranchesFed, TakenIsFed and FedWhenQuiet: no two
  relays are each started with the address of the other. If they are, each keeps two peers for one host, the address
  it announced to and the one the Hello came from (`node/main.go:343` enters it under
  the latter), and AddOutgoingForConn, which compares hosts, makes one entry for both: a
  flood goes out twice under one identifier, and the acceptance comes from an address
  that no entry has. TLC finds AcceptanceFindsBranch, BranchesFed and FedWhenQuiet
  violated on the diamond once P and A announce to each other; BranchHeldUpstream,
  NoFloodLoops, ShortIds and OneReceiver do not need the hypothesis. The scripts of
  `scripts/test1` name each link at one end only.
- PlainNames, for TakenIsFed and FedWhenQuiet: no content has a hyphen in its name. The
  server looks for the receivers of a content under its whole name, and GetConnContent
  gives only the part before the hyphen, so such a content is accepted and never sent.
- PopInReach, for FedWhenQuiet: some way of links leads from the server to a POP, else
  no client can be offered anything. FiniteRelays, for ShortIds: there are finitely many
  relays.

Every invariant and action property of the runs that pass is proved. Only model-checked
is what holds under fairness, liveness being out of the prover's reach: EveryClientFed,
RestoredByBackup, EveryReceiverTold, EveryHopTimed, MetForGood, StaleForgotten,
EveryRequestResolved, AskerGetsOffer. TakenIsFed and FedWhenQuiet are the part of
EveryClientFed that needs no fairness, for every topology. Where an argument is an
induction, over identifiers or along a way, it is made from the least counterexample
(`LeastMember`, from the well-foundedness of the order of the natural numbers), since
the induction theorems of the library take an operator as a parameter.

## 5. Not modelled

- Two readers of one connection that cut a message in two between them. `TimeHop` has
  the readers but whole messages, `Codec` the bytes but one reader; together they
  give garbage for any cut, and nothing in the code says how likely one is.
- The death of a neighbour during an echo, in `TimeHop`: no timeout ends the wait, so
  EveryHopTimed can only be about connections that stay. `Overlay.FloodTimed` lets the
  echo stay away.
- Ten and more branches of one parent, where one number is a prefix of another
  (`HasPrefix` has it and `PrefixMistaken` is about it, but no instance is large
  enough to run).
- The round-trip times of a branch: they are measured, carried along and printed;
  no decision depends on them.
- Changes of the routes while packets travel, and the size of the receive buffers.
- The JSON of the body of a flood (encoding/json), the clock and the random ids:
  two equal ids do not occur in the models.
- `helpers/`: the command line, logging, a ticker for the periodic jobs (an action of
  its own in `Overlay`) and a map under a lock (a set in the models). The periodic job
  of the relay returns at once.
- `ff-streaming/`, `testing/`, `scripts/` and `rede.imn`: not used by the programs, or
  only to start them. `CloseConn` is a message no code sends; of the routing table,
  AddActiveOutgoingForConn and DegreeOfRemoval are not called.
