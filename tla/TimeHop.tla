------------------------------ MODULE TimeHop ------------------------------
(***************************************************************************)
(* How a relay times a hop (src/node/main.go, TimeHop, handleTimeHop and   *)
(* packetHandler; src/tcp-server/tcp-connections.go).                      *)
(*                                                                         *)
(* The goroutine that reads a flood off a connection runs the handler, and *)
(* the handler blocks until the neighbour has echoed a TimeHop message.    *)
(* Every connection therefore needs another reader: SendOpen starts one    *)
(* with every message it sends.  Each reader has its own buffer, takes any *)
(* number of messages off the connection at once and handles them one by   *)
(* one, so what a blocked reader has taken waits with it.                  *)
(*                                                                         *)
(* The id of a TimeHop is entered in MessagesAwaitingResponse only after   *)
(* the message is sent.  An answer that comes earlier looks like a request *)
(* and is echoed, and so on, back and forth, until the id is there.        *)
(*                                                                         *)
(* A reader takes whole messages (a message that is cut in two between two *)
(* readers is not modelled), and connections stay up.                      *)
(***************************************************************************)
EXTENDS Integers, Sequences, FiniteSets

CONSTANTS
    Links,    \* <<x, y>> and <<y, x>> for every connection between x and y
    Floods,   \* the floods of the run, each named by the id of its TimeHop
    Path,     \* the link each flood is sent along
    MaxIdle   \* bound: idle readers of a link beyond it are not counted

ASSUME LinksAssumption == \A l \in Links : <<l[2], l[1]>> \in Links
ASSUME PathAssumption == Path \in [Floods -> Links]
ASSUME MaxIdleAssumption == MaxIdle \in Nat \ {0}

VARIABLES
    sent,      \* the floods that have been sent
    wire,      \* the messages on their way from l[1] to l[2]
    idle,      \* how many readers at l[1] wait on the connection to l[2]
    readers,   \* the readers that have messages in their buffer
    awaiting,  \* MessagesAwaitingResponse of every relay, by link's end
    done       \* the floods whose hop has been timed

vars == <<sent, wire, idle, readers, awaiting, done>>

\* A TimeHop and its answer have the same id and differ in a flag that nobody
\* looks at.
Message == [kind : {"flood", "hop"}, id : Floods]

\* pc of a reader, about the first message of its buffer: "next" it is to be
\* dispatched; "sent" the TimeHop of the flood is sent; "waiting" and its id
\* awaited; "got" the answer has come; "giving" the answer is being handed to
\* the one that awaits it.
Reader == [at : Links, buf : Seq(Message),
           pc : {"next", "sent", "waiting", "got", "giving"}]

Back(l) == <<l[2], l[1]>>
Head1(r) == Head(r.buf)

Init ==
    /\ sent = {} /\ done = {} /\ readers = {}
    /\ wire = [l \in Links |-> <<>>]
    /\ idle = [l \in Links |-> 1]
    /\ awaiting = [l \in Links |-> {}]

More(n) == IF n < MaxIdle THEN n + 1 ELSE n

\* Mutant of SendOpen: no reader is started.
SendOnly(l, m, free) ==
    /\ wire' = [wire EXCEPT ![l] = Append(@, m)]
    /\ idle' = [free EXCEPT ![l] = @]

\* SendOpen at l[1]: a reader is started and m sent along l; free is what the
\* step leaves idle otherwise.
SendOpen(l, m, free) ==
    /\ wire' = [wire EXCEPT ![l] = Append(@, m)]
    /\ idle' = [free EXCEPT ![l] = More(@)]

\* A reader at the end of its buffer is idle again.
Released(r) == IF Len(r.buf) = 1 THEN [idle EXCEPT ![r.at] = More(@)] ELSE idle

\* The readers when r has handled the first message of its buffer.
Handled(r) ==
    (readers \ {r}) \union
    {[r EXCEPT !.buf = Tail(@), !.pc = "next"] : b \in {b \in {r.buf} : Len(b) > 1}}

At(r, pc) == (readers \ {r}) \union {[r EXCEPT !.pc = pc]}

\* handleConnFlood of a neighbour, which sends the flood on.
SendFlood(f) ==
    /\ f \notin sent
    /\ sent' = sent \union {f}
    /\ SendOpen(Path[f], [kind |-> "flood", id |-> f], idle)
    /\ UNCHANGED <<readers, awaiting, done>>

\* An idle reader takes the first k messages that have arrived.
Read(l) ==
    LET in == wire[Back(l)] IN
    /\ idle[l] > 0
    /\ \E k \in 1 .. Len(in) :
          /\ wire' = [wire EXCEPT ![Back(l)] = SubSeq(@, k + 1, Len(@))]
          /\ readers' = readers \union
                {[at |-> l, buf |-> SubSeq(in, 1, k), pc |-> "next"]}
    /\ idle' = [idle EXCEPT ![l] = @ - 1]
    /\ UNCHANGED <<sent, awaiting, done>>

\* packetHandler finds the id among those awaited: the reader stays at the
\* channel until the other one takes the answer.
Match(r) ==
    /\ r.pc = "next" /\ Head1(r).kind = "hop"
    /\ \E l \in Links : l[1] = r.at[1] /\ Head1(r).id \in awaiting[l]
    /\ readers' = At(r, "giving")
    /\ UNCHANGED <<sent, wire, idle, awaiting, done>>

\* handleTimeHop: the echo.
Echo(r) ==
    /\ r.pc = "next" /\ Head1(r).kind = "hop"
    /\ \A l \in Links : l[1] = r.at[1] => Head1(r).id \notin awaiting[l]
    /\ readers' = Handled(r)
    /\ SendOpen(r.at, Head1(r), Released(r))
    /\ UNCHANGED <<sent, awaiting, done>>

\* TimeHop, called from handleConnFlood: the request is sent ...
Request(r) ==
    /\ r.pc = "next" /\ Head1(r).kind = "flood"
    /\ readers' = At(r, "sent")
    /\ SendOpen(r.at, [kind |-> "hop", id |-> Head1(r).id], idle)
    /\ UNCHANGED <<sent, awaiting, done>>

\* ... its id entered ...
Register(r) ==
    /\ r.pc = "sent"
    /\ awaiting' = [awaiting EXCEPT ![r.at] = @ \union {Head1(r).id}]
    /\ readers' = At(r, "waiting")
    /\ UNCHANGED <<sent, wire, idle, done>>

Awaits(q, r) ==
    /\ q.pc = "waiting" /\ r.pc = "giving"
    /\ q.at[1] = r.at[1] /\ Head1(q).id = Head1(r).id

\* Mutant of Give: the reader goes on to the switch and echoes the answer.
GiveAndEcho(r) ==
    \E q \in readers :
       /\ Awaits(q, r)
       /\ readers' = (Handled(r) \ {q}) \union {[q EXCEPT !.pc = "got"]}
       /\ SendOpen(r.at, Head1(r), Released(r))
       /\ UNCHANGED <<sent, awaiting, done>>

\* ... the answer is handed over the channel ...
Give(r) ==
    \E q \in readers :
       /\ Awaits(q, r)
       /\ readers' = (Handled(r) \ {q}) \union {[q EXCEPT !.pc = "got"]}
       /\ idle' = Released(r)
       /\ UNCHANGED <<sent, wire, awaiting, done>>

\* Mutant of Finish: the id stays.
FinishKeepsId(r) ==
    /\ r.pc = "got"
    /\ done' = done \union {Head1(r).id}
    /\ readers' = Handled(r)
    /\ idle' = Released(r)
    /\ UNCHANGED <<sent, wire, awaiting>>

\* ... and the id deleted; the handler of the flood goes on.
Finish(r) ==
    /\ r.pc = "got"
    /\ awaiting' = [awaiting EXCEPT ![r.at] = @ \ {Head1(r).id}]
    /\ done' = done \union {Head1(r).id}
    /\ readers' = Handled(r)
    /\ idle' = Released(r)
    /\ UNCHANGED <<sent, wire>>

Handle(m) ==
    \E r \in readers :
       /\ Head1(r) = m
       /\ Match(r) \/ Echo(r) \/ Request(r) \/ Register(r) \/ Give(r) \/ Finish(r)

Next ==
    \/ \E f \in Floods : SendFlood(f)
    \/ \E l \in Links : Read(l)
    \/ \E r \in readers :
          \/ Match(r) \/ Echo(r) \/ Request(r) \/ Register(r) \/ Give(r)
          \/ Finish(r)

Spec == Init /\ [][Next]_vars

\* Every connection is read and every goroutine runs: an echo that goes back
\* and forth does not keep the one that awaits it from registering its id.
FairSpec ==
    /\ Spec
    /\ \A l \in Links : WF_vars(Read(l))
    /\ \A m \in Message : WF_vars(Handle(m))
-----------------------------------------------------------------------------
\* The variables hold values of their kinds, and the ids awaited are those of
\* hops being timed.
TypeOK ==
    /\ sent \subseteq Floods /\ done \subseteq sent
    /\ wire \in [Links -> Seq(Message)]
    /\ idle \in [Links -> 0 .. MaxIdle]
    /\ readers \subseteq Reader
    /\ awaiting \in [Links -> SUBSET (sent \ done)]

\* A reader that has found the id of its message among the awaited ones hands
\* it over: the one that awaits it has not had its answer from somebody else,
\* between the look-up and the hand-over, and gone.
NoReaderStranded ==
    \A r \in readers : r.pc = "giving" => \E q \in readers : Awaits(q, r)

\* Every flood gets past the timing of its hop, although the readers that are
\* blocked in one hop hold messages of others in their buffers, both ends may
\* be timing each other, and the answer may come before it is awaited.
EveryHopTimed == \A f \in Floods : (f \in sent) ~> (f \in done)
=============================================================================
