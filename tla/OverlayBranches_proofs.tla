----------------------- MODULE OverlayBranches_proofs -----------------------
(***************************************************************************)
(* Floods, and the branches that they leave in the tables, for any         *)
(* topology and any number of clients and contents; and what comes of them *)
(* for a client, once no acceptance or nothing at all is under way.        *)
(***************************************************************************)
EXTENDS OverlaySafety_proofs, WellFoundedInduction, FiniteSetTheorems

-----------------------------------------------------------------------------
(***************************************************************************)
(* Identifiers.                                                            *)
(***************************************************************************)
LEMMA OfConnId ==
    ASSUME NEW id \in ConnId
    PROVE  /\ id.content \in Contents /\ id.path \in Seq(Suffixes)
           /\ Len(id.path) \in Nat
           /\ \A i \in 1 .. Len(id.path) : id.path[i] \in Nat \ {0}
  <1>1. id.content \in Contents /\ id.path \in Seq(Suffixes)
    BY DEF ConnId
  <1>2. Len(id.path) \in Nat /\ \A i \in 1 .. Len(id.path) : id.path[i] \in Suffixes
    BY <1>1
  <1> QED
    BY <1>1, <1>2, SuffixesAssumption

LEMMA ParentOfChild ==
    ASSUME NEW id \in ConnId, NEW k \in Suffixes
    PROVE  /\ Parent(Child(id, k)) = id
           /\ Descends(Child(id, k), id)
           /\ LastOf(Child(id, k)) = k
  <1> DEFINE s == Append(id.path, k)
  <1>1. /\ s \in Seq(Suffixes) /\ Len(s) = Len(id.path) + 1
        /\ \A i \in 1 .. Len(id.path) : s[i] = id.path[i]
        /\ s[Len(s)] = k
    BY OfConnId
  <1>2. Child(id, k).path = s /\ Child(id, k).content = id.content
    BY DEF Child, ConnId
  <1>3. SubSeq(s, 1, Len(s) - 1) = id.path
    BY OfConnId, <1>1
  <1>4. Parent(Child(id, k)) = id
    BY <1>2, <1>3 DEF Child, Parent, ConnId
  <1> QED
    BY <1>1, <1>2, <1>4, OfConnId DEF Descends, LastOf

LEMMA PathOfParent ==
    ASSUME NEW id \in ConnId
    PROVE  /\ Parent(id).content = id.content
           /\ Len(Parent(id).path) <= Len(id.path)
           /\ Len(Parent(id).path) \in Nat
           /\ \A i \in 1 .. Len(Parent(id).path) :
                 Parent(id).path[i] = id.path[i]
  <1> DEFINE s == SubSeq(id.path, 1, Len(id.path) - 1)
  <1>1. Parent(id).path = s /\ Parent(id).content = id.content
    BY DEF Parent, ConnId
  <1>2. Len(id.path) \in Nat /\ id.path \in Seq(Suffixes)
    BY OfConnId
  <1>3. CASE id.path = <<>>
    <2>1. Len(s) = 0
      BY <1>3
    <2> QED
      BY <1>1, <1>2, <2>1
  <1>4. CASE id.path # <<>>
    <2>1. /\ Len(s) = Len(id.path) - 1
          /\ \A i \in 1 .. Len(s) : s[i] = id.path[i]
      BY <1>2, <1>4
    <2> QED
      BY <1>1, <1>2, <1>4, <2>1
  <1> QED
    BY <1>3, <1>4

LEMMA NumeralOfItself ==
    ASSUME NEW a \in Nat
    PROVE  DecimalPrefix(a, a)
  <1>1. a \div 1 = a
    OBVIOUS
  <1> QED
    BY <1>1 DEF DecimalPrefix

LEMMA PrefixOfItself ==
    ASSUME NEW id \in ConnId
    PROVE  HasPrefix(id, id)
  BY OfConnId, NumeralOfItself DEF HasPrefix

\* What is a prefix of a branch is one of the branches that grow from it.
LEMMA PrefixOfBranch ==
    ASSUME NEW new \in ConnId, NEW p \in ConnId, HasPrefix(Parent(new), p)
    PROVE  HasPrefix(new, p)
  <1> DEFINE up == Parent(new).path
             n  == Len(p.path)
  <1>1. /\ Parent(new).content = new.content
        /\ Len(up) \in Nat /\ Len(up) <= Len(new.path)
        /\ \A i \in 1 .. Len(up) : up[i] = new.path[i]
        /\ Len(new.path) \in Nat /\ n \in Nat
    BY PathOfParent, OfConnId
  <1>2. /\ Parent(new).content = p.content /\ n <= Len(up)
        /\ \A i \in 1 .. n - 1 : up[i] = p.path[i]
        /\ n > 0 => DecimalPrefix(p.path[n], up[n])
    BY DEF HasPrefix
  <1> HIDE DEF up
  <1>3. n <= Len(new.path) /\ new.content = p.content
    BY <1>1, <1>2
  <1>4. \A i \in 1 .. n - 1 : new.path[i] = p.path[i]
    BY <1>1, <1>2
  <1>5. n > 0 => DecimalPrefix(p.path[n], new.path[n])
    BY <1>1, <1>2
  <1> QED
    BY <1>3, <1>4, <1>5 DEF HasPrefix

LEMMA PrefixParent ==
    ASSUME NEW id \in ConnId
    PROVE  HasPrefix(id, Parent(id))
  <1> DEFINE p == Parent(id)
  <1>1. Len(p.path) > 0 => DecimalPrefix(p.path[Len(p.path)], id.path[Len(p.path)])
    BY PathOfParent, OfConnId, NumeralOfItself
  <1> QED
    BY <1>1, PathOfParent DEF HasPrefix

\* The tests of the code on identifiers are tests on paths only as long as no
\* relay hands out a number of two digits: then strings.HasPrefix holds exactly
\* of the branches that an identifier grew from, and of itself.
THEOREM PrefixIsPath ==
    ASSUME Suffixes \subseteq 1 .. 9, NEW id \in ConnId, NEW p \in ConnId
    PROVE  HasPrefix(id, p) <=>
              /\ id.content = p.content
              /\ Len(p.path) <= Len(id.path)
              /\ \A i \in 1 .. Len(p.path) : id.path[i] = p.path[i]
  <1>1. Len(p.path) \in Nat /\ Len(id.path) \in Nat
    BY OfConnId
  <1>2. \A a, b \in 1 .. 9 : DecimalPrefix(a, b) <=> a = b
    <2>1. \A b \in 1 .. 9 : /\ b \div 1 = b /\ b \div 10 = 0
                            /\ b \div 100 = 0 /\ b \div 1000 = 0
      OBVIOUS
    <2> QED
      BY <2>1 DEF DecimalPrefix
  <1>3. \A x \in ConnId : \A i \in 1 .. Len(x.path) : x.path[i] \in 1 .. 9
    <2> TAKE x \in ConnId
    <2>1. x.path \in Seq(Suffixes)
      BY DEF ConnId
    <2>2. \A i \in 1 .. Len(x.path) : x.path[i] \in Suffixes
      BY <2>1
    <2> QED
      BY <2>2
  <1>4. ASSUME Len(p.path) <= Len(id.path), Len(p.path) > 0
        PROVE  DecimalPrefix(p.path[Len(p.path)], id.path[Len(p.path)])
               <=> id.path[Len(p.path)] = p.path[Len(p.path)]
    <2>1. p.path[Len(p.path)] \in 1 .. 9 /\ id.path[Len(p.path)] \in 1 .. 9
      BY <1>1, <1>3, <1>4
    <2> QED
      BY <1>2, <2>1
  <1> QED
    BY <1>1, <1>4 DEF HasPrefix

\* With more than nine branches it goes wrong: "[c]-1" passes for a branch that
\* "[c]-12" grew from, though a relay never made the one of the other.
THEOREM PrefixMistaken ==
    ASSUME NEW c \in Contents, 1 \in Suffixes, 12 \in Suffixes
    PROVE  LET twelfth == Child(Root(c), 12)
               first   == Child(Root(c), 1)
           IN  /\ HasPrefix(twelfth, first)
               /\ twelfth # first /\ ~Descends(twelfth, first)
  <1> DEFINE twelfth == Child(Root(c), 12)
             first   == Child(Root(c), 1)
  <1>1. /\ twelfth.content = c /\ twelfth.path = <<12>>
        /\ first.content = c /\ first.path = <<1>>
        /\ Len(<<1>>) = 1 /\ Len(<<12>>) = 1
        /\ <<1>>[1] = 1 /\ <<12>>[1] = 12
    BY DEF Child, Root
  <1>2. DecimalPrefix(1, 12)
    <2>1. 12 \div 10 = 1
      OBVIOUS
    <2> QED
      BY <2>1 DEF DecimalPrefix
  <1>3. HasPrefix(twelfth, first)
    <2> HIDE DEF twelfth, first
    <2> QED
      BY <1>1, <1>2 DEF HasPrefix
  <1>4. twelfth # first /\ ~Descends(twelfth, first)
    BY <1>1 DEF Descends
  <1> QED
    BY <1>3, <1>4
-----------------------------------------------------------------------------
(***************************************************************************)
(* An overlay in which no process stops and no content ends.  Nothing is   *)
(* ever taken out of a table then: the death of a neighbour and the end of *)
(* a stream are all that purges one, and what is purged is forgotten by    *)
(* PassesThrough while floods of it are still on their way.                *)
(***************************************************************************)
NoFaults == MayCrash = {} /\ MayEnd = {}

Whole ==
    /\ TypeOK
    /\ alive = Hosts
    /\ recoveries = {}
    /\ \A m \in net : m.type \notin {"EndOfStream", "EmptyAccepted"}

\* The steps that such an overlay takes.
WholeStep ==
    \/ \E m \in net :
          \/ HandleIWantStream(m) \/ HandleAcceptedAtServer(m)
          \/ RefuseFlood(m) \/ StartFlood(m)
          \/ HandleAcceptedConn(m) \/ ReceiveOffer(m)
    \/ \E h \in handlers : FloodTimed(h) \/ \E a \in h.todo : ForwardFlood(h, a)
    \/ \E p \in pending : AcceptOffer(p)
    \/ \E c \in Clients : Ask(c)
    \/ \E c \in Contents : Refresh(c)
    \/ UNCHANGED vars

LEMMA OnlyWholeSteps ==
    ASSUME NoFaults, Whole, [Next]_vars
    PROVE  WholeStep
  <1>1. ASSUME NEW m \in net, HandleEndOfStream(m) \/ HandleEmptyAccepted(m)
        PROVE  FALSE
    BY <1>1 DEF HandleEndOfStream, HandleEmptyAccepted, Whole
  <1>2. ASSUME NEW n \in Relays, NEW a \in peers[n],
               ClientDeath(n, a) \/ ServerDeath(n, a) \/ RelayDeath(n, a)
        PROVE  FALSE
    <2>1. a.ip \in Ips
      BY DEF Whole, TypeOK, Addr
    <2> QED
      BY <1>2, <2>1 DEF Ips, ClientDeath, ServerDeath, RelayDeath, Forget, Whole
  <1>3. ~\E r \in recoveries : TRUE
    BY DEF Whole
  <1>4. ASSUME NEW c, EndStream(c) PROVE FALSE
    BY <1>4 DEF EndStream, NoFaults
  <1>5. ASSUME NEW x, Crash(x) PROVE FALSE
    BY <1>5 DEF Crash, NoFaults
  <1> QED
    BY <1>1, <1>2, <1>3, <1>4, <1>5 DEF Next, Step, Timed, Outside, WholeStep

LEMMA WholeInit == Init => Whole
  BY TypeInit DEF Init, Whole

LEMMA WholeKept ==
    ASSUME Whole, TypeOK', WholeStep
    PROVE  Whole'
  <1>1. UNCHANGED <<alive, recoveries>>
    BY DEF WholeStep, HandleIWantStream, HandleAcceptedAtServer, RefuseFlood,
       StartFlood, HandleAcceptedConn, ReceiveOffer, FloodTimed, ForwardFlood,
       AcceptOffer, Ask, Refresh, vars, relayVars
  <1>2. ASSUME NEW m \in net', m \notin net
        PROVE  m.type \notin {"EndOfStream", "EmptyAccepted"}
    <2>1. CASE \E c \in Contents : Refresh(c)
      BY <1>2, <2>1, RefreshFloodsAreMessages DEF Refresh, Reaching, Whole
    <2>2. CASE \E x \in net : HandleIWantStream(x)
      BY <1>2, <2>2 DEF HandleIWantStream, Reaching, FloodMsg
    <2>3. CASE \E x \in net : HandleAcceptedConn(x)
      BY <1>2, <2>3 DEF HandleAcceptedConn, Reaching, AcceptedMsg
    <2>4. CASE \E h \in handlers : \E a \in h.todo : ForwardFlood(h, a)
      BY <1>2, <2>4 DEF ForwardFlood, Reaching, FloodMsg
    <2>5. CASE \E p \in pending : AcceptOffer(p)
      BY <1>2, <2>5 DEF AcceptOffer, Reaching, AcceptedMsg
    <2>6. CASE \E c \in Clients : Ask(c)
      BY <1>2, <2>6 DEF Ask, Reaching
    <2> QED
      BY <1>2, <2>1, <2>2, <2>3, <2>4, <2>5, <2>6
      DEF WholeStep, HandleAcceptedAtServer, RefuseFlood, StartFlood,
          ReceiveOffer, FloodTimed, vars
  <1> QED
    BY <1>1, <1>2 DEF Whole

\* Every entry of T is an entry of U, in use or not; and the outgoing ones that
\* are in use stay so.
Keeps(T, U) ==
    /\ \A e \in T : \E f \in U : SameKey(e, f)
    /\ \A a, id : ToEntry(a, id, TRUE) \in T => ToEntry(a, id, TRUE) \in U

LEMMA MarkInUseKeeps ==
    ASSUME NEW T \in SUBSET Entry(Ips), NEW S
    PROVE  Keeps(T, MarkInUse(T, S))
  <1>1. ASSUME NEW e \in T
        PROVE  /\ [e EXCEPT !.inUse = @ \/ e \in S] \in MarkInUse(T, S)
               /\ SameKey(e, [e EXCEPT !.inUse = @ \/ e \in S])
    BY DEF MarkInUse, SameKey, Entry
  <1>2. ASSUME NEW a, NEW id, ToEntry(a, id, TRUE) \in T
        PROVE  ToEntry(a, id, TRUE) \in MarkInUse(T, S)
    <2> DEFINE e == ToEntry(a, id, TRUE)
    <2>1. e \in Entry(Ips) /\ e.inUse = TRUE
      BY <1>2 DEF ToEntry
    <2> HIDE DEF e
    <2>2. (e.inUse \/ e \in S) = e.inUse
      BY <2>1
    <2>3. [e EXCEPT !.inUse = @ \/ e \in S] = e
      BY <2>1, <2>2 DEF Entry
    <2> QED
      BY <1>2, <2>3, <1>1 DEF e
  <1> QED
    BY <1>1, <1>2 DEF Keeps

LEMMA SameKeeps == \A T : Keeps(T, T)
  BY DEF Keeps, SameKey

LEMMA AddEntryKeeps ==
    ASSUME NEW T \in SUBSET Entry(Ips), NEW a, NEW id, NEW u
    PROVE  Keeps(T, AddEntry(T, FromEntry(a, id, u)))
  BY DEF Keeps, AddEntry, FromEntry, ToEntry, SameKey, Entry

\* No step of such an overlay takes anything out of a table.
LEMMA TablesKept ==
    ASSUME Whole, WholeStep
    PROVE  \A n \in Relays : Keeps(table[n], table'[n])
  <1> SUFFICES ASSUME NEW n \in Relays PROVE Keeps(table[n], table'[n])
    OBVIOUS
  <1>0. table \in [Relays -> SUBSET Entry(Ips)] /\ table[n] \in SUBSET Entry(Ips)
    BY DEF Whole, TypeOK
  <1>1. CASE table' = table
    BY <1>1, SameKeeps
  <1>2. ASSUME NEW m \in net, HandleAcceptedConn(m)
        PROVE  Keeps(table[n], table'[n])
    <2>1. table'[n] = table[n] \/ \E S : table'[n] = MarkInUse(table[n], S)
      BY <1>0, <1>2 DEF HandleAcceptedConn, Accept
    <2> QED
      BY <1>0, <2>1, MarkInUseKeeps, SameKeeps
  <1>3. ASSUME NEW h \in handlers, FloodTimed(h)
        PROVE  Keeps(table[n], table'[n])
    <2>1. \/ table'[n] = table[n]
          \/ table'[n] = AddEntry(table[n], FromEntry(h.from, h.id, FALSE))
      BY <1>0, <1>3 DEF FloodTimed
    <2> QED
      BY <1>0, <2>1, AddEntryKeeps, SameKeeps
  <1>4. ASSUME NEW h \in handlers, NEW a \in h.todo, ForwardFlood(h, a)
        PROVE  Keeps(table[n], table'[n])
    <2>1. table[n] \subseteq table'[n]
      BY <1>0, <1>4 DEF ForwardFlood, AddOutgoing
    <2> QED
      BY <2>1 DEF Keeps, SameKey
  <1> QED
    BY <1>1, <1>2, <1>3, <1>4
    DEF WholeStep, HandleIWantStream, HandleAcceptedAtServer, RefuseFlood,
        StartFlood, ReceiveOffer, AcceptOffer, Ask, Refresh, vars, relayVars

LEMMA PassesThroughKept ==
    ASSUME NEW T, NEW U, Keeps(T, U), NEW id, PassesThrough(T, id)
    PROVE  PassesThrough(U, id)
  BY DEF Keeps, PassesThrough, TosOf, SameKey
-----------------------------------------------------------------------------
(***************************************************************************)
(* NoFloodLoops is not inductive: that a relay refuses a flood it has      *)
(* already forwarded rests on the outgoing entries it keeps of it, which   *)
(* must last until the flood has come back, however late.                  *)
(***************************************************************************)
Traced(x, id) == \A n \in x : PassesThrough(table[n], id)

LoopInv ==
    /\ Whole
    /\ NoFloodLoops
    /\ \A m \in net : m.type = "ConnFlood" => Traced(m.trail, m.id)
    /\ \A h \in handlers : Traced(h.trail, h.id)

LEMMA TracedKept ==
    ASSUME Whole, WholeStep, NEW x \in SUBSET Relays, NEW id, Traced(x, id)
    PROVE  Traced(x, id)'
  BY TablesKept, PassesThroughKept DEF Traced

LEMMA OutgoingIdGrows ==
    ASSUME NEW T \in SUBSET Entry(Ips), NEW id \in ConnId, NEW a,
           NEW new \in OutgoingIds(T, id, a)
    PROVE  /\ new \in ConnId /\ Parent(new) = id
           /\ \E e \in TosOf(AddOutgoing(T, id, a, new)) :
                 e.id = new /\ e.addr.ip = a.ip
  <1>1. CASE OutgoingOf(T, id, a) # {}
    <2>1. PICK e \in OutgoingOf(T, id, a) : new = e.id
      BY <1>1 DEF OutgoingIds
    <2>2. e \in TosOf(T) /\ e.addr.ip = a.ip /\ Parent(e.id) = id
      BY <2>1 DEF OutgoingOf
    <2> QED
      BY <1>1, <2>1, <2>2, OutgoingIdIsId DEF AddOutgoing
  <1>2. CASE OutgoingOf(T, id, a) = {}
    <2>1. PICK k \in Suffixes : new = Child(id, k)
      BY <1>2 DEF OutgoingIds
    <2>2. ToEntry(a, new, FALSE) \in TosOf(AddOutgoing(T, id, a, new))
      BY <1>2 DEF AddOutgoing, TosOf, ToEntry
    <2> QED
      BY <2>1, <2>2, ParentOfChild, OutgoingIdIsId DEF ToEntry
  <1> QED
    BY <1>1, <1>2

\* What one iteration over KnownPeers does when it sends branch new from port k.
Forwarded(h, a, new, k) ==
    /\ table' = [table EXCEPT ![h.node] = AddOutgoing(@, h.id, a, new)]
    /\ \A m \in net' : m \in net \/
          /\ m.type = "ConnFlood" /\ m.dst = a.ip /\ m.dst \in alive
          /\ m.from = [ip |-> h.node, port |-> k]
          /\ m.id = new /\ m.trail = h.trail \union {h.node}

LEMMA ForwardsOne ==
    ASSUME NEW h, NEW a, ForwardFlood(h, a)
    PROVE  \E new \in OutgoingIds(table[h.node], h.id, a) :
              \E k \in ArrivalPorts(h.node, a, new) : Forwarded(h, a, new, k)
  <1>1. ASSUME NEW new, NEW k,
               /\ table' = [table EXCEPT ![h.node] = AddOutgoing(@, h.id, a, new)]
               /\ net' = net \union Reaching(
                     {FloodMsg(a.ip, [ip |-> h.node, port |-> k], new, h.client,
                               h.trail \union {h.node})})
        PROVE  Forwarded(h, a, new, k)
    BY <1>1 DEF Forwarded, Reaching, FloodMsg
  <1> QED
    BY <1>1 DEF ForwardFlood

LEMMA TracedForward ==
    ASSUME LoopInv, TypeOK', WholeStep, NEW h \in handlers, NEW a \in h.todo,
           ForwardFlood(h, a), NEW m \in net', m \notin net
    PROVE  Traced(m.trail, m.id)'
  <1>1. /\ h \in Handler /\ h.node \in Relays /\ h.id \in ConnId
        /\ h.trail \in SUBSET Relays
    BY DEF LoopInv, Whole, TypeOK, Handler
  <1>2. table \in [Relays -> SUBSET Entry(Ips)] /\ table' \in [Relays -> SUBSET Entry(Ips)]
    BY DEF LoopInv, Whole, TypeOK
  <1>3. PICK new \in OutgoingIds(table[h.node], h.id, a) :
           /\ table' = [table EXCEPT ![h.node] = AddOutgoing(@, h.id, a, new)]
           /\ m.id = new /\ m.trail = h.trail \union {h.node}
    BY ForwardsOne DEF Forwarded
  <1>4. /\ new \in ConnId /\ Parent(new) = h.id
        /\ \E e \in TosOf(table'[h.node]) : e.id = new
    BY <1>1, <1>2, <1>3, OutgoingIdGrows
  <1>5. PassesThrough(table'[h.node], new)
    BY <1>4, PrefixOfItself DEF PassesThrough
  <1>6. ASSUME NEW n \in h.trail
        PROVE  PassesThrough(table'[n], new)
    <2>1. PassesThrough(table'[n], h.id)
      BY <1>1, TracedKept DEF LoopInv, Traced
    <2>2. PICK e \in TosOf(table'[n]) : HasPrefix(h.id, e.id)
      BY <2>1 DEF PassesThrough
    <2>3. e.id \in ConnId
      BY <1>1, <1>2 DEF TosOf, Entry
    <2> QED
      BY <1>4, <2>2, <2>3, PrefixOfBranch DEF PassesThrough
  <1> QED
    BY <1>3, <1>5, <1>6 DEF Traced

\* A step preserves the invariant when the floods it sends are traced, and a
\* goroutine that it starts is not where its flood has been.
LEMMA LoopKept ==
    ASSUME LoopInv, TypeOK', WholeStep,
           \A m \in net' : m.type = "ConnFlood" =>
               m \in net \/ Traced(m.trail, m.id)',
           \A h \in handlers' :
               \/ \E g \in handlers : /\ g.node = h.node /\ g.id = h.id
                                     /\ g.trail = h.trail
               \/ h.node \notin h.trail /\ Traced(h.trail, h.id)'
    PROVE  LoopInv'
  <1>1. Whole'
    BY WholeKept DEF LoopInv
  <1>2. ASSUME NEW m \in net', m.type = "ConnFlood"
        PROVE  Traced(m.trail, m.id)'
    <2>1. m.trail \in SUBSET Relays
      BY <1>2, MessageKinds DEF TypeOK, Flood
    <2> QED
      BY <1>2, <2>1, TracedKept DEF LoopInv
  <1>3. ASSUME NEW h \in handlers'
        PROVE  h.node \notin h.trail /\ Traced(h.trail, h.id)'
    <2>1. h.trail \in SUBSET Relays
      BY DEF TypeOK, Handler
    <2> QED
      BY <2>1, TracedKept DEF LoopInv, NoFloodLoops
  <1> QED
    BY <1>1, <1>2, <1>3 DEF LoopInv, NoFloodLoops

\* The goroutines that are left after a goroutine has gone on.
LEMMA AdvanceSame ==
    ASSUME NEW h \in handlers, NEW next,
           next.node = h.node, next.id = h.id, next.trail = h.trail,
           NEW g \in Advance(h, next)
    PROVE  \E f \in handlers : /\ f.node = g.node /\ f.id = g.id
                              /\ f.trail = g.trail
  BY DEF Advance

\* The goroutine that a flood starts.
LEMMA StartedHandler ==
    ASSUME NEW m, StartFlood(m), NEW h \in handlers', h \notin handlers
    PROVE  /\ h.node = m.dst /\ h.from = m.from /\ h.id = m.id
           /\ h.trail = m.trail /\ h.stage = "timing" /\ h.todo = {}
  <1> DEFINE new == [node |-> m.dst, stage |-> "timing", from |-> m.from,
                     id |-> m.id, client |-> m.client, trail |-> m.trail,
                     todo |-> {}]
  <1>1. h = new
    <2>1. handlers' = handlers \union {new : x \in {m.from.ip} \intersect alive}
      BY DEF StartFlood
    <2> HIDE DEF new
    <2> QED
      BY <2>1
  <1> QED
    BY <1>1

LEMMA LoopStep ==
    ASSUME LoopInv, TypeOK', WholeStep
    PROVE  LoopInv'
  <1>1. ASSUME NEW m \in net, HandleIWantStream(m) PROVE LoopInv'
    <2>1. /\ \A x \in net' : x \in net \/ x.trail = {}
          /\ UNCHANGED handlers
      BY <1>1 DEF HandleIWantStream, Reaching, FloodMsg, relayVars
    <2> QED
      BY <2>1, LoopKept DEF Traced
  <1>2. ASSUME NEW c \in Contents, Refresh(c) PROVE LoopInv'
    <2>1. /\ \A x \in net' : x \in net \/ x.trail = {}
          /\ UNCHANGED handlers
      BY <1>2 DEF Refresh, RefreshFloods, Reaching, FloodMsg, relayVars
    <2> QED
      BY <2>1, LoopKept DEF Traced
  <1>3. ASSUME NEW m \in net, StartFlood(m) PROVE LoopInv'
    <2>1. m \in Flood /\ m.trail \in SUBSET Relays
      BY <1>3, MessageKinds DEF LoopInv, Whole, TypeOK, StartFlood, Flood
    <2>2. Traced(m.trail, m.id) /\ Traced(m.trail, m.id)'
      BY <1>3, <2>1, TracedKept DEF LoopInv, StartFlood
    <2>3. m.dst \notin m.trail
      BY <1>3, <2>2 DEF Traced, StartFlood
    <2>4. \A x \in net' : x \in net
      BY <1>3 DEF StartFlood
    <2>5. \A h \in handlers' : \/ h \in handlers
                                 \/ /\ h.node = m.dst /\ h.id = m.id
                                    /\ h.trail = m.trail
      BY <1>3, StartedHandler
    <2>6. \A h \in handlers' : \/ h \in handlers
                                 \/ /\ h.node \notin h.trail
                                    /\ Traced(h.trail, h.id)'
      BY <2>2, <2>3, <2>5 DEF Traced
    <2> QED
      BY <2>4, <2>6, LoopKept
  <1>4. ASSUME NEW h \in handlers, FloodTimed(h) PROVE LoopInv'
    <2>1. UNCHANGED net
      BY <1>4 DEF FloodTimed
    <2>2. h \in Handler
      BY DEF LoopInv, Whole, TypeOK
    <2> DEFINE next == [h EXCEPT !.stage = "forwarding", !.todo = Targets(h)]
    <2>3. next.node = h.node /\ next.id = h.id /\ next.trail = h.trail
      BY <2>2 DEF Handler
    <2>4. handlers' = Advance(h, next)
      BY <1>4 DEF FloodTimed
    <2> HIDE DEF next
    <2> QED
      BY <2>1, <2>3, <2>4, AdvanceSame, LoopKept
  <1>5. ASSUME NEW h \in handlers, NEW a \in h.todo, ForwardFlood(h, a)
        PROVE  LoopInv'
    <2>1. \A m \in net' : m \in net \/ Traced(m.trail, m.id)'
      BY <1>5, TracedForward
    <2>2. h \in Handler
      BY DEF LoopInv, Whole, TypeOK
    <2> DEFINE next == [h EXCEPT !.todo = @ \ {a}]
    <2>3. next.node = h.node /\ next.id = h.id /\ next.trail = h.trail
      BY <2>2 DEF Handler
    <2>4. handlers' = Advance(h, next)
      BY <1>5 DEF ForwardFlood
    <2> HIDE DEF next
    <2> QED
      BY <2>1, <2>3, <2>4, AdvanceSame, LoopKept
  <1>6. ASSUME NEW m \in net,
               \/ HandleAcceptedAtServer(m) \/ RefuseFlood(m)
               \/ HandleAcceptedConn(m) \/ ReceiveOffer(m)
        PROVE  LoopInv'
    <2>1. /\ \A x \in net' : x.type = "ConnFlood" => x \in net
          /\ UNCHANGED handlers
      BY <1>6 DEF HandleAcceptedAtServer, RefuseFlood, HandleAcceptedConn,
         ReceiveOffer, Reaching, AcceptedMsg, relayVars
    <2> QED
      BY <2>1, LoopKept
  <1>7. ASSUME \/ \E p \in pending : AcceptOffer(p)
               \/ \E c \in Clients : Ask(c)
               \/ UNCHANGED vars
        PROVE  LoopInv'
    <2>1. /\ \A x \in net' : x.type = "ConnFlood" => x \in net
          /\ UNCHANGED handlers
      BY <1>7 DEF AcceptOffer, Ask, Reaching, AcceptedMsg, vars, relayVars
    <2> QED
      BY <2>1, LoopKept
  <1> QED
    BY <1>1, <1>2, <1>3, <1>4, <1>5, <1>6, <1>7 DEF WholeStep

\* Where no process stops and no content ends, a relay never works twice on one
\* flood, whatever the topology, however long it waits for an echo and in
\* whatever order the copies of the flood come back to it: PassesThrough finds
\* the branch it handed out among those the copy grew from.
THEOREM NoFloodLoopsAlways == NoFaults => (Spec => []NoFloodLoops)
  <1> SUFFICES ASSUME NoFaults PROVE Spec => []NoFloodLoops
    OBVIOUS
  <1>1. Init => LoopInv
    BY WholeInit DEF Init, LoopInv, NoFloodLoops
  <1>2. LoopInv /\ [Next]_vars => LoopInv'
    <2>1. LoopInv /\ [Next]_vars => TypeOK' /\ WholeStep
      BY TypeStep, OnlyWholeSteps DEF LoopInv, Whole
    <2> QED
      BY <2>1, LoopStep
  <1>3. LoopInv => NoFloodLoops
    BY DEF LoopInv
  <1> QED
    BY <1>1, <1>2, <1>3, PTL DEF Spec
-----------------------------------------------------------------------------
(***************************************************************************)
(* OneReceiver holds whatever stops: what is purged frees its number for   *)
(* the next branch, which is above every number still in the table.        *)
(***************************************************************************)
Unambiguous(T) == \A e, f \in TosOf(T) : e.id = f.id => e = f

LEMMA MarkInUseUnambiguous ==
    ASSUME NEW T \in SUBSET Entry(Ips), NEW S, Unambiguous(T)
    PROVE  Unambiguous(MarkInUse(T, S))
  <1> SUFFICES ASSUME NEW e \in TosOf(MarkInUse(T, S)),
                      NEW f \in TosOf(MarkInUse(T, S)), e.id = f.id
               PROVE  e = f
    BY DEF Unambiguous
  <1>1. ASSUME NEW g \in TosOf(MarkInUse(T, S))
        PROVE  \E x \in TosOf(T) : x.id = g.id /\ g = [x EXCEPT !.inUse = @ \/ x \in S]
    <2>1. PICK x \in T : g = [x EXCEPT !.inUse = @ \/ x \in S]
      BY DEF TosOf, MarkInUse
    <2>2. x.id = g.id /\ x.side = g.side
      BY <2>1 DEF Entry
    <2>3. g.side = "to"
      BY DEF TosOf
    <2> QED
      BY <2>1, <2>2, <2>3 DEF TosOf
  <1>2. PICK x \in TosOf(T) : x.id = e.id /\ e = [x EXCEPT !.inUse = @ \/ x \in S]
    BY <1>1
  <1>3. PICK y \in TosOf(T) : y.id = f.id /\ f = [y EXCEPT !.inUse = @ \/ y \in S]
    BY <1>1
  <1>4. x = y
    BY <1>2, <1>3 DEF Unambiguous
  <1> QED
    BY <1>2, <1>3, <1>4

\* A number above all that are used below a branch is free.
LEMMA OutgoingUnambiguous ==
    ASSUME NEW T \in SUBSET Entry(Ips), NEW id \in ConnId, NEW a,
           NEW new \in OutgoingIds(T, id, a), Unambiguous(T)
    PROVE  Unambiguous(AddOutgoing(T, id, a, new))
  <1>1. CASE OutgoingOf(T, id, a) # {}
    BY <1>1 DEF AddOutgoing
  <1>2. CASE OutgoingOf(T, id, a) = {}
    <2>1. PICK k \in Suffixes : /\ new = Child(id, k)
                                /\ \A u \in UsedSuffixes(T, id) : u < k
      BY <1>2 DEF OutgoingIds
    <2>2. Descends(new, id) /\ LastOf(new) = k /\ k \in Nat
      BY <2>1, ParentOfChild, SuffixesAssumption
    <2>3. ASSUME NEW e \in TosOf(T) PROVE e.id # new
      <3>1. SUFFICES ASSUME e.id = new PROVE FALSE
        OBVIOUS
      <3>2. k \in UsedSuffixes(T, id)
        BY <2>2, <3>1 DEF UsedSuffixes, TosOf
      <3> QED
        BY <2>1, <2>2, <3>2
    <2>4. \A e \in TosOf(AddOutgoing(T, id, a, new)) :
             e \in TosOf(T) \/ e = ToEntry(a, new, FALSE)
      BY <1>2 DEF AddOutgoing, TosOf
    <2>5. ToEntry(a, new, FALSE).id = new
      BY DEF ToEntry
    <2> QED
      BY <2>3, <2>4, <2>5 DEF Unambiguous
  <1> QED
    BY <1>1, <1>2

LEMMA ReceiverStep ==
    ASSUME SolicitedInv, OneReceiver, [Next]_vars
    PROVE  OneReceiver'
  <1> SUFFICES ASSUME NEW n \in Relays PROVE Unambiguous(table'[n])
    BY DEF OneReceiver, Unambiguous
  <1>0. /\ table \in [Relays -> SUBSET Entry(Ips)] /\ table[n] \in SUBSET Entry(Ips)
        /\ Unambiguous(table[n])
    BY DEF SolicitedInv, TypeOK, OneReceiver, Unambiguous
  <1>t. TypeOK
    BY DEF SolicitedInv
  <1>1. CASE TosOf(table'[n]) \subseteq TosOf(table[n])
    BY <1>0, <1>1 DEF Unambiguous
  <1>2. ASSUME NEW m \in net, HandleAcceptedConn(m)
        PROVE  Unambiguous(table'[n])
    <2>1. table'[n] = table[n] \/ \E S : table'[n] = MarkInUse(table[n], S)
      BY <1>0, <1>2 DEF HandleAcceptedConn, Accept
    <2> QED
      BY <1>0, <2>1, MarkInUseUnambiguous
  <1>3. ASSUME NEW h \in handlers, FloodTimed(h)
        PROVE  TosOf(table'[n]) \subseteq TosOf(table[n])
    BY <1>0, <1>3 DEF FloodTimed, AddEntry, FromEntry, TosOf
  <1>4. ASSUME NEW h \in handlers, NEW a \in h.todo, ForwardFlood(h, a)
        PROVE  Unambiguous(table'[n])
    <2>1. h.id \in ConnId
      BY DEF SolicitedInv, TypeOK, Handler
    <2>k. PICK new \in OutgoingIds(table[h.node], h.id, a) :
             \E k \in ArrivalPorts(h.node, a, new) : Forwarded(h, a, new, k)
      BY <1>4, ForwardsOne
    <2>2. table' = [table EXCEPT ![h.node] = AddOutgoing(@, h.id, a, new)]
      BY <2>k DEF Forwarded
    <2>3. CASE n # h.node
      BY <1>0, <2>2, <2>3
    <2>4. CASE n = h.node
      BY <1>0, <2>1, <2>2, <2>4, OutgoingUnambiguous
    <2> QED
      BY <2>3, <2>4
  <1>5. ASSUME NEW r \in recoveries, RestoreAccept(r)
        PROVE  Unambiguous(table'[n])
    <2> DEFINE pick == [r.pick EXCEPT !.inUse = TRUE]
               T    == AddEntry(table[n], pick)
    <2>1. r.stage = "accept" /\ r.pick \in Entry(Ips) /\ r.pick.side = "from"
      <3>1. r \in Recovery /\ r.stage = "accept"
        BY <1>5 DEF RestoreAccept, SolicitedInv, TypeOK
      <3> QED
        BY <3>1 DEF Recovery, SolicitedInv, PicksAreSources
    <2>2. pick \in Entry(Ips) /\ pick.side = "from"
      BY <2>1 DEF Entry
    <2> HIDE DEF pick
    <2>3. \/ table'[n] = table[n]
          \/ \E S : table'[n] = MarkInUse(T, S)
      <3>1. table' = [table EXCEPT ![r.node] =
                         Reactivate(AddEntry(@, pick), r.key, r.dests)]
        BY <1>5 DEF RestoreAccept, pick
      <3>2. CASE n # r.node
        BY <1>0, <3>1, <3>2
      <3>3. CASE n = r.node
        <4>1. table'[n] = Reactivate(T, r.key, r.dests)
          BY <1>0, <3>1, <3>3
        <4> QED
          BY <4>1 DEF Reactivate
      <3> QED
        BY <3>2, <3>3
    <2>4. T \in SUBSET Entry(Ips) /\ TosOf(T) \subseteq TosOf(table[n])
      BY <1>0, <2>2, AddEntryIsTable DEF AddEntry, TosOf
    <2>5. Unambiguous(T)
      BY <1>0, <2>4 DEF Unambiguous
    <2> HIDE DEF T
    <2> QED
      BY <1>0, <2>3, <2>4, <2>5, MarkInUseUnambiguous
  <1>6. ASSUME \/ \E m \in net : HandleEndOfStream(m)
               \/ \E x \in Relays : \E a \in peers[x] :
                     ClientDeath(x, a) \/ ServerDeath(x, a) \/ RelayDeath(x, a)
               \/ TakesAway
        PROVE  table'[n] \subseteq table[n]
    BY <1>0, <1>6 DEF HandleEndOfStream, ClientDeath, ServerDeath, RelayDeath,
       TakesAway, TosOf
  <1>7. ASSUME table'[n] \subseteq table[n]
        PROVE  TosOf(table'[n]) \subseteq TosOf(table[n])
    BY <1>7 DEF TosOf
  <1>8. ASSUME \/ \E m \in net :
                     \/ HandleIWantStream(m) \/ HandleAcceptedAtServer(m)
                     \/ RefuseFlood(m) \/ StartFlood(m) \/ ReceiveOffer(m)
               \/ \E r \in recoveries : RestoreSource(r) \/ RestoreChoose(r)
               \/ \E p \in pending : AcceptOffer(p)
               \/ \E c : Ask(c) \/ EndStream(c) \/ Refresh(c)
               \/ UNCHANGED vars
        PROVE  table' = table
    BY <1>8 DEF HandleIWantStream, HandleAcceptedAtServer, RefuseFlood,
       StartFlood, ReceiveOffer, RestoreSource, RestoreChoose, AcceptOffer,
       Ask, EndStream, Refresh, vars, relayVars
  <1>9. ASSUME Step PROVE Unambiguous(table'[n])
    BY <1>0, <1>1, <1>2, <1>4, <1>5, <1>6, <1>7, <1>8, <1>9, <1>t, StopsTakeAway
    DEF Step
  <1>10. ASSUME Timed PROVE Unambiguous(table'[n])
    BY <1>1, <1>3, <1>10 DEF Timed
  <1>11. ASSUME Outside PROVE Unambiguous(table'[n])
    BY <1>0, <1>1, <1>6, <1>7, <1>8, <1>11, <1>t, StopsTakeAway DEF Outside
  <1> QED
    BY <1>0, <1>8, <1>9, <1>10, <1>11 DEF Next

\* Two receivers never share an identifier at a relay, however its floods
\* interleave and whatever the deaths of its neighbours and the ends of streams
\* have purged: the acceptance of a branch marks one receiver in use.
THEOREM OneReceiverAlways == Spec => []OneReceiver
  <1>1. Init => OneReceiver
    BY DEF Init, OneReceiver, TosOf
  <1>2. SolicitedInv /\ OneReceiver /\ [Next]_vars => OneReceiver'
    BY ReceiverStep
  <1> QED
    BY <1>1, <1>2, SolicitedInit, SolicitedStep, PTL DEF Spec
-----------------------------------------------------------------------------
(***************************************************************************)
(* The branches of a flood.  A relay records an outgoing entry before it   *)
(* sends a flood and an incoming one after it has timed it, and a branch   *)
(* goes on as a message, a goroutine, an entry or an offer to a client:    *)
(* each of them names a branch that its sender holds.                      *)
(*                                                                         *)
(* Two relays that are each started with the address of the other keep two *)
(* addresses of one host, and an entry that is made for one of them serves *)
(* for the floods to both: acceptances then come from an address that no   *)
(* entry has.                                                              *)
(***************************************************************************)
OneEnd ==
    \A x, y \in Relays : <<x, y>> \in Announces => <<y, x>> \notin Announces

\* The addresses relay n may come to know.
Known(n) ==
    {At(y) : y \in {y \in Relays \union {Server} : <<n, y>> \in Announces}}
    \union {[ip |-> y, port |-> 1] : y \in {y \in Relays : <<y, n>> \in Announces}}
    \union {At(c) : c \in Clients \union {NoClient}}

Holds(n, a, id) ==
    \E e \in TosOf(table[n]) :
        e.id = id /\ e.addr.ip = a.ip /\ (OneEnd => e.addr = a)

HasSource(n, id) == \E e \in FromsOf(table[n]) : e.id = id

\* The address x answers from what has come to it from address a.
Answers(x, a) == IF x \in Clients THEN At(x) ELSE Seen(x, a)

MessageHeld(m) ==
    /\ m.type = "ConnFlood" /\ m.from.ip \in Relays =>
          Holds(m.from.ip, Answers(m.dst, m.from), m.id)
    /\ m.type = "AcceptedConn" /\ m.dst \in Relays =>
          Holds(m.dst, m.from, m.id)

HandlerHeld(h) ==
    /\ h.from.ip \in Relays => Holds(h.from.ip, Seen(h.node, h.from), h.id)
    /\ h.stage = "forwarding" => HasSource(h.node, h.id)
    /\ h.todo \subseteq Known(h.node)

OfferHeld(p) == p.from.ip \in Relays => Holds(p.from.ip, At(p.client), p.id)

EntryHeld(n, e) ==
    /\ e.side = "from" /\ e.addr.ip \in Relays =>
          Holds(e.addr.ip, Seen(n, e.addr), e.id)
    /\ e.side = "to" => HasSource(n, Parent(e.id)) /\ e.addr \in Known(n)

BranchInv ==
    /\ Whole
    /\ \A n \in Relays : peers[n] \subseteq Known(n)
    /\ \A n \in Relays : \A e \in table[n] : EntryHeld(n, e)
    /\ \A m \in net : MessageHeld(m)
    /\ \A h \in handlers : HandlerHeld(h)
    /\ \A p \in pending : OfferHeld(p)

LEMMA HoldsKept ==
    ASSUME Whole, WholeStep, NEW n \in Relays
    PROVE  /\ \A a, id : Holds(n, a, id) => Holds(n, a, id)'
           /\ \A id : HasSource(n, id) => HasSource(n, id)'
  <1>1. \A e \in table[n] : \E f \in table'[n] : SameKey(e, f)
    BY TablesKept DEF Keeps
  <1> QED
    BY <1>1 DEF Holds, HasSource, TosOf, FromsOf, SameKey

\* A step preserves the invariant when all it adds names a branch that is held.
LEMMA BranchKept ==
    ASSUME BranchInv, TypeOK', WholeStep,
           \A n \in Relays : peers'[n] \subseteq Known(n),
           \A n \in Relays : \A e \in table'[n] :
               (\E f \in table[n] : SameKey(f, e)) \/ EntryHeld(n, e)',
           \A m \in net' : m \in net \/ MessageHeld(m)',
           \A h \in handlers' : h \in handlers \/ HandlerHeld(h)',
           \A p \in pending' : p \in pending \/ OfferHeld(p)'
    PROVE  BranchInv'
  <1>1. Whole'
    BY WholeKept DEF BranchInv
  <1>2. ASSUME NEW n \in Relays
        PROVE  /\ \A a, id : Holds(n, a, id) => Holds(n, a, id)'
               /\ \A id : HasSource(n, id) => HasSource(n, id)'
    BY HoldsKept DEF BranchInv
  <1>3. ASSUME NEW n \in Relays, NEW e \in table'[n]
        PROVE  EntryHeld(n, e)'
    <2>1. ASSUME NEW f \in table[n], SameKey(f, e)
          PROVE  EntryHeld(n, e)'
      BY <1>2, <2>1 DEF BranchInv, EntryHeld, SameKey
    <2> QED
      BY <2>1
  <1>4. ASSUME NEW m \in net' PROVE MessageHeld(m)'
    BY <1>2 DEF BranchInv, MessageHeld
  <1>5. ASSUME NEW h \in handlers' PROVE HandlerHeld(h)'
    <2>1. h.node \in Relays
      BY DEF TypeOK, Handler
    <2> QED
      BY <1>2, <2>1 DEF BranchInv, HandlerHeld
  <1>6. ASSUME NEW p \in pending' PROVE OfferHeld(p)'
    BY <1>2 DEF BranchInv, OfferHeld
  <1> QED
    BY <1>1, <1>3, <1>4, <1>5, <1>6 DEF BranchInv

\* Tables that do not change hold what they held.
LEMMA SameTables ==
    ASSUME BranchInv, TypeOK', WholeStep, UNCHANGED <<table, peers>>,
           \A m \in net' : m \in net \/ MessageHeld(m)',
           \A h \in handlers' : h \in handlers \/ HandlerHeld(h)',
           \A p \in pending' : p \in pending \/ OfferHeld(p)'
    PROVE  BranchInv'
  <1>1. \A n \in Relays : peers'[n] \subseteq Known(n)
    BY DEF BranchInv
  <1>2. \A n \in Relays : \A e \in table'[n] : \E f \in table[n] : SameKey(f, e)
    BY DEF SameKey
  <1> QED
    BY <1>1, <1>2, BranchKept

\* What comes from the server is held by no relay.
LEMMA HeldFromServer ==
    ASSUME NEW m, m.type = "ConnFlood", m.from = At(Server)
    PROVE  MessageHeld(m)'
  BY HostsAssumption DEF MessageHeld, At

LEMMA BranchServer ==
    ASSUME BranchInv, TypeOK', WholeStep,
           \/ \E m \in net : \/ HandleIWantStream(m) \/ HandleAcceptedAtServer(m)
                             \/ RefuseFlood(m)
           \/ \E c \in Contents : Refresh(c)
           \/ \E c \in Clients : Ask(c)
           \/ UNCHANGED vars
    PROVE  BranchInv'
  <1>1. ASSUME NEW m \in net', m \notin net
        PROVE  \/ m.type = "ConnFlood" /\ m.from = At(Server)
               \/ m.type = "IWantStream"
    <2>1. CASE \E x \in net : HandleIWantStream(x)
      BY <1>1, <2>1 DEF HandleIWantStream, Reaching, FloodMsg
    <2>2. CASE \E c \in Contents : Refresh(c)
      BY <1>1, <2>2 DEF Refresh, RefreshFloods, Reaching, FloodMsg
    <2>3. CASE \E c \in Clients : Ask(c)
      BY <1>1, <2>3 DEF Ask, Reaching
    <2> QED
      BY <1>1, <2>1, <2>2, <2>3 DEF HandleAcceptedAtServer, RefuseFlood, vars
  <1>2. \A m \in net' : m \in net \/ MessageHeld(m)'
    BY <1>1, HeldFromServer DEF MessageHeld
  <1>3. UNCHANGED <<table, peers, handlers, pending>>
    BY DEF HandleIWantStream, HandleAcceptedAtServer, RefuseFlood, Refresh,
       Ask, vars, relayVars, clientVars
  <1> QED
    BY <1>2, <1>3, SameTables

LEMMA BranchStartFlood ==
    ASSUME BranchInv, TypeOK', WholeStep, NEW m \in net, StartFlood(m)
    PROVE  BranchInv'
  <1>1. /\ m.type = "ConnFlood" /\ m.dst \in Relays
        /\ UNCHANGED <<table, peers, pending>> /\ net' \subseteq net
    BY DEF StartFlood, clientVars
  <1>2. m.from.ip \in Relays => Holds(m.from.ip, Seen(m.dst, m.from), m.id)'
    <2>1. Answers(m.dst, m.from) = Seen(m.dst, m.from)
      BY <1>1, HostsAssumption DEF Answers
    <2> QED
      BY <1>1, <2>1, HoldsKept DEF BranchInv, MessageHeld
  <1>3. ASSUME NEW h \in handlers', h \notin handlers
        PROVE  HandlerHeld(h)'
    <2>1. /\ h.node = m.dst /\ h.from = m.from /\ h.id = m.id
          /\ h.stage = "timing" /\ h.todo = {}
      BY <1>3, StartedHandler
    <2> QED
      BY <1>2, <2>1 DEF HandlerHeld, Holds
  <1> QED
    BY <1>1, <1>3, SameTables

LEMMA BranchReceiveOffer ==
    ASSUME BranchInv, TypeOK', WholeStep, NEW m \in net, ReceiveOffer(m)
    PROVE  BranchInv'
  <1>1. /\ m.type = "ConnFlood" /\ m.dst \in Clients
        /\ UNCHANGED <<table, peers, handlers>> /\ net' \subseteq net
    BY DEF ReceiveOffer, relayVars
  <1>2. m.from.ip \in Relays => Holds(m.from.ip, At(m.dst), m.id)'
    <2>1. Answers(m.dst, m.from) = At(m.dst)
      BY <1>1 DEF Answers
    <2> QED
      BY <1>1, <2>1, HoldsKept DEF BranchInv, MessageHeld
  <1>3. ASSUME NEW p \in pending', p \notin pending
        PROVE  OfferHeld(p)'
    <2>1. p.client = m.dst /\ p.from = m.from /\ p.id = m.id
      BY <1>3 DEF ReceiveOffer
    <2> QED
      BY <1>2, <2>1 DEF OfferHeld, Holds
  <1> QED
    BY <1>1, <1>3, SameTables

LEMMA BranchAcceptOffer ==
    ASSUME BranchInv, TypeOK', WholeStep, NEW p \in pending, AcceptOffer(p)
    PROVE  BranchInv'
  <1>1. /\ UNCHANGED <<table, peers, handlers>> /\ pending' \subseteq pending
    BY DEF AcceptOffer, relayVars
  <1>2. p.from.ip \in Relays => Holds(p.from.ip, At(p.client), p.id)'
    BY HoldsKept DEF BranchInv, OfferHeld
  <1>3. ASSUME NEW m \in net', m \notin net
        PROVE  MessageHeld(m)'
    <2>1. /\ m.type = "AcceptedConn" /\ m.dst = p.from.ip
          /\ m.from = At(p.client) /\ m.id = p.id
      BY <1>3 DEF AcceptOffer, Reaching, AcceptedMsg
    <2> QED
      BY <1>2, <2>1 DEF MessageHeld, Holds
  <1> QED
    BY <1>1, <1>3, SameTables

\* An acceptance goes on along branches that the relays upstream hold.
LEMMA BranchAcceptedConn ==
    ASSUME BranchInv, TypeOK', WholeStep, NEW m \in net, HandleAcceptedConn(m)
    PROVE  BranchInv'
  <1> DEFINE up == Upstreams(table[m.dst], m.id)
  <1>1. /\ m.dst \in Relays /\ table \in [Relays -> SUBSET Entry(Ips)]
        /\ UNCHANGED <<peers, handlers, pending>>
    BY DEF HandleAcceptedConn, BranchInv, Whole, TypeOK, clientVars
  <1>2. ASSUME NEW n \in Relays, NEW e \in table'[n]
        PROVE  \E f \in table[n] : SameKey(f, e)
    <2>1. CASE n # m.dst
      BY <1>1, <2>1 DEF HandleAcceptedConn, SameKey
    <2>2. CASE n = m.dst
      <3>1. \E S : table'[n] = MarkInUse(table[n], S)
        BY <1>1, <2>2 DEF HandleAcceptedConn, Accept
      <3> QED
        BY <1>1, <3>1, MarkInUseEntry
    <2> QED
      BY <2>1, <2>2
  <1>3. ASSUME NEW x \in net', x \notin net
        PROVE  MessageHeld(x)'
    <2>1. PICK e \in up : x = AcceptedMsg(e.addr.ip, Seen(m.dst, e.addr), e.id)
      <3>1. net' = (net \ {m}) \union Reaching(
               {AcceptedMsg(e.addr.ip, Seen(m.dst, e.addr), e.id) : e \in up})
        BY DEF HandleAcceptedConn
      <3> HIDE DEF up
      <3> QED
        BY <1>3, <3>1 DEF Reaching
    <2>2. /\ x.type = "AcceptedConn" /\ x.dst = e.addr.ip
          /\ x.from = Seen(m.dst, e.addr) /\ x.id = e.id
      BY <2>1 DEF AcceptedMsg
    <2>3. e \in table[m.dst] /\ e.side = "from"
      BY DEF Upstreams, FromsOf
    <2>4. e.addr.ip \in Relays => Holds(e.addr.ip, Seen(m.dst, e.addr), e.id)
      BY <1>1, <2>3 DEF BranchInv, EntryHeld
    <2>5. e.addr.ip \in Relays => Holds(e.addr.ip, Seen(m.dst, e.addr), e.id)'
      BY <2>4, HoldsKept DEF BranchInv
    <2> QED
      BY <2>2, <2>5 DEF MessageHeld, Holds
  <1>4. \A n \in Relays : peers'[n] \subseteq Known(n)
    BY <1>1 DEF BranchInv
  <1> QED
    BY <1>1, <1>2, <1>3, <1>4, BranchKept

LEMMA BranchFloodTimed ==
    ASSUME BranchInv, TypeOK', WholeStep, NEW h \in handlers, FloodTimed(h)
    PROVE  BranchInv'
  <1> DEFINE in   == FromEntry(h.from, h.id, FALSE)
             next == [h EXCEPT !.stage = "forwarding", !.todo = Targets(h)]
  <1>1. /\ h \in Handler /\ h.node \in Relays
        /\ h.client \in Clients \union {NoClient}
        /\ table \in [Relays -> SUBSET Entry(Ips)]
        /\ peers \in [Relays -> SUBSET Addr(Ips)]
        /\ UNCHANGED <<net, pending>>
    BY DEF FloodTimed, BranchInv, Whole, TypeOK, Handler, clientVars
  <1>2. At(h.client) \in Known(h.node)
    BY <1>1 DEF Known
  <1>3. Targets(h) \subseteq Known(h.node)
    BY <1>1, <1>2 DEF Targets, BranchInv
  <1>4. ASSUME NEW n \in Relays
        PROVE  peers'[n] \subseteq Known(n)
    <2>1. peers'[n] = peers[n] \/ (n = h.node /\ peers'[n] = peers[n] \union {At(h.client)})
      BY <1>1 DEF FloodTimed
    <2> QED
      BY <1>2, <2>1 DEF BranchInv
  <1>5. h.from.ip \in Relays => Holds(h.from.ip, Seen(h.node, h.from), h.id)'
    BY HoldsKept DEF BranchInv, HandlerHeld
  <1>6. in.side = "from" /\ in.addr = h.from /\ in.id = h.id
    BY DEF FromEntry
  <1>7. table' = [table EXCEPT ![h.node] = AddEntry(@, in)]
    BY DEF FloodTimed
  <1>8. handlers' = Advance(h, next)
    BY DEF FloodTimed
  <1>9. /\ next.node = h.node /\ next.id = h.id /\ next.from = h.from
        /\ next.stage = "forwarding" /\ next.todo = Targets(h)
    BY <1>1 DEF Handler
  <1> HIDE DEF in, next
  <1>10. ASSUME NEW n \in Relays, NEW e \in table'[n]
         PROVE  (\E f \in table[n] : SameKey(f, e)) \/ EntryHeld(n, e)'
    <2>1. e \in table[n] \/ (n = h.node /\ e = in)
      BY <1>1, <1>7 DEF AddEntry
    <2>2. CASE e \in table[n]
      BY <2>2 DEF SameKey
    <2>3. CASE n = h.node /\ e = in
      BY <1>5, <1>6, <2>3 DEF EntryHeld, Holds
    <2> QED
      BY <2>1, <2>2, <2>3
  <1>11. HasSource(h.node, h.id)'
    <2>1. in \in table'[h.node]
      BY <1>1, <1>7 DEF AddEntry
    <2> QED
      BY <1>6, <2>1 DEF HasSource, FromsOf
  <1>12. ASSUME NEW g \in handlers', g \notin handlers
         PROVE  HandlerHeld(g)'
    <2>1. g = next
      BY <1>8, <1>12 DEF Advance
    <2> QED
      BY <1>3, <1>5, <1>9, <1>11, <2>1 DEF HandlerHeld, Holds, HasSource
  <1> QED
    BY <1>1, <1>4, <1>10, <1>12, BranchKept

LEMMA KnownAddress ==
    ASSUME NEW n \in Relays, NEW a \in Known(n)
    PROVE  \/ /\ a = [ip |-> a.ip, port |-> 0] /\ a.port = 0
              /\ a.ip \in Relays => <<n, a.ip>> \in Announces
           \/ /\ a = [ip |-> a.ip, port |-> 1] /\ a.port = 1
              /\ a.ip \in Relays /\ <<a.ip, n>> \in Announces
  <1>1. \/ \E y \in Relays \union {Server} : a = At(y) /\ <<n, y>> \in Announces
        \/ \E y \in Relays : a = [ip |-> y, port |-> 1] /\ <<y, n>> \in Announces
        \/ \E c \in Clients \union {NoClient} : a = At(c)
    BY DEF Known
  <1>2. ASSUME NEW y \in Relays \union {Server}, a = At(y), <<n, y>> \in Announces
        PROVE  /\ a = [ip |-> a.ip, port |-> 0] /\ a.port = 0
               /\ a.ip \in Relays => <<n, a.ip>> \in Announces
    <2>1. a = [ip |-> y, port |-> 0]
      BY <1>2 DEF At
    <2>2. a.ip = y /\ a.port = 0
      BY <2>1
    <2> QED
      BY <1>2, <2>1, <2>2
  <1>3. ASSUME NEW y \in Relays, a = [ip |-> y, port |-> 1], <<y, n>> \in Announces
        PROVE  /\ a = [ip |-> a.ip, port |-> 1] /\ a.port = 1
               /\ a.ip \in Relays /\ <<a.ip, n>> \in Announces
    <2>1. a.ip = y /\ a.port = 1
      BY <1>3
    <2> QED
      BY <1>3, <2>1
  <1>4. ASSUME NEW c \in Clients \union {NoClient}, a = At(c)
        PROVE  /\ a = [ip |-> a.ip, port |-> 0] /\ a.port = 0
               /\ a.ip \notin Relays
    <2>1. a = [ip |-> c, port |-> 0]
      BY <1>4 DEF At
    <2>2. a.ip = c /\ a.port = 0
      BY <2>1
    <2> QED
      BY <1>4, <2>1, <2>2, HostsAssumption
  <1> QED
    BY <1>1, <1>2, <1>3, <1>4

LEMMA OneAddress ==
    ASSUME OneEnd, NEW n \in Relays, NEW a \in Known(n), NEW b \in Known(n),
           a.ip = b.ip
    PROVE  a = b
  <1>1. \/ /\ a = [ip |-> a.ip, port |-> 0]
           /\ a.ip \in Relays => <<n, a.ip>> \in Announces
        \/ /\ a = [ip |-> a.ip, port |-> 1]
           /\ a.ip \in Relays /\ <<a.ip, n>> \in Announces
    BY KnownAddress
  <1>2. \/ /\ b = [ip |-> b.ip, port |-> 0]
           /\ b.ip \in Relays => <<n, b.ip>> \in Announces
        \/ /\ b = [ip |-> b.ip, port |-> 1]
           /\ b.ip \in Relays /\ <<b.ip, n>> \in Announces
    BY KnownAddress
  <1>3. a.ip \in Relays => ~(<<n, a.ip>> \in Announces /\ <<a.ip, n>> \in Announces)
    BY DEF OneEnd
  <1> QED
    BY <1>1, <1>2, <1>3

\* Whoever is sent a flood answers to the address it was sent to, from the
\* known connection or from a new one.
LEMMA AnswerIsKnown ==
    ASSUME NEW n \in Relays, NEW a \in Known(n), NEW id,
           NEW k \in ArrivalPorts(n, a, id), a.ip \in Relays \union Clients
    PROVE  Answers(a.ip, [ip |-> n, port |-> k]) = a
  <1>1. \/ a = [ip |-> a.ip, port |-> 0] /\ a.port = 0
        \/ a = [ip |-> a.ip, port |-> 1] /\ a.port = 1 /\ a.ip \in Relays
    BY KnownAddress
  <1>2. CASE a.ip \in Clients
    BY <1>1, <1>2, HostsAssumption DEF Answers, At
  <1>3. CASE a.ip \in Relays
    <2>1. a.port = 0 => k # 0
      BY <1>3, SetupAssumption DEF ArrivalPorts
    <2>2. a.port # 0 => k = 0
      BY DEF ArrivalPorts
    <2>3. Answers(a.ip, [ip |-> n, port |-> k]) =
             [ip |-> a.ip, port |-> IF k = 0 THEN 1 ELSE 0]
      BY <1>3, HostsAssumption DEF Answers, Seen
    <2> QED
      BY <1>1, <2>1, <2>2, <2>3
  <1> QED
    BY <1>2, <1>3

LEMMA BranchForwardFlood ==
    ASSUME BranchInv, TypeOK', WholeStep, NEW h \in handlers, NEW a \in h.todo,
           ForwardFlood(h, a)
    PROVE  BranchInv'
  <1>1. /\ h \in Handler /\ h.node \in Relays /\ h.id \in ConnId
        /\ a.ip \in Ips \ {Server}
        /\ table \in [Relays -> SUBSET Entry(Ips)]
        /\ h.stage = "forwarding"
        /\ UNCHANGED <<peers, pending, alive>>
    BY DEF ForwardFlood, BranchInv, Whole, TypeOK, Handler, Addr, clientVars
  <1> DEFINE n == h.node
  <1>2. a \in Known(n) /\ HasSource(n, h.id)
    BY <1>1 DEF BranchInv, HandlerHeld
  <1>3. PICK new \in OutgoingIds(table[n], h.id, a) :
           \E k \in ArrivalPorts(n, a, new) : Forwarded(h, a, new, k)
    BY ForwardsOne
  <1>4. PICK k \in ArrivalPorts(n, a, new) : Forwarded(h, a, new, k)
    BY <1>3
  <1>5. table' = [table EXCEPT ![n] = AddOutgoing(@, h.id, a, new)]
    BY <1>4 DEF Forwarded
  <1>6. /\ Parent(new) = h.id
        /\ \E e \in TosOf(table'[n]) : e.id = new /\ e.addr.ip = a.ip
    BY <1>1, <1>5, OutgoingIdGrows
  <1>7. ASSUME NEW x \in Relays, NEW e \in table'[x]
        PROVE  \/ e \in table[x]
               \/ x = n /\ e = ToEntry(a, new, FALSE)
    BY <1>1, <1>5 DEF AddOutgoing
  <1>8. ASSUME NEW x \in Relays, NEW e \in table'[x]
        PROVE  (\E f \in table[x] : SameKey(f, e)) \/ EntryHeld(x, e)'
    <2>1. CASE e \in table[x]
      BY <2>1 DEF SameKey
    <2>2. CASE x = n /\ e = ToEntry(a, new, FALSE)
      <3>1. e.side = "to" /\ e.addr = a /\ e.id = new
        BY <2>2 DEF ToEntry
      <3>2. HasSource(n, Parent(new))'
        BY <1>1, <1>2, <1>6, HoldsKept DEF BranchInv
      <3> QED
        BY <1>2, <2>2, <3>1, <3>2 DEF EntryHeld, HasSource
    <2> QED
      BY <1>7, <2>1, <2>2
  <1>9. Holds(n, a, new)'
    <2>1. PICK e \in TosOf(table'[n]) : e.id = new /\ e.addr.ip = a.ip
      BY <1>6
    <2>2. e.addr \in Known(n)
      <3>1. e \in table'[n] /\ e.side = "to"
        BY DEF TosOf
      <3>2. CASE e \in table[n]
        BY <1>1, <3>1, <3>2 DEF BranchInv, EntryHeld
      <3>3. CASE e = ToEntry(a, new, FALSE)
        BY <1>2, <3>3 DEF ToEntry
      <3> QED
        BY <1>1, <1>7, <3>1, <3>2, <3>3
    <2>3. OneEnd => e.addr = a
      BY <1>1, <1>2, <2>1, <2>2, OneAddress
    <2> QED
      BY <2>1, <2>3 DEF Holds
  <1>10. ASSUME NEW m \in net', m \notin net
         PROVE  MessageHeld(m)'
    <2>1. /\ m.type = "ConnFlood" /\ m.dst = a.ip /\ m.dst \in alive
          /\ m.from = [ip |-> n, port |-> k] /\ m.id = new
      BY <1>4, <1>10 DEF Forwarded
    <2>2. a.ip \in Relays \union Clients
      BY <1>1, <2>1 DEF BranchInv, Whole, Hosts
    <2>3. Answers(m.dst, m.from) = a
      BY <1>1, <1>2, <2>1, <2>2, AnswerIsKnown
    <2> QED
      BY <1>9, <2>1, <2>3 DEF MessageHeld, Holds
  <1>11. ASSUME NEW g \in handlers', g \notin handlers
         PROVE  HandlerHeld(g)'
    <2>1. g = [h EXCEPT !.todo = @ \ {a}]
      BY <1>11 DEF ForwardFlood, Advance
    <2>2. /\ g.node = h.node /\ g.id = h.id /\ g.from = h.from
          /\ g.stage = h.stage /\ g.todo \subseteq h.todo
      BY <1>1, <2>1 DEF Handler
    <2>3. /\ h.from.ip \in Relays => Holds(h.from.ip, Seen(h.node, h.from), h.id)'
          /\ HasSource(h.node, h.id)'
      BY <1>1, <1>2, HoldsKept DEF BranchInv, HandlerHeld
    <2> QED
      BY <2>2, <2>3 DEF HandlerHeld, BranchInv, Holds, HasSource
  <1>12. \A x \in Relays : peers'[x] \subseteq Known(x)
    BY <1>1 DEF BranchInv
  <1> QED
    BY <1>1, <1>8, <1>10, <1>11, <1>12, BranchKept

LEMMA BranchInit == Init => BranchInv
  <1> SUFFICES ASSUME Init PROVE BranchInv
    OBVIOUS
  <1>1. \A n \in Relays : peers[n] \subseteq Known(n)
    BY DEF Init, Known
  <1> QED
    BY <1>1, WholeInit DEF Init, BranchInv

LEMMA BranchStep ==
    ASSUME NoFaults, BranchInv, [Next]_vars
    PROVE  BranchInv' /\ TypeOK' /\ WholeStep
  <1>1. TypeOK' /\ WholeStep
    BY TypeStep, OnlyWholeSteps DEF BranchInv, Whole
  <1>2. BranchInv'
    BY <1>1, BranchServer, BranchStartFlood, BranchReceiveOffer,
       BranchAcceptOffer, BranchAcceptedConn, BranchFloodTimed,
       BranchForwardFlood DEF WholeStep
  <1> QED
    BY <1>1, <1>2

\* Where no process stops and no content ends, a relay that has recorded where
\* a branch comes from finds the same branch recorded there as going to it:
\* the entry is made before the flood is sent, and stays.
THEOREM BranchHeldUpstreamAlways == NoFaults => (Spec => []BranchHeldUpstream)
  <1> SUFFICES ASSUME NoFaults PROVE Spec => []BranchHeldUpstream
    OBVIOUS
  <1>1. BranchInv /\ [Next]_vars => BranchInv'
    BY BranchStep
  <1>2. BranchInv => BranchHeldUpstream
    <2> SUFFICES ASSUME BranchInv, NEW n \in Relays, NEW e \in FromsOf(table[n]),
                        e.addr.ip \in Relays
                 PROVE  \E f \in TosOf(table[e.addr.ip]) :
                           f.addr.ip = n /\ f.id = e.id
      BY DEF BranchHeldUpstream
    <2>1. e \in table[n] /\ e.side = "from"
      BY DEF FromsOf
    <2>2. Holds(e.addr.ip, Seen(n, e.addr), e.id)
      BY <2>1 DEF BranchInv, EntryHeld
    <2> QED
      BY <2>2, Addresses DEF Holds
  <1> QED
    BY BranchInit, <1>1, <1>2, PTL DEF Spec

\* If, besides, no two relays are each started with the address of the other,
\* an acceptance on its way to a relay finds there the outgoing entry that it
\* names, with the address it comes from, and an incoming one to go on along.
THEOREM AcceptanceFindsBranchAlways ==
    NoFaults /\ OneEnd => (Spec => []AcceptanceFindsBranch)
  <1> SUFFICES ASSUME NoFaults, OneEnd PROVE Spec => []AcceptanceFindsBranch
    OBVIOUS
  <1>1. BranchInv /\ [Next]_vars => BranchInv'
    BY BranchStep
  <1>2. BranchInv => AcceptanceFindsBranch
    <2> SUFFICES ASSUME BranchInv, NEW m \in net, m.type = "AcceptedConn",
                        m.dst \in Relays
                 PROVE  /\ \E e \in TosOf(table[m.dst]) : e.id = m.id /\ e.addr = m.from
                        /\ \E e \in FromsOf(table[m.dst]) : e.id = Parent(m.id)
      BY DEF AcceptanceFindsBranch
    <2>1. PICK e \in TosOf(table[m.dst]) : e.id = m.id /\ e.addr = m.from
      BY DEF BranchInv, MessageHeld, Holds
    <2>2. HasSource(m.dst, Parent(m.id))
      BY <2>1 DEF BranchInv, EntryHeld, TosOf
    <2> QED
      BY <2>1, <2>2 DEF HasSource
  <1> QED
    BY BranchInit, <1>1, <1>2, PTL DEF Spec
-----------------------------------------------------------------------------
(***************************************************************************)
(* BranchesFed: every link of the chain from a client to the server is in  *)
(* use, or the acceptance that marks it is on its way and finds it.        *)
(***************************************************************************)
LEMMA InUseEntry ==
    ASSUME NEW e \in Entry(Ips), e.side = "to", e.inUse
    PROVE  e = ToEntry(e.addr, e.id, TRUE)
  <1>1. e.inUse = TRUE
    BY DEF Entry
  <1> QED
    BY <1>1 DEF Entry, ToEntry

\* An acceptance that is taken is taken as one.
LEMMA TakenAcceptance ==
    ASSUME WholeStep, NEW m \in net, m.type = "AcceptedConn", m \notin net'
    PROVE  HandleAcceptedAtServer(m) \/ HandleAcceptedConn(m)
  <1>1. ASSUME NEW x \in net, HandleIWantStream(x) PROVE FALSE
    BY <1>1 DEF HandleIWantStream, Inbox
  <1>2. ASSUME NEW x \in net, HandleAcceptedAtServer(x) PROVE x = m
    BY <1>2 DEF HandleAcceptedAtServer
  <1>3. ASSUME NEW x \in net, RefuseFlood(x) \/ StartFlood(x) \/ ReceiveOffer(x)
        PROVE  FALSE
    BY <1>3 DEF RefuseFlood, StartFlood, ReceiveOffer
  <1>4. ASSUME NEW x \in net, HandleAcceptedConn(x) PROVE x = m
    BY <1>4 DEF HandleAcceptedConn
  <1>5. ASSUME NEW h \in handlers, NEW a, ForwardFlood(h, a) PROVE FALSE
    BY <1>5 DEF ForwardFlood
  <1> QED
    BY <1>1, <1>2, <1>3, <1>4, <1>5
    DEF WholeStep, FloodTimed, AcceptOffer, Ask, Refresh, vars

\* An acceptance marks the branch it names, which is there.
LEMMA AcceptanceMarks ==
    ASSUME OneEnd, BranchInv, NEW m \in net, HandleAcceptedConn(m)
    PROVE  ToEntry(m.from, m.id, TRUE) \in table'[m.dst]
  <1>1. /\ m.type = "AcceptedConn" /\ m.dst \in Relays
        /\ table \in [Relays -> SUBSET Entry(Ips)]
    BY DEF HandleAcceptedConn, BranchInv, Whole, TypeOK
  <1>2. PICK e \in TosOf(table[m.dst]) : e.id = m.id /\ e.addr = m.from
    BY <1>1 DEF BranchInv, MessageHeld, Holds
  <1> DEFINE S == Upstreams(table[m.dst], m.id) \union
                  {x \in TosOf(table[m.dst]) : x.id = m.id /\ x.addr = m.from}
             g == [e EXCEPT !.inUse = @ \/ e \in S]
  <1>3. table'[m.dst] = MarkInUse(table[m.dst], S)
    BY <1>1 DEF HandleAcceptedConn, Accept
  <1>4. e \in S /\ e \in table[m.dst] /\ e.side = "to" /\ e \in Entry(Ips)
    BY <1>1, <1>2 DEF TosOf
  <1> HIDE DEF S
  <1>5. g \in table'[m.dst]
    BY <1>3, <1>4 DEF MarkInUse
  <1>6. /\ g \in Entry(Ips) /\ g.side = "to" /\ g.inUse
        /\ g.addr = m.from /\ g.id = m.id
    BY <1>2, <1>4 DEF Entry
  <1> QED
    BY <1>5, <1>6, InUseEntry

LEMMA FedOnKept ==
    ASSUME OneEnd, BranchInv, WholeStep, NEW n \in Relays, NEW f, FedOn(n, f)
    PROVE  FedOn(n, f)'
  <1> DEFINE m == AcceptedMsg(f.addr.ip, Seen(n, f.addr), f.id)
  <1>0. /\ m.type = "AcceptedConn" /\ m.dst = f.addr.ip /\ m.id = f.id
        /\ m.from = Seen(n, f.addr) /\ m.from.ip = n
    BY Addresses DEF AcceptedMsg
  <1>1. CASE m \in net
    <2> HIDE DEF m
    <2>1. CASE m \in net'
      BY <2>1 DEF FedOn, m
    <2>2. CASE HandleAcceptedAtServer(m)
      <3>1. f.addr.ip = Server /\ [to |-> n, id |-> f.id] \in routes'
        BY <1>0, <2>2 DEF HandleAcceptedAtServer, Inbox
      <3> QED
        BY <3>1 DEF FedOn
    <2>3. CASE HandleAcceptedConn(m)
      <3>1. m.dst \in Relays
        BY <2>3 DEF HandleAcceptedConn
      <3>2. ToEntry(m.from, m.id, TRUE) \in table'[m.dst]
        BY <1>1, <2>3, AcceptanceMarks
      <3> QED
        BY <1>0, <3>1, <3>2 DEF FedOn
    <2> QED
      BY <1>0, <1>1, <2>1, <2>2, <2>3, TakenAcceptance
  <1>2. CASE f.addr.ip = Server /\ [to |-> n, id |-> f.id] \in routes
    <2>1. routes \subseteq routes'
      BY DEF WholeStep, HandleIWantStream, HandleAcceptedAtServer, RefuseFlood,
         StartFlood, HandleAcceptedConn, ReceiveOffer, FloodTimed, ForwardFlood,
         AcceptOffer, Ask, Refresh, vars, serverVars
    <2> QED
      BY <1>2, <2>1 DEF FedOn
  <1>3. CASE /\ f.addr.ip \in Relays
             /\ ToEntry(Seen(n, f.addr), f.id, TRUE) \in table[f.addr.ip]
    BY <1>3, TablesKept DEF FedOn, Keeps, BranchInv
  <1> QED
    BY <1>1, <1>2, <1>3 DEF FedOn

\* An outgoing entry in use was in use or has just been accepted.
LEMMA InUseSince ==
    ASSUME BranchInv, WholeStep, NEW n \in Relays, NEW e \in TosOf(table'[n]), e.inUse
    PROVE  \/ \E f \in TosOf(table[n]) : f.inUse /\ f.id = e.id
           \/ \E m \in net : /\ HandleAcceptedConn(m)
                             /\ m.dst = n /\ m.id = e.id
  <1>0. table \in [Relays -> SUBSET Entry(Ips)] /\ table[n] \in SUBSET Entry(Ips)
    BY DEF BranchInv, Whole, TypeOK
  <1>1. ASSUME NEW m \in net, HandleAcceptedConn(m), n = m.dst
        PROVE  (\E f \in TosOf(table[n]) : f.inUse /\ f.id = e.id) \/ m.id = e.id
    <2> DEFINE to == {x \in TosOf(table[n]) : x.id = m.id /\ x.addr = m.from}
               S  == Upstreams(table[n], m.id) \union to
    <2>1. table'[n] = MarkInUse(table[n], S)
      BY <1>0, <1>1 DEF HandleAcceptedConn, Accept
    <2>2. \A x \in S : x \in TosOf(table[n]) => x.id = m.id
      BY DEF Upstreams, FromsOf, TosOf
    <2> HIDE DEF S
    <2>3. \E f \in TosOf(table[n]) : /\ f.addr = e.addr /\ f.id = e.id
                                     /\ f.inUse \/ f \in S
      BY <1>0, <2>1, MarkedTo
    <2> QED
      BY <2>2, <2>3
  <1>2. ASSUME NEW m \in net, HandleAcceptedConn(m), n # m.dst
        PROVE  e \in TosOf(table[n])
    BY <1>0, <1>2 DEF HandleAcceptedConn, TosOf
  <1>3. ASSUME NEW h \in handlers, FloodTimed(h)
        PROVE  e \in TosOf(table[n])
    BY <1>0, <1>3 DEF FloodTimed, AddEntry, FromEntry, TosOf
  <1>4. ASSUME NEW h \in handlers, NEW a \in h.todo, ForwardFlood(h, a)
        PROVE  e \in TosOf(table[n])
    BY <1>0, <1>4 DEF ForwardFlood, AddOutgoing, ToEntry, TosOf
  <1> QED
    BY <1>1, <1>2, <1>3, <1>4
    DEF WholeStep, HandleIWantStream, HandleAcceptedAtServer, RefuseFlood,
        StartFlood, ReceiveOffer, AcceptOffer, Ask, Refresh, vars, relayVars

\* The relay that is fed has a source that feeds it or is asked to.
SourceFeeds(n, id) == \E f \in FromsOf(table[n]) : f.id = id /\ FedOn(n, f)

LEMMA SourceKept ==
    ASSUME BranchInv, WholeStep, NEW n \in Relays, NEW f \in FromsOf(table[n]),
           FedOn(n, f)'
    PROVE  SourceFeeds(n, f.id)'
  <1>1. PICK g \in table'[n] : SameKey(f, g)
    BY TablesKept DEF Keeps, FromsOf, BranchInv
  <1>2. g \in FromsOf(table'[n]) /\ g.addr = f.addr /\ g.id = f.id
    BY <1>1 DEF SameKey, FromsOf
  <1>3. FedOn(n, g)'
    BY <1>2 DEF FedOn
  <1> QED
    BY <1>2, <1>3 DEF SourceFeeds

\* An acceptance goes on to the source of the branch it names.
LEMMA AcceptanceGoesOn ==
    ASSUME BranchInv, DemandInv, WholeStep, NEW m \in net, HandleAcceptedConn(m),
           HasSource(m.dst, Parent(m.id))
    PROVE  SourceFeeds(m.dst, Parent(m.id))'
  <1> DEFINE up == Upstreams(table[m.dst], m.id)
  <1>1. /\ m.dst \in Relays /\ m.type = "AcceptedConn" /\ m.id \in ConnId
        /\ alive = Hosts
    BY MessageKinds DEF HandleAcceptedConn, BranchInv, Whole, TypeOK, Accepted
  <1>2. PICK f \in FromsOf(table[m.dst]) : f.id = Parent(m.id)
    BY DEF HasSource
  <1>3. f \in up
    BY <1>1, <1>2, PrefixParent DEF Upstreams
  <1>4. f.addr.ip \in alive
    <2>1. f.addr.ip \in Sources
      BY <1>1, <1>2 DEF DemandInv, EntryInDemand, FromsOf
    <2> QED
      BY <1>1, <2>1 DEF Sources, Hosts
  <1>5. AcceptedMsg(f.addr.ip, Seen(m.dst, f.addr), f.id) \in net'
    <2>1. net' = (net \ {m}) \union Reaching(
             {AcceptedMsg(e.addr.ip, Seen(m.dst, e.addr), e.id) : e \in up})
      BY DEF HandleAcceptedConn
    <2>2. AcceptedMsg(f.addr.ip, Seen(m.dst, f.addr), f.id).dst \in alive
      BY <1>4 DEF AcceptedMsg
    <2> HIDE DEF up
    <2> QED
      BY <1>3, <2>1, <2>2 DEF Reaching
  <1>6. FedOn(m.dst, f)'
    BY <1>5 DEF FedOn
  <1> QED
    BY <1>1, <1>2, <1>6, SourceKept

LEMMA ClientStaysFed ==
    ASSUME OneEnd, BranchInv, WholeStep, NEW c, NEW n \in Relays,
           \/ \E m \in Inbox(n, "AcceptedConn") : m.from.ip = c
           \/ \E e \in TosOf(table[n]) : e.inUse /\ e.addr.ip = c
    PROVE  \/ \E m \in Inbox(n, "AcceptedConn")' : m.from.ip = c
           \/ \E e \in TosOf(table'[n]) : e.inUse /\ e.addr.ip = c
  <1>1. ASSUME NEW a, NEW id, a.ip = c, ToEntry(a, id, TRUE) \in table'[n]
        PROVE  \E e \in TosOf(table'[n]) : e.inUse /\ e.addr.ip = c
    BY <1>1 DEF ToEntry, TosOf
  <1>2. ASSUME NEW m \in Inbox(n, "AcceptedConn"), m.from.ip = c
        PROVE  \/ m \in Inbox(n, "AcceptedConn")'
               \/ \E e \in TosOf(table'[n]) : e.inUse /\ e.addr.ip = c
    <2>1. m \in net /\ m.dst = n /\ m.type = "AcceptedConn"
      BY DEF Inbox
    <2>2. CASE m \in net'
      BY <2>1, <2>2 DEF Inbox
    <2>3. CASE m \notin net'
      <3>1. HandleAcceptedConn(m)
        BY <2>1, <2>3, TakenAcceptance, HostsAssumption
        DEF HandleAcceptedAtServer, Inbox
      <3>2. ToEntry(m.from, m.id, TRUE) \in table'[n]
        BY <2>1, <3>1, AcceptanceMarks
      <3> QED
        BY <1>1, <1>2, <3>2
    <2> QED
      BY <2>2, <2>3
  <1>3. ASSUME NEW e \in TosOf(table[n]), e.inUse, e.addr.ip = c
        PROVE  \E f \in TosOf(table'[n]) : f.inUse /\ f.addr.ip = c
    <2>1. e \in table[n] /\ e \in Entry(Ips) /\ e.side = "to"
      BY DEF TosOf, BranchInv, Whole, TypeOK
    <2>2. ToEntry(e.addr, e.id, TRUE) \in table[n]
      BY <1>3, <2>1, InUseEntry
    <2>3. ToEntry(e.addr, e.id, TRUE) \in table'[n]
      BY <2>2, TablesKept DEF Keeps, BranchInv
    <2> QED
      BY <1>1, <1>3, <2>3
  <1> QED
    BY <1>2, <1>3

LEMMA FedStep ==
    ASSUME OneEnd, BranchInv, ClientInv, DemandInv, BranchesFed, WholeStep
    PROVE  BranchesFed'
  <1>1. ASSUME NEW n \in Relays, NEW e \in TosOf(table'[n]), e.inUse
        PROVE  SourceFeeds(n, Parent(e.id))'
    <2>1. CASE \E g \in TosOf(table[n]) : g.inUse /\ g.id = e.id
      <3>1. PICK f \in FromsOf(table[n]) : f.id = Parent(e.id) /\ FedOn(n, f)
        BY <2>1 DEF BranchesFed
      <3>2. FedOn(n, f)'
        BY <3>1, FedOnKept
      <3>3. SourceFeeds(n, f.id)'
        BY <3>2, SourceKept
      <3> QED
        BY <3>1, <3>3 DEF SourceFeeds
    <2>2. ASSUME NEW m \in net, HandleAcceptedConn(m), m.dst = n, m.id = e.id
          PROVE  SourceFeeds(n, Parent(e.id))'
      <3>1. PICK g \in TosOf(table[n]) : g.id = m.id
        BY <2>2 DEF BranchInv, MessageHeld, Holds, HandleAcceptedConn
      <3>2. HasSource(n, Parent(m.id))
        BY <3>1 DEF BranchInv, EntryHeld, TosOf
      <3>3. SourceFeeds(m.dst, Parent(m.id))'
        BY <2>2, <3>2, AcceptanceGoesOn
      <3> QED
        BY <2>2, <3>3 DEF SourceFeeds
    <2> QED
      BY <1>1, <2>1, <2>2, InUseSince
  <1>2. ASSUME NEW c \in Clients, status'[c] = "AWAITING_STREAM"
        PROVE  \E n \in Relays :
                  \/ \E m \in Inbox(n, "AcceptedConn")' : m.from.ip = c
                  \/ \E e \in TosOf(table'[n]) : e.inUse /\ e.addr.ip = c
    <2>1. CASE status[c] = "AWAITING_STREAM"
      <3>1. PICK n \in Relays :
               \/ \E m \in Inbox(n, "AcceptedConn") : m.from.ip = c
               \/ \E e \in TosOf(table[n]) : e.inUse /\ e.addr.ip = c
        BY <2>1 DEF BranchesFed
      <3> QED
        BY <3>1, ClientStaysFed
    <2>2. CASE status[c] # "AWAITING_STREAM"
      <3>1. PICK p \in pending : AcceptOffer(p) /\ p.client = c
        <4>1. status' # status
          BY <1>2, <2>2
        <4>2. PICK p \in pending : AcceptOffer(p)
          BY <4>1 DEF WholeStep, HandleIWantStream, HandleAcceptedAtServer,
             RefuseFlood, StartFlood, HandleAcceptedConn, ReceiveOffer,
             FloodTimed, ForwardFlood, Ask, Refresh, vars, clientVars
        <4>3. p.client = c
          BY <1>2, <2>2, <4>2 DEF AcceptOffer, BranchInv, Whole, TypeOK
        <4> QED
          BY <4>2, <4>3
      <3>2. p.from.ip \in Relays /\ p.from.ip \in alive
        BY <3>1 DEF ClientInv, OfferWanted, BranchInv, Whole, Hosts
      <3> DEFINE m == AcceptedMsg(p.from.ip, At(c), p.id)
      <3>3. m.dst = p.from.ip /\ m.type = "AcceptedConn" /\ m.from.ip = c
        BY DEF AcceptedMsg, At
      <3>4. m \in net'
        <4>1. net' = net \union Reaching({m})
          BY <3>1 DEF AcceptOffer
        <4> HIDE DEF m
        <4> QED
          BY <3>2, <3>3, <4>1 DEF Reaching
      <3>5. m \in Inbox(p.from.ip, "AcceptedConn")'
        <4> HIDE DEF m
        <4> QED
          BY <3>3, <3>4 DEF Inbox
      <3> QED
        BY <3>2, <3>3, <3>5
    <2> QED
      BY <2>1, <2>2
  <1> QED
    BY <1>1, <1>2 DEF BranchesFed, SourceFeeds

\* Under the same hypotheses no branch is accepted only in part: each link of
\* the chain from a client that has taken an offer up to the server is in use,
\* or the acceptance of it is on its way, whatever is flooded and refreshed
\* over the same entries in the meantime.
THEOREM BranchesFedAlways ==
    NoFaults /\ OneEnd => (Spec => []BranchesFed)
  <1> SUFFICES ASSUME NoFaults, OneEnd PROVE Spec => []BranchesFed
    OBVIOUS
  <1> DEFINE Inv == BranchInv /\ ClientInv /\ DemandInv /\ BranchesFed
  <1>1. Init => Inv
    <2>1. Init => BranchesFed
      BY DEF Init, BranchesFed, TosOf
    <2> QED
      BY <2>1, BranchInit, WantedInit, DemandInit
  <1>2. Inv /\ [Next]_vars => Inv'
    <2> SUFFICES ASSUME Inv, [Next]_vars PROVE Inv'
      OBVIOUS
    <2>1. BranchInv' /\ WholeStep
      BY BranchStep
    <2>2. ClientInv' /\ DemandInv'
      BY WantedStep, DemandStep DEF ClientInv
    <2> QED
      BY <2>1, <2>2, FedStep
  <1>3. Inv => BranchesFed
    OBVIOUS
  <1> QED
    BY <1>1, <1>2, <1>3, PTL DEF Spec
-----------------------------------------------------------------------------
(***************************************************************************)
(* TakenIsFed: a client that has taken an offer is fed.  BranchesFed links *)
(* every sender of a branch to the next one, and the identifiers of these  *)
(* links get shorter; that they end at the server, and not with an empty   *)
(* one, rests on where a flood can be: after k hops, at relays to which k  *)
(* relays lead from the server, none of the others being a POP.            *)
(***************************************************************************)
Linked(x, y) == <<x, y>> \in Announces \/ <<y, x>> \in Announces

\* The relays of w lead a flood from the server to their last one.
Leads(w, k) ==
    /\ w \in [1 .. k -> Relays]
    /\ w[1] \in Neighbours
    /\ \A i \in 1 .. k - 1 : w[i] \notin Pops /\ Linked(w[i], w[i + 1])

Way(k, n) == \E w \in [1 .. k -> Relays] : Leads(w, k) /\ w[k] = n

\* What relay n has of branch id has come a way that is not longer than id,
\* and from the server only if it is a neighbour.
Far(n, from, id) ==
    /\ \E k \in 1 .. Len(id.path) : Way(k, n)
    /\ from.ip = Server => n \in Neighbours

MessageFar(m) ==
    /\ m.type = "ConnFlood" /\ m.dst \in Relays => Far(m.dst, m.from, m.id)
    /\ m.type = "AcceptedConn" /\ m.dst = Server =>
          Far(m.from.ip, At(Server), m.id)

HandlerFar(h) ==
    /\ Far(h.node, h.from, h.id)
    /\ h.node \in Pops => h.todo \subseteq {At(h.client)}

WayInv ==
    /\ \A m \in net : MessageFar(m)
    /\ \A h \in handlers : HandlerFar(h)
    /\ \A n \in Relays : \A e \in FromsOf(table[n]) : Far(n, e.addr, e.id)
    /\ \A r \in routes : Far(r.to, At(Server), r.id) /\ r.id.content \in ongoing
    /\ \A x, y \in Relays : Linked(x, y) => \E a \in peers[x] : a.ip = y

\* A way of d relays to a POP, with no shorter one to any of its relays.
Shortest(w, d) ==
    /\ d \in Nat \ {0}
    /\ Leads(w, d)
    /\ w[d] \in Pops
    /\ \A j \in 1 .. d : \A k \in Nat \ {0} : Way(k, w[j]) => j <= k

\* The host that the relay at place i of way w has to pass a flood on to.
Onward(w, d, i, c) == IF i = d THEN c ELSE w[i + 1]

\* The request of client c, or a flood for it on way w, is under way.
FloodUnderWay(w, d, c) ==
    \/ \E m \in Inbox(Server, "IWantStream") : m.client = c
    \/ \E i \in 1 .. d : \E m \in Inbox(w[i], "ConnFlood") :
          m.client = c /\ Len(m.id.path) = i
    \/ \E i \in 1 .. d : \E h \in handlers :
          /\ h.node = w[i] /\ h.client = c /\ Len(h.id.path) = i
          /\ \/ h.stage = "timing"
             \/ /\ h.stage = "forwarding"
                /\ \E a \in h.todo : a.ip = Onward(w, d, i, c)

Served(w, d, c) ==
    \/ FloodUnderWay(w, d, c)
    \/ Inbox(c, "ConnFlood") # {}
    \/ \E p \in pending : p.client = c
    \/ status[c] = "AWAITING_STREAM"
-----------------------------------------------------------------------------
\* The standard library has no operator-free induction: a set of numbers that
\* is not empty has a least member.
NatLess == {p \in Nat \X Nat : p[1] < p[2]}

LEMMA LeastMember ==
    ASSUME NEW T \in SUBSET Nat, T # {}
    PROVE  \E x \in T : \A y \in T : x <= y
  <1>1. IsWellFoundedOn(NatLess, Nat)
    BY NatLessThanWellFounded DEF OpToRel, NatLess
  <1>2. PICK x \in T : \A y \in T : <<y, x>> \notin NatLess
    BY <1>1, WFMin
  <1>3. ASSUME NEW y \in T PROVE x <= y
    <2>1. x \in Nat /\ y \in Nat /\ (y < x => <<y, x>> \in NatLess)
      BY DEF NatLess
    <2> QED
      BY <1>2, <2>1
  <1> QED
    BY <1>3

LEMMA LengthOfParent ==
    ASSUME NEW id \in ConnId
    PROVE  Len(Parent(id).path) = IF id.path = <<>> THEN 0 ELSE Len(id.path) - 1
  <1> DEFINE s == SubSeq(id.path, 1, Len(id.path) - 1)
  <1>1. id.path \in Seq(Suffixes) /\ Len(id.path) \in Nat
    BY OfConnId
  <1>2. Parent(id).path = s
    BY DEF Parent, ConnId
  <1>3. Len(s) = IF id.path = <<>> THEN 0 ELSE Len(id.path) - 1
    BY <1>1
  <1> QED
    BY <1>2, <1>3

LEMMA LengthOfChild ==
    ASSUME NEW id \in ConnId, NEW k \in Suffixes
    PROVE  Len(Child(id, k).path) = Len(id.path) + 1
  <1>1. Child(id, k).path = Append(id.path, k)
    BY DEF Child, ConnId
  <1> QED
    BY <1>1, OfConnId

LEMMA LengthOfBranch ==
    ASSUME NEW c \in Contents, NEW k \in Suffixes
    PROVE  Len(Child(Root(c), k).path) = 1
  <1>1. Child(Root(c), k).path = Append(<<>>, k)
    BY DEF Child, Root
  <1> QED
    BY <1>1

\* A neighbour of the server is one hop away, and what a relay is linked to one
\* hop further than it.
LEMMA FirstHop ==
    ASSUME NEW n \in Relays, n \in Neighbours
    PROVE  Way(1, n)
  <1> DEFINE w == [i \in 1 .. 1 |-> n]
  <1>1. w \in [1 .. 1 -> Relays] /\ w[1] = n
    OBVIOUS
  <1> HIDE DEF w
  <1>2. Leads(w, 1)
    BY <1>1 DEF Leads
  <1> QED
    BY <1>1, <1>2 DEF Way

LEMMA NextHop ==
    ASSUME NEW k \in Nat \ {0}, NEW n \in Relays \ Pops, NEW y \in Relays,
           Way(k, n), Linked(n, y)
    PROVE  Way(k + 1, y)
  <1>1. PICK w \in [1 .. k -> Relays] : Leads(w, k) /\ w[k] = n
    BY DEF Way
  <1> DEFINE u == [i \in 1 .. k + 1 |-> IF i <= k THEN w[i] ELSE y]
  <1>2. /\ u \in [1 .. k + 1 -> Relays]
        /\ \A i \in 1 .. k : u[i] = w[i]
        /\ u[k + 1] = y
    OBVIOUS
  <1> HIDE DEF u
  <1>3. ASSUME NEW i \in 1 .. k
        PROVE  u[i] \notin Pops /\ Linked(u[i], u[i + 1])
    <2>1. CASE i = k
      BY <1>1, <1>2, <2>1
    <2>2. CASE i # k
      <3>1. i \in 1 .. k - 1 /\ i + 1 \in 1 .. k
        BY <2>2
      <3> QED
        BY <1>1, <1>2, <3>1 DEF Leads
    <2> QED
      BY <2>1, <2>2
  <1>4. Leads(u, k + 1)
    <2>1. u[1] \in Neighbours
      BY <1>1, <1>2 DEF Leads
    <2>2. (k + 1) - 1 = k
      OBVIOUS
    <2> QED
      BY <1>2, <1>3, <2>1, <2>2 DEF Leads
  <1> QED
    BY <1>2, <1>4 DEF Way

\* A way that ends on another one can go on along it.
LEMMA Joined ==
    ASSUME NEW d \in Nat \ {0}, NEW w, Leads(w, d), NEW j \in 1 .. d,
           NEW k \in Nat \ {0}, Way(k, w[j])
    PROVE  Way(k + d - j, w[d])
  <1>1. PICK v \in [1 .. k -> Relays] : Leads(v, k) /\ v[k] = w[j]
    BY DEF Way
  <1> DEFINE n == k + d - j
             u == [i \in 1 .. n |-> IF i <= k THEN v[i] ELSE w[i - k + j]]
  <1>2. w \in [1 .. d -> Relays]
    BY DEF Leads
  <1>3. \A i \in 1 .. n : i > k => i - k + j \in 1 .. d
    OBVIOUS
  <1>4. /\ u \in [1 .. n -> Relays]
        /\ \A i \in 1 .. k : u[i] = v[i]
        /\ \A i \in k .. n : u[i] = w[i - k + j]
    <2>1. u \in [1 .. n -> Relays]
      BY <1>1, <1>2, <1>3
    <2>2. n \in Nat /\ k <= n
      OBVIOUS
    <2>3. \A i \in 1 .. k : u[i] = v[i]
      BY <2>2
    <2>4. \A i \in k .. n : u[i] = w[i - k + j]
      <3> TAKE i \in k .. n
      <3>1. CASE i = k
        BY <1>1, <2>3, <3>1
      <3>2. CASE i # k
        BY <2>2, <3>2
      <3> QED
        BY <3>1, <3>2
    <2> QED
      BY <2>1, <2>3, <2>4
  <1>5. n \in Nat \ {0} /\ k <= n
    OBVIOUS
  <1>6. n - k + j = d
    OBVIOUS
  <1> HIDE DEF u
  <1>7. ASSUME NEW i \in 1 .. n - 1
        PROVE  u[i] \notin Pops /\ Linked(u[i], u[i + 1])
    <2>1. CASE i < k
      <3>1. i \in 1 .. k - 1 /\ i + 1 \in 1 .. k /\ i \in 1 .. k
        BY <2>1
      <3> QED
        BY <1>1, <1>4, <3>1 DEF Leads
    <2>2. CASE i >= k
      <3>1. i - k + j \in 1 .. d - 1 /\ (i + 1) - k + j = (i - k + j) + 1
        BY <2>2
      <3>2. i \in k .. n /\ i + 1 \in k .. n
        BY <1>5, <2>2
      <3>3. u[i] = w[i - k + j] /\ u[i + 1] = w[(i - k + j) + 1]
        BY <1>4, <3>1, <3>2
      <3> QED
        BY <3>1, <3>3 DEF Leads
    <2> QED
      BY <2>1, <2>2
  <1>8. u[1] \in Neighbours
    BY <1>1, <1>4 DEF Leads
  <1>9. Leads(u, n)
    BY <1>4, <1>7, <1>8 DEF Leads
  <1>10. u[n] = w[d]
    BY <1>4, <1>5, <1>6
  <1> QED
    BY <1>4, <1>9, <1>10 DEF Way

\* There is a POP a flood can come to.
PopInReach == \E k \in Nat \ {0} : \E p \in Pops : Way(k, p)

LEMMA ShortestWay ==
    ASSUME PopInReach
    PROVE  \E d, w : Shortest(w, d)
  <1> DEFINE T == {k \in Nat \ {0} : \E p \in Pops : Way(k, p)}
  <1>1. T \in SUBSET Nat /\ T # {}
    BY DEF PopInReach
  <1>2. PICK d \in T : \A y \in T : d <= y
    BY <1>1, LeastMember
  <1>3. PICK p \in Pops : Way(d, p)
    BY <1>2
  <1>4. PICK w \in [1 .. d -> Relays] : Leads(w, d) /\ w[d] = p
    BY <1>3 DEF Way
  <1>5. ASSUME NEW j \in 1 .. d, NEW k \in Nat \ {0}, Way(k, w[j])
        PROVE  j <= k
    <2>1. Way(k + d - j, w[d])
      BY <1>4, <1>5, Joined
    <2>2. k + d - j \in T
      BY <1>4, <2>1
    <2>3. d <= k + d - j
      BY <1>2, <2>2
    <2> QED
      BY <2>3
  <1>6. Shortest(w, d)
    BY <1>4, <1>5 DEF Shortest
  <1> QED
    BY <1>6
-----------------------------------------------------------------------------
LEMMA FarFromServer ==
    ASSUME NEW n \in Relays, n \in Neighbours, NEW id, Len(id.path) = 1,
           NEW from
    PROVE  Far(n, from, id)
  <1>1. 1 \in 1 .. Len(id.path)
    OBVIOUS
  <1>2. Way(1, n)
    BY FirstHop
  <1> QED
    BY <1>1, <1>2 DEF Far

\* A step preserves the invariant when all it adds is far enough.
LEMMA WayKept ==
    ASSUME WayInv,
           \A m \in net' : m \in net \/ MessageFar(m),
           \A h \in handlers' : h \in handlers \/ HandlerFar(h),
           \A n \in Relays : \A e \in FromsOf(table'[n]) :
               \/ \E f \in FromsOf(table[n]) : f.addr = e.addr /\ f.id = e.id
               \/ Far(n, e.addr, e.id),
           \A r \in routes' : \/ r \in routes
                              \/ /\ Far(r.to, At(Server), r.id)
                                 /\ r.id.content \in ongoing',
           ongoing \subseteq ongoing',
           \A n \in Relays : peers[n] \subseteq peers'[n]
    PROVE  WayInv'
  <1>1. \A n \in Relays : \A e \in FromsOf(table'[n]) : Far(n, e.addr, e.id)
    BY DEF WayInv
  <1>2. \A r \in routes' : /\ Far(r.to, At(Server), r.id)
                           /\ r.id.content \in ongoing'
    BY DEF WayInv
  <1>3. \A x, y \in Relays : Linked(x, y) => \E a \in peers'[x] : a.ip = y
    BY DEF WayInv
  <1>4. /\ \A m \in net' : MessageFar(m)
        /\ \A h \in handlers' : HandlerFar(h)
    BY DEF WayInv
  <1> QED
    BY <1>1, <1>2, <1>3, <1>4 DEF WayInv

\* A step that leaves the tables, the routes and the peers alone.
LEMMA WaySame ==
    ASSUME WayInv, UNCHANGED <<table, routes, ongoing, peers>>,
           \A m \in net' : m \in net \/ MessageFar(m),
           \A h \in handlers' : h \in handlers \/ HandlerFar(h)
    PROVE  WayInv'
  BY WayKept

LEMMA WayInit == Init => WayInv
  <1> SUFFICES ASSUME Init PROVE WayInv
    OBVIOUS
  <1>1. ASSUME NEW x \in Relays, NEW y \in Relays, Linked(x, y)
        PROVE  \E a \in peers[x] : a.ip = y
    <2> DEFINE a == At(y)
               b == [ip |-> y, port |-> 1]
    <2>1. a \in peers[x] \/ b \in peers[x]
      BY <1>1 DEF Init, Linked
    <2>2. a.ip = y /\ b.ip = y
      BY DEF At
    <2> HIDE DEF a, b
    <2> QED
      BY <2>1, <2>2
  <1> QED
    BY <1>1 DEF Init, WayInv, FromsOf

LEMMA WayServer ==
    ASSUME WayInv, BranchInv,
           \/ \E m \in net : \/ HandleIWantStream(m) \/ HandleAcceptedAtServer(m)
                             \/ RefuseFlood(m) \/ ReceiveOffer(m)
           \/ \E c \in Contents : Refresh(c)
           \/ \E c \in Clients : Ask(c)
           \/ UNCHANGED vars
    PROVE  WayInv'
  <1>1. UNCHANGED <<table, handlers, peers>>
    BY DEF HandleIWantStream, HandleAcceptedAtServer, RefuseFlood, ReceiveOffer,
       Refresh, Ask, vars, relayVars
  <1>2. ASSUME NEW m \in net, HandleIWantStream(m)
        PROVE  WayInv'
    <2>1. PICK f \in Numberings(Neighbours, 1) :
             \A x \in net' : x \in net \/ \E y \in Neighbours :
                x = FloodMsg(y, At(Server), Child(Root(Wants[m.client]), f[y]),
                             m.client, {})
      BY <1>2 DEF HandleIWantStream, Reaching
    <2>2. m.client \in Clients /\ Wants[m.client] \in Contents
      BY <1>2, MessageKinds, SetupAssumption
      DEF HandleIWantStream, Inbox, BranchInv, Whole, TypeOK, IWantStream
    <2>3. ASSUME NEW x \in net', x \notin net
          PROVE  MessageFar(x)
      <3>1. PICK y \in Neighbours :
               x = FloodMsg(y, At(Server), Child(Root(Wants[m.client]), f[y]),
                            m.client, {})
        BY <2>1, <2>3
      <3>2. /\ x.type = "ConnFlood" /\ x.dst = y
            /\ x.id = Child(Root(Wants[m.client]), f[y])
        BY <3>1 DEF FloodMsg
      <3>3. f[y] \in Suffixes /\ y \in Relays
        BY DEF Numberings, Neighbours
      <3>4. Len(x.id.path) = 1
        BY <2>2, <3>2, <3>3, LengthOfBranch
      <3>5. Far(y, x.from, x.id)
        BY <3>3, <3>4, FarFromServer
      <3> QED
        BY <3>2, <3>5 DEF MessageFar
    <2>4. UNCHANGED <<routes, ongoing>>
      BY <1>2 DEF HandleIWantStream, serverVars
    <2> QED
      BY <1>1, <2>3, <2>4, WaySame
  <1>3. ASSUME NEW m \in net, HandleAcceptedAtServer(m)
        PROVE  WayInv'
    <2>1. /\ m.type = "AcceptedConn" /\ m.dst = Server
          /\ net' \subseteq net /\ ongoing \subseteq ongoing'
          /\ m.id.content \in ongoing'
      BY <1>3 DEF HandleAcceptedAtServer, Inbox
    <2>2. Far(m.from.ip, At(Server), m.id)
      BY <2>1 DEF WayInv, MessageFar
    <2>3. ASSUME NEW r \in routes', r \notin routes
          PROVE  r.to = m.from.ip /\ r.id = m.id
      BY <1>3, <2>3 DEF HandleAcceptedAtServer
    <2>4. \A n \in Relays : \A e \in FromsOf(table'[n]) :
             \E f \in FromsOf(table[n]) : f.addr = e.addr /\ f.id = e.id
      BY <1>1
    <2> QED
      BY <1>1, <2>1, <2>2, <2>3, <2>4, WayKept
  <1>4. ASSUME NEW c \in Contents, Refresh(c)
        PROVE  WayInv'
    <2>1. PICK pick \in KeptRoutes(c), top \in LargestSuffix(c) :
             \E f \in Numberings(Receivers(c), top) :
                \A x \in net' : x \in net \/ x \in RefreshFloods(c, pick, f)
      BY <1>4 DEF Refresh, Reaching
    <2>2. PICK f \in Numberings(Receivers(c), top) :
             \A x \in net' : x \in net \/ x \in RefreshFloods(c, pick, f)
      BY <2>1
    <2>3. ASSUME NEW x \in net', x \notin net
          PROVE  MessageFar(x)
      <3>1. PICK y \in Receivers(c) :
               \/ x = FloodMsg(y, At(Server), pick[y].id, NoClient, {})
               \/ x = FloodMsg(y, At(Server), Child(Root(c), f[y]), NoClient, {})
        BY <2>2, <2>3 DEF RefreshFloods
      <3>2. /\ x.type = "ConnFlood" /\ x.dst = y /\ x.from = At(Server)
            /\ x.id = pick[y].id \/ x.id = Child(Root(c), f[y])
        BY <3>1 DEF FloodMsg
      <3>3. pick[y] \in routes /\ pick[y].to = y
        BY DEF KeptRoutes, RoutesOf
      <3>4. Far(y, At(Server), pick[y].id) /\ y \in Neighbours
        <4>1. At(Server).ip = Server
          BY DEF At
        <4> QED
          BY <3>3, <4>1 DEF WayInv, Far
      <3>5. CASE x.id = pick[y].id
        BY <3>2, <3>4, <3>5 DEF MessageFar
      <3>6. CASE x.id = Child(Root(c), f[y])
        <4>1. f[y] \in Suffixes /\ y \in Relays
          BY <3>4 DEF Numberings, Neighbours
        <4>2. Len(x.id.path) = 1
          BY <3>6, <4>1, LengthOfBranch
        <4>3. Far(y, x.from, x.id)
          BY <3>4, <4>1, <4>2, FarFromServer
        <4> QED
          BY <3>2, <4>3 DEF MessageFar
      <3> QED
        BY <3>2, <3>5, <3>6
    <2>4. UNCHANGED <<routes, ongoing>>
      BY <1>4 DEF Refresh
    <2> QED
      BY <1>1, <2>3, <2>4, WaySame
  <1>5. ASSUME \/ \E m \in net : RefuseFlood(m) \/ ReceiveOffer(m)
               \/ \E c \in Clients : Ask(c)
               \/ UNCHANGED vars
        PROVE  WayInv'
    <2>1. /\ \A m \in net' : m \in net \/ m.type = "IWantStream"
          /\ UNCHANGED <<routes, ongoing>>
      BY <1>5 DEF RefuseFlood, ReceiveOffer, Ask, Reaching, vars, serverVars
    <2>2. \A m \in net' : m \in net \/ MessageFar(m)
      BY <2>1 DEF MessageFar
    <2> QED
      BY <1>1, <2>1, <2>2, WaySame
  <1> QED
    BY <1>2, <1>3, <1>4, <1>5

LEMMA WayFloods ==
    ASSUME WayInv, BranchInv,
           \/ \E m \in net : StartFlood(m)
           \/ \E h \in handlers : FloodTimed(h)
    PROVE  WayInv'
  <1>0. table \in [Relays -> SUBSET Entry(Ips)]
    BY DEF BranchInv, Whole, TypeOK
  <1>1. ASSUME NEW m \in net, StartFlood(m)
        PROVE  WayInv'
    <2>1. Far(m.dst, m.from, m.id)
      BY <1>1 DEF StartFlood, WayInv, MessageFar
    <2>2. ASSUME NEW h \in handlers', h \notin handlers
          PROVE  HandlerFar(h)
      <3>1. /\ h.node = m.dst /\ h.from = m.from /\ h.id = m.id
            /\ h.todo = {}
        BY <1>1, <2>2, StartedHandler
      <3> QED
        BY <2>1, <3>1 DEF HandlerFar
    <2>3. UNCHANGED <<table, routes, ongoing, peers>> /\ net' \subseteq net
      BY <1>1 DEF StartFlood, serverVars
    <2> QED
      BY <2>2, <2>3, WaySame
  <1>2. ASSUME NEW h \in handlers, FloodTimed(h)
        PROVE  WayInv'
    <2> DEFINE in   == FromEntry(h.from, h.id, FALSE)
               next == [h EXCEPT !.stage = "forwarding", !.todo = Targets(h)]
    <2>1. h \in Handler /\ h.node \in Relays /\ peers \in [Relays -> SUBSET Addr(Ips)]
      BY DEF BranchInv, Whole, TypeOK, Handler
    <2>2. /\ next.node = h.node /\ next.id = h.id /\ next.from = h.from
          /\ next.client = h.client /\ next.todo = Targets(h)
      BY <2>1 DEF Handler
    <2>3. in.addr = h.from /\ in.id = h.id
      BY DEF FromEntry
    <2>4. /\ table' = [table EXCEPT ![h.node] = AddEntry(@, in)]
          /\ handlers' = Advance(h, next)
          /\ UNCHANGED <<routes, ongoing, net>>
      BY <1>2 DEF FloodTimed, serverVars
    <2> HIDE DEF in, next
    <2>5. Far(h.node, h.from, h.id)
      BY DEF WayInv, HandlerFar
    <2>6. ASSUME NEW g \in handlers', g \notin handlers
          PROVE  HandlerFar(g)
      <3>1. g = next
        BY <2>4, <2>6 DEF Advance
      <3>2. h.node \in Pops => Targets(h) \subseteq {At(h.client)}
        BY DEF Targets
      <3> QED
        BY <2>2, <2>5, <3>1, <3>2 DEF HandlerFar
    <2>7. ASSUME NEW n \in Relays, NEW e \in FromsOf(table'[n])
          PROVE  e \in FromsOf(table[n]) \/ Far(n, e.addr, e.id)
      <3>1. e \in FromsOf(table[n]) \/ (n = h.node /\ e = in)
        BY <1>0, <2>4 DEF AddEntry, FromsOf
      <3> QED
        BY <2>3, <2>5, <3>1
    <2>8. \A n \in Relays : peers[n] \subseteq peers'[n]
      BY <1>2, <2>1 DEF FloodTimed
    <2> QED
      BY <2>4, <2>6, <2>7, <2>8, WayKept
  <1> QED
    BY <1>1, <1>2

\* A flood that is passed on is one hop further, and its branch one longer.
LEMMA FarNext ==
    ASSUME BranchInv, WayInv, NEW h \in handlers, NEW a \in h.todo,
           a.ip \in Relays, NEW new \in ConnId, Parent(new) = h.id, NEW from,
           from.ip = h.node
    PROVE  Far(a.ip, from, new) /\ Len(new.path) = Len(h.id.path) + 1
  <1>1. h \in Handler /\ h.node \in Relays /\ h.client \in Clients \union {NoClient}
    BY DEF BranchInv, Whole, TypeOK, Handler
  <1>2. HandlerFar(h) /\ a \in Known(h.node)
    BY DEF WayInv, BranchInv, HandlerHeld
  <1>3. h.node \notin Pops
    <2>1. h.client \notin Relays /\ At(h.client).ip = h.client
      BY <1>1, HostsAssumption DEF At
    <2> QED
      BY <1>2, <2>1 DEF HandlerFar
  <1>4. PICK k \in 1 .. Len(h.id.path) : Way(k, h.node)
    BY <1>2 DEF HandlerFar, Far
  <1>5. Len(new.path) \in Nat /\ Len(h.id.path) \in Nat
    BY <1>1, OfConnId DEF Handler
  <1>6. Len(new.path) = Len(h.id.path) + 1
    <2>1. Len(h.id.path) >= 1
      BY <1>4, <1>5
    <2> QED
      BY <1>5, <2>1, LengthOfParent
  <1>7. Linked(h.node, a.ip)
    BY <1>1, <1>2, KnownAddress DEF Linked
  <1>8. Way(k + 1, a.ip)
    BY <1>1, <1>3, <1>4, <1>7, NextHop
  <1>9. k + 1 \in 1 .. Len(new.path)
    BY <1>4, <1>5, <1>6
  <1> QED
    BY <1>1, <1>6, <1>8, <1>9, HostsAssumption DEF Far

LEMMA WayForward ==
    ASSUME WayInv, BranchInv, NEW h \in handlers, NEW a \in h.todo,
           ForwardFlood(h, a)
    PROVE  WayInv'
  <1>1. /\ h \in Handler /\ h.node \in Relays /\ h.id \in ConnId
        /\ table \in [Relays -> SUBSET Entry(Ips)]
        /\ UNCHANGED <<routes, ongoing, peers>>
    BY DEF ForwardFlood, BranchInv, Whole, TypeOK, Handler, serverVars
  <1>2. PICK new \in OutgoingIds(table[h.node], h.id, a) :
           \E k \in ArrivalPorts(h.node, a, new) : Forwarded(h, a, new, k)
    BY ForwardsOne
  <1>3. PICK k \in ArrivalPorts(h.node, a, new) : Forwarded(h, a, new, k)
    BY <1>2
  <1>4. new \in ConnId /\ Parent(new) = h.id
    BY <1>1, OutgoingIdGrows
  <1>5. ASSUME NEW m \in net', m \notin net
        PROVE  MessageFar(m)
    <2>1. /\ m.type = "ConnFlood" /\ m.dst = a.ip /\ m.id = new
          /\ m.from = [ip |-> h.node, port |-> k]
      BY <1>3, <1>5 DEF Forwarded
    <2> QED
      BY <1>4, <2>1, FarNext DEF MessageFar
  <1>6. ASSUME NEW n \in Relays, NEW e \in FromsOf(table'[n])
        PROVE  e \in FromsOf(table[n])
    BY <1>1, <1>3 DEF Forwarded, AddOutgoing, ToEntry, FromsOf
  <1>7. ASSUME NEW g \in handlers', g \notin handlers
        PROVE  HandlerFar(g)
    <2>1. g = [h EXCEPT !.todo = @ \ {a}]
      BY <1>7 DEF ForwardFlood, Advance
    <2>2. /\ g.node = h.node /\ g.id = h.id /\ g.from = h.from
          /\ g.client = h.client /\ g.todo \subseteq h.todo
      BY <1>1, <2>1 DEF Handler
    <2> QED
      BY <2>2 DEF HandlerFar, WayInv
  <1> QED
    BY <1>1, <1>5, <1>6, <1>7, WayKept

LEMMA WayAccept ==
    ASSUME WayInv, BranchInv, ClientInv,
           \/ \E m \in net : HandleAcceptedConn(m)
           \/ \E p \in pending : AcceptOffer(p)
    PROVE  WayInv'
  <1>1. ASSUME NEW m \in net, HandleAcceptedConn(m)
        PROVE  WayInv'
    <2> DEFINE up == Upstreams(table[m.dst], m.id)
    <2>1. /\ m.dst \in Relays /\ table \in [Relays -> SUBSET Entry(Ips)]
          /\ UNCHANGED <<peers, handlers, routes, ongoing>>
      BY <1>1 DEF HandleAcceptedConn, BranchInv, Whole, TypeOK, serverVars
    <2>2. ASSUME NEW n \in Relays, NEW e \in FromsOf(table'[n])
          PROVE  \E f \in FromsOf(table[n]) : f.addr = e.addr /\ f.id = e.id
      <3>1. table'[n] = table[n] \/ \E S : table'[n] = MarkInUse(table[n], S)
        BY <1>1, <2>1 DEF HandleAcceptedConn, Accept
      <3>2. \E f \in table[n] : SameKey(f, e)
        <4>1. ASSUME NEW S, table'[n] = MarkInUse(table[n], S)
              PROVE  \E f \in table[n] : SameKey(f, e)
          BY <2>1, <4>1, MarkInUseEntry DEF FromsOf
        <4> QED
          BY <3>1, <4>1 DEF SameKey, FromsOf
      <3> QED
        BY <3>2 DEF SameKey, FromsOf
    <2>3. ASSUME NEW x \in net', x \notin net
          PROVE  MessageFar(x)
      <3>1. PICK e \in up : x = AcceptedMsg(e.addr.ip, Seen(m.dst, e.addr), e.id)
        <4>1. net' = (net \ {m}) \union Reaching(
                 {AcceptedMsg(e.addr.ip, Seen(m.dst, e.addr), e.id) : e \in up})
          BY <1>1 DEF HandleAcceptedConn
        <4> HIDE DEF up
        <4> QED
          BY <2>3, <4>1 DEF Reaching
      <3>2. /\ x.type = "AcceptedConn" /\ x.dst = e.addr.ip
            /\ x.from.ip = m.dst /\ x.id = e.id
        BY <2>1, <3>1, Addresses DEF AcceptedMsg
      <3>3. Far(m.dst, e.addr, e.id)
        BY <2>1 DEF Upstreams, WayInv
      <3> QED
        BY <3>2, <3>3 DEF MessageFar, Far
    <2> QED
      BY <2>1, <2>2, <2>3, WayKept
  <1>2. ASSUME NEW p \in pending, AcceptOffer(p)
        PROVE  WayInv'
    <2>1. UNCHANGED <<table, peers, handlers, routes, ongoing>>
      BY <1>2 DEF AcceptOffer, relayVars, serverVars
    <2>2. p.from.ip \in Relays
      BY DEF ClientInv, OfferWanted
    <2>3. ASSUME NEW x \in net', x \notin net
          PROVE  MessageFar(x)
      <3>1. x.type = "AcceptedConn" /\ x.dst = p.from.ip
        BY <1>2, <2>3 DEF AcceptOffer, Reaching, AcceptedMsg
      <3> QED
        BY <2>2, <3>1, HostsAssumption DEF MessageFar
    <2> QED
      BY <2>1, <2>3, WaySame
  <1> QED
    BY <1>1, <1>2

LEMMA WayStep ==
    ASSUME WayInv, BranchInv, ClientInv, WholeStep
    PROVE  WayInv'
  BY WayServer, WayFloods, WayForward, WayAccept DEF WholeStep
-----------------------------------------------------------------------------
\* No name of a content holds a "-": the server looks its receivers up under
\* the name, and finds none under one that GetConnContent cuts.
PlainNames == \A c \in Contents : ContentKey[c] = c

LEMMA FeedsReceiver ==
    ASSUME NEW n \in Relays, NEW e \in TosOf(table[n]), e.inUse, NEW c,
           KeyOf(e.id) = ContentKey[c]
    PROVE  <<n, e.addr.ip>> \in Feeds(c)
  BY DEF Feeds

\* Between the acceptances, who feeds a host on a branch feeds it in effect.
LEMMA SenderFeeds ==
    ASSUME PlainNames, BranchInv, WayInv, \A m \in net : m.type # "AcceptedConn",
           NEW n \in Relays, NEW f \in FromsOf(table[n]), FedOn(n, f)
    PROVE  \/ <<Server, n>> \in Feeds(f.id.content)
           \/ \E y \in Relays :
                 /\ <<y, n>> \in Feeds(f.id.content)
                 /\ \E e \in TosOf(table[y]) : e.inUse /\ e.id = f.id
  <1>1. f \in Entry(Ips) /\ f.id.content \in Contents
    BY OfConnId DEF BranchInv, Whole, TypeOK, FromsOf, Entry
  <1>2. KeyOf(f.id) = f.id.content /\ ContentKey[f.id.content] = f.id.content
    BY <1>1 DEF PlainNames, KeyOf
  <1>3. AcceptedMsg(f.addr.ip, Seen(n, f.addr), f.id) \notin net
    BY DEF AcceptedMsg
  <1>4. CASE [to |-> n, id |-> f.id] \in routes
    <2> DEFINE r == [to |-> n, id |-> f.id]
    <2>1. r.to = n /\ r.id = f.id
      OBVIOUS
    <2> HIDE DEF r
    <2>2. r \in routes /\ r.id.content \in ongoing
      BY <1>4 DEF r, WayInv
    <2>3. <<Server, r.to>> \in Feeds(f.id.content)
      BY <1>2, <2>1, <2>2 DEF Feeds
    <2> QED
      BY <2>1, <2>3
  <1>5. CASE /\ f.addr.ip \in Relays
             /\ ToEntry(Seen(n, f.addr), f.id, TRUE) \in table[f.addr.ip]
    <2> DEFINE e == ToEntry(Seen(n, f.addr), f.id, TRUE)
    <2>1. e.side = "to" /\ e.inUse /\ e.id = f.id /\ e.addr.ip = n
      BY Addresses DEF ToEntry
    <2> HIDE DEF e
    <2>2. e \in TosOf(table[f.addr.ip])
      BY <1>5, <2>1 DEF e, TosOf
    <2>3. <<f.addr.ip, e.addr.ip>> \in Feeds(f.id.content)
      BY <1>2, <1>5, <2>1, <2>2, FeedsReceiver
    <2> QED
      BY <1>5, <2>1, <2>2, <2>3
  <1> QED
    BY <1>3, <1>4, <1>5 DEF FedOn

LEMMA TakenAreFed ==
    ASSUME PlainNames, BranchInv, WayInv, BranchesFed, ClientsGetTheirContent
    PROVE  TakenIsFed
  <1> SUFFICES ASSUME \A m \in net : m.type # "AcceptedConn",
                      NEW c \in Clients, status[c] = "AWAITING_STREAM",
                      NEW R \in SUBSET Relays,
                      \A e \in Feeds(Wants[c]) :
                         e[1] \in R \union {Server} => e[2] \in R \union Clients,
                      ~\E x \in R \union {Server} : <<x, c>> \in Feeds(Wants[c])
               PROVE  FALSE
    BY DEF TakenIsFed, Fed
  <1> DEFINE Unfed(n, e) == /\ n \in Relays \ R /\ e \in TosOf(table[n])
                            /\ e.inUse /\ e.id.content = Wants[c]
             T == {k \in Nat : \E n, e : Unfed(n, e) /\ Len(e.id.path) = k}
  <1>0. /\ Wants[c] \in Contents
        /\ table \in [Relays -> SUBSET Entry(Ips)]
    BY SetupAssumption DEF BranchInv, Whole, TypeOK
  <1>1. ASSUME NEW n \in Relays, NEW e \in TosOf(table[n])
        PROVE  /\ e \in Entry(Ips) /\ e.id \in ConnId
               /\ e.id.content \in Contents /\ KeyOf(e.id) = e.id.content
               /\ Len(e.id.path) \in Nat
    <2>1. e \in Entry(Ips) /\ e.id \in ConnId
      BY <1>0 DEF TosOf, Entry
    <2>2. e.id.content \in Contents /\ Len(e.id.path) \in Nat
      BY <2>1, OfConnId
    <2> QED
      BY <2>1, <2>2 DEF PlainNames, KeyOf
  <1>2. \E n, e : Unfed(n, e)
    <2>1. PICK n \in Relays : \E e \in TosOf(table[n]) : e.inUse /\ e.addr.ip = c
      BY DEF BranchesFed, Inbox
    <2>2. PICK e \in TosOf(table[n]) : e.inUse /\ e.addr.ip = c
      BY <2>1
    <2>3. KeyOf(e.id) = ContentKey[Wants[c]]
      BY <2>2 DEF ClientsGetTheirContent
    <2>4. e.id.content = Wants[c]
      BY <1>0, <1>1, <2>3 DEF PlainNames
    <2>5. <<n, c>> \in Feeds(Wants[c])
      BY <2>2, <2>3, FeedsReceiver
    <2> QED
      BY <2>2, <2>4, <2>5
  <1>3. T \in SUBSET Nat /\ T # {}
    <2>1. PICK n, e : Unfed(n, e)
      BY <1>2
    <2> QED
      BY <1>1, <2>1
  <1>4. PICK k \in T : \A j \in T : k <= j
    BY <1>3, LeastMember
  <1>5. PICK n, e : Unfed(n, e) /\ Len(e.id.path) = k
    BY <1>4
  <1>6. PICK f \in FromsOf(table[n]) : f.id = Parent(e.id) /\ FedOn(n, f)
    BY <1>5 DEF BranchesFed
  <1>7. f.id.content = Wants[c]
    BY <1>1, <1>5, <1>6, PathOfParent
  <1>8. Len(f.id.path) \in Nat /\ Len(f.id.path) < k
    <2>1. f.id \in ConnId /\ Len(f.id.path) \in Nat
      BY <1>0, <1>5, OfConnId DEF FromsOf, Entry
    <2>2. Far(n, f.addr, f.id)
      BY <1>5 DEF WayInv
    <2>3. Len(f.id.path) >= 1
      BY <2>1, <2>2 DEF Far
    <2> QED
      BY <1>1, <1>5, <1>6, <2>1, <2>3, LengthOfParent
  <1>9. CASE <<Server, n>> \in Feeds(Wants[c])
    <2> DEFINE edge == <<Server, n>>
    <2>1. edge[1] = Server /\ edge[2] = n
      OBVIOUS
    <2>2. n \in R \union Clients
      BY <1>9, <2>1
    <2> QED
      BY <1>5, <2>2, HostsAssumption
  <1>10. ASSUME NEW y \in Relays, <<y, n>> \in Feeds(Wants[c]),
                NEW g \in TosOf(table[y]), g.inUse, g.id = f.id
         PROVE  FALSE
    <2> DEFINE edge == <<y, n>>
    <2>1. edge[1] = y /\ edge[2] = n
      OBVIOUS
    <2>2. y \notin R
      <3>1. y \in R => n \in R \union Clients
        BY <1>10, <2>1
      <3> QED
        BY <1>5, <3>1, HostsAssumption
    <2>3. Unfed(y, g)
      BY <1>7, <1>10, <2>2
    <2>4. Len(f.id.path) \in T
      BY <1>8, <1>10, <2>3
    <2>5. k <= Len(f.id.path)
      BY <1>4, <2>4
    <2> QED
      BY <1>8, <2>5
  <1> QED
    BY <1>5, <1>6, <1>7, <1>9, <1>10, SenderFeeds

LEMMA TakenInit ==
    Init => BranchInv /\ ClientInv /\ DemandInv /\ BranchesFed /\ WayInv
  <1>1. Init => BranchesFed
    BY DEF Init, BranchesFed, TosOf
  <1> QED
    BY <1>1, BranchInit, WantedInit, DemandInit, WayInit

LEMMA TakenStep ==
    ASSUME NoFaults, OneEnd, BranchInv, ClientInv, DemandInv, BranchesFed,
           WayInv, [Next]_vars
    PROVE  /\ WholeStep
           /\ BranchInv' /\ ClientInv' /\ DemandInv' /\ BranchesFed' /\ WayInv'
  <1>1. BranchInv' /\ WholeStep
    BY BranchStep
  <1>2. ClientInv' /\ DemandInv'
    BY WantedStep, DemandStep DEF ClientInv
  <1> QED
    BY <1>1, <1>2, FedStep, WayStep

\* Under the same hypotheses a client that has taken an offer is reached by its
\* stream from the server on whenever no acceptance is under way, on any
\* topology and whatever is flooded then.
THEOREM TakenIsFedAlways ==
    NoFaults /\ OneEnd /\ PlainNames => (Spec => []TakenIsFed)
  <1> SUFFICES ASSUME NoFaults, OneEnd, PlainNames PROVE Spec => []TakenIsFed
    OBVIOUS
  <1> DEFINE Inv == BranchInv /\ ClientInv /\ DemandInv /\ BranchesFed /\ WayInv
  <1>1. Init => Inv
    BY TakenInit
  <1>2. Inv /\ [Next]_vars => Inv'
    BY TakenStep
  <1>3. Inv /\ ClientsGetTheirContent => TakenIsFed
    BY TakenAreFed
  <1> QED
    BY <1>1, <1>2, <1>3, ClientsGetTheirContentAlways, PTL DEF Spec
-----------------------------------------------------------------------------
(***************************************************************************)
(* FedWhenQuiet: a client that has asked takes an offer.  Many a flood is  *)
(* refused, and a relay has no way to tell which; but one is not, which    *)
(* goes along a shortest way to a POP.  A relay refuses a flood only when  *)
(* it has passed an earlier one on, and that one would have come to it     *)
(* sooner than the shortest way allows.  So on each place of that way the  *)
(* flood is waiting to be read, timed or passed on, or has gone on.        *)
(***************************************************************************)
LEMMA TakenMessage ==
    ASSUME WholeStep, NEW m \in net, m \notin net'
    PROVE  \/ HandleIWantStream(m) \/ HandleAcceptedAtServer(m)
           \/ RefuseFlood(m) \/ StartFlood(m)
           \/ HandleAcceptedConn(m) \/ ReceiveOffer(m)
  <1>1. ASSUME NEW x \in net,
               \/ HandleIWantStream(x) \/ HandleAcceptedAtServer(x)
               \/ RefuseFlood(x) \/ StartFlood(x)
               \/ HandleAcceptedConn(x) \/ ReceiveOffer(x)
        PROVE  x = m
    BY <1>1 DEF HandleIWantStream, HandleAcceptedAtServer, RefuseFlood,
       StartFlood, HandleAcceptedConn, ReceiveOffer
  <1>2. ASSUME \/ \E h \in handlers : FloodTimed(h) \/ \E a \in h.todo : ForwardFlood(h, a)
               \/ \E p \in pending : AcceptOffer(p)
               \/ \E c \in Clients : Ask(c)
               \/ \E c \in Contents : Refresh(c)
               \/ UNCHANGED vars
        PROVE  FALSE
    BY <1>2 DEF FloodTimed, ForwardFlood, AcceptOffer, Ask, Refresh, vars
  <1> QED
    BY <1>1, <1>2 DEF WholeStep

LEMMA GoneHandler ==
    ASSUME WholeStep, NEW h \in handlers, h \notin handlers'
    PROVE  FloodTimed(h) \/ \E a \in h.todo : ForwardFlood(h, a)
  <1>1. ASSUME NEW g \in handlers, FloodTimed(g) \/ \E a \in g.todo : ForwardFlood(g, a)
        PROVE  g = h
    BY <1>1 DEF FloodTimed, ForwardFlood, Advance
  <1>2. ASSUME \/ \E m \in net :
                     \/ HandleIWantStream(m) \/ HandleAcceptedAtServer(m)
                     \/ RefuseFlood(m) \/ StartFlood(m)
                     \/ HandleAcceptedConn(m) \/ ReceiveOffer(m)
               \/ \E p \in pending : AcceptOffer(p)
               \/ \E c \in Clients : Ask(c)
               \/ \E c \in Contents : Refresh(c)
               \/ UNCHANGED vars
        PROVE  FALSE
    BY <1>2 DEF HandleIWantStream, HandleAcceptedAtServer, RefuseFlood,
       StartFlood, HandleAcceptedConn, ReceiveOffer, AcceptOffer, Ask, Refresh,
       vars, relayVars
  <1> QED
    BY <1>1, <1>2 DEF WholeStep

LEMMA GoneOffer ==
    ASSUME WholeStep, NEW p \in pending, p \notin pending'
    PROVE  AcceptOffer(p)
  <1>1. ASSUME NEW q \in pending, AcceptOffer(q) PROVE q = p
    BY <1>1 DEF AcceptOffer
  <1>2. ASSUME \/ \E m \in net :
                     \/ HandleIWantStream(m) \/ HandleAcceptedAtServer(m)
                     \/ RefuseFlood(m) \/ StartFlood(m)
                     \/ HandleAcceptedConn(m) \/ ReceiveOffer(m)
               \/ \E h \in handlers : FloodTimed(h) \/ \E a \in h.todo : ForwardFlood(h, a)
               \/ \E c \in Clients : Ask(c)
               \/ \E c \in Contents : Refresh(c)
               \/ UNCHANGED vars
        PROVE  FALSE
    BY <1>2 DEF HandleIWantStream, HandleAcceptedAtServer, RefuseFlood,
       StartFlood, HandleAcceptedConn, ReceiveOffer, FloodTimed, ForwardFlood,
       Ask, Refresh, vars, clientVars
  <1> QED
    BY <1>1, <1>2 DEF WholeStep

LEMMA OnTheWay ==
    ASSUME NEW w, NEW d, Shortest(w, d), NEW j \in 1 .. d
    PROVE  /\ w[j] \in Relays
           /\ j < d => /\ j + 1 \in 1 .. d /\ w[j + 1] \in Relays
                       /\ w[j] \notin Pops /\ Linked(w[j], w[j + 1])
  <1>1. d \in Nat \ {0} /\ w \in [1 .. d -> Relays] /\ j \in Nat
    BY DEF Shortest, Leads
  <1>2. j < d => j \in 1 .. d - 1 /\ j + 1 \in 1 .. d
    BY <1>1
  <1> QED
    BY <1>1, <1>2 DEF Shortest, Leads

\* A relay at place j has handed out only identifiers longer than j.
LEMMA HandedOutFurther ==
    ASSUME WayInv, BranchInv, NEW w, NEW d, Shortest(w, d), NEW j \in 1 .. d,
           NEW e \in TosOf(table[w[j]])
    PROVE  j < Len(e.id.path)
  <1> DEFINE n == w[j]
  <1>1. n \in Relays /\ table \in [Relays -> SUBSET Entry(Ips)]
    BY OnTheWay DEF BranchInv, Whole, TypeOK
  <1>2. PICK f \in FromsOf(table[n]) : f.id = Parent(e.id)
    BY <1>1 DEF BranchInv, EntryHeld, TosOf, HasSource
  <1>3. e.id \in ConnId /\ f.id \in ConnId
    BY <1>1 DEF TosOf, FromsOf, Entry
  <1>4. PICK k \in 1 .. Len(f.id.path) : Way(k, n)
    BY <1>1 DEF WayInv, Far
  <1>5. Len(e.id.path) \in Nat /\ Len(f.id.path) \in Nat
    BY <1>3, OfConnId
  <1>6. k \in Nat \ {0} /\ k <= Len(f.id.path)
    BY <1>5
  <1>7. j <= k /\ j \in Nat /\ j >= 1
    BY <1>4, <1>6 DEF Shortest
  <1>8. Len(f.id.path) = IF e.id.path = <<>> THEN 0 ELSE Len(e.id.path) - 1
    BY <1>2, <1>3, LengthOfParent
  <1> QED
    BY <1>5, <1>6, <1>7, <1>8

LEMMA NotRefused ==
    ASSUME WayInv, BranchInv, NEW w, NEW d, Shortest(w, d), NEW i \in 1 .. d,
           NEW id \in ConnId, Len(id.path) = i
    PROVE  ~PassesThrough(table[w[i]], id)
  <1> SUFFICES ASSUME NEW e \in TosOf(table[w[i]]), HasPrefix(id, e.id)
               PROVE  FALSE
    BY DEF PassesThrough
  <1>1. i < Len(e.id.path)
    BY HandedOutFurther
  <1>2. Len(e.id.path) <= i
    BY DEF HasPrefix
  <1>3. w[i] \in Relays /\ table \in [Relays -> SUBSET Entry(Ips)]
    BY OnTheWay DEF BranchInv, Whole, TypeOK
  <1>4. Len(e.id.path) \in Nat
    BY <1>3, OfConnId DEF TosOf, Entry
  <1>5. i \in Nat
    OBVIOUS
  <1> QED
    BY <1>1, <1>2, <1>4, <1>5

\* The server floods the request to the first relay of the way.
LEMMA RequestGoesOn ==
    ASSUME WayInv, BranchInv, NEW w, NEW d, Shortest(w, d), NEW c \in Clients,
           Wants[c] \in Available, NEW m \in net, m.client = c,
           HandleIWantStream(m)
    PROVE  Served(w, d, c)'
  <1>1. PICK f \in Numberings(Neighbours, 1) :
           net' = (net \ {m}) \union Reaching(
              {FloodMsg(x, At(Server), Child(Root(Wants[c]), f[x]), c, {}) :
                  x \in Neighbours})
    BY DEF HandleIWantStream
  <1> DEFINE x == w[1]
             s == FloodMsg(x, At(Server), Child(Root(Wants[c]), f[x]), c, {})
  <1>2. 1 \in 1 .. d /\ x \in Neighbours /\ x \in Relays
    <2>1. 1 \in 1 .. d
      BY DEF Shortest
    <2> QED
      BY <2>1, OnTheWay DEF Shortest, Leads
  <1>3. /\ s.type = "ConnFlood" /\ s.dst = x /\ s.client = c
        /\ s.id = Child(Root(Wants[c]), f[x])
    BY DEF FloodMsg
  <1>4. Len(s.id.path) = 1
    <2>1. f[x] \in Suffixes /\ Wants[c] \in Contents
      BY <1>2, SetupAssumption DEF Numberings
    <2> QED
      BY <1>3, <2>1, LengthOfBranch
  <1>5. s \in net'
    <2>1. s.dst \in alive
      BY <1>2, <1>3 DEF BranchInv, Whole, Hosts
    <2> QED
      BY <1>1, <1>2, <2>1 DEF Reaching
  <1> HIDE DEF s
  <1>6. s \in Inbox(w[1], "ConnFlood")'
    BY <1>3, <1>5 DEF Inbox
  <1> QED
    BY <1>2, <1>3, <1>4, <1>6 DEF Served, FloodUnderWay

\* A flood at its place of the way is not refused.
LEMMA FloodGoesOn ==
    ASSUME WayInv, BranchInv, DemandInv, WholeStep, NEW w, NEW d, Shortest(w, d),
           NEW c, NEW i \in 1 .. d, NEW m \in Inbox(w[i], "ConnFlood"),
           m.client = c, Len(m.id.path) = i
    PROVE  Served(w, d, c)'
  <1>1. /\ m \in net /\ m.dst = w[i] /\ m.type = "ConnFlood"
        /\ w[i] \in Relays /\ m.id \in ConnId
    BY OnTheWay, MessageKinds DEF Inbox, BranchInv, Whole, TypeOK, Flood
  <1>2. CASE m \in net'
    <2>1. m \in Inbox(w[i], "ConnFlood")'
      BY <1>1, <1>2 DEF Inbox
    <2> QED
      BY <2>1 DEF Served, FloodUnderWay
  <1>3. CASE m \notin net'
    <2>1. StartFlood(m)
      <3>1. ~RefuseFlood(m)
        BY <1>1, NotRefused DEF RefuseFlood
      <3> QED
        BY <1>1, <1>3, <3>1, TakenMessage, HostsAssumption
        DEF HandleIWantStream, HandleAcceptedAtServer, HandleAcceptedConn,
            ReceiveOffer, Inbox
    <2>2. m.from.ip \in alive
      BY <1>1 DEF DemandInv, MessageInDemand, Sources, BranchInv, Whole, Hosts
    <2> DEFINE h == [node |-> m.dst, stage |-> "timing", from |-> m.from,
                     id |-> m.id, client |-> m.client, trail |-> m.trail,
                     todo |-> {}]
    <2>3. h \in handlers'
      BY <2>1, <2>2 DEF StartFlood
    <2>4. /\ h.node = w[i] /\ h.client = c /\ Len(h.id.path) = i
          /\ h.stage = "timing"
      BY <1>1
    <2> HIDE DEF h
    <2> QED
      BY <2>3, <2>4 DEF Served, FloodUnderWay
  <1> QED
    BY <1>2, <1>3

\* The relay has the next place of the way among its peers, and the flood did
\* not come from there; a POP sends it to the client.
LEMMA TargetsOnward ==
    ASSUME WayInv, BranchInv, NEW w, NEW d, Shortest(w, d), NEW c,
           NEW i \in 1 .. d, NEW h \in handlers, h.node = w[i], h.client = c,
           Len(h.id.path) = i
    PROVE  \E a \in Targets(h) : a.ip = Onward(w, d, i, c)
  <1>1. w[i] \in Relays /\ i \in Nat /\ d \in Nat
    BY OnTheWay DEF Shortest
  <1>2. CASE i = d
    <2>1. Targets(h) = {At(c)} /\ At(c).ip = c
      BY <1>2 DEF Shortest, Targets, At
    <2> QED
      BY <1>2, <2>1 DEF Onward
  <1>3. CASE i # d
    <2>1. i < d
      BY <1>1, <1>3
    <2>2. /\ i + 1 \in 1 .. d /\ w[i + 1] \in Relays
          /\ w[i] \notin Pops /\ Linked(w[i], w[i + 1])
      BY <2>1, OnTheWay
    <2>3. PICK a \in peers[w[i]] : a.ip = w[i + 1]
      BY <1>1, <2>2 DEF WayInv
    <2>4. w[i + 1] # h.from.ip
      <3>1. SUFFICES ASSUME h.from.ip = w[i + 1] PROVE FALSE
        OBVIOUS
      <3>2. PICK e \in TosOf(table[w[i + 1]]) : e.id = h.id
        BY <2>2, <3>1 DEF BranchInv, HandlerHeld, Holds
      <3>3. i + 1 < Len(e.id.path)
        BY <2>2, HandedOutFurther
      <3> QED
        BY <1>1, <3>2, <3>3
    <2>5. a.ip \notin {h.from.ip, Server}
      BY <2>2, <2>3, <2>4, HostsAssumption
    <2>6. a \in Targets(h)
      BY <2>2, <2>3, <2>5 DEF Targets
    <2> QED
      BY <1>3, <2>3, <2>6 DEF Onward
  <1> QED
    BY <1>2, <1>3

\* The goroutine of a flood on the way waits, goes over its peers, or has sent
\* the flood on.
LEMMA TimedGoesOn ==
    ASSUME WayInv, BranchInv, NEW w, NEW d, Shortest(w, d), NEW c,
           NEW i \in 1 .. d, NEW h \in handlers, h.node = w[i], h.client = c,
           Len(h.id.path) = i, FloodTimed(h)
    PROVE  Served(w, d, c)'
  <1> DEFINE next == [h EXCEPT !.stage = "forwarding", !.todo = Targets(h)]
  <1>1. h \in Handler
    BY DEF BranchInv, Whole, TypeOK
  <1>2. /\ next.node = w[i] /\ next.client = c /\ Len(next.id.path) = i
        /\ next.stage = "forwarding" /\ next.todo = Targets(h)
    BY <1>1 DEF Handler
  <1>3. handlers' = Advance(h, next)
    BY DEF FloodTimed
  <1> HIDE DEF next
  <1>4. \E a \in next.todo : a.ip = Onward(w, d, i, c)
    BY <1>2, TargetsOnward
  <1>5. next \in handlers'
    BY <1>3, <1>4 DEF Advance
  <1>6. FloodUnderWay(w, d, c)'
    BY <1>2, <1>4, <1>5 DEF FloodUnderWay, Onward
  <1> QED
    BY <1>6 DEF Served

LEMMA ForwardGoesOn ==
    ASSUME WayInv, BranchInv, NEW w, NEW d, Shortest(w, d), NEW c \in Clients,
           NEW i \in 1 .. d, NEW h \in handlers, h.node = w[i], h.client = c,
           Len(h.id.path) = i, h.stage = "forwarding",
           NEW b \in h.todo, b.ip = Onward(w, d, i, c),
           NEW a \in h.todo, ForwardFlood(h, a)
    PROVE  Served(w, d, c)'
  <1>1. /\ h \in Handler /\ h.id \in ConnId /\ h.node \in Relays
        /\ table \in [Relays -> SUBSET Entry(Ips)] /\ alive = Hosts
    BY DEF BranchInv, Whole, TypeOK, Handler
  <1>2. CASE a.ip # Onward(w, d, i, c)
    <2> DEFINE next == [h EXCEPT !.todo = @ \ {a}]
    <2>1. /\ next.node = w[i] /\ next.client = c /\ Len(next.id.path) = i
          /\ next.stage = "forwarding" /\ next.todo = h.todo \ {a}
      BY <1>1 DEF Handler
    <2>2. handlers' = Advance(h, next)
      BY DEF ForwardFlood
    <2> HIDE DEF next
    <2>3. b \in next.todo
      BY <1>2, <2>1
    <2>4. next \in handlers'
      BY <2>2, <2>3 DEF Advance
    <2>5. FloodUnderWay(w, d, c)'
      BY <2>1, <2>3, <2>4 DEF FloodUnderWay, Onward
    <2> QED
      BY <2>5 DEF Served
  <1>3. CASE a.ip = Onward(w, d, i, c)
    <2>1. PICK new \in OutgoingIds(table[h.node], h.id, a) :
             \E k \in ArrivalPorts(h.node, a, new) :
                net' = net \union Reaching(
                   {FloodMsg(a.ip, [ip |-> h.node, port |-> k], new, h.client,
                             h.trail \union {h.node})})
      BY DEF ForwardFlood
    <2>2. PICK k \in ArrivalPorts(h.node, a, new) :
             net' = net \union Reaching(
                {FloodMsg(a.ip, [ip |-> h.node, port |-> k], new, h.client,
                          h.trail \union {h.node})})
      BY <2>1
    <2> DEFINE from == [ip |-> h.node, port |-> k]
               m == FloodMsg(a.ip, from, new, h.client, h.trail \union {h.node})
    <2>3. /\ m.type = "ConnFlood" /\ m.dst = a.ip /\ m.client = c /\ m.id = new
          /\ from.ip = h.node
      BY DEF FloodMsg
    <2>4. a.ip \in Relays \union Clients
      BY <1>3, OnTheWay DEF Onward, Shortest
    <2>5. m \in net'
      <3>1. m.dst \in alive
        BY <1>1, <2>3, <2>4 DEF Hosts
      <3> QED
        BY <2>2, <3>1 DEF Reaching
    <2>6. new \in ConnId /\ Parent(new) = h.id
      BY <1>1, OutgoingIdGrows
    <2> HIDE DEF m, from
    <2>7. m \in Inbox(a.ip, "ConnFlood")'
      BY <2>3, <2>5 DEF Inbox
    <2>8. CASE i = d
      BY <1>3, <2>7, <2>8 DEF Onward, Served
    <2>9. CASE i # d
      <3>1. i + 1 \in 1 .. d /\ w[i + 1] \in Relays /\ a.ip = w[i + 1]
        <4>1. i < d
          BY <2>9 DEF Shortest
        <4> QED
          BY <1>3, <2>9, <4>1, OnTheWay DEF Onward
      <3>2. Len(m.id.path) = i + 1
        BY <2>3, <2>6, <3>1, FarNext
      <3>3. FloodUnderWay(w, d, c)'
        BY <2>3, <2>7, <3>1, <3>2 DEF FloodUnderWay
      <3> QED
        BY <3>3 DEF Served
    <2> QED
      BY <2>8, <2>9
  <1> QED
    BY <1>2, <1>3

LEMMA HandlerGoesOn ==
    ASSUME WayInv, BranchInv, WholeStep, NEW w, NEW d, Shortest(w, d),
           NEW c \in Clients, NEW i \in 1 .. d, NEW h \in handlers,
           h.node = w[i], h.client = c, Len(h.id.path) = i,
           \/ h.stage = "timing"
           \/ /\ h.stage = "forwarding"
              /\ \E a \in h.todo : a.ip = Onward(w, d, i, c)
    PROVE  Served(w, d, c)'
  <1>1. CASE h \in handlers'
    <2>1. FloodUnderWay(w, d, c)'
      BY <1>1 DEF FloodUnderWay, Onward
    <2> QED
      BY <2>1 DEF Served
  <1>2. CASE FloodTimed(h)
    BY <1>2, TimedGoesOn
  <1>3. ASSUME NEW a \in h.todo, ForwardFlood(h, a)
        PROVE  Served(w, d, c)'
    <2>1. h.stage = "forwarding"
      BY <1>3 DEF ForwardFlood
    <2>2. PICK b \in h.todo : b.ip = Onward(w, d, i, c)
      BY <2>1
    <2> QED
      BY <1>3, <2>1, <2>2, ForwardGoesOn
  <1> QED
    BY <1>1, <1>2, <1>3, GoneHandler

\* An offer is dropped only by a client that has taken one.
LEMMA OfferGoesOn ==
    ASSUME BranchInv, WholeStep, NEW w, NEW d, NEW c \in Clients,
           \/ Inbox(c, "ConnFlood") # {}
           \/ \E p \in pending : p.client = c
           \/ status[c] = "AWAITING_STREAM"
    PROVE  Served(w, d, c)'
  <1>0. status \in [Clients -> {"STARTING", "AWAITING_STREAM"}]
    BY DEF BranchInv, Whole, TypeOK
  <1>1. CASE status[c] = "AWAITING_STREAM"
    <2>1. status'[c] = status[c]
      <3>1. ASSUME NEW p \in pending, AcceptOffer(p)
            PROVE  status'[c] = status[c]
        BY <1>0, <1>1, <3>1 DEF AcceptOffer
      <3> QED
        BY <3>1 DEF WholeStep, HandleIWantStream, HandleAcceptedAtServer,
           RefuseFlood, StartFlood, HandleAcceptedConn, ReceiveOffer,
           FloodTimed, ForwardFlood, Ask, Refresh, vars, clientVars
    <2> QED
      BY <1>1, <2>1 DEF Served
  <1>2. ASSUME NEW p \in pending, p.client = c
        PROVE  Served(w, d, c)'
    <2>1. CASE p \in pending'
      BY <1>2, <2>1 DEF Served
    <2>2. CASE p \notin pending'
      <3>1. AcceptOffer(p)
        BY <2>2, GoneOffer
      <3>2. status'[c] = "AWAITING_STREAM"
        BY <1>0, <1>2, <3>1 DEF AcceptOffer
      <3> QED
        BY <3>2 DEF Served
    <2> QED
      BY <2>1, <2>2
  <1>3. ASSUME NEW m \in Inbox(c, "ConnFlood"), status[c] # "AWAITING_STREAM"
        PROVE  Served(w, d, c)'
    <2>1. m \in net /\ m.dst = c /\ m.type = "ConnFlood"
      BY DEF Inbox
    <2>2. CASE m \in net'
      <3>1. m \in Inbox(c, "ConnFlood")'
        BY <2>1, <2>2 DEF Inbox
      <3> QED
        BY <3>1 DEF Served
    <2>3. CASE m \notin net'
      <3>1. ReceiveOffer(m)
        BY <2>1, <2>3, TakenMessage, HostsAssumption
        DEF HandleIWantStream, HandleAcceptedAtServer, RefuseFlood, StartFlood,
            HandleAcceptedConn, Inbox
      <3> DEFINE p == [client |-> c, from |-> m.from, id |-> m.id]
      <3>2. status[c] = "STARTING"
        BY <1>0, <1>3
      <3>3. p \in pending' /\ p.client = c
        BY <2>1, <3>1, <3>2 DEF ReceiveOffer
      <3> HIDE DEF p
      <3> QED
        BY <3>3 DEF Served
    <2> QED
      BY <2>2, <2>3
  <1> QED
    BY <1>1, <1>2, <1>3

LEMMA ServedStep ==
    ASSUME WayInv, BranchInv, DemandInv, WholeStep, NEW w, NEW d, Shortest(w, d),
           NEW c \in Clients, Wants[c] \in Available, Served(w, d, c)
    PROVE  Served(w, d, c)'
  <1>1. ASSUME NEW m \in Inbox(Server, "IWantStream"), m.client = c
        PROVE  Served(w, d, c)'
    <2>1. m \in net /\ m.dst = Server /\ m.type = "IWantStream"
      BY DEF Inbox
    <2>2. CASE m \in net'
      <3>1. m \in Inbox(Server, "IWantStream")'
        BY <2>1, <2>2 DEF Inbox
      <3> QED
        BY <1>1, <3>1 DEF Served, FloodUnderWay
    <2>3. CASE m \notin net'
      <3>1. HandleIWantStream(m)
        BY <2>1, <2>3, TakenMessage
        DEF HandleAcceptedAtServer, RefuseFlood, StartFlood, HandleAcceptedConn,
            ReceiveOffer, Inbox
      <3> QED
        BY <1>1, <2>1, <3>1, RequestGoesOn
    <2> QED
      BY <2>2, <2>3
  <1>2. ASSUME FloodUnderWay(w, d, c) PROVE Served(w, d, c)'
    BY <1>1, <1>2, FloodGoesOn, HandlerGoesOn DEF FloodUnderWay
  <1> QED
    BY <1>2, OfferGoesOn DEF Served

\* Every client that has asked for something the server has is served.
AllServed(w, d) == \A c \in asked : Wants[c] \in Available => Served(w, d, c)

LEMMA AllServedStep ==
    ASSUME WayInv, BranchInv, DemandInv, WholeStep, NEW w, NEW d, Shortest(w, d),
           AllServed(w, d)
    PROVE  AllServed(w, d)'
  <1>0. asked \subseteq Clients /\ alive = Hosts
    BY DEF BranchInv, Whole, TypeOK
  <1>1. ASSUME NEW c \in asked, Wants[c] \in Available
        PROVE  Served(w, d, c)'
    BY <1>0, <1>1, ServedStep DEF AllServed
  <1>2. ASSUME NEW c \in asked', c \notin asked
        PROVE  Served(w, d, c)'
    <2>1. Ask(c)
      <3>1. ASSUME NEW x \in Clients, Ask(x) PROVE x = c
        BY <1>2, <3>1 DEF Ask
      <3> QED
        BY <1>2, <3>1 DEF WholeStep, HandleIWantStream, HandleAcceptedAtServer,
           RefuseFlood, StartFlood, HandleAcceptedConn, ReceiveOffer,
           FloodTimed, ForwardFlood, AcceptOffer, Refresh, vars, clientVars
    <2> DEFINE m == [type |-> "IWantStream", dst |-> Server, client |-> c]
    <2>2. m.type = "IWantStream" /\ m.dst = Server /\ m.client = c
      OBVIOUS
    <2>3. m \in net'
      <3>1. net' = net \union Reaching({m})
        BY <2>1 DEF Ask
      <3> HIDE DEF m
      <3> QED
        BY <1>0, <2>2, <3>1 DEF Reaching, Hosts
    <2> HIDE DEF m
    <2>4. m \in Inbox(Server, "IWantStream")'
      BY <2>2, <2>3 DEF Inbox
    <2> QED
      BY <2>2, <2>4 DEF Served, FloodUnderWay
  <1> QED
    BY <1>1, <1>2 DEF AllServed

LEMMA QuietServed ==
    ASSUME NEW w, NEW d, NEW c, Served(w, d, c), Quiet
    PROVE  status[c] = "AWAITING_STREAM"
  BY DEF Served, FloodUnderWay, Inbox, Quiet

\* If, besides, some way leads from the server to a POP, every client whose
\* content the server has is fed once the overlay comes to rest, whatever other
\* requests and refreshes flooded the same relays: a request is never lost
\* among the floods that are refused.
THEOREM FedWhenQuietAlways ==
    NoFaults /\ OneEnd /\ PlainNames /\ PopInReach =>
        (Spec => []FedWhenQuiet)
  <1> SUFFICES ASSUME NoFaults, OneEnd, PlainNames, PopInReach
               PROVE  Spec => []FedWhenQuiet
    OBVIOUS
  <1>1. PICK d, w : Shortest(w, d)
    BY ShortestWay
  <1> DEFINE Inv == /\ BranchInv /\ ClientInv /\ DemandInv /\ BranchesFed
                    /\ WayInv /\ AllServed(w, d)
  <1>2. Init => Inv
    <2>1. Init => AllServed(w, d)
      BY DEF Init, AllServed
    <2> QED
      BY <2>1, TakenInit
  <1>3. Inv /\ [Next]_vars => Inv'
    BY <1>1, TakenStep, AllServedStep
  <1>4. Inv /\ TakenIsFed => FedWhenQuiet
    <2> SUFFICES ASSUME Inv, TakenIsFed, Quiet, NEW c \in asked,
                        Wants[c] \in Available
                 PROVE  Fed(c)
      BY DEF FedWhenQuiet
    <2>1. c \in Clients
      BY DEF BranchInv, Whole, TypeOK
    <2>2. status[c] = "AWAITING_STREAM"
      BY QuietServed DEF AllServed
    <2> QED
      BY <2>1, <2>2 DEF TakenIsFed, Quiet
  <1> QED
    BY <1>2, <1>3, <1>4, TakenIsFedAlways, PTL DEF Spec
-----------------------------------------------------------------------------
(***************************************************************************)
(* ShortIds: an identifier has one number more than its flood has been     *)
(* through relays, and NoFloodLoops makes these all different.  A refresh  *)
(* forgets where the branch it floods again has been, but takes it from    *)
(* the routes of the server, which are of one number.                      *)
(***************************************************************************)
\* A network of finitely many relays.
FiniteRelays == IsFiniteSet(Relays)

ShortFlood(id, from, x) ==
    /\ Len(id.path) <= Cardinality(x) + 1
    /\ from.ip = Server => Len(id.path) <= 1

ShortMessage(m) ==
    /\ m.type = "ConnFlood" => ShortFlood(m.id, m.from, m.trail)
    /\ m.type = "AcceptedConn" /\ m.dst = Server => Len(m.id.path) <= 1

ShortEntry(e) ==
    /\ Len(e.id.path) <= Cardinality(Relays) + 1
    /\ e.side = "from" /\ e.addr.ip = Server => Len(e.id.path) <= 1

ShortInv ==
    /\ \A m \in net : ShortMessage(m)
    /\ \A h \in handlers : ShortFlood(h.id, h.from, h.trail)
    /\ \A n \in Relays : \A e \in table[n] : ShortEntry(e)
    /\ \A r \in routes : Len(r.id.path) <= 1

LEMMA TrailGrows ==
    ASSUME FiniteRelays, NEW x \in SUBSET Relays, NEW n \in Relays, n \notin x
    PROVE  /\ Cardinality(x) \in Nat /\ Cardinality(Relays) \in Nat
           /\ Cardinality(x \union {n}) = Cardinality(x) + 1
           /\ Cardinality(x) + 1 <= Cardinality(Relays)
  <1>1. IsFiniteSet(x) /\ Cardinality(Relays) \in Nat
    BY FS_Subset, FS_CardinalityType DEF FiniteRelays
  <1>2. Cardinality(x) \in Nat /\ Cardinality(x \union {n}) = Cardinality(x) + 1
    BY <1>1, FS_CardinalityType, FS_AddElement
  <1>3. Cardinality(x \union {n}) <= Cardinality(Relays)
    BY FS_Subset DEF FiniteRelays
  <1> QED
    BY <1>1, <1>2, <1>3

\* A step preserves the invariant when all it adds is short.
LEMMA ShortKept ==
    ASSUME ShortInv,
           \A m \in net' : m \in net \/ ShortMessage(m),
           \A h \in handlers' :
               \/ \E g \in handlers : /\ g.id = h.id /\ g.from = h.from
                                     /\ g.trail = h.trail
               \/ ShortFlood(h.id, h.from, h.trail),
           \A n \in Relays : \A e \in table'[n] :
               (\E f \in table[n] : SameKey(f, e)) \/ ShortEntry(e),
           \A r \in routes' : r \in routes \/ Len(r.id.path) <= 1
    PROVE  ShortInv'
  <1>1. \A m \in net' : ShortMessage(m)
    BY DEF ShortInv
  <1>2. \A h \in handlers' : ShortFlood(h.id, h.from, h.trail)
    BY DEF ShortInv
  <1>3. ASSUME NEW n \in Relays, NEW e \in table'[n], NEW f \in table[n],
               SameKey(f, e)
        PROVE  ShortEntry(e)
    BY <1>3 DEF ShortInv, ShortEntry, SameKey
  <1>4. \A r \in routes' : Len(r.id.path) <= 1
    BY DEF ShortInv
  <1> QED
    BY <1>1, <1>2, <1>3, <1>4 DEF ShortInv, ShortMessage, ShortFlood, ShortEntry

LEMMA ShortSame ==
    ASSUME ShortInv, UNCHANGED <<table, routes>>,
           \A m \in net' : m \in net \/ ShortMessage(m),
           \A h \in handlers' :
               \/ \E g \in handlers : /\ g.id = h.id /\ g.from = h.from
                                     /\ g.trail = h.trail
               \/ ShortFlood(h.id, h.from, h.trail)
    PROVE  ShortInv'
  BY ShortKept DEF SameKey

\* The floods of the server.
LEMMA ShortFromServer ==
    ASSUME NEW m, m.type = "ConnFlood", m.trail = {}, Len(m.id.path) <= 1
    PROVE  ShortMessage(m)
  BY FS_EmptySet DEF ShortMessage, ShortFlood

LEMMA ShortServer ==
    ASSUME ShortInv, BranchInv,
           \/ \E m \in net : \/ HandleIWantStream(m) \/ HandleAcceptedAtServer(m)
                             \/ RefuseFlood(m) \/ ReceiveOffer(m)
           \/ \E c \in Contents : Refresh(c)
           \/ \E c \in Clients : Ask(c)
           \/ UNCHANGED vars
    PROVE  ShortInv'
  <1>1. UNCHANGED <<table, handlers>>
    BY DEF HandleIWantStream, HandleAcceptedAtServer, RefuseFlood, ReceiveOffer,
       Refresh, Ask, vars, relayVars
  <1>2. ASSUME NEW m \in net, HandleIWantStream(m)
        PROVE  ShortInv'
    <2>1. PICK f \in Numberings(Neighbours, 1) :
             \A x \in net' : x \in net \/ \E y \in Neighbours :
                x = FloodMsg(y, At(Server), Child(Root(Wants[m.client]), f[y]),
                             m.client, {})
      BY <1>2 DEF HandleIWantStream, Reaching
    <2>2. m.client \in Clients /\ Wants[m.client] \in Contents
      BY <1>2, MessageKinds, SetupAssumption
      DEF HandleIWantStream, Inbox, BranchInv, Whole, TypeOK, IWantStream
    <2>3. ASSUME NEW x \in net', x \notin net
          PROVE  ShortMessage(x)
      <3>1. PICK y \in Neighbours :
               x = FloodMsg(y, At(Server), Child(Root(Wants[m.client]), f[y]),
                            m.client, {})
        BY <2>1, <2>3
      <3>2. /\ x.type = "ConnFlood" /\ x.trail = {}
            /\ x.id = Child(Root(Wants[m.client]), f[y])
        BY <3>1 DEF FloodMsg
      <3>3. Len(x.id.path) <= 1
        <4>1. f[y] \in Suffixes
          BY DEF Numberings
        <4>2. Len(x.id.path) = 1
          BY <2>2, <3>2, <4>1, LengthOfBranch
        <4> QED
          BY <4>2
      <3> QED
        BY <3>2, <3>3, ShortFromServer
    <2>4. UNCHANGED routes
      BY <1>2 DEF HandleIWantStream, serverVars
    <2> QED
      BY <1>1, <2>3, <2>4, ShortSame
  <1>3. ASSUME NEW m \in net, HandleAcceptedAtServer(m)
        PROVE  ShortInv'
    <2>1. m.type = "AcceptedConn" /\ m.dst = Server /\ net' \subseteq net
      BY <1>3 DEF HandleAcceptedAtServer, Inbox
    <2>2. Len(m.id.path) <= 1
      BY <2>1 DEF ShortInv, ShortMessage
    <2>3. ASSUME NEW r \in routes', r \notin routes
          PROVE  r.id = m.id
      BY <1>3, <2>3 DEF HandleAcceptedAtServer
    <2>4. \A n \in Relays : \A e \in table'[n] : \E f \in table[n] : SameKey(f, e)
      BY <1>1 DEF SameKey
    <2> QED
      BY <1>1, <2>1, <2>2, <2>3, <2>4, ShortKept
  <1>4. ASSUME NEW c \in Contents, Refresh(c)
        PROVE  ShortInv'
    <2>1. PICK pick \in KeptRoutes(c), top \in LargestSuffix(c) :
             \E f \in Numberings(Receivers(c), top) :
                \A x \in net' : x \in net \/ x \in RefreshFloods(c, pick, f)
      BY <1>4 DEF Refresh, Reaching
    <2>2. PICK f \in Numberings(Receivers(c), top) :
             \A x \in net' : x \in net \/ x \in RefreshFloods(c, pick, f)
      BY <2>1
    <2>3. ASSUME NEW x \in net', x \notin net
          PROVE  ShortMessage(x)
      <3>1. PICK y \in Receivers(c) :
               \/ x = FloodMsg(y, At(Server), pick[y].id, NoClient, {})
               \/ x = FloodMsg(y, At(Server), Child(Root(c), f[y]), NoClient, {})
        BY <2>2, <2>3 DEF RefreshFloods
      <3>2. /\ x.type = "ConnFlood" /\ x.trail = {}
            /\ x.id = pick[y].id \/ x.id = Child(Root(c), f[y])
        BY <3>1 DEF FloodMsg
      <3>3. Len(pick[y].id.path) <= 1
        BY DEF KeptRoutes, RoutesOf, ShortInv
      <3>4. Len(Child(Root(c), f[y]).path) = 1
        BY LengthOfBranch DEF Numberings
      <3>5. Len(x.id.path) <= 1
        BY <3>2, <3>3, <3>4
      <3> QED
        BY <3>2, <3>5, ShortFromServer
    <2>4. UNCHANGED routes
      BY <1>4 DEF Refresh
    <2> QED
      BY <1>1, <2>3, <2>4, ShortSame
  <1>5. ASSUME \/ \E m \in net : RefuseFlood(m) \/ ReceiveOffer(m)
               \/ \E c \in Clients : Ask(c)
               \/ UNCHANGED vars
        PROVE  ShortInv'
    <2>1. /\ \A m \in net' : m \in net \/ m.type = "IWantStream"
          /\ UNCHANGED routes
      BY <1>5 DEF RefuseFlood, ReceiveOffer, Ask, Reaching, vars, serverVars
    <2>2. \A m \in net' : m \in net \/ ShortMessage(m)
      BY <2>1 DEF ShortMessage
    <2> QED
      BY <1>1, <2>1, <2>2, ShortSame
  <1> QED
    BY <1>2, <1>3, <1>4, <1>5

LEMMA ShortFloods ==
    ASSUME FiniteRelays, ShortInv, LoopInv,
           \/ \E m \in net : StartFlood(m)
           \/ \E h \in handlers : FloodTimed(h)
    PROVE  ShortInv'
  <1>1. ASSUME NEW m \in net, StartFlood(m)
        PROVE  ShortInv'
    <2>1. ShortFlood(m.id, m.from, m.trail)
      BY <1>1 DEF StartFlood, ShortInv, ShortMessage
    <2>2. \A h \in handlers' : h \in handlers \/ ShortFlood(h.id, h.from, h.trail)
      BY <1>1, <2>1, StartedHandler
    <2>3. UNCHANGED <<table, routes>> /\ net' \subseteq net
      BY <1>1 DEF StartFlood, serverVars
    <2> QED
      BY <2>2, <2>3, ShortSame
  <1>2. ASSUME NEW h \in handlers, FloodTimed(h)
        PROVE  ShortInv'
    <2> DEFINE in   == FromEntry(h.from, h.id, FALSE)
               next == [h EXCEPT !.stage = "forwarding", !.todo = Targets(h)]
    <2>1. /\ h \in Handler /\ h.node \in Relays /\ h.trail \in SUBSET Relays
          /\ h.id \in ConnId /\ h.node \notin h.trail
          /\ table \in [Relays -> SUBSET Entry(Ips)]
      BY DEF LoopInv, NoFloodLoops, Whole, TypeOK, Handler
    <2>2. next.id = h.id /\ next.from = h.from /\ next.trail = h.trail
      BY <2>1 DEF Handler
    <2>3. in.addr = h.from /\ in.id = h.id
      BY DEF FromEntry
    <2>4. /\ table' = [table EXCEPT ![h.node] = AddEntry(@, in)]
          /\ handlers' = Advance(h, next)
          /\ UNCHANGED <<routes, net>>
      BY <1>2 DEF FloodTimed, serverVars
    <2> HIDE DEF in, next
    <2>5. ShortEntry(in)
      <3>1. ShortFlood(h.id, h.from, h.trail)
        BY DEF ShortInv
      <3>2. /\ Cardinality(h.trail) \in Nat /\ Cardinality(Relays) \in Nat
            /\ Cardinality(h.trail) + 1 <= Cardinality(Relays)
        BY <2>1, TrailGrows
      <3>3. Len(h.id.path) \in Nat
        BY <2>1, OfConnId
      <3>4. Len(h.id.path) <= Cardinality(Relays) + 1
        BY <3>1, <3>2, <3>3 DEF ShortFlood
      <3> QED
        BY <2>3, <3>1, <3>4 DEF ShortFlood, ShortEntry
    <2>6. \A g \in handlers' : \E f \in handlers :
             f.id = g.id /\ f.from = g.from /\ f.trail = g.trail
      BY <2>2, <2>4 DEF Advance
    <2>7. \A n \in Relays : \A e \in table'[n] :
             (\E f \in table[n] : SameKey(f, e)) \/ ShortEntry(e)
      BY <2>1, <2>4, <2>5 DEF AddEntry, SameKey
    <2> QED
      BY <2>4, <2>6, <2>7, ShortKept
  <1> QED
    BY <1>1, <1>2

LEMMA ShortForward ==
    ASSUME FiniteRelays, ShortInv, LoopInv, NEW h \in handlers, NEW a \in h.todo,
           ForwardFlood(h, a)
    PROVE  ShortInv'
  <1>1. /\ h \in Handler /\ h.node \in Relays /\ h.trail \in SUBSET Relays
        /\ h.id \in ConnId /\ h.node \notin h.trail
        /\ table \in [Relays -> SUBSET Entry(Ips)]
        /\ UNCHANGED routes
    BY DEF ForwardFlood, LoopInv, NoFloodLoops, Whole, TypeOK, Handler, serverVars
  <1>2. PICK new \in OutgoingIds(table[h.node], h.id, a) :
           \E k \in ArrivalPorts(h.node, a, new) : Forwarded(h, a, new, k)
    BY ForwardsOne
  <1>3. PICK k \in ArrivalPorts(h.node, a, new) : Forwarded(h, a, new, k)
    BY <1>2
  <1>4. new \in ConnId /\ Len(new.path) <= Len(h.id.path) + 1
    <2>1. new \in ConnId /\ Parent(new) = h.id
      BY <1>1, OutgoingIdGrows
    <2>2. Len(new.path) \in Nat /\ (new.path = <<>> => Len(new.path) = 0)
      BY <2>1, OfConnId
    <2> QED
      BY <2>1, <2>2, LengthOfParent
  <1>5. Len(new.path) \in Nat /\ Len(h.id.path) \in Nat
    BY <1>1, <1>4, OfConnId
  <1>6. /\ Len(h.id.path) <= Cardinality(h.trail) + 1
        /\ Cardinality(h.trail) \in Nat /\ Cardinality(Relays) \in Nat
        /\ Cardinality(h.trail \union {h.node}) = Cardinality(h.trail) + 1
        /\ Cardinality(h.trail) + 1 <= Cardinality(Relays)
    BY <1>1, TrailGrows DEF ShortInv, ShortFlood
  <1>7. ASSUME NEW m \in net', m \notin net
        PROVE  ShortMessage(m)
    <2>1. /\ m.type = "ConnFlood" /\ m.id = new
          /\ m.from.ip = h.node /\ m.trail = h.trail \union {h.node}
      BY <1>3, <1>7 DEF Forwarded
    <2>2. Len(new.path) <= Cardinality(h.trail \union {h.node}) + 1
      BY <1>4, <1>5, <1>6
    <2> QED
      BY <1>1, <2>1, <2>2, HostsAssumption DEF ShortMessage, ShortFlood
  <1>8. ASSUME NEW n \in Relays, NEW e \in table'[n]
        PROVE  (\E f \in table[n] : SameKey(f, e)) \/ ShortEntry(e)
    <2>1. e \in table[n] \/ e = ToEntry(a, new, FALSE)
      BY <1>1, <1>3 DEF Forwarded, AddOutgoing
    <2>2. Len(new.path) <= Cardinality(Relays) + 1
      BY <1>4, <1>5, <1>6
    <2>3. ShortEntry(ToEntry(a, new, FALSE))
      BY <2>2 DEF ShortEntry, ToEntry
    <2> QED
      BY <2>1, <2>3 DEF SameKey
  <1>9. ASSUME NEW g \in handlers'
        PROVE  \E f \in handlers :
                  f.id = g.id /\ f.from = g.from /\ f.trail = g.trail
    <2>1. g \in handlers \/ g = [h EXCEPT !.todo = @ \ {a}]
      BY DEF ForwardFlood, Advance
    <2> QED
      BY <1>1, <2>1 DEF Handler
  <1> QED
    BY <1>1, <1>7, <1>8, <1>9, ShortKept

LEMMA ShortAccept ==
    ASSUME ShortInv, BranchInv, ClientInv,
           \/ \E m \in net : HandleAcceptedConn(m)
           \/ \E p \in pending : AcceptOffer(p)
    PROVE  ShortInv'
  <1>1. ASSUME NEW m \in net, HandleAcceptedConn(m)
        PROVE  ShortInv'
    <2> DEFINE up == Upstreams(table[m.dst], m.id)
    <2>1. /\ m.dst \in Relays /\ table \in [Relays -> SUBSET Entry(Ips)]
          /\ UNCHANGED <<handlers, routes>>
      BY <1>1 DEF HandleAcceptedConn, BranchInv, Whole, TypeOK, serverVars
    <2>2. ASSUME NEW n \in Relays, NEW e \in table'[n]
          PROVE  \E f \in table[n] : SameKey(f, e)
      <3>1. table'[n] = table[n] \/ \E S : table'[n] = MarkInUse(table[n], S)
        BY <1>1, <2>1 DEF HandleAcceptedConn, Accept
      <3> QED
        BY <2>1, <3>1, MarkInUseEntry DEF SameKey
    <2>3. ASSUME NEW x \in net', x \notin net
          PROVE  ShortMessage(x)
      <3>1. PICK e \in up : x = AcceptedMsg(e.addr.ip, Seen(m.dst, e.addr), e.id)
        <4>1. net' = (net \ {m}) \union Reaching(
                 {AcceptedMsg(e.addr.ip, Seen(m.dst, e.addr), e.id) : e \in up})
          BY <1>1 DEF HandleAcceptedConn
        <4> HIDE DEF up
        <4> QED
          BY <2>3, <4>1 DEF Reaching
      <3>2. x.type = "AcceptedConn" /\ x.dst = e.addr.ip /\ x.id = e.id
        BY <3>1 DEF AcceptedMsg
      <3>3. ShortEntry(e) /\ e.side = "from"
        BY <2>1 DEF Upstreams, FromsOf, ShortInv
      <3> QED
        BY <3>2, <3>3 DEF ShortMessage, ShortEntry
    <2> QED
      BY <2>1, <2>2, <2>3, ShortKept
  <1>2. ASSUME NEW p \in pending, AcceptOffer(p)
        PROVE  ShortInv'
    <2>1. UNCHANGED <<table, handlers, routes>>
      BY <1>2 DEF AcceptOffer, relayVars, serverVars
    <2>2. p.from.ip \in Relays
      BY DEF ClientInv, OfferWanted
    <2>3. ASSUME NEW x \in net', x \notin net
          PROVE  ShortMessage(x)
      <3>1. x.type = "AcceptedConn" /\ x.dst = p.from.ip
        BY <1>2, <2>3 DEF AcceptOffer, Reaching, AcceptedMsg
      <3> QED
        BY <2>2, <3>1, HostsAssumption DEF ShortMessage
    <2> QED
      BY <2>1, <2>3, ShortSame
  <1> QED
    BY <1>1, <1>2

\* Where no process stops and no content ends, no identifier grows longer than
\* the network is large: on any topology of finitely many relays every flood
\* comes to an end, whatever floods, refreshes and acceptances interleave.
THEOREM ShortIdsAlways == NoFaults /\ FiniteRelays => (Spec => []ShortIds)
  <1> SUFFICES ASSUME NoFaults, FiniteRelays PROVE Spec => []ShortIds
    OBVIOUS
  <1> DEFINE Inv == LoopInv /\ BranchInv /\ ClientInv /\ ShortInv
  <1>1. Init => Inv
    <2>1. Init => LoopInv /\ ShortInv
      BY WholeInit DEF Init, LoopInv, NoFloodLoops, ShortInv
    <2> QED
      BY <2>1, BranchInit, WantedInit DEF ClientInv
  <1>2. Inv /\ [Next]_vars => Inv'
    <2> SUFFICES ASSUME Inv, [Next]_vars PROVE Inv'
      OBVIOUS
    <2>1. BranchInv' /\ TypeOK' /\ WholeStep
      BY BranchStep
    <2>2. LoopInv' /\ ClientInv'
      BY <2>1, LoopStep, WantedStep
    <2>3. ShortInv'
      BY <2>1, ShortServer, ShortFloods, ShortForward, ShortAccept DEF WholeStep
    <2> QED
      BY <2>1, <2>2, <2>3
  <1>3. Inv => ShortIds
    BY DEF ShortInv, ShortEntry, ShortIds
  <1> QED
    BY <1>1, <1>2, <1>3, PTL DEF Spec
=============================================================================
