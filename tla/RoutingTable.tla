---------------------------- MODULE RoutingTable ----------------------------
(***************************************************************************)
(* The routing table of a relay (src/common/routingTable.go) as a value: a *)
(* set of entries and what each operation of the code makes of it.  Every  *)
(* operator is one critical section of RoutingTable.MU.                    *)
(*                                                                         *)
(* An entry of the code has exactly one of From and To; here "side" says   *)
(* which one and "addr" is its value.  No two entries agree on side,       *)
(* address and identifier, so the slice is a set; where the code takes the *)
(* first entry in slice order, the caller takes any.  The timing columns   *)
(* are left out, and HopsSinceSplit is a function of the identifier and of *)
(* the kind of relay (handleConnFlood sets it to the number of hops at a   *)
(* POP and leaves it zero elsewhere).                                      *)
(***************************************************************************)
EXTENDS ConnIds

\* A peer as this process sees it.  Port 0 is the listening port 8888, port 1
\* the ephemeral port of the connection the peer announced itself on, ports
\* from 2 on those of the connections it dialled later.
Addr(Ips) == [ip : Ips, port : Nat]

Entry(Ips) ==
    [side : {"from", "to"}, addr : Addr(Ips), id : ConnId, inUse : BOOLEAN]

FromEntry(a, id, u) == [side |-> "from", addr |-> a, id |-> id, inUse |-> u]
ToEntry(a, id, u)   == [side |-> "to",   addr |-> a, id |-> id, inUse |-> u]

FromsOf(T) == {e \in T : e.side = "from"}
TosOf(T)   == {e \in T : e.side = "to"}

SameKey(e, f) == e.side = f.side /\ e.addr = f.addr /\ e.id = f.id

\* AddEntry: an entry with the same key is replaced.
AddEntry(T, e) == {f \in T : ~SameKey(e, f)} \union {e}

\* Mutant of PassesThrough: compares whole identifiers.
PassesThroughHere(T, id) == \E e \in TosOf(T) : id = e.id

\* PassesThrough: the identifier extends one this relay has handed out.
PassesThrough(T, id) == \E e \in TosOf(T) : HasPrefix(id, e.id)

\* Mutant of OutgoingOf: does not look at the host.
OutgoingOfBranch(T, id, a) == {e \in TosOf(T) : Parent(e.id) = id}

\* The outgoing entry of branch id towards the host of a, if there is one.
OutgoingOf(T, id, a) ==
    {e \in TosOf(T) : Parent(e.id) = id /\ e.addr.ip = a.ip}

\* Mutant of UsedSuffixes: counts the branches in use only.
UsedSuffixesActive(T, id) ==
    {LastOf(e.id) : e \in {f \in T : f.inUse /\ Descends(f.id, id)}}

\* The last numbers of the identifiers below id.
UsedSuffixes(T, id) == {LastOf(e.id) : e \in {f \in T : Descends(f.id, id)}}

\* AddOutgoingForConn: the identifiers it may return.  A branch that already
\* goes to that host keeps its identifier; a new one is numbered one above the
\* largest last number of every identifier below id, grandchildren included.
OutgoingIds(T, id, a) ==
    IF OutgoingOf(T, id, a) # {}
    THEN {e.id : e \in OutgoingOf(T, id, a)}
    ELSE {Child(id, n) : n \in {k \in Suffixes :
              /\ k - 1 \in UsedSuffixes(T, id) \union {0}
              /\ \A u \in UsedSuffixes(T, id) : u < k}}

\* Mutants of AddOutgoing: an entry per host and not per branch; the entry made
\* active, as AddActiveOutgoingForConn does; an entry that is there replaced,
\* as AddEntry does.
AddOutgoingPerHost(T, id, a, new) ==
    IF \E e \in TosOf(T) : e.addr.ip = a.ip
    THEN T ELSE T \union {ToEntry(a, new, FALSE)}
AddOutgoingActive(T, id, a, new) ==
    IF OutgoingOf(T, id, a) # {} THEN T ELSE T \union {ToEntry(a, new, TRUE)}
AddOutgoingReplacing(T, id, a, new) == AddEntry(T, ToEntry(a, new, FALSE))

\* AddOutgoingForConn: the table it leaves when it returns identifier new.
AddOutgoing(T, id, a, new) ==
    IF OutgoingOf(T, id, a) # {} THEN T ELSE T \union {ToEntry(a, new, FALSE)}

\* Mutant of Upstreams: the arguments of HasPrefix swapped.
UpstreamsSwapped(T, id) == {e \in FromsOf(T) : HasPrefix(e.id, id) /\ e.id # id}

\* handleAcceptedConn: the entries an acceptance of id travels up along.
Upstreams(T, id) == {e \in FromsOf(T) : HasPrefix(id, e.id)}

\* Map with a closure that sets InUse on the entries of S.
MarkInUse(T, S) == {[e EXCEPT !.inUse = @ \/ e \in S] : e \in T}

\* handleAcceptedConn: the branch the neighbour accepted and every branch it
\* grew from are marked in use.
Accept(T, id, from) ==
    MarkInUse(T, Upstreams(T, id) \union
                 {e \in TosOf(T) : e.id = id /\ e.addr = from})

OfContent(T, key) == {e \in T : KeyOf(e.id) = key}

\* PruneOrphans: the outgoing entries whose parent branch has no source left.
Orphans(T) ==
    {e \in TosOf(T) : \A f \in FromsOf(T) : f.id # Parent(e.id)}

\* handleDeath, a relay has died: the entries of the dead host; the branches
\* to look for when one of its incoming entries was in use; and everything
\* that is removed: those entries, what hangs below those branches and, last,
\* the orphans of what is left.
EntriesOfHost(T, ip) == {e \in T : e.addr.ip = ip}

CutBranches(T, ip) ==
    UNION {{e.id, Parent(e.id)} :
               e \in {f \in FromsOf(EntriesOfHost(T, ip)) : f.inUse}}

BelowCut(T, ip) ==
    {e \in T : \E c \in CutBranches(T, ip) : HasPrefix(e.id, c)}

LostWith(T, ip) ==
    LET cut == EntriesOfHost(T, ip) \union BelowCut(T, ip)
    IN  cut \union Orphans(T \ cut)

\* Mutant of Interrupted: looks at the incoming entries.
InterruptedSources(removed, key) ==
    {e.addr.ip : e \in {f \in OfContent(FromsOf(removed), key) : f.inUse}}

\* handleDeath: the receivers of content key that have lost their branch.
Interrupted(removed, key) ==
    {e.addr.ip : e \in {f \in OfContent(TosOf(removed), key) : f.inUse}}

\* Mutant of Reactivate: does not look at who lost the branch.
ReactivateAll(T, key, ips) == MarkInUse(T, OfContent(TosOf(T), key))

\* handleDeath: every outgoing entry of the content to a host that lost its
\* branch is marked in use.
Reactivate(T, key, ips) ==
    MarkInUse(T, {e \in OfContent(TosOf(T), key) : e.addr.ip \in ips})
=============================================================================
