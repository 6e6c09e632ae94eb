--------------------------- MODULE ServerStreams ---------------------------
(***************************************************************************)
(* The streams of the server (src/server/main.go, HandleAcceptedConn and   *)
(* Stream).  Every acceptance adds a route and starts a goroutine.  The    *)
(* goroutine plays the file if OngoingStreams does not name the content,   *)
(* and ends at once if it does; the one that played takes the content off  *)
(* OngoingStreams, then off StreamingTable, then purges the routes of the  *)
(* content and tells their receivers.  The test and the setting of         *)
(* OngoingStreams are two steps, so two goroutines may play one content.   *)
(*                                                                         *)
(* OngoingStreams is a plain map that the goroutines and the periodic      *)
(* refresh use without a lock: a write that meets another use may be       *)
(* detected by the runtime, which ends the process.                        *)
(***************************************************************************)
EXTENDS ConnIds

CONSTANTS
    Workers,    \* the goroutines of the run, one per acceptance (a bound)
    Neighbours, \* the relays that accept branches
    Branches    \* the identifiers they accept

ASSUME BranchesAssumption == Branches \subseteq ConnId /\ Branches # {}

\* No content has a hyphen in its name: GetConnContent then gives back the
\* content that HandleAcceptedConn reads between the brackets.
ASSUME PlainNames == \A c \in Contents : ContentKey[c] = c

VARIABLES
    up,         \* the process runs
    routes,     \* RoutingTable (every entry of the server is in use)
    ongoing,    \* OngoingStreams
    streaming,  \* StreamingTable
    pc,         \* where each goroutine is
    conn,       \* the branch whose acceptance started it
    told        \* <<x, c>>: x was sent the end of c after it last accepted c

vars == <<up, routes, ongoing, streaming, pc, conn, told>>

Route == [to : Neighbours, id : Branches]
StreamingEntry == [conn : Branches, stream : Contents]
Places == {"idle", "look", "start", "play", "unlist", "purge", "done"}

ContentOf(w) == conn[w].content
RoutesOf(c)  == {r \in routes : KeyOf(r.id) = c}
OthersThan(c) == {e \in streaming : e.stream # c}

Init ==
    /\ up = TRUE
    /\ routes = {} /\ ongoing = {} /\ streaming = {} /\ told = {}
    /\ pc = [w \in Workers |-> "idle"]
    /\ conn = [w \in Workers |-> CHOOSE id \in Branches : TRUE]

GoTo(w, place) == pc' = [pc EXCEPT ![w] = place]

\* HandleAcceptedConn: the route, and go Stream.
HandleAcceptedConn(w, to, id) ==
    /\ up /\ pc[w] = "idle"
    /\ routes' = routes \union {[to |-> to, id |-> id]}
    /\ conn' = [conn EXCEPT ![w] = id]
    /\ told' = told \ {<<to, KeyOf(id)>>}
    /\ GoTo(w, "look")
    /\ UNCHANGED <<up, ongoing, streaming>>

Look(w) ==
    /\ up /\ pc[w] = "look"
    /\ GoTo(w, IF ContentOf(w) \in ongoing THEN "done" ELSE "start")
    /\ UNCHANGED <<up, routes, ongoing, streaming, conn, told>>

\* Mutant of Start: marks the branch and not the content.
StartBranch(w) ==
    /\ up /\ pc[w] = "start"
    /\ streaming' = streaming \union {[conn |-> conn[w], stream |-> ContentOf(w)]}
    /\ ongoing' = ongoing \union {conn[w]}
    /\ GoTo(w, "play")
    /\ UNCHANGED <<up, routes, conn, told>>

Start(w) ==
    /\ up /\ pc[w] = "start"
    /\ streaming' = streaming \union {[conn |-> conn[w], stream |-> ContentOf(w)]}
    /\ ongoing' = ongoing \union {ContentOf(w)}
    /\ GoTo(w, "play")
    /\ UNCHANGED <<up, routes, conn, told>>

\* Mutant of Finish: the content stays ongoing.
FinishStillOngoing(w) ==
    /\ up /\ pc[w] = "play"
    /\ GoTo(w, "unlist")
    /\ UNCHANGED <<up, routes, ongoing, streaming, conn, told>>

\* PacketizeVideo has come to the end of the file.
Finish(w) ==
    /\ up /\ pc[w] = "play"
    /\ ongoing' = ongoing \ {ContentOf(w)}
    /\ GoTo(w, "unlist")
    /\ UNCHANGED <<up, routes, streaming, conn, told>>

Unlist(w) ==
    /\ up /\ pc[w] = "unlist"
    /\ streaming' = OthersThan(ContentOf(w))
    /\ GoTo(w, "purge")
    /\ UNCHANGED <<up, routes, ongoing, conn, told>>

\* Mutant of Purge: only the route of the goroutine's own branch is purged.
PurgeOwn(w) ==
    /\ up /\ pc[w] = "purge"
    /\ routes' = {r \in routes : r.id # conn[w]}
    /\ told' = told \union
                {<<r.to, ContentOf(w)>> : r \in {r \in routes : r.id = conn[w]}}
    /\ GoTo(w, "done")
    /\ UNCHANGED <<up, ongoing, streaming, conn>>

Purge(w) ==
    /\ up /\ pc[w] = "purge"
    /\ routes' = routes \ RoutesOf(ContentOf(w))
    /\ told' = told \union
                {<<r.to, ContentOf(w)>> : r \in RoutesOf(ContentOf(w))}
    /\ GoTo(w, "done")
    /\ UNCHANGED <<up, ongoing, streaming, conn>>

\* A goroutine that writes OngoingStreams meets the periodic refresh, or
\* another goroutine, at it.
MapFault(w) ==
    /\ up /\ pc[w] \in {"start", "play"}
    /\ up' = FALSE
    /\ routes' = {} /\ ongoing' = {} /\ streaming' = {}
    /\ pc' = [v \in Workers |-> "done"]
    /\ UNCHANGED <<conn, told>>

Goroutine(w) == Look(w) \/ Start(w) \/ Finish(w) \/ Unlist(w) \/ Purge(w)

Next ==
    \/ \E w \in Workers, to \in Neighbours, id \in Branches :
          HandleAcceptedConn(w, to, id)
    \/ \E w \in Workers : Goroutine(w) \/ MapFault(w)

Spec == Init /\ [][Next]_vars

\* The scheduler runs every goroutine, and a file has an end.
FairSpec == Spec /\ \A w \in Workers : WF_vars(Goroutine(w))
-----------------------------------------------------------------------------
\* The variables hold values of their kinds.
TypeOK ==
    /\ up \in BOOLEAN
    /\ routes \subseteq Route
    /\ ongoing \subseteq Contents
    /\ streaming \subseteq StreamingEntry
    /\ pc \in [Workers -> Places]
    /\ conn \in [Workers -> Branches]
    /\ told \subseteq Neighbours \X Contents

\* Where a goroutine that may still look after the routes of its content is.
Working == {"look", "start", "play", "unlist", "purge"}

\* A content that is marked ongoing is being played, also when a second
\* goroutine of that content has ended and taken the mark of the first.
OngoingPlayed ==
    \A c \in ongoing : \E w \in Workers : pc[w] = "play" /\ ContentOf(w) = c

\* No route is abandoned: there is always a goroutine that plays its content,
\* is about to look whether it must, or will purge the route and tell its
\* receiver, although the goroutine that the acceptance started may have ended
\* on the sight of a stream that ended right after.
NoRouteAbandoned ==
    \A r \in routes : \E w \in Workers :
        pc[w] \in Working /\ ContentOf(w) = KeyOf(r.id)

\* A neighbour that accepted a content is told of its end, whichever of the
\* goroutines of the content plays it and whichever purges the route.
EveryReceiverTold ==
    \A x \in Neighbours, c \in Contents :
        (\E r \in RoutesOf(c) : r.to = x) ~> (up => <<x, c>> \in told)
=============================================================================
