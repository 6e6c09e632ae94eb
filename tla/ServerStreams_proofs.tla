------------------------ MODULE ServerStreams_proofs ------------------------
(***************************************************************************)
(* No route of the server is ever abandoned, for every number of           *)
(* goroutines.  NoRouteAbandoned is not inductive: a goroutine that ends   *)
(* on the sight of an ongoing stream leaves its route to whoever plays     *)
(* that stream, and OngoingPlayed says that there is one.                  *)
(***************************************************************************)
EXTENDS ServerStreams, TLAPS

StreamsInv == TypeOK /\ OngoingPlayed /\ NoRouteAbandoned

LEMMA InitInv == Init => StreamsInv
<1> SUFFICES ASSUME Init PROVE StreamsInv
  OBVIOUS
<1>1. (CHOOSE id \in Branches : TRUE) \in Branches
  BY BranchesAssumption
<1>2. TypeOK
  BY <1>1 DEF Init, TypeOK, StreamingEntry, Route, Places
<1>3. OngoingPlayed /\ NoRouteAbandoned
  BY DEF Init, OngoingPlayed, NoRouteAbandoned
<1> QED
  BY <1>2, <1>3 DEF StreamsInv

\* The contents of branches are contents, and their own keys.
LEMMA BranchContent ==
    ASSUME NEW id \in Branches
    PROVE  id.content \in Contents /\ KeyOf(id) = id.content
BY BranchesAssumption, PlainNames DEF ConnId, KeyOf

\* An acceptance adds a route together with the goroutine that looks after it.
LEMMA AcceptStep ==
    ASSUME StreamsInv, NEW w \in Workers, NEW to \in Neighbours,
           NEW id \in Branches, HandleAcceptedConn(w, to, id)
    PROVE  StreamsInv'
<1>1. id.content \in Contents /\ KeyOf(id) = id.content
  BY BranchContent
<1>2. /\ pc[w] = "idle"
      /\ \A v \in Workers : v # w => pc'[v] = pc[v] /\ conn'[v] = conn[v]
      /\ pc'[w] = "look" /\ conn'[w] = id
  BY DEF StreamsInv, TypeOK, HandleAcceptedConn, GoTo
<1>3. TypeOK'
  BY DEF StreamsInv, TypeOK, HandleAcceptedConn, GoTo, Route, Places
<1>4. OngoingPlayed'
  <2> SUFFICES ASSUME NEW c \in ongoing'
               PROVE  \E v \in Workers : pc'[v] = "play" /\ conn'[v].content = c
    BY DEF OngoingPlayed, ContentOf
  <2>1. c \in ongoing
    BY DEF HandleAcceptedConn
  <2>2. PICK v \in Workers : pc[v] = "play" /\ conn[v].content = c
    BY <2>1 DEF StreamsInv, OngoingPlayed, ContentOf
  <2> QED
    BY <1>2, <2>2
<1>5. NoRouteAbandoned'
  <2> SUFFICES ASSUME NEW r \in routes'
               PROVE  \E v \in Workers :
                         pc'[v] \in Working /\ conn'[v].content = KeyOf(r.id)
    BY DEF NoRouteAbandoned, ContentOf, KeyOf
  <2>1. CASE r \in routes
    <3>1. PICK v \in Workers :
              pc[v] \in Working /\ conn[v].content = KeyOf(r.id)
      BY <2>1 DEF StreamsInv, NoRouteAbandoned, ContentOf
    <3> QED
      BY <1>2, <3>1 DEF Working
  <2>2. CASE r = [to |-> to, id |-> id]
    BY <1>1, <1>2, <2>2 DEF Working
  <2> QED
    BY <2>1, <2>2 DEF HandleAcceptedConn
<1> QED
  BY <1>3, <1>4, <1>5 DEF StreamsInv

\* A goroutine that finds the content ongoing leaves its route to the one that
\* plays it.
LEMMA LookStep ==
    ASSUME StreamsInv, NEW w \in Workers, Look(w)
    PROVE  StreamsInv'
<1>1. /\ pc[w] = "look"
      /\ conn' = conn /\ routes' = routes /\ ongoing' = ongoing
      /\ \A v \in Workers : v # w => pc'[v] = pc[v]
      /\ pc'[w] = "start" \/ conn[w].content \in ongoing
  BY DEF StreamsInv, TypeOK, Look, GoTo, ContentOf
<1>2. TypeOK'
  BY DEF StreamsInv, TypeOK, Look, GoTo, Places
<1>3. OngoingPlayed'
  <2> SUFFICES ASSUME NEW c \in ongoing
               PROVE  \E v \in Workers : pc'[v] = "play" /\ conn[v].content = c
    BY <1>1 DEF OngoingPlayed, ContentOf
  <2>1. PICK v \in Workers : pc[v] = "play" /\ conn[v].content = c
    BY DEF StreamsInv, OngoingPlayed, ContentOf
  <2> QED
    BY <1>1, <2>1
<1>4. NoRouteAbandoned'
  <2> SUFFICES ASSUME NEW r \in routes
               PROVE  \E v \in Workers :
                         pc'[v] \in Working /\ conn[v].content = KeyOf(r.id)
    BY <1>1 DEF NoRouteAbandoned, ContentOf, KeyOf
  <2>1. PICK v \in Workers : pc[v] \in Working /\ conn[v].content = KeyOf(r.id)
    BY DEF StreamsInv, NoRouteAbandoned, ContentOf
  <2>2. CASE v # w \/ pc'[w] = "start"
    BY <1>1, <2>1, <2>2 DEF Working
  <2>3. CASE v = w /\ conn[w].content \in ongoing
    <3>1. PICK u \in Workers : pc[u] = "play" /\ conn[u].content = conn[w].content
      BY <2>3 DEF StreamsInv, OngoingPlayed, ContentOf
    <3> QED
      BY <1>1, <2>1, <2>3, <3>1 DEF Working
  <2> QED
    BY <1>1, <2>2, <2>3
<1> QED
  BY <1>2, <1>3, <1>4 DEF StreamsInv

\* The steps of a goroutine that goes on working keep the routes in its care.
LEMMA WorkStep ==
    ASSUME StreamsInv, NEW w \in Workers, Start(w) \/ Finish(w) \/ Unlist(w)
    PROVE  StreamsInv'
<1>1. /\ conn' = conn /\ routes' = routes
      /\ \A v \in Workers : v # w => pc'[v] = pc[v]
      /\ pc'[w] \in Working
      /\ \/ ongoing' = ongoing /\ pc[w] = "unlist"
         \/ ongoing' = ongoing \union {conn[w].content} /\ pc'[w] = "play"
         \/ ongoing' = ongoing \ {conn[w].content} /\ pc[w] = "play"
  BY DEF StreamsInv, TypeOK, Start, Finish, Unlist, GoTo, ContentOf, Working
<1>2. conn[w] \in Branches /\ conn[w].content \in Contents
  BY BranchContent DEF StreamsInv, TypeOK
<1>3. TypeOK'
  BY <1>2 DEF StreamsInv, TypeOK, Start, Finish, Unlist, GoTo, Places, ContentOf,
     StreamingEntry, OthersThan
<1>4. OngoingPlayed'
  <2> SUFFICES ASSUME NEW c \in ongoing'
               PROVE  \E v \in Workers : pc'[v] = "play" /\ conn[v].content = c
    BY <1>1 DEF OngoingPlayed, ContentOf
  <2>1. CASE c = conn[w].content /\ pc'[w] = "play"
    BY <2>1
  <2>2. CASE c \in ongoing /\ (pc[w] # "play" \/ c # conn[w].content)
    <3>1. PICK v \in Workers : pc[v] = "play" /\ conn[v].content = c
      BY <2>2 DEF StreamsInv, OngoingPlayed, ContentOf
    <3> QED
      BY <1>1, <2>2, <3>1
  <2>3. \/ c = conn[w].content /\ pc'[w] = "play"
        \/ c \in ongoing /\ (pc[w] # "play" \/ c # conn[w].content)
    <3>1. CASE ongoing' = ongoing /\ pc[w] = "unlist"
      BY <3>1
    <3>2. CASE ongoing' = ongoing \ {conn[w].content} /\ pc[w] = "play"
      BY <3>2
    <3>3. CASE ongoing' = ongoing \union {conn[w].content} /\ pc'[w] = "play"
      BY <3>3
    <3> QED
      BY <1>1, <3>1, <3>2, <3>3
  <2> QED
    BY <2>1, <2>2, <2>3
<1>5. NoRouteAbandoned'
  BY <1>1 DEF StreamsInv, NoRouteAbandoned, ContentOf, KeyOf
<1> QED
  BY <1>3, <1>4, <1>5 DEF StreamsInv

\* The goroutine that purges leaves no route of its content behind.
LEMMA PurgeStep ==
    ASSUME StreamsInv, NEW w \in Workers, Purge(w)
    PROVE  StreamsInv'
<1>1. /\ conn' = conn /\ ongoing' = ongoing
      /\ routes' = {r \in routes : KeyOf(r.id) # conn[w].content}
      /\ pc[w] = "purge"
      /\ \A v \in Workers : v # w => pc'[v] = pc[v]
  BY DEF StreamsInv, TypeOK, Purge, GoTo, ContentOf, RoutesOf
<1>2. conn[w] \in Branches /\ conn[w].content \in Contents
  BY BranchContent DEF StreamsInv, TypeOK
<1>3. TypeOK'
  <2>1. routes' \subseteq Route /\ \A r \in routes : r.to \in Neighbours
    BY <1>1 DEF StreamsInv, TypeOK, Route
  <2>2. told' \subseteq Neighbours \X Contents
    BY <1>2, <2>1 DEF StreamsInv, TypeOK, Purge, RoutesOf, ContentOf
  <2> QED
    BY <2>1, <2>2 DEF StreamsInv, TypeOK, Purge, GoTo, Places
<1>4. OngoingPlayed'
  BY <1>1 DEF StreamsInv, OngoingPlayed, ContentOf
<1>5. NoRouteAbandoned'
  BY <1>1 DEF StreamsInv, NoRouteAbandoned, ContentOf, KeyOf
<1> QED
  BY <1>3, <1>4, <1>5 DEF StreamsInv

LEMMA NextInv == StreamsInv /\ [Next]_vars => StreamsInv'
<1> SUFFICES ASSUME StreamsInv, [Next]_vars PROVE StreamsInv'
  OBVIOUS
<1>1. ASSUME NEW w \in Workers, NEW to \in Neighbours, NEW id \in Branches,
             HandleAcceptedConn(w, to, id)
      PROVE  StreamsInv'
  BY <1>1, AcceptStep
<1>2. ASSUME NEW w \in Workers, Goroutine(w) PROVE StreamsInv'
  BY <1>2, LookStep, WorkStep, PurgeStep DEF Goroutine
<1>3. ASSUME NEW w \in Workers, MapFault(w) PROVE StreamsInv'
  BY <1>3 DEF MapFault, StreamsInv, TypeOK, OngoingPlayed, NoRouteAbandoned,
              Places
<1>4. CASE UNCHANGED vars
  BY <1>4 DEF vars, StreamsInv, TypeOK, OngoingPlayed, NoRouteAbandoned,
              ContentOf, KeyOf
<1> QED
  BY <1>1, <1>2, <1>3, <1>4 DEF Next

\* The variables hold values of their kinds, in every state of the goroutines.
THEOREM TypeCorrect == Spec => []TypeOK
<1>1. StreamsInv => TypeOK
  BY DEF StreamsInv
<1> QED
  BY <1>1, InitInv, NextInv, PTL DEF Spec

\* Every route of the server is always in the care of a goroutine, however the
\* tests, settings and purges of Stream interleave.
THEOREM NoRouteAbandonedAlways == Spec => []NoRouteAbandoned
<1>1. StreamsInv => NoRouteAbandoned
  BY DEF StreamsInv
<1> QED
  BY <1>1, InitInv, NextInv, PTL DEF Spec

\* A content marked ongoing is being played by some goroutine, whoever set the
\* mark and however many of them play it.
THEOREM OngoingPlayedAlways == Spec => []OngoingPlayed
<1>1. StreamsInv => OngoingPlayed
  BY DEF StreamsInv
<1> QED
  BY <1>1, InitInv, NextInv, PTL DEF Spec
=============================================================================
