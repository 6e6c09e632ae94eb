------------------------------- MODULE Demand -------------------------------
(***************************************************************************)
(* What the overlay promises about demand, without floods, identifiers,    *)
(* tables or messages: contents flow only where somebody asked for them.   *)
(*                                                                         *)
(* A client takes its own content from a relay; a host that is asked for a *)
(* content passes the demand on, under the same content, and starts to     *)
(* feed whoever asked; a relay that lost its source turns to another one.  *)
(* Demand is never taken back: feeding may stop at any time, and resume.   *)
(***************************************************************************)
EXTENDS Naturals

CONSTANTS
    Server, Relays, Clients,
    Keys,    \* the contents
    Want     \* the content each client asks for

VARIABLES
    asked,    \* the clients that have sent their request
    accepts,  \* <<x, y, k>>: x has asked y for content k
    feeds     \* <<x, y, k>>: y forwards content k to x

vars == <<asked, accepts, feeds>>

Sources  == Relays \union {Server}
Demanded == {Want[c] : c \in asked}

Init == asked = {} /\ accepts = {} /\ feeds = {}

Ask(c) ==
    /\ asked' = asked \union {c}
    /\ UNCHANGED <<accepts, feeds>>

\* A client takes the offer of relay y.
Take(c, y) ==
    /\ c \in asked
    /\ accepts' = accepts \union {<<c, y, Want[c]>>}
    /\ UNCHANGED <<asked, feeds>>

\* The host that was asked turns to hosts of its own, and feeds who asked.
PassOn(a) ==
    LET n == a[2]
        k == a[3]
    IN
    /\ \E up \in SUBSET Sources :
          accepts' = accepts \union {<<n, y, k>> : y \in up}
    /\ feeds' \in {feeds, feeds \union {a}}
    /\ UNCHANGED asked

\* A relay that somebody has asked for something turns to another source, for
\* any content in demand.
FailOver(a, y, k) ==
    /\ a[2] \in Relays
    /\ k \in Demanded
    /\ accepts' = accepts \union {<<a[2], y, k>>}
    /\ UNCHANGED <<asked, feeds>>

\* Relay n resumes what it was asked for.
Resume(n) ==
    /\ UNCHANGED <<asked, accepts>>
    /\ feeds \subseteq feeds'
    /\ \A f \in feeds' \ feeds : f \in accepts /\ f[2] = n

Cease ==
    /\ UNCHANGED <<asked, accepts>>
    /\ feeds' \subseteq feeds

Next ==
    \/ Cease
    \/ \E c \in Clients : Ask(c)
    \/ \E n \in Relays : Resume(n)
    \/ \E c \in Clients, y \in Relays : Take(c, y)
    \/ \E a \in accepts : PassOn(a)
    \/ \E a \in accepts, y \in Sources, k \in Keys : FailOver(a, y, k)

Spec == Init /\ [][Next]_vars
=============================================================================
