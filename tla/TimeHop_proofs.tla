--------------------------- MODULE TimeHop_proofs ---------------------------
(***************************************************************************)
(* A reader that hands an answer over always finds the one that awaits it, *)
(* for any number of relays, connections, floods and readers.              *)
(*                                                                         *)
(* NoReaderStranded is not inductive: it would fail if two readers had the *)
(* same answer, or if one came for a hop that has had its answer.  HopInv  *)
(* adds that no message is anywhere twice (NoCopies), that an answer, or a *)
(* request, is only anywhere while the reader of its flood is still to get *)
(* it (Asked), and who entered the ids that are awaited (Entered).         *)
(***************************************************************************)
EXTENDS TimeHop, SequenceTheorems, TLAPS

Msgs(s) == {s[i] : i \in 1 .. Len(s)}
Distinct(s) == \A i, j \in 1 .. Len(s) : s[i] = s[j] => i = j

\* Every message is in one place only: on one wire or with one reader.
NoCopies(rs, w) ==
    /\ \A l \in Links : Distinct(w[l])
    /\ \A l, k \in Links : \A m \in Msgs(w[l]) : m \in Msgs(w[k]) => l = k
    /\ \A r \in rs : r.buf # <<>> /\ Distinct(r.buf)
    /\ \A r, q \in rs : \A m \in Msgs(r.buf) : m \in Msgs(q.buf) => r = q
    /\ \A r \in rs, l \in Links : \A m \in Msgs(r.buf) : m \notin Msgs(w[l])

Somewhere(m, rs, w) ==
    (\E l \in Links : m \in Msgs(w[l])) \/ (\E r \in rs : m \in Msgs(r.buf))

Flood(f) == [kind |-> "flood", id |-> f]

\* q times the hop of flood f.
Times(q, f) == Head1(q) = Flood(f)

Roles == \A r \in readers :
            /\ r.pc \in {"sent", "waiting", "got"} => Head1(r).kind = "flood"
            /\ r.pc = "giving" => Head1(r).kind = "hop"
Underway == \A m \in Message : Somewhere(m, readers, wire) => m.id \in sent \ done
Asked == \A m \in Message :
            m.kind = "hop" /\ Somewhere(m, readers, wire) =>
               \E q \in readers : Times(q, m.id) /\ q.pc \in {"sent", "waiting"}
Entered == \A l \in Links : \A f \in awaiting[l] :
              \E q \in readers : /\ q.at = l /\ Times(q, f)
                                 /\ q.pc \in {"waiting", "got"}

HopInv ==
    /\ TypeOK /\ NoCopies(readers, wire)
    /\ Roles /\ Underway /\ Asked /\ Entered /\ NoReaderStranded
-----------------------------------------------------------------------------
\* Sequences of messages: what Append, Tail and a cut do to their messages.
LEMMA Appended ==
    ASSUME NEW s \in Seq(Message), NEW m \in Message
    PROVE  /\ Append(s, m) \in Seq(Message)
           /\ Msgs(Append(s, m)) = Msgs(s) \union {m}
           /\ Distinct(s) /\ m \notin Msgs(s) => Distinct(Append(s, m))
<1>1. /\ Len(s) \in Nat /\ Append(s, m) \in Seq(Message)
      /\ Len(Append(s, m)) = Len(s) + 1 /\ Append(s, m)[Len(s) + 1] = m
      /\ \A i \in 1 .. Len(s) : Append(s, m)[i] = s[i]
  BY AppendProperties, LenProperties
<1> DEFINE t == Append(s, m)
<1> HIDE DEF t
<1>2. \A i \in 1 .. Len(t) : i \in 1 .. Len(s) \/ i = Len(s) + 1
  BY <1>1, SMT DEF t
<1>3. \A i \in 1 .. Len(s) : i \in 1 .. Len(t)
  BY <1>1, SMT DEF t
<1>4. Len(s) + 1 \in 1 .. Len(t)
  BY <1>1, SMT DEF t
<1>5. Msgs(t) = Msgs(s) \union {m}
  BY <1>1, <1>2, <1>3, <1>4 DEF Msgs, t
<1>6. ASSUME Distinct(s), m \notin Msgs(s)
      PROVE  Distinct(t)
  <2> SUFFICES ASSUME NEW i \in 1 .. Len(t), NEW j \in 1 .. Len(t), t[i] = t[j]
               PROVE  i = j
    BY DEF Distinct
  <2>1. CASE i \in 1 .. Len(s) /\ j \in 1 .. Len(s)
    BY <1>1, <1>6, <2>1 DEF Distinct, t
  <2>2. CASE i = Len(s) + 1 /\ j = Len(s) + 1
    BY <2>2
  <2>3. CASE i \in 1 .. Len(s) /\ j = Len(s) + 1
    BY <1>1, <1>6, <2>3 DEF Msgs, t
  <2>4. CASE i = Len(s) + 1 /\ j \in 1 .. Len(s)
    BY <1>1, <1>6, <2>4 DEF Msgs, t
  <2> QED
    BY <1>2, <2>1, <2>2, <2>3, <2>4
<1> QED
  BY <1>1, <1>5, <1>6 DEF t

LEMMA Tailed ==
    ASSUME NEW s \in Seq(Message), s # <<>>
    PROVE  /\ Head(s) \in Msgs(s) /\ Head(s) \in Message
           /\ Tail(s) \in Seq(Message)
           /\ Len(s) \in Nat /\ (Len(s) > 1 <=> Tail(s) # <<>>)
           /\ Msgs(Tail(s)) \subseteq Msgs(s)
           /\ Distinct(s) => Distinct(Tail(s)) /\ Head(s) \notin Msgs(Tail(s))
<1> DEFINE t == Tail(s)
<1>1. /\ Len(s) \in Nat /\ Len(s) # 0 /\ t \in Seq(Message)
      /\ Len(t) = Len(s) - 1 /\ Head(s) = s[1] /\ Head(s) \in Message
      /\ \A i \in 1 .. Len(t) : t[i] = s[i + 1]
  BY HeadTailProperties, LenProperties
<1> HIDE DEF t
<1>2. /\ 1 \in 1 .. Len(s)
      /\ \A i \in 1 .. Len(t) : i + 1 \in 1 .. Len(s) /\ i + 1 # 1
      /\ \A i, j \in 1 .. Len(t) : i + 1 = j + 1 => i = j
  BY <1>1, SMT
<1>3. Head(s) \in Msgs(s) /\ Msgs(t) \subseteq Msgs(s)
  BY <1>1, <1>2 DEF Msgs
<1>4. ASSUME Distinct(s) PROVE Distinct(t) /\ Head(s) \notin Msgs(t)
  BY <1>1, <1>2, <1>4 DEF Distinct, Msgs
<1>5. Len(s) > 1 <=> t # <<>>
  BY <1>1
<1> QED
  BY <1>1, <1>3, <1>4, <1>5 DEF t

LEMMA Cut ==
    ASSUME NEW s \in Seq(Message), NEW k \in 1 .. Len(s)
    PROVE  LET a == SubSeq(s, 1, k)
               b == SubSeq(s, k + 1, Len(s)) IN
           /\ a \in Seq(Message) /\ b \in Seq(Message) /\ a # <<>>
           /\ Msgs(a) \subseteq Msgs(s) /\ Msgs(b) \subseteq Msgs(s)
           /\ Distinct(s) => /\ Distinct(a) /\ Distinct(b)
                             /\ \A m \in Msgs(a) : m \notin Msgs(b)
<1> DEFINE a == SubSeq(s, 1, k)
<1> DEFINE b == SubSeq(s, k + 1, Len(s))
<1>1. Len(s) \in Nat /\ k \in Nat /\ 1 <= k /\ k <= Len(s)
  BY LenProperties, SMT
<1>2. \A i \in 1 .. Len(s) : s[i] \in Message
  BY ElementOfSeq
<1>3. a \in Seq(Message) /\ Len(a) = k /\ \A i \in 1 .. k : a[i] = s[i]
  <2>1. \A i \in 1 .. k : s[i] \in Message
    BY <1>1, <1>2, SMT
  <2>2. /\ a \in Seq(Message) /\ Len(a) = IF 1 <= k THEN k - 1 + 1 ELSE 0
        /\ \A i \in 1 .. k - 1 + 1 : a[i] = s[1 + i - 1]
    BY <1>1, <2>1, SubSeqProperties
  <2>3. k - 1 + 1 = k /\ \A i \in 1 .. k : 1 + i - 1 = i
    BY <1>1, SMT
  <2> HIDE DEF a
  <2> QED
    BY <1>1, <2>2, <2>3
<1>4. /\ b \in Seq(Message) /\ Len(b) = Len(s) - k
      /\ \A i \in 1 .. Len(s) - k : b[i] = s[k + i]
  <2>1. \A i \in k + 1 .. Len(s) : s[i] \in Message
    BY <1>1, <1>2, SMT
  <2>2. /\ b \in Seq(Message)
        /\ Len(b) = IF k + 1 <= Len(s) THEN Len(s) - (k + 1) + 1 ELSE 0
        /\ \A i \in 1 .. Len(s) - (k + 1) + 1 : b[i] = s[(k + 1) + i - 1]
    BY <1>1, <2>1, SubSeqProperties
  <2>3. /\ Len(s) - (k + 1) + 1 = Len(s) - k
        /\ \A i \in 1 .. Len(s) - k : (k + 1) + i - 1 = k + i
    BY <1>1, SMT
  <2> HIDE DEF b
  <2>4. Len(b) = Len(s) - k
    BY <1>1, <2>2, SMT
  <2> QED
    BY <2>2, <2>3, <2>4
<1> HIDE DEF a, b
<1>5. /\ \A i \in 1 .. k : i \in 1 .. Len(s)
      /\ \A i \in 1 .. Len(s) - k : k + i \in 1 .. Len(s)
      /\ \A i \in 1 .. k, j \in 1 .. Len(s) - k : i # k + j
      /\ \A i, j \in 1 .. Len(s) - k : k + i = k + j => i = j
  BY <1>1, SMT
<1>6. Msgs(a) \subseteq Msgs(s) /\ Msgs(b) \subseteq Msgs(s)
  <2>1. \A i \in 1 .. k : a[i] \in Msgs(s)
    BY <1>3, <1>5 DEF Msgs
  <2>2. \A i \in 1 .. Len(s) - k : b[i] \in Msgs(s)
    BY <1>4, <1>5 DEF Msgs
  <2> QED
    BY <1>3, <1>4, <2>1, <2>2 DEF Msgs
<1>7. ASSUME Distinct(s)
      PROVE  Distinct(a) /\ Distinct(b) /\ \A m \in Msgs(a) : m \notin Msgs(b)
  <2>1. Distinct(a)
    BY <1>3, <1>5, <1>7 DEF Distinct
  <2>2. Distinct(b)
    BY <1>4, <1>5, <1>7 DEF Distinct
  <2>3. ASSUME NEW i \in 1 .. k, NEW j \in 1 .. Len(s) - k PROVE a[i] # b[j]
    <3>1. /\ a[i] = s[i] /\ b[j] = s[k + j] /\ i # k + j
          /\ i \in 1 .. Len(s) /\ k + j \in 1 .. Len(s)
      BY <1>3, <1>4, <1>5
    <3> QED
      BY <1>7, <3>1 DEF Distinct
  <2> QED
    BY <1>3, <1>4, <2>1, <2>2, <2>3 DEF Msgs
<1>8. a # <<>>
  BY <1>1, <1>3
<1> QED
  BY <1>3, <1>4, <1>6, <1>7, <1>8 DEF a, b
-----------------------------------------------------------------------------
\* What the steps do to the places of messages: one is sent that is nowhere,
\* a reader is done with its first message, a reader only goes on.
Wires == [Links -> Seq(Message)]
Changed(rs, r, pc) == (rs \ {r}) \union {[r EXCEPT !.pc = pc]}

LEMMA Sent ==
    ASSUME NEW rs \in SUBSET Reader, NEW w \in Wires, NoCopies(rs, w),
           NEW l \in Links, NEW m \in Message, ~ Somewhere(m, rs, w)
    PROVE  LET v == [w EXCEPT ![l] = Append(@, m)] IN
           /\ v \in Wires /\ NoCopies(rs, v)
           /\ \A x : Somewhere(x, rs, v) => x = m \/ Somewhere(x, rs, w)
<1> DEFINE v == [w EXCEPT ![l] = Append(@, m)]
<1>1. /\ w[l] \in Seq(Message)
      /\ \A k \in Links : v[k] = IF k = l THEN Append(w[l], m) ELSE w[k]
  BY DEF Wires
<1>2. /\ Append(w[l], m) \in Seq(Message)
      /\ Msgs(Append(w[l], m)) = Msgs(w[l]) \union {m}
      /\ Distinct(w[l]) /\ m \notin Msgs(w[l]) => Distinct(Append(w[l], m))
  BY <1>1, Appended
<1>3. v \in Wires
  BY <1>2 DEF Wires
<1>4. /\ \A k \in Links : m \notin Msgs(w[k])
      /\ \A r \in rs : m \notin Msgs(r.buf)
  BY DEF Somewhere
<1> HIDE DEF v
<1>5. \A k \in Links : /\ Distinct(v[k])
                       /\ \A x \in Msgs(v[k]) : x \in Msgs(w[k]) \/ (x = m /\ k = l)
  BY <1>1, <1>2, <1>4 DEF NoCopies
<1>6. NoCopies(rs, v)
  <2>1. \A j, k \in Links : \A x \in Msgs(v[j]) : x \in Msgs(v[k]) => j = k
    BY <1>4, <1>5 DEF NoCopies
  <2>2. \A r \in rs, k \in Links : \A x \in Msgs(r.buf) : x \notin Msgs(v[k])
    BY <1>4, <1>5 DEF NoCopies
  <2> QED
    BY <1>5, <2>1, <2>2 DEF NoCopies
<1>7. \A x : Somewhere(x, rs, v) => x = m \/ Somewhere(x, rs, w)
  BY <1>5 DEF Somewhere
<1> QED
  BY <1>3, <1>6, <1>7 DEF v

LEMMA Gone ==
    ASSUME TypeOK, NoCopies(readers, wire), NEW r \in readers
    PROVE  /\ Handled(r) \in SUBSET Reader /\ NoCopies(Handled(r), wire)
           /\ Head1(r) \in Message /\ Somewhere(Head1(r), readers, wire)
           /\ ~ Somewhere(Head1(r), Handled(r), wire)
           /\ \A x : Somewhere(x, Handled(r), wire) => Somewhere(x, readers, wire)
           /\ readers \ {r} \subseteq Handled(r)
           /\ \A q \in Handled(r) : q \in readers \ {r} \/ q.pc = "next"
<1> DEFINE t == [r EXCEPT !.buf = Tail(@), !.pc = "next"]
<1>1. /\ r \in Reader /\ r.buf \in Seq(Message) /\ r.buf # <<>> /\ Distinct(r.buf)
      /\ Head1(r) = Head(r.buf)
  BY DEF TypeOK, Reader, NoCopies, Head1
<1>2. /\ Head1(r) \in Msgs(r.buf) /\ Head1(r) \in Message
      /\ Tail(r.buf) \in Seq(Message)
      /\ Len(r.buf) > 1 => Tail(r.buf) # <<>>
      /\ Msgs(Tail(r.buf)) \subseteq Msgs(r.buf)
      /\ Distinct(Tail(r.buf)) /\ Head1(r) \notin Msgs(Tail(r.buf))
  BY <1>1, Tailed
<1>3. t \in Reader /\ t.buf = Tail(r.buf) /\ t.pc = "next"
  BY <1>1, <1>2 DEF Reader
<1> HIDE DEF t
<1>4. \A q \in Handled(r) : \/ q \in readers \ {r}
                            \/ q = t /\ Tail(r.buf) # <<>>
  BY <1>2 DEF Handled, t
<1>5. readers \ {r} \subseteq Handled(r)
  BY DEF Handled
<1>6. \A q \in readers \ {r} : \A m \in Msgs(q.buf) : m \notin Msgs(r.buf)
  BY DEF NoCopies
<1>7. Handled(r) \in SUBSET Reader
  BY <1>3, <1>4 DEF TypeOK
<1>8. NoCopies(Handled(r), wire)
  <2>1. \A q \in Handled(r) : q.buf # <<>> /\ Distinct(q.buf)
    BY <1>2, <1>3, <1>4 DEF NoCopies
  <2>2. ASSUME NEW p \in Handled(r), NEW q \in Handled(r),
               NEW m \in Msgs(p.buf), m \in Msgs(q.buf)
        PROVE  p = q
    <3>1. CASE p \in readers \ {r} /\ q \in readers \ {r}
      BY <2>2, <3>1 DEF NoCopies
    <3>2. CASE p = t /\ q \in readers \ {r}
      BY <1>2, <1>3, <1>6, <2>2, <3>2
    <3>3. CASE p \in readers \ {r} /\ q = t
      BY <1>2, <1>3, <1>6, <2>2, <3>3
    <3> QED
      BY <1>4, <3>1, <3>2, <3>3
  <2>3. \A q \in Handled(r), l \in Links : \A m \in Msgs(q.buf) : m \notin Msgs(wire[l])
    BY <1>2, <1>3, <1>4 DEF NoCopies
  <2> QED
    BY <2>1, <2>2, <2>3 DEF NoCopies
<1>9. Somewhere(Head1(r), readers, wire)
  BY <1>2 DEF Somewhere
<1>10. ~ Somewhere(Head1(r), Handled(r), wire)
  <2>1. \A l \in Links : Head1(r) \notin Msgs(wire[l])
    BY <1>2 DEF NoCopies
  <2>2. \A q \in Handled(r) : Head1(r) \notin Msgs(q.buf)
    BY <1>2, <1>3, <1>4, <1>6
  <2> QED
    BY <2>1, <2>2 DEF Somewhere
<1>11. \A x : Somewhere(x, Handled(r), wire) => Somewhere(x, readers, wire)
  BY <1>2, <1>3, <1>4 DEF Somewhere
<1> QED
  BY <1>2, <1>3, <1>4, <1>5, <1>7, <1>8, <1>9, <1>10, <1>11

LEMMA GoesOn ==
    ASSUME NEW rs \in SUBSET Reader, NEW w \in Wires, NoCopies(rs, w), NEW r \in rs,
           NEW pc \in {"next", "sent", "waiting", "got", "giving"}
    PROVE  /\ [r EXCEPT !.pc = pc] \in Reader
           /\ Changed(rs, r, pc) \in SUBSET Reader /\ NoCopies(Changed(rs, r, pc), w)
           /\ \A x : Somewhere(x, Changed(rs, r, pc), w) <=> Somewhere(x, rs, w)
<1> DEFINE t == [r EXCEPT !.pc = pc]
<1>1. t \in Reader /\ t.buf = r.buf
  BY DEF Reader
<1> HIDE DEF t
<1>2. \A q : q \in Changed(rs, r, pc) <=> (q \in rs /\ q # r) \/ q = t
  BY DEF Changed, t
<1>3. Changed(rs, r, pc) \in SUBSET Reader
  BY <1>1, <1>2
<1>4. NoCopies(Changed(rs, r, pc), w)
  <2>1. \A q \in Changed(rs, r, pc) : q.buf # <<>> /\ Distinct(q.buf)
    BY <1>1, <1>2 DEF NoCopies
  <2>2. \A p, q \in Changed(rs, r, pc) : \A m \in Msgs(p.buf) : m \in Msgs(q.buf) => p = q
    BY <1>1, <1>2 DEF NoCopies
  <2>3. \A q \in Changed(rs, r, pc), l \in Links : \A m \in Msgs(q.buf) : m \notin Msgs(w[l])
    BY <1>1, <1>2 DEF NoCopies
  <2> QED
    BY <2>1, <2>2, <2>3 DEF NoCopies
<1>5. \A x : Somewhere(x, Changed(rs, r, pc), w) <=> Somewhere(x, rs, w)
  <2>1. \A x : (\E q \in Changed(rs, r, pc) : x \in Msgs(q.buf))
                  <=> (\E q \in rs : x \in Msgs(q.buf))
    BY <1>1, <1>2
  <2> QED
    BY <2>1 DEF Somewhere
<1> QED
  BY <1>1, <1>3, <1>4, <1>5 DEF t

LEMMA First ==
    ASSUME NEW rs \in SUBSET Reader, NEW w, NoCopies(rs, w)
    PROVE  /\ \A r \in rs : /\ Head1(r) \in Message /\ Somewhere(Head1(r), rs, w)
                            /\ Head1(r) \in Msgs(r.buf)
           /\ \A p, q \in rs : Head1(p) = Head1(q) => p = q
<1>1. ASSUME NEW r \in rs
      PROVE  Head1(r) \in Message /\ Head1(r) \in Msgs(r.buf)
  <2>1. r.buf \in Seq(Message) /\ r.buf # <<>>
    BY DEF Reader, NoCopies
  <2> QED
    BY <2>1, Tailed DEF Head1
<1> QED
  BY <1>1 DEF NoCopies, Somewhere

LEMMA Kinds ==
    ASSUME HopInv
    PROVE  /\ wire \in Wires /\ readers \in SUBSET Reader
           /\ NoCopies(readers, wire)
           /\ \A r \in readers : /\ r \in Reader /\ r.at \in Links
                                 /\ Head1(r).id \in Floods
                                 /\ Head1(r).id \in sent \ done
                                 /\ Head1(r) = [kind |-> Head1(r).kind, id |-> Head1(r).id]
                                 /\ Head1(r).kind \in {"flood", "hop"}
<1>1. /\ wire \in Wires /\ readers \in SUBSET Reader
      /\ NoCopies(readers, wire)
  BY DEF HopInv, TypeOK, Wires
<1>2. ASSUME NEW r \in readers
      PROVE  /\ r \in Reader /\ r.at \in Links /\ Head1(r) \in Message
             /\ Head1(r).id \in sent \ done
  <2>1. Head1(r) \in Message /\ Somewhere(Head1(r), readers, wire)
    BY <1>1, First
  <2> QED
    BY <1>1, <2>1 DEF HopInv, Underway, Reader
<1>3. \A m \in Message : /\ m.id \in Floods /\ m.kind \in {"flood", "hop"}
                         /\ m = [kind |-> m.kind, id |-> m.id]
  BY DEF Message
<1> QED
  BY <1>1, <1>2, <1>3

\* The counts of idle readers stay within their bound.
LEMMA Counted ==
    ASSUME TypeOK
    PROVE  /\ \A n \in 0 .. MaxIdle : More(n) \in 0 .. MaxIdle
           /\ \A r \in Reader : Released(r) \in [Links -> 0 .. MaxIdle]
           /\ \A free \in [Links -> 0 .. MaxIdle], l \in Links :
                 [free EXCEPT ![l] = More(@)] \in [Links -> 0 .. MaxIdle]
<1>1. \A n \in 0 .. MaxIdle : More(n) \in 0 .. MaxIdle
  BY MaxIdleAssumption, SMT DEF More
<1>2. \A r \in Reader : Released(r) \in [Links -> 0 .. MaxIdle]
  BY <1>1 DEF Released, TypeOK, Reader
<1> QED
  BY <1>1, <1>2
-----------------------------------------------------------------------------
LEMMA InitInv == Init => HopInv
<1> SUFFICES ASSUME Init PROVE HopInv
  OBVIOUS
<1>1. /\ sent = {} /\ done = {} /\ readers = {}
      /\ wire = [l \in Links |-> <<>>] /\ idle = [l \in Links |-> 1]
      /\ awaiting = [l \in Links |-> {}]
  BY DEF Init
<1>2. \A l \in Links : Msgs(wire[l]) = {} /\ Distinct(wire[l])
  BY <1>1 DEF Msgs, Distinct
<1>3. TypeOK
  <2>1. 1 \in 0 .. MaxIdle
    BY MaxIdleAssumption, SMT
  <2>2. <<>> \in Seq(Message)
    OBVIOUS
  <2> QED
    BY <1>1, <2>1, <2>2 DEF TypeOK
<1>4. \A m : ~ Somewhere(m, readers, wire)
  BY <1>1, <1>2 DEF Somewhere
<1>5. NoCopies(readers, wire)
  BY <1>1, <1>2 DEF NoCopies
<1> QED
  BY <1>1, <1>3, <1>4, <1>5 DEF HopInv, Roles, Underway, Asked, Entered,
                                NoReaderStranded

LEMMA SendFloodStep ==
    ASSUME HopInv, NEW f \in Floods, SendFlood(f)
    PROVE  HopInv'
<1> DEFINE m == Flood(f)
<1>1. /\ f \notin sent /\ sent' = sent \union {f}
      /\ wire' = [wire EXCEPT ![Path[f]] = Append(@, m)]
      /\ idle' = [idle EXCEPT ![Path[f]] = More(@)]
      /\ readers' = readers /\ awaiting' = awaiting /\ done' = done
  BY DEF SendFlood, SendOpen, Flood
<1>2. Path[f] \in Links /\ m \in Message /\ m.id = f /\ m.kind = "flood"
  BY PathAssumption DEF Flood, Message
<1>3. /\ wire \in Wires /\ readers \in SUBSET Reader
      /\ NoCopies(readers, wire)
  BY Kinds
<1>4. ~ Somewhere(m, readers, wire)
  BY <1>1, <1>2 DEF HopInv, Underway
<1>5. /\ wire' \in Wires /\ NoCopies(readers, wire')
      /\ \A x : Somewhere(x, readers, wire') => x = m \/ Somewhere(x, readers, wire)
  BY <1>1, <1>2, <1>3, <1>4, Sent
<1> HIDE DEF m
<1>6. TypeOK'
  <2>1. /\ TypeOK
        /\ idle \in [Links -> 0 .. MaxIdle]
    BY DEF HopInv, TypeOK
  <2>2. idle' \in [Links -> 0 .. MaxIdle]
    BY <1>1, <1>2, <2>1, Counted
  <2>3. awaiting' \in [Links -> SUBSET (sent' \ done')]
    <3>1. \A l \in Links : awaiting[l] \subseteq sent' \ done'
      BY <1>1, <2>1 DEF TypeOK
    <3> QED
      BY <1>1, <2>1, <3>1 DEF TypeOK
  <2> QED
    BY <1>1, <1>5, <2>1, <2>2, <2>3 DEF TypeOK, Wires
<1>7. Underway'
  <2>1. f \notin done
    BY <1>1 DEF HopInv, TypeOK
  <2> QED
    BY <1>1, <1>2, <1>5, <2>1 DEF HopInv, Underway
<1>8. Asked'
  BY <1>1, <1>2, <1>5 DEF HopInv, Asked, Times
<1>9. Roles' /\ Entered' /\ NoReaderStranded'
  BY <1>1 DEF HopInv, Roles, Entered, NoReaderStranded, Times, Awaits
<1> QED
  BY <1>1, <1>5, <1>6, <1>7, <1>8, <1>9 DEF HopInv

LEMMA ReadStep ==
    ASSUME HopInv, NEW l \in Links, Read(l)
    PROVE  HopInv'
<1> DEFINE b == Back(l)
<1> DEFINE in == wire[b]
<1>1. PICK k \in 1 .. Len(in) :
         /\ wire' = [wire EXCEPT ![b] = SubSeq(@, k + 1, Len(@))]
         /\ readers' = readers \union
               {[at |-> l, buf |-> SubSeq(in, 1, k), pc |-> "next"]}
  BY DEF Read
<1> DEFINE n == [at |-> l, buf |-> SubSeq(in, 1, k), pc |-> "next"]
<1> DEFINE rest == SubSeq(in, k + 1, Len(in))
<1>2. /\ idle' = [idle EXCEPT ![l] = @ - 1] /\ idle[l] > 0
      /\ sent' = sent /\ awaiting' = awaiting /\ done' = done
  BY DEF Read
<1>3. b \in Links
  BY LinksAssumption DEF Back
<1>4. /\ wire \in Wires /\ readers \in SUBSET Reader /\ NoCopies(readers, wire)
  BY Kinds
<1> HIDE DEF b
<1>5. in \in Seq(Message) /\ Distinct(in)
  BY <1>3, <1>4 DEF Wires, NoCopies
<1> HIDE DEF in
<1>6. /\ n.buf \in Seq(Message) /\ rest \in Seq(Message) /\ n.buf # <<>>
      /\ Msgs(n.buf) \subseteq Msgs(in) /\ Msgs(rest) \subseteq Msgs(in)
      /\ Distinct(n.buf) /\ Distinct(rest)
      /\ \A m \in Msgs(n.buf) : m \notin Msgs(rest)
  BY <1>5, Cut
<1>7. n \in Reader /\ n.pc = "next"
  BY <1>6 DEF Reader
<1>8. /\ wire' \in Wires
      /\ \A j \in Links : wire'[j] = IF j = b THEN rest ELSE wire[j]
  BY <1>1, <1>3, <1>4, <1>6 DEF Wires, in
<1>9. readers' \in SUBSET Reader /\ \A q \in readers' : q \in readers \/ q = n
  BY <1>1, <1>4, <1>7
<1> HIDE DEF n, rest
<1>10. /\ \A j \in Links : /\ Distinct(wire'[j])
                           /\ Msgs(wire'[j]) \subseteq Msgs(wire[j])
       /\ Msgs(n.buf) \subseteq Msgs(wire[b])
  BY <1>4, <1>6, <1>8 DEF NoCopies, in
<1>11. \A j \in Links : \A m \in Msgs(n.buf) : m \notin Msgs(wire'[j])
  BY <1>3, <1>4, <1>6, <1>8, <1>10 DEF NoCopies
<1>12. \A q \in readers : \A m \in Msgs(q.buf) : m \notin Msgs(n.buf)
  BY <1>3, <1>4, <1>10 DEF NoCopies
<1>13. NoCopies(readers', wire')
  <2>1. \A i, j \in Links : \A m \in Msgs(wire'[i]) : m \in Msgs(wire'[j]) => i = j
    BY <1>4, <1>10 DEF NoCopies
  <2>2. \A q \in readers' : q.buf # <<>> /\ Distinct(q.buf)
    BY <1>4, <1>6, <1>9 DEF NoCopies
  <2>3. \A p, q \in readers' : \A m \in Msgs(p.buf) : m \in Msgs(q.buf) => p = q
    BY <1>4, <1>9, <1>12 DEF NoCopies
  <2>4. \A q \in readers', j \in Links : \A m \in Msgs(q.buf) : m \notin Msgs(wire'[j])
    BY <1>4, <1>9, <1>10, <1>11 DEF NoCopies
  <2> QED
    BY <1>10, <2>1, <2>2, <2>3, <2>4 DEF NoCopies
<1>14. \A x : Somewhere(x, readers', wire') => Somewhere(x, readers, wire)
  BY <1>3, <1>9, <1>10 DEF Somewhere
<1>15. TypeOK'
  <2>1. TypeOK
    BY DEF HopInv
  <2>2. idle' \in [Links -> 0 .. MaxIdle]
    <3>1. \A i \in 0 .. MaxIdle : i > 0 => i - 1 \in 0 .. MaxIdle
      BY MaxIdleAssumption, SMT
    <3> QED
      BY <1>2, <2>1, <3>1 DEF TypeOK
  <2> QED
    BY <1>2, <1>8, <1>9, <2>1, <2>2 DEF TypeOK, Wires
<1>16. Underway'
  BY <1>2, <1>14 DEF HopInv, Underway
<1>17. Asked'
  BY <1>1, <1>14 DEF HopInv, Asked, Times
<1>18. Roles' /\ NoReaderStranded'
  BY <1>1, <1>7, <1>9 DEF HopInv, Roles, NoReaderStranded, Awaits
<1>19. Entered'
  BY <1>1, <1>2 DEF HopInv, Entered, Times
<1> QED
  BY <1>13, <1>15, <1>16, <1>17, <1>18, <1>19 DEF HopInv

\* The reader that awaits f among those that time it.
LEMMA Match1 ==
    ASSUME HopInv, NEW r \in readers, Head1(r).kind = "hop",
           NEW l \in Links, l[1] = r.at[1], Head1(r).id \in awaiting[l]
    PROVE  \E q \in readers : /\ q.pc = "waiting" /\ q # r /\ q.at[1] = r.at[1]
                              /\ Head1(q).id = Head1(r).id
<1> DEFINE f == Head1(r).id
<1>1. /\ readers \in SUBSET Reader /\ NoCopies(readers, wire)
  BY Kinds
<1>2. Head1(r) \in Message /\ Somewhere(Head1(r), readers, wire)
  BY <1>1, First
<1>3. PICK q \in readers : Times(q, f) /\ q.pc \in {"sent", "waiting"}
  BY <1>2 DEF HopInv, Asked
<1>4. PICK p \in readers : p.at = l /\ Times(p, f) /\ p.pc \in {"waiting", "got"}
  BY DEF HopInv, Entered
<1>5. p = q
  BY <1>1, <1>3, <1>4, First DEF Times
<1> QED
  BY <1>3, <1>4, <1>5 DEF Times, Flood

LEMMA MatchStep ==
    ASSUME HopInv, NEW r \in readers, Match(r)
    PROVE  HopInv'
<1>1. /\ r.pc = "next" /\ Head1(r).kind = "hop"
      /\ readers' = Changed(readers, r, "giving")
      /\ sent' = sent /\ wire' = wire /\ idle' = idle
      /\ awaiting' = awaiting /\ done' = done
  BY DEF Match, At, Changed
<1>2. PICK o \in readers : /\ o.pc = "waiting" /\ o # r /\ o.at[1] = r.at[1]
                           /\ Head1(o).id = Head1(r).id
  BY Match1 DEF Match
<1> DEFINE t == [r EXCEPT !.pc = "giving"]
<1>3. /\ wire \in Wires /\ readers \in SUBSET Reader /\ NoCopies(readers, wire)
      /\ r \in Reader
  BY Kinds
<1>4. /\ readers' \in SUBSET Reader /\ NoCopies(readers', wire')
      /\ \A x : Somewhere(x, readers', wire') <=> Somewhere(x, readers, wire)
  BY <1>1, <1>3, GoesOn
<1>5. t.pc = "giving" /\ t.at = r.at /\ Head1(t) = Head1(r)
  BY <1>3 DEF Reader, Head1
<1>6. /\ \A q \in readers' : q \in readers \/ q = t
      /\ \A q \in readers : q # r => q \in readers'
      /\ t \in readers'
  BY <1>1 DEF Changed
<1> HIDE DEF t
<1>7. TypeOK'
  BY <1>1, <1>4 DEF HopInv, TypeOK
<1>8. Roles'
  BY <1>1, <1>5, <1>6 DEF HopInv, Roles
<1>9. Underway'
  BY <1>1, <1>4 DEF HopInv, Underway
<1>10. Asked' /\ Entered'
  BY <1>1, <1>4, <1>6 DEF HopInv, Asked, Entered, Times
<1>11. NoReaderStranded'
  <2>1. ASSUME NEW q \in readers', q.pc = "giving"
        PROVE  \E p \in readers' : Awaits(p, q)
    <3>1. CASE q = t
      BY <1>2, <1>5, <1>6, <3>1 DEF Awaits
    <3>2. CASE q \in readers
      <4>1. PICK p \in readers : Awaits(p, q)
        BY <2>1, <3>2 DEF HopInv, NoReaderStranded
      <4> QED
        BY <1>1, <1>6, <4>1 DEF Awaits
    <3> QED
      BY <1>6, <3>1, <3>2
  <2> QED
    BY <2>1 DEF NoReaderStranded, Awaits
<1> QED
  BY <1>4, <1>7, <1>8, <1>9, <1>10, <1>11 DEF HopInv

LEMMA EchoStep ==
    ASSUME HopInv, NEW r \in readers, Echo(r)
    PROVE  HopInv'
<1> DEFINE m == Head1(r)
<1>1. /\ r.pc = "next" /\ readers' = Handled(r)
      /\ wire' = [wire EXCEPT ![r.at] = Append(@, m)]
      /\ idle' = [Released(r) EXCEPT ![r.at] = More(@)]
      /\ sent' = sent /\ awaiting' = awaiting /\ done' = done
  BY DEF Echo, SendOpen
<1>2. TypeOK /\ NoCopies(readers, wire)
  BY DEF HopInv
<1>3. /\ wire \in Wires /\ r \in Reader /\ r.at \in Links
  BY Kinds
<1>4. /\ readers' \in SUBSET Reader /\ NoCopies(readers', wire)
      /\ m \in Message /\ Somewhere(m, readers, wire)
      /\ ~ Somewhere(m, readers', wire)
      /\ \A x : Somewhere(x, readers', wire) => Somewhere(x, readers, wire)
      /\ readers \ {r} \subseteq readers'
      /\ \A q \in readers' : q \in readers \ {r} \/ q.pc = "next"
  BY <1>1, <1>2, Gone
<1> HIDE DEF m
<1>5. /\ wire' \in Wires /\ NoCopies(readers', wire')
      /\ \A x : Somewhere(x, readers', wire') => x = m \/ Somewhere(x, readers', wire)
  BY <1>1, <1>3, <1>4, Sent
<1>6. \A x : Somewhere(x, readers', wire') => Somewhere(x, readers, wire)
  BY <1>4, <1>5
<1>7. TypeOK'
  <2>1. idle' \in [Links -> 0 .. MaxIdle]
    BY <1>1, <1>2, <1>3, Counted
  <2> QED
    BY <1>1, <1>2, <1>4, <1>5, <2>1 DEF TypeOK, Wires
<1>8. Roles'
  BY <1>4 DEF HopInv, Roles
<1>9. Underway' /\ Asked' /\ Entered'
  BY <1>1, <1>4, <1>6 DEF HopInv, Underway, Asked, Entered, Times
<1>10. NoReaderStranded'
  BY <1>1, <1>4 DEF HopInv, NoReaderStranded, Awaits
<1> QED
  BY <1>5, <1>7, <1>8, <1>9, <1>10 DEF HopInv

LEMMA RequestStep ==
    ASSUME HopInv, NEW r \in readers, Request(r)
    PROVE  HopInv'
<1> DEFINE f == Head1(r).id
<1> DEFINE m == [kind |-> "hop", id |-> f]
<1> DEFINE t == [r EXCEPT !.pc = "sent"]
<1>1. /\ r.pc = "next" /\ Head1(r).kind = "flood"
      /\ readers' = Changed(readers, r, "sent")
      /\ wire' = [wire EXCEPT ![r.at] = Append(@, m)]
      /\ idle' = [idle EXCEPT ![r.at] = More(@)]
      /\ sent' = sent /\ awaiting' = awaiting /\ done' = done
  BY DEF Request, SendOpen, At, Changed
<1>2. /\ wire \in Wires /\ readers \in SUBSET Reader /\ NoCopies(readers, wire)
      /\ r \in Reader /\ r.at \in Links /\ f \in Floods /\ f \in sent \ done
      /\ Head1(r) = Flood(f)
  BY <1>1, Kinds DEF Flood
<1>3. m \in Message /\ m.id = f /\ m.kind = "hop"
  BY <1>2 DEF Message
<1>4. ~ Somewhere(m, readers, wire)
  <2> SUFFICES ASSUME Somewhere(m, readers, wire) PROVE FALSE
    OBVIOUS
  <2>1. PICK q \in readers : Times(q, f) /\ q.pc \in {"sent", "waiting"}
    BY <1>3 DEF HopInv, Asked
  <2>2. q = r
    BY <1>2, <2>1, First DEF Times
  <2> QED
    BY <1>1, <2>1, <2>2
<1>5. /\ readers' \in SUBSET Reader /\ NoCopies(readers', wire)
      /\ \A x : Somewhere(x, readers', wire) <=> Somewhere(x, readers, wire)
  BY <1>1, <1>2, GoesOn
<1> HIDE DEF m
<1>6. /\ wire' \in Wires /\ NoCopies(readers', wire')
      /\ \A x : Somewhere(x, readers', wire') => x = m \/ Somewhere(x, readers', wire)
  BY <1>1, <1>2, <1>3, <1>4, <1>5, Sent
<1>7. t.pc = "sent" /\ Head1(t) = Head1(r)
  BY <1>2 DEF Reader, Head1
<1>8. /\ \A q \in readers' : q \in readers \/ q = t
      /\ \A q \in readers : q # r => q \in readers'
      /\ t \in readers'
  BY <1>1 DEF Changed
<1> HIDE DEF t
<1>9. TypeOK'
  <2>1. TypeOK /\ idle \in [Links -> 0 .. MaxIdle]
    BY DEF HopInv, TypeOK
  <2>2. idle' \in [Links -> 0 .. MaxIdle]
    BY <1>1, <1>2, <2>1, Counted
  <2> QED
    BY <1>1, <1>5, <1>6, <2>1, <2>2 DEF TypeOK, Wires
<1>10. Roles'
  BY <1>1, <1>7, <1>8 DEF HopInv, Roles
<1>11. Underway'
  BY <1>1, <1>2, <1>3, <1>5, <1>6 DEF HopInv, Underway
<1>12. Asked'
  <2>1. ASSUME NEW x \in Message, x.kind = "hop", Somewhere(x, readers', wire')
        PROVE  \E q \in readers' : Times(q, x.id) /\ q.pc \in {"sent", "waiting"}
    <3>1. CASE x = m
      BY <1>2, <1>3, <1>7, <1>8, <3>1 DEF Times
    <3>2. CASE Somewhere(x, readers, wire)
      <4>1. PICK q \in readers : Times(q, x.id) /\ q.pc \in {"sent", "waiting"}
        BY <2>1, <3>2 DEF HopInv, Asked
      <4> QED
        BY <1>1, <1>8, <4>1
    <3> QED
      BY <1>5, <1>6, <2>1, <3>1, <3>2
  <2> QED
    BY <2>1 DEF Asked, Times
<1>13. Entered'
  BY <1>1, <1>8 DEF HopInv, Entered, Times
<1>14. NoReaderStranded'
  BY <1>1, <1>7, <1>8 DEF HopInv, NoReaderStranded, Awaits
<1> QED
  BY <1>6, <1>9, <1>10, <1>11, <1>12, <1>13, <1>14 DEF HopInv

LEMMA RegisterStep ==
    ASSUME HopInv, NEW r \in readers, Register(r)
    PROVE  HopInv'
<1> DEFINE f == Head1(r).id
<1> DEFINE t == [r EXCEPT !.pc = "waiting"]
<1>1. /\ r.pc = "sent"
      /\ readers' = Changed(readers, r, "waiting")
      /\ awaiting' = [awaiting EXCEPT ![r.at] = @ \union {f}]
      /\ sent' = sent /\ wire' = wire /\ idle' = idle /\ done' = done
  BY DEF Register, At, Changed
<1>2. /\ wire \in Wires /\ readers \in SUBSET Reader /\ NoCopies(readers, wire)
      /\ r \in Reader /\ r.at \in Links /\ f \in sent \ done
      /\ Head1(r) = [kind |-> Head1(r).kind, id |-> f]
  BY Kinds
<1>3. Head1(r).kind = "flood" /\ Times(r, f)
  BY <1>1, <1>2 DEF HopInv, Roles, Times, Flood
<1>4. /\ readers' \in SUBSET Reader /\ NoCopies(readers', wire')
      /\ \A x : Somewhere(x, readers', wire') <=> Somewhere(x, readers, wire)
  BY <1>1, <1>2, GoesOn
<1>5. t.pc = "waiting" /\ Head1(t) = Head1(r) /\ t.at = r.at
  BY <1>2 DEF Reader, Head1
<1>6. /\ \A q \in readers' : q \in readers \/ q = t
      /\ \A q \in readers : q # r => q \in readers'
      /\ t \in readers'
  BY <1>1 DEF Changed
<1> HIDE DEF t
<1>7. TypeOK
  BY DEF HopInv
<1>8. \A l \in Links : \A g \in awaiting'[l] : g \in awaiting[l] \/ (l = r.at /\ g = f)
  BY <1>1, <1>7 DEF TypeOK
<1>9. TypeOK'
  <2>1. awaiting' \in [Links -> SUBSET (sent \ done)]
    BY <1>1, <1>2, <1>7 DEF TypeOK
  <2> QED
    BY <1>1, <1>4, <1>7, <2>1 DEF TypeOK
<1>10. Roles'
  BY <1>3, <1>5, <1>6 DEF HopInv, Roles
<1>11. Underway'
  BY <1>1, <1>4 DEF HopInv, Underway
<1>12. Asked'
  <2>1. ASSUME NEW x \in Message, x.kind = "hop", Somewhere(x, readers', wire')
        PROVE  \E q \in readers' : Times(q, x.id) /\ q.pc \in {"sent", "waiting"}
    <3>1. PICK q \in readers : Times(q, x.id) /\ q.pc \in {"sent", "waiting"}
      BY <1>4, <2>1 DEF HopInv, Asked
    <3> QED
      BY <1>5, <1>6, <3>1 DEF Times
  <2> QED
    BY <2>1 DEF Asked, Times
<1>13. Entered'
  <2>1. ASSUME NEW l \in Links, NEW g \in awaiting'[l]
        PROVE  \E q \in readers' : /\ q.at = l /\ Times(q, g)
                                   /\ q.pc \in {"waiting", "got"}
    <3>1. CASE g \in awaiting[l]
      <4>1. PICK q \in readers : /\ q.at = l /\ Times(q, g)
                                 /\ q.pc \in {"waiting", "got"}
        BY <3>1 DEF HopInv, Entered
      <4> QED
        BY <1>1, <1>6, <4>1
    <3>2. CASE l = r.at /\ g = f
      BY <1>3, <1>5, <1>6, <3>2 DEF Times
    <3> QED
      BY <1>8, <3>1, <3>2
  <2> QED
    BY <2>1 DEF Entered, Times
<1>14. NoReaderStranded'
  BY <1>1, <1>5, <1>6 DEF HopInv, NoReaderStranded, Awaits
<1> QED
  BY <1>4, <1>9, <1>10, <1>11, <1>12, <1>13, <1>14 DEF HopInv

LEMMA GiveStep ==
    ASSUME HopInv, NEW r \in readers, Give(r)
    PROVE  HopInv'
<1>1. PICK q \in readers :
         /\ Awaits(q, r)
         /\ readers' = (Handled(r) \ {q}) \union {[q EXCEPT !.pc = "got"]}
         /\ idle' = Released(r)
         /\ sent' = sent /\ wire' = wire /\ awaiting' = awaiting /\ done' = done
  BY DEF Give
<1> DEFINE t == [q EXCEPT !.pc = "got"]
<1> DEFINE f == Head1(r).id
<1>2. q.pc = "waiting" /\ r.pc = "giving" /\ Head1(q).id = f /\ q # r
  BY <1>1 DEF Awaits
<1>3. TypeOK /\ NoCopies(readers, wire)
  BY DEF HopInv
<1>4. /\ wire \in Wires /\ readers \in SUBSET Reader
      /\ r \in Reader /\ q \in Reader
      /\ \A p \in readers : Head1(p) = [kind |-> Head1(p).kind, id |-> Head1(p).id]
  BY Kinds
<1>5. Head1(r).kind = "hop" /\ Head1(q).kind = "flood"
  BY <1>2 DEF HopInv, Roles
<1>6. /\ Handled(r) \in SUBSET Reader /\ NoCopies(Handled(r), wire)
      /\ ~ Somewhere(Head1(r), Handled(r), wire)
      /\ \A x : Somewhere(x, Handled(r), wire) => Somewhere(x, readers, wire)
      /\ readers \ {r} \subseteq Handled(r)
      /\ \A p \in Handled(r) : p \in readers \ {r} \/ p.pc = "next"
  BY <1>3, Gone
<1>7. q \in Handled(r) /\ readers' = Changed(Handled(r), q, "got")
  BY <1>1, <1>2, <1>6 DEF Changed
<1>8. /\ readers' \in SUBSET Reader /\ NoCopies(readers', wire')
      /\ \A x : Somewhere(x, readers', wire') <=> Somewhere(x, Handled(r), wire)
  <2> DEFINE hs == Handled(r)
  <2>1. hs \in SUBSET Reader /\ NoCopies(hs, wire) /\ q \in hs
    BY <1>6, <1>7
  <2>2. readers' = Changed(hs, q, "got")
    BY <1>7
  <2> HIDE DEF hs
  <2>3. /\ Changed(hs, q, "got") \in SUBSET Reader
        /\ NoCopies(Changed(hs, q, "got"), wire)
        /\ \A x : Somewhere(x, Changed(hs, q, "got"), wire) <=> Somewhere(x, hs, wire)
    BY <1>4, <2>1, GoesOn
  <2>4. wire' = wire
    BY <1>1
  <2> QED
    BY <2>2, <2>3, <2>4 DEF hs
<1>9. t.pc = "got" /\ Head1(t) = Head1(q) /\ t.at = q.at
  BY <1>4 DEF Reader, Head1
<1>10. /\ \A p \in readers' : p \in readers \ {r} \/ p.pc = "next" \/ p = t
       /\ \A p \in readers : p # r /\ p # q => p \in readers'
       /\ t \in readers'
  BY <1>1, <1>6
<1> HIDE DEF t
<1>11. TypeOK'
  <2>1. idle' \in [Links -> 0 .. MaxIdle]
    BY <1>1, <1>3, <1>4, Counted
  <2> QED
    BY <1>1, <1>3, <1>8, <2>1 DEF TypeOK
<1>12. Roles'
  BY <1>5, <1>9, <1>10 DEF HopInv, Roles
<1>13. Underway'
  BY <1>1, <1>6, <1>8 DEF HopInv, Underway
<1>14. Asked'
  <2>1. ASSUME NEW x \in Message, x.kind = "hop", Somewhere(x, readers', wire')
        PROVE  \E p \in readers' : Times(p, x.id) /\ p.pc \in {"sent", "waiting"}
    <3>1. PICK p \in readers : Times(p, x.id) /\ p.pc \in {"sent", "waiting"}
      BY <1>6, <1>8, <2>1 DEF HopInv, Asked
    <3>2. p # q
      <4>1. x # Head1(r)
        BY <1>6, <1>8, <2>1
      <4>2. x = [kind |-> x.kind, id |-> x.id]
        BY DEF Message
      <4>3. x.id # f
        BY <1>4, <1>5, <2>1, <4>1, <4>2
      <4> QED
        BY <1>2, <3>1, <4>3 DEF Times, Flood
    <3> QED
      BY <1>2, <1>10, <3>1, <3>2
  <2> QED
    BY <2>1 DEF Asked, Times
<1>15. Entered'
  <2>1. ASSUME NEW l \in Links, NEW g \in awaiting[l]
        PROVE  \E p \in readers' : /\ p.at = l /\ Times(p, g)
                                   /\ p.pc \in {"waiting", "got"}
    <3>1. PICK p \in readers : /\ p.at = l /\ Times(p, g)
                               /\ p.pc \in {"waiting", "got"}
      BY DEF HopInv, Entered
    <3>2. CASE p = q
      BY <1>9, <1>10, <3>1, <3>2 DEF Times
    <3>3. CASE p # q
      BY <1>2, <1>10, <3>1, <3>3
    <3> QED
      BY <3>2, <3>3
  <2> QED
    BY <1>1, <2>1 DEF Entered, Times
<1>16. NoReaderStranded'
  <2>1. ASSUME NEW u \in readers', u.pc = "giving"
        PROVE  \E p \in readers' : Awaits(p, u)
    <3>1. u \in readers /\ u # r
      BY <1>9, <1>10, <2>1
    <3>2. PICK p \in readers : Awaits(p, u)
      BY <2>1, <3>1 DEF HopInv, NoReaderStranded
    <3>3. p # q
      <4> SUFFICES ASSUME p = q PROVE FALSE
        OBVIOUS
      <4>1. Head1(u).id = f /\ Head1(u).kind = "hop"
        BY <1>2, <2>1, <3>1, <3>2 DEF Awaits, HopInv, Roles
      <4>2. Head1(u) = Head1(r)
        BY <1>4, <1>5, <3>1, <4>1
      <4> QED
        BY <1>3, <1>4, <3>1, <4>2, First
    <3> QED
      BY <1>2, <1>10, <3>2, <3>3 DEF Awaits
  <2> QED
    BY <2>1 DEF NoReaderStranded, Awaits
<1> QED
  BY <1>8, <1>11, <1>12, <1>13, <1>14, <1>15, <1>16 DEF HopInv

LEMMA FinishStep ==
    ASSUME HopInv, NEW r \in readers, Finish(r)
    PROVE  HopInv'
<1> DEFINE f == Head1(r).id
<1>1. /\ r.pc = "got" /\ readers' = Handled(r)
      /\ awaiting' = [awaiting EXCEPT ![r.at] = @ \ {f}]
      /\ done' = done \union {f} /\ idle' = Released(r)
      /\ sent' = sent /\ wire' = wire
  BY DEF Finish
<1>2. TypeOK /\ NoCopies(readers, wire)
  BY DEF HopInv
<1>3. /\ wire \in Wires /\ readers \in SUBSET Reader /\ r \in Reader
      /\ r.at \in Links /\ f \in sent
      /\ Head1(r) = [kind |-> Head1(r).kind, id |-> f]
  BY Kinds
<1>4. Head1(r) = Flood(f)
  BY <1>1, <1>3 DEF HopInv, Roles, Flood
<1>5. /\ readers' \in SUBSET Reader /\ NoCopies(readers', wire')
      /\ ~ Somewhere(Head1(r), readers', wire')
      /\ \A x : Somewhere(x, readers', wire') => Somewhere(x, readers, wire)
      /\ readers \ {r} \subseteq readers'
      /\ \A q \in readers' : q \in readers \ {r} \/ q.pc = "next"
  BY <1>1, <1>2, Gone
<1>6. \A q \in readers : Times(q, f) => q = r
  BY <1>2, <1>3, <1>4, First DEF Times
<1>7. \A l \in Links : f \in awaiting[l] => l = r.at
  BY <1>6 DEF HopInv, Entered
<1>8. \A l \in Links : awaiting'[l] \subseteq awaiting[l] \ {f}
  BY <1>1, <1>2, <1>7 DEF TypeOK
<1>9. TypeOK'
  <2>1. idle' \in [Links -> 0 .. MaxIdle]
    BY <1>1, <1>2, <1>3, Counted
  <2>2. awaiting' \in [Links -> SUBSET (sent' \ done')]
    <3>1. \A l \in Links : awaiting'[l] \subseteq sent' \ done'
      BY <1>1, <1>2, <1>8 DEF TypeOK
    <3>2. DOMAIN awaiting' = Links /\ awaiting' = [l \in Links |-> awaiting'[l]]
      BY <1>1, <1>2 DEF TypeOK
    <3> QED
      BY <3>1, <3>2
  <2> QED
    BY <1>1, <1>2, <1>3, <1>5, <2>1, <2>2 DEF TypeOK
<1>10. Roles'
  BY <1>5 DEF HopInv, Roles
<1>11. Underway'
  <2>1. ASSUME NEW x \in Message, Somewhere(x, readers', wire')
        PROVE  x.id # f
    <3>1. CASE x.kind = "hop"
      <4>1. PICK q \in readers : Times(q, x.id) /\ q.pc \in {"sent", "waiting"}
        BY <1>5, <2>1, <3>1 DEF HopInv, Asked
      <4> QED
        BY <1>1, <1>6, <4>1
    <3>2. CASE x.kind # "hop"
      <4>1. x = [kind |-> "flood", id |-> x.id]
        BY <3>2 DEF Message
      <4> QED
        BY <1>4, <1>5, <2>1, <4>1 DEF Flood
    <3> QED
      BY <3>1, <3>2
  <2> QED
    BY <1>1, <1>5, <2>1 DEF HopInv, Underway
<1>12. Asked'
  BY <1>1, <1>5 DEF HopInv, Asked, Times
<1>13. Entered'
  <2>1. ASSUME NEW l \in Links, NEW g \in awaiting'[l]
        PROVE  \E q \in readers' : /\ q.at = l /\ Times(q, g)
                                   /\ q.pc \in {"waiting", "got"}
    <3>1. PICK q \in readers : /\ q.at = l /\ Times(q, g)
                               /\ q.pc \in {"waiting", "got"}
      BY <1>8, <2>1 DEF HopInv, Entered
    <3>2. q # r
      BY <1>4, <1>8, <3>1 DEF Times, Flood
    <3> QED
      BY <1>5, <3>1, <3>2
  <2> QED
    BY <2>1 DEF Entered, Times
<1>14. NoReaderStranded'
  BY <1>1, <1>5 DEF HopInv, NoReaderStranded, Awaits
<1> QED
  BY <1>5, <1>9, <1>10, <1>11, <1>12, <1>13, <1>14 DEF HopInv
-----------------------------------------------------------------------------
LEMMA NextInv == HopInv /\ [Next]_vars => HopInv'
<1> SUFFICES ASSUME HopInv, [Next]_vars PROVE HopInv'
  OBVIOUS
<1>1. ASSUME NEW f \in Floods, SendFlood(f) PROVE HopInv'
  BY <1>1, SendFloodStep
<1>2. ASSUME NEW l \in Links, Read(l) PROVE HopInv'
  BY <1>2, ReadStep
<1>3. ASSUME NEW r \in readers,
             Match(r) \/ Echo(r) \/ Request(r) \/ Register(r) \/ Give(r) \/ Finish(r)
      PROVE  HopInv'
  BY <1>3, MatchStep, EchoStep, RequestStep, RegisterStep, GiveStep, FinishStep
<1>4. CASE UNCHANGED vars
  BY <1>4 DEF vars, HopInv, TypeOK, NoCopies, Roles, Underway, Asked, Entered,
              NoReaderStranded, Somewhere, Times, Awaits
<1> QED
  BY <1>1, <1>2, <1>3, <1>4 DEF Next

\* The variables hold values of their kinds, and only ids of hops that are
\* being timed are awaited.
THEOREM TypeCorrect == Spec => []TypeOK
<1>1. HopInv => TypeOK
  BY DEF HopInv
<1> QED
  BY <1>1, InitInv, NextInv, PTL DEF Spec

\* A reader that has looked the id of an answer up always finds the handler
\* that awaits it, so that no reader is blocked on a channel for ever, however
\* the messages are spread over readers and whenever the ids are entered.
THEOREM NoReaderStrandedAlways == Spec => []NoReaderStranded
<1>1. HopInv => NoReaderStranded
  BY DEF HopInv
<1> QED
  BY <1>1, InitInv, NextInv, PTL DEF Spec
=============================================================================
