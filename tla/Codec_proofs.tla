---------------------------- MODULE Codec_proofs ----------------------------
(***************************************************************************)
(* What is sent is what is read: the theorems about messages that follow   *)
(* each other on a connection (src/control-protocol/message.go) and about  *)
(* the headers of packets (src/common/packets.go), for every content, and  *)
(* what becomes of lengths that do not fit in their fields.                *)
(*                                                                         *)
(* The leaves with large numbers name SMT: Zenon counts in ones.           *)
(***************************************************************************)
EXTENDS Codec, SequenceTheorems, TLAPS

\* The bytes of a number, put together again, are the number.
LEMMA Bytes16 ==
    ASSUME NEW n \in UInt16
    PROVE  /\ Least(n) \in Byte /\ Second(n) \in Byte
           /\ Least(n) + 256 * Second(n) = n
<1>1. n \in Int /\ 0 <= n /\ n < 65536
  BY SMT DEF UInt16
<1>2. Least(n) \in Byte /\ Second(n) \in Byte
  BY <1>1, SMT DEF Byte, Least, Second
<1>3. Least(n) + 256 * Second(n) = n
  BY <1>1, SMT DEF Least, Second
<1> QED
  BY <1>2, <1>3

\* A length that fits in its field is not cut.
LEMMA Fits16 ==
    ASSUME NEW n \in Nat, n < 65536
    PROVE  n % 65536 = n /\ n % 65536 \in UInt16
<1>1. n % 65536 = n
  BY SMT
<1> QED
  BY <1>1, SMT DEF UInt16

LEMMA Fits8 ==
    ASSUME NEW n \in Nat, n < 256
    PROVE  n % 256 = n /\ n % 256 \in Byte
<1>1. n % 256 = n
  BY SMT
<1> QED
  BY <1>1, SMT DEF Byte

LEMMA Bytes32 ==
    ASSUME NEW n \in UInt32
    PROVE  /\ Least(n) \in Byte /\ Second(n) \in Byte
           /\ Third(n) \in Byte /\ Fourth(n) \in Byte
           /\ Least(n) + 256 * Second(n) + 65536 * (Third(n) + 256 * Fourth(n)) = n
<1>1. n \in Int /\ 0 <= n /\ n < 65536 * 65536
  BY SMT DEF UInt32
<1>2. Least(n) \in Byte /\ Second(n) \in Byte
           /\ Third(n) \in Byte /\ Fourth(n) \in Byte
  BY <1>1, SMT DEF Byte, Least, Second, Third, Fourth
<1>3. Least(n) + 256 * Second(n) + 65536 * (Third(n) + 256 * Fourth(n)) = n
  BY <1>1, SMTT(30) DEF Least, Second, Third, Fourth
<1> QED
  BY <1>2, <1>3

\* A header has 17 bytes, whatever its fields.
LEMMA HeaderBytes ==
   ASSUME NEW h \in Header
   PROVE EncodeHeader(h) \in Seq(Byte) /\ Len(EncodeHeader(h)) = HeaderLength
<1>1. h.NodeType \in Byte /\ h.MsgType \in Byte
   BY DEF Header
<1>2. Least(h.TimeStamp) \in Byte /\ Second(h.TimeStamp) \in Byte
           /\ Third(h.TimeStamp) \in Byte /\ Fourth(h.TimeStamp) \in Byte
   BY Bytes32 DEF Header
<1>3. Least(h.Id) \in Byte /\ Second(h.Id) \in Byte
           /\ Third(h.Id) \in Byte /\ Fourth(h.Id) \in Byte
   BY Bytes32 DEF Header
<1>4. Least(h.Hash) \in Byte /\ Second(h.Hash) \in Byte
   BY Bytes16 DEF Header
<1>5. Least(h.PayloadSize) \in Byte /\ Second(h.PayloadSize) \in Byte
   BY Bytes16 DEF Header
<1>6. \A v : PutBool(v) \in Byte
   BY SMT DEF PutBool, Byte
<1> QED
   BY <1>1, <1>2, <1>3, <1>4, <1>5, <1>6, SMTT(30) DEF EncodeHeader, HeaderLength

\* Indices and slices of sequences put together.
LEMMA Joined ==
    ASSUME NEW s \in Seq(Byte), NEW t \in Seq(Byte)
    PROVE  /\ s \o t \in Seq(Byte) /\ Len(s \o t) = Len(s) + Len(t)
           /\ Len(s) \in Nat /\ Len(t) \in Nat
           /\ \A i \in 1 .. Len(s) : (s \o t)[i] = s[i]
           /\ \A i \in 1 .. Len(t) : (s \o t)[Len(s) + i] = t[i]
<1>1. /\ s \o t \in Seq(Byte) /\ Len(s \o t) = Len(s) + Len(t)
      /\ \A i \in 1 .. Len(s) + Len(t) :
            (s \o t)[i] = IF i <= Len(s) THEN s[i] ELSE t[i - Len(s)]
  BY ConcatProperties, SMT
<1>2. Len(s) \in Nat /\ Len(t) \in Nat
  BY LenProperties
<1>3. ASSUME NEW i \in 1 .. Len(s) PROVE (s \o t)[i] = s[i]
  <2>1. i \in 1 .. Len(s) + Len(t) /\ i <= Len(s)
    BY <1>2, SMT
  <2> QED
    BY <1>1, <2>1
<1>4. ASSUME NEW i \in 1 .. Len(t) PROVE (s \o t)[Len(s) + i] = t[i]
  <2>1. /\ Len(s) + i \in 1 .. Len(s) + Len(t) /\ ~ (Len(s) + i <= Len(s))
        /\ (Len(s) + i) - Len(s) = i
    BY <1>2, SMT
  <2>2. (s \o t)[Len(s) + i] = t[(Len(s) + i) - Len(s)]
    BY <1>1, <2>1
  <2> QED
    BY <2>1, <2>2
<1> QED
  BY <1>1, <1>2, <1>3, <1>4

\* A part of a sequence of bytes.
LEMMA Slice ==
    ASSUME NEW b \in Seq(Byte), NEW a \in Nat, NEW n \in Nat, a + n <= Len(b)
    PROVE  LET c == SubSeq(b, a + 1, a + n) IN
           c \in Seq(Byte) /\ Len(c) = n /\ \A i \in 1 .. n : c[i] = b[a + i]
<1> DEFINE c == SubSeq(b, a + 1, a + n)
<1>1. Len(b) \in Nat /\ a + 1 \in Int /\ a + n \in Int
  BY LenProperties, SMT
<1>2. \A i \in a + 1 .. a + n : b[i] \in Byte
  <2>1. \A i \in a + 1 .. a + n : i \in 1 .. Len(b)
    BY <1>1, SMT
  <2> QED
    BY <2>1, ElementOfSeq
<1>3. /\ c \in Seq(Byte)
      /\ Len(c) = IF a + 1 <= a + n THEN (a + n) - (a + 1) + 1 ELSE 0
      /\ \A i \in 1 .. (a + n) - (a + 1) + 1 : c[i] = b[(a + 1) + i - 1]
  BY <1>1, <1>2, SubSeqProperties
<1> HIDE DEF c
<1>4. Len(c) = n
  BY <1>3, SMT
<1>5. (a + n) - (a + 1) + 1 = n /\ \A i \in 1 .. n : (a + 1) + i - 1 = a + i
  BY SMT
<1>6. \A i \in 1 .. n : c[i] = b[a + i]
  BY <1>3, <1>5
<1> QED
  BY <1>3, <1>4, <1>6 DEF c

\* The second and the third of three sequences, cut out again.
LEMMA ThreeParts ==
    ASSUME NEW s \in Seq(Byte), NEW t \in Seq(Byte), NEW u \in Seq(Byte)
    PROVE  LET b == s \o (t \o u) IN
           /\ b \in Seq(Byte) /\ Len(b) = Len(s) + Len(t) + Len(u)
           /\ Len(s) \in Nat /\ Len(t) \in Nat /\ Len(u) \in Nat
           /\ SubSeq(b, Len(s) + 1, Len(s) + Len(t)) = t
           /\ SubSeq(b, Len(s) + Len(t) + 1, Len(b)) = u
<1> DEFINE b == s \o (t \o u)
<1>1. /\ t \o u \in Seq(Byte) /\ Len(t \o u) = Len(t) + Len(u)
      /\ Len(t) \in Nat /\ Len(u) \in Nat
      /\ \A i \in 1 .. Len(t) : (t \o u)[i] = t[i]
      /\ \A i \in 1 .. Len(u) : (t \o u)[Len(t) + i] = u[i]
  BY Joined
<1>2. /\ b \in Seq(Byte) /\ Len(b) = Len(s) + Len(t \o u) /\ Len(s) \in Nat
      /\ \A i \in 1 .. Len(t \o u) : b[Len(s) + i] = (t \o u)[i]
  BY <1>1, Joined
<1> HIDE DEF b
<1>3. Len(b) = Len(s) + Len(t) + Len(u)
  BY <1>1, <1>2, SMT
<1>4. SubSeq(b, Len(s) + 1, Len(s) + Len(t)) = t
  <2> DEFINE c == SubSeq(b, Len(s) + 1, Len(s) + Len(t))
  <2>1. Len(s) + Len(t) <= Len(b)
    BY <1>1, <1>2, <1>3, SMT
  <2>2. c \in Seq(Byte) /\ Len(c) = Len(t) /\ \A i \in 1 .. Len(t) : c[i] = b[Len(s) + i]
    BY <1>1, <1>2, <2>1, Slice
  <2>3. \A i \in 1 .. Len(t) : i \in 1 .. Len(t \o u)
    BY <1>1, SMT
  <2>4. \A i \in 1 .. Len(t) : c[i] = t[i]
    BY <1>1, <1>2, <2>2, <2>3
  <2> HIDE DEF c
  <2>5. c = t
    BY <2>2, <2>4, SeqEqual
  <2> QED
    BY <2>5 DEF c
<1>5. SubSeq(b, Len(s) + Len(t) + 1, Len(b)) = u
  <2> DEFINE c == SubSeq(b, (Len(s) + Len(t)) + 1, (Len(s) + Len(t)) + Len(u))
  <2>1. /\ Len(s) + Len(t) \in Nat
        /\ (Len(s) + Len(t)) + Len(u) <= Len(b)
    BY <1>1, <1>2, <1>3, SMT
  <2>2. /\ c \in Seq(Byte) /\ Len(c) = Len(u)
        /\ \A i \in 1 .. Len(u) : c[i] = b[(Len(s) + Len(t)) + i]
    BY <1>1, <1>2, <2>1, Slice
  <2>3. \A i \in 1 .. Len(u) : /\ Len(t) + i \in 1 .. Len(t \o u)
                               /\ (Len(s) + Len(t)) + i = Len(s) + (Len(t) + i)
    BY <1>1, <1>2, SMT
  <2>4. \A i \in 1 .. Len(u) : c[i] = u[i]
    <3>1. \A i \in 1 .. Len(u) : c[i] = b[Len(s) + (Len(t) + i)]
      BY <2>2, <2>3
    <3> QED
      BY <1>1, <1>2, <2>3, <3>1
  <2> HIDE DEF c
  <2>5. c = u
    BY <2>2, <2>4, SeqEqual
  <2> QED
    BY <1>3, <2>5 DEF c
<1> QED
  BY <1>1, <1>2, <1>3, <1>4, <1>5 DEF b

\* The parts of the two lemmas, one fact each.
LEMMA JoinedLen ==
    ASSUME NEW s \in Seq(Byte), NEW t \in Seq(Byte)
    PROVE  s \o t \in Seq(Byte) /\ Len(s \o t) = Len(s) + Len(t)
  BY Joined

LEMMA JoinedFront ==
    ASSUME NEW s \in Seq(Byte), NEW t \in Seq(Byte)
    PROVE  \A i \in 1 .. Len(s) : (s \o t)[i] = s[i]
  BY Joined

LEMMA LastPart ==
    ASSUME NEW s \in Seq(Byte), NEW t \in Seq(Byte), NEW u \in Seq(Byte)
    PROVE  SubSeq(s \o (t \o u), Len(s) + Len(t) + 1, Len(s \o (t \o u))) = u
  BY ThreeParts

\* A header depends on the first 17 bytes only.
LEMMA SameHeader ==
    ASSUME NEW b, NEW e, \A i \in 1 .. 17 : b[i] = e[i]
    PROVE  DecodeHeader(b) = DecodeHeader(e)
  BY SMTT(30) DEF DecodeHeader, Get32, Get16

\* Every field is read back from its place in the header.
LEMMA HeaderFields ==
    ASSUME NEW h \in Header
    PROVE  LET e == EncodeHeader(h) IN
           /\ e[1] = h.NodeType /\ e[2] = h.MsgType
           /\ GetBool(e[3]) = h.Flags.IsResponse
           /\ GetBool(e[4]) = h.Flags.BackTrack
           /\ GetBool(e[5]) = h.Flags.Forward
           /\ Get32(e, 6) = h.TimeStamp /\ Get32(e, 10) = h.Id
           /\ Get16(e, 14) = h.Hash /\ Get16(e, 16) = h.PayloadSize
<1> DEFINE e == EncodeHeader(h)
<1>1. /\ e[1] = h.NodeType /\ e[2] = h.MsgType
      /\ e[3] = PutBool(h.Flags.IsResponse) /\ e[4] = PutBool(h.Flags.BackTrack)
      /\ e[5] = PutBool(h.Flags.Forward)
  BY SMT DEF EncodeHeader
<1>2. \A v \in BOOLEAN : GetBool(PutBool(v)) = v
  BY SMT DEF PutBool, GetBool
<1>3. /\ h.Flags.IsResponse \in BOOLEAN /\ h.Flags.BackTrack \in BOOLEAN
      /\ h.Flags.Forward \in BOOLEAN
  BY DEF Header, Flags
<1>4. /\ GetBool(e[3]) = h.Flags.IsResponse
      /\ GetBool(e[4]) = h.Flags.BackTrack
      /\ GetBool(e[5]) = h.Flags.Forward
  BY <1>1, <1>2, <1>3
<1>5. Get32(e, 6) = h.TimeStamp
  <2>1. /\ e[6] = Least(h.TimeStamp) /\ e[7] = Second(h.TimeStamp)
        /\ e[8] = Third(h.TimeStamp) /\ e[9] = Fourth(h.TimeStamp)
    BY SMT DEF EncodeHeader
  <2>2. h.TimeStamp \in UInt32
    BY DEF Header
  <2> QED
    BY <2>1, <2>2, Bytes32, SMT DEF Get32, Get16
<1>6. Get32(e, 10) = h.Id
  <2>1. /\ e[10] = Least(h.Id) /\ e[11] = Second(h.Id)
        /\ e[12] = Third(h.Id) /\ e[13] = Fourth(h.Id)
    BY SMT DEF EncodeHeader
  <2>2. h.Id \in UInt32
    BY DEF Header
  <2> QED
    BY <2>1, <2>2, Bytes32, SMT DEF Get32, Get16
<1>7. Get16(e, 14) = h.Hash
  <2>1. e[14] = Least(h.Hash) /\ e[15] = Second(h.Hash)
    BY SMT DEF EncodeHeader
  <2>2. h.Hash \in UInt16
    BY DEF Header
  <2> QED
    BY <2>1, <2>2, Bytes16, SMT DEF Get16
<1>8. Get16(e, 16) = h.PayloadSize
  <2>1. e[16] = Least(h.PayloadSize) /\ e[17] = Second(h.PayloadSize)
    BY SMT DEF EncodeHeader
  <2>2. h.PayloadSize \in UInt16
    BY DEF Header
  <2> QED
    BY <2>1, <2>2, Bytes16, SMT DEF Get16
<1> QED
  BY <1>1, <1>4, <1>5, <1>6, <1>7, <1>8

\* The fields are read from the first 17 bytes, whatever comes after them.
LEMMA HeaderRead ==
    ASSUME NEW h \in Header, NEW rest \in Seq(Byte)
    PROVE  DecodeHeader(EncodeHeader(h) \o rest) = h
<1> DEFINE e == EncodeHeader(h)
<1> DEFINE b == e \o rest
<1>1. e \in Seq(Byte) /\ Len(e) = 17
  BY HeaderBytes DEF HeaderLength
<1> HIDE DEF e
<1>2. \A i \in 1 .. 17 : b[i] = e[i]
  <2>1. \A i \in 1 .. Len(e) : b[i] = e[i]
    BY <1>1, Joined
  <2> QED
    BY <1>1, <2>1
<1> HIDE DEF b
<1>3. DecodeHeader(b) = DecodeHeader(e)
  BY <1>2, SameHeader
<1>4. DecodeHeader(e) =
        [NodeType |-> h.NodeType, MsgType |-> h.MsgType,
         Flags |-> [IsResponse |-> h.Flags.IsResponse,
                    BackTrack |-> h.Flags.BackTrack, Forward |-> h.Flags.Forward],
         TimeStamp |-> h.TimeStamp, Id |-> h.Id, Hash |-> h.Hash,
         PayloadSize |-> h.PayloadSize]
  BY HeaderFields DEF DecodeHeader, e
<1>5. h.Flags = [IsResponse |-> h.Flags.IsResponse,
                 BackTrack |-> h.Flags.BackTrack, Forward |-> h.Flags.Forward]
  <2>1. h.Flags \in Flags
    BY DEF Header
  <2> QED
    BY <2>1 DEF Flags
<1>6. h = [NodeType |-> h.NodeType, MsgType |-> h.MsgType, Flags |-> h.Flags,
           TimeStamp |-> h.TimeStamp, Id |-> h.Id, Hash |-> h.Hash,
           PayloadSize |-> h.PayloadSize]
  BY DEF Header
<1> QED
  BY <1>3, <1>4, <1>5, <1>6 DEF b, e
-----------------------------------------------------------------------------
\* A message as the programs send them, its size set by SetBody.
Sized(m) == m.Header.PayloadSize = Len(m.Body)

\* The bytes of a message followed by others, and their parts.
LEMMA EncodedMessage ==
    ASSUME NEW m \in Message, NEW rest \in Seq(Byte)
    PROVE  LET b == Encode(m) \o rest
               e == EncodeHeader(m.Header) IN
           /\ m.Header \in Header /\ m.Body \in Seq(Byte)
           /\ e \in Seq(Byte) /\ Len(e) = HeaderLength
           /\ b = e \o (m.Body \o rest)
           /\ DecodeHeader(b) = m.Header
           /\ Len(b) = HeaderLength + Len(m.Body) + Len(rest)
           /\ Len(m.Body) \in Nat /\ Len(rest) \in Nat
           /\ SubSeq(b, HeaderLength + 1, HeaderLength + Len(m.Body)) = m.Body
           /\ SubSeq(b, HeaderLength + Len(m.Body) + 1, Len(b)) = rest
<1> DEFINE e == EncodeHeader(m.Header)
<1>1. m.Header \in Header /\ m.Body \in Seq(Byte)
  BY DEF Message
<1>2. e \in Seq(Byte) /\ Len(e) = HeaderLength
  BY <1>1, HeaderBytes
<1>3. Encode(m) \o rest = e \o (m.Body \o rest)
  <2>1. Encode(m) = e \o m.Body
    BY DEF Encode
  <2>2. \A s, t, u \in Seq(Byte) : (s \o t) \o u = s \o (t \o u)
    BY ConcatAssociative
  <2> HIDE DEF e
  <2>3. (e \o m.Body) \o rest = e \o (m.Body \o rest)
    BY <1>1, <1>2, <2>2, Zenon
  <2> QED
    BY <2>1, <2>3
<1>4. m.Body \o rest \in Seq(Byte)
  BY <1>1, Joined
<1>5. DecodeHeader(e \o (m.Body \o rest)) = m.Header
  BY <1>1, <1>4, HeaderRead
<1> HIDE DEF e
<1>6. /\ Len(e \o (m.Body \o rest)) = Len(e) + Len(m.Body) + Len(rest)
      /\ Len(m.Body) \in Nat /\ Len(rest) \in Nat
  BY <1>1, <1>2, ThreeParts
<1>7. LET c == e \o (m.Body \o rest) IN
      /\ SubSeq(c, Len(e) + 1, Len(e) + Len(m.Body)) = m.Body
      /\ SubSeq(c, Len(e) + Len(m.Body) + 1, Len(c)) = rest
  <2> DEFINE p == m.Body
  <2>1. p \in Seq(Byte)
    BY <1>1
  <2> HIDE DEF p
  <2>2. SubSeq(e \o (p \o rest), Len(e) + 1, Len(e) + Len(p)) = p
    BY <1>2, <2>1, ThreeParts
  <2>3. SubSeq(e \o (p \o rest), Len(e) + Len(p) + 1, Len(e \o (p \o rest))) = rest
    BY <1>2, <2>1, ThreeParts
  <2> QED
    BY <2>2, <2>3 DEF p
<1>8. LET c == e \o (m.Body \o rest) IN
      /\ SubSeq(c, HeaderLength + 1, HeaderLength + Len(m.Body)) = m.Body
      /\ SubSeq(c, HeaderLength + Len(m.Body) + 1, Len(c)) = rest
  BY <1>2, <1>7
<1> QED
  BY <1>1, <1>2, <1>3, <1>5, <1>6, <1>8 DEF e

\* A message is read as it was sent, and what follows it on the connection is
\* left for the next one: the size in the header is all that divides them.
THEOREM MessageReadAsSent ==
    ASSUME NEW m \in Message, Sized(m), NEW rest \in Seq(Byte)
    PROVE  LET b == Encode(m) \o rest IN
           Complete(b) /\ DecodeMessage(b) = m /\ Left(b) = rest
<1> DEFINE b == Encode(m) \o rest
<1> DEFINE e == EncodeHeader(m.Header)
<1>1. /\ m.Header \in Header /\ m.Body \in Seq(Byte)
      /\ e \in Seq(Byte) /\ Len(e) = HeaderLength
      /\ b = e \o (m.Body \o rest)
      /\ DecodeHeader(b) = m.Header
      /\ Len(b) = HeaderLength + Len(m.Body) + Len(rest)
      /\ Len(m.Body) \in Nat /\ Len(rest) \in Nat
      /\ SubSeq(b, HeaderLength + 1, HeaderLength + Len(m.Body)) = m.Body
      /\ SubSeq(b, HeaderLength + Len(m.Body) + 1, Len(b)) = rest
  BY EncodedMessage
<1>2. DecodeHeader(b).PayloadSize = Len(m.Body)
  BY <1>1 DEF Sized
<1> HIDE DEF e, b
<1>3. Complete(b)
  BY <1>1, <1>2, SMT DEF Complete, HeaderLength
<1>4. DecodeMessage(b) = m
  <2>1. m = [Header |-> m.Header, Body |-> m.Body]
    BY DEF Message
  <2> QED
    BY <1>1, <1>2, <2>1, Zenon DEF DecodeMessage
<1>5. Left(b) = rest
  BY <1>1, <1>2, Zenon DEF Left
<1> QED
  BY <1>3, <1>4, <1>5 DEF b

\* SetBody gives a message the size of its body, as long as that fits in the
\* 16 bits of the field.
THEOREM SetBodySizes ==
    ASSUME NEW m \in Message, NEW body \in Seq(Byte), Len(body) < 65536
    PROVE  SetBody(m, body) \in Message /\ Sized(SetBody(m, body))
<1>1. Len(body) \in Nat
  BY LenProperties
<1>2. Len(body) % 65536 \in UInt16 /\ Len(body) % 65536 = Len(body)
  BY <1>1, Fits16
<1>3. m.Header \in Header /\ m = [Header |-> m.Header, Body |-> m.Body]
  BY DEF Message
<1>4. [m.Header EXCEPT !.PayloadSize = Len(body) % 65536] \in Header
  BY <1>2, <1>3 DEF Header
<1>5. /\ SetBody(m, body).Header = [m.Header EXCEPT !.PayloadSize = Len(body) % 65536]
      /\ SetBody(m, body).Body = body
      /\ SetBody(m, body) \in Message
  BY <1>3, <1>4 DEF SetBody, Message
<1>6. SetBody(m, body).Header.PayloadSize = Len(body) % 65536
  BY <1>3, <1>5 DEF Header
<1> QED
  BY <1>2, <1>5, <1>6 DEF Sized

\* A reader that has a part of a message waits for the rest of it: the first
\* bytes of a message are never taken for a shorter one.
THEOREM PartWaits ==
    ASSUME NEW m \in Message, Sized(m), NEW k \in Nat, k < Len(Encode(m))
    PROVE  ~ Complete(SubSeq(Encode(m), 1, k))
<1> DEFINE e == EncodeHeader(m.Header)
<1> DEFINE b == Encode(m)
<1> DEFINE p == SubSeq(b, 1, k)
<1>1. m.Header \in Header /\ m.Body \in Seq(Byte)
  BY DEF Message
<1>2. e \in Seq(Byte) /\ Len(e) = 17
  BY <1>1, HeaderBytes DEF HeaderLength
<1>3. b = e \o m.Body
  BY DEF Encode
<1> HIDE DEF e
<1>4. /\ b \in Seq(Byte) /\ Len(b) = 17 + Len(m.Body) /\ Len(m.Body) \in Nat
      /\ \A i \in 1 .. 17 : b[i] = e[i]
  <2> DEFINE q == m.Body
  <2>1. q \in Seq(Byte)
    BY <1>1
  <2> HIDE DEF q
  <2>2. /\ e \o q \in Seq(Byte) /\ Len(e \o q) = Len(e) + Len(q)
        /\ Len(q) \in Nat
    BY <1>2, <2>1, Joined
  <2>3. \A i \in 1 .. Len(e) : (e \o q)[i] = e[i]
    BY <1>2, <2>1, Joined
  <2> QED
    BY <1>2, <1>3, <2>2, <2>3 DEF q
<1> HIDE DEF b
<1>5. p \in Seq(Byte) /\ Len(p) = k /\ \A i \in 1 .. k : p[i] = b[i]
  <2>1. 0 \in Nat /\ 0 + k <= Len(b) /\ k \in Nat
    BY <1>4, SMT DEF b
  <2> DEFINE c == SubSeq(b, 0 + 1, 0 + k)
  <2>2. c \in Seq(Byte) /\ Len(c) = k /\ \A i \in 1 .. k : c[i] = b[0 + i]
    BY <1>4, <2>1, Slice
  <2>3. c = p /\ \A i \in 1 .. k : 0 + i = i
    BY SMT
  <2> HIDE DEF c, p
  <2> QED
    BY <2>2, <2>3
<1> HIDE DEF p
<1>6. CASE k < 17
  BY <1>5, <1>6, SMT DEF Complete, HeaderLength, p, b
<1>7. CASE ~ (k < 17)
  <2>1. \A i \in 1 .. 17 : p[i] = e[i]
    <3>1. \A i \in 1 .. 17 : i \in 1 .. k
      BY <1>7, SMT
    <3> QED
      BY <1>4, <1>5, <3>1, Zenon
  <2>2. DecodeHeader(p) = m.Header
    <3>1. <<>> \in Seq(Byte) /\ e \o <<>> = e
      BY <1>2, ConcatEmptySeq, EmptySeq
    <3>2. DecodeHeader(e \o <<>>) = m.Header
      BY <1>1, <3>1, HeaderRead DEF e
    <3> QED
      BY <2>1, <3>1, <3>2, SameHeader
  <2>3. DecodeHeader(p).PayloadSize = Len(m.Body)
    BY <2>2 DEF Sized
  <2>4. Len(p) < 17 + Len(m.Body)
    BY <1>4, <1>5, SMT DEF b
  <2>5. ~ Complete(p)
    BY <1>4, <1>5, <2>3, <2>4, SMT DEF Complete, HeaderLength
  <2> QED
    BY <2>5 DEF p, b
<1> QED
  BY <1>6, <1>7

\* A relay that takes the header off a packet finds the packet and the
\* identifier of its branch, as long as the identifier has at most 255 bytes ...
THEOREM PacketUnwrapped ==
    ASSUME NEW packet \in Seq(Byte), NEW streamId \in Seq(Byte), Len(streamId) < 256
    PROVE  UnwrapUDPPacket(WrapUDPPacket(packet, streamId)) =
              [packet |-> packet, streamId |-> streamId]
<1> DEFINE n == Len(streamId)
<1> DEFINE s == <<n % 256>>
<1> DEFINE w == s \o (streamId \o packet)
<1>1. n \in Nat /\ n % 256 = n /\ n % 256 \in Byte
  <2>1. n \in Nat
    BY LenProperties
  <2> QED
    BY <2>1, Fits8
<1>2. s \in Seq(Byte) /\ Len(s) = 1 /\ s[1] = n
  BY <1>1
<1>3. WrapUDPPacket(packet, streamId) = w
  <2>1. \A x, y, z \in Seq(Byte) : (x \o y) \o z = x \o (y \o z)
    BY ConcatAssociative
  <2> HIDE DEF s
  <2>2. (s \o streamId) \o packet = w
    BY <1>2, <2>1, Zenon
  <2> QED
    BY <2>2 DEF WrapUDPPacket, s
<1> HIDE DEF s
<1>4. w[1] = n
  <2>1. streamId \o packet \in Seq(Byte)
    BY Joined
  <2>2. 1 \in 1 .. Len(s)
    BY <1>2
  <2> QED
    BY <1>2, <2>1, <2>2, Joined
<1>5. SubSeq(w, Len(s) + 1, Len(s) + n) = streamId
  BY <1>2, ThreeParts
<1>6. SubSeq(w, Len(s) + n + 1, Len(w)) = packet
  <2> HIDE DEF w, n
  <2>1. SubSeq(s \o (streamId \o packet), Len(s) + Len(streamId) + 1,
               Len(s \o (streamId \o packet))) = packet
    BY <1>2, LastPart
  <2> QED
    BY <2>1 DEF w, n
<1> HIDE DEF w, n
<1>7. /\ Len(s) + 1 = 2 /\ Len(s) + n = w[1] + 1
      /\ Len(s) + n + 1 = w[1] + 2
  BY <1>1, <1>2, <1>4, SMT
<1>8. SubSeq(w, 2, w[1] + 1) = streamId /\ SubSeq(w, w[1] + 2, Len(w)) = packet
  BY <1>5, <1>6, <1>7
<1> QED
  BY <1>3, <1>8 DEF UnwrapUDPPacket

\* ... and with a longer one it finds another identifier: the packet is
\* forwarded as one of a branch that nobody knows.
THEOREM LongIdentifierLost ==
    ASSUME NEW packet \in Seq(Byte), NEW streamId \in Seq(Byte),
           Len(streamId) >= 256
    PROVE  UnwrapUDPPacket(WrapUDPPacket(packet, streamId)).streamId # streamId
<1> DEFINE k == Len(streamId) % 256
<1> DEFINE w == WrapUDPPacket(packet, streamId)
<1>1. /\ Len(streamId) \in Nat /\ k \in Nat /\ k < 256
      /\ k \in Byte
  <2>1. Len(streamId) \in Nat
    BY LenProperties
  <2>2. k \in Nat /\ k < 256
    BY <2>1, SMT
  <2> HIDE DEF k
  <2>3. k \in Byte
    BY <2>2, SMT DEF Byte
  <2> QED
    BY <2>1, <2>2, <2>3
<1>2. /\ w \in Seq(Byte) /\ w[1] = k
      /\ Len(w) = 1 + Len(streamId) + Len(packet) /\ Len(packet) \in Nat
  <2> DEFINE s == <<k>>
  <2>1. s \in Seq(Byte) /\ Len(s) = 1 /\ s[1] = k
    BY <1>1
  <2>2. w = (s \o streamId) \o packet
    BY DEF WrapUDPPacket
  <2> HIDE DEF s, k, w
  <2>3. /\ s \o streamId \in Seq(Byte)
        /\ Len(s \o streamId) = Len(s) + Len(streamId)
        /\ \A i \in 1 .. Len(s) : (s \o streamId)[i] = s[i]
    BY <2>1, JoinedLen, JoinedFront
  <2>4. (s \o streamId)[1] = k
    BY <2>1, <2>3
  <2> DEFINE v == s \o streamId
  <2>5. v \in Seq(Byte) /\ 1 \in 1 .. Len(v) /\ v[1] = k
    BY <1>1, <2>3, <2>4, SMT
  <2> HIDE DEF v
  <2>6. /\ v \o packet \in Seq(Byte) /\ Len(v \o packet) = Len(v) + Len(packet)
        /\ Len(packet) \in Nat
    BY <2>5, Joined
  <2>7. (v \o packet)[1] = v[1]
    BY <2>5, Joined
  <2> QED
    BY <2>1, <2>2, <2>3, <2>5, <2>6, <2>7 DEF v
<1> HIDE DEF w
<1>3. Len(SubSeq(w, 2, k + 1)) = k
  <2> HIDE DEF k
  <2>1. 1 \in Nat /\ 1 + k <= Len(w) /\ 1 + 1 = 2 /\ 1 + k = k + 1
    BY <1>1, <1>2, SMT
  <2>2. Len(SubSeq(w, 1 + 1, 1 + k)) = k
    BY <1>1, <1>2, <2>1, Slice
  <2> QED
    BY <2>1, <2>2
<1>4. k # Len(streamId)
  BY <1>1, SMT
<1>5. UnwrapUDPPacket(w).streamId = SubSeq(w, 2, k + 1)
  BY <1>2 DEF UnwrapUDPPacket
<1> QED
  BY <1>3, <1>4, <1>5 DEF w
=============================================================================
