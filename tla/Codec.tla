------------------------------- MODULE Codec -------------------------------
(***************************************************************************)
(* How messages become bytes and bytes messages: the control protocol      *)
(* (src/control-protocol/message.go), whose messages follow each other on  *)
(* a connection without a delimiter, and the header of the packets of a    *)
(* branch (src/common/packets.go).  Numbers are little endian.             *)
(***************************************************************************)
EXTENDS Integers, Sequences

Byte == 0 .. 255
UInt16 == 0 .. 65535
UInt32 == {n \in Nat : n < 65536 * 65536}

Flags  == [IsResponse : BOOLEAN, BackTrack : BOOLEAN, Forward : BOOLEAN]
Header == [NodeType : Byte, MsgType : Byte, Flags : Flags, TimeStamp : UInt32,
           Id : UInt32, Hash : UInt16, PayloadSize : UInt16]
Message == [Header : Header, Body : Seq(Byte)]

\* The bytes of a number, from the least to the most significant, and the
\* number of those from the i-th of b.
Least(n)    == n % 256
Second(n)   == (n \div 256) % 256
Third(n)    == (n \div 65536) % 256
Fourth(n)   == (n \div 16777216) % 256
Get16(b, i) == b[i] + 256 * b[i + 1]
Get32(b, i) == Get16(b, i) + 65536 * Get16(b, i + 2)

PutBool(v) == IF v THEN 1 ELSE 0
GetBool(x) == x # 0

HeaderLength == 17

EncodeHeader(h) ==
    << h.NodeType, h.MsgType, PutBool(h.Flags.IsResponse),
       PutBool(h.Flags.BackTrack), PutBool(h.Flags.Forward),
       Least(h.TimeStamp), Second(h.TimeStamp), Third(h.TimeStamp), Fourth(h.TimeStamp),
       Least(h.Id), Second(h.Id), Third(h.Id), Fourth(h.Id),
       Least(h.Hash), Second(h.Hash), Least(h.PayloadSize), Second(h.PayloadSize) >>

\* b holds a header at least.
DecodeHeader(b) ==
    [NodeType |-> b[1], MsgType |-> b[2],
     Flags |-> [IsResponse |-> GetBool(b[3]), BackTrack |-> GetBool(b[4]),
                Forward |-> GetBool(b[5])],
     TimeStamp |-> Get32(b, 6), Id |-> Get32(b, 10), Hash |-> Get16(b, 14),
     PayloadSize |-> Get16(b, 16)]

Encode(m) == EncodeHeader(m.Header) \o m.Body

\* The size field has 16 bits, whatever the length of the body.
SetBody(m, body) ==
    [Header |-> [m.Header EXCEPT !.PayloadSize = Len(body) % 65536],
     Body |-> body]

\* DecodeMessage returns only once the bytes on the connection, b, hold a
\* whole message; it leaves those after it to the next call.
Complete(b) ==
    /\ Len(b) >= HeaderLength
    /\ Len(b) >= HeaderLength + DecodeHeader(b).PayloadSize
DecodeMessage(b) ==
    [Header |-> DecodeHeader(b),
     Body |-> SubSeq(b, HeaderLength + 1, HeaderLength + DecodeHeader(b).PayloadSize)]
Left(b) == SubSeq(b, HeaderLength + DecodeHeader(b).PayloadSize + 1, Len(b))

\* The header of a packet is the identifier of its branch after its length,
\* which is one byte.
WrapUDPPacket(packet, streamId) ==
    <<Len(streamId) % 256>> \o streamId \o packet
UnwrapUDPPacket(w) ==
    [packet   |-> SubSeq(w, w[1] + 2, Len(w)),
     streamId |-> SubSeq(w, 2, w[1] + 1)]
=============================================================================
