------------------------------ MODULE ConnIds ------------------------------
(***************************************************************************)
(* The connection identifiers of the overlay (src/common/routingTable.go). *)
(* The server names the branches of a stream of content c "[c]-1", "[c]-2" *)
(* ... and every relay that forwards a flood appends "-" and a number, so  *)
(* an identifier spells the path the flood has followed.                   *)
(*                                                                         *)
(* An identifier is the record [content, path] of its bracketed name and   *)
(* the sequence of its numbers.  The tests the code makes on the strings   *)
(* are defined by what they accept: strings.HasPrefix(id, p) also holds    *)
(* when the last number of p is a decimal prefix of the number of id that  *)
(* stands in the same place ("[c]-1" is a prefix of "[c]-12").             *)
(***************************************************************************)
EXTENDS Integers, Sequences

CONSTANTS
    Contents,    \* the content names that occur
    Suffixes,    \* the branch numbers that occur (a bound on them, for TLC)
    ContentKey   \* what GetConnContent makes of an identifier of each content

ASSUME SuffixesAssumption == Suffixes \subseteq Nat \ {0}
ASSUME ContentKeyAssumption == ContentKey \in [Contents -> Contents]

ConnId == [content : Contents, path : Seq(Suffixes)]

\* GetConnContent: the text before the first "-", without its first and last
\* character.  A content whose name holds no "-" is its own key; of one that
\* does, only a part of the name is left.
KeyOf(id) == ContentKey[id.content]

Root(c) == [content |-> c, path |-> <<>>]

\* Mutant of Child: numbers from zero.
ChildFromZero(id, n) == [id EXCEPT !.path = Append(@, n - 1)]

Child(id, n) == [id EXCEPT !.path = Append(@, n)]

\* GetConnParent: everything before the last "-".
Parent(id) == [id EXCEPT !.path = SubSeq(@, 1, Len(@) - 1)]

LastOf(id) == id.path[Len(id.path)]

\* The decimal numeral of a is a prefix of the numeral of b (up to 4 digits).
DecimalPrefix(a, b) == \E d \in {1, 10, 100, 1000} : b \div d = a

\* strings.HasPrefix(id, p)
HasPrefix(id, p) ==
    LET n == Len(p.path) IN
    /\ id.content = p.content
    /\ n <= Len(id.path)
    /\ \A i \in 1 .. n - 1 : id.path[i] = p.path[i]
    /\ n > 0 => DecimalPrefix(p.path[n], id.path[n])

\* strings.HasPrefix(id, p + "-")
Descends(id, p) ==
    LET n == Len(p.path) IN
    /\ id.content = p.content
    /\ n < Len(id.path)
    /\ \A i \in 1 .. n : id.path[i] = p.path[i]
=============================================================================
