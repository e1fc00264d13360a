----------------------------- MODULE AV1Packet ------------------------------
(***************************************************************************)
(* OBUs, the packets they are cut into, and the length field (packet/      *)
(* av1_packet.{h,cc}).                                                     *)
(*                                                                         *)
(* An OBU is a record of its type, its layer (0: no extension header; each *)
(* other value stands for a pair of temporal and spatial id) and the size  *)
(* of what follows its header.  Its bytes are tokens: the OBU they belong  *)
(* to and their position, header first.                                    *)
(***************************************************************************)
EXTENDS Integers, SequencesExt

CONSTANTS
    Mtu,       \* mtu_
    LebBase    \* values a byte of a length field tells apart; 128 in the code

\* The constructor raises a smaller MTU to 2.
ASSUME MtuAssumption == Mtu \in Nat /\ Mtu >= 2
ASSUME LebAssumption == LebBase \in Nat /\ LebBase >= 4

ObuTypes == {"seq", "td", "tile_list", "other", "truncated"}
ObuType == [type : ObuTypes, layer : Nat, size : Nat]

ObuHeaderSize(obu) == IF obu.layer = 0 THEN 1 ELSE 2

\* Of an OBU as it travels: without a size field.
ObuLen(obu) == ObuHeaderSize(obu) + obu.size

\* What neither end passes on.
SkippedObu(obu) == obu.type \in {"td", "tile_list"}

Bytes(k, from, to) == [i \in 1 .. to - from |-> <<k, from + i - 1>>]

\* A byte of a length field holds one of LebBase values; five bytes reach beyond
\* what 32 bits hold.
LebLimits ==
    LET b == LebBase IN <<b, b * b, b * b * b, b * b * b * b>>
LebSize(n) ==
    CHOOSE s \in 1..5 :
        /\ s < 5 => n < LebLimits[s]
        /\ s > 1 => n >= LebLimits[s - 1]
LebAtEdge(n) == \E s \in 1..4 : n = LebLimits[s]

-----------------------------------------------------------------------------
(* Packets.                                                                *)

\* The bytes from..to-1 of an OBU, with a length field in front or not.
Element(k, from, to, sized) == [obu |-> k, from |-> from, to |-> to, sized |-> sized]
ElementBytes(element) == Bytes(element.obu, element.from, element.to)

ElementSize(element) ==
    LET n == element.to - element.from IN
    IF element.sized THEN LebSize(n) + n ELSE n

PacketSize(packet) ==
    LET size[i \in 0..Len(packet.elems)] ==
            IF i = 0 THEN 1 ELSE size[i - 1] + ElementSize(packet.elems[i])
    IN size[Len(packet.elems)]

NewPacket(n) == [z |-> FALSE, y |-> FALSE, w |-> 0, n |-> n, elems |-> <<>>]

\* W is written into the aggregation header with |=.
OrW(a, b) ==
    LET Bit(i) == IF (a \div i) % 2 = 1 \/ (b \div i) % 2 = 1 THEN i ELSE 0
    IN  Bit(1) + Bit(2)

(***************************************************************************)
(* What a receiver finds in the packet is what was put in: with W = 0 a    *)
(* length before each element, else W elements and a length before each    *)
(* but the last.                                                           *)
(***************************************************************************)
Parseable(packet) ==
    LET n == Len(packet.elems) IN
    /\ packet.w # 0 => packet.w = n
    /\ \A i \in 1..n : packet.elems[i].sized <=> (packet.w = 0 \/ i # n)
=============================================================================
