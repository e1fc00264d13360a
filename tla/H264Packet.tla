----------------------------- MODULE H264Packet -----------------------------
(***************************************************************************)
(* Data shared by the H.264 packetizer and depacketizer                    *)
(* (packet/h264_packet.h): NAL units, RTP payloads and their sizes.        *)
(*                                                                         *)
(* A NAL unit is the record of its kind and of the number of bytes after   *)
(* its one-byte header.  It is named by its position k in the sequence of  *)
(* all NAL units the application has handed over, and byte i of its body   *)
(* is the token <<k, i>>, so that bytes of different NAL units, or of      *)
(* different places of one, never compare equal.                           *)
(***************************************************************************)
EXTENDS Integers, Sequences

CONSTANTS
    Mtu,         \* mtu_: the largest payload of an RTP packet
    SwapLength   \* TRUE on a little-endian host: see LengthField

(***************************************************************************)
(* mtu_ is a uint16_t.  A swapped length field of a NAL unit of 1 to 255   *)
(* bytes reads as 256 or more, beyond the end of a payload of at most Mtu  *)
(* bytes: bounding Mtu in that configuration keeps the parser's first      *)
(* length check the only outcome.                                          *)
(***************************************************************************)
ASSUME MtuAssumption == Mtu \in Nat /\ 1 <= Mtu /\ Mtu <= 65535
ASSUME SwapAssumption == SwapLength \in BOOLEAN /\ (SwapLength => Mtu < 256)

kFuaHeaderSize == 2
kStapaHeaderSize == 1
kStapaNALULengthSize == 2

NaluType == {"empty", "aud", "filler", "sps", "pps", "slice"}
Nalu == [type : NaluType, len : Nat]

NaluSize(nalu) == 1 + nalu.len

(***************************************************************************)
(* A payload carries pieces of NAL units: all of one ("single"), all of    *)
(* three ("stapa") or a part of one ("fua", with its start and end bits).  *)
(* A piece holds the body bytes from + 1 .. to of NAL unit `nalu`.         *)
(***************************************************************************)
Piece(k, from, to) == [nalu |-> k, from |-> from, to |-> to]

SinglePayload(piece) ==
    [kind |-> "single", pieces |-> <<piece>>, s |-> FALSE, e |-> FALSE]
StapAPayload(p1, p2, p3) ==
    [kind |-> "stapa", pieces |-> <<p1, p2, p3>>, s |-> FALSE, e |-> FALSE]
FuaPayload(piece, s, e) ==
    [kind |-> "fua", pieces |-> <<piece>>, s |-> s, e |-> e]

PieceLen(piece) == piece.to - piece.from

StapASize(len1, len2, len3) ==
    kStapaHeaderSize + 3 * (kStapaNALULengthSize + 1) + len1 + len2 + len3

PayloadSize(payload) ==
    LET Len_(i) == PieceLen(payload.pieces[i]) IN
    CASE payload.kind = "single" -> 1 + Len_(1)
      [] payload.kind = "stapa"  -> StapASize(Len_(1), Len_(2), Len_(3))
      [] payload.kind = "fua"    -> kFuaHeaderSize + Len_(1)

(***************************************************************************)
(* The two-byte length in front of each NAL unit of a STAP-A payload, as a *)
(* reader of network byte order sees it.  The packetizer applies htons and *)
(* then stores the high byte of the result first, so on a little-endian    *)
(* host the two bytes come out exchanged.                                  *)
(***************************************************************************)
LengthField(size) ==
    IF SwapLength THEN (size % 256) * 256 + size \div 256 ELSE size

(***************************************************************************)
(* Bytes and reassembled NAL units, as the receiver holds them.            *)
(***************************************************************************)
Bytes(k, from, to) == [i \in 1..(to - from) |-> <<k, from + i>>]
PieceBytes(piece) == Bytes(piece.nalu, piece.from, piece.to)

\* The output of DoPackaging for one NAL unit: whose header it has, and its body.
Unit(k, body) == [hdr |-> k, body |-> body]

IsFragment(payload) == payload.kind = "fua"
\* A payload after which the receiver holds no unfinished NAL unit.
EndsNalu(payload) == IsFragment(payload) => payload.e
=============================================================================
