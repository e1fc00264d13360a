----------------------------- MODULE H265Packet -----------------------------
(***************************************************************************)
(* Data shared by the H.265 packetizer and depacketizer                    *)
(* (packet/h265_packet.{h,cc}): NAL units, RTP payloads and their sizes.   *)
(*                                                                         *)
(* All the code looks at of a NAL unit is its size in bytes, the two of    *)
(* its header included.  It is named by its position k in the sequence of  *)
(* all NAL units handed over, and byte i of its body is the token <<k, i>>.*)
(***************************************************************************)
EXTENDS Integers, Sequences, SequencesExt

kH265NaluHeaderSize == 2
kH265FragmentationUnitHeaderSize == 1
kAggregationSizeField == 2
kDonlSize == 2

\* donl_ is a uint16_t.
DonlModulus == 65536
Donl == 0..(DonlModulus - 1)

(***************************************************************************)
(* A payload carries pieces of NAL units: all of one ("single"), all of    *)
(* several ("ap") or a part of one ("fu").  donl is the decoding order     *)
(* number in front of the first piece, <<>> where there is none, and size  *)
(* the bytes of the buffer the code allocates for the payload.             *)
(***************************************************************************)
Piece(k, from, to) == [nalu |-> k, from |-> from, to |-> to]
PieceLen(piece) == piece.to - piece.from

Payload(kind, pieces, s, e, donl, size) ==
    [kind |-> kind, pieces |-> pieces, s |-> s, e |-> e, donl |-> donl, size |-> size]

\* The NAL units of an aggregation packet, each behind its length.
UnitsWritten(pieces) ==
    LET upTo[i \in 0..Len(pieces)] ==
            IF i = 0 THEN 0
            ELSE upTo[i - 1] + kAggregationSizeField + kH265NaluHeaderSize + PieceLen(pieces[i])
    IN upTo[Len(pieces)]

\* The bytes the code writes into the payload.
BytesWritten(payload) ==
    kH265NaluHeaderSize
    + (IF payload.donl = <<>> THEN 0 ELSE kDonlSize)
    + CASE payload.kind = "single" -> PieceLen(payload.pieces[1])
        [] payload.kind = "fu" -> kH265FragmentationUnitHeaderSize + PieceLen(payload.pieces[1])
        [] payload.kind = "ap" -> UnitsWritten(payload.pieces)
                                  + (IF payload.donl = <<>> THEN 0 ELSE Len(payload.pieces) - 1)

(***************************************************************************)
(* Bytes and reassembled NAL units, as the receiver holds them.            *)
(***************************************************************************)
Bytes(k, from, to) == [i \in 1..(to - from) |-> <<k, from + i>>]
PieceBytes(piece) == Bytes(piece.nalu, piece.from, piece.to)
\* The bytes of a decoding order number that end up in a body.
DonlBytes == <<<<0, 0>>, <<0, 0>>>>

\* A NAL unit with the header of k.
Unit(k, body) == [hdr |-> k, body |-> body]

IsFragment(payload) == payload.kind = "fu"
EndsNalu(payload) == IsFragment(payload) => payload.e
=============================================================================
