-------------------------- MODULE H265Depacketizer --------------------------
(***************************************************************************)
(* rtp::H265Depacketizer (depacketizer/h265_depacketizer.{h,cc}) with the  *)
(* parsers of packet/h265_packet.cc it calls: one step per call of         *)
(* Depacketize.  The caller passes the same vector every time.             *)
(*                                                                         *)
(* Payloads come from a packetizer configured like this depacketizer; what *)
(* a parser makes of a decoding order number it does not expect, and PACI  *)
(* packets, which the packetizer does not make, are left out.              *)
(***************************************************************************)
EXTENDS H265Packet

VARIABLES
    might_need_donl,             \* might_need_donl_ of h265_packet_
    fragment_hdr,                \* fragment_buffer_: whose header it starts with
    fragment_buffer,             \* fragment_buffer_: the bytes after the header
    current_fragment_is_valid,   \* current_fragment_is_valid_
    h265_frame,                  \* the caller's vector, as NAL units
    delivered,                   \* history: every NAL unit put into it, in order
    outcome                      \* of the last call: "none" yet, "true" or "false"

fragmentVars == <<fragment_hdr, fragment_buffer, current_fragment_is_valid>>
depacketizerVars == <<might_need_donl, fragmentVars, h265_frame, delivered, outcome>>

DepacketizerInit ==
    /\ might_need_donl = FALSE
    /\ fragment_hdr = 0 /\ fragment_buffer = <<>> /\ current_fragment_is_valid = FALSE
    /\ h265_frame = <<>> /\ delivered = <<>> /\ outcome = "none"

ExpectDONL(value) ==
    /\ might_need_donl' = value
    /\ UNCHANGED <<fragmentVars, h265_frame, delivered, outcome>>

\* The vector is cleared before a NAL unit goes in.
Output(unit) ==
    /\ h265_frame' = <<unit>>
    /\ delivered' = Append(delivered, unit)
    /\ outcome' = "true"

NoOutput(result) == outcome' = result /\ UNCHANGED <<h265_frame, delivered>>

\* A NAL unit that is a header alone is too short for the parser.
ParseSingle(payload) ==
    LET piece == payload.pieces[1] IN
    /\ payload.kind = "single"
    /\ IF PieceLen(piece) > 0
       THEN Output(Unit(piece.nalu, PieceBytes(piece)))
       ELSE NoOutput("false")
    /\ UNCHANGED <<might_need_donl, fragmentVars>>

\* "Process the first unit only".
ParseAggregation(payload) ==
    LET piece == payload.pieces[1] IN
    /\ payload.kind = "ap"
    /\ Output(Unit(piece.nalu, PieceBytes(piece)))
    /\ UNCHANGED <<might_need_donl, fragmentVars>>

\* The decoding order number is taken off a start fragment, and off no other.
FuBody(payload) ==
    IF payload.donl # <<>> /\ ~(payload.s /\ might_need_donl)
    THEN DonlBytes \o PieceBytes(payload.pieces[1])
    ELSE PieceBytes(payload.pieces[1])

\* A start fragment begins a NAL unit unless one is still open.
Restarts(payload) == payload.s /\ ~current_fragment_is_valid

BufferBefore(payload) == IF Restarts(payload) THEN <<>> ELSE fragment_buffer

\* Mutant: the end of a NAL unit leaves it open.
StaysOpen(payload) == TRUE
LeftOpen(payload) == ~payload.e

ParseFu(payload) ==
    LET begun == Restarts(payload)
        hdr == IF begun THEN payload.pieces[1].nalu ELSE fragment_hdr
        joined == BufferBefore(payload) \o FuBody(payload)
    IN
    /\ payload.kind = "fu"
    /\ IF begun \/ current_fragment_is_valid
       THEN /\ fragment_hdr' = hdr /\ fragment_buffer' = joined
            /\ current_fragment_is_valid' = LeftOpen(payload)
            /\ IF payload.e THEN Output(Unit(hdr, joined)) ELSE NoOutput("false")
       ELSE NoOutput("false") /\ UNCHANGED fragmentVars
    /\ UNCHANGED might_need_donl

Depacketize(payload) ==
    ParseSingle(payload) \/ ParseAggregation(payload) \/ ParseFu(payload)
=============================================================================
