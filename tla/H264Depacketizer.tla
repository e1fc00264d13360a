-------------------------- MODULE H264Depacketizer --------------------------
(***************************************************************************)
(* rtp::H264Depacketizer (depacketizer/h264_depacketizer.{h,cc}): one step *)
(* per call of Depacketize, on the payload of the packet that arrived.     *)
(***************************************************************************)
EXTENDS H264Packet

VARIABLES
    fua_buffer,   \* fua_buffer_: bytes of the NAL unit being reassembled
    delivered,    \* every NAL unit appended to the caller's frame, in order
    outcome       \* of the last call: "none" yet, "true" or "throw"

depacketizerVars == <<fua_buffer, delivered, outcome>>

DepacketizerInit == fua_buffer = <<>> /\ delivered = <<>> /\ outcome = "none"

ParseSingle(payload) ==
    /\ payload.kind = "single"
    /\ LET piece == payload.pieces[1] IN
       delivered' = Append(delivered, Unit(piece.nalu, PieceBytes(piece)))
    /\ outcome' = "true"
    /\ UNCHANGED fua_buffer

\* Every declared length agrees with the NAL unit behind it.
LengthsAgree(payload) ==
    \A i \in DOMAIN payload.pieces :
        LET size == 1 + PieceLen(payload.pieces[i]) IN LengthField(size) = size

(***************************************************************************)
(* The walk over the aggregated NAL units.  A declared length beyond the   *)
(* payload throws, and the NAL units already cut out go with the exception.*)
(***************************************************************************)
ParseStapA(payload) ==
    /\ payload.kind = "stapa"
    /\ IF LengthsAgree(payload)
       THEN /\ delivered' = delivered \o
                 [i \in DOMAIN payload.pieces |->
                    Unit(payload.pieces[i].nalu, PieceBytes(payload.pieces[i]))]
            /\ outcome' = "true"
       ELSE /\ outcome' = "throw"
            /\ UNCHANGED delivered
    /\ UNCHANGED fua_buffer

\* Mutant: the buffer is not cleared at the end of a NAL unit.
LeftoverKept(payload, joined) == joined
\* What fua_buffer_ holds after a fragment.
Leftover(payload, joined) == IF payload.e THEN <<>> ELSE joined

\* The start bit is not looked at: the fragment joins whatever the buffer holds.
ParseFua(payload) ==
    LET piece == payload.pieces[1]
        joined == fua_buffer \o PieceBytes(piece)
    IN
    /\ payload.kind = "fua"
    /\ fua_buffer' = Leftover(payload, joined)
    /\ IF payload.e
       THEN delivered' = Append(delivered, Unit(piece.nalu, joined))
       ELSE UNCHANGED delivered
    /\ outcome' = "true"

Depacketize(payload) ==
    ParseSingle(payload) \/ ParseStapA(payload) \/ ParseFua(payload)
=============================================================================
