-------------------------- MODULE AV1Depacketizer ---------------------------
(***************************************************************************)
(* rtp::AV1Depacketizer (depacketizer/av1_depacketizer.{h,cc}): one step   *)
(* per call of Depacketize, on a packet whose lengths add up.              *)
(***************************************************************************)
EXTENDS AV1Packet

VARIABLES
    buffer,      \* buffer_: bytes of the OBU whose end has not come
    out_frame,   \* what the last call gave its caller: OBUs
    delivered,   \* history: all of them, in order
    outcome      \* of the last call: "none" yet, "true" or "false"

depacketizerVars == <<buffer, out_frame, delivered, outcome>>

DepacketizerInit ==
    buffer = <<>> /\ out_frame = <<>> /\ delivered = <<>> /\ outcome = "none"

\* buffer_ when the walk over the elements begins.
BufferOn(packet) == IF packet.n \/ ~packet.z THEN <<>> ELSE buffer

\* Mutant: a continuation without its beginning is taken for an OBU.
ObuBufferAny(packet, i) ==
    IF i = 1 THEN BufferOn(packet) \o ElementBytes(packet.elems[1])
             ELSE ElementBytes(packet.elems[i])
\* obu_buffer of element i; empty for a continuation whose beginning is missing.
ObuBuffer(packet, i) ==
    LET bytes == ElementBytes(packet.elems[i]) IN
    IF i = 1 /\ packet.z
    THEN IF BufferOn(packet) = <<>> THEN <<>> ELSE BufferOn(packet) \o bytes
    ELSE bytes

\* buffer_ after the walk where no element goes on in the next packet.
BufferLeft(packet) == IF packet.z THEN <<>> ELSE BufferOn(packet)

\* Mutant: an OBU that goes on in the next packet is handed out too.
CompleteAll(packet) == Len(packet.elems)
\* How many elements end in this packet.
Complete(packet) == Len(packet.elems) - IF packet.y THEN 1 ELSE 0

(***************************************************************************)
(* `obus` are the sender's: the type in the header that ObuBuffer begins   *)
(* with.  That there is a header, not the middle of an OBU, is the         *)
(* session's invariant BeginsWithHeader.                                   *)
(***************************************************************************)
HandedOut(packet, obus) ==
    LET Kept(bytes) == bytes # <<>> /\ ~SkippedObu(obus[bytes[1][1]])
        obu_payloads[i \in 0..Complete(packet)] ==
            IF i = 0 THEN <<>>
            ELSE obu_payloads[i - 1]
                 \o IF Kept(ObuBuffer(packet, i)) THEN <<ObuBuffer(packet, i)>> ELSE <<>>
    IN  obu_payloads[Complete(packet)]

\* A packet without a body.
RefuseEmpty(packet) ==
    /\ packet.elems = <<>>
    /\ out_frame' = <<>>
    /\ outcome' = "false"
    /\ UNCHANGED <<buffer, delivered>>

Depacketize(packet, obus) ==
    \/ RefuseEmpty(packet)
    \/ /\ packet.elems # <<>>
       /\ buffer' = IF packet.y THEN ObuBuffer(packet, Len(packet.elems))
                    ELSE BufferLeft(packet)
       /\ out_frame' = HandedOut(packet, obus)
       /\ delivered' = delivered \o HandedOut(packet, obus)
       /\ outcome' = "true"
=============================================================================
