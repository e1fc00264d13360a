--------------------------- MODULE VP8Packetizer ----------------------------
(***************************************************************************)
(* rtp::VP8Packetizer (packetizer/vp8_packetizer.{h,cc}): the call with    *)
(* its checks, one step per turn of the fragmentation loop, the return.    *)
(* SSRC, payload type and timestamp are copied into every packet and       *)
(* decide nothing; they are left out.                                      *)
(***************************************************************************)
EXTENDS VP8Packet

CONSTANTS
    FrameSizes,    \* sizes of the frames the application may hand over
    FirstNumber,   \* where the sequencer starts, anywhere in its 16 bits
    MaxFrames      \* bound: calls of Packetize

ASSUME FrameSizesAssumption == FrameSizes \subseteq Nat
ASSUME FirstNumberAssumption == FirstNumber \in 0 .. Word - 1
ASSUME MaxFramesAssumption == MaxFrames \in Nat

VARIABLES
    given,               \* history: sizes of the frames handed over
    refused,             \* history: those Packetize returned false for
    numbered,            \* history: those sent with identifiers on since the last reset
    enable_picture_id,   \* enable_picture_id_
    picture_id,          \* picture_id_
    sequence_number,     \* of the next packet
    pc,                  \* "idle" outside Packetize, "fragment" in its loop
    using_header_size,
    payload_data_index,  \* as in the code
    rtp_packets,         \* of this call
    packets              \* history: those handed over by calls that returned

idVars == <<enable_picture_id, picture_id>>
packetizerVars == <<given, refused, numbered, idVars, sequence_number, pc,
                    using_header_size, payload_data_index, rtp_packets, packets>>

PacketizerInit ==
    /\ given = <<>> /\ refused = {} /\ numbered = <<>>
    /\ enable_picture_id = FALSE /\ picture_id = 0
    /\ sequence_number = FirstNumber
    /\ pc = "idle"
    /\ using_header_size = kVP8HeaderSize /\ payload_data_index = 0
    /\ rtp_packets = <<>> /\ packets = <<>>

EnablePictureID ==
    /\ pc = "idle"
    /\ enable_picture_id' \in BOOLEAN
    /\ UNCHANGED <<given, refused, numbered, picture_id, sequence_number, pc,
                   using_header_size, payload_data_index, rtp_packets, packets>>

ResetPictureID ==
    /\ pc = "idle"
    /\ picture_id' = 0
    /\ numbered' = <<>>
    /\ UNCHANGED <<given, refused, enable_picture_id, sequence_number, pc,
                   using_header_size, payload_data_index, rtp_packets, packets>>

-----------------------------------------------------------------------------
(* Packetize.                                                              *)

Smaller(a, b) == IF a < b THEN a ELSE b

\* Mutant: the largest narrow identifier is off by one.
HeaderSizeNarrow ==
    IF ~enable_picture_id \/ picture_id = 0 THEN kVP8HeaderSize
    ELSE IF picture_id <= NarrowId THEN kVP8HeaderSize + 2 ELSE kVP8HeaderSize + 3
HeaderSize ==
    IF ~enable_picture_id \/ picture_id = 0 THEN kVP8HeaderSize
    ELSE IF picture_id < NarrowId THEN kVP8HeaderSize + 2 ELSE kVP8HeaderSize + 3

max_fragment_size(header) == Mtu - header

Packetize(size) ==
    /\ pc = "idle" /\ Len(given) < MaxFrames
    /\ given' = Append(given, size)
    /\ IF Smaller(max_fragment_size(HeaderSize), size) <= 0
       THEN /\ refused' = refused \cup {Len(given')}
            /\ UNCHANGED <<pc, using_header_size, payload_data_index, rtp_packets>>
       ELSE /\ pc' = "fragment"
            /\ using_header_size' = HeaderSize
            /\ payload_data_index' = 0
            /\ rtp_packets' = <<>>
            /\ UNCHANGED refused
    /\ UNCHANGED <<numbered, idVars, sequence_number, packets>>

Frame == Len(given)
Remaining == given[Frame] - payload_data_index

\* Mutant: every fragment claims to be the first.
IsFirstAlways == TRUE
IsFirst == payload_data_index = 0

Marker(remaining, max) == remaining <= max

Fragment ==
    /\ pc = "fragment" /\ Remaining > 0
    /\ LET max == max_fragment_size(using_header_size)
           end == payload_data_index + Smaller(max, Remaining)
           payload == Payload(Frame, payload_data_index, end, IsFirst, using_header_size,
                              IF using_header_size = kVP8HeaderSize THEN 0 ELSE picture_id)
       IN
       /\ rtp_packets' = Append(rtp_packets,
            [sequence_number |-> sequence_number,
             marker |-> Marker(Remaining, max), payload |-> payload])
       /\ payload_data_index' = end
    /\ sequence_number' = (sequence_number + 1) % Word
    /\ UNCHANGED <<given, refused, numbered, idVars, pc, using_header_size, packets>>

\* Mutant: the identifier does not wrap.
NextIdUnbounded == picture_id + 1
NextId == (picture_id + 1) % WrapId

Return ==
    /\ pc = "fragment" /\ Remaining <= 0
    /\ packets' = packets \o rtp_packets
    /\ IF enable_picture_id
       THEN picture_id' = NextId /\ numbered' = Append(numbered, Frame)
       ELSE UNCHANGED <<picture_id, numbered>>
    /\ pc' = "idle"
    /\ UNCHANGED <<given, refused, enable_picture_id, sequence_number, using_header_size,
                   payload_data_index, rtp_packets>>

PacketizerNext ==
    \/ EnablePictureID \/ ResetPictureID
    \/ \E size \in FrameSizes : Packetize(size)
    \/ Fragment \/ Return
=============================================================================
