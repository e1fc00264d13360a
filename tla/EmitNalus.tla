----------------------------- MODULE EmitNalus -----------------------------
(***************************************************************************)
(* H264Packet::EmitNalus (packet/h264_packet.cc): a frame is cut into NAL  *)
(* units at the start codes 0 0 1 and 0 0 0 1.  One step per turn of the   *)
(* loop.  A NAL unit is named by where it lies in the frame.               *)
(***************************************************************************)
EXTENDS Integers, Sequences

CONSTANT Frames   \* the frames the application may hand over

ASSUME FramesAssumption == Frames \subseteq Seq(0..255)

VARIABLES
    data,     \* the frame
    start,    \* where the start code of the current NAL unit is
    offset,   \* how long that start code is
    nalus,    \* the NAL units emitted so far
    emit      \* "begin", "loop", "done", or "overrun" after a read beyond the frame

emitVars == <<start, offset, nalus, emit>>

\* Bytes from..to - 1 of the frame.
Range_(from, to) == [from |-> from, to |-> to]

\* Byte i of the code's vector.
Byte(i) == data[i + 1]

StartCodeAt(i) ==
    /\ 0 <= i /\ i + 3 <= Len(data)
    /\ Byte(i) = 0 /\ Byte(i + 1) = 0 /\ Byte(i + 2) = 1

\* What std::search finds from a position on.
NoneFrom(from) == \A i \in from .. Len(data) - 3 : ~StartCodeAt(i)
FirstFrom(from, i) ==
    /\ i >= from /\ StartCodeAt(i)
    /\ \A j \in from .. i - 1 : ~StartCodeAt(j)

EmitInit ==
    /\ data \in Frames
    /\ start = 0 /\ offset = 3 /\ nalus = <<>> /\ emit = "begin"

EmitWhole ==
    /\ emit = "begin"
    /\ NoneFrom(0)
    /\ nalus' = <<Range_(0, Len(data))>>
    /\ emit' = "done"
    /\ UNCHANGED <<data, start, offset>>

\* What comes before the first start code is dropped.
FindFirst ==
    /\ emit = "begin"
    /\ \E i \in 0 .. Len(data) - 3 : FirstFrom(0, i) /\ start' = i
    /\ emit' = "loop"
    /\ UNCHANGED <<data, offset, nalus>>

NaluStart == start + offset

EmitRest ==
    /\ emit = "loop"
    /\ NaluStart < Len(data) /\ NoneFrom(NaluStart)
    /\ nalus' = Append(nalus, Range_(NaluStart, Len(data)))
    /\ emit' = "done"
    /\ UNCHANGED <<data, start, offset>>

\* With a zero in front, the start code at i is one of four bytes.
\* Mutant: it is skipped as one of three.
CodeLenShort(i) == 3
CodeLen(i) == IF i > 0 /\ Byte(i - 1) = 0 THEN 4 ELSE 3
CodeStart(i) == IF i > 0 /\ Byte(i - 1) = 0 THEN i - 1 ELSE i

EmitNext ==
    /\ emit = "loop"
    /\ NaluStart < Len(data)
    /\ \E i \in NaluStart .. Len(data) - 3 :
          /\ FirstFrom(NaluStart, i)
          /\ nalus' = Append(nalus, Range_(NaluStart, CodeStart(i)))
          /\ start' = CodeStart(i)
          /\ offset' = CodeLen(i)
    /\ UNCHANGED <<data, emit>>

(***************************************************************************)
(* The frame ends with the start code.  The search is skipped, its result  *)
(* is not taken for "no more", and the next NAL unit is looked for beyond  *)
(* the frame.                                                              *)
(***************************************************************************)
EmitBeyond ==
    /\ emit = "loop"
    /\ NaluStart >= Len(data)
    /\ emit' = "overrun"
    /\ UNCHANGED <<data, start, offset, nalus>>

EmitStep == EmitWhole \/ FindFirst \/ EmitRest \/ EmitNext \/ EmitBeyond
=============================================================================
