--------------------------- MODULE H265Packetizer ---------------------------
(***************************************************************************)
(* rtp::H265Packetizer and the H265Payloader it owns                       *)
(* (packetizer/h265_packetizer.{h,cc}).                                    *)
(*                                                                         *)
(* One call of Packetize is a run of steps: the call, one step per NAL     *)
(* unit of the scan, one per call of flushBufferedNals, one per turn of    *)
(* the fragmentation loop, and the packet loop with the return.  The code  *)
(* calls flushBufferedNals in the middle of what it does with a NAL unit;  *)
(* MustFlush holds exactly there, and no other step is enabled then.       *)
(***************************************************************************)
EXTENDS H265Packet

CONSTANTS
    Mtus,        \* the MTUs a packetizer may be constructed with
    Frames(_),   \* the frames, as sizes of NAL units, given to one with that MTU
    MaxNalus     \* bound: NAL units in all frames together

ASSUME MtusAssumption == \A mtu_ \in Mtus : mtu_ \in Nat /\ 1 <= mtu_ /\ mtu_ <= 65535
ASSUME FramesAssumption == \A mtu_ \in Mtus : Frames(mtu_) \subseteq Seq(Nat \ {0})
ASSUME BoundAssumption == MaxNalus \in Nat

VARIABLES
    mtu,                    \* mtu_: the largest payload of an RTP packet
    given,                  \* history: sizes of all NAL units handed over, in order
    cur,                    \* how many of them the scan has been through
    add_donl,               \* add_donl_
    skip_aggregation,       \* skip_aggregation_
    donl,                   \* donl_
    pc,                     \* "idle" outside Packetize, else "scan" or "fu"
    bufferedNALUs,          \* positions in given of the NAL units to aggregate
    aggregationBufferSize,  \* as in the code
    offset,                 \* body bytes of the current NAL unit already cut
    payloads,               \* history: every payload made, in order
    packets,                \* how many of them calls that returned have handed over
    marked,                 \* positions in payloads of the packets with the marker
    sent                    \* history: the NAL units wholly in payloads, in order

configVars == <<mtu, add_donl, skip_aggregation>>
bufferVars == <<bufferedNALUs, aggregationBufferSize>>
outVars == <<packets, marked>>
packetizerVars == <<given, cur, configVars, donl, pc, bufferVars, offset,
                    payloads, outVars, sent>>

PacketizerInit ==
    /\ mtu \in Mtus
    /\ given = <<>> /\ cur = 0
    /\ add_donl = FALSE /\ skip_aggregation = FALSE /\ donl = 0
    /\ pc = "idle"
    /\ bufferedNALUs = <<>> /\ aggregationBufferSize = 0 /\ offset = 0
    /\ payloads = <<>> /\ packets = 0 /\ marked = {} /\ sent = <<>>

WithDONL(value) ==
    /\ pc = "idle"
    /\ add_donl' = value
    /\ UNCHANGED <<given, cur, mtu, skip_aggregation, donl, pc, bufferVars, offset,
                   payloads, outVars, sent>>

WithSkipAggregation(value) ==
    /\ pc = "idle"
    /\ skip_aggregation' = value
    /\ UNCHANGED <<given, cur, mtu, add_donl, donl, pc, bufferVars, offset,
                   payloads, outVars, sent>>

\* The application hands over a frame; the scan will find these NAL units.
Packetize(frame) ==
    /\ pc = "idle"
    /\ Len(given) + Len(frame) <= MaxNalus
    /\ given' = given \o frame
    /\ pc' = "scan"
    /\ UNCHANGED <<cur, configVars, donl, bufferVars, offset, payloads, outVars, sent>>

-----------------------------------------------------------------------------
(* The sizes.                                                              *)

Current == cur + 1
CurrentSize == given[Current]
BodyLen == CurrentSize - kH265NaluHeaderSize

IfDonl(n) == IF add_donl THEN n ELSE 0

IsShort(size) == size < kH265NaluHeaderSize
FitsOnePacket == CurrentSize + kH265NaluHeaderSize + IfDonl(kDonlSize) <= mtu

\* Mutant: the packet header is not counted for the second NAL unit.
MarginalWithoutHeader ==
    CurrentSize + kAggregationSizeField
    + IfDonl(IF bufferedNALUs = <<>> THEN kDonlSize ELSE 1)
calcMarginalAggregationSize ==
    CurrentSize + kAggregationSizeField
    + (IF Len(bufferedNALUs) = 1 THEN kH265NaluHeaderSize ELSE 0)
    + IfDonl(IF bufferedNALUs = <<>> THEN kDonlSize ELSE 1)

fuPacketHeaderSize ==
    kH265FragmentationUnitHeaderSize + kH265NaluHeaderSize + IfDonl(kDonlSize)
maxFUPayloadSize == mtu - fuPacketHeaderSize

-----------------------------------------------------------------------------
(* Payload(mtu, frame).                                                    *)

WholePiece(k) == Piece(k, 0, given[k] - kH265NaluHeaderSize)
WrittenDonl == IF add_donl THEN <<donl>> ELSE <<>>
NextDonl == IF add_donl THEN (donl + 1) % DonlModulus ELSE donl

AtNalu == pc = "scan" /\ cur < Len(given) /\ ~IsShort(CurrentSize)

\* Mutant: a NAL unit that must be fragmented does not flush those before it.
MustFlushLate ==
    /\ pc = "scan" /\ bufferedNALUs # <<>>
    /\ \/ skip_aggregation
       \/ cur = Len(given)
       \/ /\ AtNalu /\ FitsOnePacket
          /\ aggregationBufferSize + calcMarginalAggregationSize > mtu
MustFlush ==
    /\ pc = "scan" /\ bufferedNALUs # <<>>
    /\ \/ skip_aggregation
       \/ cur = Len(given)
       \/ /\ AtNalu /\ FitsOnePacket
          /\ aggregationBufferSize + calcMarginalAggregationSize > mtu
       \/ AtNalu /\ ~FitsOnePacket /\ maxFUPayloadSize > 0

\* One NAL unit goes out on its own; more go out as an aggregation packet,
\* whose decoding order number is written but not counted.
flushBufferedNals ==
    LET n == Len(bufferedNALUs)
        pieces == [i \in 1..n |-> WholePiece(bufferedNALUs[i])]
    IN
    /\ MustFlush
    /\ IF n = 1
       THEN /\ payloads' = Append(payloads,
                 Payload("single", pieces, FALSE, FALSE, WrittenDonl,
                         given[bufferedNALUs[1]] + IfDonl(kDonlSize)))
            /\ donl' = NextDonl
       ELSE /\ payloads' = Append(payloads,
                 Payload("ap", pieces, FALSE, FALSE, WrittenDonl, aggregationBufferSize))
            /\ UNCHANGED donl
    /\ sent' = sent \o bufferedNALUs
    /\ bufferedNALUs' = <<>> /\ aggregationBufferSize' = 0
    /\ UNCHANGED <<given, cur, configVars, pc, offset, outVars>>

SkipShort ==
    /\ pc = "scan" /\ ~MustFlush
    /\ cur < Len(given) /\ IsShort(CurrentSize)
    /\ cur' = Current
    /\ UNCHANGED <<given, configVars, donl, pc, bufferVars, offset, payloads, outVars, sent>>

BufferNalu ==
    /\ AtNalu /\ ~MustFlush
    /\ FitsOnePacket
    /\ bufferedNALUs' = Append(bufferedNALUs, Current)
    /\ aggregationBufferSize' = aggregationBufferSize + calcMarginalAggregationSize
    /\ cur' = Current
    /\ UNCHANGED <<given, configVars, donl, pc, offset, payloads, outVars, sent>>

StartFu ==
    /\ AtNalu /\ ~MustFlush
    /\ ~FitsOnePacket /\ maxFUPayloadSize > 0
    /\ pc' = "fu" /\ offset' = 0
    /\ UNCHANGED <<given, cur, configVars, donl, bufferVars, payloads, outVars, sent>>

(***************************************************************************)
(* The fragment headers leave no room for a byte: `continue` goes back to  *)
(* the scan loop with its position unchanged, to the same NAL unit.        *)
(***************************************************************************)
ContinueInPlace ==
    /\ AtNalu /\ ~MustFlush
    /\ ~FitsOnePacket /\ maxFUPayloadSize <= 0
    /\ UNCHANGED packetizerVars

currentFUPayloadSize ==
    IF BodyLen - offset > maxFUPayloadSize THEN maxFUPayloadSize ELSE BodyLen - offset

StartBit == offset = 0
\* Mutants: the end bit one fragment early, and one byte too late.
EndBitEarly == ~StartBit /\ offset + 2 * currentFUPayloadSize >= BodyLen
EndBitLate == ~StartBit /\ offset + currentFUPayloadSize > BodyLen
\* An else branch in the code: the start fragment never has it.
EndBit == ~StartBit /\ offset + currentFUPayloadSize = BodyLen

\* One turn of the fragmentation loop; the turn that leaves nothing leaves it.
FuFragment ==
    LET next == offset + currentFUPayloadSize IN
    /\ pc = "fu"
    /\ payloads' = Append(payloads,
           Payload("fu", <<Piece(Current, offset, next)>>, StartBit, EndBit,
                   WrittenDonl, fuPacketHeaderSize + currentFUPayloadSize))
    /\ donl' = NextDonl
    /\ offset' = next
    /\ IF next = BodyLen
       THEN pc' = "scan" /\ cur' = Current /\ sent' = Append(sent, Current)
       ELSE UNCHANGED <<pc, cur, sent>>
    /\ UNCHANGED <<given, configVars, bufferVars, outVars>>

\* Mutant: the marker goes on the first packet of the call.
MarkedFirst == packets + 1
MarkedPacket == Len(payloads)

\* The packet loop of Packetize and its return.
Return ==
    /\ pc = "scan" /\ cur = Len(given) /\ ~MustFlush
    /\ packets' = Len(payloads)
    /\ marked' = IF Len(payloads) > packets THEN marked \cup {MarkedPacket} ELSE marked
    /\ pc' = "idle"
    /\ UNCHANGED <<given, cur, configVars, donl, bufferVars, offset, payloads, sent>>

Working ==
    \/ flushBufferedNals \/ SkipShort \/ BufferNalu
    \/ StartFu \/ ContinueInPlace \/ FuFragment \/ Return

PacketizerNext ==
    \/ \E value \in BOOLEAN : WithSkipAggregation(value)
    \/ pc = "idle" /\ \E frame \in Frames(mtu) : Packetize(frame)
    \/ Working
=============================================================================
