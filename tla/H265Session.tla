---------------------------- MODULE H265Session ----------------------------
(***************************************************************************)
(* An H.265 sender and receiver: a packetizer, the packets its returned    *)
(* calls handed over, and a depacketizer fed with them in order by the     *)
(* application.  Both ends are told before the first frame whether there   *)
(* are decoding order numbers.  The transport keeps or loses packets; the  *)
(* depacketizer does not look at sequence numbers, so neither reordering   *)
(* nor a gap is visible to it, and putting packets in order is the         *)
(* application's.                                                          *)
(***************************************************************************)
EXTENDS H265Packetizer, H265Depacketizer

CONSTANT DonlValues   \* what the application may pass to SetDONL

ASSUME DonlAssumption == DonlValues \subseteq BOOLEAN

VARIABLES
    rcvd,   \* packets that have arrived or been lost
    lost    \* the positions in payloads of those lost

transportVars == <<rcvd, lost>>
vars == <<packetizerVars, depacketizerVars, transportVars>>

Init == PacketizerInit /\ DepacketizerInit /\ rcvd = 0 /\ lost = {}

SetDONL ==
    /\ given = <<>>
    /\ \E value \in DonlValues : WithDONL(value) /\ ExpectDONL(value)
    /\ UNCHANGED transportVars

Send == PacketizerNext /\ UNCHANGED <<depacketizerVars, transportVars>>

Receive ==
    /\ rcvd < packets
    /\ Depacketize(payloads[rcvd + 1])
    /\ rcvd' = rcvd + 1
    /\ UNCHANGED <<packetizerVars, lost>>

Lose ==
    /\ rcvd < packets
    /\ rcvd' = rcvd + 1
    /\ lost' = lost \cup {rcvd + 1}
    /\ UNCHANGED <<packetizerVars, depacketizerVars>>

Next == SetDONL \/ Send \/ Receive \/ Lose
Spec == Init /\ [][Next]_vars

\* The packetizer's call runs to its end on the caller's thread, and every
\* packet that arrives is handed to the depacketizer.
Fairness ==
    /\ WF_vars(Working /\ UNCHANGED <<depacketizerVars, transportVars>>)
    /\ WF_vars(Receive)
LiveSpec == Spec /\ Fairness

-----------------------------------------------------------------------------
(* Types.                                                                  *)

Position(seq) == 1..Len(seq)
PieceType == [nalu : 1..Len(given), from : Nat, to : Nat]
PayloadType ==
    [kind : {"single", "ap", "fu"}, pieces : Seq(PieceType), s : BOOLEAN, e : BOOLEAN,
     donl : Seq(Donl), size : Nat]
UnitType == [hdr : 1..Len(given), body : Seq(Nat \X Nat)]

SenderType ==
    /\ given \in Seq(Nat \ {0})
    /\ mtu \in Mtus
    /\ cur \in 0..Len(given)
    /\ add_donl \in BOOLEAN /\ skip_aggregation \in BOOLEAN
    /\ donl \in Donl
    /\ pc \in {"idle", "scan", "fu"}
    /\ bufferedNALUs \in Seq(1..cur)
    /\ aggregationBufferSize \in Nat /\ offset \in Nat
    /\ payloads \in Seq(PayloadType)
    /\ packets \in 0..Len(payloads)
    /\ marked \subseteq 1..packets
    /\ sent \in Seq(1..Len(given))

ReceiverType ==
    /\ might_need_donl \in BOOLEAN
    /\ fragment_hdr \in 0..Len(given)
    /\ fragment_buffer \in Seq(Nat \X Nat)
    /\ current_fragment_is_valid \in BOOLEAN
    /\ delivered \in Seq(UnitType)
    /\ h265_frame \in Seq(UnitType)
    /\ outcome \in {"none", "true", "false"}

\* The state has the shape the code's declarations give it, donl_ its 16 bits,
\* and packets arrive only after the call that made them returned.
TypeOK ==
    /\ SenderType /\ ReceiverType
    /\ rcvd \in 0..packets
    /\ lost \subseteq 1..rcvd

-----------------------------------------------------------------------------
(* What the sender promises.                                               *)

(***************************************************************************)
(* The payload of every packet fits the MTU (h265_packetizer.cc:184, "This *)
(* NALU fits into a single packet, either it can be emitted as a single    *)
(* NALU or appended to the previous aggregation packet"); and the size     *)
(* summed up NAL unit by NAL unit while an aggregation packet is being put *)
(* together is the size it needs: its buffer is neither written past its   *)
(* end nor left with bytes a receiver would read as another unit.          *)
(***************************************************************************)
SizesRight ==
    \A p \in Position(payloads) :
        /\ payloads[p].size <= mtu
        /\ payloads[p].size = BytesWritten(payloads[p])

(***************************************************************************)
(* What is sent, buffered and still to be scanned is what was given, in    *)
(* its order and each once, however single packets, aggregation packets    *)
(* and fragments alternate; and nothing stays buffered over calls.         *)
(***************************************************************************)
KeptInOrder ==
    LET through == sent \o bufferedNALUs IN
    /\ \A i, j \in Position(through) : i < j => through[i] < through[j]
    /\ Range(through) = {k \in 1..cur : ~IsShort(given[k])}
    /\ pc = "idle" => cur = Len(given) /\ bufferedNALUs = <<>>

-----------------------------------------------------------------------------
(* What sender and receiver promise together.                              *)

Whole(k) == Unit(k, Bytes(k, 0, given[k] - kH265NaluHeaderSize))

\* Every NAL unit that comes out is one that went in, byte for byte
\* (h265_depacketizer.cc:90, "copy the assembled NAL unit to the output").
NoCorruption ==
    \A i \in Position(delivered) : delivered[i] = Whole(delivered[i].hdr)

\* Once a marked packet has arrived the receiver holds no open NAL unit, or one
\* whose end was lost.
EndLost == \E p \in lost : IsFragment(payloads[p]) /\ payloads[p].e
MarkerCompletes == rcvd \in marked \ lost => EndLost \/ ~current_fragment_is_valid

(***************************************************************************)
(* The body the fragments up to payload p make, from the last start on, if *)
(* nothing is lost: with decoding order numbers, the depacketizer leaves   *)
(* those of all fragments but the first in it.                             *)
(***************************************************************************)
PartOf(payload) ==
    IF payload.donl = <<>> \/ payload.s
    THEN PieceBytes(payload.pieces[1])
    ELSE DonlBytes \o PieceBytes(payload.pieces[1])

AssembledFrom(made) ==
    LET body[p \in 0..Len(made)] ==
            IF p = 0 THEN <<>>
            ELSE (IF made[p].s THEN <<>> ELSE body[p - 1]) \o PartOf(made[p])
    IN body
Assembled == AssembledFrom(payloads)

Fragment(p) == payloads[p].pieces[1]

\* A NAL unit the way it comes out if nothing is lost.
AsExpected(unit) ==
    \/ unit = Whole(unit.hdr)
    \/ /\ add_donl
       /\ \E p \in Position(payloads) :
             /\ IsFragment(payloads[p]) /\ payloads[p].e
             /\ Fragment(p).nalu = unit.hdr
             /\ unit.body = Assembled[p]

FragmentLost(k) == \E p \in lost : IsFragment(payloads[p]) /\ Fragment(p).nalu = k

\* Loss damages a NAL unit only through a fragment of its own: one that comes out
\* with a damaged body had a fragment lost (h265_depacketizer.cc:66).
DamageIsLocal ==
    \A i \in Position(delivered) : AsExpected(delivered[i]) \/ FragmentLost(delivered[i].hdr)

(***************************************************************************)
(* The inductive invariant.  What the packetizer alone does holds whatever *)
(* it is given: where its loops are, what the payloads look like, and how  *)
(* the size of the aggregation buffer comes about.                         *)
(***************************************************************************)
LoopInv ==
    pc = "fu" => /\ cur < Len(given) /\ bufferedNALUs = <<>>
                 /\ ~FitsOnePacket /\ maxFUPayloadSize > 0 /\ offset < BodyLen

\* The two ends are told the same, and an open NAL unit has a header.
EndsInv ==
    /\ might_need_donl = add_donl
    /\ current_fragment_is_valid => fragment_hdr # 0

AggregationInv ==
    LET n == Len(bufferedNALUs)
        Pieces_ == [i \in 1..n |-> WholePiece(bufferedNALUs[i])]
    IN
    /\ aggregationBufferSize <= mtu
    /\ aggregationBufferSize =
          IF n = 0 THEN 0
          ELSE UnitsWritten(Pieces_) + (IF n > 1 THEN kH265NaluHeaderSize ELSE 0)
               + IfDonl(kDonlSize + n - 1)

ShapeInv ==
    \A p \in Position(payloads) :
        /\ Len(payloads[p].pieces) > 0
        /\ payloads[p].donl = <<>> <=> ~add_donl
        /\ ~IsFragment(payloads[p]) =>
              \A i \in Position(payloads[p].pieces) :
                  payloads[p].pieces[i] = WholePiece(payloads[p].pieces[i].nalu)
        /\ IsFragment(payloads[p]) => Fragment(p).from < Fragment(p).to

SenderInv ==
    /\ TypeOK /\ LoopInv /\ EndsInv /\ AggregationInv /\ ShapeInv
    /\ SizesRight /\ KeptInOrder

(***************************************************************************)
(* The rest needs that no NAL unit is one fragment, which would have no    *)
(* end bit.  Then the fragments of a NAL unit follow each other without a  *)
(* gap from its first byte to an end bit on its last, nothing comes        *)
(* between them, and the NAL unit the receiver has open is the one the     *)
(* sender is in, with the part that has arrived, or lost a fragment.       *)
(***************************************************************************)
NoLoneFragment ==
    \A k \in Position(given) :
        given[k] # mtu - kH265FragmentationUnitHeaderSize - IfDonl(kDonlSize)

Continues(p) == p > 1 /\ ~EndsNalu(payloads[p - 1])

ChainAt(p) ==
    /\ Continues(p) => /\ IsFragment(payloads[p]) /\ ~payloads[p].s
                       /\ Fragment(p).nalu = Fragment(p - 1).nalu
                       /\ Fragment(p).from = Fragment(p - 1).to
    /\ IsFragment(payloads[p]) =>
          /\ ~Continues(p) => Fragment(p).from = 0 /\ payloads[p].s
          /\ payloads[p].e => Fragment(p).to = given[Fragment(p).nalu] - kH265NaluHeaderSize
          /\ ~add_donl => Assembled[p] = Bytes(Fragment(p).nalu, 0, Fragment(p).to)
ChainInv == \A p \in Position(payloads) : ChainAt(p)

OpenInv ==
    IF Continues(Len(payloads) + 1)
    THEN /\ pc = "fu"
         /\ Fragment(Len(payloads)).nalu = Current
         /\ Fragment(Len(payloads)).to = offset
    ELSE pc = "fu" => offset = 0

MarkInv == \A p \in marked : EndsNalu(payloads[p])

ReceiverInv ==
    /\ current_fragment_is_valid =>
          \/ FragmentLost(fragment_hdr)
          \/ /\ Continues(rcvd + 1)
             /\ fragment_hdr = Fragment(rcvd).nalu
             /\ fragment_buffer = Assembled[rcvd]
    /\ current_fragment_is_valid /\ ~Continues(rcvd + 1) => EndLost
    /\ lost = {} /\ Continues(rcvd + 1) => current_fragment_is_valid

\* What the depacketizer hands out of the payloads up to each: the first NAL unit of
\* one that ends a NAL unit, but no single one that is a header alone.
HandsOut(payload) ==
    EndsNalu(payload) /\ (payload.kind = "single" => PieceLen(payload.pieces[1]) > 0)

HandedFrom(made) ==
    LET handed[p \in 0..Len(made)] ==
            IF p = 0 THEN <<>>
            ELSE IF HandsOut(made[p])
                 THEN Append(handed[p - 1], made[p].pieces[1].nalu)
                 ELSE handed[p - 1]
    IN handed
Handed == HandedFrom(payloads)
HandedNalus == Handed[Len(payloads)]

\* The NAL units in packets that the depacketizer hands out: the first of an
\* aggregation packet, and no single one that is a header alone.
HandedOut(k) ==
    \E p \in Position(payloads) :
        /\ payloads[p].pieces[1].nalu = k
        /\ payloads[p].kind = "single" => given[k] > kH265NaluHeaderSize

\* Those are, in their order, the ones of the NAL units sent; the first of every
\* payload has been sent or is being cut, and is not once its call has returned.
HandedInv ==
    /\ \A i, j \in Position(HandedNalus) : i < j => HandedNalus[i] < HandedNalus[j]
    /\ Range(HandedNalus) = {k \in Range(sent) : HandedOut(k)}
    /\ \A p \in Position(payloads) :
          \/ Fragment(p).nalu \in Range(sent)
          \/ p > packets /\ pc = "fu" /\ Fragment(p).nalu = Current

\* The NAL units that came out as they should have arrived, and in order; without
\* loss they are all that did.
OutInv ==
    /\ current_fragment_is_valid => fragment_hdr \in Range(sent)
    /\ \A i \in Position(delivered) :
          /\ delivered[i].hdr \in Range(sent)
          /\ AsExpected(delivered[i]) => delivered[i].hdr \in Range(Handed[rcvd])
    /\ \A i, j \in Position(delivered) :
          i < j /\ AsExpected(delivered[i]) /\ AsExpected(delivered[j]) =>
              delivered[i].hdr < delivered[j].hdr
    /\ lost = {} => [i \in Position(delivered) |-> delivered[i].hdr] = Handed[rcvd]

LossInv == ChainInv /\ OpenInv /\ MarkInv /\ ReceiverInv /\ DamageIsLocal
SessionInv == LossInv /\ HandedInv /\ OutInv
IndInv == SenderInv /\ (NoLoneFragment => SessionInv)

\* The headers leave no room for a byte of a fragment.
NoRoom == maxFUPayloadSize <= 0

\* Every NAL unit the depacketizer can hand out comes out, unless a packet is lost
\* or the call never returns for want of room (h265_packetizer.cc:216).
EveryHandedOut ==
    \A k \in 1..MaxNalus :
        HandedOut(k) ~>
            \/ lost # {} \/ NoRoom
            \/ \E i \in Position(delivered) : delivered[i].hdr = k

\* The units the receiver got; 0 stands for one damaged by a loss.
DeliveredNalus ==
    [i \in Position(delivered) |->
        IF AsExpected(delivered[i]) THEN delivered[i].hdr ELSE 0]

\* The elements of a sequence that are in a set, in their order.
Among(seq, set) ==
    LET kept[i \in 0..Len(seq)] ==
            IF i = 0 THEN <<>>
            ELSE IF seq[i] \in set THEN Append(kept[i - 1], seq[i]) ELSE kept[i - 1]
    IN kept[Len(seq)]

\* The session implements the stream of the NAL units sent, of those that the
\* depacketizer hands out at all.
SentNalus == Among(sent, {k \in Range(sent) : HandedOut(k)})
Stream == INSTANCE NaluStream WITH
    stream <- SentNalus, out <- DeliveredNalus, faulty <- lost # {}
StreamSpec == Stream!Spec
=============================================================================
