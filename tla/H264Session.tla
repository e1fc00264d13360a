---------------------------- MODULE H264Session ----------------------------
(***************************************************************************)
(* An H.264 sender and receiver: a packetizer, the packets its returned    *)
(* calls handed over, and a depacketizer fed with them in order by the     *)
(* application.  The transport is outside the library; it either keeps     *)
(* every packet or loses some.  It never reorders or duplicates: the       *)
(* packetizer leaves the sequence number of every packet 0, so nothing     *)
(* behind the socket could put packets back in order.                      *)
(***************************************************************************)
EXTENDS H264Packetizer, H264Depacketizer, SequencesExt

VARIABLES
    rcvd,   \* packets that have arrived or been lost
    lost    \* the positions in payloads of those lost

transportVars == <<rcvd, lost>>
vars == <<packetizerVars, depacketizerVars, transportVars>>

Init == PacketizerInit /\ DepacketizerInit /\ rcvd = 0 /\ lost = {}

Send == PacketizerNext /\ UNCHANGED <<depacketizerVars, transportVars>>

Receive ==
    /\ rcvd < packets
    /\ Depacketize(payloads[rcvd + 1])
    /\ rcvd' = rcvd + 1
    /\ UNCHANGED <<packetizerVars, lost>>

Lose ==
    /\ rcvd < packets
    /\ rcvd' = rcvd + 1
    /\ lost' = lost \cup {rcvd + 1}
    /\ UNCHANGED <<packetizerVars, depacketizerVars>>

Next == Send \/ Receive \/ Lose
Spec == Init /\ [][Next]_vars

(***************************************************************************)
(* The call runs to its end on the caller's thread, and the application    *)
(* hands every packet that arrives to the depacketizer.                    *)
(***************************************************************************)
Fairness ==
    /\ WF_vars(Working /\ UNCHANGED <<depacketizerVars, transportVars>>)
    /\ WF_vars(Receive)
LiveSpec == Spec /\ Fairness

-----------------------------------------------------------------------------
(* Types.                                                                  *)

Position(seq) == 1..Len(seq)
PieceType == [nalu : 1..Len(given), from : Nat, to : Nat]
PayloadType ==
    [kind : {"single", "stapa", "fua"}, pieces : Seq(PieceType), s : BOOLEAN, e : BOOLEAN]
UnitType == [hdr : 1..Len(given), body : Seq(Nat \X Nat)]

\* The state has the shape the code's declarations give it, positions are
\* within what they point into, and packets arrive only after the call that
\* made them returned.
TypeOK ==
    /\ given \in Seq(Nalu)
    /\ cur \in 0..Len(given)
    /\ sps_nalu \in 0..cur /\ pps_nalu \in 0..cur
    /\ disable_stap_a \in BOOLEAN
    /\ pc \in {"idle", "emit", "fua"}
    /\ nalu_index \in Nat
    /\ payloads \in Seq(PayloadType)
    /\ packets \in 0..Len(payloads)
    /\ marked \subseteq 1..packets
    /\ sent \in Seq(1..Len(given))
    /\ fua_buffer \in Seq(Nat \X Nat)
    /\ delivered \in Seq(UnitType)
    /\ outcome \in {"none", "true", "throw"}
    /\ rcvd \in 0..packets
    /\ lost \subseteq 1..rcvd

-----------------------------------------------------------------------------
(* What the sender promises.                                               *)

\* The payload of every packet fits the MTU (h264_packetizer.h:26).
PayloadsFit == \A p \in Position(payloads) : PayloadSize(payloads[p]) <= Mtu

(***************************************************************************)
(* No NAL unit is sent twice: a parameter set that went out in a STAP-A,   *)
(* or was dropped with one that was too large, does not come back.  And    *)
(* whatever is stored or dropped around them, the slices the packetizer    *)
(* has been through are, in order, the slices it sent.                     *)
(***************************************************************************)
IsSlice(k) == given[k].type = "slice"

SentOnceInOrder ==
    /\ IsInjective(sent)
    /\ {k \in Range(sent) : IsSlice(k)} = {k \in 1..cur : IsSlice(k)}
    /\ \A i, j \in Position(sent) :
          i < j /\ IsSlice(sent[i]) /\ IsSlice(sent[j]) => sent[i] < sent[j]

Fragment(p) == payloads[p].pieces[1]

\* NAL unit k went out on its own, whole or in fragments, before payload p.
SentAlone(k, p) == \E q \in 1 .. p - 1 : payloads[q].kind # "stapa" /\ Fragment(q).nalu = k

\* Between the parameter sets and the slice of STAP-A p no other was given, but for
\* those that went out on their own.
FreshAt(p) ==
    payloads[p].kind = "stapa" =>
        LET slice == payloads[p].pieces[3].nalu IN
        \A i \in 1..2 :
            LET set == payloads[p].pieces[i].nalu IN
            \A k \in set + 1 .. slice - 1 :
                given[k].type = given[set].type => SentAlone(k, p)

(***************************************************************************)
(* No newer parameter set is withheld in favour of an older one: between   *)
(* the SPS (the PPS) of a STAP-A and its slice no other was given, but for *)
(* those that went out on their own while STAP-A was switched off.  Those  *)
(* the stored one then overtakes: DisableStapA leaves it behind.           *)
(***************************************************************************)
FreshParameterSets == \A p \in Position(payloads) : FreshAt(p)

-----------------------------------------------------------------------------
(* What sender and receiver promise together.                              *)

Whole(k) == Unit(k, Bytes(k, 0, given[k].len))

EndLost == \E p \in lost : IsFragment(payloads[p]) /\ payloads[p].e

\* A loss that can reach NAL unit k: of a fragment of its own, or of the last
\* fragment of an earlier one, whose bytes were then still in fua_buffer_.
Reached(k) ==
    \E p \in lost :
        /\ IsFragment(payloads[p])
        /\ Fragment(p).nalu = k \/ (Fragment(p).nalu < k /\ payloads[p].e)

\* Loss does no damage at a distance: what comes out is what went in, byte for
\* byte (h264_depacketizer.cc:107, "Reconstruct the original NALU"), unless a loss
\* can reach it.
DamageIsLocal ==
    \A i \in Position(delivered) :
        delivered[i] = Whole(delivered[i].hdr) \/ Reached(delivered[i].hdr)

\* Where nothing is lost, nothing that comes out is damaged.
NoCorruption ==
    lost = {} => \A i \in Position(delivered) : delivered[i] = Whole(delivered[i].hdr)

\* Once a marked packet has arrived the receiver holds no unfinished NAL unit,
\* or a lost one's: the marker really is the end of the frame
\* (h264_packetizer.cc:40).
MarkerCompletes == rcvd \in marked \ lost => EndLost \/ fua_buffer = <<>>

\* No packet of the packetizer makes the depacketizer throw (media_rtp.h:69,
\* "Returns true if successful, false on error").
NeverThrows == outcome # "throw"

(***************************************************************************)
(* The inductive invariant behind DamageIsLocal and MarkerCompletes: the   *)
(* fragments of a NAL unit follow each other without a gap, from its first *)
(* byte to an end bit on its last; only the FU-A loop leaves one open; the *)
(* fragments are in the order of their NAL units; and the receiver's       *)
(* buffer is the part of the NAL unit that has arrived, or a loss reached  *)
(* it.                                                                     *)
(***************************************************************************)
\* The NAL unit of the payload before p goes on in p.
Continues(p) == p > 1 /\ ~EndsNalu(payloads[p - 1])

LoopInv ==
    /\ pc = "idle" => cur = Len(given)
    /\ pc = "fua" => /\ cur < Len(given)
                     /\ NaluSize(CurrentNalu) > Mtu
                     /\ nalu_index < CurrentNalu.len

ShapeInv ==
    \A p \in Position(payloads) :
        /\ Len(payloads[p].pieces) = (IF payloads[p].kind = "stapa" THEN 3 ELSE 1)
        /\ ~IsFragment(payloads[p]) =>
              \A i \in Position(payloads[p].pieces) :
                  payloads[p].pieces[i] = WholePiece(payloads[p].pieces[i].nalu)

ChainInv ==
    \A p \in Position(payloads) :
        /\ Continues(p) => /\ IsFragment(payloads[p])
                           /\ Fragment(p).nalu = Fragment(p - 1).nalu
                           /\ Fragment(p).from = Fragment(p - 1).to
        /\ IsFragment(payloads[p]) =>
              /\ ~Continues(p) => Fragment(p).from = 0
              /\ Fragment(p).from <= Fragment(p).to
              /\ payloads[p].e => Fragment(p).to = given[Fragment(p).nalu].len

OpenInv ==
    IF Continues(Len(payloads) + 1)
    THEN /\ pc = "fua"
         /\ Fragment(Len(payloads)).nalu = Current
         /\ Fragment(Len(payloads)).to = nalu_index
    ELSE pc = "fua" => nalu_index = 0

MarkInv == \A p \in marked : EndsNalu(payloads[p])

OrderInv ==
    /\ \A p \in Position(payloads) : IsFragment(payloads[p]) =>
          Fragment(p).nalu <= IF payloads[p].e THEN cur ELSE Current
    /\ \A p, q \in Position(payloads) :
          IsFragment(payloads[p]) /\ payloads[p].e /\ IsFragment(payloads[q]) /\ p < q =>
              Fragment(p).nalu < Fragment(q).nalu

BufferInv ==
    IF Continues(rcvd + 1)
    THEN \/ fua_buffer = Bytes(Fragment(rcvd).nalu, 0, Fragment(rcvd).to)
         \/ Reached(Fragment(rcvd).nalu)
    ELSE fua_buffer = <<>> \/ EndLost

IndInv ==
    /\ TypeOK /\ LoopInv /\ ShapeInv /\ ChainInv /\ OpenInv
    /\ MarkInv /\ OrderInv /\ BufferInv /\ DamageIsLocal

(***************************************************************************)
(* What SentOnceInOrder and FreshParameterSets rest on besides: a stored   *)
(* parameter set is of its kind, has not been sent, and every later one of *)
(* its kind went out on its own; and nothing is sent ahead of its turn.    *)
(***************************************************************************)
StoredRight(set, type) ==
    set # 0 =>
        /\ given[set].type = type
        /\ set \notin Range(sent)
        /\ \A k \in set + 1 .. cur :
              given[k].type = type => SentAlone(k, Len(payloads) + 1)

StoreInv ==
    /\ StoredRight(sps_nalu, "sps") /\ StoredRight(pps_nalu, "pps")
    /\ \A i \in Position(sent) : sent[i] <= cur

StoreIndInv == PayloadsFit /\ SentOnceInOrder /\ FreshParameterSets /\ StoreInv

\* Every NAL unit that went into packets comes out of the depacketizer, unless a
\* packet is lost.
EverySentDelivered ==
    \A k \in 1..MaxNalus :
        k \in Range(sent) ~>
            lost # {} \/ \E i \in Position(delivered) : delivered[i].hdr = k

\* The units the receiver got intact; 0 stands for a damaged one.
DeliveredNalus ==
    [i \in Position(delivered) |->
        LET k == delivered[i].hdr IN IF delivered[i] = Whole(k) THEN k ELSE 0]

\* The session implements the stream of NAL units.
Stream == INSTANCE NaluStream WITH
    stream <- sent, out <- DeliveredNalus, faulty <- lost # {}
StreamSpec == Stream!Spec
=============================================================================
