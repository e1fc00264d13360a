--------------------------- MODULE H264Packetizer ---------------------------
(***************************************************************************)
(* rtp::H264Packetizer (packetizer/h264_packetizer.{h,cc}).                *)
(*                                                                         *)
(* One call of Packetize is a run of steps: the call itself, one step per  *)
(* NAL unit EmitNalus hands to Payload, one step per turn of the FU-A      *)
(* loop, and the loop that builds the packets and returns.  The object is  *)
(* not thread safe and nothing else of it runs in between; the steps are   *)
(* apart so that the end of the FU-A loop is something to check.           *)
(***************************************************************************)
EXTENDS H264Packet

CONSTANTS
    Frames,      \* the frames the application may hand over, as NAL units
    MaxNalus     \* bound: NAL units in all frames together

ASSUME FramesAssumption == Frames \subseteq Seq(Nalu)
ASSUME BoundAssumption == MaxNalus \in Nat

VARIABLES
    given,           \* history: every NAL unit handed to Packetize, in order
    cur,             \* how many of them EmitNalus has been through
    sps_nalu,        \* sps_nalu_: position in given of the stored SPS, 0 if empty
    pps_nalu,        \* pps_nalu_: likewise
    disable_stap_a,  \* disable_stap_a_
    pc,              \* "idle" outside Packetize, else "emit" or "fua"
    nalu_index,      \* body bytes of the current NAL unit the FU-A loop has cut
    payloads,        \* history: every payload made, in order
    packets,         \* how many of them calls that returned have handed over
    marked,          \* positions in payloads of the packets with the marker bit
    sent             \* history: the NAL units wholly in payloads, in sending order

storeVars == <<sps_nalu, pps_nalu>>
outVars == <<packets, marked>>
packetizerVars == <<given, cur, sps_nalu, pps_nalu, disable_stap_a, pc,
                    nalu_index, payloads, packets, marked, sent>>

PacketizerInit ==
    /\ given = <<>> /\ cur = 0
    /\ sps_nalu = 0 /\ pps_nalu = 0
    /\ disable_stap_a = FALSE
    /\ pc = "idle" /\ nalu_index = 0
    /\ payloads = <<>> /\ packets = 0 /\ marked = {} /\ sent = <<>>

-----------------------------------------------------------------------------
(* The configuration calls, which leave the stored parameter sets alone.   *)

EnableStapA ==
    /\ pc = "idle" /\ disable_stap_a
    /\ disable_stap_a' = FALSE
    /\ UNCHANGED <<given, cur, storeVars, pc, nalu_index, payloads, outVars, sent>>

DisableStapA ==
    /\ pc = "idle" /\ ~disable_stap_a
    /\ disable_stap_a' = TRUE
    /\ UNCHANGED <<given, cur, storeVars, pc, nalu_index, payloads, outVars, sent>>

\* The application hands over a frame; EmitNalus will find these NAL units.
Packetize(frame) ==
    /\ pc = "idle"
    /\ Len(given) + Len(frame) <= MaxNalus
    /\ given' = given \o frame
    /\ pc' = "emit"
    /\ UNCHANGED <<cur, storeVars, disable_stap_a, nalu_index, payloads, outVars, sent>>

-----------------------------------------------------------------------------
(* Payload(nalu), for the NAL unit EmitNalus is at.                        *)

Current == cur + 1
CurrentNalu == given[Current]
AtNalu == pc = "emit" /\ cur < Len(given)

IsFiltered(nalu) == nalu.type \in {"empty", "aud", "filler"}
IsParameterSet(nalu) == nalu.type \in {"sps", "pps"}
IsStored(nalu) == IsParameterSet(nalu) /\ ~disable_stap_a

PairPending == ~disable_stap_a /\ sps_nalu # 0 /\ pps_nalu # 0
\* Mutant: the length fields are left out of the size.
StapAFitsUnpadded ==
    given[sps_nalu].len + given[pps_nalu].len + CurrentNalu.len + 4 <= Mtu
StapAFits ==
    StapASize(given[sps_nalu].len, given[pps_nalu].len, CurrentNalu.len) <= Mtu

WholePiece(k) == Piece(k, 0, given[k].len)

\* Mutant: the pair is kept.
ClearNothing == UNCHANGED storeVars
\* Both fields are cleared whether the STAP-A was sent or found too large.
ClearPair ==
    IF PairPending THEN sps_nalu' = 0 /\ pps_nalu' = 0 ELSE UNCHANGED storeVars

FilterNalu ==
    /\ AtNalu
    /\ IsFiltered(CurrentNalu)
    /\ cur' = Current
    /\ UNCHANGED <<given, storeVars, disable_stap_a, pc, nalu_index, payloads, outVars, sent>>

\* Mutant: an SPS is dropped while another is stored.
StoreFirst ==
    /\ AtNalu
    /\ IsStored(CurrentNalu)
    /\ IF CurrentNalu.type = "sps"
       THEN sps_nalu' = (IF sps_nalu = 0 THEN Current ELSE sps_nalu) /\ UNCHANGED pps_nalu
       ELSE pps_nalu' = Current /\ UNCHANGED sps_nalu
    /\ cur' = Current
    /\ UNCHANGED <<given, disable_stap_a, pc, nalu_index, payloads, outVars, sent>>
StoreParameterSet ==
    /\ AtNalu
    /\ IsStored(CurrentNalu)
    /\ IF CurrentNalu.type = "sps"
       THEN sps_nalu' = Current /\ UNCHANGED pps_nalu
       ELSE pps_nalu' = Current /\ UNCHANGED sps_nalu
    /\ cur' = Current
    /\ UNCHANGED <<given, disable_stap_a, pc, nalu_index, payloads, outVars, sent>>

\* A NAL unit that Payload carries on with past the filter and the store.
AtOutgoing == AtNalu /\ ~IsFiltered(CurrentNalu) /\ ~IsStored(CurrentNalu)

SendStapA ==
    /\ AtOutgoing
    /\ PairPending /\ StapAFits
    /\ payloads' = Append(payloads, StapAPayload(
                       WholePiece(sps_nalu), WholePiece(pps_nalu), WholePiece(Current)))
    /\ sent' = sent \o <<sps_nalu, pps_nalu, Current>>
    /\ ClearPair
    /\ cur' = Current
    /\ UNCHANGED <<given, disable_stap_a, pc, nalu_index, outVars>>

SendSingle ==
    /\ AtOutgoing
    /\ ~(PairPending /\ StapAFits)
    /\ NaluSize(CurrentNalu) <= Mtu
    /\ payloads' = Append(payloads, SinglePayload(WholePiece(Current)))
    /\ sent' = Append(sent, Current)
    /\ ClearPair
    /\ cur' = Current
    /\ UNCHANGED <<given, disable_stap_a, pc, nalu_index, outVars>>

StartFua ==
    /\ AtOutgoing
    /\ ~(PairPending /\ StapAFits)
    /\ NaluSize(CurrentNalu) > Mtu
    /\ pc' = "fua"
    /\ nalu_index' = 0
    /\ ClearPair
    /\ UNCHANGED <<given, cur, disable_stap_a, payloads, outVars, sent>>

NaluRemaining == CurrentNalu.len - nalu_index

\* max_fragment_size is a size_t: an mtu_ of 1 wraps it past every NAL unit.
CurrentFragmentSize ==
    IF Mtu >= kFuaHeaderSize /\ Mtu - kFuaHeaderSize < NaluRemaining
    THEN Mtu - kFuaHeaderSize
    ELSE NaluRemaining

StartBit == NaluRemaining = CurrentNalu.len
\* Mutants: the end bit one byte too late, and one too early.
EndBitLate == ~StartBit /\ NaluRemaining < CurrentFragmentSize
EndBitEarly == ~StartBit /\ NaluRemaining <= CurrentFragmentSize + 1
EndBit == ~StartBit /\ NaluRemaining <= CurrentFragmentSize

\* One turn of the FU-A loop; the turn that leaves nothing also leaves the loop.
FuaFragment ==
    LET next == nalu_index + CurrentFragmentSize IN
    /\ pc = "fua"
    /\ payloads' = Append(payloads,
                          FuaPayload(Piece(Current, nalu_index, next), StartBit, EndBit))
    /\ nalu_index' = next
    /\ IF next = CurrentNalu.len
       THEN pc' = "emit" /\ cur' = Current /\ sent' = Append(sent, Current)
       ELSE UNCHANGED <<pc, cur, sent>>
    /\ UNCHANGED <<given, storeVars, disable_stap_a, outVars>>

-----------------------------------------------------------------------------
\* Mutant: the marker goes on the first packet of the call.
MarkedFirst == packets + 1
MarkedPacket == Len(payloads)

\* The packet loop and the return: the marker goes on the call's last packet.
Return ==
    /\ pc = "emit" /\ cur = Len(given)
    /\ packets' = Len(payloads)
    /\ marked' = IF Len(payloads) > packets THEN marked \cup {MarkedPacket} ELSE marked
    /\ pc' = "idle"
    /\ UNCHANGED <<given, cur, storeVars, disable_stap_a, nalu_index, payloads, sent>>

Working ==
    \/ FilterNalu \/ StoreParameterSet \/ SendStapA \/ SendSingle
    \/ StartFua \/ FuaFragment \/ Return

PacketizerNext ==
    \/ EnableStapA \/ DisableStapA
    \/ \E frame \in Frames : Packetize(frame)
    \/ Working
=============================================================================
