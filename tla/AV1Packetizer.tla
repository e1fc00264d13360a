--------------------------- MODULE AV1Packetizer ----------------------------
(***************************************************************************)
(* rtp::AV1Packetizer (packetizer/av1_packetizer.{h,cc}).                  *)
(*                                                                         *)
(* One call of Packetize is a run of steps: the call; for each OBU its     *)
(* header (Scan), what AppendOBUPayload does with the OBU before it        *)
(* (Append, one Fragment per turn of its loop, Appended), and making it    *)
(* the pending one (Take); the last OBU (ScanEnd) and the return.  An OBU  *)
(* is written only when the next one is known.                             *)
(***************************************************************************)
EXTENDS AV1Packet

CONSTANTS
    Frames,    \* the frames the application may hand over: sequences of OBUs
    MaxObus    \* bound: OBUs in all frames together

ASSUME FramesAssumption == Frames \subseteq Seq(ObuType)
ASSUME MaxObusAssumption == MaxObus \in Nat

VARIABLES
    given,                     \* history: all OBUs handed over, in order
    call,                      \* history: how many of them before this call
    cur,                       \* how many of them the scan has been through
    refused,                   \* history: those of calls that returned false
    pc,                        \* "idle" outside Packetize
    pending,                   \* current_obu_payload, 0: empty
    need_new_packet,           \* of the OBU scanned, TRUE at the end of the frame
    new_sequence,              \* pending starts a video sequence
    start_with_new_packet,
    current_packet_obu_header, \* its layer, 0: null
    obus_in_packet,            \* elements in the last packet
    to_write,                  \* of the last write of AppendOBUPayload
    written,                   \* bytes of pending written
    out_packets,               \* packets of this call
    packets                    \* history: those handed over by calls that returned

obuVars == <<pending, need_new_packet, new_sequence, start_with_new_packet,
             current_packet_obu_header>>
writeVars == <<obus_in_packet, to_write, written>>
packetizerVars == <<given, call, cur, refused, pc, obuVars, writeVars, out_packets, packets>>

PacketizerInit ==
    /\ given = <<>> /\ call = 0 /\ cur = 0 /\ refused = {}
    /\ pc = "idle"
    /\ pending = 0 /\ need_new_packet = FALSE /\ new_sequence = FALSE
    /\ start_with_new_packet = FALSE /\ current_packet_obu_header = 0
    /\ obus_in_packet = 0 /\ to_write = 0 /\ written = 0
    /\ out_packets = <<>> /\ packets = <<>>

\* The application hands over a frame; nothing of an earlier call is left.
Packetize(frame) ==
    /\ pc = "idle"
    /\ Len(given) + Len(frame) <= MaxObus
    /\ given' = given \o frame /\ call' = Len(given)
    /\ pc' = "scan"
    /\ pending' = 0 /\ need_new_packet' = FALSE /\ new_sequence' = FALSE
    /\ start_with_new_packet' = FALSE /\ current_packet_obu_header' = 0
    /\ obus_in_packet' = 0 /\ to_write' = 0 /\ written' = 0
    /\ out_packets' = <<>>
    /\ UNCHANGED <<cur, refused, packets>>

-----------------------------------------------------------------------------
(* The scan.                                                               *)

Scanned == given[cur + 1]

StartsPacket(obu) ==
    \/ obu.type \in {"td", "seq"}
    \/ /\ obu.layer # 0 /\ current_packet_obu_header # 0
       /\ obu.layer # current_packet_obu_header

\* The header, a size field or the size do not fit the frame: the call returns
\* false and the packets made so far are not for use.
Refuse ==
    /\ pc = "scan" /\ cur < Len(given) /\ Scanned.type = "truncated"
    /\ refused' = refused \cup (call + 1 .. Len(given))
    /\ cur' = Len(given)
    /\ pc' = "idle"
    /\ UNCHANGED <<given, call, obuVars, writeVars, out_packets, packets>>

Scan ==
    /\ pc = "scan" /\ cur < Len(given) /\ Scanned.type # "truncated"
    /\ need_new_packet' = StartsPacket(Scanned)
    /\ current_packet_obu_header' =
          IF Scanned.layer # 0 THEN Scanned.layer ELSE current_packet_obu_header
    /\ pc' = IF pending # 0 THEN "append" ELSE "take"
    /\ UNCHANGED <<given, call, cur, refused, pending, new_sequence,
                   start_with_new_packet, writeVars, out_packets, packets>>

\* The last OBU is appended with is_last, as one before a new packet is.
ScanEnd ==
    /\ pc = "scan" /\ cur = Len(given) /\ pending # 0
    /\ need_new_packet' = TRUE
    /\ pc' = "append"
    /\ UNCHANGED <<given, call, cur, refused, pending, new_sequence,
                   start_with_new_packet, current_packet_obu_header, writeVars,
                   out_packets, packets>>

\* Mutant: a tile list is not skipped.
PendingTileList(obu) == IF obu.type = "td" THEN 0 ELSE cur + 1
\* What Take makes the pending OBU.
Pending(obu) == IF SkippedObu(obu) THEN 0 ELSE cur + 1

Take ==
    /\ pc = "take"
    /\ pending' = Pending(Scanned)
    /\ new_sequence' = IF SkippedObu(Scanned) THEN new_sequence ELSE Scanned.type = "seq"
    /\ cur' = cur + 1
    /\ pc' = "scan"
    /\ UNCHANGED <<given, call, refused, need_new_packet, start_with_new_packet,
                   current_packet_obu_header, writeVars, out_packets, packets>>

-----------------------------------------------------------------------------
(* AppendOBUPayload.                                                       *)

PendingLen == ObuLen(given[pending])
AtMost(n, limit) == IF n < limit THEN n ELSE limit

\* Mutant: the length field is not counted.
ComputeWriteSizeBare(want, can) == want
ComputeWriteSize(want, can) ==
    IF can >= want + LebSize(want) THEN want
    ELSE IF LebAtEdge(want) /\ can >= want + LebSize(want) - 1 THEN want - 1
    ELSE want - LebSize(want)

NeedsPacket ==
    \/ out_packets = <<>>
    \/ PacketSize(Last(out_packets)) >= Mtu
    \/ start_with_new_packet

UsesW(room, free, count) == (need_new_packet \/ room >= free) /\ count < 3

FitsLength(free) == free >= 2

\* `seq` with an element put into its last packet.
Put(seq, element, w) ==
    [seq EXCEPT ![Len(seq)].elems = Append(@, element), ![Len(seq)].w = OrW(@, w)]

AppendOBUPayload ==
    /\ pc = "append"
    /\ LET base == IF NeedsPacket THEN Append(out_packets, NewPacket(new_sequence))
                                  ELSE out_packets
           count == IF NeedsPacket THEN 0 ELSE obus_in_packet
           free == Mtu - PacketSize(Last(base))
           room == AtMost(PendingLen, free)
           cut == IF UsesW(room, free, count) THEN room
                  ELSE IF FitsLength(free) THEN ComputeWriteSize(room, free) ELSE 0
       IN
       /\ to_write' = cut /\ written' = cut
       /\ \/ /\ UsesW(room, free, count)
             /\ out_packets' = Put(base, Element(pending, 0, cut, FALSE), (count + 1) % 4)
             /\ obus_in_packet' = 0
          \/ /\ ~UsesW(room, free, count) /\ FitsLength(free)
             /\ out_packets' = Put(base, Element(pending, 0, cut, TRUE), 0)
             /\ obus_in_packet' = count + 1
          \/ /\ ~UsesW(room, free, count) /\ ~FitsLength(free)
             /\ out_packets' = base
             /\ obus_in_packet' = count
    /\ pc' = "fragment"
    /\ UNCHANGED <<given, call, cur, refused, obuVars, packets>>

\* The packet before got a part of the OBU.
ContinuesPrevious == to_write # 0

\* `seq` with Y set in its last packet and the next one begun.
NextFragmentPacket(seq) ==
    LET n == Len(seq) IN
    Append([seq EXCEPT ![n].y = @ \/ ContinuesPrevious],
           [NewPacket(FALSE) EXCEPT !.z = ContinuesPrevious])

\* Mutant: a fragment may reach behind the end of the OBU.
FragmentRoomFull(remaining) == Mtu - 1
FragmentRoom(remaining) == AtMost(remaining, Mtu - 1)

Fragment ==
    /\ pc = "fragment" /\ written < PendingLen
    /\ LET remaining == PendingLen - written
           room == FragmentRoom(remaining)
           usesW == need_new_packet \/ remaining <= Mtu - 1
           cut == IF usesW THEN room ELSE ComputeWriteSize(room, Mtu - 1)
       IN
       /\ out_packets' = Put(NextFragmentPacket(out_packets),
                             Element(pending, written, written + cut, ~usesW),
                             IF usesW THEN 1 ELSE 0)
       /\ to_write' = cut
       /\ written' = written + cut
    /\ obus_in_packet' = 1
    /\ UNCHANGED <<given, call, cur, refused, pc, obuVars, packets>>

\* Mutant: what Packetize does with the results forgets start_with_new_packet.
StartsNextNever == FALSE
StartsNext == need_new_packet

\* Back in Packetize.  The layer goes even where it is already that of the OBU
\* that starts the new packet.
Appended ==
    /\ pc = "fragment" /\ written >= PendingLen
    /\ pending' = 0
    /\ start_with_new_packet' = StartsNext
    /\ new_sequence' = (new_sequence /\ ~need_new_packet)
    /\ current_packet_obu_header' =
          IF need_new_packet THEN 0 ELSE current_packet_obu_header
    /\ pc' = IF cur < Len(given) THEN "take" ELSE "scan"
    /\ UNCHANGED <<given, call, cur, refused, need_new_packet, writeVars, out_packets,
                   packets>>

Return ==
    /\ pc = "scan" /\ cur = Len(given) /\ pending = 0
    /\ packets' = packets \o out_packets
    /\ pc' = "idle"
    /\ UNCHANGED <<given, call, cur, refused, obuVars, writeVars, out_packets>>

Working ==
    Refuse \/ Scan \/ ScanEnd \/ Take \/ AppendOBUPayload \/ Fragment \/ Appended \/ Return

PacketizerNext == Working \/ (pc = "idle" /\ \E frame \in Frames : Packetize(frame))
=============================================================================
