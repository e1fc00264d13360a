----------------------------- MODULE AV1Session -----------------------------
(***************************************************************************)
(* An AV1 sender and receiver: a packetizer, the packets its returned      *)
(* calls handed over, and a depacketizer fed with them in order by the     *)
(* application.  Neither end sees a sequence number; the transport keeps   *)
(* or loses packets.  The receiver's step is the one on packets it can     *)
(* take apart: what it makes of others is not modelled.                    *)
(***************************************************************************)
EXTENDS AV1Packetizer, AV1Depacketizer

VARIABLES
    rcvd,   \* packets that have arrived or been lost
    lost    \* the positions in packets of those lost

transportVars == <<rcvd, lost>>
vars == <<packetizerVars, depacketizerVars, transportVars>>

Init == PacketizerInit /\ DepacketizerInit /\ rcvd = 0 /\ lost = {}

Send == PacketizerNext /\ UNCHANGED <<depacketizerVars, transportVars>>

Receive ==
    /\ rcvd < Len(packets)
    /\ Parseable(packets[rcvd + 1])
    /\ Depacketize(packets[rcvd + 1], given)
    /\ rcvd' = rcvd + 1
    /\ UNCHANGED <<packetizerVars, lost>>

Lose ==
    /\ rcvd < Len(packets)
    /\ rcvd' = rcvd + 1
    /\ lost' = lost \cup {rcvd + 1}
    /\ UNCHANGED <<packetizerVars, depacketizerVars>>

Next == Send \/ Receive \/ Lose
Spec == Init /\ [][Next]_vars

-----------------------------------------------------------------------------
(* Types.                                                                  *)

ElementType == [obu : 1..Len(given), from : Nat, to : Nat, sized : BOOLEAN]
PacketType ==
    [z : BOOLEAN, y : BOOLEAN, w : 0..3, n : BOOLEAN, elems : Seq(ElementType)]

SenderTypeOK ==
    /\ given \in Seq(ObuType)
    /\ cur \in 0..Len(given) /\ call \in 0..Len(given)
    /\ refused \subseteq 1..Len(given)
    /\ pc \in {"idle", "scan", "take", "append", "fragment"}
    /\ pending \in 0..cur
    /\ {need_new_packet, new_sequence, start_with_new_packet} \subseteq BOOLEAN
    /\ current_packet_obu_header \in Nat
    /\ obus_in_packet \in Nat /\ to_write \in Nat
    /\ pc = "fragment" => written \in 0..PendingLen
    /\ out_packets \in Seq(PacketType) /\ packets \in Seq(PacketType)

ReceiverTypeOK ==
    /\ buffer \in Seq(Nat \X Nat)
    /\ out_frame \in Seq(Seq(Nat \X Nat)) /\ delivered \in Seq(Seq(Nat \X Nat))
    /\ outcome \in {"none", "true", "false"}
    /\ rcvd \in 0..Len(packets)
    /\ lost \subseteq 1..rcvd

\* The state has the shape the code's declarations give it, elements are of OBUs
\* handed over, and only what calls that returned handed over arrives.
TypeOK == SenderTypeOK /\ ReceiverTypeOK

-----------------------------------------------------------------------------
(* What the sender promises.                                               *)

Position(seq) == 1..Len(seq)

\* Made so far: what is handed over, and what the call under way has made.
Made == IF pc = "idle" THEN packets ELSE packets \o out_packets

Ends(element) == element.to = ObuLen(given[element.obu])
LastElement(packet) == packet.elems[Len(packet.elems)]

\* f goes on with the OBU of e where e stopped, or e ends its OBU and f begins a
\* later one.
Follows(e, f) ==
    \/ f.obu = e.obu /\ f.from = e.to
    \/ f.obu > e.obu /\ f.from = 0 /\ Ends(e)

Kept(k) == ~SkippedObu(given[k]) /\ k \notin refused

CarriedBy(k) ==
    {p \in Position(packets) : \E i \in Position(packets[p].elems) : packets[p].elems[i].obu = k}

(***************************************************************************)
(* The bytes in the packets are those of the OBUs given, in their order    *)
(* and each once, without temporal delimiters and tile lists and without   *)
(* the frames that were refused, however elements, fragments and packets   *)
(* alternate: each element goes on where the one before it stopped, from   *)
(* the first byte of an OBU to the last of one.                            *)
(***************************************************************************)
KeptInOrder ==
    /\ \A p \in Position(packets) : \A i \in Position(packets[p].elems) :
          LET element == packets[p].elems[i] IN
          IF i > 1 THEN Follows(packets[p].elems[i - 1], element)
          ELSE IF p > 1 THEN Follows(LastElement(packets[p - 1]), element)
          ELSE element.from = 0
    /\ packets # <<>> => Ends(LastElement(packets[Len(packets)]))
    /\ pc = "idle" => \A k \in Position(given) : CarriedBy(k) # {} <=> Kept(k)

\* What the aggregation header says of the number of elements and what precedes
\* them with a length agree (av1_packet.h:110; av1_packetizer.cc:182, "Set W field
\* to number of OBUs in packet").
LengthsAgree == \A p \in Position(packets) : Parseable(packets[p])

(***************************************************************************)
(* Every packet fits the MTU, length fields included; every element in it  *)
(* carries part of an OBU, so that the cutting of a large one advances and *)
(* the call ends; and once a packet is handed over, Z and Y agree with the *)
(* cuts: Z where the first element does not begin its OBU, Y where the     *)
(* last does not end its OBU (av1_packet.h:101-107).  So the packet after  *)
(* one with Y has Z, and no other has.                                     *)
(***************************************************************************)
CutsRight ==
    /\ \A p \in Position(Made) :
        /\ PacketSize(Made[p]) <= Mtu
        /\ \A i \in Position(Made[p].elems) : Made[p].elems[i].from < Made[p].elems[i].to
    /\ \A p \in Position(packets) :
        /\ packets[p].z <=> packets[p].elems[1].from # 0
        /\ packets[p].y <=> ~Ends(LastElement(packets[p]))

\* N marks the packets a video sequence begins with, and a sequence header never
\* shares its packet with what went before (av1_packet.h:113).
SequenceStarts ==
    \A p \in Position(packets) : \A i \in Position(packets[p].elems) :
        LET element == packets[p].elems[i] IN
        element.from = 0 =>
            (given[element.obu].type = "seq" <=> i = 1 /\ packets[p].n)

-----------------------------------------------------------------------------
(* What sender and receiver promise together.                              *)

ObuOf(bytes) == bytes[1][1]
Whole(k) == Bytes(k, 0, ObuLen(given[k]))

\* What is read as an OBU header is one, whatever was lost: never a byte from the
\* middle of an OBU.
BeginsWithHeader ==
    /\ \A i \in Position(delivered) : delivered[i] # <<>> /\ delivered[i][1][2] = 0
    /\ buffer # <<>> => buffer[1][2] = 0

(***************************************************************************)
(* A loss costs the OBUs in the packet lost and no other: one that comes   *)
(* out other than it went in lost a packet with a part of its own, and one *)
(* none of whose packets was lost comes out whole once they have all       *)
(* arrived.                                                                *)
(***************************************************************************)
LossIsLocal ==
    /\ \A i \in Position(delivered) :
        LET k == ObuOf(delivered[i]) IN
        delivered[i] # Whole(k) => CarriedBy(k) \cap lost # {}
    /\ \A k \in Position(given) :
        /\ CarriedBy(k) # {}
        /\ CarriedBy(k) \subseteq 1..rcvd \ lost
        => \E i \in Position(delivered) : delivered[i] = Whole(k)

-----------------------------------------------------------------------------
(***************************************************************************)
(* The inductive invariant behind them, where a fragment has room behind   *)
(* its length field (an MTU of 3 or more).  Elements follow each other     *)
(* from packet to packet; the loop of AppendOBUPayload stands where the    *)
(* last one stopped; what was scanned is in packets to its last byte; and  *)
(* the receiver's buffer holds what has arrived of an OBU that lost        *)
(* nothing.                                                                *)
(***************************************************************************)
SoundElement(element) ==
    /\ element.from < element.to /\ element.to <= ObuLen(given[element.obu])
    /\ ~SkippedObu(given[element.obu])

SoundPacket(packet) ==
    /\ packet.elems # <<>>
    /\ \A i \in Position(packet.elems) :
          /\ SoundElement(packet.elems[i])
          /\ i > 1 => packet.elems[i].from = 0 /\ Follows(packet.elems[i - 1], packet.elems[i])
    /\ packet.z <=> packet.elems[1].from # 0
    /\ packet.n => ~packet.z
    /\ PacketSize(packet) <= Mtu

Leads(packet, next) ==
    /\ Follows(LastElement(packet), next.elems[1])
    /\ packet.y <=> ~Ends(LastElement(packet))

Chain(seq) ==
    \A p \in Position(seq) :
        /\ SoundPacket(seq[p])
        /\ IF p = 1 THEN ~seq[p].z ELSE Leads(seq[p - 1], seq[p])

\* Nothing goes on behind the last packet.
Closed(seq) ==
    seq # <<>> => ~seq[Len(seq)].y /\ Ends(LastElement(seq[Len(seq)]))

EndsIn(seq, k) ==
    \E p \in Position(seq) : \E i \in Position(seq[p].elems) :
        seq[p].elems[i].obu = k /\ Ends(seq[p].elems[i])

\* Its elements are of these OBUs.
Within(seq, obus) ==
    \A p \in Position(seq) : \A i \in Position(seq[p].elems) : seq[p].elems[i].obu \in obus

\* Of the OBUs handed over, those the returned calls have dealt with.
Finished == IF pc = "idle" THEN Len(given) ELSE call

\* AppendOBUPayload has put a part of the pending OBU into the last packet.
Inside == pc = "fragment" /\ written > 0

CallInv ==
    /\ pc = "idle" => cur = Len(given)
    /\ pc # "idle" =>
          /\ call <= cur
          /\ pending # 0 => pending = cur /\ pending > call /\ ~SkippedObu(given[pending])
          /\ pc \in {"append", "fragment"} => pending # 0
          /\ pc = "take" => pending = 0 /\ cur < Len(given)
          /\ cur = call => out_packets = <<>>
          /\ pc = "fragment" => out_packets # <<>> /\ (to_write = 0 <=> written = 0)

\* Where the last packet of the call ends.
OutInv ==
    pc # "idle" /\ out_packets # <<>> =>
        LET last == out_packets[Len(out_packets)] IN
        /\ ~last.y
        /\ IF Inside
           THEN LastElement(last).obu = pending /\ LastElement(last).to = written
           ELSE Ends(LastElement(last)) /\ (pending # 0 => LastElement(last).obu < pending)

CarriedBefore ==
    /\ refused \subseteq 1..Finished
    /\ Within(packets, 1..Finished \ refused)
    /\ \A k \in 1..Finished : Kept(k) => EndsIn(packets, k)

CarriedNow ==
    pc # "idle" =>
        /\ Within(out_packets, call + 1 .. cur)
        /\ \A k \in call + 1 .. cur :
              ~SkippedObu(given[k]) /\ k # pending => EndsIn(out_packets, k)

SenderInv ==
    /\ SenderTypeOK /\ Chain(packets) /\ Closed(packets) /\ Chain(out_packets)
    /\ CallInv /\ OutInv /\ CarriedBefore /\ CarriedNow

(***************************************************************************)
(* A tile list just before an OBU that starts a packet swallows the start  *)
(* (av1_packetizer.cc:91).  Where there is none, an OBU that begins a      *)
(* sequence finds the packetizer about to begin a packet.                  *)
(***************************************************************************)
NoneSwallowed ==
    \A frame \in Frames : \A k \in 2..Len(frame) :
        frame[k].type \in {"td", "seq"} => frame[k - 1].type # "tile_list"

StartsRight(seq) ==
    \A p \in Position(seq) : \A i \in Position(seq[p].elems) :
        seq[p].elems[i].from = 0 =>
            (given[seq[p].elems[i].obu].type = "seq" <=> i = 1 /\ seq[p].n)

Starter(k) == given[k].type \in {"td", "seq"}
Opens == start_with_new_packet \/ out_packets = <<>>

SequenceInv ==
    /\ StartsRight(packets) /\ StartsRight(out_packets)
    /\ pc # "idle" =>
          /\ \A k \in call + 2 .. Len(given) : Starter(k) => given[k - 1].type # "tile_list"
          /\ pending # 0 => (new_sequence <=> given[pending].type = "seq")
          /\ pc \in {"append", "fragment"} /\ cur < Len(given) /\ Starter(cur + 1) => need_new_packet
          /\ pc \in {"scan", "append"} /\ pending # 0 /\ Starter(pending) => Opens
          /\ pc = "scan" /\ pending = 0 /\ call < cur /\ cur < Len(given) =>
                \/ given[cur].type = "tile_list"
                \/ given[cur].type = "td" /\ Opens
          /\ pc = "take" /\ Starter(cur + 1) => Opens
          /\ pc = "fragment" /\ written = 0 => given[pending].type # "seq"

Intact(k) == CarriedBy(k) \cap lost = {}

BufferInv ==
    /\ buffer # <<>> =>
          /\ buffer[1][2] = 0 /\ buffer[1][1] \in Position(given)
          /\ \/ ~Intact(buffer[1][1])
             \/ /\ rcvd > 0 /\ packets[rcvd].y
                /\ buffer = LET e == LastElement(packets[rcvd]) IN Bytes(e.obu, 0, e.to)
    /\ rcvd > 0 /\ packets[rcvd].y =>
          LET e == LastElement(packets[rcvd]) IN
          Intact(e.obu) => buffer = Bytes(e.obu, 0, e.to)

DeliveredInv ==
    \A i \in Position(delivered) :
        /\ delivered[i] # <<>> /\ delivered[i][1][2] = 0
        /\ ObuOf(delivered[i]) \in Position(given)
        /\ delivered[i] = Whole(ObuOf(delivered[i])) \/ ~Intact(ObuOf(delivered[i]))

ArrivedInv ==
    \A p \in 1..rcvd : \A i \in Position(packets[p].elems) :
        LET e == packets[p].elems[i] IN
        Ends(e) /\ Intact(e.obu) => Whole(e.obu) \in Range(delivered)

ReceiverInv == ReceiverTypeOK /\ BufferInv /\ DeliveredInv /\ ArrivedInv

IndInv == SenderInv /\ (NoneSwallowed => SequenceInv) /\ ReceiverInv
=============================================================================
