----------------------------- MODULE VP8Session -----------------------------
(***************************************************************************)
(* A VP8 sender and receiver over a transport that keeps or loses packets. *)
(* VP8Depacketizer (depacketizer/vp8_depacketizer.{h,cc}) replaces its     *)
(* output with every packet and keeps no frame; putting one together, from *)
(* a partition head to a partition tail with no gap in the sequence        *)
(* numbers, is the application's, and the only use the library leaves.     *)
(***************************************************************************)
EXTENDS VP8Packetizer

VARIABLES
    picture,    \* PictureID of vp8_packet_, the last one parsed
    vp8_frame,  \* what the last Depacketize gave the application
    expected,   \* application: sequence number the open frame goes on with, <<>>: none
    open,       \* application: bytes of the open frame
    frames,     \* history: the frames the application took for complete
    rcvd,       \* packets that have arrived or been lost
    lost        \* the positions in packets of those lost

receiverVars == <<picture, vp8_frame, expected, open, frames>>
transportVars == <<rcvd, lost>>
vars == <<packetizerVars, receiverVars, transportVars>>

Init ==
    /\ PacketizerInit
    /\ picture = 0 /\ vp8_frame = <<>>
    /\ expected = <<>> /\ open = <<>> /\ frames = <<>>
    /\ rcvd = 0 /\ lost = {}

\* A payload without frame data makes it return false; the packetizer makes none.
Depacketize(packet) ==
    /\ PayloadBytes(packet.payload) # <<>>
    /\ picture' = PictureID(packet.payload)
    /\ vp8_frame' = PayloadBytes(packet.payload)

IsPartitionTail(packet) == packet.marker

\* The application's part: a head begins a frame, what follows it without a gap
\* goes on with it, a tail ends it, anything else is dropped.
Collect(packet) ==
    LET head == IsPartitionHead(packet.payload)
        goesOn == ~head /\ expected = <<packet.sequence_number>>
        bytes == IF head THEN vp8_frame' ELSE open \o vp8_frame'
        tail == IsPartitionTail(packet)
    IN
    /\ frames' = IF (head \/ goesOn) /\ tail THEN Append(frames, bytes) ELSE frames
    /\ open' = IF (head \/ goesOn) /\ ~tail THEN bytes ELSE <<>>
    /\ expected' = IF (head \/ goesOn) /\ ~tail
                   THEN <<(packet.sequence_number + 1) % Word>> ELSE <<>>

Send == PacketizerNext /\ UNCHANGED <<receiverVars, transportVars>>

Receive ==
    /\ rcvd < Len(packets)
    /\ Depacketize(packets[rcvd + 1])
    /\ Collect(packets[rcvd + 1])
    /\ rcvd' = rcvd + 1
    /\ UNCHANGED <<packetizerVars, lost>>

Lose ==
    /\ rcvd < Len(packets)
    /\ rcvd' = rcvd + 1
    /\ lost' = lost \cup {rcvd + 1}
    /\ UNCHANGED <<packetizerVars, receiverVars>>

Next == Send \/ Receive \/ Lose
Spec == Init /\ [][Next]_vars

-----------------------------------------------------------------------------

Position(seq) == 1..Len(seq)
PayloadType ==
    [frame : 1..Len(given), from : Nat, to : Nat, s : BOOLEAN,
     header : {kVP8HeaderSize, kVP8HeaderSize + 2, kVP8HeaderSize + 3}, field : Nat]
PacketType ==
    [sequence_number : 0 .. Word - 1, marker : BOOLEAN, payload : PayloadType]

\* The state has the shape the code's declarations give it, picture_id_ its 15
\* bits, and only what calls that returned handed over arrives.
TypeOK ==
    /\ given \in Seq(FrameSizes)
    /\ refused \subseteq Position(given)
    /\ numbered \in Seq(Position(given))
    /\ enable_picture_id \in BOOLEAN
    /\ picture_id \in 0 .. WrapId - 1
    /\ sequence_number \in 0 .. Word - 1
    /\ pc \in {"idle", "fragment"}
    /\ using_header_size \in Nat /\ payload_data_index \in Nat
    /\ rtp_packets \in Seq(PacketType) /\ packets \in Seq(PacketType)
    /\ picture \in 0 .. WrapId - 1
    /\ vp8_frame \in Seq(Nat \X Nat) /\ open \in Seq(Nat \X Nat)
    /\ frames \in Seq(Seq(Nat \X Nat))
    /\ expected \in Seq(0 .. Word - 1) /\ Len(expected) <= 1
    /\ rcvd \in 0..Len(packets)
    /\ lost \subseteq 1..rcvd

(***************************************************************************)
(* A receiver reads from the packets of the n-th frame since the last      *)
(* reset the identifier n - 1 of 15 bits: through its three encodings and  *)
(* the wrap the identifier counts the frames that were sent, and neither   *)
(* one refused nor one sent with identifiers off leaves a gap; and every   *)
(* payload fits the MTU, whatever its identifier takes                     *)
(* (vp8_packetizer.h:42).                                                  *)
(***************************************************************************)
IdsCountFrames ==
    /\ \A p \in Position(packets) : PayloadSize(packets[p].payload) <= Mtu
    /\ \A n \in Position(numbered) : \A p \in Position(packets) :
        packets[p].payload.frame = numbered[n] =>
            PictureID(packets[p].payload) = (n - 1) % WrapId

Whole(f) == Bytes(f, 0, given[f])

CarriedBy(f) == {p \in Position(packets) : packets[p].payload.frame = f}

\* What runs from a head to a tail without a gap is a frame, whatever was lost, as
\* long as no two packets have the same number; and a frame none of whose packets
\* was lost is complete once they have all arrived.
LossIsLocal ==
    /\ Len(packets) <= Word =>
        \A i \in Position(frames) : \E f \in Position(given) : frames[i] = Whole(f)
    /\ \A f \in Position(given) :
        CarriedBy(f) # {} /\ CarriedBy(f) \subseteq 1..rcvd \ lost => Whole(f) \in Range(frames)
-----------------------------------------------------------------------------
(***************************************************************************)
(* The inductive invariant behind them.  The fragments of a frame follow   *)
(* each other from its first byte to the marker on its last, and numbers   *)
(* count packets; calls hand over whole frames, and the identifier counts  *)
(* those numbered; an open frame is what its last packet and those before  *)
(* it carried, and of a frame that lost nothing the application holds what *)
(* has arrived.                                                            *)
(***************************************************************************)
Sound(packet) ==
    LET payload == packet.payload IN
    /\ payload.from < payload.to /\ payload.to <= given[payload.frame]
    /\ payload.s <=> payload.from = 0
    /\ packet.marker <=> payload.to = given[payload.frame]
    /\ PayloadSize(payload) <= Mtu

GoesOn(packet, next) ==
    packet.payload.frame = next.payload.frame /\ packet.payload.to = next.payload.from

Chain(seq) ==
    \A p \in Position(seq) :
        Sound(seq[p]) /\ (~seq[p].payload.s => p > 1 /\ GoesOn(seq[p - 1], seq[p]))

Number(k) == (FirstNumber + k) % Word

\* What the call in progress has numbered.
Pending == IF pc = "fragment" THEN Len(rtp_packets) ELSE 0

NumberInv ==
    /\ sequence_number = Number(Len(packets) + Pending)
    /\ \A p \in Position(packets) : packets[p].sequence_number = Number(p - 1)
    /\ pc = "fragment" =>
          \A p \in Position(rtp_packets) :
              rtp_packets[p].sequence_number = Number(Len(packets) + p - 1)

CallInv ==
    pc = "fragment" =>
        /\ given # <<>> /\ using_header_size = HeaderSize /\ HeaderSize < Mtu
        /\ 0 < given[Frame] /\ payload_data_index <= given[Frame]
        /\ IF rtp_packets = <<>> THEN payload_data_index = 0
           ELSE rtp_packets[Len(rtp_packets)].payload.to = payload_data_index
        /\ \A p \in Position(rtp_packets) :
              /\ rtp_packets[p].payload.frame = Frame
              /\ enable_picture_id => PictureID(rtp_packets[p].payload) = picture_id
        /\ \A p \in Position(packets) : packets[p].payload.frame < Frame
        /\ \A n \in Position(numbered) : numbered[n] < Frame

WholeFrames ==
    \A p \in Position(packets) :
        \E q \in p..Len(packets) :
            packets[q].payload.frame = packets[p].payload.frame /\ packets[q].marker

IdInv ==
    /\ picture_id = Len(numbered) % WrapId
    /\ \A n \in Position(numbered) : \A p \in Position(packets) :
        packets[p].payload.frame = numbered[n] =>
            PictureID(packets[p].payload) = (n - 1) % WrapId

SenderInv ==
    TypeOK /\ Chain(rtp_packets) /\ Chain(packets) /\ NumberInv /\ CallInv /\ WholeFrames /\ IdInv

\* The application goes on with the packet behind q.
WaitsBehind(q) ==
    /\ ~packets[q].marker /\ expected = <<Number(q)>>
    /\ open = Bytes(packets[q].payload.frame, 0, packets[q].payload.to)

OpenInv ==
    Len(packets) <= Word =>
        /\ expected # <<>> => \E q \in 1..rcvd : WaitsBehind(q)
        /\ \A i \in Position(frames) : \E f \in Position(given) : frames[i] = Whole(f)

Intact(f) == \A p \in lost : packets[p].payload.frame # f

LocalInv ==
    /\ \A p \in 1..rcvd :
          packets[p].marker /\ Intact(packets[p].payload.frame) =>
              Whole(packets[p].payload.frame) \in Range(frames)
    /\ rcvd > 0 /\ ~packets[rcvd].marker /\ Intact(packets[rcvd].payload.frame) => WaitsBehind(rcvd)

IndInv == SenderInv /\ OpenInv /\ LocalInv
=============================================================================
