----------------------------- MODULE VP9Session -----------------------------
(***************************************************************************)
(* A VP9 sender and receiver over a transport that keeps or loses packets. *)
(* The packetizer makes bare payloads and the depacketizer takes RTP       *)
(* packets: the application puts the header on.  VP9Depacketizer           *)
(* (depacketizer/vp9_depacketizer.{h,cc}) appends every payload to the     *)
(* application's frame; the application begins a new one at a partition    *)
(* head, drops it where the picture identifier changes, and takes it for   *)
(* complete at a partition tail.                                           *)
(***************************************************************************)
EXTENDS VP9Packetizer

VARIABLES
    PictureID,   \* of vp9Packet_: that of the last packet parsed
    vp9Frame,    \* the application's frame, which Depacketize appends to
    isOpen,      \* application: its head has come
    frames,      \* history: the frames the application took for complete
    rcvd,        \* packets that have arrived or been lost
    lost         \* the positions in packets of those lost

receiverVars == <<PictureID, vp9Frame, isOpen, frames>>
transportVars == <<rcvd, lost>>
vars == <<packetizerVars, receiverVars, transportVars>>

Init ==
    /\ PacketizerInit
    /\ PictureID = 0 /\ vp9Frame = <<>> /\ isOpen = FALSE /\ frames = <<>>
    /\ rcvd = 0 /\ lost = {}

IsPartitionHead(payload) == payload.b
IsPartitionTail(marker, payload) == payload.e \/ marker

\* What the application's header of a packet may have for a marker: none, or one on
\* the last packet of a frame.
MarkersOf(p) == {FALSE, p = Len(packets) \/ packets[p + 1].frame # packets[p].frame}

\* Depacketize, and what the application does around it: `base` is the frame it
\* passes.
Depacketize(marker, payload) ==
    LET goesOn == ~IsPartitionHead(payload) /\ isOpen /\ PictureID = payload.id
        base == IF goesOn THEN vp9Frame ELSE <<>>
        appended == base \o PayloadBytes(payload)
        taken == IsPartitionHead(payload) \/ goesOn
        tail == IsPartitionTail(marker, payload)
    IN
    /\ PictureID' = payload.id
    /\ vp9Frame' = appended
    /\ isOpen' = (taken /\ ~tail)
    /\ frames' = IF taken /\ tail THEN Append(frames, appended) ELSE frames

Send == PacketizerNext /\ UNCHANGED <<receiverVars, transportVars>>

Receive ==
    /\ rcvd < Len(packets)
    /\ \E marker \in MarkersOf(rcvd + 1) : Depacketize(marker, packets[rcvd + 1])
    /\ rcvd' = rcvd + 1
    /\ UNCHANGED <<packetizerVars, lost>>

Lose ==
    /\ rcvd < Len(packets)
    /\ rcvd' = rcvd + 1
    /\ lost' = lost \cup {rcvd + 1}
    /\ UNCHANGED <<packetizerVars, receiverVars>>

Next == Send \/ Receive \/ Lose
Spec == Init /\ [][Next]_vars

-----------------------------------------------------------------------------

Position(seq) == 1..Len(seq)
PayloadType ==
    [frame : 1..Len(given), from : Nat, to : Nat, b : BOOLEAN, e : BOOLEAN,
     header : {3, 5}, id : 0 .. WrapId - 1]

\* The state has the shape the code's declarations give it, pictureID_ its 15
\* bits, and only what calls that returned handed over arrives.
TypeOK ==
    /\ given \in Seq(FrameSizes)
    /\ renumbered \subseteq 0..Len(given)
    /\ flexibleMode \in BOOLEAN /\ initialized \in BOOLEAN /\ returned \in BOOLEAN
    /\ pictureID \in 0 .. WrapId - 1
    /\ pc \in {"idle", "fragment", "return"}
    /\ payloadDataIndex \in Nat
    /\ payloads \in Seq(PayloadType) /\ packets \in Seq(PayloadType)
    /\ PictureID \in 0 .. WrapId - 1 /\ isOpen \in BOOLEAN
    /\ vp9Frame \in Seq(Nat \X Nat) /\ frames \in Seq(Seq(Nat \X Nat))
    /\ rcvd \in 0..Len(packets)
    /\ lost \subseteq 1..rcvd

\* Every fragment carries part of the frame, so that cutting it ends
\* (vp9_packetizer.h:19, "Payload fragments a VP9 frame across one or more RTP
\* packets").
NoEmptyFragment == \A p \in Position(payloads) : payloads[p].from < payloads[p].to

(***************************************************************************)
(* Between two settings of the identifier, and from the first frame on,    *)
(* the identifiers of two frames are as far apart as the calls that made   *)
(* them, refused ones included and modulo 15 bits; and every payload fits  *)
(* the MTU in either mode, however the modes are switched between frames.  *)
(* For an MTU with room for the descriptor.                                *)
(***************************************************************************)
IdsCountCalls ==
    /\ \A p \in Position(packets) : PayloadSize(packets[p]) <= Mtu
    /\ \A p, q \in Position(packets) :
        LET f == packets[p].frame
            g == packets[q].frame
        IN  f <= g /\ ~(\E n \in renumbered : f <= n /\ n < g) =>
                packets[q].id = (packets[p].id + g - f) % WrapId

Whole(f) == Bytes(f, 0, given[f])
FrameOf(bytes) == bytes[1][1]

\* A frame the application takes for complete is of one sender frame, from its
\* first byte to its last, however many packets were lost in between; as long as
\* the identifier was neither set nor wrapped.
NeverMixed ==
    renumbered \subseteq {0} /\ Len(given) <= WrapId =>
        \A i \in Position(frames) :
            /\ \A j \in Position(frames[i]) : frames[i][j][1] = FrameOf(frames[i])
            /\ Head(frames[i]) = Head(Whole(FrameOf(frames[i])))
            /\ Last(frames[i]) = Last(Whole(FrameOf(frames[i])))

\* A frame none of whose packets was lost is complete once they have all arrived.
LossIsLocal ==
    LET CarriedBy(f) == {p \in Position(packets) : packets[p].frame = f} IN
    \A f \in Position(given) :
        CarriedBy(f) # {} /\ CarriedBy(f) \subseteq 1..rcvd \ lost => Whole(f) \in Range(frames)
-----------------------------------------------------------------------------
(***************************************************************************)
(* The inductive invariant behind them.  The fragments of a frame follow   *)
(* each other from its first byte to E on its last, under one identifier;  *)
(* calls hand over whole frames, in order; the identifier the next packets *)
(* get is as far from that of any packet sent as their calls are; and of a *)
(* frame that lost nothing the application holds what has arrived of it.   *)
(***************************************************************************)
Sound(fragment) ==
    /\ fragment.from <= fragment.to /\ 0 < fragment.to
    /\ fragment.to <= given[fragment.frame]
    /\ fragment.b <=> fragment.from = 0
    /\ fragment.e <=> fragment.to = given[fragment.frame]
    /\ fragment.e => fragment.from < fragment.to

GoesOn(fragment, next) ==
    /\ fragment.frame = next.frame /\ fragment.id = next.id
    /\ fragment.to = next.from /\ ~fragment.e

Chain(seq) ==
    \A p \in Position(seq) :
        Sound(seq[p]) /\ (~seq[p].b => p > 1 /\ GoesOn(seq[p - 1], seq[p]))

CallInv ==
    /\ \A f \in Position(given) : given[f] > 0
    /\ given # <<>> => initialized
    /\ pc # "idle" =>
          /\ given # <<>>
          /\ \A p \in Position(payloads) :
                payloads[p].frame = Frame /\ payloads[p].id = pictureID
          /\ \A p \in Position(packets) : packets[p].frame < Frame
    /\ pc = "fragment" =>
          /\ payloadDataIndex < given[Frame]
          /\ IF payloads = <<>> THEN payloadDataIndex = 0 /\ ~Refuses(given[Frame])
             ELSE payloads[Len(payloads)].to = payloadDataIndex
    /\ pc = "return" => payloads = <<>> \/ payloads[Len(payloads)].e

SizeInv ==
    Mtu >= 5 =>
        /\ \A p \in Position(payloads) : PayloadSize(payloads[p]) <= Mtu
        /\ \A p \in Position(packets) : PayloadSize(packets[p]) <= Mtu

WholeFrames ==
    /\ \A p \in Position(packets) :
          \E q \in p..Len(packets) : packets[q].frame = packets[p].frame /\ packets[q].e
    /\ \A p, q \in Position(packets) : p <= q => packets[p].frame <= packets[q].frame

\* The call whose packets get the identifier.
NextCall == IF pc = "idle" THEN Len(given) + 1 ELSE Len(given)

Kept(f, g) == ~(\E n \in renumbered : f <= n /\ n < g)

IdInv ==
    /\ \A p \in Position(packets) :
          Kept(packets[p].frame, NextCall) =>
              pictureID = (packets[p].id + NextCall - packets[p].frame) % WrapId
    /\ \A p, q \in Position(packets) :
          packets[p].frame <= packets[q].frame /\ Kept(packets[p].frame, packets[q].frame) =>
              packets[q].id = (packets[p].id + packets[q].frame - packets[p].frame) % WrapId

SenderInv ==
    TypeOK /\ Chain(payloads) /\ Chain(packets) /\ CallInv /\ SizeInv /\ WholeFrames /\ IdInv

OneFrame(bytes, f) ==
    bytes # <<>> /\ bytes[1] = <<f, 0>> /\ \A j \in Position(bytes) : bytes[j][1] = f

\* No two frames have the same identifier.
AllDistinct == renumbered \subseteq {0} /\ Len(given) <= WrapId

MixedInv ==
    AllDistinct =>
        /\ isOpen => \E p \in 1..rcvd :
               PictureID = packets[p].id /\ OneFrame(vp9Frame, packets[p].frame)
        /\ \A i \in Position(frames) : \E f \in Position(given) :
               OneFrame(frames[i], f) /\ Last(frames[i]) = <<f, given[f] - 1>>

Intact(f) == \A p \in lost : packets[p].frame # f

LocalInv ==
    /\ \A p \in 1..rcvd :
          packets[p].e /\ Intact(packets[p].frame) => Whole(packets[p].frame) \in Range(frames)
    /\ rcvd > 0 /\ ~packets[rcvd].e /\ Intact(packets[rcvd].frame) =>
          /\ isOpen /\ PictureID = packets[rcvd].id
          /\ vp9Frame = Bytes(packets[rcvd].frame, 0, packets[rcvd].to)

IndInv == SenderInv /\ MixedInv /\ LocalInv
=============================================================================
