----------------------------- MODULE VP8Packet ------------------------------
(***************************************************************************)
(* The VP8 payload descriptor (packet/vp8_packet.{h,cc}), as far as the    *)
(* library writes it: S, and a picture identifier of 7 or 15 bits, which   *)
(* is absent for identifier 0.                                             *)
(***************************************************************************)
EXTENDS Integers, SequencesExt

CONSTANTS
    Mtu,        \* mtu_
    Word,       \* what 16 bits tell apart; 65536 in the code
    NarrowId,   \* identifiers that fit 7 bits; 128 in the code
    WrapId      \* identifiers that fit 15 bits; 32768 in the code

ASSUME MtuAssumption == Mtu \in Nat
ASSUME WordAssumption == Word \in Nat /\ 1 < Word
ASSUME IdAssumption == NarrowId \in Nat /\ WrapId \in Nat /\ 1 < NarrowId /\ NarrowId < WrapId

kVP8HeaderSize == 1

\* A fragment from..to-1 of a frame; `header` bytes of descriptor with the
\* identifier's bits in `field`.
Payload(frame, from, to, s, header, field) ==
    [frame |-> frame, from |-> from, to |-> to, s |-> s, header |-> header, field |-> field]

PayloadSize(payload) == payload.header + payload.to - payload.from

Bytes(frame, from, to) == [i \in 1 .. to - from |-> <<frame, from + i - 1>>]
PayloadBytes(payload) == Bytes(payload.frame, payload.from, payload.to)

\* What Unmarshal reads: without I the identifier is 0, and M tells how wide it is.
PictureID(payload) ==
    CASE payload.header = kVP8HeaderSize -> 0
      [] payload.header = kVP8HeaderSize + 2 -> payload.field % NarrowId
      [] OTHER -> payload.field % WrapId

IsPartitionHead(payload) == payload.s
=============================================================================
