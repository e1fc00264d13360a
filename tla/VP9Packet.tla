----------------------------- MODULE VP9Packet ------------------------------
(***************************************************************************)
(* The VP9 payload descriptor (packet/vp9_packet.{h,cc}), as far as the    *)
(* library writes it: B, E, and a picture identifier of 15 bits.           *)
(***************************************************************************)
EXTENDS Integers, SequencesExt

CONSTANTS
    Mtu,      \* mtu_
    Word,     \* what 16 bits tell apart; 65536 in the code
    WrapId    \* what 15 bits tell apart; 32768 in the code

ASSUME MtuAssumption == Mtu \in Nat
ASSUME WidthAssumption == Word \in Nat /\ WrapId \in Nat /\ 1 < WrapId /\ WrapId <= Word

\* The fragment from..to-1 of a frame.
Payload(frame, from, to, b, e, header, id) ==
    [frame |-> frame, from |-> from, to |-> to, b |-> b, e |-> e,
     header |-> header, id |-> id % WrapId]

PayloadSize(payload) == payload.header + payload.to - payload.from

Bytes(frame, from, to) == [i \in 1 .. to - from |-> <<frame, from + i - 1>>]
PayloadBytes(payload) == Bytes(payload.frame, payload.from, payload.to)
=============================================================================
