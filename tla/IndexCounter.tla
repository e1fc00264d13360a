---------------------------- MODULE IndexCounter ----------------------------
(***************************************************************************)
(* What a sequencer promises (packet/rtp_packet.h:128): every call gets    *)
(* the next of one sequence of numbers, as if the calls came one at a time *)
(* and drew from a counter that never wraps.                               *)
(***************************************************************************)
EXTENDS Integers, Sequences

CONSTANT SeqModulus

VARIABLES
    index,    \* the counter behind the sequence numbers
    issued    \* the sequence numbers given out, in order

Init == index \in Nat /\ index < SeqModulus /\ issued = <<>>

Take ==
    /\ index' = index + 1
    /\ issued' = Append(issued, index' % SeqModulus)

Spec == Init /\ [][Take]_<<index, issued>>
=============================================================================
