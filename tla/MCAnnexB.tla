------------------------------ MODULE MCAnnexB ------------------------------
(***************************************************************************)
(* AnnexB for every frame of up to ten bytes 0, 1 and 2: two start codes   *)
(* of either length with a byte behind each, zeros in front of a start     *)
(* code and behind a NAL unit, frames that end with one or more of either, *)
(* and those without a start code.                                         *)
(***************************************************************************)
EXTENDS AnnexB

MCFrames == UNION {[1..n -> 0..2] : n \in 0..10}
=============================================================================
