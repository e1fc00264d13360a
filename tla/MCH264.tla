------------------------------- MODULE MCH264 -------------------------------
(***************************************************************************)
(* H264Session with a handful of frames, for an MTU of 10: with empty      *)
(* parameter sets a slice of 0 body bytes just fits a STAP-A and one of 1  *)
(* just does not; 9 is the largest single NAL unit and 10 the smallest     *)
(* that is cut, 16 fills two fragments and 17 needs a third.  Parameter    *)
(* sets come alone, together and before a slice.                           *)
(***************************************************************************)
EXTENDS H264Session

SPS == [type |-> "sps", len |-> 0]
PPS == [type |-> "pps", len |-> 0]
AUD == [type |-> "aud", len |-> 0]
Slice(len) == [type |-> "slice", len |-> len]

MCFrames ==
    {<<SPS>>, <<PPS>>, <<SPS, PPS>>, <<PPS, Slice(1)>>, <<Slice(0)>>, <<Slice(16)>>,
     <<AUD, Slice(17)>>, <<Slice(16), Slice(9)>>}
=============================================================================
