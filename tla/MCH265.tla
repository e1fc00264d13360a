------------------------------- MODULE MCH265 -------------------------------
(***************************************************************************)
(* H265Session with a handful of frames for each of two MTUs.              *)
(*                                                                         *)
(* For an MTU of 20 without decoding order numbers the largest NAL unit    *)
(* for a single packet has 18 bytes, 20 take two fragments and 37 three;   *)
(* 5, 5 and 2 bytes fill an aggregation packet and 6, 5 and 2 are one byte *)
(* too many.  With them 16 bytes are the largest, 4, 2 and 2 fill an       *)
(* aggregation packet and 5, 2 and 2 are too many.                         *)
(*                                                                         *)
(* For an MTU of 5 a fragment holds two bytes: the sizes are those around  *)
(* the ends of the fragmentation loop.  With decoding order numbers there  *)
(* is no room for a byte.                                                  *)
(***************************************************************************)
EXTENDS H265Session

MCFrames(mtu_) ==
    IF mtu_ = 5
    THEN {<<3>>, <<6>>, <<7, 5>>, <<5, 7, 3>>}
    ELSE {<<1>>, <<20>>, <<4, 37>>, <<5, 5, 2>>, <<6, 5, 2>>, <<4, 2, 2>>, <<5, 2, 2>>}

\* A NAL unit of 19 bytes is one fragment for an MTU of 20.
MCExact(mtu_) == {<<19>>, <<20>>, <<19, 20>>}
=============================================================================
