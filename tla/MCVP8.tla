------------------------------- MODULE MCVP8 --------------------------------
(***************************************************************************)
(* VP8Session for an MTU of 5, with identifiers that are wide from 2 on    *)
(* and wrap at 3: no identifier leaves a fragment 4 bytes, a narrow one 2  *)
(* and a wide one 1, so that frames of 2 and 3 bytes take one to three     *)
(* packets and fill the last or not.  A frame of 0 bytes is refused.       *)
(***************************************************************************)
EXTENDS VP8Session

MCSizes == {0, 2, 3}
=============================================================================
