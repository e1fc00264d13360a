------------------------------- MODULE MCVP9 --------------------------------
(***************************************************************************)
(* VP9Session for an MTU of 7, which leaves a fragment 4 bytes in flexible *)
(* mode and 2 in the other, and for 16 bits scaled down to 4: a frame of   *)
(* 16 bytes comes to a size of 0.  Identifiers wrap at 3.                  *)
(***************************************************************************)
EXTENDS VP9Session

MCSizes == {6, 16}

\* In the code's own widths: a frame one byte larger than 16 bits can tell.
MCLarge == {65537}
=============================================================================
