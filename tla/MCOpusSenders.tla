--------------------------- MODULE MCOpusSenders ---------------------------
(***************************************************************************)
(* OpusSenders with a sequence number of two bits, so that it rolls over   *)
(* within the calls of a run, and frames that just fit and just do not.    *)
(***************************************************************************)
EXTENDS OpusSenders

MCFrameSizes == {88, 89}
=============================================================================
