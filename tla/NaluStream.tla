----------------------------- MODULE NaluStream -----------------------------
(***************************************************************************)
(* What a packetizer, a transport and a depacketizer promise together:     *)
(* units are accepted in some order and come out in that order, each once  *)
(* and, until the transport loses something, none missing and none         *)
(* damaged.  Several may be accepted, or come out, in one step.            *)
(***************************************************************************)
EXTENDS Naturals, SequencesExt

VARIABLES
    stream,   \* the units accepted so far, in order; none is accepted twice
    out,      \* the units that came out so far, in order; 0 is a damaged one
    faulty    \* whether something was lost

Init == stream = <<>> /\ out = <<>> /\ faulty = FALSE

\* The units that came out intact, in the order of the stream, none twice.
InOrder(units, all) ==
    /\ \A i \in DOMAIN units : units[i] # 0 => units[i] \in Range(all)
    /\ \A i, j \in DOMAIN units :
          i < j /\ units[i] # 0 /\ units[j] # 0 =>
              \E a, b \in DOMAIN all : a < b /\ all[a] = units[i] /\ all[b] = units[j]

Accept ==
    /\ stream # stream'
    /\ IsPrefix(stream, stream')
    /\ UNCHANGED <<out, faulty>>

Deliver ==
    /\ out # out'
    /\ IsPrefix(out, out')
    /\ IF faulty THEN InOrder(out', stream) ELSE IsPrefix(out', stream)
    /\ UNCHANGED <<stream, faulty>>

Fail ==
    /\ faulty' = TRUE
    /\ UNCHANGED <<stream, out>>

Next == Accept \/ Deliver \/ Fail

Spec == Init /\ [][Next]_<<stream, out, faulty>>
=============================================================================
