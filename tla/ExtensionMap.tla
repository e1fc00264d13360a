---------------------------- MODULE ExtensionMap ----------------------------
(***************************************************************************)
(* What the header extensions of an RTP packet promise: each end holds     *)
(* payloads by identifier; one is set or deleted at a time, a call that    *)
(* returns false changes nothing, and what travels without a fault arrives *)
(* as it was.                                                              *)
(***************************************************************************)
VARIABLES
    map,        \* the payloads by identifier, at the sender
    seen,       \* those of the last packet the receiver got
    answer,     \* what was asked of the map last and what it said, if anything
    faithful    \* whether the packet under way is one the sender could write

Init == map = <<>> /\ seen = <<>> /\ answer = <<>>

Set ==
    /\ answer' # <<>> /\ answer'.op = "set"
    /\ map' = IF answer'.done
              THEN [id \in DOMAIN map \cup {answer'.id} |->
                       IF id = answer'.id THEN answer'.payload ELSE map[id]]
              ELSE map
    /\ UNCHANGED <<seen, faithful>>

Delete ==
    /\ answer' # <<>> /\ answer'.op = "delete"
    /\ answer'.id \in DOMAIN map => answer'.done
    /\ map' = [id \in DOMAIN map \ {answer'.id} |-> map[id]]
    /\ UNCHANGED <<seen, faithful>>

Send ==
    /\ answer' = <<>>
    /\ UNCHANGED <<map, seen>>

Deliver ==
    /\ faithful => seen' = map
    /\ UNCHANGED <<map, answer>>

\* The packet that arrived is passed on.
Relay ==
    /\ answer' = <<>>
    /\ map' = seen
    /\ UNCHANGED <<seen, faithful>>

Next == Set \/ Delete \/ Send \/ Deliver \/ Relay
Spec == Init /\ [][Next]_<<map, seen, answer, faithful>>
=============================================================================
