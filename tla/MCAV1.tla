------------------------------- MODULE MCAV1 --------------------------------
(***************************************************************************)
(* AV1Session for an MTU of 11 and length fields that grow at 4 and 16:    *)
(* three OBUs of one or two bytes leave 4 bytes or 1 for a fourth, which   *)
(* has the cases of no room and of a length field at its edge; larger ones *)
(* fill one, two or three packets exactly or not.                          *)
(***************************************************************************)
EXTENDS AV1Session

Obu(type, layer, size) == [type |-> type, layer |-> layer, size |-> size]
Delimiter == Obu("td", 0, 0)
Sequence == Obu("seq", 0, 0)
TileList == Obu("tile_list", 0, 1)
Small == Obu("other", 0, 0)
Layered(layer) == Obu("other", layer, 0)
Truncated == Obu("truncated", 0, 0)
Large(size) == Obu("other", 0, size)
LargeSequence == Obu("seq", 1, 20)

MCFronts ==
    {<<>>, <<Small>>, <<Small, Small>>, <<Small, Small, Small>>,
     <<Layered(1), Layered(1)>>, <<Layered(1), Layered(1), Layered(1)>>,
     <<Layered(1), Layered(2)>>, <<Small, Sequence>>, <<Delimiter, Sequence>>,
     <<Small, Delimiter, Small>>}

\* After these comes the end of the frame or an OBU that starts a new packet.
MCTails ==
    {<<>>, <<Truncated>>, <<Large(9)>>, <<LargeSequence>>,
     <<Large(20), Sequence>>}

\* A large OBU that others follow in its packets is among the frames only where
\* it fills its last packet, and a tile list only where no OBU that starts a new
\* packet follows.
MCFrames ==
    {parts[1] \o parts[2] : parts \in MCFronts \X MCTails \ {<<<<>>, <<>>>>}}
    \cup {<<Large(19), Small>>, <<Large(27), Small>>, <<Small, TileList, Small>>}

\* For the violations: the smallest frames.
MCPair == {<<Large(13), Small>>}
=============================================================================
