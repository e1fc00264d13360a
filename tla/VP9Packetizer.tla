--------------------------- MODULE VP9Packetizer ----------------------------
(***************************************************************************)
(* rtp::VP9Packetizer (packetizer/vp9_packetizer.{h,cc}): the call, one    *)
(* step per turn of the fragmentation loop, which is the same in both      *)
(* modes but for the size of the descriptor, and the return.  Left out:    *)
(* the bit that says whether the frame is a key frame, and the index of    *)
(* the temporal layer, which nothing in the library reads.                 *)
(***************************************************************************)
EXTENDS VP9Packet

CONSTANTS
    FrameSizes,   \* sizes of the frames the application may hand over
    InitialIds,   \* what it may pass to SetInitialPictureID
    MaxFrames     \* bound: calls of Packetize

ASSUME FrameSizesAssumption == FrameSizes \subseteq Nat
ASSUME InitialIdsAssumption == InitialIds \subseteq 0 .. Word - 1
ASSUME MaxFramesAssumption == MaxFrames \in Nat

VARIABLES
    given,             \* history: sizes of the frames handed over
    renumbered,        \* history: how many of them before each SetInitialPictureID
    flexibleMode,      \* flexibleMode_
    pictureID,         \* pictureID_
    initialized,       \* initialized_
    pc,                \* "idle" outside Packetize, else "fragment" or "return"
    payloadDataIndex,  \* as in the code
    payloads,          \* of this call
    packets,           \* history: those of calls that returned true
    returned           \* of the last call, TRUE before the first

packetizerVars == <<given, renumbered, flexibleMode, pictureID, initialized, pc,
                    payloadDataIndex, payloads, packets, returned>>

PacketizerInit ==
    /\ given = <<>> /\ renumbered = {}
    /\ flexibleMode = FALSE /\ pictureID = 0 /\ initialized = FALSE
    /\ pc = "idle" /\ payloadDataIndex = 0 /\ payloads = <<>>
    /\ packets = <<>> /\ returned = TRUE

SetFlexibleMode ==
    /\ pc = "idle"
    /\ flexibleMode' \in BOOLEAN
    /\ UNCHANGED <<given, renumbered, pictureID, initialized, pc, payloadDataIndex,
                   payloads, packets, returned>>

SetInitialPictureID ==
    /\ pc = "idle"
    /\ \E id \in InitialIds : pictureID' = id % WrapId
    /\ renumbered' = renumbered \cup {Len(given)}
    /\ UNCHANGED <<given, flexibleMode, initialized, pc, payloadDataIndex, payloads,
                   packets, returned>>

-----------------------------------------------------------------------------
(* Packetize.                                                              *)

\* The arguments are cut to 16 bits.
minInt(a, b) == IF a % Word < b % Word THEN a % Word ELSE b % Word

headerSize == IF flexibleMode THEN 3 ELSE 5

maxFragmentSize == Mtu - headerSize

\* Nothing fits, or the size comes to 0 in 16 bits.
Refuses(size) == minInt(maxFragmentSize, size) <= 0

\* The first call draws the identifier, whatever was set before.
Packetize(size) ==
    /\ pc = "idle" /\ Len(given) < MaxFrames /\ size > 0
    /\ given' = Append(given, size)
    /\ pictureID' \in IF initialized THEN {pictureID} ELSE 0 .. WrapId - 1
    /\ initialized' = TRUE
    /\ payloadDataIndex' = 0 /\ payloads' = <<>>
    /\ pc' = IF Refuses(size) THEN "return" ELSE "fragment"
    /\ UNCHANGED <<renumbered, flexibleMode, packets, returned>>

Frame == Len(given)
payloadDataRemaining == given[Frame] - payloadDataIndex

\* Mutant: E only on a fragment that does not fill its packet.
IsEndShort(end) == end = given[Frame] /\ end - payloadDataIndex < maxFragmentSize
IsEnd(end) == end = given[Frame]

Fragment ==
    /\ pc = "fragment"
    /\ LET end == payloadDataIndex + minInt(maxFragmentSize, payloadDataRemaining) IN
       /\ payloads' = Append(payloads,
            Payload(Frame, payloadDataIndex, end, payloadDataIndex = 0, IsEnd(end),
                    headerSize, pictureID))
       /\ payloadDataIndex' = end
       /\ pc' = IF end < given[Frame] THEN "fragment" ELSE "return"
    /\ UNCHANGED <<given, renumbered, flexibleMode, pictureID, initialized, packets, returned>>

\* Mutant: only a call that made packets takes an identifier.
NextIdOfSent ==
    IF payloads = <<>> THEN pictureID
    ELSE IF pictureID + 1 >= WrapId THEN 0 ELSE pictureID + 1
\* Mutant: the identifier wraps one too late.
NextIdLate == IF pictureID + 1 > WrapId THEN 0 ELSE pictureID + 1
\* Mutant: the identifier stays the same.
NextIdSame == pictureID
NextId == IF pictureID + 1 >= WrapId THEN 0 ELSE pictureID + 1

\* The identifier is used up whether or not there are packets.
Return ==
    /\ pc = "return"
    /\ pictureID' = NextId
    /\ packets' = packets \o payloads
    /\ returned' = (payloads # <<>>)
    /\ pc' = "idle"
    /\ UNCHANGED <<given, renumbered, flexibleMode, initialized, payloadDataIndex, payloads>>

PacketizerNext ==
    \/ SetFlexibleMode \/ SetInitialPictureID
    \/ \E size \in FrameSizes : Packetize(size)
    \/ Fragment \/ Return
=============================================================================
