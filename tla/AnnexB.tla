------------------------------- MODULE AnnexB -------------------------------
(***************************************************************************)
(* The two ways the library cuts a frame into NAL units, one after the     *)
(* other on the same frame: EmitNalus for H.264 and the scan of the H.265  *)
(* packetizer.                                                             *)
(***************************************************************************)
EXTENDS NaluScan

vars == <<data, emitVars, scanVars>>

Init == EmitInit /\ ScanInit

Next ==
    \/ EmitStep /\ UNCHANGED scanVars
    \/ emit \in {"done", "overrun"} /\ ScanStep

Spec == Init /\ [][Next]_vars

-----------------------------------------------------------------------------
(* Properties.                                                             *)

RangeType == [from : 0..Len(data), to : 0..Len(data)]

TypeOK ==
    /\ data \in Seq(0..255)
    /\ start \in Nat /\ offset \in {3, 4}
    /\ nalus \in Seq(RangeType)
    /\ emit \in {"begin", "loop", "done", "overrun"}
    /\ scanned \in 0..Len(data)
    /\ units \in Seq(RangeType)
    /\ scan \in {"loop", "done", "overrun"}

NoCodeIn(range) == \A i \in range.from .. range.to - 3 : ~StartCodeAt(i)

\* Behind a NAL unit that is not the last comes a start code, with a zero in front of
\* it where there is one, then the next NAL unit.
Joined(range, next) ==
    \/ next.from = range.to + 3 /\ StartCodeAt(range.to) /\ Byte(range.to - 1) # 0
    \/ next.from = range.to + 4 /\ StartCodeAt(range.to + 1) /\ Byte(range.to) = 0

\* Nothing is between the NAL units but start codes, and none is in them.
Tiled(ranges) ==
    \A k \in 1..Len(ranges) :
        /\ ranges[k].from <= ranges[k].to
        /\ NoCodeIn(ranges[k])
        /\ k < Len(ranges) => Joined(ranges[k], ranges[k + 1])

\* In the loop, what was emitted reaches up to the start code the loop is at.
AtCode ==
    /\ start + offset <= Len(data)
    /\ StartCodeAt(start + offset - 3)
    /\ offset = 4 => Byte(start) = 0

(***************************************************************************)
(* EmitNalus loses nothing behind the first start code and reads nothing   *)
(* beyond the frame: NAL units and start codes follow each other without a *)
(* gap, no NAL unit has a start code inside, the last one ends with the    *)
(* frame; only a frame that ends with a start code is read beyond.         *)
(***************************************************************************)
EmitInv ==
    /\ Tiled(nalus)
    /\ emit = "begin" => nalus = <<>> /\ offset = 3
    /\ emit \in {"loop", "overrun"} =>
          /\ AtCode
          /\ nalus # <<>> => Joined(nalus[Len(nalus)], Range_(NaluStart, NaluStart))
    /\ emit = "done" => nalus # <<>> /\ nalus[Len(nalus)].to = Len(data)
    /\ emit = "overrun" => StartCodeAt(Len(data) - 3)

BeginsWithCode == CodeAt(0)

\* Then the first NAL unit starts behind that start code.
FirstInv ==
    BeginsWithCode =>
        LET first == IF StartCodeAt(0) THEN 3 ELSE 4
        IN  /\ emit \in {"loop", "overrun"} /\ nalus = <<>> => NaluStart = first
            /\ nalus # <<>> => nalus[1].from = first

\* Of the first k NAL units those with at least one byte.
FilledTo(ranges) ==
    LET filled[k \in 0..Len(ranges)] ==
            IF k = 0 THEN <<>>
            ELSE IF ranges[k].from < ranges[k].to
                 THEN Append(filled[k - 1], ranges[k])
                 ELSE filled[k - 1]
    IN  filled
Filled(ranges) == FilledTo(ranges)[Len(ranges)]

\* The scan is at the start code in front of the next of the NAL units emitted.
ScannedTo(k) ==
    /\ units = FilledTo(nalus)[k]
    /\ k < Len(nalus) =>
          /\ scanned < Len(data) /\ CodeAt(scanned)
          /\ FoundStart = nalus[k + 1].from
    /\ k = Len(nalus) => scanned = Len(data)

ScanInv ==
    /\ emit \in {"begin", "loop"} => scanned = 0 /\ units = <<>> /\ scan = "loop"
    /\ BeginsWithCode =>
          /\ emit = "done" => \E k \in 0..Len(nalus) : ScannedTo(k)
          /\ scan = "done" => scanned >= Len(data)
          /\ scan = "overrun" => ZerosAt(Len(data) - 3)

IndInv == TypeOK /\ EmitInv /\ FirstInv /\ ScanInv

(***************************************************************************)
(* Frames that begin with a start code are cut alike for H.264 and H.265,  *)
(* but for NAL units of no bytes, which neither packetizer sends; and the  *)
(* H.265 scan reads beyond such a frame only if three zeros end it.        *)
(***************************************************************************)
SplitsAgree ==
    BeginsWithCode =>
        /\ scan = "overrun" => ZerosAt(Len(data) - 3)
        /\ scan = "done" /\ emit = "done" => units = Filled(nalus)
=============================================================================
