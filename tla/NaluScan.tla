------------------------------ MODULE NaluScan ------------------------------
(***************************************************************************)
(* The scan for NAL units at the top of H265Payloader::Payload             *)
(* (packetizer/h265_packetizer.cc), of the same frame that EmitNalus cuts. *)
(* One step per turn of its loop.                                          *)
(***************************************************************************)
EXTENDS EmitNalus

VARIABLES
    scanned,   \* offset: where the scan is
    units,     \* the NAL units found so far
    scan       \* "loop", "done", or "overrun" after a read beyond the frame

scanVars == <<scanned, units, scan>>

ScanInit == scanned = 0 /\ units = <<>> /\ scan = "loop"

ZerosAt(i) == Byte(i) = 0 /\ Byte(i + 1) = 0 /\ Byte(i + 2) = 0

\* A start code of either length within the frame.
LongCodeAt(i) == i + 4 <= Len(data) /\ ZerosAt(i) /\ Byte(i + 3) = 1
CodeAt(i) == StartCodeAt(i) \/ LongCodeAt(i)

\* Mutant: the search begins one byte too late.
SearchFromLate == scanned + 4
SearchFrom == scanned + 3

\* nextStart: the search begins behind the shorter start code.
IsNext(i) ==
    /\ i \in SearchFrom .. Len(data) - 3
    /\ CodeAt(i)
    /\ \A j \in SearchFrom .. i - 1 : ~CodeAt(j)
NoNext == \A i \in SearchFrom .. Len(data) - 3 : ~CodeAt(i)

\* naluStart: behind the start code, if there is one.
FoundStart ==
    CASE StartCodeAt(scanned) -> scanned + 3
      [] LongCodeAt(scanned) -> scanned + 4
      [] OTHER -> scanned

(***************************************************************************)
(* Reads beyond the frame: the search limit `size() - 2` wraps; two zeros  *)
(* are the whole frame and a third is asked for; the last three bytes are  *)
(* zeros and the search asks for a fourth.                                 *)
(***************************************************************************)
ReadsBeyond ==
    \/ Len(data) = 1
    \/ data = <<0, 0>>
    \/ /\ NoNext
       /\ Len(data) - 3 >= SearchFrom /\ ZerosAt(Len(data) - 3)

ScanBeyond ==
    /\ scan = "loop" /\ scanned < Len(data)
    /\ ReadsBeyond
    /\ scan' = "overrun"
    /\ UNCHANGED <<emitVars, data, scanned, units>>

Found(nextStart) ==
    /\ units' = IF FoundStart < nextStart
                THEN Append(units, Range_(FoundStart, nextStart))
                ELSE units
    /\ scanned' = nextStart
    /\ UNCHANGED <<emitVars, data, scan>>

ScanNext ==
    /\ scan = "loop" /\ scanned < Len(data)
    /\ ~ReadsBeyond
    /\ \/ \E i \in SearchFrom .. Len(data) - 3 : IsNext(i) /\ Found(i)
       \/ NoNext /\ Found(Len(data))

ScanEnd ==
    /\ scan = "loop" /\ scanned >= Len(data)
    /\ scan' = "done"
    /\ UNCHANGED <<emitVars, data, scanned, units>>

ScanStep == ScanBeyond \/ ScanNext \/ ScanEnd
=============================================================================
