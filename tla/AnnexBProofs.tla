---------------------------- MODULE AnnexBProofs ----------------------------
(***************************************************************************)
(* EmitNalus cuts every frame without losing a byte behind the first start *)
(* code, and reads beyond none that does not end with a start code; the    *)
(* H.265 scan cuts a frame that begins with a start code alike: IndInv of  *)
(* AnnexB is inductive, whatever the frame.                                *)
(***************************************************************************)
EXTENDS AnnexB, SequenceTheorems, WellFoundedInduction, TLAPS

-----------------------------------------------------------------------------
(* Recursion over the natural numbers.                                     *)

\* A set of numbers has a least one.
LEMMA LeastElement ==
    ASSUME NEW T, T \subseteq Nat, T # {}
    PROVE  \E x \in T : \A y \in T : x <= y
<1> DEFINE R == OpToRel(<, Nat)
<1>1. IsWellFoundedOn(R, Nat)
  BY NatLessThanWellFounded
<1>2. \E x \in T : \A y \in T : ~(<<y, x>> \in R)
  <2> HIDE DEF R
  <2> QED
    BY <1>1, WFMin
<1>3. \A x, y \in T : ~(<<y, x>> \in R) => x <= y
  BY DEF OpToRel
<1> QED
  BY <1>2, <1>3

\* Induction, over a set in place of a predicate.
LEMMA SetInduction ==
    ASSUME NEW S, 0 \in S, \A n \in Nat : n \in S => n + 1 \in S
    PROVE  Nat \subseteq S
<1> DEFINE T == Nat \ S
<1> SUFFICES ASSUME T # {} PROVE FALSE
  OBVIOUS
<1>1. PICK x \in T : \A y \in T : x <= y
  BY LeastElement
<1>2. x # 0 /\ x - 1 \in Nat
  BY <1>1
<1>3. x - 1 \in S
  BY <1>1, <1>2
<1> QED
  BY <1>1, <1>2, <1>3

\* g starts with base and goes on by step, up to n.
Iterates(g, n, S, base, step) ==
    /\ g \in [0..n -> S]
    /\ g[0] = base
    /\ \A i \in 1..n : g[i] = step[i][g[i - 1]]

\* What is computed one step after the other is there.
LEMMA IterationExists ==
    ASSUME NEW S, NEW base \in S, NEW m \in Nat, NEW step \in [1..m -> [S -> S]]
    PROVE  \E g : Iterates(g, m, S, base, step)
<1> DEFINE D == {n \in Nat : n <= m => \E g : Iterates(g, n, S, base, step)}
<1>1. 0 \in D
  <2> DEFINE g == [i \in 0..0 |-> base]
  <2>1. Iterates(g, 0, S, base, step)
    BY DEF Iterates
  <2> HIDE DEF g
  <2> QED
    BY <2>1
<1>2. ASSUME NEW n \in Nat, n \in D PROVE n + 1 \in D
  <2> SUFFICES ASSUME n + 1 <= m PROVE \E g : Iterates(g, n + 1, S, base, step)
    OBVIOUS
  <2>1. PICK g : Iterates(g, n, S, base, step)
    BY <1>2
  <2>2. step[n + 1] \in [S -> S] /\ g[n] \in S
    BY <2>1 DEF Iterates
  <2> DEFINE next == step[n + 1][g[n]]
             h == [i \in 0..(n + 1) |-> IF i = n + 1 THEN next ELSE g[i]]
  <2>3. next \in S
    BY <2>2
  <2> HIDE DEF next
  <2>4. h \in [0..(n + 1) -> S] /\ h[0] = base
    BY <2>1, <2>3 DEF Iterates
  <2>5. ASSUME NEW i \in 1..(n + 1) PROVE h[i] = step[i][h[i - 1]]
    <3>1. CASE i = n + 1
      <4>1. i - 1 \in 0..(n + 1) /\ i - 1 # n + 1 /\ i - 1 = n
        BY <3>1
      <4>2. h[i - 1] = g[n] /\ h[i] = next
        BY <3>1, <4>1
      <4> HIDE DEF h
      <4> QED
        BY <3>1, <4>2 DEF next
    <3>2. CASE i # n + 1
      <4>1. i \in 1..n /\ i - 1 \in 0..n
        BY <3>2
      <4>2. h[i] = g[i] /\ h[i - 1] = g[i - 1]
        BY <4>1
      <4> HIDE DEF h
      <4> QED
        BY <2>1, <4>1, <4>2 DEF Iterates
    <3> QED
      BY <3>1, <3>2
  <2> HIDE DEF h
  <2>6. Iterates(h, n + 1, S, base, step)
    BY <2>4, <2>5 DEF Iterates
  <2> QED
    BY <2>6
<1>3. Nat \subseteq D
  <2> HIDE DEF D
  <2> QED
    BY <1>1, <1>2, SetInduction
<1> QED
  BY <1>3

\* Two computations that start alike and go on alike are alike.
StepAlike(g, h, m) ==
    /\ g[0] = h[0]
    /\ \A i \in 1..m : g[i - 1] = h[i - 1] => g[i] = h[i]

LEMMA IterationUnique ==
    ASSUME NEW m \in Nat, NEW g, NEW h, StepAlike(g, h, m)
    PROVE  \A i \in 0..m : g[i] = h[i]
<1> DEFINE D == {n \in Nat : n <= m => g[n] = h[n]}
<1>1. 0 \in D
  BY DEF StepAlike
<1>2. ASSUME NEW n \in Nat, n \in D PROVE n + 1 \in D
  <2> SUFFICES ASSUME n + 1 <= m PROVE g[n + 1] = h[n + 1]
    OBVIOUS
  <2>1. n + 1 \in 1..m /\ (n + 1) - 1 = n /\ g[n] = h[n]
    BY <1>2
  <2> QED
    BY <2>1 DEF StepAlike
<1>3. Nat \subseteq D
  <2> HIDE DEF D
  <2> QED
    BY <1>1, <1>2, SetInduction
<1> QED
  BY <1>3

-----------------------------------------------------------------------------
(* The NAL units of at least one byte.                                     *)

\* A NAL unit more, unless it has no bytes.
WithFilled(ranges, range) ==
    IF range.from < range.to THEN Append(ranges, range) ELSE ranges

\* FilledTo is what its equation says.
LEMMA FilledSteps ==
    ASSUME NEW R, NEW ranges \in Seq(R)
    PROVE  /\ FilledTo(ranges)[0] = <<>>
           /\ \A k \in 1..Len(ranges) :
                 FilledTo(ranges)[k] = WithFilled(FilledTo(ranges)[k - 1], ranges[k])
<1> DEFINE n == Len(ranges)
           Def(f) == f = [k \in 0..n |->
                             IF k = 0 THEN <<>> ELSE WithFilled(f[k - 1], ranges[k])]
           filled == CHOOSE f : Def(f)
           step == [k \in 1..n |-> [v \in Seq(R) |-> WithFilled(v, ranges[k])]]
<1>1. FilledTo(ranges) = filled
    BY DEF FilledTo, WithFilled
<1>2. n \in Nat /\ <<>> \in Seq(R)
    OBVIOUS
<1>3. step \in [1..n -> [Seq(R) -> Seq(R)]]
  <2>1. ASSUME NEW k \in 1..n, NEW v \in Seq(R) PROVE WithFilled(v, ranges[k]) \in Seq(R)
      BY DEF WithFilled
  <2> HIDE DEF n
  <2> QED
      BY <2>1
<1>4. PICK g : Iterates(g, n, Seq(R), <<>>, step)
  <2> HIDE DEF n, step
  <2> QED
      BY <1>2, <1>3, IterationExists
<1> HIDE DEF n
<1>5. \A k \in 1..n : g[k] = WithFilled(g[k - 1], ranges[k])
  <2> SUFFICES ASSUME NEW k \in 1..n PROVE g[k] = WithFilled(g[k - 1], ranges[k])
      OBVIOUS
  <2>1. k - 1 \in 0..n /\ g[k - 1] \in Seq(R) /\ g[k] = step[k][g[k - 1]]
    <3> HIDE DEF step
    <3> QED
        BY <1>2, <1>4 DEF Iterates
  <2>2. \A v \in Seq(R) : step[k][v] = WithFilled(v, ranges[k])
      BY Zenon
  <2> QED
      BY <2>1, <2>2, Zenon
<1>6. Def(g)
    BY <1>2, <1>4, <1>5 DEF Iterates
<1>7. Def(filled)
  <2> HIDE DEF Def
  <2> QED
      BY <1>6
<1> HIDE DEF filled
<1>8. filled[0] = <<>> /\ \A k \in 1..n : filled[k] = WithFilled(filled[k - 1], ranges[k])
    BY <1>2, <1>7
<1> QED
    BY <1>1, <1>8 DEF n

-----------------------------------------------------------------------------
(* Start codes.                                                            *)

\* One of four bytes is a zero and one of three.
LEMMA LongCode ==
    ASSUME NEW i \in Nat, Len(data) \in Nat
    PROVE  LongCodeAt(i) <=> StartCodeAt(i + 1) /\ Byte(i) = 0
<1>1. (i + 1) + 1 = i + 2 /\ (i + 1) + 2 = i + 3 /\ (i + 1) + 3 = i + 4 /\ 0 <= i + 1
    OBVIOUS
<1>2. StartCodeAt(i + 1) <=>
         i + 4 <= Len(data) /\ Byte(i + 1) = 0 /\ Byte(i + 2) = 0 /\ Byte(i + 3) = 1
    BY <1>1 DEF StartCodeAt
<1> QED
    BY <1>2, Zenon DEF LongCodeAt, ZerosAt

\* Start codes do not overlap.
LEMMA CodesApart ==
    ASSUME NEW i \in Int, NEW j \in Int, StartCodeAt(i), StartCodeAt(j), i < j
    PROVE  j >= i + 3
<1>1. Byte(i + 2) = 1
    BY DEF StartCodeAt
<1>2. j # i + 1
  <2> SUFFICES ASSUME j = i + 1 PROVE FALSE
      OBVIOUS
  <2>1. Byte(j + 1) = 0 /\ j + 1 = i + 2
      BY DEF StartCodeAt
  <2> QED
      BY <1>1, <2>1
<1>3. j # i + 2
    BY <1>1 DEF StartCodeAt
<1> QED
    BY <1>2, <1>3

\* Behind a start code the NAL unit starts.
LEMMA FoundStartIs ==
    ASSUME Len(data) \in Nat, scanned \in Nat
    PROVE  /\ StartCodeAt(scanned) => FoundStart = scanned + 3
           /\ LongCodeAt(scanned) => FoundStart = scanned + 4
<1>1. LongCodeAt(scanned) => ~StartCodeAt(scanned)
  <2>1. LongCodeAt(scanned) => StartCodeAt(scanned + 1)
      BY LongCode
  <2> QED
      BY <2>1, CodesApart
<1> QED
    BY <1>1 DEF FoundStart

\* Before the first step nothing was emitted.
LEMMA Initially == Init => IndInv
<1> SUFFICES ASSUME Init PROVE IndInv
    OBVIOUS
<1>1. TypeOK
    BY FramesAssumption DEF Init, EmitInit, ScanInit, TypeOK
<1>2. EmitInv
    BY DEF Init, EmitInit, EmitInv, Tiled
<1>3. FirstInv
    BY DEF Init, EmitInit, FirstInv
<1>4. ScanInv
    BY DEF Init, EmitInit, ScanInit, ScanInv
<1> QED
    BY <1>1, <1>2, <1>3, <1>4 DEF IndInv

-----------------------------------------------------------------------------
(* Steps of the H.265 scan leave EmitNalus alone.                          *)

\* Where a NAL unit starts that the scan finds is within the frame.
LEMMA FoundStartType ==
    ASSUME TypeOK
    PROVE  FoundStart \in 0..Len(data)
<1>1. Len(data) \in Nat
    BY DEF TypeOK
<1>2. StartCodeAt(scanned) => scanned + 3 <= Len(data)
    BY DEF StartCodeAt
<1>3. LongCodeAt(scanned) => scanned + 4 <= Len(data)
    BY DEF LongCodeAt
<1> QED
    BY <1>1, <1>2, <1>3 DEF FoundStart, TypeOK

\* A turn that finds the next NAL unit keeps the types.
LEMMA FoundTypes ==
    ASSUME TypeOK, NEW n \in 0..Len(data), Found(n)
    PROVE  TypeOK'
<1>1. UNCHANGED <<data, start, offset, nalus, emit, scan>>
    BY DEF Found, emitVars
<1>2. units' \in Seq(RangeType)
  <2>1. CASE FoundStart < n
    <3>1. Range_(FoundStart, n) \in RangeType
        BY FoundStartType DEF Range_, RangeType
    <3> QED
        BY <2>1, <3>1 DEF Found, TypeOK
  <2>2. CASE ~(FoundStart < n)
      BY <2>2 DEF Found, TypeOK
  <2> QED
      BY <2>1, <2>2
<1>3. scanned' \in 0..Len(data)
    BY DEF Found
<1> QED
    BY <1>1, <1>2, <1>3 DEF TypeOK, RangeType

\* What EmitInv is about does not change with the scan.
LEMMA EmitInvStutters ==
    ASSUME EmitInv, UNCHANGED <<data, emitVars>>
    PROVE  EmitInv'
<1> QED
    BY DEF EmitInv, emitVars, Tiled, NoCodeIn, Joined, AtCode, NaluStart, StartCodeAt, Byte, Range_

\* What was cut stays.
LEMMA ScanKeepsCut ==
    ASSUME IndInv, ScanStep
    PROVE  TypeOK' /\ EmitInv' /\ FirstInv'
<1> USE DEF IndInv
<1>1. UNCHANGED <<data, emitVars>>
    BY DEF ScanStep, ScanBeyond, ScanNext, ScanEnd, Found
<1>2. EmitInv'
    BY <1>1, EmitInvStutters
<1>4. FirstInv'
    BY <1>1 DEF FirstInv, BeginsWithCode, CodeAt, LongCodeAt, ZerosAt, StartCodeAt, Byte, NaluStart,
                emitVars
<1>3. TypeOK'
  <2>1. CASE ScanBeyond
      BY <2>1 DEF ScanBeyond, TypeOK, emitVars, RangeType
  <2>2. CASE ScanEnd
      BY <2>2 DEF ScanEnd, TypeOK, emitVars, RangeType
  <2>3. CASE ScanNext
    <3>0. Len(data) \in Nat /\ scanned \in Nat
        BY DEF TypeOK
    <3>1. ASSUME NEW i \in SearchFrom .. Len(data) - 3, Found(i) PROVE TypeOK'
      <4>1. i \in 0..Len(data)
          BY <3>0 DEF SearchFrom
      <4> QED
          BY <3>1, <4>1, FoundTypes
    <3>2. ASSUME Found(Len(data)) PROVE TypeOK'
        BY <3>0, <3>2, FoundTypes
    <3> QED
        BY <2>3, <3>1, <3>2 DEF ScanNext
  <2> QED
      BY <2>1, <2>2, <2>3 DEF ScanStep
<1> QED
    BY <1>2, <1>3, <1>4

-----------------------------------------------------------------------------
(* Steps of EmitNalus.                                                     *)

\* The start code of the loop ends with its 1, so that no zero in front of the next
\* one belongs to it.
LEMMA NextStart ==
    ASSUME TypeOK, AtCode, NEW i \in NaluStart .. Len(data) - 3, StartCodeAt(i)
    PROVE  /\ CodeStart(i) \in NaluStart .. i
           /\ CodeStart(i) + CodeLen(i) = i + 3
           /\ CodeLen(i) \in {3, 4}
           /\ CodeLen(i) = 3 => CodeStart(i) = i /\ Byte(i - 1) # 0
           /\ CodeLen(i) = 4 => CodeStart(i) = i - 1 /\ Byte(i - 1) = 0
<1>1. /\ Len(data) \in Nat /\ start \in Nat /\ offset \in 3..4
      /\ NaluStart = start + offset /\ i \in Nat
    BY DEF TypeOK, NaluStart
<1>2. Byte(NaluStart - 1) = 1
  <2>1. (start + offset - 3) + 2 = NaluStart - 1
      BY <1>1
  <2>2. Byte((start + offset - 3) + 2) = 1
      BY DEF AtCode, StartCodeAt
  <2> QED
      BY <2>1, <2>2
<1>3. i = NaluStart => Byte(i - 1) # 0
    BY <1>2
<1> QED
    BY <1>1, <1>3 DEF CodeStart, CodeLen

\* One more NAL unit, behind the start code that follows the last.
LEMMA TiledAppend ==
    ASSUME TypeOK, Tiled(nalus), NEW range \in RangeType,
           range.from <= range.to, NoCodeIn(range),
           nalus # <<>> => Joined(nalus[Len(nalus)], range)
    PROVE  Tiled(Append(nalus, range))
<1> DEFINE longer == Append(nalus, range)
<1>1. nalus \in Seq(RangeType)
    BY DEF TypeOK
<1>2. /\ Len(longer) = Len(nalus) + 1 /\ Len(nalus) \in Nat
      /\ longer[Len(nalus) + 1] = range
      /\ \A k \in 1..Len(nalus) : longer[k] = nalus[k]
    BY <1>1
<1> SUFFICES ASSUME NEW k \in 1..Len(longer)
             PROVE  /\ longer[k].from <= longer[k].to
                    /\ NoCodeIn(longer[k])
                    /\ k < Len(longer) => Joined(longer[k], longer[k + 1])
    BY DEF Tiled
<1>3. CASE k = Len(nalus) + 1
    BY <1>2, <1>3
<1>4. CASE k = Len(nalus)
  <2>1. nalus # <<>> /\ longer[k] = nalus[k] /\ longer[k + 1] = range
      BY <1>1, <1>2, <1>4
  <2> QED
      BY <1>2, <1>4, <2>1 DEF Tiled
<1>5. CASE k < Len(nalus)
  <2>1. longer[k] = nalus[k] /\ longer[k + 1] = nalus[k + 1] /\ k \in 1..Len(nalus)
      BY <1>2, <1>5
  <2> QED
      BY <1>2, <1>5, <2>1 DEF Tiled
<1> QED
    BY <1>2, <1>3, <1>4, <1>5

\* A step of EmitNalus cuts right.
LEMMA EmitCuts ==
    ASSUME IndInv, EmitStep, UNCHANGED scanVars
    PROVE  TypeOK' /\ EmitInv'
<1> USE DEF IndInv
<1> DEFINE new == Range_(NaluStart, NaluStart)
<1>0. /\ Len(data) \in Nat /\ start \in Nat /\ offset \in 3..4
      /\ NaluStart = start + offset
    BY DEF TypeOK, NaluStart
<1>1. UNCHANGED data /\ UNCHANGED <<scanned, units, scan>>
    BY DEF EmitStep, EmitWhole, FindFirst, EmitRest, EmitNext, EmitBeyond, scanVars
\* What is emitted is in the frame and continues what was.
<1>2. ASSUME NEW from \in 0..Len(data), NEW to \in from..Len(data),
             NoCodeIn(Range_(from, to)),
             nalus # <<>> => Joined(nalus[Len(nalus)], Range_(from, to)),
             nalus' = Append(nalus, Range_(from, to))
      PROVE  /\ nalus' \in Seq(RangeType) /\ Tiled(nalus')
             /\ nalus' # <<>> /\ nalus'[Len(nalus')] = Range_(from, to)
  <2>1. Range_(from, to) \in RangeType /\ from <= to
      BY <1>0 DEF Range_, RangeType
  <2>2. nalus \in Seq(RangeType) /\ Tiled(nalus)
      BY DEF TypeOK, EmitInv
  <2>3. Tiled(nalus')
      BY <1>2, <2>1, <2>2, TiledAppend DEF Range_
  <2> QED
      BY <1>2, <2>1, <2>2, <2>3
<1>3. ASSUME Tiled(nalus') PROVE Tiled(nalus)'
    BY <1>1, <1>3 DEF Tiled, NoCodeIn, Joined, StartCodeAt, Byte
<1>4. CASE EmitWhole
  <2>1. nalus = <<>> /\ nalus' = Append(nalus, Range_(0, Len(data)))
      BY <1>4 DEF EmitWhole, EmitInv
  <2>2. NoCodeIn(Range_(0, Len(data)))
      BY <1>4 DEF EmitWhole, NoneFrom, NoCodeIn, Range_
  <2>3. /\ nalus' \in Seq(RangeType) /\ Tiled(nalus')
        /\ nalus' # <<>> /\ nalus'[Len(nalus')] = Range_(0, Len(data))
      BY <1>0, <1>2, <2>1, <2>2
  <2>4. TypeOK'
      BY <1>1, <1>4, <2>3 DEF EmitWhole, TypeOK, RangeType
  <2>5. EmitInv'
      BY <1>1, <1>3, <1>4, <2>3 DEF EmitWhole, EmitInv, Range_
  <2> QED
      BY <2>4, <2>5
<1>5. CASE FindFirst
  <2>1. PICK i \in 0 .. Len(data) - 3 : StartCodeAt(i) /\ start' = i
      BY <1>5 DEF FindFirst, FirstFrom
  <2>2. UNCHANGED <<offset, nalus>> /\ emit' = "loop" /\ nalus = <<>> /\ offset = 3
      BY <1>5 DEF FindFirst, EmitInv
  <2>3. TypeOK'
      BY <1>0, <1>1, <2>1, <2>2 DEF TypeOK, RangeType
  <2>4. AtCode'
      BY <1>0, <1>1, <2>1, <2>2 DEF AtCode, StartCodeAt, Byte
  <2>5. EmitInv'
      BY <2>2, <2>4 DEF EmitInv, Tiled
  <2> QED
      BY <2>3, <2>5
<1>6. CASE EmitRest
  <2>1. nalus' = Append(nalus, Range_(NaluStart, Len(data)))
      BY <1>6 DEF EmitRest
  <2>2. NoCodeIn(Range_(NaluStart, Len(data)))
      BY <1>6 DEF EmitRest, NoneFrom, NoCodeIn, Range_
  <2>3. nalus # <<>> => Joined(nalus[Len(nalus)], Range_(NaluStart, Len(data)))
      BY <1>6 DEF EmitRest, EmitInv, Joined, Range_
  <2>4. NaluStart \in 0..Len(data) /\ Len(data) \in NaluStart..Len(data)
      BY <1>0, <1>6 DEF EmitRest
  <2>5. /\ nalus' \in Seq(RangeType) /\ Tiled(nalus')
        /\ nalus' # <<>> /\ nalus'[Len(nalus')] = Range_(NaluStart, Len(data))
      BY <1>2, <2>1, <2>2, <2>3, <2>4
  <2>6. TypeOK'
      BY <1>1, <1>6, <2>5 DEF EmitRest, TypeOK, RangeType
  <2>7. EmitInv'
      BY <1>1, <1>3, <1>6, <2>5 DEF EmitRest, EmitInv, Range_
  <2> QED
      BY <2>6, <2>7
<1>7. CASE EmitNext
  <2>1. PICK i \in NaluStart .. Len(data) - 3 :
           /\ FirstFrom(NaluStart, i)
           /\ nalus' = Append(nalus, Range_(NaluStart, CodeStart(i)))
           /\ start' = CodeStart(i) /\ offset' = CodeLen(i)
      BY <1>7 DEF EmitNext
  <2>2. StartCodeAt(i) /\ emit = "loop" /\ emit' = "loop"
      BY <1>7, <2>1 DEF EmitNext, FirstFrom
  <2>3. AtCode
      BY <2>2 DEF EmitInv
  <2>4. /\ CodeStart(i) \in NaluStart .. i
        /\ CodeStart(i) + CodeLen(i) = i + 3
        /\ CodeLen(i) \in {3, 4}
        /\ CodeLen(i) = 3 => CodeStart(i) = i /\ Byte(i - 1) # 0
        /\ CodeLen(i) = 4 => CodeStart(i) = i - 1 /\ Byte(i - 1) = 0
      BY <2>2, <2>3, NextStart
  <2>5. NoCodeIn(Range_(NaluStart, CodeStart(i)))
    <3>1. \A j \in NaluStart .. CodeStart(i) - 3 : j \in NaluStart .. i - 1
        BY <1>0, <2>4
    <3> QED
        BY <2>1, <3>1 DEF FirstFrom, NoCodeIn, Range_
  <2>6. nalus # <<>> => Joined(nalus[Len(nalus)], Range_(NaluStart, CodeStart(i)))
      BY <2>2 DEF EmitInv, Joined, Range_
  <2>7. NaluStart \in 0..Len(data) /\ CodeStart(i) \in NaluStart..Len(data)
      BY <1>0, <2>4
  <2>8. /\ nalus' \in Seq(RangeType) /\ Tiled(nalus')
        /\ nalus' # <<>> /\ nalus'[Len(nalus')] = Range_(NaluStart, CodeStart(i))
      BY <1>2, <2>1, <2>5, <2>6, <2>7
  <2>9. TypeOK'
      BY <1>0, <1>1, <2>1, <2>2, <2>4, <2>8 DEF TypeOK, RangeType
  <2>10. AtCode'
    <3>1. start' + offset' = i + 3 /\ i + 3 <= Len(data) /\ start' + offset' - 3 = i
        BY <1>0, <2>1, <2>4
    <3>2. StartCodeAt(start' + offset' - 3)
      <4>1. ASSUME NEW j, j = i PROVE StartCodeAt(j)
          BY <2>2, <4>1
      <4> QED
          BY <3>1, <4>1
    <3>3. offset' = 4 => Byte(start') = 0
        BY <2>1, <2>4
    <3> QED
        BY <1>1, <3>1, <3>2, <3>3 DEF AtCode, StartCodeAt, Byte
  <2>11. Joined(nalus'[Len(nalus')], Range_(i + 3, i + 3))
    <3>1. CASE CodeLen(i) = 3
        BY <2>2, <2>4, <2>8, <3>1 DEF Joined, Range_
    <3>2. CASE CodeLen(i) = 4
      <4>1. (CodeStart(i) + 1) = i /\ CodeStart(i) + 4 = i + 3
          BY <1>0, <2>4, <3>2
      <4> QED
          BY <2>2, <2>4, <2>8, <3>2, <4>1 DEF Joined, Range_
    <3> QED
        BY <2>4, <3>1, <3>2
  <2>12. NaluStart' = i + 3
      BY <2>1, <2>4 DEF NaluStart
  <2>13. Joined(nalus[Len(nalus)], Range_(NaluStart, NaluStart))'
      BY <1>1, <2>11, <2>12 DEF Joined, Range_, StartCodeAt, Byte
  <2>14. EmitInv'
      BY <1>3, <2>2, <2>8, <2>10, <2>13 DEF EmitInv
  <2> QED
      BY <2>9, <2>14
<1>8. CASE EmitBeyond
  <2>1. UNCHANGED <<data, start, offset, nalus>> /\ emit = "loop" /\ emit' = "overrun"
      BY <1>8 DEF EmitBeyond
  <2>2. AtCode /\ Tiled(nalus) /\ (nalus # <<>> => Joined(nalus[Len(nalus)], new))
      BY <2>1 DEF EmitInv
  <2>3. StartCodeAt(Len(data) - 3)
    <3>1. start + offset = Len(data)
        BY <1>0, <1>8, <2>2 DEF EmitBeyond, AtCode
    <3>2. start + offset - 3 = Len(data) - 3
        BY <1>0, <3>1
    <3>3. StartCodeAt(start + offset - 3)
        BY <2>2 DEF AtCode
    <3> QED
        BY <3>2, <3>3, Zenon
  <2>4. TypeOK'
      BY <1>1, <2>1 DEF TypeOK, RangeType
  <2>5. AtCode' /\ StartCodeAt(Len(data) - 3)'
      BY <2>1, <2>2, <2>3 DEF AtCode, StartCodeAt, Byte
  <2>6. (nalus # <<>> => Joined(nalus[Len(nalus)], new))' /\ Tiled(nalus)'
    <3>1. NaluStart' = NaluStart
        BY <2>1 DEF NaluStart
    <3> QED
        BY <1>3, <2>1, <2>2, <3>1 DEF Joined, Range_, StartCodeAt, Byte
  <2>7. EmitInv'
      BY <2>1, <2>5, <2>6 DEF EmitInv
  <2> QED
      BY <2>4, <2>7
<1> QED
    BY <1>4, <1>5, <1>6, <1>7, <1>8 DEF EmitStep

-----------------------------------------------------------------------------
(* The first NAL unit of a frame that begins with a start code.            *)

\* The start code such a frame begins with is the first that is found.
LEMMA FirstCode ==
    ASSUME Len(data) \in Nat, BeginsWithCode
    PROVE  /\ ~StartCodeAt(0) => StartCodeAt(1)
           /\ LongCodeAt(0) => StartCodeAt(1)
<1>1. LongCodeAt(0) => StartCodeAt(0 + 1)
    BY LongCode
<1>2. 0 + 1 = 1
    OBVIOUS
<1>3. LongCodeAt(0) => StartCodeAt(1)
    BY <1>1, <1>2, Zenon
<1> QED
    BY <1>3 DEF BeginsWithCode, CodeAt

\* Appending leaves the first NAL unit the first.
LEMMA FirstStays ==
    ASSUME NEW R, NEW ranges \in Seq(R), NEW range \in R
    PROVE  /\ ranges # <<>> => Append(ranges, range)[1] = ranges[1]
           /\ ranges = <<>> => Append(ranges, range)[1] = range
<1> QED
    OBVIOUS

\* A step of EmitNalus finds the first NAL unit behind that start code.
LEMMA EmitFirst ==
    ASSUME IndInv, EmitStep
    PROVE  FirstInv'
<1>0. /\ Len(data) \in Nat /\ start \in Nat /\ offset \in 3..4
      /\ NaluStart = start + offset
    BY DEF IndInv, TypeOK, NaluStart
<1>1. data' = data
    BY DEF EmitStep, EmitWhole, FindFirst, EmitRest, EmitNext, EmitBeyond
<1>2. BeginsWithCode' = BeginsWithCode /\ StartCodeAt(0)' = StartCodeAt(0)
    BY <1>1 DEF BeginsWithCode, CodeAt, LongCodeAt, ZerosAt, StartCodeAt, Byte
<1> SUFFICES ASSUME BeginsWithCode
             PROVE  LET first == IF StartCodeAt(0) THEN 3 ELSE 4
                    IN  /\ emit' \in {"loop", "overrun"} /\ nalus' = <<>> => NaluStart' = first
                        /\ nalus' # <<>> => nalus'[1].from = first
    BY <1>2 DEF FirstInv
<1> DEFINE first == IF StartCodeAt(0) THEN 3 ELSE 4
<1>3. /\ emit \in {"loop", "overrun"} /\ nalus = <<>> => NaluStart = first
      /\ nalus # <<>> => nalus[1].from = first
    BY DEF IndInv, FirstInv
\* A NAL unit behind the start code the loop is at.
<1>4. ASSUME NEW to \in NaluStart..Len(data), emit = "loop",
             nalus' = Append(nalus, Range_(NaluStart, to))
      PROVE  nalus' # <<>> /\ nalus'[1].from = first
  <2>1. nalus \in Seq(RangeType) /\ Range_(NaluStart, to) \in RangeType
      BY <1>0 DEF IndInv, TypeOK, Range_, RangeType
  <2>2. nalus' # <<>>
      BY <1>4, <2>1
  <2>3. Range_(NaluStart, to).from = NaluStart
      BY DEF Range_
  <2> HIDE DEF first
  <2> QED
      BY <1>3, <1>4, <2>1, <2>2, <2>3, FirstStays
<1>5. CASE EmitWhole
  <2>1. StartCodeAt(0) \/ StartCodeAt(1)
      BY <1>0, FirstCode
  <2>2. ASSUME NEW i \in 0..1 PROVE ~StartCodeAt(i)
      BY <1>0, <1>5, <2>2 DEF EmitWhole, NoneFrom, StartCodeAt
  <2> QED
      BY <2>1, <2>2
<1>6. CASE FindFirst
  <2>1. PICK i \in 0 .. Len(data) - 3 : FirstFrom(0, i) /\ start' = i
      BY <1>6 DEF FindFirst
  <2>2. UNCHANGED <<offset, nalus>> /\ nalus = <<>> /\ offset = 3
      BY <1>6 DEF FindFirst, IndInv, EmitInv
  <2>3. ~StartCodeAt(0) => StartCodeAt(1)
      BY <1>0, FirstCode
  <2>4. StartCodeAt(i) /\ \A j \in 0 .. i - 1 : ~StartCodeAt(j)
      BY <2>1 DEF FirstFrom
  <2>5. i + 3 = first
    <3>1. CASE StartCodeAt(0)
      <4>1. i = 0
          BY <2>4, <3>1
      <4> QED
          BY <3>1, <4>1
    <3>2. CASE ~StartCodeAt(0) /\ StartCodeAt(1)
      <4>1. i # 0 /\ ~(i > 1)
          BY <2>4, <3>2
      <4> QED
          BY <3>2, <4>1
    <3> QED
        BY <2>3, <3>1, <3>2
  <2>6. NaluStart' = first
      BY <2>1, <2>2, <2>5 DEF NaluStart
  <2> QED
      BY <2>2, <2>6
<1>7. CASE EmitRest
  <2>1. Len(data) \in NaluStart..Len(data) /\ emit = "loop" /\ emit' = "done"
        /\ nalus' = Append(nalus, Range_(NaluStart, Len(data)))
      BY <1>0, <1>7 DEF EmitRest
  <2> QED
      BY <1>4, <2>1
<1>8. CASE EmitNext
  <2>1. PICK i \in NaluStart .. Len(data) - 3 :
           /\ FirstFrom(NaluStart, i)
           /\ nalus' = Append(nalus, Range_(NaluStart, CodeStart(i)))
      BY <1>8 DEF EmitNext
  <2>2. StartCodeAt(i) /\ emit = "loop" /\ AtCode /\ TypeOK
      BY <1>8, <2>1 DEF EmitNext, FirstFrom, IndInv, EmitInv
  <2>3. CodeStart(i) \in NaluStart .. i
      BY <2>2, NextStart
  <2>4. CodeStart(i) \in NaluStart .. Len(data)
      BY <1>0, <2>3
  <2> QED
      BY <1>4, <2>1, <2>2, <2>4
<1>9. CASE EmitBeyond
    BY <1>3, <1>9 DEF EmitBeyond, NaluStart
<1> QED
    BY <1>5, <1>6, <1>7, <1>8, <1>9 DEF EmitStep

-----------------------------------------------------------------------------
(* The scan.                                                               *)

\* The NAL units EmitNalus cut off so far, and whether the frame begins with a start
\* code, are the same after a step of the scan.
LEMMA SameFrame ==
    ASSUME data' = data
    PROVE  /\ BeginsWithCode' = BeginsWithCode
           /\ \A i : CodeAt(i)' = CodeAt(i)
           /\ \A i : ZerosAt(i)' = ZerosAt(i)
<1> QED
    BY DEF BeginsWithCode, CodeAt, LongCodeAt, ZerosAt, StartCodeAt, Byte

\* When EmitNalus is done, the scan is at the start of the frame.
LEMMA EmitBeforeScan ==
    ASSUME IndInv, EmitStep, UNCHANGED scanVars, TypeOK', EmitInv', FirstInv'
    PROVE  ScanInv'
<1>0. data' = data
    BY DEF EmitStep, EmitWhole, FindFirst, EmitRest, EmitNext, EmitBeyond
<1>1. emit \in {"begin", "loop"}
    BY DEF EmitStep, EmitWhole, FindFirst, EmitRest, EmitNext, EmitBeyond
<1>2. scanned' = 0 /\ units' = <<>> /\ scan' = "loop"
    BY <1>1 DEF IndInv, ScanInv, scanVars
<1>3. ASSUME BeginsWithCode, emit' = "done" PROVE ScannedTo(0)' /\ 0 \in 0..Len(nalus')
  <2>1. nalus' # <<>> /\ nalus' \in Seq(RangeType')
      BY <1>3 DEF EmitInv, TypeOK
  <2>2. Len(nalus') \in Nat \ {0}
      BY <2>1
  <2>3. FilledTo(nalus')[0] = <<>>
      BY <2>1, FilledSteps
  <2>4. Len(data) \in Nat
      BY DEF IndInv, TypeOK
  <2>5. CodeAt(0) /\ 0 < Len(data)
      BY <1>3, <2>4 DEF BeginsWithCode, CodeAt, StartCodeAt, LongCodeAt
  <2>6. FoundStart' = IF StartCodeAt(0) THEN 3 ELSE 4
    <3>1. StartCodeAt(scanned)' = StartCodeAt(0) /\ LongCodeAt(scanned)' = LongCodeAt(0)
        BY <1>0, <1>2 DEF StartCodeAt, LongCodeAt, ZerosAt, Byte
    <3>2. LongCodeAt(0) => ~StartCodeAt(0)
      <4>1. LongCodeAt(0) => StartCodeAt(0 + 1)
          BY <2>4, LongCode
      <4> QED
          BY <4>1, CodesApart
    <3> QED
        BY <1>2, <2>5, <3>1, <3>2 DEF FoundStart, CodeAt
  <2>7. nalus'[1].from = IF StartCodeAt(0) THEN 3 ELSE 4
    <3>1. StartCodeAt(0)' = StartCodeAt(0) /\ BeginsWithCode'
        BY <1>0, <1>3, SameFrame DEF StartCodeAt, Byte
    <3> QED
        BY <2>1, <3>1 DEF FirstInv
  <2>8. CodeAt(scanned)' /\ scanned' < Len(data')
      BY <1>0, <1>2, <2>5 DEF CodeAt, StartCodeAt, LongCodeAt, ZerosAt, Byte
  <2> QED
      BY <1>2, <2>2, <2>3, <2>6, <2>7, <2>8 DEF ScannedTo
<1>4. BeginsWithCode' = BeginsWithCode
    BY <1>0, SameFrame
<1>5. BeginsWithCode' /\ emit' = "done" => (\E k \in 0..Len(nalus) : ScannedTo(k))'
    BY <1>3, <1>4
<1> QED
    BY <1>2, <1>5 DEF ScanInv

\* What the scan finds next is where the next NAL unit ends.
LEMMA NextCode ==
    ASSUME IndInv, emit = "done", NEW k \in 0 .. Len(nalus) - 1, CodeAt(scanned),
           FoundStart = nalus[k + 1].from
    PROVE  LET to == nalus[k + 1].to
           IN  /\ to \in 0..Len(data) /\ SearchFrom <= FoundStart /\ FoundStart <= to
               /\ \A j \in SearchFrom .. Len(data) - 3 : j < to => ~CodeAt(j)
               /\ k + 1 < Len(nalus) => CodeAt(to) /\ to <= Len(data) - 3
<1> DEFINE nalu == nalus[k + 1]
           to == nalu.to
           next == nalus[k + 2]
<1>0. /\ Len(data) \in Nat /\ scanned \in Nat /\ Len(nalus) \in Nat
      /\ nalus \in Seq(RangeType)
    BY DEF IndInv, TypeOK
<1>1. k + 1 \in 1..Len(nalus) /\ nalu \in RangeType
    BY <1>0
<1>2. nalu.from <= to /\ NoCodeIn(nalu) /\ (k + 1 < Len(nalus) => Joined(nalu, nalus[(k + 1) + 1]))
    BY <1>1 DEF IndInv, EmitInv, Tiled
<1>3. to \in 0..Len(data) /\ nalu.from \in 0..Len(data) /\ FoundStart = nalu.from
    BY <1>1 DEF RangeType
<1>4. StartCodeAt(FoundStart - 3) /\ SearchFrom \in FoundStart - 1 .. FoundStart
  <2>1. CASE StartCodeAt(scanned)
    <3>1. FoundStart = scanned + 3
        BY <1>0, <2>1, FoundStartIs
    <3>2. FoundStart - 3 = scanned
        BY <1>0, <3>1
    <3> QED
        BY <1>0, <2>1, <3>1, <3>2 DEF SearchFrom
  <2>2. CASE LongCodeAt(scanned)
    <3>1. FoundStart = scanned + 4 /\ StartCodeAt(scanned + 1)
        BY <1>0, <2>2, FoundStartIs, LongCode
    <3>2. FoundStart - 3 = scanned + 1
        BY <1>0, <3>1
    <3> QED
        BY <1>0, <3>1, <3>2 DEF SearchFrom
  <2> QED
      BY <2>1, <2>2 DEF CodeAt
<1> HIDE DEF nalu
\* A start code behind that of the NAL unit is not before its last two bytes.
<1>5. ASSUME NEW m \in Int, StartCodeAt(m), m >= SearchFrom PROVE m > to - 3
  <2>1. m > FoundStart - 3
      BY <1>3, <1>4, <1>5
  <2>2. m >= (FoundStart - 3) + 3
      BY <1>3, <1>4, <1>5, <2>1, CodesApart
  <2>3. m >= nalu.from
      BY <1>3, <2>2
  <2> SUFFICES ASSUME m <= to - 3 PROVE FALSE
      BY <1>3
  <2>4. m \in nalu.from .. to - 3
      BY <1>3, <2>3
  <2> QED
      BY <1>2, <1>5, <2>4 DEF NoCodeIn
<1>6. ASSUME NEW j \in SearchFrom .. Len(data) - 3, CodeAt(j)
      PROVE  \/ StartCodeAt(j) /\ j > to - 3
             \/ StartCodeAt(j + 1) /\ Byte(j) = 0 /\ j + 1 > to - 3 /\ j + 4 <= Len(data)
  <2>0. j \in Nat /\ j >= SearchFrom
      BY <1>0, <1>6 DEF SearchFrom
  <2>1. CASE StartCodeAt(j)
      BY <1>5, <2>0, <2>1
  <2>2. CASE LongCodeAt(j)
    <3>1. StartCodeAt(j + 1) /\ Byte(j) = 0
        BY <1>0, <2>0, <2>2, LongCode
    <3>2. j + 1 \in Int /\ j + 1 >= SearchFrom
        BY <1>0, <2>0 DEF SearchFrom
    <3> QED
        BY <1>5, <2>2, <3>1, <3>2 DEF LongCodeAt
  <2> QED
      BY <1>6, <2>1, <2>2 DEF CodeAt
<1>7. SearchFrom <= FoundStart /\ FoundStart <= to
    BY <1>0, <1>2, <1>3, <1>4
<1>8. CASE k + 1 = Len(nalus)
  <2>1. to = Len(data)
      BY <1>8 DEF IndInv, EmitInv, nalu
  <2>2. ASSUME NEW j \in SearchFrom .. Len(data) - 3, CodeAt(j) PROVE FALSE
    <3>1. j \in Int /\ j <= Len(data) - 3
        BY <1>0 DEF SearchFrom
    <3>2. CASE StartCodeAt(j) /\ j > to - 3
        BY <1>0, <2>1, <3>1, <3>2
    <3>3. CASE j + 1 > to - 3 /\ j + 4 <= Len(data)
        BY <1>0, <2>1, <3>1, <3>3
    <3> QED
        BY <1>6, <2>2, <3>2, <3>3
  <2> QED
      BY <1>0, <1>3, <1>7, <1>8, <2>2 DEF nalu
<1>9. CASE k + 1 < Len(nalus)
  <2>1. Joined(nalu, next)
    <3>1. (k + 1) + 1 = k + 2
        BY <1>0
    <3> QED
        BY <1>2, <1>9, <3>1
\* Either way nothing but that start code is around the end of the NAL unit.
  <2>2. CASE next.from = to + 3 /\ StartCodeAt(to) /\ Byte(to - 1) # 0
    <3>1. CodeAt(to) /\ to <= Len(data) - 3
        BY <1>0, <1>3, <2>2 DEF CodeAt, StartCodeAt
    <3>2. ASSUME NEW m \in Int, StartCodeAt(m), m < to PROVE m <= to - 3
        BY <1>3, <2>2, <3>2, CodesApart
    <3>3. ASSUME NEW j \in SearchFrom .. Len(data) - 3, CodeAt(j), j < to PROVE FALSE
      <4>1. j \in Int
          BY <1>0 DEF SearchFrom
      <4>2. CASE StartCodeAt(j) /\ j > to - 3
          BY <1>3, <3>2, <3>3, <4>1, <4>2
      <4>3. CASE StartCodeAt(j + 1) /\ Byte(j) = 0 /\ j + 1 > to - 3
        <5>1. j # to - 1
            BY <2>2, <4>3
        <5>2. j + 1 < to
            BY <1>3, <3>3, <4>1, <5>1
        <5> QED
            BY <1>3, <3>2, <4>1, <4>3, <5>2
      <4> QED
          BY <1>6, <3>3, <4>2, <4>3
    <3> QED
        BY <1>3, <1>7, <3>1, <3>3 DEF nalu
  <2>3. CASE next.from = to + 4 /\ StartCodeAt(to + 1) /\ Byte(to) = 0
    <3>1. CodeAt(to) /\ to <= Len(data) - 3
      <4>1. LongCodeAt(to)
          BY <1>0, <1>3, <2>3, LongCode
      <4> QED
          BY <1>0, <1>3, <4>1 DEF CodeAt, LongCodeAt
    <3>2. ASSUME NEW m \in Int, StartCodeAt(m), m <= to PROVE m <= to - 3
      <4>1. to + 1 \in Int /\ m < to + 1
          BY <1>3, <3>2
      <4>2. to + 1 >= m + 3
          BY <2>3, <3>2, <4>1, CodesApart
      <4>3. m # to - 2
        <5> SUFFICES ASSUME m = to - 2 PROVE FALSE
            OBVIOUS
        <5>1. m + 2 = to /\ Byte(m + 2) = 1
            BY <1>3, <3>2 DEF StartCodeAt
        <5> QED
            BY <2>3, <5>1
      <4> QED
          BY <1>3, <4>2, <4>3
    <3>3. ASSUME NEW j \in SearchFrom .. Len(data) - 3, CodeAt(j), j < to PROVE FALSE
      <4>1. j \in Int
          BY <1>0 DEF SearchFrom
      <4>2. CASE StartCodeAt(j) /\ j > to - 3
          BY <1>3, <3>2, <3>3, <4>1, <4>2
      <4>3. CASE StartCodeAt(j + 1) /\ j + 1 > to - 3
          BY <1>3, <3>2, <3>3, <4>1, <4>3
      <4> QED
          BY <1>6, <3>3, <4>2, <4>3
    <3> QED
        BY <1>3, <1>7, <3>1, <3>3 DEF nalu
  <2> QED
      BY <2>1, <2>2, <2>3 DEF Joined
<1> QED
    BY <1>0, <1>1, <1>8, <1>9

\* So the scan goes on to where the NAL unit ends.
LEMMA FoundNext ==
    ASSUME IndInv, emit = "done", NEW k \in 0 .. Len(nalus) - 1, CodeAt(scanned),
           FoundStart = nalus[k + 1].from, ScanNext
    PROVE  Found(nalus[k + 1].to)
<1> DEFINE to == nalus[k + 1].to
<1>0. Len(data) \in Nat /\ scanned \in Nat /\ Len(nalus) \in Nat /\ SearchFrom \in Nat
    BY DEF IndInv, TypeOK, SearchFrom
<1>1. /\ to \in 0..Len(data) /\ SearchFrom <= to
      /\ \A j \in SearchFrom .. Len(data) - 3 : j < to => ~CodeAt(j)
      /\ k + 1 < Len(nalus) => CodeAt(to) /\ to <= Len(data) - 3
  <2>1. SearchFrom <= FoundStart /\ FoundStart <= to /\ FoundStart \in Nat
      BY NextCode, FoundStartType DEF IndInv
  <2>2. to \in 0..Len(data)
      BY NextCode
  <2>3. SearchFrom <= to
      BY <1>0, <2>1, <2>2
  <2> QED
      BY <2>2, <2>3, NextCode
<1>2. k + 1 = Len(nalus) => to = Len(data)
    BY DEF IndInv, EmitInv
<1> HIDE DEF to
<1>3. CASE k + 1 = Len(nalus)
  <2>1. NoNext
      BY <1>0, <1>1, <1>2, <1>3 DEF NoNext
  <2>2. Found(Len(data))
      BY <2>1 DEF ScanNext, NoNext, IsNext
  <2> QED
      BY <1>2, <1>3, <2>2 DEF to
<1>4. CASE k + 1 < Len(nalus)
  <2>1. to \in SearchFrom .. Len(data) - 3 /\ CodeAt(to)
      BY <1>0, <1>1, <1>4
  <2>2. ~NoNext
      BY <2>1 DEF NoNext
  <2>3. PICK i \in SearchFrom .. Len(data) - 3 : IsNext(i) /\ Found(i)
      BY <2>2 DEF ScanNext
  <2>4. ~(i < to)
      BY <1>1, <2>3 DEF IsNext
  <2>5. ~(i > to)
    <3> SUFFICES ASSUME i > to PROVE FALSE
        OBVIOUS
    <3>1. to \in SearchFrom .. i - 1
        BY <1>0, <2>1
    <3> QED
        BY <2>1, <2>3, <3>1 DEF IsNext
  <2>6. i = to
      BY <1>0, <1>1, <2>4, <2>5
  <2> QED
      BY <2>3, <2>6 DEF to
<1> QED
    BY <1>0, <1>3, <1>4

\* One NAL unit further.
LEMMA ScannedNext ==
    ASSUME IndInv, emit = "done", BeginsWithCode, NEW k \in 0..Len(nalus), ScannedTo(k),
           ScanNext
    PROVE  k + 1 \in 0..Len(nalus) /\ ScannedTo(k + 1)'
<1> DEFINE to == nalus[k + 1].to
<1>0. /\ Len(data) \in Nat /\ scanned \in Nat /\ Len(nalus) \in Nat
      /\ nalus \in Seq(RangeType)
    BY DEF IndInv, TypeOK
<1>1. k \in 0 .. Len(nalus) - 1 /\ k + 1 \in 1..Len(nalus)
  <2>1. scanned < Len(data)
      BY DEF ScanNext
  <2> QED
      BY <1>0, <2>1 DEF ScannedTo
<1>2. CodeAt(scanned) /\ FoundStart = nalus[k + 1].from
    BY <1>0, <1>1 DEF ScannedTo
<1>3. /\ to \in 0..Len(data)
      /\ k + 1 < Len(nalus) => CodeAt(to) /\ to <= Len(data) - 3
    BY <1>1, <1>2, NextCode
<1>4. Found(to)
    BY <1>1, <1>2, FoundNext
<1>5. UNCHANGED <<data, nalus>> /\ scanned' = to
    BY <1>4 DEF Found, emitVars
<1>6. units' = FilledTo(nalus)[k + 1]
  <2>1. Range_(FoundStart, to) = nalus[k + 1]
    <3>1. nalus[k + 1] \in RangeType
        BY <1>0, <1>1
    <3> QED
        BY <1>2, <3>1 DEF Range_, RangeType
  <2>2. units' = WithFilled(units, nalus[k + 1])
      BY <1>2, <1>4, <2>1 DEF Found, WithFilled
  <2>3. (k + 1) - 1 = k
      BY <1>0
  <2>4. units = FilledTo(nalus)[k]
      BY DEF ScannedTo
  <2> QED
      BY <1>0, <1>1, <2>2, <2>3, <2>4, FilledSteps
<1>7. k + 1 = Len(nalus) => to = Len(data)
    BY DEF IndInv, EmitInv
<1>8. ASSUME k + 1 < Len(nalus)
      PROVE  scanned' < Len(data') /\ CodeAt(scanned)' /\ FoundStart' = nalus[k + 2].from
  <2>1. to < Len(data) /\ CodeAt(to) /\ to \in Nat
      BY <1>0, <1>3, <1>8
  <2>2. CodeAt(scanned)'
      BY <1>5, <2>1 DEF CodeAt, StartCodeAt, LongCodeAt, ZerosAt, Byte
  <2>3. Joined(nalus[k + 1], nalus[k + 2])
    <3>1. (k + 1) + 1 = k + 2
        BY <1>0
    <3> QED
        BY <1>1, <1>8, <3>1 DEF IndInv, EmitInv, Tiled
  <2>5. LongCodeAt(to) => ~StartCodeAt(to)
    <3>1. LongCodeAt(to) => StartCodeAt(to + 1)
        BY <1>0, <2>1, LongCode
    <3> QED
        BY <2>1, <3>1, CodesApart
  <2>6. /\ StartCodeAt(scanned)' <=> StartCodeAt(to)
        /\ LongCodeAt(scanned)' <=> LongCodeAt(to)
      BY <1>5 DEF StartCodeAt, LongCodeAt, ZerosAt, Byte
  <2>7. ASSUME nalus[k + 2].from = to + 3, StartCodeAt(to)
        PROVE  FoundStart' = nalus[k + 2].from
      BY <1>5, <2>5, <2>6, <2>7 DEF FoundStart
  <2>8. ASSUME nalus[k + 2].from = to + 4, StartCodeAt(to + 1), Byte(to) = 0
        PROVE  FoundStart' = nalus[k + 2].from
    <3>1. LongCodeAt(to)
        BY <1>0, <2>1, <2>8, LongCode
    <3> QED
        BY <1>5, <2>5, <2>6, <2>8, <3>1 DEF FoundStart
  <2>9. FoundStart' = nalus[k + 2].from
      BY <2>3, <2>7, <2>8 DEF Joined
  <2> QED
      BY <1>5, <2>1, <2>2, <2>9
<1>9. ScannedTo(k + 1)'
  <2>1. (k + 1) + 1 = k + 2
      BY <1>0
  <2> QED
      BY <1>5, <1>6, <1>7, <1>8, <2>1 DEF ScannedTo
<1> QED
    BY <1>1, <1>9

\* A step of the scan stays with the NAL units emitted, and reads beyond a frame that
\* begins with a start code only if three zeros end it.
LEMMA ScanFollows ==
    ASSUME IndInv, emit \in {"done", "overrun"}, ScanStep
    PROVE  ScanInv'
<1>1. data' = data /\ nalus' = nalus /\ emit' = emit
    BY DEF ScanStep, ScanBeyond, ScanNext, ScanEnd, Found, emitVars
<1>2. (emit' \in {"begin", "loop"}) = FALSE
    BY <1>1
<1> SUFFICES ASSUME BeginsWithCode
             PROVE  /\ emit = "done" => \E k \in 0..Len(nalus) : ScannedTo(k)'
                    /\ scan' = "done" => scanned' >= Len(data)
                    /\ scan' = "overrun" => ZerosAt(Len(data) - 3)
  <2>1. BeginsWithCode' = BeginsWithCode
      BY <1>1, SameFrame
  <2>2. ZerosAt(Len(data) - 3)' = ZerosAt(Len(data) - 3)
      BY <1>1 DEF ZerosAt, Byte
  <2> QED
      BY <1>1, <1>2, <2>1, <2>2 DEF ScanInv
<1>3. /\ emit = "done" => \E k \in 0..Len(nalus) : ScannedTo(k)
      /\ scan = "done" => scanned >= Len(data)
      /\ scan = "overrun" => ZerosAt(Len(data) - 3)
    BY DEF IndInv, ScanInv
<1>4. ASSUME scanned' = scanned, units' = units, NEW k, ScannedTo(k) PROVE ScannedTo(k)'
    BY <1>1, <1>4 DEF ScannedTo, FoundStart, CodeAt, StartCodeAt, LongCodeAt, ZerosAt, Byte
<1>5. CASE ScanBeyond
  <2>1. scanned' = scanned /\ units' = units /\ scan' = "overrun"
      BY <1>5 DEF ScanBeyond
  <2>2. ZerosAt(Len(data) - 3)
    <3>1. Len(data) \in Nat
        BY DEF IndInv, TypeOK
    <3>2. Len(data) >= 3
        BY <3>1 DEF BeginsWithCode, CodeAt, StartCodeAt, LongCodeAt
    <3>3. Len(data) # 1 /\ data # <<0, 0>>
      <4>1. Len(<<0, 0>>) = 2
          OBVIOUS
      <4>2. \A n \in Nat : n >= 3 => n # 1 /\ n # 2
          OBVIOUS
      <4>3. Len(data) # 1 /\ Len(data) # 2
          BY ONLY <3>1, <3>2, <4>2, Zenon
      <4> QED
          BY ONLY <4>1, <4>3, Zenon
    <3> QED
        BY <1>5, <3>3 DEF ScanBeyond, ReadsBeyond
  <2> QED
      BY <1>3, <1>4, <2>1, <2>2
<1>6. CASE ScanEnd
  <2>1. scanned' = scanned /\ units' = units /\ scan' = "done" /\ scanned >= Len(data)
      BY <1>6 DEF ScanEnd
  <2> QED
      BY <1>3, <1>4, <2>1
<1>7. CASE ScanNext
  <2>1. scan = "loop" /\ scan' = "loop"
      BY <1>7 DEF ScanNext, Found
  <2>2. ASSUME emit = "done" PROVE \E k \in 0..Len(nalus) : ScannedTo(k)'
    <3>1. PICK k \in 0..Len(nalus) : ScannedTo(k)
        BY <1>3, <2>2
    <3>2. k + 1 \in 0..Len(nalus) /\ ScannedTo(k + 1)'
        BY <1>7, <2>2, <3>1, ScannedNext
    <3> QED
        BY <3>2
  <2> QED
      BY <2>1, <2>2
<1> QED
    BY <1>5, <1>6, <1>7 DEF ScanStep

\* A step that changes nothing.
LEMMA Stutters ==
    ASSUME IndInv, UNCHANGED vars
    PROVE  IndInv'
<1>1. UNCHANGED <<data, emitVars>>
    BY DEF vars
<1>2. EmitInv'
    BY <1>1, EmitInvStutters DEF IndInv
<1>3. TypeOK'
    BY DEF IndInv, TypeOK, RangeType, vars, emitVars, scanVars
<1>4. FirstInv'
    BY DEF IndInv, FirstInv, BeginsWithCode, CodeAt, LongCodeAt, ZerosAt, StartCodeAt, Byte,
           NaluStart, vars, emitVars
<1>5. ScanInv'
  <2>1. UNCHANGED <<data, nalus, emit, scanned, units, scan>>
      BY DEF vars, emitVars, scanVars
  <2>2. ASSUME NEW k PROVE ScannedTo(k)' = ScannedTo(k)
      BY <2>1 DEF ScannedTo, FoundStart, CodeAt, StartCodeAt, LongCodeAt, ZerosAt, Byte
  <2>3. BeginsWithCode' = BeginsWithCode /\ ZerosAt(Len(data) - 3)' = ZerosAt(Len(data) - 3)
      BY <2>1 DEF BeginsWithCode, CodeAt, LongCodeAt, ZerosAt, StartCodeAt, Byte
  <2> QED
      BY <2>1, <2>2, <2>3 DEF IndInv, ScanInv
<1> QED
    BY <1>2, <1>3, <1>4, <1>5 DEF IndInv

-----------------------------------------------------------------------------
(***************************************************************************)
(* For every frame: EmitNalus loses nothing behind the first start code,   *)
(* cuts at every start code, and reads beyond the frame only if a start    *)
(* code ends it.                                                           *)
(***************************************************************************)
THEOREM Invariant == Spec => []IndInv
<1>1. IndInv /\ [Next]_vars => IndInv'
  <2> SUFFICES ASSUME IndInv, [Next]_vars PROVE IndInv'
      OBVIOUS
  <2>1. CASE EmitStep /\ UNCHANGED scanVars
    <3>1. TypeOK' /\ EmitInv'
        BY <2>1, EmitCuts
    <3>2. FirstInv'
        BY <2>1, EmitFirst
    <3>3. ScanInv'
        BY <2>1, <3>1, <3>2, EmitBeforeScan
    <3> QED
        BY <3>1, <3>2, <3>3 DEF IndInv
  <2>2. CASE emit \in {"done", "overrun"} /\ ScanStep
    <3>1. TypeOK' /\ EmitInv' /\ FirstInv'
        BY <2>2, ScanKeepsCut
    <3>2. ScanInv'
        BY <2>2, ScanFollows
    <3> QED
        BY <3>1, <3>2 DEF IndInv
  <2>3. CASE UNCHANGED vars
      BY <2>3, Stutters
  <2> QED
      BY <2>1, <2>2, <2>3 DEF Next
<1> QED
    BY Initially, <1>1, PTL DEF Spec

\* In particular, a frame that does not end with a start code is never read beyond.
THEOREM InBounds == Spec => [](emit = "overrun" => StartCodeAt(Len(data) - 3))
<1>1. IndInv => (emit = "overrun" => StartCodeAt(Len(data) - 3))
    BY DEF IndInv, EmitInv
<1> QED
    BY <1>1, Invariant, PTL

\* Frames that begin with a start code are cut alike for H.264 and H.265, and the scan
\* reads beyond such a frame only if three zeros end it.
THEOREM SplitAlike == Spec => []SplitsAgree
<1>1. IndInv => SplitsAgree
  <2> SUFFICES ASSUME IndInv, BeginsWithCode
               PROVE  /\ scan = "overrun" => ZerosAt(Len(data) - 3)
                      /\ scan = "done" /\ emit = "done" => units = Filled(nalus)
      BY DEF SplitsAgree
  <2>1. ScanInv /\ Len(nalus) \in Nat /\ Len(data) \in Nat /\ scanned \in Nat
      BY DEF IndInv, TypeOK
  <2>2. ASSUME scan = "done", emit = "done" PROVE units = Filled(nalus)
    <3>1. PICK k \in 0..Len(nalus) : ScannedTo(k)
        BY <2>1, <2>2 DEF ScanInv
    <3>2. ~(scanned < Len(data))
        BY <2>1, <2>2 DEF ScanInv
    <3>3. k = Len(nalus)
        BY <2>1, <3>1, <3>2 DEF ScannedTo
    <3> QED
        BY <3>1, <3>3 DEF ScannedTo, Filled
  <2> QED
      BY <2>1, <2>2 DEF ScanInv
<1> QED
    BY <1>1, Invariant, PTL
=============================================================================
