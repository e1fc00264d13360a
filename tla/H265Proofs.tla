----------------------------- MODULE H265Proofs -----------------------------
(***************************************************************************)
(* Proofs about H265Session, whatever the transport loses, for every set   *)
(* of MTUs and of frames, with and without decoding order numbers.         *)
(***************************************************************************)
EXTENDS H265Session, SequenceTheorems, WellFoundedInduction, TLAPS

-----------------------------------------------------------------------------
(* Recursion over the natural numbers.                                     *)

LEMMA LeastElement ==
    ASSUME NEW T, T \subseteq Nat, T # {}
    PROVE  \E x \in T : \A y \in T : x <= y
<1> DEFINE R == OpToRel(<, Nat)
<1>1. IsWellFoundedOn(R, Nat)
  BY NatLessThanWellFounded
<1>2. \E x \in T : \A y \in T : ~(<<y, x>> \in R)
  <2> HIDE DEF R
  <2> QED
    BY <1>1, WFMin
<1>3. \A x, y \in T : ~(<<y, x>> \in R) => x <= y
  BY DEF OpToRel
<1> QED
  BY <1>2, <1>3

\* Induction, over a set in place of a predicate.
LEMMA SetInduction ==
    ASSUME NEW S, 0 \in S, \A n \in Nat : n \in S => n + 1 \in S
    PROVE  Nat \subseteq S
<1> DEFINE T == Nat \ S
<1> SUFFICES ASSUME T # {} PROVE FALSE
  OBVIOUS
<1>1. PICK x \in T : \A y \in T : x <= y
  BY LeastElement
<1>2. x # 0 /\ x - 1 \in Nat
  BY <1>1
<1>3. x - 1 \in S
  BY <1>1, <1>2
<1> QED
  BY <1>1, <1>2, <1>3

\* g starts with base and goes on by step, up to n.
Iterates(g, n, S, base, step) ==
    /\ g \in [0..n -> S]
    /\ g[0] = base
    /\ \A i \in 1..n : g[i] = step[i][g[i - 1]]

\* What is computed one step after the other is there.
LEMMA IterationExists ==
    ASSUME NEW S, NEW base \in S, NEW m \in Nat, NEW step \in [1..m -> [S -> S]]
    PROVE  \E g : Iterates(g, m, S, base, step)
<1> DEFINE D == {n \in Nat : n <= m => \E g : Iterates(g, n, S, base, step)}
<1>1. 0 \in D
  <2> DEFINE g == [i \in 0..0 |-> base]
  <2>1. Iterates(g, 0, S, base, step)
    BY DEF Iterates
  <2> HIDE DEF g
  <2> QED
    BY <2>1
<1>2. ASSUME NEW n \in Nat, n \in D PROVE n + 1 \in D
  <2> SUFFICES ASSUME n + 1 <= m PROVE \E g : Iterates(g, n + 1, S, base, step)
    OBVIOUS
  <2>1. PICK g : Iterates(g, n, S, base, step)
    BY <1>2
  <2>2. step[n + 1] \in [S -> S] /\ g[n] \in S
    BY <2>1 DEF Iterates
  <2> DEFINE next == step[n + 1][g[n]]
             h == [i \in 0..(n + 1) |-> IF i = n + 1 THEN next ELSE g[i]]
  <2>3. next \in S
    BY <2>2
  <2> HIDE DEF next
  <2>4. h \in [0..(n + 1) -> S] /\ h[0] = base
    BY <2>1, <2>3 DEF Iterates
  <2>5. ASSUME NEW i \in 1..(n + 1) PROVE h[i] = step[i][h[i - 1]]
    <3>1. CASE i = n + 1
      <4>1. i - 1 \in 0..(n + 1) /\ i - 1 # n + 1 /\ i - 1 = n
        BY <3>1
      <4>2. h[i - 1] = g[n] /\ h[i] = next
        BY <3>1, <4>1
      <4> HIDE DEF h
      <4> QED
        BY <3>1, <4>2 DEF next
    <3>2. CASE i # n + 1
      <4>1. i \in 1..n /\ i - 1 \in 0..n
        BY <3>2
      <4>2. h[i] = g[i] /\ h[i - 1] = g[i - 1]
        BY <4>1
      <4> HIDE DEF h
      <4> QED
        BY <2>1, <4>1, <4>2 DEF Iterates
    <3> QED
      BY <3>1, <3>2
  <2> HIDE DEF h
  <2>6. Iterates(h, n + 1, S, base, step)
    BY <2>4, <2>5 DEF Iterates
  <2> QED
    BY <2>6
<1>3. Nat \subseteq D
  <2> HIDE DEF D
  <2> QED
    BY <1>1, <1>2, SetInduction
<1> QED
  BY <1>3

\* Two computations that start alike and go on alike are alike.
StepAlike(g, h, m) ==
    /\ g[0] = h[0]
    /\ \A i \in 1..m : g[i - 1] = h[i - 1] => g[i] = h[i]

LEMMA IterationUnique ==
    ASSUME NEW m \in Nat, NEW g, NEW h, StepAlike(g, h, m)
    PROVE  \A i \in 0..m : g[i] = h[i]
<1> DEFINE D == {n \in Nat : n <= m => g[n] = h[n]}
<1>1. 0 \in D
  BY DEF StepAlike
<1>2. ASSUME NEW n \in Nat, n \in D PROVE n + 1 \in D
  <2> SUFFICES ASSUME n + 1 <= m PROVE g[n + 1] = h[n + 1]
    OBVIOUS
  <2>1. n + 1 \in 1..m /\ (n + 1) - 1 = n /\ g[n] = h[n]
    BY <1>2
  <2> QED
    BY <2>1 DEF StepAlike
<1>3. Nat \subseteq D
  <2> HIDE DEF D
  <2> QED
    BY <1>1, <1>2, SetInduction
<1> QED
  BY <1>3

-----------------------------------------------------------------------------
(* The size of an aggregation packet, and the body fragments make.         *)

\* UnitsWritten is the last of the sums it goes through.
LEMMA UnitsWrittenSums ==
    ASSUME NEW pieces, Len(pieces) \in Nat,
           \A i \in 1..Len(pieces) : PieceLen(pieces[i]) \in Int
    PROVE  \E sums \in [0..Len(pieces) -> Int] :
              /\ sums[0] = 0
              /\ \A i \in 1..Len(pieces) :
                    sums[i] = sums[i - 1] + kAggregationSizeField + kH265NaluHeaderSize
                              + PieceLen(pieces[i])
              /\ UnitsWritten(pieces) = sums[Len(pieces)]
<1> DEFINE n == Len(pieces)
           w(i) == PieceLen(pieces[i])
           Def(f) == f = [i \in 0..n |->
                             IF i = 0 THEN 0
                             ELSE f[i - 1] + kAggregationSizeField + kH265NaluHeaderSize + w(i)]
           u == CHOOSE f : Def(f)
           step == [i \in 1..n |-> [v \in Int |->
                       v + kAggregationSizeField + kH265NaluHeaderSize + w(i)]]
<1>1. UnitsWritten(pieces) = u[n]
  BY DEF UnitsWritten
<1>2. n \in Nat /\ \A i \in 1..n : w(i) \in Int
  OBVIOUS
<1>3. 0 \in Int /\ step \in [1..n -> [Int -> Int]]
  BY <1>2 DEF kAggregationSizeField, kH265NaluHeaderSize
<1>4. PICK g : Iterates(g, n, Int, 0, step)
  <2> HIDE DEF n, step
  <2> QED
    BY <1>2, <1>3, IterationExists
<1> HIDE DEF n, w
<1>5. \A i \in 1..n : g[i] = g[i - 1] + kAggregationSizeField + kH265NaluHeaderSize + w(i)
  <2> SUFFICES ASSUME NEW i \in 1..n
               PROVE  g[i] = g[i - 1] + kAggregationSizeField + kH265NaluHeaderSize + w(i)
    OBVIOUS
  <2>1. i - 1 \in 0..n /\ g[i - 1] \in Int /\ g[i] = step[i][g[i - 1]]
    BY <1>2, <1>4 DEF Iterates
  <2> QED
    BY <2>1
<1>6. Def(g)
  BY <1>2, <1>4, <1>5 DEF Iterates
<1>7. Def(u)
  <2> HIDE DEF Def
  <2> QED
    BY <1>6
<1> HIDE DEF u
<1>8. /\ u[0] = 0
      /\ \A i \in 1..n : u[i] = u[i - 1] + kAggregationSizeField + kH265NaluHeaderSize + w(i)
      /\ DOMAIN u = 0..n
  BY <1>2, <1>7
<1>9. \A i \in 0..n : g[i] = u[i]
  <2>1. StepAlike(g, u, n)
    BY <1>4, <1>5, <1>8 DEF Iterates, StepAlike
  <2> QED
    BY <1>2, <2>1, IterationUnique
<1>10. u \in [0..n -> Int]
  BY <1>4, <1>7, <1>8, <1>9 DEF Iterates
<1> QED
  BY <1>1, <1>8, <1>10 DEF n, w

\* One NAL unit more adds its length field, its header and its body.
LEMMA UnitsWrittenAppend ==
    ASSUME NEW pieces, NEW more, Len(pieces) \in Nat, Len(more) = Len(pieces) + 1,
           \A i \in 1..Len(more) : PieceLen(more[i]) \in Int,
           \A i \in 1..Len(pieces) : more[i] = pieces[i]
    PROVE  /\ UnitsWritten(pieces) \in Int
           /\ UnitsWritten(more) = UnitsWritten(pieces) + kAggregationSizeField
                                   + kH265NaluHeaderSize + PieceLen(more[Len(more)])
<1> DEFINE n == Len(pieces)
<1>1. n \in Nat /\ Len(more) = n + 1 /\ Len(more) \in Nat
  OBVIOUS
<1>2. \A i \in 1..n : PieceLen(pieces[i]) \in Int
  OBVIOUS
<1>3. PICK f \in [0..n -> Int] :
         /\ f[0] = 0
         /\ \A i \in 1..n : f[i] = f[i - 1] + kAggregationSizeField + kH265NaluHeaderSize
                                   + PieceLen(pieces[i])
         /\ UnitsWritten(pieces) = f[n]
  BY <1>1, <1>2, UnitsWrittenSums
<1>4. PICK g \in [0..(n + 1) -> Int] :
         /\ g[0] = 0
         /\ \A i \in 1..(n + 1) : g[i] = g[i - 1] + kAggregationSizeField + kH265NaluHeaderSize
                                         + PieceLen(more[i])
         /\ UnitsWritten(more) = g[n + 1]
  BY <1>1, UnitsWrittenSums
<1> HIDE DEF n
<1>5. \A i \in 0..n : f[i] = g[i]
  <2>1. ASSUME NEW i \in 1..n, f[i - 1] = g[i - 1] PROVE f[i] = g[i]
    <3>1. more[i] = pieces[i] /\ i \in 1..(n + 1)
      BY <1>1 DEF n
    <3> QED
      BY <1>3, <1>4, <2>1, <3>1
  <2>2. StepAlike(f, g, n)
    BY <1>3, <1>4, <2>1 DEF StepAlike
  <2>3. n \in Nat
    BY <1>1
  <2> QED
    BY ONLY <2>2, <2>3, IterationUnique
<1>6. g[n + 1] = g[n] + kAggregationSizeField + kH265NaluHeaderSize + PieceLen(more[n + 1])
  <2>1. n + 1 \in 1..(n + 1) /\ (n + 1) - 1 = n
    BY <1>1
  <2> QED
    BY <1>4, <2>1
<1> QED
  BY <1>1, <1>3, <1>4, <1>5, <1>6

LEMMA UnitsWrittenNone ==
    ASSUME NEW pieces, Len(pieces) = 0
    PROVE  UnitsWritten(pieces) = 0
<1>1. Len(pieces) \in Nat /\ \A i \in 1..Len(pieces) : PieceLen(pieces[i]) \in Int
  OBVIOUS
<1> QED
  BY <1>1, UnitsWrittenSums

LEMMA UnitsWrittenOne ==
    ASSUME NEW pieces, Len(pieces) = 1, PieceLen(pieces[1]) \in Int
    PROVE  UnitsWritten(pieces) = kAggregationSizeField + kH265NaluHeaderSize
                                  + PieceLen(pieces[1])
<1>1. Len(pieces) \in Nat /\ \A i \in 1..Len(pieces) : PieceLen(pieces[i]) \in Int
  OBVIOUS
<1>2. PICK sums \in [0..1 -> Int] :
         /\ sums[0] = 0
         /\ \A i \in 1..1 : sums[i] = sums[i - 1] + kAggregationSizeField + kH265NaluHeaderSize
                                       + PieceLen(pieces[i])
         /\ UnitsWritten(pieces) = sums[1]
  BY <1>1, UnitsWrittenSums
<1>3. sums[1] = sums[1 - 1] + kAggregationSizeField + kH265NaluHeaderSize + PieceLen(pieces[1])
  BY <1>2
<1> QED
  BY <1>2, <1>3 DEF kAggregationSizeField, kH265NaluHeaderSize

Body == Seq(Nat \X Nat)

\* The body up to a fragment is the one up to the fragment before, and its part.
LEMMA AssembledSteps ==
    ASSUME NEW made, Len(made) \in Nat,
           \A p \in 1..Len(made) : PartOf(made[p]) \in Body
    PROVE  /\ AssembledFrom(made) \in [0..Len(made) -> Body]
           /\ AssembledFrom(made)[0] = <<>>
           /\ \A p \in 1..Len(made) :
                 AssembledFrom(made)[p] =
                     (IF made[p].s THEN <<>> ELSE AssembledFrom(made)[p - 1]) \o PartOf(made[p])
<1> DEFINE n == Len(made)
           part(i) == PartOf(made[i])
           s(i) == made[i].s
           next(i, b) == (IF s(i) THEN <<>> ELSE b) \o part(i)
           Def(f) == f = [i \in 0..n |-> IF i = 0 THEN <<>> ELSE next(i, f[i - 1])]
           u == CHOOSE f : Def(f)
           step == [i \in 1..n |-> [b \in Body |-> next(i, b)]]
<1>1. AssembledFrom(made) = u
  BY DEF AssembledFrom
<1>2. n \in Nat /\ <<>> \in Body /\ \A i \in 1..n : part(i) \in Body
  BY EmptySeq DEF Body
<1>3. step \in [1..n -> [Body -> Body]]
  <2> HIDE DEF n, part, s
  <2>1. ASSUME NEW i \in 1..n, NEW b \in Body
        PROVE  next(i, b) \in Body
    BY <1>2, ConcatProperties DEF Body
  <2> HIDE DEF next
  <2> QED
    BY <2>1
<1>4. PICK g : Iterates(g, n, Body, <<>>, step)
  <2> HIDE DEF n, step
  <2> QED
    BY <1>2, <1>3, IterationExists
<1> HIDE DEF n, part, s, next
<1>5. \A i \in 1..n : g[i] = next(i, g[i - 1])
  <2> SUFFICES ASSUME NEW i \in 1..n PROVE g[i] = next(i, g[i - 1])
    OBVIOUS
  <2>1. i - 1 \in 0..n /\ g[i - 1] \in Body /\ g[i] = step[i][g[i - 1]]
    BY <1>2, <1>4 DEF Iterates
  <2> QED
    BY <2>1
<1>6. Def(g)
  BY <1>2, <1>4, <1>5 DEF Iterates
<1>7. Def(u)
  <2> HIDE DEF Def
  <2> QED
    BY <1>6
<1> HIDE DEF u
<1>8. /\ u[0] = <<>> /\ DOMAIN u = 0..n
      /\ \A i \in 1..n : u[i] = next(i, u[i - 1])
  BY <1>2, <1>7
<1>9. \A i \in 0..n : g[i] = u[i]
  <2>1. StepAlike(g, u, n)
    BY <1>4, <1>5, <1>8 DEF Iterates, StepAlike
  <2> QED
    BY <1>2, <2>1, IterationUnique
<1>10. u \in [0..n -> Body]
  BY <1>4, <1>7, <1>8, <1>9 DEF Iterates
<1> QED
  BY <1>1, <1>8, <1>10 DEF n, part, s, next

\* It does not depend on the payloads that follow.
LEMMA AssembledPrefix ==
    ASSUME NEW made, NEW more, Len(made) \in Nat, Len(more) \in Nat, Len(made) <= Len(more),
           \A p \in 1..Len(more) : PartOf(more[p]) \in Body,
           \A p \in 1..Len(made) : more[p] = made[p]
    PROVE  \A p \in 0..Len(made) : AssembledFrom(more)[p] = AssembledFrom(made)[p]
<1> DEFINE n == Len(made)
           m == Len(more)
           f == AssembledFrom(made)
           g == AssembledFrom(more)
<1>1. n \in Nat /\ m \in Nat /\ n <= m
  OBVIOUS
<1>2. /\ f[0] = <<>>
      /\ \A p \in 1..n : f[p] = (IF made[p].s THEN <<>> ELSE f[p - 1]) \o PartOf(made[p])
  <2>1. \A p \in 1..n : PartOf(made[p]) \in Body
    <3> HIDE DEF n, m
    <3>1. \A p \in 1..n : p \in 1..m
      BY <1>1
    <3> QED
      BY <3>1 DEF n, m
  <2> QED
    BY <2>1, AssembledSteps
<1>3. /\ g[0] = <<>>
      /\ \A p \in 1..m : g[p] = (IF more[p].s THEN <<>> ELSE g[p - 1]) \o PartOf(more[p])
  BY AssembledSteps
<1>4. \A p \in 1..n : more[p] = made[p]
  OBVIOUS
<1> HIDE DEF n, m, f, g
<1>5. StepAlike(g, f, n)
  <2>1. ASSUME NEW p \in 1..n, g[p - 1] = f[p - 1] PROVE g[p] = f[p]
    <3>1. p \in 1..m /\ more[p] = made[p]
      BY <1>1, <1>4
    <3> QED
      BY <1>2, <1>3, <2>1, <3>1
  <2> QED
    BY <1>2, <1>3, <2>1 DEF StepAlike
<1>6. \A p \in 0..n : g[p] = f[p]
  BY <1>1, <1>5, IterationUnique
<1> QED
  BY <1>6 DEF n, f, g

\* A piece of a body is a sequence of bytes of its length.
LEMMA BytesType ==
    ASSUME NEW k \in Nat, NEW a \in Nat, NEW b \in Nat, a <= b
    PROVE  /\ Bytes(k, a, b) \in Body
           /\ Len(Bytes(k, a, b)) = b - a
           /\ \A i \in 1..(b - a) : Bytes(k, a, b)[i] = <<k, a + i>>
<1>1. b - a \in Nat
  OBVIOUS
<1>2. \A i \in 1..(b - a) : <<k, a + i>> \in Nat \X Nat
  OBVIOUS
<1> QED
  BY <1>1, <1>2 DEF Bytes, Body

\* A prefix and the piece behind it join into the longer prefix: what appending
\* a fragment to fragment_buffer_ relies on.
LEMMA BytesPrefix ==
    ASSUME NEW k \in Nat, NEW a \in Nat, NEW b \in Nat, a <= b
    PROVE  /\ Bytes(k, 0, a) \o Bytes(k, a, b) = Bytes(k, 0, b)
           /\ Bytes(k, 0, b) \in Body
<1> DEFINE front == Bytes(k, 0, a)
           back == Bytes(k, a, b)
           all == Bytes(k, 0, b)
<1>0. 0 \in Nat /\ 0 <= a /\ 0 <= b
  OBVIOUS
<1>1. /\ front \in Body /\ Len(front) = a
      /\ \A i \in 1..a : front[i] = <<k, i>>
  <2>1. /\ front \in Body /\ Len(front) = a - 0
        /\ \A i \in 1..(a - 0) : front[i] = <<k, 0 + i>>
    BY <1>0, BytesType
  <2> QED
    BY <2>1
<1>2. /\ back \in Body /\ Len(back) = b - a
      /\ \A i \in 1..(b - a) : back[i] = <<k, a + i>>
  BY BytesType
<1>3. /\ all \in Body /\ Len(all) = b
      /\ \A i \in 1..b : all[i] = <<k, i>>
  <2>1. /\ all \in Body /\ Len(all) = b - 0
        /\ \A i \in 1..(b - 0) : all[i] = <<k, 0 + i>>
    BY <1>0, BytesType
  <2> QED
    BY <2>1
<1> HIDE DEF front, back, all
<1>4. /\ front \o back \in Body /\ Len(front \o back) = b
      /\ \A i \in 1..b : (front \o back)[i] = IF i <= a THEN front[i] ELSE back[i - a]
  <2>1. /\ front \o back \in Body /\ Len(front \o back) = Len(front) + Len(back)
        /\ \A i \in 1..(Len(front) + Len(back)) :
              (front \o back)[i] = IF i <= Len(front) THEN front[i] ELSE back[i - Len(front)]
    BY <1>1, <1>2, ConcatProperties DEF Body
  <2>2. Len(front) + Len(back) = b
    BY <1>1, <1>2
  <2> QED
    BY <1>1, <2>1, <2>2
<1>5. ASSUME NEW i \in 1..b PROVE (front \o back)[i] = all[i]
  <2>1. CASE i <= a
    <3>1. i \in 1..a
      BY <2>1
    <3> QED
      BY <1>1, <1>3, <1>4, <2>1, <3>1
  <2>2. CASE ~(i <= a)
    <3>1. i - a \in 1..(b - a) /\ a + (i - a) = i
      BY <2>2
    <3>2. back[i - a] = <<k, i>>
      BY <1>2, <3>1
    <3> QED
      BY <1>3, <1>4, <2>2, <3>2
  <2> QED
    BY <2>1, <2>2
<1>6. front \o back = all
  BY <1>3, <1>4, <1>5, SeqEqual DEF Body
<1> QED
  BY <1>3, <1>6 DEF front, back, all


-----------------------------------------------------------------------------
(* What the packetizer does on its own.                                    *)

LEMMA DonlType == DonlModulus \in Nat \ {0} /\ 0 \in Donl
<1>1. DonlModulus \in Nat \ {0}
  BY DEF DonlModulus
<1> QED
  BY <1>1 DEF Donl

LEMMA MtuType ==
    ASSUME mtu \in Mtus
    PROVE  mtu \in Nat
BY MtusAssumption

\* A payload's pieces, and what the receiver will make of the first.
LEMMA PayloadFacts ==
    ASSUME SenderType, ShapeInv, NEW p \in Position(payloads)
    PROVE  /\ payloads[p] \in PayloadType
           /\ Fragment(p) \in PieceType /\ Fragment(p).nalu \in 1..Len(given)
           /\ Fragment(p).nalu \in Nat /\ Fragment(p).from \in Nat /\ Fragment(p).to \in Nat
           /\ Fragment(p).from <= Fragment(p).to
           /\ PieceBytes(Fragment(p)) \in Body
           /\ PartOf(payloads[p]) \in Body
           /\ FuBody(payloads[p]) \in Body
           /\ \A i \in Position(payloads[p].pieces) :
                 payloads[p].pieces[i].nalu \in 1..Len(given)
<1>1. payloads[p] \in PayloadType
  <2>1. payloads \in Seq(PayloadType)
    BY DEF SenderType
  <2> QED
    BY <2>1, ElementOfSeq DEF Position
<1>2. payloads[p].pieces \in Seq(PieceType) /\ Len(payloads[p].pieces) > 0
  <2>1. payloads[p].pieces \in Seq(PieceType)
    BY <1>1 DEF PayloadType
  <2>2. Len(payloads[p].pieces) > 0
    BY DEF ShapeInv
  <2> QED
    BY <2>1, <2>2
<1>3. \A i \in Position(payloads[p].pieces) : payloads[p].pieces[i] \in PieceType
  BY <1>2, ElementOfSeq DEF Position
<1>4. 1 \in Position(payloads[p].pieces)
  <2> DEFINE n == Len(payloads[p].pieces)
  <2>1. n \in Nat /\ n > 0
    BY <1>2, LenProperties
  <2> HIDE DEF n
  <2>2. 1 \in 1..n
    BY <2>1
  <2> QED
    BY <2>2 DEF n, Position
<1>5. Fragment(p) \in PieceType
  BY <1>3, <1>4 DEF Fragment
<1>6. /\ Fragment(p).nalu \in 1..Len(given) /\ Fragment(p).nalu \in Nat
      /\ Fragment(p).from \in Nat /\ Fragment(p).to \in Nat
  <2> DEFINE f == Fragment(p)
  <2>1. f \in PieceType
    BY <1>5
  <2> HIDE DEF f
  <2>2. f.nalu \in 1..Len(given) /\ f.from \in Nat /\ f.to \in Nat
    BY <2>1 DEF PieceType
  <2> QED
    BY <2>2 DEF f
<1>7. Fragment(p).from <= Fragment(p).to
  <2>1. CASE IsFragment(payloads[p])
    BY <1>6, <2>1 DEF ShapeInv
  <2>2. CASE ~IsFragment(payloads[p])
    <3>1. Fragment(p) = WholePiece(Fragment(p).nalu)
      BY <1>4, <2>2 DEF ShapeInv, Fragment
    <3>2. Fragment(p).from = 0
      BY <3>1 DEF WholePiece, Piece
    <3> QED
      BY <1>6, <3>2
  <2> QED
    BY <2>1, <2>2
<1>8. PieceBytes(Fragment(p)) \in Body
  <2> DEFINE k == Fragment(p).nalu
             a == Fragment(p).from
             b == Fragment(p).to
  <2>1. k \in Nat /\ a \in Nat /\ b \in Nat /\ a <= b
    BY <1>6, <1>7
  <2> HIDE DEF k, a, b
  <2>2. Bytes(k, a, b) \in Body
    BY <2>1, BytesType
  <2> QED
    BY <2>2 DEF k, a, b, PieceBytes
<1>9. DonlBytes \o PieceBytes(Fragment(p)) \in Body
  <2>1. DonlBytes \in Body
    <3>1. <<0, 0>> \in Nat \X Nat
      OBVIOUS
    <3> QED
      BY <3>1 DEF DonlBytes, Body
  <2> QED
    BY <1>8, <2>1, ConcatProperties DEF Body
<1> QED
  BY <1>1, <1>3, <1>5, <1>6, <1>7, <1>8, <1>9 DEF PartOf, FuBody, Fragment, PieceType

\* The sender's part of SenderInv.
SendInv ==
    SenderType /\ LoopInv /\ AggregationInv /\ ShapeInv /\ SizesRight /\ KeptInOrder

LEMMA SendInit == PacketizerInit => SendInv
<1> SUFFICES ASSUME PacketizerInit PROVE SendInv
  OBVIOUS
<1> USE DEF PacketizerInit
<1>1. \A S : <<>> \in Seq(S) /\ Len(<<>>) = 0
  BY EmptySeq
<1>2. SenderType
  <2>1. cur \in 0..Len(given) /\ packets \in 0..Len(payloads) /\ donl \in Donl
    BY <1>1, DonlType
  <2> QED
    BY <1>1, <2>1 DEF SenderType
<1>3. LoopInv /\ ShapeInv /\ SizesRight
  BY <1>1 DEF LoopInv, ShapeInv, SizesRight, Position
<1>4. AggregationInv
  <2>1. mtu \in Nat
    BY MtuType
  <2> QED
    BY <1>1, <2>1 DEF AggregationInv
<1>5. KeptInOrder
  <2>1. sent \o bufferedNALUs = <<>>
    BY <1>1
  <2> QED
    BY <1>1, <2>1 DEF KeptInOrder, Position, Range
<1> QED
  BY <1>2, <1>3, <1>4, <1>5 DEF SendInv

LEMMA SendFrame ==
    ASSUME SendInv, UNCHANGED packetizerVars
    PROVE  SendInv'
<1> USE DEF packetizerVars, configVars, bufferVars, outVars
<1>1. SenderType'
  BY DEF SendInv, SenderType, PayloadType, PieceType
<1>2. LoopInv'
  BY DEF SendInv, LoopInv, FitsOnePacket, CurrentSize, Current, IfDonl, maxFUPayloadSize,
         fuPacketHeaderSize, BodyLen
<1>3. AggregationInv'
  BY DEF SendInv, AggregationInv, WholePiece, IfDonl
<1>4. ShapeInv' /\ SizesRight'
  BY DEF SendInv, ShapeInv, SizesRight, Position, WholePiece, Fragment
<1>5. KeptInOrder'
  BY DEF SendInv, KeptInOrder, Position
<1> QED
  BY <1>1, <1>2, <1>3, <1>4, <1>5 DEF SendInv

\* A payload put behind the others.
LEMMA AppendPayload ==
    ASSUME SendInv, NEW x \in PayloadType, payloads' = Append(payloads, x),
           UNCHANGED <<given, mtu, add_donl>>,
           Len(x.pieces) > 0, x.donl = <<>> <=> ~add_donl,
           ~IsFragment(x) =>
              \A i \in Position(x.pieces) : x.pieces[i] = WholePiece(x.pieces[i].nalu),
           IsFragment(x) => x.pieces[1].from < x.pieces[1].to,
           x.size <= mtu, x.size = BytesWritten(x)
    PROVE  /\ payloads' \in Seq(PayloadType')
           /\ Len(payloads) \in Nat /\ Len(payloads') = Len(payloads) + 1
           /\ \A p \in 1..Len(payloads) : payloads'[p] = payloads[p]
           /\ payloads'[Len(payloads) + 1] = x
           /\ ShapeInv' /\ SizesRight'
<1>1. /\ payloads' \in Seq(PayloadType) /\ Len(payloads) \in Nat
      /\ Len(payloads') = Len(payloads) + 1
      /\ \A p \in 1..Len(payloads) : payloads'[p] = payloads[p]
      /\ payloads'[Len(payloads) + 1] = x
  <2>1. payloads \in Seq(PayloadType)
    BY DEF SendInv, SenderType
  <2> QED
    BY <2>1, AppendProperties, LenProperties
<1>2. PayloadType' = PayloadType
  BY DEF PayloadType, PieceType
<1>3. ASSUME NEW p \in 1..(Len(payloads) + 1)
      PROVE  (p \in 1..Len(payloads) /\ payloads'[p] = payloads[p]) \/ payloads'[p] = x
  BY <1>1
<1>4. \A k : WholePiece(k)' = WholePiece(k)
  BY DEF WholePiece
<1>5. ShapeInv'
  <2> SUFFICES ASSUME NEW p \in 1..(Len(payloads) + 1)
               PROVE  (/\ Len(payloads[p].pieces) > 0
                       /\ payloads[p].donl = <<>> <=> ~add_donl
                       /\ ~IsFragment(payloads[p]) =>
                             \A i \in Position(payloads[p].pieces) :
                                 payloads[p].pieces[i] = WholePiece(payloads[p].pieces[i].nalu)
                       /\ IsFragment(payloads[p]) => Fragment(p).from < Fragment(p).to)'
    BY <1>1 DEF ShapeInv, Position
  <2>1. CASE payloads'[p] = x
    BY <1>4, <2>1 DEF Fragment, Position, IsFragment
  <2>2. CASE p \in 1..Len(payloads) /\ payloads'[p] = payloads[p]
    BY <1>4, <2>2 DEF SendInv, ShapeInv, Fragment, Position, IsFragment
  <2> QED
    BY <1>3, <2>1, <2>2
<1>6. SizesRight'
  <2> SUFFICES ASSUME NEW p \in 1..(Len(payloads) + 1)
               PROVE  payloads'[p].size <= mtu /\ payloads'[p].size = BytesWritten(payloads'[p])
    BY <1>1 DEF SizesRight, Position
  <2>1. CASE payloads'[p] = x
    BY <2>1
  <2>2. CASE p \in 1..Len(payloads) /\ payloads'[p] = payloads[p]
    BY <2>2 DEF SendInv, SizesRight, Position
  <2> QED
    BY <1>3, <2>1, <2>2
<1> QED
  BY <1>1, <1>2, <1>5, <1>6

\* The NAL unit the scan is at.
LEMMA CurrentFacts ==
    ASSUME SendInv, cur < Len(given)
    PROVE  /\ cur \in Nat /\ Len(given) \in Nat
           /\ Current \in 1..Len(given) /\ Current \in Nat /\ Current = cur + 1
           /\ CurrentSize \in Nat \ {0} /\ mtu \in Nat
           /\ IfDonl(kDonlSize) \in {0, 2}
           /\ IfDonl(kDonlSize) = 0 <=> ~add_donl
<1>1. given \in Seq(Nat \ {0}) /\ cur \in 0..Len(given) /\ mtu \in Mtus /\ add_donl \in BOOLEAN
  BY DEF SendInv, SenderType
<1>2. cur \in Nat /\ Len(given) \in Nat /\ Current = cur + 1 /\ Current \in 1..Len(given)
  BY <1>1, LenProperties DEF Current
<1>3. CurrentSize \in Nat \ {0}
  BY <1>1, <1>2, ElementOfSeq DEF CurrentSize
<1>4. mtu \in Nat
  BY <1>1, MtuType
<1> QED
  BY <1>1, <1>2, <1>3, <1>4 DEF IfDonl, kDonlSize

\* What is through, in order: sent or buffered.
Through == sent \o bufferedNALUs

LEMMA ThroughType ==
    ASSUME SendInv
    PROVE  /\ sent \in Seq(Nat) /\ bufferedNALUs \in Seq(Nat) /\ Through \in Seq(Nat)
           /\ Len(bufferedNALUs) \in Nat
           /\ \A i \in 1..Len(bufferedNALUs) :
                 /\ bufferedNALUs[i] \in 1..cur /\ bufferedNALUs[i] \in 1..Len(given)
                 /\ given[bufferedNALUs[i]] \in Nat /\ given[bufferedNALUs[i]] >= 2
<1>1. /\ sent \in Seq(1..Len(given)) /\ bufferedNALUs \in Seq(1..cur) /\ cur \in 0..Len(given)
      /\ given \in Seq(Nat \ {0}) /\ Len(given) \in Nat
  BY LenProperties DEF SendInv, SenderType
<1>2. sent \in Seq(Nat) /\ bufferedNALUs \in Seq(Nat)
  BY <1>1
<1>3. Through \in Seq(Nat) /\ Len(bufferedNALUs) \in Nat
  BY <1>2, ConcatProperties, LenProperties DEF Through
<1>4. ASSUME NEW i \in 1..Len(bufferedNALUs)
      PROVE  /\ bufferedNALUs[i] \in 1..cur /\ bufferedNALUs[i] \in 1..Len(given)
             /\ given[bufferedNALUs[i]] \in Nat /\ given[bufferedNALUs[i]] >= 2
  <2>1. bufferedNALUs[i] \in 1..cur
    BY <1>1, ElementOfSeq
  <2>2. bufferedNALUs[i] \in 1..Len(given)
    BY <1>1, <2>1
  <2>3. given[bufferedNALUs[i]] \in Nat
    BY <1>1, <2>2, ElementOfSeq
  <2>4. bufferedNALUs[i] \in Range(Through)
    <3>1. /\ Len(Through) = Len(sent) + Len(bufferedNALUs) /\ Len(sent) \in Nat
          /\ Len(sent) + i \in 1..(Len(sent) + Len(bufferedNALUs))
          /\ Through[Len(sent) + i] = bufferedNALUs[i]
      BY <1>2, ConcatProperties, LenProperties DEF Through
    <3>2. DOMAIN Through = 1..Len(Through)
      BY <1>3, LenProperties
    <3> QED
      BY <3>1, <3>2 DEF Range
  <2>5. ~IsShort(given[bufferedNALUs[i]])
    BY <2>4 DEF SendInv, KeptInOrder, Through
  <2> QED
    BY <2>1, <2>2, <2>3, <2>5 DEF IsShort, kH265NaluHeaderSize
<1> QED
  BY <1>2, <1>3, <1>4

LEMMA SameOrder ==
    ASSUME SendInv, Through' = Through, cur' = cur,
           \A k \in 1..cur : given'[k] = given[k],
           pc' = "idle" => cur' = Len(given') /\ bufferedNALUs' = <<>>
    PROVE  KeptInOrder'
<1>1. {k \in 1..cur : ~IsShort(given[k])}' = {k \in 1..cur : ~IsShort(given[k])}
  OBVIOUS
<1> QED
  BY <1>1 DEF SendInv, KeptInOrder, Through, Position

\* A NAL unit too short to be one is passed over.
LEMMA SkipOrder ==
    ASSUME SendInv, cur < Len(given), Through' = Through, cur' = Current, given' = given,
           IsShort(CurrentSize), pc' # "idle"
    PROVE  KeptInOrder'
<1>1. cur \in Nat /\ Current = cur + 1
  BY CurrentFacts
<1>2. {k \in 1..cur : ~IsShort(given[k])}' = {k \in 1..cur : ~IsShort(given[k])}
  BY <1>1 DEF CurrentSize
<1> QED
  BY <1>2 DEF SendInv, KeptInOrder, Through, Position

\* The current NAL unit comes behind what is through.
LEMMA NextOrder ==
    ASSUME SendInv, cur < Len(given), Through' = Append(Through, Current), cur' = Current,
           given' = given, ~IsShort(CurrentSize), pc' # "idle"
    PROVE  KeptInOrder'
<1> DEFINE n == Len(Through)
           t == Through
           u == Append(Through, Current)
<1>1. cur \in Nat /\ Current = cur + 1 /\ Current \in Nat
  BY CurrentFacts
<1>2. t \in Seq(Nat) /\ n \in Nat /\ n = Len(t)
  BY ThroughType, LenProperties
<1>3. /\ u \in Seq(Nat) /\ Len(u) = n + 1 /\ u[n + 1] = Current
      /\ \A i \in 1..n : u[i] = t[i]
      /\ DOMAIN u = 1..(n + 1) /\ DOMAIN t = 1..n
  BY <1>1, <1>2, AppendProperties, LenProperties
<1>4. /\ \A i, j \in 1..n : i < j => t[i] < t[j]
      /\ Range(t) = {k \in 1..cur : ~IsShort(given[k])}
  BY DEF SendInv, KeptInOrder, Through, Position
<1> HIDE DEF n, t, u
<1>5. \A i \in 1..n : t[i] \in Range(t)
  BY <1>3 DEF Range
<1>6. \A i \in 1..n : t[i] \in 1..cur
  BY <1>4, <1>5
<1>7. ASSUME NEW i \in 1..(n + 1), NEW j \in 1..(n + 1), i < j
      PROVE  u[i] < u[j]
  <2>0. i \in 1..n
    BY <1>2, <1>7
  <2>1. i \in 1..n /\ u[i] = t[i]
    BY <1>3, <2>0
  <2>2. CASE j = n + 1
    BY <1>1, <1>3, <1>6, <2>1, <2>2
  <2>3. CASE j # n + 1
    <3>1. j \in 1..n /\ u[j] = t[j]
      BY <1>2, <1>3, <2>3
    <3> QED
      BY <1>4, <1>7, <2>1, <3>1
  <2> QED
    BY <2>2, <2>3
<1>8. Range(u) = Range(t) \cup {Current}
  <2>1. \A i \in 1..n : i \in 1..(n + 1)
    BY <1>2
  <2>2. n + 1 \in 1..(n + 1) /\ \A i \in 1..(n + 1) : i \in 1..n \/ i = n + 1
    BY <1>2
  <2> QED
    BY <1>3, <2>1, <2>2 DEF Range
<1>9. {k \in 1..Current : ~IsShort(given[k])}
        = {k \in 1..cur : ~IsShort(given[k])} \cup {Current}
  BY <1>1 DEF CurrentSize
<1>10. Range(u) = {k \in 1..Current : ~IsShort(given[k])}
  BY <1>4, <1>8, <1>9
<1>11. (sent \o bufferedNALUs)' = u
  BY DEF u, Through
<1> QED
  BY <1>3, <1>7, <1>10, <1>11 DEF KeptInOrder, Position

-----------------------------------------------------------------------------
(* The steps of the packetizer.                                            *)

\* Nothing has been made before the first frame.
LEMMA NothingMade ==
    ASSUME SendInv, given = <<>>, pc = "idle"
    PROVE  payloads = <<>> /\ bufferedNALUs = <<>> /\ cur = 0
<1>1. Len(given) = 0
  BY EmptySeq
<1>2. cur = 0 /\ bufferedNALUs = <<>>
  BY <1>1 DEF SendInv, KeptInOrder
<1>3. payloads = <<>>
  <2> SUFFICES ASSUME payloads # <<>> PROVE FALSE
    OBVIOUS
  <2>1. payloads \in Seq(PayloadType) /\ Len(payloads) \in Nat /\ Len(payloads) # 0
    BY EmptySeq, LenProperties DEF SendInv, SenderType
  <2>2. 1 \in Position(payloads)
    BY <2>1 DEF Position
  <2>3. Fragment(1).nalu \in 1..Len(given)
    BY <2>2, PayloadFacts DEF SendInv
  <2> QED
    BY <1>1, <2>3
<1> QED
  BY <1>2, <1>3

LEMMA WithDONLStep ==
    ASSUME SendInv, given = <<>>, NEW value \in BOOLEAN, WithDONL(value)
    PROVE  SendInv'
<1> USE DEF WithDONL, configVars, bufferVars, outVars
<1>1. payloads = <<>> /\ bufferedNALUs = <<>> /\ cur = 0
  BY NothingMade
<1>2. Len(<<>>) = 0
  BY EmptySeq
<1>3. SenderType'
  BY DEF SendInv, SenderType, PayloadType, PieceType
<1>4. LoopInv'
  BY DEF LoopInv
<1>5. AggregationInv'
  <2>1. aggregationBufferSize <= mtu /\ aggregationBufferSize = 0
    BY <1>1, <1>2 DEF SendInv, AggregationInv
  <2> QED
    BY <1>1, <1>2, <2>1 DEF AggregationInv
<1>6. ShapeInv' /\ SizesRight'
  BY <1>1, <1>2 DEF ShapeInv, SizesRight, Position
<1>7. KeptInOrder'
  BY SameOrder DEF SendInv, KeptInOrder, Through
<1> QED
  BY <1>3, <1>4, <1>5, <1>6, <1>7 DEF SendInv

LEMMA WithSkipAggregationStep ==
    ASSUME SendInv, NEW value \in BOOLEAN, WithSkipAggregation(value)
    PROVE  SendInv'
<1> USE DEF WithSkipAggregation, configVars, bufferVars, outVars
<1>1. SenderType'
  BY DEF SendInv, SenderType, PayloadType, PieceType
<1>2. LoopInv'
  BY DEF LoopInv
<1>3. AggregationInv'
  BY DEF SendInv, AggregationInv, WholePiece, IfDonl
<1>4. ShapeInv' /\ SizesRight'
  BY DEF SendInv, ShapeInv, SizesRight, Position, WholePiece, Fragment
<1>5. KeptInOrder'
  BY SameOrder DEF SendInv, KeptInOrder, Through
<1> QED
  BY <1>1, <1>2, <1>3, <1>4, <1>5 DEF SendInv

\* The NAL units a call hands over are put behind those of earlier calls.
LEMMA GivenGrows ==
    ASSUME SendInv, NEW frame \in Frames(mtu), given' = given \o frame
    PROVE  /\ given' \in Seq(Nat \ {0}) /\ Len(given) \in Nat /\ Len(given') \in Nat
           /\ Len(given) <= Len(given')
           /\ \A k \in 1..Len(given) : given'[k] = given[k] /\ k \in 1..Len(given')
<1>1. given \in Seq(Nat \ {0}) /\ mtu \in Mtus
  BY DEF SendInv, SenderType
<1>2. frame \in Seq(Nat \ {0})
  BY <1>1, FramesAssumption
<1>3. /\ given' \in Seq(Nat \ {0}) /\ Len(given') = Len(given) + Len(frame)
      /\ \A k \in 1..Len(given) : given'[k] = given[k]
      /\ Len(given) \in Nat /\ Len(frame) \in Nat
  BY <1>1, <1>2, ConcatProperties, LenProperties
<1> QED
  BY <1>3

LEMMA PacketizeStep ==
    ASSUME SendInv, pc = "idle", NEW frame \in Frames(mtu), Packetize(frame)
    PROVE  SendInv'
<1> USE DEF Packetize, configVars, bufferVars, outVars
<1>1. /\ given' \in Seq(Nat \ {0}) /\ Len(given) \in Nat /\ Len(given') \in Nat
      /\ Len(given) <= Len(given')
      /\ \A k \in 1..Len(given) : given'[k] = given[k] /\ k \in 1..Len(given')
  BY GivenGrows
<1>2. cur \in 0..Len(given) /\ bufferedNALUs = <<>> /\ aggregationBufferSize = 0 /\ mtu \in Nat
  <2>1. cur \in 0..Len(given) /\ bufferedNALUs = <<>> /\ mtu \in Mtus
    BY DEF SendInv, SenderType, KeptInOrder
  <2>2. aggregationBufferSize = 0
    BY <2>1, EmptySeq DEF SendInv, AggregationInv
  <2> QED
    BY <2>1, <2>2, MtuType
<1>3. SenderType'
  <2>1. PayloadType \subseteq PayloadType'
    <3>1. PieceType \subseteq PieceType'
      BY <1>1 DEF PieceType
    <3>2. Seq(PieceType) \subseteq Seq(PieceType')
      BY <3>1
    <3> QED
      BY <3>2 DEF PayloadType
  <2>2. payloads \in Seq(PayloadType')
    <3>1. payloads \in Seq(PayloadType)
      BY DEF SendInv, SenderType
    <3> QED
      BY <2>1, <3>1
  <2>3. sent \in Seq(1..Len(given'))
    <3>1. sent \in Seq(1..Len(given)) /\ 1..Len(given) \subseteq 1..Len(given')
      BY <1>1 DEF SendInv, SenderType
    <3> QED
      BY <3>1
  <2> QED
    BY <1>1, <1>2, <2>2, <2>3 DEF SendInv, SenderType
<1>4. LoopInv'
  BY DEF LoopInv
<1>5. AggregationInv'
  BY <1>2, EmptySeq DEF AggregationInv
<1>6. ShapeInv'
  <2> SUFFICES ASSUME NEW p \in Position(payloads)
               PROVE  (/\ Len(payloads[p].pieces) > 0
                       /\ payloads[p].donl = <<>> <=> ~add_donl
                       /\ ~IsFragment(payloads[p]) =>
                             \A i \in Position(payloads[p].pieces) :
                                 payloads[p].pieces[i] = WholePiece(payloads[p].pieces[i].nalu)
                       /\ IsFragment(payloads[p]) => Fragment(p).from < Fragment(p).to)'
    BY DEF ShapeInv, Position
  <2>1. \A i \in Position(payloads[p].pieces) : payloads[p].pieces[i].nalu \in 1..Len(given)
    BY PayloadFacts DEF SendInv
  <2>2. \A k \in 1..Len(given) : WholePiece(k)' = WholePiece(k)
    BY <1>1 DEF WholePiece
  <2> QED
    BY <2>1, <2>2 DEF SendInv, ShapeInv, Fragment, Position
<1>7. SizesRight'
  BY DEF SendInv, SizesRight, Position
<1>8. KeptInOrder'
  <2>1. \A k \in 1..cur : given'[k] = given[k]
    BY <1>1, <1>2
  <2> QED
    BY <2>1, SameOrder DEF Through
<1> QED
  BY <1>3, <1>4, <1>5, <1>6, <1>7, <1>8 DEF SendInv

\* The pieces of the NAL units in the aggregation buffer.
BufferedPieces == [i \in 1..Len(bufferedNALUs) |-> WholePiece(bufferedNALUs[i])]

LEMMA BufferedFacts ==
    ASSUME SendInv
    PROVE  /\ BufferedPieces \in Seq(PieceType)
           /\ Len(BufferedPieces) = Len(bufferedNALUs) /\ Len(bufferedNALUs) \in Nat
           /\ \A i \in 1..Len(bufferedNALUs) :
                 /\ BufferedPieces[i] = WholePiece(bufferedNALUs[i])
                 /\ BufferedPieces[i] = WholePiece(BufferedPieces[i].nalu)
                 /\ PieceLen(BufferedPieces[i]) = given[bufferedNALUs[i]] - kH265NaluHeaderSize
                 /\ PieceLen(BufferedPieces[i]) \in Int
<1> DEFINE n == Len(bufferedNALUs)
<1>1. n \in Nat /\ \A i \in 1..n : /\ bufferedNALUs[i] \in 1..Len(given)
                                   /\ given[bufferedNALUs[i]] \in Nat
                                   /\ given[bufferedNALUs[i]] >= 2
  BY ThroughType
<1>2. \A i \in 1..n : WholePiece(bufferedNALUs[i]) \in PieceType
  BY <1>1 DEF WholePiece, Piece, PieceType, kH265NaluHeaderSize
<1>3. BufferedPieces = [i \in 1..n |-> WholePiece(bufferedNALUs[i])]
  BY DEF BufferedPieces
<1> HIDE DEF n
<1>4. BufferedPieces \in Seq(PieceType) /\ Len(BufferedPieces) = n
  BY <1>1, <1>2, <1>3
<1>5. ASSUME NEW i \in 1..n
      PROVE  /\ BufferedPieces[i] = WholePiece(bufferedNALUs[i])
             /\ BufferedPieces[i] = WholePiece(BufferedPieces[i].nalu)
             /\ PieceLen(BufferedPieces[i]) = given[bufferedNALUs[i]] - kH265NaluHeaderSize
             /\ PieceLen(BufferedPieces[i]) \in Int
  <2>1. BufferedPieces[i] = WholePiece(bufferedNALUs[i])
    BY <1>3
  <2>2. /\ BufferedPieces[i].nalu = bufferedNALUs[i]
        /\ BufferedPieces[i].to = given[bufferedNALUs[i]] - kH265NaluHeaderSize
        /\ BufferedPieces[i].from = 0
    BY <2>1 DEF WholePiece, Piece
  <2> QED
    BY <1>1, <2>1, <2>2 DEF PieceLen, kH265NaluHeaderSize
<1> QED
  BY <1>1, <1>4, <1>5 DEF n

\* The sum in the code, in terms of what the pieces need.
LEMMA BufferedSum ==
    ASSUME SendInv
    PROVE  /\ aggregationBufferSize \in Nat /\ mtu \in Nat /\ aggregationBufferSize <= mtu
           /\ UnitsWritten(BufferedPieces) \in Int
           /\ Len(bufferedNALUs) = 0 =>
                 aggregationBufferSize = 0 /\ UnitsWritten(BufferedPieces) = 0
           /\ Len(bufferedNALUs) > 0 =>
                 aggregationBufferSize =
                     UnitsWritten(BufferedPieces)
                     + (IF Len(bufferedNALUs) > 1 THEN kH265NaluHeaderSize ELSE 0)
                     + IfDonl(kDonlSize + Len(bufferedNALUs) - 1)
<1>1. aggregationBufferSize \in Nat /\ mtu \in Nat
  BY MtuType DEF SendInv, SenderType
<1>2. UnitsWritten(BufferedPieces) \in Int
  <2> DEFINE m == Len(BufferedPieces)
  <2>1. m \in Nat /\ \A i \in 1..m : PieceLen(BufferedPieces[i]) \in Int
    BY BufferedFacts
  <2>2. PICK sums \in [0..m -> Int] : UnitsWritten(BufferedPieces) = sums[m]
    BY <2>1, UnitsWrittenSums
  <2> HIDE DEF m
  <2> QED
    BY <2>1, <2>2
<1>3. Len(bufferedNALUs) = 0 => UnitsWritten(BufferedPieces) = 0
  BY BufferedFacts, UnitsWrittenNone
<1>4. Len(bufferedNALUs) > 0 => Len(bufferedNALUs) # 0
  BY BufferedFacts
<1> QED
  BY <1>1, <1>2, <1>3, <1>4 DEF SendInv, AggregationInv, BufferedPieces

LEMMA DonlFacts ==
    ASSUME SendInv
    PROVE  /\ WrittenDonl \in Seq(Donl) /\ (WrittenDonl = <<>> <=> ~add_donl)
           /\ NextDonl \in Donl
<1>1. donl \in Donl /\ add_donl \in BOOLEAN
  BY DEF SendInv, SenderType
<1>2. <<donl>> \in Seq(Donl) /\ <<donl>> # <<>> /\ <<>> \in Seq(Donl)
  BY <1>1
<1>3. (donl + 1) % DonlModulus \in Donl
  <2>1. donl \in Nat
    BY <1>1 DEF Donl
  <2> QED
    BY <2>1, DonlType DEF Donl
<1> QED
  BY <1>1, <1>2, <1>3 DEF WrittenDonl, NextDonl

\* What is left of a flush once its payload is known to be right.
LEMMA FlushFrame ==
    ASSUME SendInv, pc = "scan", bufferedNALUs # <<>>,
           sent' = sent \o bufferedNALUs,
           bufferedNALUs' = <<>>, aggregationBufferSize' = 0, donl' \in Donl,
           payloads' \in Seq(PayloadType'), Len(payloads) \in Nat, Len(payloads') \in Nat,
           Len(payloads) <= Len(payloads'), ShapeInv', SizesRight',
           UNCHANGED <<given, cur, configVars, pc, offset, outVars>>
    PROVE  SendInv'
<1> USE DEF configVars, outVars
<1>1. SenderType'
  <2>1. packets \in 0..Len(payloads')
    BY DEF SendInv, SenderType
  <2>2. sent' \in Seq(1..Len(given))
    <3>1. sent \in Seq(1..Len(given)) /\ bufferedNALUs \in Seq(1..cur) /\ cur \in 0..Len(given)
      BY DEF SendInv, SenderType
    <3>2. 1..cur \subseteq 1..Len(given)
      BY <3>1
    <3>3. bufferedNALUs \in Seq(1..Len(given))
      BY <3>1, <3>2
    <3> QED
      BY <3>1, <3>3, ConcatProperties
  <2>3. <<>> \in Seq(1..cur)
    BY EmptySeq
  <2> QED
    BY <2>1, <2>2, <2>3 DEF SendInv, SenderType
<1>2. LoopInv'
  BY DEF LoopInv
<1>3. AggregationInv'
  <2>1. mtu \in Nat
    BY MtuType DEF SendInv, SenderType
  <2> QED
    BY <2>1, EmptySeq DEF AggregationInv
<1>4. KeptInOrder'
  <2>1. Through' = Through
    <3>1. Through \in Seq(Nat)
      BY ThroughType
    <3>2. Through' = Through \o <<>>
      BY DEF Through
    <3> QED
      BY <3>1, <3>2, ConcatEmptySeq
  <2> QED
    BY <2>1, SameOrder
<1> QED
  BY <1>1, <1>2, <1>3, <1>4 DEF SendInv

LEMMA FlushStep ==
    ASSUME SendInv, flushBufferedNals
    PROVE  SendInv'
<1> USE DEF configVars, outVars
<1> DEFINE n == Len(bufferedNALUs)
           u == UnitsWritten(BufferedPieces)
           first == given[bufferedNALUs[1]]
<1>1. /\ pc = "scan" /\ bufferedNALUs # <<>>
      /\ sent' = sent \o bufferedNALUs
      /\ bufferedNALUs' = <<>> /\ aggregationBufferSize' = 0
      /\ UNCHANGED <<given, cur, configVars, pc, offset, outVars>>
  BY DEF flushBufferedNals, MustFlush
<1>2. n \in Nat /\ n > 0
  <2>1. n \in Nat /\ n # 0
    BY <1>1, ThroughType, EmptySeq
  <2> QED
    BY <2>1
<1>3. /\ BufferedPieces \in Seq(PieceType) /\ Len(BufferedPieces) = n
      /\ \A i \in 1..n : BufferedPieces[i] = WholePiece(BufferedPieces[i].nalu)
  BY BufferedFacts
<1>4. /\ WrittenDonl \in Seq(Donl) /\ (WrittenDonl = <<>> <=> ~add_donl)
      /\ NextDonl \in Donl /\ donl \in Donl /\ add_donl \in BOOLEAN
  BY DonlFacts DEF SendInv, SenderType
<1>5. /\ u \in Int /\ aggregationBufferSize \in Nat /\ mtu \in Nat
      /\ aggregationBufferSize <= mtu
      /\ aggregationBufferSize = u + (IF n > 1 THEN kH265NaluHeaderSize ELSE 0)
                                 + IfDonl(kDonlSize + n - 1)
  BY <1>2, BufferedSum
<1>6. CASE n = 1
  <2> DEFINE x == Payload("single", BufferedPieces, FALSE, FALSE, WrittenDonl,
                          first + IfDonl(kDonlSize))
  <2>1. payloads' = Append(payloads, x) /\ donl' = NextDonl
    BY <1>6 DEF flushBufferedNals, BufferedPieces
  <2>2. first \in Nat /\ PieceLen(BufferedPieces[1]) = first - kH265NaluHeaderSize
    BY <1>6, ThroughType, BufferedFacts
  <2>3. u = first + 2
    <3>1. Len(BufferedPieces) = 1 /\ PieceLen(BufferedPieces[1]) \in Int
      BY <1>3, <1>6, BufferedFacts
    <3> QED
      BY <2>2, <3>1, UnitsWrittenOne DEF kAggregationSizeField, kH265NaluHeaderSize
  <2> HIDE DEF u, first, n
  <2>4. x.size \in Nat /\ x.size <= mtu
    BY <1>4, <1>5, <1>6, <2>2, <2>3 DEF Payload, IfDonl, kDonlSize, kH265NaluHeaderSize
  <2>5. x.size = BytesWritten(x)
    BY <1>4, <2>2 DEF Payload, BytesWritten, IfDonl, kDonlSize, kH265NaluHeaderSize
  <2>6. x \in PayloadType
    <3>1. first + IfDonl(kDonlSize) \in Nat
      BY <2>4 DEF Payload
    <3> QED
      BY <1>3, <1>4, <3>1 DEF PayloadType, Payload
  <2>7. /\ Len(x.pieces) > 0 /\ (x.donl = <<>> <=> ~add_donl) /\ ~IsFragment(x)
        /\ \A i \in Position(x.pieces) : x.pieces[i] = WholePiece(x.pieces[i].nalu)
    BY <1>2, <1>3, <1>4 DEF Payload, IsFragment, Position
  <2> HIDE DEF x
  <2>8. /\ payloads' \in Seq(PayloadType') /\ Len(payloads) \in Nat
        /\ Len(payloads') = Len(payloads) + 1 /\ ShapeInv' /\ SizesRight'
    BY <1>1, <2>1, <2>4, <2>5, <2>6, <2>7, AppendPayload
  <2> QED
    BY <1>1, <1>4, <2>1, <2>8, FlushFrame
<1>7. CASE n # 1
  <2> DEFINE x == Payload("ap", BufferedPieces, FALSE, FALSE, WrittenDonl, aggregationBufferSize)
  <2>1. payloads' = Append(payloads, x) /\ donl' = donl
    BY <1>7 DEF flushBufferedNals, BufferedPieces
  <2> HIDE DEF u, n
  <2>2. x.size = BytesWritten(x)
    <3>1. aggregationBufferSize = u + kH265NaluHeaderSize + IfDonl(kDonlSize + n - 1)
      BY <1>2, <1>5, <1>7
    <3>2. BytesWritten(x) = kH265NaluHeaderSize + (IF WrittenDonl = <<>> THEN 0 ELSE kDonlSize)
                            + (u + (IF WrittenDonl = <<>> THEN 0 ELSE n - 1))
      BY <1>3 DEF BytesWritten, Payload, u
    <3>3. x.size = aggregationBufferSize
      BY DEF Payload
    <3> HIDE DEF x
    <3> QED
      BY <1>2, <1>4, <1>5, <3>1, <3>2, <3>3 DEF IfDonl, kDonlSize, kH265NaluHeaderSize
  <2>3. x \in PayloadType /\ x.size <= mtu
    BY <1>3, <1>4, <1>5 DEF PayloadType, Payload
  <2>4. /\ Len(x.pieces) > 0 /\ (x.donl = <<>> <=> ~add_donl) /\ ~IsFragment(x)
        /\ \A i \in Position(x.pieces) : x.pieces[i] = WholePiece(x.pieces[i].nalu)
    BY <1>2, <1>3, <1>4 DEF Payload, IsFragment, Position
  <2> HIDE DEF x
  <2>5. /\ payloads' \in Seq(PayloadType') /\ Len(payloads) \in Nat
        /\ Len(payloads') = Len(payloads) + 1 /\ ShapeInv' /\ SizesRight'
    BY <1>1, <2>1, <2>2, <2>3, <2>4, AppendPayload
  <2> QED
    BY <1>1, <1>4, <2>1, <2>5, FlushFrame
<1> QED
  BY <1>6, <1>7

LEMMA SkipShortStep ==
    ASSUME SendInv, SkipShort
    PROVE  SendInv'
<1> USE DEF SkipShort, configVars, bufferVars, outVars
<1>1. cur \in Nat /\ Len(given) \in Nat /\ Current = cur + 1 /\ Current \in 1..Len(given)
  BY CurrentFacts
<1>2. SenderType'
  <2>1. bufferedNALUs \in Seq(1..cur) /\ 1..cur \subseteq 1..Current
    BY <1>1 DEF SendInv, SenderType
  <2>2. bufferedNALUs \in Seq(1..Current) /\ Current \in 0..Len(given)
    BY <1>1, <2>1
  <2> QED
    BY <2>2 DEF SendInv, SenderType, PayloadType, PieceType
<1>3. LoopInv'
  BY DEF LoopInv
<1>4. AggregationInv'
  BY DEF SendInv, AggregationInv, WholePiece, IfDonl
<1>5. ShapeInv' /\ SizesRight'
  BY DEF SendInv, ShapeInv, SizesRight, Position, WholePiece, Fragment
<1>6. KeptInOrder'
  BY SkipOrder DEF Through
<1> QED
  BY <1>2, <1>3, <1>4, <1>5, <1>6 DEF SendInv

LEMMA BufferNaluStep ==
    ASSUME SendInv, BufferNalu
    PROVE  SendInv'
<1> USE DEF configVars, outVars
<1> DEFINE n == Len(bufferedNALUs)
           u == UnitsWritten(BufferedPieces)
           v == UnitsWritten(BufferedPieces')
           agg == aggregationBufferSize
           size == CurrentSize
<1>1. /\ pc = "scan" /\ cur < Len(given) /\ ~IsShort(size) /\ FitsOnePacket /\ ~MustFlush
      /\ bufferedNALUs' = Append(bufferedNALUs, Current)
      /\ agg' = agg + calcMarginalAggregationSize
      /\ cur' = Current
      /\ UNCHANGED <<given, mtu, add_donl, skip_aggregation, donl, pc, offset, payloads,
                     packets, marked, sent>>
  BY DEF BufferNalu, AtNalu
<1>2. /\ cur \in Nat /\ Len(given) \in Nat /\ Current = cur + 1 /\ Current \in 1..Len(given)
      /\ size \in Nat /\ mtu \in Nat
  BY <1>1, CurrentFacts
<1>3. n \in Nat /\ bufferedNALUs \in Seq(1..cur) /\ add_donl \in BOOLEAN
  BY ThroughType DEF SendInv, SenderType
<1>4. /\ bufferedNALUs' \in Seq(1..Current) /\ Len(bufferedNALUs') = n + 1
      /\ \A i \in 1..n : bufferedNALUs'[i] = bufferedNALUs[i]
      /\ bufferedNALUs'[n + 1] = Current
  <2>1. bufferedNALUs \in Seq(1..Current) /\ Current \in 1..Current
    <3>1. 1..cur \subseteq 1..Current
      BY <1>2
    <3> QED
      BY <1>2, <1>3, <3>1
  <2> QED
    BY <1>1, <2>1, AppendProperties
<1>5. /\ u \in Int /\ agg \in Nat /\ agg <= mtu
      /\ n = 0 => agg = 0 /\ u = 0
      /\ n > 0 => agg = u + (IF n > 1 THEN kH265NaluHeaderSize ELSE 0)
                        + IfDonl(kDonlSize + n - 1)
  BY BufferedSum
<1>6. v = u + 2 + size
  <2>1. /\ Len(BufferedPieces) = n
        /\ \A i \in 1..n : /\ BufferedPieces[i] = WholePiece(bufferedNALUs[i])
                           /\ PieceLen(BufferedPieces[i]) \in Int
    BY BufferedFacts
  <2>2. BufferedPieces' = [i \in 1..(n + 1) |-> WholePiece(bufferedNALUs'[i])]
    BY <1>1, <1>4 DEF BufferedPieces, WholePiece
  <2>3. PieceLen(WholePiece(Current)) = size - kH265NaluHeaderSize
    BY <1>2 DEF PieceLen, WholePiece, Piece, CurrentSize, kH265NaluHeaderSize
  <2> HIDE DEF n, size
  <2>4. /\ Len(BufferedPieces') = n + 1
        /\ \A i \in 1..n : BufferedPieces'[i] = BufferedPieces[i]
        /\ BufferedPieces'[n + 1] = WholePiece(Current)
    <3>1. \A i \in 1..n : i \in 1..(n + 1)
      BY <1>3
    <3>2. n + 1 \in 1..(n + 1)
      BY <1>3
    <3> QED
      BY <1>3, <1>4, <2>1, <2>2, <3>1, <3>2
  <2>5. \A i \in 1..(n + 1) : PieceLen(BufferedPieces'[i]) \in Int
    <3> SUFFICES ASSUME NEW i \in 1..(n + 1) PROVE PieceLen(BufferedPieces'[i]) \in Int
      OBVIOUS
    <3>1. CASE i = n + 1
      BY <1>2, <2>3, <2>4, <3>1 DEF kH265NaluHeaderSize
    <3>2. CASE i # n + 1
      <4>1. i \in 1..n
        BY <1>3, <3>2
      <4> QED
        BY <2>1, <2>4, <4>1
    <3> QED
      BY <3>1, <3>2
  <2>6. v = u + kAggregationSizeField + kH265NaluHeaderSize + PieceLen(BufferedPieces'[n + 1])
    BY <1>3, <2>1, <2>4, <2>5, UnitsWrittenAppend
  <2> QED
    BY <1>2, <1>5, <2>3, <2>4, <2>6 DEF kAggregationSizeField, kH265NaluHeaderSize
<1>7. calcMarginalAggregationSize = size + kAggregationSizeField
         + (IF n = 1 THEN kH265NaluHeaderSize ELSE 0)
         + IfDonl(IF n = 0 THEN kDonlSize ELSE 1)
  <2>1. bufferedNALUs = <<>> <=> n = 0
    BY <1>3, EmptySeq
  <2> QED
    BY <2>1 DEF calcMarginalAggregationSize
<1>8. n > 0 => agg + calcMarginalAggregationSize <= mtu
  <2>1. n > 0 => bufferedNALUs # <<>>
    BY EmptySeq
  <2>2. n > 0 => ~(agg + calcMarginalAggregationSize > mtu)
    BY <1>1, <2>1 DEF MustFlush, AtNalu
  <2>3. calcMarginalAggregationSize \in Int
    <3> HIDE DEF n, size
    <3> QED
      BY <1>2, <1>3, <1>7 DEF kAggregationSizeField, kH265NaluHeaderSize, IfDonl, kDonlSize
  <2> QED
    BY <1>2, <1>5, <2>2, <2>3
<1>9. size + kH265NaluHeaderSize + IfDonl(kDonlSize) <= mtu
  BY <1>1 DEF FitsOnePacket
<1>10. /\ agg' \in Nat /\ agg' <= mtu
       /\ agg' = v + (IF n + 1 > 1 THEN kH265NaluHeaderSize ELSE 0)
                 + IfDonl(kDonlSize + (n + 1) - 1)
  <2> HIDE DEF n, size, u, v, agg
  <2>1. CASE n = 0
    BY <1>1, <1>2, <1>3, <1>5, <1>6, <1>7, <1>9, <2>1
       DEF kAggregationSizeField, kH265NaluHeaderSize, IfDonl, kDonlSize
  <2>2. CASE n = 1
    BY <1>1, <1>2, <1>3, <1>5, <1>6, <1>7, <1>8, <2>2
       DEF kAggregationSizeField, kH265NaluHeaderSize, IfDonl, kDonlSize
  <2>3. CASE n > 1
    BY <1>1, <1>2, <1>3, <1>5, <1>6, <1>7, <1>8, <2>3
       DEF kAggregationSizeField, kH265NaluHeaderSize, IfDonl, kDonlSize
  <2> QED
    BY <1>3, <2>1, <2>2, <2>3
<1>11. SenderType'
  <2>1. Current \in 0..Len(given)
    BY <1>2
  <2> QED
    BY <1>1, <1>4, <1>10, <2>1 DEF SendInv, SenderType, PayloadType, PieceType
<1>12. LoopInv'
  BY <1>1 DEF LoopInv
<1>13. AggregationInv'
  <2>1. n + 1 # 0
    BY <1>3
  <2>2. \A i : IfDonl(i)' = IfDonl(i)
    BY <1>1 DEF IfDonl
  <2> HIDE DEF n
  <2> QED
    BY <1>1, <1>4, <1>10, <2>1, <2>2 DEF AggregationInv, BufferedPieces, IfDonl
<1>14. ShapeInv' /\ SizesRight'
  BY <1>1 DEF SendInv, ShapeInv, SizesRight, Position, WholePiece, Fragment
<1>15. KeptInOrder'
  <2>1. Through' = Append(Through, Current)
    <3>1. sent \in Seq(Nat) /\ bufferedNALUs \in Seq(Nat) /\ Current \in Nat
      BY <1>2, ThroughType
    <3>2. Through' = sent \o Append(bufferedNALUs, Current)
      BY <1>1 DEF Through
    <3>3. Through' = sent \o (bufferedNALUs \o <<Current>>)
      BY <3>1, <3>2, AppendIsConcat
    <3>4. Append(Through, Current) = (sent \o bufferedNALUs) \o <<Current>>
      BY <3>1, ThroughType, AppendIsConcat DEF Through
    <3>5. <<Current>> \in Seq(Nat)
      BY <3>1
    <3> QED
      BY <3>1, <3>3, <3>4, <3>5, ConcatAssociative
  <2> QED
    BY <1>1, <2>1, NextOrder
<1> QED
  BY <1>11, <1>12, <1>13, <1>14, <1>15 DEF SendInv

LEMMA StartFuStep ==
    ASSUME SendInv, StartFu
    PROVE  SendInv'
<1> USE DEF configVars, bufferVars, outVars
<1>1. /\ pc = "scan" /\ cur < Len(given) /\ ~IsShort(CurrentSize) /\ ~MustFlush
      /\ ~FitsOnePacket /\ maxFUPayloadSize > 0 /\ pc' = "fu" /\ offset' = 0
      /\ UNCHANGED <<given, cur, configVars, donl, bufferVars, payloads, outVars, sent>>
  BY DEF StartFu, AtNalu
<1>2. bufferedNALUs = <<>>
  BY <1>1 DEF MustFlush, AtNalu
<1>3. CurrentSize \in Nat /\ mtu \in Nat /\ add_donl \in BOOLEAN
  BY <1>1, CurrentFacts DEF SendInv, SenderType
<1>4. SenderType'
  BY <1>1 DEF SendInv, SenderType, PayloadType, PieceType
<1>5. LoopInv'
  <2>1. 0 < BodyLen
    <3>1. ~(CurrentSize < 2)
      BY <1>1 DEF IsShort, kH265NaluHeaderSize
    <3>2. ~(CurrentSize + 2 + IfDonl(2) <= mtu)
      BY <1>1 DEF FitsOnePacket, kH265NaluHeaderSize, kDonlSize
    <3>3. mtu - (1 + 2 + IfDonl(2)) > 0
      BY <1>1 DEF maxFUPayloadSize, fuPacketHeaderSize, kH265NaluHeaderSize, kDonlSize,
                  kH265FragmentationUnitHeaderSize
    <3>4. IfDonl(2) \in Nat
      BY DEF IfDonl
    <3> DEFINE x == IfDonl(2)
               size == CurrentSize
    <3> HIDE DEF x, size
    <3>5. size - 2 > 0
      BY <1>3, <3>1, <3>2, <3>3, <3>4 DEF x, size
    <3> QED
      BY <3>5 DEF size, BodyLen, kH265NaluHeaderSize
  <2> QED
    BY <1>1, <1>2, <2>1 DEF LoopInv, FitsOnePacket, CurrentSize, Current, IfDonl,
                            maxFUPayloadSize, fuPacketHeaderSize, BodyLen
<1>6. AggregationInv'
  BY <1>1 DEF SendInv, AggregationInv, WholePiece, IfDonl
<1>7. ShapeInv' /\ SizesRight'
  BY <1>1 DEF SendInv, ShapeInv, SizesRight, Position, WholePiece, Fragment
<1>8. KeptInOrder'
  BY <1>1, SameOrder DEF Through
<1> QED
  BY <1>4, <1>5, <1>6, <1>7, <1>8 DEF SendInv

\* The next fragment of the current NAL unit: never empty, and within its body.
LEMMA FragmentFacts ==
    ASSUME SendInv, pc = "fu"
    PROVE  /\ cur < Len(given) /\ offset \in Nat /\ BodyLen \in Nat
           /\ currentFUPayloadSize \in Nat \ {0}
           /\ offset + currentFUPayloadSize \in Nat
           /\ offset + currentFUPayloadSize <= BodyLen
           /\ fuPacketHeaderSize + currentFUPayloadSize <= mtu
           /\ fuPacketHeaderSize \in Nat
           /\ bufferedNALUs = <<>>
<1> DEFINE size == CurrentSize
           room == maxFUPayloadSize
           left == BodyLen - offset
<1>1. /\ cur < Len(given) /\ bufferedNALUs = <<>> /\ room > 0 /\ offset < BodyLen
      /\ offset \in Nat
  BY DEF SendInv, LoopInv, SenderType
<1>2. size \in Nat /\ mtu \in Nat
  BY <1>1, CurrentFacts
<1>3. BodyLen \in Int /\ fuPacketHeaderSize \in Nat /\ room = mtu - fuPacketHeaderSize
  <2>1. IfDonl(2) \in Nat
    BY DEF IfDonl
  <2>2. BodyLen = size - 2 /\ fuPacketHeaderSize = 1 + 2 + IfDonl(2)
    BY DEF BodyLen, kH265NaluHeaderSize, fuPacketHeaderSize, kDonlSize,
           kH265FragmentationUnitHeaderSize
  <2> HIDE DEF size
  <2> QED
    BY <1>2, <2>1, <2>2 DEF maxFUPayloadSize
<1>4. BodyLen \in Nat /\ left \in Nat /\ left > 0
  BY <1>1, <1>3
<1>5. currentFUPayloadSize = IF left > room THEN room ELSE left
  BY DEF currentFUPayloadSize
<1>6. room \in Int
  BY <1>2, <1>3
<1>7. BodyLen = offset + left
  BY <1>1, <1>3
<1> HIDE DEF left, room
<1>8. currentFUPayloadSize \in Nat \ {0} /\ currentFUPayloadSize <= left
      /\ currentFUPayloadSize <= room
  BY <1>1, <1>4, <1>5, <1>6
<1> QED
  BY <1>1, <1>2, <1>3, <1>4, <1>7, <1>8

LEMMA FuFragmentStep ==
    ASSUME SendInv, FuFragment
    PROVE  SendInv'
<1> USE DEF configVars, bufferVars, outVars
<1> DEFINE c == currentFUPayloadSize
           next == offset + c
           x == Payload("fu", <<Piece(Current, offset, next)>>, StartBit, EndBit,
                        WrittenDonl, fuPacketHeaderSize + c)
<1>1. /\ pc = "fu" /\ payloads' = Append(payloads, x) /\ donl' = NextDonl /\ offset' = next
      /\ next = BodyLen => pc' = "scan" /\ cur' = Current /\ sent' = Append(sent, Current)
      /\ next # BodyLen => UNCHANGED <<pc, cur, sent>>
      /\ UNCHANGED <<given, configVars, bufferVars, outVars>>
  BY DEF FuFragment
<1>2. /\ cur < Len(given) /\ offset \in Nat /\ BodyLen \in Nat
      /\ c \in Nat \ {0} /\ next \in Nat /\ next <= BodyLen
      /\ fuPacketHeaderSize + c <= mtu /\ fuPacketHeaderSize \in Nat
      /\ bufferedNALUs = <<>>
  BY <1>1, FragmentFacts
<1>3. /\ cur \in Nat /\ Len(given) \in Nat /\ Current \in 1..Len(given) /\ Current \in Nat
      /\ Current = cur + 1 /\ CurrentSize \in Nat \ {0} /\ mtu \in Nat
  BY <1>2, CurrentFacts
<1>4. /\ WrittenDonl \in Seq(Donl) /\ (WrittenDonl = <<>> <=> ~add_donl)
      /\ NextDonl \in Donl /\ add_donl \in BOOLEAN
  BY DonlFacts DEF SendInv, SenderType
<1> HIDE DEF c, next
<1>5. x \in PayloadType
  <2> DEFINE piece == Piece(Current, offset, next)
  <2>1. piece \in PieceType
    BY <1>2, <1>3 DEF PieceType, Piece
  <2> HIDE DEF piece
  <2>2. <<piece>> \in Seq(PieceType)
    BY <2>1
  <2>3. fuPacketHeaderSize + c \in Nat /\ StartBit \in BOOLEAN /\ EndBit \in BOOLEAN
    BY <1>2 DEF StartBit, EndBit
  <2> QED
    BY <1>4, <2>2, <2>3 DEF PayloadType, Payload, piece
<1>6. /\ x.size <= mtu /\ Len(x.pieces) > 0 /\ (x.donl = <<>> <=> ~add_donl) /\ IsFragment(x)
  BY <1>2, <1>4 DEF Payload, IsFragment
<1>7. x.pieces[1].from < x.pieces[1].to
  <2>1. x.pieces[1].from = offset /\ x.pieces[1].to = next
    BY DEF Payload, Piece
  <2> QED
    BY <1>2, <2>1 DEF next
<1>8. x.size = BytesWritten(x)
  <2>1. PieceLen(x.pieces[1]) = c
    <3>1. PieceLen(x.pieces[1]) = next - offset
      BY DEF Payload, Piece, PieceLen
    <3> QED
      BY <1>2, <3>1 DEF next
  <2>2. x.size = fuPacketHeaderSize + c /\ x.kind = "fu" /\ x.donl = WrittenDonl
    BY DEF Payload
  <2> HIDE DEF x
  <2>3. BytesWritten(x) = kH265NaluHeaderSize
                          + (IF WrittenDonl = <<>> THEN 0 ELSE kDonlSize)
                          + (kH265FragmentationUnitHeaderSize + c)
    BY <2>1, <2>2 DEF BytesWritten
  <2> QED
    BY <1>2, <1>4, <2>2, <2>3 DEF fuPacketHeaderSize, IfDonl, kDonlSize, kH265NaluHeaderSize,
                                  kH265FragmentationUnitHeaderSize
<1> HIDE DEF x
<1>9. /\ payloads' \in Seq(PayloadType') /\ Len(payloads) \in Nat
      /\ Len(payloads') = Len(payloads) + 1 /\ ShapeInv' /\ SizesRight'
  BY <1>1, <1>5, <1>6, <1>7, <1>8, AppendPayload
<1>10. SenderType'
  <2>1. cur' \in 0..Len(given) /\ pc' \in {"idle", "scan", "fu"}
    BY <1>1, <1>3 DEF SendInv, SenderType
  <2>2. bufferedNALUs \in Seq(1..cur')
    BY <1>2, EmptySeq
  <2>3. sent' \in Seq(1..Len(given))
    <3>1. sent \in Seq(1..Len(given))
      BY DEF SendInv, SenderType
    <3>2. Append(sent, Current) \in Seq(1..Len(given))
      BY <1>3, <3>1, AppendProperties
    <3> QED
      BY <1>1, <3>1, <3>2
  <2>4. packets \in 0..Len(payloads')
    BY <1>9 DEF SendInv, SenderType
  <2> QED
    BY <1>1, <1>2, <1>4, <1>9, <2>1, <2>2, <2>3, <2>4 DEF SendInv, SenderType
<1>11. LoopInv'
  <2>1. CASE next = BodyLen
    BY <1>1, <2>1 DEF LoopInv
  <2>2. CASE next # BodyLen
    <3>1. next < BodyLen
      BY <1>2, <2>2
    <3> QED
      BY <1>1, <2>2, <3>1 DEF SendInv, LoopInv, FitsOnePacket, CurrentSize, Current, IfDonl,
                              maxFUPayloadSize, fuPacketHeaderSize, BodyLen
  <2> QED
    BY <2>1, <2>2
<1>12. AggregationInv'
  BY <1>1 DEF SendInv, AggregationInv, WholePiece, IfDonl
<1>13. KeptInOrder'
  <2>1. CASE next = BodyLen
    <3>1. Through' = Append(Through, Current)
      <4>1. sent \in Seq(Nat) /\ Append(sent, Current) \in Seq(Nat)
        BY <1>3, ThroughType, AppendProperties
      <4>2. Through = sent
        BY <1>2, <4>1, ConcatEmptySeq DEF Through
      <4>3. Through' = Append(sent, Current)
        BY <1>1, <1>2, <2>1, <4>1, ConcatEmptySeq DEF Through
      <4> QED
        BY <4>2, <4>3
    <3>2. ~IsShort(CurrentSize)
      <4>1. BodyLen > 0
        BY <1>2 DEF next
      <4> QED
        BY <1>3, <4>1 DEF IsShort, BodyLen, kH265NaluHeaderSize
    <3> QED
      BY <1>1, <1>2, <2>1, <3>1, <3>2, NextOrder
  <2>2. CASE next # BodyLen
    BY <1>1, <2>2, SameOrder DEF Through
  <2> QED
    BY <2>1, <2>2
<1> QED
  BY <1>9, <1>10, <1>11, <1>12, <1>13 DEF SendInv

LEMMA ReturnStep ==
    ASSUME SendInv, Return
    PROVE  SendInv'
<1> USE DEF Return, configVars, bufferVars, outVars
<1>1. bufferedNALUs = <<>>
  BY DEF MustFlush
<1>2. SenderType'
  <2>1. /\ payloads \in Seq(PayloadType) /\ packets \in 0..Len(payloads)
        /\ marked \subseteq 1..packets /\ Len(payloads) \in Nat
    BY LenProperties DEF SendInv, SenderType
  <2> DEFINE n == Len(payloads)
  <2>2. packets' = n /\ marked' = IF n > packets THEN marked \cup {n} ELSE marked
    BY DEF MarkedPacket
  <2>3. n \in Nat /\ packets \in 0..n
    BY <2>1
  <2> HIDE DEF n
  <2>4. n > packets => n \in 1..n
    BY <2>3
  <2>5. 1..packets \subseteq 1..n
    BY <2>3
  <2>6. packets' \in 0..n /\ marked' \subseteq 1..packets'
    <3>1. marked \subseteq 1..n
      BY <2>1, <2>5
    <3>2. marked' \subseteq 1..n
      BY <2>2, <2>4, <3>1
    <3> QED
      BY <2>2, <2>3, <3>2
  <2> QED
    BY <2>6 DEF SendInv, SenderType, PayloadType, PieceType, n
<1>3. LoopInv'
  BY DEF LoopInv
<1>4. AggregationInv'
  BY DEF SendInv, AggregationInv, WholePiece, IfDonl
<1>5. ShapeInv' /\ SizesRight'
  BY DEF SendInv, ShapeInv, SizesRight, Position, WholePiece, Fragment
<1>6. KeptInOrder'
  BY <1>1, SameOrder DEF Through
<1> QED
  BY <1>2, <1>3, <1>4, <1>5, <1>6 DEF SendInv

LEMMA SendStep ==
    ASSUME SendInv, PacketizerNext
    PROVE  SendInv'
BY WithSkipAggregationStep, PacketizeStep, FlushStep, SkipShortStep, BufferNaluStep,
   StartFuStep, FuFragmentStep, ReturnStep, SendFrame DEF PacketizerNext, Working, ContinueInPlace

LEMMA SendInductive ==
    ASSUME SendInv, [Next]_vars
    PROVE  SendInv'
<1>1. CASE SetDONL
  BY <1>1, DonlAssumption, WithDONLStep DEF SetDONL
<1>2. CASE Send
  BY <1>2, SendStep DEF Send
<1>3. CASE Receive \/ Lose \/ UNCHANGED vars
  BY <1>3, SendFrame DEF Receive, Lose, vars
<1> QED
  BY <1>1, <1>2, <1>3 DEF Next

\* The payload of every packet fits the MTU, and the sum the code keeps while it
\* puts an aggregation packet together is the size it needs: for every sequence of
\* frames, with and without decoding order numbers.
THEOREM Sizes == Spec => []SizesRight
<1>1. Init => SendInv
  BY SendInit DEF Init
<1>2. SendInv /\ [Next]_vars => SendInv'
  BY SendInductive
<1>3. SendInv => SizesRight
  BY DEF SendInv
<1> QED
  BY <1>1, <1>2, <1>3, PTL DEF Spec

\* The NAL units sent, buffered and still to scan are those given, in order and
\* each once; nothing stays buffered over calls.
THEOREM Order == Spec => []KeptInOrder
<1>1. Init => SendInv
  BY SendInit DEF Init
<1>2. SendInv /\ [Next]_vars => SendInv'
  BY SendInductive
<1>3. SendInv => KeptInOrder
  BY DEF SendInv
<1> QED
  BY <1>1, <1>2, <1>3, PTL DEF Spec

-----------------------------------------------------------------------------
(* Both ends.                                                              *)

\* NAL units and payloads are only added, at the end.
Grown ==
    /\ Len(given) \in Nat /\ Len(given') \in Nat /\ Len(given) <= Len(given')
    /\ \A k \in 1..Len(given) : given'[k] = given[k]
    /\ Len(payloads) \in Nat /\ Len(payloads') \in Nat /\ Len(payloads) <= Len(payloads')
    /\ \A p \in 1..Len(payloads) : payloads'[p] = payloads[p]
    /\ packets \in Nat /\ packets' \in Nat /\ packets <= packets'
    /\ packets <= Len(payloads)

LEMMA AppendGrows ==
    ASSUME NEW made, NEW S, made \in Seq(S), NEW x
    PROVE  /\ Len(made) \in Nat /\ Len(Append(made, x)) = Len(made) + 1
           /\ \A p \in 1..Len(made) : Append(made, x)[p] = made[p]
           /\ Append(made, x)[Len(made) + 1] = x
<1>1. made \in Seq(S \cup {x}) /\ x \in S \cup {x}
  OBVIOUS
<1> QED
  BY <1>1, AppendProperties, LenProperties

LEMMA StepGrows ==
    ASSUME SendInv, [Next]_vars
    PROVE  Grown /\ mtu' = mtu
<1>1. /\ payloads \in Seq(PayloadType) /\ given \in Seq(Nat \ {0}) /\ packets \in 0..Len(payloads)
      /\ Len(payloads) \in Nat /\ Len(given) \in Nat
  BY LenProperties DEF SendInv, SenderType
<1>2. CASE UNCHANGED <<given, payloads, packets, mtu>>
  BY <1>1, <1>2 DEF Grown
<1>3. ASSUME NEW frame \in Frames(mtu), Packetize(frame)
      PROVE  Grown /\ mtu' = mtu
  BY <1>1, <1>3, GivenGrows DEF Packetize, configVars, outVars, Grown
<1>4. ASSUME NEW x, payloads' = Append(payloads, x), UNCHANGED <<given, packets, mtu>>
      PROVE  Grown /\ mtu' = mtu
  <2>1. /\ Len(payloads') = Len(payloads) + 1
        /\ \A p \in 1..Len(payloads) : payloads'[p] = payloads[p]
    BY <1>1, <1>4, AppendGrows
  <2> QED
    BY <1>1, <1>4, <2>1 DEF Grown
<1>5. CASE flushBufferedNals
  <2>1. UNCHANGED <<given, packets, mtu>>
    BY <1>5 DEF flushBufferedNals, configVars, outVars
  <2>2. \E x : payloads' = Append(payloads, x)
    BY <1>5 DEF flushBufferedNals
  <2> QED
    BY <1>4, <2>1, <2>2
<1>6. CASE FuFragment
  <2>1. UNCHANGED <<given, packets, mtu>>
    BY <1>6 DEF FuFragment, configVars, outVars
  <2>2. \E x : payloads' = Append(payloads, x)
    BY <1>6 DEF FuFragment
  <2> QED
    BY <1>4, <2>1, <2>2
<1>7. CASE Return
  BY <1>1, <1>7 DEF Return, configVars, outVars, Grown
<1>8. CASE SkipShort \/ BufferNalu \/ StartFu \/ ContinueInPlace
  BY <1>2, <1>8 DEF SkipShort, BufferNalu, StartFu, ContinueInPlace, packetizerVars,
                    configVars, outVars
<1>9. CASE SetDONL
  BY <1>2, <1>9 DEF SetDONL, WithDONL, outVars
<1>10. ASSUME NEW value, WithSkipAggregation(value) PROVE Grown /\ mtu' = mtu
  BY <1>2, <1>10 DEF WithSkipAggregation, outVars
<1>11. CASE Receive \/ Lose \/ UNCHANGED vars
  BY <1>2, <1>11 DEF Receive, Lose, vars, packetizerVars, configVars, outVars
<1> QED
  BY <1>3, <1>5, <1>6, <1>7, <1>8, <1>9, <1>10, <1>11 DEF Next, Send, PacketizerNext, Working

\* The packet that arrives next.
LEMMA NextPacket ==
    ASSUME SendInv, TypeOK, rcvd < packets
    PROVE  /\ rcvd \in Nat /\ rcvd + 1 \in Position(payloads) /\ rcvd + 1 \in 1..packets
           /\ rcvd' = rcvd + 1 => rcvd' \in 0..packets
<1>1. rcvd \in 0..packets /\ packets \in 0..Len(payloads) /\ Len(payloads) \in Nat
  BY LenProperties DEF TypeOK, SenderType
<1> QED
  BY <1>1 DEF Position

LEMMA ReceiverFrame ==
    ASSUME SendInv, TypeOK, Grown, UNCHANGED <<depacketizerVars, transportVars>>
    PROVE  ReceiverType' /\ (rcvd \in 0..packets)' /\ (lost \subseteq 1..rcvd)'
<1> USE DEF depacketizerVars, fragmentVars, transportVars
<1>1. UnitType \subseteq UnitType'
  <2>1. 1..Len(given) \subseteq 1..Len(given')
    BY DEF Grown
  <2> QED
    BY <2>1 DEF UnitType
<1>2. delivered \in Seq(UnitType') /\ h265_frame \in Seq(UnitType')
  <2>1. delivered \in Seq(UnitType) /\ h265_frame \in Seq(UnitType)
    BY DEF TypeOK, ReceiverType
  <2> QED
    BY <1>1, <2>1
<1>3. fragment_hdr \in 0..Len(given')
  BY DEF TypeOK, ReceiverType, Grown
<1>4. rcvd \in 0..packets'
  BY DEF TypeOK, Grown
<1> QED
  BY <1>2, <1>3, <1>4 DEF TypeOK, ReceiverType

\* A NAL unit put into the caller's vector.
LEMMA OutputType ==
    ASSUME TypeOK, NEW k \in 1..Len(given), NEW body \in Body, Output(Unit(k, body)),
           given' = given
    PROVE  (/\ delivered \in Seq(UnitType) /\ h265_frame \in Seq(UnitType)
            /\ outcome \in {"none", "true", "false"})'
<1>1. Unit(k, body) \in UnitType /\ UnitType' = UnitType
  BY DEF Unit, UnitType, Body
<1>2. delivered \in Seq(UnitType)
  BY DEF TypeOK, ReceiverType
<1>3. Append(delivered, Unit(k, body)) \in Seq(UnitType) /\ <<Unit(k, body)>> \in Seq(UnitType)
  BY <1>1, <1>2, AppendProperties
<1> QED
  BY <1>1, <1>3 DEF Output

LEMMA ReceiveTypes ==
    ASSUME SendInv, TypeOK, EndsInv, Receive
    PROVE  ReceiverType' /\ EndsInv'
<1> DEFINE x == payloads[rcvd + 1]
           k == x.pieces[1].nalu
<1> USE DEF fragmentVars
<1>1. /\ k \in 1..Len(given) /\ PieceBytes(x.pieces[1]) \in Body /\ FuBody(x) \in Body
      /\ x.e \in BOOLEAN
  <2>1. rcvd + 1 \in Position(payloads)
    BY NextPacket DEF Receive
  <2>2. x \in PayloadType
    BY <2>1, PayloadFacts DEF SendInv
  <2> QED
    BY <2>1, <2>2, PayloadFacts DEF SendInv, Fragment, PayloadType
<1>2. Depacketize(x) /\ UNCHANGED <<given, add_donl>>
  BY DEF Receive, packetizerVars, configVars
<1>3. /\ might_need_donl \in BOOLEAN /\ fragment_hdr \in 0..Len(given)
      /\ fragment_buffer \in Body /\ current_fragment_is_valid \in BOOLEAN
      /\ delivered \in Seq(UnitType) /\ h265_frame \in Seq(UnitType)
      /\ outcome \in {"none", "true", "false"}
  BY DEF TypeOK, ReceiverType, Body
<1>4. UnitType' = UnitType
  BY <1>2 DEF UnitType
<1> HIDE DEF k
<1>5. CASE ParseSingle(x)
  <2>1. might_need_donl' = might_need_donl /\ UNCHANGED fragmentVars
    BY <1>5 DEF ParseSingle
  <2>2. Output(Unit(k, PieceBytes(x.pieces[1]))) \/ NoOutput("false")
    BY <1>5 DEF ParseSingle, k
  <2>3. (/\ delivered \in Seq(UnitType) /\ h265_frame \in Seq(UnitType)
         /\ outcome \in {"none", "true", "false"})'
    BY <1>1, <1>2, <1>3, <1>4, <2>2, OutputType DEF NoOutput
  <2> QED
    BY <1>2, <1>3, <2>1, <2>3 DEF ReceiverType, EndsInv, Body
<1>6. CASE ParseAggregation(x)
  <2>1. might_need_donl' = might_need_donl /\ UNCHANGED fragmentVars
    BY <1>6 DEF ParseAggregation
  <2>2. Output(Unit(k, PieceBytes(x.pieces[1])))
    BY <1>6 DEF ParseAggregation, k
  <2>3. (/\ delivered \in Seq(UnitType) /\ h265_frame \in Seq(UnitType)
         /\ outcome \in {"none", "true", "false"})'
    BY <1>1, <1>2, <2>2, OutputType
  <2> QED
    BY <1>2, <1>3, <2>1, <2>3 DEF ReceiverType, EndsInv, Body
<1>7. CASE ParseFu(x)
  <2> DEFINE begun == Restarts(x)
             hdr == IF begun THEN k ELSE fragment_hdr
             joined == BufferBefore(x) \o FuBody(x)
  <2>1. might_need_donl' = might_need_donl
    BY <1>7 DEF ParseFu
  <2>2. CASE begun \/ current_fragment_is_valid
    <3>1. hdr \in 1..Len(given)
      BY <1>1, <1>3, <2>2 DEF EndsInv
    <3>2. joined \in Body
      <4>1. BufferBefore(x) \in Body
        BY <1>3, EmptySeq DEF BufferBefore, Body
      <4> QED
        BY <1>1, <4>1, ConcatProperties DEF Body
    <3>3. /\ fragment_hdr' = hdr /\ fragment_buffer' = joined
          /\ current_fragment_is_valid' = ~x.e
          /\ Output(Unit(hdr, joined)) \/ NoOutput("false")
      BY <1>7, <2>2 DEF ParseFu, k, LeftOpen
    <3> HIDE DEF hdr, joined, x
    <3>4. (/\ delivered \in Seq(UnitType) /\ h265_frame \in Seq(UnitType)
           /\ outcome \in {"none", "true", "false"})'
      BY <1>2, <1>3, <1>4, <3>1, <3>2, <3>3, OutputType DEF NoOutput
    <3>5. fragment_hdr' \in 0..Len(given') /\ fragment_hdr' # 0
          /\ current_fragment_is_valid' \in BOOLEAN
      BY <1>1, <1>2, <3>1, <3>3
    <3> QED
      BY <1>2, <1>3, <2>1, <3>2, <3>3, <3>4, <3>5 DEF ReceiverType, EndsInv, Body
  <2>3. CASE ~(begun \/ current_fragment_is_valid)
    <3>1. NoOutput("false") /\ UNCHANGED fragmentVars
      BY <1>7, <2>3 DEF ParseFu
    <3> QED
      BY <1>2, <1>3, <1>4, <2>1, <3>1 DEF ReceiverType, EndsInv, Body, NoOutput
  <2> QED
    BY <2>2, <2>3
<1> QED
  BY <1>2, <1>5, <1>6, <1>7 DEF Depacketize

LEMMA SenderInvInit == Init => SenderInv
<1> SUFFICES ASSUME Init PROVE SenderInv
  OBVIOUS
<1>1. SendInv
  BY SendInit DEF Init
<1>2. ReceiverType /\ EndsInv
  <2>1. Len(given) \in Nat
    BY <1>1, LenProperties DEF SendInv, SenderType
  <2>2. 0 \in 0..Len(given)
    BY <2>1
  <2>3. /\ might_need_donl = FALSE /\ add_donl = FALSE /\ fragment_hdr = 0
        /\ fragment_buffer = <<>> /\ current_fragment_is_valid = FALSE
        /\ h265_frame = <<>> /\ delivered = <<>> /\ outcome = "none"
    BY DEF Init, DepacketizerInit, PacketizerInit
  <2>4. <<>> \in Seq(UnitType) /\ <<>> \in Seq(Nat \X Nat)
    OBVIOUS
  <2>5. ReceiverType
    BY <2>2, <2>3, <2>4 DEF ReceiverType
  <2> QED
    BY <2>3, <2>5 DEF EndsInv
<1>3. rcvd \in 0..packets /\ lost \subseteq 1..rcvd
  BY DEF Init, PacketizerInit
<1> QED
  BY <1>1, <1>2, <1>3 DEF SendInv, SenderInv, TypeOK

LEMMA SenderInvStep ==
    ASSUME SenderInv, [Next]_vars
    PROVE  SenderInv'
<1>1. SendInv /\ TypeOK /\ EndsInv
  BY DEF SenderInv, SendInv, TypeOK
<1>2. SendInv'
  BY <1>1, SendInductive
<1>3. Grown
  BY <1>1, StepGrows
<1>4. SUFFICES ReceiverType' /\ (rcvd \in 0..packets)' /\ (lost \subseteq 1..rcvd)' /\ EndsInv'
  BY <1>2 DEF SendInv, SenderInv, TypeOK
<1>5. CASE SetDONL
  <2>1. PICK value \in BOOLEAN : WithDONL(value) /\ ExpectDONL(value)
    BY <1>5, DonlAssumption DEF SetDONL
  <2>2. UNCHANGED <<given, fragmentVars, h265_frame, delivered, outcome, rcvd, lost, packets>>
        /\ might_need_donl' = value /\ add_donl' = value
    BY <1>5, <2>1 DEF SetDONL, WithDONL, ExpectDONL, transportVars, outVars
  <2>3. UnitType' = UnitType
    BY <2>2 DEF UnitType
  <2> QED
    BY <1>1, <2>2, <2>3 DEF TypeOK, ReceiverType, EndsInv, fragmentVars
<1>6. CASE Send
  <2>1. UNCHANGED <<depacketizerVars, transportVars>> /\ PacketizerNext
    BY <1>6 DEF Send
  <2>2. add_donl' = add_donl
    BY <2>1 DEF PacketizerNext, Working, WithSkipAggregation, Packetize, flushBufferedNals,
                SkipShort, BufferNalu, StartFu, ContinueInPlace, FuFragment, Return,
                configVars, packetizerVars
  <2>3. EndsInv'
    BY <1>1, <2>1, <2>2 DEF EndsInv, depacketizerVars, fragmentVars
  <2> QED
    BY <1>1, <1>3, <2>1, <2>3, ReceiverFrame
<1>7. CASE Receive
  <2>1. ReceiverType' /\ EndsInv'
    BY <1>1, <1>7, ReceiveTypes
  <2>2. rcvd' \in 0..packets /\ packets' = packets /\ lost' = lost /\ rcvd' = rcvd + 1
    BY <1>1, <1>7, NextPacket DEF Receive, packetizerVars, outVars
  <2>3. lost \subseteq 1..rcvd'
    BY <1>1, <2>2 DEF TypeOK
  <2> QED
    BY <2>1, <2>2, <2>3
<1>8. CASE Lose
  <2>1. /\ rcvd' \in 0..packets /\ packets' = packets /\ rcvd' = rcvd + 1 /\ rcvd \in Nat
        /\ lost' = lost \cup {rcvd + 1}
        /\ UNCHANGED <<given, add_donl, depacketizerVars>>
    BY <1>1, <1>8, NextPacket DEF Lose, packetizerVars, outVars, configVars
  <2>2. lost' \subseteq 1..rcvd'
    BY <1>1, <2>1 DEF TypeOK
  <2>3. ReceiverType' /\ EndsInv'
    BY <1>1, <2>1 DEF TypeOK, ReceiverType, UnitType, EndsInv, depacketizerVars, fragmentVars
  <2> QED
    BY <2>1, <2>2, <2>3
<1>9. CASE UNCHANGED vars
  BY <1>1, <1>9 DEF vars, packetizerVars, outVars, configVars, transportVars, depacketizerVars,
                    fragmentVars, TypeOK, ReceiverType, UnitType, EndsInv
<1> QED
  BY <1>5, <1>6, <1>7, <1>8, <1>9 DEF Next

\* Every variable keeps the type the code declares for it, positions stay within
\* what has been made, and packets arrive only after the call that made them.
THEOREM TypeCorrect == Spec => []TypeOK
<1>1. Init => SenderInv
  BY SenderInvInit
<1>2. SenderInv /\ [Next]_vars => SenderInv'
  BY SenderInvStep
<1>3. SenderInv => TypeOK
  BY DEF SenderInv
<1> QED
  BY <1>1, <1>2, <1>3, PTL DEF Spec

-----------------------------------------------------------------------------
(* The bodies the fragments make.                                          *)

PartsAreBodies == \A p \in 1..Len(payloads) : PartOf(payloads[p]) \in Body

LEMMA Parts == SendInv => PartsAreBodies
BY PayloadFacts DEF PartsAreBodies, Position, SendInv

\* What has been assembled does not change with the payloads that follow.
LEMMA AssembledStays ==
    ASSUME SendInv, SendInv', Grown
    PROVE  \A p \in 0..Len(payloads) : Assembled'[p] = Assembled[p]
<1>1. PartsAreBodies'
  BY Parts, PTL
<1>2. \A p \in 1..Len(payloads') : PartOf(payloads'[p]) \in Body
  BY <1>1 DEF PartsAreBodies
<1>3. \A p \in 0..Len(payloads) : AssembledFrom(payloads')[p] = AssembledFrom(payloads)[p]
  BY <1>2, AssembledPrefix DEF Grown
<1> QED
  BY <1>3 DEF Assembled

-----------------------------------------------------------------------------
(* The fragments of a NAL unit follow each other.                          *)

\* What has been made stays as it was.
LEMMA MadeStays ==
    ASSUME Grown
    PROVE  /\ \A p \in 1..Len(payloads) : Fragment(p)' = Fragment(p)
           /\ \A p \in 1..(Len(payloads) + 1) : Continues(p)' <=> Continues(p)
<1>1. \A p \in 1..Len(payloads) : Fragment(p)' = Fragment(p)
  BY DEF Grown, Fragment
<1>2. ASSUME NEW p \in 1..(Len(payloads) + 1), p > 1
      PROVE  payloads'[p - 1] = payloads[p - 1]
  BY <1>2 DEF Grown
<1>3. ASSUME NEW p \in 1..(Len(payloads) + 1)
      PROVE  Continues(p)' <=> Continues(p)
  BY <1>2 DEF Continues
<1> QED
  BY <1>1, <1>3

LEMMA ChainStays ==
    ASSUME SenderInv, SenderInv', Grown, UNCHANGED add_donl, ChainInv
    PROVE  \A p \in 1..Len(payloads) : ChainAt(p)'
<1> SUFFICES ASSUME NEW p \in 1..Len(payloads) PROVE ChainAt(p)'
  OBVIOUS
<1>1. SendInv /\ SendInv' /\ p \in Nat /\ p \in 0..Len(payloads) /\ p \in Position(payloads)
  BY DEF SenderInv, SendInv, TypeOK, Position
<1>2. /\ payloads'[p] = payloads[p] /\ Fragment(p)' = Fragment(p)
      /\ Continues(p)' <=> Continues(p)
      /\ Continues(p) => Fragment(p - 1)' = Fragment(p - 1)
  <2>1. p \in 1..(Len(payloads) + 1)
    BY DEF Grown
  <2>2. Continues(p) => p - 1 \in 1..Len(payloads)
    BY DEF Grown, Continues
  <2>3. payloads'[p] = payloads[p]
    BY DEF Grown
  <2> QED
    BY <2>1, <2>2, <2>3, MadeStays
<1>3. Assembled'[p] = Assembled[p]
  BY <1>1, AssembledStays
<1>4. given'[Fragment(p).nalu] = given[Fragment(p).nalu]
  <2>1. Fragment(p).nalu \in 1..Len(given)
    BY <1>1, PayloadFacts DEF SendInv
  <2> QED
    BY <2>1 DEF Grown
<1>5. ChainAt(p)
  BY <1>1 DEF ChainInv
<1> QED
  BY <1>2, <1>3, <1>4, <1>5 DEF ChainAt

\* A step of the packetizer that makes no payload.
LEMMA ChainUnchanged ==
    ASSUME SenderInv, SenderInv', Grown, UNCHANGED <<add_donl, payloads>>, ChainInv
    PROVE  ChainInv'
<1>1. \A p \in 1..Len(payloads) : ChainAt(p)'
  BY ChainStays
<1>2. Position(payloads') = 1..Len(payloads)
  BY DEF Position
<1> QED
  BY <1>1, <1>2 DEF ChainInv

LEMMA ChainAppended ==
    ASSUME SenderInv, SenderInv', Grown, UNCHANGED add_donl, ChainInv,
           NEW n \in Nat, n = Len(payloads), Len(payloads') = n + 1, ChainAt(n + 1)'
    PROVE  ChainInv'
<1>1. \A p \in 1..n : ChainAt(p)'
  BY ChainStays
<1>2. Position(payloads') = 1..(n + 1)
  BY DEF Position
<1>3. \A p \in 1..(n + 1) : p \in 1..n \/ p = n + 1
  OBVIOUS
<1>4. \A p \in 1..(n + 1) : ChainAt(p)'
  BY <1>1, <1>3
<1> QED
  BY <1>2, <1>4 DEF ChainInv

\* A packet with whole NAL units ends what is before it, and is only made where
\* no NAL unit is open.
LEMMA FlushChain ==
    ASSUME SenderInv, SenderInv', Grown, ChainInv, OpenInv, flushBufferedNals
    PROVE  ChainInv' /\ OpenInv'
<1>1. PICK n \in Nat : n = Len(payloads)
  BY DEF Grown
<1>2. PICK x : payloads' = Append(payloads, x) /\ ~IsFragment(x)
  BY DEF flushBufferedNals, Payload, IsFragment
<1>3. Len(payloads') = n + 1 /\ payloads'[n + 1] = x
  <2>1. payloads \in Seq(PayloadType)
    BY DEF SenderInv, TypeOK, SenderType
  <2> QED
    BY <1>1, <1>2, <2>1, AppendGrows
<1>4. pc = "scan" /\ pc' = "scan" /\ add_donl' = add_donl
  BY DEF flushBufferedNals, MustFlush, configVars
<1>5. ~Continues(n + 1)'
  <2>1. ~Continues(n + 1)
    BY <1>1, <1>4 DEF OpenInv
  <2>2. n + 1 \in 1..(n + 1)
    OBVIOUS
  <2> QED
    BY <1>1, <2>1, <2>2, MadeStays
<1>6. ChainAt(n + 1)'
  BY <1>2, <1>3, <1>5 DEF ChainAt
<1>7. ~Continues((n + 1) + 1)'
  <2>1. ((n + 1) + 1) - 1 = n + 1
    OBVIOUS
  <2> QED
    BY <1>2, <1>3, <2>1 DEF Continues, EndsNalu
<1>8. OpenInv'
  BY <1>3, <1>4, <1>7 DEF OpenInv
<1> QED
  BY <1>1, <1>3, <1>4, <1>6, <1>8, ChainAppended

\* With room left in one packet a NAL unit is not cut, and with more than one
\* fragment the last has the end bit.
LEMMA LastHasEnd ==
    ASSUME SendInv, NoLoneFragment, pc = "fu",
           offset + currentFUPayloadSize = BodyLen
    PROVE  EndBit
<1>1. /\ cur < Len(given) /\ offset \in Nat /\ BodyLen \in Nat
      /\ fuPacketHeaderSize + currentFUPayloadSize <= mtu
      /\ fuPacketHeaderSize \in Nat /\ currentFUPayloadSize \in Nat
  BY FragmentFacts
<1>2. /\ CurrentSize \in Nat /\ mtu \in Nat /\ Current \in Position(given)
  BY <1>1, CurrentFacts DEF Position
<1>3. ~(CurrentSize + kH265NaluHeaderSize + IfDonl(kDonlSize) <= mtu)
  BY DEF SendInv, LoopInv, FitsOnePacket
<1>4. CurrentSize # mtu - kH265FragmentationUnitHeaderSize - IfDonl(kDonlSize)
  BY <1>2 DEF NoLoneFragment, CurrentSize
<1> DEFINE size == CurrentSize
           extra == IfDonl(2)
           c == currentFUPayloadSize
<1>5. /\ fuPacketHeaderSize = 1 + 2 + extra /\ extra \in Nat /\ BodyLen = size - 2
      /\ size # mtu - 1 - extra /\ ~(size + 2 + extra <= mtu)
  BY <1>3, <1>4 DEF fuPacketHeaderSize, IfDonl, BodyLen, kH265FragmentationUnitHeaderSize,
                    kH265NaluHeaderSize, kDonlSize
<1> HIDE DEF size, extra, c
<1>6. offset # 0
  <2> SUFFICES ASSUME offset = 0 PROVE FALSE
    OBVIOUS
  <2>1. c = size - 2
    BY <1>1, <1>5 DEF c
  <2>2. 3 + extra + c <= mtu /\ size \in Nat
    BY <1>1, <1>2, <1>5 DEF c, size
  <2> QED
    BY <1>2, <1>5, <2>1, <2>2
<1> QED
  BY <1>6 DEF EndBit, StartBit

\* The body up to the newest payload.
LEMMA AssembledNext ==
    ASSUME SendInv, SendInv', Grown, NEW n \in Nat, n = Len(payloads), Len(payloads') = n + 1,
           NEW x, payloads'[n + 1] = x
    PROVE  /\ PartOf(x) \in Body /\ Assembled[n] \in Body
           /\ Assembled'[n + 1] = (IF x.s THEN <<>> ELSE Assembled[n]) \o PartOf(x)
<1>1. PartsAreBodies' /\ PartsAreBodies
  BY Parts, PTL
<1>2. /\ \A p \in 1..(n + 1) : PartOf(payloads'[p]) \in Body
      /\ \A p \in 1..n : PartOf(payloads[p]) \in Body
  BY <1>1 DEF PartsAreBodies
<1>3. n + 1 \in 1..(n + 1) /\ (n + 1) - 1 = n /\ n \in 0..n
  OBVIOUS
<1>4. AssembledFrom(payloads')[n + 1] =
         (IF x.s THEN <<>> ELSE AssembledFrom(payloads')[n]) \o PartOf(x)
  <2>1. Len(payloads') \in Nat /\ \A p \in 1..Len(payloads') : PartOf(payloads'[p]) \in Body
    BY <1>2
  <2>2. \A p \in 1..Len(payloads') :
           AssembledFrom(payloads')[p] =
               (IF payloads'[p].s THEN <<>> ELSE AssembledFrom(payloads')[p - 1])
               \o PartOf(payloads'[p])
    BY <2>1, AssembledSteps
  <2> QED
    BY <1>3, <2>2
<1>5. AssembledFrom(payloads')[n] = AssembledFrom(payloads)[n]
  BY <1>3, AssembledStays DEF Assembled
<1>6. AssembledFrom(payloads)[n] \in Body
  <2>1. AssembledFrom(payloads) \in [0..n -> Body]
    BY <1>2, AssembledSteps
  <2> QED
    BY <1>3, <2>1
<1> QED
  BY <1>2, <1>3, <1>4, <1>5, <1>6 DEF Assembled

LEMMA FuChain ==
    ASSUME SenderInv, SenderInv', Grown, NoLoneFragment, ChainInv, OpenInv, FuFragment
    PROVE  ChainInv' /\ OpenInv'
<1>1. PICK n \in Nat : n = Len(payloads)
  BY DEF Grown
<1>2. SendInv /\ SendInv'
  BY DEF SenderInv, SendInv, TypeOK
<1>3. PICK k \in Nat : k = Current /\ cur < Len(given)
  <2>1. cur < Len(given)
    BY <1>2 DEF SendInv, LoopInv, FuFragment
  <2> QED
    BY <1>2, <2>1, CurrentFacts
<1>4. PICK from \in Nat : from = offset
  BY DEF SenderInv, TypeOK, SenderType
<1>5. PICK to \in Nat : to = offset + currentFUPayloadSize /\ from < to
  BY <1>2, <1>4, FragmentFacts DEF FuFragment
<1>6. PICK x : /\ payloads' = Append(payloads, x) /\ IsFragment(x)
               /\ x.pieces[1] = Piece(k, from, to)
               /\ x.s = (from = 0) /\ x.e = (from # 0 /\ to = BodyLen)
               /\ x.donl = WrittenDonl
  <2> DEFINE x == Payload("fu", <<Piece(Current, offset, offset + currentFUPayloadSize)>>,
                          StartBit, EndBit, WrittenDonl, fuPacketHeaderSize + currentFUPayloadSize)
  <2>1. payloads' = Append(payloads, x)
    BY DEF FuFragment
  <2>2. /\ IsFragment(x) /\ x.pieces[1] = Piece(k, from, to)
        /\ x.s = StartBit /\ x.e = EndBit /\ x.donl = WrittenDonl
    BY <1>3, <1>4, <1>5 DEF Payload, IsFragment
  <2>3. StartBit = (from = 0) /\ EndBit = (from # 0 /\ to = BodyLen)
    BY <1>4, <1>5 DEF StartBit, EndBit
  <2> HIDE DEF x
  <2> QED
    BY <2>1, <2>2, <2>3
<1>7. Len(payloads') = n + 1 /\ payloads'[n + 1] = x
  <2>1. payloads \in Seq(PayloadType)
    BY <1>2 DEF SendInv, SenderType
  <2> QED
    BY <1>1, <1>6, <2>1, AppendGrows
<1>8. /\ UNCHANGED <<add_donl, given, mtu>> /\ offset' = to /\ pc = "fu"
      /\ to = BodyLen => pc' = "scan" /\ cur' = Current
      /\ to # BodyLen => UNCHANGED <<pc, cur>>
  BY <1>5 DEF FuFragment, configVars
<1>9. /\ Fragment(n + 1)'.nalu = k /\ Fragment(n + 1)'.from = from /\ Fragment(n + 1)'.to = to
  BY <1>6, <1>7 DEF Fragment, Piece
<1>10. /\ Continues(n + 1)' <=> Continues(n + 1)
       /\ n > 0 => Fragment(n)' = Fragment(n)
  <2>1. n + 1 \in 1..(n + 1)
    OBVIOUS
  <2>2. n > 0 => n \in 1..n
    OBVIOUS
  <2> QED
    BY <1>1, <2>1, <2>2, MadeStays
<1>11. ASSUME Continues(n + 1)
       PROVE  /\ n > 0 /\ n \in 1..Len(payloads) /\ Fragment(n).nalu = k /\ Fragment(n).to = from
              /\ IsFragment(payloads[n])
              /\ from # 0
  <2>1. n > 0 /\ IsFragment(payloads[n])
    BY <1>11 DEF Continues, EndsNalu
  <2>2. Fragment(n).nalu = k /\ Fragment(n).to = from
    BY <1>1, <1>3, <1>4, <1>11 DEF OpenInv
  <2>3. n \in 1..Len(payloads) /\ n \in Position(payloads)
    BY <1>1, <2>1 DEF Position
  <2>4. Fragment(n).from < Fragment(n).to /\ Fragment(n).from \in Nat
    BY <1>2, <2>1, <2>3, PayloadFacts DEF SendInv, ShapeInv
  <2>5. from # 0
    BY <2>2, <2>4
  <2> QED
    BY <2>1, <2>2, <2>3, <2>5
<1>12. ~Continues(n + 1) => from = 0
  BY <1>1, <1>4, <1>8 DEF OpenInv
<1>13. ~add_donl => Assembled'[n + 1] = Bytes(k, 0, to)
  <2> SUFFICES ASSUME ~add_donl PROVE Assembled'[n + 1] = Bytes(k, 0, to)
    OBVIOUS
  <2>1. /\ PartOf(x) \in Body /\ Assembled[n] \in Body
        /\ Assembled'[n + 1] = (IF x.s THEN <<>> ELSE Assembled[n]) \o PartOf(x)
    BY <1>1, <1>2, <1>7, AssembledNext
  <2>2. PartOf(x) = Bytes(k, from, to)
    BY <1>6 DEF PartOf, PieceBytes, WrittenDonl, Piece
  <2>3. CASE Continues(n + 1)
    <3>1. Assembled[n] = Bytes(k, 0, from)
      <4>1. ChainAt(n)
        BY <1>11, <2>3 DEF ChainInv, Position
      <4> QED
        BY <1>11, <2>3, <4>1 DEF ChainAt
    <3>2. Assembled'[n + 1] = Bytes(k, 0, from) \o Bytes(k, from, to)
      BY <1>6, <1>11, <2>1, <2>2, <2>3, <3>1
    <3>3. from <= to
      BY <1>5
    <3> QED
      BY <3>2, <3>3, BytesPrefix
  <2>4. CASE ~Continues(n + 1)
    <3>1. from = 0 /\ Assembled'[n + 1] = <<>> \o PartOf(x)
      BY <1>6, <1>12, <2>1, <2>4
    <3>2. <<>> \o PartOf(x) = PartOf(x)
      BY <2>1, ConcatEmptySeq DEF Body
    <3> QED
      BY <2>2, <3>1, <3>2
  <2> QED
    BY <2>3, <2>4
<1>14. ChainAt(n + 1)'
  <2>1. (n + 1) - 1 = n
    OBVIOUS
  <2>2. Continues(n + 1)' => ~x.s /\ Fragment(n)'.nalu = k /\ Fragment(n)'.to = from
    BY <1>6, <1>10, <1>11
  <2>3. ~Continues(n + 1)' => from = 0 /\ x.s
    BY <1>6, <1>10, <1>12
  <2>4. x.e => to = given'[k] - kH265NaluHeaderSize
    BY <1>3, <1>6, <1>8 DEF BodyLen, CurrentSize
  <2> QED
    BY <1>6, <1>7, <1>8, <1>9, <1>13, <2>1, <2>2, <2>3, <2>4 DEF ChainAt
<1>15. OpenInv'
  <2>1. Continues((n + 1) + 1)' <=> ~x.e
    <3>1. ((n + 1) + 1) - 1 = n + 1 /\ (n + 1) + 1 > 1
      OBVIOUS
    <3> QED
      BY <1>6, <1>7, <3>1 DEF Continues, EndsNalu
  <2>2. to = BodyLen => x.e
    <3>1. to = BodyLen => EndBit
      BY <1>2, <1>5, <1>8, LastHasEnd
    <3> QED
      BY <1>4, <1>6, <3>1 DEF EndBit, StartBit
  <2>3. x.e => to = BodyLen
    BY <1>6
  <2>4. CASE x.e
    <3>1. pc' = "scan"
      BY <1>8, <2>3, <2>4
    <3> QED
      BY <1>7, <2>1, <2>4, <3>1 DEF OpenInv
  <2>5. CASE ~x.e
    <3>1. pc' = "fu" /\ Current' = k
      BY <1>3, <1>8, <2>2, <2>5 DEF Current
    <3> QED
      BY <1>7, <1>8, <1>9, <2>1, <2>5, <3>1 DEF OpenInv
  <2> QED
    BY <2>4, <2>5
<1> QED
  BY <1>1, <1>7, <1>8, <1>14, <1>15, ChainAppended

\* Outside the fragmentation loop no NAL unit is open.
LEMMA OpenUnchanged ==
    ASSUME Grown, OpenInv, UNCHANGED payloads, pc # "fu", pc' = "fu" => offset' = 0
    PROVE  OpenInv'
<1>1. PICK n \in Nat : n = Len(payloads) /\ n = Len(payloads')
  BY DEF Grown
<1>2. ~Continues(n + 1)
  BY <1>1 DEF OpenInv
<1>3. ~Continues(n + 1)'
  BY <1>2 DEF Continues
<1> QED
  BY <1>1, <1>3 DEF OpenInv

LEMMA SendKeepsDonl ==
    ASSUME Send
    PROVE  UNCHANGED add_donl
BY DEF Send, PacketizerNext, Working, WithSkipAggregation, Packetize, flushBufferedNals,
       SkipShort, BufferNalu, StartFu, ContinueInPlace, FuFragment, Return,
       configVars, packetizerVars

LEMMA SendChain ==
    ASSUME SenderInv, SenderInv', Grown, NoLoneFragment, ChainInv, OpenInv, Send
    PROVE  ChainInv' /\ OpenInv'
<1> USE DEF packetizerVars, configVars, outVars, bufferVars
<1>1. PacketizerNext /\ add_donl' = add_donl
  BY SendKeepsDonl DEF Send
<1>2. CASE flushBufferedNals
  BY <1>2, FlushChain
<1>3. CASE FuFragment
  BY <1>3, FuChain
<1>4. CASE ContinueInPlace
  <2>1. UNCHANGED packetizerVars
    BY <1>4 DEF ContinueInPlace
  <2>2. ChainInv'
    BY <1>1, <2>1, ChainUnchanged
  <2>3. OpenInv'
    BY <2>1 DEF OpenInv, Continues, Fragment, Current
  <2> QED
    BY <2>2, <2>3
<1>5. ASSUME payloads' = payloads, pc # "fu", pc' = "fu" => offset' = 0
      PROVE  ChainInv' /\ OpenInv'
  BY <1>1, <1>5, ChainUnchanged, OpenUnchanged
<1>6. ASSUME NEW value, WithSkipAggregation(value) PROVE ChainInv' /\ OpenInv'
  BY <1>5, <1>6 DEF WithSkipAggregation
<1>7. ASSUME NEW frame, Packetize(frame) PROVE ChainInv' /\ OpenInv'
  BY <1>5, <1>7 DEF Packetize
<1>8. CASE SkipShort \/ BufferNalu \/ StartFu \/ Return
  BY <1>5, <1>8 DEF SkipShort, BufferNalu, AtNalu, StartFu, Return
<1> QED
  BY <1>1, <1>2, <1>3, <1>4, <1>6, <1>7, <1>8 DEF PacketizerNext, Working

\* The packet a call marks is its last, and ends a NAL unit.
LEMMA SendMark ==
    ASSUME SenderInv, Grown, OpenInv, MarkInv, Send
    PROVE  MarkInv'
<1> USE DEF packetizerVars, configVars, outVars, bufferVars
<1>1. marked \subseteq 1..packets /\ packets \in Nat /\ packets <= Len(payloads)
  BY DEF SenderInv, TypeOK, SenderType, Grown
<1>2. \A p \in marked : payloads'[p] = payloads[p] /\ EndsNalu(payloads[p])
  BY <1>1 DEF Grown, MarkInv
<1>3. CASE marked' = marked
  BY <1>2, <1>3 DEF MarkInv
<1>4. CASE Return /\ marked' # marked
  <2>1. PICK n \in Nat : n = Len(payloads) /\ n > packets /\ n > 0
    BY <1>1, <1>4 DEF Return, Grown
  <2>2. marked' = marked \cup {n} /\ payloads' = payloads /\ pc = "scan"
    BY <1>4, <2>1 DEF Return, MarkedPacket
  <2>3. ~Continues(n + 1)
    BY <2>1, <2>2 DEF OpenInv
  <2>4. EndsNalu(payloads[n])
    <3>1. (n + 1) - 1 = n /\ n + 1 > 1
      BY <2>1
    <3> QED
      BY <2>3, <3>1 DEF Continues
  <2> QED
    BY <1>2, <2>2, <2>4 DEF MarkInv
<1>5. Return \/ marked' = marked
  BY DEF Send, PacketizerNext, Working, WithSkipAggregation, Packetize, flushBufferedNals,
         SkipShort, BufferNalu, StartFu, ContinueInPlace, FuFragment
<1> QED
  BY <1>3, <1>4, <1>5

-----------------------------------------------------------------------------
(* The NAL units that come out.                                            *)

LEMMA LostStays ==
    ASSUME SenderInv, Grown, lost \subseteq lost'
    PROVE  /\ \A k : FragmentLost(k) => FragmentLost(k)'
           /\ EndLost => EndLost'
<1>1. \A p \in lost : payloads'[p] = payloads[p] /\ Fragment(p)' = Fragment(p)
  <2>1. /\ lost \subseteq 1..rcvd /\ rcvd \in 0..packets /\ packets \in Nat
        /\ packets <= Len(payloads) /\ Len(payloads) \in Nat
    BY DEF SenderInv, TypeOK, Grown
  <2>2. \A p \in lost : p \in 1..Len(payloads)
    BY <2>1
  <2> QED
    BY <2>2, MadeStays DEF Grown
<1> QED
  BY <1>1 DEF FragmentLost, EndLost

LEMMA AsExpectedStays ==
    ASSUME SenderInv, SenderInv', Grown, UNCHANGED add_donl, NEW unit \in UnitType,
           AsExpected(unit)
    PROVE  AsExpected(unit)'
<1>1. SendInv /\ SendInv'
  BY DEF SenderInv, SendInv, TypeOK
<1>2. unit.hdr \in 1..Len(given)
  BY DEF UnitType
<1>3. CASE unit = Whole(unit.hdr)
  <2>1. given'[unit.hdr] = given[unit.hdr]
    BY <1>2 DEF Grown
  <2> QED
    BY <1>3, <2>1 DEF AsExpected, Whole
<1>4. CASE ~(unit = Whole(unit.hdr))
  <2>1. PICK p \in Position(payloads) :
           /\ IsFragment(payloads[p]) /\ payloads[p].e
           /\ Fragment(p).nalu = unit.hdr /\ unit.body = Assembled[p]
    BY <1>4 DEF AsExpected
  <2>2. p \in 1..Len(payloads) /\ p \in 0..Len(payloads) /\ p \in Position(payloads')
    BY DEF Grown, Position
  <2>3. payloads'[p] = payloads[p] /\ Fragment(p)' = Fragment(p) /\ Assembled'[p] = Assembled[p]
    BY <1>1, <2>2, MadeStays, AssembledStays DEF Grown
  <2> QED
    BY <1>4, <2>1, <2>2, <2>3 DEF AsExpected
<1> QED
  BY <1>3, <1>4

\* What came out of the receiver before stays as good as it was.
LEMMA DeliveredStays ==
    ASSUME SenderInv, SenderInv', Grown, UNCHANGED add_donl, lost \subseteq lost',
           DamageIsLocal, NEW i \in Position(delivered), NEW unit, unit = delivered[i]
    PROVE  unit \in UnitType /\ (AsExpected(unit) \/ FragmentLost(unit.hdr))'
<1>1. unit \in UnitType
  <2>1. delivered \in Seq(UnitType)
    BY DEF SenderInv, TypeOK, ReceiverType
  <2> QED
    BY <2>1, ElementOfSeq DEF Position
<1>2. AsExpected(unit) \/ FragmentLost(unit.hdr)
  BY DEF DamageIsLocal
<1>3. PICK k : k = unit.hdr
  OBVIOUS
<1>4. FragmentLost(k) => FragmentLost(k)'
  BY LostStays
<1> QED
  BY <1>1, <1>2, <1>3, <1>4, AsExpectedStays

LEMMA DamageFrame ==
    ASSUME SenderInv, SenderInv', Grown, UNCHANGED <<add_donl, delivered>>,
           lost \subseteq lost', DamageIsLocal
    PROVE  DamageIsLocal'
<1>1. ASSUME NEW i \in Position(delivered), NEW unit, unit = delivered[i]
      PROVE  (AsExpected(unit) \/ FragmentLost(unit.hdr))'
  BY <1>1, DeliveredStays
<1>2. ASSUME NEW i \in Position(delivered)
      PROVE  (AsExpected(delivered[i]) \/ FragmentLost(delivered[i].hdr))'
  <2>1. PICK unit : unit = delivered[i] /\ unit = delivered'[i]
    OBVIOUS
  <2>2. (AsExpected(unit) \/ FragmentLost(unit.hdr))'
    BY <1>1, <2>1
  <2> QED
    BY <2>1, <2>2
<1> QED
  BY <1>2 DEF DamageIsLocal, Position

LEMMA DamageOutput ==
    ASSUME SenderInv, SenderInv', Grown, UNCHANGED add_donl, lost \subseteq lost',
           DamageIsLocal, NEW new, Output(new), (AsExpected(new) \/ FragmentLost(new.hdr))'
    PROVE  DamageIsLocal'
<1>1. PICK n \in Nat : n = Len(delivered)
  BY LenProperties DEF SenderInv, TypeOK, ReceiverType
<1>2. /\ Len(delivered') = n + 1 /\ delivered'[n + 1] = new
      /\ \A i \in 1..n : delivered'[i] = delivered[i]
  <2>1. delivered \in Seq(UnitType)
    BY DEF SenderInv, TypeOK, ReceiverType
  <2> QED
    BY <1>1, <2>1, AppendGrows DEF Output
<1>3. ASSUME NEW i \in 1..n, NEW unit, unit = delivered[i]
      PROVE  (AsExpected(unit) \/ FragmentLost(unit.hdr))'
  <2>1. i \in Position(delivered)
    BY <1>1 DEF Position
  <2> QED
    BY <1>3, <2>1, DeliveredStays
<1>4. ASSUME NEW i \in 1..(n + 1)
      PROVE  (AsExpected(delivered[i]) \/ FragmentLost(delivered[i].hdr))'
  <2>1. CASE i = n + 1
    BY <1>2, <2>1
  <2>2. CASE i \in 1..n
    <3>1. PICK unit : unit = delivered[i] /\ unit = delivered'[i]
      BY <1>2, <2>2
    <3>2. (AsExpected(unit) \/ FragmentLost(unit.hdr))'
      BY <1>3, <2>2, <3>1
    <3> QED
      BY <3>1, <3>2
  <2>3. i = n + 1 \/ i \in 1..n
    OBVIOUS
  <2> QED
    BY <2>1, <2>2, <2>3
<1> QED
  BY <1>2, <1>4 DEF DamageIsLocal, Position

\* The receiver's side of LossInv where only the sender steps.
LEMMA ReceiverStays ==
    ASSUME SenderInv, SenderInv', Grown, UNCHANGED <<depacketizerVars, transportVars, add_donl>>,
           ReceiverInv
    PROVE  ReceiverInv'
<1> USE DEF depacketizerVars, fragmentVars, transportVars
<1>1. PICK r \in Nat : r = rcvd /\ r <= Len(payloads)
  <2>1. rcvd \in 0..packets /\ packets \in Nat /\ packets <= Len(payloads)
    BY DEF SenderInv, TypeOK, Grown
  <2> QED
    BY <2>1 DEF Grown
<1>2. r \in 0..Len(payloads) /\ r + 1 \in 1..(Len(payloads) + 1)
  BY <1>1 DEF Grown
<1>3. /\ Continues(r + 1)' <=> Continues(r + 1)
      /\ Continues(r + 1) => Fragment(r)' = Fragment(r)
  <2>1. Continues(r + 1) => r \in 1..Len(payloads)
    BY <1>1 DEF Continues, Grown
  <2> QED
    BY <1>2, <2>1, MadeStays
<1>4. Assembled'[r] = Assembled[r]
  <2>1. SendInv /\ SendInv'
    BY DEF SenderInv, SendInv, TypeOK
  <2> QED
    BY <1>2, <2>1, AssembledStays
<1>5. PICK k : k = fragment_hdr
  OBVIOUS
<1>6. (FragmentLost(k) => FragmentLost(k)') /\ (EndLost => EndLost')
  BY LostStays
<1>7. /\ current_fragment_is_valid =>
            \/ FragmentLost(k)
            \/ Continues(r + 1) /\ k = Fragment(r).nalu /\ fragment_buffer = Assembled[r]
      /\ current_fragment_is_valid /\ ~Continues(r + 1) => EndLost
      /\ lost = {} /\ Continues(r + 1) => current_fragment_is_valid
  BY <1>1, <1>5 DEF ReceiverInv
<1>8. (/\ current_fragment_is_valid =>
             \/ FragmentLost(k)
             \/ Continues(r + 1) /\ k = Fragment(r).nalu /\ fragment_buffer = Assembled[r]
       /\ current_fragment_is_valid /\ ~Continues(r + 1) => EndLost
       /\ lost = {} /\ Continues(r + 1) => current_fragment_is_valid)'
  BY <1>3, <1>4, <1>6, <1>7
<1>9. rcvd' = r /\ fragment_hdr' = k
  BY <1>1, <1>5
<1> QED
  BY <1>8, <1>9 DEF ReceiverInv

LEMMA SendLoss ==
    ASSUME SenderInv, SenderInv', Grown, NoLoneFragment, LossInv, Send
    PROVE  LossInv'
<1>1. UNCHANGED <<add_donl, depacketizerVars, transportVars>>
  BY SendKeepsDonl DEF Send
<1>2. ChainInv' /\ OpenInv' /\ MarkInv'
  BY SendChain, SendMark DEF LossInv
<1>3. ReceiverInv' /\ DamageIsLocal'
  BY <1>1, ReceiverStays, DamageFrame DEF LossInv, depacketizerVars, transportVars
<1> QED
  BY <1>2, <1>3 DEF LossInv

LEMMA AssembledAt ==
    ASSUME SendInv, NEW p \in 1..Len(payloads)
    PROVE  /\ PartOf(payloads[p]) \in Body
           /\ Assembled[p] = (IF payloads[p].s THEN <<>> ELSE Assembled[p - 1]) \o PartOf(payloads[p])
<1>1. PartsAreBodies /\ Len(payloads) \in Nat
  BY Parts, LenProperties DEF SendInv, SenderType
<1> QED
  BY <1>1, AssembledSteps DEF PartsAreBodies, Assembled

\* What only the transport and the receiver do leaves the sender's side alone.
LEMMA SenderSideStays ==
    ASSUME UNCHANGED packetizerVars
    PROVE  /\ ChainInv /\ OpenInv /\ MarkInv => (ChainInv /\ OpenInv /\ MarkInv)'
           /\ \A p : Continues(p)' <=> Continues(p)
           /\ \A p : Fragment(p)' = Fragment(p)
           /\ Assembled' = Assembled
           /\ add_donl' = add_donl /\ payloads' = payloads /\ given' = given
           /\ packets' = packets
<1> USE DEF packetizerVars, configVars, outVars, bufferVars
<1>1. /\ \A p : Continues(p)' <=> Continues(p)
      /\ \A p : Fragment(p)' = Fragment(p)
      /\ Assembled' = Assembled
  BY DEF Continues, Fragment, Assembled
<1>2. \A p : ChainAt(p)' <=> ChainAt(p)
  BY <1>1 DEF ChainAt
<1>3. ChainInv' <=> ChainInv
  BY <1>2 DEF ChainInv, Position
<1>4. OpenInv' <=> OpenInv
  BY DEF OpenInv, Continues, Fragment, Current
<1>5. MarkInv' <=> MarkInv
  BY DEF MarkInv
<1> QED
  BY <1>1, <1>3, <1>4, <1>5

LEMMA LoseLoss ==
    ASSUME SenderInv, SenderInv', Grown, LossInv, Lose
    PROVE  LossInv'
<1>1. PICK p \in Nat : p = rcvd + 1 /\ p \in Position(payloads) /\ rcvd \in Nat /\ p - 1 = rcvd
                       /\ rcvd' = p
  <2>1. SendInv /\ TypeOK
    BY DEF SenderInv, SendInv, TypeOK
  <2> QED
    BY <2>1, NextPacket DEF Lose
<1>2. UNCHANGED packetizerVars /\ UNCHANGED depacketizerVars /\ lost' = lost \cup {p}
  BY <1>1 DEF Lose
<1>3. /\ ChainInv' /\ OpenInv' /\ MarkInv' /\ add_donl' = add_donl /\ payloads' = payloads
      /\ \A q : Continues(q)' <=> Continues(q)
      /\ \A q : Fragment(q)' = Fragment(q)
  BY <1>2, SenderSideStays DEF LossInv
<1>4. DamageIsLocal'
  BY <1>2, <1>3, DamageFrame DEF LossInv, depacketizerVars
<1>5. PICK k : k = fragment_hdr /\ k = fragment_hdr'
  BY <1>2 DEF depacketizerVars, fragmentVars
<1>6. (FragmentLost(k) => FragmentLost(k)') /\ (EndLost => EndLost')
  BY <1>2, LostStays
<1>7. Continues(p) => /\ IsFragment(payloads[p]) /\ Fragment(p).nalu = Fragment(p - 1).nalu
  BY <1>1 DEF LossInv, ChainInv, ChainAt
<1>8. current_fragment_is_valid =>
         \/ FragmentLost(k)
         \/ Continues(p) /\ k = Fragment(p - 1).nalu
  BY <1>1, <1>5 DEF LossInv, ReceiverInv
<1>9. current_fragment_is_valid => FragmentLost(k)'
  <2>1. Continues(p) /\ k = Fragment(p - 1).nalu => FragmentLost(k)'
    BY <1>2, <1>3, <1>7 DEF FragmentLost
  <2> QED
    BY <1>6, <1>8, <2>1
<1>10. current_fragment_is_valid /\ ~Continues(p + 1) => EndLost'
  <2>1. current_fragment_is_valid /\ ~Continues(p) => EndLost
    BY <1>1 DEF LossInv, ReceiverInv
  <2>2. Continues(p) /\ ~Continues(p + 1) => IsFragment(payloads[p]) /\ payloads[p].e
    <3>1. (p + 1) - 1 = p /\ (Continues(p) => p + 1 > 1)
      BY <1>1 DEF Continues
    <3> QED
      BY <1>7, <3>1 DEF Continues, EndsNalu
  <2>3. IsFragment(payloads[p]) /\ payloads[p].e => EndLost'
    BY <1>2, <1>3 DEF EndLost
  <2> QED
    BY <1>6, <2>1, <2>2, <2>3
<1>11. ReceiverInv'
  <2>1. current_fragment_is_valid' = current_fragment_is_valid /\ lost' # {}
    BY <1>2 DEF depacketizerVars, fragmentVars
  <2>2. Continues(p + 1)' <=> Continues(p + 1)
    BY <1>3
  <2> QED
    BY <1>1, <1>5, <1>9, <1>10, <2>1, <2>2 DEF ReceiverInv
<1> QED
  BY <1>3, <1>4, <1>11 DEF LossInv

\* A packet with whole NAL units: what comes out is one of them.
LEMMA ReceiveWhole ==
    ASSUME SenderInv, SenderInv', Grown, LossInv, Receive, ~IsFragment(payloads[rcvd + 1])
    PROVE  LossInv'
<1>1. PICK p \in Nat : p = rcvd + 1 /\ p \in Position(payloads) /\ rcvd \in Nat /\ p - 1 = rcvd
                       /\ rcvd' = p
  <2>1. SendInv /\ TypeOK
    BY DEF SenderInv, SendInv, TypeOK
  <2> QED
    BY <2>1, NextPacket DEF Receive
<1>2. UNCHANGED packetizerVars /\ lost' = lost /\ Depacketize(payloads[p])
  BY <1>1 DEF Receive
<1>3. /\ ChainInv' /\ OpenInv' /\ MarkInv' /\ add_donl' = add_donl /\ payloads' = payloads
      /\ given' = given
      /\ \A q : Continues(q)' <=> Continues(q)
  BY <1>2, SenderSideStays DEF LossInv
<1>4. PICK x : x = payloads[p]
  OBVIOUS
<1>5. UNCHANGED fragmentVars
  BY <1>1, <1>2, <1>4 DEF Depacketize, ParseSingle, ParseAggregation, ParseFu, IsFragment
<1>6. PICK unit : unit = Unit(x.pieces[1].nalu, PieceBytes(x.pieces[1]))
  OBVIOUS
<1>7. Output(unit) \/ NoOutput("false")
  BY <1>1, <1>2, <1>4, <1>6 DEF Depacketize, ParseSingle, ParseAggregation, ParseFu, IsFragment
<1>8. AsExpected(unit)'
  <2>1. x.pieces[1] = WholePiece(x.pieces[1].nalu)
    <3>1. Len(x.pieces) > 0 /\ x.pieces \in Seq(PieceType)
      <4>1. x \in PayloadType
        BY <1>1, <1>4, PayloadFacts DEF SenderInv, TypeOK
      <4>2. Len(x.pieces) > 0
        BY <1>1, <1>4 DEF SenderInv, ShapeInv
      <4> QED
        BY <4>1, <4>2 DEF PayloadType
    <3>2. PICK n : n = Len(x.pieces) /\ n \in Nat
      BY <3>1, LenProperties
    <3>3. 1 \in 1..n
      BY <3>1, <3>2
    <3> QED
      BY <1>1, <1>4, <3>2, <3>3 DEF SenderInv, ShapeInv, Position
  <2>2. PICK k : k = x.pieces[1].nalu
    OBVIOUS
  <2>3. unit = Unit(k, Bytes(k, 0, given[k] - kH265NaluHeaderSize))
    BY <1>6, <2>1, <2>2 DEF PieceBytes, WholePiece, Piece
  <2>4. unit = Whole(unit.hdr)'
    BY <1>3, <2>3 DEF Whole, Unit
  <2> QED
    BY <2>4 DEF AsExpected
<1>9. DamageIsLocal'
  BY <1>2, <1>3, <1>7, <1>8, DamageFrame, DamageOutput DEF LossInv, NoOutput
<1>10. ReceiverInv'
  <2>1. ~Continues(p)
    BY <1>1 DEF LossInv, ChainInv, ChainAt
  <2>2. ~Continues(p + 1)
    <3>1. (p + 1) - 1 = p
      OBVIOUS
    <3> QED
      BY <1>1, <3>1 DEF Continues, EndsNalu
  <2>3. PICK k : k = fragment_hdr /\ k = fragment_hdr'
    BY <1>5 DEF fragmentVars
  <2>4. current_fragment_is_valid => FragmentLost(k) /\ EndLost
    BY <1>1, <2>1, <2>3 DEF LossInv, ReceiverInv
  <2>5. (FragmentLost(k) => FragmentLost(k)') /\ (EndLost => EndLost')
    BY <1>2, LostStays
  <2>6. ~Continues(p + 1)' /\ current_fragment_is_valid' = current_fragment_is_valid
    BY <1>3, <1>5, <2>2 DEF fragmentVars
  <2> QED
    BY <1>1, <2>3, <2>4, <2>5, <2>6 DEF ReceiverInv
<1> QED
  BY <1>3, <1>9, <1>10 DEF LossInv

\* A fragment: what the receiver has open is the body assembled so far, or the
\* NAL unit it belongs to has lost a fragment.
LEMMA ReceiveFragment ==
    ASSUME SenderInv, SenderInv', Grown, LossInv, Receive, IsFragment(payloads[rcvd + 1])
    PROVE  LossInv'
<1>0. SendInv /\ TypeOK
  BY DEF SenderInv, SendInv, TypeOK
<1>1. PICK p \in Nat : p = rcvd + 1 /\ p \in Position(payloads) /\ rcvd \in Nat /\ p - 1 = rcvd
                       /\ rcvd' = p
  BY <1>0, NextPacket DEF Receive
<1>2. UNCHANGED packetizerVars /\ lost' = lost /\ Depacketize(payloads[p])
  BY <1>1 DEF Receive
<1>3. /\ ChainInv' /\ OpenInv' /\ MarkInv' /\ add_donl' = add_donl /\ payloads' = payloads
      /\ given' = given /\ Assembled' = Assembled
      /\ \A q : Continues(q)' <=> Continues(q)
      /\ \A q : Fragment(q)' = Fragment(q)
  BY <1>2, SenderSideStays DEF LossInv
<1>4. PICK x : x = payloads[p]
  OBVIOUS
<1>5. PICK k : k = Fragment(p).nalu
  OBVIOUS
<1>6. PICK hdr, buffer, open : /\ hdr = fragment_hdr /\ buffer = fragment_buffer
                               /\ open = current_fragment_is_valid
  OBVIOUS
<1>7. /\ open \in BOOLEAN /\ x.s \in BOOLEAN /\ x.e \in BOOLEAN
  <2>1. x \in PayloadType
    BY <1>0, <1>1, <1>4, PayloadFacts DEF SenderInv, TypeOK
  <2> QED
    BY <1>0, <1>6, <2>1 DEF TypeOK, ReceiverType, PayloadType
<1>8. PICK begun, joined, h, unit :
          /\ begun = (x.s /\ ~open)
          /\ joined = (IF begun THEN <<>> ELSE buffer) \o FuBody(x)
          /\ h = (IF begun THEN k ELSE hdr) /\ unit = Unit(h, joined)
  OBVIOUS
<1>9. /\ begun \/ open => /\ fragment_hdr' = h
                          /\ fragment_buffer' = joined
                          /\ current_fragment_is_valid' = ~x.e
                          /\ IF x.e THEN Output(unit) ELSE NoOutput("false")
      /\ ~(begun \/ open) => NoOutput("false") /\ UNCHANGED fragmentVars
  <2>1. ParseFu(x)
    BY <1>1, <1>2, <1>4 DEF Depacketize, ParseSingle, ParseAggregation, IsFragment
  <2> QED
    BY <1>4, <1>5, <1>6, <1>8, <2>1 DEF ParseFu, Restarts, BufferBefore, LeftOpen, Fragment
<1>10. /\ FuBody(x) = PartOf(x) /\ PartOf(x) \in Body
      /\ Assembled[p] = (IF x.s THEN <<>> ELSE Assembled[p - 1]) \o PartOf(x)
  <2>1. p \in 1..Len(payloads)
    BY <1>1 DEF Position
  <2>2. x.donl # <<>> => might_need_donl
    BY <1>1, <1>4 DEF SenderInv, EndsInv, ShapeInv
  <2>3. FuBody(x) = PartOf(x)
    BY <2>2 DEF FuBody, PartOf
  <2> QED
    BY <1>0, <1>4, <2>1, <2>3, AssembledAt
<1>11. /\ Continues(p) => ~x.s /\ k = Fragment(p - 1).nalu
       /\ ~Continues(p) => x.s
       /\ x.e => Fragment(p).to = given[k] - kH265NaluHeaderSize
       /\ ~add_donl => Assembled[p] = Bytes(k, 0, Fragment(p).to)
  BY <1>1, <1>4, <1>5 DEF LossInv, ChainInv, ChainAt
<1>12. /\ open => \/ FragmentLost(hdr)
                  \/ Continues(p) /\ hdr = Fragment(p - 1).nalu /\ buffer = Assembled[p - 1]
       /\ lost = {} /\ Continues(p) => open
  BY <1>1, <1>6 DEF LossInv, ReceiverInv
<1>13. Continues(p + 1) <=> ~x.e
  <2>1. (p + 1) - 1 = p /\ p + 1 > 1
    BY <1>1 DEF Position
  <2> QED
    BY <1>1, <1>4, <2>1 DEF Continues, EndsNalu
\* Whichever branch: a lost fragment, or the body assembled up to this one.
<1>14. begun \/ open =>
         \/ FragmentLost(h)
         \/ h = k /\ joined = Assembled[p]
  <2>1. CASE begun
    BY <1>10, <1>8, <2>1
  <2>2. CASE ~begun /\ open
    BY <1>10, <1>11, <1>12, <1>8, <2>2
  <2> QED
    BY <2>1, <2>2
<1>15. \A q : FragmentLost(q)' <=> FragmentLost(q)
  BY <1>2, <1>3 DEF FragmentLost
<1>16. x.e /\ h = k /\ joined = Assembled[p] => AsExpected(unit)'
  <2> SUFFICES ASSUME x.e, h = k, joined = Assembled[p] PROVE AsExpected(unit)'
    OBVIOUS
  <2>0. unit.hdr = k /\ unit.body = joined
    BY <1>8 DEF Unit
  <2>1. CASE add_donl
    <3>1. /\ p \in Position(payloads') /\ IsFragment(payloads'[p]) /\ payloads'[p].e
          /\ Fragment(p)'.nalu = unit.hdr /\ unit.body = Assembled'[p]
      BY <1>1, <1>3, <1>4, <1>5, <2>0
    <3> QED
      BY <1>3, <2>1, <3>1 DEF AsExpected
  <2>2. CASE ~add_donl
    <3>1. unit = Unit(k, Bytes(k, 0, given[k] - kH265NaluHeaderSize))
      BY <1>11, <1>8, <2>2
    <3> QED
      BY <1>3, <2>0, <3>1 DEF AsExpected, Whole
  <2> QED
    BY <2>1, <2>2
<1>17. DamageIsLocal'
  <2>1. CASE (begun \/ open) /\ x.e
    <3>1. (AsExpected(unit) \/ FragmentLost(unit.hdr))'
      <4>1. unit.hdr = h
        BY <1>8 DEF Unit
      <4> QED
        BY <1>14, <1>15, <1>16, <2>1, <4>1
    <3>2. Output(unit)
      BY <1>9, <2>1
    <3> QED
      BY <1>2, <1>3, <3>1, <3>2, DamageOutput DEF LossInv
  <2>2. CASE ~((begun \/ open) /\ x.e)
    <3>1. UNCHANGED delivered
      BY <1>9, <2>2 DEF NoOutput
    <3> QED
      BY <1>2, <1>3, <3>1, DamageFrame DEF LossInv
  <2> QED
    BY <2>1, <2>2
<1>18. ReceiverInv'
  <2>1. Continues(p + 1)' <=> ~x.e
    BY <1>3, <1>13
  <2>2. CASE begun \/ open
    <3>1. fragment_hdr' = h /\ fragment_buffer' = joined /\ current_fragment_is_valid' = ~x.e
      BY <1>9, <2>2
    <3>2. FragmentLost(h)' \/ (h = k /\ joined = Assembled'[p])
      BY <1>3, <1>14, <1>15, <2>2
    <3>3. Fragment(p)' = Fragment(p)
      BY <1>3
    <3>4. (/\ current_fragment_is_valid =>
                 \/ FragmentLost(h)
                 \/ Continues(p + 1) /\ h = Fragment(p).nalu /\ joined = Assembled[p]
           /\ current_fragment_is_valid /\ ~Continues(p + 1) => EndLost
           /\ lost = {} /\ Continues(p + 1) => current_fragment_is_valid)'
      BY <1>5, <2>1, <3>1, <3>2, <3>3
    <3>5. rcvd' = p
      BY <1>1
    <3> QED
      BY <3>1, <3>4, <3>5 DEF ReceiverInv
  <2>3. CASE ~(begun \/ open)
    <3>1. ~open /\ ~x.s /\ current_fragment_is_valid' = open
      BY <1>6, <1>7, <1>9, <1>8, <2>3 DEF fragmentVars
    <3>2. lost # {}
      BY <1>11, <1>12, <3>1
    <3> QED
      BY <1>2, <3>1, <3>2 DEF ReceiverInv
  <2> QED
    BY <2>2, <2>3
<1> QED
  BY <1>3, <1>17, <1>18 DEF LossInv

\* Before the first frame there is nothing that could be wrong.
LEMMA SetDonlLoss ==
    ASSUME SenderInv, SenderInv', Grown, LossInv, SetDONL
    PROVE  LossInv'
<1>0. SendInv /\ TypeOK
  BY DEF SenderInv, SendInv, TypeOK
<1>1. PICK value \in BOOLEAN : WithDONL(value) /\ ExpectDONL(value)
  BY DonlAssumption DEF SetDONL
<1>2. /\ given = <<>> /\ pc = "idle"
      /\ UNCHANGED <<given, pc, payloads, packets, marked, offset, rcvd, lost>>
      /\ UNCHANGED <<fragmentVars, delivered>>
  BY <1>1 DEF SetDONL, WithDONL, ExpectDONL, transportVars, outVars
<1>3. payloads = <<>>
  BY <1>0, <1>2, NothingMade
<1>4. Len(given) = 0 /\ Len(payloads) = 0
  BY <1>2, <1>3, EmptySeq
<1>5. packets = 0 /\ rcvd = 0 /\ lost = {} /\ marked = {}
  <2>1. /\ packets \in 0..Len(payloads) /\ rcvd \in 0..packets /\ lost \subseteq 1..rcvd
        /\ marked \subseteq 1..packets
    BY <1>0 DEF TypeOK, SenderType
  <2>2. packets = 0 /\ rcvd = 0
    BY <1>4, <2>1
  <2> QED
    BY <2>1, <2>2
<1>6. ~Continues(0 + 1) /\ ~Continues(0 + 1)'
  BY DEF Continues
<1>7. delivered = <<>>
  <2>1. delivered \in Seq(UnitType) /\ UnitType = {}
    BY <1>0, <1>4 DEF TypeOK, ReceiverType, UnitType
  <2> QED
    BY <2>1
<1>8. ~current_fragment_is_valid
  BY <1>5, <1>6 DEF LossInv, ReceiverInv, FragmentLost
<1>9. ReceiverInv'
  BY <1>2, <1>5, <1>6, <1>8 DEF ReceiverInv, fragmentVars
<1>10. ChainInv' /\ OpenInv' /\ MarkInv'
  BY <1>2, <1>4, <1>5, <1>6 DEF ChainInv, OpenInv, MarkInv, Position
<1>11. DamageIsLocal'
  BY <1>2, <1>7, EmptySeq DEF DamageIsLocal, Position
<1> QED
  BY <1>9, <1>10, <1>11 DEF LossInv

LEMMA LossInit == Init => LossInv
<1> SUFFICES ASSUME Init PROVE LossInv
  OBVIOUS
<1>1. /\ payloads = <<>> /\ delivered = <<>> /\ pc = "idle" /\ marked = {} /\ rcvd = 0
      /\ lost = {} /\ current_fragment_is_valid = FALSE
  BY DEF Init, PacketizerInit, DepacketizerInit
<1>2. Len(payloads) = 0 /\ Len(delivered) = 0 /\ ~Continues(0 + 1)
  BY <1>1, EmptySeq DEF Continues
<1> QED
  BY <1>1, <1>2 DEF LossInv, ChainInv, OpenInv, MarkInv, ReceiverInv, DamageIsLocal, Position

-----------------------------------------------------------------------------
(* What the depacketizer hands out, in its order.                          *)

\* The first NAL unit of a payload more, if the depacketizer hands it out.
WithHanded(handed, x) ==
    IF HandsOut(x) THEN Append(handed, x.pieces[1].nalu) ELSE handed

FirstsAreNumbers(made) == \A p \in 1..Len(made) : made[p].pieces[1].nalu \in Nat

\* HandedFrom is what its equation says.
LEMMA HandedSteps ==
    ASSUME NEW made, Len(made) \in Nat, FirstsAreNumbers(made)
    PROVE  /\ HandedFrom(made) \in [0..Len(made) -> Seq(Nat)]
           /\ HandedFrom(made)[0] = <<>>
           /\ \A p \in 1..Len(made) :
                 HandedFrom(made)[p] = WithHanded(HandedFrom(made)[p - 1], made[p])
<1> DEFINE n == Len(made)
           Def(f) == f = [p \in 0..n |->
                             IF p = 0 THEN <<>> ELSE WithHanded(f[p - 1], made[p])]
           handed == CHOOSE f : Def(f)
           step == [p \in 1..n |-> [v \in Seq(Nat) |-> WithHanded(v, made[p])]]
<1>1. HandedFrom(made) = handed
  BY DEF HandedFrom, WithHanded
<1>2. n \in Nat /\ <<>> \in Seq(Nat)
  OBVIOUS
<1>3. step \in [1..n -> [Seq(Nat) -> Seq(Nat)]]
  <2>1. ASSUME NEW p \in 1..n, NEW v \in Seq(Nat) PROVE WithHanded(v, made[p]) \in Seq(Nat)
    BY DEF WithHanded, FirstsAreNumbers
  <2> HIDE DEF n
  <2> QED
    BY <2>1
<1>4. PICK g : Iterates(g, n, Seq(Nat), <<>>, step)
  <2> HIDE DEF n, step
  <2> QED
    BY <1>2, <1>3, IterationExists
<1> HIDE DEF n
<1>5. \A p \in 1..n : g[p] = WithHanded(g[p - 1], made[p])
  <2> SUFFICES ASSUME NEW p \in 1..n PROVE g[p] = WithHanded(g[p - 1], made[p])
    OBVIOUS
  <2>1. p - 1 \in 0..n /\ g[p - 1] \in Seq(Nat) /\ g[p] = step[p][g[p - 1]]
    <3> HIDE DEF step
    <3> QED
      BY <1>2, <1>4 DEF Iterates
  <2>2. \A v \in Seq(Nat) : step[p][v] = WithHanded(v, made[p])
    BY Zenon
  <2> QED
    BY <2>1, <2>2, Zenon
<1>6. Def(g)
  BY <1>2, <1>4, <1>5 DEF Iterates
<1>7. Def(handed)
  <2> HIDE DEF Def
  <2> QED
    BY <1>6
<1> HIDE DEF handed
<1>8. /\ handed[0] = <<>> /\ DOMAIN handed = 0..n
      /\ \A p \in 1..n : handed[p] = WithHanded(handed[p - 1], made[p])
  BY <1>2, <1>7
<1>9. \A p \in 0..n : g[p] = handed[p]
  <2>1. StepAlike(g, handed, n)
    BY <1>4, <1>5, <1>8 DEF Iterates, StepAlike
  <2>2. n \in Nat
    BY <1>2
  <2> HIDE DEF Def, step
  <2> QED
    BY ONLY <2>1, <2>2, IterationUnique
<1>10. handed \in [0..n -> Seq(Nat)]
  BY <1>4, <1>7, <1>8, <1>9 DEF Iterates
<1> QED
  BY <1>1, <1>8, <1>10 DEF n

\* It does not depend on the payloads that follow.
LEMMA HandedPrefix ==
    ASSUME NEW made, NEW more, Len(made) \in Nat, Len(more) \in Nat, Len(made) <= Len(more),
           FirstsAreNumbers(more), \A p \in 1..Len(made) : more[p] = made[p]
    PROVE  \A p \in 0..Len(made) : HandedFrom(more)[p] = HandedFrom(made)[p]
<1> DEFINE n == Len(made)
           m == Len(more)
           f == HandedFrom(made)
           g == HandedFrom(more)
<1>1. n \in Nat /\ m \in Nat /\ n <= m
  OBVIOUS
<1>2. f[0] = <<>> /\ \A p \in 1..n : f[p] = WithHanded(f[p - 1], made[p])
  <2>1. FirstsAreNumbers(made)
    <3>1. \A p \in 1..n : p \in 1..m
      <4> HIDE DEF n, m
      <4> QED
        BY <1>1
    <3> QED
      BY <3>1 DEF FirstsAreNumbers
  <2> QED
    BY <2>1, HandedSteps
<1>3. g[0] = <<>> /\ \A p \in 1..m : g[p] = WithHanded(g[p - 1], more[p])
  BY HandedSteps
<1>4. \A p \in 1..n : more[p] = made[p]
  OBVIOUS
<1> HIDE DEF n, m, f, g
<1>5. StepAlike(g, f, n)
  <2>1. ASSUME NEW p \in 1..n, g[p - 1] = f[p - 1] PROVE g[p] = f[p]
    <3>1. p \in 1..m /\ more[p] = made[p]
      BY <1>1, <1>4
    <3> QED
      BY <1>2, <1>3, <2>1, <3>1
  <2> QED
    BY <1>2, <1>3, <2>1 DEF StepAlike
<1>6. \A p \in 0..n : g[p] = f[p]
  BY <1>1, <1>5, IterationUnique
<1> QED
  BY <1>6 DEF n, f, g

LEMMA Firsts == SendInv => FirstsAreNumbers(payloads)
BY PayloadFacts DEF FirstsAreNumbers, Position, SendInv, Fragment

LEMMA HandedAt ==
    ASSUME SendInv
    PROVE  /\ Len(payloads) \in Nat
           /\ Handed[0] = <<>>
           /\ \A p \in 0..Len(payloads) : Handed[p] \in Seq(Nat)
           /\ \A p \in 1..Len(payloads) : Handed[p] = WithHanded(Handed[p - 1], payloads[p])
<1>1. FirstsAreNumbers(payloads) /\ Len(payloads) \in Nat
  BY Firsts, LenProperties DEF SendInv, SenderType
<1> QED
  BY <1>1, HandedSteps DEF Handed

\* What has been handed out does not change with the payloads that follow.
LEMMA HandedStays ==
    ASSUME SendInv, SendInv', Grown
    PROVE  \A p \in 0..Len(payloads) : Handed'[p] = Handed[p]
<1>1. FirstsAreNumbers(payloads)'
  BY Firsts, PTL
<1>2. FirstsAreNumbers(payloads')
  BY <1>1 DEF FirstsAreNumbers
<1>3. \A p \in 0..Len(payloads) : HandedFrom(payloads')[p] = HandedFrom(payloads)[p]
  BY <1>2, HandedPrefix DEF Grown
<1> QED
  BY <1>3 DEF Handed

\* t starts with s.
Begins(s, t) == Len(s) <= Len(t) /\ \A i \in 1..Len(s) : t[i] = s[i]

LEMMA BeginsRange ==
    ASSUME NEW s \in Seq(Nat), NEW t \in Seq(Nat), Begins(s, t)
    PROVE  Range(s) \subseteq Range(t)
<1>1. DOMAIN s = 1..Len(s) /\ DOMAIN t = 1..Len(t) /\ Len(s) \in Nat /\ Len(t) \in Nat
  BY LenProperties
<1>2. \A i \in 1..Len(s) : i \in 1..Len(t) /\ t[i] = s[i]
  BY <1>1 DEF Begins
<1> QED
  BY <1>1, <1>2 DEF Range

LEMMA WithHandedBegins ==
    ASSUME NEW s \in Seq(Nat), NEW x, WithHanded(s, x) \in Seq(Nat)
    PROVE  Begins(s, WithHanded(s, x))
<1>1. Len(s) \in Nat
  BY LenProperties
<1>2. CASE HandsOut(x)
  <2>1. /\ Len(Append(s, x.pieces[1].nalu)) = Len(s) + 1
        /\ \A i \in 1..Len(s) : Append(s, x.pieces[1].nalu)[i] = s[i]
    BY AppendGrows
  <2> QED
    BY <1>1, <1>2, <2>1 DEF WithHanded, Begins
<1>3. CASE ~HandsOut(x)
  BY <1>1, <1>3 DEF WithHanded, Begins
<1> QED
  BY <1>2, <1>3

\* What was handed out of the first payloads is handed out first of more of them.
LEMMA HandedGrows ==
    ASSUME SendInv, NEW p \in 0..Len(payloads)
    PROVE  Begins(Handed[p], HandedNalus)
<1> DEFINE n == Len(payloads)
           h == Handed
           D == {d \in Nat : p + d <= n => Begins(h[p], h[p + d])}
<1>1. /\ n \in Nat /\ \A q \in 0..n : h[q] \in Seq(Nat) /\ Len(h[q]) \in Nat
      /\ \A q \in 1..n : h[q] = WithHanded(h[q - 1], payloads[q])
  BY HandedAt, LenProperties
<1> HIDE DEF n, h
<1>2. 0 \in D
  BY <1>1 DEF Begins, n
<1>3. ASSUME NEW d \in Nat, d \in D PROVE d + 1 \in D
  <2> SUFFICES ASSUME p + (d + 1) <= n PROVE Begins(h[p], h[p + (d + 1)])
    OBVIOUS
  <2>1. PICK q \in Nat : q = p + d /\ q + 1 = p + (d + 1) /\ q + 1 \in 1..n /\ q \in 0..n
                         /\ (q + 1) - 1 = q
    BY <1>1 DEF n
  <2>2. Begins(h[p], h[q])
    BY <1>1, <1>3, <2>1
  <2>3. Begins(h[q], h[q + 1])
    <3>1. h[q + 1] = WithHanded(h[q], payloads[q + 1]) /\ h[q + 1] \in Seq(Nat) /\ h[q] \in Seq(Nat)
      BY <1>1, <2>1
    <3> QED
      BY <3>1, WithHandedBegins
  <2>4. Len(h[p]) \in Nat /\ Len(h[q]) \in Nat /\ Len(h[q + 1]) \in Nat
    BY <1>1, <2>1 DEF n
  <2>5. Begins(h[p], h[q + 1])
    BY <2>2, <2>3, <2>4 DEF Begins
  <2> QED
    BY <2>1, <2>5
<1>4. Nat \subseteq D
  <2> HIDE DEF D
  <2> QED
    BY <1>2, <1>3, SetInduction
<1>5. n - p \in Nat /\ p + (n - p) = n
  BY <1>1 DEF n
<1>6. Begins(h[p], h[n])
  <2>1. n - p \in D
    BY <1>4, <1>5
  <2>2. p + (n - p) <= n
    BY <1>1, <1>5
  <2>3. Begins(h[p], h[p + (n - p)])
    BY <2>1, <2>2
  <2> QED
    BY <1>5, <2>3
<1> QED
  BY <1>6 DEF n, h, HandedNalus

-----------------------------------------------------------------------------
(* The stream the sender takes in.                                         *)

\* What has been sent is behind the scan, and before what is buffered.
LEMMA SentBelow ==
    ASSUME SendInv
    PROVE  /\ \A a \in Range(sent) : a \in Nat /\ a \in 1..cur /\ a \in 1..Len(given)
           /\ \A a \in Range(sent) : \A i \in 1..Len(bufferedNALUs) : a < bufferedNALUs[i]
           /\ cur \in Nat
<1> DEFINE n == Len(sent)
           m == Len(bufferedNALUs)
           t == Through
<1>1. /\ sent \in Seq(Nat) /\ bufferedNALUs \in Seq(Nat) /\ t \in Seq(Nat)
      /\ n \in Nat /\ m \in Nat
  BY ThroughType, LenProperties
<1>2. /\ Len(t) = n + m /\ DOMAIN t = 1..(n + m) /\ DOMAIN sent = 1..n
      /\ \A i \in 1..(n + m) : t[i] = IF i <= n THEN sent[i] ELSE bufferedNALUs[i - n]
  BY <1>1, ConcatProperties, LenProperties DEF Through
<1>3. /\ \A i, j \in 1..(n + m) : i < j => t[i] < t[j]
      /\ Range(t) = {k \in 1..cur : ~IsShort(given[k])}
  BY <1>2 DEF SendInv, KeptInOrder, Through, Position
<1>4. cur \in 0..Len(given) /\ Len(given) \in Nat
  BY LenProperties DEF SendInv, SenderType
<1> HIDE DEF n, m, t
<1>5. ASSUME NEW i \in 1..n PROVE i \in 1..(n + m) /\ t[i] = sent[i] /\ t[i] \in 1..cur
  <2>1. i \in 1..(n + m) /\ i <= n
    BY <1>1
  <2>2. t[i] \in Range(t)
    BY <1>2, <2>1 DEF Range
  <2> QED
    BY <1>2, <1>3, <2>1, <2>2
<1>6. \A a \in Range(sent) : \E i \in 1..n : a = sent[i]
  BY <1>2 DEF Range
<1>7. ASSUME NEW i \in 1..n, NEW j \in 1..m PROVE sent[i] < bufferedNALUs[j]
  <2>1. n + j \in 1..(n + m) /\ ~(n + j <= n) /\ (n + j) - n = j /\ i < n + j
    BY <1>1
  <2>2. t[n + j] = bufferedNALUs[j]
    BY <1>2, <2>1
  <2> QED
    BY <1>3, <1>5, <2>1, <2>2
<1>8. \A a \in 1..cur : a \in Nat /\ a \in 1..Len(given)
  BY <1>4
<1> QED
  BY <1>4, <1>5, <1>6, <1>7, <1>8 DEF m

\* The first of every payload has been sent or is being cut.
FirstsSent ==
    \A p \in Position(payloads) :
        \/ Fragment(p).nalu \in Range(sent)
        \/ p > packets /\ pc = "fu" /\ Fragment(p).nalu = Current

\* No payload is made, and none handed over while a NAL unit is being cut.
LEMMA HandedSame ==
    ASSUME SendInv, SendInv', Grown, HandedInv, UNCHANGED <<payloads, sent>>,
           pc # "fu" \/ UNCHANGED <<pc, packets, cur>>
    PROVE  HandedInv'
<1>1. HandedNalus' = HandedNalus
  BY DEF HandedNalus, Handed
<1>2. \A k \in Range(sent) : HandedOut(k)' <=> HandedOut(k)
  <2>1. \A k \in Range(sent) : given'[k] = given[k]
    BY SentBelow DEF Grown
  <2> QED
    BY <2>1 DEF HandedOut, Position
<1>3. FirstsSent'
  BY DEF HandedInv, FirstsSent, Position, Fragment, Current
<1>4. {k \in Range(sent) : HandedOut(k)}' = {k \in Range(sent) : HandedOut(k)}
  BY <1>2
<1> QED
  BY <1>1, <1>3, <1>4 DEF HandedInv, FirstsSent, Position

\* What two sequences joined, and one with an element more, are made of.
LEMMA RangeConcat ==
    ASSUME NEW s \in Seq(Nat), NEW t \in Seq(Nat)
    PROVE  Range(s \o t) = Range(s) \cup Range(t)
<1> PICK n \in Nat, m \in Nat : n = Len(s) /\ m = Len(t)
  BY LenProperties
<1>1. /\ DOMAIN s = 1..n /\ DOMAIN t = 1..m /\ DOMAIN (s \o t) = 1..(n + m)
      /\ \A i \in 1..(n + m) : (s \o t)[i] = IF i <= n THEN s[i] ELSE t[i - n]
  BY ConcatProperties, LenProperties
<1>2. \A i \in 1..n : i \in 1..(n + m) /\ i <= n
  OBVIOUS
<1>3. \A i \in 1..m : n + i \in 1..(n + m) /\ ~(n + i <= n) /\ (n + i) - n = i
  OBVIOUS
<1>4. \A i \in 1..(n + m) : i \in 1..n \/ (~(i <= n) /\ i - n \in 1..m)
  OBVIOUS
<1>5. Range(s) \subseteq Range(s \o t)
  BY <1>1, <1>2 DEF Range
<1>6. Range(t) \subseteq Range(s \o t)
  <2>1. ASSUME NEW i \in 1..m PROVE \E j \in 1..(n + m) : (s \o t)[j] = t[i]
    BY <1>1, <1>3
  <2>2. \A y : y \in Range(t) => \E i \in 1..m : y = t[i]
    BY <1>1 DEF Range
  <2>3. \A j \in 1..(n + m) : (s \o t)[j] \in Range(s \o t)
    BY <1>1 DEF Range
  <2>4. ASSUME NEW y \in Range(t) PROVE y \in Range(s \o t)
    <3>1. PICK i \in 1..m : y = t[i]
      BY <2>2
    <3>2. PICK j \in 1..(n + m) : (s \o t)[j] = t[i]
      BY <2>1
    <3> QED
      BY <2>3, <3>1, <3>2
  <2> QED
    BY <2>4
<1>7. Range(s \o t) \subseteq Range(s) \cup Range(t)
  BY <1>1, <1>4 DEF Range
<1> QED
  BY <1>5, <1>6, <1>7

LEMMA RangeAppend ==
    ASSUME NEW s \in Seq(Nat), NEW k \in Nat
    PROVE  Range(Append(s, k)) = Range(s) \cup {k}
<1>1. <<k>> \in Seq(Nat) /\ Append(s, k) = s \o <<k>>
  BY AppendIsConcat
<1>2. Range(<<k>>) = {k}
  <2>1. DOMAIN <<k>> = {1} /\ <<k>>[1] = k
    OBVIOUS
  <2> QED
    BY <2>1 DEF Range
<1> QED
  BY <1>1, <1>2, RangeConcat

\* A payload x is made of which the NAL units in new are sent, m the first of it.
LEMMA HandedNew ==
    ASSUME SendInv, SendInv', Grown, HandedInv,
           NEW x, payloads' = Append(payloads, x), given' = given,
           NEW m \in Nat, m = x.pieces[1].nalu, NEW new, Range(sent') = Range(sent) \cup new,
           \A a \in Range(sent) : a < m,
           \A k \in new : k = m \/ \A p \in Position(payloads) : Fragment(p).nalu # k,
           m \in new => HandsOut(x) \/ \A p \in Position(payloads) : Fragment(p).nalu # m,
           m \in new => EndsNalu(x), HandsOut(x) => m \in new,
           x.kind = "single" => (PieceLen(x.pieces[1]) > 0 <=> given[m] > kH265NaluHeaderSize),
           FirstsSent'
    PROVE  HandedInv'
<1>0. PICK n \in Nat : n = Len(payloads)
  BY LenProperties DEF SendInv, SenderType
<1> DEFINE h == HandedNalus
           g == HandedNalus'
<1>1. /\ n = Len(payloads) /\ Len(payloads') = n + 1 /\ payloads'[n + 1] = x
      /\ \A p \in 1..n : payloads'[p] = payloads[p]
  <2>1. payloads \in Seq(PayloadType)
    BY DEF SendInv, SenderType
  <2> QED
    BY <1>0, <2>1, AppendGrows
<1>2. /\ Position(payloads) = 1..n /\ Position(payloads') = 1..(n + 1)
      /\ \A p \in 1..(n + 1) : p \in 1..n \/ p = n + 1
      /\ \A p \in 1..n : p \in 1..(n + 1)
      /\ n + 1 \in 1..(n + 1)
  BY <1>1 DEF Position
<1>3. h \in Seq(Nat) /\ Len(h) \in Nat /\ DOMAIN h = 1..Len(h)
  <2>1. n \in 0..n
    BY <1>1
  <2>2. h \in Seq(Nat)
    BY <1>1, <2>1, HandedAt DEF HandedNalus
  <2> QED
    BY <2>2, LenProperties
<1>4. g = WithHanded(h, x)
  <2>1. /\ Len(payloads') \in Nat
        /\ \A p \in 1..Len(payloads') : Handed'[p] = WithHanded(Handed'[p - 1], payloads'[p])
    <3>1. (/\ Len(payloads) \in Nat
           /\ \A p \in 1..Len(payloads) : Handed[p] = WithHanded(Handed[p - 1], payloads[p]))'
      BY HandedAt, PTL
    <3> QED
      BY <3>1
  <2>2. Handed'[n] = Handed[n]
    <3>1. n \in 0..n
      BY <1>1
    <3> QED
      BY <1>1, <3>1, HandedStays
  <2>3. n + 1 \in 1..Len(payloads') /\ (n + 1) - 1 = n
    BY <1>1
  <2>4. Handed'[n + 1] = WithHanded(Handed'[n], x)
    BY <1>1, <2>1, <2>3
  <2>5. Handed'[n + 1] = WithHanded(Handed[n], x)
    BY <2>2, <2>4
  <2> QED
    BY <1>1, <2>5 DEF HandedNalus
<1>5. /\ \A i, j \in 1..Len(h) : i < j => h[i] < h[j]
      /\ Range(h) = {k \in Range(sent) : HandedOut(k)}
  BY DEF HandedInv, Position
<1>6. /\ \A p \in 1..n : Fragment(p)' = Fragment(p) /\ payloads'[p].kind = payloads[p].kind
      /\ Fragment(n + 1)' = x.pieces[1] /\ payloads'[n + 1].kind = x.kind
  <2>1. ASSUME NEW p \in 1..n
        PROVE  Fragment(p)' = Fragment(p) /\ payloads'[p].kind = payloads[p].kind
    BY <1>1 DEF Fragment
  <2>2. Fragment(n + 1)' = payloads'[n + 1].pieces[1]
    BY DEF Fragment
  <2> QED
    BY <1>1, <2>1, <2>2
<1>7. \A k : HandedOut(k) <=>
         \E p \in 1..n : Fragment(p).nalu = k
                         /\ (payloads[p].kind = "single" => given[k] > kH265NaluHeaderSize)
  BY <1>2 DEF HandedOut, Fragment
<1>8. \A k : HandedOut(k)' <=>
         \E p \in 1..(n + 1) : Fragment(p)'.nalu = k
                         /\ (payloads'[p].kind = "single" => given[k] > kH265NaluHeaderSize)
  BY <1>2 DEF HandedOut, Fragment
<1>9. \A k : HandedOut(k)' <=>
         HandedOut(k) \/ (k = m /\ (x.kind = "single" => given[k] > kH265NaluHeaderSize))
  <2> SUFFICES ASSUME NEW k
               PROVE  HandedOut(k)' <=>
                         HandedOut(k)
                         \/ (k = m /\ (x.kind = "single" => given[k] > kH265NaluHeaderSize))
    OBVIOUS
  <2>1. Fragment(n + 1)'.nalu = m /\ payloads'[n + 1].kind = x.kind
    BY <1>6
  <2>2. \A p \in 1..n : Fragment(p)'.nalu = Fragment(p).nalu
                        /\ payloads'[p].kind = payloads[p].kind
    BY <1>6
  <2> DEFINE large == given[k] > kH265NaluHeaderSize
  <2>3. HandedOut(k) <=>
           \E p \in 1..n : Fragment(p).nalu = k /\ (payloads[p].kind = "single" => large)
    BY <1>7
  <2>4. HandedOut(k)' <=>
           \E p \in 1..(n + 1) :
               Fragment(p)'.nalu = k /\ (payloads'[p].kind = "single" => large)
    BY <1>8
  <2> HIDE DEF large
  <2>5. (\E p \in 1..(n + 1) :
            Fragment(p)'.nalu = k /\ (payloads'[p].kind = "single" => large))
        <=> \/ \E p \in 1..n : Fragment(p).nalu = k /\ (payloads[p].kind = "single" => large)
            \/ k = m /\ (x.kind = "single" => large)
    BY ONLY <1>2, <2>1, <2>2
  <2> QED
    BY <2>3, <2>4, <2>5 DEF large
<1>10. \A k \in Range(sent) : k # m
  <2>1. \A a \in Range(sent) : a \in Nat
    BY SentBelow
  <2> QED
    BY <2>1
<1>11. ASSUME NEW k \in new PROVE HandedOut(k)' <=> k = m /\ HandsOut(x)
  <2>1. CASE \A p \in Position(payloads) : Fragment(p).nalu # k
    <3>1. ~HandedOut(k)
      BY <1>2, <1>7, <2>1
    <3>2. k = m => (HandsOut(x) <=> (x.kind = "single" => given[k] > kH265NaluHeaderSize))
      BY <1>11 DEF HandsOut
    <3> QED
      BY <1>9, <3>1, <3>2
  <2>2. CASE k = m /\ HandsOut(x)
    BY <1>9, <2>2 DEF HandsOut
  <2> QED
    BY <1>11, <2>1, <2>2
<1>12. {k \in Range(sent) : HandedOut(k)}' = Range(h) \cup (IF HandsOut(x) THEN {m} ELSE {})
  <2>1. {k \in Range(sent) : HandedOut(k)}' = {k \in Range(sent) \cup new : HandedOut(k)'}
    OBVIOUS
  <2>2. \A k \in Range(sent) : HandedOut(k)' <=> HandedOut(k)
    BY <1>9, <1>10
  <2> QED
    BY <1>5, <1>11, <2>1, <2>2
<1> HIDE DEF h, g
<1>13. CASE ~HandsOut(x)
  <2>1. g = h
    BY <1>4, <1>13 DEF WithHanded
  <2> QED
    BY <1>5, <1>12, <1>13, <2>1 DEF HandedInv, FirstsSent, Position, g
<1>14. CASE HandsOut(x)
  <2>1. /\ g \in Seq(Nat) /\ Len(g) = Len(h) + 1 /\ g[Len(h) + 1] = m
        /\ \A i \in 1..Len(h) : g[i] = h[i]
    <3>1. g = Append(h, m)
      BY <1>4, <1>14 DEF WithHanded
    <3> QED
      BY <1>3, <3>1, AppendProperties
  <2>2. \A i \in 1..Len(h) : h[i] \in Nat /\ h[i] < m
    <3>1. \A i \in 1..Len(h) : h[i] \in Range(sent)
      BY <1>3, <1>5 DEF Range
    <3> QED
      BY <3>1, SentBelow
  <2>3. ASSUME NEW i \in 1..(Len(h) + 1), NEW j \in 1..(Len(h) + 1), i < j PROVE g[i] < g[j]
    <3>1. i \in 1..Len(h)
      BY <1>3, <2>3
    <3>2. CASE j \in 1..Len(h)
      BY <1>5, <2>1, <2>3, <3>1, <3>2
    <3>3. CASE j \notin 1..Len(h)
      <4>1. j = Len(h) + 1
        BY <1>3, <3>3
      <4> QED
        BY <2>1, <2>2, <3>1, <4>1
    <3> QED
      BY <3>2, <3>3
  <2>4. Range(g) = Range(h) \cup {m}
    <3>1. g = Append(h, m)
      BY <1>4, <1>14 DEF WithHanded
    <3> QED
      BY <1>3, <3>1, RangeAppend
  <2> QED
    BY <1>12, <1>14, <2>1, <2>3, <2>4 DEF HandedInv, FirstsSent, Position, g
<1> QED
  BY <1>13, <1>14

\* A packet with what was buffered.
LEMMA FlushHanded ==
    ASSUME SendInv, SendInv', Grown, HandedInv, flushBufferedNals
    PROVE  HandedInv'
<1>1. /\ pc = "scan" /\ bufferedNALUs # <<>> /\ given' = given
      /\ sent' = sent \o bufferedNALUs
  BY DEF flushBufferedNals, MustFlush
<1>2. PICK x : /\ payloads' = Append(payloads, x) /\ ~IsFragment(x)
               /\ x.pieces = BufferedPieces
  <2> DEFINE one == Payload("single", BufferedPieces, FALSE, FALSE, WrittenDonl,
                            given[bufferedNALUs[1]] + IfDonl(kDonlSize))
             more == Payload("ap", BufferedPieces, FALSE, FALSE, WrittenDonl,
                             aggregationBufferSize)
  <2>1. payloads' = Append(payloads, one) \/ payloads' = Append(payloads, more)
    BY DEF flushBufferedNals, BufferedPieces
  <2>2. /\ one.kind = "single" /\ one.pieces = BufferedPieces
        /\ more.kind = "ap" /\ more.pieces = BufferedPieces
    BY DEF Payload
  <2>3. ~IsFragment(one) /\ ~IsFragment(more)
    BY <2>2 DEF IsFragment
  <2> HIDE DEF one, more
  <2> QED
    BY <2>1, <2>2, <2>3
<1>3. /\ sent \in Seq(Nat) /\ bufferedNALUs \in Seq(Nat)
      /\ Len(bufferedNALUs) \in Nat /\ Len(bufferedNALUs) # 0
      /\ DOMAIN bufferedNALUs = 1..Len(bufferedNALUs)
  BY <1>1, ThroughType, EmptySeq, LenProperties
<1>4. 1 \in 1..Len(bufferedNALUs)
  BY <1>3
<1>5. PICK m \in Nat : m = bufferedNALUs[1] /\ m \in Range(bufferedNALUs) /\ given[m] \in Nat
  <2>1. bufferedNALUs[1] \in Nat /\ given[bufferedNALUs[1]] \in Nat
    BY <1>3, <1>4, ThroughType
  <2>2. bufferedNALUs[1] \in Range(bufferedNALUs)
    BY <1>3, <1>4 DEF Range
  <2> QED
    BY <2>1, <2>2
<1>6. x.pieces[1].nalu = m /\ PieceLen(x.pieces[1]) = given[m] - kH265NaluHeaderSize
  <2>1. /\ BufferedPieces[1] = WholePiece(m)
        /\ PieceLen(BufferedPieces[1]) = given[m] - kH265NaluHeaderSize
    BY <1>4, <1>5, BufferedFacts
  <2>2. WholePiece(m).nalu = m
    BY DEF WholePiece, Piece
  <2> QED
    BY <1>2, <2>1, <2>2
<1>7. Range(sent') = Range(sent) \cup Range(bufferedNALUs)
  BY <1>1, <1>3, RangeConcat
<1>8. \A k \in Range(bufferedNALUs), a \in Range(sent) : a < k /\ a \in Nat
  BY <1>3, SentBelow DEF Range
<1>9. \A p \in Position(payloads) : Fragment(p).nalu \in Range(sent)
  BY <1>1 DEF HandedInv
<1>10. \A k \in Range(bufferedNALUs), p \in Position(payloads) : Fragment(p).nalu # k
  <2>1. \A k \in Range(bufferedNALUs), a \in Range(sent) : a # k
    <3>1. \A a \in Nat : ~(a < a)
      OBVIOUS
    <3> QED
      BY <1>8, <3>1
  <2> QED
    BY <1>9, <2>1
<1>11. FirstsSent'
  <2>1. PICK n \in Nat : n = Len(payloads)
    BY DEF Grown
  <2>2. Len(payloads') = n + 1 /\ payloads'[n + 1] = x
    <3>1. payloads \in Seq(PayloadType)
      BY DEF SendInv, SenderType
    <3> QED
      BY <1>2, <2>1, <3>1, AppendGrows
  <2>3. ASSUME NEW p \in 1..(n + 1) PROVE Fragment(p)'.nalu \in Range(sent')
    <3>1. CASE p \in 1..n
      <4>1. Fragment(p)' = Fragment(p)
        BY <2>1, <3>1, MadeStays
      <4>2. Fragment(p).nalu \in Range(sent)
        BY <1>9, <2>1, <3>1 DEF Position
      <4> QED
        BY <1>7, <4>1, <4>2
    <3>2. CASE p = n + 1
      BY <1>5, <1>6, <1>7, <2>2, <3>2 DEF Fragment
    <3> QED
      BY <3>1, <3>2
  <2> QED
    BY <2>2, <2>3 DEF FirstsSent, Position
<1>12. x.kind = "single" => (PieceLen(x.pieces[1]) > 0 <=> given[m] > kH265NaluHeaderSize)
  <2>1. \A v \in Nat : v - 2 > 0 <=> v > 2
    OBVIOUS
  <2> QED
    BY <1>5, <1>6, <2>1 DEF kH265NaluHeaderSize
<1>13. EndsNalu(x)
  BY <1>2 DEF EndsNalu
<1>14. \A a \in Range(sent) : a < m
  BY <1>5, <1>8
<1> QED
  <2>1. PICK new : new = Range(bufferedNALUs)
    OBVIOUS
  <2>2. m \in new /\ Range(sent') = Range(sent) \cup new
    BY <1>5, <1>7, <2>1
  <2>3. \A k \in new, p \in Position(payloads) : Fragment(p).nalu # k
    BY <1>10, <2>1
  <2>4. m = x.pieces[1].nalu /\ given' = given /\ payloads' = Append(payloads, x)
    BY <1>1, <1>2, <1>6
  <2> QED
    BY <1>11, <1>12, <1>13, <1>14, <2>2, <2>3, <2>4, HandedNew

\* A fragment; with the last the NAL unit is sent.
LEMMA FuHanded ==
    ASSUME SendInv, SendInv', Grown, NoLoneFragment, HandedInv, FuFragment
    PROVE  HandedInv'
<1>1. PICK n \in Nat : n = Len(payloads)
  BY DEF Grown
<1>2. PICK k \in Nat : k = Current /\ k = cur + 1
  <2>1. cur < Len(given)
    BY DEF SendInv, LoopInv, FuFragment
  <2> QED
    BY <2>1, CurrentFacts
<1>3. PICK x, ended :
         /\ ended \in BOOLEAN
         /\ payloads' = Append(payloads, x) /\ x.kind = "fu"
         /\ x.pieces[1].nalu = k /\ x.e = ended
         /\ ended => sent' = Append(sent, k)
         /\ ~ended => UNCHANGED <<sent, pc, cur, packets>>
  <2> DEFINE next == offset + currentFUPayloadSize
             made == Payload("fu", <<Piece(Current, offset, next)>>,
                             StartBit, EndBit, WrittenDonl,
                             fuPacketHeaderSize + currentFUPayloadSize)
  <2>1. payloads' = Append(payloads, made) /\ pc = "fu"
    BY DEF FuFragment
  <2>2. made.kind = "fu" /\ made.pieces[1].nalu = k /\ made.e = EndBit
    BY <1>2 DEF Payload, Piece
  <2>3. PICK ended \in BOOLEAN : ended <=> next = BodyLen
    OBVIOUS
  <2>4. EndBit <=> next = BodyLen
    BY <2>1, LastHasEnd DEF EndBit
  <2>5. EndBit \in BOOLEAN
    BY DEF EndBit
  <2>6. EndBit = ended
    BY <2>3, <2>4, <2>5
  <2>7. next = BodyLen => sent' = Append(sent, k)
    BY <1>2 DEF FuFragment
  <2>8. next # BodyLen => UNCHANGED <<sent, pc, cur, packets>>
    BY DEF FuFragment, outVars
  <2>9. /\ ended => sent' = Append(sent, k)
        /\ ~ended => UNCHANGED <<sent, pc, cur, packets>>
    BY <2>3, <2>7, <2>8
  <2>10. made.e = ended
    BY <2>2, <2>6
  <2> HIDE DEF made, next
  <2> QED
    BY <2>1, <2>2, <2>3, <2>9, <2>10
<1>4. given' = given /\ pc = "fu"
  BY DEF FuFragment
<1>5. /\ sent \in Seq(Nat) /\ \A a \in Range(sent) : a < k
  <2>1. \A a \in Range(sent) : a \in 1..cur
    BY SentBelow
  <2>2. cur \in Nat
    BY SentBelow
  <2> QED
    BY <1>2, <2>1, <2>2, ThroughType
<1>6. PICK new : new = IF ended THEN {k} ELSE {}
  OBVIOUS
<1>7. Range(sent') = Range(sent) \cup new
  <2>1. CASE ended
    BY <1>3, <1>5, <1>6, <2>1, RangeAppend
  <2>2. CASE ~ended
    BY <1>3, <1>6, <2>2
  <2> QED
    BY <2>1, <2>2
<1>8. Len(payloads') = n + 1 /\ payloads'[n + 1] = x
  <2>1. payloads \in Seq(PayloadType)
    BY DEF SendInv, SenderType
  <2> QED
    BY <1>1, <1>3, <2>1, AppendGrows
<1>9. HandsOut(x) <=> ended
  <2>1. "fu" # "single"
    OBVIOUS
  <2> QED
    BY <1>3, <2>1 DEF HandsOut, EndsNalu, IsFragment
<1>10. FirstsSent'
  <2>1. ASSUME NEW p \in 1..(n + 1)
        PROVE  \/ Fragment(p)'.nalu \in Range(sent')
               \/ p > packets' /\ pc' = "fu" /\ Fragment(p)'.nalu = Current'
    <3>1. Fragment(p)'.nalu \in Range(sent) \/ (Fragment(p)'.nalu = k /\ p > packets)
      <4>1. CASE p \in 1..n
        <5>1. Fragment(p)' = Fragment(p)
          BY <1>1, <4>1, MadeStays
        <5> QED
          BY <1>1, <1>2, <4>1, <5>1 DEF HandedInv, Position
      <4>2. CASE p = n + 1
        <5>1. packets \in Nat /\ packets <= n
          BY <1>1 DEF Grown
        <5> QED
          BY <1>3, <1>8, <4>2, <5>1 DEF Fragment
      <4> QED
        BY <4>1, <4>2
    <3>2. CASE ended
      BY <1>6, <1>7, <3>1, <3>2
    <3>3. CASE ~ended
      <4>1. packets' = packets /\ pc' = "fu" /\ Current' = k /\ sent' = sent
        BY <1>2, <1>3, <1>4, <3>3 DEF Current
      <4> QED
        BY <3>1, <4>1
    <3> QED
      BY <3>2, <3>3
  <2> QED
    BY <1>8, <2>1 DEF FirstsSent, Position
<1>11. /\ \A j \in new : j = k
       /\ k \in new <=> ended
  BY <1>6
<1>12. EndsNalu(x) <=> ended
  BY <1>3 DEF EndsNalu, IsFragment
<1>13. x.kind # "single"
  BY <1>3
<1> QED
  BY <1>3, <1>4, <1>5, <1>7, <1>9, <1>10, <1>11, <1>12, <1>13, HandedNew

LEMMA SendHanded ==
    ASSUME SendInv, SendInv', Grown, NoLoneFragment, HandedInv, Send
    PROVE  HandedInv'
<1> USE DEF packetizerVars, configVars, outVars, bufferVars
<1>1. PacketizerNext
  BY DEF Send
<1>2. ASSUME NEW value, WithSkipAggregation(value) PROVE HandedInv'
  BY <1>2, HandedSame DEF WithSkipAggregation
<1>3. ASSUME NEW frame, Packetize(frame) PROVE HandedInv'
  BY <1>3, HandedSame DEF Packetize
<1>4. CASE SkipShort \/ BufferNalu \/ StartFu \/ Return
  BY <1>4, HandedSame DEF SkipShort, BufferNalu, AtNalu, StartFu, Return
<1>5. CASE ContinueInPlace
  BY <1>5, HandedSame DEF ContinueInPlace
<1> QED
  BY <1>1, <1>2, <1>3, <1>4, <1>5, FlushHanded, FuHanded DEF PacketizerNext, Working

\* What is sent stays sent, and a fragment made is of a NAL unit not sent yet.
LEMMA SentStays ==
    ASSUME SendInv, Grown, Send
    PROVE  /\ Range(sent) \subseteq Range(sent')
           /\ \A p \in Position(payloads') :
                 \/ p \in Position(payloads)
                 \/ IsFragment(payloads'[p]) => Fragment(p)'.nalu \notin Range(sent)
<1> USE DEF packetizerVars, configVars, outVars, bufferVars
<1>1. PacketizerNext
  BY DEF Send
<1>2. sent \in Seq(Nat) /\ bufferedNALUs \in Seq(Nat)
  BY ThroughType
<1>3. PICK n \in Nat : n = Len(payloads)
  BY DEF Grown
<1>4. payloads \in Seq(PayloadType)
  BY DEF SendInv, SenderType
<1>5. ASSUME UNCHANGED <<payloads, sent>>
      PROVE  /\ Range(sent) \subseteq Range(sent')
             /\ \A p \in Position(payloads') : p \in Position(payloads)
  BY <1>5 DEF Position
<1>6. ASSUME NEW x, payloads' = Append(payloads, x), NEW p \in Position(payloads')
      PROVE  p \in Position(payloads) \/ (Fragment(p)' = x.pieces[1] /\ payloads'[p] = x)
  <2>1. Len(payloads') = n + 1 /\ payloads'[n + 1] = x
    BY <1>3, <1>4, <1>6, AppendGrows
  <2>2. p \in 1..(n + 1)
    BY <1>6, <2>1 DEF Position
  <2>3. p \in 1..n \/ p = n + 1
    BY <2>2
  <2>4. p = n + 1 => Fragment(p)' = x.pieces[1] /\ payloads'[p] = x
    BY <2>1 DEF Fragment
  <2>5. p \in 1..n => p \in Position(payloads)
    BY <1>3 DEF Position
  <2> QED
    BY <2>3, <2>4, <2>5
<1>7. ASSUME flushBufferedNals
      PROVE  /\ Range(sent) \subseteq Range(sent')
             /\ \A p \in Position(payloads') : p \in Position(payloads) \/ ~IsFragment(payloads'[p])
  <2>1. Range(sent') = Range(sent) \cup Range(bufferedNALUs)
    BY <1>2, <1>7, RangeConcat DEF flushBufferedNals
  <2>2. PICK x : payloads' = Append(payloads, x) /\ ~IsFragment(x)
    BY <1>7 DEF flushBufferedNals, Payload, IsFragment
  <2> QED
    BY <1>6, <2>1, <2>2
<1>8. ASSUME FuFragment
      PROVE  /\ Range(sent) \subseteq Range(sent')
             /\ \A p \in Position(payloads') :
                   p \in Position(payloads) \/ Fragment(p)'.nalu \notin Range(sent)
  <2>1. PICK k \in Nat : k = Current /\ k = cur + 1
    <3>1. cur < Len(given)
      BY <1>8 DEF SendInv, LoopInv, FuFragment
    <3> QED
      BY <3>1, CurrentFacts
  <2>2. sent' = Append(sent, k) \/ sent' = sent
    BY <1>8, <2>1 DEF FuFragment
  <2>3. Range(sent) \subseteq Range(sent')
    BY <1>2, <2>2, RangeAppend
  <2>4. PICK x : payloads' = Append(payloads, x) /\ x.pieces[1].nalu = k
    <3> DEFINE made == Payload("fu", <<Piece(Current, offset, offset + currentFUPayloadSize)>>,
                               StartBit, EndBit, WrittenDonl,
                               fuPacketHeaderSize + currentFUPayloadSize)
    <3>1. payloads' = Append(payloads, made)
      BY <1>8 DEF FuFragment
    <3>2. made.pieces[1].nalu = k
      BY <2>1 DEF Payload, Piece
    <3> HIDE DEF made
    <3> QED
      BY <3>1, <3>2
  <2>5. k \notin Range(sent)
    <3>1. cur \in Nat /\ \A a \in Range(sent) : a \in 1..cur
      BY SentBelow
    <3> QED
      BY <2>1, <3>1
  <2> QED
    BY <1>6, <2>3, <2>4, <2>5
<1>9. ASSUME NEW value, WithSkipAggregation(value) PROVE UNCHANGED <<payloads, sent>>
  BY <1>9 DEF WithSkipAggregation
<1>10. ASSUME NEW frame, Packetize(frame) PROVE UNCHANGED <<payloads, sent>>
  BY <1>10 DEF Packetize
<1>11. ASSUME SkipShort \/ BufferNalu \/ StartFu \/ ContinueInPlace \/ Return
       PROVE  UNCHANGED <<payloads, sent>>
  BY <1>11 DEF SkipShort, BufferNalu, StartFu, ContinueInPlace, Return
<1>12. \/ UNCHANGED <<payloads, sent>> \/ flushBufferedNals \/ FuFragment
  BY <1>1, <1>9, <1>10, <1>11 DEF PacketizerNext, Working
<1> QED
  BY <1>5, <1>7, <1>8, <1>12

\* Nothing new came out, and what did before is as good as it was.
LEMMA OutKept ==
    ASSUME TypeOK, OutInv, delivered' = delivered, Range(sent) \subseteq Range(sent'),
           \A unit \in UnitType : unit.hdr \in Range(sent) /\ AsExpected(unit)' => AsExpected(unit),
           Range(Handed[rcvd]) \subseteq Range(Handed'[rcvd']),
           lost' = {} => lost = {} /\ Handed'[rcvd'] = Handed[rcvd],
           current_fragment_is_valid' => fragment_hdr' \in Range(sent')
    PROVE  OutInv'
<1>1. PICK d : d = delivered /\ d = delivered'
  OBVIOUS
<1>2. PICK n \in Nat : n = Len(d)
  BY <1>1, LenProperties DEF TypeOK, ReceiverType
<1>3. /\ \A i \in 1..n : d[i].hdr \in Range(sent)
      /\ \A i \in 1..n : AsExpected(d[i]) => d[i].hdr \in Range(Handed[rcvd])
      /\ \A i, j \in 1..n : i < j /\ AsExpected(d[i]) /\ AsExpected(d[j]) => d[i].hdr < d[j].hdr
      /\ lost = {} => [i \in 1..n |-> d[i].hdr] = Handed[rcvd]
  BY <1>1, <1>2 DEF OutInv, Position
<1>4. \A i \in 1..n : AsExpected(d[i])' => AsExpected(d[i])
  <2>1. \A i \in 1..n : d[i] \in UnitType
    BY <1>1, <1>2, ElementOfSeq DEF TypeOK, ReceiverType
  <2> QED
    BY <1>3, <2>1
<1>5. /\ \A i \in 1..n : d[i].hdr \in Range(sent')
      /\ \A i \in 1..n : AsExpected(d[i])' => d[i].hdr \in Range(Handed'[rcvd'])
      /\ \A i, j \in 1..n : i < j /\ AsExpected(d[i])' /\ AsExpected(d[j])' => d[i].hdr < d[j].hdr
      /\ lost' = {} => [i \in 1..n |-> d[i].hdr] = Handed'[rcvd']
  BY <1>3, <1>4
<1>6. Position(delivered)' = 1..n
  BY <1>1, <1>2 DEF Position
<1>7. /\ \A i \in Position(delivered)' :
            /\ delivered'[i].hdr \in Range(sent')
            /\ AsExpected(delivered[i])' => delivered'[i].hdr \in Range(Handed'[rcvd'])
      /\ \A i, j \in Position(delivered)' :
            i < j /\ AsExpected(delivered[i])' /\ AsExpected(delivered[j])' =>
                delivered'[i].hdr < delivered'[j].hdr
      /\ lost' = {} => [i \in Position(delivered)' |-> delivered'[i].hdr] = Handed'[rcvd']
  BY <1>1, <1>5, <1>6
<1> QED
  BY <1>7 DEF OutInv

\* The sender's steps leave what came out as good, and as bad, as it was.
LEMMA ExpectedBack ==
    ASSUME SendInv, SendInv', Grown, UNCHANGED add_donl,
           \A p \in Position(payloads') :
              \/ p \in Position(payloads)
              \/ IsFragment(payloads'[p]) => Fragment(p)'.nalu \notin Range(sent),
           NEW unit \in UnitType, unit.hdr \in Range(sent), AsExpected(unit)'
    PROVE  AsExpected(unit)
<1>1. unit.hdr \in 1..Len(given)
  BY DEF UnitType
<1>2. CASE unit = Whole(unit.hdr)'
  <2>1. given'[unit.hdr] = given[unit.hdr]
    BY <1>1 DEF Grown
  <2> QED
    BY <1>2, <2>1 DEF AsExpected, Whole
<1>3. CASE unit # Whole(unit.hdr)'
  <2>1. add_donl
    BY <1>3 DEF AsExpected
  <2>2. PICK p \in Position(payloads') :
           /\ IsFragment(payloads'[p]) /\ payloads'[p].e
           /\ Fragment(p)'.nalu = unit.hdr /\ unit.body = Assembled'[p]
    BY <1>3 DEF AsExpected
  <2>3. p \in Position(payloads)
    BY <2>2
  <2>4. p \in 1..Len(payloads) /\ p \in 0..Len(payloads)
    BY <2>3 DEF Grown, Position
  <2>5. payloads'[p] = payloads[p] /\ Fragment(p)' = Fragment(p) /\ Assembled'[p] = Assembled[p]
    BY <2>4, MadeStays, AssembledStays DEF Grown
  <2> QED
    BY <2>1, <2>2, <2>3, <2>5 DEF AsExpected
<1> QED
  BY <1>2, <1>3

LEMMA OutStays ==
    ASSUME SenderInv, SenderInv', Grown, OutInv, UNCHANGED <<depacketizerVars, transportVars, add_donl>>,
           Range(sent) \subseteq Range(sent'),
           \A p \in Position(payloads') :
              \/ p \in Position(payloads)
              \/ IsFragment(payloads'[p]) => Fragment(p)'.nalu \notin Range(sent)
    PROVE  OutInv'
<1>0. SendInv /\ SendInv' /\ TypeOK
  BY DEF SenderInv, SendInv, TypeOK
<1>1. PICK r : r = rcvd /\ r \in 0..Len(payloads)
  <2>1. rcvd \in 0..packets /\ packets \in Nat /\ packets <= Len(payloads) /\ Len(payloads) \in Nat
    BY <1>0 DEF TypeOK, Grown
  <2>2. rcvd \in 0..Len(payloads)
    BY <2>1
  <2> QED
    BY <2>2
<1>2. rcvd' = r /\ lost' = lost /\ delivered' = delivered
      /\ current_fragment_is_valid' = current_fragment_is_valid /\ fragment_hdr' = fragment_hdr
  BY <1>1 DEF depacketizerVars, fragmentVars, transportVars
<1>3. Handed'[r] = Handed[r]
  BY <1>0, <1>1, HandedStays
<1>4. \A unit \in UnitType : unit.hdr \in Range(sent) /\ AsExpected(unit)' => AsExpected(unit)
  BY <1>0, ExpectedBack
<1>5. current_fragment_is_valid' => fragment_hdr' \in Range(sent')
  BY <1>2 DEF OutInv
<1> QED
  BY <1>0, <1>1, <1>2, <1>3, <1>4, <1>5, OutKept

\* What came out, and what is handed out, where the sender rests.
LEMMA ExpectedSame ==
    ASSUME UNCHANGED packetizerVars
    PROVE  /\ \A unit : AsExpected(unit)' <=> AsExpected(unit)
           /\ Handed' = Handed /\ HandedNalus' = HandedNalus
           /\ Range(sent') = Range(sent)
<1> USE DEF packetizerVars, configVars, outVars, bufferVars
<1>1. Assembled' = Assembled
  BY DEF Assembled
<1>2. \A unit : AsExpected(unit)' <=> AsExpected(unit)
  BY <1>1 DEF AsExpected, Whole, Position, Fragment
<1> QED
  BY <1>2 DEF Handed, HandedNalus

LEMMA HandedRests ==
    ASSUME UNCHANGED packetizerVars, HandedInv
    PROVE  HandedInv'
<1> USE DEF packetizerVars, configVars, outVars, bufferVars
<1>1. HandedNalus' = HandedNalus
  BY ExpectedSame
<1>2. \A k : HandedOut(k)' <=> HandedOut(k)
  BY DEF HandedOut, Position
<1>3. {k \in Range(sent) : HandedOut(k)}' = {k \in Range(sent) : HandedOut(k)}
  BY <1>2
<1> QED
  BY <1>1, <1>3 DEF HandedInv, Position, Fragment, Current

\* The packet that arrives next, and the NAL unit it hands out, if it does.
LEMMA HandedNext ==
    ASSUME SendInv, HandedInv, NEW p \in Nat, p \in Position(payloads), p <= packets
    PROVE  /\ Handed[p - 1] \in Seq(Nat) /\ Handed[p] \in Seq(Nat)
           /\ Fragment(p).nalu \in Nat /\ Fragment(p).nalu \in Range(sent)
           /\ Range(Handed[p - 1]) \subseteq Range(Handed[p])
           /\ ~HandsOut(payloads[p]) => Handed[p] = Handed[p - 1]
           /\ HandsOut(payloads[p]) =>
                 /\ Handed[p] = Append(Handed[p - 1], Fragment(p).nalu)
                 /\ \A a \in Range(Handed[p - 1]) : a < Fragment(p).nalu
<1>1. PICK n \in Nat : n = Len(payloads)
  BY LenProperties DEF SendInv, SenderType
<1>2. p \in 1..n /\ p - 1 \in 0..n /\ p \in 0..n
  BY <1>1 DEF Position
<1>3. PICK s, t, k : s = Handed[p - 1] /\ t = Handed[p] /\ k = Fragment(p).nalu
  OBVIOUS
<1>4. s \in Seq(Nat) /\ t \in Seq(Nat) /\ t = WithHanded(s, payloads[p])
  BY <1>1, <1>2, <1>3, HandedAt
<1>5. k \in Range(sent) /\ k \in Nat
  <2>1. packets \in Nat
    BY <1>1 DEF SendInv, SenderType
  <2>2. ~(p > packets)
    BY <2>1
  <2>3. k \in Range(sent)
    BY <1>3, <2>2 DEF HandedInv
  <2> QED
    BY <2>3, SentBelow
<1>6. Range(s) \subseteq Range(t)
  BY <1>4, WithHandedBegins, BeginsRange
<1>7. ASSUME HandsOut(payloads[p])
      PROVE  t = Append(s, k) /\ \A a \in Range(s) : a < k
  <2>1. t = Append(s, k)
    BY <1>3, <1>4, <1>7 DEF WithHanded, Fragment
  <2>2. PICK m \in Nat : m = Len(s) /\ DOMAIN s = 1..m
    BY <1>4, LenProperties
  <2>3. Len(t) = m + 1 /\ t[m + 1] = k /\ \A i \in 1..m : t[i] = s[i]
    BY <1>4, <1>5, <2>1, <2>2, AppendGrows
  <2>4. PICK g : g = HandedNalus /\ g \in Seq(Nat)
    <3>1. n \in 0..n
      OBVIOUS
    <3> QED
      BY <1>1, <3>1, HandedAt DEF HandedNalus
  <2>5. PICK l \in Nat : l = Len(g)
    BY <2>4, LenProperties
  <2>6. m + 1 <= l /\ \A i \in 1..(m + 1) : g[i] = t[i]
    BY <1>1, <1>2, <1>3, <2>3, <2>4, <2>5, HandedGrows DEF Begins
  <2>7. \A i, j \in 1..l : i < j => g[i] < g[j]
    BY <2>4, <2>5 DEF HandedInv, Position
  <2>8. ASSUME NEW i \in 1..m PROVE s[i] < k
    <3>1. i \in 1..(m + 1) /\ m + 1 \in 1..(m + 1) /\ i \in 1..l /\ m + 1 \in 1..l /\ i < m + 1
      BY <2>6
    <3> QED
      BY <2>3, <2>6, <2>7, <3>1
  <2> QED
    BY <2>1, <2>2, <2>8 DEF Range
<1>8. ~HandsOut(payloads[p]) => t = s
  BY <1>4 DEF WithHanded
<1> QED
  BY <1>3, <1>4, <1>5, <1>6, <1>7, <1>8

\* Nothing comes out at the receiver.
LEMMA OutSame ==
    ASSUME SenderInv, OutInv, HandedInv, UNCHANGED <<packetizerVars, delivered>>,
           rcvd < packets, rcvd' = rcvd + 1,
           lost' = {} => lost = {} /\ ~HandsOut(payloads[rcvd + 1]),
           current_fragment_is_valid' => fragment_hdr' \in Range(sent)
    PROVE  OutInv'
<1>0. SendInv /\ TypeOK
  BY DEF SenderInv, SendInv, TypeOK
<1>1. PICK p \in Nat : /\ p = rcvd + 1 /\ p \in Position(payloads) /\ p <= packets /\ p - 1 = rcvd
                       /\ rcvd' = p
  <2>1. rcvd \in Nat /\ rcvd + 1 \in Position(payloads) /\ rcvd + 1 \in 1..packets
    BY <1>0, NextPacket
  <2> QED
    BY <2>1
<1>2. /\ Range(Handed[p - 1]) \subseteq Range(Handed[p])
      /\ ~HandsOut(payloads[p]) => Handed[p] = Handed[p - 1]
  BY <1>0, <1>1, HandedNext
<1>3. /\ \A unit : AsExpected(unit)' <=> AsExpected(unit)
      /\ Handed' = Handed /\ Range(sent') = Range(sent)
  BY ExpectedSame
<1>4. Range(Handed[rcvd]) \subseteq Range(Handed'[rcvd'])
  BY <1>1, <1>2, <1>3
<1>5. lost' = {} => lost = {} /\ Handed'[rcvd'] = Handed[rcvd]
  BY <1>1, <1>2, <1>3
<1> QED
  BY <1>0, <1>3, <1>4, <1>5, OutKept

\* A NAL unit comes out: the one the packet hands out, or a damaged one.
LEMMA OutMore ==
    ASSUME SenderInv, OutInv, HandedInv, UNCHANGED <<packetizerVars, lost>>,
           rcvd < packets, rcvd' = rcvd + 1, HandsOut(payloads[rcvd + 1]),
           NEW new \in UnitType, Output(new), new.hdr \in Range(sent),
           AsExpected(new) \/ lost = {} => new.hdr = Fragment(rcvd + 1).nalu,
           current_fragment_is_valid' => fragment_hdr' \in Range(sent)
    PROVE  OutInv'
<1>0. SendInv /\ TypeOK
  BY DEF SenderInv, SendInv, TypeOK
<1>1. PICK p \in Nat : /\ p = rcvd + 1 /\ p \in Position(payloads) /\ p <= packets /\ p - 1 = rcvd
                       /\ rcvd' = p
  <2>1. rcvd \in Nat /\ rcvd + 1 \in Position(payloads) /\ rcvd + 1 \in 1..packets
    BY <1>0, NextPacket
  <2> QED
    BY <2>1
<1>2. PICK s, t, k : s = Handed[p - 1] /\ t = Handed[p] /\ k = Fragment(p).nalu
  OBVIOUS
<1>3. /\ s \in Seq(Nat) /\ t = Append(s, k) /\ k \in Nat
      /\ \A a \in Range(s) : a < k
  BY <1>0, <1>1, <1>2, HandedNext
<1>4. Range(t) = Range(s) \cup {k}
  BY <1>3, RangeAppend
<1>5. /\ \A unit : AsExpected(unit)' <=> AsExpected(unit)
      /\ Handed'[rcvd'] = t /\ Handed[rcvd] = s /\ Range(sent') = Range(sent)
  BY <1>1, <1>2, ExpectedSame
<1>6. PICK n \in Nat : n = Len(delivered)
  BY <1>0, LenProperties DEF TypeOK, ReceiverType
<1>7. PICK d : d = delivered'
  OBVIOUS
<1>8. /\ Len(d) = n + 1 /\ d[n + 1] = new
      /\ \A i \in 1..n : d[i] = delivered[i]
  <2>1. delivered \in Seq(UnitType) /\ d = Append(delivered, new)
    BY <1>0, <1>7 DEF TypeOK, ReceiverType, Output
  <2> QED
    BY <1>6, <2>1, AppendGrows
<1>9. /\ \A i \in 1..n : d[i].hdr \in Range(sent)
      /\ \A i \in 1..n : AsExpected(d[i]) => d[i].hdr \in Range(s)
      /\ \A i, j \in 1..n : i < j /\ AsExpected(d[i]) /\ AsExpected(d[j]) => d[i].hdr < d[j].hdr
      /\ lost = {} => [i \in 1..n |-> d[i].hdr] = s
  <2>1. lost = {} => [i \in 1..n |-> delivered[i].hdr] = s
    BY <1>5, <1>6 DEF OutInv, Position
  <2>2. [i \in 1..n |-> delivered[i].hdr] = [i \in 1..n |-> d[i].hdr]
    BY <1>8
  <2>3. /\ \A i \in 1..n : delivered[i].hdr \in Range(sent)
        /\ \A i \in 1..n : AsExpected(delivered[i]) => delivered[i].hdr \in Range(s)
        /\ \A i, j \in 1..n : i < j /\ AsExpected(delivered[i]) /\ AsExpected(delivered[j]) =>
               delivered[i].hdr < delivered[j].hdr
    BY <1>5, <1>6 DEF OutInv, Position
  <2> QED
    BY <1>8, <2>1, <2>2, <2>3
<1>10. AsExpected(new) \/ lost = {} => new.hdr = k
  BY <1>1, <1>2
<1>11. \A i \in 1..(n + 1) : i \in 1..n \/ i = n + 1
  OBVIOUS
<1>12. \A i \in 1..(n + 1) :
          /\ d[i].hdr \in Range(sent)
          /\ AsExpected(d[i]) => d[i].hdr \in Range(t)
  BY <1>4, <1>8, <1>9, <1>10, <1>11
<1>13. \A i, j \in 1..(n + 1) :
          i < j /\ AsExpected(d[i]) /\ AsExpected(d[j]) => d[i].hdr < d[j].hdr
  <2> SUFFICES ASSUME NEW i \in 1..(n + 1), NEW j \in 1..(n + 1), i < j,
                      AsExpected(d[i]), AsExpected(d[j])
               PROVE  d[i].hdr < d[j].hdr
    OBVIOUS
  <2>1. i \in 1..n
    OBVIOUS
  <2>2. CASE j \in 1..n
    BY <1>9, <2>1, <2>2
  <2>3. CASE j = n + 1
    <3>1. d[j].hdr = k
      BY <1>8, <1>10, <2>3
    <3>2. d[i].hdr \in Range(s)
      BY <1>9, <2>1
    <3> QED
      BY <1>3, <3>1, <3>2
  <2> QED
    BY <1>11, <2>2, <2>3
<1>14. lost = {} => [i \in 1..(n + 1) |-> d[i].hdr] = t
  <2> SUFFICES ASSUME lost = {} PROVE [i \in 1..(n + 1) |-> d[i].hdr] = t
    OBVIOUS
  <2>1. s = [i \in 1..n |-> d[i].hdr]
    BY <1>9
  <2>2. Len(s) = n /\ \A i \in 1..n : s[i] = d[i].hdr
    <3>1. DOMAIN s = 1..n
      BY <2>1
    <3>2. DOMAIN s = 1..Len(s) /\ Len(s) \in Nat
      BY <1>3, LenProperties
    <3> QED
      BY <2>1, <3>1, <3>2
  <2>3. /\ Len(t) = n + 1 /\ t[n + 1] = k /\ \A i \in 1..n : t[i] = s[i]
        /\ t \in Seq(Nat)
    BY <1>3, <2>2, AppendProperties
  <2>4. DOMAIN t = 1..(n + 1) /\ t = [i \in DOMAIN t |-> t[i]]
    BY <2>3, LenProperties
  <2>5. \A i \in 1..(n + 1) : t[i] = d[i].hdr
    <3>1. d[n + 1].hdr = k
      BY <1>8, <1>10
    <3> QED
      BY <1>11, <2>2, <2>3, <3>1
  <2> QED
    BY <2>4, <2>5
<1>15. Position(delivered)' = 1..(n + 1)
  BY <1>7, <1>8 DEF Position
<1>16. /\ \A i \in Position(delivered)' :
             /\ delivered'[i].hdr \in Range(sent')
             /\ AsExpected(delivered[i])' => delivered'[i].hdr \in Range(Handed'[rcvd'])
       /\ \A i, j \in Position(delivered)' :
             i < j /\ AsExpected(delivered[i])' /\ AsExpected(delivered[j])' =>
                 delivered'[i].hdr < delivered'[j].hdr
       /\ lost' = {} => [i \in Position(delivered)' |-> delivered'[i].hdr] = Handed'[rcvd']
  <2>1. \A i \in 1..(n + 1) : AsExpected(d[i])' <=> AsExpected(d[i])
    BY <1>5
  <2>2. lost' = lost
    OBVIOUS
  <2> QED
    BY <1>5, <1>7, <1>12, <1>13, <1>14, <1>15, <2>1, <2>2
<1>17. current_fragment_is_valid' => fragment_hdr' \in Range(sent')
  BY <1>5
<1> QED
  BY <1>16, <1>17 DEF OutInv

\* A packet with whole NAL units: the first of them, unless it is a header alone.
LEMMA OutWhole ==
    ASSUME SenderInv, SenderInv', HandedInv, OutInv, Receive, ~IsFragment(payloads[rcvd + 1])
    PROVE  OutInv'
<1>0. SendInv /\ TypeOK
  BY DEF SenderInv, SendInv, TypeOK
<1>1. PICK p \in Nat : p = rcvd + 1 /\ p \in Position(payloads) /\ p <= packets
  <2>1. rcvd \in Nat /\ rcvd + 1 \in Position(payloads) /\ rcvd + 1 \in 1..packets
    BY <1>0, NextPacket DEF Receive
  <2> QED
    BY <2>1
<1>2. /\ UNCHANGED packetizerVars /\ lost' = lost /\ Depacketize(payloads[p])
      /\ rcvd < packets /\ rcvd' = rcvd + 1
  BY <1>1 DEF Receive
<1>3. PICK x : x = payloads[p] /\ x.kind # "fu"
  BY <1>1 DEF IsFragment
<1>4. PICK k : k = x.pieces[1].nalu /\ k = Fragment(p).nalu /\ k \in Range(sent)
  <2>1. Fragment(p).nalu \in Range(sent)
    BY <1>0, <1>1, HandedNext
  <2> QED
    BY <1>3, <2>1 DEF Fragment
<1>5. PICK unit : unit = Unit(x.pieces[1].nalu, PieceBytes(x.pieces[1])) /\ unit.hdr = k
  <2>1. Unit(x.pieces[1].nalu, PieceBytes(x.pieces[1])).hdr = x.pieces[1].nalu
    BY DEF Unit
  <2> QED
    BY <1>4, <2>1
<1>6. /\ UNCHANGED fragmentVars
      /\ \/ Output(unit) /\ HandsOut(x)
         \/ NoOutput("false") /\ ~HandsOut(x)
  <2>1. ParseSingle(x) \/ ParseAggregation(x)
    BY <1>2, <1>3 DEF Depacketize, ParseFu
  <2>2. CASE ParseSingle(x)
    BY <1>3, <1>5, <2>2 DEF ParseSingle, HandsOut, EndsNalu, IsFragment
  <2>3. CASE ParseAggregation(x)
    BY <1>3, <1>5, <2>3 DEF ParseAggregation, HandsOut, EndsNalu, IsFragment
  <2> QED
    BY <2>1, <2>2, <2>3
<1>7. current_fragment_is_valid' => fragment_hdr' \in Range(sent)
  BY <1>6 DEF OutInv, fragmentVars
<1>8. CASE NoOutput("false") /\ ~HandsOut(x)
  <2>1. delivered' = delivered
    BY <1>8 DEF NoOutput
  <2> QED
    BY <1>1, <1>2, <1>3, <1>7, <1>8, <2>1, OutSame
<1>9. CASE Output(unit) /\ HandsOut(x)
  <2>1. unit \in UnitType
    <3>1. /\ x.pieces[1] = Fragment(p) /\ Fragment(p).nalu \in 1..Len(given)
          /\ PieceBytes(Fragment(p)) \in Body
      BY <1>0, <1>1, <1>3, PayloadFacts DEF Fragment, SenderInv, TypeOK
    <3> QED
      BY <1>5, <3>1 DEF Unit, UnitType, Body
  <2>2. unit.hdr = Fragment(rcvd + 1).nalu
    BY <1>1, <1>4, <1>5
  <2>3. HandsOut(payloads[rcvd + 1]) /\ unit.hdr \in Range(sent) /\ Output(unit)
    BY <1>1, <1>3, <1>4, <1>5, <1>9
  <2> QED
    BY <1>2, <1>7, <2>1, <2>2, <2>3, OutMore
<1> QED
  BY <1>6, <1>8, <1>9

\* The body ends with a byte of k.
EndsWith(body, k) == body \in Body /\ Len(body) \in Nat \ {0} /\ body[Len(body)][1] = k

\* What ends with a fragment of k is the body of no other NAL unit, and none
\* assembled up to a fragment of another.
LEMMA BodyOf ==
    ASSUME SendInv, NEW p \in 1..Len(payloads), IsFragment(payloads[p]), NEW k,
           k = Fragment(p).nalu, NEW pre \in Body, NEW body, body = pre \o PartOf(payloads[p])
    PROVE  EndsWith(body, k)
<1>1. PICK x : x = payloads[p] /\ x \in PayloadType
  BY PayloadFacts DEF Position, SendInv
<1>2. PICK a \in Nat, b \in Nat : /\ a = Fragment(p).from /\ b = Fragment(p).to /\ a < b
                                  /\ k \in Nat
  <2>1. Fragment(p) \in PieceType
    BY PayloadFacts DEF Position, SendInv
  <2>2. Fragment(p).from < Fragment(p).to
    BY DEF ShapeInv, Position, SendInv
  <2> QED
    BY <2>1, <2>2 DEF PieceType
<1>3. /\ Bytes(k, a, b) \in Body /\ Len(Bytes(k, a, b)) = b - a
      /\ \A i \in 1..(b - a) : Bytes(k, a, b)[i] = <<k, a + i>>
  <2>1. a \in Nat /\ b \in Nat /\ a <= b /\ k \in Nat
    BY <1>2
  <2> QED
    BY <2>1, BytesType
<1>4. b - a \in 1..(b - a) /\ b - a \in Nat \ {0}
  BY <1>2
<1>5. PICK tail : tail = Bytes(k, a, b) /\ tail = PieceBytes(Fragment(p))
  BY <1>2 DEF PieceBytes
<1>6. PICK m : m = b - a /\ m = Len(tail) /\ tail \in Body /\ tail[m] = <<k, a + m>>
               /\ m \in Nat \ {0}
  BY <1>3, <1>4, <1>5
<1>7. body = pre \o tail \/ body = pre \o (DonlBytes \o tail)
  BY <1>5 DEF PartOf, Fragment
<1>8. DonlBytes \in Body
  BY DEF DonlBytes, Body
<1>9. ASSUME NEW u \in Body
      PROVE  /\ u \o tail \in Body /\ Len(u \o tail) \in Nat \ {0}
             /\ (u \o tail)[Len(u \o tail)] = <<k, a + m>>
  <2>1. u \in Seq(Nat \X Nat) /\ tail \in Seq(Nat \X Nat)
    BY <1>6 DEF Body
  <2>2. PICK l \in Nat : l = Len(u)
    BY <2>1, LenProperties
  <2>3. /\ u \o tail \in Seq(Nat \X Nat) /\ Len(u \o tail) = Len(u) + Len(tail)
        /\ \A i \in 1..(Len(u) + Len(tail)) :
              (u \o tail)[i] = IF i <= Len(u) THEN u[i] ELSE tail[i - Len(u)]
    BY <2>1, ConcatProperties
  <2>4. l + m \in 1..(l + m) /\ ~(l + m <= l) /\ (l + m) - l = m /\ l + m \in Nat \ {0}
    BY <1>6
  <2>5. PICK w : w = u \o tail
    OBVIOUS
  <2>6. w \in Seq(Nat \X Nat) /\ Len(w) = l + m /\ w[l + m] = tail[m]
    BY <1>6, <2>2, <2>3, <2>4, <2>5
  <2>7. w \in Body /\ Len(w) \in Nat \ {0} /\ w[Len(w)] = <<k, a + m>>
    BY <1>6, <2>4, <2>6 DEF Body
  <2> QED
    BY <2>5, <2>7
<1>10. pre \o (DonlBytes \o tail) = (pre \o DonlBytes) \o tail /\ pre \o DonlBytes \in Body
  <2>1. pre \in Seq(Nat \X Nat) /\ tail \in Seq(Nat \X Nat) /\ DonlBytes \in Seq(Nat \X Nat)
    BY <1>6, <1>8 DEF Body
  <2>2. pre \o DonlBytes \in Seq(Nat \X Nat)
    BY <2>1, ConcatProperties
  <2>3. pre \o (DonlBytes \o tail) = (pre \o DonlBytes) \o tail
    <3>1. PICK S, v : S = Nat \X Nat /\ v = DonlBytes
      OBVIOUS
    <3>2. pre \in Seq(S) /\ tail \in Seq(S) /\ v \in Seq(S)
      BY <2>1, <3>1
    <3>3. (pre \o v) \o tail = pre \o (v \o tail)
      BY ONLY SMTT(30), <3>2, ConcatAssociative
    <3> QED
      BY <3>1, <3>3
  <2> QED
    BY <2>2, <2>3 DEF Body
<1>11. /\ body \in Body /\ Len(body) \in Nat \ {0} /\ body[Len(body)] = <<k, a + m>>
  BY <1>7, <1>9, <1>10
<1> QED
  BY <1>11 DEF EndsWith

LEMMA AssembledBody ==
    ASSUME SendInv, NEW p \in 0..Len(payloads)
    PROVE  Assembled[p] \in Body
<1>1. PartsAreBodies /\ Len(payloads) \in Nat
  BY Parts, LenProperties DEF SendInv, SenderType
<1>2. AssembledFrom(payloads) \in [0..Len(payloads) -> Body]
  BY <1>1, AssembledSteps DEF PartsAreBodies
<1> QED
  BY <1>2 DEF Assembled

\* What the fragments of two NAL units make is told apart by its last byte.
LEMMA ExpectedHeader ==
    ASSUME SendInv, NEW p \in 1..Len(payloads), IsFragment(payloads[p]),
           NEW pre \in Body, NEW h \in 1..Len(given), NEW body,
           body = pre \o PartOf(payloads[p]), AsExpected(Unit(h, body))
    PROVE  h = Fragment(p).nalu
<1>1. PICK k : k = Fragment(p).nalu
  OBVIOUS
<1>2. EndsWith(body, k)
  BY <1>1, BodyOf
<1>3. PICK unit : unit = Unit(h, body) /\ unit.hdr = h /\ unit.body = body
  <2>1. Unit(h, body).hdr = h /\ Unit(h, body).body = body
    BY DEF Unit
  <2> QED
    BY <2>1
<1>4. CASE unit = Whole(h)
  <2>1. PICK g \in Int : g = given[h] - kH265NaluHeaderSize - 0
    <3>1. given[h] \in Nat
      BY ElementOfSeq DEF SendInv, SenderType
    <3> QED
      BY <3>1 DEF kH265NaluHeaderSize
  <2>2. body = [i \in 1..g |-> <<h, 0 + i>>]
    <3>1. unit.body = Bytes(h, 0, given[h] - kH265NaluHeaderSize)
      BY <1>4 DEF Whole, Unit
    <3> QED
      BY <1>3, <2>1, <3>1 DEF Bytes
  <2>3. DOMAIN body = 1..g /\ DOMAIN body = 1..Len(body)
    BY <1>2, <2>2, LenProperties DEF Body, EndsWith
  <2>4. Len(body) \in 1..g
    BY <1>2, <2>3 DEF EndsWith
  <2>5. body[Len(body)] = <<h, 0 + Len(body)>>
    BY <2>2, <2>4
  <2> QED
    BY <1>1, <1>2, <2>5 DEF EndsWith
<1>5. CASE unit # Whole(h)
  <2>1. PICK q \in Position(payloads) :
           /\ IsFragment(payloads[q]) /\ Fragment(q).nalu = h /\ body = Assembled[q]
    BY <1>3, <1>5 DEF AsExpected
  <2>2. PICK n \in Nat : n = Len(payloads) /\ q \in 1..n /\ q - 1 \in 0..n
    <3>1. Len(payloads) \in Nat /\ q \in 1..Len(payloads)
      BY LenProperties DEF SendInv, SenderType, Position
    <3> QED
      BY <3>1
  <2>3. PICK before : before = (IF payloads[q].s THEN <<>> ELSE Assembled[q - 1])
    OBVIOUS
  <2>4. body = before \o PartOf(payloads[q])
    BY <2>1, <2>2, <2>3, AssembledAt
  <2>5. before \in Body
    <3>1. <<>> \in Body
      BY DEF Body
    <3>2. Assembled[q - 1] \in Body
      BY <2>2, AssembledBody
    <3> QED
      BY <2>3, <3>1, <3>2
  <2>6. EndsWith(body, h)
    <3>1. q \in 1..Len(payloads) /\ IsFragment(payloads[q]) /\ h = Fragment(q).nalu
      BY <2>1, <2>2
    <3> QED
      BY <2>4, <2>5, <3>1, BodyOf
  <2> QED
    BY <1>1, <1>2, <2>6 DEF EndsWith
<1> QED
  BY <1>4, <1>5

\* A fragment: nothing, or the NAL unit it ends, or a damaged one.
LEMMA OutFragment ==
    ASSUME SenderInv, SenderInv', LossInv, HandedInv, OutInv, Receive,
           IsFragment(payloads[rcvd + 1])
    PROVE  OutInv'
<1>0. SendInv /\ TypeOK
  BY DEF SenderInv, SendInv, TypeOK
<1>1. PICK p \in Nat : p = rcvd + 1 /\ p \in Position(payloads) /\ p <= packets /\ p - 1 = rcvd
  <2>1. rcvd \in Nat /\ rcvd + 1 \in Position(payloads) /\ rcvd + 1 \in 1..packets
    BY <1>0, NextPacket DEF Receive
  <2> QED
    BY <2>1
<1>2. /\ UNCHANGED packetizerVars /\ lost' = lost /\ Depacketize(payloads[p])
      /\ rcvd < packets /\ rcvd' = rcvd + 1
  BY <1>1 DEF Receive
<1>3. PICK x : x = payloads[p] /\ IsFragment(x)
  BY <1>1
<1>4. PICK k : k = Fragment(p).nalu /\ k \in Range(sent) /\ k \in 1..Len(given)
  <2>1. Fragment(p).nalu \in Range(sent)
    BY <1>0, <1>1, HandedNext
  <2>2. Fragment(p).nalu \in 1..Len(given)
    BY <1>0, <1>1, PayloadFacts DEF SenderInv, TypeOK
  <2> QED
    BY <2>1, <2>2
<1>5. PICK hdr, buffer, open : /\ hdr = fragment_hdr /\ buffer = fragment_buffer
                               /\ open = current_fragment_is_valid
  OBVIOUS
<1>6. /\ open \in BOOLEAN /\ x.s \in BOOLEAN /\ x.e \in BOOLEAN
      /\ buffer \in Body
      /\ open => hdr \in Range(sent)
  <2>1. x \in PayloadType
    BY <1>0, <1>1, <1>3, PayloadFacts DEF SenderInv, TypeOK
  <2> QED
    BY <1>0, <1>5, <2>1 DEF TypeOK, ReceiverType, PayloadType, OutInv, Body
<1>7. PICK begun, pre, joined, h, unit :
          /\ begun = (x.s /\ ~open)
          /\ pre = (IF begun THEN <<>> ELSE buffer) /\ joined = pre \o FuBody(x)
          /\ h = (IF begun THEN k ELSE hdr) /\ unit = Unit(h, joined)
  OBVIOUS
<1>8. /\ begun \/ open => /\ fragment_hdr' = h
                          /\ current_fragment_is_valid' = ~x.e
                          /\ IF x.e THEN Output(unit) ELSE NoOutput("false")
      /\ ~(begun \/ open) => NoOutput("false") /\ UNCHANGED fragmentVars
  <2>1. ParseFu(x)
    BY <1>2, <1>3 DEF Depacketize, ParseSingle, ParseAggregation, IsFragment
  <2> QED
    BY <1>3, <1>4, <1>5, <1>7, <2>1 DEF ParseFu, Restarts, BufferBefore, LeftOpen, Fragment
<1>9. FuBody(x) = PartOf(x) /\ FuBody(x) \in Body
  <2>1. x.donl # <<>> => might_need_donl
    BY <1>1, <1>3 DEF SenderInv, EndsInv, ShapeInv
  <2>2. PartOf(x) \in Body
    BY <1>0, <1>1, <1>3, PayloadFacts DEF SenderInv, TypeOK
  <2> QED
    BY <2>1, <2>2 DEF FuBody, PartOf
<1>10. begun \/ open => h \in Range(sent) /\ h \in 1..Len(given)
  <2>1. begun \/ open => h \in Range(sent)
    BY <1>4, <1>6, <1>7
  <2> QED
    BY <1>0, <2>1, SentBelow
<1>11. (begun \/ open) /\ lost = {} => h = k
  <2>1. Continues(p) => ~x.s /\ k = Fragment(p - 1).nalu
    BY <1>1, <1>3, <1>4 DEF LossInv, ChainInv, ChainAt
  <2>2. open => FragmentLost(hdr) \/ (Continues(p) /\ hdr = Fragment(p - 1).nalu)
    BY <1>1, <1>5 DEF LossInv, ReceiverInv
  <2>3. lost = {} => ~FragmentLost(hdr)
    BY DEF FragmentLost
  <2> QED
    BY <1>7, <2>1, <2>2, <2>3
<1>12. ~(begun \/ open) => lost # {}
  <2>1. ~Continues(p) => x.s
    BY <1>1, <1>3 DEF LossInv, ChainInv, ChainAt
  <2>2. lost = {} /\ Continues(p) => open
    BY <1>1, <1>5 DEF LossInv, ReceiverInv
  <2> QED
    BY <1>6, <1>7, <2>1, <2>2
<1>13. current_fragment_is_valid' => fragment_hdr' \in Range(sent)
  <2>1. CASE begun \/ open
    BY <1>8, <1>10, <2>1
  <2>2. CASE ~(begun \/ open)
    BY <1>5, <1>6, <1>8, <2>2 DEF fragmentVars
  <2> QED
    BY <2>1, <2>2
<1>14. HandsOut(payloads[p]) <=> x.e
  <2>1. x.kind = "fu"
    BY <1>3 DEF IsFragment
  <2> QED
    BY <1>3, <2>1 DEF HandsOut, EndsNalu, IsFragment
<1>15. CASE ~((begun \/ open) /\ x.e)
  <2>1. delivered' = delivered
    BY <1>8, <1>15 DEF NoOutput
  <2>2. lost = {} => ~HandsOut(payloads[rcvd + 1])
    BY <1>1, <1>12, <1>14, <1>15
  <2> QED
    BY <1>2, <1>13, <2>1, <2>2, OutSame
<1>16. CASE (begun \/ open) /\ x.e
  <2>1. pre \in Body /\ joined \in Body
    <3>1. pre \in Body
      BY <1>6, <1>7 DEF Body
    <3> QED
      BY <1>7, <1>9, <3>1, ConcatProperties DEF Body
  <2>2. unit \in UnitType /\ unit.hdr = h
    BY <1>7, <1>10, <1>16, <2>1 DEF Unit, UnitType, Body
  <2>3. AsExpected(unit) => h = k
    <3>1. p \in 1..Len(payloads)
      BY <1>1 DEF Position
    <3>2. joined = pre \o PartOf(payloads[p])
      BY <1>3, <1>7, <1>9
    <3>3. h \in 1..Len(given)
      BY <1>10, <1>16
    <3> QED
      BY <1>0, <1>3, <1>4, <1>7, <2>1, <3>1, <3>2, <3>3, ExpectedHeader
  <2>4. AsExpected(unit) \/ lost = {} => unit.hdr = Fragment(rcvd + 1).nalu
    BY <1>1, <1>4, <1>11, <1>16, <2>2, <2>3
  <2>5. Output(unit) /\ unit.hdr \in Range(sent) /\ HandsOut(payloads[rcvd + 1])
    BY <1>1, <1>8, <1>10, <1>14, <1>16, <2>2
  <2> QED
    BY <1>2, <1>13, <2>2, <2>4, <2>5, OutMore
<1> QED
  BY <1>15, <1>16

\* A packet lost.
LEMMA OutLost ==
    ASSUME SenderInv, HandedInv, OutInv, Lose
    PROVE  OutInv'
<1>1. UNCHANGED <<packetizerVars, delivered>> /\ rcvd < packets /\ rcvd' = rcvd + 1
  BY DEF Lose, depacketizerVars
<1>2. lost' # {}
  BY DEF Lose
<1>3. current_fragment_is_valid' => fragment_hdr' \in Range(sent)
  BY DEF Lose, depacketizerVars, fragmentVars, OutInv
<1> QED
  BY <1>1, <1>2, <1>3, OutSame

NothingYet ==
    /\ payloads = <<>> /\ sent = <<>> /\ delivered = <<>> /\ rcvd = 0
    /\ ~current_fragment_is_valid

\* Before the first payload nothing is handed out.
LEMMA NothingHanded == NothingYet => HandedInv /\ OutInv
<1> SUFFICES ASSUME NothingYet PROVE HandedInv /\ OutInv
  OBVIOUS
<1> USE DEF NothingYet
<1>1. Len(payloads) = 0 /\ Len(delivered) = 0 /\ FirstsAreNumbers(payloads)
  BY EmptySeq DEF FirstsAreNumbers
<1>2. Handed[0] = <<>> /\ HandedNalus = <<>>
  BY <1>1, HandedSteps DEF Handed, HandedNalus
<1>3. Position(payloads) = {} /\ Position(delivered) = {} /\ Position(HandedNalus) = {}
  BY <1>1, <1>2, EmptySeq DEF Position
<1>4. Range(sent) = {} /\ Range(HandedNalus) = {}
  <2>1. DOMAIN <<>> = {}
    OBVIOUS
  <2> QED
    BY <1>2, <2>1 DEF Range
<1>5. HandedInv
  BY SMTT(30), <1>3, <1>4 DEF HandedInv
<1>6. [i \in Position(delivered) |-> delivered[i].hdr] = <<>>
  BY <1>3
<1> QED
  BY <1>2, <1>3, <1>5, <1>6 DEF OutInv

LEMMA SetDonlHanded ==
    ASSUME SenderInv, LossInv, SetDONL
    PROVE  HandedInv' /\ OutInv'
<1>0. SendInv /\ TypeOK
  BY DEF SenderInv, SendInv, TypeOK
<1>1. PICK value \in BOOLEAN : WithDONL(value) /\ ExpectDONL(value)
  BY DonlAssumption DEF SetDONL
<1>2. /\ given = <<>> /\ pc = "idle"
      /\ UNCHANGED <<payloads, sent, rcvd, delivered, current_fragment_is_valid>>
  BY <1>1 DEF SetDONL, WithDONL, ExpectDONL, transportVars, fragmentVars
<1>3. payloads = <<>>
  BY <1>0, <1>2, NothingMade
<1>4. Len(given) = 0 /\ Len(payloads) = 0
  BY <1>2, <1>3, EmptySeq
<1>5. rcvd = 0 /\ lost = {}
  BY <1>0, <1>4 DEF TypeOK, SenderType
<1>6. delivered = <<>> /\ sent = <<>>
  <2>1. delivered \in Seq(UnitType) /\ UnitType = {} /\ sent \in Seq({})
    BY <1>0, <1>4 DEF TypeOK, SenderType, ReceiverType, UnitType
  <2> QED
    BY <2>1
<1>7. ~current_fragment_is_valid
  <2>1. ~Continues(0 + 1)
    BY DEF Continues
  <2> QED
    BY <1>5, <2>1 DEF LossInv, ReceiverInv, FragmentLost
<1>8. NothingYet'
  BY <1>2, <1>3, <1>5, <1>6, <1>7 DEF NothingYet
<1>9. NothingYet' => (HandedInv /\ OutInv)'
  BY NothingHanded, PTL
<1> QED
  BY <1>8, <1>9

LEMMA SessionInit == Init => SessionInv
<1>1. Init => HandedInv /\ OutInv
  BY NothingHanded DEF NothingYet, Init, PacketizerInit, DepacketizerInit
<1> QED
  BY <1>1, LossInit DEF SessionInv

-----------------------------------------------------------------------------
(* The session as a stream of NAL units.                                   *)

\* A sequence that agrees with the beginning of another is a prefix of it.
LEMMA PrefixOf ==
    ASSUME NEW S, NEW s \in Seq(S), NEW t \in Seq(S), Begins(s, t)
    PROVE  IsPrefix(s, t)
<1> PICK n \in Nat, m \in Nat : n = Len(s) /\ m = Len(t)
  BY LenProperties
<1>1. n <= m /\ \A i \in 1..n : t[i] = s[i]
  BY DEF Begins
<1>2. \A i \in 1..n : t[i] \in S
  BY <1>1, ElementOfSeq
<1>3. /\ SubSeq(t, 1, n) \in Seq(S)
      /\ Len(SubSeq(t, 1, n)) = (IF 1 <= n THEN n - 1 + 1 ELSE 0)
      /\ \A i \in 1..(n - 1 + 1) : SubSeq(t, 1, n)[i] = t[1 + i - 1]
  <2>1. 1 \in Int /\ n \in Int
    OBVIOUS
  <2> QED
    BY <1>2, <2>1, SubSeqProperties
<1>4. /\ (IF 1 <= n THEN n - 1 + 1 ELSE 0) = n /\ n - 1 + 1 = n
      /\ \A i \in 1..n : 1 + i - 1 = i
  OBVIOUS
<1>5. SubSeq(t, 1, n) = s
  <2>1. /\ Len(SubSeq(t, 1, n)) = Len(s)
        /\ \A i \in 1..Len(s) : SubSeq(t, 1, n)[i] = s[i]
    BY <1>1, <1>3, <1>4
  <2> QED
    BY <1>3, <2>1, SeqEqual
<1>6. SubSeq(s, 1, n) = s
  BY SubSeqFull
<1> QED
  BY <1>1, <1>5, <1>6 DEF IsPrefix

LEMMA AllHandedGrow ==
    SendInv => \A p \in 0..Len(payloads) : Begins(Handed[p], HandedNalus)
BY HandedGrows

\* What is handed out only ever gets longer.
LEMMA StreamGrows ==
    ASSUME SendInv, SendInv', Grown
    PROVE  /\ HandedNalus \in Seq(Nat) /\ HandedNalus' \in Seq(Nat)
           /\ IsPrefix(HandedNalus, HandedNalus')
<1>1. PICK n \in Nat : n = Len(payloads)
  BY DEF Grown
<1>2. n \in 0..Len(payloads) /\ n \in 0..Len(payloads')
  BY <1>1 DEF Grown
<1>3. Handed'[n] = Handed[n] /\ Handed[n] = HandedNalus
  BY <1>1, <1>2, HandedStays DEF HandedNalus
<1>4. Begins(Handed'[n], HandedNalus')
  <2>1. (\A p \in 0..Len(payloads) : Begins(Handed[p], HandedNalus))'
    BY AllHandedGrow, PTL
  <2> QED
    BY <1>2, <2>1
<1>5. HandedNalus \in Seq(Nat)
  BY <1>1, <1>2, HandedAt DEF HandedNalus
<1>6. HandedNalus' \in Seq(Nat)
  <2>1. (/\ Len(payloads) \in Nat
         /\ Handed[0] = <<>>
         /\ \A p \in 0..Len(payloads) : Handed[p] \in Seq(Nat)
         /\ \A p \in 1..Len(payloads) : Handed[p] = WithHanded(Handed[p - 1], payloads[p]))'
    BY HandedAt, PTL
  <2>2. Len(payloads') \in 0..Len(payloads')
    BY <2>1
  <2> QED
    BY <2>1, <2>2 DEF HandedNalus
<1>7. Begins(HandedNalus, HandedNalus')
  BY <1>3, <1>4
<1> QED
  BY <1>5, <1>6, <1>7, PrefixOf

\* The units that came out, as numbers.
DeliveredRight ==
    /\ DeliveredNalus \in Seq(Nat) /\ Len(DeliveredNalus) = Len(delivered)
    /\ DOMAIN DeliveredNalus = Position(delivered)
    /\ \A i \in Position(delivered) :
          /\ delivered[i] \in UnitType /\ delivered[i].hdr \in Nat \ {0}
          /\ AsExpected(delivered[i]) => DeliveredNalus[i] = delivered[i].hdr
          /\ ~AsExpected(delivered[i]) => DeliveredNalus[i] = 0

LEMMA DeliveredType == SenderInv => DeliveredRight
<1> SUFFICES ASSUME SenderInv PROVE DeliveredRight
  OBVIOUS
<1> PICK n \in Nat, g \in Nat : n = Len(delivered) /\ g = Len(given)
  BY LenProperties DEF SenderInv, TypeOK, SenderType, ReceiverType
<1>1. \A i \in 1..n : delivered[i] \in UnitType
  BY ElementOfSeq DEF SenderInv, TypeOK, ReceiverType
<1>2. \A i \in 1..n : delivered[i].hdr \in Nat \ {0}
  <2>1. \A i \in 1..n : delivered[i].hdr \in 1..g
    BY <1>1 DEF UnitType
  <2> QED
    BY <2>1
<1>3. DeliveredNalus = [i \in 1..n |-> IF AsExpected(delivered[i]) THEN delivered[i].hdr ELSE 0]
  BY DEF DeliveredNalus, Position
<1>4. DeliveredNalus \in [1..n -> Nat] /\ DOMAIN DeliveredNalus = 1..n
  BY <1>2, <1>3
<1>5. DeliveredNalus \in Seq(Nat)
  BY <1>4, SeqDef
<1>6. Len(DeliveredNalus) = n
  BY <1>4, <1>5, LenProperties
<1>7. \A i \in 1..n :
         /\ AsExpected(delivered[i]) => DeliveredNalus[i] = delivered[i].hdr
         /\ ~AsExpected(delivered[i]) => DeliveredNalus[i] = 0
  BY <1>3
<1> QED
  BY <1>1, <1>2, <1>4, <1>5, <1>6, <1>7 DEF DeliveredRight, Position

\* What came out does not change where nothing more does.
LEMMA DeliveredSame ==
    ASSUME delivered' = delivered,
           \A i \in Position(delivered) : \A unit :
              unit = delivered[i] => (AsExpected(unit)' <=> AsExpected(unit))
    PROVE  DeliveredNalus' = DeliveredNalus
<1>1. ASSUME NEW i \in Position(delivered)
      PROVE  AsExpected(delivered[i])' <=> AsExpected(delivered[i])
  <2>1. PICK unit : unit = delivered[i] /\ unit = delivered'[i]
    OBVIOUS
  <2>2. AsExpected(unit)' <=> AsExpected(unit)
    BY <2>1
  <2> QED
    BY <2>1, <2>2
<1> QED
  BY <1>1 DEF DeliveredNalus, Position

LEMMA StreamSend ==
    ASSUME SenderInv, SenderInv', Grown, OutInv, Send
    PROVE  DeliveredNalus' = DeliveredNalus /\ lost' = lost
<1>0. SendInv /\ SendInv'
  BY DEF SenderInv, SendInv, TypeOK
<1>1. delivered' = delivered /\ lost' = lost /\ add_donl' = add_donl
  BY SendKeepsDonl DEF Send, depacketizerVars, transportVars
<1>2. ASSUME NEW i \in Position(delivered), NEW unit, unit = delivered[i]
      PROVE  AsExpected(unit)' <=> AsExpected(unit)
  <2>1. unit \in UnitType
    BY <1>2, ElementOfSeq DEF SenderInv, TypeOK, ReceiverType, Position
  <2>2. unit.hdr \in Range(sent)
    BY <1>2 DEF OutInv
  <2>3. AsExpected(unit) => AsExpected(unit)'
    BY <1>1, <2>1, AsExpectedStays
  <2>4. AsExpected(unit)' => AsExpected(unit)
    BY <1>0, <1>1, <2>1, <2>2, SentStays, ExpectedBack
  <2> QED
    BY <2>3, <2>4
<1> QED
  BY <1>1, <1>2, DeliveredSame

\* One NAL unit comes out, or none.
LEMMA ReceiveOutputs ==
    ASSUME Receive
    PROVE  delivered' = delivered \/ \E unit : delivered' = Append(delivered, unit)
<1>1. PICK x : Depacketize(x)
  BY DEF Receive
<1> QED
  BY <1>1 DEF Depacketize, ParseSingle, ParseAggregation, ParseFu, Output, NoOutput

\* What the receiver hands out goes on with what it handed out before.
LEMMA StreamDeliver ==
    ASSUME SenderInv, SenderInv', (LossInv /\ HandedInv /\ OutInv)', Receive
    PROVE  /\ HandedNalus' = HandedNalus /\ lost' = lost
           /\ IsPrefix(DeliveredNalus, DeliveredNalus')
           /\ IF lost # {} THEN Stream!InOrder(DeliveredNalus', HandedNalus)
                           ELSE IsPrefix(DeliveredNalus', HandedNalus)
<1>0. SendInv /\ SendInv' /\ TypeOK /\ TypeOK'
  BY DEF SenderInv, SendInv, TypeOK
<1>1. UNCHANGED packetizerVars /\ lost' = lost
  BY DEF Receive
<1>2. /\ \A unit : AsExpected(unit)' <=> AsExpected(unit)
      /\ Handed' = Handed /\ HandedNalus' = HandedNalus /\ payloads' = payloads
  BY <1>1, ExpectedSame DEF packetizerVars
<1>3. PICK out, d : out = DeliveredNalus /\ d = delivered
  OBVIOUS
<1>4. PICK out2, d2 : out2 = DeliveredNalus' /\ d2 = delivered'
  OBVIOUS
<1>5. PICK m \in Nat, m2 \in Nat : m = Len(d) /\ m2 = Len(d2)
  BY <1>0, <1>3, <1>4, LenProperties DEF TypeOK, ReceiverType
<1>6. /\ out \in Seq(Nat) /\ Len(out) = m
      /\ \A i \in 1..m : /\ AsExpected(d[i]) => out[i] = d[i].hdr
                         /\ ~AsExpected(d[i]) => out[i] = 0
  BY <1>3, <1>5, DeliveredType DEF DeliveredRight, Position
<1>7. /\ out2 \in Seq(Nat) /\ Len(out2) = m2 /\ DOMAIN out2 = 1..m2
      /\ \A i \in 1..m2 : /\ d2[i].hdr \in Nat \ {0}
                          /\ AsExpected(d2[i]) => out2[i] = d2[i].hdr
                          /\ ~AsExpected(d2[i]) => out2[i] = 0
  <2>1. DeliveredRight'
    BY DeliveredType, PTL
  <2>2. /\ out2 \in Seq(Nat) /\ Len(out2) = m2 /\ DOMAIN out2 = 1..m2
        /\ \A i \in 1..m2 : /\ d2[i].hdr \in Nat \ {0}
                            /\ AsExpected(d2[i])' => out2[i] = d2[i].hdr
                            /\ ~AsExpected(d2[i])' => out2[i] = 0
    BY <1>4, <1>5, <2>1 DEF DeliveredRight, Position
  <2> QED
    BY <1>2, <2>2
<1>8. m <= m2 /\ \A i \in 1..m : d2[i] = d[i]
  <2>1. CASE delivered' = delivered
    BY <1>3, <1>4, <1>5, <2>1
  <2>2. CASE \E unit : delivered' = Append(delivered, unit)
    <3>1. delivered \in Seq(UnitType)
      BY <1>0 DEF TypeOK, ReceiverType
    <3>2. Len(d2) = Len(d) + 1 /\ \A i \in 1..Len(d) : d2[i] = d[i]
      BY <1>3, <1>4, <2>2, <3>1, AppendGrows
    <3> QED
      BY <1>5, <3>2
  <2> QED
    BY <2>1, <2>2, ReceiveOutputs
<1>9. IsPrefix(out, out2)
  <2>1. \A i \in 1..m : i \in 1..m2
    BY <1>8
  <2>2. \A i \in 1..m : out2[i] = out[i]
    BY <1>6, <1>7, <1>8, <2>1
  <2>3. Begins(out, out2)
    BY <1>6, <1>7, <1>8, <2>2 DEF Begins
  <2> QED
    BY <1>6, <1>7, <2>3, PrefixOf
<1>10. PICK g, got : g = HandedNalus /\ got = Handed'[rcvd']
  OBVIOUS
<1>11. /\ g \in Seq(Nat) /\ got \in Seq(Nat) /\ Begins(got, g)
  <2>1. rcvd' \in 0..Len(payloads)
    <3>1. rcvd' \in 0..packets' /\ packets' \in 0..Len(payloads') /\ Len(payloads') \in Nat
      BY <1>0, LenProperties DEF TypeOK, SenderType
    <3> QED
      BY <1>2, <3>1
  <2>2. PICK r : r = rcvd' /\ r \in 0..Len(payloads)
    BY <2>1
  <2>3. got = Handed[r]
    BY <1>2, <1>10, <2>2
  <2>4. Len(payloads) \in 0..Len(payloads)
    BY <1>0, HandedAt
  <2> QED
    BY <1>0, <1>10, <2>2, <2>3, <2>4, HandedAt, HandedGrows DEF HandedNalus
<1>12. PICK l \in Nat : l = Len(g) /\ DOMAIN g = 1..l
  BY <1>11, LenProperties
<1>13. /\ \A i \in 1..m2 : AsExpected(d2[i]) => d2[i].hdr \in Range(got)
       /\ \A i, j \in 1..m2 : i < j /\ AsExpected(d2[i]) /\ AsExpected(d2[j]) =>
             d2[i].hdr < d2[j].hdr
       /\ lost = {} => [i \in 1..m2 |-> d2[i].hdr] = got
  <2>1. Position(delivered)' = 1..m2
    BY <1>4, <1>5 DEF Position
  <2>2. /\ \A i \in 1..m2 : AsExpected(delivered[i])' => delivered'[i].hdr \in Range(Handed'[rcvd'])
        /\ \A i, j \in 1..m2 : i < j /\ AsExpected(delivered[i])' /\ AsExpected(delivered[j])' =>
              delivered'[i].hdr < delivered'[j].hdr
        /\ lost' = {} => [i \in 1..m2 |-> delivered'[i].hdr] = Handed'[rcvd']
    BY <2>1 DEF OutInv
  <2>3. /\ \A i \in 1..m2 : AsExpected(d2[i])' => d2[i].hdr \in Range(got)
        /\ \A i, j \in 1..m2 : i < j /\ AsExpected(d2[i])' /\ AsExpected(d2[j])' =>
              d2[i].hdr < d2[j].hdr
        /\ lost = {} => [i \in 1..m2 |-> d2[i].hdr] = got
    BY <1>1, <1>4, <1>10, <2>2
  <2> QED
    BY <1>2, <2>3
<1>14. \A a, b \in 1..l : a < b => g[a] < g[b]
  <2>1. \A a, b \in Position(HandedNalus)' : a < b => HandedNalus'[a] < HandedNalus'[b]
    BY DEF HandedInv
  <2>2. Position(HandedNalus)' = 1..l
    BY <1>2, <1>10, <1>12 DEF Position
  <2> QED
    BY <1>2, <1>10, <2>1, <2>2
<1>15. \A i \in 1..m2 : AsExpected(d2[i]) => \E a \in 1..l : g[a] = d2[i].hdr
  <2>1. Range(got) \subseteq Range(g)
    BY <1>11, BeginsRange
  <2> QED
    BY <1>12, <1>13, <2>1 DEF Range
<1>16. Stream!InOrder(out2, g)
  <2>1. ASSUME NEW i \in 1..m2, out2[i] # 0 PROVE out2[i] \in Range(g)
    <3>1. AsExpected(d2[i]) /\ out2[i] = d2[i].hdr
      BY <1>7, <2>1
    <3> QED
      BY <1>12, <1>15, <3>1 DEF Range
  <2>2. ASSUME NEW i \in 1..m2, NEW j \in 1..m2, i < j, out2[i] # 0, out2[j] # 0
        PROVE  \E a, b \in DOMAIN g : a < b /\ g[a] = out2[i] /\ g[b] = out2[j]
    <3>1. /\ AsExpected(d2[i]) /\ out2[i] = d2[i].hdr
          /\ AsExpected(d2[j]) /\ out2[j] = d2[j].hdr
      BY <1>7, <2>2
    <3>2. PICK a \in 1..l, b \in 1..l : g[a] = out2[i] /\ g[b] = out2[j]
      BY <1>15, <3>1
    <3>3. g[a] < g[b] /\ g[a] \in Nat /\ g[b] \in Nat
      <4>1. g[a] \in Nat /\ g[b] \in Nat
        BY <1>11, <1>12, ElementOfSeq
      <4> QED
        BY <1>13, <2>2, <3>1, <3>2, <4>1
    <3>4. a < b
      <4>1. CASE a = b
        BY <3>3, <4>1
      <4>2. CASE b < a
        <5>1. g[b] < g[a]
          BY <1>14, <4>2
        <5> QED
          BY <3>3, <5>1
      <4> QED
        BY <4>1, <4>2
    <3> QED
      BY <1>12, <3>2, <3>4
  <2>3. \A i \in DOMAIN out2 : out2[i] # 0 => out2[i] \in Range(g)
    BY <1>7, <2>1
  <2>4. \A i, j \in DOMAIN out2 : i < j /\ out2[i] # 0 /\ out2[j] # 0 =>
           \E a, b \in DOMAIN g : a < b /\ g[a] = out2[i] /\ g[b] = out2[j]
    BY <1>7, <2>2
  <2> QED
    BY ONLY <2>3, <2>4 DEF Stream!InOrder, Range, Stream!Range
<1>17. ASSUME lost = {} PROVE IsPrefix(out2, g)
  <2>1. \A i \in 1..m2 : AsExpected(d2[i])
    <3>1. \A i \in Position(delivered)' :
             AsExpected(delivered[i])' \/ FragmentLost(delivered[i].hdr)'
      BY DEF LossInv, DamageIsLocal
    <3>2. \A i \in Position(delivered)' : AsExpected(delivered[i])'
      BY <1>1, <1>17, <3>1 DEF FragmentLost
    <3>3. \A i \in 1..m2 : AsExpected(d2[i])'
      BY <1>4, <1>5, <3>2 DEF Position
    <3> QED
      BY <1>2, <3>3
  <2>2. got = [i \in 1..m2 |-> d2[i].hdr] /\ DOMAIN got = 1..m2
    BY <1>13, <1>17
  <2>3. Len(got) = m2
    BY <1>11, <2>2, LenProperties
  <2>4. \A i \in 1..m2 : out2[i] = got[i]
    BY <1>7, <2>1, <2>2
  <2>5. Begins(out2, g)
    BY <1>7, <1>11, <2>3, <2>4 DEF Begins
  <2> QED
    BY <1>7, <1>11, <2>5, PrefixOf
<1> QED
  BY <1>1, <1>2, <1>3, <1>4, <1>9, <1>10, <1>16, <1>17

\* Before the first frame there is no stream yet.
LEMMA StreamSetDonl ==
    ASSUME SenderInv, SetDONL
    PROVE  HandedNalus' = HandedNalus /\ DeliveredNalus' = DeliveredNalus /\ lost' = lost
<1>1. PICK value \in BOOLEAN : WithDONL(value) /\ ExpectDONL(value)
  BY DonlAssumption DEF SetDONL
<1>2. given = <<>> /\ UNCHANGED <<payloads, lost, delivered>>
  BY <1>1 DEF SetDONL, WithDONL, ExpectDONL, transportVars
<1>3. Position(delivered) = {}
  <2>1. Len(given) = 0
    BY <1>2, EmptySeq
  <2>2. delivered \in Seq(UnitType) /\ UnitType = {}
    BY <2>1 DEF SenderInv, TypeOK, ReceiverType, UnitType
  <2>3. delivered = <<>>
    BY <2>2
  <2> QED
    BY <2>3, EmptySeq DEF Position
<1>4. DeliveredNalus' = DeliveredNalus
  BY <1>2, <1>3, DeliveredSame
<1> QED
  BY <1>2, <1>4 DEF HandedNalus, Handed

\* Where only the transport steps, or nothing does.
LEMMA StreamRests ==
    ASSUME UNCHANGED <<packetizerVars, delivered>>
    PROVE  HandedNalus' = HandedNalus /\ DeliveredNalus' = DeliveredNalus
<1>1. HandedNalus' = HandedNalus /\ \A unit : AsExpected(unit)' <=> AsExpected(unit)
  BY ExpectedSame
<1> QED
  BY <1>1, DeliveredSame

-----------------------------------------------------------------------------
(* What is handed out are the NAL units sent, of those handed out at all.  *)

Rising(s) == \A i, j \in 1..Len(s) : i < j => s[i] < s[j]

\* A sequence with a greater number more still rises.
LEMMA RisingAppend ==
    ASSUME NEW s \in Seq(Nat), Rising(s), NEW k \in Nat, \A a \in Range(s) : a < k
    PROVE  Rising(Append(s, k))
<1>1. PICK n \in Nat : n = Len(s) /\ DOMAIN s = 1..n
  BY LenProperties
<1>2. PICK t : t = Append(s, k)
  OBVIOUS
<1>3. /\ Len(t) = n + 1 /\ t[n + 1] = k
      /\ \A i \in 1..n : t[i] = s[i] /\ t[i] < k
  <2>1. Len(t) = n + 1 /\ t[n + 1] = k /\ \A i \in 1..n : t[i] = s[i]
    BY <1>1, <1>2, AppendGrows
  <2>2. \A i \in 1..n : s[i] \in Range(s)
    BY <1>1 DEF Range
  <2> QED
    BY <2>1, <2>2
<1>4. ASSUME NEW i \in 1..(n + 1), NEW j \in 1..(n + 1), i < j PROVE t[i] < t[j]
  <2>1. i \in 1..n
    BY <1>4
  <2>2. CASE j \in 1..n
    <3>1. s[i] < s[j]
      BY <1>1, <1>4, <2>1, <2>2 DEF Rising
    <3> QED
      BY <1>3, <2>1, <2>2, <3>1
  <2>3. CASE j \notin 1..n
    <3>1. j = n + 1
      BY <2>3
    <3> QED
      BY <1>3, <2>1, <3>1
  <2> QED
    BY <2>2, <2>3
<1>5. Rising(t)
  BY <1>3, <1>4 DEF Rising
<1> QED
  BY <1>2, <1>5

\* Up to where it agrees with a rising sequence that has all its elements, and one
\* further, the other is as long, and has no greater number there.
LEMMA RisingMeet ==
    ASSUME NEW s \in Seq(Nat), NEW t \in Seq(Nat), Rising(s), Rising(t),
           Range(s) \subseteq Range(t),
           NEW i \in 1..Len(s), \A j \in 1..Len(s) : j < i => j \in 1..Len(t) /\ t[j] = s[j]
    PROVE  i \in 1..Len(t) /\ t[i] <= s[i]
<1>1. PICK n \in Nat, m \in Nat : n = Len(s) /\ m = Len(t) /\ DOMAIN s = 1..n /\ DOMAIN t = 1..m
  BY LenProperties
<1>2. i \in 1..n /\ s[i] \in Nat /\ \A j \in 1..m : t[j] \in Nat
  BY <1>1, ElementOfSeq
<1>3. PICK j \in 1..m : t[j] = s[i]
  BY <1>1, <1>2 DEF Range
<1>4. i <= j
  <2> SUFFICES ASSUME j < i PROVE FALSE
    BY <1>2, <1>3
  <2>1. j \in 1..n
    BY <1>2, <1>3
  <2>2. t[j] = s[j] /\ s[j] < s[i]
    BY <1>1, <1>2, <2>1 DEF Rising
  <2> QED
    BY <1>2, <1>3, <2>2
<1>5. i \in 1..m
  BY <1>2, <1>3, <1>4
<1>6. CASE i = j
  BY <1>1, <1>2, <1>3, <1>5, <1>6
<1>7. CASE i # j
  <2>1. i < j
    BY <1>2, <1>3, <1>4, <1>7
  <2>2. t[i] < t[j]
    BY <1>1, <1>3, <1>5, <2>1 DEF Rising
  <2> QED
    BY <1>1, <1>2, <1>3, <1>5, <2>2
<1> QED
  BY <1>6, <1>7

\* A rising sequence is known by its elements.
LEMMA RisingUnique ==
    ASSUME NEW s \in Seq(Nat), NEW t \in Seq(Nat), Rising(s), Rising(t), Range(s) = Range(t)
    PROVE  s = t
<1>1. PICK n \in Nat, m \in Nat : n = Len(s) /\ m = Len(t) /\ DOMAIN s = 1..n /\ DOMAIN t = 1..m
  BY LenProperties
<1> DEFINE Bad == {i \in Nat : i \in 1..n \cup 1..m /\ ~(i \in 1..n /\ i \in 1..m /\ s[i] = t[i])}
<1>2. Bad = {}
  <2> SUFFICES ASSUME Bad # {} PROVE FALSE
    OBVIOUS
  <2>1. PICK i \in Bad : \A j \in Bad : i <= j
    <3>1. Bad \subseteq Nat
      OBVIOUS
    <3> HIDE DEF Bad
    <3> QED
      BY <3>1, LeastElement
  <2>2. i \in Nat /\ i \in 1..n \cup 1..m /\ ~(i \in 1..n /\ i \in 1..m /\ s[i] = t[i])
    OBVIOUS
  <2>3. ASSUME NEW j \in Nat, j < i, j \in 1..n \cup 1..m
        PROVE  j \in 1..n /\ j \in 1..m /\ s[j] = t[j]
    <3>1. j \notin Bad
      <4> HIDE DEF Bad
      <4> QED
        BY <2>1, <2>2, <2>3
    <3> QED
      BY <2>3, <3>1
  <2> HIDE DEF Bad
  <2>4. i \in 1..n => i \in 1..m /\ t[i] <= s[i]
    <3> SUFFICES ASSUME i \in 1..n PROVE i \in 1..m /\ t[i] <= s[i]
      OBVIOUS
    <3>1. \A j \in 1..n : j < i => j \in 1..m /\ t[j] = s[j]
      BY <2>3
    <3> QED
      BY <1>1, <3>1, RisingMeet
  <2>5. i \in 1..m => i \in 1..n /\ s[i] <= t[i]
    <3> SUFFICES ASSUME i \in 1..m PROVE i \in 1..n /\ s[i] <= t[i]
      OBVIOUS
    <3>1. \A j \in 1..m : j < i => j \in 1..n /\ s[j] = t[j]
      BY <2>3
    <3> QED
      BY <1>1, <3>1, RisingMeet
  <2>6. i \in 1..n /\ i \in 1..m /\ s[i] \in Nat /\ t[i] \in Nat
    BY <1>1, <2>2, <2>4, <2>5, ElementOfSeq
  <2> QED
    BY <2>2, <2>4, <2>5, <2>6
<1>3. \A i \in 1..n : i \in 1..m /\ s[i] = t[i]
  <2>1. \A i \in 1..n : i \in Nat
    OBVIOUS
  <2> QED
    BY <1>2, <2>1
<1>4. \A i \in 1..m : i \in 1..n
  <2>1. \A i \in 1..m : i \in Nat
    OBVIOUS
  <2> QED
    BY <1>2, <2>1
<1> HIDE DEF Bad
<1>5. n = m
  <2>1. n <= m
    BY <1>3
  <2>2. m <= n
    BY <1>4
  <2> QED
    BY <2>1, <2>2
<1> QED
  BY <1>1, <1>3, <1>5, SeqEqual

\* The number k more, if it is in the set.
WithKept(kept, k, set) == IF k \in set THEN Append(kept, k) ELSE kept

\* Among goes through the sequence the way its recursion says.
LEMMA AmongSteps ==
    ASSUME NEW seq \in Seq(Nat), NEW set
    PROVE  \E g : /\ Among(seq, set) = g[Len(seq)]
                  /\ g[0] = <<>>
                  /\ \A i \in 1..Len(seq) : g[i] = WithKept(g[i - 1], seq[i], set)
<1> DEFINE n == Len(seq)
           Def(f) == f = [i \in 0..n |->
                             IF i = 0 THEN <<>> ELSE WithKept(f[i - 1], seq[i], set)]
           kept == CHOOSE f : Def(f)
           step == [i \in 1..n |-> [v \in Seq(Nat) |-> WithKept(v, seq[i], set)]]
<1>1. Among(seq, set) = kept[n]
  BY DEF Among, WithKept
<1>2. n \in Nat /\ <<>> \in Seq(Nat)
  BY LenProperties
<1>3. step \in [1..n -> [Seq(Nat) -> Seq(Nat)]]
  <2>1. ASSUME NEW i \in 1..n, NEW v \in Seq(Nat) PROVE WithKept(v, seq[i], set) \in Seq(Nat)
    <3>1. seq[i] \in Nat
      BY <1>2, ElementOfSeq
    <3> QED
      BY <3>1, AppendProperties DEF WithKept
  <2> HIDE DEF n
  <2> QED
    BY <2>1
<1>4. PICK g : Iterates(g, n, Seq(Nat), <<>>, step)
  <2> HIDE DEF n, step
  <2> QED
    BY <1>2, <1>3, IterationExists
<1> HIDE DEF n
<1>5. \A i \in 1..n : g[i] = WithKept(g[i - 1], seq[i], set)
  <2> SUFFICES ASSUME NEW i \in 1..n PROVE g[i] = WithKept(g[i - 1], seq[i], set)
    OBVIOUS
  <2>1. i - 1 \in 0..n /\ g[i - 1] \in Seq(Nat) /\ g[i] = step[i][g[i - 1]]
    <3>1. g \in [0..n -> Seq(Nat)] /\ \A j \in 1..n : g[j] = step[j][g[j - 1]]
      <4> HIDE DEF step
      <4> QED
        BY <1>4 DEF Iterates
    <3>2. i - 1 \in 0..n
      BY <1>2
    <3> HIDE DEF step
    <3> QED
      BY <3>1, <3>2
  <2>2. \A v \in Seq(Nat) : step[i][v] = WithKept(v, seq[i], set)
    BY Zenon
  <2> QED
    BY <2>1, <2>2, Zenon
<1>6. Def(g)
  BY <1>2, <1>4, <1>5 DEF Iterates
<1>7. Def(kept)
  <2> HIDE DEF Def
  <2> QED
    BY <1>6
<1> HIDE DEF kept
<1>8. kept[0] = <<>> /\ \A i \in 1..n : kept[i] = WithKept(kept[i - 1], seq[i], set)
  BY <1>2, <1>7
<1> QED
  BY <1>1, <1>8 DEF n

\* Of a rising sequence it keeps the elements that are in the set, rising.
LEMMA AmongRising ==
    ASSUME NEW seq \in Seq(Nat), Rising(seq), NEW set
    PROVE  /\ Among(seq, set) \in Seq(Nat) /\ Rising(Among(seq, set))
           /\ Range(Among(seq, set)) = Range(seq) \cap set
<1>1. PICK n \in Nat : n = Len(seq) /\ DOMAIN seq = 1..n
  BY LenProperties
<1>2. PICK g : /\ Among(seq, set) = g[n] /\ g[0] = <<>>
               /\ \A i \in 1..n : g[i] = WithKept(g[i - 1], seq[i], set)
  BY <1>1, AmongSteps
<1> DEFINE Upto(i) == {seq[j] : j \in 1..i}
           Right(i) == g[i] \in Seq(Nat) /\ Rising(g[i]) /\ Range(g[i]) = Upto(i) \cap set
           D == {i \in Nat : i <= n => Right(i)}
<1>3. 0 \in D
  <2>1. <<>> \in Seq(Nat) /\ Len(<<>>) = 0 /\ DOMAIN <<>> = {}
    OBVIOUS
  <2>2. Rising(<<>>) /\ Range(<<>>) = {}
    BY <2>1 DEF Rising, Range
  <2>3. Upto(0) = {}
    OBVIOUS
  <2> QED
    BY <1>2, <2>1, <2>2, <2>3
<1>4. ASSUME NEW i \in Nat, i \in D PROVE i + 1 \in D
  <2> SUFFICES ASSUME i + 1 <= n PROVE Right(i + 1)
    OBVIOUS
  <2>1. i + 1 \in 1..n /\ (i + 1) - 1 = i /\ Right(i)
    BY <1>4
  <2>2. PICK k \in Nat : k = seq[i + 1]
    BY <1>1, <2>1, ElementOfSeq
  <2>3. g[i + 1] = WithKept(g[i], k, set)
    BY <1>2, <2>1, <2>2
  <2>4. Upto(i + 1) = Upto(i) \cup {k}
    <3>1. 1..(i + 1) = 1..i \cup {i + 1}
      OBVIOUS
    <3> QED
      BY <2>2, <3>1
  <2>5. \A a \in Upto(i) : a < k
    <3>1. ASSUME NEW j \in 1..i PROVE seq[j] < k
      <4>1. j \in 1..n /\ j < i + 1
        BY <2>1
      <4> QED
        BY <1>1, <2>1, <2>2, <4>1 DEF Rising
    <3> QED
      BY <3>1
  <2> HIDE DEF Upto
  <2>6. CASE k \in set
    <3>1. g[i + 1] = Append(g[i], k)
      BY <2>3, <2>6 DEF WithKept
    <3>2. \A a \in Range(g[i]) : a < k
      BY <2>1, <2>5
    <3>3. Rising(Append(g[i], k)) /\ Range(Append(g[i], k)) = Range(g[i]) \cup {k}
      BY <2>1, <3>2, RisingAppend, RangeAppend
    <3>4. Append(g[i], k) \in Seq(Nat)
      BY <2>1, AppendProperties
    <3> QED
      BY <2>1, <2>4, <2>6, <3>1, <3>3, <3>4
  <2>7. CASE k \notin set
    <3>1. g[i + 1] = g[i]
      BY <2>3, <2>7 DEF WithKept
    <3> QED
      BY <2>1, <2>4, <2>7, <3>1
  <2> QED
    BY <2>6, <2>7
<1>5. Nat \subseteq D
  <2> HIDE DEF D
  <2> QED
    BY <1>3, <1>4, SetInduction
<1>6. Right(n)
  <2>1. n \in D /\ n <= n
    <3> HIDE DEF D
    <3> QED
      BY <1>5
  <2> HIDE DEF Right
  <2> QED
    BY <2>1
<1>7. Upto(n) = Range(seq)
  BY <1>1 DEF Range
<1> QED
  BY <1>2, <1>6, <1>7

\* NAL units are sent in the order in which they were given.
LEMMA SentRising ==
    ASSUME SendInv
    PROVE  sent \in Seq(Nat) /\ Rising(sent)
<1>1. /\ sent \in Seq(Nat) /\ bufferedNALUs \in Seq(Nat) /\ Len(sent) \in Nat
      /\ Len(bufferedNALUs) \in Nat
  BY ThroughType, LenProperties
<1>2. PICK n \in Nat, m \in Nat : n = Len(sent) /\ m = Len(bufferedNALUs)
  BY <1>1
<1>3. /\ Len(Through) = n + m
      /\ \A i \in 1..(n + m) : Through[i] = IF i <= n THEN sent[i] ELSE bufferedNALUs[i - n]
  BY <1>1, <1>2, ConcatProperties, LenProperties DEF Through
<1>4. \A i, j \in 1..(n + m) : i < j => Through[i] < Through[j]
  BY <1>3 DEF SendInv, KeptInOrder, Through, Position
<1>5. \A i \in 1..n : i \in 1..(n + m) /\ i <= n
  OBVIOUS
<1>6. \A i \in 1..n : Through[i] = sent[i]
  BY <1>3, <1>5
<1> QED
  BY <1>1, <1>2, <1>4, <1>5, <1>6 DEF Rising

\* The stream of the session is what the payloads hand out.
LEMMA SentIsHanded == SendInv /\ HandedInv => SentNalus = HandedNalus
<1> SUFFICES ASSUME SendInv, HandedInv PROVE SentNalus = HandedNalus
  OBVIOUS
<1>1. sent \in Seq(Nat) /\ Rising(sent)
  BY SentRising
<1>2. PICK kept : kept = {k \in Range(sent) : HandedOut(k)}
  OBVIOUS
<1>3. /\ SentNalus = Among(sent, kept) /\ SentNalus \in Seq(Nat) /\ Rising(SentNalus)
      /\ Range(SentNalus) = kept
  <2>1. SentNalus = Among(sent, kept)
    BY <1>2 DEF SentNalus
  <2>2. Range(sent) \cap kept = kept
    BY <1>2
  <2> QED
    BY <1>1, <2>1, <2>2, AmongRising
<1>4. HandedNalus \in Seq(Nat) /\ Rising(HandedNalus) /\ Range(HandedNalus) = kept
  <2>1. Len(payloads) \in 0..Len(payloads)
    BY HandedAt
  <2>2. HandedNalus \in Seq(Nat)
    BY <2>1, HandedAt DEF HandedNalus
  <2> QED
    BY <1>2, <2>2 DEF HandedInv, Rising, Position
<1> QED
  BY <1>3, <1>4, RisingUnique

-----------------------------------------------------------------------------
(* The theorems.                                                           *)

\* The frames given so far still lack such a NAL unit if more of them do.
LEMMA LoneFragmentStays ==
    ASSUME SenderInv, [Next]_vars, NoLoneFragment'
    PROVE  NoLoneFragment
<1>1. SendInv
  BY DEF SenderInv, SendInv, TypeOK
<1>2. Grown /\ mtu' = mtu
  BY <1>1, StepGrows
<1>3. CASE given = <<>>
  <2>1. Len(given) = 0
    BY <1>3, EmptySeq
  <2> QED
    BY <2>1 DEF NoLoneFragment, Position
<1>4. CASE given # <<>>
  <2>1. add_donl' = add_donl
    BY <1>4, SendKeepsDonl DEF Next, SetDONL, Receive, Lose, vars, packetizerVars, configVars
  <2>2. \A k \in 1..Len(given) : k \in 1..Len(given')
    BY <1>2 DEF Grown
  <2> QED
    BY <1>2, <2>1, <2>2 DEF NoLoneFragment, Position, Grown, IfDonl
<1> QED
  BY <1>3, <1>4

LEMMA Inductive ==
    ASSUME IndInv, [Next]_vars
    PROVE  IndInv'
<1>1. SenderInv /\ SenderInv'
  BY SenderInvStep DEF IndInv
<1>2. SendInv /\ SendInv'
  BY <1>1 DEF SenderInv, SendInv, TypeOK
<1>3. Grown
  BY <1>2, StepGrows
<1>4. SUFFICES ASSUME NoLoneFragment' PROVE SessionInv'
  BY <1>1 DEF IndInv
<1>5. NoLoneFragment /\ LossInv /\ HandedInv /\ OutInv
  BY <1>1, <1>4, LoneFragmentStays DEF IndInv, SessionInv
<1>6. CASE SetDONL
  BY <1>1, <1>3, <1>5, <1>6, SetDonlLoss, SetDonlHanded DEF SessionInv
<1>7. CASE Send
  <2>1. LossInv' /\ HandedInv'
    BY <1>1, <1>2, <1>3, <1>5, <1>7, SendLoss, SendHanded
  <2>2. UNCHANGED <<depacketizerVars, transportVars, add_donl>>
    BY <1>7, SendKeepsDonl DEF Send
  <2>3. OutInv'
    BY <1>1, <1>2, <1>3, <1>5, <1>7, <2>2, SentStays, OutStays
  <2> QED
    BY <2>1, <2>3 DEF SessionInv
<1>8. CASE Receive
  <2>1. LossInv'
    BY <1>1, <1>3, <1>5, <1>8, ReceiveWhole, ReceiveFragment
  <2>2. HandedInv'
    BY <1>5, <1>8, HandedRests DEF Receive
  <2>3. OutInv'
    BY <1>1, <1>5, <1>8, OutWhole, OutFragment
  <2> QED
    BY <2>1, <2>2, <2>3 DEF SessionInv
<1>9. CASE Lose
  <2>1. LossInv'
    BY <1>1, <1>3, <1>5, <1>9, LoseLoss
  <2>2. HandedInv'
    BY <1>5, <1>9, HandedRests DEF Lose
  <2>3. OutInv'
    BY <1>1, <1>5, <1>9, OutLost
  <2> QED
    BY <2>1, <2>2, <2>3 DEF SessionInv
<1>10. CASE UNCHANGED vars
  <2>1. UNCHANGED <<packetizerVars, depacketizerVars, transportVars>>
    BY <1>10 DEF vars
  <2>2. ChainInv' /\ OpenInv' /\ MarkInv' /\ add_donl' = add_donl
    BY <1>5, <2>1, SenderSideStays DEF LossInv
  <2>3. ReceiverInv' /\ DamageIsLocal'
    BY <1>1, <1>3, <1>5, <2>1, <2>2, ReceiverStays, DamageFrame
       DEF LossInv, depacketizerVars, transportVars
  <2>4. HandedInv'
    BY <1>5, <2>1, HandedRests
  <2>5. Range(sent) \subseteq Range(sent') /\ Position(payloads') = Position(payloads)
    BY <2>1, ExpectedSame DEF packetizerVars
  <2>6. OutInv'
    BY <1>1, <1>3, <1>5, <2>1, <2>2, <2>5, OutStays
  <2> QED
    BY <2>2, <2>3, <2>4, <2>6 DEF SessionInv, LossInv
<1> QED
  BY <1>6, <1>7, <1>8, <1>9, <1>10 DEF Next

\* The invariant the session keeps, whatever the transport loses.
THEOREM Invariant == Spec => []IndInv
<1>1. Init => IndInv
  BY SenderInvInit, SessionInit DEF IndInv
<1>2. IndInv /\ [Next]_vars => IndInv'
  BY Inductive
<1> QED
  BY <1>1, <1>2, PTL DEF Spec

\* Where no NAL unit is one fragment, a NAL unit that comes out damaged had a
\* fragment of its own lost: no loss spreads to a neighbour, though the receiver
\* does not look at sequence numbers.
THEOREM Locality == Spec => [](NoLoneFragment => DamageIsLocal)
<1>1. IndInv => (NoLoneFragment => DamageIsLocal)
  BY DEF IndInv, SessionInv, LossInv
<1> QED
  BY <1>1, Invariant, PTL

\* There, without decoding order numbers and without loss, every NAL unit comes
\* out as it went in.
THEOREM Uncorrupted ==
    Spec => [](NoLoneFragment /\ ~add_donl /\ lost = {} => NoCorruption)
<1>1. IndInv => (NoLoneFragment /\ ~add_donl /\ lost = {} => NoCorruption)
  BY DEF IndInv, SessionInv, LossInv, DamageIsLocal, AsExpected, FragmentLost, NoCorruption
<1> QED
  BY <1>1, Invariant, PTL

\* There, the packet with the marker leaves the receiver with no NAL unit open,
\* unless it lost the end of one.
THEOREM Marker == Spec => [](NoLoneFragment => MarkerCompletes)
<1>1. IndInv => (NoLoneFragment => MarkerCompletes)
  <2> SUFFICES ASSUME IndInv, NoLoneFragment, rcvd \in marked, current_fragment_is_valid
               PROVE  EndLost
    BY DEF MarkerCompletes
  <2>1. SessionInv /\ TypeOK
    BY DEF IndInv, SenderInv
  <2>2. PICK p \in Nat : p = rcvd /\ (p + 1) - 1 = p
    BY <2>1 DEF TypeOK, SenderType
  <2>3. EndsNalu(payloads[p])
    BY <2>1, <2>2 DEF SessionInv, LossInv, MarkInv
  <2>4. ~Continues(p + 1)
    BY <2>2, <2>3 DEF Continues
  <2> QED
    BY <2>1, <2>2, <2>4 DEF SessionInv, LossInv, ReceiverInv
<1> QED
  BY <1>1, Invariant, PTL

\* Where no NAL unit is one fragment, packetizer, transport and depacketizer
\* together are a stream of the NAL units that the depacketizer hands out at all:
\* they come out in the order in which they were sent and, until something is
\* lost, all of them and with the bodies their packets carry.
THEOREM Refinement == Spec /\ []NoLoneFragment => StreamSpec
<1>1. Init => Stream!Init
  <2> SUFFICES ASSUME Init PROVE Stream!Init
    OBVIOUS
  <2>1. payloads = <<>> /\ delivered = <<>> /\ lost = {}
    BY DEF Init, PacketizerInit, DepacketizerInit
  <2>2. Len(payloads) = 0 /\ Len(delivered) = 0 /\ FirstsAreNumbers(payloads)
    BY <2>1, EmptySeq DEF FirstsAreNumbers
  <2>3. HandedNalus = <<>>
    BY <2>2, HandedSteps DEF Handed, HandedNalus
  <2>4. DeliveredNalus = <<>>
    BY <2>2 DEF DeliveredNalus, Position
  <2>5. SentNalus = HandedNalus
    <3>1. SenderInv /\ SessionInv
      BY SenderInvInit, SessionInit
    <3> QED
      BY <3>1, SentIsHanded DEF SenderInv, SendInv, TypeOK, SessionInv
  <2> QED
    BY <2>1, <2>3, <2>4, <2>5 DEF Stream!Init
<1>2. IndInv /\ IndInv' /\ NoLoneFragment /\ NoLoneFragment' /\ [Next]_vars
         => [Stream!Next]_<<SentNalus, DeliveredNalus, lost # {}>>
  <2> SUFFICES ASSUME IndInv, IndInv', NoLoneFragment, NoLoneFragment', [Next]_vars
               PROVE  [Stream!Next]_<<SentNalus, DeliveredNalus, lost # {}>>
    OBVIOUS
  <2>1. /\ SenderInv /\ SenderInv' /\ OutInv
        /\ (LossInv /\ HandedInv /\ OutInv)'
    BY DEF IndInv, SessionInv
  <2>2. SendInv /\ SendInv'
    BY <2>1 DEF SenderInv, SendInv, TypeOK
  <2>3. Grown
    BY <2>2, StepGrows
  <2>4. SentNalus = HandedNalus
    BY <2>2, SentIsHanded DEF IndInv, SessionInv
  <2>5. SentNalus' = HandedNalus'
    <3>1. (SendInv /\ HandedInv => SentNalus = HandedNalus)'
      BY SentIsHanded, PTL
    <3> QED
      BY <2>1, <2>2, <3>1
  <2> USE DEF Stream!Next, Stream!Accept, Stream!Deliver, Stream!Fail
  <2>6. CASE Send
    <3>1. DeliveredNalus' = DeliveredNalus /\ IsPrefix(HandedNalus, HandedNalus')
      BY <2>1, <2>2, <2>3, <2>6, StreamSend, StreamGrows
    <3>2. (lost # {})' = (lost # {})
      BY <2>1, <2>3, <2>6, StreamSend
    <3>3. CASE SentNalus' = HandedNalus
      BY <2>4, <2>5, <3>1, <3>2, <3>3
    <3>4. CASE SentNalus' # HandedNalus
      <4>1. Stream!Accept
        BY <2>4, <2>5, <3>1, <3>2, <3>4 DEF IsPrefix, Stream!IsPrefix
      <4> QED
        BY <4>1
    <3> QED
      BY <3>3, <3>4
  <2>7. CASE Receive
    <3>1. /\ HandedNalus' = HandedNalus /\ lost' = lost
          /\ IsPrefix(DeliveredNalus, DeliveredNalus')
          /\ IF lost # {} THEN Stream!InOrder(DeliveredNalus', HandedNalus)
                          ELSE IsPrefix(DeliveredNalus', HandedNalus)
      BY <2>1, <2>7, StreamDeliver
    <3>2. (lost # {})' = (lost # {})
      BY <3>1
    <3>3. CASE DeliveredNalus' = DeliveredNalus
      BY <2>4, <2>5, <3>1, <3>2, <3>3
    <3>4. CASE DeliveredNalus' # DeliveredNalus
      <4>1. Stream!Deliver
        BY <2>4, <2>5, <3>1, <3>2, <3>4 DEF IsPrefix, Stream!IsPrefix
      <4> QED
        BY <4>1
    <3> QED
      BY <3>3, <3>4
  <2>8. CASE Lose
    <3>1. (lost # {})' /\ UNCHANGED <<packetizerVars, delivered>>
      BY <2>8 DEF Lose, depacketizerVars
    <3>2. HandedNalus' = HandedNalus /\ DeliveredNalus' = DeliveredNalus
      BY <3>1, StreamRests
    <3> QED
      BY <2>4, <2>5, <3>1, <3>2
  <2>9. CASE SetDONL
    <3>1. HandedNalus' = HandedNalus /\ DeliveredNalus' = DeliveredNalus /\ lost' = lost
      BY <2>1, <2>9, StreamSetDonl
    <3> QED
      BY <2>4, <2>5, <3>1
  <2>10. CASE UNCHANGED vars
    <3>1. UNCHANGED <<packetizerVars, delivered>> /\ lost' = lost
      BY <2>10 DEF vars, depacketizerVars, transportVars
    <3>2. HandedNalus' = HandedNalus /\ DeliveredNalus' = DeliveredNalus
      BY <3>1, StreamRests
    <3> QED
      BY <2>4, <2>5, <3>1, <3>2
  <2> QED
    BY <2>6, <2>7, <2>8, <2>9, <2>10 DEF Next
<1> QED
  BY <1>1, <1>2, Invariant, PTL DEF Spec, StreamSpec, Stream!Spec
=============================================================================
