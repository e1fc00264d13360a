----------------------------- MODULE AV1Proofs ------------------------------
(***************************************************************************)
(* Proofs about AV1Session, whatever the transport loses, for frames of    *)
(* any OBUs, every base of the length fields and every MTU of 3 or more.   *)
(***************************************************************************)
EXTENDS AV1Session, SequenceTheorems, WellFoundedInduction, TLAPS

-----------------------------------------------------------------------------
(* Sequences.                                                              *)

\* A sequence over a set is one over a larger set.
LEMMA SeqMonotone ==
    ASSUME NEW S, NEW T, S \subseteq T
    PROVE  Seq(S) \subseteq Seq(T)
OBVIOUS

\* Appending keeps what is there and adds one.
LEMMA AppendGrows ==
    ASSUME NEW S, NEW s \in Seq(S), NEW x \in S
    PROVE  /\ Append(s, x) \in Seq(S)
           /\ Len(s) \in Nat /\ Len(Append(s, x)) = Len(s) + 1
           /\ \A i \in 1..Len(s) : Append(s, x)[i] = s[i]
           /\ Append(s, x)[Len(s) + 1] = x
BY AppendProperties, LenProperties

\* Concatenating keeps what is there and adds the rest.
LEMMA ConcatGrows ==
    ASSUME NEW S, NEW s \in Seq(S), NEW t \in Seq(S)
    PROVE  /\ s \o t \in Seq(S)
           /\ Len(s) \in Nat /\ Len(t) \in Nat
           /\ Len(s \o t) = Len(s) + Len(t)
           /\ \A i \in 1..Len(s) : (s \o t)[i] = s[i]
           /\ \A i \in 1..Len(t) : (s \o t)[Len(s) + i] = t[i]
<1> PICK n \in Nat, m \in Nat : n = Len(s) /\ m = Len(t)
  BY LenProperties
<1>2. /\ s \o t \in Seq(S) /\ Len(s \o t) = n + m
      /\ \A i \in 1..(n + m) : (s \o t)[i] = IF i <= n THEN s[i] ELSE t[i - n]
  BY ConcatProperties
<1>3. \A i \in 1..n : i \in 1..(n + m) /\ i <= n
  OBVIOUS
<1>4. \A i \in 1..m : n + i \in 1..(n + m) /\ ~(n + i <= n) /\ (n + i) - n = i
  OBVIOUS
<1> QED
  BY <1>2, <1>3, <1>4

\* A position of a concatenation is one of its parts.
LEMMA ConcatPosition ==
    ASSUME NEW n \in Nat, NEW m \in Nat, NEW p \in 1..(n + m)
    PROVE  p \in 1..n \/ \E k \in 1..m : p = n + k
<1> SUFFICES ASSUME p \notin 1..n PROVE \E k \in 1..m : p = n + k
  OBVIOUS
<1>1. p - n \in 1..m /\ p = n + (p - n)
  OBVIOUS
<1> QED
  BY <1>1

\* A piece of a frame is a sequence of bytes of its length.
LEMMA BytesType ==
    ASSUME NEW f \in Nat, NEW a \in Nat, NEW b \in Nat, a <= b
    PROVE  /\ Bytes(f, a, b) \in Seq(Nat \X Nat)
           /\ Len(Bytes(f, a, b)) = b - a
           /\ \A i \in 1..(b - a) : Bytes(f, a, b)[i] = <<f, a + i - 1>>
<1>1. b - a \in Nat
  OBVIOUS
<1>2. \A i \in 1..(b - a) : <<f, a + i - 1>> \in Nat \X Nat
  OBVIOUS
<1> QED
  BY <1>1, <1>2 DEF Bytes

\* A prefix and the piece behind it join into the longer prefix.
LEMMA BytesPrefix ==
    ASSUME NEW f \in Nat, NEW a \in Nat, NEW b \in Nat, a <= b
    PROVE  Bytes(f, 0, a) \o Bytes(f, a, b) = Bytes(f, 0, b)
<1> DEFINE front == Bytes(f, 0, a)
           back == Bytes(f, a, b)
           all == Bytes(f, 0, b)
<1>0. 0 \in Nat /\ 0 <= a /\ 0 <= b
  OBVIOUS
<1>1. /\ front \in Seq(Nat \X Nat) /\ Len(front) = a
      /\ \A i \in 1..a : front[i] = <<f, i - 1>>
  <2>1. /\ front \in Seq(Nat \X Nat) /\ Len(front) = a - 0
        /\ \A i \in 1..(a - 0) : front[i] = <<f, 0 + i - 1>>
    BY <1>0, BytesType
  <2> QED
    BY <2>1
<1>2. /\ back \in Seq(Nat \X Nat) /\ Len(back) = b - a
      /\ \A i \in 1..(b - a) : back[i] = <<f, a + i - 1>>
  BY BytesType
<1>3. /\ all \in Seq(Nat \X Nat) /\ Len(all) = b
      /\ \A i \in 1..b : all[i] = <<f, i - 1>>
  <2>1. /\ all \in Seq(Nat \X Nat) /\ Len(all) = b - 0
        /\ \A i \in 1..(b - 0) : all[i] = <<f, 0 + i - 1>>
    BY <1>0, BytesType
  <2> QED
    BY <2>1
<1> HIDE DEF front, back, all
<1>4. /\ front \o back \in Seq(Nat \X Nat) /\ Len(front \o back) = b
      /\ \A i \in 1..b : (front \o back)[i] = IF i <= a THEN front[i] ELSE back[i - a]
  <2>1. /\ front \o back \in Seq(Nat \X Nat) /\ Len(front \o back) = Len(front) + Len(back)
        /\ \A i \in 1..(Len(front) + Len(back)) :
              (front \o back)[i] = IF i <= Len(front) THEN front[i] ELSE back[i - Len(front)]
    BY <1>1, <1>2, ConcatProperties
  <2>2. Len(front) + Len(back) = b
    BY <1>1, <1>2
  <2> QED
    BY <1>1, <2>1, <2>2
<1>5. ASSUME NEW i \in 1..b PROVE (front \o back)[i] = all[i]
  <2>1. CASE i <= a
    <3>1. i \in 1..a
      BY <2>1
    <3> QED
      BY <1>1, <1>3, <1>4, <2>1, <3>1
  <2>2. CASE ~(i <= a)
    <3>1. i - a \in 1..(b - a) /\ a + (i - a) = i
      BY <2>2
    <3>2. back[i - a] = <<f, i - 1>>
      BY SMTT(30), <1>2, <3>1
    <3> QED
      BY <1>3, <1>4, <2>2, <3>2
  <2> QED
    BY <2>1, <2>2
<1>6. front \o back = all
  BY <1>3, <1>4, <1>5, SeqEqual
<1> QED
  BY <1>6 DEF front, back, all

-----------------------------------------------------------------------------
(* Recursion over the natural numbers.                                     *)

LEMMA LeastElement ==
    ASSUME NEW T, T \subseteq Nat, T # {}
    PROVE  \E x \in T : \A y \in T : x <= y
<1> DEFINE R == OpToRel(<, Nat)
<1>1. IsWellFoundedOn(R, Nat)
  BY NatLessThanWellFounded
<1>2. \E x \in T : \A y \in T : ~(<<y, x>> \in R)
  <2> HIDE DEF R
  <2> QED
    BY <1>1, WFMin
<1>3. \A x, y \in T : ~(<<y, x>> \in R) => x <= y
  BY DEF OpToRel
<1> QED
  BY <1>2, <1>3

\* Induction, over a set in place of a predicate.
LEMMA SetInduction ==
    ASSUME NEW S, 0 \in S, \A n \in Nat : n \in S => n + 1 \in S
    PROVE  Nat \subseteq S
<1> DEFINE T == Nat \ S
<1> SUFFICES ASSUME T # {} PROVE FALSE
  OBVIOUS
<1>1. PICK x \in T : \A y \in T : x <= y
  BY LeastElement
<1>2. x # 0 /\ x - 1 \in Nat
  BY <1>1
<1>3. x - 1 \in S
  BY <1>1, <1>2
<1> QED
  BY <1>1, <1>2, <1>3

\* g starts with base and goes on by step, up to n.
Iterates(g, n, S, base, step) ==
    /\ g \in [0..n -> S]
    /\ g[0] = base
    /\ \A i \in 1..n : g[i] = step[i][g[i - 1]]

\* What is computed one step after the other is there.
LEMMA IterationExists ==
    ASSUME NEW S, NEW base \in S, NEW m \in Nat, NEW step \in [1..m -> [S -> S]]
    PROVE  \E g : Iterates(g, m, S, base, step)
<1> DEFINE D == {n \in Nat : n <= m => \E g : Iterates(g, n, S, base, step)}
<1>1. 0 \in D
  <2> DEFINE g == [i \in 0..0 |-> base]
  <2>1. Iterates(g, 0, S, base, step)
    BY DEF Iterates
  <2> HIDE DEF g
  <2> QED
    BY <2>1
<1>2. ASSUME NEW n \in Nat, n \in D PROVE n + 1 \in D
  <2> SUFFICES ASSUME n + 1 <= m PROVE \E g : Iterates(g, n + 1, S, base, step)
    OBVIOUS
  <2>1. PICK g : Iterates(g, n, S, base, step)
    BY <1>2
  <2>2. step[n + 1] \in [S -> S] /\ g[n] \in S
    BY <2>1 DEF Iterates
  <2> DEFINE next == step[n + 1][g[n]]
             h == [i \in 0..(n + 1) |-> IF i = n + 1 THEN next ELSE g[i]]
  <2>3. next \in S
    BY <2>2
  <2> HIDE DEF next
  <2>4. h \in [0..(n + 1) -> S] /\ h[0] = base
    BY <2>1, <2>3 DEF Iterates
  <2>5. ASSUME NEW i \in 1..(n + 1) PROVE h[i] = step[i][h[i - 1]]
    <3>1. CASE i = n + 1
      <4>1. i - 1 \in 0..(n + 1) /\ i - 1 # n + 1 /\ i - 1 = n
        BY <3>1
      <4>2. h[i - 1] = g[n] /\ h[i] = next
        BY <3>1, <4>1
      <4> HIDE DEF h
      <4> QED
        BY <3>1, <4>2 DEF next
    <3>2. CASE i # n + 1
      <4>1. i \in 1..n /\ i - 1 \in 0..n
        BY <3>2
      <4>2. h[i] = g[i] /\ h[i - 1] = g[i - 1]
        BY <4>1
      <4> HIDE DEF h
      <4> QED
        BY <2>1, <4>1, <4>2 DEF Iterates
    <3> QED
      BY <3>1, <3>2
  <2> HIDE DEF h
  <2>6. Iterates(h, n + 1, S, base, step)
    BY <2>4, <2>5 DEF Iterates
  <2> QED
    BY <2>6
<1>3. Nat \subseteq D
  <2> HIDE DEF D
  <2> QED
    BY <1>1, <1>2, SetInduction
<1> QED
  BY <1>3

\* Two computations that start alike and go on alike are alike.
StepAlike(g, h, m) ==
    /\ g[0] = h[0]
    /\ \A i \in 1..m : g[i - 1] = h[i - 1] => g[i] = h[i]

LEMMA IterationUnique ==
    ASSUME NEW m \in Nat, NEW g, NEW h, StepAlike(g, h, m)
    PROVE  \A i \in 0..m : g[i] = h[i]
<1> DEFINE D == {n \in Nat : n <= m => g[n] = h[n]}
<1>1. 0 \in D
  BY DEF StepAlike
<1>2. ASSUME NEW n \in Nat, n \in D PROVE n + 1 \in D
  <2> SUFFICES ASSUME n + 1 <= m PROVE g[n + 1] = h[n + 1]
    OBVIOUS
  <2>1. n + 1 \in 1..m /\ (n + 1) - 1 = n /\ g[n] = h[n]
    BY <1>2
  <2> QED
    BY <2>1 DEF StepAlike
<1>3. Nat \subseteq D
  <2> HIDE DEF D
  <2> QED
    BY <1>1, <1>2, SetInduction
<1> QED
  BY <1>3

-----------------------------------------------------------------------------
(* Length fields.                                                          *)

\* Each limit is at least four times the one before.
LEMMA Limits ==
    /\ LebLimits[1] \in Nat /\ LebLimits[2] \in Nat /\ LebLimits[3] \in Nat /\ LebLimits[4] \in Nat
    /\ LebLimits[1] >= 4 /\ LebLimits[2] >= 4 * LebLimits[1]
    /\ LebLimits[3] >= 4 * LebLimits[2] /\ LebLimits[4] >= 4 * LebLimits[3]
<1> PICK b \in Nat : b = LebBase /\ b >= 4
  BY LebAssumption
<1>1. \A x \in Nat : b * x \in Nat /\ b * x >= 4 * x
  OBVIOUS
<1>2. PICK b2 \in Nat : b2 = b * b /\ b2 >= 4 * b
  BY <1>1
<1>3. PICK b3 \in Nat : b3 = b * b2 /\ b3 >= 4 * b2
  BY <1>1
<1>4. PICK b4 \in Nat : b4 = b * b3 /\ b4 >= 4 * b3
  BY <1>1
<1>5. b * b * b = b3 /\ b * b * b * b = b4
  BY <1>2, <1>3, <1>4
<1>6. LebLimits = <<b, b2, b3, b4>>
  BY <1>2, <1>5 DEF LebLimits
<1> QED
  BY <1>2, <1>3, <1>4, <1>6

\* n lies between the limits of a length field of s bytes.
Between(n, s) ==
    /\ s = 1 => n < LebLimits[1]
    /\ s = 2 => LebLimits[1] <= n /\ n < LebLimits[2]
    /\ s = 3 => LebLimits[2] <= n /\ n < LebLimits[3]
    /\ s = 4 => LebLimits[3] <= n /\ n < LebLimits[4]
    /\ s = 5 => LebLimits[4] <= n

LEMMA LebSizeIs ==
    ASSUME NEW n \in Nat
    PROVE  LebSize(n) \in 1..5 /\ Between(n, LebSize(n))
<1> DEFINE Right(s) == (s < 5 => n < LebLimits[s]) /\ (s > 1 => n >= LebLimits[s - 1])
<1>1. \E s \in 1..5 : Right(s)
  BY Limits
<1>2. LebSize(n) = CHOOSE s \in 1..5 : Right(s)
  BY DEF LebSize
<1>3. LebSize(n) \in 1..5 /\ Right(LebSize(n))
  BY <1>1, <1>2
<1> PICK s : s = LebSize(n)
  OBVIOUS
<1>4. s \in 1..5 /\ Right(s)
  BY <1>3
<1>5. s = 1 \/ s = 2 \/ s = 3 \/ s = 4 \/ s = 5
  BY <1>4
<1>6. Between(n, s)
  BY <1>4, <1>5 DEF Between
<1> QED
  BY <1>4, <1>6

\* A larger number does not have a shorter length field.
LEMMA LebGrows ==
    ASSUME NEW a \in Nat, NEW b \in Nat, a <= b
    PROVE  LebSize(a) <= LebSize(b)
<1> PICK s \in 1..5, t \in 1..5 : s = LebSize(a) /\ t = LebSize(b)
  BY LebSizeIs
<1>1. Between(a, s) /\ Between(b, t)
  BY LebSizeIs
<1> PICK l1 \in Nat, l2 \in Nat, l3 \in Nat, l4 \in Nat :
        l1 = LebLimits[1] /\ l2 = LebLimits[2] /\ l3 = LebLimits[3] /\ l4 = LebLimits[4]
  BY Limits
<1> QED
  BY <1>1, Limits DEF Between

\* A length field is shorter than what it measures, from two bytes on.
LEMMA LebShort ==
    ASSUME NEW n \in Nat, n >= 1
    PROVE  LebSize(n) <= n /\ (n >= 2 => LebSize(n) < n)
<1> PICK s \in 1..5 : s = LebSize(n)
  BY LebSizeIs
<1>1. Between(n, s)
  BY LebSizeIs
<1> QED
  BY <1>1, Limits DEF Between

\* One below a limit the length field is a byte shorter.
LEMMA LebEdge ==
    ASSUME NEW n \in Nat, LebAtEdge(n)
    PROVE  n >= 4 /\ LebSize(n - 1) = LebSize(n) - 1
<1> PICK l1 \in Nat, l2 \in Nat, l3 \in Nat, l4 \in Nat :
        /\ l1 = LebLimits[1] /\ l2 = LebLimits[2] /\ l3 = LebLimits[3] /\ l4 = LebLimits[4]
        /\ l1 >= 4 /\ l2 >= 4 * l1 /\ l3 >= 4 * l2 /\ l4 >= 4 * l3
  BY Limits
<1>1. n = l1 \/ n = l2 \/ n = l3 \/ n = l4
  BY DEF LebAtEdge
<1>2. n >= 4 /\ n - 1 \in Nat
  BY <1>1
<1> PICK s \in 1..5, t \in 1..5 : s = LebSize(n - 1) /\ t = LebSize(n)
  BY <1>2, LebSizeIs
<1>3. Between(n - 1, s) /\ Between(n, t)
  BY <1>2, LebSizeIs
<1> QED
  BY <1>1, <1>2, <1>3 DEF Between

\* What ComputeWriteSize answers fits with its length field and is not nothing.
LEMMA WriteSize ==
    ASSUME NEW want \in Nat, NEW can \in Nat, 1 <= want, want <= can
    PROVE  /\ ComputeWriteSize(want, can) \in 0..want
           /\ can >= 2 => /\ ComputeWriteSize(want, can) > 0
                          /\ LebSize(ComputeWriteSize(want, can))
                                + ComputeWriteSize(want, can) <= can
<1> PICK c, l : c = ComputeWriteSize(want, can) /\ l = LebSize(want)
  OBVIOUS
<1>1. l \in 1..5 /\ l <= want /\ (want >= 2 => l < want)
  BY LebSizeIs, LebShort
<1>2. CASE can >= want + l
  <2>1. c = want
    BY <1>2 DEF ComputeWriteSize
  <2> QED
    BY <1>1, <1>2, <2>1
<1>3. CASE ~(can >= want + l) /\ LebAtEdge(want) /\ can >= want + l - 1
  <2>1. c = want - 1
    BY <1>3 DEF ComputeWriteSize
  <2>2. want >= 4 /\ LebSize(c) = l - 1
    BY <1>3, <2>1, LebEdge
  <2> QED
    BY <1>1, <1>3, <2>1, <2>2
<1>4. CASE ~(can >= want + l) /\ ~(LebAtEdge(want) /\ can >= want + l - 1)
  <2>1. c = want - l
    BY <1>4 DEF ComputeWriteSize
  <2>2. c \in Nat /\ c <= want
    BY <1>1, <2>1
  <2>3. LebSize(c) <= l /\ LebSize(c) \in 1..5
    BY <2>2, LebGrows, LebSizeIs
  <2>4. can >= 2 => c > 0
    <3>1. want = 1 => l = 1
      BY <1>1
    <3> QED
      BY <1>1, <1>4, <2>1, <3>1
  <2> QED
    BY <1>1, <2>1, <2>2, <2>3, <2>4
<1> QED
  BY <1>2, <1>3, <1>4

-----------------------------------------------------------------------------
(* The size of a packet.                                                   *)

LEMMA ElementSizeType ==
    ASSUME NEW e, e.from \in Nat, e.to \in Nat, e.from <= e.to
    PROVE  ElementSize(e) \in Nat
<1> PICK n \in Nat : n = e.to - e.from
  OBVIOUS
<1>1. LebSize(n) \in 1..5
  BY LebSizeIs
<1> QED
  BY <1>1 DEF ElementSize

\* PacketSize is the last of the sums it goes through.
LEMMA PacketSizeSums ==
    ASSUME NEW packet, Len(packet.elems) \in Nat,
           \A i \in 1..Len(packet.elems) : ElementSize(packet.elems[i]) \in Nat
    PROVE  \E sums \in [0..Len(packet.elems) -> Nat] :
              /\ sums[0] = 1
              /\ \A i \in 1..Len(packet.elems) :
                    sums[i] = sums[i - 1] + ElementSize(packet.elems[i])
              /\ PacketSize(packet) = sums[Len(packet.elems)]
<1> DEFINE n == Len(packet.elems)
           w(i) == ElementSize(packet.elems[i])
           Def(f) == f = [i \in 0..n |-> IF i = 0 THEN 1 ELSE f[i - 1] + w(i)]
           u == CHOOSE f : Def(f)
           step == [i \in 1..n |-> [v \in Nat |-> v + w(i)]]
<1>1. PacketSize(packet) = u[n]
  BY DEF PacketSize
<1>2. n \in Nat /\ \A i \in 1..n : w(i) \in Nat
  OBVIOUS
<1>3. 1 \in Nat /\ step \in [1..n -> [Nat -> Nat]]
  BY <1>2
<1>4. PICK g : Iterates(g, n, Nat, 1, step)
  <2> HIDE DEF n, step
  <2> QED
    BY <1>2, <1>3, IterationExists
<1> HIDE DEF n, w
<1>5. \A i \in 1..n : g[i] = g[i - 1] + w(i)
  <2> SUFFICES ASSUME NEW i \in 1..n PROVE g[i] = g[i - 1] + w(i)
    OBVIOUS
  <2>1. step[i] = [v \in Nat |-> v + w(i)]
    OBVIOUS
  <2> HIDE DEF step
  <2>2. i - 1 \in 0..n
    BY <1>2
  <2>3. g[i - 1] \in Nat /\ g[i] = step[i][g[i - 1]]
    BY <1>4, <2>2 DEF Iterates
  <2> QED
    BY <2>1, <2>3
<1>6. Def(g)
  BY <1>2, <1>4, <1>5 DEF Iterates
<1>7. Def(u)
  <2> HIDE DEF Def
  <2> QED
    BY <1>6
<1> HIDE DEF u
<1>8. /\ u[0] = 1 /\ DOMAIN u = 0..n
      /\ \A i \in 1..n : u[i] = u[i - 1] + w(i)
  BY <1>2, <1>7
<1>9. \A i \in 0..n : g[i] = u[i]
  <2>1. StepAlike(g, u, n)
    BY <1>4, <1>5, <1>8 DEF Iterates, StepAlike
  <2> QED
    BY <1>2, <2>1, IterationUnique
<1>10. u \in [0..n -> Nat]
  BY <1>4, <1>7, <1>8, <1>9 DEF Iterates
<1> QED
  BY <1>1, <1>8, <1>10 DEF n, w

\* A packet is its aggregation header, and each element adds its size.
LEMMA PacketSizeNone ==
    ASSUME NEW packet, Len(packet.elems) = 0
    PROVE  PacketSize(packet) = 1
<1>1. \A i \in 1..Len(packet.elems) : ElementSize(packet.elems[i]) \in Nat
  OBVIOUS
<1> QED
  BY <1>1, PacketSizeSums

LEMMA PacketSizeMore ==
    ASSUME NEW packet, NEW more,
           Len(packet.elems) \in Nat, Len(more.elems) = Len(packet.elems) + 1,
           \A i \in 1..Len(more.elems) : ElementSize(more.elems[i]) \in Nat,
           \A i \in 1..Len(packet.elems) : more.elems[i] = packet.elems[i]
    PROVE  /\ PacketSize(packet) \in Nat
           /\ PacketSize(more) = PacketSize(packet) + ElementSize(more.elems[Len(more.elems)])
<1> DEFINE n == Len(packet.elems)
<1>1. n \in Nat /\ Len(more.elems) = n + 1 /\ Len(more.elems) \in Nat
  OBVIOUS
<1>2. \A i \in 1..n : ElementSize(packet.elems[i]) \in Nat
  OBVIOUS
<1>3. PICK f \in [0..n -> Nat] :
         /\ f[0] = 1
         /\ \A i \in 1..n : f[i] = f[i - 1] + ElementSize(packet.elems[i])
         /\ PacketSize(packet) = f[n]
  BY <1>1, <1>2, PacketSizeSums
<1>4. PICK g \in [0..(n + 1) -> Nat] :
         /\ g[0] = 1
         /\ \A i \in 1..(n + 1) : g[i] = g[i - 1] + ElementSize(more.elems[i])
         /\ PacketSize(more) = g[n + 1]
  BY <1>1, PacketSizeSums
<1> HIDE DEF n
<1>5. \A i \in 0..n : f[i] = g[i]
  <2>1. ASSUME NEW i \in 1..n, f[i - 1] = g[i - 1] PROVE f[i] = g[i]
    <3>1. more.elems[i] = packet.elems[i] /\ i \in 1..(n + 1)
      BY <1>1 DEF n
    <3> QED
      BY <1>3, <1>4, <2>1, <3>1
  <2>2. StepAlike(f, g, n)
    BY <1>3, <1>4, <2>1 DEF StepAlike
  <2>3. n \in Nat
    BY <1>1
  <2> QED
    BY ONLY <2>2, <2>3, IterationUnique
<1>6. g[n + 1] = g[n] + ElementSize(more.elems[n + 1])
  <2>1. n + 1 \in 1..(n + 1) /\ (n + 1) - 1 = n
    BY <1>1
  <2> QED
    BY <1>4, <2>1
<1> QED
  BY <1>1, <1>3, <1>4, <1>5, <1>6

-----------------------------------------------------------------------------
(* Packets.                                                                *)

GivenStays ==
    /\ Len(given) \in Nat /\ Len(given') \in Nat /\ Len(given) <= Len(given')
    /\ \A k \in 1..Len(given) : given'[k] = given[k]

LEMMA ObuFacts ==
    ASSUME given \in Seq(ObuType), NEW k \in 1..Len(given)
    PROVE  /\ given[k] \in ObuType /\ ObuLen(given[k]) \in Nat /\ ObuLen(given[k]) >= 1
           /\ given[k].layer \in Nat /\ Len(given) \in Nat
<1>1. given[k] \in ObuType /\ Len(given) \in Nat
  BY ElementOfSeq, LenProperties
<1> QED
  BY <1>1 DEF ObuType, ObuLen, ObuHeaderSize

LEMMA PacketFacts ==
    ASSUME NEW x \in PacketType
    PROVE  /\ x.elems \in Seq(ElementType) /\ Len(x.elems) \in Nat
           /\ x.z \in BOOLEAN /\ x.y \in BOOLEAN /\ x.n \in BOOLEAN /\ x.w \in 0..3
           /\ \A i \in 1..Len(x.elems) :
                 /\ x.elems[i] \in ElementType
                 /\ x.elems[i].obu \in 1..Len(given) /\ x.elems[i].from \in Nat
                 /\ x.elems[i].to \in Nat /\ x.elems[i].sized \in BOOLEAN
           /\ x.elems # <<>> => Len(x.elems) >= 1
<1>1. x.elems \in Seq(ElementType) /\ Len(x.elems) \in Nat
  BY LenProperties DEF PacketType
<1>2. \A i \in 1..Len(x.elems) : x.elems[i] \in ElementType
  BY <1>1, ElementOfSeq
<1>3. x.elems # <<>> => Len(x.elems) >= 1
  BY <1>1, EmptySeq
<1> QED
  BY <1>1, <1>2, <1>3 DEF PacketType, ElementType

\* A sound packet has a size, and its elements are not empty.
LEMMA SoundFacts ==
    ASSUME given \in Seq(ObuType), NEW x \in PacketType, SoundPacket(x)
    PROVE  /\ Len(x.elems) \in Nat /\ Len(x.elems) >= 1
           /\ PacketSize(x) \in Nat /\ PacketSize(x) <= Mtu
           /\ LastElement(x) \in ElementType /\ SoundElement(LastElement(x))
           /\ \A i \in 1..Len(x.elems) : ElementSize(x.elems[i]) \in Nat
<1>1. Len(x.elems) \in Nat /\ Len(x.elems) >= 1
  BY PacketFacts DEF SoundPacket
<1>2. \A i \in 1..Len(x.elems) : ElementSize(x.elems[i]) \in Nat
  <2> SUFFICES ASSUME NEW i \in 1..Len(x.elems) PROVE ElementSize(x.elems[i]) \in Nat
    OBVIOUS
  <2>1. x.elems[i].from \in Nat /\ x.elems[i].to \in Nat
    BY PacketFacts
  <2>2. x.elems[i].from < x.elems[i].to
    BY DEF SoundPacket, SoundElement, Position
  <2> QED
    BY <2>1, <2>2, ElementSizeType
<1>3. PacketSize(x) \in Nat
  <2>1. PICK n \in Nat : n = Len(x.elems)
    BY <1>1
  <2>2. PICK sums \in [0..n -> Nat] : PacketSize(x) = sums[n]
    BY <1>2, <2>1, PacketSizeSums
  <2>3. n \in 0..n
    BY <2>1
  <2> QED
    BY <2>2, <2>3
<1>4. Len(x.elems) \in 1..Len(x.elems)
  BY <1>1
<1> QED
  BY <1>1, <1>2, <1>3, <1>4, PacketFacts DEF SoundPacket, LastElement, Position

\* A packet of one element.
LEMMA SoundOne ==
    ASSUME given \in Seq(ObuType), NEW x \in PacketType, NEW e \in ElementType,
           x.elems = <<e>>, SoundElement(e), x.z <=> e.from # 0, x.n => ~x.z,
           1 + ElementSize(e) <= Mtu
    PROVE  SoundPacket(x) /\ LastElement(x) = e /\ x.elems[1] = e
<1>1. x.elems # <<>> /\ Len(x.elems) = 1 /\ x.elems[1] = e
  BY PacketFacts
<1>2. ElementSize(e) \in Nat
  BY ElementSizeType DEF SoundElement, ElementType
<1> PICK none : none = NewPacket(FALSE)
  OBVIOUS
<1>3. Len(none.elems) = 0
  BY DEF NewPacket
<1>4. PacketSize(none) = 1
  BY <1>3, PacketSizeNone
<1>5. PacketSize(x) = 1 + ElementSize(e)
  <2>1. \A i \in 1..Len(x.elems) : ElementSize(x.elems[i]) \in Nat
    BY <1>1, <1>2
  <2>2. Len(none.elems) \in Nat /\ Len(x.elems) = Len(none.elems) + 1
    BY ONLY <1>1, <1>3
  <2>3. \A i \in 1..Len(none.elems) : x.elems[i] = none.elems[i]
    <3>1. 1..0 = {}
      OBVIOUS
    <3>2. 1..Len(none.elems) = {}
      BY ONLY <1>3, <3>1, Zenon
    <3> QED
      BY ONLY <3>2
  <2>4. PacketSize(x) = PacketSize(none) + ElementSize(x.elems[Len(x.elems)])
    BY ONLY <2>1, <2>2, <2>3, PacketSizeMore
  <2> QED
    BY <1>1, <1>4, <2>4
<1>6. \A i \in Position(x.elems) : i = 1
  BY <1>1 DEF Position
<1> QED
  BY <1>1, <1>5, <1>6 DEF SoundPacket, LastElement

\* One element more.
LEMMA SoundMore ==
    ASSUME given \in Seq(ObuType), NEW x \in PacketType, NEW y \in PacketType,
           NEW e \in ElementType, SoundPacket(x), SoundElement(e), e.from = 0,
           Follows(LastElement(x), e), y.elems = Append(x.elems, e), y.z = x.z, y.n = x.n,
           PacketSize(x) + ElementSize(e) <= Mtu
    PROVE  SoundPacket(y) /\ LastElement(y) = e /\ y.elems[1] = x.elems[1]
<1> PICK n \in Nat : n = Len(x.elems) /\ n >= 1
  BY SoundFacts
<1>1. /\ Len(y.elems) = n + 1 /\ y.elems[n + 1] = e
      /\ \A i \in 1..n : y.elems[i] = x.elems[i]
  BY PacketFacts, AppendGrows
<1>2. ElementSize(e) \in Nat
  BY ElementSizeType DEF SoundElement, ElementType
<1>3. \A i \in 1..(n + 1) : i \in 1..n \/ i = n + 1
  OBVIOUS
<1>4. PacketSize(y) = PacketSize(x) + ElementSize(e)
  <2>1. \A i \in 1..Len(y.elems) : ElementSize(y.elems[i]) \in Nat
    BY <1>1, <1>2, <1>3, SoundFacts
  <2>2. \A i \in 1..Len(x.elems) : y.elems[i] = x.elems[i]
    BY <1>1
  <2>3. Len(x.elems) \in Nat /\ Len(y.elems) = Len(x.elems) + 1
    BY <1>1
  <2>4. PacketSize(y) = PacketSize(x) + ElementSize(y.elems[Len(y.elems)])
    BY ONLY <2>1, <2>2, <2>3, PacketSizeMore
  <2> QED
    BY <1>1, <2>4
<1>5. y.elems[1] = x.elems[1] /\ y.elems # <<>>
  BY <1>1
<1>6. ASSUME NEW i \in 1..(n + 1)
      PROVE  /\ SoundElement(y.elems[i])
             /\ i > 1 => y.elems[i].from = 0 /\ Follows(y.elems[i - 1], y.elems[i])
  <2>1. CASE i \in 1..n
    <3>1. y.elems[i] = x.elems[i] /\ (i > 1 => y.elems[i - 1] = x.elems[i - 1])
      BY <1>1, <2>1
    <3> QED
      BY <2>1, <3>1 DEF SoundPacket, Position
  <2>2. CASE i = n + 1
    <3>1. y.elems[i] = e /\ y.elems[i - 1] = LastElement(x)
      BY <1>1, <2>2 DEF LastElement
    <3> QED
      BY <3>1
  <2> QED
    BY <1>3, <2>1, <2>2
<1> QED
  BY <1>1, <1>4, <1>5, <1>6 DEF SoundPacket, LastElement, Position

LEMMA ChainAppend ==
    ASSUME NEW seq \in Seq(PacketType), NEW x \in PacketType, Chain(seq), SoundPacket(x),
           seq = <<>> => ~x.z, seq # <<>> => Leads(seq[Len(seq)], x)
    PROVE  Chain(Append(seq, x))
<1> PICK n \in Nat : n = Len(seq)
  BY LenProperties
<1> PICK t : t = Append(seq, x)
  OBVIOUS
<1>1. Len(t) = n + 1 /\ t[n + 1] = x /\ \A p \in 1..n : t[p] = seq[p]
  BY AppendGrows
<1>2. ASSUME NEW p \in 1..(n + 1)
      PROVE  SoundPacket(t[p]) /\ IF p = 1 THEN ~t[p].z ELSE Leads(t[p - 1], t[p])
  <2>1. CASE p \in 1..n
    <3>1. t[p] = seq[p] /\ (p # 1 => t[p - 1] = seq[p - 1])
      BY <1>1, <2>1
    <3> QED
      BY <2>1, <3>1 DEF Chain, Position
  <2>2. CASE p = n + 1 /\ n = 0
    <3>1. seq = <<>>
      BY <2>2, EmptySeq
    <3> QED
      BY <1>1, <2>2, <3>1
  <2>3. CASE p = n + 1 /\ n > 0
    <3>1. t[p] = x /\ t[p - 1] = seq[n] /\ seq # <<>> /\ p # 1
      BY <1>1, <2>3
    <3> QED
      BY <3>1
  <2> QED
    BY <2>1, <2>2, <2>3
<1> QED
  BY <1>1, <1>2 DEF Chain, Position

\* The last packet may change behind its first element.
LEMMA ChainLast ==
    ASSUME NEW seq \in Seq(PacketType), NEW t \in Seq(PacketType), Chain(seq),
           seq # <<>>, Len(t) = Len(seq), \A p \in 1 .. Len(seq) - 1 : t[p] = seq[p],
           SoundPacket(t[Len(seq)]), t[Len(seq)].z = seq[Len(seq)].z,
           t[Len(seq)].elems[1] = seq[Len(seq)].elems[1]
    PROVE  Chain(t)
<1> PICK n \in Nat : n = Len(seq) /\ n > 0
  BY LenProperties, EmptySeq
<1>1. ASSUME NEW p \in 1..n
      PROVE  SoundPacket(t[p]) /\ IF p = 1 THEN ~t[p].z ELSE Leads(t[p - 1], t[p])
  <2>1. CASE p < n
    <3>1. t[p] = seq[p] /\ (p # 1 => t[p - 1] = seq[p - 1])
      BY <2>1
    <3> QED
      BY <3>1 DEF Chain, Position
  <2>2. CASE p = n /\ p = 1
    BY <2>2 DEF Chain, Position
  <2>3. CASE p = n /\ p # 1
    <3>1. t[p - 1] = seq[p - 1] /\ Leads(seq[p - 1], seq[p])
      BY <2>3 DEF Chain, Position
    <3> QED
      BY <2>3, <3>1 DEF Leads
  <2> QED
    BY <2>1, <2>2, <2>3
<1> QED
  BY <1>1 DEF Chain, Position

LEMMA ChainConcat ==
    ASSUME NEW s \in Seq(PacketType), NEW t \in Seq(PacketType), Chain(s), Chain(t),
           s # <<>> /\ t # <<>> => Leads(s[Len(s)], t[1])
    PROVE  Chain(s \o t)
<1> PICK n \in Nat, m \in Nat : n = Len(s) /\ m = Len(t)
  BY LenProperties
<1> PICK u : u = s \o t
  OBVIOUS
<1>1. /\ Len(u) = n + m /\ \A p \in 1..n : u[p] = s[p]
      /\ \A p \in 1..m : u[n + p] = t[p]
  BY ConcatGrows
<1>2. ASSUME NEW p \in 1..(n + m)
      PROVE  SoundPacket(u[p]) /\ IF p = 1 THEN ~u[p].z ELSE Leads(u[p - 1], u[p])
  <2>1. CASE p \in 1..n
    <3>1. u[p] = s[p] /\ (p # 1 => u[p - 1] = s[p - 1])
      BY <1>1, <2>1
    <3> QED
      BY <2>1, <3>1 DEF Chain, Position
  <2>2. ASSUME NEW k \in 1..m, p = n + k PROVE SoundPacket(u[p]) /\ IF p = 1 THEN ~u[p].z ELSE Leads(u[p - 1], u[p])
    <3>1. u[p] = t[k] /\ SoundPacket(t[k]) /\ IF k = 1 THEN ~t[k].z ELSE Leads(t[k - 1], t[k])
      BY <1>1, <2>2 DEF Chain, Position
    <3>2. CASE k = 1 /\ n = 0
      BY <2>2, <3>1, <3>2
    <3>3. CASE k = 1 /\ n > 0
      <4>1. u[p - 1] = s[n] /\ s # <<>> /\ t # <<>> /\ p # 1
        BY <1>1, <2>2, <3>3
      <4> QED
        BY <3>1, <3>3, <4>1
    <3>4. CASE k # 1
      <4>1. p # 1 /\ k - 1 \in 1..m /\ p - 1 = n + (k - 1)
        BY <2>2, <3>4
      <4>2. u[p - 1] = t[k - 1]
        BY <1>1, <4>1
      <4> QED
        BY <3>1, <3>4, <4>1, <4>2
    <3> QED
      BY <3>2, <3>3, <3>4
  <2> QED
    BY <2>1, <2>2, ConcatPosition
<1> QED
  BY <1>1, <1>2 DEF Chain, Position

\* What holds of packets goes on to hold when more OBUs are given.
LEMMA ElementStays ==
    ASSUME GivenStays, NEW e \in ElementType
    PROVE  /\ Ends(e)' <=> Ends(e)
           /\ SoundElement(e) => SoundElement(e)'
           /\ \A f \in ElementType : Follows(e, f) => Follows(e, f)'
           /\ e \in ElementType'
<1>1. e.obu \in 1..Len(given) /\ given'[e.obu] = given[e.obu]
  BY DEF ElementType, GivenStays
<1>2. ObuLen(given[e.obu])' = ObuLen(given[e.obu])
  BY <1>1 DEF ObuLen, ObuHeaderSize
<1>3. Ends(e)' <=> Ends(e)
  BY <1>2 DEF Ends
<1>4. SoundElement(e) => SoundElement(e)'
  BY <1>1, <1>2 DEF SoundElement, SkippedObu
<1>5. \A f \in ElementType : Follows(e, f) => Follows(e, f)'
  BY <1>3 DEF Follows
<1>6. e \in ElementType'
  BY DEF ElementType, GivenStays
<1> QED
  BY <1>3, <1>4, <1>5, <1>6

LEMMA PacketStays ==
    ASSUME GivenStays, NEW x \in PacketType, SoundPacket(x)
    PROVE  /\ SoundPacket(x)'
           /\ LastElement(x) \in ElementType
           /\ Ends(LastElement(x))' <=> Ends(LastElement(x))
           /\ \A y \in PacketType : SoundPacket(y) /\ Leads(x, y) => Leads(x, y)'
<1> PICK n \in Nat : n = Len(x.elems) /\ n >= 1
  BY PacketFacts DEF SoundPacket
<1> PICK e : e = LastElement(x)
  OBVIOUS
<1>1. e \in ElementType
  BY PacketFacts DEF LastElement
<1>2. Ends(e)' <=> Ends(e)
  BY <1>1, ElementStays
<1>3. Ends(LastElement(x))' <=> Ends(LastElement(x))
  BY <1>2 DEF Ends, LastElement
<1>4. \A i \in 1..n : SoundElement(x.elems[i])'
  <2> SUFFICES ASSUME NEW i \in 1..n PROVE SoundElement(x.elems[i])'
    OBVIOUS
  <2> PICK f : f = x.elems[i]
    OBVIOUS
  <2>1. f \in ElementType /\ SoundElement(f)
    BY PacketFacts DEF SoundPacket, Position
  <2>2. SoundElement(f)'
    BY <2>1, ElementStays
  <2> QED
    BY <2>2
<1>5. \A i \in 1..n : i > 1 => x.elems[i].from = 0 /\ Follows(x.elems[i - 1], x.elems[i])'
  <2> SUFFICES ASSUME NEW i \in 1..n, i > 1
               PROVE  x.elems[i].from = 0 /\ Follows(x.elems[i - 1], x.elems[i])'
    OBVIOUS
  <2> PICK f, g : f = x.elems[i - 1] /\ g = x.elems[i]
    OBVIOUS
  <2>1. i - 1 \in 1..n
    OBVIOUS
  <2>2. f \in ElementType /\ g \in ElementType
    BY <2>1, PacketFacts
  <2>3. Follows(f, g) /\ g.from = 0
    BY DEF SoundPacket, Position
  <2>4. Follows(f, g)'
    BY <2>2, <2>3, ElementStays
  <2> QED
    BY <2>3, <2>4
<1>6. SoundPacket(x)'
  BY <1>4, <1>5 DEF SoundPacket, Position
<1>7. ASSUME NEW y \in PacketType, SoundPacket(y), Leads(x, y)
      PROVE  Leads(x, y)'
  <2> PICK f : f = y.elems[1]
    OBVIOUS
  <2>1. f \in ElementType
    <3>1. 1 \in 1..Len(y.elems)
      BY <1>7, PacketFacts DEF SoundPacket
    <3> QED
      BY <3>1, PacketFacts
  <2>2. Follows(e, f) /\ (x.y <=> ~Ends(e))
    BY <1>7 DEF Leads
  <2>3. Follows(e, f)' /\ (x.y <=> ~Ends(e)')
    BY <1>1, <1>2, <2>1, <2>2, ElementStays
  <2> QED
    BY <2>3 DEF Leads, LastElement
<1> QED
  BY <1>1, <1>3, <1>6, <1>7

LEMMA ChainStays ==
    ASSUME GivenStays, NEW seq \in Seq(PacketType), Chain(seq)
    PROVE  /\ Chain(seq)' /\ seq \in Seq(PacketType')
           /\ Closed(seq) => Closed(seq)'
           /\ \A k : EndsIn(seq, k) => EndsIn(seq, k)'
<1> PICK n \in Nat : n = Len(seq) /\ DOMAIN seq = 1..n
  BY LenProperties
<1>1. \A p \in 1..n : seq[p] \in PacketType /\ SoundPacket(seq[p])
  BY ElementOfSeq DEF Chain, Position
<1>2. \A p \in 1..n : SoundPacket(seq[p])'
  <2> SUFFICES ASSUME NEW p \in 1..n PROVE SoundPacket(seq[p])'
    OBVIOUS
  <2> PICK x : x = seq[p]
    OBVIOUS
  <2>1. SoundPacket(x)'
    BY <1>1, PacketStays
  <2> QED
    BY <2>1
<1>3. \A p \in 1..n : IF p = 1 THEN ~seq[p].z ELSE Leads(seq[p - 1], seq[p])'
  <2> SUFFICES ASSUME NEW p \in 1..n, p # 1 PROVE Leads(seq[p - 1], seq[p])'
    BY DEF Chain, Position
  <2> PICK x, y : x = seq[p - 1] /\ y = seq[p]
    OBVIOUS
  <2>1. p - 1 \in 1..n
    OBVIOUS
  <2>2. Leads(x, y)
    BY DEF Chain, Position
  <2>3. Leads(x, y)'
    BY <1>1, <2>1, <2>2, PacketStays
  <2> QED
    BY <2>3
<1>4. Chain(seq)'
  BY <1>2, <1>3 DEF Chain, Position
<1>5. seq \in Seq(PacketType')
  <2>1. ElementType \subseteq ElementType'
    BY DEF ElementType, GivenStays
  <2>2. Seq(ElementType) \subseteq Seq(ElementType')
    BY <2>1, SeqMonotone
  <2>3. PacketType \subseteq PacketType'
    BY <2>2 DEF PacketType
  <2> QED
    BY <2>3, SeqMonotone
<1>6. Closed(seq) => Closed(seq)'
  <2> SUFFICES ASSUME seq # <<>>, Closed(seq)
               PROVE  ~seq[n].y /\ Ends(LastElement(seq[n]))'
    BY DEF Closed
  <2> PICK x : x = seq[n]
    OBVIOUS
  <2>1. n \in 1..n
    BY EmptySeq
  <2>2. Ends(LastElement(x))'
    BY <1>1, <2>1, PacketStays DEF Closed
  <2> QED
    BY <2>2 DEF Closed
<1>7. ASSUME NEW k, EndsIn(seq, k) PROVE EndsIn(seq, k)'
  <2>1. PICK p \in Position(seq) : \E i \in Position(seq[p].elems) :
            seq[p].elems[i].obu = k /\ Ends(seq[p].elems[i])
    BY <1>7 DEF EndsIn
  <2>2. PICK i \in Position(seq[p].elems) : seq[p].elems[i].obu = k /\ Ends(seq[p].elems[i])
    BY <2>1
  <2> PICK e : e = seq[p].elems[i]
    OBVIOUS
  <2>3. e \in ElementType
    BY <1>1, PacketFacts DEF Position
  <2>4. Ends(e)'
    BY <2>2, <2>3, ElementStays
  <2>5. Ends(seq[p].elems[i])'
    BY <2>4
  <2> QED
    BY <2>2, <2>5 DEF EndsIn, Position
<1> QED
  BY <1>4, <1>5, <1>6, <1>7

-----------------------------------------------------------------------------
(* What AppendOBUPayload writes.                                           *)

LEMMA OrWType == \A a, b : OrW(a, b) \in 0..3
<1> SUFFICES ASSUME NEW a, NEW b PROVE OrW(a, b) \in 0..3
  OBVIOUS
<1> DEFINE Bit(i) == IF (a \div i) % 2 = 1 \/ (b \div i) % 2 = 1 THEN i ELSE 0
<1>1. OrW(a, b) = Bit(1) + Bit(2)
  BY DEF OrW
<1>2. (Bit(1) = 0 \/ Bit(1) = 1) /\ (Bit(2) = 0 \/ Bit(2) = 2)
  OBVIOUS
<1> HIDE DEF Bit
<1> QED
  BY <1>1, <1>2

\* The sequence differs from seq in its last packet, which is x.
LastIs(t, seq, x) ==
    /\ t \in Seq(PacketType) /\ Len(t) = Len(seq)
    /\ \A p \in 1 .. Len(seq) - 1 : t[p] = seq[p]
    /\ t[Len(seq)] = x

LEMMA LastChanges ==
    ASSUME NEW seq \in Seq(PacketType), seq # <<>>, NEW x \in PacketType
    PROVE  LastIs([seq EXCEPT ![Len(seq)] = x], seq, x)
<1> PICK n \in Nat : n = Len(seq) /\ n > 0
  BY LenProperties, EmptySeq
<1> PICK t : t = [seq EXCEPT ![n] = x]
  OBVIOUS
<1>1. n \in 1..n
  OBVIOUS
<1>2. t \in Seq(PacketType) /\ Len(t) = n
  BY <1>1, ExceptSeq
<1>3. t[n] = x /\ \A p \in 1 .. n - 1 : t[p] = seq[p]
  <2>1. DOMAIN seq = 1..n
    BY LenProperties
  <2>2. \A p \in 1 .. n - 1 : p \in 1..n /\ p # n
    OBVIOUS
  <2> QED
    BY <1>1, <2>1, <2>2
<1> QED
  BY <1>2, <1>3 DEF LastIs

\* x is the packet `old` with one element more.
Longer(x, old, e) ==
    /\ x \in PacketType /\ x.elems = Append(old.elems, e)
    /\ x.z = old.z /\ x.y = old.y /\ x.n = old.n

\* Put adds an element to the last packet and leaves its bits but W.
LEMMA PutShape ==
    ASSUME NEW seq \in Seq(PacketType), seq # <<>>, NEW e \in ElementType, NEW w
    PROVE  \E x : LastIs(Put(seq, e, w), seq, x) /\ Longer(x, seq[Len(seq)], e)
<1> PICK n \in Nat : n = Len(seq) /\ n > 0
  BY LenProperties, EmptySeq
<1> PICK old \in PacketType : old = seq[n]
  BY ElementOfSeq
<1> DEFINE x == [old EXCEPT !.elems = Append(@, e), !.w = OrW(@, w)]
<1>1. Append(old.elems, e) \in Seq(ElementType)
  BY PacketFacts, AppendProperties
<1>2. OrW(old.w, w) \in 0..3
  BY OrWType
<1>3. /\ x \in PacketType
      /\ x.elems = Append(old.elems, e) /\ x.z = old.z /\ x.y = old.y /\ x.n = old.n
  <2> PICK s \in Seq(ElementType) : s = Append(old.elems, e)
    BY <1>1
  <2> PICK v \in 0..3 : v = OrW(old.w, w)
    BY <1>2
  <2> PICK half : half = [old EXCEPT !.elems = s]
    OBVIOUS
  <2>1. /\ half \in PacketType /\ half.elems = s
        /\ half.z = old.z /\ half.y = old.y /\ half.n = old.n
    BY DEF PacketType
  <2> PICK all : all = [half EXCEPT !.w = v]
    OBVIOUS
  <2>2. /\ all \in PacketType /\ all.elems = s
        /\ all.z = half.z /\ all.y = half.y /\ all.n = half.n
    BY <2>1 DEF PacketType
  <2>3. x = all
    OBVIOUS
  <2> QED
    BY <2>1, <2>2, <2>3
<1>4. Put(seq, e, w) = [seq EXCEPT ![n] = x]
  BY DEF Put
<1> HIDE DEF x
<1>5. LastIs(Put(seq, e, w), seq, x)
  BY <1>3, <1>4, LastChanges
<1>6. Longer(x, seq[Len(seq)], e)
  BY <1>3 DEF Longer
<1> QED
  BY <1>5, <1>6

\* x is the packet `new` with one element.
Single(x, new, e) ==
    /\ x \in PacketType /\ x.elems = <<e>>
    /\ x.z = new.z /\ x.y = new.y /\ x.n = new.n

\* The same where the last packet is new.
LEMMA PutNew ==
    ASSUME NEW seq \in Seq(PacketType), NEW new \in PacketType, new.elems = <<>>,
           NEW e \in ElementType, NEW w
    PROVE  \E x : Put(Append(seq, new), e, w) = Append(seq, x) /\ Single(x, new, e)
<1> PICK n \in Nat : n = Len(seq)
  BY LenProperties
<1> PICK base : base = Append(seq, new)
  OBVIOUS
<1>1. /\ base \in Seq(PacketType) /\ Len(base) = n + 1 /\ base[n + 1] = new
      /\ \A p \in 1..n : base[p] = seq[p]
  BY AppendGrows
<1>2. base # <<>>
  BY <1>1
<1>0. PICK x : LastIs(Put(base, e, w), base, x) /\ Longer(x, base[Len(base)], e)
  BY <1>1, <1>2, PutShape
<1>3. /\ x \in PacketType /\ LastIs(Put(base, e, w), base, x)
      /\ x.elems = Append(base[Len(base)].elems, e)
      /\ x.z = base[Len(base)].z /\ x.y = base[Len(base)].y /\ x.n = base[Len(base)].n
  BY <1>0 DEF Longer
<1> PICK t : t = Put(base, e, w)
  OBVIOUS
<1>4. /\ t \in Seq(PacketType) /\ Len(t) = n + 1 /\ t[n + 1] = x
      /\ \A p \in 1..n : t[p] = seq[p]
  BY <1>1, <1>3 DEF LastIs
<1>5. t = Append(seq, x)
  <2>1. /\ Append(seq, x) \in Seq(PacketType) /\ Len(Append(seq, x)) = n + 1
        /\ Append(seq, x)[n + 1] = x /\ \A p \in 1..n : Append(seq, x)[p] = seq[p]
    BY <1>3, AppendGrows
  <2>2. \A p \in 1..(n + 1) : p \in 1..n \/ p = n + 1
    OBVIOUS
  <2> QED
    BY <1>4, <2>1, <2>2, SeqEqual
<1>6. x.elems = <<e>>
  <2>1. base[Len(base)] = new
    BY <1>1
  <2>2. x.elems = Append(<<>>, e)
    BY <1>3, <2>1
  <2> QED
    BY <2>2
<1> QED
  BY <1>1, <1>3, <1>5, <1>6 DEF Single

\* An element of a packet in the sequence.
Holds(seq, e) ==
    \E p \in Position(seq) : \E i \in Position(seq[p].elems) : seq[p].elems[i] = e

\* What the sequence holds says where its OBUs end and which they are.
LEMMA HoldsEnds ==
    ASSUME NEW seq
    PROVE  /\ \A k : EndsIn(seq, k) <=> \E e : Holds(seq, e) /\ e.obu = k /\ Ends(e)
           /\ \A obus : Within(seq, obus) <=> \A e : Holds(seq, e) => e.obu \in obus
<1>1. ASSUME NEW k PROVE EndsIn(seq, k) <=> \E e : Holds(seq, e) /\ e.obu = k /\ Ends(e)
  BY DEF EndsIn, Holds
<1>2. ASSUME NEW obus PROVE Within(seq, obus) <=> \A e : Holds(seq, e) => e.obu \in obus
  BY DEF Within, Holds
<1> QED
  BY <1>1, <1>2

\* t is seq with e behind its last element, in the last packet or in a new one.
Extends(t, seq, e) ==
    /\ t \in Seq(PacketType) /\ Chain(t) /\ t # <<>>
    /\ ~t[Len(t)].y /\ LastElement(t[Len(t)]) = e
    /\ \A f : Holds(t, f) <=> Holds(seq, f) \/ f = e

LEMMA ExtendNew ==
    ASSUME given \in Seq(ObuType), NEW seq \in Seq(PacketType), Chain(seq),
           NEW x \in PacketType, NEW e \in ElementType, SoundElement(e), x.elems = <<e>>,
           x.z <=> e.from # 0, ~x.y, x.n => ~x.z, 1 + ElementSize(e) <= Mtu,
           seq = <<>> => e.from = 0,
           seq # <<>> => /\ Follows(LastElement(seq[Len(seq)]), e)
                         /\ seq[Len(seq)].y <=> ~Ends(LastElement(seq[Len(seq)]))
    PROVE  /\ Extends(Append(seq, x), seq, e)
           /\ StartsRight(seq) /\ (e.from = 0 => (given[e.obu].type = "seq" <=> x.n))
                => StartsRight(Append(seq, x))
<1> PICK n \in Nat : n = Len(seq)
  BY LenProperties
<1> PICK t : t = Append(seq, x)
  OBVIOUS
<1>1. /\ t \in Seq(PacketType) /\ Len(t) = n + 1 /\ t[n + 1] = x
      /\ \A p \in 1..n : t[p] = seq[p]
  BY AppendGrows
<1>2. SoundPacket(x) /\ LastElement(x) = e /\ x.elems[1] = e
  BY SoundOne
<1>3. Len(x.elems) = 1
  OBVIOUS
<1>4. Chain(t)
  <2>1. seq = <<>> => ~x.z
    OBVIOUS
  <2>2. seq # <<>> => Leads(seq[Len(seq)], x)
    BY <1>2 DEF Leads
  <2> QED
    BY <1>2, <2>1, <2>2, ChainAppend
<1>5. n + 1 \in 1..(n + 1) /\ \A p \in 1..(n + 1) : p \in 1..n \/ p = n + 1
  OBVIOUS
<1>6. ASSUME NEW f PROVE Holds(t, f) <=> Holds(seq, f) \/ f = e
  <2>1. ASSUME Holds(t, f) PROVE Holds(seq, f) \/ f = e
    <3>1. PICK p \in 1..(n + 1) : \E i \in 1..Len(t[p].elems) : t[p].elems[i] = f
      BY <1>1, <2>1 DEF Holds, Position
    <3>2. CASE p \in 1..n
      BY <1>1, <3>1, <3>2 DEF Holds, Position
    <3>3. CASE p = n + 1
      <4>1. PICK i \in 1..1 : x.elems[i] = f
        BY <1>1, <1>3, <3>1, <3>3
      <4> QED
        BY <1>2, <4>1
    <3> QED
      BY <1>5, <3>2, <3>3
  <2>2. ASSUME Holds(seq, f) PROVE Holds(t, f)
    <3>1. PICK p \in 1..n : \E i \in 1..Len(seq[p].elems) : seq[p].elems[i] = f
      BY <2>2 DEF Holds, Position
    <3>2. p \in 1..(n + 1) /\ t[p] = seq[p]
      BY <1>1
    <3> QED
      BY <1>1, <3>1, <3>2 DEF Holds, Position
  <2>3. Holds(t, e)
    <3>1. 1 \in 1..1 /\ t[n + 1].elems = x.elems
      BY <1>1
    <3>2. 1 \in 1..Len(t[n + 1].elems) /\ t[n + 1].elems[1] = e
      BY ONLY <3>1, <1>2, <1>3
    <3> QED
      BY <1>1, <1>5, <3>2 DEF Holds, Position
  <2> QED
    BY <2>1, <2>2, <2>3
<1>7. t # <<>> /\ ~t[Len(t)].y /\ LastElement(t[Len(t)]) = e
  BY <1>1, <1>2
<1>8. ASSUME StartsRight(seq), e.from = 0 => (given[e.obu].type = "seq" <=> x.n)
      PROVE  StartsRight(t)
  <2> SUFFICES ASSUME NEW p \in 1..(n + 1), NEW i \in 1..Len(t[p].elems), t[p].elems[i].from = 0
               PROVE  given[t[p].elems[i].obu].type = "seq" <=> i = 1 /\ t[p].n
    BY <1>1 DEF StartsRight, Position
  <2>1. CASE p \in 1..n
    BY <1>1, <1>8, <2>1 DEF StartsRight, Position
  <2>2. CASE p = n + 1
    <3>1. i = 1 /\ t[p] = x /\ t[p].elems[i] = e
      BY <1>1, <1>2, <1>3, <2>2
    <3> QED
      BY <1>8, <3>1
  <2> QED
    BY <1>5, <2>1, <2>2
<1> QED
  BY <1>1, <1>4, <1>6, <1>7, <1>8 DEF Extends

LEMMA ExtendJoin ==
    ASSUME given \in Seq(ObuType), NEW seq \in Seq(PacketType), Chain(seq), seq # <<>>,
           NEW t, NEW x, NEW e \in ElementType, SoundElement(e), e.from = 0,
           LastIs(t, seq, x), Longer(x, seq[Len(seq)], e), ~seq[Len(seq)].y,
           Follows(LastElement(seq[Len(seq)]), e),
           PacketSize(seq[Len(seq)]) + ElementSize(e) <= Mtu
    PROVE  /\ Extends(t, seq, e)
           /\ StartsRight(seq) /\ given[e.obu].type # "seq" => StartsRight(t)
<1> PICK n \in Nat, old \in PacketType : n = Len(seq) /\ n > 0 /\ old = seq[n]
  BY LenProperties, EmptySeq, ElementOfSeq
<1>1. /\ t \in Seq(PacketType) /\ Len(t) = n /\ t[n] = x
      /\ \A p \in 1 .. n - 1 : t[p] = seq[p]
  BY DEF LastIs
<1>2. /\ x \in PacketType /\ x.elems = Append(old.elems, e)
      /\ x.z = old.z /\ x.y = old.y /\ x.n = old.n
  BY DEF Longer
<1>3. SoundPacket(old)
  BY DEF Chain, Position
<1>4. SoundPacket(x) /\ LastElement(x) = e /\ x.elems[1] = old.elems[1]
  BY <1>2, <1>3, SoundMore
<1> PICK m \in Nat : m = Len(old.elems) /\ m >= 1
  BY <1>3, SoundFacts
<1>5. Len(x.elems) = m + 1 /\ x.elems[m + 1] = e /\ \A i \in 1..m : x.elems[i] = old.elems[i]
  BY <1>2, PacketFacts, AppendGrows
<1>6. Chain(t)
  BY <1>1, <1>2, <1>4, ChainLast
<1>7. /\ n \in 1..n /\ \A p \in 1..n : p \in 1..(n - 1) \/ p = n
      /\ m + 1 \in 1..(m + 1) /\ \A i \in 1..(m + 1) : i \in 1..m \/ i = m + 1
      /\ \A i \in 1..m : i \in 1..(m + 1)
  OBVIOUS
<1>8. ASSUME NEW f PROVE Holds(t, f) <=> Holds(seq, f) \/ f = e
  <2>1. ASSUME Holds(t, f) PROVE Holds(seq, f) \/ f = e
    <3>1. PICK p \in 1..n : \E i \in 1..Len(t[p].elems) : t[p].elems[i] = f
      BY <1>1, <2>1 DEF Holds, Position
    <3>2. CASE p \in 1..(n - 1)
      BY <1>1, <3>1, <3>2 DEF Holds, Position
    <3>3. CASE p = n
      <4>1. PICK i \in 1..(m + 1) : x.elems[i] = f
        BY <1>1, <1>5, <3>1, <3>3
      <4>2. CASE i \in 1..m
        <5>1. old.elems[i] = f
          BY <1>5, <4>1, <4>2
        <5> QED
          BY <1>7, <4>2, <5>1 DEF Holds, Position
      <4> QED
        BY <1>5, <1>7, <4>1, <4>2
    <3> QED
      BY <1>7, <3>2, <3>3
  <2>2. ASSUME Holds(seq, f) PROVE Holds(t, f)
    <3>1. PICK p \in 1..n : \E i \in 1..Len(seq[p].elems) : seq[p].elems[i] = f
      BY <2>2 DEF Holds, Position
    <3>2. CASE p \in 1..(n - 1)
      BY <1>1, <3>1, <3>2 DEF Holds, Position
    <3>3. CASE p = n
      <4>1. PICK i \in 1..m : old.elems[i] = f
        BY <3>1, <3>3
      <4>2. i \in 1..Len(t[n].elems) /\ t[n].elems[i] = f
        BY <1>1, <1>5, <1>7, <4>1
      <4> QED
        BY <1>1, <1>7, <4>2 DEF Holds, Position
    <3> QED
      BY <1>7, <3>2, <3>3
  <2>3. Holds(t, e)
    <3>1. m + 1 \in 1..Len(t[n].elems) /\ t[n].elems[m + 1] = e
      BY <1>1, <1>5, <1>7
    <3> QED
      BY <1>1, <1>7, <3>1 DEF Holds, Position
  <2> QED
    BY <2>1, <2>2, <2>3
<1>9. t # <<>> /\ ~t[Len(t)].y /\ LastElement(t[Len(t)]) = e
  BY <1>1, <1>2, <1>4
<1>10. ASSUME StartsRight(seq), given[e.obu].type # "seq" PROVE StartsRight(t)
  <2> SUFFICES ASSUME NEW p \in 1..n, NEW i \in 1..Len(t[p].elems), t[p].elems[i].from = 0
               PROVE  given[t[p].elems[i].obu].type = "seq" <=> i = 1 /\ t[p].n
    BY <1>1 DEF StartsRight, Position
  <2>1. CASE p \in 1..(n - 1)
    BY <1>1, <1>10, <2>1 DEF StartsRight, Position
  <2>2. CASE p = n /\ i \in 1..m
    <3>1. t[p].elems[i] = seq[p].elems[i] /\ t[p].n = seq[p].n
      BY <1>1, <1>2, <1>5, <2>2
    <3> QED
      BY <1>10, <2>2, <3>1 DEF StartsRight, Position
  <2>3. CASE p = n /\ i = m + 1
    <3>1. t[p].elems[i] = e /\ i # 1
      BY <1>1, <1>5, <2>3
    <3> QED
      BY <1>10, <3>1
  <2>4. p = n => i \in 1..(m + 1)
    BY <1>1, <1>5
  <2> QED
    BY <1>7, <2>1, <2>2, <2>3, <2>4
<1> QED
  BY <1>1, <1>6, <1>8, <1>9, <1>10 DEF Extends

\* Setting Y in the last packet.
Marked(seq, y) == [seq EXCEPT ![Len(seq)].y = y]

LEMMA MarkedShape ==
    ASSUME given \in Seq(ObuType), NEW seq \in Seq(PacketType), Chain(seq), seq # <<>>,
           NEW y \in BOOLEAN
    PROVE  /\ Marked(seq, y) \in Seq(PacketType) /\ Chain(Marked(seq, y))
           /\ Marked(seq, y) # <<>> /\ Marked(seq, y)[Len(Marked(seq, y))].y = y
           /\ LastElement(Marked(seq, y)[Len(Marked(seq, y))]) = LastElement(seq[Len(seq)])
           /\ \A f : Holds(Marked(seq, y), f) <=> Holds(seq, f)
           /\ StartsRight(seq) => StartsRight(Marked(seq, y))
<1> PICK n \in Nat, old \in PacketType : n = Len(seq) /\ n > 0 /\ old = seq[n]
  BY LenProperties, EmptySeq, ElementOfSeq
<1> PICK x : x = [old EXCEPT !.y = y]
  OBVIOUS
<1>1. x \in PacketType /\ x.elems = old.elems /\ x.z = old.z /\ x.n = old.n /\ x.y = y
  BY DEF PacketType
<1> PICK t : t = Marked(seq, y)
  OBVIOUS
<1>2. t = [seq EXCEPT ![n] = x]
  BY DEF Marked
<1>3. LastIs(t, seq, x)
  <2>1. LastIs([seq EXCEPT ![Len(seq)] = x], seq, x)
    BY <1>1, LastChanges
  <2> QED
    BY <1>2, <2>1
<1>4. /\ t \in Seq(PacketType) /\ Len(t) = n /\ t[n] = x
      /\ \A p \in 1 .. n - 1 : t[p] = seq[p]
  BY <1>3 DEF LastIs
<1>5. SoundPacket(old)
  BY DEF Chain, Position
<1>6. PacketSize(x) = PacketSize(old)
  BY <1>1 DEF PacketSize
<1>7. SoundPacket(x)
  BY <1>1, <1>5, <1>6 DEF SoundPacket
<1>8. Chain(t)
  BY <1>1, <1>4, <1>7, ChainLast
<1>9. \A p \in 1..n : t[p].elems = seq[p].elems /\ t[p].n = seq[p].n
  <2>1. \A p \in 1..n : p \in 1 .. n - 1 \/ p = n
    OBVIOUS
  <2> QED
    BY <1>1, <1>4, <2>1
<1>10. \A f : Holds(t, f) <=> Holds(seq, f)
  <2>1. Position(t) = 1..n /\ Position(seq) = 1..n
    BY <1>4 DEF Position
  <2>2. \A p \in 1..n : Position(t[p].elems) = Position(seq[p].elems)
    BY <1>9 DEF Position
  <2> QED
    BY <1>9, <2>1, <2>2 DEF Holds
<1>11. StartsRight(seq) => StartsRight(t)
  BY <1>4, <1>9 DEF StartsRight, Position
<1>12. LastElement(x) = LastElement(old)
  BY <1>1 DEF LastElement
<1> QED
  BY <1>1, <1>4, <1>8, <1>10, <1>11, <1>12

\* So many bytes find room, behind a length field or without one.
HasRoom(sized, cut, free) ==
    /\ sized => LebSize(cut) + cut <= free
    /\ ~sized => cut <= free

\* A cut of what is left of an OBU fits the room there is, length field included.
LEMMA CutFits ==
    ASSUME NEW len \in Nat, len >= 1, NEW free \in Nat, free >= 1, NEW sized \in BOOLEAN,
           sized => free >= 2, NEW cut,
           cut = IF sized THEN ComputeWriteSize(AtMost(len, free), free) ELSE AtMost(len, free)
    PROVE  cut \in 1..len /\ HasRoom(sized, cut, free)
<1> PICK room \in Nat : room = AtMost(len, free) /\ 1 <= room /\ room <= len /\ room <= free
  BY DEF AtMost
<1>1. CASE sized
  <2>1. cut = ComputeWriteSize(room, free) /\ free >= 2
    BY <1>1
  <2>2. cut \in 0..room /\ cut > 0 /\ LebSize(cut) + cut <= free
    BY <2>1, WriteSize
  <2> QED
    BY <1>1, <2>2 DEF HasRoom
<1>2. CASE ~sized
  <2>1. cut = room
    BY <1>2
  <2> QED
    BY <1>2, <2>1 DEF HasRoom
<1> QED
  BY <1>1, <1>2

LEMMA CutElement ==
    ASSUME given \in Seq(ObuType), NEW k \in 1..Len(given), ~SkippedObu(given[k]),
           NEW a \in Nat, NEW cut \in Nat, cut >= 1, a + cut <= ObuLen(given[k]),
           NEW sized \in BOOLEAN, NEW free \in Nat,
           HasRoom(sized, cut, free),
           NEW e, e = Element(k, a, a + cut, sized)
    PROVE  /\ e \in ElementType /\ SoundElement(e) /\ ElementSize(e) \in Nat
           /\ ElementSize(e) <= free /\ e.obu = k /\ e.from = a /\ e.to = a + cut
<1>1. e.obu = k /\ e.from = a /\ e.to = a + cut /\ e.sized = sized
  BY DEF Element
<1>2. a + cut \in Nat /\ a < a + cut /\ a <= a + cut /\ (a + cut) - a = cut
  OBVIOUS
<1>3. e \in ElementType
  BY <1>2 DEF Element, ElementType
<1>4. SoundElement(e)
  BY <1>1, <1>2 DEF SoundElement
<1>5. ElementSize(e) = IF sized THEN LebSize(cut) + cut ELSE cut
  BY <1>1, <1>2 DEF ElementSize
<1>6. ElementSize(e) \in Nat
  BY <1>1, <1>2, ElementSizeType
<1>7. ElementSize(e) <= free
  BY <1>5 DEF HasRoom
<1> QED
  BY <1>1, <1>3, <1>4, <1>6, <1>7

LEMMA NewPacketIs ==
    ASSUME NEW n \in BOOLEAN, NEW z \in BOOLEAN,
           NEW x, x = [NewPacket(n) EXCEPT !.z = z]
    PROVE  /\ x \in PacketType /\ NewPacket(n) \in PacketType
           /\ x.elems = <<>> /\ x.z = z /\ ~x.y /\ x.n = n
           /\ NewPacket(n).elems = <<>> /\ ~NewPacket(n).z /\ ~NewPacket(n).y
           /\ NewPacket(n).n = n
<1>1. <<>> \in Seq(ElementType)
  OBVIOUS
<1> PICK none \in Seq(ElementType) : none = <<>>
  BY <1>1
<1>2. NewPacket(n) = [z |-> FALSE, y |-> FALSE, w |-> 0, n |-> n, elems |-> none]
  BY DEF NewPacket
<1>3. 0 \in 0..3
  OBVIOUS
<1> PICK r : r = NewPacket(n)
  OBVIOUS
<1>4. /\ r \in PacketType
      /\ r.elems = none /\ r.z = FALSE /\ r.y = FALSE /\ r.n = n
  BY <1>2, <1>3 DEF PacketType
<1>5. x = [r EXCEPT !.z = z]
  OBVIOUS
<1>6. /\ x \in PacketType
      /\ x.elems = r.elems /\ x.z = z /\ x.y = r.y /\ x.n = r.n
  BY <1>4, <1>5 DEF PacketType
<1> QED
  BY <1>4, <1>6

\* The pending OBU is a whole one to be sent.
LEMMA PendingFacts ==
    ASSUME SenderTypeOK, CallInv, pc \in {"append", "fragment"}
    PROVE  /\ pending \in 1..Len(given) /\ pending = cur /\ pending > call
           /\ ~SkippedObu(given[pending])
           /\ PendingLen \in Nat /\ PendingLen >= 1
<1>1. /\ given \in Seq(ObuType) /\ pending \in 0..cur /\ cur \in 0..Len(given)
      /\ Len(given) \in Nat
  BY LenProperties DEF SenderTypeOK
<1>2. pc # "idle" /\ pending # 0
  BY DEF CallInv
<1>3. pending = cur /\ pending > call /\ ~SkippedObu(given[pending])
  BY <1>2 DEF CallInv
<1>4. pending \in 1..Len(given)
  BY <1>1, <1>2
<1> QED
  BY <1>1, <1>3, <1>4, ObuFacts DEF PendingLen

(***************************************************************************)
(* The write of AppendOBUPayload and that of its loop: e is the pending    *)
(* OBU from where it stands up to where it is then, behind what is there.  *)
(***************************************************************************)
Writes(e, from, to) ==
    /\ e \in ElementType /\ SoundElement(e)
    /\ e.obu = pending /\ e.from = from /\ e.to = to
    /\ to \in Nat /\ from < to /\ to <= PendingLen

LEMMA AppendWrites ==
    ASSUME Mtu >= 3, SenderInv, AppendOBUPayload
    PROVE  /\ to_write' = written' /\ obus_in_packet' \in Nat
           /\ \/ written' = 0 /\ out_packets' = out_packets /\ ~Opens
              \/ \E e : /\ Writes(e, 0, written')
                        /\ Extends(out_packets', out_packets, e)
                        /\ /\ StartsRight(out_packets)
                           /\ given[pending].type = "seq" <=> new_sequence
                           /\ given[pending].type = "seq" => Opens
                           => StartsRight(out_packets')
<1> USE DEF SenderInv
<1>0. Mtu \in Nat
  BY MtuAssumption
<1>1. /\ given \in Seq(ObuType) /\ out_packets \in Seq(PacketType)
      /\ new_sequence \in BOOLEAN /\ need_new_packet \in BOOLEAN
      /\ start_with_new_packet \in BOOLEAN /\ obus_in_packet \in Nat
      /\ pc = "append" /\ pc # "idle" /\ Chain(out_packets)
  BY DEF SenderTypeOK, AppendOBUPayload
<1> PICK k, len : k = pending /\ len = PendingLen
  OBVIOUS
<1>2. /\ k \in 1..Len(given) /\ ~SkippedObu(given[k]) /\ len \in Nat /\ len >= 1
      /\ len = ObuLen(given[k])
  BY <1>1, PendingFacts DEF PendingLen
<1>3. ~(pc = "fragment") /\ ~Inside
  BY <1>1 DEF Inside
<1> PICK new : new = NewPacket(new_sequence)
  OBVIOUS
<1>4. /\ new \in PacketType /\ new.elems = <<>> /\ ~new.z /\ ~new.y /\ new.n = new_sequence
  BY <1>1, NewPacketIs
<1>5. PacketSize(new) = 1
  BY <1>4, PacketSizeNone
<1> DEFINE need == NeedsPacket
           base == IF need THEN Append(out_packets, new) ELSE out_packets
           count == IF need THEN 0 ELSE obus_in_packet
           free == Mtu - PacketSize(Last(base))
           room == AtMost(len, free)
           uses == UsesW(room, free, count)
           fits == FitsLength(free)
           cut == IF uses THEN room ELSE IF fits THEN ComputeWriteSize(room, free) ELSE 0
<1>6. /\ to_write' = cut /\ written' = cut
      /\ \/ /\ uses
            /\ out_packets' = Put(base, Element(k, 0, cut, FALSE), (count + 1) % 4)
            /\ obus_in_packet' = 0
         \/ /\ ~uses /\ fits
            /\ out_packets' = Put(base, Element(k, 0, cut, TRUE), 0)
            /\ obus_in_packet' = count + 1
         \/ /\ ~uses /\ ~fits
            /\ out_packets' = base
            /\ obus_in_packet' = count
  BY DEF AppendOBUPayload
<1>7. count \in Nat
  BY <1>1
<1>8. need \in BOOLEAN
  BY DEF NeedsPacket
<1>9. /\ need => base = Append(out_packets, new) /\ free = Mtu - 1
      /\ ~need => /\ base = out_packets /\ out_packets # <<>>
                  /\ PacketSize(out_packets[Len(out_packets)]) \in Nat
                  /\ PacketSize(out_packets[Len(out_packets)]) < Mtu
                  /\ free = Mtu - PacketSize(out_packets[Len(out_packets)])
  <2>1. CASE need
    <3>1. base = Append(out_packets, new)
      BY <2>1
    <3>2. Last(base) = new
      BY <1>1, <1>4, <3>1, AppendGrows DEF Last
    <3> QED
      BY <1>5, <2>1, <3>1, <3>2
  <2>2. CASE ~need
    <3>1. base = out_packets /\ out_packets # <<>> /\ Last(base) = out_packets[Len(out_packets)]
      BY <2>2 DEF NeedsPacket, Last
    <3>2. ~(PacketSize(out_packets[Len(out_packets)]) >= Mtu)
      BY <2>2 DEF NeedsPacket, Last
    <3>3. Len(out_packets) \in 1..Len(out_packets)
      BY <1>1, <3>1, LenProperties, EmptySeq
    <3>4. /\ out_packets[Len(out_packets)] \in PacketType
          /\ SoundPacket(out_packets[Len(out_packets)])
      BY <1>1, <3>3, ElementOfSeq DEF Chain, Position
    <3>5. PacketSize(out_packets[Len(out_packets)]) \in Nat
      BY <1>1, <3>4, SoundFacts
    <3> QED
      BY <1>0, <2>2, <3>1, <3>2, <3>5
  <2> QED
    BY <2>1, <2>2
<1>10. free \in Nat /\ free >= 1 /\ (need => free >= 2)
  BY <1>0, <1>9
<1> HIDE DEF need, base, count, free
<1>11. ~uses /\ ~fits => ~need /\ cut = 0
  BY <1>10 DEF FitsLength
<1>12. CASE ~uses /\ ~fits
  <2>1. written' = 0 /\ out_packets' = out_packets /\ obus_in_packet' = count /\ to_write' = written'
    BY <1>6, <1>9, <1>11, <1>12
  <2>2. ~Opens
    BY <1>11, <1>12 DEF need, NeedsPacket, Opens
  <2> QED
    BY <1>7, <2>1, <2>2
<1>13. CASE uses \/ fits
  <2> PICK b \in BOOLEAN : b <=> ~uses
    OBVIOUS
  <2>1. b => fits /\ free >= 2
    BY <1>10, <1>13 DEF FitsLength
  <2>3. cut = IF b THEN ComputeWriteSize(AtMost(len, free), free) ELSE AtMost(len, free)
    BY <1>13
  <2> PICK c : c = cut
    OBVIOUS
  <2>4. PICK w :
           out_packets' = Put(base, Element(k, 0, c, b), w) /\ obus_in_packet' \in Nat
    <3>1. CASE uses
      <4>1. b = FALSE /\ obus_in_packet' \in Nat
        BY <1>6, <3>1
      <4>2. out_packets' = Put(base, Element(k, 0, c, FALSE), (count + 1) % 4)
        BY <1>6, <3>1
      <4> QED
        BY ONLY <4>1, <4>2
    <3>2. CASE ~uses
      <4>1. b = TRUE /\ count + 1 \in Nat
        BY <1>7, <3>2
      <4>2. out_packets' = Put(base, Element(k, 0, c, TRUE), 0) /\ obus_in_packet' = count + 1
        BY <1>6, <1>13, <3>2
      <4> QED
        BY ONLY <4>1, <4>2
    <3> QED
      BY <3>1, <3>2
  <2>5. to_write' = c /\ written' = c
    BY <1>6
  <2> HIDE DEF room, uses, fits, cut
  <2>6. /\ c \in 1..len
        /\ HasRoom(b, c, free)
    <3>1. c = IF b THEN ComputeWriteSize(AtMost(len, free), free) ELSE AtMost(len, free)
      BY <2>3
    <3>2. b => free >= 2
      BY <2>1
    <3> QED
      BY <1>2, <1>10, <3>1, <3>2, CutFits
  <2>7. c \in Nat /\ c >= 1 /\ c <= len /\ 0 + c = c /\ 0 \in Nat
    BY <1>2, <2>6
  <2> PICK e : e = Element(k, 0, c, b)
    OBVIOUS
  <2>8. /\ e \in ElementType /\ SoundElement(e) /\ ElementSize(e) \in Nat
        /\ ElementSize(e) <= free /\ e.obu = k /\ e.from = 0 /\ e.to = c
    <3>1. e = Element(k, 0, 0 + c, b) /\ 0 + c <= ObuLen(given[k])
      BY <1>2, <2>7
    <3>2. /\ e \in ElementType /\ SoundElement(e) /\ ElementSize(e) \in Nat
          /\ ElementSize(e) <= free /\ e.obu = k /\ e.from = 0 /\ e.to = 0 + c
      BY <1>1, <1>2, <1>10, <2>6, <2>7, <3>1, CutElement
    <3> QED
      BY <2>7, <3>2
  <2>9. Writes(e, 0, c)
    BY <1>2, <2>7, <2>8 DEF Writes
  <2>10. out_packets # <<>> =>
            /\ ~out_packets[Len(out_packets)].y
            /\ Ends(LastElement(out_packets[Len(out_packets)]))
            /\ Follows(LastElement(out_packets[Len(out_packets)]), e)
    <3> SUFFICES ASSUME out_packets # <<>>
                 PROVE  /\ ~out_packets[Len(out_packets)].y
                        /\ Ends(LastElement(out_packets[Len(out_packets)]))
                        /\ Follows(LastElement(out_packets[Len(out_packets)]), e)
      OBVIOUS
    <3> PICK f : f = LastElement(out_packets[Len(out_packets)])
      OBVIOUS
    <3>1. ~out_packets[Len(out_packets)].y /\ Ends(f) /\ (pending # 0 => f.obu < pending)
      BY <1>1, <1>3 DEF OutInv
    <3>2. Len(out_packets) \in 1..Len(out_packets)
      BY <1>1, LenProperties, EmptySeq
    <3>3. /\ out_packets[Len(out_packets)] \in PacketType
          /\ SoundPacket(out_packets[Len(out_packets)])
      BY <1>1, <3>2, ElementOfSeq DEF Chain, Position
    <3>4. f \in ElementType
      BY <1>1, <3>3, SoundFacts
    <3>5. f.obu \in 1..Len(given) /\ k # 0 /\ k \in Nat
      BY <1>1, <1>2, <3>4, LenProperties DEF ElementType
    <3>6. k > f.obu
      BY <3>1, <3>5
    <3> QED
      BY <2>8, <3>1, <3>6 DEF Follows
  <2>11. CASE need
    <3>1. PICK x \in PacketType :
             /\ out_packets' = Append(out_packets, x)
             /\ x.elems = <<e>> /\ x.z = new.z /\ x.y = new.y /\ x.n = new.n
      <4>1. out_packets' = Put(Append(out_packets, new), e, w)
        BY <1>9, <2>4, <2>11
      <4> PICK seq \in Seq(PacketType) : seq = out_packets
        BY <1>1
      <4>2. PICK x : Put(Append(seq, new), e, w) = Append(seq, x) /\ Single(x, new, e)
        BY <1>4, <2>8, PutNew
      <4>3. out_packets' = Append(out_packets, x)
        BY <4>1, <4>2
      <4> QED
        BY <4>2, <4>3 DEF Single
    <3>2. 1 + ElementSize(e) <= Mtu
      BY <1>0, <1>9, <2>8, <2>11
    <3>3. /\ x.z <=> e.from # 0
          /\ ~x.y /\ (x.n => ~x.z)
          /\ out_packets = <<>> => e.from = 0
          /\ out_packets # <<>> =>
                /\ Follows(LastElement(out_packets[Len(out_packets)]), e)
                /\ out_packets[Len(out_packets)].y
                      <=> ~Ends(LastElement(out_packets[Len(out_packets)]))
      BY <1>4, <2>8, <2>10, <3>1
    <3>4. /\ Extends(Append(out_packets, x), out_packets, e)
          /\ StartsRight(out_packets)
             /\ (e.from = 0 => (given[e.obu].type = "seq" <=> x.n))
                => StartsRight(Append(out_packets, x))
      BY <1>1, <2>8, <3>1, <3>2, <3>3, ExtendNew
    <3>5. x.n = new_sequence /\ e.obu = pending
      BY <1>4, <2>8, <3>1
    <3>6. StartsRight(out_packets) /\ (given[pending].type = "seq" <=> new_sequence)
             => StartsRight(out_packets')
      BY <3>1, <3>4, <3>5
    <3> QED
      BY <2>4, <2>5, <2>9, <3>1, <3>4, <3>6
  <2>12. CASE ~need
    <3>1. out_packets # <<>> /\ out_packets' = Put(out_packets, e, w)
      BY <1>9, <2>4, <2>12
    <3>2. PICK x : /\ LastIs(out_packets', out_packets, x)
                   /\ Longer(x, out_packets[Len(out_packets)], e)
      BY <1>1, <2>8, <3>1, PutShape
    <3>3. PacketSize(out_packets[Len(out_packets)]) + ElementSize(e) <= Mtu
      BY <1>0, <1>9, <2>8, <2>12
    <3> PICK t : t = out_packets'
      OBVIOUS
    <3>4. /\ Extends(t, out_packets, e)
          /\ StartsRight(out_packets) /\ given[e.obu].type # "seq" => StartsRight(t)
      BY <1>1, <2>8, <2>10, <3>1, <3>2, <3>3, ExtendJoin
    <3>5. ~Opens /\ e.obu = pending
      BY <2>8, <2>12 DEF need, NeedsPacket, Opens
    <3>6. /\ StartsRight(out_packets) /\ (given[pending].type = "seq" => Opens)
             => StartsRight(t)
      BY <3>4, <3>5
    <3> QED
      BY <2>4, <2>5, <2>9, <3>4, <3>6
  <2> QED
    BY <2>11, <2>12
<1> QED
  BY <1>12, <1>13

LEMMA FragmentWrites ==
    ASSUME Mtu >= 3, SenderInv, Fragment
    PROVE  \E e : /\ Writes(e, written, written')
                  /\ to_write' = e.to - e.from
                  /\ Extends(out_packets', out_packets, e)
                  /\ StartsRight(out_packets) /\ (written = 0 => given[pending].type # "seq")
                        => StartsRight(out_packets')
<1> USE DEF SenderInv
<1>0. Mtu \in Nat /\ Mtu - 1 \in Nat /\ Mtu - 1 >= 2
  BY MtuAssumption
<1>1. /\ given \in Seq(ObuType) /\ out_packets \in Seq(PacketType)
      /\ need_new_packet \in BOOLEAN /\ pc = "fragment" /\ pc # "idle"
      /\ written \in 0..PendingLen /\ written < PendingLen /\ to_write \in Nat
      /\ Chain(out_packets)
  BY DEF SenderTypeOK, Fragment
<1> PICK k, len : k = pending /\ len = PendingLen
  OBVIOUS
<1>2. /\ k \in 1..Len(given) /\ ~SkippedObu(given[k]) /\ len \in Nat /\ len >= 1
      /\ len = ObuLen(given[k])
  BY <1>1, PendingFacts DEF PendingLen
<1>3. out_packets # <<>> /\ (to_write = 0 <=> written = 0)
  BY <1>1 DEF CallInv
<1> PICK from \in Nat : from = written /\ from < len
  BY <1>1, <1>2
<1> PICK goes \in BOOLEAN : goes <=> from # 0
  OBVIOUS
<1>4. ContinuesPrevious = goes
  BY <1>3 DEF ContinuesPrevious
<1> PICK last : last = LastElement(out_packets[Len(out_packets)])
  OBVIOUS
<1>5. /\ ~out_packets[Len(out_packets)].y
      /\ IF from > 0 THEN last.obu = k /\ last.to = from
         ELSE Ends(last) /\ last.obu < k
  <2>1. Inside <=> from > 0
    BY <1>1 DEF Inside
  <2>2. k # 0
    BY <1>2
  <2> QED
    BY <1>1, <1>3, <2>1, <2>2 DEF OutInv
<1>6. Len(out_packets) \in 1..Len(out_packets)
  BY <1>1, <1>3, LenProperties, EmptySeq
<1>7. last \in ElementType
  <2>1. /\ out_packets[Len(out_packets)] \in PacketType
        /\ SoundPacket(out_packets[Len(out_packets)])
    BY <1>1, <1>6, ElementOfSeq DEF Chain, Position
  <2> QED
    BY <1>1, <2>1, SoundFacts
<1> DEFINE remaining == len - from
           room == FragmentRoom(remaining)
           uses == need_new_packet \/ remaining <= Mtu - 1
           cut == IF uses THEN room ELSE ComputeWriteSize(room, Mtu - 1)
<1> PICK seq : seq = Marked(out_packets, goes)
  OBVIOUS
<1> PICK new : new = [NewPacket(FALSE) EXCEPT !.z = goes]
  OBVIOUS
<1>8. NextFragmentPacket(out_packets) = Append(seq, new)
  <2>1. out_packets[Len(out_packets)] \in PacketType /\ DOMAIN out_packets = 1..Len(out_packets)
    BY <1>1, <1>6, ElementOfSeq, LenProperties
  <2>2. out_packets[Len(out_packets)].y = FALSE
    BY <1>5, <2>1, PacketFacts
  <2>3. [out_packets EXCEPT ![Len(out_packets)].y = @ \/ goes] = Marked(out_packets, goes)
    <3>1. (out_packets[Len(out_packets)].y \/ goes) = goes
      BY <2>2
    <3> QED
      BY <3>1 DEF Marked
  <2> QED
    BY <1>4, <2>3 DEF NextFragmentPacket
<1>9. /\ seq \in Seq(PacketType) /\ Chain(seq) /\ seq # <<>> /\ seq[Len(seq)].y = goes
      /\ LastElement(seq[Len(seq)]) = last
      /\ \A f : Holds(seq, f) <=> Holds(out_packets, f)
      /\ StartsRight(out_packets) => StartsRight(seq)
  BY <1>1, <1>3, MarkedShape
<1>10. /\ new \in PacketType /\ new.elems = <<>> /\ new.z = goes /\ ~new.y /\ new.n = FALSE
  BY NewPacketIs
<1> PICK b \in BOOLEAN : b <=> ~uses
  OBVIOUS
<1> PICK c : c = cut
  OBVIOUS
<1>11. /\ out_packets' = Put(Append(seq, new), Element(k, from, from + c, b), IF uses THEN 1 ELSE 0)
       /\ to_write' = c /\ written' = from + c
  <2>1. b = ~uses
    OBVIOUS
  <2> QED
    BY <1>8, <2>1 DEF Fragment
<1>12. c = IF b THEN ComputeWriteSize(AtMost(remaining, Mtu - 1), Mtu - 1)
           ELSE AtMost(remaining, Mtu - 1)
  BY DEF FragmentRoom
<1> PICK w : w = IF uses THEN 1 ELSE 0
  OBVIOUS
<1> HIDE DEF room, uses, cut
<1>13. remaining \in Nat /\ remaining >= 1 /\ from + remaining = len
  BY <1>2
<1> HIDE DEF remaining
<1>14. /\ c \in 1..remaining
       /\ HasRoom(b, c, Mtu - 1)
  <2> PICK free \in Nat : free = Mtu - 1 /\ free >= 1 /\ free >= 2
    BY <1>0
  <2>1. c = IF b THEN ComputeWriteSize(AtMost(remaining, free), free) ELSE AtMost(remaining, free)
    BY <1>12
  <2> QED
    BY <1>13, <2>1, CutFits
<1>15. c \in Nat /\ c >= 1 /\ from + c <= len /\ from + c \in Nat /\ from < from + c
  BY <1>13, <1>14
<1> PICK e : e = Element(k, from, from + c, b)
  OBVIOUS
<1>16. /\ e \in ElementType /\ SoundElement(e) /\ ElementSize(e) \in Nat
       /\ ElementSize(e) <= Mtu - 1 /\ e.obu = k /\ e.from = from /\ e.to = from + c
  <2> PICK free \in Nat : free = Mtu - 1
    BY <1>0
  <2>1. /\ HasRoom(b, c, free)
        /\ from + c <= ObuLen(given[k])
    BY <1>2, <1>14, <1>15
  <2>2. /\ e \in ElementType /\ SoundElement(e) /\ ElementSize(e) \in Nat
        /\ ElementSize(e) <= free /\ e.obu = k /\ e.from = from /\ e.to = from + c
    <3>1. /\ given \in Seq(ObuType) /\ k \in 1..Len(given) /\ ~SkippedObu(given[k])
          /\ from \in Nat /\ c \in Nat /\ c >= 1 /\ from + c <= ObuLen(given[k])
          /\ b \in BOOLEAN /\ free \in Nat
          /\ HasRoom(b, c, free)
          /\ e = Element(k, from, from + c, b)
      BY <1>1, <1>2, <1>15, <2>1
    <3> QED
      BY ONLY <3>1, CutElement
  <2> QED
    BY <2>2
<1>17. Writes(e, from, from + c) /\ e.to - e.from = c
  <2>1. from + c <= PendingLen /\ k = pending
    BY <1>15
  <2>2. e.to - e.from = c
    BY <1>15, <1>16
  <2> QED
    BY <1>15, <1>16, <2>1, <2>2 DEF Writes
<1>18. PICK x : out_packets' = Append(seq, x) /\ Single(x, new, e)
  <2>1. out_packets' = Put(Append(seq, new), e, w)
    BY <1>11
  <2>2. seq \in Seq(PacketType) /\ new \in PacketType /\ new.elems = <<>> /\ e \in ElementType
    BY <1>9, <1>10, <1>16
  <2>3. PICK x : Put(Append(seq, new), e, w) = Append(seq, x) /\ Single(x, new, e)
    BY ONLY <2>2, PutNew
  <2> QED
    BY <2>1, <2>3
<1>19. /\ x \in PacketType /\ x.elems = <<e>> /\ x.z = goes /\ ~x.y /\ x.n = FALSE
  BY <1>10, <1>18 DEF Single
<1>20. 1 + ElementSize(e) <= Mtu
  BY <1>0, <1>16
<1>21. Follows(last, e) /\ (goes <=> ~Ends(last))
  <2>1. CASE from > 0
    <3>1. last.obu = k /\ last.to = from
      BY <1>5, <2>1
    <3>2. ~Ends(last)
      BY <1>2, <3>1 DEF Ends
    <3> QED
      BY <1>16, <2>1, <3>1, <3>2 DEF Follows
  <2>2. CASE ~(from > 0)
    <3>1. Ends(last) /\ last.obu < k /\ from = 0
      BY <1>5, <2>2
    <3>2. last.obu \in Nat /\ k \in Nat
      BY <1>2, <1>7 DEF ElementType
    <3>3. e.obu > last.obu
      BY <1>16, <3>1, <3>2
    <3> QED
      BY <1>16, <3>1, <3>3 DEF Follows
  <2> QED
    BY <2>1, <2>2
<1>22. /\ Extends(Append(seq, x), seq, e)
       /\ StartsRight(seq) /\ (e.from = 0 => (given[e.obu].type = "seq" <=> x.n))
             => StartsRight(Append(seq, x))
  <2>1. /\ x.z <=> e.from # 0
        /\ ~x.y /\ (x.n => ~x.z)
        /\ seq = <<>> => e.from = 0
        /\ seq # <<>> => /\ Follows(LastElement(seq[Len(seq)]), e)
                         /\ seq[Len(seq)].y <=> ~Ends(LastElement(seq[Len(seq)]))
    BY <1>9, <1>16, <1>19, <1>21
  <2> QED
    BY <1>1, <1>9, <1>16, <1>19, <1>20, <2>1, ExtendNew
<1>23. Extends(out_packets', out_packets, e)
  BY <1>9, <1>18, <1>22 DEF Extends
<1>24. StartsRight(out_packets) /\ (from = 0 => given[k].type # "seq")
         => StartsRight(out_packets')
  BY <1>9, <1>16, <1>18, <1>19, <1>22
<1> QED
  BY <1>11, <1>17, <1>23, <1>24

-----------------------------------------------------------------------------
(* The sender's steps.                                                     *)

\* The OBUs handed over stay; what was said of sequences of packets stays true.
LEMMA GivenSame ==
    ASSUME SenderTypeOK, given' = given
    PROVE  GivenStays /\ ElementType' = ElementType /\ PacketType' = PacketType
<1>1. given \in Seq(ObuType) /\ Len(given) \in Nat
  BY LenProperties DEF SenderTypeOK
<1>2. ElementType' = ElementType
  BY DEF ElementType
<1> QED
  BY <1>1, <1>2 DEF GivenStays, PacketType

LEMMA PacketsStay ==
    ASSUME SenderInv, GivenStays, packets' = packets
    PROVE  /\ packets' \in Seq(PacketType') /\ Chain(packets)' /\ Closed(packets)'
           /\ \A k : EndsIn(packets, k) => EndsIn(packets, k)'
<1> PICK s : s = packets
  OBVIOUS
<1>1. s \in Seq(PacketType) /\ Chain(s) /\ Closed(s)
  BY DEF SenderInv, SenderTypeOK
<1>2. /\ Chain(s)' /\ s \in Seq(PacketType') /\ Closed(s)'
      /\ \A k : EndsIn(s, k) => EndsIn(s, k)'
  BY <1>1, ChainStays
<1> QED
  BY <1>2

\* A step within a call leaves what earlier calls handed over.
LEMMA SameCall ==
    ASSUME SenderInv, given' = given, call' = call, refused' = refused, packets' = packets,
           pc # "idle", pc' # "idle"
    PROVE  /\ GivenStays /\ ElementType' = ElementType /\ PacketType' = PacketType
           /\ packets' \in Seq(PacketType') /\ Chain(packets)' /\ Closed(packets)'
           /\ CarriedBefore'
<1>1. GivenStays /\ ElementType' = ElementType /\ PacketType' = PacketType
  BY GivenSame DEF SenderInv
<1>2. /\ packets' \in Seq(PacketType') /\ Chain(packets)' /\ Closed(packets)'
      /\ \A k : EndsIn(packets, k) => EndsIn(packets, k)'
  BY <1>1, PacketsStay
<1>3. Finished' = Finished
  BY DEF Finished
<1>4. \A k : Kept(k)' <=> Kept(k)
  BY DEF Kept, SkippedObu
<1>5. Within(packets, 1..Finished \ refused)'
  BY <1>3 DEF SenderInv, CarriedBefore, Within, Position
<1>6. CarriedBefore'
  BY <1>2, <1>3, <1>4, <1>5 DEF SenderInv, CarriedBefore
<1> QED
  BY <1>1, <1>2, <1>6

\* A step that leaves what this call has made so far, too.
LEMMA SameOut ==
    ASSUME SenderInv, given' = given, call' = call, refused' = refused, packets' = packets,
           out_packets' = out_packets, pc # "idle", pc' # "idle"
    PROVE  /\ out_packets' \in Seq(PacketType') /\ Chain(out_packets)'
           /\ \A k : EndsIn(out_packets, k) => EndsIn(out_packets, k)'
           /\ out_packets # <<>> =>
                 /\ LastElement(out_packets[Len(out_packets)]) \in ElementType
                 /\ Ends(LastElement(out_packets[Len(out_packets)]))'
                       <=> Ends(LastElement(out_packets[Len(out_packets)]))
<1> PICK s : s = out_packets
  OBVIOUS
<1>1. s \in Seq(PacketType) /\ Chain(s)
  BY DEF SenderInv, SenderTypeOK
<1>2. GivenStays
  BY SameCall
<1>3. /\ Chain(s)' /\ s \in Seq(PacketType')
      /\ \A k : EndsIn(s, k) => EndsIn(s, k)'
  BY <1>1, <1>2, ChainStays
<1>4. ASSUME s # <<>>
      PROVE  /\ LastElement(s[Len(s)]) \in ElementType
             /\ Ends(LastElement(s[Len(s)]))' <=> Ends(LastElement(s[Len(s)]))
  <2> PICK x : x = s[Len(s)]
    OBVIOUS
  <2>1. Len(s) \in 1..Len(s)
    BY <1>1, <1>4, LenProperties, EmptySeq
  <2>2. x \in PacketType /\ SoundPacket(x)
    BY <1>1, <2>1, ElementOfSeq DEF Chain, Position
  <2>3. LastElement(x) \in ElementType /\ (Ends(LastElement(x))' <=> Ends(LastElement(x)))
    BY <1>2, <2>2, PacketStays
  <2> QED
    BY <2>3
<1> QED
  BY <1>3, <1>4

\* Numbers of the state.
LEMMA CallFacts ==
    ASSUME SenderTypeOK
    PROVE  /\ given \in Seq(ObuType) /\ Len(given) \in Nat
           /\ cur \in Nat /\ cur <= Len(given) /\ call \in Nat /\ call <= Len(given)
           /\ pending \in Nat /\ pending <= cur
           /\ need_new_packet \in BOOLEAN /\ new_sequence \in BOOLEAN
           /\ start_with_new_packet \in BOOLEAN
BY LenProperties DEF SenderTypeOK

LEMMA ScanStep ==
    ASSUME SenderInv, Scan PROVE SenderInv'
<1>1. /\ given' = given /\ call' = call /\ cur' = cur /\ refused' = refused
      /\ pending' = pending /\ out_packets' = out_packets /\ packets' = packets
      /\ obus_in_packet' = obus_in_packet /\ to_write' = to_write /\ written' = written
      /\ new_sequence' = new_sequence /\ start_with_new_packet' = start_with_new_packet
      /\ pc = "scan" /\ cur < Len(given)
      /\ pc' = IF pending # 0 THEN "append" ELSE "take"
      /\ need_new_packet' = StartsPacket(Scanned)
      /\ current_packet_obu_header' =
            IF Scanned.layer # 0 THEN Scanned.layer ELSE current_packet_obu_header
  BY DEF Scan, writeVars
<1>2. pc # "idle" /\ pc' # "idle" /\ pc' # "fragment" /\ pc # "fragment" /\ pc' \in {"append", "take"}
  BY <1>1
<1>3. /\ GivenStays /\ ElementType' = ElementType /\ PacketType' = PacketType
      /\ packets' \in Seq(PacketType') /\ Chain(packets)' /\ Closed(packets)' /\ CarriedBefore'
  BY <1>1, <1>2, SameCall
<1>4. /\ out_packets' \in Seq(PacketType') /\ Chain(out_packets)'
      /\ \A k : EndsIn(out_packets, k) => EndsIn(out_packets, k)'
      /\ out_packets # <<>> =>
            (Ends(LastElement(out_packets[Len(out_packets)]))'
                <=> Ends(LastElement(out_packets[Len(out_packets)])))
  BY <1>1, <1>2, SameOut
<1>5. CallInv'
  BY <1>1, <1>2 DEF SenderInv, CallInv, SkippedObu
<1>6. SenderTypeOK'
  <2>1. Scanned.layer \in Nat
    <3>1. cur + 1 \in 1..Len(given)
      BY <1>1, CallFacts DEF SenderInv
    <3> QED
      BY <3>1, ObuFacts, CallFacts DEF SenderInv, Scanned
  <2>2. StartsPacket(Scanned) \in BOOLEAN
    BY DEF StartsPacket
  <2> QED
    BY <1>1, <1>2, <1>3, <1>4, <2>1, <2>2 DEF SenderInv, SenderTypeOK
<1>7. OutInv'
  BY <1>1, <1>2, <1>4 DEF SenderInv, OutInv, Inside
<1>8. CarriedNow'
  BY <1>1, <1>2, <1>4 DEF SenderInv, CarriedNow, Within, Position, SkippedObu
<1> QED
  BY <1>3, <1>4, <1>5, <1>6, <1>7, <1>8 DEF SenderInv

LEMMA ScanEndStep ==
    ASSUME SenderInv, ScanEnd PROVE SenderInv'
<1>1. /\ given' = given /\ call' = call /\ cur' = cur /\ refused' = refused
      /\ pending' = pending /\ out_packets' = out_packets /\ packets' = packets
      /\ obus_in_packet' = obus_in_packet /\ to_write' = to_write /\ written' = written
      /\ new_sequence' = new_sequence /\ start_with_new_packet' = start_with_new_packet
      /\ current_packet_obu_header' = current_packet_obu_header
      /\ pc = "scan" /\ pending # 0 /\ pc' = "append" /\ need_new_packet' = TRUE
  BY DEF ScanEnd, writeVars
<1>2. pc # "idle" /\ pc' # "idle" /\ pc' # "fragment" /\ pc # "fragment" /\ pc' # "take"
  BY <1>1
<1>3. /\ GivenStays /\ ElementType' = ElementType /\ PacketType' = PacketType
      /\ packets' \in Seq(PacketType') /\ Chain(packets)' /\ Closed(packets)' /\ CarriedBefore'
  BY <1>1, <1>2, SameCall
<1>4. /\ out_packets' \in Seq(PacketType') /\ Chain(out_packets)'
      /\ \A k : EndsIn(out_packets, k) => EndsIn(out_packets, k)'
      /\ out_packets # <<>> =>
            (Ends(LastElement(out_packets[Len(out_packets)]))'
                <=> Ends(LastElement(out_packets[Len(out_packets)])))
  BY <1>1, <1>2, SameOut
<1>5. CallInv'
  BY <1>1, <1>2 DEF SenderInv, CallInv, SkippedObu
<1>6. SenderTypeOK'
  BY <1>1, <1>2, <1>3, <1>4 DEF SenderInv, SenderTypeOK
<1>7. OutInv'
  BY <1>1, <1>2, <1>4 DEF SenderInv, OutInv, Inside
<1>8. CarriedNow'
  BY <1>1, <1>2, <1>4 DEF SenderInv, CarriedNow, Within, Position, SkippedObu
<1> QED
  BY <1>3, <1>4, <1>5, <1>6, <1>7, <1>8 DEF SenderInv

LEMMA TakeStep ==
    ASSUME SenderInv, Take PROVE SenderInv'
<1>1. /\ given' = given /\ call' = call /\ cur' = cur + 1 /\ refused' = refused
      /\ out_packets' = out_packets /\ packets' = packets
      /\ obus_in_packet' = obus_in_packet /\ to_write' = to_write /\ written' = written
      /\ need_new_packet' = need_new_packet
      /\ start_with_new_packet' = start_with_new_packet
      /\ current_packet_obu_header' = current_packet_obu_header
      /\ pc = "take" /\ pc' = "scan"
      /\ new_sequence' = (IF SkippedObu(Scanned) THEN new_sequence ELSE Scanned.type = "seq")
      /\ pending' = IF SkippedObu(given[cur + 1]) THEN 0 ELSE cur + 1
  BY DEF Take, writeVars, Pending, Scanned
<1>2. pc # "idle" /\ pc' # "idle" /\ pc' # "fragment" /\ pc # "fragment"
  BY <1>1
<1>3. /\ GivenStays /\ ElementType' = ElementType /\ PacketType' = PacketType
      /\ packets' \in Seq(PacketType') /\ Chain(packets)' /\ Closed(packets)' /\ CarriedBefore'
  BY <1>1, <1>2, SameCall
<1>4. /\ out_packets' \in Seq(PacketType') /\ Chain(out_packets)'
      /\ \A k : EndsIn(out_packets, k) => EndsIn(out_packets, k)'
      /\ out_packets # <<>> =>
            /\ LastElement(out_packets[Len(out_packets)]) \in ElementType
            /\ Ends(LastElement(out_packets[Len(out_packets)]))'
                  <=> Ends(LastElement(out_packets[Len(out_packets)]))
  BY <1>1, <1>2, SameOut
<1>5. pending = 0 /\ cur < Len(given) /\ call <= cur
  BY <1>1, <1>2 DEF SenderInv, CallInv
<1>6. /\ cur \in Nat /\ call \in Nat /\ Len(given) \in Nat /\ new_sequence \in BOOLEAN
  BY CallFacts DEF SenderInv
<1>7. CallInv'
  <2>1. call' <= cur' /\ cur' # call'
    BY <1>1, <1>5, <1>6
  <2>2. pending' # 0 =>
          pending' = cur' /\ pending' > call' /\ ~SkippedObu(given[pending])'
    BY <1>1, <1>5, <1>6 DEF SkippedObu
  <2> QED
    BY <1>1, <2>1, <2>2 DEF CallInv
<1>8. SenderTypeOK'
  <2>1. cur' \in 0..Len(given') /\ pending' \in 0..cur'
    BY <1>1, <1>5, <1>6
  <2>2. new_sequence' \in BOOLEAN
    BY <1>1, <1>6
  <2> QED
    BY <1>1, <1>2, <1>3, <1>4, <2>1, <2>2 DEF SenderInv, SenderTypeOK
<1>9. OutInv'
  <2> SUFFICES ASSUME out_packets # <<>>
               PROVE  /\ ~out_packets[Len(out_packets)].y
                      /\ Ends(LastElement(out_packets[Len(out_packets)]))'
                      /\ pending' # 0 => LastElement(out_packets[Len(out_packets)]).obu < pending'
    BY <1>1, <1>2 DEF OutInv, Inside
  <2>1. ~out_packets[Len(out_packets)].y /\ Ends(LastElement(out_packets[Len(out_packets)]))
    BY <1>2 DEF SenderInv, OutInv, Inside
  <2> PICK e : e = LastElement(out_packets[Len(out_packets)])
    OBVIOUS
  <2>2. e.obu \in call + 1 .. cur
    <3>1. Len(out_packets) \in Position(out_packets)
      BY LenProperties, EmptySeq DEF SenderInv, SenderTypeOK, Position
    <3>2. /\ out_packets[Len(out_packets)] \in PacketType
          /\ SoundPacket(out_packets[Len(out_packets)])
      BY <3>1, ElementOfSeq DEF SenderInv, SenderTypeOK, Chain, Position
    <3>3. Len(out_packets[Len(out_packets)].elems) \in Position(out_packets[Len(out_packets)].elems)
      BY <3>2, SoundFacts, CallFacts DEF SenderInv, Position
    <3> QED
      BY <1>2, <3>1, <3>3 DEF SenderInv, CarriedNow, Within, LastElement
  <2>3. e.obu < cur + 1
    BY <1>6, <2>2
  <2> QED
    BY <1>1, <1>4, <2>1, <2>3
<1>10. CarriedNow'
  <2>1. Within(out_packets, call + 1 .. cur)
    BY <1>2 DEF SenderInv, CarriedNow
  <2>2. call + 1 .. cur \subseteq call + 1 .. cur + 1
    BY <1>6
  <2>3. Within(out_packets, call + 1 .. cur)'
    BY <1>1, <2>1, <2>2 DEF Within, Position
  <2>4. ASSUME NEW k \in call + 1 .. cur + 1, ~SkippedObu(given[k]), k # pending'
        PROVE  EndsIn(out_packets, k)'
    <3>1. k \in call + 1 .. cur
      <4>1. k # cur + 1
        BY <1>1, <2>4
      <4> QED
        BY <1>6, <4>1
    <3>2. k # pending
      BY <1>5, <1>6, <3>1
    <3> QED
      BY <1>2, <1>4, <2>4, <3>1, <3>2 DEF SenderInv, CarriedNow
  <2> QED
    BY <1>1, <2>3, <2>4 DEF CarriedNow, SkippedObu
<1> QED
  BY <1>3, <1>4, <1>7, <1>8, <1>9, <1>10 DEF SenderInv

\* A write of the pending OBU, from AppendOBUPayload or its loop.
LEMMA WroteStep ==
    ASSUME SenderInv, pc \in {"append", "fragment"}, pc' = "fragment",
           given' = given, call' = call, cur' = cur, refused' = refused, pending' = pending,
           need_new_packet' = need_new_packet, new_sequence' = new_sequence,
           start_with_new_packet' = start_with_new_packet,
           current_packet_obu_header' = current_packet_obu_header, packets' = packets,
           obus_in_packet' \in Nat, to_write' \in Nat, to_write' # 0,
           NEW e, NEW from \in Nat, Writes(e, from, written'),
           Extends(out_packets', out_packets, e)
    PROVE  SenderInv'
<1>1. pc # "idle" /\ pc' # "idle" /\ pc' # "take" /\ pc' # "append"
  OBVIOUS
<1>2. /\ GivenStays /\ ElementType' = ElementType /\ PacketType' = PacketType
      /\ packets' \in Seq(PacketType') /\ Chain(packets)' /\ Closed(packets)' /\ CarriedBefore'
  BY <1>1, SameCall
<1> PICK t, to : t = out_packets' /\ to = written'
  OBVIOUS
<1>3. /\ t \in Seq(PacketType) /\ Chain(t) /\ t # <<>>
      /\ ~t[Len(t)].y /\ LastElement(t[Len(t)]) = e
      /\ \A f : Holds(t, f) <=> Holds(out_packets, f) \/ f = e
  BY DEF Extends
<1>4. /\ e \in ElementType /\ SoundElement(e) /\ e.obu = pending /\ e.to = to
      /\ to \in Nat /\ to > 0 /\ to <= PendingLen
  BY DEF Writes
<1>5. /\ Chain(t)' /\ t \in Seq(PacketType')
      /\ \A k : EndsIn(t, k) => EndsIn(t, k)'
  BY <1>2, <1>3, ChainStays
<1>6. /\ pending \in 1..Len(given) /\ pending = cur /\ pending > call
      /\ ~SkippedObu(given[pending]) /\ PendingLen \in Nat /\ PendingLen >= 1
  BY PendingFacts DEF SenderInv
<1>7. cur \in Nat /\ call \in Nat /\ Len(given) \in Nat
  BY CallFacts DEF SenderInv
<1>8. PendingLen' = PendingLen
  BY DEF PendingLen, ObuLen, ObuHeaderSize
<1>9. CallInv'
  <2>1. pending' # 0 /\ cur' # call' /\ call' <= cur'
    BY <1>6, <1>7
  <2>2. pending' = cur' /\ pending' > call' /\ ~SkippedObu(given[pending])'
    BY <1>6 DEF SkippedObu
  <2>3. out_packets' # <<>> /\ written' # 0
    BY <1>3, <1>4
  <2> QED
    BY <1>1, <2>1, <2>2, <2>3 DEF CallInv
<1>10. SenderTypeOK'
  <2>1. written' \in 0..PendingLen'
    BY <1>4, <1>6, <1>8
  <2>2. out_packets' \in Seq(PacketType')
    BY <1>5
  <2> QED
    BY <1>1, <1>2, <2>1, <2>2 DEF SenderInv, SenderTypeOK
<1>11. OutInv'
  <2>1. Inside'
    BY <1>4 DEF Inside
  <2>2. LastElement(t[Len(t)]).obu = pending' /\ LastElement(t[Len(t)]).to = written'
    BY <1>3, <1>4
  <2> QED
    BY <1>3, <2>1, <2>2 DEF OutInv, LastElement
<1>12. CarriedNow'
  <2>1. /\ Within(out_packets, call + 1 .. cur)
        /\ \A k \in call + 1 .. cur :
              ~SkippedObu(given[k]) /\ k # pending => EndsIn(out_packets, k)
    BY <1>1 DEF SenderInv, CarriedNow
  <2>2. e.obu \in call + 1 .. cur
    BY <1>4, <1>6, <1>7
  <2>3. Within(t, call + 1 .. cur)
    BY <1>3, <2>1, <2>2, HoldsEnds
  <2>4. Within(out_packets, call + 1 .. cur)'
    BY <2>3 DEF Within, Position
  <2>5. \A k : EndsIn(out_packets, k) => EndsIn(t, k)
    BY <1>3, HoldsEnds
  <2>6. \A k : EndsIn(t, k) => EndsIn(out_packets, k)'
    BY <1>5
  <2> QED
    BY <2>1, <2>4, <2>5, <2>6 DEF CarriedNow, SkippedObu
<1> QED
  BY <1>2, <1>5, <1>9, <1>10, <1>11, <1>12 DEF SenderInv

LEMMA AppendStep ==
    ASSUME Mtu >= 3, SenderInv, AppendOBUPayload PROVE SenderInv'
<1>1. /\ given' = given /\ call' = call /\ cur' = cur /\ refused' = refused
      /\ pending' = pending /\ packets' = packets
      /\ need_new_packet' = need_new_packet /\ new_sequence' = new_sequence
      /\ start_with_new_packet' = start_with_new_packet
      /\ current_packet_obu_header' = current_packet_obu_header
      /\ pc = "append" /\ pc' = "fragment"
  BY DEF AppendOBUPayload, obuVars
<1>2. /\ to_write' = written' /\ obus_in_packet' \in Nat
      /\ \/ written' = 0 /\ out_packets' = out_packets /\ ~Opens
         \/ \E e : Writes(e, 0, written') /\ Extends(out_packets', out_packets, e)
  BY AppendWrites
<1>3. CASE \E e : Writes(e, 0, written') /\ Extends(out_packets', out_packets, e)
  <2>1. PICK e : Writes(e, 0, written') /\ Extends(out_packets', out_packets, e)
    BY <1>3
  <2>2. written' \in Nat /\ written' # 0
    BY <2>1 DEF Writes
  <2>3. pc \in {"append", "fragment"} /\ 0 \in Nat /\ to_write' \in Nat /\ to_write' # 0
    BY <1>1, <1>2, <2>2
  <2> QED
    BY <1>1, <1>2, <2>1, <2>3, WroteStep
<1>4. CASE written' = 0 /\ out_packets' = out_packets /\ ~Opens
  <2>1. pc # "idle" /\ pc' # "idle" /\ pc' # "take" /\ pc' # "append" /\ pc # "fragment"
    BY <1>1
  <2>2. /\ GivenStays /\ ElementType' = ElementType /\ PacketType' = PacketType
        /\ packets' \in Seq(PacketType') /\ Chain(packets)' /\ Closed(packets)' /\ CarriedBefore'
    BY <1>1, <2>1, SameCall
  <2>3. /\ out_packets' \in Seq(PacketType') /\ Chain(out_packets)'
        /\ \A k : EndsIn(out_packets, k) => EndsIn(out_packets, k)'
        /\ out_packets # <<>> =>
              (Ends(LastElement(out_packets[Len(out_packets)]))'
                  <=> Ends(LastElement(out_packets[Len(out_packets)])))
    BY <1>1, <1>4, <2>1, SameOut
  <2>4. /\ pending \in 1..Len(given) /\ pending = cur /\ pending > call
        /\ ~SkippedObu(given[pending]) /\ PendingLen \in Nat /\ PendingLen >= 1
    BY <1>1, PendingFacts DEF SenderInv
  <2>5. cur \in Nat /\ call \in Nat
    BY CallFacts DEF SenderInv
  <2>6. PendingLen' = PendingLen
    BY <1>1 DEF PendingLen, ObuLen, ObuHeaderSize
  <2>7. CallInv'
    <3>1. pending' # 0 /\ cur' # call' /\ call' <= cur'
      BY <1>1, <2>4, <2>5
    <3>2. pending' = cur' /\ pending' > call' /\ ~SkippedObu(given[pending])'
      BY <1>1, <2>4 DEF SkippedObu
    <3>3. out_packets' # <<>>
      BY <1>4 DEF Opens
    <3> QED
      BY <1>2, <2>1, <3>1, <3>2, <3>3 DEF CallInv
  <2>8. SenderTypeOK'
    <3>1. written' \in 0..PendingLen' /\ to_write' \in Nat
      BY <1>2, <1>4, <2>4, <2>6
    <3> QED
      BY <1>1, <1>2, <2>2, <2>3, <3>1 DEF SenderInv, SenderTypeOK
  <2>9. OutInv'
    <3>1. ~Inside /\ ~Inside'
      BY <1>4, <2>1 DEF Inside
    <3> QED
      BY <1>1, <1>4, <2>1, <2>3, <3>1 DEF SenderInv, OutInv
  <2>10. CarriedNow'
    BY <1>1, <1>4, <2>1, <2>3 DEF SenderInv, CarriedNow, Within, Position, SkippedObu
  <2> QED
    BY <2>2, <2>3, <2>7, <2>8, <2>9, <2>10 DEF SenderInv
<1> QED
  BY <1>2, <1>3, <1>4

LEMMA FragmentStep ==
    ASSUME Mtu >= 3, SenderInv, Fragment PROVE SenderInv'
<1>1. /\ given' = given /\ call' = call /\ cur' = cur /\ refused' = refused
      /\ pending' = pending /\ packets' = packets
      /\ need_new_packet' = need_new_packet /\ new_sequence' = new_sequence
      /\ start_with_new_packet' = start_with_new_packet
      /\ current_packet_obu_header' = current_packet_obu_header
      /\ pc = "fragment" /\ pc' = "fragment" /\ obus_in_packet' = 1
  BY DEF Fragment, obuVars
<1>2. PICK e : /\ Writes(e, written, written') /\ to_write' = e.to - e.from
               /\ Extends(out_packets', out_packets, e)
  BY FragmentWrites
<1>3. written \in Nat
  BY <1>1, PendingFacts DEF SenderInv, SenderTypeOK
<1>4. to_write' \in Nat /\ to_write' # 0
  <2> PICK from \in Nat : from = written
    BY <1>3
  <2> PICK to : to = written'
    OBVIOUS
  <2>1. e.from = from /\ e.to = to /\ to \in Nat /\ from < to
    BY <1>2 DEF Writes
  <2>2. to_write' = to - from
    BY <1>2, <2>1
  <2>3. to - from \in Nat /\ to - from # 0
    BY ONLY <2>1, from \in Nat
  <2> QED
    BY ONLY <2>2, <2>3
<1>5. pc \in {"append", "fragment"} /\ obus_in_packet' \in Nat
  BY <1>1
<1> QED
  BY <1>1, <1>2, <1>3, <1>4, <1>5, WroteStep

LEMMA AppendedStep ==
    ASSUME SenderInv, Appended PROVE SenderInv'
<1>1. /\ given' = given /\ call' = call /\ cur' = cur /\ refused' = refused
      /\ out_packets' = out_packets /\ packets' = packets
      /\ obus_in_packet' = obus_in_packet /\ to_write' = to_write /\ written' = written
      /\ need_new_packet' = need_new_packet
      /\ pc = "fragment" /\ ~(written < PendingLen)
      /\ pending' = 0 /\ start_with_new_packet' = need_new_packet
      /\ new_sequence' = (new_sequence /\ ~need_new_packet)
      /\ current_packet_obu_header' =
            IF need_new_packet THEN 0 ELSE current_packet_obu_header
      /\ pc' = IF cur < Len(given) THEN "take" ELSE "scan"
  BY PendingFacts DEF Appended, writeVars, StartsNext, SenderInv, SenderTypeOK
<1>2. pc # "idle" /\ pc' # "idle" /\ pc' # "fragment" /\ pc' # "append"
  BY <1>1
<1>3. /\ GivenStays /\ ElementType' = ElementType /\ PacketType' = PacketType
      /\ packets' \in Seq(PacketType') /\ Chain(packets)' /\ Closed(packets)' /\ CarriedBefore'
  BY <1>1, <1>2, SameCall
<1>4. /\ out_packets' \in Seq(PacketType') /\ Chain(out_packets)'
      /\ \A k : EndsIn(out_packets, k) => EndsIn(out_packets, k)'
      /\ out_packets # <<>> =>
            (Ends(LastElement(out_packets[Len(out_packets)]))'
                <=> Ends(LastElement(out_packets[Len(out_packets)])))
  BY <1>1, <1>2, SameOut
<1>5. /\ pending \in 1..Len(given) /\ pending = cur /\ pending > call
      /\ PendingLen \in Nat /\ PendingLen >= 1
  BY <1>1, PendingFacts DEF SenderInv
<1>6. /\ cur \in Nat /\ call \in Nat /\ Len(given) \in Nat
      /\ need_new_packet \in BOOLEAN /\ new_sequence \in BOOLEAN
  BY CallFacts DEF SenderInv
<1>7. written = PendingLen /\ Inside
  <2>1. written \in 0..PendingLen
    BY <1>1 DEF SenderInv, SenderTypeOK
  <2> QED
    BY <1>1, <1>5, <2>1 DEF Inside
<1>8. out_packets # <<>> /\ cur # call
  BY <1>1, <1>5, <1>6 DEF SenderInv, CallInv
<1> PICK e : e = LastElement(out_packets[Len(out_packets)])
  OBVIOUS
<1>9. ~out_packets[Len(out_packets)].y /\ e.obu = pending /\ e.to = PendingLen
  BY <1>2, <1>7, <1>8 DEF SenderInv, OutInv
<1>10. Ends(e)
  BY <1>9 DEF Ends, PendingLen
<1>11. Holds(out_packets, e)
  <2>1. Len(out_packets) \in Position(out_packets)
    BY <1>8, LenProperties, EmptySeq DEF SenderInv, SenderTypeOK, Position
  <2>2. /\ out_packets[Len(out_packets)] \in PacketType
        /\ SoundPacket(out_packets[Len(out_packets)])
    BY <2>1, ElementOfSeq DEF SenderInv, SenderTypeOK, Chain, Position
  <2>3. Len(out_packets[Len(out_packets)].elems) \in Position(out_packets[Len(out_packets)].elems)
    BY <2>2, SoundFacts, CallFacts DEF SenderInv, Position
  <2> QED
    BY <2>1, <2>3 DEF Holds, LastElement
<1>12. EndsIn(out_packets, pending)
  BY <1>9, <1>10, <1>11, HoldsEnds
<1>13. CallInv'
  <2>1. call' <= cur' /\ cur' # call'
    BY <1>1, <1>5, <1>6
  <2>2. pc' = "take" => cur' < Len(given')
    BY <1>1
  <2> QED
    BY <1>1, <1>2, <2>1, <2>2 DEF CallInv
<1>14. SenderTypeOK'
  <2>1. pending' \in 0..cur' /\ pc' \in {"idle", "scan", "take", "append", "fragment"}
    BY <1>1, <1>6
  <2>2. /\ need_new_packet' \in BOOLEAN /\ new_sequence' \in BOOLEAN
        /\ start_with_new_packet' \in BOOLEAN
    BY <1>1, <1>6
  <2>3. current_packet_obu_header' \in Nat
    BY <1>1, <1>6 DEF SenderInv, SenderTypeOK
  <2> QED
    BY <1>1, <1>2, <1>3, <1>4, <2>1, <2>2, <2>3 DEF SenderInv, SenderTypeOK
<1>15. OutInv'
  <2>1. ~Inside' /\ pending' = 0
    BY <1>1, <1>2 DEF Inside
  <2> QED
    BY <1>1, <1>4, <1>8, <1>9, <1>10, <2>1 DEF OutInv
<1>16. CarriedNow'
  <2>1. /\ Within(out_packets, call + 1 .. cur)
        /\ \A k \in call + 1 .. cur :
              ~SkippedObu(given[k]) /\ k # pending => EndsIn(out_packets, k)
    BY <1>2 DEF SenderInv, CarriedNow
  <2>2. Within(out_packets, call + 1 .. cur)'
    BY <1>1, <2>1 DEF Within, Position
  <2>3. \A k \in call + 1 .. cur : ~SkippedObu(given[k]) => EndsIn(out_packets, k)'
    BY <1>4, <1>12, <2>1
  <2> QED
    BY <1>1, <2>2, <2>3 DEF CarriedNow, SkippedObu
<1> QED
  BY <1>3, <1>4, <1>13, <1>14, <1>15, <1>16 DEF SenderInv

\* Elements of a concatenation are those of its parts.
LEMMA HoldsConcat ==
    ASSUME NEW s \in Seq(PacketType), NEW t \in Seq(PacketType)
    PROVE  \A e : Holds(s \o t, e) <=> Holds(s, e) \/ Holds(t, e)
<1> SUFFICES ASSUME NEW e PROVE Holds(s \o t, e) <=> Holds(s, e) \/ Holds(t, e)
  OBVIOUS
<1> PICK n \in Nat, m \in Nat : n = Len(s) /\ m = Len(t)
  BY LenProperties
<1> PICK u : u = s \o t
  OBVIOUS
<1>1. /\ Len(u) = n + m /\ \A p \in 1..n : u[p] = s[p]
      /\ \A p \in 1..m : u[n + p] = t[p]
  BY ConcatGrows
<1> DEFINE Has(x) == \E i \in Position(x.elems) : x.elems[i] = e
<1>2. /\ Holds(u, e) <=> \E p \in 1..(n + m) : Has(u[p])
      /\ Holds(s, e) <=> \E p \in 1..n : Has(s[p])
      /\ Holds(t, e) <=> \E p \in 1..m : Has(t[p])
  BY <1>1 DEF Holds, Position
<1> HIDE DEF Has
<1>3. ASSUME NEW p \in 1..(n + m), Has(u[p])
      PROVE  (\E q \in 1..n : Has(s[q])) \/ (\E q \in 1..m : Has(t[q]))
  <2>1. CASE p \in 1..n
    BY <1>1, <1>3, <2>1
  <2>2. ASSUME NEW k \in 1..m, p = n + k PROVE \E q \in 1..m : Has(t[q])
    <3>1. u[p] = t[k]
      BY <1>1, <2>2
    <3> QED
      BY <1>3, <3>1
  <2>3. p \in 1..n \/ \E k \in 1..m : p = n + k
    BY ConcatPosition
  <2> QED
    BY <2>1, <2>2, <2>3
<1>4. ASSUME NEW q \in 1..n, Has(s[q]) PROVE \E p \in 1..(n + m) : Has(u[p])
  <2>1. q \in 1..(n + m) /\ u[q] = s[q]
    BY <1>1
  <2> QED
    BY <1>4, <2>1
<1>5. ASSUME NEW q \in 1..m, Has(t[q]) PROVE \E p \in 1..(n + m) : Has(u[p])
  <2>1. n + q \in 1..(n + m) /\ u[n + q] = t[q]
    BY <1>1
  <2> QED
    BY <1>5, <2>1
<1> QED
  BY <1>2, <1>3, <1>4, <1>5

LEMMA ReturnStep ==
    ASSUME SenderInv, Return PROVE SenderInv' /\ packets' = packets \o out_packets
<1>1. /\ given' = given /\ call' = call /\ cur' = cur /\ refused' = refused
      /\ pending' = pending /\ out_packets' = out_packets
      /\ packets' = packets \o out_packets
      /\ obus_in_packet' = obus_in_packet /\ to_write' = to_write /\ written' = written
      /\ new_sequence' = new_sequence /\ start_with_new_packet' = start_with_new_packet
      /\ current_packet_obu_header' = current_packet_obu_header
      /\ need_new_packet' = need_new_packet
      /\ pc = "scan" /\ pending = 0 /\ pc' = "idle" /\ cur = Len(given)
  BY DEF Return, writeVars, obuVars
<1>2. GivenStays /\ ElementType' = ElementType /\ PacketType' = PacketType
  BY <1>1, GivenSame DEF SenderInv
<1>3. cur \in Nat /\ call \in Nat /\ Len(given) \in Nat /\ given \in Seq(ObuType) /\ call <= cur
  BY <1>1, CallFacts DEF SenderInv
<1> PICK s, t, u : s = packets /\ t = out_packets /\ u = s \o t
  OBVIOUS
<1>4. /\ s \in Seq(PacketType) /\ Chain(s) /\ Closed(s)
      /\ t \in Seq(PacketType) /\ Chain(t)
  BY DEF SenderInv, SenderTypeOK
<1>5. /\ Within(s, 1..call \ refused) /\ refused \subseteq 1..call
      /\ \A k \in 1..call : Kept(k) => EndsIn(s, k)
  BY <1>1 DEF SenderInv, CarriedBefore, Finished
<1>6. /\ Within(t, call + 1 .. cur)
      /\ \A k \in call + 1 .. cur : ~SkippedObu(given[k]) => EndsIn(t, k)
  <2>1. \A k \in call + 1 .. cur : k # 0
    BY <1>3
  <2> QED
    BY <1>1, <2>1 DEF SenderInv, CarriedNow
<1>7. t # <<>> => ~t[Len(t)].y /\ Ends(LastElement(t[Len(t)]))
  BY <1>1 DEF SenderInv, OutInv, Inside
<1>8. ASSUME s # <<>>, t # <<>> PROVE Leads(s[Len(s)], t[1])
  <2> PICK x, y : x = s[Len(s)] /\ y = t[1]
    OBVIOUS
  <2>1. Len(s) \in 1..Len(s) /\ 1 \in 1..Len(t)
    BY <1>4, <1>8, LenProperties, EmptySeq
  <2>2. /\ x \in PacketType /\ SoundPacket(x) /\ ~x.y /\ Ends(LastElement(x))
        /\ y \in PacketType /\ SoundPacket(y) /\ ~y.z
    BY <1>4, <1>8, <2>1, ElementOfSeq DEF Chain, Closed, Position
  <2>3. /\ Len(x.elems) \in 1..Len(x.elems) /\ 1 \in 1..Len(y.elems)
    BY <1>3, <2>2, SoundFacts
  <2>4. LastElement(x).obu \in 1..call
    BY <1>5, <2>1, <2>3 DEF Within, Position, LastElement
  <2>5. y.elems[1].obu \in call + 1 .. cur
    BY <1>6, <2>1, <2>3 DEF Within, Position
  <2>6. y.elems[1].obu > LastElement(x).obu
    BY <1>3, <2>4, <2>5
  <2>7. y.elems[1].from = 0
    BY <2>2 DEF SoundPacket
  <2> QED
    BY <2>2, <2>6, <2>7 DEF Leads, Follows
<1>9. u \in Seq(PacketType) /\ Chain(u)
  BY <1>4, <1>8, ChainConcat, ConcatGrows
<1>10. Closed(u)
  <2> PICK n \in Nat, m \in Nat : n = Len(s) /\ m = Len(t)
    BY <1>4, LenProperties
  <2>1. /\ Len(u) = n + m /\ \A p \in 1..n : u[p] = s[p]
        /\ \A p \in 1..m : u[n + p] = t[p]
    BY <1>4, ConcatGrows
  <2>2. CASE m = 0
    <3>1. Len(u) = n
      BY <2>1, <2>2
    <3>2. n > 0 => u[n] = s[n] /\ s # <<>>
      BY <2>1
    <3>3. n = 0 => u = <<>>
      BY <1>9, <3>1, EmptySeq
    <3>4. n = 0 \/ n > 0
      OBVIOUS
    <3> QED
      BY <1>4, <3>1, <3>2, <3>3, <3>4 DEF Closed
  <2>3. CASE m > 0
    <3>1. t # <<>> /\ m \in 1..m
      BY <2>3
    <3>2. u[Len(u)] = t[m]
      BY <2>1, <3>1
    <3> QED
      BY <1>7, <3>1, <3>2 DEF Closed
  <2>4. m = 0 \/ m > 0
    OBVIOUS
  <2> QED
    BY <2>2, <2>3, <2>4
<1>11. /\ u \in Seq(PacketType') /\ Chain(u)' /\ Closed(u)'
       /\ \A k : EndsIn(u, k) => EndsIn(u, k)'
  BY <1>2, <1>9, <1>10, ChainStays
<1>12. t \in Seq(PacketType') /\ Chain(t)'
  BY <1>2, <1>4, ChainStays
<1>13. CarriedBefore'
  <2>1. Finished' = cur
    BY <1>1 DEF Finished
  <2>2. refused' \subseteq 1..cur
    BY <1>1, <1>3, <1>5
  <2>3. Within(u, 1..cur \ refused)
    <3> SUFFICES ASSUME NEW e, Holds(u, e) PROVE e.obu \in 1..cur \ refused
      BY HoldsEnds
    <3>1. Holds(s, e) \/ Holds(t, e)
      BY <1>4, HoldsConcat
    <3>2. CASE Holds(s, e)
      <4>1. e.obu \in 1..call \ refused
        BY <1>5, <3>2, HoldsEnds
      <4> QED
        BY <1>3, <4>1
    <3>3. CASE Holds(t, e)
      <4>1. e.obu \in call + 1 .. cur
        BY <1>6, <3>3, HoldsEnds
      <4>2. e.obu \in 1..cur /\ e.obu \notin 1..call
        BY <1>3, <4>1
      <4> QED
        BY <1>5, <4>2
    <3> QED
      BY <3>1, <3>2, <3>3
  <2>4. ASSUME NEW k \in 1..cur, Kept(k) PROVE EndsIn(u, k)
    <3>1. EndsIn(s, k) \/ EndsIn(t, k)
      <4>1. k \in 1..call \/ k \in call + 1 .. cur
        BY <1>3
      <4> QED
        BY <1>5, <1>6, <2>4, <4>1 DEF Kept
    <3> QED
      BY <1>4, <3>1, HoldsEnds, HoldsConcat
  <2>5. \A k : Kept(k)' <=> Kept(k)
    BY <1>1 DEF Kept, SkippedObu
  <2>6. Within(packets, 1..cur \ refused)'
    BY <1>1, <2>3 DEF Within, Position
  <2>7. \A k \in 1..cur : Kept(k)' => EndsIn(packets, k)'
    BY <1>1, <1>11, <2>4, <2>5
  <2> QED
    BY <1>1, <2>1, <2>2, <2>6, <2>7 DEF CarriedBefore
<1>14. SenderTypeOK'
  BY <1>1, <1>2, <1>11, <1>12 DEF SenderInv, SenderTypeOK
<1>15. CallInv' /\ OutInv' /\ CarriedNow'
  BY <1>1 DEF CallInv, OutInv, CarriedNow
<1> QED
  BY <1>1, <1>11, <1>12, <1>13, <1>14, <1>15 DEF SenderInv

LEMMA RefuseStep ==
    ASSUME SenderInv, Refuse PROVE SenderInv'
<1>1. /\ given' = given /\ call' = call /\ cur' = Len(given)
      /\ refused' = refused \cup (call + 1 .. Len(given))
      /\ pending' = pending /\ out_packets' = out_packets /\ packets' = packets
      /\ obus_in_packet' = obus_in_packet /\ to_write' = to_write /\ written' = written
      /\ new_sequence' = new_sequence /\ start_with_new_packet' = start_with_new_packet
      /\ current_packet_obu_header' = current_packet_obu_header
      /\ need_new_packet' = need_new_packet
      /\ pc = "scan" /\ pc' = "idle"
  BY DEF Refuse, writeVars, obuVars
<1>2. GivenStays /\ ElementType' = ElementType /\ PacketType' = PacketType
  BY <1>1, GivenSame DEF SenderInv
<1>3. /\ cur \in Nat /\ call \in Nat /\ Len(given) \in Nat /\ call <= Len(given)
      /\ cur <= Len(given) /\ pending \in Nat /\ pending <= cur
  BY CallFacts DEF SenderInv
<1>4. /\ packets' \in Seq(PacketType') /\ Chain(packets)' /\ Closed(packets)'
      /\ \A k : EndsIn(packets, k) => EndsIn(packets, k)'
  BY <1>1, <1>2, PacketsStay
<1> PICK t : t = out_packets
  OBVIOUS
<1>5. t \in Seq(PacketType') /\ Chain(t)'
  <2>1. t \in Seq(PacketType) /\ Chain(t)
    BY DEF SenderInv, SenderTypeOK
  <2> QED
    BY <1>2, <2>1, ChainStays
<1>6. /\ Within(packets, 1..call \ refused) /\ refused \subseteq 1..call
      /\ \A k \in 1..call : Kept(k) => EndsIn(packets, k)
  BY <1>1 DEF SenderInv, CarriedBefore, Finished
<1>10. refused' \subseteq 1..Len(given)
  <2>1. 1..call \subseteq 1..Len(given) /\ call + 1 .. Len(given) \subseteq 1..Len(given)
    BY <1>3
  <2> QED
    BY <1>1, <1>6, <2>1
<1>7. CarriedBefore'
  <2>1. Finished' = Len(given)
    BY <1>1 DEF Finished
  <2>2. refused' \subseteq 1..Len(given)
    BY <1>10
  <2>3. 1..call \ refused \subseteq 1..Len(given) \ refused'
    BY <1>1, <1>3
  <2>4. Within(packets, 1..Len(given) \ refused)'
    BY <1>1, <1>6, <2>3 DEF Within, Position
  <2>5. ASSUME NEW k \in 1..Len(given), Kept(k)' PROVE EndsIn(packets, k)'
    <3>1. k \notin refused' /\ ~SkippedObu(given[k])
      BY <1>1, <2>5 DEF Kept, SkippedObu
    <3>2. k \in 1..call /\ k \notin refused
      BY <1>1, <1>3, <3>1
    <3> QED
      BY <1>4, <1>6, <3>1, <3>2 DEF Kept
  <2> QED
    BY <1>1, <2>1, <2>2, <2>4, <2>5 DEF CarriedBefore
<1>8. SenderTypeOK'
  <2>1. cur' \in 0..Len(given') /\ pending' \in 0..cur' /\ refused' \subseteq 1..Len(given')
    BY <1>1, <1>3, <1>10
  <2> QED
    BY <1>1, <1>2, <1>4, <1>5, <2>1 DEF SenderInv, SenderTypeOK
<1>9. CallInv' /\ OutInv' /\ CarriedNow'
  BY <1>1 DEF CallInv, OutInv, CarriedNow
<1> QED
  BY <1>1, <1>4, <1>5, <1>7, <1>8, <1>9 DEF SenderInv

LEMMA PacketizeStep ==
    ASSUME SenderInv, NEW frame \in Frames, Packetize(frame)
    PROVE  SenderInv' /\ GivenStays
<1>1. /\ given' = given \o frame /\ call' = Len(given)
      /\ cur' = cur /\ refused' = refused /\ packets' = packets
      /\ pending' = 0 /\ out_packets' = <<>> /\ obus_in_packet' = 0 /\ to_write' = 0
      /\ written' = 0 /\ new_sequence' = FALSE /\ start_with_new_packet' = FALSE
      /\ current_packet_obu_header' = 0 /\ need_new_packet' = FALSE
      /\ pc = "idle" /\ pc' = "scan"
  BY DEF Packetize
<1>2. given \in Seq(ObuType) /\ frame \in Seq(ObuType) /\ cur = Len(given) /\ Len(given) \in Nat
  BY <1>1, FramesAssumption, CallFacts DEF SenderInv, CallInv
<1>3. /\ given' \in Seq(ObuType) /\ Len(given') \in Nat /\ Len(given) <= Len(given')
      /\ \A k \in 1..Len(given) : given'[k] = given[k]
  <2>1. /\ given \o frame \in Seq(ObuType) /\ Len(frame) \in Nat
        /\ Len(given \o frame) = Len(given) + Len(frame)
        /\ \A k \in 1..Len(given) : (given \o frame)[k] = given[k]
    BY <1>2, ConcatGrows
  <2> QED
    BY <1>1, <1>2, <2>1
<1>4. GivenStays
  BY <1>2, <1>3 DEF GivenStays
<1>5. /\ packets' \in Seq(PacketType') /\ Chain(packets)' /\ Closed(packets)'
      /\ \A k : EndsIn(packets, k) => EndsIn(packets, k)'
  BY <1>1, <1>4, PacketsStay
<1>6. out_packets' \in Seq(PacketType') /\ Chain(out_packets)'
  <2>1. <<>> \in Seq(PacketType') /\ Len(<<>>) = 0
    OBVIOUS
  <2> QED
    BY <1>1, <2>1 DEF Chain, Position
<1>7. Finished' = Len(given) /\ Finished = Len(given)
  BY <1>1 DEF Finished
<1>8. CarriedBefore'
  <2>1. /\ Within(packets, 1..Len(given) \ refused) /\ refused \subseteq 1..Len(given)
        /\ \A k \in 1..Len(given) : Kept(k) => EndsIn(packets, k)
    BY <1>7 DEF SenderInv, CarriedBefore
  <2>2. \A k \in 1..Len(given) : Kept(k)' <=> Kept(k)
    BY <1>1, <1>3 DEF Kept, SkippedObu
  <2>3. Within(packets, 1..Finished \ refused)'
    BY <1>1, <1>7, <2>1 DEF Within, Position
  <2> QED
    BY <1>1, <1>5, <1>7, <2>1, <2>2, <2>3 DEF CarriedBefore
<1>9. SenderTypeOK'
  <2>1. /\ cur' \in 0..Len(given') /\ call' \in 0..Len(given') /\ pending' \in 0..cur'
        /\ refused' \subseteq 1..Len(given')
    <3>1. refused \subseteq 1..Len(given)
      BY DEF SenderInv, SenderTypeOK
    <3> QED
      BY <1>1, <1>2, <1>3, <3>1
  <2> QED
    BY <1>1, <1>3, <1>5, <1>6, <2>1 DEF SenderInv, SenderTypeOK
<1>10. CallInv' /\ OutInv'
  BY <1>1, <1>2 DEF CallInv, OutInv
<1>11. CarriedNow'
  <2>1. call' + 1 .. cur' = {}
    BY <1>1, <1>2
  <2>2. Position(out_packets)' = {}
    BY <1>1 DEF Position
  <2> QED
    BY <2>1, <2>2 DEF CarriedNow, Within
<1> QED
  BY <1>4, <1>5, <1>6, <1>8, <1>9, <1>10, <1>11 DEF SenderInv

-----------------------------------------------------------------------------
(* What Depacketize hands out.                                             *)

LEMMA SingletonSeq ==
    ASSUME NEW S, NEW x \in S
    PROVE  <<x>> \in Seq(S) /\ <<>> \in Seq(S)
OBVIOUS

LEMMA RangeOf ==
    ASSUME NEW S, NEW s \in Seq(S)
    PROVE  \A b : b \in Range(s) <=> \E i \in 1..Len(s) : s[i] = b
<1>1. DOMAIN s = 1..Len(s)
  BY LenProperties
<1> QED
  BY <1>1 DEF Range

LEMMA RangeConcat ==
    ASSUME NEW S, NEW s \in Seq(S), NEW t \in Seq(S)
    PROVE  \A b : b \in Range(s \o t) <=> b \in Range(s) \/ b \in Range(t)
<1> SUFFICES ASSUME NEW b PROVE b \in Range(s \o t) <=> b \in Range(s) \/ b \in Range(t)
  OBVIOUS
<1> PICK n \in Nat, m \in Nat : n = Len(s) /\ m = Len(t)
  BY LenProperties
<1> PICK u : u = s \o t
  OBVIOUS
<1>1. /\ u \in Seq(S) /\ Len(u) = n + m /\ \A p \in 1..n : u[p] = s[p]
      /\ \A p \in 1..m : u[n + p] = t[p]
  BY ConcatGrows
<1>2. /\ b \in Range(u) <=> \E p \in 1..(n + m) : u[p] = b
      /\ b \in Range(s) <=> \E p \in 1..n : s[p] = b
      /\ b \in Range(t) <=> \E p \in 1..m : t[p] = b
  <2>0. u \in Seq(S)
    BY <1>1
  <2>1. b \in Range(u) <=> \E p \in 1..Len(u) : u[p] = b
    BY ONLY <2>0, RangeOf
  <2>2. b \in Range(s) <=> \E p \in 1..Len(s) : s[p] = b
    BY RangeOf
  <2>3. b \in Range(t) <=> \E p \in 1..Len(t) : t[p] = b
    BY RangeOf
  <2> QED
    BY <1>1, <2>1, <2>2, <2>3
<1>3. ASSUME NEW p \in 1..(n + m), u[p] = b
      PROVE  (\E q \in 1..n : s[q] = b) \/ (\E q \in 1..m : t[q] = b)
  <2>1. CASE p \in 1..n
    BY <1>1, <1>3, <2>1
  <2>2. ASSUME NEW k \in 1..m, p = n + k PROVE \E q \in 1..m : t[q] = b
    BY <1>1, <1>3, <2>2
  <2>3. p \in 1..n \/ \E k \in 1..m : p = n + k
    BY ConcatPosition
  <2> QED
    BY <2>1, <2>2, <2>3
<1>4. ASSUME NEW q \in 1..n, s[q] = b PROVE \E p \in 1..(n + m) : u[p] = b
  <2>1. q \in 1..(n + m) /\ u[q] = s[q]
    BY <1>1
  <2> QED
    BY <1>4, <2>1
<1>5. ASSUME NEW q \in 1..m, t[q] = b PROVE \E p \in 1..(n + m) : u[p] = b
  <2>1. n + q \in 1..(n + m) /\ u[n + q] = t[q]
    BY <1>1
  <2> QED
    BY <1>5, <2>1
<1> QED
  BY <1>2, <1>3, <1>4, <1>5

\* g[i] joins the first i pieces.
Gathers(g, m, S, piece) ==
    /\ g \in [0..m -> Seq(S)] /\ piece \in [1..m -> Seq(S)]
    /\ g[0] = <<>>
    /\ \A i \in 1..m : g[i] = g[i - 1] \o piece[i]

LEMMA Gathered ==
    ASSUME NEW m \in Nat, NEW S, NEW g, NEW piece, Gathers(g, m, S, piece)
    PROVE  \A b : b \in Range(g[m]) <=> \E i \in 1..m : b \in Range(piece[i])
<1> SUFFICES ASSUME NEW b PROVE b \in Range(g[m]) <=> \E i \in 1..m : b \in Range(piece[i])
  OBVIOUS
<1> DEFINE D == {n \in Nat : n <= m =>
                    (b \in Range(g[n]) <=> \E i \in 1..n : b \in Range(piece[i]))}
<1>1. 0 \in D
  <2>1. g[0] \in Seq(S) /\ Len(g[0]) = 0
    BY DEF Gathers
  <2>2. ~(b \in Range(g[0]))
    BY <2>1, RangeOf
  <2>3. 1..0 = {}
    OBVIOUS
  <2> QED
    BY <2>2, <2>3
<1>2. ASSUME NEW n \in Nat, n \in D PROVE n + 1 \in D
  <2> SUFFICES ASSUME n + 1 <= m
               PROVE  b \in Range(g[n + 1]) <=> \E i \in 1..(n + 1) : b \in Range(piece[i])
    OBVIOUS
  <2>1. b \in Range(g[n]) <=> \E i \in 1..n : b \in Range(piece[i])
    BY <1>2
  <2>2. n + 1 \in 1..m /\ (n + 1) - 1 = n /\ n \in 0..m
    OBVIOUS
  <2>3. g[n + 1] = g[n] \o piece[n + 1] /\ g[n] \in Seq(S) /\ piece[n + 1] \in Seq(S)
    BY <2>2 DEF Gathers
  <2>4. b \in Range(g[n + 1]) <=> b \in Range(g[n]) \/ b \in Range(piece[n + 1])
    BY <2>3, RangeConcat
  <2>5. \A i : i \in 1..(n + 1) <=> i \in 1..n \/ i = n + 1
    OBVIOUS
  <2> QED
    BY <2>1, <2>4, <2>5
<1>3. Nat \subseteq D
  <2> HIDE DEF D
  <2> QED
    BY <1>1, <1>2, SetInduction
<1> QED
  BY <1>3

Octets == Seq(Nat \X Nat)

\* An OBU that is handed out and not dropped for its type.
KeptBytes(bytes, obus) == bytes # <<>> /\ ~SkippedObu(obus[bytes[1][1]])

LEMMA HandedOutIs ==
    ASSUME NEW packet, NEW obus, Complete(packet) \in Nat,
           \A i \in 1..Complete(packet) : ObuBuffer(packet, i) \in Octets
    PROVE  /\ HandedOut(packet, obus) \in Seq(Octets)
           /\ \A b : b \in Range(HandedOut(packet, obus)) <=>
                 \E i \in 1..Complete(packet) :
                     b = ObuBuffer(packet, i) /\ KeptBytes(b, obus)
<1> DEFINE m == Complete(packet)
           it(i) == IF KeptBytes(ObuBuffer(packet, i), obus) THEN <<ObuBuffer(packet, i)>>
                    ELSE <<>>
           Def(f) == f = [i \in 0..m |-> IF i = 0 THEN <<>> ELSE f[i - 1] \o it(i)]
           u == CHOOSE f : Def(f)
           piece == [i \in 1..m |-> it(i)]
           step == [i \in 1..m |-> [v \in Seq(Octets) |-> v \o piece[i]]]
<1>1. HandedOut(packet, obus) = u[m]
  BY DEF HandedOut, KeptBytes
<1>2. m \in Nat /\ \A i \in 1..m : it(i) \in Seq(Octets)
  <2> SUFFICES ASSUME NEW i \in 1..m PROVE it(i) \in Seq(Octets)
    OBVIOUS
  <2> PICK b \in Octets : b = ObuBuffer(packet, i)
    OBVIOUS
  <2>1. <<b>> \in Seq(Octets) /\ <<>> \in Seq(Octets)
    BY SingletonSeq
  <2> QED
    BY <2>1
<1>3. \A i \in 1..m : \A b :
         b \in Range(it(i)) <=> b = ObuBuffer(packet, i) /\ KeptBytes(b, obus)
  <2> SUFFICES ASSUME NEW i \in 1..m, NEW b
               PROVE  b \in Range(it(i)) <=> b = ObuBuffer(packet, i) /\ KeptBytes(b, obus)
    OBVIOUS
  <2> PICK o : o = ObuBuffer(packet, i)
    OBVIOUS
  <2>1. CASE KeptBytes(o, obus)
    <3>1. it(i) = <<o>> /\ Len(<<o>>) = 1 /\ <<o>>[1] = o
      BY <2>1
    <3>2. b \in Range(<<o>>) <=> b = o
      BY <3>1 DEF Range
    <3> QED
      BY <2>1, <3>1, <3>2
  <2>2. CASE ~KeptBytes(o, obus)
    <3>1. it(i) = <<>> /\ Range(<<>>) = {}
      BY <2>2 DEF Range
    <3> QED
      BY <2>2, <3>1
  <2> QED
    BY <2>1, <2>2
<1> HIDE DEF m, it
<1>4. piece \in [1..m -> Seq(Octets)] /\ \A i \in 1..m : piece[i] = it(i)
  BY <1>2
<1> HIDE DEF piece
<1>5. <<>> \in Seq(Octets) /\ step \in [1..m -> [Seq(Octets) -> Seq(Octets)]]
  <2>1. \A v, w \in Seq(Octets) : v \o w \in Seq(Octets)
    BY ConcatProperties
  <2> QED
    BY <1>2, <1>4, <2>1
<1>6. PICK g : Iterates(g, m, Seq(Octets), <<>>, step)
  <2> HIDE DEF step
  <2> QED
    BY <1>2, <1>5, IterationExists
<1>7. \A i \in 1..m : g[i] = g[i - 1] \o piece[i]
  <2> SUFFICES ASSUME NEW i \in 1..m PROVE g[i] = g[i - 1] \o piece[i]
    OBVIOUS
  <2>1. step[i] = [v \in Seq(Octets) |-> v \o piece[i]]
    OBVIOUS
  <2> HIDE DEF step
  <2>2. i - 1 \in 0..m
    BY <1>2
  <2>3. g[i - 1] \in Seq(Octets) /\ g[i] = step[i][g[i - 1]]
    BY <1>6, <2>2 DEF Iterates
  <2> QED
    BY <2>1, <2>3
<1>8. Gathers(g, m, Octets, piece)
  BY <1>4, <1>6, <1>7 DEF Iterates, Gathers
<1>9. Def(g)
  <2> DEFINE next(i) == g[i - 1] \o it(i)
  <2>1. g \in [0..m -> Seq(Octets)] /\ g[0] = <<>>
    BY <1>8 DEF Gathers
  <2>2. \A i \in 1..m : g[i] = next(i)
    BY <1>4, <1>7
  <2> HIDE DEF next
  <2>3. \A i \in 0..m : g[i] = IF i = 0 THEN <<>> ELSE next(i)
    <3>1. \A i \in 0..m : i = 0 \/ i \in 1..m
      BY <1>2
    <3>2. \A i \in 1..m : i # 0
      BY <1>2
    <3> QED
      BY <2>1, <2>2, <3>1, <3>2
  <2>4. g = [i \in 0..m |-> IF i = 0 THEN <<>> ELSE next(i)]
    BY <2>1, <2>3
  <2> QED
    BY <2>4 DEF next
<1>10. Def(u)
  <2> HIDE DEF Def
  <2> QED
    BY <1>9
<1> HIDE DEF u
<1>11. u[0] = <<>> /\ \A i \in 1..m : u[i] = u[i - 1] \o piece[i]
  <2> DEFINE next(i) == u[i - 1] \o it(i)
  <2>1. u = [i \in 0..m |-> IF i = 0 THEN <<>> ELSE next(i)]
    BY <1>10
  <2> HIDE DEF next
  <2>2. 0 \in 0..m /\ \A i \in 1..m : i \in 0..m /\ i # 0
    BY <1>2
  <2>3. u[0] = <<>> /\ \A i \in 1..m : u[i] = next(i)
    BY <2>1, <2>2
  <2> QED
    BY <1>4, <2>3 DEF next
<1>12. \A i \in 0..m : g[i] = u[i]
  <2>1. StepAlike(g, u, m)
    BY <1>8, <1>11 DEF Gathers, StepAlike
  <2> QED
    BY <1>2, <2>1, IterationUnique
<1>13. u[m] = g[m] /\ g[m] \in Seq(Octets)
  BY <1>2, <1>8, <1>12 DEF Gathers
<1>14. \A b : b \in Range(u[m]) <=> \E i \in 1..m : b \in Range(piece[i])
  <2>1. m \in Nat /\ Gathers(g, m, Octets, piece)
    BY <1>2, <1>8
  <2>2. \A b : b \in Range(g[m]) <=> \E i \in 1..m : b \in Range(piece[i])
    BY ONLY <2>1, Gathered
  <2> QED
    BY <1>13, <2>2
<1> QED
  BY <1>1, <1>3, <1>4, <1>13, <1>14 DEF m

-----------------------------------------------------------------------------
(* The receiver.                                                           *)

LEMMA BytesFirst ==
    ASSUME NEW k \in Nat, NEW to \in Nat, to > 0
    PROVE  /\ Bytes(k, 0, to) \in Octets /\ Bytes(k, 0, to) # <<>>
           /\ Bytes(k, 0, to)[1] = <<k, 0>>
<1>0. 0 \in Nat /\ 0 <= to
  OBVIOUS
<1>1. /\ Bytes(k, 0, to) \in Seq(Nat \X Nat) /\ Len(Bytes(k, 0, to)) = to - 0
      /\ \A i \in 1..(to - 0) : Bytes(k, 0, to)[i] = <<k, 0 + i - 1>>
  BY <1>0, BytesType
<1> PICK s : s = Bytes(k, 0, to)
  OBVIOUS
<1>2. Len(s) = to /\ s \in Octets
  BY <1>1 DEF Octets
<1>3. s # <<>>
  BY <1>2
<1>4. s[1] = <<k, 0>>
  <2>1. 1 \in 1..(to - 0) /\ 0 + 1 - 1 = 0
    OBVIOUS
  <2> QED
    BY <1>1, <2>1
<1> QED
  BY <1>2, <1>3, <1>4

LEMMA JoinFirst ==
    ASSUME NEW s \in Octets, s # <<>>, NEW t \in Octets
    PROVE  s \o t \in Octets /\ s \o t # <<>> /\ (s \o t)[1] = s[1]
<1>1. /\ s \o t \in Octets /\ Len(s) \in Nat /\ Len(t) \in Nat
      /\ Len(s \o t) = Len(s) + Len(t)
      /\ \A i \in 1..Len(s) : (s \o t)[i] = s[i]
  BY ConcatGrows DEF Octets
<1>2. Len(s) > 0
  BY <1>1, EmptySeq DEF Octets
<1>3. 1 \in 1..Len(s) /\ Len(s \o t) # 0
  BY <1>1, <1>2
<1> QED
  BY <1>1, <1>3

\* A packet handed over, and how it goes on with the one before it.
LEMMA NextPacket ==
    ASSUME SenderInv, NEW p \in 1..Len(packets)
    PROVE  /\ packets[p] \in PacketType /\ SoundPacket(packets[p])
           /\ Len(packets[p].elems) \in Nat /\ Len(packets[p].elems) >= 1
           /\ packets[p].z =>
                 /\ p > 1 /\ p - 1 \in 1..Len(packets) /\ packets[p - 1].y
                 /\ packets[p].elems[1].obu = LastElement(packets[p - 1]).obu
                 /\ packets[p].elems[1].from = LastElement(packets[p - 1]).to
           /\ p > 1 /\ packets[p - 1].y =>
                 packets[p].elems[1].obu = LastElement(packets[p - 1]).obu
           /\ packets[p].y <=> ~Ends(LastElement(packets[p]))
<1>1. /\ packets \in Seq(PacketType) /\ Chain(packets) /\ Closed(packets)
      /\ given \in Seq(ObuType) /\ Len(packets) \in Nat
  BY LenProperties DEF SenderInv, SenderTypeOK
<1>2. \A q \in 1..Len(packets) :
         /\ packets[q] \in PacketType /\ SoundPacket(packets[q])
         /\ IF q = 1 THEN ~packets[q].z ELSE Leads(packets[q - 1], packets[q])
  BY <1>1, ElementOfSeq DEF Chain, Position
<1> PICK x : x = packets[p]
  OBVIOUS
<1>3. x \in PacketType /\ SoundPacket(x) /\ Len(x.elems) \in Nat /\ Len(x.elems) >= 1
  BY <1>1, <1>2, SoundFacts
<1>4. x.z <=> x.elems[1].from # 0
  BY <1>3 DEF SoundPacket
<1>5. ASSUME p > 1
      PROVE  /\ p - 1 \in 1..Len(packets)
             /\ x.z => /\ packets[p - 1].y
                       /\ x.elems[1].obu = LastElement(packets[p - 1]).obu
                       /\ x.elems[1].from = LastElement(packets[p - 1]).to
             /\ packets[p - 1].y => x.elems[1].obu = LastElement(packets[p - 1]).obu
  <2>1. p - 1 \in 1..Len(packets) /\ p # 1
    BY <1>1, <1>5
  <2> PICK y : y = packets[p - 1]
    OBVIOUS
  <2> PICK e, f : e = LastElement(y) /\ f = x.elems[1]
    OBVIOUS
  <2>2. Follows(e, f) /\ (y.y <=> ~Ends(e))
    BY <1>2, <2>1 DEF Leads
  <2>3. ASSUME x.z PROVE y.y /\ f.obu = e.obu /\ f.from = e.to
    <3>1. f.from # 0
      BY <1>4, <2>3
    <3>2. f.obu = e.obu /\ f.from = e.to
      BY <2>2, <3>1 DEF Follows
    <3>3. 1 \in 1..Len(x.elems)
      BY <1>3
    <3>4. SoundElement(f) /\ f \in ElementType
      BY <1>3, <3>3, PacketFacts DEF SoundPacket, Position
    <3>5. f.from < ObuLen(given[f.obu])
      <4>1. f.obu \in 1..Len(given) /\ f.from \in Nat /\ f.to \in Nat
        BY <3>4 DEF ElementType
      <4>2. ObuLen(given[f.obu]) \in Nat
        BY <1>1, <4>1, ObuFacts
      <4>3. f.from < f.to /\ f.to <= ObuLen(given[f.obu])
        BY <3>4 DEF SoundElement
      <4> QED
        BY <4>1, <4>2, <4>3
    <3>6. f.from \in Nat /\ ObuLen(given[f.obu]) \in Nat
      BY <1>1, <3>4, ObuFacts DEF ElementType
    <3>7. ~Ends(e)
      BY <3>2, <3>5, <3>6 DEF Ends
    <3> QED
      BY <2>2, <3>2, <3>7
  <2>4. ASSUME y.y PROVE f.obu = e.obu
    BY <2>2, <2>4 DEF Follows
  <2> QED
    BY <2>1, <2>3, <2>4
<1>6. ~(p > 1) => p = 1 /\ ~x.z
  BY <1>2
<1>7. x.y <=> ~Ends(LastElement(x))
  <2>1. CASE p = Len(packets)
    <3>1. packets # <<>>
      BY <1>1, EmptySeq
    <3>2. ~packets[p].y /\ Ends(LastElement(packets[p]))
      BY <1>1, <2>1, <3>1 DEF Closed
    <3> QED
      BY <3>2
  <2>2. CASE p # Len(packets)
    <3>1. p + 1 \in 1..Len(packets) /\ p + 1 # 1 /\ (p + 1) - 1 = p
      BY <1>1, <2>2
    <3>2. Leads(packets[p], packets[p + 1])
      BY <1>2, <3>1
    <3> QED
      BY <3>2 DEF Leads
  <2> QED
    BY <2>1, <2>2
<1> QED
  BY <1>3, <1>5, <1>6, <1>7

\* What the receiver has of an OBU, up to and with the element e.
FromSender(bytes, e) ==
    /\ bytes \in Octets
    /\ Intact(e.obu) => bytes = Bytes(e.obu, 0, e.to)
    /\ bytes # <<>> =>
          /\ bytes[1][2] = 0 /\ bytes[1][1] \in Position(given)
          /\ bytes = Bytes(e.obu, 0, e.to) \/ ~Intact(bytes[1][1])

LEMMA BufferIs ==
    ASSUME SenderInv, ReceiverInv, rcvd < Len(packets), NEW x, x = packets[rcvd + 1],
           NEW i \in 1..Len(x.elems)
    PROVE  FromSender(ObuBuffer(x, i), x.elems[i])
<1>1. /\ given \in Seq(ObuType) /\ Len(packets) \in Nat /\ rcvd \in Nat /\ buffer \in Octets
  BY LenProperties DEF SenderInv, SenderTypeOK, ReceiverInv, ReceiverTypeOK, Octets
<1> PICK p : p = rcvd + 1
  OBVIOUS
<1>2. p \in 1..Len(packets)
  BY <1>1
<1>3. x \in PacketType /\ SoundPacket(x) /\ Len(x.elems) \in Nat
  BY <1>2, NextPacket
<1> PICK e : e = x.elems[i]
  OBVIOUS
<1>4. /\ e \in ElementType /\ e.obu \in 1..Len(given) /\ e.from \in Nat /\ e.to \in Nat
      /\ e.from < e.to /\ (i > 1 => e.from = 0)
      /\ x.z <=> x.elems[1].from # 0
      /\ x.n => ~x.z
  BY <1>3, PacketFacts DEF SoundPacket, SoundElement, Position
<1>5. e.obu \in Nat /\ e.to > 0 /\ 0 \in Nat
  BY <1>4
<1>6. /\ Bytes(e.obu, 0, e.to) \in Octets /\ Bytes(e.obu, 0, e.to) # <<>>
      /\ Bytes(e.obu, 0, e.to)[1] = <<e.obu, 0>>
  BY <1>4, <1>5, BytesFirst
<1>7. CASE ~(i = 1 /\ x.z)
  <2>1. ObuBuffer(x, i) = Bytes(e.obu, e.from, e.to)
    BY <1>7 DEF ObuBuffer, ElementBytes
  <2>2. e.from = 0
    <3>1. i = 1 \/ i > 1
      BY <1>3
    <3> QED
      BY <1>4, <1>7, <3>1
  <2>3. ObuBuffer(x, i) = Bytes(e.obu, 0, e.to)
    BY <2>1, <2>2
  <2> PICK b : b = ObuBuffer(x, i)
    OBVIOUS
  <2>4. b \in Octets /\ b = Bytes(e.obu, 0, e.to) /\ b[1] = <<e.obu, 0>>
    BY <1>6, <2>3
  <2>5. b[1][1] = e.obu /\ b[1][2] = 0
    BY ONLY <2>4
  <2>6. e.obu \in Position(given)
    BY <1>4 DEF Position
  <2> QED
    BY <2>4, <2>5, <2>6 DEF FromSender
<1>8. CASE i = 1 /\ x.z
  <2>1. BufferOn(x) = buffer
    BY <1>4, <1>8 DEF BufferOn
  <2>2. ObuBuffer(x, i) = IF buffer = <<>> THEN <<>> ELSE buffer \o Bytes(e.obu, e.from, e.to)
    BY <1>8, <2>1 DEF ObuBuffer, ElementBytes
  <2>3. p > 1 /\ p - 1 = rcvd
    BY <1>1, <1>2, <1>8, NextPacket
  <2> PICK last : last = LastElement(packets[rcvd])
    OBVIOUS
  <2>4. packets[rcvd].y /\ e.obu = last.obu /\ e.from = last.to
    BY <1>2, <1>8, <2>3, NextPacket
  <2>5. rcvd > 0
    BY <1>1, <2>3
  <2>6. Intact(e.obu) => buffer = Bytes(e.obu, 0, e.from)
    BY <2>4, <2>5 DEF ReceiverInv, BufferInv
  <2>7. buffer # <<>> =>
          /\ buffer[1][2] = 0 /\ buffer[1][1] \in Position(given)
          /\ ~Intact(buffer[1][1]) \/ buffer = Bytes(e.obu, 0, e.from)
    BY <2>4 DEF ReceiverInv, BufferInv
  <2>8. e.from > 0
    BY <1>4, <1>8
  <2>9. /\ Bytes(e.obu, 0, e.from) # <<>>
        /\ Bytes(e.obu, 0, e.from) \o Bytes(e.obu, e.from, e.to) = Bytes(e.obu, 0, e.to)
        /\ Bytes(e.obu, e.from, e.to) \in Octets
    <3>1. Bytes(e.obu, 0, e.from) # <<>>
      BY <1>4, <1>5, <2>8, BytesFirst
    <3>2. e.from <= e.to
      BY <1>4
    <3>3. e.obu \in Nat /\ e.from \in Nat /\ e.to \in Nat
      BY <1>4, <1>5
    <3>4. Bytes(e.obu, 0, e.from) \o Bytes(e.obu, e.from, e.to) = Bytes(e.obu, 0, e.to)
      BY ONLY <3>2, <3>3, BytesPrefix
    <3>5. Bytes(e.obu, e.from, e.to) \in Seq(Nat \X Nat)
      BY ONLY <3>2, <3>3, BytesType
    <3> QED
      BY <3>1, <3>4, <3>5 DEF Octets
  <2>10. CASE buffer = <<>>
    <3>1. ObuBuffer(x, i) = <<>> /\ ~Intact(e.obu)
      BY <2>2, <2>6, <2>9, <2>10
    <3>2. <<>> \in Octets
      BY DEF Octets
    <3> QED
      BY <3>1, <3>2 DEF FromSender
  <2>11. CASE buffer # <<>>
    <3> PICK b : b = ObuBuffer(x, i)
      OBVIOUS
    <3>1. b = buffer \o Bytes(e.obu, e.from, e.to)
      BY <2>2, <2>11
    <3> PICK t, s : t = Bytes(e.obu, e.from, e.to) /\ s = buffer
      OBVIOUS
    <3>5. s \in Octets /\ s # <<>> /\ t \in Octets
      BY <1>1, <2>9, <2>11
    <3>6. s \o t \in Octets /\ s \o t # <<>> /\ (s \o t)[1] = s[1]
      BY ONLY <3>5, JoinFirst
    <3>2. b \in Octets /\ b # <<>> /\ b[1] = buffer[1]
      BY <3>1, <3>6
    <3>3. Intact(e.obu) => b = Bytes(e.obu, 0, e.to)
      BY <2>6, <2>9, <3>1
    <3>4. b = Bytes(e.obu, 0, e.to) \/ ~Intact(b[1][1])
      BY <2>7, <2>9, <2>11, <3>1, <3>2
    <3> QED
      BY <2>7, <2>11, <3>2, <3>3, <3>4 DEF FromSender
  <2> QED
    BY <2>10, <2>11
<1> QED
  BY <1>7, <1>8

\* The elements that end in a packet are those it completes.
LEMMA CompleteEnds ==
    ASSUME SenderInv, NEW p \in 1..Len(packets), NEW x, x = packets[p]
    PROVE  /\ Complete(x) \in Nat /\ Complete(x) <= Len(x.elems)
           /\ \A i \in 1..Len(x.elems) : i \in 1..Complete(x) <=> Ends(x.elems[i])
<1>1. /\ x \in PacketType /\ SoundPacket(x) /\ Len(x.elems) \in Nat /\ Len(x.elems) >= 1
      /\ x.y <=> ~Ends(LastElement(x))
  BY NextPacket
<1> PICK n \in Nat : n = Len(x.elems) /\ n >= 1
  BY <1>1
<1> PICK m : m = Complete(x)
  OBVIOUS
<1>2. /\ x.y => m = n - 1
      /\ ~x.y => m = n
  <2>1. CASE x.y
    <3>1. m = n - 1
      BY <2>1 DEF Complete
    <3> QED
      BY <2>1, <3>1
  <2>2. CASE ~x.y
    <3>1. m = n - 0
      BY <2>2 DEF Complete
    <3> QED
      BY <2>2, <3>1
  <2> QED
    BY <2>1, <2>2
<1>3. m \in Nat /\ m <= n
  <2>1. x.y \in BOOLEAN
    BY <1>1, PacketFacts
  <2> QED
    BY <1>1, <1>2, <2>1
<1>4. ASSUME NEW i \in 1..n PROVE i \in 1..m <=> Ends(x.elems[i])
  <2>1. CASE i = n
    <3>1. x.elems[i] = LastElement(x)
      BY <2>1 DEF LastElement
    <3>2. i \in 1..m <=> ~x.y
      BY <1>2, <1>3, <2>1
    <3> QED
      BY <1>1, <3>1, <3>2
  <2>2. CASE i # n
    <3>1. i + 1 \in 1..n /\ i + 1 > 1 /\ (i + 1) - 1 = i /\ i \in 1..m
      BY <1>2, <1>3, <2>2
    <3> PICK e, f : e = x.elems[i] /\ f = x.elems[i + 1]
      OBVIOUS
    <3>2. f.from = 0 /\ Follows(e, f)
      BY <1>1, <3>1 DEF SoundPacket, Position
    <3>3. e.from \in Nat /\ e.to \in Nat /\ e.from < e.to
      BY <1>1, PacketFacts DEF SoundPacket, SoundElement, Position
    <3>4. f.from # e.to
      BY <3>2, <3>3
    <3>5. Ends(e)
      BY <3>2, <3>4 DEF Follows
    <3> QED
      BY <3>1, <3>5
  <2> QED
    BY <2>1, <2>2
<1> QED
  BY <1>3, <1>4

\* An element of a sound packet.
LEMMA SoundIs ==
    ASSUME NEW x \in PacketType, SoundPacket(x), NEW i \in 1..Len(x.elems), NEW e, e = x.elems[i]
    PROVE  /\ e.obu \in 1..Len(given) /\ e.obu \in Nat /\ e.from \in Nat /\ e.to \in Nat
           /\ e.from < e.to /\ e.to > 0
           /\ e.to <= ObuLen(given[e.obu]) /\ ~SkippedObu(given[e.obu])
<1>1. e.obu \in 1..Len(given) /\ e.from \in Nat /\ e.to \in Nat
  BY PacketFacts
<1>2. SoundElement(e)
  BY DEF SoundPacket, Position
<1>3. e.from < e.to /\ e.to <= ObuLen(given[e.obu]) /\ ~SkippedObu(given[e.obu])
  BY <1>2 DEF SoundElement
<1>4. e.obu \in Nat
  BY <1>1
<1>5. e.to > 0
  BY <1>1, <1>3
<1> QED
  BY <1>1, <1>3, <1>4, <1>5

LEMMA ReceiveStep ==
    ASSUME SenderInv, ReceiverInv, Receive PROVE ReceiverInv'
<1> PICK p : p = rcvd + 1
  OBVIOUS
<1> PICK x : x = packets[p]
  OBVIOUS
<1>1. /\ rcvd < Len(packets) /\ rcvd' = p /\ given' = given /\ packets' = packets /\ lost' = lost
      /\ Depacketize(x, given)
  BY DEF Receive, packetizerVars
<1>2. /\ given \in Seq(ObuType) /\ Len(packets) \in Nat /\ rcvd \in Nat
      /\ lost \subseteq 1..rcvd /\ delivered \in Seq(Octets) /\ buffer \in Octets
  BY LenProperties
     DEF SenderInv, SenderTypeOK, ReceiverInv, ReceiverTypeOK, Octets
<1>3. p \in 1..Len(packets) /\ p > 0
  BY <1>1, <1>2
<1>4. /\ x \in PacketType /\ SoundPacket(x) /\ Len(x.elems) \in Nat /\ Len(x.elems) >= 1
      /\ x.y <=> ~Ends(LastElement(x))
  BY <1>3, NextPacket
<1> PICK n \in Nat : n = Len(x.elems) /\ n >= 1
  BY <1>4
<1> PICK m : m = Complete(x)
  OBVIOUS
<1>5. /\ m \in Nat /\ m <= n
      /\ \A i \in 1..n : i \in 1..m <=> Ends(x.elems[i])
  BY <1>3, CompleteEnds
<1>6. \A i \in 1..n : FromSender(ObuBuffer(x, i), x.elems[i])
  <2> SUFFICES ASSUME NEW i \in 1..n PROVE FromSender(ObuBuffer(x, i), x.elems[i])
    OBVIOUS
  <2>1. i \in 1..Len(x.elems) /\ x = packets[rcvd + 1]
    OBVIOUS
  <2> QED
    BY <1>1, <2>1, BufferIs
<1>7. x.elems # <<>>
  BY <1>4 DEF SoundPacket
<1> PICK out : out = HandedOut(x, given)
  OBVIOUS
<1>8. /\ buffer' = IF x.y THEN ObuBuffer(x, n) ELSE BufferLeft(x)
      /\ out_frame' = out /\ delivered' = delivered \o out /\ outcome' = "true"
  BY <1>1, <1>7 DEF Depacketize, RefuseEmpty
<1>9. /\ out \in Seq(Octets)
      /\ \A b : b \in Range(out) <=>
            \E i \in 1..m : b = ObuBuffer(x, i) /\ KeptBytes(b, given)
  <2>1. \A i \in 1..m : ObuBuffer(x, i) \in Octets
    <3>1. \A i \in 1..m : i \in 1..n
      BY <1>5
    <3> QED
      BY <1>6, <3>1 DEF FromSender
  <2>2. Complete(x) \in Nat /\ \A i \in 1..Complete(x) : ObuBuffer(x, i) \in Octets
    BY <1>5, <2>1
  <2>3. /\ HandedOut(x, given) \in Seq(Octets)
        /\ \A b : b \in Range(HandedOut(x, given)) <=>
              \E i \in 1..Complete(x) : b = ObuBuffer(x, i) /\ KeptBytes(b, given)
    BY ONLY <2>2, HandedOutIs
  <2> QED
    BY <2>3
<1>10. /\ delivered' \in Seq(Octets)
       /\ \A b : b \in Range(delivered') <=> b \in Range(delivered) \/ b \in Range(out)
  BY <1>2, <1>8, <1>9, RangeConcat, ConcatProperties
<1>11. /\ \A k : CarriedBy(k)' = CarriedBy(k)
       /\ \A k : Intact(k)' <=> Intact(k)
       /\ \A k : Whole(k)' = Whole(k)
       /\ Position(given)' = Position(given)
  BY <1>1 DEF CarriedBy, Intact, Whole, Position
<1>12. n \in 1..n /\ x.elems[n] = LastElement(x)
  BY DEF LastElement
<1>13. buffer' \in Octets /\ BufferInv'
  <2>1. CASE x.y
    <3> PICK b, e : b = buffer' /\ e = LastElement(x)
      OBVIOUS
    <3>1. FromSender(b, e)
      BY <1>6, <1>8, <1>12, <2>1
    <3>2. /\ b \in Octets
          /\ Intact(e.obu) => b = Bytes(e.obu, 0, e.to)
          /\ b # <<>> => /\ b[1][2] = 0 /\ b[1][1] \in Position(given)
                         /\ b = Bytes(e.obu, 0, e.to) \/ ~Intact(b[1][1])
      BY <3>1 DEF FromSender
    <3>3. LastElement(packets[rcvd])' = e /\ packets'[rcvd'] = x
      BY <1>1 DEF LastElement
    <3>4. BufferInv'
      BY <1>1, <1>3, <1>11, <2>1, <3>2, <3>3 DEF BufferInv
    <3> QED
      BY <3>2, <3>4
  <2>2. CASE ~x.y
    <3>1. buffer' = <<>>
      BY <1>8, <2>2 DEF BufferLeft, BufferOn
    <3>2. packets'[rcvd'].y = x.y
      BY <1>1
    <3>3. BufferInv'
      BY <2>2, <3>1, <3>2 DEF BufferInv
    <3> QED
      BY <3>1, <3>3 DEF Octets
  <2> QED
    BY <2>1, <2>2
<1>14. ReceiverTypeOK'
  <2>1. rcvd' \in 0..Len(packets') /\ lost' \subseteq 1..rcvd'
    BY <1>1, <1>2, <1>3
  <2>2. outcome' \in {"none", "true", "false"} /\ out_frame' \in Seq(Octets)
    BY <1>8, <1>9
  <2> QED
    BY <1>10, <1>13, <2>1, <2>2 DEF ReceiverTypeOK, Octets
<1>15. ASSUME NEW b, b \in Range(out)
       PROVE  /\ b # <<>> /\ b[1][2] = 0 /\ ObuOf(b) \in Position(given)
              /\ b = Whole(ObuOf(b)) \/ ~Intact(ObuOf(b))
  <2>1. PICK i \in 1..m : b = ObuBuffer(x, i) /\ KeptBytes(b, given)
    BY <1>9, <1>15
  <2>2. i \in 1..n /\ Ends(x.elems[i])
    BY <1>5
  <2> PICK e : e = x.elems[i]
    OBVIOUS
  <2>3. /\ b # <<>> /\ b[1][2] = 0 /\ b[1][1] \in Position(given)
        /\ b = Bytes(e.obu, 0, e.to) \/ ~Intact(b[1][1])
    BY <1>6, <2>1, <2>2 DEF FromSender, KeptBytes
  <2>4. Bytes(e.obu, 0, e.to) = Whole(e.obu) /\ Bytes(e.obu, 0, e.to)[1] = <<e.obu, 0>>
    <3>1. e.obu \in Nat /\ e.to \in Nat /\ e.to > 0
      BY <1>4, <2>2, PacketFacts DEF SoundPacket, SoundElement, Position
    <3> QED
      BY <2>2, <3>1, BytesFirst DEF Ends, Whole
  <2>5. b = Bytes(e.obu, 0, e.to) => b[1][1] = e.obu
    BY <2>4
  <2> QED
    BY <2>3, <2>4, <2>5 DEF ObuOf
<1>16. DeliveredInv'
  <2> SUFFICES ASSUME NEW b, b \in Range(delivered')
               PROVE  /\ b # <<>> /\ b[1][2] = 0 /\ ObuOf(b) \in Position(given)
                      /\ b = Whole(ObuOf(b)) \/ ~Intact(ObuOf(b))
    <3>1. \A i \in 1..Len(delivered') : delivered'[i] \in Range(delivered')
      BY <1>10, RangeOf
    <3> QED
      BY <1>11, <3>1 DEF DeliveredInv, Position, ObuOf
  <2>1. CASE b \in Range(out)
    BY <1>15, <2>1
  <2>2. CASE b \in Range(delivered)
    <3>1. PICK i \in 1..Len(delivered) : delivered[i] = b
      BY <1>2, <2>2, RangeOf
    <3> QED
      BY <3>1 DEF ReceiverInv, DeliveredInv, Position
  <2> QED
    BY <1>10, <2>1, <2>2
<1>17. ArrivedInv'
  <2> SUFFICES ASSUME NEW q \in 1..p, NEW i \in 1..Len(packets[q].elems),
                      Ends(packets[q].elems[i]), Intact(packets[q].elems[i].obu)
               PROVE  Whole(packets[q].elems[i].obu) \in Range(delivered')
    <3>1. \A e : Ends(e)' <=> Ends(e)
      BY <1>1 DEF Ends
    <3> QED
      BY <1>1, <1>11, <3>1 DEF ArrivedInv, Position
  <2> PICK e : e = packets[q].elems[i]
    OBVIOUS
  <2>1. CASE q = p
    <3>1. i \in 1..n /\ i \in 1..m /\ e = x.elems[i]
      BY <1>5, <2>1
    <3>2. ObuBuffer(x, i) = Bytes(e.obu, 0, e.to)
      BY <1>6, <3>1 DEF FromSender
    <3>3. e.obu \in Nat /\ e.to \in Nat /\ e.to > 0 /\ ~SkippedObu(given[e.obu])
      BY <1>4, <3>1, SoundIs
    <3>4. Bytes(e.obu, 0, e.to) # <<>> /\ Bytes(e.obu, 0, e.to)[1] = <<e.obu, 0>>
      BY <3>3, BytesFirst
    <3>5. Bytes(e.obu, 0, e.to) = Whole(e.obu)
      BY DEF Ends, Whole
    <3> PICK b : b = Whole(e.obu)
      OBVIOUS
    <3>6. b # <<>> /\ b[1][1] = e.obu
      BY <3>4, <3>5
    <3>7. KeptBytes(b, given)
      BY <3>3, <3>6 DEF KeptBytes
    <3>8. b \in Range(out)
      BY <1>9, <3>1, <3>2, <3>5, <3>7
    <3> QED
      BY <1>10, <3>8
  <2>2. CASE q # p
    <3>1. q \in 1..rcvd
      BY <1>2, <2>2
    <3> QED
      BY <1>10, <3>1 DEF ReceiverInv, ArrivedInv, Position
  <2> QED
    BY <2>1, <2>2
<1> QED
  BY <1>13, <1>14, <1>16, <1>17 DEF ReceiverInv

LEMMA LoseStep ==
    ASSUME SenderInv, ReceiverInv, Lose PROVE ReceiverInv'
<1> PICK p : p = rcvd + 1
  OBVIOUS
<1> PICK x : x = packets[p]
  OBVIOUS
<1>1. /\ rcvd < Len(packets) /\ rcvd' = p /\ given' = given /\ packets' = packets
      /\ lost' = lost \cup {p}
      /\ buffer' = buffer /\ out_frame' = out_frame /\ delivered' = delivered
      /\ outcome' = outcome
  BY DEF Lose, packetizerVars, depacketizerVars
<1>2. Len(packets) \in Nat /\ rcvd \in Nat /\ lost \subseteq 1..rcvd
  BY LenProperties DEF SenderInv, SenderTypeOK, ReceiverInv, ReceiverTypeOK
<1>3. p \in 1..Len(packets) /\ p > 0
  BY <1>1, <1>2
<1>4. /\ x \in PacketType /\ Len(x.elems) \in Nat /\ Len(x.elems) >= 1
      /\ p > 1 /\ packets[p - 1].y => x.elems[1].obu = LastElement(packets[p - 1]).obu
  BY <1>3, NextPacket
<1>5. /\ \A k : Intact(k)' => Intact(k)
      /\ \A i \in 1..Len(x.elems) : ~Intact(x.elems[i].obu)'
      /\ \A k : Whole(k)' = Whole(k)
      /\ Position(given)' = Position(given)
  <2>1. \A k : CarriedBy(k)' = CarriedBy(k)
    BY <1>1 DEF CarriedBy, Position
  <2>2. \A k : Intact(k)' => Intact(k)
    BY <1>1, <2>1 DEF Intact
  <2>3. ASSUME NEW i \in 1..Len(x.elems) PROVE ~Intact(x.elems[i].obu)'
    <3> PICK k : k = x.elems[i].obu
      OBVIOUS
    <3>1. p \in CarriedBy(k)
      BY <1>3 DEF CarriedBy, Position
    <3>2. ~Intact(k)'
      BY <1>1, <2>1, <3>1 DEF Intact
    <3> QED
      BY <3>2 DEF Intact, CarriedBy
  <2>4. \A k : Whole(k)' = Whole(k)
    BY <1>1 DEF Whole
  <2>5. Position(given)' = Position(given)
    BY <1>1 DEF Position
  <2> QED
    BY <2>2, <2>3, <2>4, <2>5
<1>6. ReceiverTypeOK'
  <2>1. rcvd' \in 0..Len(packets') /\ lost' \subseteq 1..rcvd'
    BY <1>1, <1>2, <1>3
  <2> QED
    BY <1>1, <2>1 DEF ReceiverInv, ReceiverTypeOK
<1>7. BufferInv'
  <2>1. ASSUME buffer # <<>>
        PROVE  /\ buffer[1][2] = 0 /\ buffer[1][1] \in Position(given)
               /\ ~Intact(buffer[1][1])'
    <3> PICK k : k = buffer[1][1]
      OBVIOUS
    <3>1. /\ buffer[1][2] = 0 /\ k \in Position(given)
          /\ \/ ~Intact(k)
             \/ /\ rcvd > 0 /\ packets[rcvd].y
                /\ buffer = Bytes(LastElement(packets[rcvd]).obu, 0, LastElement(packets[rcvd]).to)
      BY <2>1 DEF ReceiverInv, BufferInv
    <3>2. CASE ~Intact(k)
      <4>1. ~Intact(k)'
        BY <1>5, <3>2
      <4> QED
        BY <1>1, <3>1, <4>1 DEF Intact, CarriedBy
    <3>3. CASE /\ rcvd > 0 /\ packets[rcvd].y
               /\ buffer = Bytes(LastElement(packets[rcvd]).obu, 0, LastElement(packets[rcvd]).to)
      <4> PICK e : e = LastElement(packets[rcvd])
        OBVIOUS
      <4>1. p > 1 /\ p - 1 = rcvd /\ rcvd \in 1..Len(packets)
        BY <1>1, <1>2, <3>3
      <4>2. x.elems[1].obu = e.obu /\ 1 \in 1..Len(x.elems)
        BY <1>4, <3>3, <4>1
      <4>3. e.obu \in Nat /\ e.to \in Nat /\ e.to > 0
        <5>1. /\ packets[rcvd] \in PacketType /\ SoundPacket(packets[rcvd])
              /\ Len(packets[rcvd].elems) \in 1..Len(packets[rcvd].elems)
          BY <4>1, NextPacket
        <5>2. e = packets[rcvd].elems[Len(packets[rcvd].elems)]
          BY DEF LastElement
        <5> QED
          BY <5>1, <5>2, SoundIs
      <4>4. buffer[1] = <<e.obu, 0>>
        BY <3>3, <4>3, BytesFirst
      <4>5. k = x.elems[1].obu
        BY <4>2, <4>4
      <4>6. ~Intact(k)'
        BY <1>5, <4>2, <4>5
      <4> QED
        BY <1>1, <3>1, <4>6 DEF Intact, CarriedBy
    <3> QED
      BY <3>1, <3>2, <3>3
  <2>2. ~Intact(LastElement(packets[rcvd]).obu)'
    <3>1. Len(x.elems) \in 1..Len(x.elems)
      BY <1>4
    <3> PICK k : k = x.elems[Len(x.elems)].obu
      OBVIOUS
    <3>2. ~Intact(k)'
      BY <1>5, <3>1
    <3>3. LastElement(packets[rcvd]).obu' = k
      BY <1>1 DEF LastElement
    <3> QED
      BY <3>2, <3>3 DEF Intact, CarriedBy
  <2> QED
    BY <1>1, <1>5, <2>1, <2>2 DEF BufferInv
<1>8. DeliveredInv'
  BY <1>1, <1>5 DEF ReceiverInv, DeliveredInv, Position, ObuOf
<1>9. ArrivedInv'
  <2>1. \A e : Ends(e)' <=> Ends(e)
    BY <1>1 DEF Ends
  <2> SUFFICES ASSUME NEW q \in 1..p, NEW i \in 1..Len(packets[q].elems),
                      Ends(packets[q].elems[i]), Intact(packets[q].elems[i].obu)'
               PROVE  Whole(packets[q].elems[i].obu) \in Range(delivered)
    BY <1>1, <1>5, <2>1 DEF ArrivedInv, Position, Intact, CarriedBy
  <2>2. q # p
    BY <1>1, <1>5 DEF Intact, CarriedBy
  <2>3. q \in 1..rcvd
    BY <1>2, <2>2
  <2> PICK k : k = packets[q].elems[i].obu
    OBVIOUS
  <2>4. Intact(k)'
    BY <1>1 DEF Intact, CarriedBy
  <2>5. Intact(k)
    BY <1>5, <2>4
  <2> QED
    BY <2>3, <2>5 DEF ReceiverInv, ArrivedInv, Position
<1> QED
  BY <1>6, <1>7, <1>8, <1>9 DEF ReceiverInv

\* What the sender does leaves what the receiver knows of.
LEMMA SendReceiver ==
    ASSUME SenderInv, ReceiverInv, GivenStays,
           UNCHANGED <<depacketizerVars, transportVars>>,
           Len(packets') \in Nat, Len(packets) <= Len(packets'),
           \A p \in 1..Len(packets) : packets'[p] = packets[p]
    PROVE  ReceiverInv'
<1>1. /\ rcvd' = rcvd /\ lost' = lost /\ buffer' = buffer /\ out_frame' = out_frame
      /\ delivered' = delivered /\ outcome' = outcome
  BY DEF depacketizerVars, transportVars
<1>2. /\ Len(packets) \in Nat /\ rcvd \in Nat /\ rcvd <= Len(packets) /\ lost \subseteq 1..rcvd
  BY LenProperties DEF SenderInv, SenderTypeOK, ReceiverInv, ReceiverTypeOK
<1>3. \A p \in 1..rcvd : p \in 1..Len(packets) /\ p \in 1..Len(packets') /\ packets'[p] = packets[p]
  BY <1>2
<1>4. \A k : Intact(k)' <=> Intact(k)
  <2> SUFFICES ASSUME NEW k PROVE Intact(k)' <=> Intact(k)
    OBVIOUS
  <2>1. \A p \in 1..rcvd : p \in CarriedBy(k)' <=> p \in CarriedBy(k)
    BY <1>3 DEF CarriedBy, Position
  <2> QED
    BY <1>1, <1>2, <2>1 DEF Intact
<1>5. \A k \in Position(given) : k \in Position(given)' /\ Whole(k)' = Whole(k)
  BY DEF GivenStays, Position, Whole, ObuLen, ObuHeaderSize
<1>6. ReceiverTypeOK'
  <2>1. rcvd' \in 0..Len(packets')
    BY <1>1, <1>2
  <2> QED
    BY <1>1, <2>1 DEF ReceiverInv, ReceiverTypeOK
<1>7. BufferInv'
  <2>1. rcvd > 0 => packets'[rcvd] = packets[rcvd]
    BY <1>2, <1>3
  <2>2. rcvd > 0 => LastElement(packets[rcvd])' = LastElement(packets[rcvd])
    BY <1>1, <2>1 DEF LastElement
  <2> QED
    BY <1>1, <1>4, <1>5, <2>1, <2>2 DEF ReceiverInv, BufferInv
<1>8. DeliveredInv'
  <2> SUFFICES ASSUME NEW i \in Position(delivered)
               PROVE  /\ delivered[i] # <<>> /\ delivered[i][1][2] = 0
                      /\ ObuOf(delivered[i]) \in Position(given)'
                      /\ \/ delivered[i] = Whole(ObuOf(delivered[i]))'
                         \/ ~Intact(ObuOf(delivered[i]))'
    BY <1>1 DEF DeliveredInv, Position, ObuOf
  <2> PICK k : k = ObuOf(delivered[i])
    OBVIOUS
  <2>1. /\ delivered[i] # <<>> /\ delivered[i][1][2] = 0 /\ k \in Position(given)
        /\ delivered[i] = Whole(k) \/ ~Intact(k)
    BY DEF ReceiverInv, DeliveredInv
  <2>2. Whole(k)' = Whole(k) /\ (Intact(k)' <=> Intact(k)) /\ k \in Position(given)'
    BY <1>4, <1>5, <2>1
  <2>3. delivered[i] = Whole(k)' \/ ~Intact(k)'
    BY <2>1, <2>2
  <2>4. k = ObuOf(delivered[i])'
    BY <1>1 DEF ObuOf
  <2> QED
    BY <1>1, <2>1, <2>2, <2>3 DEF ObuOf, Whole, Intact, CarriedBy
<1>9. ArrivedInv'
  <2> SUFFICES ASSUME NEW p \in 1..rcvd, NEW i \in 1..Len(packets[p].elems),
                      NEW e, e = packets[p].elems[i], Ends(e)', Intact(e.obu)'
               PROVE  Whole(e.obu)' \in Range(delivered)
    BY <1>1, <1>3 DEF ArrivedInv, Position, Ends, Intact, CarriedBy, Whole
  <2>1. e \in ElementType
    BY <1>3, NextPacket, PacketFacts
  <2>2. e.obu \in Position(given)
    BY <2>1 DEF ElementType, Position
  <2>3. Ends(e) /\ Intact(e.obu)
    <3> PICK k : k = e.obu
      OBVIOUS
    <3>1. Intact(k)'
      BY DEF Intact, CarriedBy
    <3>2. Intact(k)
      BY <1>4, <3>1
    <3> QED
      BY <2>1, <3>2, ElementStays
  <2>4. Whole(e.obu) \in Range(delivered)
    BY <2>3 DEF ReceiverInv, ArrivedInv, Position
  <2> PICK k : k = e.obu
    OBVIOUS
  <2>5. Whole(k)' = Whole(k)
    BY <1>5, <2>2
  <2> QED
    BY <2>4, <2>5 DEF Whole
<1> QED
  BY <1>6, <1>7, <1>8, <1>9 DEF ReceiverInv

LEMMA InitHolds ==
    ASSUME Init PROVE SenderInv /\ SequenceInv /\ ReceiverInv
<1>1. /\ given = <<>> /\ call = 0 /\ cur = 0 /\ refused = {} /\ pc = "idle" /\ pending = 0
      /\ need_new_packet = FALSE /\ new_sequence = FALSE /\ start_with_new_packet = FALSE
      /\ current_packet_obu_header = 0 /\ obus_in_packet = 0 /\ to_write = 0 /\ written = 0
      /\ out_packets = <<>> /\ packets = <<>>
      /\ buffer = <<>> /\ out_frame = <<>> /\ delivered = <<>> /\ outcome = "none"
      /\ rcvd = 0 /\ lost = {}
  BY DEF Init, PacketizerInit, DepacketizerInit
<1>2. /\ <<>> \in Seq(ObuType) /\ <<>> \in Seq(PacketType) /\ <<>> \in Seq(Nat \X Nat)
      /\ <<>> \in Seq(Seq(Nat \X Nat)) /\ Len(<<>>) = 0 /\ 1..0 = {}
  OBVIOUS
<1>3. SenderTypeOK /\ ReceiverTypeOK
  <2>1. 0 \in Nat /\ 0..0 = {0} /\ 0 \in 0..0 /\ {} \subseteq 1..0 /\ "idle" # "fragment"
    OBVIOUS
  <2>2. SenderTypeOK
    BY <1>1, <1>2, <2>1, Zenon DEF SenderTypeOK
  <2>3. ReceiverTypeOK
    BY <1>1, <1>2, <2>1, Zenon DEF ReceiverTypeOK
  <2> QED
    BY <2>2, <2>3
<1>4. /\ Position(packets) = {} /\ Position(out_packets) = {} /\ Position(delivered) = {}
      /\ 1..rcvd = {} /\ Finished = 0
  BY <1>1, <1>2 DEF Position, Finished
<1>5. Chain(packets) /\ Closed(packets) /\ Chain(out_packets)
  BY <1>1, <1>4 DEF Chain, Closed
<1>6. CallInv /\ OutInv /\ CarriedNow
  BY <1>1, <1>2 DEF CallInv, OutInv, CarriedNow
<1>7. CarriedBefore
  BY <1>1, <1>2, <1>4 DEF CarriedBefore, Within
<1>8. SequenceInv
  BY <1>1, <1>4 DEF SequenceInv, StartsRight
<1>9. BufferInv /\ DeliveredInv /\ ArrivedInv
  BY <1>1, <1>4 DEF BufferInv, DeliveredInv, ArrivedInv
<1> QED
  BY <1>3, <1>5, <1>6, <1>7, <1>8, <1>9 DEF SenderInv, ReceiverInv

\* A step of the sender: its invariant, and what the receiver relies on.
LEMMA SendStep ==
    ASSUME Mtu >= 3, SenderInv, PacketizerNext
    PROVE  /\ SenderInv' /\ GivenStays
           /\ Len(packets') \in Nat /\ Len(packets) <= Len(packets')
           /\ \A p \in 1..Len(packets) : packets'[p] = packets[p]
<1>1. Len(packets) \in Nat
  BY LenProperties DEF SenderInv, SenderTypeOK
<1>2. ASSUME Working, ~Return PROVE SenderInv' /\ given' = given /\ packets' = packets
  <2>1. given' = given /\ packets' = packets
    BY <1>2 DEF Working, Refuse, Scan, ScanEnd, Take, AppendOBUPayload, Fragment, Appended
  <2>2. SenderInv'
    BY <1>2, RefuseStep, ScanStep, ScanEndStep, TakeStep, AppendStep, FragmentStep, AppendedStep
       DEF Working
  <2> QED
    BY <2>1, <2>2
<1>3. CASE Working /\ ~Return
  BY <1>1, <1>2, <1>3, GivenSame DEF SenderInv
<1>4. CASE Return
  <2>1. SenderInv' /\ packets' = packets \o out_packets
    BY <1>4, ReturnStep
  <2>2. given' = given
    BY <1>4 DEF Return
  <2>3. GivenStays
    BY <2>2, GivenSame DEF SenderInv
  <2>4. packets \in Seq(PacketType) /\ out_packets \in Seq(PacketType)
    BY DEF SenderInv, SenderTypeOK
  <2> PICK s, t : s = packets /\ t = out_packets
    OBVIOUS
  <2>5. /\ Len(s) \in Nat /\ Len(t) \in Nat /\ Len(s \o t) = Len(s) + Len(t)
        /\ \A i \in 1..Len(s) : (s \o t)[i] = s[i]
    BY <2>4, ConcatGrows
  <2> QED
    BY <2>1, <2>3, <2>5
<1>5. CASE \E frame \in Frames : Packetize(frame)
  <2>1. PICK frame \in Frames : Packetize(frame)
    BY <1>5
  <2>2. packets' = packets
    BY <2>1 DEF Packetize
  <2> QED
    BY <1>1, <2>1, <2>2, PacketizeStep
<1> QED
  BY <1>3, <1>4, <1>5 DEF PacketizerNext, Working

-----------------------------------------------------------------------------
(* Where a video sequence begins.                                          *)

\* A step within a call that adds nothing to what it has made.
LEMMA SequenceSame ==
    ASSUME SequenceInv, given' = given, packets' = packets, out_packets' = out_packets,
           call' = call, pc # "idle"
    PROVE  /\ StartsRight(packets)' /\ StartsRight(out_packets)'
           /\ \A k \in call' + 2 .. Len(given') :
                 Starter(k)' => given'[k - 1].type # "tile_list"
BY DEF SequenceInv, StartsRight, Position, Starter

LEMMA ScanSequence ==
    ASSUME SenderInv, SequenceInv, Scan PROVE SequenceInv'
<1>1. /\ given' = given /\ call' = call /\ cur' = cur
      /\ pending' = pending /\ out_packets' = out_packets /\ packets' = packets
      /\ new_sequence' = new_sequence /\ start_with_new_packet' = start_with_new_packet
      /\ pc = "scan" /\ cur < Len(given)
      /\ pc' = (IF pending # 0 THEN "append" ELSE "take")
      /\ need_new_packet' = StartsPacket(Scanned)
  BY DEF Scan, writeVars
<1>2. pc # "idle" /\ pc' # "idle" /\ pc' # "fragment" /\ pc' # "scan"
  BY <1>1
<1>3. cur \in Nat /\ call \in Nat /\ Len(given) \in Nat /\ call <= cur
  BY <1>2, CallFacts DEF SenderInv, CallInv
<1>4. /\ StartsRight(packets)' /\ StartsRight(out_packets)'
      /\ \A k \in call' + 2 .. Len(given') :
            Starter(k)' => given'[k - 1].type # "tile_list"
  BY <1>1, <1>2, SequenceSame
<1>5. (Opens' <=> Opens) /\ \A k : Starter(k)' <=> Starter(k)
  BY <1>1 DEF Opens, Starter
<1>6. pending' # 0 => (new_sequence' <=> given'[pending'].type = "seq")
  BY <1>1, <1>2 DEF SequenceInv
<1>7. Starter(cur + 1) => StartsPacket(Scanned)
  BY DEF Starter, StartsPacket, Scanned
<1>8. pc' \in {"append", "fragment"} /\ cur' < Len(given') /\ Starter(cur + 1)'
         => need_new_packet'
  BY <1>1, <1>5, <1>7 DEF Starter
<1>9. pc' \in {"scan", "append"} /\ pending' # 0 /\ Starter(pending)' => Opens'
  BY <1>1, <1>2, <1>5 DEF SequenceInv, Starter
<1>10. ASSUME pending = 0, Starter(cur + 1) PROVE Opens
  <2>1. CASE call = cur
    BY <1>2, <2>1 DEF SenderInv, CallInv, Opens
  <2>2. CASE call # cur
    <3>1. call < cur
      BY <1>3, <2>2
    <3>2. given[cur].type = "tile_list" \/ (given[cur].type = "td" /\ Opens)
      BY <1>1, <1>2, <1>10, <3>1 DEF SequenceInv
    <3>3. cur + 1 \in call + 2 .. Len(given) /\ (cur + 1) - 1 = cur
      BY <1>1, <1>3, <3>1
    <3>4. given[cur].type # "tile_list"
      BY <1>2, <1>10, <3>3 DEF SequenceInv
    <3> QED
      BY <3>2, <3>4
  <2> QED
    BY <2>1, <2>2
<1>11. pc' = "take" /\ Starter(cur + 1)' => Opens'
  <2>1. pc' = "take" => pending = 0
    BY <1>1
  <2> QED
    BY <1>1, <1>5, <1>10, <2>1 DEF Starter
<1> QED
  BY <1>2, <1>4, <1>6, <1>8, <1>9, <1>11 DEF SequenceInv, Starter

LEMMA ScanEndSequence ==
    ASSUME SenderInv, SequenceInv, ScanEnd PROVE SequenceInv'
<1>1. /\ given' = given /\ call' = call /\ cur' = cur
      /\ pending' = pending /\ out_packets' = out_packets /\ packets' = packets
      /\ new_sequence' = new_sequence /\ start_with_new_packet' = start_with_new_packet
      /\ pc = "scan" /\ need_new_packet' = TRUE /\ pc' = "append"
  BY DEF ScanEnd, writeVars
<1>2. pc # "idle" /\ pc' # "idle" /\ pc' # "fragment" /\ pc' # "scan" /\ pc' # "take"
  BY <1>1
<1>3. /\ StartsRight(packets)' /\ StartsRight(out_packets)'
      /\ \A k \in call' + 2 .. Len(given') :
            Starter(k)' => given'[k - 1].type # "tile_list"
  BY <1>1, <1>2, SequenceSame
<1>4. pending' # 0 => (new_sequence' <=> given'[pending'].type = "seq")
  BY <1>1, <1>2 DEF SequenceInv
<1>5. pending' # 0 /\ Starter(pending)' => Opens'
  BY <1>1, <1>2 DEF SequenceInv, Starter, Opens
<1> QED
  BY <1>1, <1>2, <1>3, <1>4, <1>5 DEF SequenceInv

LEMMA TakeSequence ==
    ASSUME SenderInv, SequenceInv, Take PROVE SequenceInv'
<1>1. /\ given' = given /\ call' = call /\ cur' = cur + 1
      /\ out_packets' = out_packets /\ packets' = packets
      /\ start_with_new_packet' = start_with_new_packet
      /\ pc = "take" /\ pc' = "scan"
      /\ new_sequence' = (IF SkippedObu(Scanned) THEN new_sequence ELSE Scanned.type = "seq")
      /\ pending' = IF SkippedObu(given[cur + 1]) THEN 0 ELSE cur + 1
  BY DEF Take, writeVars, Pending, Scanned
<1>2. pc # "idle" /\ pc' # "idle" /\ pc' # "fragment" /\ pc' # "append" /\ pc' # "take"
  BY <1>1
<1>3. /\ StartsRight(packets)' /\ StartsRight(out_packets)'
      /\ \A k \in call' + 2 .. Len(given') :
            Starter(k)' => given'[k - 1].type # "tile_list"
  BY <1>1, <1>2, SequenceSame
<1> PICK k \in Nat : k = cur + 1
  BY CallFacts DEF SenderInv
<1>4. k # 0 /\ Scanned = given[k]
  BY CallFacts DEF SenderInv, Scanned
<1>5. (Opens' <=> Opens) /\ (Starter(k)' <=> Starter(k)) /\ given'[k] = given[k]
  BY <1>1 DEF Opens, Starter
<1>6. Starter(k) => Opens
  BY <1>1, <1>2 DEF SequenceInv
<1>7. CASE SkippedObu(given[k])
  <2>1. pending' = 0 /\ cur' = k
    BY <1>1, <1>7
  <2>2. given[k].type = "tile_list" \/ (given[k].type = "td" /\ Opens)
    BY <1>6, <1>7 DEF SkippedObu, Starter
  <2>3. given'[cur'].type = "tile_list" \/ (given'[cur'].type = "td" /\ Opens')
    BY <1>5, <2>1, <2>2
  <2> QED
    BY <1>2, <1>3, <2>1, <2>3 DEF SequenceInv
<1>8. CASE ~SkippedObu(given[k])
  <2>1. pending' = k /\ (new_sequence' <=> given[k].type = "seq")
    BY <1>1, <1>4, <1>8
  <2>2. new_sequence' <=> given'[pending'].type = "seq"
    BY <1>5, <2>1
  <2>3. Starter(pending)' => Opens'
    BY <1>5, <1>6, <2>1 DEF Starter
  <2>4. pending' # 0
    BY <1>4, <2>1
  <2> QED
    BY <1>2, <1>3, <2>2, <2>3, <2>4 DEF SequenceInv
<1> QED
  BY <1>7, <1>8

LEMMA AppendSequence ==
    ASSUME Mtu >= 3, SenderInv, SequenceInv, AppendOBUPayload PROVE SequenceInv'
<1>1. /\ given' = given /\ call' = call /\ cur' = cur
      /\ pending' = pending /\ packets' = packets
      /\ need_new_packet' = need_new_packet /\ new_sequence' = new_sequence
      /\ start_with_new_packet' = start_with_new_packet
      /\ pc = "append" /\ pc' = "fragment"
  BY DEF AppendOBUPayload, obuVars
<1>2. pc # "idle" /\ pc' # "idle" /\ pc' # "append" /\ pc' # "scan" /\ pc' # "take"
      /\ pc \in {"append", "fragment"} /\ pc \in {"scan", "append"}
  BY <1>1
<1>3. pending # 0
  BY <1>2 DEF SenderInv, CallInv
<1>4. /\ given[pending].type = "seq" <=> new_sequence
      /\ given[pending].type = "seq" => Opens
      /\ StartsRight(packets) /\ StartsRight(out_packets)
  BY <1>2, <1>3 DEF SequenceInv, Starter
<1>5. StartsRight(packets)'
  BY <1>1, <1>4 DEF StartsRight, Position
<1>6. \A k \in call' + 2 .. Len(given') :
          Starter(k)' => given'[k - 1].type # "tile_list"
  BY <1>1, <1>2 DEF SequenceInv, Starter
<1>7. cur' < Len(given') /\ Starter(cur + 1)' => need_new_packet'
  BY <1>1, <1>2 DEF SequenceInv, Starter
<1>8. new_sequence' <=> given'[pending'].type = "seq"
  BY <1>1, <1>4
<1>9. StartsRight(out_packets') /\ (written' = 0 => given'[pending'].type # "seq")
  <2>1. \/ written' = 0 /\ out_packets' = out_packets /\ ~Opens
        \/ \E e : Writes(e, 0, written') /\ StartsRight(out_packets')
    BY <1>4, AppendWrites
  <2>2. CASE written' = 0 /\ out_packets' = out_packets /\ ~Opens
    BY <1>1, <1>4, <2>2
  <2>3. ASSUME NEW e, Writes(e, 0, written') PROVE written' # 0
    BY <2>3 DEF Writes
  <2> QED
    BY <2>1, <2>2, <2>3
<1>10. StartsRight(out_packets)'
  BY <1>1, <1>9 DEF StartsRight, Position
<1> QED
  BY <1>2, <1>5, <1>6, <1>7, <1>8, <1>9, <1>10 DEF SequenceInv, Starter

LEMMA FragmentSequence ==
    ASSUME Mtu >= 3, SenderInv, SequenceInv, Fragment PROVE SequenceInv'
<1>1. /\ given' = given /\ call' = call /\ cur' = cur
      /\ pending' = pending /\ packets' = packets
      /\ need_new_packet' = need_new_packet /\ new_sequence' = new_sequence
      /\ start_with_new_packet' = start_with_new_packet
      /\ pc = "fragment" /\ pc' = "fragment"
  BY DEF Fragment, obuVars
<1>2. pc # "idle" /\ pc' # "idle" /\ pc' # "append" /\ pc' # "scan" /\ pc' # "take"
      /\ pc \in {"append", "fragment"}
  BY <1>1
<1>3. pending # 0
  BY <1>2 DEF SenderInv, CallInv
<1>4. StartsRight(packets) /\ StartsRight(out_packets)
      /\ (written = 0 => given[pending].type # "seq")
  BY <1>1, <1>2 DEF SequenceInv
<1>5. StartsRight(packets)'
  BY <1>1, <1>4 DEF StartsRight, Position
<1>6. \A k \in call' + 2 .. Len(given') :
          Starter(k)' => given'[k - 1].type # "tile_list"
  BY <1>1, <1>2 DEF SequenceInv, Starter
<1>7. cur' < Len(given') /\ Starter(cur + 1)' => need_new_packet'
  BY <1>1, <1>2 DEF SequenceInv, Starter
<1>8. new_sequence' <=> given'[pending'].type = "seq"
  BY <1>1, <1>2, <1>3 DEF SequenceInv
<1>9. PICK e : Writes(e, written, written') /\ StartsRight(out_packets')
  BY <1>4, FragmentWrites
<1>10. written' # 0
  <2>1. written \in Nat
    BY <1>1, PendingFacts DEF SenderInv, SenderTypeOK
  <2> QED
    BY <1>9, <2>1 DEF Writes
<1>11. StartsRight(out_packets)'
  BY <1>1, <1>9 DEF StartsRight, Position
<1> QED
  BY <1>2, <1>5, <1>6, <1>7, <1>8, <1>10, <1>11 DEF SequenceInv

LEMMA AppendedSequence ==
    ASSUME SenderInv, SequenceInv, Appended PROVE SequenceInv'
<1>1. /\ given' = given /\ call' = call /\ cur' = cur
      /\ out_packets' = out_packets /\ packets' = packets
      /\ pc = "fragment" /\ pending' = 0 /\ start_with_new_packet' = need_new_packet
      /\ pc' = IF cur < Len(given) THEN "take" ELSE "scan"
  BY DEF Appended, writeVars, StartsNext
<1>2. pc # "idle" /\ pc' # "idle" /\ pc' # "append" /\ pc' # "fragment"
  BY <1>1
<1>3. /\ StartsRight(packets)' /\ StartsRight(out_packets)'
      /\ \A k \in call' + 2 .. Len(given') :
            Starter(k)' => given'[k - 1].type # "tile_list"
  BY <1>1, <1>2, SequenceSame
<1>4. pc' = "take" /\ Starter(cur + 1)' => Opens'
  <2>1. pc' = "take" => cur < Len(given)
    BY <1>1
  <2>2. cur < Len(given) /\ Starter(cur + 1) => need_new_packet
    BY <1>1, <1>2 DEF SequenceInv
  <2> QED
    BY <1>1, <2>1, <2>2 DEF Opens, Starter
<1>5. pc' = "scan" => ~(cur' < Len(given'))
  BY <1>1
<1> QED
  BY <1>1, <1>2, <1>3, <1>4, <1>5 DEF SequenceInv

LEMMA ReturnSequence ==
    ASSUME SenderInv, SequenceInv, Return PROVE SequenceInv'
<1>1. /\ given' = given /\ out_packets' = out_packets /\ pc' = "idle"
      /\ packets' = packets \o out_packets
  BY DEF Return, writeVars, obuVars
<1> PICK s, t, u : s = packets /\ t = out_packets /\ u = s \o t
  OBVIOUS
<1> PICK n, m : n = Len(s) /\ m = Len(t)
  OBVIOUS
<1>2. s \in Seq(PacketType) /\ t \in Seq(PacketType) /\ n \in Nat /\ m \in Nat
  BY LenProperties DEF SenderInv, SenderTypeOK
<1>3. Len(u) = n + m /\ \A p \in 1..n : u[p] = s[p]
  BY <1>2, ConcatGrows
<1>4. StartsRight(s) /\ StartsRight(t)
  BY DEF SequenceInv
<1>5. StartsRight(u)
  <2> SUFFICES ASSUME NEW p \in 1..(n + m)
               PROVE  \A i \in Position(u[p].elems) :
                        u[p].elems[i].from = 0 =>
                            (given[u[p].elems[i].obu].type = "seq" <=> i = 1 /\ u[p].n)
    BY <1>3 DEF StartsRight, Position
  <2>1. CASE p \in 1..n
    BY <1>3, <1>4, <2>1 DEF StartsRight, Position
  <2>2. CASE ~(p \in 1..n)
    <3> PICK q \in 1..m : p = n + q
      BY <1>2, <2>2, p - n \in 1..m, p = n + (p - n)
    <3>1. u[p] = t[q]
      BY <1>2, ConcatProperties
    <3> QED
      BY <1>4, <3>1 DEF StartsRight, Position
  <2> QED
    BY <2>1, <2>2
<1> QED
  BY <1>1, <1>4, <1>5 DEF SequenceInv, StartsRight, Position

LEMMA RefuseSequence ==
    ASSUME SequenceInv, Refuse PROVE SequenceInv'
<1>1. given' = given /\ packets' = packets /\ out_packets' = out_packets /\ pc' = "idle"
  BY DEF Refuse
<1> QED
  BY <1>1 DEF SequenceInv, StartsRight, Position

LEMMA PacketizeSequence ==
    ASSUME NoneSwallowed, SenderInv, SequenceInv, NEW frame \in Frames, Packetize(frame)
    PROVE  SequenceInv'
<1>1. /\ given' = given \o frame /\ call' = Len(given) /\ cur' = cur /\ packets' = packets
      /\ pending' = 0 /\ out_packets' = <<>> /\ pc = "idle" /\ pc' = "scan"
  BY DEF Packetize
<1> PICK s : s = packets
  OBVIOUS
<1> PICK n \in Nat, m \in Nat : n = Len(given) /\ m = Len(frame)
  BY LenProperties, FramesAssumption DEF SenderInv, SenderTypeOK
<1>2. /\ given \in Seq(ObuType) /\ frame \in Seq(ObuType) /\ cur = n
  BY <1>1, FramesAssumption, CallFacts DEF SenderInv, CallInv
<1>3. Len(given') = n + m /\ \A k \in 1..n : given'[k] = given[k]
  BY <1>1, <1>2, ConcatGrows
<1>4. \A j \in 1..m : given'[n + j] = frame[j]
  BY <1>1, <1>2, ConcatProperties
<1>5. s \in Seq(PacketType) /\ StartsRight(s)
  BY DEF SenderInv, SenderTypeOK, SequenceInv
<1>6. \A p \in Position(s) : \A i \in Position(s[p].elems) : s[p].elems[i].obu \in 1..n
  <2> SUFFICES ASSUME NEW p \in Position(s), NEW i \in Position(s[p].elems)
               PROVE  s[p].elems[i].obu \in 1..n
    OBVIOUS
  <2>1. s[p] \in PacketType
    BY <1>5, ElementOfSeq DEF Position
  <2>2. s[p].elems[i] \in ElementType
    BY <2>1, PacketFacts DEF Position
  <2> QED
    BY <2>2 DEF ElementType
<1>7. StartsRight(packets)'
  BY <1>1, <1>3, <1>5, <1>6 DEF StartsRight, Position
<1>8. StartsRight(out_packets)'
  BY <1>1 DEF StartsRight, Position
<1>9. \A k \in call' + 2 .. Len(given') : Starter(k)' => given'[k - 1].type # "tile_list"
  <2> SUFFICES ASSUME NEW k \in n + 2 .. n + m, given'[k].type \in {"td", "seq"}
               PROVE  given'[k - 1].type # "tile_list"
    BY <1>1, <1>3 DEF Starter
  <2> PICK j \in 2..m : k = n + j
    BY k - n \in 2..m, k = n + (k - n)
  <2>1. j \in 1..m /\ j - 1 \in 1..m /\ k - 1 = n + (j - 1)
    OBVIOUS
  <2>2. given'[k] = frame[j] /\ given'[k - 1] = frame[j - 1]
    BY <1>4, <2>1
  <2>3. frame[j].type \in {"td", "seq"} => frame[j - 1].type # "tile_list"
    BY DEF NoneSwallowed
  <2> QED
    BY <2>2, <2>3
<1>10. ~(call' < cur')
  BY <1>1, <1>2
<1> QED
  BY <1>1, <1>7, <1>8, <1>9, <1>10 DEF SequenceInv

\* Every step of the sender keeps sequences at the start of packets.
LEMMA SequenceStep ==
    ASSUME Mtu >= 3, NoneSwallowed, SenderInv, SequenceInv, PacketizerNext
    PROVE  SequenceInv'
BY RefuseSequence, ScanSequence, ScanEndSequence, TakeSequence, AppendSequence,
   FragmentSequence, AppendedSequence, ReturnSequence, PacketizeSequence
   DEF PacketizerNext, Working

-----------------------------------------------------------------------------
(* The theorems.                                                           *)

\* What the receiver and the transport do leaves the sender.
LEMMA SenderSame ==
    ASSUME UNCHANGED packetizerVars
    PROVE  /\ SenderInv => SenderInv'
           /\ SequenceInv => SequenceInv'
<1>1. /\ given' = given /\ call' = call /\ cur' = cur /\ refused' = refused /\ pc' = pc
      /\ pending' = pending /\ need_new_packet' = need_new_packet
      /\ new_sequence' = new_sequence /\ start_with_new_packet' = start_with_new_packet
      /\ current_packet_obu_header' = current_packet_obu_header
      /\ obus_in_packet' = obus_in_packet /\ to_write' = to_write /\ written' = written
      /\ out_packets' = out_packets /\ packets' = packets
  BY DEF packetizerVars, obuVars, writeVars
<1>2. /\ ElementType' = ElementType /\ PendingLen' = PendingLen
      /\ \A k : Kept(k)' <=> Kept(k)
      /\ \A k : Starter(k)' <=> Starter(k)
      /\ \A e : Ends(e)' <=> Ends(e)
      /\ \A e : SoundElement(e)' <=> SoundElement(e)
      /\ \A seq, obus : Within(seq, obus)' <=> Within(seq, obus)
      /\ \A seq : StartsRight(seq)' <=> StartsRight(seq)
  BY <1>1 DEF ElementType, PendingLen, Kept, Starter, Ends, SoundElement, Within,
              StartsRight, Position
<1>3. PacketType' = PacketType
  BY <1>2 DEF PacketType
<1>4. /\ \A e, f : Follows(e, f)' <=> Follows(e, f)
      /\ \A seq, k : EndsIn(seq, k)' <=> EndsIn(seq, k)
  BY <1>2 DEF Follows, EndsIn, Position
<1>5. \A x : SoundPacket(x)' <=> SoundPacket(x)
  BY <1>2, <1>4 DEF SoundPacket, Position
<1>6. /\ \A x, y : Leads(x, y)' <=> Leads(x, y)
      /\ \A seq : Closed(seq)' <=> Closed(seq)
  BY <1>2, <1>4 DEF Leads, Closed
<1>7. \A seq : Chain(seq)' <=> Chain(seq)
  BY <1>5, <1>6 DEF Chain, Position
<1>8. Finished' = Finished /\ (Inside' <=> Inside) /\ (Opens' <=> Opens)
  BY <1>1 DEF Finished, Inside, Opens
<1>9. SenderTypeOK => SenderTypeOK'
  BY <1>1, <1>2, <1>3, Zenon DEF SenderTypeOK
<1>10. (CallInv' <=> CallInv) /\ (OutInv' <=> OutInv)
  <2>1. CallInv' <=> CallInv
    BY <1>1, Zenon DEF CallInv, SkippedObu
  <2>2. \A x : LastElement(x)' = LastElement(x)
    BY DEF LastElement
  <2>3. OutInv' <=> OutInv
    BY <1>1, <1>2, <1>8, <2>2, Zenon DEF OutInv
  <2> QED
    BY <2>1, <2>3
<1>11. (CarriedBefore' <=> CarriedBefore) /\ (CarriedNow' <=> CarriedNow)
  <2>1. CarriedBefore' <=> CarriedBefore
    BY <1>1, <1>2, <1>4, <1>8, Zenon DEF CarriedBefore
  <2>2. CarriedNow' <=> CarriedNow
    BY <1>1, <1>2, <1>4, Zenon DEF CarriedNow, SkippedObu
  <2> QED
    BY <2>1, <2>2
<1>12. SenderInv => SenderInv'
  BY <1>1, <1>6, <1>7, <1>9, <1>10, <1>11, Zenon DEF SenderInv
<1>13. SequenceInv => SequenceInv'
  BY <1>1, <1>2, <1>8, Zenon DEF SequenceInv
<1> QED
  BY <1>12, <1>13

\* What is in packets is of OBUs that are neither skipped nor refused.
LEMMA CarriedKept ==
    ASSUME SenderInv, NEW k, CarriedBy(k) # {}
    PROVE  Kept(k) /\ k \in 1..Finished
<1>1. PICK p \in Position(packets) : \E i \in Position(packets[p].elems) :
          packets[p].elems[i].obu = k
  BY DEF CarriedBy
<1>2. PICK i \in Position(packets[p].elems) : packets[p].elems[i].obu = k
  BY <1>1
<1>3. k \in 1..Finished \ refused
  BY <1>1, <1>2 DEF SenderInv, CarriedBefore, Within
<1>4. SoundElement(packets[p].elems[i])
  BY NextPacket DEF SoundPacket, Position
<1> QED
  BY <1>2, <1>3, <1>4 DEF Kept, SoundElement

\* IndInv is inductive.
LEMMA Step ==
    ASSUME Mtu >= 3, IndInv, [Next]_vars
    PROVE  IndInv'
<1>1. CASE Send
  <2>1. /\ PacketizerNext /\ UNCHANGED <<depacketizerVars, transportVars>>
        /\ SenderInv /\ ReceiverInv
    BY <1>1 DEF Send, IndInv
  <2>2. /\ SenderInv' /\ GivenStays
        /\ Len(packets') \in Nat /\ Len(packets) <= Len(packets')
        /\ \A p \in 1..Len(packets) : packets'[p] = packets[p]
    BY <2>1, SendStep
  <2>3. ReceiverInv'
    BY <2>1, <2>2, SendReceiver
  <2>4. NoneSwallowed => SequenceInv'
    BY <2>1, SequenceStep DEF IndInv
  <2> QED
    BY <2>2, <2>3, <2>4 DEF IndInv
<1>2. CASE Receive
  <2>1. UNCHANGED packetizerVars
    BY <1>2 DEF Receive
  <2>2. ReceiverInv'
    BY <1>2, ReceiveStep DEF IndInv
  <2> QED
    BY <2>1, <2>2, SenderSame DEF IndInv
<1>3. CASE Lose
  <2>1. UNCHANGED packetizerVars
    BY <1>3 DEF Lose
  <2>2. ReceiverInv'
    BY <1>3, LoseStep DEF IndInv
  <2> QED
    BY <2>1, <2>2, SenderSame DEF IndInv
<1>4. CASE UNCHANGED vars
  <2>1. UNCHANGED packetizerVars /\ UNCHANGED <<depacketizerVars, transportVars>>
    BY <1>4 DEF vars
  <2>2. SenderInv' /\ (NoneSwallowed => SequenceInv')
    BY <2>1, SenderSame DEF IndInv
  <2>3. given' = given /\ packets' = packets
    BY <2>1 DEF packetizerVars
  <2>4. SenderTypeOK /\ GivenStays /\ Len(packets) \in Nat
    BY <2>3, GivenSame, LenProperties DEF IndInv, SenderInv, SenderTypeOK
  <2>5. ReceiverInv'
    BY <2>1, <2>3, <2>4, SendReceiver DEF IndInv
  <2> QED
    BY <2>2, <2>5 DEF IndInv
<1> QED
  BY <1>1, <1>2, <1>3, <1>4 DEF Next

(***************************************************************************)
(* The elements of the packets follow each other, the receiver's buffer    *)
(* holds what arrived of the OBU that goes on, and, of frames without a    *)
(* tile list before an OBU that starts a packet, sequences start packets:  *)
(* for every MTU that leaves a fragment a byte, every LebBase and every    *)
(* set of frames.                                                          *)
(***************************************************************************)
THEOREM Invariant ==
    ASSUME Mtu >= 3
    PROVE  Spec => []IndInv
<1>1. Init => IndInv
  BY InitHolds DEF IndInv
<1>2. IndInv /\ [Next]_vars => IndInv'
  BY Step
<1> QED
  BY <1>1, <1>2, PTL DEF Spec

\* The state keeps the shape the code's declarations give it; no write goes
\* past the end of the pending OBU.
THEOREM TypeCorrect ==
    ASSUME Mtu >= 3
    PROVE  Spec => []TypeOK
<1>1. IndInv => TypeOK
  BY DEF IndInv, SenderInv, ReceiverInv, TypeOK
<1> QED
  BY <1>1, Invariant, PTL

\* Whatever the frames and the MTU: no packet exceeds it, no element is empty, and
\* Z and Y of the packets handed over say where OBUs are cut.
THEOREM Cuts ==
    ASSUME Mtu >= 3
    PROVE  Spec => []CutsRight
<1>1. ASSUME SenderInv PROVE CutsRight
  <2> PICK s, t : s = packets /\ t = out_packets
    OBVIOUS
  <2>1. s \in Seq(PacketType) /\ t \in Seq(PacketType) /\ Chain(s) /\ Chain(t)
    BY <1>1 DEF SenderInv, SenderTypeOK
  <2> PICK n \in Nat, m \in Nat : n = Len(s) /\ m = Len(t)
    BY <2>1, LenProperties
  <2>2. /\ \A p \in 1..n : SoundPacket(s[p])
        /\ \A p \in 1..m : SoundPacket(t[p])
    BY <2>1 DEF Chain, Position
  <2>3. \A p \in Position(Made) : SoundPacket(Made[p])
    <3>1. CASE pc = "idle"
      BY <2>2, <3>1 DEF Made, Position
    <3>2. CASE pc # "idle"
      <4> PICK u : u = s \o t
        OBVIOUS
      <4>1. Made = u
        BY <3>2 DEF Made
      <4>2. Len(u) = n + m
        BY <2>1, ConcatProperties
      <4> SUFFICES ASSUME NEW p \in 1..(n + m) PROVE SoundPacket(u[p])
        BY <4>1, <4>2 DEF Position
      <4>3. CASE p \in 1..n
        BY <2>1, <2>2, <4>3, ConcatProperties
      <4>4. CASE ~(p \in 1..n)
        <5> PICK q \in 1..m : p = n + q
          BY <4>4, p - n \in 1..m, p = n + (p - n)
        <5> QED
          BY <2>1, <2>2, ConcatProperties
      <4> QED
        BY <4>3, <4>4
    <3> QED
      BY <3>1, <3>2
  <2>4. \A p \in Position(Made) :
            /\ PacketSize(Made[p]) <= Mtu
            /\ \A i \in Position(Made[p].elems) : Made[p].elems[i].from < Made[p].elems[i].to
    BY <2>3 DEF SoundPacket, SoundElement
  <2>5. \A p \in Position(packets) :
            /\ packets[p].z <=> packets[p].elems[1].from # 0
            /\ packets[p].y <=> ~Ends(LastElement(packets[p]))
    BY <1>1, <2>2, NextPacket DEF SoundPacket, Position
  <2> QED
    BY <2>4, <2>5 DEF CutsRight
<1>2. IndInv => CutsRight
  BY <1>1 DEF IndInv
<1> QED
  BY <1>2, Invariant, PTL

\* Of the OBUs handed over the packets carry every byte once and in order, and
\* nothing of those skipped or refused, whatever the frames.
THEOREM Order ==
    ASSUME Mtu >= 3
    PROVE  Spec => []KeptInOrder
<1>1. ASSUME SenderInv PROVE KeptInOrder
  <2>1. /\ packets \in Seq(PacketType) /\ Chain(packets) /\ Closed(packets)
        /\ Len(packets) \in Nat
    BY <1>1, LenProperties DEF SenderInv, SenderTypeOK
  <2>2. \A p \in Position(packets) :
           /\ SoundPacket(packets[p])
           /\ p = 1 => ~packets[p].z
           /\ p > 1 => p # 1 /\ Leads(packets[p - 1], packets[p])
    BY <2>1 DEF Chain, Position
  <2>3. ASSUME NEW p \in Position(packets), NEW i \in Position(packets[p].elems)
        PROVE  LET element == packets[p].elems[i] IN
               IF i > 1 THEN Follows(packets[p].elems[i - 1], element)
               ELSE IF p > 1 THEN Follows(LastElement(packets[p - 1]), element)
               ELSE element.from = 0
    <3> PICK x : x = packets[p]
      OBVIOUS
    <3>1. SoundPacket(x) /\ p \in Nat /\ p >= 1 /\ i \in Nat /\ i >= 1
      BY <2>1, <2>2 DEF Position
    <3>2. CASE i > 1
      BY <3>1, <3>2 DEF SoundPacket
    <3>3. CASE i = 1 /\ p > 1
      BY <2>2, <3>3 DEF Leads
    <3>4. CASE i = 1 /\ p = 1
      BY <2>2, <3>1, <3>4 DEF SoundPacket
    <3> QED
      BY <3>1, <3>2, <3>3, <3>4
  <2>4. packets # <<>> => Ends(LastElement(packets[Len(packets)]))
    BY <2>1 DEF Closed
  <2>5. ASSUME pc = "idle", NEW k \in Position(given)
        PROVE  CarriedBy(k) # {} <=> Kept(k)
    <3>1. Finished = Len(given)
      BY <2>5 DEF Finished
    <3>2. CarriedBy(k) # {} => Kept(k)
      BY <1>1, CarriedKept
    <3>3. Kept(k) => EndsIn(packets, k)
      BY <1>1, <3>1 DEF SenderInv, CarriedBefore, Position
    <3>4. EndsIn(packets, k) => CarriedBy(k) # {}
      BY DEF EndsIn, CarriedBy
    <3> QED
      BY <3>2, <3>3, <3>4
  <2> QED
    BY <2>3, <2>4, <2>5 DEF KeptInOrder
<1>2. IndInv => KeptInOrder
  BY <1>1 DEF IndInv
<1> QED
  BY <1>2, Invariant, PTL

\* Where no frame has a tile list before an OBU that starts a packet, N marks the
\* first packet of a sequence and a sequence header shares its packet with nothing
\* before it.  Without the hypothesis it does not hold: see the packetizer's
\* treatment of skipped OBUs.
THEOREM Starts ==
    ASSUME Mtu >= 3, NoneSwallowed
    PROVE  Spec => []SequenceStarts
<1>1. IndInv => SequenceStarts
  BY DEF IndInv, SequenceInv, StartsRight, SequenceStarts
<1> QED
  BY <1>1, Invariant, PTL

\* Whatever is lost, what is handed out and what waits to be completed begins with
\* the header of an OBU.
THEOREM Headers ==
    ASSUME Mtu >= 3
    PROVE  Spec => []BeginsWithHeader
<1>1. IndInv => BeginsWithHeader
  BY DEF IndInv, ReceiverInv, DeliveredInv, BufferInv, BeginsWithHeader
<1> QED
  BY <1>1, Invariant, PTL

\* A loss costs the OBUs with a part in the packet lost and no other, however many
\* packets are lost and wherever OBUs are cut, of the packets whose lengths add up
\* (Receive takes no other).
THEOREM LossLocal ==
    ASSUME Mtu >= 3
    PROVE  Spec => []LossIsLocal
<1>1. ASSUME SenderInv, ReceiverInv PROVE LossIsLocal
  <2>1. ASSUME NEW i \in Position(delivered),
               delivered[i] # Whole(ObuOf(delivered[i]))
        PROVE  CarriedBy(ObuOf(delivered[i])) \cap lost # {}
    BY <1>1, <2>1 DEF ReceiverInv, DeliveredInv, Intact
  <2>2. ASSUME NEW k \in Position(given), CarriedBy(k) # {}, CarriedBy(k) \subseteq 1..rcvd \ lost
        PROVE  \E i \in Position(delivered) : delivered[i] = Whole(k)
    <3>1. Kept(k) /\ k \in 1..Finished
      BY <1>1, <2>2, CarriedKept
    <3>2. EndsIn(packets, k)
      BY <1>1, <3>1 DEF SenderInv, CarriedBefore
    <3>3. PICK p \in Position(packets) : \E i \in Position(packets[p].elems) :
              packets[p].elems[i].obu = k /\ Ends(packets[p].elems[i])
      BY <3>2 DEF EndsIn
    <3>4. PICK i \in Position(packets[p].elems) :
              packets[p].elems[i].obu = k /\ Ends(packets[p].elems[i])
      BY <3>3
    <3>5. p \in CarriedBy(k) /\ Intact(k)
      BY <2>2, <3>4 DEF CarriedBy, Intact
    <3>6. Whole(k) \in Range(delivered)
      BY <1>1, <2>2, <3>4, <3>5 DEF ReceiverInv, ArrivedInv
    <3>7. delivered \in Seq(Seq(Nat \X Nat))
      BY <1>1 DEF ReceiverInv, ReceiverTypeOK
    <3> QED
      BY <3>6, <3>7, LenProperties DEF Range, Position
  <2> QED
    BY <2>1, <2>2 DEF LossIsLocal
<1>2. IndInv => LossIsLocal
  BY <1>1 DEF IndInv
<1> QED
  BY <1>2, Invariant, PTL

=============================================================================
