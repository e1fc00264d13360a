----------------------------- MODULE RtpProofs -----------------------------
(***************************************************************************)
(* Proofs about RtpSession: for any number of calls, any identifiers,      *)
(* payloads and fields, and any buffers of other implementations.          *)
(***************************************************************************)
EXTENDS RtpSession, SequenceTheorems, WellFoundedInduction, TLAPS

-----------------------------------------------------------------------------
(* Recursion over the natural numbers.                                     *)

LEMMA LeastElement ==
    ASSUME NEW T, T \subseteq Nat, T # {}
    PROVE  \E x \in T : \A y \in T : x <= y
<1> DEFINE R == OpToRel(<, Nat)
<1>1. IsWellFoundedOn(R, Nat)
  BY NatLessThanWellFounded
<1>2. \E x \in T : \A y \in T : ~(<<y, x>> \in R)
  <2> HIDE DEF R
  <2> QED
    BY <1>1, WFMin
<1>3. \A x, y \in T : ~(<<y, x>> \in R) => x <= y
  BY DEF OpToRel
<1> QED
  BY <1>2, <1>3

\* Induction, over a set in place of a predicate.
LEMMA SetInduction ==
    ASSUME NEW S, 0 \in S, \A n \in Nat : n \in S => n + 1 \in S
    PROVE  Nat \subseteq S
<1> DEFINE T == Nat \ S
<1> SUFFICES ASSUME T # {} PROVE FALSE
  OBVIOUS
<1>1. PICK x \in T : \A y \in T : x <= y
  BY LeastElement
<1>2. x # 0 /\ x - 1 \in Nat
  BY <1>1
<1>3. x - 1 \in S
  BY <1>1, <1>2
<1> QED
  BY <1>1, <1>2, <1>3

\* g starts with base and goes on by step, up to n.
Iterates(g, n, S, base, step) ==
    /\ g \in [0..n -> S]
    /\ g[0] = base
    /\ \A i \in 1..n : g[i] = step[i][g[i - 1]]

\* What is computed one step after the other is there.
LEMMA IterationExists ==
    ASSUME NEW S, NEW base \in S, NEW m \in Nat, NEW step \in [1..m -> [S -> S]]
    PROVE  \E g : Iterates(g, m, S, base, step)
<1> DEFINE D == {n \in Nat : n <= m => \E g : Iterates(g, n, S, base, step)}
<1>1. 0 \in D
  <2> DEFINE g == [i \in 0..0 |-> base]
  <2>1. Iterates(g, 0, S, base, step)
    BY DEF Iterates
  <2> HIDE DEF g
  <2> QED
    BY <2>1
<1>2. ASSUME NEW n \in Nat, n \in D PROVE n + 1 \in D
  <2> SUFFICES ASSUME n + 1 <= m PROVE \E g : Iterates(g, n + 1, S, base, step)
    OBVIOUS
  <2>1. PICK g : Iterates(g, n, S, base, step)
    BY <1>2
  <2>2. step[n + 1] \in [S -> S] /\ g[n] \in S
    BY <2>1 DEF Iterates
  <2> DEFINE next == step[n + 1][g[n]]
             h == [i \in 0..(n + 1) |-> IF i = n + 1 THEN next ELSE g[i]]
  <2>3. next \in S
    BY <2>2
  <2> HIDE DEF next
  <2>4. h \in [0..(n + 1) -> S] /\ h[0] = base
    BY <2>1, <2>3 DEF Iterates
  <2>5. ASSUME NEW i \in 1..(n + 1) PROVE h[i] = step[i][h[i - 1]]
    <3>1. CASE i = n + 1
      <4>1. i - 1 \in 0..(n + 1) /\ i - 1 # n + 1 /\ i - 1 = n
        BY <3>1
      <4>2. h[i - 1] = g[n] /\ h[i] = next
        BY <3>1, <4>1
      <4> HIDE DEF h
      <4> QED
        BY <3>1, <4>2 DEF next
    <3>2. CASE i # n + 1
      <4>1. i \in 1..n /\ i - 1 \in 0..n
        BY <3>2
      <4>2. h[i] = g[i] /\ h[i - 1] = g[i - 1]
        BY <4>1
      <4> HIDE DEF h
      <4> QED
        BY <2>1, <4>1, <4>2 DEF Iterates
    <3> QED
      BY <3>1, <3>2
  <2> HIDE DEF h
  <2>6. Iterates(h, n + 1, S, base, step)
    BY <2>4, <2>5 DEF Iterates
  <2> QED
    BY <2>6
<1>3. Nat \subseteq D
  <2> HIDE DEF D
  <2> QED
    BY <1>1, <1>2, SetInduction
<1> QED
  BY <1>3

\* Two computations that start alike and go on alike are alike.
StepAlike(g, h, m) ==
    /\ g[0] = h[0]
    /\ \A i \in 1..m : g[i - 1] = h[i - 1] => g[i] = h[i]

LEMMA IterationUnique ==
    ASSUME NEW m \in Nat, NEW g, NEW h, StepAlike(g, h, m)
    PROVE  \A i \in 0..m : g[i] = h[i]
<1> DEFINE D == {n \in Nat : n <= m => g[n] = h[n]}
<1>1. 0 \in D
  BY DEF StepAlike
<1>2. ASSUME NEW n \in Nat, n \in D PROVE n + 1 \in D
  <2> SUFFICES ASSUME n + 1 <= m PROVE g[n + 1] = h[n + 1]
    OBVIOUS
  <2>1. n + 1 \in 1..m /\ (n + 1) - 1 = n /\ g[n] = h[n]
    BY <1>2
  <2> QED
    BY <2>1 DEF StepAlike
<1>3. Nat \subseteq D
  <2> HIDE DEF D
  <2> QED
    BY <1>1, <1>2, SetInduction
<1> QED
  BY <1>3

-----------------------------------------------------------------------------
(* Sizes.                                                                  *)

LEMMA RoundUpIs ==
    ASSUME NEW n \in Nat
    PROVE  /\ RoundUp(n) \in Nat /\ RoundUp(n) >= n /\ RoundUp(n) % 4 = 0
           /\ RoundUp(4 + n) = 4 + RoundUp(n)
           /\ n % 4 = 0 => RoundUp(n) = n
<1> PICK k \in Nat, r \in 0..3 : n = 4 * k + r
  BY n \div 4 \in Nat, n % 4 \in 0..3, n = 4 * (n \div 4) + (n % 4)
<1>1. (n + 3) \div 4 = (IF r = 0 THEN k ELSE k + 1)
  OBVIOUS
<1>2. ((4 + n) + 3) \div 4 = 1 + (n + 3) \div 4
  OBVIOUS
<1>3. n % 4 = r
  OBVIOUS
<1> PICK q \in Nat : q = (n + 3) \div 4
  OBVIOUS
<1>4. RoundUp(n) = q * 4 /\ RoundUp(4 + n) = (1 + q) * 4
  BY <1>2 DEF RoundUp
<1> QED
  BY <1>1, <1>3, <1>4

LEMMA ZerosIs ==
    ASSUME NEW n \in Nat
    PROVE  /\ Zeros(n) \in Seq(Nat) /\ Len(Zeros(n)) = n
           /\ \A i \in 1..n : Zeros(n)[i] = 0
<1>1. Zeros(n) \in [1..n -> Nat]
  BY DEF Zeros
<1> QED
  BY <1>1, IsASeq DEF Zeros

LEMMA Profiles == kExtensionProfileOneByte # kExtensionProfileTwoByte
BY DEF kExtensionProfileOneByte, kExtensionProfileTwoByte

LEMMA ElementHeader ==
    ASSUME NEW profile
    PROVE  /\ ElementHeaderSize(profile) \in Nat /\ ElementHeaderSize(profile) \in 0..2
           /\ IsElements(profile) => ElementHeaderSize(profile) \in 1..2
BY DEF ElementHeaderSize, IsElements, kExtensionProfileOneByte, kExtensionProfileTwoByte

\* Where the bytes of two sequences are in the one they make.
Joint(s, x, w) ==
    /\ s \in Seq(Nat) /\ x \in Seq(Nat) /\ w \in Seq(Nat)
    /\ Len(s) \in Nat /\ Len(x) \in Nat
    /\ Len(w) = Len(s) + Len(x)
    /\ \A j \in 1..Len(s) : w[j] = s[j]
    /\ \A j \in 1..Len(x) : w[Len(s) + j] = x[j]

LEMMA Joining ==
    ASSUME NEW s \in Seq(Nat), NEW x \in Seq(Nat)
    PROVE  Joint(s, x, s \o x)
<1> PICK w : w = s \o x
  OBVIOUS
<1>1. /\ w \in Seq(Nat) /\ Len(w) = Len(s) + Len(x)
      /\ \A j \in 1..Len(s) + Len(x) : w[j] = IF j <= Len(s) THEN s[j] ELSE x[j - Len(s)]
  BY ConcatProperties
<1>2. Len(s) \in Nat /\ Len(x) \in Nat
  BY LenProperties
<1> PICK a \in Nat, b \in Nat : a = Len(s) /\ b = Len(x)
  BY <1>2
<1>3. \A j \in 1..a : j \in 1..a + b /\ j <= a
  OBVIOUS
<1>4. \A j \in 1..b : a + j \in 1..a + b /\ ~(a + j <= a) /\ (a + j) - a = j
  OBVIOUS
<1>5. \A j \in 1..a + b : w[j] = IF j <= a THEN s[j] ELSE x[j - a]
  BY <1>1
<1>6. \A j \in 1..a : w[j] = s[j]
  BY ONLY <1>3, <1>5
<1>7. \A j \in 1..b : w[a + j] = x[j]
  BY ONLY <1>4, <1>5
<1>8. Joint(s, x, w)
  BY <1>1, <1>2, <1>6, <1>7 DEF Joint
<1> QED
  BY <1>8

LEMMA SingletonSeq ==
    ASSUME NEW T, NEW x \in T
    PROVE  <<x>> \in Seq(T) /\ Len(<<x>>) = 1 /\ <<x>>[1] = x
OBVIOUS

LEMMA ElementBytesAre ==
    ASSUME NEW profile, NEW ext \in ExtensionType
    PROVE  /\ ElementBytes(profile, ext) \in Seq(Nat)
           /\ Len(ext.payload) \in Nat /\ ext.payload \in Seq(Nat) /\ ext.id \in Nat
           /\ Len(ElementBytes(profile, ext))
                 = ElementHeaderSize(profile) + Len(ext.payload)
<1>1. ext.id \in Nat /\ ext.payload \in Seq(Nat) /\ Len(ext.payload) \in Nat
  BY LenProperties DEF ExtensionType
<1>2. CASE profile = kExtensionProfileOneByte
  <2> PICK b : b = 16 * ext.id + ((Len(ext.payload) + 15) % 16)
    OBVIOUS
  <2> PICK id \in Nat, len \in Nat : id = ext.id /\ len = Len(ext.payload)
    BY <1>1
  <2>1. ElementBytes(profile, ext) = <<b>> \o ext.payload
    BY <1>2, Profiles, Zenon DEF ElementBytes
  <2>2. (len + 15) % 16 \in Nat
    BY ONLY len \in Nat
  <2> PICK r \in Nat : r = (len + 15) % 16
    BY <2>2
  <2>3. b \in Nat
    <3>1. b = 16 * id + r
      OBVIOUS
    <3> QED
      BY ONLY <3>1, id \in Nat, r \in Nat
  <2>4. <<b>> \in Seq(Nat) /\ Len(<<b>>) = 1
    BY <2>3, SingletonSeq
  <2>5. ElementHeaderSize(profile) = 1
    BY <1>2, Profiles DEF ElementHeaderSize
  <2> PICK s, t : s = <<b>> /\ t = ext.payload
    OBVIOUS
  <2>6. /\ s \in Seq(Nat) /\ t \in Seq(Nat) /\ Len(s) = 1 /\ Len(t) = len
        /\ ElementBytes(profile, ext) = s \o t
    BY <1>1, <2>1, <2>4
  <2>7. s \o t \in Seq(Nat) /\ Len(s \o t) = 1 + len
    BY ONLY ZenonT(60), <2>6, ConcatProperties
  <2> QED
    BY <1>1, <2>5, <2>6, <2>7
<1>3. CASE profile = kExtensionProfileTwoByte
  <2> PICK s : s = <<ext.id, Len(ext.payload)>>
    OBVIOUS
  <2>1. ElementBytes(profile, ext) = s \o ext.payload /\ profile # kExtensionProfileOneByte
    BY <1>3 DEF ElementBytes, kExtensionProfileOneByte, kExtensionProfileTwoByte
  <2>2. s \in Seq(Nat) /\ Len(s) = 2
    BY <1>1
  <2> QED
    BY <1>1, <1>3, <2>1, <2>2, ConcatProperties DEF ElementHeaderSize
<1>4. CASE profile # kExtensionProfileOneByte /\ profile # kExtensionProfileTwoByte
  <2>1. ElementBytes(profile, ext) = <<>> \o ext.payload
    BY <1>4 DEF ElementBytes
  <2>2. <<>> \in Seq(Nat) /\ Len(<<>>) = 0
    OBVIOUS
  <2> QED
    BY <1>1, <1>4, <2>1, <2>2, ConcatProperties DEF ElementHeaderSize
<1> QED
  BY <1>1, <1>2, <1>3, <1>4

\* What ElementsBytes and ElementsSize go through.
LEMMA Joined ==
    ASSUME NEW profile, NEW exts \in Seq(ExtensionType)
    PROVE  \E bytes \in [0..Len(exts) -> Seq(Nat)] :
              /\ bytes[0] = <<>>
              /\ \A i \in 1..Len(exts) :
                    bytes[i] = bytes[i - 1] \o ElementBytes(profile, exts[i])
              /\ ElementsBytes(profile, exts) = bytes[Len(exts)]
<1> DEFINE n == Len(exts)
           S == Seq(Nat)
           w(i) == ElementBytes(profile, exts[i])
           c(v, i) == v \o ElementBytes(profile, exts[i])
           Def(f) == f = [i \in 0..n |-> IF i = 0 THEN <<>> ELSE c(f[i - 1], i)]
           u == CHOOSE f : Def(f)
           step == [i \in 1..n |-> [v \in S |-> c(v, i)]]
<1>1. ElementsBytes(profile, exts) = u[n]
  BY DEF ElementsBytes
<1>2. n \in Nat /\ \A i \in 1..n : w(i) \in S
  BY LenProperties, ElementOfSeq, ElementBytesAre
<1>3. <<>> \in S
  OBVIOUS
<1> HIDE DEF n, w
<1>4. step \in [1..n -> [S -> S]]
  <2>1. \A i \in 1..n : \A v \in S : c(v, i) \in S
    BY <1>2, ConcatProperties DEF w
  <2> HIDE DEF S, c
  <2> QED
    BY <2>1
<1>5. PICK g : Iterates(g, n, S, <<>>, step)
  <2> HIDE DEF step, S
  <2> QED
    BY <1>2, <1>3, <1>4, IterationExists
<1> HIDE DEF S, c
<1>6. \A i \in 1..n : g[i] = c(g[i - 1], i)
  <2> SUFFICES ASSUME NEW i \in 1..n PROVE g[i] = c(g[i - 1], i)
    OBVIOUS
  <2>1. step[i] = [v \in S |-> c(v, i)]
    OBVIOUS
  <2> HIDE DEF step
  <2>2. i - 1 \in 0..n
    BY <1>2
  <2>3. g[i - 1] \in S /\ g[i] = step[i][g[i - 1]]
    BY <1>5, <2>2 DEF Iterates
  <2> QED
    BY <2>1, <2>3
<1>7. g \in [0..n -> S] /\ g[0] = <<>>
  BY <1>5 DEF Iterates
<1>8. Def(g)
  BY <1>2, <1>6, <1>7
<1>9. Def(u)
  <2> HIDE DEF Def
  <2> QED
    BY <1>8
<1> HIDE DEF u
<1>10. /\ u[0] = <<>> /\ DOMAIN u = 0..n
       /\ \A i \in 1..n : u[i] = c(u[i - 1], i)
  BY <1>2, <1>9
<1>11. \A i \in 0..n : g[i] = u[i]
  <2>1. StepAlike(g, u, n)
    BY <1>6, <1>7, <1>10 DEF StepAlike
  <2> QED
    BY <1>2, <2>1, IterationUnique
<1>12. u \in [0..n -> S]
  BY <1>7, <1>9, <1>10, <1>11
<1> QED
  BY <1>1, <1>10, <1>12 DEF n, c, S

LEMMA Summed ==
    ASSUME NEW profile, NEW exts \in Seq(ExtensionType)
    PROVE  \E sums \in [0..Len(exts) -> Nat] :
              /\ sums[0] = 0
              /\ \A i \in 1..Len(exts) :
                    sums[i] = sums[i - 1] + ElementHeaderSize(profile) + Len(exts[i].payload)
              /\ ElementsSize(profile, exts) = sums[Len(exts)]
<1> DEFINE n == Len(exts)
           h == ElementHeaderSize(profile)
           w(i) == Len(exts[i].payload)
           Def(f) == f = [i \in 0..n |-> IF i = 0 THEN 0 ELSE f[i - 1] + h + w(i)]
           u == CHOOSE f : Def(f)
           step == [i \in 1..n |-> [v \in Nat |-> v + h + w(i)]]
<1>1. ElementsSize(profile, exts) = u[n]
  BY DEF ElementsSize
<1>2. n \in Nat /\ h \in Nat /\ \A i \in 1..n : w(i) \in Nat
  BY LenProperties, ElementOfSeq, ElementBytesAre, ElementHeader
<1> HIDE DEF n, w, h
<1>3. step \in [1..n -> [Nat -> Nat]]
  BY <1>2
<1>4. PICK g : Iterates(g, n, Nat, 0, step)
  <2> HIDE DEF step
  <2> QED
    BY <1>2, <1>3, IterationExists
<1>5. \A i \in 1..n : g[i] = g[i - 1] + h + w(i)
  <2> SUFFICES ASSUME NEW i \in 1..n PROVE g[i] = g[i - 1] + h + w(i)
    OBVIOUS
  <2>1. step[i] = [v \in Nat |-> v + h + w(i)]
    OBVIOUS
  <2> HIDE DEF step
  <2>2. i - 1 \in 0..n
    BY <1>2
  <2>3. g[i - 1] \in Nat /\ g[i] = step[i][g[i - 1]]
    BY <1>4, <2>2 DEF Iterates
  <2> QED
    BY <2>1, <2>3
<1>6. g \in [0..n -> Nat] /\ g[0] = 0
  BY <1>4 DEF Iterates
<1>7. Def(g)
  BY <1>2, <1>5, <1>6
<1>8. Def(u)
  <2> HIDE DEF Def
  <2> QED
    BY <1>7
<1> HIDE DEF u
<1>9. /\ u[0] = 0 /\ DOMAIN u = 0..n
      /\ \A i \in 1..n : u[i] = u[i - 1] + h + w(i)
  BY <1>2, <1>8
<1>10. \A i \in 0..n : g[i] = u[i]
  <2>1. StepAlike(g, u, n)
    BY <1>5, <1>6, <1>9 DEF StepAlike
  <2> QED
    BY <1>2, <2>1, IterationUnique
<1>11. u \in [0..n -> Nat]
  BY <1>6, <1>8, <1>9, <1>10
<1> QED
  BY <1>1, <1>9, <1>11 DEF n, w, h

\* What is joined begins with what was joined before.
LEMMA JoinedPrefixes ==
    ASSUME NEW n \in Nat, NEW bytes \in [0..n -> Seq(Nat)], NEW parts \in [1..n -> Seq(Nat)],
           \A i \in 1..n : bytes[i] = bytes[i - 1] \o parts[i]
    PROVE  \A i \in 0..n : /\ Len(bytes[i]) <= Len(bytes[n])
                           /\ \A j \in 1..Len(bytes[i]) : bytes[i][j] = bytes[n][j]
<1> DEFINE P(i) == /\ Len(bytes[i]) <= Len(bytes[n])
                   /\ \A j \in 1..Len(bytes[i]) : bytes[i][j] = bytes[n][j]
           D == {k \in Nat : k <= n => P(n - k)}
<1>1. 0 \in D
  <2>1. Len(bytes[n]) \in Nat
    BY LenProperties
  <2>2. P(n)
    BY <2>1
  <2>3. n - 0 = n
    OBVIOUS
  <2> HIDE DEF P
  <2> QED
    BY <2>2, <2>3
<1>2. ASSUME NEW k \in Nat, k \in D PROVE k + 1 \in D
  <2> SUFFICES ASSUME k + 1 <= n PROVE P(n - (k + 1))
    OBVIOUS
  <2> PICK i : i = n - k
    OBVIOUS
  <2>1. i \in 1..n /\ i - 1 \in 0..n /\ n - (k + 1) = i - 1 /\ i \in 0..n
    OBVIOUS
  <2>2. P(i)
    BY <1>2
  <2> PICK s, x, w : s = bytes[i - 1] /\ x = parts[i] /\ w = bytes[i]
    OBVIOUS
  <2>3. s \in Seq(Nat) /\ x \in Seq(Nat) /\ w = s \o x
    BY <2>1
  <2>4. Len(s) \in Nat /\ Len(x) \in Nat
    BY <2>3, LenProperties
  <2>5. /\ Len(w) = Len(s) + Len(x)
        /\ \A j \in 1..Len(s) : w[j] = s[j]
    <3>1. Joint(s, x, w)
      BY <2>3, Joining
    <3> QED
      BY <3>1 DEF Joint
  <2>6. Len(bytes[n]) \in Nat
    BY LenProperties
  <2>7. Len(s) <= Len(w) /\ \A j \in 1..Len(s) : j \in 1..Len(w) /\ s[j] = w[j]
    <3> PICK a \in Nat, b \in Nat : a = Len(s) /\ b = Len(x)
      BY <2>4
    <3> QED
      BY ONLY <2>5, a \in Nat, b \in Nat, a = Len(s) /\ b = Len(x)
  <2>8. Len(w) <= Len(bytes[n]) /\ \A j \in 1..Len(w) : w[j] = bytes[n][j]
    BY <2>2
  <2>9. Len(s) <= Len(bytes[n]) /\ \A j \in 1..Len(s) : s[j] = bytes[n][j]
    BY ONLY <2>4, <2>5, <2>6, <2>7, <2>8
  <2> QED
    BY <2>1, <2>9
<1>3. Nat \subseteq D
  <2> HIDE DEF D
  <2> QED
    BY <1>1, <1>2, SetInduction
<1>4. ASSUME NEW i \in 0..n PROVE P(i)
  <2>1. n - i \in Nat /\ n - i <= n /\ n - (n - i) = i
    OBVIOUS
  <2>2. n - i \in D
    BY <1>3, <2>1
  <2> HIDE DEF P
  <2> QED
    BY <2>1, <2>2
<1> QED
  BY <1>4

\* Where the elements are: sums[i] bytes are those of the first i.
Places(profile, exts, sums) ==
    /\ sums \in [0..Len(exts) -> Nat] /\ sums[0] = 0
    /\ sums[Len(exts)] = Len(ElementsBytes(profile, exts))
    /\ \A i \in 1..Len(exts) :
          /\ sums[i] = sums[i - 1] + Len(ElementBytes(profile, exts[i]))
          /\ sums[i] <= sums[Len(exts)]
          /\ \A j \in 1..Len(ElementBytes(profile, exts[i])) :
                ElementsBytes(profile, exts)[sums[i - 1] + j]
                    = ElementBytes(profile, exts[i])[j]

\* What is written of the elements is as long as their sizes say.
LEMMA ElementsAre ==
    ASSUME NEW profile, NEW exts \in Seq(ExtensionType)
    PROVE  /\ ElementsBytes(profile, exts) \in Seq(Nat)
           /\ ElementsSize(profile, exts) \in Nat
           /\ Len(ElementsBytes(profile, exts)) = ElementsSize(profile, exts)
           /\ \E sums : Places(profile, exts, sums)
<1> PICK n \in Nat : n = Len(exts)
  BY LenProperties
<1>1. PICK bytes \in [0..n -> Seq(Nat)] :
         /\ bytes[0] = <<>>
         /\ \A i \in 1..n : bytes[i] = bytes[i - 1] \o ElementBytes(profile, exts[i])
         /\ ElementsBytes(profile, exts) = bytes[n]
  BY Joined
<1>2. PICK sums \in [0..n -> Nat] :
         /\ sums[0] = 0
         /\ \A i \in 1..n :
               sums[i] = sums[i - 1] + ElementHeaderSize(profile) + Len(exts[i].payload)
         /\ ElementsSize(profile, exts) = sums[n]
  BY Summed
<1> DEFINE lens == [i \in 0..n |-> Len(bytes[i])]
           parts == [i \in 1..n |-> ElementBytes(profile, exts[i])]
<1>a. \A i \in 1..n : i - 1 \in 0..n /\ i \in 0..n
  OBVIOUS
<1>b. ASSUME NEW i \in 1..n
      PROVE  /\ parts[i] \in Seq(Nat)
             /\ Len(parts[i]) = ElementHeaderSize(profile) + Len(exts[i].payload)
             /\ Len(exts[i].payload) \in Nat /\ ElementHeaderSize(profile) \in Nat
  <2>1. exts[i] \in ExtensionType
    BY ElementOfSeq
  <2>2. ElementHeaderSize(profile) \in Nat
    BY ElementHeader
  <2> QED
    BY <2>1, <2>2, ElementBytesAre
<1>c. parts \in [1..n -> Seq(Nat)] /\ \A i \in 1..n : bytes[i] = bytes[i - 1] \o parts[i]
  <2>1. \A i \in 1..n : parts[i] \in Seq(Nat)
    BY <1>b
  <2> QED
    BY <1>1, <2>1
<1>3. ASSUME NEW i \in 1..n
      PROVE  /\ lens[i] = lens[i - 1] + Len(parts[i])
             /\ \A j \in 1..Len(parts[i]) : bytes[i][lens[i - 1] + j] = parts[i][j]
             /\ lens[i - 1] \in Nat /\ Len(parts[i]) \in Nat
  <2> PICK s, x : s = bytes[i - 1] /\ x = parts[i]
    OBVIOUS
  <2>1. s \in Seq(Nat) /\ x \in Seq(Nat) /\ bytes[i] = s \o x
    BY <1>a, <1>b, <1>c
  <2>2. Len(s) \in Nat /\ Len(x) \in Nat
    BY <2>1, LenProperties
  <2> PICK w : w = s \o x
    OBVIOUS
  <2>3. Len(w) = Len(s) + Len(x) /\ \A j \in 1..Len(x) : w[Len(s) + j] = x[j]
    <3>1. Joint(s, x, w)
      BY <2>1, Joining
    <3> HIDE DEF lens, parts
    <3> QED
      BY <3>1 DEF Joint
  <2>5. lens[i] = Len(w) /\ lens[i - 1] = Len(s)
    BY <1>a, <2>1
  <2> HIDE DEF lens, parts
  <2> QED
    BY <2>1, <2>2, <2>3, <2>5
<1>4. ASSUME NEW i \in 1..n, lens[i - 1] = sums[i - 1] PROVE lens[i] = sums[i]
  <2> HIDE DEF lens, parts
  <2> PICK h, l : h = ElementHeaderSize(profile) /\ l = Len(exts[i].payload)
    OBVIOUS
  <2>1. lens[i] = lens[i - 1] + (h + l) /\ h \in Nat /\ l \in Nat
    BY <1>3, <1>b
  <2>2. sums[i] = sums[i - 1] + h + l /\ sums[i - 1] \in Nat
    BY <1>2, <1>a
  <2> QED
    BY <1>4, <2>1, <2>2
<1>5. lens[0] = sums[0]
  BY <1>1, <1>2
<1>6. \A i \in 0..n : lens[i] = sums[i]
  <2>1. StepAlike(lens, sums, n)
    <3> HIDE DEF lens
    <3> QED
      BY <1>4, <1>5 DEF StepAlike
  <2> HIDE DEF lens
  <2> QED
    BY <2>1, IterationUnique
<1>7. n \in 0..n
  OBVIOUS
<1>8. \A i \in 0..n : /\ Len(bytes[i]) <= Len(bytes[n])
                      /\ \A j \in 1..Len(bytes[i]) : bytes[i][j] = bytes[n][j]
  <2> HIDE DEF parts
  <2> QED
    BY <1>c, JoinedPrefixes
<1>9. lens[n] = Len(bytes[n]) /\ sums[n] = lens[n]
  BY <1>6, <1>7
<1>10. ASSUME NEW i \in 1..n
       PROVE  /\ sums[i] = sums[i - 1] + Len(parts[i])
              /\ sums[i] <= sums[n]
              /\ \A j \in 1..Len(parts[i]) : bytes[n][sums[i - 1] + j] = parts[i][j]
  <2>1. lens[i - 1] = sums[i - 1] /\ lens[i] = sums[i] /\ lens[i] = Len(bytes[i])
    BY <1>6, <1>a
  <2> HIDE DEF parts, lens
  <2>2. sums[i] = sums[i - 1] + Len(parts[i]) /\ sums[i - 1] \in Nat /\ Len(parts[i]) \in Nat
    BY <1>3, <2>1
  <2>3. sums[i] <= sums[n]
    BY <1>8, <1>9, <1>a, <2>1
  <2> SUFFICES ASSUME NEW j \in 1..Len(parts[i])
               PROVE  bytes[n][sums[i - 1] + j] = parts[i][j]
    BY <2>2, <2>3
  <2>4. bytes[i][sums[i - 1] + j] = parts[i][j]
    BY <1>3, <2>1
  <2>5. sums[i - 1] + j \in 1..Len(bytes[i])
    <3> PICK a, b : a = sums[i - 1] /\ b = Len(parts[i])
      OBVIOUS
    <3>1. a \in Nat /\ b \in Nat /\ Len(bytes[i]) = a + b /\ j \in 1..b
      BY <2>1, <2>2
    <3>2. a + j \in 1..(a + b)
      BY ONLY <3>1
    <3> QED
      BY <3>1, <3>2
  <2> QED
    BY <1>8, <1>a, <2>4, <2>5
<1>11. \A i \in 1..n : parts[i] = ElementBytes(profile, exts[i])
  OBVIOUS
<1>12. Places(profile, exts, sums)
  <2> HIDE DEF parts, lens
  <2>1. sums[n] = Len(ElementsBytes(profile, exts))
    BY <1>1, <1>9
  <2>2. ASSUME NEW i \in 1..n
        PROVE  /\ sums[i] = sums[i - 1] + Len(ElementBytes(profile, exts[i]))
               /\ sums[i] <= sums[n]
               /\ \A j \in 1..Len(ElementBytes(profile, exts[i])) :
                    ElementsBytes(profile, exts)[sums[i - 1] + j] = ElementBytes(profile, exts[i])[j]
    <3>1. parts[i] = ElementBytes(profile, exts[i]) /\ bytes[n] = ElementsBytes(profile, exts)
      BY <1>1, <1>11
    <3> QED
      BY <1>10, <3>1
  <2> QED
    BY <1>2, <2>1, <2>2 DEF Places
<1> QED
  BY <1>1, <1>2, <1>7, <1>9, <1>12

LEMMA CarriedIs ==
    ASSUME NEW p \in PacketType
    PROVE  /\ Carried(p) \in Seq(ExtensionType)
           /\ IsElements(p.extension_profile) => Carried(p) = p.extensions
           /\ Len(p.extensions) <= 1 => Carried(p) = p.extensions
           /\ ~IsElements(p.extension_profile) => Len(Carried(p)) <= 1
           /\ Len(Carried(p)) \in Nat /\ Len(Carried(p)) <= Len(p.extensions)
           /\ \A i \in 1..Len(Carried(p)) : Carried(p)[i] = p.extensions[i]
<1>0. p.extensions \in Seq(ExtensionType) /\ Len(p.extensions) \in Nat
  BY LenProperties DEF PacketType
<1> PICK s \in Seq(ExtensionType) : s = p.extensions
  BY <1>0
<1> PICK n \in Nat : n = Len(s)
  BY <1>0
<1>1. CASE IsElements(p.extension_profile)
  BY <1>0, <1>1 DEF Carried
<1>2. CASE ~IsElements(p.extension_profile)
  <2> PICK m \in Nat : m = Smaller(1, n) /\ m <= n /\ m <= 1 /\ (n <= 1 => m = n)
    BY DEF Smaller
  <2> PICK t : t = SubSeq(s, 1, m)
    OBVIOUS
  <2>1. Carried(p) = t
    BY <1>2 DEF Carried
  <2>2. t \in Seq(ExtensionType) /\ Len(t) = m /\ \A i \in 1..m : t[i] = s[i]
    <3>1. \A i \in 1..n : s[i] \in ExtensionType
      BY ElementOfSeq
    <3>2. \A i \in 1..m : s[i] \in ExtensionType
      BY ONLY SMTT(30), <3>1, m <= n, m \in Nat, n \in Nat
    <3>3. /\ t \in Seq(ExtensionType) /\ Len(t) = IF 1 <= m THEN m - 1 + 1 ELSE 0
          /\ \A i \in 1..(m - 1 + 1) : t[i] = s[1 + i - 1]
      BY ONLY <3>2, t = SubSeq(s, 1, m), 1 \in Int, m \in Int, SubSeqProperties
    <3>4. (IF 1 <= m THEN m - 1 + 1 ELSE 0) = m /\ m - 1 + 1 = m
      OBVIOUS
    <3>5. \A i \in 1..m : 1 + i - 1 = i
      OBVIOUS
    <3> QED
      BY ONLY <3>3, <3>4, <3>5
  <2>3. n <= 1 => t = s
    BY <2>2, SeqEqual
  <2> QED
    BY <1>2, <2>1, <2>2, <2>3
<1> QED
  BY <1>1, <1>2

LEMMA SizeIs ==
    ASSUME NEW p \in PacketType
    PROVE  /\ FixedSize(p.csrc) \in Nat /\ FixedSize(p.csrc) = 12 + 4 * p.csrc
           /\ p.csrc \in Nat
           /\ HeaderSize(p) \in Nat /\ HeaderSize(p) >= FixedSize(p.csrc)
           /\ ~p.extension => HeaderSize(p) = FixedSize(p.csrc)
           /\ p.extension => HeaderSize(p) = FixedSize(p.csrc) + 4
                + RoundUp(Len(ElementsBytes(p.extension_profile, Carried(p))))
           /\ Len(p.payload) \in Nat /\ p.payload \in Seq(Nat) /\ p.padding_size \in Nat
           /\ PacketSize(p) = HeaderSize(p) + Len(p.payload) + p.padding_size
           /\ PacketSize(p) \in Nat
<1>1. /\ p.csrc \in Nat /\ p.payload \in Seq(Nat) /\ Len(p.payload) \in Nat
      /\ p.padding_size \in Nat /\ p.extension \in BOOLEAN
  BY LenProperties DEF PacketType
<1>2. FixedSize(p.csrc) = 12 + 4 * p.csrc /\ FixedSize(p.csrc) \in Nat
  BY <1>1 DEF FixedSize, kCsrcOffset, kCsrcLength
<1> PICK size : size = ElementsSize(p.extension_profile, Carried(p))
  OBVIOUS
<1>3. size \in Nat /\ size = Len(ElementsBytes(p.extension_profile, Carried(p)))
  BY CarriedIs, ElementsAre
<1> PICK r : r = RoundUp(size)
  OBVIOUS
<1>4. r \in Nat /\ RoundUp(4 + size) = 4 + r
  BY <1>3, RoundUpIs
<1>5. HeaderSize(p) = FixedSize(p.csrc) + IF p.extension THEN 4 + r ELSE 0
  BY <1>4 DEF HeaderSize
<1> PICK f \in Nat : f = FixedSize(p.csrc)
  BY <1>2
<1> PICK h : h = HeaderSize(p)
  OBVIOUS
<1> PICK x \in BOOLEAN : x = p.extension
  BY <1>1
<1>6. h \in Nat /\ h >= f /\ (~x => h = f) /\ (x => h = f + 4 + r)
  <2>1. h = f + IF x THEN 4 + r ELSE 0
    BY <1>5
  <2> QED
    BY <1>4, <2>1
<1>7. PacketSize(p) = HeaderSize(p) + Len(p.payload) + p.padding_size
  BY DEF PacketSize
<1>8. PacketSize(p) \in Nat
  <2> PICK l \in Nat, s \in Nat : l = Len(p.payload) /\ s = p.padding_size
    BY <1>1
  <2>1. PacketSize(p) = h + l + s
    BY <1>7
  <2> QED
    BY <1>6, <2>1
<1> QED
  BY <1>1, <1>2, <1>3, <1>6, <1>7, <1>8
-----------------------------------------------------------------------------
(* The first position that passes a test; whether all extensions fit.      *)

LEMMA MinIs ==
    ASSUME NEW T, T \subseteq Nat, T # {}
    PROVE  Min(T) \in T
<1>1. \E x \in T : \A y \in T : x <= y
  BY LeastElement
<1> QED
  BY <1>1 DEF Min

LEMMA UnfitIs ==
    ASSUME NEW p \in PacketType
    PROVE  /\ Unfit(p) \in 0..Len(Carried(p)) /\ Len(Carried(p)) \in Nat
           /\ Unfit(p) = 0 => \A i \in 1..Len(Carried(p)) :
                                    Fits(p.extension_profile, Carried(p)[i])
           /\ Unfit(p) # 0 => ~Fits(p.extension_profile, Carried(p)[Unfit(p)])
<1> DEFINE n == Len(Carried(p))
           I == {i \in 1..n : ~Fits(p.extension_profile, Carried(p)[i])}
<1>1. Unfit(p) = IF I # {} THEN Min(I) ELSE 0
  BY DEF Unfit, SelectInSeq
<1>2. n \in Nat
  BY CarriedIs
<1> HIDE DEF n
<1>3. CASE I = {}
  <2>1. Unfit(p) = 0
    BY <1>1, <1>3
  <2> QED
    BY <1>2, <1>3, <2>1 DEF n
<1>4. CASE I # {}
  <2>1. I \subseteq Nat
    BY <1>2
  <2>2. Unfit(p) = Min(I) /\ Min(I) \in I
    <3> HIDE DEF I
    <3> QED
      BY <1>1, <1>4, <2>1, MinIs
  <2>3. Unfit(p) \in I
    BY <2>2
  <2>4. Unfit(p) \in 1..n /\ ~Fits(p.extension_profile, Carried(p)[Unfit(p)])
    BY <2>3
  <2> QED
    BY <1>2, <2>4 DEF n
<1> QED
  BY <1>3, <1>4

-----------------------------------------------------------------------------
(* What stands where in a header.                                          *)

\* The first byte.
FlagsOf(p) == 128 + Flag(p.padding, 32) + Flag(p.extension, 16) + p.csrc

LEMMA FlagsAre ==
    ASSUME NEW p \in PacketType
    PROVE  /\ FlagsOf(p) \in Nat
           /\ FlagsOf(p) % 16 = p.csrc
           /\ p.padding <=> (FlagsOf(p) \div 32) % 2 = 1
           /\ p.extension <=> (FlagsOf(p) \div 16) % 2 = 1
<1>1. p.csrc \in 0..15 /\ p.padding \in BOOLEAN /\ p.extension \in BOOLEAN
  BY DEF PacketType
<1> PICK c \in 0..15 : c = p.csrc
  BY <1>1
<1>2. CASE p.padding /\ p.extension
  <2>1. FlagsOf(p) = 176 + c
    BY <1>2 DEF FlagsOf, Flag
  <2>2. (176 + c) % 16 = c /\ ((176 + c) \div 32) % 2 = 1 /\ ((176 + c) \div 16) % 2 = 1
    OBVIOUS
  <2> QED
    BY <1>2, <2>1, <2>2
<1>3. CASE p.padding /\ ~p.extension
  <2>1. FlagsOf(p) = 160 + c
    BY <1>3 DEF FlagsOf, Flag
  <2>2. (160 + c) % 16 = c /\ ((160 + c) \div 32) % 2 = 1 /\ ((160 + c) \div 16) % 2 = 0
    OBVIOUS
  <2>3. ((160 + c) \div 16) % 2 # 1 /\ 160 + c \in Nat
    BY <2>2
  <2> QED
    BY ONLY <1>3, <2>1, <2>2, <2>3, c = p.csrc
<1>4. CASE ~p.padding /\ p.extension
  <2>1. FlagsOf(p) = 144 + c
    BY <1>4 DEF FlagsOf, Flag
  <2>2. (144 + c) % 16 = c /\ ((144 + c) \div 32) % 2 = 0 /\ ((144 + c) \div 16) % 2 = 1
    OBVIOUS
  <2>3. ((144 + c) \div 32) % 2 # 1 /\ 144 + c \in Nat
    BY <2>2
  <2> QED
    BY ONLY ZenonT(60), <1>4, <2>1, <2>2, <2>3, c = p.csrc
<1>5. CASE ~p.padding /\ ~p.extension
  <2>1. FlagsOf(p) = 128 + c
    BY <1>5 DEF FlagsOf, Flag
  <2>2. (128 + c) % 16 = c /\ ((128 + c) \div 32) % 2 = 0 /\ ((128 + c) \div 16) % 2 = 0
    OBVIOUS
  <2>3. ((128 + c) \div 32) % 2 # 1 /\ ((128 + c) \div 16) % 2 # 1 /\ 128 + c \in Nat
    BY ONLY <2>2, c \in 0..15
  <2> QED
    BY ONLY <1>5, <2>1, <2>2, <2>3, c = p.csrc
<1> QED
  BY <1>1, <1>2, <1>3, <1>4, <1>5

\* The fixed part, as HeaderBytes writes it.
FixedBytes(p) ==
    <<128 + Flag(p.padding, 32) + Flag(p.extension, 16) + p.csrc>>
    \o Zeros(FixedSize(p.csrc) - 1)

LEMMA FixedBytesAre ==
    ASSUME NEW p \in PacketType
    PROVE  /\ FixedBytes(p) \in Seq(Nat) /\ Len(FixedBytes(p)) = FixedSize(p.csrc)
           /\ FixedBytes(p)[1] = FlagsOf(p)
<1> PICK n \in Nat : n = FixedSize(p.csrc) /\ n >= 12
  BY SizeIs DEF PacketType
<1> PICK s, z : s = <<FlagsOf(p)>> /\ z = Zeros(n - 1)
  OBVIOUS
<1>1. s \in Seq(Nat) /\ Len(s) = 1 /\ s[1] = FlagsOf(p)
  BY FlagsAre, SingletonSeq
<1>2. z \in Seq(Nat) /\ Len(z) = n - 1
  BY n - 1 \in Nat, ZerosIs
<1>3. Joint(s, z, s \o z)
  BY <1>1, <1>2, Joining
<1>4. FixedBytes(p) = s \o z
  BY DEF FixedBytes, FlagsOf
<1> PICK w : w = s \o z
  OBVIOUS
<1>5. w \in Seq(Nat) /\ Len(w) = Len(s) + Len(z) /\ \A j \in 1..Len(s) : w[j] = s[j]
  BY <1>3 DEF Joint
<1>6. Len(w) = n /\ w[1] = FlagsOf(p)
  <2>1. 1 \in 1..Len(s)
    BY <1>1
  <2> QED
    BY ONLY <1>1, <1>2, <1>5, <2>1, n \in Nat
<1> QED
  BY <1>4, <1>5, <1>6

\* The fixed part, the profile, two bytes and the rest.
Fronted(p, w, a, b, rest) ==
    LET n == FixedSize(p.csrc) IN
    /\ w \in Seq(Nat) /\ Len(w) = n + 4 + Len(rest)
    /\ w[1] = FlagsOf(p)
    /\ w[n + 1] = p.extension_profile \div 256 /\ w[n + 2] = p.extension_profile % 256
    /\ w[n + 3] = a /\ w[n + 4] = b
    /\ \A j \in 1..Len(rest) : w[n + 4 + j] = rest[j]

LEMMA PairSeq ==
    ASSUME NEW a \in Nat, NEW b \in Nat
    PROVE  <<a, b>> \in Seq(Nat) /\ Len(<<a, b>>) = 2 /\ <<a, b>>[1] = a /\ <<a, b>>[2] = b
OBVIOUS

LEMMA FrontIs ==
    ASSUME NEW p \in PacketType, NEW two \in Seq(Nat), Len(two) = 2, NEW rest \in Seq(Nat)
    PROVE  Fronted(p, ((FixedBytes(p)
                        \o <<p.extension_profile \div 256, p.extension_profile % 256>>)
                       \o two) \o rest, two[1], two[2], rest)
<1>a. PICK n \in Nat : n = FixedSize(p.csrc) /\ n >= 12
  BY SMTT(30), SizeIs DEF PacketType
<1>b. PICK pr \in Nat : pr = p.extension_profile
  BY DEF PacketType
<1>c. PICK s, d : s = FixedBytes(p) /\ d = <<pr \div 256, pr % 256>>
  OBVIOUS
<1>1. s \in Seq(Nat) /\ Len(s) = n /\ s[1] = FlagsOf(p)
  BY <1>a, <1>c, FixedBytesAre
<1>2. d \in Seq(Nat) /\ Len(d) = 2 /\ d[1] = pr \div 256 /\ d[2] = pr % 256
  BY <1>c, PairSeq, pr \div 256 \in Nat, pr % 256 \in Nat
<1>d. PICK u : u = s \o d
  OBVIOUS
<1>e. PICK v : v = u \o two
  OBVIOUS
<1>f. PICK w : w = v \o rest
  OBVIOUS
<1>3. Joint(s, d, u)
  BY <1>1, <1>2, <1>d, Joining
<1>4. /\ u \in Seq(Nat) /\ Len(u) = n + 2 /\ \A j \in 1..n : u[j] = s[j]
      /\ \A j \in 1..2 : u[n + j] = d[j]
  BY ONLY <1>1, <1>2, <1>3 DEF Joint
<1>5. Joint(u, two, v)
  BY <1>4, <1>e, Joining
<1>6. /\ v \in Seq(Nat) /\ Len(v) = n + 4 /\ \A j \in 1..(n + 2) : v[j] = u[j]
      /\ \A j \in 1..2 : v[n + 2 + j] = two[j]
  <2>1. Len(two) = 2
    OBVIOUS
  <2>2. Len(v) = (n + 2) + 2 /\ (n + 2) + 2 = n + 4
    BY ONLY <1>4, <1>5, <2>1, n \in Nat DEF Joint
  <2> QED
    BY ONLY <1>4, <1>5, <2>1, <2>2 DEF Joint
<1>7. Joint(v, rest, w)
  BY <1>6, <1>f, Joining
<1>8. /\ w \in Seq(Nat) /\ Len(w) = n + 4 + Len(rest) /\ Len(rest) \in Nat
      /\ \A j \in 1..(n + 4) : w[j] = v[j]
      /\ \A j \in 1..Len(rest) : w[n + 4 + j] = rest[j]
  BY ONLY <1>6, <1>7 DEF Joint
<1>9. /\ 1 \in 1..n /\ 1 \in 1..(n + 2) /\ 1 \in 1..(n + 4)
      /\ n + 1 \in 1..(n + 2) /\ n + 1 \in 1..(n + 4)
      /\ n + 2 \in 1..(n + 2) /\ n + 2 \in 1..(n + 4)
      /\ n + 3 = n + 2 + 1 /\ n + 3 \in 1..(n + 4)
      /\ n + 4 = n + 2 + 2 /\ n + 4 \in 1..(n + 4)
      /\ 1 \in 1..2 /\ 2 \in 1..2
  BY ONLY n \in Nat, <1>a
<1>10. w[1] = s[1]
  BY ONLY <1>4, <1>6, <1>8, <1>9
<1>11. w[n + 1] = d[1]
  BY ONLY <1>4, <1>6, <1>8, <1>9
<1>12. w[n + 2] = d[2]
  BY ONLY <1>4, <1>6, <1>8, <1>9
<1>13. w[n + 3] = two[1] /\ w[n + 4] = two[2]
  <2>1. w[n + 3] = v[n + 2 + 1] /\ w[n + 4] = v[n + 2 + 2]
    BY ONLY <1>8, <1>9
  <2>2. v[n + 2 + 1] = two[1] /\ v[n + 2 + 2] = two[2]
    BY ONLY <1>6, <1>9
  <2> QED
    BY ONLY <2>1, <2>2
<1>14. Fronted(p, w, two[1], two[2], rest)
  BY ONLY <1>1, <1>2, <1>8, <1>10, <1>11, <1>12, <1>13, <1>a, <1>b DEF Fronted
<1> QED
  BY <1>14, <1>b, <1>c, <1>d, <1>e, <1>f

\* The header of a packet that can be written.
ElementsOf(p) == ElementsBytes(p.extension_profile, Carried(p))

Written(p, w) ==
    LET n == FixedSize(p.csrc)
        size == RoundUp(Len(ElementsOf(p)))
    IN
    /\ w \in Seq(Nat) /\ Len(w) = HeaderSize(p)
    /\ w[1] = FlagsOf(p)
    /\ p.extension =>
          /\ w[n + 1] = p.extension_profile \div 256 /\ w[n + 2] = p.extension_profile % 256
          /\ w[n + 3] = size \div 1024 /\ w[n + 4] = (size \div 4) % 256
          /\ \A j \in 1..Len(ElementsOf(p)) : w[n + 4 + j] = ElementsOf(p)[j]
          /\ \A j \in (Len(ElementsOf(p)) + 1)..size : w[n + 4 + j] = 0

LengthBytes(size) == <<size \div 1024, (size \div 4) % 256>>

LEMMA HeaderWritten ==
    ASSUME NEW p \in PacketType, HeaderFits(p), NEW base
    PROVE  /\ Written(p, HeaderBytes(p, base))
           /\ HeaderBytes(p, base) = HeaderBytes(p, <<>>)
<1>a. PICK n \in Nat : n = FixedSize(p.csrc) /\ n >= 12
  BY SizeIs DEF PacketType
<1>b. PICK x \in BOOLEAN : x = p.extension
  BY DEF PacketType
<1>1. CASE ~x
  <2>1. HeaderBytes(p, base) = FixedBytes(p) /\ HeaderBytes(p, <<>>) = FixedBytes(p)
    BY <1>1, <1>b DEF HeaderBytes, FixedBytes
  <2>2. HeaderSize(p) = FixedSize(p.csrc)
    BY <1>1, <1>b, SizeIs
  <2>3. Written(p, FixedBytes(p))
    BY <1>1, <1>b, <2>2, FixedBytesAre DEF Written
  <2> QED
    BY <2>1, <2>3
<1>2. CASE x
  <2>a. PICK e : e = ElementsOf(p)
    OBVIOUS
  <2>1. e \in Seq(Nat) /\ Len(e) \in Nat
    BY <2>a, CarriedIs, ElementsAre, LenProperties DEF ElementsOf
  <2>b. PICK l \in Nat : l = Len(e)
    BY <2>1
  <2>c. PICK size : size = RoundUp(l)
    OBVIOUS
  <2>2. size \in Nat /\ size >= l
    BY <2>c, RoundUpIs
  <2>d. PICK a, b : a = size \div 1024 /\ b = (size \div 4) % 256
    OBVIOUS
  <2>e. PICK two, z : two = LengthBytes(size) /\ z = Zeros(size - l)
    OBVIOUS
  <2>3. a \in Nat /\ b \in Nat
    BY <2>2, <2>d
  <2>4. two \in Seq(Nat) /\ Len(two) = 2 /\ two[1] = a /\ two[2] = b
    <3>1. two = <<a, b>>
      BY ONLY <2>d, <2>e DEF LengthBytes
    <3> QED
      BY <2>3, <3>1, PairSeq
  <2>5. z \in Seq(Nat) /\ Len(z) = size - l /\ \A j \in 1..(size - l) : z[j] = 0
    <3>1. size - l \in Nat
      BY <2>2
    <3> QED
      BY <2>e, <3>1, ZerosIs
  <2>f. PICK d : d = <<p.extension_profile \div 256, p.extension_profile % 256>>
    OBVIOUS
  <2>g. PICK v : v = ((FixedBytes(p) \o d) \o two) \o e
    OBVIOUS
  <2>6. Fronted(p, v, two[1], two[2], e)
    BY <2>1, <2>4, <2>f, <2>g, FrontIs
  <2>7. /\ v \in Seq(Nat) /\ Len(v) = n + 4 + l /\ v[1] = FlagsOf(p)
        /\ v[n + 1] = p.extension_profile \div 256 /\ v[n + 2] = p.extension_profile % 256
        /\ v[n + 3] = a /\ v[n + 4] = b
        /\ \A j \in 1..l : v[n + 4 + j] = e[j]
    BY ONLY <1>a, <2>4, <2>6, <2>b DEF Fronted
  <2>h. PICK w : w = v \o z
    OBVIOUS
  <2>8. Joint(v, z, w)
    BY <2>5, <2>7, <2>h, Joining
  <2>9. /\ w \in Seq(Nat) /\ Len(w) = (n + 4 + l) + (size - l)
        /\ \A j \in 1..(n + 4 + l) : w[j] = v[j]
        /\ \A j \in 1..(size - l) : w[n + 4 + l + j] = z[j]
    BY ONLY <2>5, <2>7, <2>8 DEF Joint
  <2>10. /\ 1 \in 1..(n + 4 + l) /\ n + 1 \in 1..(n + 4 + l) /\ n + 2 \in 1..(n + 4 + l)
         /\ n + 3 \in 1..(n + 4 + l) /\ n + 4 \in 1..(n + 4 + l)
         /\ \A j \in 1..l : n + 4 + j \in 1..(n + 4 + l)
         /\ \A j \in (l + 1)..size : j - l \in 1..(size - l) /\ n + 4 + l + (j - l) = n + 4 + j
         /\ (n + 4 + l) + (size - l) = n + 4 + size
    BY <2>2
  <2>11. w[1] = FlagsOf(p)
    BY ONLY <2>7, <2>9, <2>10
  <2>12. w[n + 1] = p.extension_profile \div 256 /\ w[n + 2] = p.extension_profile % 256
    BY ONLY SMTT(30), <2>7, <2>9, <2>10
  <2>13. w[n + 3] = a /\ w[n + 4] = b
    BY ONLY <2>7, <2>9, <2>10
  <2>14. \A j \in 1..l : w[n + 4 + j] = e[j]
    BY ONLY <2>7, <2>9, <2>10
  <2>15. ASSUME NEW j \in (l + 1)..size PROVE w[n + 4 + j] = 0
    <3>1. w[n + 4 + l + (j - l)] = z[j - l]
      BY ONLY <2>9, <2>10, j \in (l + 1)..size
    <3>2. z[j - l] = 0
      BY ONLY <2>5, <2>10, j \in (l + 1)..size
    <3> QED
      BY ONLY <2>10, <3>1, <3>2, j \in (l + 1)..size
  <2>16. HeaderSize(p) = n + 4 + size
    <3>1. HeaderSize(p) = FixedSize(p.csrc) + 4 + RoundUp(Len(ElementsOf(p)))
      BY <1>2, <1>b, SizeIs DEF ElementsOf
    <3> QED
      BY <3>1, <1>a, <2>a, <2>b, <2>c
  <2>17. Written(p, w)
    <3>1. size = RoundUp(Len(ElementsOf(p))) /\ l = Len(ElementsOf(p)) /\ n = FixedSize(p.csrc)
      BY <1>a, <2>a, <2>b, <2>c
    <3>2. Len(w) = HeaderSize(p)
      BY <2>9, <2>10, <2>16
    <3>3. \A j \in (l + 1)..size : w[n + 4 + j] = 0
      BY <2>15
    <3>4. w \in Seq(Nat)
      BY <2>9
    <3> QED
      BY ONLY <2>a, <2>d, <2>11, <2>12, <2>13, <2>14, <3>1, <3>2, <3>3, <3>4 DEF Written
  <2>18. HeaderBytes(p, base) = w /\ HeaderBytes(p, <<>>) = w
    <3>1. \A any : p.extension /\ HeaderFits(p) =>
             HeaderBytes(p, any) =
                (((FixedBytes(p) \o <<p.extension_profile \div 256, p.extension_profile % 256>>)
                  \o LengthBytes(RoundUp(Len(ElementsOf(p)))))
                 \o ElementsOf(p))
                \o Zeros(RoundUp(Len(ElementsOf(p))) - Len(ElementsOf(p)))
      BY ONLY DEF HeaderBytes, FixedBytes, ElementsOf, LengthBytes
    <3> QED
      <4>1. p.extension /\ HeaderFits(p)
        BY <1>2, <1>b
      <4>2. Len(ElementsOf(p)) = l /\ RoundUp(l) = size /\ ElementsOf(p) = e
        BY <2>a, <2>b, <2>c
      <4>4. \A any : HeaderBytes(p, any) = (((FixedBytes(p) \o d) \o two) \o e) \o z
        BY ONLY <3>1, <4>1, <4>2, <2>e, <2>f
      <4>5. \A any : HeaderBytes(p, any) = w
        BY ONLY <4>4, <2>g, <2>h
      <4> QED
        BY ONLY <4>5
  <2> QED
    BY <2>17, <2>18
<1> QED
  BY <1>1, <1>2
\* The header of a packet that cannot be written breaks off behind its length field.
BrokenOff(p, w, base) ==
    LET n == FixedSize(p.csrc) IN
    /\ w \in Seq(Nat) /\ Len(w) >= n + 4
    /\ w[1] = FlagsOf(p)
    /\ w[n + 1] = p.extension_profile \div 256 /\ w[n + 2] = p.extension_profile % 256
    /\ w[n + 3] = base[n + 3] /\ w[n + 4] = base[n + 4]
    /\ Unfit(p) = 1 => Len(w) = n + 4

LEMMA HeaderBroken ==
    ASSUME NEW p \in PacketType, ~HeaderFits(p),
           NEW base \in Seq(Nat), Len(base) >= HeaderSize(p)
    PROVE  BrokenOff(p, HeaderBytes(p, base), base) /\ p.extension
<1>a. PICK n \in Nat : n = FixedSize(p.csrc) /\ n >= 12
  BY SMTT(30), SizeIs DEF PacketType
<1>1. p.extension /\ p.extension \in BOOLEAN
  BY DEF HeaderFits, PacketType
<1>2. Len(base) >= n + 4 /\ Len(base) \in Nat
  <2>a. PICK e : e = ElementsBytes(p.extension_profile, Carried(p))
    OBVIOUS
  <2>1. e \in Seq(Nat) /\ Len(e) \in Nat
    BY <2>a, CarriedIs, ElementsAre, LenProperties
  <2>2. RoundUp(Len(e)) \in Nat
    BY <2>1, RoundUpIs
  <2>3. HeaderSize(p) = n + 4 + RoundUp(Len(e))
    BY <1>1, <1>a, <2>a, SizeIs
  <2>4. Len(base) \in Nat
    BY LenProperties
  <2>5. Len(base) >= HeaderSize(p)
    OBVIOUS
  <2> QED
    BY ONLY <2>2, <2>3, <2>4, <2>5, n \in Nat
<1>b. PICK two : two = SubSeq(base, n + 3, n + 4)
  OBVIOUS
<1>3. two \in Seq(Nat) /\ Len(two) = 2 /\ two[1] = base[n + 3] /\ two[2] = base[n + 4]
  <2>1. \A i \in (n + 3)..(n + 4) : i \in 1..Len(base)
    BY <1>2
  <2>2. \A i \in (n + 3)..(n + 4) : base[i] \in Nat
    BY <2>1, ElementOfSeq
  <2>3. /\ two \in Seq(Nat) /\ Len(two) = IF n + 3 <= n + 4 THEN (n + 4) - (n + 3) + 1 ELSE 0
        /\ \A i \in 1..((n + 4) - (n + 3) + 1) : two[i] = base[(n + 3) + i - 1]
    BY <1>b, <2>2, n + 3 \in Int, n + 4 \in Int, SubSeqProperties
  <2>4. /\ n + 3 <= n + 4 /\ (n + 4) - (n + 3) + 1 = 2 /\ 1 \in 1..2 /\ 2 \in 1..2
        /\ (n + 3) + 1 - 1 = n + 3 /\ (n + 3) + 2 - 1 = n + 4
    OBVIOUS
  <2> QED
    BY ONLY <2>3, <2>4
<1>c. PICK before, k : /\ before = ElementsBytes(p.extension_profile, SubSeq(Carried(p), 1, k))
                       /\ k = Unfit(p) - 1
  OBVIOUS
<1>4. before \in Seq(Nat) /\ (Unfit(p) = 1 => Len(before) = 0)
  <2>1. Unfit(p) \in 0..Len(Carried(p)) /\ Len(Carried(p)) \in Nat /\ Unfit(p) # 0
    BY UnfitIs DEF HeaderFits
  <2>2. k \in Nat /\ k <= Len(Carried(p))
    BY <1>c, <2>1
  <2>b. PICK some : some = SubSeq(Carried(p), 1, k)
    OBVIOUS
  <2>3. \A i \in 1..k : Carried(p)[i] \in ExtensionType
    <3>1. \A i \in 1..k : i \in 1..Len(Carried(p))
      BY <2>1, <2>2
    <3> QED
      BY <3>1, CarriedIs, ElementOfSeq
  <2>4. some \in Seq(ExtensionType)
    BY <2>b, <2>2, <2>3, SubSeqProperties
  <2>5. before \in Seq(Nat)
    BY <1>c, <2>b, <2>4, ElementsAre
  <2>6. ASSUME Unfit(p) = 1 PROVE Len(before) = 0
    <3>1. k = 0
      BY <1>c, <2>6
    <3>2. some = <<>>
      BY <2>b, <3>1, SubSeqEmpty
    <3>3. PICK sums : Places(p.extension_profile, some, sums)
      BY <2>4, ElementsAre
    <3>4. Len(some) = 0
      BY <3>2
    <3>5. sums[0] = 0 /\ sums[Len(some)] = Len(ElementsBytes(p.extension_profile, some))
      BY <3>3 DEF Places
    <3> QED
      BY <1>c, <2>b, <3>4, <3>5
  <2> QED
    BY <2>5, <2>6
<1>d. PICK d : d = <<p.extension_profile \div 256, p.extension_profile % 256>>
  OBVIOUS
<1>e. PICK w : w = ((FixedBytes(p) \o d) \o two) \o before
  OBVIOUS
<1>5. Fronted(p, w, two[1], two[2], before)
  BY SMTT(30), <1>3, <1>4, <1>d, <1>e, FrontIs
<1>6. Len(before) \in Nat
  BY <1>4, LenProperties
<1>7. BrokenOff(p, w, base)
  <2>1. /\ w \in Seq(Nat) /\ Len(w) = n + 4 + Len(before)
        /\ w[1] = FlagsOf(p)
        /\ w[n + 1] = p.extension_profile \div 256 /\ w[n + 2] = p.extension_profile % 256
        /\ w[n + 3] = base[n + 3] /\ w[n + 4] = base[n + 4]
    BY ONLY <1>3, <1>5, <1>a DEF Fronted
  <2>2. Len(w) >= n + 4 /\ (Unfit(p) = 1 => Len(w) = n + 4)
    <3>1. Len(w) = n + 4 + Len(before)
      BY <2>1
    <3>2. Unfit(p) = 1 => Len(before) = 0
      BY <1>4
    <3> QED
      BY ONLY <1>6, <3>1, <3>2, n \in Nat
  <2> QED
    BY ONLY <2>1, <2>2, <1>a DEF BrokenOff
<1>8. HeaderBytes(p, base) = w
  <2>1. p.extension /\ ~HeaderFits(p)
    BY <1>1
  <2>2. p.extension /\ ~HeaderFits(p) =>
           HeaderBytes(p, base) =
              (((FixedBytes(p) \o <<p.extension_profile \div 256, p.extension_profile % 256>>)
                \o SubSeq(base, FixedSize(p.csrc) + 3, FixedSize(p.csrc) + 4))
               \o ElementsBytes(p.extension_profile, SubSeq(Carried(p), 1, Unfit(p) - 1)))
    BY ONLY DEF HeaderBytes, FixedBytes
  <2> QED
    BY ONLY <2>1, <2>2, <1>a, <1>b, <1>c, <1>d, <1>e
<1> QED
  BY <1>1, <1>7, <1>8

-----------------------------------------------------------------------------
(* What PacketizeTo leaves in the vector.                                  *)

\* bytes stand in w from the offset on, and base elsewhere.
Overwritten(base, offset, bytes, w) ==
    /\ w \in Seq(Nat) /\ Len(w) = Len(base)
    /\ \A i \in 1..Len(base) :
          w[i] = IF i - offset \in 1..Len(bytes) THEN bytes[i - offset] ELSE base[i]

LEMMA OverwriteIs ==
    ASSUME NEW base \in Seq(Nat), NEW offset \in Nat, NEW bytes \in Seq(Nat)
    PROVE  Overwritten(base, offset, bytes, Overwrite(base, offset, bytes))
<1>1. Len(base) \in Nat /\ Len(bytes) \in Nat
  BY LenProperties
<1> DEFINE at(i) == IF i - offset \in 1..Len(bytes) THEN bytes[i - offset] ELSE base[i]
<1>2. \A i \in 1..Len(base) : at(i) \in Nat
  BY ElementOfSeq
<1>3. Overwrite(base, offset, bytes) = [i \in 1..Len(base) |-> at(i)]
  BY DEF Overwrite
<1>4. \A i \in 1..Len(base) : Overwrite(base, offset, bytes)[i] = at(i)
  BY <1>3
<1>5. Overwrite(base, offset, bytes) \in Seq(Nat)
  <2> HIDE DEF at
  <2> QED
    BY <1>1, <1>2, <1>3, IsASeq
<1>6. Len(Overwrite(base, offset, bytes)) = Len(base)
  <2> HIDE DEF at
  <2> QED
    BY <1>1, <1>3
<1> QED
  BY <1>4, <1>5, <1>6 DEF Overwritten

LEMMA ResizeIs ==
    ASSUME NEW v \in Seq(Nat), NEW size \in Nat
    PROVE  /\ Resize(v, size) \in Seq(Nat) /\ Len(v) \in Nat
           /\ Len(Resize(v, size)) \in Nat /\ Len(Resize(v, size)) >= size
           /\ Len(v) <= size => Len(Resize(v, size)) = size
           /\ Len(v) >= size => Resize(v, size) = v
<1>1. Len(v) \in Nat
  BY LenProperties
<1>2. CASE Len(v) < size
  <2>a. PICK z : z = Zeros(size - Len(v))
    OBVIOUS
  <2>1. z \in Seq(Nat) /\ Len(z) = size - Len(v)
    <3>1. size - Len(v) \in Nat
      BY <1>1, <1>2
    <3> QED
      BY <2>a, <3>1, ZerosIs
  <2>2. Joint(v, z, v \o z)
    BY <2>1, Joining
  <2>b. PICK w : w = v \o z
    OBVIOUS
  <2>3. w \in Seq(Nat) /\ Len(w) = Len(v) + (size - Len(v))
    BY <2>1, <2>2, <2>b DEF Joint
  <2>4. Len(w) = size
    BY ONLY <1>1, <2>3, size \in Nat
  <2>5. Resize(v, size) = w
    BY <1>2, <2>a, <2>b DEF Resize
  <2> QED
    BY ONLY <1>1, <1>2, <2>3, <2>4, <2>5, size \in Nat
<1>3. CASE ~(Len(v) < size)
  <2>1. Resize(v, size) = v
    BY <1>3 DEF Resize
  <2> QED
    BY <1>1, <1>3, <2>1
<1> QED
  BY <1>2, <1>3
\* A packet without a padding count where it needs one.
Uncounted(p) == p.padding /\ p.padding_size = 0

LEMMA PacketizeIs ==
    ASSUME NEW p \in PacketType, NEW v \in Seq(Nat)
    PROVE  /\ PacketizeTo(p, v).vector \in Seq(Nat)
           /\ PacketizeTo(p, v).done \in BOOLEAN
           /\ PacketizeTo(p, v).done <=> CanWrite(p)
           /\ Uncounted(p) => PacketizeTo(p, v).vector = v
           /\ CanWrite(p) =>
                 /\ BeginsWith(PacketizeTo(p, v).vector, p)
                 /\ Len(v) <= PacketSize(p) => Holds(PacketizeTo(p, v).vector, p)
           /\ ~Uncounted(p) /\ ~HeaderFits(p) =>
                 \E base, header :
                    /\ base = Resize(v, PacketSize(p)) /\ BrokenOff(p, header, base)
                    /\ PacketizeTo(p, v).vector = Overwrite(base, 0, header)
                    /\ base \in Seq(Nat)
                    /\ Len(base) >= PacketSize(p) /\ Len(base) \in Nat
<1>a. PICK h, l, k, size : /\ h = HeaderSize(p) /\ l = Len(p.payload) /\ k = p.padding_size
                           /\ size = PacketSize(p)
  OBVIOUS
<1>1. h \in Nat /\ l \in Nat /\ k \in Nat /\ size = h + l + k /\ size \in Nat /\ h >= 1
  <2>1. FixedSize(p.csrc) >= 1 /\ HeaderSize(p) >= FixedSize(p.csrc) /\ FixedSize(p.csrc) \in Nat
    BY SMTT(30), SizeIs DEF PacketType
  <2> QED
    BY SMTT(30), <1>a, <2>1, SizeIs
<1>b. PICK base : base = Resize(v, size)
  OBVIOUS
<1>2. /\ base \in Seq(Nat) /\ Len(base) \in Nat /\ Len(base) >= size
      /\ (Len(v) <= size => Len(base) = size)
  BY <1>1, <1>b, ResizeIs
<1>3. p.padding \in BOOLEAN /\ p.payload \in Seq(Nat)
  BY DEF PacketType
<1>4. HeaderFits(p) \in BOOLEAN /\ (CanWrite(p) <=> HeaderFits(p) /\ ~Uncounted(p))
  BY <1>1, <1>a, <1>3 DEF CanWrite, Uncounted, HeaderFits
<1>5. CASE Uncounted(p)
  <2>1. PacketizeTo(p, v).vector = v /\ PacketizeTo(p, v).done = FALSE
    BY <1>5 DEF PacketizeTo, Uncounted
  <2> QED
    BY <1>4, <1>5, <2>1
<1>c. PICK header : header = HeaderBytes(p, base)
  OBVIOUS
<1>d. PICK first : first = Overwrite(base, 0, header)
  OBVIOUS
<1>6. CASE ~Uncounted(p) /\ ~HeaderFits(p)
  <2>1. PacketizeTo(p, v).vector = first /\ PacketizeTo(p, v).done = FALSE
    BY <1>6, <1>a, <1>b, <1>c, <1>d DEF PacketizeTo, Uncounted
  <2>2. BrokenOff(p, header, base)
    <3>1. Len(base) >= HeaderSize(p)
      BY <1>1, <1>2, <1>a
    <3> QED
      BY <1>2, <1>6, <1>c, <3>1, HeaderBroken
  <2>3. header \in Seq(Nat)
    BY <2>2 DEF BrokenOff
  <2>4. first \in Seq(Nat)
    BY <1>2, <1>d, <2>3, OverwriteIs DEF Overwritten
  <2>5. /\ base = Resize(v, PacketSize(p)) /\ BrokenOff(p, header, base)
        /\ PacketizeTo(p, v).vector = Overwrite(base, 0, header)
        /\ base \in Seq(Nat) /\ Len(base) >= PacketSize(p) /\ Len(base) \in Nat
    BY ONLY <1>2, <1>a, <1>b, <1>d, <2>1, <2>2
  <2>6. PacketizeTo(p, v).vector \in Seq(Nat) /\ PacketizeTo(p, v).done \in BOOLEAN
    BY <2>1, <2>4
  <2>7. PacketizeTo(p, v).done <=> CanWrite(p)
    BY ONLY <1>4, <1>6, <2>1
  <2> QED
    BY ONLY <1>4, <1>6, <2>5, <2>6, <2>7
<1>7. CASE ~Uncounted(p) /\ HeaderFits(p)
  <2>1. Written(p, header) /\ header = HeaderBytes(p, <<>>)
    BY <1>7, <1>c, HeaderWritten
  <2>2. header \in Seq(Nat) /\ Len(header) = h
    BY <2>1, <1>a DEF Written
  <2>3. Overwritten(base, 0, header, first)
    BY <1>2, <1>d, <2>2, OverwriteIs
  <2>4. /\ first \in Seq(Nat) /\ Len(first) = Len(base)
        /\ \A i \in 1..Len(base) : first[i] = IF i - 0 \in 1..h THEN header[i - 0] ELSE base[i]
    BY ONLY <2>2, <2>3 DEF Overwritten
  <2>b. PICK whole : whole = Overwrite(first, h, p.payload)
    OBVIOUS
  <2>5. Overwritten(first, h, p.payload, whole)
    BY <1>1, <1>3, <2>4, <2>b, OverwriteIs
  <2>6. /\ whole \in Seq(Nat) /\ Len(whole) = Len(base)
        /\ \A i \in 1..Len(base) :
              whole[i] = IF i - h \in 1..l THEN p.payload[i - h] ELSE first[i]
    BY ONLY <1>a, <2>4, <2>5 DEF Overwritten
  <2>c. PICK last : last = h + l + k
    OBVIOUS
  <2>d. PICK w : w = IF p.padding THEN [whole EXCEPT ![last] = k] ELSE whole
    OBVIOUS
  <2>7. PacketizeTo(p, v).vector = w /\ PacketizeTo(p, v).done = TRUE
    BY <1>7, <1>a, <1>b, <1>c, <1>d, <2>b, <2>c, <2>d DEF PacketizeTo, Uncounted
  <2>8. p.padding => k >= 1
    BY <1>1, <1>7, <1>a DEF Uncounted
  <2>9. /\ w \in Seq(Nat) /\ Len(w) = Len(base)
        /\ \A i \in 1..Len(base) : w[i] = IF p.padding /\ i = last THEN k ELSE whole[i]
    <3>1. CASE p.padding
      <4>1. last \in 1..Len(whole)
        BY ONLY <1>1, <1>2, <2>6, <2>8, <2>c, <3>1
      <4>2. /\ [whole EXCEPT ![last] = k] \in Seq(Nat)
            /\ Len([whole EXCEPT ![last] = k]) = Len(whole)
            /\ \A j \in 1..Len(whole) :
                  [whole EXCEPT ![last] = k][j] = IF j = last THEN k ELSE whole[j]
        BY <1>1, <2>6, <4>1, ExceptSeq
      <4> QED
        BY <2>6, <2>d, <3>1, <4>2
    <3>2. CASE ~p.padding
      BY <2>6, <2>d, <3>2
    <3> QED
      BY <1>3, <3>1, <3>2
  <2>10. \A i \in 1..h : w[i] = header[i]
    <3> SUFFICES ASSUME NEW i \in 1..h PROVE w[i] = header[i]
      OBVIOUS
    <3>1. i \in 1..Len(base) /\ ~(i - h \in 1..l) /\ i - 0 = i /\ (p.padding => i # last)
      BY ONLY <1>1, <1>2, <2>8, <2>c, i \in 1..h
    <3>2. w[i] = whole[i]
      BY ONLY <2>9, <3>1
    <3>3. whole[i] = first[i]
      BY ONLY <2>6, <3>1
    <3>4. first[i] = header[i]
      BY ONLY <2>4, <3>1, i \in 1..h
    <3> QED
      BY <3>2, <3>3, <3>4
  <2>11. \A i \in 1..l : w[h + i] = p.payload[i]
    <3> SUFFICES ASSUME NEW i \in 1..l PROVE w[h + i] = p.payload[i]
      OBVIOUS
    <3>1. /\ h + i \in 1..Len(base) /\ (h + i) - h \in 1..l /\ (h + i) - h = i
          /\ (p.padding => h + i # last)
      BY ONLY <1>1, <1>2, <2>8, <2>c, i \in 1..l
    <3>2. w[h + i] = whole[h + i]
      BY ONLY <2>9, <3>1
    <3>3. whole[h + i] = p.payload[i]
      BY ONLY <2>6, <3>1
    <3> QED
      BY <3>2, <3>3
  <2>12. BeginsWith(w, p)
    <3>1. Len(w) >= h
      BY ONLY <1>1, <1>2, <2>9
    <3> QED
      BY ONLY <1>a, <2>1, <2>10, <3>1 DEF BeginsWith
  <2>13. ASSUME Len(v) <= size PROVE Holds(w, p)
    <3>1. Len(w) = size
      BY <1>2, <2>9, <2>13
    <3>2. p.padding => w[Len(w)] = k
      <4> SUFFICES ASSUME p.padding PROVE w[Len(w)] = k
        OBVIOUS
      <4>1. Len(w) = last /\ last \in 1..Len(base)
        BY <1>1, <1>2, <2>8, <2>9, <2>c, <3>1
      <4> QED
        BY ONLY <2>9, <4>1, p.padding
    <3> QED
      BY ONLY <1>a, <2>11, <2>12, <3>1, <3>2 DEF Holds
  <2>14. w \in Seq(Nat) /\ (Len(v) <= PacketSize(p) => Holds(w, p))
    BY <1>a, <2>9, <2>13
  <2> QED
    BY ONLY <1>4, <1>7, <2>7, <2>12, <2>14
<1> QED
  BY <1>5, <1>6, <1>7
-----------------------------------------------------------------------------
(* Reading extensions.                                                     *)

ReadType == [extensions : Seq(ExtensionType), n : Nat, going : BOOLEAN, ok : BOOLEAN]

\* What the loop over the elements may have read of a buffer.
ReadSoFar(profile, buf, read) ==
    /\ read \in ReadType
    /\ read.n <= Len(buf)
    /\ profile = kExtensionProfileOneByte =>
          \A i \in 1..Len(read.extensions) : read.extensions[i].payload # <<>>

LEMMA ReadIs ==
    ASSUME NEW e \in Seq(ExtensionType), NEW n \in Nat,
           NEW going \in BOOLEAN, NEW ok \in BOOLEAN
    PROVE  /\ Read(e, n, going, ok).extensions = e /\ Read(e, n, going, ok).n = n
           /\ Read(e, n, going, ok).going = going /\ Read(e, n, going, ok).ok = ok
           /\ Read(e, n, going, ok) \in ReadType
BY DEF Read, ReadType

LEMMA ExtensionIs ==
    ASSUME NEW id \in Nat, NEW payload \in Seq(Nat)
    PROVE  /\ Extension(id, payload) \in ExtensionType
           /\ Extension(id, payload).id = id /\ Extension(id, payload).payload = payload
BY DEF Extension, ExtensionType

\* Part of a buffer.
LEMMA Bytes ==
    ASSUME NEW buf \in Seq(Nat), NEW a \in Nat, NEW b \in Nat, a <= b, b <= Len(buf)
    PROVE  /\ SubSeq(buf, a + 1, b) \in Seq(Nat)
           /\ Len(SubSeq(buf, a + 1, b)) = b - a
           /\ \A i \in 1..(b - a) : SubSeq(buf, a + 1, b)[i] = buf[a + i]
<1>1. Len(buf) \in Nat
  BY LenProperties
<1>2. \A i \in (a + 1)..b : i \in 1..Len(buf)
  BY <1>1
<1>3. \A i \in (a + 1)..b : buf[i] \in Nat
  BY <1>2, ElementOfSeq
<1>a. PICK s : s = SubSeq(buf, a + 1, b)
  OBVIOUS
<1>4. /\ s \in Seq(Nat) /\ Len(s) = IF a + 1 <= b THEN b - (a + 1) + 1 ELSE 0
      /\ \A i \in 1..(b - (a + 1) + 1) : s[i] = buf[(a + 1) + i - 1]
  <2>1. a + 1 \in Int /\ b \in Int
    OBVIOUS
  <2> QED
    BY ONLY <1>a, <1>3, <2>1, SubSeqProperties
<1>5. (IF a + 1 <= b THEN b - (a + 1) + 1 ELSE 0) = b - a /\ b - (a + 1) + 1 = b - a
  OBVIOUS
<1>6. \A i \in 1..(b - a) : (a + 1) + i - 1 = a + i
  OBVIOUS
<1>7. Len(s) = b - a /\ \A i \in 1..(b - a) : s[i] = buf[a + i]
  BY ONLY <1>4, <1>5, <1>6
<1> QED
  BY <1>a, <1>4, <1>7

LEMMA ReadElementIn ==
    ASSUME NEW profile, IsElements(profile), NEW buf \in Seq(Nat),
           NEW end \in Nat, end <= Len(buf), NEW read, ReadSoFar(profile, buf, read)
    PROVE  ReadSoFar(profile, buf, ReadElement(profile, buf, end, read))
<1>a. PICK n, id, first, next, one :
         /\ n = read.n
         /\ one = (profile = kExtensionProfileOneByte)
         /\ id = ElementId(profile, buf, n)
         /\ first = n + ElementHeaderSize(profile)
         /\ next = first + ElementLen(profile, buf, n)
  OBVIOUS
<1>b. PICK e : e = read.extensions
  OBVIOUS
<1>1. /\ e \in Seq(ExtensionType) /\ n \in Nat /\ n <= Len(buf) /\ Len(buf) \in Nat
      /\ (one => \A i \in 1..Len(e) : e[i].payload # <<>>)
      /\ one \in BOOLEAN
  BY <1>a, <1>b, LenProperties DEF ReadSoFar, ReadType
<1>c. PICK result : result = ReadElement(profile, buf, end, read)
  OBVIOUS
<1>d. PICK ext : ext = Extension(id, SubSeq(buf, first + 1, next))
  OBVIOUS
<1>2. result = IF ~read.going \/ n >= end THEN read
               ELSE IF buf[n + 1] = 0 THEN Read(e, n + 1, TRUE, TRUE)
               ELSE IF one /\ id = kExtensionIDReserved THEN Read(e, n + 1, FALSE, TRUE)
               ELSE IF ~one /\ n + 1 >= Len(buf) THEN Read(e, n + 1, FALSE, FALSE)
               ELSE IF next > Len(buf) THEN Read(e, first, FALSE, FALSE)
               ELSE Read(Append(e, ext), next, TRUE, TRUE)
  BY <1>a, <1>b, <1>c, <1>d DEF ReadElement
<1>3. ASSUME NEW k \in Nat, k <= Len(buf), NEW going \in BOOLEAN, NEW ok \in BOOLEAN
      PROVE  ReadSoFar(profile, buf, Read(e, k, going, ok))
  <2>a. PICK r : r = Read(e, k, going, ok)
    OBVIOUS
  <2>1. r \in ReadType /\ r.n = k /\ r.extensions = e
    BY <1>1, <2>a, ReadIs
  <2>2. ReadSoFar(profile, buf, r)
    BY ONLY <1>1, <1>3, <1>a, <2>1 DEF ReadSoFar
  <2> QED
    BY <2>a, <2>2
<1>4. CASE ~read.going \/ n >= end
  BY <1>2, <1>4, <1>c
<1>5. CASE ~(~read.going \/ n >= end)
  <2>1. n + 1 \in Nat /\ n + 1 <= Len(buf) /\ n + 1 \in 1..Len(buf)
    BY <1>1, <1>5
  <2>2. buf[n + 1] \in Nat
    BY <2>1, ElementOfSeq
  <2>3. CASE buf[n + 1] = 0 \/ (one /\ id = kExtensionIDReserved)
             \/ (~one /\ n + 1 >= Len(buf))
    <3>1. \/ result = Read(e, n + 1, TRUE, TRUE) \/ result = Read(e, n + 1, FALSE, TRUE)
          \/ result = Read(e, n + 1, FALSE, FALSE)
      BY ONLY <1>2, <1>5, <2>3
    <3> QED
      BY <1>3, <1>c, <2>1, <3>1
  <2>4. CASE ~(buf[n + 1] = 0 \/ (one /\ id = kExtensionIDReserved)
               \/ (~one /\ n + 1 >= Len(buf)))
    <3>1. ASSUME one
          PROVE  /\ id \in Nat /\ first \in Nat /\ first <= Len(buf) /\ next \in Nat
                 /\ next > first
      <4>1. profile = kExtensionProfileOneByte
        BY <1>a, <3>1
      <4>2. id = buf[n + 1] \div 16 /\ first = n + 1 /\ next = first + ((buf[n + 1] % 16) + 1)
        BY <1>a, <4>1, Profiles DEF ElementId, ElementLen, ElementHeaderSize
      <4> QED
        BY ONLY SMTT(30), <1>1, <2>1, <2>2, <4>2
    <3>2. ASSUME ~one
          PROVE  /\ id \in Nat /\ first \in Nat /\ first <= Len(buf) /\ next \in Nat
                 /\ next >= first
      <4>1. profile = kExtensionProfileTwoByte /\ profile # kExtensionProfileOneByte
        BY <1>a, <3>2 DEF IsElements
      <4>2. id = buf[n + 1] /\ first = n + 2 /\ next = first + buf[n + 2]
        BY <1>a, <4>1 DEF ElementId, ElementLen, ElementHeaderSize
      <4>3. n + 2 \in 1..Len(buf)
        BY <1>1, <2>1, <2>4, <3>2
      <4>4. buf[n + 2] \in Nat
        BY <4>3, ElementOfSeq
      <4> QED
        BY ONLY SMTT(30), <1>1, <2>1, <2>2, <3>2, <4>2, <4>3, <4>4
    <3>3. /\ id \in Nat /\ first \in Nat /\ first <= Len(buf) /\ next \in Nat /\ next >= first
          /\ (one => next > first)
      <4>1. one \in BOOLEAN
        BY <1>1
      <4> QED
        BY ONLY <3>1, <3>2, <4>1
    <3>4. CASE next > Len(buf)
      <4>1. result = Read(e, first, FALSE, FALSE)
        BY ONLY <1>2, <1>5, <2>4, <3>4
      <4> QED
        BY <1>3, <1>c, <3>3, <4>1
    <3>5. CASE ~(next > Len(buf))
      <4>1. result = Read(Append(e, ext), next, TRUE, TRUE)
        BY ONLY <1>2, <1>5, <2>4, <3>5
      <4>a. PICK s : s = SubSeq(buf, first + 1, next)
        OBVIOUS
      <4>2. s \in Seq(Nat) /\ Len(s) = next - first
        BY <1>1, <3>3, <3>5, <4>a, Bytes
      <4>3. ext \in ExtensionType /\ ext.payload = s
        BY <1>d, <3>3, <4>2, <4>a, ExtensionIs
      <4>4. one => ext.payload # <<>>
        <5> SUFFICES ASSUME one, s = <<>> PROVE FALSE
          BY <4>3
        <5>1. Len(s) = 0
          OBVIOUS
        <5> QED
          BY ONLY <3>3, <4>2, <5>1, one
      <4>b. PICK f : f = Append(e, ext)
        OBVIOUS
      <4>5. /\ f \in Seq(ExtensionType) /\ Len(f) = Len(e) + 1
            /\ \A i \in 1..Len(e) : f[i] = e[i]
            /\ f[Len(e) + 1] = ext
        BY <1>1, <4>3, <4>b, AppendProperties
      <4>6. one => \A i \in 1..Len(f) : f[i].payload # <<>>
        <5> SUFFICES ASSUME one, NEW i \in 1..Len(f) PROVE f[i].payload # <<>>
          OBVIOUS
        <5>1. Len(e) \in Nat
          BY <1>1, LenProperties
        <5>2. i \in 1..Len(e) \/ i = Len(e) + 1
          BY ONLY <4>5, <5>1, i \in 1..Len(f)
        <5> QED
          BY ONLY <1>1, <4>4, <4>5, <5>2, one
      <4>7. result = Read(f, next, TRUE, TRUE) /\ next <= Len(buf)
        BY <1>1, <3>3, <3>5, <4>1, <4>b
      <4>8. /\ result \in ReadType /\ result.n = next /\ result.extensions = f
        <5>1. f \in Seq(ExtensionType) /\ next \in Nat
          BY <3>3, <4>5
        <5> QED
          BY ONLY <4>7, <5>1, ReadIs
      <4> QED
        BY ONLY <1>a, <1>c, <4>6, <4>7, <4>8 DEF ReadSoFar
    <3> QED
      BY <3>4, <3>5
  <2> QED
    BY <2>3, <2>4
<1> QED
  BY <1>4, <1>5

\* The turns of the loop.
Turns(profile, buf, n, end, read) ==
    /\ DOMAIN read = 0..(end - n)
    /\ read[0] = Read(<<>>, n, TRUE, TRUE)
    /\ \A i \in 1..(end - n) : read[i] = ReadElement(profile, buf, end, read[i - 1])

LEMMA ElementsRead ==
    ASSUME NEW profile, IsElements(profile), NEW buf \in Seq(Nat),
           NEW n \in Nat, NEW end \in Nat, n <= end, end <= Len(buf)
    PROVE  /\ \E read : /\ Turns(profile, buf, n, end, read)
                        /\ Elements(profile, buf, n, end) = read[end - n]
           /\ ReadSoFar(profile, buf, Elements(profile, buf, n, end))
<1> DEFINE m == end - n
           base == Read(<<>>, n, TRUE, TRUE)
           S == {read \in ReadType : ReadSoFar(profile, buf, read)}
           c(v) == ReadElement(profile, buf, end, v)
           Def(f) == f = [i \in 0..m |-> IF i = 0 THEN base ELSE c(f[i - 1])]
           u == CHOOSE f : Def(f)
           step == [i \in 1..m |-> [v \in S |-> c(v)]]
<1>1. Elements(profile, buf, n, end) = u[m]
  BY DEF Elements
<1>2. m \in Nat /\ Len(buf) \in Nat
  BY LenProperties
<1>3. base \in S
  <2>1. <<>> \in Seq(ExtensionType) /\ Len(<<>>) = 0
    OBVIOUS
  <2>2. base \in ReadType /\ base.n = n /\ base.extensions = <<>>
    BY ONLY <2>1, n \in Nat, ReadIs
  <2> HIDE DEF base
  <2>3. \A i \in 1..Len(base.extensions) : base.extensions[i].payload # <<>>
    BY ONLY <2>1, <2>2
  <2>4. n <= Len(buf)
    BY <1>2
  <2> QED
    BY <2>2, <2>3, <2>4 DEF ReadSoFar
<1> HIDE DEF m, base
<1>4. step \in [1..m -> [S -> S]]
  <2>1. \A v \in S : c(v) \in S
    <3> SUFFICES ASSUME NEW v \in S PROVE c(v) \in S
      OBVIOUS
    <3>1. ReadSoFar(profile, buf, v)
      OBVIOUS
    <3>2. ReadSoFar(profile, buf, c(v))
      BY <3>1, ReadElementIn
    <3> QED
      BY <3>2 DEF ReadSoFar
  <2> HIDE DEF S, c
  <2> QED
    BY <2>1
<1>5. PICK g : Iterates(g, m, S, base, step)
  <2> HIDE DEF step, S
  <2> QED
    BY <1>2, <1>3, <1>4, IterationExists
<1> HIDE DEF S, c
<1>6. \A i \in 1..m : g[i] = c(g[i - 1])
  <2> SUFFICES ASSUME NEW i \in 1..m PROVE g[i] = c(g[i - 1])
    OBVIOUS
  <2>1. step[i] = [v \in S |-> c(v)]
    OBVIOUS
  <2> HIDE DEF step
  <2>2. i - 1 \in 0..m
    BY <1>2
  <2>3. g[i - 1] \in S /\ g[i] = step[i][g[i - 1]]
    BY <1>5, <2>2 DEF Iterates
  <2> QED
    BY <2>1, <2>3
<1>7. g \in [0..m -> S] /\ g[0] = base
  BY <1>5 DEF Iterates
<1>8. Def(g)
  BY <1>2, <1>6, <1>7
<1>9. Def(u)
  <2> HIDE DEF Def
  <2> QED
    BY <1>8
<1> HIDE DEF u
<1>10. /\ u[0] = base /\ DOMAIN u = 0..m
       /\ \A i \in 1..m : u[i] = c(u[i - 1])
  BY <1>2, <1>9
<1>11. \A i \in 0..m : g[i] = u[i]
  <2>1. StepAlike(g, u, m)
    BY <1>6, <1>7, <1>10 DEF StepAlike
  <2> QED
    BY <1>2, <2>1, IterationUnique
<1>12. u[m] \in S
  BY <1>2, <1>7, <1>11
<1>13. Turns(profile, buf, n, end, u)
  BY <1>10 DEF Turns, m, c, base
<1>14. ReadSoFar(profile, buf, u[m])
  BY <1>12 DEF S
<1> QED
  BY <1>1, <1>13, <1>14 DEF m
-----------------------------------------------------------------------------
(* Reading headers and packets.                                            *)

Bit(f, d) == (f \div d) % 2 = 1
Begun(p, f) == [p EXCEPT !.padding = Bit(f, 32), !.extension = Bit(f, 16)]
Cleared(p, f) == [Begun(p, f) EXCEPT !.csrc = f % 16, !.extensions = <<>>]
Profiled(p, f, profile) == [Cleared(p, f) EXCEPT !.extension_profile = profile]
Extended(p, f, profile, exts) == [Profiled(p, f, profile) EXCEPT !.extensions = exts]

\* What ReadHeader returns, case by case.
HeaderRead(p, buf, r) ==
    LET f == buf[1]
        n == FixedSize(f % 16)
        profile == Unsigned16(buf, n)
        end == n + 4 + 4 * Unsigned16(buf, n + 2)
        read == ReadExtensions(profile, buf, n + 4, end)
        l == Len(buf)
    IN
    /\ l < 4 => r.packet = p /\ r.size = 0 /\ r.ok = FALSE
    /\ ~(l < 4) /\ l < n => r.packet = Begun(p, f) /\ r.size = 0 /\ r.ok = FALSE
    /\ ~(l < 4) /\ ~(l < n) /\ ~Bit(f, 16) =>
          r.packet = Cleared(p, f) /\ r.size = n /\ r.ok = TRUE
    /\ ~(l < 4) /\ ~(l < n) /\ Bit(f, 16) /\ l < n + 4 =>
          r.packet = Cleared(p, f) /\ r.size = 0 /\ r.ok = FALSE
    /\ ~(l < 4) /\ ~(l < n) /\ Bit(f, 16) /\ ~(l < n + 4) /\ l < end =>
          r.packet = Profiled(p, f, profile) /\ r.size = 0 /\ r.ok = FALSE
    /\ ~(l < 4) /\ ~(l < n) /\ Bit(f, 16) /\ ~(l < n + 4) /\ ~(l < end) =>
          /\ r.packet = Extended(p, f, profile, read.extensions)
          /\ r.size = read.n /\ r.ok = read.ok

ExtendedIs(q, f, profile, exts) ==
    /\ q \in PacketType
    /\ q.padding = Bit(f, 32) /\ q.extension = Bit(f, 16) /\ q.csrc = f % 16
    /\ q.extension_profile = profile /\ q.extensions = exts

LEMMA PacketFields ==
    ASSUME NEW p \in PacketType, NEW f \in Nat, NEW profile \in Nat,
           NEW exts \in Seq(ExtensionType)
    PROVE  /\ Begun(p, f) \in PacketType
           /\ Begun(p, f).padding = Bit(f, 32) /\ Begun(p, f).extension = Bit(f, 16)
           /\ Cleared(p, f) \in PacketType
           /\ Cleared(p, f).padding = Bit(f, 32) /\ Cleared(p, f).extension = Bit(f, 16)
           /\ Cleared(p, f).csrc = f % 16 /\ Cleared(p, f).extensions = <<>>
           /\ Cleared(p, f).padding_size = p.padding_size
           /\ Profiled(p, f, profile) \in PacketType
           /\ Profiled(p, f, profile).padding = Bit(f, 32)
           /\ Profiled(p, f, profile).extension = Bit(f, 16)
           /\ Profiled(p, f, profile).extensions = <<>>
           /\ ExtendedIs(Extended(p, f, profile, exts), f, profile, exts)
<1>a. PICK a \in BOOLEAN, b \in BOOLEAN : a = Bit(f, 32) /\ b = Bit(f, 16)
  BY DEF Bit
<1>b. PICK c \in 0..15 : c = f % 16
  OBVIOUS
<1>1. <<>> \in Seq(ExtensionType)
  OBVIOUS
<1>c. PICK begun : begun = [p EXCEPT !.padding = a, !.extension = b]
  OBVIOUS
<1>2. /\ begun \in PacketType /\ begun.padding = a /\ begun.extension = b
      /\ begun.padding_size = p.padding_size
  BY <1>c DEF PacketType
<1>3. begun = Begun(p, f)
  BY <1>a, <1>c DEF Begun
<1>d. PICK cleared : cleared = [begun EXCEPT !.csrc = c, !.extensions = <<>>]
  OBVIOUS
<1>4. /\ cleared \in PacketType /\ cleared.padding = a /\ cleared.extension = b
      /\ cleared.csrc = c /\ cleared.extensions = <<>>
      /\ cleared.padding_size = p.padding_size
  BY <1>d, <1>1, <1>2 DEF PacketType
<1>5. cleared = Cleared(p, f)
  BY <1>3, <1>b, <1>d DEF Cleared
<1>e. PICK profiled : profiled = [cleared EXCEPT !.extension_profile = profile]
  OBVIOUS
<1>6. /\ profiled \in PacketType /\ profiled.padding = a /\ profiled.extension = b
      /\ profiled.csrc = c /\ profiled.extensions = <<>> /\ profiled.extension_profile = profile
  BY <1>e, <1>4 DEF PacketType
<1>7. profiled = Profiled(p, f, profile)
  BY <1>5, <1>e DEF Profiled
<1>f. PICK extended : extended = [profiled EXCEPT !.extensions = exts]
  OBVIOUS
<1>8. /\ extended \in PacketType /\ extended.padding = a /\ extended.extension = b
      /\ extended.csrc = c /\ extended.extensions = exts /\ extended.extension_profile = profile
  BY <1>f, <1>6 DEF PacketType
<1>9. extended = Extended(p, f, profile, exts)
  BY <1>7, <1>f DEF Extended
<1> QED
  BY ONLY <1>2, <1>3, <1>4, <1>5, <1>6, <1>7, <1>8, <1>9, <1>a, <1>b DEF ExtendedIs

LEMMA HeaderIsRead ==
    ASSUME NEW p \in PacketType, NEW buf
    PROVE  HeaderRead(p, buf, ReadHeader(p, buf))
<1>a. PICK r : r = ReadHeader(p, buf)
  OBVIOUS
<1>b. PICK f, n, profile, end, read, l :
         /\ f = buf[1] /\ n = FixedSize(f % 16) /\ profile = Unsigned16(buf, n)
         /\ end = n + 4 + 4 * Unsigned16(buf, n + 2)
         /\ read = ReadExtensions(profile, buf, n + 4, end)
         /\ l = Len(buf)
  OBVIOUS
<1>c. PICK begun, cleared, profiled, extended :
         /\ begun = Begun(p, f) /\ cleared = Cleared(p, f)
         /\ profiled = Profiled(p, f, profile)
         /\ extended = Extended(p, f, profile, read.extensions)
  OBVIOUS
<1>1. begun.extension <=> Bit(f, 16)
  <2>a. PICK a \in BOOLEAN, b \in BOOLEAN : a = Bit(f, 32) /\ b = Bit(f, 16)
    BY DEF Bit
  <2>1. begun = [p EXCEPT !.padding = a, !.extension = b]
    BY <1>c, <2>a DEF Begun
  <2>2. begun.extension = b
    BY <2>1 DEF PacketType
  <2> QED
    BY <2>a, <2>2
<1>2. r = IF l < 4 THEN [packet |-> p, size |-> 0, ok |-> FALSE]
          ELSE IF l < n THEN [packet |-> begun, size |-> 0, ok |-> FALSE]
          ELSE IF ~begun.extension THEN [packet |-> cleared, size |-> n, ok |-> TRUE]
          ELSE IF l < n + 4 THEN [packet |-> cleared, size |-> 0, ok |-> FALSE]
          ELSE IF l < end THEN [packet |-> profiled, size |-> 0, ok |-> FALSE]
          ELSE [packet |-> extended, size |-> read.n, ok |-> read.ok]
  BY ONLY SMTT(30), <1>a, <1>b, <1>c DEF ReadHeader, kHeaderLength, Begun, Cleared, Profiled, Extended, Bit
<1>3. HeaderRead(p, buf, r)
  BY ONLY <1>1, <1>2, <1>b, <1>c DEF HeaderRead
<1> QED
  BY <1>a, <1>3
LEMMA Unsigned16Is ==
    ASSUME NEW buf \in Seq(Nat), NEW n \in Nat, n + 2 <= Len(buf)
    PROVE  /\ Unsigned16(buf, n) \in Nat /\ buf[n + 1] \in Nat /\ buf[n + 2] \in Nat
           /\ Unsigned16(buf, n) = 256 * buf[n + 1] + buf[n + 2]
<1>1. Len(buf) \in Nat
  BY LenProperties
<1>2. n + 1 \in 1..Len(buf) /\ n + 2 \in 1..Len(buf)
  BY <1>1
<1>3. buf[n + 1] \in Nat /\ buf[n + 2] \in Nat
  BY <1>2, ElementOfSeq
<1>4. 256 * buf[n + 1] + buf[n + 2] \in Nat
  BY ONLY <1>3
<1> QED
  BY ONLY <1>3, <1>4 DEF Unsigned16

LEMMA ExtensionsRead ==
    ASSUME NEW profile, NEW buf \in Seq(Nat), NEW n \in Nat, NEW end \in Nat,
           n <= end, end <= Len(buf)
    PROVE  /\ ReadSoFar(profile, buf, ReadExtensions(profile, buf, n, end))
           /\ ~IsElements(profile) =>
                 ReadExtensions(profile, buf, n, end)
                    = Read(<<Extension(0, SubSeq(buf, n + 1, end))>>, end, FALSE, TRUE)
<1>1. CASE IsElements(profile)
  <2>1. ReadExtensions(profile, buf, n, end) = Elements(profile, buf, n, end)
    BY <1>1 DEF ReadExtensions
  <2>2. ReadSoFar(profile, buf, Elements(profile, buf, n, end))
    BY <1>1, ElementsRead
  <2> QED
    BY <1>1, <2>1, <2>2
<1>2. CASE ~IsElements(profile)
  <2>a. PICK s : s = SubSeq(buf, n + 1, end)
    OBVIOUS
  <2>b. PICK ext : ext = Extension(0, s)
    OBVIOUS
  <2>c. PICK list : list = <<ext>>
    OBVIOUS
  <2>1. s \in Seq(Nat)
    BY <2>a, Bytes
  <2>2. ext \in ExtensionType
    BY <2>1, <2>b, ExtensionIs
  <2>3. list \in Seq(ExtensionType) /\ Len(list) = 1
    BY <2>2, <2>c, SingletonSeq
  <2>d. PICK r : r = Read(list, end, FALSE, TRUE)
    OBVIOUS
  <2>4. r \in ReadType /\ r.n = end /\ r.extensions = list
    BY <2>3, <2>d, ReadIs
  <2>5. ReadExtensions(profile, buf, n, end) = r
    BY <1>2, <2>a, <2>b, <2>c, <2>d DEF ReadExtensions
  <2>6. profile # kExtensionProfileOneByte
    BY <1>2 DEF IsElements
  <2>7. ReadSoFar(profile, buf, r)
    <3>1. end <= Len(buf)
      OBVIOUS
    <3> QED
      BY ONLY <2>4, <2>6, <3>1 DEF ReadSoFar
  <2> QED
    BY <1>2, <2>5, <2>7, <2>a, <2>b, <2>c, <2>d
<1> QED
  BY <1>1, <1>2

\* Read is what the buffer told, typed, and told apart.
HeaderTold(buf, r) ==
    /\ r.packet \in PacketType /\ r.size \in Nat /\ r.size <= Len(buf) /\ r.ok \in BOOLEAN
    /\ r.ok => Distinct(r.packet)

LEMMA HeaderReadIs ==
    ASSUME NEW p \in PacketType, NEW buf \in Seq(Nat)
    PROVE  HeaderTold(buf, ReadHeader(p, buf))
<1>a. PICK r : r = ReadHeader(p, buf)
  OBVIOUS
<1>1. HeaderRead(p, buf, r)
  BY <1>a, HeaderIsRead
<1>b. PICK l \in Nat : l = Len(buf)
  BY LenProperties
<1>c. ASSUME r.packet \in PacketType, r.size = 0, r.ok = FALSE
      PROVE  HeaderTold(buf, ReadHeader(p, buf))
  <2>1. r.size \in Nat /\ r.size <= Len(buf)
    BY <1>b, <1>c
  <2>2. r.ok \in BOOLEAN /\ ~r.ok
    BY <1>c, Zenon
  <2> QED
    BY ONLY <1>a, <1>c, <2>1, <2>2, Zenon DEF HeaderTold
<1>2. CASE l < 4
  <2>1. r.packet = p /\ r.size = 0 /\ r.ok = FALSE
    BY ONLY <1>1, <1>2, <1>b DEF HeaderRead
  <2> QED
    BY <1>c, <2>1
<1>3. CASE ~(l < 4)
  <2>a. PICK f : f = buf[1]
    OBVIOUS
  <2>1. f \in Nat
    BY <1>3, <1>b, <2>a, 1 \in 1..l, ElementOfSeq
  <2>b. PICK n : n = FixedSize(f % 16)
    OBVIOUS
  <2>2. n \in Nat /\ n >= 12
    <3>1. f % 16 \in Nat
      BY <2>1
    <3> QED
      BY ONLY <2>b, <3>1 DEF FixedSize, kCsrcOffset, kCsrcLength
  <2>3. CASE l < n
    <3>1. r.packet = Begun(p, f) /\ r.size = 0 /\ r.ok = FALSE
      BY ONLY <1>1, <1>3, <1>b, <2>3, <2>a, <2>b DEF HeaderRead
    <3>2. Begun(p, f) \in PacketType
      BY <2>1, <<>> \in Seq(ExtensionType), PacketFields
    <3> QED
      BY <1>c, <3>1, <3>2
  <2>4. CASE ~(l < n) /\ ~Bit(f, 16)
    <3>a. PICK q : q = Cleared(p, f)
      OBVIOUS
    <3>1. r.packet = q /\ r.size = n /\ r.ok = TRUE
      BY ONLY <1>1, <1>3, <1>b, <2>4, <2>a, <2>b, <3>a DEF HeaderRead
    <3>2. q \in PacketType /\ q.extensions = <<>>
      BY <2>1, <3>a, <<>> \in Seq(ExtensionType), PacketFields
    <3>3. Len(<<>>) = 0
      OBVIOUS
    <3>4. Distinct(q)
      BY ONLY <3>2, <3>3 DEF Distinct
    <3>5. n <= l
      BY <2>2, <2>4
    <3> QED
      <4>1. r.ok \in BOOLEAN
        BY <3>1
      <4> QED
        BY ONLY <1>a, <1>b, <2>2, <3>1, <3>2, <3>4, <3>5, <4>1 DEF HeaderTold
  <2>5. CASE ~(l < n) /\ Bit(f, 16) /\ l < n + 4
    <3>1. r.packet = Cleared(p, f) /\ r.size = 0 /\ r.ok = FALSE
      BY ONLY <1>1, <1>3, <1>b, <2>5, <2>a, <2>b DEF HeaderRead
    <3>2. Cleared(p, f) \in PacketType
      BY <2>1, <<>> \in Seq(ExtensionType), PacketFields
    <3> QED
      BY <1>c, <3>1, <3>2
  <2>6. CASE ~(l < n) /\ Bit(f, 16) /\ ~(l < n + 4)
    <3>1. n + 2 \in Nat /\ n + 2 <= Len(buf) /\ (n + 2) + 2 <= Len(buf) /\ n + 4 \in Nat
      BY <1>b, <2>2, <2>6
    <3>a. PICK profile, words : profile = Unsigned16(buf, n) /\ words = Unsigned16(buf, n + 2)
      OBVIOUS
    <3>2. profile \in Nat /\ words \in Nat
      BY <2>2, <3>1, <3>a, Unsigned16Is
    <3>b. PICK end : end = n + 4 + 4 * words
      OBVIOUS
    <3>3. end \in Nat /\ n + 4 <= end
      BY <2>2, <3>2, <3>b
    <3>4. CASE l < end
      <4>1. r.packet = Profiled(p, f, profile) /\ r.size = 0 /\ r.ok = FALSE
        BY ONLY <1>1, <1>3, <1>b, <2>6, <2>a, <2>b, <3>4, <3>a, <3>b DEF HeaderRead
      <4>2. Profiled(p, f, profile) \in PacketType
        BY <2>1, <3>2, <<>> \in Seq(ExtensionType), PacketFields
      <4> QED
        BY <1>c, <4>1, <4>2
    <3>5. CASE ~(l < end)
      <4>a. PICK read : read = ReadExtensions(profile, buf, n + 4, end)
        OBVIOUS
      <4>1. end <= Len(buf)
        BY <1>b, <3>3, <3>5
      <4>2. ReadSoFar(profile, buf, read)
        BY <3>1, <3>3, <4>1, <4>a, ExtensionsRead
      <4>3. /\ read.extensions \in Seq(ExtensionType) /\ read.n \in Nat /\ read.ok \in BOOLEAN
            /\ read.n <= Len(buf)
            /\ profile = kExtensionProfileOneByte =>
                  \A i \in 1..Len(read.extensions) : read.extensions[i].payload # <<>>
        BY ONLY <4>2 DEF ReadSoFar, ReadType
      <4>b. PICK q : q = Extended(p, f, profile, read.extensions)
        OBVIOUS
      <4>4. r.packet = q /\ r.size = read.n /\ r.ok = read.ok
        BY ONLY <1>1, <1>3, <1>b, <2>6, <2>a, <2>b, <3>5, <3>a, <3>b, <4>a, <4>b DEF HeaderRead
      <4>5. /\ q \in PacketType /\ q.extension = Bit(f, 16)
            /\ q.extension_profile = profile /\ q.extensions = read.extensions
        <5>a. PICK exts : exts = read.extensions
          OBVIOUS
        <5>1. exts \in Seq(ExtensionType)
          BY <4>3, <5>a
        <5> QED
          <6>1. ExtendedIs(Extended(p, f, profile, exts), f, profile, exts)
            BY ONLY <2>1, <3>2, <5>1, p \in PacketType, PacketFields
          <6> QED
            BY ONLY <4>b, <5>a, <6>1 DEF ExtendedIs
      <4>6. ~IsElements(profile) =>
               /\ Len(read.extensions) <= 1
               /\ \A i \in 1..Len(read.extensions) : read.extensions[i].id = 0
        <5> SUFFICES ASSUME ~IsElements(profile)
                     PROVE  /\ Len(read.extensions) <= 1
                            /\ \A i \in 1..Len(read.extensions) : read.extensions[i].id = 0
          OBVIOUS
        <5>a. PICK s : s = SubSeq(buf, (n + 4) + 1, end)
          OBVIOUS
        <5>b. PICK list, ext : list = <<ext>> /\ ext = Extension(0, s)
          OBVIOUS
        <5>1. read = Read(list, end, FALSE, TRUE)
          BY <3>1, <3>3, <4>1, <4>a, <5>a, <5>b, ExtensionsRead
        <5>2. read.extensions = list
          BY ONLY <5>1 DEF Read
        <5>3. ext.id = 0
          BY ONLY <5>b DEF Extension
        <5>4. Len(list) = 1 /\ list[1] = ext
          BY <5>b
        <5> QED
          BY ONLY <5>2, <5>3, <5>4
      <4>7. Distinct(q)
        BY ONLY <2>6, <4>3, <4>5, <4>6 DEF Distinct
      <4> QED
        BY ONLY <1>a, <4>3, <4>4, <4>5, <4>7 DEF HeaderTold
    <3> QED
      BY <3>4, <3>5
  <2> QED
    BY <2>3, <2>4, <2>5, <2>6
<1> QED
  BY <1>2, <1>3

LEMMA DepacketizeIs ==
    ASSUME NEW p \in PacketType, NEW buf \in Seq(Nat), buf # <<>>
    PROVE  /\ Depacketize(p, buf).packet \in PacketType
           /\ Depacketize(p, buf).outcome \in {"true", "false", "overrun"}
           /\ Depacketize(p, buf).outcome = "true" =>
                 /\ ReadHeader(p, buf).ok
                 /\ Depacketize(p, buf).packet.extension = ReadHeader(p, buf).packet.extension
                 /\ Depacketize(p, buf).packet.extensions = ReadHeader(p, buf).packet.extensions
                 /\ Depacketize(p, buf).packet.extension_profile
                       = ReadHeader(p, buf).packet.extension_profile
<1>a. PICK header, padding_size :
         /\ header = ReadHeader(p, buf)
         /\ padding_size = IF header.packet.padding THEN buf[Len(buf)] ELSE 0
  OBVIOUS
<1>b. PICK q : q = header.packet
  OBVIOUS
<1>c. PICK end, counted : /\ end = Len(buf) - padding_size
                          /\ counted = [q EXCEPT !.padding_size = padding_size]
  OBVIOUS
<1>d. PICK s : s = SubSeq(buf, header.size + 1, end)
  OBVIOUS
<1>e. PICK full : full = [counted EXCEPT !.payload = s]
  OBVIOUS
<1>f. PICK r : r = Depacketize(p, buf)
  OBVIOUS
<1>1. HeaderTold(buf, header)
  BY <1>a, HeaderReadIs
<1>2. q \in PacketType /\ header.size \in Nat /\ header.size <= Len(buf) /\ header.ok \in BOOLEAN
  BY ONLY <1>1, <1>b DEF HeaderTold
<1>3. Len(buf) \in Nat /\ Len(buf) \in 1..Len(buf)
  <2>1. Len(buf) \in Nat \ {0}
    BY EmptySeq
  <2> QED
    BY <2>1
<1>4. buf[Len(buf)] \in Nat /\ padding_size \in Nat
  BY <1>3, <1>a, ElementOfSeq
<1>5. /\ counted \in PacketType /\ counted.extension = q.extension
      /\ counted.extensions = q.extensions /\ counted.extension_profile = q.extension_profile
  BY <1>2, <1>4, <1>c DEF PacketType
<1>6. r = IF ~header.ok \/ (q.padding /\ Len(buf) <= header.size)
          THEN [packet |-> q, outcome |-> "false"]
          ELSE IF end < 0 THEN [packet |-> counted, outcome |-> "overrun"]
          ELSE IF end < header.size THEN [packet |-> counted, outcome |-> "false"]
          ELSE [packet |-> full, outcome |-> "true"]
  BY ONLY <1>a, <1>b, <1>c, <1>d, <1>e, <1>f DEF Depacketize
<1>7. CASE ~header.ok \/ (q.padding /\ Len(buf) <= header.size) \/ end < 0 \/ end < header.size
  <2>1. \/ r.packet = q /\ r.outcome = "false"
        \/ r.packet = counted /\ r.outcome \in {"overrun", "false"}
    BY ONLY <1>6, <1>7
  <2> QED
    BY <1>2, <1>5, <1>f, <2>1
<1>8. CASE ~(~header.ok \/ (q.padding /\ Len(buf) <= header.size) \/ end < 0 \/ end < header.size)
  <2>1. r.packet = full /\ r.outcome = "true" /\ header.ok
    BY ONLY <1>6, <1>8
  <2>2. end \in Nat /\ header.size <= end /\ end <= Len(buf)
    BY ONLY <1>2, <1>3, <1>4, <1>8, <1>c
  <2>3. s \in Seq(Nat)
    BY <1>2, <1>d, <2>2, Bytes
  <2>4. /\ full \in PacketType /\ full.extension = q.extension
        /\ full.extensions = q.extensions /\ full.extension_profile = q.extension_profile
    BY <1>5, <1>e, <2>3 DEF PacketType
  <2> QED
    BY ONLY <1>a, <1>b, <1>f, <2>1, <2>4
<1> QED
  BY <1>7, <1>8
-----------------------------------------------------------------------------
(* Setting and deleting.                                                   *)

LEMMA PositionIs ==
    ASSUME NEW p \in PacketType, NEW id
    PROVE  /\ PositionOf(p, id) \in 0..Len(p.extensions) /\ Len(p.extensions) \in Nat
           /\ PositionOf(p, id) = 0 => \A i \in 1..Len(p.extensions) : p.extensions[i].id # id
           /\ PositionOf(p, id) # 0 => p.extensions[PositionOf(p, id)].id = id
<1> DEFINE n == Len(p.extensions)
           I == {i \in 1..n : p.extensions[i].id = id}
<1>1. PositionOf(p, id) = IF I # {} THEN Min(I) ELSE 0
  BY DEF PositionOf, SelectInSeq
<1>2. n \in Nat
  BY LenProperties DEF PacketType
<1> HIDE DEF n
<1>3. CASE I = {}
  <2>1. PositionOf(p, id) = 0
    BY <1>1, <1>3
  <2> QED
    BY <1>2, <1>3, <2>1 DEF n
<1>4. CASE I # {}
  <2>1. I \subseteq Nat
    BY <1>2
  <2>2. PositionOf(p, id) = Min(I) /\ Min(I) \in I
    <3> HIDE DEF I
    <3> QED
      BY <1>1, <1>4, <2>1, MinIs
  <2>3. PositionOf(p, id) \in I
    BY <2>2
  <2>4. PositionOf(p, id) \in 1..n /\ p.extensions[PositionOf(p, id)].id = id
    BY <2>3
  <2> QED
    BY <1>2, <2>4 DEF n
<1> QED
  BY <1>3, <1>4

\* The list t is s with the extension at k, or behind its end.
Placed(s, k, ext, t) ==
    /\ t \in Seq(ExtensionType) /\ s \in Seq(ExtensionType)
    /\ Len(s) \in Nat /\ Len(t) \in Nat /\ k \in 1..Len(t)
    /\ Len(t) = Len(s) \/ (Len(t) = Len(s) + 1 /\ k = Len(t))
    /\ \A i \in 1..Len(t) : t[i] = IF i = k THEN ext ELSE s[i]

LEMMA UpdatedIs ==
    ASSUME NEW p \in PacketType, NEW id \in Nat, NEW payload \in Seq(Nat)
    PROVE  /\ PositionOf(p, id) = 0 =>
                 /\ Placed(p.extensions, Len(p.extensions) + 1, Extension(id, payload),
                           Updated(p, id, payload))
                 /\ Len(Updated(p, id, payload)) = Len(p.extensions) + 1
           /\ PositionOf(p, id) # 0 =>
                 /\ Placed(p.extensions, PositionOf(p, id), Extension(id, payload),
                           Updated(p, id, payload))
                 /\ Len(Updated(p, id, payload)) = Len(p.extensions)
<1>a. PICK s, ext, k, t : /\ s = p.extensions /\ ext = Extension(id, payload)
                          /\ k = PositionOf(p, id) /\ t = Updated(p, id, payload)
  OBVIOUS
<1>1. s \in Seq(ExtensionType) /\ ext \in ExtensionType
  BY <1>a, ExtensionIs DEF PacketType
<1>2. k \in 0..Len(s) /\ Len(s) \in Nat
  BY <1>a, PositionIs
<1>3. CASE k = 0
  <2>1. t = Append(s, ext)
    BY <1>3, <1>a DEF Updated
  <2>2. /\ t \in Seq(ExtensionType) /\ Len(t) = Len(s) + 1
        /\ \A i \in 1..Len(s) : t[i] = s[i]
        /\ t[Len(s) + 1] = ext
    BY <1>1, <2>1, AppendProperties
  <2>3. \A i \in 1..Len(t) : t[i] = IF i = Len(s) + 1 THEN ext ELSE s[i]
    BY ONLY <1>2, <2>2
  <2>4. Placed(s, Len(s) + 1, ext, t)
    BY ONLY <1>1, <1>2, <2>2, <2>3 DEF Placed
  <2> QED
    BY <1>3, <1>a, <2>2, <2>4
<1>4. CASE k # 0
  <2>1. t = [s EXCEPT ![k] = ext]
    BY <1>4, <1>a DEF Updated, ReplaceAt
  <2>2. k \in 1..Len(s)
    BY <1>2, <1>4
  <2>3. /\ t \in Seq(ExtensionType) /\ Len(t) = Len(s)
        /\ \A i \in 1..Len(s) : t[i] = IF i = k THEN ext ELSE s[i]
    BY <1>1, <2>1, <2>2, ExceptSeq
  <2>4. Placed(s, k, ext, t)
    BY ONLY <1>1, <1>2, <2>2, <2>3 DEF Placed
  <2> QED
    BY <1>4, <1>a, <2>3, <2>4
<1> QED
  BY <1>3, <1>4

\* The list t is s without the extension at k.
Removed(s, k, t) ==
    /\ t \in Seq(ExtensionType) /\ s \in Seq(ExtensionType)
    /\ Len(s) \in Nat /\ k \in 1..Len(s) /\ Len(t) = Len(s) - 1
    /\ \A i \in 1..Len(t) : t[i] = IF i < k THEN s[i] ELSE s[i + 1]

LEMMA RemoveAtIs ==
    ASSUME NEW s \in Seq(ExtensionType), NEW k \in 1..Len(s)
    PROVE  Removed(s, k, RemoveAt(s, k))
<1>1. Len(s) \in Nat /\ k \in Nat
  BY LenProperties
<1>a. PICK n \in Nat : n = Len(s)
  BY <1>1
<1>b. PICK x, y : x = SubSeq(s, 1, k - 1) /\ y = SubSeq(s, k + 1, n)
  OBVIOUS
<1>2. \A i \in 1..n : s[i] \in ExtensionType
  BY <1>a, ElementOfSeq
<1>3. (\A i \in 1..(k - 1) : i \in 1..n) /\ (\A i \in (k + 1)..n : i \in 1..n)
  BY <1>1, <1>a
<1>4. /\ x \in Seq(ExtensionType) /\ Len(x) = IF 1 <= k - 1 THEN (k - 1) - 1 + 1 ELSE 0
      /\ \A i \in 1..((k - 1) - 1 + 1) : x[i] = s[1 + i - 1]
  <2>1. \A i \in 1..(k - 1) : s[i] \in ExtensionType
    BY <1>2, <1>3
  <2>2. 1 \in Int /\ k - 1 \in Int
    BY <1>1
  <2> QED
    BY SMTT(30), <1>b, <2>1, <2>2, SubSeqProperties
<1>5. /\ y \in Seq(ExtensionType) /\ Len(y) = IF k + 1 <= n THEN n - (k + 1) + 1 ELSE 0
      /\ \A i \in 1..(n - (k + 1) + 1) : y[i] = s[(k + 1) + i - 1]
  <2>1. \A i \in (k + 1)..n : s[i] \in ExtensionType
    BY <1>2, <1>3
  <2>2. k + 1 \in Int /\ n \in Int
    BY <1>1
  <2> QED
    BY <1>b, <2>1, <2>2, SubSeqProperties
<1>c. PICK a, b : a = k - 1 /\ b = n - k
  OBVIOUS
<1>6. a \in Nat /\ b \in Nat /\ Len(x) = a /\ Len(y) = b
  BY <1>1, <1>4, <1>5, <1>a, <1>c
<1>7. /\ \A i \in 1..a : i \in 1..((k - 1) - 1 + 1) /\ 1 + i - 1 = i
      /\ \A i \in 1..b : i \in 1..(n - (k + 1) + 1) /\ (k + 1) + i - 1 = k + i
  BY <1>1, <1>c
<1>8. (\A i \in 1..a : x[i] = s[i]) /\ (\A i \in 1..b : y[i] = s[k + i])
  BY ONLY <1>4, <1>5, <1>7
<1>d. PICK t : t = x \o y
  OBVIOUS
<1>9. /\ t \in Seq(ExtensionType) /\ Len(t) = a + b
      /\ \A i \in 1..(a + b) : t[i] = IF i <= a THEN x[i] ELSE y[i - a]
  <2>1. x \in Seq(ExtensionType) /\ y \in Seq(ExtensionType)
    BY <1>4, <1>5
  <2>2. /\ x \o y \in Seq(ExtensionType) /\ Len(x \o y) = Len(x) + Len(y)
        /\ \A i \in 1..Len(x) + Len(y) :
              (x \o y)[i] = IF i <= Len(x) THEN x[i] ELSE y[i - Len(x)]
    BY ONLY <2>1, ConcatProperties
  <2> QED
    BY ONLY <1>6, <1>d, <2>2
<1>10. ASSUME NEW i \in 1..(a + b) PROVE t[i] = IF i < k THEN s[i] ELSE s[i + 1]
  <2>1. CASE i <= a
    <3>1. i \in 1..a /\ i < k
      BY <1>1, <1>6, <1>c, <2>1
    <3> QED
      BY ONLY <1>8, <1>9, <2>1, <3>1, i \in 1..(a + b)
  <2>2. CASE ~(i <= a)
    <3>1. i - a \in 1..b /\ ~(i < k) /\ k + (i - a) = i + 1
      BY <1>1, <1>6, <1>c, <2>2
    <3> QED
      BY ONLY <1>8, <1>9, <2>2, <3>1, i \in 1..(a + b)
  <2> QED
    BY <2>1, <2>2
<1>11. Len(t) = Len(s) - 1
  BY ONLY <1>1, <1>6, <1>9, <1>a, <1>c
<1>12. \A i \in 1..Len(t) : t[i] = IF i < k THEN s[i] ELSE s[i + 1]
  BY <1>9, <1>10
<1>13. Removed(s, k, t)
  BY ONLY <1>1, <1>9, <1>11, <1>12, s \in Seq(ExtensionType), k \in 1..Len(s) DEF Removed
<1>14. t = RemoveAt(s, k)
  BY <1>a, <1>b, <1>d DEF RemoveAt
<1> QED
  BY <1>13, <1>14
\* What a call makes of a packet that is well formed.
Kept(p, q) == q \in PacketType /\ Distinct(q) /\ (Suits(p) => Suits(q))

\* The packet after SetExtension.
SetTo(p, id, payload) ==
    IF ~p.extension
    THEN [p EXCEPT !.extension = TRUE,
                   !.extension_profile = FirstProfile(p.extension_profile, payload),
                   !.extensions = Append(p.extensions, Extension(id, payload))]
    ELSE IF Accepts(p.extension_profile, id, payload)
    THEN [p EXCEPT !.extensions = Updated(p, id, payload)]
    ELSE p

\* The payloads the application sets.
Short(payload) == Len(payload) \in 1..255

LEMMA NonEmpty ==
    ASSUME NEW payload, Short(payload)
    PROVE  payload # <<>>
<1> SUFFICES ASSUME payload = <<>> PROVE FALSE
  OBVIOUS
<1>1. Len(payload) = 0
  BY Len(<<>>) = 0
<1>2. Len(payload) \in 1..255
  BY DEF Short
<1> QED
  BY ONLY <1>1, <1>2

LEMMA FirstIs ==
    ASSUME NEW profile, NEW payload, Short(payload)
    PROVE  IsElements(FirstProfile(profile, payload)) /\ FirstProfile(profile, payload) \in Nat
<1>a. PICK first : first = FirstProfile(profile, payload)
  OBVIOUS
<1>1. Len(payload) \in 1..255
  BY DEF Short
<1>b. PICK l \in 1..255 : l = Len(payload)
  BY ONLY <1>1
<1>2. l <= 16 \/ l \in 17..255
  BY ONLY l \in 1..255
<1>3. ~(l <= 16 /\ l \in 17..255)
  BY ONLY l \in 1..255
<1>4. first = kExtensionProfileOneByte \/ first = kExtensionProfileTwoByte
  <2>1. first = CASE l <= 16 -> kExtensionProfileOneByte
                  [] l \in 17..255 -> kExtensionProfileTwoByte
                  [] OTHER -> profile
    BY ONLY <1>a, <1>b DEF FirstProfile
  <2> QED
    BY ONLY SMTT(40), <1>2, <1>3, <2>1
<1>5. IsElements(first)
  BY ONLY <1>4 DEF IsElements
<1>6. first \in Nat
  BY ONLY <1>4 DEF kExtensionProfileOneByte, kExtensionProfileTwoByte
<1> QED
  BY <1>5, <1>6, <1>a

LEMMA FirstSet ==
    ASSUME NEW p \in PacketType, Distinct(p), ~p.extension,
           NEW id \in Nat, NEW payload \in Seq(Nat), Short(payload)
    PROVE  /\ Kept(p, SetTo(p, id, payload))
           /\ SetTo(p, id, payload).extension = TRUE
           /\ SetTo(p, id, payload).extensions = <<Extension(id, payload)>>
           /\ IsElements(SetTo(p, id, payload).extension_profile)
<1>a. PICK ext : ext = Extension(id, payload)
  OBVIOUS
<1>b. PICK profile : profile = FirstProfile(p.extension_profile, payload)
  OBVIOUS
<1>c. PICK list : list = Append(p.extensions, ext)
  OBVIOUS
<1>1. ext \in ExtensionType /\ ext.payload = payload
  BY <1>a, ExtensionIs
<1>2. p.extensions = <<>>
  BY DEF Distinct
<1>3. list = <<ext>>
  BY <1>2, <1>c
<1>4. list \in Seq(ExtensionType) /\ Len(list) = 1 /\ list[1] = ext
  BY <1>1, <1>3, SingletonSeq
<1>5. IsElements(profile) /\ profile \in Nat
  BY <1>b, FirstIs
<1>d. PICK q : q = [p EXCEPT !.extension = TRUE, !.extension_profile = profile,
                             !.extensions = list]
  OBVIOUS
<1>6. /\ q \in PacketType /\ q.extension = TRUE /\ q.extension_profile = profile
      /\ q.extensions = list
  BY <1>4, <1>5, <1>d DEF PacketType
<1>7. q = SetTo(p, id, payload)
  BY <1>a, <1>b, <1>c, <1>d DEF SetTo
<1>8. payload # <<>>
  BY NonEmpty
<1>9. Distinct(q)
  <2>1. \A i \in 1..Len(list) : list[i].payload # <<>>
    BY ONLY <1>1, <1>4, <1>8
  <2>2. q.extension
    BY <1>6
  <2> QED
    BY ONLY <1>5, <1>6, <2>1, <2>2 DEF Distinct
<1>10. Suits(q)
  <2>1. Len(q.extensions) = 1
    BY <1>4, <1>6
  <2>2. \A i \in 2..1 : FALSE
    OBVIOUS
  <2>3. \A i, j \in 1..1 : i = j
    OBVIOUS
  <2> QED
    BY ONLY <2>1, <2>2, <2>3 DEF Suits
<1> QED
  BY <1>3, <1>5, <1>6, <1>7, <1>9, <1>10, <1>a DEF Kept

LEMMA AcceptedFit ==
    ASSUME NEW profile, NEW id \in Nat, NEW payload \in Seq(Nat),
           IsElements(profile), Accepts(profile, id, payload)
    PROVE  Fits(profile, Extension(id, payload))
<1>1. Extension(id, payload).id = id /\ Extension(id, payload).payload = payload
  BY ExtensionIs
<1>2. CASE profile = kExtensionProfileOneByte
  BY <1>1, <1>2, Profiles DEF Accepts, Fits
<1>3. CASE profile = kExtensionProfileTwoByte
  BY <1>1, <1>3, Profiles DEF Accepts, Fits
<1> QED
  BY <1>2, <1>3 DEF IsElements

LEMMA NextSet ==
    ASSUME NEW p \in PacketType, Distinct(p), p.extension,
           NEW id \in Nat, NEW payload \in Seq(Nat), Short(payload),
           Accepts(p.extension_profile, id, payload)
    PROVE  Kept(p, SetTo(p, id, payload))
<1>a. PICK s, ext, t : /\ s = p.extensions /\ ext = Extension(id, payload)
                       /\ t = Updated(p, id, payload)
  OBVIOUS
<1>b. PICK profile : profile = p.extension_profile
  OBVIOUS
<1>1. ext \in ExtensionType /\ ext.payload = payload /\ ext.id = id
  BY <1>a, ExtensionIs
<1>2. PICK k : /\ Placed(s, k, ext, t)
               /\ Len(t) = Len(s) + 1 => \A i \in 1..Len(s) : s[i].id # id
               /\ Len(t) = Len(s) => s[k].id = id
  <2>1. CASE PositionOf(p, id) = 0
    <3>1. Placed(s, Len(s) + 1, ext, t) /\ Len(t) = Len(s) + 1
      BY <1>a, <2>1, UpdatedIs
    <3>2. (\A i \in 1..Len(s) : s[i].id # id) /\ Len(s) \in Nat
      BY <1>a, <2>1, PositionIs
    <3>3. Len(t) # Len(s)
      BY ONLY <3>1, <3>2
    <3> QED
      BY <3>1, <3>2, <3>3
  <2>2. CASE PositionOf(p, id) # 0
    <3>1. Placed(s, PositionOf(p, id), ext, t) /\ Len(t) = Len(s)
      BY <1>a, <2>2, UpdatedIs
    <3>2. s[PositionOf(p, id)].id = id /\ Len(s) \in Nat
      BY <1>a, <2>2, PositionIs
    <3>3. Len(t) # Len(s) + 1
      BY ONLY <3>1, <3>2
    <3> QED
      BY <3>1, <3>2, <3>3
  <2> QED
    BY <2>1, <2>2
<1>3. /\ t \in Seq(ExtensionType)
      /\ Len(s) \in Nat /\ Len(t) \in Nat /\ k \in 1..Len(t)
      /\ Len(t) = Len(s) \/ (Len(t) = Len(s) + 1 /\ k = Len(t))
      /\ \A i \in 1..Len(t) : t[i] = IF i = k THEN ext ELSE s[i]
  BY ONLY <1>2 DEF Placed
<1>c. PICK q : q = [p EXCEPT !.extensions = t]
  OBVIOUS
<1>4. /\ q \in PacketType /\ q.extension = p.extension /\ q.extension_profile = profile
      /\ q.extensions = t
  BY <1>3, <1>b, <1>c DEF PacketType
<1>5. q = SetTo(p, id, payload)
  BY <1>a, <1>c DEF SetTo
<1>6. payload # <<>>
  BY NonEmpty
\* Another position than k is one of s.
<1>7. \A i \in 1..Len(t) : i # k => i \in 1..Len(s)
  BY ONLY <1>3
<1>8. /\ ~IsElements(profile) => Len(s) <= 1 /\ \A i \in 1..Len(s) : s[i].id = 0
      /\ profile = kExtensionProfileOneByte => \A i \in 1..Len(s) : s[i].payload # <<>>
      /\ p.extension
  BY <1>a, <1>b DEF Distinct
<1>9. ~IsElements(profile) => Len(t) <= 1 /\ \A i \in 1..Len(t) : t[i].id = 0
  <2> SUFFICES ASSUME ~IsElements(profile)
               PROVE  Len(t) <= 1 /\ \A i \in 1..Len(t) : t[i].id = 0
    OBVIOUS
  <2>1. id = 0
    BY <1>b DEF Accepts, IsElements
  <2>2. Len(s) <= 1 /\ \A i \in 1..Len(s) : s[i].id = 0
    BY <1>8
  <2>3. Len(t) <= 1
    <3> SUFFICES ASSUME Len(t) > 1 PROVE FALSE
      BY <1>3
    <3>1. Len(t) = Len(s) + 1 /\ Len(s) = 1
      <4>a. PICK a, b : a = Len(s) /\ b = Len(t)
        OBVIOUS
      <4>1. a \in Nat /\ b \in Nat /\ (b = a \/ b = a + 1) /\ a <= 1 /\ b > 1
        BY ONLY <1>3, <2>2, <4>a, Len(t) > 1
      <4>2. b = a + 1 /\ a = 1
        BY ONLY <4>1
      <4> QED
        BY <4>2, <4>a
    <3>2. s[1].id # id /\ s[1].id = 0
      BY ONLY <1>2, <2>2, <3>1
    <3> QED
      BY <2>1, <3>2
  <2>4. \A i \in 1..Len(t) : t[i].id = 0
    BY ONLY <1>1, <1>3, <1>7, <2>1, <2>2
  <2> QED
    BY <2>3, <2>4
<1>10. profile = kExtensionProfileOneByte => \A i \in 1..Len(t) : t[i].payload # <<>>
  BY ONLY <1>1, <1>3, <1>6, <1>7, <1>8
<1>11. Distinct(q)
  BY ONLY <1>4, <1>8, <1>9, <1>10 DEF Distinct
<1>12. ASSUME Suits(p) PROVE Suits(q)
  <2>1. /\ \A i \in 2..Len(s) : Fits(profile, s[i])
        /\ \A i, j \in 1..Len(s) : s[i].id = s[j].id => i = j
    BY <1>12, <1>a, <1>b DEF Suits
  <2>2. ASSUME NEW i \in 2..Len(t) PROVE Fits(profile, t[i])
    <3>1. CASE i = k
      <4>1. IsElements(profile)
        BY <1>3, <1>9, <2>2
      <4>2. Fits(profile, ext)
        BY <1>a, <1>b, <4>1, AcceptedFit
      <4>3. i \in 1..Len(t)
        BY <1>3
      <4> QED
        BY ONLY <1>3, <3>1, <4>2, <4>3
    <3>2. CASE i # k
      <4>1. i \in 1..Len(t) /\ i \in 2..Len(s)
        BY <1>3, <1>7, <3>2
      <4> QED
        BY ONLY <1>3, <2>1, <3>2, <4>1
    <3> QED
      BY <3>1, <3>2
  <2>3. ASSUME NEW i \in 1..Len(t), NEW j \in 1..Len(t), t[i].id = t[j].id PROVE i = j
    <3>1. \A m \in 1..Len(t) : m # k => t[m].id # id
      <4> SUFFICES ASSUME NEW m \in 1..Len(t), m # k PROVE t[m].id # id
        OBVIOUS
      <4>1. m \in 1..Len(s) /\ t[m] = s[m]
        BY ONLY <1>3, <1>7, m \in 1..Len(t), m # k
      <4>2. CASE Len(t) = Len(s)
        <5>1. s[k].id = id /\ k \in 1..Len(s)
          BY ONLY <1>2, <1>3, <4>2
        <5> QED
          BY ONLY <2>1, <4>1, <5>1, m # k
      <4>3. CASE Len(t) = Len(s) + 1
        BY ONLY <1>2, <4>1, <4>3
      <4> QED
        BY <1>3, <4>2, <4>3
    <3>2. t[k].id = id
      BY ONLY <1>1, <1>3
    <3>3. CASE i = k \/ j = k
      BY ONLY <2>3, <3>1, <3>2, <3>3, i \in 1..Len(t), j \in 1..Len(t)
    <3>4. CASE i # k /\ j # k
      BY ONLY <1>3, <1>7, <2>1, <2>3, <3>4, i \in 1..Len(t), j \in 1..Len(t)
    <3> QED
      BY <3>3, <3>4
  <2>4. /\ \A i \in 2..Len(t) : Fits(profile, t[i])
        /\ \A i, j \in 1..Len(t) : t[i].id = t[j].id => i = j
    BY <2>2, <2>3
  <2> QED
    BY ONLY <1>4, <2>4 DEF Suits
<1> QED
  BY <1>4, <1>5, <1>11, <1>12 DEF Kept

LEMMA SetKeeps ==
    ASSUME NEW p \in PacketType, Distinct(p),
           NEW id \in Nat, NEW payload \in Seq(Nat), Short(payload)
    PROVE  Kept(p, SetTo(p, id, payload))
<1>1. CASE ~p.extension
  BY <1>1, FirstSet
<1>2. CASE p.extension /\ Accepts(p.extension_profile, id, payload)
  BY <1>2, NextSet
<1>3. CASE p.extension /\ ~Accepts(p.extension_profile, id, payload)
  <2>1. SetTo(p, id, payload) = p
    BY <1>3 DEF SetTo
  <2> QED
    BY <2>1 DEF Kept
<1> QED
  BY <1>1, <1>2, <1>3

LEMMA Shifted ==
    ASSUME NEW i \in Nat, NEW j \in Nat, NEW k \in Nat,
           (IF i < k THEN i ELSE i + 1) = (IF j < k THEN j ELSE j + 1)
    PROVE  i = j
OBVIOUS

\* The packet after DeleteExtension.
DeletedFrom(p, id) ==
    IF p.extension /\ PositionOf(p, id) # 0
    THEN [p EXCEPT !.extensions = RemoveAt(p.extensions, PositionOf(p, id))]
    ELSE p

LEMMA DeleteKeeps ==
    ASSUME NEW p \in PacketType, Distinct(p), NEW id
    PROVE  Kept(p, DeletedFrom(p, id))
<1>1. CASE ~(p.extension /\ PositionOf(p, id) # 0)
  <2>1. DeletedFrom(p, id) = p
    BY <1>1 DEF DeletedFrom
  <2> QED
    BY <2>1 DEF Kept
<1>2. CASE p.extension /\ PositionOf(p, id) # 0
  <2>a. PICK s, k, t, profile : /\ s = p.extensions /\ k = PositionOf(p, id)
                                /\ t = RemoveAt(s, k) /\ profile = p.extension_profile
    OBVIOUS
  <2>1. s \in Seq(ExtensionType) /\ k \in 1..Len(s)
    BY <1>2, <2>a, PositionIs DEF PacketType
  <2>2. Removed(s, k, t)
    BY <2>1, <2>a, RemoveAtIs
  <2>3. /\ t \in Seq(ExtensionType) /\ Len(s) \in Nat /\ k \in 1..Len(s) /\ Len(t) = Len(s) - 1
        /\ \A i \in 1..Len(t) : t[i] = IF i < k THEN s[i] ELSE s[i + 1]
    BY ONLY <2>2 DEF Removed
  <2>b. PICK q : q = [p EXCEPT !.extensions = t]
    OBVIOUS
  <2>4. /\ q \in PacketType /\ q.extension = p.extension /\ q.extension_profile = profile
        /\ q.extensions = t
    BY <2>3, <2>a, <2>b DEF PacketType
  <2>5. q = DeletedFrom(p, id)
    BY <1>2, <2>a, <2>b DEF DeletedFrom
  <2>6. \A i \in 1..Len(t) : i \in 1..Len(s) /\ i + 1 \in 1..Len(s)
    BY ONLY <2>3
  <2>7. /\ ~IsElements(profile) => Len(s) <= 1 /\ \A i \in 1..Len(s) : s[i].id = 0
        /\ profile = kExtensionProfileOneByte => \A i \in 1..Len(s) : s[i].payload # <<>>
        /\ p.extension
    BY <1>2, <2>a DEF Distinct
  <2>8. ~IsElements(profile) => Len(t) <= 1 /\ \A i \in 1..Len(t) : t[i].id = 0
    BY ONLY <2>3, <2>6, <2>7
  <2>9. profile = kExtensionProfileOneByte => \A i \in 1..Len(t) : t[i].payload # <<>>
    BY ONLY <2>3, <2>6, <2>7
  <2>10. Distinct(q)
    BY ONLY <2>4, <2>7, <2>8, <2>9 DEF Distinct
  <2>11. ASSUME Suits(p) PROVE Suits(q)
    <3>1. /\ \A i \in 2..Len(s) : Fits(profile, s[i])
          /\ \A i, j \in 1..Len(s) : s[i].id = s[j].id => i = j
      BY <2>11, <2>a DEF Suits
    <3>2. \A i \in 2..Len(t) : /\ i \in 1..Len(t) /\ i \in 2..Len(s) /\ i + 1 \in 2..Len(s)
      BY ONLY <2>3
    <3>3. \A i \in 2..Len(t) : Fits(profile, t[i])
      BY ONLY <2>3, <3>1, <3>2
    <3>4. ASSUME NEW i \in 1..Len(t), NEW j \in 1..Len(t), t[i].id = t[j].id PROVE i = j
      <4>a. PICK x, y : /\ x = IF i < k THEN i ELSE i + 1
                        /\ y = IF j < k THEN j ELSE j + 1
        OBVIOUS
      <4>1. x \in 1..Len(s) /\ y \in 1..Len(s) /\ t[i] = s[x] /\ t[j] = s[y]
        BY ONLY <2>3, <2>6, <4>a, i \in 1..Len(t), j \in 1..Len(t)
      <4>2. x = y
        BY ONLY <3>1, <3>4, <4>1
      <4> QED
        <5>1. i \in Nat /\ j \in Nat /\ k \in Nat
          BY ONLY <2>3, i \in 1..Len(t), j \in 1..Len(t)
        <5> QED
          <6>1. (IF i < k THEN i ELSE i + 1) = (IF j < k THEN j ELSE j + 1)
            BY ONLY <4>2, <4>a
          <6> QED
            BY ONLY <5>1, <6>1, Shifted
    <3>5. \A i, j \in 1..Len(t) : t[i].id = t[j].id => i = j
      BY <3>4
    <3> QED
      BY ONLY <2>4, <3>3, <3>5 DEF Suits
  <2> QED
    BY <2>4, <2>5, <2>10, <2>11 DEF Kept
<1> QED
  BY <1>1, <1>2
-----------------------------------------------------------------------------
(* What was written is read back.                                          *)

\* The bytes of w from the offset on are those given.
StandsAt(buf, offset, bytes) == \A j \in 1..Len(bytes) : buf[offset + j] = bytes[j]

\* An element that can be told from padding when it is read.
Legible(profile, ext) ==
    /\ Fits(profile, ext)
    /\ profile = kExtensionProfileOneByte => ext.payload # <<>>

LEMMA ExtensionMade ==
    ASSUME NEW ext \in ExtensionType
    PROVE  Extension(ext.id, ext.payload) = ext
BY DEF Extension, ExtensionType

\* The payload of an element, as it stands behind the bytes in front of it.
LEMMA PayloadRead ==
    ASSUME NEW buf \in Seq(Nat), NEW first \in Nat, NEW payload \in Seq(Nat),
           first + Len(payload) <= Len(buf), StandsAt(buf, first, payload)
    PROVE  SubSeq(buf, first + 1, first + Len(payload)) = payload
<1>a. PICK l \in Nat : l = Len(payload)
  BY LenProperties
<1>b. PICK next : next = first + l
  OBVIOUS
<1>c. PICK s : s = SubSeq(buf, first + 1, next)
  OBVIOUS
<1>1. next \in Nat /\ first <= next /\ next <= Len(buf) /\ next - first = l
  BY <1>a, <1>b
<1>2. /\ s \in Seq(Nat) /\ Len(s) = next - first
      /\ \A i \in 1..(next - first) : s[i] = buf[first + i]
  BY SMTT(30), <1>1, <1>c, Bytes
<1>3. Len(s) = Len(payload) /\ \A i \in 1..Len(s) : s[i] = payload[i]
  <2>1. \A i \in 1..l : buf[first + i] = payload[i]
    BY <1>a DEF StandsAt
  <2> QED
    BY ONLY <1>1, <1>2, <1>a, <2>1
<1>4. s = payload
  BY <1>2, <1>3, SeqEqual
<1> QED
  BY <1>4, <1>a, <1>b, <1>c

\* The element stands in the buffer at k, and the loop reads up to end.
InPlace(profile, ext, buf, k, end) ==
    /\ ext \in ExtensionType /\ Legible(profile, ext)
    /\ buf \in Seq(Nat) /\ k \in Nat /\ end \in Nat /\ end <= Len(buf)
    /\ k + Len(ElementBytes(profile, ext)) <= end
    /\ StandsAt(buf, k, ElementBytes(profile, ext))

\* A turn of the loop reads it, and is behind it afterwards.
Taken(profile, ext, buf, k, end) ==
    \A e : ReadElement(profile, buf, end, Read(e, k, TRUE, TRUE))
              = Read(Append(e, ext), k + Len(ElementBytes(profile, ext)), TRUE, TRUE)

\* An element written in the one-byte profile is read in one turn.
LEMMA OneByteRead ==
    ASSUME NEW ext, NEW buf, NEW k, NEW end,
           InPlace(kExtensionProfileOneByte, ext, buf, k, end)
    PROVE  Taken(kExtensionProfileOneByte, ext, buf, k, end)
<1> SUFFICES
        ASSUME ext \in ExtensionType, Legible(kExtensionProfileOneByte, ext),
               buf \in Seq(Nat), k \in Nat, end \in Nat, end <= Len(buf),
               k + Len(ElementBytes(kExtensionProfileOneByte, ext)) <= end,
               StandsAt(buf, k, ElementBytes(kExtensionProfileOneByte, ext)),
               NEW e
        PROVE  ReadElement(kExtensionProfileOneByte, buf, end, Read(e, k, TRUE, TRUE))
                  = Read(Append(e, ext),
                         k + Len(ElementBytes(kExtensionProfileOneByte, ext)), TRUE, TRUE)
  BY DEF InPlace, Taken
<1>a. PICK id \in Nat, l \in Nat : id = ext.id /\ l = Len(ext.payload)
  BY ElementBytesAre
<1>1. id \in 1..14 /\ l \in 1..16
  <2>1. id \in 1..14 /\ l <= 16
    <3>1. Fits(kExtensionProfileOneByte, ext)
      BY DEF Legible
    <3> QED
      BY ONLY <1>a, <3>1, Profiles DEF Fits
  <2>2. ext.payload \in Seq(Nat) /\ ext.payload # <<>>
    BY DEF Legible, ExtensionType
  <2>3. l # 0
    BY <1>a, <2>2, EmptySeq
  <2> QED
    BY <2>1, <2>3
<1>b. PICK b : b = 16 * id + ((l + 15) % 16)
  OBVIOUS
<1>2. b \in Nat /\ b # 0 /\ b \div 16 = id /\ (b % 16) + 1 = l
  <2>1. (l + 15) % 16 = l - 1
    BY <1>1
  <2>2. b = 16 * id + (l - 1)
    BY <1>b, <2>1
  <2> QED
    BY ONLY <1>1, <2>2
<1>c. PICK s, x : s = <<b>> /\ x = ext.payload
  OBVIOUS
<1>d. PICK w : w = ElementBytes(kExtensionProfileOneByte, ext)
  OBVIOUS
<1>3. w = s \o x
  BY <1>a, <1>b, <1>c, <1>d, Profiles, Zenon DEF ElementBytes
<1>4. s \in Seq(Nat) /\ Len(s) = 1 /\ s[1] = b
  BY <1>2, <1>c, SingletonSeq
<1>5. x \in Seq(Nat)
  BY <1>c DEF ExtensionType
<1>6. Joint(s, x, w)
  BY <1>3, <1>4, <1>5, Joining
<1>7. /\ Len(w) = 1 + l /\ w[1] = b /\ \A j \in 1..l : w[1 + j] = x[j]
  <2>1. 1 \in 1..1
    OBVIOUS
  <2> QED
    BY ONLY <1>4, <1>6, <1>a, <1>c, <2>1 DEF Joint
<1>8. /\ k + (1 + l) <= end
      /\ \A j \in 1..(1 + l) : buf[k + j] = w[j]
  BY ONLY <1>7, <1>d, k + Len(ElementBytes(kExtensionProfileOneByte, ext)) <= end,
          StandsAt(buf, k, ElementBytes(kExtensionProfileOneByte, ext)) DEF StandsAt
<1>9. buf[k + 1] = b
  <2>1. 1 \in 1..(1 + l)
    OBVIOUS
  <2> QED
    BY ONLY <1>7, <1>8, <2>1
<1>10. StandsAt(buf, k + 1, x)
  <2> SUFFICES ASSUME NEW j \in 1..l PROVE buf[(k + 1) + j] = x[j]
    BY <1>a, <1>c DEF StandsAt
  <2>1. 1 + j \in 1..(1 + l) /\ k + (1 + j) = (k + 1) + j
    OBVIOUS
  <2> QED
    BY ONLY <1>7, <1>8, <2>1, j \in 1..l
<1>e. PICK first, next : first = k + 1 /\ next = first + l
  OBVIOUS
<1>11. /\ first \in Nat /\ next <= Len(buf) /\ ~(next > Len(buf)) /\ ~(k >= end)
       /\ next = k + (1 + l)
  <2>1. Len(buf) \in Nat /\ end <= Len(buf)
    BY LenProperties
  <2> QED
    BY ONLY <1>1, <1>8, <1>e, <2>1, k \in Nat, end \in Nat
<1>12. SubSeq(buf, first + 1, next) = x
  <2>1. /\ buf \in Seq(Nat) /\ first \in Nat /\ x \in Seq(Nat)
        /\ first + Len(x) <= Len(buf) /\ StandsAt(buf, first, x)
    BY ONLY <1>5, <1>10, <1>11, <1>a, <1>c, <1>e, buf \in Seq(Nat)
  <2>2. SubSeq(buf, first + 1, first + Len(x)) = x
    BY ONLY <2>1, PayloadRead
  <2>3. next = first + Len(x)
    BY ONLY <1>a, <1>c, <1>e
  <2> QED
    BY ONLY <2>2, <2>3
<1>13. ext = Extension(id, x)
  BY <1>a, <1>c, ExtensionMade
<1>f. PICK profile : profile = kExtensionProfileOneByte
  OBVIOUS
<1>14. /\ ElementId(profile, buf, k) = id /\ ElementHeaderSize(profile) = 1
       /\ ElementLen(profile, buf, k) = l
  BY ONLY <1>2, <1>9, <1>f, Profiles DEF ElementId, ElementHeaderSize, ElementLen
<1>g. PICK read : read = Read(e, k, TRUE, TRUE)
  OBVIOUS
<1>15. read.extensions = e /\ read.n = k /\ read.going = TRUE
  BY ONLY <1>g DEF Read
<1>16. id # kExtensionIDReserved
  BY ONLY <1>1 DEF kExtensionIDReserved
<1>17. ReadElement(profile, buf, end, read) = Read(Append(e, Extension(id, x)), next, TRUE, TRUE)
  BY ONLY <1>2, <1>9, <1>11, <1>12, <1>14, <1>15, <1>16, <1>e, <1>f DEF ReadElement
<1> QED
  BY ONLY <1>7, <1>11, <1>13, <1>17, <1>d, <1>f, <1>g

\* An element written in the two-byte profile is read in one turn.
LEMMA TwoByteRead ==
    ASSUME NEW ext, NEW buf, NEW k, NEW end,
           InPlace(kExtensionProfileTwoByte, ext, buf, k, end)
    PROVE  Taken(kExtensionProfileTwoByte, ext, buf, k, end)
<1> SUFFICES
        ASSUME ext \in ExtensionType, Legible(kExtensionProfileTwoByte, ext),
               buf \in Seq(Nat), k \in Nat, end \in Nat, end <= Len(buf),
               k + Len(ElementBytes(kExtensionProfileTwoByte, ext)) <= end,
               StandsAt(buf, k, ElementBytes(kExtensionProfileTwoByte, ext)),
               NEW e
        PROVE  ReadElement(kExtensionProfileTwoByte, buf, end, Read(e, k, TRUE, TRUE))
                  = Read(Append(e, ext),
                         k + Len(ElementBytes(kExtensionProfileTwoByte, ext)), TRUE, TRUE)
  BY DEF InPlace, Taken
<1>a. PICK id \in Nat, l \in Nat : id = ext.id /\ l = Len(ext.payload)
  BY ElementBytesAre
<1>1. id >= 1
  <2>1. Fits(kExtensionProfileTwoByte, ext)
    BY DEF Legible
  <2> QED
    BY ONLY <1>a, <2>1, Profiles DEF Fits
<1>c. PICK s, x : s = <<id, l>> /\ x = ext.payload
  OBVIOUS
<1>d. PICK w : w = ElementBytes(kExtensionProfileTwoByte, ext)
  OBVIOUS
<1>3. w = s \o x
  BY <1>a, <1>c, <1>d, Profiles, Zenon DEF ElementBytes
<1>4. s \in Seq(Nat) /\ Len(s) = 2 /\ s[1] = id /\ s[2] = l
  BY <1>c, PairSeq
<1>5. x \in Seq(Nat)
  BY <1>c DEF ExtensionType
<1>6. Joint(s, x, w)
  BY <1>3, <1>4, <1>5, Joining
<1>7. /\ Len(w) = 2 + l /\ w[1] = id /\ w[2] = l /\ \A j \in 1..l : w[2 + j] = x[j]
  <2>1. 1 \in 1..2 /\ 2 \in 1..2
    OBVIOUS
  <2> QED
    BY ONLY <1>4, <1>6, <1>a, <1>c, <2>1 DEF Joint
<1>8. /\ k + (2 + l) <= end
      /\ \A j \in 1..(2 + l) : buf[k + j] = w[j]
  BY ONLY <1>7, <1>d, k + Len(ElementBytes(kExtensionProfileTwoByte, ext)) <= end,
          StandsAt(buf, k, ElementBytes(kExtensionProfileTwoByte, ext)) DEF StandsAt
<1>9. buf[k + 1] = id /\ buf[k + 2] = l
  <2>1. 1 \in 1..(2 + l) /\ 2 \in 1..(2 + l)
    OBVIOUS
  <2> QED
    BY ONLY <1>7, <1>8, <2>1
<1>10. StandsAt(buf, k + 2, x)
  <2> SUFFICES ASSUME NEW j \in 1..l PROVE buf[(k + 2) + j] = x[j]
    BY <1>a, <1>c DEF StandsAt
  <2>1. 2 + j \in 1..(2 + l) /\ k + (2 + j) = (k + 2) + j
    OBVIOUS
  <2> QED
    BY ONLY <1>7, <1>8, <2>1, j \in 1..l
<1>e. PICK first, next : first = k + 2 /\ next = first + l
  OBVIOUS
<1>11. /\ first \in Nat /\ next <= Len(buf) /\ ~(next > Len(buf)) /\ ~(k >= end)
       /\ next = k + (2 + l) /\ ~(k + 1 >= Len(buf))
  <2>1. Len(buf) \in Nat /\ end <= Len(buf)
    BY LenProperties
  <2> QED
    BY ONLY <1>8, <1>e, <2>1, k \in Nat, end \in Nat, l \in Nat
<1>12. SubSeq(buf, first + 1, next) = x
  <2>1. /\ buf \in Seq(Nat) /\ first \in Nat /\ x \in Seq(Nat)
        /\ first + Len(x) <= Len(buf) /\ StandsAt(buf, first, x)
    BY ONLY <1>5, <1>10, <1>11, <1>a, <1>c, <1>e, buf \in Seq(Nat)
  <2>2. SubSeq(buf, first + 1, first + Len(x)) = x
    BY ONLY <2>1, PayloadRead
  <2>3. next = first + Len(x)
    BY ONLY <1>a, <1>c, <1>e
  <2> QED
    BY ONLY <2>2, <2>3
<1>13. ext = Extension(id, x)
  BY <1>a, <1>c, ExtensionMade
<1>f. PICK profile : profile = kExtensionProfileTwoByte
  OBVIOUS
<1>14. /\ ElementId(profile, buf, k) = id /\ ElementHeaderSize(profile) = 2
       /\ ElementLen(profile, buf, k) = l
  BY ONLY <1>9, <1>f, Profiles DEF ElementId, ElementHeaderSize, ElementLen
<1>g. PICK read : read = Read(e, k, TRUE, TRUE)
  OBVIOUS
<1>15. read.extensions = e /\ read.n = k /\ read.going = TRUE
  BY ONLY <1>g DEF Read
<1>16. profile # kExtensionProfileOneByte /\ buf[k + 1] # 0
  BY <1>1, <1>9, <1>f, Profiles
<1>17. ReadElement(profile, buf, end, read) = Read(Append(e, Extension(id, x)), next, TRUE, TRUE)
  BY ONLY <1>11, <1>12, <1>14, <1>15, <1>16, <1>e DEF ReadElement
<1> QED
  BY ONLY <1>7, <1>11, <1>13, <1>17, <1>d, <1>f, <1>g

LEMMA ElementRead ==
    ASSUME NEW profile, IsElements(profile), NEW ext, NEW buf, NEW k, NEW end,
           InPlace(profile, ext, buf, k, end)
    PROVE  Taken(profile, ext, buf, k, end)
<1>1. CASE profile = kExtensionProfileOneByte
  BY <1>1, OneByteRead
<1>2. CASE profile = kExtensionProfileTwoByte
  BY <1>2, TwoByteRead
<1> QED
  BY <1>1, <1>2 DEF IsElements

\* A turn at k does nothing, and one that passes a zero.
Ended(profile, buf, k, end) ==
    \A e : ReadElement(profile, buf, end, Read(e, k, TRUE, TRUE)) = Read(e, k, TRUE, TRUE)
Passed(profile, buf, k, end) ==
    \A e : ReadElement(profile, buf, end, Read(e, k, TRUE, TRUE)) = Read(e, k + 1, TRUE, TRUE)

LEMMA PaddingRead ==
    ASSUME NEW profile, NEW buf, NEW k \in Nat, NEW end \in Nat
    PROVE  /\ k >= end => Ended(profile, buf, k, end)
           /\ k < end /\ buf[k + 1] = 0 => Passed(profile, buf, k, end)
<1>1. ASSUME k >= end, NEW e
      PROVE  ReadElement(profile, buf, end, Read(e, k, TRUE, TRUE)) = Read(e, k, TRUE, TRUE)
  <2>a. PICK read : read = Read(e, k, TRUE, TRUE)
    OBVIOUS
  <2>1. read.n = k
    BY ONLY <2>a DEF Read
  <2>2. ReadElement(profile, buf, end, read) = read
    BY ONLY <1>1, <2>1 DEF ReadElement
  <2> QED
    BY ONLY <2>a, <2>2
<1>2. ASSUME k < end, buf[k + 1] = 0, NEW e
      PROVE  ReadElement(profile, buf, end, Read(e, k, TRUE, TRUE)) = Read(e, k + 1, TRUE, TRUE)
  <2>a. PICK read : read = Read(e, k, TRUE, TRUE)
    OBVIOUS
  <2>1. read.extensions = e /\ read.n = k /\ read.going = TRUE
    BY ONLY <2>a DEF Read
  <2>2. ~(k >= end)
    BY <1>2
  <2>3. ReadElement(profile, buf, end, read) = Read(e, k + 1, TRUE, TRUE)
    BY ONLY <1>2, <2>1, <2>2 DEF ReadElement
  <2> QED
    BY ONLY <2>a, <2>3
<1> QED
  BY <1>1, <1>2 DEF Ended, Passed

LEMMA FrontsOf ==
    ASSUME NEW s \in Seq(ExtensionType)
    PROVE  /\ SubSeq(s, 1, 0) = <<>> /\ SubSeq(s, 1, Len(s)) = s
           /\ \A i \in 1..Len(s) : Append(SubSeq(s, 1, i - 1), s[i]) = SubSeq(s, 1, i)
<1>1. SubSeq(s, 1, 0) = <<>>
  BY SubSeqEmpty
<1>2. SubSeq(s, 1, Len(s)) = s
  BY SubSeqFull
<1>3. ASSUME NEW i \in 1..Len(s) PROVE Append(SubSeq(s, 1, i - 1), s[i]) = SubSeq(s, 1, i)
  <2>1. Len(s) \in Nat /\ 1 \in 1..Len(s) /\ i \in 1..Len(s) /\ i - 1 \in Int /\ 1 \in Int
    BY LenProperties
  <2>a. PICK f : f = SubSeq(s, 1, i - 1)
    OBVIOUS
  <2>2. f \in Seq(ExtensionType) /\ s[i] \in ExtensionType
    <3>1. \A j \in 1..(i - 1) : s[j] \in ExtensionType
      BY <2>1, ElementOfSeq
    <3> QED
      BY <2>a, <2>1, <3>1, ElementOfSeq, SubSeqProperties
  <2>3. SubSeq(s, 1, i) = f \o <<s[i]>>
    BY <2>a, <2>1, SubSeqRecursiveSecond
  <2>4. Append(f, s[i]) = f \o <<s[i]>>
    BY ONLY <2>2, AppendIsConcat
  <2> QED
    BY <2>a, <2>3, <2>4
<1> QED
  BY <1>1, <1>2, <1>3

\* The elements stand in the buffer at n, with zeros behind them up to end.
ListInPlace(profile, exts, buf, n, end) ==
    /\ exts \in Seq(ExtensionType)
    /\ \A i \in 1..Len(exts) : Legible(profile, exts[i])
    /\ buf \in Seq(Nat) /\ n \in Nat /\ end \in Nat /\ end <= Len(buf)
    /\ n + Len(ElementsBytes(profile, exts)) <= end
    /\ StandsAt(buf, n, ElementsBytes(profile, exts))
    /\ \A k \in (n + Len(ElementsBytes(profile, exts))) .. (end - 1) : buf[k + 1] = 0

ListRead(profile, exts, buf, n, end) ==
    Elements(profile, buf, n, end) = Read(exts, end, TRUE, TRUE)

\* What was written as a list of elements is read as that list.
LEMMA ElementsReadBack ==
    ASSUME NEW profile, IsElements(profile), NEW exts, NEW buf, NEW n, NEW end,
           ListInPlace(profile, exts, buf, n, end)
    PROVE  ListRead(profile, exts, buf, n, end)
<1>a. PICK m \in Nat : m = Len(exts)
  BY LenProperties DEF ListInPlace
<1>b. PICK w : w = ElementsBytes(profile, exts)
  OBVIOUS
<1>1. /\ exts \in Seq(ExtensionType) /\ buf \in Seq(Nat) /\ n \in Nat /\ end \in Nat
      /\ end <= Len(buf) /\ \A i \in 1..m : Legible(profile, exts[i])
  BY <1>a DEF ListInPlace
<1>2. w \in Seq(Nat) /\ \E sums : Places(profile, exts, sums)
  BY <1>1, <1>b, ElementsAre
<1>c. PICK sums : Places(profile, exts, sums)
  BY <1>2
<1>d. PICK l \in Nat : l = Len(w)
  BY <1>2, LenProperties
<1>3. /\ n + l <= end /\ n <= end
      /\ \A j \in 1..l : buf[n + j] = w[j]
      /\ \A k \in (n + l) .. (end - 1) : buf[k + 1] = 0
  BY <1>1, <1>b, <1>d DEF ListInPlace, StandsAt
<1>e. PICK parts : parts = [i \in 1..m |-> ElementBytes(profile, exts[i])]
  OBVIOUS
<1>4. \A i \in 1..m : parts[i] = ElementBytes(profile, exts[i])
  BY <1>e
<1>5. /\ sums \in [0..m -> Nat] /\ sums[0] = 0 /\ sums[m] = l
      /\ \A i \in 1..m :
            /\ sums[i] = sums[i - 1] + Len(parts[i]) /\ sums[i] <= l
            /\ \A j \in 1..Len(parts[i]) : w[sums[i - 1] + j] = parts[i][j]
  <2>1. /\ sums \in [0..m -> Nat] /\ sums[0] = 0 /\ sums[m] = l
        /\ \A i \in 1..m :
              /\ sums[i] = sums[i - 1] + Len(ElementBytes(profile, exts[i]))
              /\ sums[i] <= sums[m]
              /\ \A j \in 1..Len(ElementBytes(profile, exts[i])) :
                    w[sums[i - 1] + j] = ElementBytes(profile, exts[i])[j]
    BY ONLY <1>a, <1>b, <1>c, <1>d DEF Places
  <2> QED
    BY ONLY ZenonT(60), <1>4, <2>1
<1>6. \A i \in 1..m : exts[i] \in ExtensionType /\ Len(parts[i]) \in Nat /\ Len(parts[i]) >= 1
  <2> SUFFICES ASSUME NEW i \in 1..m
               PROVE  exts[i] \in ExtensionType /\ Len(parts[i]) \in Nat /\ Len(parts[i]) >= 1
    OBVIOUS
  <2>1. exts[i] \in ExtensionType
    BY <1>1, <1>a, ElementOfSeq
  <2>2. /\ Len(ElementBytes(profile, exts[i])) = ElementHeaderSize(profile) + Len(exts[i].payload)
        /\ Len(exts[i].payload) \in Nat
    BY <2>1, ElementBytesAre
  <2>3. ElementHeaderSize(profile) \in {1, 2}
    BY Profiles DEF ElementHeaderSize, IsElements
  <2>4. Len(parts[i]) = ElementHeaderSize(profile) + Len(exts[i].payload)
    BY <1>4, <2>2
  <2> QED
    BY ONLY <2>1, <2>2, <2>3, <2>4
<1>7. \A i \in 1..m : i - 1 \in 0..m /\ i \in 0..m /\ sums[i - 1] \in Nat /\ sums[i] \in Nat
  <2>1. \A i \in 1..m : i - 1 \in 0..m /\ i \in 0..m
    OBVIOUS
  <2> QED
    BY <1>5, <2>1
<1>8. \A i \in 0..m : sums[i] >= i
  <2> DEFINE D == {i \in Nat : i <= m => sums[i] >= i}
  <2>1. 0 \in D
    BY <1>5
  <2>2. ASSUME NEW i \in Nat, i \in D PROVE i + 1 \in D
    <3> SUFFICES ASSUME i + 1 <= m PROVE sums[i + 1] >= i + 1
      OBVIOUS
    <3>1. i + 1 \in 1..m /\ (i + 1) - 1 = i /\ sums[i] >= i
      BY <2>2
    <3>2. sums[i + 1] = sums[i] + Len(parts[i + 1]) /\ Len(parts[i + 1]) \in Nat
          /\ Len(parts[i + 1]) >= 1 /\ sums[i] \in Nat
      BY <1>5, <1>6, <1>7, <3>1
    <3> QED
      BY ONLY <3>1, <3>2, i \in Nat
  <2>3. Nat \subseteq D
    <3> HIDE DEF D
    <3> QED
      BY <2>1, <2>2, SetInduction
  <2> QED
    BY <2>3
<1>9. m <= l /\ m <= end - n /\ end - n \in Nat
  <2>1. m \in 0..m
    OBVIOUS
  <2>2. l >= m
    BY <1>5, <1>8, <2>1
  <2> QED
    BY ONLY <1>1, <1>3, <2>2, m \in Nat, l \in Nat
<1>f. PICK read : /\ Turns(profile, buf, n, end, read)
                  /\ Elements(profile, buf, n, end) = read[end - n]
  BY <1>1, <1>3, ElementsRead
<1>10. /\ read[0] = Read(<<>>, n, TRUE, TRUE)
       /\ \A i \in 1..(end - n) : read[i] = ReadElement(profile, buf, end, read[i - 1])
  BY <1>f DEF Turns
<1>11. \A i \in 1..m : Taken(profile, exts[i], buf, n + sums[i - 1], end)
  <2> SUFFICES ASSUME NEW i \in 1..m PROVE Taken(profile, exts[i], buf, n + sums[i - 1], end)
    OBVIOUS
  <2>a. PICK b \in Nat, a \in Nat : a = sums[i - 1] /\ b = Len(parts[i])
    BY <1>6, <1>7
  <2>1. /\ a + b <= l /\ \A j \in 1..b : w[a + j] = parts[i][j]
    BY <1>5, <2>a
  <2>2. (n + a) + b <= end /\ n + a \in Nat
    BY ONLY <1>1, <1>3, <2>1, a \in Nat, b \in Nat, l \in Nat
  <2>3. \A j \in 1..b : buf[(n + a) + j] = parts[i][j]
    <3> SUFFICES ASSUME NEW j \in 1..b PROVE buf[(n + a) + j] = parts[i][j]
      OBVIOUS
    <3>1. a + j \in 1..l /\ n + (a + j) = (n + a) + j
      BY ONLY <1>1, <2>1, a \in Nat, b \in Nat, l \in Nat, j \in 1..b
    <3> QED
      BY <1>3, <2>1, <3>1
  <2>4. InPlace(profile, exts[i], buf, n + a, end)
    BY <1>1, <1>4, <1>6, <2>2, <2>3, <2>a DEF InPlace, StandsAt
  <2> QED
    BY <2>4, <2>a, ElementRead
<1>g. PICK front : front = [i \in 0..m |-> SubSeq(exts, 1, i)]
  OBVIOUS
<1>12. /\ front[0] = <<>> /\ front[m] = exts
       /\ \A i \in 1..m : Append(front[i - 1], exts[i]) = front[i]
  <2>1. 0 \in 0..m /\ m \in 0..m /\ \A i \in 1..m : i - 1 \in 0..m /\ i \in 0..m
    OBVIOUS
  <2>2. \A i \in 0..m : front[i] = SubSeq(exts, 1, i)
    BY <1>g
  <2>3. /\ SubSeq(exts, 1, 0) = <<>> /\ SubSeq(exts, 1, Len(exts)) = exts
        /\ \A i \in 1..Len(exts) : Append(SubSeq(exts, 1, i - 1), exts[i]) = SubSeq(exts, 1, i)
    BY ONLY <1>1, FrontsOf
  <2> QED
    BY ONLY <1>a, <2>1, <2>2, <2>3
<1>h. PICK g : g = [i \in 0..m |-> Read(front[i], n + sums[i], TRUE, TRUE)]
  OBVIOUS
<1>13. \A i \in 0..m : g[i] = Read(front[i], n + sums[i], TRUE, TRUE)
  BY <1>h
<1>14. StepAlike(read, g, m)
  <2>1. read[0] = g[0]
    <3>1. 0 \in 0..m /\ n + sums[0] = n
      BY <1>1, <1>5
    <3> QED
      BY <1>10, <1>12, <1>13, <3>1
  <2>2. ASSUME NEW i \in 1..m, read[i - 1] = g[i - 1] PROVE read[i] = g[i]
    <3>1. i \in 1..(end - n) /\ i - 1 \in 0..m /\ i \in 0..m
      BY <1>9
    <3>2. read[i] = ReadElement(profile, buf, end, Read(front[i - 1], n + sums[i - 1], TRUE, TRUE))
      BY <1>10, <1>13, <2>2, <3>1
    <3>3. read[i] = Read(Append(front[i - 1], exts[i]),
                         (n + sums[i - 1]) + Len(parts[i]), TRUE, TRUE)
      BY <1>4, <1>11, <3>2 DEF Taken
    <3>4. (n + sums[i - 1]) + Len(parts[i]) = n + sums[i]
      <4>1. /\ sums[i - 1] \in Nat /\ Len(parts[i]) \in Nat
            /\ sums[i] = sums[i - 1] + Len(parts[i])
        BY <1>5, <1>6, <1>7
      <4>a. PICK a \in Nat, b \in Nat : a = sums[i - 1] /\ b = Len(parts[i])
        BY <4>1
      <4>2. sums[i] = a + b /\ (n + a) + b = n + (a + b)
        BY ONLY <1>1, <4>1, <4>a
      <4> QED
        BY ONLY <4>2, <4>a
    <3> QED
      BY <1>12, <1>13, <3>1, <3>3, <3>4
  <2> QED
    BY <2>1, <2>2 DEF StepAlike
<1>15. read[m] = Read(exts, n + l, TRUE, TRUE)
  <2>1. read[m] = g[m] /\ m \in 0..m
    BY <1>14, IterationUnique
  <2> QED
    BY <1>5, <1>12, <1>13, <2>1
<1>i. PICK t \in Nat : t = (end - n) - m
  BY <1>9
<1>j. PICK rest, h :
         /\ rest = [i \in 0..t |-> read[m + i]]
         /\ h = [i \in 0..t |-> Read(exts, Smaller((n + l) + i, end), TRUE, TRUE)]
  OBVIOUS
<1>16. \A i \in 0..t : /\ rest[i] = read[m + i]
                       /\ h[i] = Read(exts, Smaller((n + l) + i, end), TRUE, TRUE)
  BY <1>j
<1>17. StepAlike(rest, h, t)
  <2>1. rest[0] = h[0]
    <3>1. 0 \in 0..t /\ m + 0 = m /\ Smaller((n + l) + 0, end) = n + l
      BY <1>1, <1>3 DEF Smaller
    <3> QED
      BY <1>15, <1>16, <3>1
  <2>2. ASSUME NEW i \in 1..t, rest[i - 1] = h[i - 1] PROVE rest[i] = h[i]
    <3>1. /\ m + i \in 1..(end - n) /\ (m + i) - 1 = m + (i - 1)
          /\ i - 1 \in 0..t /\ i \in 0..t
      BY ONLY <1>9, <1>i, i \in 1..t, m \in Nat, t \in Nat
    <3>a. PICK k : k = Smaller((n + l) + (i - 1), end)
      OBVIOUS
    <3>2. k \in Nat /\ n + l <= k /\ k <= end
      BY ONLY <1>1, <1>3, <3>a, i \in 1..t, t \in Nat, l \in Nat DEF Smaller
    <3>3. rest[i] = ReadElement(profile, buf, end, Read(exts, k, TRUE, TRUE))
      BY <1>10, <1>16, <2>2, <3>1, <3>a
    <3>4. CASE k >= end
      <4>1. Smaller((n + l) + i, end) = k
        BY ONLY <1>1, <3>a, <3>2, <3>4, i \in 1..t, t \in Nat, l \in Nat DEF Smaller
      <4>2. ReadElement(profile, buf, end, Read(exts, k, TRUE, TRUE)) = Read(exts, k, TRUE, TRUE)
        <5>1. Ended(profile, buf, k, end)
          BY <1>1, <3>2, <3>4, PaddingRead
        <5> QED
          BY <5>1 DEF Ended
      <4> QED
        BY <1>16, <3>1, <3>3, <4>1, <4>2
    <3>5. CASE k < end
      <4>1. Smaller((n + l) + i, end) = k + 1
        BY ONLY <1>1, <3>a, <3>2, <3>5, i \in 1..t, t \in Nat, l \in Nat DEF Smaller
      <4>2. k \in (n + l) .. (end - 1)
        BY ONLY <1>1, <3>2, <3>5, l \in Nat
      <4>3. buf[k + 1] = 0
        BY <1>3, <4>2
      <4>4. ReadElement(profile, buf, end, Read(exts, k, TRUE, TRUE))
               = Read(exts, k + 1, TRUE, TRUE)
        <5>1. Passed(profile, buf, k, end)
          BY <1>1, <3>2, <3>5, <4>3, PaddingRead
        <5> QED
          BY <5>1 DEF Passed
      <4> QED
        BY <1>16, <3>1, <3>3, <4>1, <4>4
    <3> QED
      BY <1>1, <3>2, <3>4, <3>5
  <2> QED
    BY <2>1, <2>2 DEF StepAlike
<1>18. read[end - n] = Read(exts, end, TRUE, TRUE)
  <2>1. rest[t] = h[t] /\ t \in 0..t
    BY <1>17, IterationUnique
  <2>2. m + t = end - n /\ Smaller((n + l) + t, end) = end
    BY ONLY <1>1, <1>3, <1>9, <1>i, m \in Nat, l \in Nat, t \in Nat DEF Smaller
  <2> QED
    BY <1>16, <2>1, <2>2
<1> QED
  BY <1>f, <1>18 DEF ListRead
\* What the reader looks at in a buffer that begins with the header of p.
HeaderIn(p, buf) ==
    LET n == FixedSize(p.csrc)
        size == RoundUp(Len(ElementsOf(p)))
    IN
    /\ HeaderSize(p) <= Len(buf) /\ buf[1] = FlagsOf(p)
    /\ ~p.extension => HeaderSize(p) = n
    /\ p.extension =>
          /\ HeaderSize(p) = n + 4 + size
          /\ Unsigned16(buf, n) = p.extension_profile
          /\ 4 * Unsigned16(buf, n + 2) = size
          /\ StandsAt(buf, n + 4, ElementsOf(p))
          /\ \A j \in (Len(ElementsOf(p)) + 1)..size : buf[n + 4 + j] = 0

LEMMA HeaderStands ==
    ASSUME NEW p \in PacketType, HeaderFits(p), NEW buf \in Seq(Nat), BeginsWith(buf, p)
    PROVE  HeaderIn(p, buf)
<1>a. PICK n \in Nat : n = FixedSize(p.csrc) /\ n >= 12
  <2>1. p.csrc \in Nat /\ FixedSize(p.csrc) = 12 + 4 * p.csrc /\ FixedSize(p.csrc) \in Nat
    BY SizeIs
  <2>2. FixedSize(p.csrc) >= 12
    BY ONLY <2>1
  <2> QED
    BY <2>1, <2>2
<1>b. PICK x \in BOOLEAN : x = p.extension
  BY DEF PacketType
<1>c. PICK w, h : w = HeaderBytes(p, <<>>) /\ h = HeaderSize(p)
  OBVIOUS
<1>1. Written(p, w)
  BY <1>c, HeaderWritten
<1>2. h <= Len(buf) /\ \A i \in 1..h : buf[i] = w[i]
  BY <1>c DEF BeginsWith
<1>3. ~x => h = n
  BY <1>a, <1>b, <1>c, SizeIs
<1>4. CASE ~x
  <2>1. 1 \in 1..h
    BY <1>3, <1>4, <1>a
  <2>2. buf[1] = FlagsOf(p)
    BY ONLY <1>1, <1>2, <2>1 DEF Written
  <2> QED
    BY ONLY <1>2, <1>3, <1>4, <1>a, <1>b, <1>c, <2>2 DEF HeaderIn
<1>5. CASE x
  <2>a. PICK e : e = ElementsOf(p)
    OBVIOUS
  <2>1. e \in Seq(Nat) /\ Len(e) \in Nat
    BY <2>a, CarriedIs, ElementsAre, LenProperties DEF ElementsOf
  <2>b. PICK l \in Nat : l = Len(e)
    BY <2>1
  <2>c. PICK size : size = RoundUp(l)
    OBVIOUS
  <2>2. size \in Nat /\ size >= l /\ size % 4 = 0
    BY <2>c, RoundUpIs
  <2>3. h = n + 4 + size
    <3>1. h = FixedSize(p.csrc) + 4 + RoundUp(Len(ElementsOf(p)))
      BY <1>5, <1>b, <1>c, SizeIs DEF ElementsOf
    <3> QED
      BY <3>1, <1>a, <2>a, <2>b, <2>c
  <2>d. PICK profile \in Nat : profile = p.extension_profile
    BY DEF PacketType
  <2>4. /\ w[1] = FlagsOf(p)
        /\ w[n + 1] = profile \div 256 /\ w[n + 2] = profile % 256
        /\ w[n + 3] = size \div 1024 /\ w[n + 4] = (size \div 4) % 256
        /\ \A j \in 1..l : w[n + 4 + j] = e[j]
        /\ \A j \in (l + 1)..size : w[n + 4 + j] = 0
    <3>1. p.extension
      BY <1>5, <1>b
    <3>2. /\ w[1] = FlagsOf(p)
          /\ w[FixedSize(p.csrc) + 1] = p.extension_profile \div 256
          /\ w[FixedSize(p.csrc) + 2] = p.extension_profile % 256
          /\ w[FixedSize(p.csrc) + 3] = RoundUp(Len(ElementsOf(p))) \div 1024
          /\ w[FixedSize(p.csrc) + 4] = (RoundUp(Len(ElementsOf(p))) \div 4) % 256
          /\ \A j \in 1..Len(ElementsOf(p)) : w[FixedSize(p.csrc) + 4 + j] = ElementsOf(p)[j]
          /\ \A j \in (Len(ElementsOf(p)) + 1) .. RoundUp(Len(ElementsOf(p))) :
                w[FixedSize(p.csrc) + 4 + j] = 0
      BY ONLY <1>1, <3>1, Zenon DEF Written
    <3>3. RoundUp(Len(ElementsOf(p))) = size /\ Len(ElementsOf(p)) = l
      BY <2>a, <2>b, <2>c
    <3> QED
      BY ONLY <3>2, <3>3, <1>a, <2>a, <2>d
  <2>5. /\ 1 \in 1..h /\ n + 1 \in 1..h /\ n + 2 \in 1..h /\ n + 3 \in 1..h /\ n + 4 \in 1..h
        /\ \A j \in 1..l : n + 4 + j \in 1..h
        /\ \A j \in (l + 1)..size : n + 4 + j \in 1..h
    <3>1. l <= size /\ size \in Nat /\ h = n + 4 + size
      BY ONLY <2>2, <2>3
    <3>2. \A j \in 1..l : n + 4 + j \in 1..h
      BY ONLY <3>1, n \in Nat, l \in Nat
    <3>3. \A j \in (l + 1)..size : n + 4 + j \in 1..h
      BY ONLY <3>1, n \in Nat, l \in Nat
    <3>4. /\ 1 \in 1..h /\ n + 1 \in 1..h /\ n + 2 \in 1..h /\ n + 3 \in 1..h
          /\ n + 4 \in 1..h
      BY ONLY <3>1, n \in Nat
    <3> QED
      BY ONLY <3>2, <3>3, <3>4
  <2>6. /\ buf[1] = FlagsOf(p)
        /\ buf[n + 1] = profile \div 256 /\ buf[n + 2] = profile % 256
        /\ buf[n + 3] = size \div 1024 /\ buf[n + 4] = (size \div 4) % 256
    BY ONLY SMTT(30), <1>2, <2>4, <2>5
  <2>7. \A j \in 1..l : buf[n + 4 + j] = e[j]
    <3>1. \A i \in 1..h : buf[i] = w[i]
      BY <1>2
    <3>a. \A j \in 1..l : n + 4 + j \in 1..h
      BY ONLY <2>5
    <3>b. \A j \in 1..l : w[n + 4 + j] = e[j]
      BY ONLY <2>4
    <3>2. \A j \in 1..l : n + 4 + j \in 1..h /\ w[n + 4 + j] = e[j]
      BY ONLY <3>a, <3>b, Zenon
    <3> QED
      BY ONLY <3>1, <3>2, Zenon
  <2>8. \A j \in (l + 1)..size : buf[n + 4 + j] = 0
    <3>1. \A i \in 1..h : buf[i] = w[i]
      BY <1>2
    <3>2. \A j \in (l + 1)..size : n + 4 + j \in 1..h /\ w[n + 4 + j] = 0
      BY ONLY <2>4, <2>5
    <3> QED
      BY ONLY <3>1, <3>2, Zenon
  <2>9. Unsigned16(buf, n) = profile
    <3>1. 256 * (profile \div 256) + (profile % 256) = profile
      OBVIOUS
    <3> QED
      BY ONLY <2>6, <3>1 DEF Unsigned16
  <2>10. 4 * Unsigned16(buf, n + 2) = size
    <3>a. PICK k \in Nat : size = 4 * k
      <4>1. size \div 4 \in Nat /\ size = 4 * (size \div 4)
        BY ONLY <2>2
      <4> QED
        BY <4>1
    <3>1. size \div 4 = k /\ size \div 1024 = k \div 256
      BY ONLY <3>a
    <3>2. 256 * (k \div 256) + (k % 256) = k
      BY ONLY <3>a
    <3>3. (n + 2) + 1 = n + 3 /\ (n + 2) + 2 = n + 4
      OBVIOUS
    <3>4. Unsigned16(buf, n + 2) = k
      <4>1. Unsigned16(buf, n + 2) = 256 * buf[n + 3] + buf[n + 4]
        BY ONLY <3>3 DEF Unsigned16
      <4>2. 256 * buf[n + 3] + buf[n + 4] = 256 * (k \div 256) + (k % 256)
        BY ONLY <2>6, <3>1
      <4> QED
        BY ONLY <3>2, <4>1, <4>2
    <3> QED
      BY ONLY <3>a, <3>4
  <2>11. StandsAt(buf, n + 4, e)
    BY <2>7, <2>b DEF StandsAt
  <2>12. RoundUp(Len(ElementsOf(p))) = size /\ Len(ElementsOf(p)) = l
    BY <2>a, <2>b, <2>c
  <2>13. p.extension
    BY <1>5, <1>b
  <2>14. buf[1] = FlagsOf(p)
    BY <2>6
  <2> QED
    BY ONLY <1>2, <1>a, <1>c, <2>3, <2>8, <2>9, <2>10, <2>11, <2>12, <2>13, <2>14,
            <2>a, <2>d DEF HeaderIn
<1> QED
  BY <1>4, <1>5

\* Of neither profile, there is one extension or none, and it is read as it is.
LEMMA PlainReadBack ==
    ASSUME NEW p \in PacketType, Distinct(p), HeaderFits(p), p.extension,
           ~IsElements(p.extension_profile),
           NEW buf \in Seq(Nat), NEW n \in Nat, NEW end \in Nat, end <= Len(buf),
           end = n + RoundUp(Len(ElementsOf(p))), StandsAt(buf, n, ElementsOf(p))
    PROVE  <<Extension(0, SubSeq(buf, n + 1, end))>> = ReadBack(p)
<1>a. PICK exts : exts = p.extensions
  OBVIOUS
<1>1. /\ exts \in Seq(ExtensionType) /\ Len(exts) \in Nat /\ Len(exts) <= 1
      /\ \A i \in 1..Len(exts) : exts[i].id = 0
  BY <1>a, LenProperties DEF PacketType, Distinct
<1>2. Carried(p) = exts
  BY <1>1, <1>a, CarriedIs
<1>b. PICK profile, e : profile = p.extension_profile /\ e = ElementsOf(p)
  OBVIOUS
<1>3. e = ElementsBytes(profile, exts)
  BY <1>2, <1>b DEF ElementsOf
<1>4. e \in Seq(Nat) /\ \E sums : Places(profile, exts, sums)
  BY <1>1, <1>3, ElementsAre
<1>c. PICK sums : Places(profile, exts, sums)
  BY <1>4
<1>5. CASE Len(exts) = 0
  <2>1. Len(e) = 0
    BY <1>3, <1>5, <1>c DEF Places
  <2>2. end = n
    BY <2>1, <1>b DEF RoundUp
  <2>3. SubSeq(buf, n + 1, end) = <<>>
    BY <2>2, SubSeqEmpty
  <2>4. p.extensions = <<>>
    BY <1>1, <1>5, <1>a, EmptySeq
  <2> QED
    BY <2>3, <2>4 DEF ReadBack
<1>6. CASE Len(exts) = 1
  <2>a. PICK ext : ext = exts[1]
    OBVIOUS
  <2>1. ext \in ExtensionType /\ ext.id = 0 /\ ext.payload \in Seq(Nat) /\ Len(ext.payload) \in Nat
    <3>1. ext \in ExtensionType /\ ext.id = 0
      BY <1>1, <1>6, <2>a, 1 \in 1..Len(exts), ElementOfSeq
    <3> QED
      BY <3>1, LenProperties DEF ExtensionType
  <2>b. PICK x, l : x = ext.payload /\ l = Len(x)
    OBVIOUS
  <2>2. ElementBytes(profile, ext) = x
    <3>1. ElementBytes(profile, ext) = <<>> \o x
      BY <1>b, <2>b, Profiles, Zenon DEF ElementBytes, IsElements
    <3>2. x \in Seq(Nat)
      BY <2>1, <2>b
    <3>3. <<>> \o x = x
      BY ONLY <3>2, ConcatEmptySeq
    <3> QED
      BY <3>1, <3>3
  <2>3. /\ Len(e) = l /\ \A j \in 1..l : e[j] = x[j]
    <3>1. /\ sums[0] = 0 /\ sums[1] = Len(e) /\ sums[1] = sums[0] + l
          /\ \A j \in 1..l : e[sums[0] + j] = x[j]
      <4>1. 1 \in 1..Len(exts) /\ 1 - 1 = 0
        BY <1>6
      <4> QED
        BY ONLY <1>3, <1>6, <1>c, <2>2, <2>a, <2>b, <4>1 DEF Places
    <3>2. l \in Nat
      BY <2>1, <2>b
    <3>3. 0 + l = l /\ \A j \in 1..l : 0 + j = j
      BY <3>2
    <3> QED
      BY ONLY <3>1, <3>3
  <2>4. l % 4 = 0
    <3>1. Unfit(p) = 0
      BY DEF HeaderFits
    <3>2. Fits(profile, ext)
      <4>1. 1 \in 1..Len(Carried(p))
        BY <1>2, <1>6
      <4>2. Fits(p.extension_profile, Carried(p)[1])
        BY <3>1, <4>1, UnfitIs
      <4> QED
        BY <1>2, <1>b, <2>a, <4>2
    <3> QED
      BY <1>b, <2>b, <3>2, Profiles DEF Fits, IsElements
  <2>5. end = n + l
    <3>1. l \in Nat
      BY <2>1, <2>b
    <3>2. RoundUp(l) = l
      BY ONLY <2>4, <3>1 DEF RoundUp
    <3> QED
      BY <1>b, <2>3, <3>2
  <2>6. SubSeq(buf, n + 1, end) = x
    <3>1. StandsAt(buf, n, x)
      BY <1>b, <2>3, <2>b DEF StandsAt
    <3>2. /\ buf \in Seq(Nat) /\ n \in Nat /\ x \in Seq(Nat) /\ n + Len(x) <= Len(buf)
      BY <2>1, <2>5, <2>b
    <3>3. SubSeq(buf, n + 1, n + Len(x)) = x
      BY ONLY <3>1, <3>2, PayloadRead
    <3> QED
      BY <2>5, <2>b, <3>3
  <2>7. Extension(0, x) = ext
    <3>1. Extension(ext.id, ext.payload) = ext
      BY <2>1, ExtensionMade
    <3> QED
      BY <2>1, <2>b, <3>1
  <2>8. exts = <<ext>> /\ exts # <<>>
    <3>1. <<ext>> \in Seq(ExtensionType) /\ Len(<<ext>>) = 1 /\ <<ext>>[1] = ext
      BY <2>1, SingletonSeq
    <3>2. \A i \in 1..Len(exts) : exts[i] = <<ext>>[i]
      BY ONLY <1>6, <2>a, <3>1
    <3>3. exts = <<ext>>
      BY ONLY <1>1, <1>6, <3>1, <3>2, SeqEqual
    <3> QED
      BY ONLY <1>1, <1>6, <3>3, EmptySeq
  <2> QED
    BY ONLY <1>a, <2>6, <2>7, <2>8 DEF ReadBack
<1>7. Len(exts) = 0 \/ Len(exts) = 1
  <2>a. PICK k \in Nat : k = Len(exts)
    BY <1>1
  <2>1. k <= 1
    BY ONLY <1>1, <2>a
  <2>2. k = 0 \/ k = 1
    BY ONLY <2>1, k \in Nat
  <2> QED
    BY ONLY <2>2, <2>a
<1> QED
  BY <1>5, <1>6, <1>7
\* The elements of p, as they stand behind its header.
LEMMA ListStands ==
    ASSUME NEW p \in PacketType, Distinct(p), HeaderFits(p), p.extension,
           IsElements(p.extension_profile),
           NEW buf \in Seq(Nat), NEW n \in Nat, NEW end \in Nat, end <= Len(buf),
           end = n + RoundUp(Len(ElementsOf(p))), StandsAt(buf, n, ElementsOf(p)),
           \A j \in (Len(ElementsOf(p)) + 1) .. RoundUp(Len(ElementsOf(p))) : buf[n + j] = 0
    PROVE  ListInPlace(p.extension_profile, p.extensions, buf, n, end)
<1>a. PICK exts, profile : exts = p.extensions /\ profile = p.extension_profile
  OBVIOUS
<1>1. exts \in Seq(ExtensionType) /\ Len(exts) \in Nat /\ Carried(p) = exts
  <2>1. exts \in Seq(ExtensionType)
    BY <1>a DEF PacketType
  <2> QED
    BY <1>a, <2>1, CarriedIs, LenProperties
<1>b. PICK e : e = ElementsBytes(profile, exts)
  OBVIOUS
<1>2. e = ElementsOf(p) /\ e \in Seq(Nat)
  <2>1. e \in Seq(Nat)
    BY <1>1, <1>b, ElementsAre
  <2> QED
    BY <1>1, <1>a, <1>b, <2>1 DEF ElementsOf
<1>c. PICK l \in Nat : l = Len(e)
  BY <1>2, LenProperties
<1>d. PICK size : size = RoundUp(l)
  OBVIOUS
<1>3. size \in Nat /\ size >= l
  BY <1>d, RoundUpIs
<1>4. ASSUME NEW i \in 1..Len(exts) PROVE Legible(profile, exts[i])
  <2>1. Unfit(p) = 0
    BY DEF HeaderFits
  <2>2. Fits(profile, exts[i])
    BY <1>1, <1>4, <1>a, <2>1, UnfitIs
  <2>3. profile = kExtensionProfileOneByte => exts[i].payload # <<>>
    BY <1>4, <1>a DEF Distinct
  <2> QED
    BY <2>2, <2>3 DEF Legible
<1>5. end = n + size /\ StandsAt(buf, n, e) /\ \A j \in (l + 1)..size : buf[n + j] = 0
  BY <1>2, <1>c, <1>d
<1>6. ASSUME NEW k \in (n + l) .. (end - 1) PROVE buf[k + 1] = 0
  <2>1. (k + 1) - n \in (l + 1)..size /\ n + ((k + 1) - n) = k + 1
    BY ONLY <1>3, <1>5, k \in (n + l) .. (end - 1), n \in Nat, l \in Nat
  <2> QED
    BY ONLY <1>5, <2>1
<1>7. n + l <= end
  BY ONLY <1>3, <1>5, n \in Nat, l \in Nat
<1>8. ListInPlace(profile, exts, buf, n, end)
  <2>1. buf \in Seq(Nat) /\ n \in Nat /\ end \in Nat /\ end <= Len(buf)
    OBVIOUS
  <2> QED
    BY ONLY <1>1, <1>4, <1>5, <1>6, <1>7, <1>b, <1>c, <2>1 DEF ListInPlace
<1> QED
  BY <1>8, <1>a

\* What reading the header of p gives, over whatever fields.
HeaderReadAs(p, r) ==
    /\ r.ok = TRUE /\ r.size = HeaderSize(p)
    /\ r.packet \in PacketType
    /\ r.packet.padding = p.padding /\ r.packet.extension = p.extension
    /\ r.packet.csrc = p.csrc
    /\ p.extension => /\ r.packet.extension_profile = p.extension_profile
                      /\ r.packet.extensions = ReadBack(p)
    /\ ~p.extension => r.packet.extensions = <<>>

LEMMA HeaderReadBack ==
    ASSUME NEW p \in PacketType, Distinct(p), HeaderFits(p), NEW q \in PacketType,
           NEW buf \in Seq(Nat), BeginsWith(buf, p)
    PROVE  HeaderReadAs(p, ReadHeader(q, buf))
<1>a. PICK r : r = ReadHeader(q, buf)
  OBVIOUS
<1>1. HeaderRead(q, buf, r)
  BY <1>a, HeaderIsRead
<1>2. HeaderIn(p, buf)
  BY HeaderStands
<1>b. PICK f \in Nat : f = FlagsOf(p)
  BY FlagsAre
<1>3. f % 16 = p.csrc /\ (p.padding <=> Bit(f, 32)) /\ (p.extension <=> Bit(f, 16))
  BY ONLY <1>b, p \in PacketType, FlagsAre DEF Bit
<1>4. p.padding = Bit(f, 32) /\ p.extension = Bit(f, 16)
  <2>1. p.padding \in BOOLEAN /\ p.extension \in BOOLEAN
    BY DEF PacketType
  <2>2. Bit(f, 32) \in BOOLEAN /\ Bit(f, 16) \in BOOLEAN
    BY DEF Bit
  <2> QED
    BY ONLY <1>3, <2>1, <2>2
<1>c. PICK n \in Nat : n = FixedSize(p.csrc) /\ n >= 12
  <2>1. p.csrc \in Nat /\ FixedSize(p.csrc) = 12 + 4 * p.csrc /\ FixedSize(p.csrc) \in Nat
    BY SizeIs
  <2>2. FixedSize(p.csrc) >= 12
    BY ONLY <2>1
  <2> QED
    BY <2>1, <2>2
<1>d. PICK l \in Nat : l = Len(buf)
  BY LenProperties
<1>e. PICK h \in Nat : h = HeaderSize(p)
  BY SizeIs
<1>5. h >= n /\ h <= l /\ buf[1] = f
  <2>1. HeaderSize(p) >= FixedSize(p.csrc)
    BY SizeIs
  <2>2. HeaderSize(p) <= Len(buf) /\ buf[1] = FlagsOf(p)
    BY ONLY <1>2 DEF HeaderIn
  <2> QED
    BY ONLY <2>1, <2>2, <1>b, <1>c, <1>d, <1>e
<1>6. ~(l < 4) /\ ~(l < n) /\ n = FixedSize(f % 16)
  BY ONLY <1>3, <1>5, <1>c, l \in Nat, h \in Nat
<1>7. CASE ~p.extension
  <2>a. PICK c : c = Cleared(q, f)
    OBVIOUS
  <2>1. r.packet = c /\ r.size = n /\ r.ok = TRUE
    <3>1. ~Bit(f, 16)
      BY <1>3, <1>7
    <3> QED
      BY ONLY <1>1, <1>5, <1>6, <1>d, <2>a, <3>1 DEF HeaderRead
  <2>2. /\ c \in PacketType /\ c.padding = Bit(f, 32) /\ c.extension = Bit(f, 16)
        /\ c.csrc = f % 16 /\ c.extensions = <<>>
    BY <2>a, <<>> \in Seq(ExtensionType), PacketFields
  <2>3. HeaderSize(p) = n
    BY ONLY <1>2, <1>7, <1>c DEF HeaderIn
  <2> QED
    BY ONLY <1>3, <1>4, <1>7, <1>a, <2>1, <2>2, <2>3 DEF HeaderReadAs
<1>8. CASE p.extension
  <2>a. PICK profile \in Nat : profile = p.extension_profile
    BY DEF PacketType
  <2>b. PICK e : e = ElementsOf(p)
    OBVIOUS
  <2>1. e \in Seq(Nat) /\ Len(e) \in Nat
    BY <2>b, CarriedIs, ElementsAre, LenProperties DEF ElementsOf
  <2>c. PICK size : size = RoundUp(Len(e))
    OBVIOUS
  <2>2. size \in Nat
    BY <2>1, <2>c, RoundUpIs
  <2>3. /\ HeaderSize(p) = n + 4 + size
        /\ Unsigned16(buf, n) = profile /\ 4 * Unsigned16(buf, n + 2) = size
        /\ StandsAt(buf, n + 4, e)
        /\ \A j \in (Len(e) + 1)..size : buf[(n + 4) + j] = 0
    BY ONLY <1>2, <1>8, <1>c, <2>a, <2>b, <2>c DEF HeaderIn
  <2>d. PICK end : end = n + 4 + size
    OBVIOUS
  <2>4. end \in Nat /\ end = h /\ end = (n + 4) + size /\ n + 4 \in Nat /\ n + 4 <= end
    BY ONLY <1>e, <2>2, <2>3, <2>d, n \in Nat
  <2>5. ~(l < n + 4) /\ ~(l < end) /\ end <= l
    BY ONLY <1>5, <2>4, l \in Nat, n \in Nat
  <2>e. PICK read : read = ReadExtensions(profile, buf, n + 4, end)
    OBVIOUS
  <2>f. PICK c : c = Extended(q, f, profile, read.extensions)
    OBVIOUS
  <2>6. r.packet = c /\ r.size = read.n /\ r.ok = read.ok
    <3>1. Bit(f, 16)
      BY <1>3, <1>8
    <3>2. n + 4 + 4 * Unsigned16(buf, n + 2) = end
      BY <2>3, <2>d
    <3> QED
      BY ONLY <1>1, <1>5, <1>6, <1>d, <2>3, <2>5, <2>e, <2>f, <3>1, <3>2 DEF HeaderRead
  <2>7. read.extensions = ReadBack(p) /\ read.n = end /\ read.ok = TRUE
    <3>1. CASE IsElements(profile)
      <4>a. PICK exts : exts = p.extensions
        OBVIOUS
      <4>1. /\ p \in PacketType /\ Distinct(p) /\ HeaderFits(p) /\ p.extension
            /\ IsElements(p.extension_profile)
            /\ buf \in Seq(Nat) /\ n + 4 \in Nat /\ end \in Nat /\ end <= Len(buf)
            /\ end = (n + 4) + RoundUp(Len(ElementsOf(p)))
            /\ StandsAt(buf, n + 4, ElementsOf(p))
            /\ \A j \in (Len(ElementsOf(p)) + 1) .. RoundUp(Len(ElementsOf(p))) :
                  buf[(n + 4) + j] = 0
        BY <1>8, <1>d, <2>3, <2>4, <2>5, <2>a, <2>b, <2>c, <3>1
      <4>2. ListInPlace(profile, exts, buf, n + 4, end)
        <5>1. ListInPlace(p.extension_profile, p.extensions, buf, n + 4, end)
          BY ONLY <4>1, ListStands
        <5> QED
          BY <5>1, <2>a, <4>a
      <4>3. Elements(profile, buf, n + 4, end) = Read(exts, end, TRUE, TRUE)
        <5>1. ListRead(profile, exts, buf, n + 4, end)
          BY <3>1, <4>2, ElementsReadBack
        <5> QED
          BY <5>1 DEF ListRead
      <4>4. read = Read(exts, end, TRUE, TRUE)
        BY <2>e, <3>1, <4>3 DEF ReadExtensions
      <4>5. read.extensions = exts /\ read.n = end /\ read.ok = TRUE
        BY ONLY <4>4 DEF Read
      <4>6. ReadBack(p) = exts
        BY <2>a, <3>1, <4>a DEF ReadBack
      <4> QED
        BY <4>5, <4>6
    <3>2. CASE ~IsElements(profile)
      <4>a. PICK list : list = <<Extension(0, SubSeq(buf, (n + 4) + 1, end))>>
        OBVIOUS
      <4>1. /\ p \in PacketType /\ Distinct(p) /\ HeaderFits(p) /\ p.extension
            /\ ~IsElements(p.extension_profile)
            /\ buf \in Seq(Nat) /\ n + 4 \in Nat /\ end \in Nat /\ end <= Len(buf)
            /\ end = (n + 4) + RoundUp(Len(ElementsOf(p)))
            /\ StandsAt(buf, n + 4, ElementsOf(p))
        BY <1>8, <1>d, <2>3, <2>4, <2>5, <2>a, <2>b, <2>c, <3>2
      <4>2. list = ReadBack(p)
        BY ONLY <4>1, <4>a, PlainReadBack
      <4>3. read = Read(list, end, FALSE, TRUE)
        BY <2>e, <3>2, <4>a, Zenon DEF ReadExtensions
      <4>4. read.extensions = list /\ read.n = end /\ read.ok = TRUE
        BY ONLY <4>3 DEF Read
      <4> QED
        BY <4>2, <4>4
    <3> QED
      BY <3>1, <3>2
  <2>8. read.extensions \in Seq(ExtensionType)
    <3>1. ReadSoFar(profile, buf, read)
      BY <2>4, <2>5, <2>e, <1>d, ExtensionsRead
    <3> QED
      BY ONLY <3>1 DEF ReadSoFar, ReadType
  <2>9. ExtendedIs(c, f, profile, read.extensions)
    <3>a. PICK exts \in Seq(ExtensionType) : exts = read.extensions
      BY <2>8
    <3>1. ExtendedIs(Extended(q, f, profile, exts), f, profile, exts)
      BY ONLY q \in PacketType, f \in Nat, profile \in Nat, exts \in Seq(ExtensionType),
              PacketFields
    <3> QED
      BY ONLY <2>f, <3>a, <3>1
  <2> QED
    BY ONLY <1>3, <1>4, <1>8, <1>a, <1>e, <2>4, <2>6, <2>7, <2>9, <2>a DEF HeaderReadAs, ExtendedIs
<1> QED
  BY <1>7, <1>8
\* What reading the packet p gives, over whatever fields.
PacketReadAs(p, r) ==
    /\ r.outcome = "true"
    /\ r.packet \in PacketType
    /\ r.packet.padding = p.padding /\ r.packet.extension = p.extension
    /\ r.packet.csrc = p.csrc
    /\ p.extension => /\ r.packet.extension_profile = p.extension_profile
                      /\ r.packet.extensions = ReadBack(p)
    /\ ~p.extension => r.packet.extensions = <<>>
    /\ Len(r.packet.payload) = Len(p.payload) + Flag(~p.padding, p.padding_size)
    /\ \A i \in 1..Len(p.payload) : r.packet.payload[i] = p.payload[i]

LEMMA PacketReadBack ==
    ASSUME NEW p \in PacketType, Distinct(p), CanWrite(p), NEW q \in PacketType,
           NEW buf \in Seq(Nat), Holds(buf, p)
    PROVE  PacketReadAs(p, Depacketize(q, buf))
<1>a. PICK header, padding_size :
         /\ header = ReadHeader(q, buf)
         /\ padding_size = IF header.packet.padding THEN buf[Len(buf)] ELSE 0
  OBVIOUS
<1>b. PICK c : c = header.packet
  OBVIOUS
<1>c. PICK end, counted : /\ end = Len(buf) - padding_size
                          /\ counted = [c EXCEPT !.padding_size = padding_size]
  OBVIOUS
<1>d. PICK s : s = SubSeq(buf, header.size + 1, end)
  OBVIOUS
<1>e. PICK full : full = [counted EXCEPT !.payload = s]
  OBVIOUS
<1>f. PICK r : r = Depacketize(q, buf)
  OBVIOUS
<1>1. HeaderReadAs(p, header)
  <2>1. HeaderFits(p) /\ BeginsWith(buf, p)
    BY DEF CanWrite, Holds
  <2> QED
    BY <1>a, <2>1, HeaderReadBack
<1>2. /\ header.ok = TRUE /\ header.size = HeaderSize(p) /\ c \in PacketType
      /\ c.padding = p.padding /\ c.extension = p.extension /\ c.csrc = p.csrc
      /\ p.extension => c.extension_profile = p.extension_profile /\ c.extensions = ReadBack(p)
      /\ ~p.extension => c.extensions = <<>>
  BY ONLY <1>1, <1>b DEF HeaderReadAs
<1>g. PICK h \in Nat, l \in Nat, k \in Nat :
         h = HeaderSize(p) /\ l = Len(p.payload) /\ k = p.padding_size
  BY SizeIs
<1>3. Len(buf) = h + l + k
  <2>1. Len(buf) = PacketSize(p)
    BY DEF Holds
  <2> QED
    BY <1>g, <2>1, SizeIs
<1>h. PICK t \in BOOLEAN : t = p.padding
  BY DEF PacketType
<1>4. (t => k > 0 /\ buf[Len(buf)] = k) /\ \A i \in 1..l : buf[h + i] = p.payload[i]
  BY <1>g, <1>h DEF CanWrite, Holds
<1>5. padding_size = IF t THEN k ELSE 0
  BY ONLY <1>2, <1>4, <1>a, <1>b, <1>h
<1>6. /\ padding_size \in Nat /\ end \in Nat /\ h <= end /\ end <= Len(buf)
      /\ end - h = l + (IF t THEN 0 ELSE k) /\ ~(end < 0) /\ ~(end < h)
      /\ ~(t /\ Len(buf) <= h)
  <2>a. PICK b : b = Len(buf)
    OBVIOUS
  <2>1. b = h + l + k /\ end = b - padding_size
    BY ONLY <1>3, <1>c, <2>a
  <2>2. CASE t
    <3>1. k > 0 /\ padding_size = k
      BY <1>4, <1>5, <2>2
    <3>2. /\ padding_size \in Nat /\ end \in Nat /\ h <= end /\ end <= b
          /\ end - h = l + 0 /\ ~(end < 0) /\ ~(end < h) /\ ~(b <= h)
      BY ONLY <2>1, <3>1, h \in Nat, l \in Nat, k \in Nat
    <3> QED
      BY ONLY <2>2, <2>a, <3>2
  <2>3. CASE ~t
    <3>1. padding_size = 0
      BY <1>5, <2>3
    <3>2. /\ padding_size \in Nat /\ end \in Nat /\ h <= end /\ end <= b
          /\ end - h = l + k /\ ~(end < 0) /\ ~(end < h)
      BY ONLY <2>1, <3>1, h \in Nat, l \in Nat, k \in Nat
    <3> QED
      BY ONLY <2>3, <2>a, <3>2
  <2> QED
    BY <2>2, <2>3
<1>7. r = IF ~header.ok \/ (c.padding /\ Len(buf) <= header.size)
          THEN [packet |-> c, outcome |-> "false"]
          ELSE IF end < 0 THEN [packet |-> counted, outcome |-> "overrun"]
          ELSE IF end < header.size THEN [packet |-> counted, outcome |-> "false"]
          ELSE [packet |-> full, outcome |-> "true"]
  BY ONLY <1>a, <1>b, <1>c, <1>d, <1>e, <1>f DEF Depacketize
<1>8. r.packet = full /\ r.outcome = "true"
  <2>1. ~(~header.ok \/ (c.padding /\ Len(buf) <= header.size))
    <3>1. header.ok
      BY <1>2
    <3>2. header.size = h /\ c.padding = t
      BY <1>2, <1>g, <1>h
    <3>3. ~(c.padding /\ Len(buf) <= header.size)
      BY ONLY <1>6, <3>2
    <3> QED
      BY <3>1, <3>3
  <2>2. ~(end < 0) /\ ~(end < header.size)
    BY ONLY <1>2, <1>6, <1>g
  <2>3. r = [packet |-> full, outcome |-> "true"]
    BY ONLY <1>7, <2>1, <2>2
  <2> QED
    BY ONLY <2>3
<1>9. /\ s \in Seq(Nat) /\ Len(s) = end - h /\ \A i \in 1..(end - h) : s[i] = buf[h + i]
  <2>1. s = SubSeq(buf, h + 1, end)
    BY ONLY <1>2, <1>d, <1>g
  <2> QED
    BY <1>6, <2>1, Bytes
<1>10. /\ counted \in PacketType
       /\ counted.padding = c.padding /\ counted.extension = c.extension
       /\ counted.csrc = c.csrc /\ counted.extension_profile = c.extension_profile
       /\ counted.extensions = c.extensions
  BY <1>2, <1>6, <1>c DEF PacketType
<1>11. /\ full \in PacketType
       /\ full.padding = c.padding /\ full.extension = c.extension
       /\ full.csrc = c.csrc /\ full.extension_profile = c.extension_profile
       /\ full.extensions = c.extensions /\ full.payload = s
  BY <1>9, <1>10, <1>e DEF PacketType
<1>12. Len(s) = Len(p.payload) + Flag(~p.padding, p.padding_size)
  <2>1. Flag(~p.padding, p.padding_size) = IF t THEN 0 ELSE k
    BY ONLY <1>g, <1>h DEF Flag
  <2> QED
    BY ONLY <1>6, <1>9, <1>g, <2>1
<1>13. \A i \in 1..Len(p.payload) : s[i] = p.payload[i]
  <2>1. \A i \in 1..l : i \in 1..(end - h)
    BY ONLY <1>6, l \in Nat, k \in Nat, h \in Nat, t \in BOOLEAN
  <2> QED
    BY ONLY <1>4, <1>9, <1>g, <2>1
<1> QED
  BY ONLY <1>2, <1>8, <1>11, <1>12, <1>13, <1>f DEF PacketReadAs
-----------------------------------------------------------------------------
(* The inductive invariant, but for what the other implementations put in. *)

StructInv == TypeInv /\ RoundInv

LEMMA AlikeSuit ==
    ASSUME NEW p, NEW q, p.extension = q.extension, p.extensions = q.extensions,
           p.extension_profile = q.extension_profile
    PROVE  (Distinct(p) => Distinct(q)) /\ (Suits(p) => Suits(q))
<1>1. Distinct(p) => Distinct(q)
  BY DEF Distinct
<1>2. Suits(p) => Suits(q)
  BY DEF Suits
<1> QED
  BY <1>1, <1>2

LEMMA BytesAreNat == Byte \subseteq Nat
BY DEF Byte

LEMMA SeqOfBytes ==
    ASSUME NEW s \in Seq(Byte)
    PROVE  s \in Seq(Nat)
<1>1. Len(s) \in Nat /\ s \in [1..Len(s) -> Byte]
  BY LenProperties
<1>2. s \in [1..Len(s) -> Nat]
  BY <1>1, BytesAreNat
<1> QED
  BY <1>1, <1>2, IsASeq

LEMMA CallIs ==
    ASSUME TypeInv, Call
    PROVE  wire = <<>> /\ outcome # "overrun" /\ calls' \in 0..MaxCalls
BY MaxCallsAssumption DEF TypeInv, Call

LEMMA SetIs ==
    ASSUME TypeInv, NEW id \in Ids, NEW payload \in Payloads, SetExtension(id, payload)
    PROVE  /\ tx' = SetTo(tx, id, payload)
           /\ id \in Nat /\ payload \in Seq(Nat) /\ Short(payload)
<1>1. id \in Nat
  BY IdsAssumption, BytesAreNat
<1>2. payload \in Seq(Nat) /\ Short(payload)
  BY PayloadsAssumption, SeqOfBytes DEF Short
<1>3. tx.extension \in BOOLEAN
  BY DEF TypeInv, PacketType
<1>a. PICK accepted : accepted = (tx.extension => Accepts(tx.extension_profile, id, payload))
  OBVIOUS
<1>b. PICK next, first :
         /\ next = [tx EXCEPT !.extensions = Updated(tx, id, payload)]
         /\ first = [tx EXCEPT !.extension = TRUE,
                               !.extension_profile = FirstProfile(tx.extension_profile, payload),
                               !.extensions = Append(tx.extensions, Extension(id, payload))]
  OBVIOUS
<1>4. tx' = CASE ~accepted -> tx
              [] accepted /\ tx.extension -> next
              [] ~tx.extension -> first
  BY <1>a, <1>b DEF SetExtension
<1>5. SetTo(tx, id, payload) =
         IF ~tx.extension THEN first
         ELSE IF Accepts(tx.extension_profile, id, payload) THEN next ELSE tx
  BY ONLY <1>b DEF SetTo
<1>6. tx' = SetTo(tx, id, payload)
  <2>1. CASE ~tx.extension
    <3>1. accepted
      BY <1>a, <2>1
    <3> QED
      BY ONLY <1>4, <1>5, <2>1, <3>1
  <2>2. CASE tx.extension /\ Accepts(tx.extension_profile, id, payload)
    <3>1. accepted
      BY <1>a, <2>2
    <3> QED
      BY ONLY <1>4, <1>5, <2>2, <3>1
  <2>3. CASE tx.extension /\ ~Accepts(tx.extension_profile, id, payload)
    <3>1. ~accepted
      BY <1>a, <2>3
    <3> QED
      BY ONLY <1>4, <1>5, <2>3, <3>1
  <2> QED
    BY <2>1, <2>2, <2>3
<1> QED
  BY <1>1, <1>2, <1>6

LEMMA DeleteIs ==
    ASSUME TypeInv, NEW id \in Ids, DeleteExtension(id)
    PROVE  tx' = DeletedFrom(tx, id) /\ id \in Nat
<1>1. id \in Nat
  BY IdsAssumption, BytesAreNat
<1>2. tx' = IF tx.extension /\ PositionOf(tx, id) # 0
            THEN [tx EXCEPT !.extensions = RemoveAt(tx.extensions, PositionOf(tx, id))]
            ELSE tx
  BY DEF DeleteExtension
<1> QED
  BY <1>1, <1>2 DEF DeletedFrom

\* What the application may assign.
Assigned(p, fields) ==
    [p EXCEPT !.padding = fields.padding, !.padding_size = fields.padding_size,
              !.csrc = fields.csrc, !.payload = fields.payload]

LEMMA AssignKeeps ==
    ASSUME NEW p \in PacketType, NEW fields \in Fields
    PROVE  /\ Assigned(p, fields) \in PacketType
           /\ Assigned(p, fields).extension = p.extension
           /\ Assigned(p, fields).extensions = p.extensions
           /\ Assigned(p, fields).extension_profile = p.extension_profile
<1>1. /\ fields.padding \in BOOLEAN /\ fields.padding_size \in Byte
      /\ fields.csrc \in 0..15 /\ fields.payload \in Seq(Byte)
  BY FieldsAssumption
<1>2. fields.padding_size \in Nat /\ fields.payload \in Seq(Nat)
  BY <1>1, BytesAreNat, SeqOfBytes
<1> QED
  BY <1>1, <1>2 DEF Assigned, PacketType

LEMMA NewPacketIs == NewPacket \in PacketType /\ Distinct(NewPacket) /\ Suits(NewPacket)
<1>1. Len(<<>>) = 0 /\ <<>> \in Seq(ExtensionType) /\ <<>> \in Seq(Nat)
  OBVIOUS
<1>2. NewPacket \in PacketType
  BY <1>1 DEF NewPacket, PacketType
<1>3. Distinct(NewPacket) /\ Suits(NewPacket)
  BY <1>1 DEF NewPacket, Distinct, Suits
<1> QED
  BY <1>2, <1>3

LEMMA StructInit == Init => StructInv
<1>1. Len(<<>>) = 0 /\ <<>> \in Seq(Nat) /\ 0 \in 0..MaxCalls
  BY MaxCallsAssumption
<1> QED
  BY <1>1, NewPacketIs DEF Init, StructInv, TypeInv, RoundInv

\* A vector of the size of the packet, written anew.
LEMMA SendNewIs ==
    ASSUME NEW p \in PacketType
    PROVE  /\ Packetize(p) \in Seq(Nat)
           /\ CanWrite(p) \in BOOLEAN
           /\ CanWrite(p) => Holds(Packetize(p), p)
<1>a. PICK v : v = Zeros(PacketSize(p))
  OBVIOUS
<1>1. v \in Seq(Nat) /\ Len(v) <= PacketSize(p)
  <2>1. PacketSize(p) \in Nat
    BY SizeIs
  <2>2. v \in Seq(Nat) /\ Len(v) = PacketSize(p)
    BY <1>a, <2>1, ZerosIs
  <2> QED
    BY <2>1, <2>2
<1>2. Packetize(p) = PacketizeTo(p, v).vector
  BY <1>a DEF Packetize
<1>3. /\ PacketizeTo(p, v).vector \in Seq(Nat)
      /\ CanWrite(p) => Holds(PacketizeTo(p, v).vector, p)
  BY <1>1, PacketizeIs
<1>4. CanWrite(p) \in BOOLEAN
  BY DEF CanWrite, HeaderFits
<1> QED
  BY <1>2, <1>3, <1>4

LEMMA StructNext == StructInv /\ [Next]_vars => StructInv'
<1> SUFFICES ASSUME StructInv, [Next]_vars PROVE StructInv'
  OBVIOUS
<1>t. /\ tx \in PacketType /\ rx \in PacketType
      /\ vector \in Seq(Nat) /\ wire \in Seq(Nat)
      /\ faithful \in BOOLEAN /\ outcome \in {"none", "true", "false", "overrun"}
      /\ calls \in 0..MaxCalls /\ TypeInv
  BY DEF StructInv, TypeInv
<1>r. /\ Distinct(tx) /\ (outcome = "true" => Distinct(rx))
      /\ wire # <<>> /\ faithful => CanWrite(tx) /\ Holds(wire, tx)
  BY DEF StructInv, RoundInv
<1>s. <<>> \in Seq(Nat)
  OBVIOUS
<1>k. ASSUME Call, tx' \in PacketType, Distinct(tx'),
             UNCHANGED <<rx, vector, wire, faithful, outcome>>
      PROVE  StructInv'
  <2>1. wire = <<>> /\ calls' \in 0..MaxCalls
    BY <1>t, <1>k, CallIs
  <2> QED
    BY <1>k, <1>t, <1>r, <2>1 DEF StructInv, TypeInv, RoundInv
<1>1. ASSUME NEW id \in Ids, NEW payload \in Payloads, SetExtension(id, payload)
      PROVE  StructInv'
  <2>a. PICK q : q = SetTo(tx, id, payload)
    OBVIOUS
  <2>1. tx' = q /\ id \in Nat /\ payload \in Seq(Nat) /\ Short(payload)
    BY <1>1, <1>t, <2>a, SetIs
  <2>2. Kept(tx, q)
    BY <1>t, <1>r, <2>1, <2>a, SetKeeps
  <2>3. tx' \in PacketType /\ Distinct(tx')
    BY <2>1, <2>2 DEF Kept
  <2> QED
    BY <1>1, <1>k, <2>3 DEF SetExtension
<1>2. ASSUME NEW id \in Ids, DeleteExtension(id) PROVE StructInv'
  <2>a. PICK q : q = DeletedFrom(tx, id)
    OBVIOUS
  <2>1. tx' = q
    BY <1>2, <1>t, <2>a, DeleteIs
  <2>2. Kept(tx, q)
    BY <1>t, <1>r, <2>a, DeleteKeeps
  <2>3. tx' \in PacketType /\ Distinct(tx')
    BY <2>1, <2>2 DEF Kept
  <2> QED
    BY <1>2, <1>k, <2>3 DEF DeleteExtension
<1>3. ASSUME NEW fields \in Fields, Assign(fields) PROVE StructInv'
  <2>a. PICK q : q = Assigned(tx, fields)
    OBVIOUS
  <2>1. tx' = q
    BY <1>3, <2>a DEF Assign, Assigned
  <2>2. /\ q \in PacketType /\ q.extension = tx.extension
        /\ q.extensions = tx.extensions /\ q.extension_profile = tx.extension_profile
    BY <1>3, <1>t, <2>a, AssignKeeps
  <2>3. Distinct(q)
    BY <1>r, <2>2, AlikeSuit
  <2> QED
    BY <1>3, <1>k, <2>1, <2>2, <2>3 DEF Assign
<1>4. ASSUME SendNew PROVE StructInv'
  <2>a. PICK w : w = Packetize(tx)
    OBVIOUS
  <2>1. /\ Call /\ wire' = w /\ faithful' = CanWrite(tx)
        /\ tx' = tx /\ rx' = rx /\ vector' = vector /\ outcome' = outcome
    BY <1>4, <2>a DEF SendNew
  <2>2. w \in Seq(Nat) /\ CanWrite(tx) \in BOOLEAN /\ (CanWrite(tx) => Holds(w, tx))
    BY <1>t, <2>a, SendNewIs
  <2>3. calls' \in 0..MaxCalls
    BY <1>t, <2>1, CallIs
  <2>4. TypeInv'
    BY <1>t, <2>1, <2>2, <2>3 DEF TypeInv
  <2>5. RoundInv'
    BY <1>r, <2>1, <2>2 DEF RoundInv
  <2> QED
    BY <2>4, <2>5 DEF StructInv
<1>5. ASSUME SendReused PROVE StructInv'
  <2>a. PICK w, done : /\ w = PacketizeTo(tx, vector).vector
                       /\ done = PacketizeTo(tx, vector).done
    OBVIOUS
  <2>1. /\ Call /\ vector' = w
        /\ done => wire' = w /\ faithful' = (Len(vector) <= PacketSize(tx))
        /\ ~done => wire' = wire /\ faithful' = faithful
        /\ tx' = tx /\ rx' = rx /\ outcome' = outcome
    BY <1>5, <2>a DEF SendReused
  <2>2. /\ w \in Seq(Nat) /\ done \in BOOLEAN /\ (done <=> CanWrite(tx))
        /\ CanWrite(tx) /\ Len(vector) <= PacketSize(tx) => Holds(w, tx)
    BY <1>t, <2>a, PacketizeIs
  <2>3. calls' \in 0..MaxCalls /\ wire = <<>>
    BY <1>t, <2>1, CallIs
  <2>4. TypeInv'
    <3>1. wire' \in Seq(Nat) /\ faithful' \in BOOLEAN
      <4>1. CASE done
        <5>1. wire' = w /\ faithful' = (Len(vector) <= PacketSize(tx))
          BY <2>1, <4>1
        <5>2. (Len(vector) <= PacketSize(tx)) \in BOOLEAN
          OBVIOUS
        <5> QED
          BY ONLY <2>2, <5>1, <5>2
      <4>2. CASE ~done
        BY <1>t, <2>1, <4>2
      <4> QED
        BY <4>1, <4>2
    <3> QED
      BY <1>t, <2>1, <2>2, <2>3, <3>1 DEF TypeInv
  <2>5. RoundInv'
    BY <1>r, <2>1, <2>2, <2>3 DEF RoundInv
  <2> QED
    BY <2>4, <2>5 DEF StructInv
<1>6. ASSUME NEW buf \in Foreign, SendForeign(buf) PROVE StructInv'
  <2>1. /\ Call /\ wire' = buf /\ faithful' = FALSE
        /\ tx' = tx /\ rx' = rx /\ vector' = vector /\ outcome' = outcome
    BY <1>6 DEF SendForeign
  <2>2. buf \in Seq(Nat)
    BY ForeignAssumption, SeqOfBytes
  <2>3. calls' \in 0..MaxCalls
    BY <1>t, <2>1, CallIs
  <2> QED
    BY <1>t, <1>r, <2>1, <2>2, <2>3 DEF StructInv, TypeInv, RoundInv
<1>7. ASSUME Receive PROVE StructInv'
  <2>a. PICK q, said : q = Depacketize(rx, wire).packet /\ said = Depacketize(rx, wire).outcome
    OBVIOUS
  <2>b. PICK header : header = ReadHeader(rx, wire)
    OBVIOUS
  <2>1. /\ wire # <<>> /\ rx' = q /\ outcome' = said /\ wire' = <<>>
        /\ tx' = tx /\ vector' = vector /\ faithful' = faithful /\ calls' = calls
    BY <1>7, <2>a DEF Receive
  <2>2. /\ q \in PacketType /\ said \in {"true", "false", "overrun"}
        /\ said = "true" =>
              /\ header.ok /\ q.extension = header.packet.extension
              /\ q.extensions = header.packet.extensions
              /\ q.extension_profile = header.packet.extension_profile
    BY <1>t, <2>1, <2>a, <2>b, DepacketizeIs
  <2>3. said = "true" => Distinct(q)
    <3> SUFFICES ASSUME said = "true" PROVE Distinct(q)
      OBVIOUS
    <3>1. HeaderTold(wire, header)
      BY <1>t, <2>b, HeaderReadIs
    <3>2. Distinct(header.packet)
      BY <2>2, <3>1 DEF HeaderTold
    <3> QED
      BY <2>2, <3>2, AlikeSuit
  <2> QED
    BY <1>t, <1>r, <1>s, <2>1, <2>2, <2>3 DEF StructInv, TypeInv, RoundInv
<1>8. ASSUME Clone PROVE StructInv'
  <2>1. Call /\ outcome = "true" /\ tx' = rx /\ UNCHANGED <<rx, vector, wire, faithful, outcome>>
    BY <1>8 DEF Clone
  <2> QED
    BY <1>k, <1>t, <1>r, <2>1
<1>9. CASE UNCHANGED vars
  BY <1>9 DEF vars, StructInv, TypeInv, RoundInv
<1> QED
  BY <1>1, <1>2, <1>3, <1>4, <1>5, <1>6, <1>7, <1>8, <1>9 DEF Next
(***************************************************************************)
(* In every reachable state, what a packet holds can be told apart when it *)
(* is read, and a buffer under way that was written without a fault begins *)
(* with the header of the packet, goes on with its payload and ends with   *)
(* its padding count: after any number of the public calls of rtp::Header  *)
(* and rtp::Packet, with any buffers of other implementations in between.  *)
(***************************************************************************)
THEOREM Structure == Spec => []StructInv
<1>1. Init => StructInv
  BY StructInit
<1>2. StructInv /\ [Next]_vars => StructInv'
  BY StructNext
<1> QED
  BY <1>1, <1>2, PTL DEF Spec

(***************************************************************************)
(* Whatever was set, deleted, assigned or cloned, a header that can be     *)
(* written is as long as Header::PacketSize says, so PacketizeTo stays     *)
(* within the vector it resized (rtp_packet.cc:157, 446) and the payload   *)
(* begins where the header ends.                                           *)
(***************************************************************************)
THEOREM Sizes == Spec => []SizesRight
<1>1. StructInv => SizesRight
  <2> SUFFICES ASSUME StructInv, HeaderFits(tx)
               PROVE  Len(HeaderBytes(tx, Zeros(PacketSize(tx)))) = HeaderSize(tx)
    BY DEF SizesRight
  <2>a. PICK w, base : w = HeaderBytes(tx, base) /\ base = Zeros(PacketSize(tx))
    OBVIOUS
  <2>1. tx \in PacketType
    BY DEF StructInv, TypeInv
  <2>2. Written(tx, w)
    BY <2>1, <2>a, HeaderWritten
  <2>3. Len(w) = HeaderSize(tx)
    BY ONLY <2>2 DEF Written
  <2> QED
    BY <2>3, <2>a
<1> QED
  BY <1>1, Structure, PTL

LEMMA PrefixIs ==
    ASSUME NEW s \in Seq(Nat), NEW t \in Seq(Nat), NEW n \in Nat, Len(t) = Len(s) + n,
           \A i \in 1..Len(s) : t[i] = s[i]
    PROVE  IsPrefix(s, t)
<1>a. PICK l \in Nat : l = Len(s)
  BY LenProperties
<1>b. PICK f : f = SubSeq(t, 1, l)
  OBVIOUS
<1>1. Len(t) = l + n /\ l <= Len(t)
  BY <1>a
<1>2. f \in Seq(Nat) /\ Len(f) = l /\ \A i \in 1..l : f[i] = t[i]
  <2>1. \A i \in 1..l : i \in 1..Len(t)
    BY <1>1
  <2>2. \A i \in 1..l : t[i] \in Nat
    BY <2>1, ElementOfSeq
  <2>3. /\ f \in Seq(Nat) /\ Len(f) = IF 1 <= l THEN l - 1 + 1 ELSE 0
        /\ \A i \in 1..(l - 1 + 1) : f[i] = t[1 + i - 1]
    BY <1>b, <2>2, SubSeqProperties
  <2>4. (IF 1 <= l THEN l - 1 + 1 ELSE 0) = l /\ l - 1 + 1 = l
    OBVIOUS
  <2>5. \A i \in 1..l : 1 + i - 1 = i
    OBVIOUS
  <2> QED
    BY ONLY <2>3, <2>4, <2>5
<1>3. f = s
  <2>1. \A i \in 1..Len(f) : f[i] = s[i]
    BY <1>2, <1>a
  <2> QED
    BY <1>2, <1>a, <2>1, SeqEqual
<1>4. SubSeq(s, 1, Len(s)) = s
  BY SubSeqFull
<1> QED
  BY <1>1, <1>3, <1>4, <1>a, <1>b DEF IsPrefix

(***************************************************************************)
(* A packet that was written without a fault is read back as it was        *)
(* written, over whatever the receiver's packet held before: the flags,    *)
(* the count of sources, the extensions in their order, the payload, and   *)
(* behind it only the padding count that was set without padding.  The     *)
(* count of a padded packet never reaches beyond it (rtp_packet.cc:418).   *)
(***************************************************************************)
THEOREM RoundTrips == Spec => []RoundTrip
<1>1. StructInv => RoundTrip
  <2>a. PICK read : read = Depacketize(rx, wire)
    OBVIOUS
  <2> SUFFICES ASSUME StructInv, wire # <<>>, faithful
               PROVE  /\ read.outcome = "true"
                      /\ read.packet.padding = tx.padding
                      /\ read.packet.csrc = tx.csrc
                      /\ read.packet.extension = tx.extension
                      /\ tx.extension => read.packet.extensions = ReadBack(tx)
                      /\ IsPrefix(tx.payload, read.packet.payload)
                      /\ Len(read.packet.payload)
                            = Len(tx.payload) + Flag(~tx.padding, tx.padding_size)
    BY <2>a DEF RoundTrip
  <2>1. /\ tx \in PacketType /\ rx \in PacketType /\ wire \in Seq(Nat)
        /\ Distinct(tx) /\ CanWrite(tx) /\ Holds(wire, tx)
    BY DEF StructInv, TypeInv, RoundInv
  <2>2. PacketReadAs(tx, read)
    BY <2>1, <2>a, PacketReadBack
  <2>3. /\ read.packet.payload \in Seq(Nat) /\ tx.payload \in Seq(Nat)
        /\ Flag(~tx.padding, tx.padding_size) \in Nat
    BY <2>1, <2>2 DEF PacketReadAs, PacketType, Flag
  <2>4. IsPrefix(tx.payload, read.packet.payload)
    <3>1. /\ Len(read.packet.payload) = Len(tx.payload) + Flag(~tx.padding, tx.padding_size)
          /\ \A i \in 1..Len(tx.payload) : read.packet.payload[i] = tx.payload[i]
      BY ONLY <2>2 DEF PacketReadAs
    <3> QED
      BY ONLY <2>3, <3>1, PrefixIs
  <2> QED
    BY ONLY <2>2, <2>4 DEF PacketReadAs
<1> QED
  BY <1>1, Structure, PTL
-----------------------------------------------------------------------------
(* What is read suits the profile it is read in.                           *)

LEMMA ShortSuits ==
    ASSUME NEW p, Len(p.extensions) \in {0, 1}
    PROVE  Suits(p)
<1>1. \A i \in 2..Len(p.extensions) : Fits(p.extension_profile, p.extensions[i])
  OBVIOUS
<1>2. \A i, j \in 1..Len(p.extensions) : p.extensions[i].id = p.extensions[j].id => i = j
  OBVIOUS
<1> QED
  BY <1>1, <1>2 DEF Suits

\* Read the same over whatever fields, as far as Suits looks.
LEMMA ReadsAlike ==
    ASSUME NEW p \in PacketType, NEW q \in PacketType, NEW buf \in Seq(Nat),
           ReadHeader(p, buf).ok, Suits(ReadHeader(p, buf).packet)
    PROVE  ReadHeader(q, buf).ok => Suits(ReadHeader(q, buf).packet)
<1>a. PICK r, s : r = ReadHeader(p, buf) /\ s = ReadHeader(q, buf)
  OBVIOUS
<1>1. HeaderRead(p, buf, r) /\ HeaderRead(q, buf, s)
  BY <1>a, HeaderIsRead
<1>b. PICK f, l, n : f = buf[1] /\ l = Len(buf) /\ n = FixedSize(f % 16)
  OBVIOUS
<1>c. PICK profile, end : /\ profile = Unsigned16(buf, n)
                          /\ end = n + 4 + 4 * Unsigned16(buf, n + 2)
  OBVIOUS
<1>d. PICK read : read = ReadExtensions(profile, buf, n + 4, end)
  OBVIOUS
<1> SUFFICES ASSUME s.ok PROVE Suits(s.packet)
  BY <1>a
<1>2. ~(l < 4) /\ ~(l < n)
  <2>1. l < 4 => s.ok = FALSE
    BY ONLY <1>1, <1>b DEF HeaderRead
  <2>2. ~(l < 4) /\ l < n => s.ok = FALSE
    BY ONLY <1>1, <1>b DEF HeaderRead
  <2> QED
    BY <2>1, <2>2
<1>3. l \in Nat /\ f \in Nat
  <2>1. l \in Nat
    BY <1>b, LenProperties
  <2>2. 1 \in 1..l
    BY <1>2, <2>1
  <2> QED
    BY <1>b, <2>1, <2>2, ElementOfSeq
<1>4. CASE ~Bit(f, 16)
  <2>a. PICK c : c = Cleared(q, f)
    OBVIOUS
  <2>1. s.packet = c
    BY ONLY <1>1, <1>2, <1>4, <1>b, <2>a DEF HeaderRead
  <2>2. c.extensions = <<>>
    BY <1>3, <2>a, <<>> \in Seq(ExtensionType), 0 \in Nat, PacketFields
  <2>3. Len(<<>>) = 0
    OBVIOUS
  <2>4. Len(s.packet.extensions) \in {0, 1}
    BY <2>1, <2>2, <2>3
  <2> QED
    BY <2>4, ShortSuits
<1>5. CASE Bit(f, 16)
  <2>1. ~(l < n + 4) /\ ~(l < end)
    <3>1. l < n + 4 => s.ok = FALSE
      BY ONLY <1>1, <1>2, <1>5, <1>b DEF HeaderRead
    <3>2. ~(l < n + 4) /\ l < end => s.ok = FALSE
      BY ONLY <1>1, <1>2, <1>5, <1>b, <1>c DEF HeaderRead
    <3> QED
      BY <3>1, <3>2
  <2>2. /\ r.packet = Extended(p, f, profile, read.extensions)
        /\ s.packet = Extended(q, f, profile, read.extensions)
    BY ONLY <1>1, <1>2, <1>5, <1>b, <1>c, <1>d, <2>1 DEF HeaderRead
  <2>3. /\ r.packet.extension_profile = profile /\ r.packet.extensions = read.extensions
        /\ s.packet.extension_profile = profile /\ s.packet.extensions = read.extensions
    <3>1. n \in Nat /\ n >= 12
      <4>1. f % 16 \in Nat
        BY <1>3
      <4> QED
        BY ONLY <1>b, <4>1 DEF FixedSize, kCsrcOffset, kCsrcLength
    <3>2. n + 2 \in Nat /\ n + 2 <= Len(buf) /\ (n + 2) + 2 <= Len(buf) /\ n + 4 \in Nat
      <4>1. n + 2 <= l /\ (n + 2) + 2 <= l
        BY ONLY <1>3, <2>1, <3>1
      <4>2. n + 2 \in Nat /\ n + 4 \in Nat
        BY ONLY <3>1
      <4> QED
        BY ONLY <1>b, <4>1, <4>2
    <3>3. profile \in Nat /\ Unsigned16(buf, n + 2) \in Nat
      BY <1>c, <3>1, <3>2, Unsigned16Is
    <3>4. end \in Nat /\ n + 4 <= end /\ end <= Len(buf)
      <4>1. end \in Nat /\ n + 4 <= end
        <5>a. PICK k \in Nat : k = Unsigned16(buf, n + 2)
          BY <3>3
        <5>1. end = n + 4 + 4 * k
          BY ONLY <1>c, <5>a
        <5> QED
          BY ONLY <3>1, <5>1, k \in Nat
      <4>2. end <= l
        BY ONLY <1>3, <2>1, <4>1
      <4> QED
        BY ONLY <1>b, <4>1, <4>2
    <3>5. ReadSoFar(profile, buf, read)
      BY <1>d, <3>2, <3>4, ExtensionsRead
    <3>a. PICK exts \in Seq(ExtensionType) : exts = read.extensions
      BY <3>5 DEF ReadSoFar, ReadType
    <3>6. /\ ExtendedIs(Extended(p, f, profile, exts), f, profile, exts)
          /\ ExtendedIs(Extended(q, f, profile, exts), f, profile, exts)
      BY ONLY p \in PacketType, q \in PacketType, <1>3, <3>3, exts \in Seq(ExtensionType),
              PacketFields
    <3> QED
      BY ONLY <2>2, <3>6, <3>a DEF ExtendedIs
  <2>4. Suits(r.packet)
    BY <1>a
  <2> QED
    BY ONLY <2>3, <2>4 DEF Suits
<1> QED
  BY <1>4, <1>5

\* Whether a header is read does not depend on what was there before.
LEMMA OkAlike ==
    ASSUME NEW p \in PacketType, NEW q \in PacketType, NEW buf \in Seq(Nat),
           ReadHeader(p, buf).ok
    PROVE  ReadHeader(q, buf).ok
<1>a. PICK r, s : r = ReadHeader(p, buf) /\ s = ReadHeader(q, buf)
  OBVIOUS
<1>b. PICK f, l, n : f = buf[1] /\ l = Len(buf) /\ n = FixedSize(f % 16)
  OBVIOUS
<1>c. PICK profile, end : /\ profile = Unsigned16(buf, n)
                          /\ end = n + 4 + 4 * Unsigned16(buf, n + 2)
  OBVIOUS
<1>d. PICK read : read = ReadExtensions(profile, buf, n + 4, end)
  OBVIOUS
<1>1. HeaderRead(p, buf, r) /\ HeaderRead(q, buf, s)
  BY <1>a, HeaderIsRead
<1>2. CASE l < 4 \/ l < n
  <2>1. l < 4 => r.ok = FALSE
    BY ONLY <1>1, <1>b DEF HeaderRead
  <2>2. ~(l < 4) /\ l < n => r.ok = FALSE
    BY ONLY <1>1, <1>b DEF HeaderRead
  <2> QED
    BY <2>1, <2>2, <1>2, <1>a
<1>3. CASE ~(l < 4) /\ ~(l < n) /\ ~Bit(f, 16)
  <2>1. s.ok = TRUE
    BY ONLY <1>1, <1>3, <1>b DEF HeaderRead
  <2> QED
    BY <2>1, <1>a
<1>4. CASE ~(l < 4) /\ ~(l < n) /\ Bit(f, 16) /\ (l < n + 4 \/ l < end)
  <2>1. l < n + 4 => r.ok = FALSE
    BY ONLY <1>1, <1>4, <1>b DEF HeaderRead
  <2>2. ~(l < n + 4) /\ l < end => r.ok = FALSE
    BY ONLY <1>1, <1>4, <1>b, <1>c DEF HeaderRead
  <2> QED
    BY <2>1, <2>2, <1>4, <1>a
<1>5. CASE ~(l < 4) /\ ~(l < n) /\ Bit(f, 16) /\ ~(l < n + 4) /\ ~(l < end)
  <2>1. r.ok = read.ok
    BY ONLY <1>1, <1>5, <1>b, <1>c, <1>d DEF HeaderRead
  <2>2. s.ok = read.ok
    BY ONLY <1>1, <1>5, <1>b, <1>c, <1>d DEF HeaderRead
  <2> QED
    BY <2>1, <2>2, <1>a
<1> QED
  BY <1>2, <1>3, <1>4, <1>5

\* What was written without a fault.
LEMMA WrittenSuits ==
    ASSUME NEW p \in PacketType, Distinct(p), Suits(p), HeaderFits(p),
           NEW buf \in Seq(Nat), BeginsWith(buf, p)
    PROVE  ReadSuits(buf)
<1>a. PICK c : c = ReadHeader(NewPacket, buf).packet
  OBVIOUS
<1>1. HeaderReadAs(p, ReadHeader(NewPacket, buf))
  BY NewPacketIs, HeaderReadBack
<1>2. /\ p.extension => c.extension_profile = p.extension_profile /\ c.extensions = ReadBack(p)
      /\ ~p.extension => c.extensions = <<>>
  BY ONLY <1>1, <1>a DEF HeaderReadAs
<1>3. CASE p.extension /\ ReadBack(p) = p.extensions
  BY ONLY <1>2, <1>3, <1>a, Suits(p) DEF Suits, ReadSuits
<1>4. CASE p.extension /\ ReadBack(p) # p.extensions
  <2>1. c.extensions = <<Extension(0, <<>>)>>
    BY ONLY <1>2, <1>4 DEF ReadBack
  <2>2. Len(c.extensions) \in {0, 1}
    BY <2>1
  <2> QED
    BY <1>a, <2>2, ShortSuits DEF ReadSuits
<1>5. CASE ~p.extension
  <2>1. Len(c.extensions) \in {0, 1}
    BY <1>2, <1>5
  <2> QED
    BY <1>a, <2>1, ShortSuits DEF ReadSuits
<1> QED
  BY <1>3, <1>4, <1>5

\* Nothing was written over the zeros of a new vector.
LEMMA ZerosSuit ==
    ASSUME NEW n \in Nat
    PROVE  ReadSuits(Zeros(n))
<1>a. PICK buf : buf = Zeros(n)
  OBVIOUS
<1>b. PICK r : r = ReadHeader(NewPacket, buf)
  OBVIOUS
<1>1. buf \in Seq(Nat) /\ Len(buf) = n /\ \A i \in 1..n : buf[i] = 0
  BY <1>a, ZerosIs
<1>2. HeaderRead(NewPacket, buf, r)
  BY <1>b, NewPacketIs, HeaderIsRead
<1> SUFFICES ASSUME r.ok PROVE Suits(r.packet)
  BY <1>a, <1>b DEF ReadSuits
<1>3. ~(n < 4)
  <2>1. n < 4 => r.ok = FALSE
    BY ONLY <1>1, <1>2 DEF HeaderRead
  <2> QED
    BY <2>1
<1>4. buf[1] = 0
  BY <1>1, <1>3
<1>5. ~Bit(0, 16) /\ 0 % 16 = 0
  <2>1. (0 \div 16) % 2 = 0 /\ 0 % 16 = 0
    OBVIOUS
  <2>2. (0 \div 16) % 2 # 1
    BY <2>1
  <2> QED
    BY <2>1, <2>2 DEF Bit
<1>c. PICK f, m : f = 0 /\ m = FixedSize(0)
  OBVIOUS
<1>9. buf[1] = f /\ ~Bit(f, 16) /\ FixedSize(f % 16) = m
  BY <1>4, <1>5, <1>c
<1>6. r.packet = Cleared(NewPacket, 0)
  <2>1. ~(n < m)
    <3>1. n < m => r.ok = FALSE
      BY ONLY <1>1, <1>2, <1>3, <1>9 DEF HeaderRead
    <3> QED
      BY <3>1
  <2>2. r.packet = Cleared(NewPacket, f)
    BY ONLY <1>1, <1>2, <1>3, <1>9, <2>1 DEF HeaderRead
  <2> QED
    BY <1>c, <2>2
<1>7. Cleared(NewPacket, 0).extensions = <<>>
  BY NewPacketIs, <<>> \in Seq(ExtensionType), 0 \in Nat, PacketFields
<1>8. Len(r.packet.extensions) \in {0, 1}
  <2>1. Len(<<>>) = 0
    OBVIOUS
  <2> QED
    BY <1>6, <1>7, <2>1
<1> QED
  BY <1>8, ShortSuits
\* A length of zero leaves at most one extension, an empty one.
LEMMA NoWordsSuit ==
    ASSUME NEW buf \in Seq(Nat), NEW f \in Nat, NEW n \in Nat, n >= 4, Len(buf) >= n + 4,
           buf[1] = f, FixedSize(f % 16) = n, Bit(f, 16),
           buf[n + 3] = 0, buf[n + 4] = 0
    PROVE  ReadSuits(buf)
<1>b. PICK r : r = ReadHeader(NewPacket, buf)
  OBVIOUS
<1>c. PICK l \in Nat : l = Len(buf)
  BY LenProperties
<1>1. HeaderRead(NewPacket, buf, r)
  BY <1>b, NewPacketIs, HeaderIsRead
<1>2. Unsigned16(buf, n + 2) = 0
  <2>1. (n + 2) + 1 = n + 3 /\ (n + 2) + 2 = n + 4 /\ 256 * 0 + 0 = 0
    OBVIOUS
  <2> QED
    BY ONLY <2>1, buf[n + 3] = 0, buf[n + 4] = 0 DEF Unsigned16
<1>d. PICK profile, end : profile = Unsigned16(buf, n) /\ end = n + 4
  OBVIOUS
<1>e. PICK read : read = ReadExtensions(profile, buf, n + 4, end)
  OBVIOUS
<1>3. ~(l < 4) /\ ~(l < n) /\ ~(l < n + 4) /\ ~(l < end)
  <2>1. l >= n + 4
    BY <1>c
  <2> QED
    BY ONLY <1>d, <2>1, n \in Nat, l \in Nat, n >= 4
<1>4. r.packet = Extended(NewPacket, f, profile, read.extensions)
  <2>1. n + 4 + 4 * Unsigned16(buf, n + 2) = end
    BY <1>2, <1>d
  <2> QED
    BY ONLY <1>1, <1>3, <1>c, <1>d, <1>e, <2>1, buf[1] = f, FixedSize(f % 16) = n, Bit(f, 16)
       DEF HeaderRead
<1>5. profile \in Nat
  <2>1. n + 2 <= Len(buf)
    BY <1>c, <1>3
  <2> QED
    BY <1>d, <2>1, Unsigned16Is
<1>6. n + 4 \in Nat /\ end \in Nat /\ n + 4 <= end /\ end <= Len(buf) /\ end - (n + 4) = 0
  BY <1>3, <1>c, <1>d
<1>7. Len(read.extensions) \in {0, 1}
  <2>1. CASE IsElements(profile)
    <3>1. PICK turns : /\ Turns(profile, buf, n + 4, end, turns)
                       /\ Elements(profile, buf, n + 4, end) = turns[end - (n + 4)]
      <4>a. PICK m \in Nat : m = n + 4
        BY <1>6
      <4>1. m <= end /\ end \in Nat /\ end <= Len(buf)
        BY <1>6, <4>a
      <4>2. \E turns : /\ Turns(profile, buf, m, end, turns)
                       /\ Elements(profile, buf, m, end) = turns[end - m]
        BY ONLY <2>1, <4>1, buf \in Seq(Nat), m \in Nat, ElementsRead
      <4> QED
        BY ONLY <4>2, <4>a
    <3>2. turns[0] = Read(<<>>, n + 4, TRUE, TRUE)
      BY <3>1 DEF Turns
    <3>3. read = turns[0]
      BY <1>6, <1>e, <2>1, <3>1 DEF ReadExtensions
    <3>4. read.extensions = <<>>
      BY ONLY <3>2, <3>3 DEF Read
    <3> QED
      BY <3>4
  <2>2. CASE ~IsElements(profile)
    <3>a. PICK list : list = <<Extension(0, SubSeq(buf, (n + 4) + 1, end))>>
      OBVIOUS
    <3>1. read = Read(list, end, FALSE, TRUE)
      BY <1>e, <2>2, <3>a, Zenon DEF ReadExtensions
    <3>2. read.extensions = list
      BY ONLY <3>1 DEF Read
    <3> QED
      BY <3>2, <3>a
  <2> QED
    BY <2>1, <2>2
<1>8. r.packet.extensions = read.extensions
  <2>1. ReadSoFar(profile, buf, read)
    BY <1>6, <1>e, ExtensionsRead
  <2>a. PICK exts \in Seq(ExtensionType) : exts = read.extensions
    BY <2>1 DEF ReadSoFar, ReadType
  <2>2. ExtendedIs(Extended(NewPacket, f, profile, exts), f, profile, exts)
    BY NewPacketIs, <1>5, PacketFields
  <2> QED
    BY ONLY <1>4, <2>2, <2>a DEF ExtendedIs
<1>9. Suits(r.packet)
  BY <1>7, <1>8, ShortSuits
<1> QED
  BY <1>9, <1>b DEF ReadSuits

\* The header of a packet that cannot be written, in a new vector.
LEMMA BrokenSuits ==
    ASSUME NEW p \in PacketType, Suits(p), ~Uncounted(p), ~HeaderFits(p)
    PROVE  ReadSuits(Packetize(p))
<1>a. PICK n \in Nat : n = FixedSize(p.csrc) /\ n >= 12
  <2>1. p.csrc \in Nat /\ FixedSize(p.csrc) = 12 + 4 * p.csrc /\ FixedSize(p.csrc) \in Nat
    BY SizeIs
  <2>2. FixedSize(p.csrc) >= 12
    BY ONLY <2>1
  <2> QED
    BY <2>1, <2>2
<1>b. PICK size \in Nat : size = PacketSize(p)
  BY SizeIs
<1>c. PICK v : v = Zeros(size)
  OBVIOUS
<1>1. v \in Seq(Nat) /\ Len(v) = size /\ \A i \in 1..size : v[i] = 0
  BY <1>c, ZerosIs
<1>2. PICK base, header :
         /\ base = Resize(v, PacketSize(p)) /\ BrokenOff(p, header, base)
         /\ PacketizeTo(p, v).vector = Overwrite(base, 0, header)
         /\ base \in Seq(Nat) /\ Len(base) >= PacketSize(p) /\ Len(base) \in Nat
  BY <1>1, PacketizeIs
<1>3. base = v
  <2>1. Len(v) >= size
    BY ONLY <1>1, size \in Nat
  <2>2. Resize(v, size) = v
    BY <1>1, <2>1, ResizeIs
  <2> QED
    BY <1>2, <1>b, <2>2
<1>d. PICK w : w = Overwrite(base, 0, header)
  OBVIOUS
<1>4. Packetize(p) = w
  BY <1>2, <1>b, <1>c, <1>d DEF Packetize
<1>5. Unfit(p) = 1 /\ p.extension
  <2>1. p.extension /\ Unfit(p) # 0
    BY DEF HeaderFits
  <2>2. /\ Unfit(p) \in 0..Len(Carried(p)) /\ Len(Carried(p)) \in Nat
        /\ ~Fits(p.extension_profile, Carried(p)[Unfit(p)])
    BY <2>1, UnfitIs
  <2>3. /\ Len(Carried(p)) <= Len(p.extensions)
        /\ \A i \in 1..Len(Carried(p)) : Carried(p)[i] = p.extensions[i]
    BY CarriedIs
  <2>4. Len(p.extensions) \in Nat
    BY LenProperties DEF PacketType
  <2>5. ASSUME Unfit(p) # 1 PROVE FALSE
    <3>1. Unfit(p) \in 1..Len(Carried(p)) /\ Unfit(p) \in 2..Len(p.extensions)
      BY ONLY <2>1, <2>2, <2>3, <2>4, <2>5
    <3>2. Fits(p.extension_profile, p.extensions[Unfit(p)])
      BY <3>1 DEF Suits
    <3> QED
      BY <2>2, <2>3, <3>1, <3>2
  <2> QED
    BY <2>1, <2>5
<1>6. /\ header \in Seq(Nat) /\ Len(header) = n + 4 /\ header[1] = FlagsOf(p)
      /\ header[n + 3] = base[n + 3] /\ header[n + 4] = base[n + 4]
  <2>1. /\ header \in Seq(Nat) /\ header[1] = FlagsOf(p)
        /\ header[FixedSize(p.csrc) + 3] = base[FixedSize(p.csrc) + 3]
        /\ header[FixedSize(p.csrc) + 4] = base[FixedSize(p.csrc) + 4]
        /\ Len(header) = FixedSize(p.csrc) + 4
    <3>1. BrokenOff(p, header, base)
      BY <1>2
    <3> QED
      BY ONLY <1>5, <3>1, Zenon DEF BrokenOff
  <2> QED
    BY ONLY <1>a, <2>1
<1>7. size >= n + 4
  <2>a. PICK e : e = ElementsBytes(p.extension_profile, Carried(p))
    OBVIOUS
  <2>1. e \in Seq(Nat) /\ Len(e) \in Nat
    BY <2>a, CarriedIs, ElementsAre, LenProperties
  <2>2. RoundUp(Len(e)) \in Nat
    BY <2>1, RoundUpIs
  <2>3. HeaderSize(p) = n + 4 + RoundUp(Len(e))
    BY <1>5, <1>a, <2>a, SizeIs
  <2>b. PICK a \in Nat, b \in Nat, c \in Nat :
           a = RoundUp(Len(e)) /\ b = Len(p.payload) /\ c = p.padding_size
    BY <2>2, SizeIs
  <2>4. size = HeaderSize(p) + b + c
    BY <1>b, <2>b, SizeIs
  <2>5. size = (n + 4 + a) + b + c
    BY <2>3, <2>4, <2>b
  <2> QED
    BY ONLY <2>5, n \in Nat, a \in Nat, b \in Nat, c \in Nat
<1>8. Overwritten(base, 0, header, w)
  BY <1>2, <1>6, <1>d, OverwriteIs
<1>9. /\ w \in Seq(Nat) /\ Len(w) = size
      /\ \A i \in 1..size : w[i] = IF i - 0 \in 1..(n + 4) THEN header[i - 0] ELSE base[i]
  BY ONLY <1>1, <1>3, <1>6, <1>8 DEF Overwritten
<1>10. w[1] = FlagsOf(p) /\ w[n + 3] = 0 /\ w[n + 4] = 0
  <2>1. /\ 1 \in 1..size /\ 1 - 0 = 1 /\ 1 \in 1..(n + 4)
        /\ n + 3 \in 1..size /\ (n + 3) - 0 = n + 3 /\ n + 3 \in 1..(n + 4)
        /\ n + 4 \in 1..size /\ (n + 4) - 0 = n + 4 /\ n + 4 \in 1..(n + 4)
    BY ONLY <1>7, n \in Nat, size \in Nat
  <2>2. w[1] = header[1] /\ w[n + 3] = header[n + 3] /\ w[n + 4] = header[n + 4]
    BY ONLY <1>9, <2>1
  <2>3. base[n + 3] = 0 /\ base[n + 4] = 0
    BY ONLY <1>1, <1>3, <2>1
  <2> QED
    BY <1>6, <2>2, <2>3
<1>e. PICK f \in Nat : f = FlagsOf(p)
  BY FlagsAre
<1>11. FixedSize(f % 16) = n /\ Bit(f, 16)
  BY <1>5, <1>a, <1>e, FlagsAre DEF Bit
<1>12. ReadSuits(w)
  <2>1. /\ w \in Seq(Nat) /\ f \in Nat /\ n \in Nat /\ n >= 4 /\ Len(w) >= n + 4
        /\ w[1] = f /\ FixedSize(f % 16) = n /\ Bit(f, 16)
        /\ w[n + 3] = 0 /\ w[n + 4] = 0
    BY <1>7, <1>9, <1>10, <1>11, <1>a, <1>e
  <2> QED
    BY ONLY <2>1, NoWordsSuit
<1> QED
  BY <1>4, <1>12

LEMMA SendSuits ==
    ASSUME NEW p \in PacketType, Distinct(p), Suits(p)
    PROVE  ReadSuits(Packetize(p))
<1>1. CASE HeaderFits(p) /\ ~Uncounted(p)
  <2>1. CanWrite(p)
    BY <1>1, SizeIs DEF CanWrite, Uncounted
  <2>2. Holds(Packetize(p), p) /\ Packetize(p) \in Seq(Nat)
    BY <2>1, SendNewIs
  <2> QED
    BY <1>1, <2>2, WrittenSuits DEF Holds
<1>2. CASE Uncounted(p)
  <2>1. PacketSize(p) \in Nat
    BY SizeIs
  <2>2. Zeros(PacketSize(p)) \in Seq(Nat)
    BY <2>1, ZerosIs
  <2>3. Packetize(p) = Zeros(PacketSize(p))
    BY <1>2, <2>2, PacketizeIs DEF Packetize
  <2> QED
    BY <2>1, <2>3, ZerosSuit
<1>3. CASE ~HeaderFits(p) /\ ~Uncounted(p)
  BY <1>3, BrokenSuits
<1> QED
  BY <1>1, <1>2, <1>3
LEMMA SuitsNext ==
    ASSUME StructInv, StructInv', SuitsInv, ForeignSuits, [Next]_vars
    PROVE  SuitsInv'
<1>t. /\ tx \in PacketType /\ rx \in PacketType
      /\ vector \in Seq(Nat) /\ wire \in Seq(Nat) /\ TypeInv
  BY DEF StructInv, TypeInv
<1>r. Distinct(tx)
  BY DEF StructInv, RoundInv
<1>s. Suits(tx) /\ (outcome = "true" => Suits(rx)) /\ (wire # <<>> => ReadSuits(wire))
  BY DEF SuitsInv
<1>k. ASSUME Call, Suits(tx'), UNCHANGED <<rx, vector, wire, faithful, outcome>>
      PROVE  SuitsInv'
  BY <1>k, <1>s DEF SuitsInv
<1>1. ASSUME NEW id \in Ids, NEW payload \in Payloads, SetExtension(id, payload)
      PROVE  SuitsInv'
  <2>a. PICK q : q = SetTo(tx, id, payload)
    OBVIOUS
  <2>1. tx' = q /\ id \in Nat /\ payload \in Seq(Nat) /\ Short(payload)
    BY <1>1, <1>t, <2>a, SetIs
  <2>2. Kept(tx, q)
    BY <1>t, <1>r, <2>1, <2>a, SetKeeps
  <2>3. Suits(tx')
    BY <1>s, <2>1, <2>2 DEF Kept
  <2> QED
    BY <1>1, <1>k, <2>3 DEF SetExtension
<1>2. ASSUME NEW id \in Ids, DeleteExtension(id) PROVE SuitsInv'
  <2>a. PICK q : q = DeletedFrom(tx, id)
    OBVIOUS
  <2>1. tx' = q
    BY <1>2, <1>t, <2>a, DeleteIs
  <2>2. Kept(tx, q)
    BY <1>t, <1>r, <2>a, DeleteKeeps
  <2>3. Suits(tx')
    BY <1>s, <2>1, <2>2 DEF Kept
  <2> QED
    BY <1>2, <1>k, <2>3 DEF DeleteExtension
<1>3. ASSUME NEW fields \in Fields, Assign(fields) PROVE SuitsInv'
  <2>a. PICK q : q = Assigned(tx, fields)
    OBVIOUS
  <2>1. tx' = q
    BY <1>3, <2>a DEF Assign, Assigned
  <2>2. /\ q.extension = tx.extension /\ q.extensions = tx.extensions
        /\ q.extension_profile = tx.extension_profile
    BY <1>3, <1>t, <2>a, AssignKeeps
  <2>3. Suits(q)
    BY <1>s, <2>2, AlikeSuit
  <2> QED
    BY <1>3, <1>k, <2>1, <2>3 DEF Assign
<1>4. ASSUME SendNew PROVE SuitsInv'
  <2>a. PICK w : w = Packetize(tx)
    OBVIOUS
  <2>1. wire' = w /\ tx' = tx /\ rx' = rx /\ outcome' = outcome
    BY <1>4, <2>a DEF SendNew
  <2>2. ReadSuits(w)
    BY <1>t, <1>r, <1>s, <2>a, SendSuits
  <2> QED
    BY <1>s, <2>1, <2>2 DEF SuitsInv
<1>5. ASSUME SendReused PROVE SuitsInv'
  <2>a. PICK w, done : /\ w = PacketizeTo(tx, vector).vector
                       /\ done = PacketizeTo(tx, vector).done
    OBVIOUS
  <2>1. /\ done => wire' = w
        /\ ~done => wire' = wire
        /\ tx' = tx /\ rx' = rx /\ outcome' = outcome
    BY <1>5, <2>a DEF SendReused
  <2>2. /\ w \in Seq(Nat) /\ done \in BOOLEAN /\ (done <=> CanWrite(tx))
        /\ CanWrite(tx) => BeginsWith(w, tx)
    BY <1>t, <2>a, PacketizeIs
  <2>3. done => ReadSuits(w)
    <3> SUFFICES ASSUME done PROVE ReadSuits(w)
      OBVIOUS
    <3>1. HeaderFits(tx) /\ BeginsWith(w, tx)
      BY <2>2 DEF CanWrite
    <3> QED
      BY <1>t, <1>r, <1>s, <2>2, <3>1, WrittenSuits
  <2> QED
    BY <1>s, <2>1, <2>2, <2>3 DEF SuitsInv
<1>6. ASSUME NEW buf \in Foreign, SendForeign(buf) PROVE SuitsInv'
  <2>1. wire' = buf /\ tx' = tx /\ rx' = rx /\ outcome' = outcome
    BY <1>6 DEF SendForeign
  <2>2. ReadSuits(buf)
    BY <1>6 DEF ForeignSuits
  <2> QED
    BY <1>s, <2>1, <2>2 DEF SuitsInv
<1>7. ASSUME Receive PROVE SuitsInv'
  <2>a. PICK q, said : q = Depacketize(rx, wire).packet /\ said = Depacketize(rx, wire).outcome
    OBVIOUS
  <2>b. PICK header, fresh : header = ReadHeader(rx, wire) /\ fresh = ReadHeader(NewPacket, wire)
    OBVIOUS
  <2>1. /\ wire # <<>> /\ rx' = q /\ outcome' = said /\ wire' = <<>> /\ tx' = tx
    BY <1>7, <2>a DEF Receive
  <2>2. said = "true" =>
              /\ header.ok /\ q.extension = header.packet.extension
              /\ q.extensions = header.packet.extensions
              /\ q.extension_profile = header.packet.extension_profile
    BY <1>t, <2>1, <2>a, <2>b, DepacketizeIs
  <2>3. said = "true" => Suits(q)
    <3> SUFFICES ASSUME said = "true" PROVE Suits(q)
      OBVIOUS
    <3>1. fresh.ok => Suits(fresh.packet)
      BY <1>s, <2>1, <2>b DEF ReadSuits
    <3>2. header.ok => fresh.ok
      BY <1>t, <2>b, NewPacketIs, OkAlike
    <3>3. Suits(header.packet)
      BY <1>t, <2>2, <2>b, <3>1, <3>2, NewPacketIs, ReadsAlike
    <3> QED
      BY <2>2, <3>3, AlikeSuit
  <2> QED
    BY <1>s, <2>1, <2>3 DEF SuitsInv
<1>8. ASSUME Clone PROVE SuitsInv'
  <2>1. Call /\ outcome = "true" /\ tx' = rx /\ UNCHANGED <<rx, vector, wire, faithful, outcome>>
    BY <1>8 DEF Clone
  <2> QED
    BY <1>k, <1>s, <2>1
<1>9. CASE UNCHANGED vars
  BY <1>9 DEF vars, SuitsInv
<1> QED
  BY <1>1, <1>2, <1>3, <1>4, <1>5, <1>6, <1>7, <1>8, <1>9 DEF Next

(***************************************************************************)
(* The inductive invariant of RtpSession holds in every reachable state:   *)
(* the structure above and, where no other implementation holds an         *)
(* identifier twice or one that cannot be written, neither does any packet *)
(* built, under way, read or cloned here, those PacketizeTo gave up on     *)
(* included (rtp_packet.cc:431, where its answer is not looked at).        *)
(***************************************************************************)
THEOREM Invariant == Spec => []IndInv
<1>1. Init => IndInv
  <2> SUFFICES ASSUME Init PROVE IndInv
    OBVIOUS
  <2>1. TypeInv /\ RoundInv
    BY StructInit DEF StructInv
  <2>2. SuitsInv
    BY NewPacketIs DEF Init, SuitsInv
  <2> QED
    BY <2>1, <2>2 DEF IndInv
<1>2. IndInv /\ [Next]_vars => IndInv'
  <2> SUFFICES ASSUME IndInv, [Next]_vars PROVE IndInv'
    OBVIOUS
  <2>1. StructInv
    BY DEF IndInv, StructInv
  <2>2. StructInv'
    BY <2>1, StructNext
  <2>3. ForeignSuits => SuitsInv'
    <3> SUFFICES ASSUME ForeignSuits PROVE SuitsInv'
      OBVIOUS
    <3>1. SuitsInv
      BY DEF IndInv
    <3> QED
      BY <2>1, <2>2, <3>1, SuitsNext
  <2>4. ForeignSuits' <=> ForeignSuits
    BY DEF ForeignSuits, ReadSuits
  <2> QED
    BY <2>2, <2>3, <2>4 DEF StructInv, IndInv
<1> QED
  BY <1>1, <1>2, PTL DEF Spec

(***************************************************************************)
(* Whatever SetExtension let in, was cloned or was kept from a packet of   *)
(* before, at most the first extension of a packet keeps it from being     *)
(* written (rtp_packet.cc:333), and no identifier is held twice, as long   *)
(* as no other implementation sends a packet of which that is not so.      *)
(***************************************************************************)
THEOREM Accepted == ForeignSuits => (Spec => []AcceptedFits)
<1> SUFFICES ASSUME ForeignSuits PROVE Spec => []AcceptedFits
  OBVIOUS
<1>1. IndInv => AcceptedFits
  <2> SUFFICES ASSUME IndInv PROVE AcceptedFits
    OBVIOUS
  <2>1. Suits(tx)
    BY DEF IndInv, SuitsInv
  <2>a. PICK f : f = [i \in 1..Len(tx.extensions) |-> tx.extensions[i].id]
    OBVIOUS
  <2>2. /\ \A i \in 2..Len(tx.extensions) : Fits(tx.extension_profile, tx.extensions[i])
        /\ \A i, j \in 1..Len(tx.extensions) :
              tx.extensions[i].id = tx.extensions[j].id => i = j
    BY ONLY <2>1 DEF Suits
  <2>3. /\ DOMAIN f = 1..Len(tx.extensions)
        /\ \A i \in 1..Len(tx.extensions) : f[i] = tx.extensions[i].id
    BY <2>a
  <2>4. \A i, j \in DOMAIN f : f[i] = f[j] => i = j
    BY ONLY <2>2, <2>3
  <2>5. IsInjective(f)
    BY <2>4 DEF IsInjective
  <2> QED
    BY ONLY <2>2, <2>5, <2>a DEF AcceptedFits
<1> QED
  BY <1>1, Invariant, PTL
-----------------------------------------------------------------------------
(* The two packets implement ExtensionMap.                                 *)

\* The map h holds the payloads of the list, but for the empty ones.
Shows(h, exts) ==
    /\ h = [x \in DOMAIN h |-> h[x]]
    /\ \A x : x \in DOMAIN h <=>
          \E i \in 1..Len(exts) : exts[i].id = x /\ exts[i].payload # <<>>
    /\ \A i \in 1..Len(exts) : exts[i].payload # <<>> => h[exts[i].id] = exts[i].payload

\* No identifier is held twice.
Apart(exts) == \A i, j \in 1..Len(exts) : exts[i].id = exts[j].id => i = j

LEMMA ShownAlike ==
    ASSUME NEW h, NEW g, NEW exts, Shows(h, exts), Shows(g, exts)
    PROVE  h = g
<1>1. DOMAIN h = DOMAIN g
  <2>1. \A x : x \in DOMAIN h <=> x \in DOMAIN g
    BY DEF Shows
  <2> QED
    BY ONLY <2>1
<1>2. ASSUME NEW x \in DOMAIN h PROVE h[x] = g[x]
  <2>1. PICK i \in 1..Len(exts) : exts[i].id = x /\ exts[i].payload # <<>>
    BY DEF Shows
  <2>2. h[exts[i].id] = exts[i].payload /\ g[exts[i].id] = exts[i].payload
    BY <2>1 DEF Shows
  <2> QED
    BY <2>1, <2>2
<1>3. h = [x \in DOMAIN h |-> h[x]] /\ g = [x \in DOMAIN g |-> g[x]]
  BY DEF Shows
<1> QED
  BY ONLY <1>1, <1>2, <1>3

\* None shows for a list that has no payloads.
LEMMA NoneShown ==
    ASSUME NEW exts, \A i \in 1..Len(exts) : exts[i].payload = <<>>
    PROVE  Shows(<<>>, exts)
<1>1. <<>> = [x \in DOMAIN <<>> |-> <<>>[x]] /\ \A x : x \notin DOMAIN <<>>
  OBVIOUS
<1> QED
  BY <1>1 DEF Shows

LEMMA HeldShows ==
    ASSUME NEW p \in PacketType, Distinct(p), Apart(p.extensions)
    PROVE  Shows(HeldBy(p), p.extensions)
<1>a. PICK s : s = p.extensions
  OBVIOUS
<1>b. PICK ids : ids = {s[i].id : i \in 1..Len(s)}
  OBVIOUS
<1>c. PICK held : held = {id \in ids : p.extension /\ GetExtension(p, id) # <<>>}
  OBVIOUS
<1>d. PICK h : h = [id \in held |-> GetExtension(p, id)]
  OBVIOUS
<1>1. h = HeldBy(p)
  BY ONLY <1>a, <1>b, <1>c, <1>d DEF HeldBy
<1>2. ASSUME NEW i \in 1..Len(s) PROVE GetExtension(p, s[i].id) = s[i].payload
  <2>a. PICK k : k = PositionOf(p, s[i].id)
    OBVIOUS
  <2>1. /\ k \in 0..Len(s) /\ Len(s) \in Nat
        /\ k = 0 => \A j \in 1..Len(s) : s[j].id # s[i].id
        /\ k # 0 => s[k].id = s[i].id
    BY <1>a, <2>a, PositionIs
  <2>2. k \in 1..Len(s) /\ s[k].id = s[i].id
    BY ONLY <2>1, i \in 1..Len(s)
  <2>3. k = i
    BY <1>a, <2>2 DEF Apart
  <2> QED
    BY <1>a, <2>a, <2>3 DEF GetExtension
<1>3. p.extension \/ \A i \in 1..Len(s) : FALSE
  <2>1. ~p.extension => s = <<>>
    BY <1>a DEF Distinct
  <2>2. \A i \in 1..Len(<<>>) : FALSE
    OBVIOUS
  <2> QED
    BY <2>1, <2>2
<1>4. \A x : x \in DOMAIN h <=> \E i \in 1..Len(s) : s[i].id = x /\ s[i].payload # <<>>
  <2> TAKE x
  <2>1. x \in DOMAIN h <=> x \in held
    BY ONLY <1>d
  <2>2. x \in held => \E i \in 1..Len(s) : s[i].id = x /\ s[i].payload # <<>>
    BY <1>b, <1>c, <1>2
  <2>3. (\E i \in 1..Len(s) : s[i].id = x /\ s[i].payload # <<>>) => x \in held
    BY <1>b, <1>c, <1>2, <1>3
  <2> QED
    BY ONLY <2>1, <2>2, <2>3
<1>5. ASSUME NEW i \in 1..Len(s), s[i].payload # <<>> PROVE h[s[i].id] = s[i].payload
  <2>1. s[i].id \in DOMAIN h
    BY <1>4, <1>5
  <2>2. h[s[i].id] = GetExtension(p, s[i].id)
    BY ONLY <2>1, <1>d
  <2> QED
    BY <1>2, <2>2
<1>6. h = [x \in DOMAIN h |-> h[x]]
  BY ONLY <1>d
<1>7. Shows(h, s)
  BY ONLY <1>4, <1>5, <1>6 DEF Shows
<1> QED
  BY ONLY <1>1, <1>7, <1>a

\* The map with one more payload, or another one, and without one.
With(h, id, payload) ==
    [x \in DOMAIN h \cup {id} |-> IF x = id THEN payload ELSE h[x]]
Without(h, id) == [x \in DOMAIN h \ {id} |-> h[x]]

LEMMA SetShows ==
    ASSUME NEW s, NEW t, NEW k, NEW ext, Placed(s, k, ext, t), Apart(s),
           Len(t) = Len(s) + 1 => \A i \in 1..Len(s) : s[i].id # ext.id,
           Len(t) = Len(s) => s[k].id = ext.id,
           ext.payload # <<>>, NEW h, Shows(h, s)
    PROVE  Shows(With(h, ext.id, ext.payload), t)
<1>a. PICK g : g = With(h, ext.id, ext.payload)
  OBVIOUS
<1>1. /\ Len(s) \in Nat /\ Len(t) \in Nat /\ k \in 1..Len(t)
      /\ Len(t) = Len(s) \/ (Len(t) = Len(s) + 1 /\ k = Len(t))
      /\ \A i \in 1..Len(t) : t[i] = IF i = k THEN ext ELSE s[i]
  BY DEF Placed
<1>2. \A i \in 1..Len(t) : i # k => i \in 1..Len(s) /\ t[i] = s[i] /\ s[i].id # ext.id
  <2> SUFFICES ASSUME NEW i \in 1..Len(t), i # k
               PROVE  i \in 1..Len(s) /\ t[i] = s[i] /\ s[i].id # ext.id
    OBVIOUS
  <2>1. t[i] = s[i]
    BY <1>1
  <2>2. CASE Len(t) = Len(s)
    <3>1. i \in 1..Len(s) /\ k \in 1..Len(s) /\ s[k].id = ext.id
      BY <1>1, <2>2
    <3> QED
      BY <2>1, <3>1 DEF Apart
  <2>3. CASE Len(t) = Len(s) + 1 /\ k = Len(t)
    <3>1. i \in 1..Len(s)
      BY ONLY <1>1, <2>3, i \in 1..Len(t), i # k
    <3> QED
      BY <2>1, <2>3, <3>1
  <2> QED
    BY <1>1, <2>2, <2>3
<1>3. \A i \in 1..Len(s) : i \in 1..Len(t) /\ (s[i].id # ext.id => i # k)
  <2> SUFFICES ASSUME NEW i \in 1..Len(s) PROVE i \in 1..Len(t) /\ (s[i].id # ext.id => i # k)
    OBVIOUS
  <2>1. i \in 1..Len(t)
    BY ONLY <1>1, i \in 1..Len(s)
  <2>2. CASE Len(t) = Len(s)
    BY <2>1, <2>2
  <2>3. CASE Len(t) = Len(s) + 1 /\ k = Len(t)
    BY ONLY <1>1, <2>1, <2>3, i \in 1..Len(s)
  <2> QED
    BY <1>1, <2>2, <2>3
<1>4. /\ DOMAIN g = DOMAIN h \cup {ext.id} /\ g[ext.id] = ext.payload
      /\ \A x \in DOMAIN h : x # ext.id => g[x] = h[x]
      /\ g = [x \in DOMAIN g |-> g[x]]
  BY ONLY <1>a DEF With
<1>b. /\ \A x : x \in DOMAIN h <=> \E i \in 1..Len(s) : s[i].id = x /\ s[i].payload # <<>>
      /\ \A i \in 1..Len(s) : s[i].payload # <<>> => h[s[i].id] = s[i].payload
  BY DEF Shows
<1>c. t[k] = ext
  BY <1>1
<1>5. \A x : x \in DOMAIN g <=> \E i \in 1..Len(t) : t[i].id = x /\ t[i].payload # <<>>
  <2> TAKE x
  <2>1. CASE x = ext.id
    BY <1>1, <1>4, <1>c, <2>1
  <2>2. CASE x # ext.id
    <3>1. x \in DOMAIN g <=> x \in DOMAIN h
      BY ONLY <1>4, <2>2
    <3>2. ASSUME NEW i \in 1..Len(s), s[i].id = x, s[i].payload # <<>>
          PROVE  \E j \in 1..Len(t) : t[j].id = x /\ t[j].payload # <<>>
      <4>1. i \in 1..Len(t) /\ i # k
        BY ONLY <1>3, <2>2, <3>2, i \in 1..Len(s)
      <4>2. t[i] = s[i]
        BY ONLY <1>2, <4>1
      <4> QED
        BY ONLY <3>2, <4>1, <4>2
    <3>3. ASSUME NEW j \in 1..Len(t), t[j].id = x, t[j].payload # <<>>
          PROVE  \E i \in 1..Len(s) : s[i].id = x /\ s[i].payload # <<>>
      <4>1. j # k
        BY ONLY <1>c, <2>2, <3>3
      <4>2. j \in 1..Len(s) /\ t[j] = s[j]
        BY ONLY <1>2, <4>1, j \in 1..Len(t)
      <4> QED
        BY ONLY <3>3, <4>2
    <3> QED
      BY ONLY <1>b, <3>1, <3>2, <3>3
  <2> QED
    BY ONLY <2>1, <2>2
<1>6. ASSUME NEW i \in 1..Len(t), t[i].payload # <<>> PROVE g[t[i].id] = t[i].payload
  <2>1. CASE i = k
    BY ONLY <1>4, <1>c, <2>1
  <2>2. CASE i # k
    <3>1. i \in 1..Len(s) /\ t[i] = s[i] /\ s[i].id # ext.id
      BY ONLY <1>2, <2>2, i \in 1..Len(t)
    <3>2. s[i].id \in DOMAIN h /\ h[s[i].id] = s[i].payload
      BY ONLY <1>b, <1>6, <3>1
    <3> QED
      BY ONLY <1>4, <3>1, <3>2
  <2> QED
    BY ONLY <2>1, <2>2
<1>7. Shows(g, t)
  BY ONLY <1>4, <1>5, <1>6 DEF Shows
<1> QED
  BY ONLY <1>7, <1>a

LEMMA DeleteShows ==
    ASSUME NEW s, NEW t, NEW k, NEW id, Removed(s, k, t), Apart(s), s[k].id = id,
           NEW h, Shows(h, s)
    PROVE  Shows(Without(h, id), t)
<1>a. PICK g : g = Without(h, id)
  OBVIOUS
<1>1. /\ Len(s) \in Nat /\ k \in 1..Len(s) /\ Len(t) = Len(s) - 1
      /\ \A i \in 1..Len(t) : t[i] = IF i < k THEN s[i] ELSE s[i + 1]
  BY DEF Removed
<1>2. ASSUME NEW i \in 1..Len(t) PROVE \E j \in 1..Len(s) : j # k /\ t[i] = s[j]
  <2>1. CASE i < k
    <3>1. i \in 1..Len(s) /\ i # k /\ t[i] = s[i]
      BY ONLY <1>1, <2>1, i \in 1..Len(t)
    <3> QED
      BY ONLY <3>1
  <2>2. CASE ~(i < k)
    <3>1. i + 1 \in 1..Len(s) /\ i + 1 # k /\ t[i] = s[i + 1]
      BY ONLY <1>1, <2>2, i \in 1..Len(t)
    <3> QED
      BY ONLY <3>1
  <2> QED
    BY <2>1, <2>2
<1>3. ASSUME NEW j \in 1..Len(s), j # k PROVE \E i \in 1..Len(t) : t[i] = s[j]
  <2>1. CASE j < k
    <3>1. j \in 1..Len(t) /\ t[j] = s[j]
      BY ONLY <1>1, <2>1, j \in 1..Len(s)
    <3> QED
      BY ONLY <3>1
  <2>2. CASE ~(j < k)
    <3>1. j - 1 \in 1..Len(t) /\ ~(j - 1 < k) /\ (j - 1) + 1 = j
      BY ONLY <1>1, <1>3, <2>2, j \in 1..Len(s)
    <3>2. t[j - 1] = s[j]
      BY ONLY <1>1, <3>1
    <3> QED
      BY ONLY <3>1, <3>2
  <2> QED
    BY <2>1, <2>2
<1>4. /\ DOMAIN g = DOMAIN h \ {id} /\ \A x \in DOMAIN g : g[x] = h[x]
      /\ g = [x \in DOMAIN g |-> g[x]]
  BY ONLY <1>a DEF Without
<1>b. /\ \A x : x \in DOMAIN h <=> \E i \in 1..Len(s) : s[i].id = x /\ s[i].payload # <<>>
      /\ \A i \in 1..Len(s) : s[i].payload # <<>> => h[s[i].id] = s[i].payload
  BY DEF Shows
<1>c. \A j \in 1..Len(s) : j = k <=> s[j].id = id
  BY <1>1 DEF Apart
<1>5. \A x : x \in DOMAIN g <=> \E i \in 1..Len(t) : t[i].id = x /\ t[i].payload # <<>>
  <2> TAKE x
  <2>1. ASSUME x \in DOMAIN g PROVE \E i \in 1..Len(t) : t[i].id = x /\ t[i].payload # <<>>
    <3>1. x # id /\ x \in DOMAIN h
      BY ONLY <1>4, <2>1
    <3>2. PICK j \in 1..Len(s) : s[j].id = x /\ s[j].payload # <<>>
      BY ONLY <1>b, <3>1
    <3>3. PICK i \in 1..Len(t) : t[i] = s[j]
      BY ONLY <1>3, <1>c, <3>1, <3>2
    <3> QED
      BY ONLY <3>2, <3>3
  <2>2. ASSUME NEW i \in 1..Len(t), t[i].id = x, t[i].payload # <<>> PROVE x \in DOMAIN g
    <3>1. PICK j \in 1..Len(s) : j # k /\ t[i] = s[j]
      BY <1>2
    <3>2. x # id /\ x \in DOMAIN h
      BY ONLY <1>b, <1>c, <2>2, <3>1
    <3> QED
      BY ONLY <1>4, <3>2
  <2> QED
    BY ONLY <2>1, <2>2
<1>6. ASSUME NEW i \in 1..Len(t), t[i].payload # <<>> PROVE g[t[i].id] = t[i].payload
  <2>1. PICK j \in 1..Len(s) : j # k /\ t[i] = s[j]
    BY <1>2
  <2>2. h[t[i].id] = t[i].payload
    BY ONLY <1>b, <1>6, <2>1
  <2>3. t[i].id \in DOMAIN g
    BY ONLY <1>5, <1>6, i \in 1..Len(t)
  <2> QED
    BY ONLY <1>4, <2>2, <2>3
<1>7. Shows(g, t)
  BY ONLY <1>4, <1>5, <1>6 DEF Shows
<1> QED
  BY ONLY <1>7, <1>a

\* SetExtension, where it returns true.
SetPlaces(p, id, payload, t) ==
    \E k : /\ Placed(p.extensions, k, Extension(id, payload), t)
           /\ Len(t) = Len(p.extensions) + 1 =>
                 \A i \in 1..Len(p.extensions) : p.extensions[i].id # id
           /\ Len(t) = Len(p.extensions) => p.extensions[k].id = id

LEMMA SetPlaced ==
    ASSUME NEW p \in PacketType, Distinct(p),
           NEW id \in Nat, NEW payload \in Seq(Nat), Short(payload),
           p.extension => Accepts(p.extension_profile, id, payload)
    PROVE  SetPlaces(p, id, payload, SetTo(p, id, payload).extensions)
<1>a. PICK s, ext, t : /\ s = p.extensions /\ ext = Extension(id, payload)
                       /\ t = SetTo(p, id, payload).extensions
  OBVIOUS
<1>1. s \in Seq(ExtensionType) /\ ext \in ExtensionType /\ Len(s) \in Nat
  BY <1>a, ExtensionIs, LenProperties DEF PacketType
<1>2. CASE ~p.extension
  <2>1. s = <<>> /\ t = <<ext>>
    BY <1>2, <1>a, FirstSet DEF Distinct
  <2>2. Len(s) = 0 /\ t \in Seq(ExtensionType) /\ Len(t) = 1 /\ t[1] = ext
    BY <1>1, <2>1
  <2>3. \A i \in 1..Len(t) : t[i] = IF i = 1 THEN ext ELSE s[i]
    BY ONLY <2>2
  <2>4. Placed(s, 1, ext, t)
    BY ONLY <1>1, <2>2, <2>3 DEF Placed
  <2>5. /\ \A i \in 1..Len(s) : s[i].id # id
        /\ Len(t) # Len(s)
    BY ONLY <2>2
  <2> QED
    BY ONLY <1>a, <2>4, <2>5 DEF SetPlaces
<1>3. CASE p.extension
  <2>1. t = Updated(p, id, payload)
    <3>1. SetTo(p, id, payload) = [p EXCEPT !.extensions = Updated(p, id, payload)]
      BY <1>3 DEF SetTo
    <3> QED
      BY <3>1, <1>a DEF PacketType
  <2>2. CASE PositionOf(p, id) = 0
    <3>1. Placed(s, Len(s) + 1, ext, t) /\ Len(t) = Len(s) + 1
      BY <1>a, <2>1, <2>2, UpdatedIs
    <3>2. \A i \in 1..Len(s) : s[i].id # id
      BY <1>a, <2>2, PositionIs
    <3>3. Len(t) # Len(s)
      BY ONLY <1>1, <3>1
    <3> QED
      BY ONLY <1>a, <3>1, <3>2, <3>3 DEF SetPlaces
  <2>3. CASE PositionOf(p, id) # 0
    <3>a. PICK k : k = PositionOf(p, id)
      OBVIOUS
    <3>1. Placed(s, k, ext, t) /\ Len(t) = Len(s)
      BY <1>a, <2>1, <2>3, <3>a, UpdatedIs
    <3>2. s[k].id = id
      BY <1>a, <2>3, <3>a, PositionIs
    <3>3. Len(t) # Len(s) + 1
      BY ONLY <1>1, <3>1
    <3> QED
      BY ONLY <1>a, <3>1, <3>2, <3>3 DEF SetPlaces
  <2> QED
    BY <2>2, <2>3
<1> QED
  BY <1>2, <1>3 DEF PacketType

LEMMA SetHeld ==
    ASSUME NEW p \in PacketType, Distinct(p), Suits(p),
           NEW id \in Nat, NEW payload \in Seq(Nat), Short(payload),
           p.extension => Accepts(p.extension_profile, id, payload)
    PROVE  HeldBy(SetTo(p, id, payload)) = With(HeldBy(p), id, payload)
<1>a. PICK q, s, t, ext : /\ q = SetTo(p, id, payload) /\ s = p.extensions
                          /\ t = q.extensions /\ ext = Extension(id, payload)
  OBVIOUS
<1>b. PICK h : h = HeldBy(p)
  OBVIOUS
<1>1. q \in PacketType /\ Distinct(q) /\ Suits(q)
  BY <1>a, SetKeeps DEF Kept
<1>2. Apart(s) /\ Apart(t)
  BY <1>a, <1>1 DEF Suits, Apart
<1>3. Shows(h, s) /\ Shows(HeldBy(q), t)
  BY <1>a, <1>b, <1>1, <1>2, HeldShows
<1>4. ext.id = id /\ ext.payload = payload /\ payload # <<>>
  BY <1>a, ExtensionIs, NonEmpty
<1>5. SetPlaces(p, id, payload, t)
  BY <1>a, SetPlaced
<1>6. PICK k : /\ Placed(s, k, ext, t)
               /\ Len(t) = Len(s) + 1 => \A i \in 1..Len(s) : s[i].id # ext.id
               /\ Len(t) = Len(s) => s[k].id = ext.id
  BY ONLY <1>5, <1>4, <1>a DEF SetPlaces
<1>7. Shows(With(h, ext.id, ext.payload), t)
  BY ONLY <1>2, <1>3, <1>4, <1>6, SetShows
<1> QED
  BY ONLY <1>3, <1>4, <1>7, <1>a, <1>b, ShownAlike

LEMMA DeleteHeld ==
    ASSUME NEW p \in PacketType, Distinct(p), Suits(p), NEW id
    PROVE  /\ HeldBy(DeletedFrom(p, id)) = Without(HeldBy(p), id)
           /\ id \in DOMAIN HeldBy(p) => p.extension /\ PositionOf(p, id) # 0
<1>a. PICK q, s, t, k : /\ q = DeletedFrom(p, id) /\ s = p.extensions
                        /\ t = q.extensions /\ k = PositionOf(p, id)
  OBVIOUS
<1>b. PICK h : h = HeldBy(p)
  OBVIOUS
<1>1. q \in PacketType /\ Distinct(q) /\ Suits(q)
  BY <1>a, DeleteKeeps DEF Kept
<1>2. Apart(s) /\ Apart(t)
  BY <1>a, <1>1 DEF Suits, Apart
<1>3. Shows(h, s) /\ Shows(HeldBy(q), t)
  BY <1>a, <1>b, <1>1, <1>2, HeldShows
<1>4. CASE p.extension /\ k # 0
  <2>1. k \in 1..Len(s) /\ s[k].id = id /\ s \in Seq(ExtensionType)
    BY <1>4, <1>a, PositionIs DEF PacketType
  <2>2. t = RemoveAt(s, k)
    <3>1. q = [p EXCEPT !.extensions = RemoveAt(s, k)]
      BY <1>4, <1>a DEF DeletedFrom
    <3> QED
      BY <3>1, <1>a DEF PacketType
  <2>3. Removed(s, k, t)
    BY <2>1, <2>2, RemoveAtIs
  <2>4. Shows(Without(h, id), t)
    BY ONLY <1>2, <1>3, <2>1, <2>3, DeleteShows
  <2> QED
    BY ONLY <1>3, <1>4, <2>4, <1>a, <1>b, ShownAlike
<1>5. CASE ~(p.extension /\ k # 0)
  <2>1. q = p
    BY <1>5, <1>a DEF DeletedFrom
  <2>2. \A i \in 1..Len(s) : s[i].id # id
    <3>1. CASE ~p.extension
      <4>1. s = <<>>
        BY <3>1, <1>a DEF Distinct
      <4> QED
        BY <4>1
    <3>2. CASE k = 0
      BY <1>a, <3>2, PositionIs
    <3> QED
      BY <1>5, <3>1, <3>2
  <2>3. id \notin DOMAIN h
    BY ONLY <1>3, <2>2 DEF Shows
  <2>4. h = [x \in DOMAIN h |-> h[x]]
    BY ONLY <1>3 DEF Shows
  <2>5. DOMAIN h \ {id} = DOMAIN h
    BY ONLY <2>3
  <2>6. h = Without(h, id)
    BY ONLY <2>4, <2>5 DEF Without
  <2>7. HeldBy(DeletedFrom(p, id)) = Without(HeldBy(p), id)
    BY ONLY <2>1, <2>6, <1>a, <1>b, Zenon
  <2>8. id \notin DOMAIN HeldBy(p)
    BY ONLY <2>3, <1>b
  <2> QED
    BY ONLY <2>7, <2>8, Zenon
<1> QED
  BY <1>4, <1>5

\* What was written without a fault arrives with the same payloads.
LEMMA ReceiveHeld ==
    ASSUME NEW p \in PacketType, Distinct(p), Suits(p), CanWrite(p), NEW q \in PacketType,
           NEW buf \in Seq(Nat), Holds(buf, p), NEW r, r = Depacketize(q, buf)
    PROVE  HeldBy(r.packet) = HeldBy(p)
<1>a. PICK c, s, t : c = r.packet /\ s = p.extensions /\ t = c.extensions
  OBVIOUS
<1>1. PacketReadAs(p, r)
  BY PacketReadBack
<1>2. /\ c \in PacketType /\ c.extension = p.extension
      /\ p.extension => c.extension_profile = p.extension_profile /\ t = ReadBack(p)
      /\ ~p.extension => t = <<>>
  BY ONLY <1>1, <1>a DEF PacketReadAs
<1>3. Apart(s) /\ Shows(HeldBy(p), s)
  BY <1>a, HeldShows DEF Suits, Apart
<1>4. CASE t = s
  BY ONLY <1>2, <1>4, <1>a DEF HeldBy, GetExtension, PositionOf
<1>5. CASE t # s
  <2>1. s = <<>> /\ t = <<Extension(0, <<>>)>> /\ p.extension
    <3>1. ~p.extension => s = <<>>
      BY <1>a DEF Distinct
    <3>2. p.extension
      BY <1>2, <1>5, <3>1
    <3>3. ~(IsElements(p.extension_profile) \/ s # <<>>)
      BY <1>2, <1>5, <1>a, <3>2 DEF ReadBack
    <3> QED
      BY ONLY <1>2, <1>a, <3>2, <3>3 DEF ReadBack
  <2>2. Len(s) = 0 /\ Len(t) = 1 /\ t[1].id = 0 /\ t[1].payload = <<>>
    <3>a. PICK ext : ext = Extension(0, <<>>)
      OBVIOUS
    <3>1. ext.id = 0 /\ ext.payload = <<>>
      BY <3>a DEF Extension
    <3>2. t = <<ext>> /\ Len(<<>>) = 0
      BY <2>1, <3>a
    <3> QED
      BY ONLY <2>1, <3>1, <3>2
  <2>3. Distinct(c)
    <3>1. ~IsElements(c.extension_profile)
      BY <1>2, <1>5, <1>a, <2>1 DEF ReadBack
    <3> QED
      BY <1>2, <1>a, <2>1, <2>2, <3>1 DEF Distinct, IsElements
  <2>4. Apart(t)
    BY ONLY <2>2 DEF Apart
  <2>5. Shows(HeldBy(c), t)
    BY <1>2, <1>a, <2>3, <2>4, HeldShows
  <2>6. Shows(<<>>, t) /\ Shows(<<>>, s)
    <3>1. \A i \in 1..Len(t) : t[i].payload = <<>>
      BY ONLY <2>2
    <3>2. \A i \in 1..Len(s) : s[i].payload = <<>>
      BY ONLY <2>2
    <3> QED
      BY <3>1, <3>2, NoneShown
  <2> QED
    BY ONLY <1>3, <1>a, <2>5, <2>6, ShownAlike
<1> QED
  BY <1>4, <1>5

LEMMA HeldAlike ==
    ASSUME NEW p, NEW q, p.extension = q.extension, p.extensions = q.extensions
    PROVE  HeldBy(p) = HeldBy(q)
BY DEF HeldBy, GetExtension, PositionOf

LEMMA MapInit == Init => Map!Init
<1> SUFFICES ASSUME Init PROVE Map!Init
  OBVIOUS
<1>1. Len(NewPacket.extensions) = 0 /\ NewPacket.extensions = <<>>
  BY DEF NewPacket
<1>2. Apart(NewPacket.extensions)
  BY <1>1 DEF Apart
<1>3. Shows(HeldBy(NewPacket), NewPacket.extensions)
  BY <1>2, NewPacketIs, HeldShows
<1>4. \A i \in 1..Len(NewPacket.extensions) : NewPacket.extensions[i].payload = <<>>
  BY <1>1
<1>5. Shows(<<>>, NewPacket.extensions)
  BY <1>4, NoneShown
<1>6. HeldBy(NewPacket) = <<>>
  BY <1>3, <1>5, ShownAlike
<1> QED
  BY <1>6 DEF Init, Map!Init

\* What was asked of a packet, and what it answered.
LEMMA AnswersAre ==
    ASSUME NEW id, NEW payload, NEW done
    PROVE  /\ Set(id, payload, done).op = "set" /\ Set(id, payload, done).id = id
           /\ Set(id, payload, done).payload = payload /\ Set(id, payload, done).done = done
           /\ Set(id, payload, done) # <<>>
           /\ Deleted(id, done).op = "delete" /\ Deleted(id, done).id = id
           /\ Deleted(id, done).done = done /\ Deleted(id, done) # <<>>
BY DEF Set, Deleted

\* A step of the packets is one of the map.
LEMMA MapNext ==
    ASSUME StructInv, SuitsInv, [Next]_vars
    PROVE  [Map!Next]_<<HeldBy(tx), HeldBy(rx), answer, faithful>>
<1> DEFINE Goal == [Map!Next]_<<HeldBy(tx), HeldBy(rx), answer, faithful>>
<1>t. /\ tx \in PacketType /\ rx \in PacketType
      /\ vector \in Seq(Nat) /\ wire \in Seq(Nat) /\ TypeInv
  BY DEF StructInv, TypeInv
<1>s. Distinct(tx) /\ Suits(tx)
  BY DEF StructInv, RoundInv, SuitsInv
<1>1. ASSUME NEW id \in Ids, NEW payload \in Payloads, SetExtension(id, payload)
      PROVE  Map!Set
  <2>a. PICK accepted :
           accepted = (tx.extension => Accepts(tx.extension_profile, id, payload))
    OBVIOUS
  <2>1. /\ tx' = SetTo(tx, id, payload)
        /\ id \in Nat /\ payload \in Seq(Nat) /\ Short(payload)
    BY <1>1, <1>t, SetIs
  <2>2. answer' = Set(id, payload, accepted) /\ rx' = rx /\ faithful' = faithful
    BY <1>1, <2>a DEF SetExtension
  <2>3. /\ answer'.op = "set" /\ answer'.id = id /\ answer'.payload = payload
        /\ answer'.done = accepted /\ answer' # <<>>
    BY <2>2, AnswersAre
  <2>4. ASSUME accepted PROVE HeldBy(tx)' = With(HeldBy(tx), id, payload)
    BY <1>t, <1>s, <2>1, <2>4, <2>a, SetHeld
  <2>5. ASSUME ~accepted PROVE HeldBy(tx)' = HeldBy(tx)
    <3>1. tx' = tx
      BY <2>1, <2>5, <2>a DEF SetTo
    <3> QED
      BY <3>1
  <2>6. HeldBy(tx)' = IF answer'.done
                      THEN [x \in DOMAIN HeldBy(tx) \cup {answer'.id} |->
                               IF x = answer'.id THEN answer'.payload ELSE HeldBy(tx)[x]]
                      ELSE HeldBy(tx)
    BY <2>3, <2>4, <2>5 DEF With
  <2>7. HeldBy(rx)' = HeldBy(rx)
    BY <2>2
  <2> QED
    BY <2>2, <2>3, <2>6, <2>7 DEF Map!Set
<1>2. ASSUME NEW id \in Ids, DeleteExtension(id) PROVE Map!Delete
  <2>a. PICK found : found = (tx.extension /\ PositionOf(tx, id) # 0)
    OBVIOUS
  <2>1. tx' = DeletedFrom(tx, id)
    BY <1>2, <1>t, DeleteIs
  <2>2. answer' = Deleted(id, found) /\ rx' = rx /\ faithful' = faithful
    BY <1>2, <2>a DEF DeleteExtension
  <2>3. /\ answer'.op = "delete" /\ answer'.id = id /\ answer'.done = found /\ answer' # <<>>
    BY <2>2, AnswersAre
  <2>4. HeldBy(tx)' = Without(HeldBy(tx), id)
    BY <1>t, <1>s, <2>1, DeleteHeld
  <2>5. id \in DOMAIN HeldBy(tx) => found
    BY <1>t, <1>s, <2>a, DeleteHeld
  <2>6. HeldBy(rx)' = HeldBy(rx)
    BY <2>2
  <2> QED
    BY <2>2, <2>3, <2>4, <2>5, <2>6 DEF Map!Delete, Without
<1>3. ASSUME NEW fields \in Fields, Assign(fields) PROVE Map!Send
  <2>1. tx' = Assigned(tx, fields) /\ rx' = rx /\ answer' = <<>>
    BY <1>3 DEF Assign, Assigned
  <2>2. HeldBy(tx)' = HeldBy(tx)
    <3>1. tx'.extension = tx.extension /\ tx'.extensions = tx.extensions
      BY <1>3, <1>t, <2>1, AssignKeeps
    <3> QED
      BY <3>1, HeldAlike
  <2>3. HeldBy(rx)' = HeldBy(rx)
    BY <2>1
  <2> QED
    BY <2>1, <2>2, <2>3 DEF Map!Send
<1>4. ASSUME SendNew \/ SendReused \/ \E buf \in Foreign : SendForeign(buf) PROVE Map!Send
  <2>1. tx' = tx /\ rx' = rx /\ answer' = <<>>
    BY <1>4 DEF SendNew, SendReused, SendForeign
  <2>2. HeldBy(tx)' = HeldBy(tx) /\ HeldBy(rx)' = HeldBy(rx)
    BY <2>1
  <2> QED
    BY <2>1, <2>2 DEF Map!Send
<1>5. ASSUME Receive PROVE Map!Deliver
  <2>a. PICK r : r = Depacketize(rx, wire)
    OBVIOUS
  <2>1. wire # <<>> /\ rx' = r.packet /\ tx' = tx /\ answer' = answer
    BY <1>5, <2>a DEF Receive
  <2>2. ASSUME faithful PROVE HeldBy(rx)' = HeldBy(tx)
    <3>1. CanWrite(tx) /\ Holds(wire, tx)
      BY <2>1, <2>2 DEF StructInv, RoundInv
    <3>2. HeldBy(r.packet) = HeldBy(tx)
      BY <1>t, <1>s, <2>a, <3>1, ReceiveHeld
    <3> QED
      BY <2>1, <3>2
  <2>3. HeldBy(tx)' = HeldBy(tx)
    BY <2>1
  <2> QED
    BY <2>1, <2>2, <2>3 DEF Map!Deliver
<1>6. ASSUME Clone PROVE Map!Relay
  <2>1. tx' = rx /\ rx' = rx /\ answer' = <<>> /\ faithful' = faithful
    BY <1>6 DEF Clone
  <2>2. HeldBy(tx)' = HeldBy(rx) /\ HeldBy(rx)' = HeldBy(rx)
    BY <2>1
  <2> QED
    BY <2>1, <2>2 DEF Map!Relay
<1>7. CASE UNCHANGED vars
  <2>1. tx' = tx /\ rx' = rx /\ answer' = answer /\ faithful' = faithful
    BY <1>7 DEF vars
  <2>2. HeldBy(tx)' = HeldBy(tx) /\ HeldBy(rx)' = HeldBy(rx)
    BY <2>1
  <2> QED
    BY <2>1, <2>2
<1> QED
  BY <1>1, <1>2, <1>3, <1>4, <1>5, <1>6, <1>7 DEF Next, Map!Next

(***************************************************************************)
(* The packet of the application and the one it reads into implement a map *)
(* of extensions that are set, deleted, sent and passed on (HeldBy, after  *)
(* Header::GetExtension), as long as no other implementation sends a       *)
(* packet that holds an identifier twice or one that cannot be written.    *)
(***************************************************************************)
THEOREM Refinement == ForeignSuits => (Spec => MapSpec)
<1> SUFFICES ASSUME ForeignSuits PROVE Spec => MapSpec
  OBVIOUS
<1>1. IndInv /\ [Next]_vars => [Map!Next]_<<HeldBy(tx), HeldBy(rx), answer, faithful>>
  BY MapNext DEF IndInv, StructInv
<1> QED
  BY <1>1, MapInit, Invariant, PTL DEF Spec, MapSpec, Map!Spec
=============================================================================
