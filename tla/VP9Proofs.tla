----------------------------- MODULE VP9Proofs ------------------------------
(***************************************************************************)
(* Proofs about VP9Session, whatever the transport loses, for every MTU,   *)
(* every width of the sizes and of the identifier, and frames of all sizes.*)
(***************************************************************************)
EXTENDS VP9Session, SequenceTheorems, TLAPS

-----------------------------------------------------------------------------
(* Sequences.                                                              *)

\* A sequence over a set is one over a larger set.
LEMMA SeqMonotone ==
    ASSUME NEW S, NEW T, S \subseteq T
    PROVE  Seq(S) \subseteq Seq(T)
OBVIOUS

\* Appending keeps what is there and adds one.
LEMMA AppendGrows ==
    ASSUME NEW S, NEW s \in Seq(S), NEW x \in S
    PROVE  /\ Append(s, x) \in Seq(S)
           /\ Len(s) \in Nat /\ Len(Append(s, x)) = Len(s) + 1
           /\ \A i \in 1..Len(s) : Append(s, x)[i] = s[i]
           /\ Append(s, x)[Len(s) + 1] = x
BY AppendProperties, LenProperties

\* Concatenating keeps what is there and adds the rest.
LEMMA ConcatGrows ==
    ASSUME NEW S, NEW s \in Seq(S), NEW t \in Seq(S)
    PROVE  /\ s \o t \in Seq(S)
           /\ Len(s) \in Nat /\ Len(t) \in Nat
           /\ Len(s \o t) = Len(s) + Len(t)
           /\ \A i \in 1..Len(s) : (s \o t)[i] = s[i]
           /\ \A i \in 1..Len(t) : (s \o t)[Len(s) + i] = t[i]
<1> PICK n \in Nat, m \in Nat : n = Len(s) /\ m = Len(t)
  BY LenProperties
<1>2. /\ s \o t \in Seq(S) /\ Len(s \o t) = n + m
      /\ \A i \in 1..(n + m) : (s \o t)[i] = IF i <= n THEN s[i] ELSE t[i - n]
  BY ConcatProperties
<1>3. \A i \in 1..n : i \in 1..(n + m) /\ i <= n
  OBVIOUS
<1>4. \A i \in 1..m : n + i \in 1..(n + m) /\ ~(n + i <= n) /\ (n + i) - n = i
  OBVIOUS
<1> QED
  BY <1>2, <1>3, <1>4

\* A position of a concatenation is one of its parts.
LEMMA ConcatPosition ==
    ASSUME NEW n \in Nat, NEW m \in Nat, NEW p \in 1..(n + m)
    PROVE  p \in 1..n \/ \E k \in 1..m : p = n + k
<1> SUFFICES ASSUME p \notin 1..n PROVE \E k \in 1..m : p = n + k
  OBVIOUS
<1>1. p - n \in 1..m /\ p = n + (p - n)
  OBVIOUS
<1> QED
  BY <1>1

\* A piece of a frame is a sequence of bytes of its length.
LEMMA BytesType ==
    ASSUME NEW f \in Nat, NEW a \in Nat, NEW b \in Nat, a <= b
    PROVE  /\ Bytes(f, a, b) \in Seq(Nat \X Nat)
           /\ Len(Bytes(f, a, b)) = b - a
           /\ \A i \in 1..(b - a) : Bytes(f, a, b)[i] = <<f, a + i - 1>>
<1>1. b - a \in Nat
  OBVIOUS
<1>2. \A i \in 1..(b - a) : <<f, a + i - 1>> \in Nat \X Nat
  OBVIOUS
<1> QED
  BY <1>1, <1>2 DEF Bytes

\* A prefix and the piece behind it join into the longer prefix.
LEMMA BytesPrefix ==
    ASSUME NEW f \in Nat, NEW a \in Nat, NEW b \in Nat, a <= b
    PROVE  Bytes(f, 0, a) \o Bytes(f, a, b) = Bytes(f, 0, b)
<1> DEFINE front == Bytes(f, 0, a)
           back == Bytes(f, a, b)
           all == Bytes(f, 0, b)
<1>0. 0 \in Nat /\ 0 <= a /\ 0 <= b
  OBVIOUS
<1>1. /\ front \in Seq(Nat \X Nat) /\ Len(front) = a
      /\ \A i \in 1..a : front[i] = <<f, i - 1>>
  <2>1. /\ front \in Seq(Nat \X Nat) /\ Len(front) = a - 0
        /\ \A i \in 1..(a - 0) : front[i] = <<f, 0 + i - 1>>
    BY <1>0, BytesType
  <2> QED
    BY <2>1
<1>2. /\ back \in Seq(Nat \X Nat) /\ Len(back) = b - a
      /\ \A i \in 1..(b - a) : back[i] = <<f, a + i - 1>>
  BY BytesType
<1>3. /\ all \in Seq(Nat \X Nat) /\ Len(all) = b
      /\ \A i \in 1..b : all[i] = <<f, i - 1>>
  <2>1. /\ all \in Seq(Nat \X Nat) /\ Len(all) = b - 0
        /\ \A i \in 1..(b - 0) : all[i] = <<f, 0 + i - 1>>
    BY <1>0, BytesType
  <2> QED
    BY <2>1
<1> HIDE DEF front, back, all
<1>4. /\ front \o back \in Seq(Nat \X Nat) /\ Len(front \o back) = b
      /\ \A i \in 1..b : (front \o back)[i] = IF i <= a THEN front[i] ELSE back[i - a]
  <2>1. /\ front \o back \in Seq(Nat \X Nat) /\ Len(front \o back) = Len(front) + Len(back)
        /\ \A i \in 1..(Len(front) + Len(back)) :
              (front \o back)[i] = IF i <= Len(front) THEN front[i] ELSE back[i - Len(front)]
    BY <1>1, <1>2, ConcatProperties
  <2>2. Len(front) + Len(back) = b
    BY <1>1, <1>2
  <2> QED
    BY <1>1, <2>1, <2>2
<1>5. ASSUME NEW i \in 1..b PROVE (front \o back)[i] = all[i]
  <2>1. CASE i <= a
    <3>1. i \in 1..a
      BY <2>1
    <3> QED
      BY <1>1, <1>3, <1>4, <2>1, <3>1
  <2>2. CASE ~(i <= a)
    <3>1. i - a \in 1..(b - a) /\ a + (i - a) = i
      BY <2>2
    <3>2. back[i - a] = <<f, i - 1>>
      BY SMTT(30), <1>2, <3>1
    <3> QED
      BY <1>3, <1>4, <2>2, <3>2
  <2> QED
    BY <2>1, <2>2
<1>6. front \o back = all
  BY <1>3, <1>4, <1>5, SeqEqual
<1> QED
  BY <1>6 DEF front, back, all

-----------------------------------------------------------------------------
(* Identifiers and sizes.                                                  *)

\* Counting up and wrapping is counting up modulo the width.
LEMMA NextRemainder ==
    ASSUME NEW w \in Nat, 1 < w, NEW a \in Nat
    PROVE  /\ a % w \in 0 .. w - 1
           /\ (a + 1) % w = IF (a % w) + 1 >= w THEN 0 ELSE (a % w) + 1
<1> DEFINE q == a \div w
           r == a % w
<1>1. q \in Nat /\ r \in 0..(w - 1) /\ a = w * q + r
  OBVIOUS
<1> HIDE DEF q, r
<1>2. CASE r + 1 >= w
  <2>1. r + 1 = w /\ a + 1 = w * (q + 1) + 0
    BY <1>1, <1>2
  <2>2. (w * (q + 1) + 0) % w = 0
    BY <1>1
  <2> QED
    BY <1>1, <1>2, <2>1, <2>2 DEF r
<1>3. CASE ~(r + 1 >= w)
  <2>1. a + 1 = w * q + (r + 1) /\ r + 1 \in 0..(w - 1)
    BY <1>1, <1>3
  <2>2. (w * q + (r + 1)) % w = r + 1
    BY <1>1, <2>1
  <2> QED
    BY <1>1, <1>3, <2>1, <2>2 DEF r
<1> QED
  BY <1>2, <1>3

\* Identifiers of calls less than a turn apart are the same only for the same call.
LEMMA SameRemainder ==
    ASSUME NEW w \in Nat, NEW a \in 0 .. w - 1, NEW d \in 0 .. w - 1, (a + d) % w = a
    PROVE  d = 0
<1>1. CASE a + d < w
  <2>1. (a + d) % w = a + d
    BY <1>1
  <2> QED
    BY <2>1
<1>2. CASE a + d >= w
  <2>1. (a + d) % w = a + d - w
    <3>1. a + d - w \in 0 .. w - 1 /\ a + d = w + (a + d - w)
      BY <1>2
    <3> QED
      BY <3>1
  <2> QED
    BY <2>1
<1> QED
  BY <1>1, <1>2

LEMMA SmallRemainder ==
    ASSUME NEW w \in Nat, NEW a \in 0 .. w - 1
    PROVE  a % w = a
OBVIOUS

\* What fits a fragment is no more than what is left of the frame, and no more than
\* the MTU leaves.
LEMMA MinIntFacts ==
    ASSUME NEW a \in Int, NEW b \in Nat
    PROVE  /\ minInt(a, b) \in Nat /\ minInt(a, b) <= b
           /\ a >= 0 => minInt(a, b) <= a
<1>1. Word \in Nat /\ Word > 0
  BY WidthAssumption
<1>2. a % Word \in Nat /\ b % Word \in Nat
  BY <1>1
<1>3. \A n \in Nat : n % Word <= n
  BY <1>1
<1> QED
  BY <1>2, <1>3 DEF minInt

-----------------------------------------------------------------------------
(* The sender.                                                             *)

\* A payload is a part of a frame that was given.
LEMMA PayloadFacts ==
    ASSUME given \in Seq(FrameSizes), NEW seq \in Seq(PayloadType), NEW p \in Position(seq)
    PROVE  /\ seq[p] \in PayloadType
           /\ seq[p].frame \in 1..Len(given) /\ seq[p].frame \in Nat
           /\ given[seq[p].frame] \in Nat
           /\ seq[p].from \in Nat /\ seq[p].to \in Nat
           /\ seq[p].b \in BOOLEAN /\ seq[p].e \in BOOLEAN
           /\ seq[p].header \in {3, 5} /\ seq[p].id \in 0 .. WrapId - 1
<1>1. seq[p] \in PayloadType
  BY ElementOfSeq DEF Position
<1>2. seq[p].frame \in 1..Len(given)
  BY <1>1 DEF PayloadType
<1>3. given[seq[p].frame] \in FrameSizes
  BY <1>2, ElementOfSeq
<1>4. Len(given) \in Nat
  BY LenProperties
<1>5. seq[p].frame \in Nat
  BY <1>2, <1>4
<1> QED
  BY <1>1, <1>2, <1>3, <1>5, FrameSizesAssumption DEF PayloadType

\* Frames keep their sizes while others are given.
GivenStays == \A f \in Position(given) : given'[f] = given[f]

LEMMA ChainStays ==
    ASSUME given \in Seq(FrameSizes), GivenStays, NEW seq \in Seq(PayloadType), Chain(seq)
    PROVE  Chain(seq)'
<1>1. ASSUME NEW p \in Position(seq) PROVE Sound(seq[p])'
  <2>1. PICK x : x = seq[p]
    OBVIOUS
  <2>2. Sound(x) /\ given'[x.frame] = given[x.frame]
    <3>1. seq[p].frame \in Position(given)
      BY PayloadFacts DEF Position
    <3> QED
      BY <2>1, <3>1 DEF Chain, GivenStays
  <2>3. Sound(x)'
    BY <2>2 DEF Sound
  <2> QED
    BY <2>1, <2>3
<1> QED
  BY <1>1 DEF Chain, Position, GoesOn

\* A fragment goes behind those of its frame.
LEMMA ChainAppend ==
    ASSUME NEW seq \in Seq(PayloadType), NEW x \in PayloadType, Chain(seq), Sound(x),
           ~x.b => seq # <<>> /\ GoesOn(seq[Len(seq)], x)
    PROVE  Chain(Append(seq, x))
<1> PICK n \in Nat : n = Len(seq)
  BY LenProperties
<1> PICK new : new = Append(seq, x)
  OBVIOUS
<1>1. /\ Len(new) = n + 1 /\ new[n + 1] = x
      /\ \A i \in 1..n : new[i] = seq[i]
  BY AppendGrows
<1>2. seq # <<>> => n > 0
  BY EmptySeq
<1>3. ASSUME NEW p \in 1..n
      PROVE  Sound(new[p]) /\ (~new[p].b => p > 1 /\ GoesOn(new[p - 1], new[p]))
  <2>1. Sound(seq[p]) /\ (~seq[p].b => p > 1 /\ GoesOn(seq[p - 1], seq[p]))
    BY DEF Chain, Position
  <2>2. p > 1 => p - 1 \in 1..n
    OBVIOUS
  <2> QED
    BY <1>1, <2>1, <2>2
<1>4. Sound(new[n + 1]) /\ (~new[n + 1].b => n + 1 > 1 /\ GoesOn(new[(n + 1) - 1], new[n + 1]))
  <2>1. (n + 1) - 1 = n
    OBVIOUS
  <2>2. n > 0 => n \in 1..n /\ n + 1 > 1
    OBVIOUS
  <2> QED
    BY <1>1, <1>2, <2>1, <2>2
<1>5. \A p \in 1..(n + 1) : p \in 1..n \/ p = n + 1
  OBVIOUS
<1> QED
  BY <1>1, <1>3, <1>4, <1>5 DEF Chain, Position

\* So do those of a call behind those of the calls before.
LEMMA ChainConcat ==
    ASSUME NEW s \in Seq(PayloadType), NEW t \in Seq(PayloadType), Chain(s), Chain(t)
    PROVE  Chain(s \o t)
<1> PICK n \in Nat, m \in Nat : n = Len(s) /\ m = Len(t)
  BY LenProperties
<1> PICK new : new = s \o t
  OBVIOUS
<1>1. /\ Len(new) = n + m
      /\ \A i \in 1..n : new[i] = s[i]
      /\ \A i \in 1..m : new[n + i] = t[i]
  BY ConcatGrows
<1>2. ASSUME NEW p \in 1..n
      PROVE  Sound(new[p]) /\ (~new[p].b => p > 1 /\ GoesOn(new[p - 1], new[p]))
  <2>1. Sound(s[p]) /\ (~s[p].b => p > 1 /\ GoesOn(s[p - 1], s[p]))
    BY DEF Chain, Position
  <2>2. p > 1 => p - 1 \in 1..n
    OBVIOUS
  <2> QED
    BY <1>1, <2>1, <2>2
<1>3. ASSUME NEW k \in 1..m
      PROVE  /\ Sound(new[n + k])
             /\ ~new[n + k].b => n + k > 1 /\ GoesOn(new[(n + k) - 1], new[n + k])
  <2>1. Sound(t[k]) /\ (~t[k].b => k > 1 /\ GoesOn(t[k - 1], t[k]))
    BY DEF Chain, Position
  <2>2. k > 1 => k - 1 \in 1..m /\ n + (k - 1) = (n + k) - 1 /\ n + k > 1
    OBVIOUS
  <2> QED
    BY <1>1, <2>1, <2>2
<1>4. \A p \in 1..(n + m) : p \in 1..n \/ \E k \in 1..m : p = n + k
  BY ConcatPosition
<1>5. ASSUME NEW p \in 1..(n + m)
      PROVE  Sound(new[p]) /\ (~new[p].b => p > 1 /\ GoesOn(new[p - 1], new[p]))
  <2>1. CASE p \in 1..n
    BY <1>2, <2>1
  <2>2. CASE p \notin 1..n
    <3>1. PICK k \in 1..m : p = n + k
      BY <1>4, <2>2
    <3> QED
      BY <1>3, <3>1
  <2> QED
    BY <2>1, <2>2
<1> QED
  BY <1>1, <1>5 DEF Chain, Position

-----------------------------------------------------------------------------
\* What a step that neither gives a frame nor makes or hands over a payload
\* leaves as it was.
LEMMA PayloadsStay ==
    ASSUME SenderInv, given' = given, payloads' = payloads, packets' = packets
    PROVE  Chain(payloads)' /\ Chain(packets)' /\ SizeInv' /\ WholeFrames'
<1>1. Chain(payloads)' /\ Chain(packets)'
  BY DEF SenderInv, Chain, Sound, GoesOn, Position
<1>2. SizeInv'
  BY DEF SenderInv, SizeInv, PayloadSize, Position
<1>3. WholeFrames'
  BY DEF SenderInv, WholeFrames, Position
<1> QED
  BY <1>1, <1>2, <1>3

LEMMA SetFlexibleModeStep ==
    ASSUME SenderInv, SetFlexibleMode, UNCHANGED <<receiverVars, transportVars>>
    PROVE  SenderInv'
<1> USE DEF SetFlexibleMode, receiverVars, transportVars
<1>1. TypeOK'
  BY DEF SenderInv, TypeOK, PayloadType
<1>2. CallInv'
  BY DEF SenderInv, CallInv, Position
<1>3. IdInv'
  BY DEF SenderInv, IdInv, NextCall, Kept, Position
<1> QED
  BY <1>1, <1>2, <1>3, PayloadsStay DEF SenderInv

\* Setting the identifier cuts the frames given so far off from those to come.
LEMMA SetInitialPictureIDStep ==
    ASSUME SenderInv, SetInitialPictureID, UNCHANGED <<receiverVars, transportVars>>
    PROVE  SenderInv'
<1> USE DEF SetInitialPictureID, receiverVars, transportVars
<1> PICK g \in Nat : g = Len(given)
  BY LenProperties DEF SenderInv, TypeOK
<1>1. TypeOK'
  <2>1. pictureID' \in 0 .. WrapId - 1
    <3>1. PICK id \in InitialIds : pictureID' = id % WrapId
      OBVIOUS
    <3>2. id \in Nat
      BY InitialIdsAssumption, WidthAssumption
    <3> QED
      BY <3>1, <3>2, WidthAssumption, NextRemainder
  <2>2. renumbered' \subseteq 0..g
    <3>1. renumbered \subseteq 0..g /\ renumbered' = renumbered \cup {g}
      BY DEF SenderInv, TypeOK
    <3>2. g \in 0..g
      OBVIOUS
    <3> QED
      BY <3>1, <3>2
  <2> QED
    BY <2>1, <2>2 DEF SenderInv, TypeOK, PayloadType
<1>2. CallInv'
  BY DEF SenderInv, CallInv, Position
<1>3. IdInv'
  <2>1. NextCall' = g + 1 /\ g \in renumbered'
    BY DEF NextCall
  <2>2. ASSUME NEW p \in Position(packets) PROVE ~Kept(packets[p].frame, NextCall)'
    <3>1. packets[p].frame \in 1..g
      BY PayloadFacts DEF SenderInv, TypeOK
    <3>2. packets[p].frame <= g /\ g < g + 1
      BY <3>1
    <3> QED
      BY <2>1, <3>2 DEF Kept
  <2>3. \A f, h : Kept(f, h)' => Kept(f, h)
    BY DEF Kept
  <2>4. \A p, q \in Position(packets) :
           packets[p].frame <= packets[q].frame /\ Kept(packets[p].frame, packets[q].frame)' =>
               packets[q].id = (packets[p].id + packets[q].frame - packets[p].frame) % WrapId
    BY <2>3 DEF SenderInv, IdInv
  <2>5. packets' = packets
    OBVIOUS
  <2>6. \A p, q \in Position(packets') :
           packets'[p].frame <= packets'[q].frame /\ Kept(packets[p].frame, packets[q].frame)' =>
               packets'[q].id = (packets'[p].id + packets'[q].frame - packets'[p].frame) % WrapId
    BY <2>4, <2>5 DEF Position
  <2>7. \A p \in Position(packets') : ~Kept(packets[p].frame, NextCall)'
    BY <2>2, <2>5 DEF Position
  <2> QED
    BY <2>6, <2>7 DEF IdInv, Position
<1> QED
  BY <1>1, <1>2, <1>3, PayloadsStay DEF SenderInv

\* A call with a new frame: the first draws the identifier, before anything was sent.
LEMMA PacketizeStep ==
    ASSUME SenderInv, NEW size \in FrameSizes, Packetize(size),
           UNCHANGED <<receiverVars, transportVars>>
    PROVE  SenderInv' /\ GivenStays
<1> USE DEF receiverVars, transportVars
<1> PICK g \in Nat : g = Len(given)
  BY LenProperties DEF SenderInv, TypeOK
<1>1. /\ given' \in Seq(FrameSizes) /\ Len(given') = g + 1 /\ given'[g + 1] = size
      /\ \A f \in 1..g : given'[f] = given[f]
  BY AppendGrows DEF SenderInv, TypeOK, Packetize
<1>2. /\ payloads' = <<>> /\ packets' = packets /\ payloadDataIndex' = 0 /\ initialized'
      /\ size > 0 /\ pc = "idle" /\ renumbered' = renumbered /\ flexibleMode' = flexibleMode
      /\ pc' = (IF Refuses(size) THEN "return" ELSE "fragment") /\ returned' = returned
  BY DEF Packetize
<1>3. PayloadType \subseteq PayloadType'
  <2>1. 1..g \subseteq 1..(g + 1)
    OBVIOUS
  <2> QED
    BY <1>1, <2>1 DEF PayloadType
<1>4. GivenStays
  BY <1>1 DEF GivenStays, Position
<1>5. given' # <<>>
  BY <1>1, EmptySeq
<1>6. TypeOK'
  <2>1. packets' \in Seq(PayloadType') /\ payloads' \in Seq(PayloadType')
    BY <1>2, <1>3, SeqMonotone, EmptySeq DEF SenderInv, TypeOK
  <2>2. renumbered' \subseteq 0..Len(given')
    <3>1. 0..g \subseteq 0..(g + 1)
      OBVIOUS
    <3> QED
      BY <1>1, <1>2, <3>1 DEF SenderInv, TypeOK
  <2>3. pictureID' \in 0 .. WrapId - 1
    BY DEF SenderInv, TypeOK, Packetize
  <2>4. pc' \in {"idle", "fragment", "return"} /\ payloadDataIndex' \in Nat /\ initialized' \in BOOLEAN
    BY <1>2 DEF Packetize
  <2> QED
    BY <1>1, <1>2, <2>1, <2>2, <2>3, <2>4 DEF SenderInv, TypeOK, PayloadType
<1>7. Chain(payloads)' /\ Chain(packets)'
  <2>1. PICK s : s = packets
    OBVIOUS
  <2>2. s \in Seq(PayloadType) /\ Chain(s) /\ given \in Seq(FrameSizes)
    BY <2>1 DEF SenderInv, TypeOK
  <2>3. Chain(s)'
    BY <1>4, <2>2, ChainStays
  <2>4. Chain(packets)'
    BY <1>2, <2>1, <2>3 DEF Chain
  <2>5. Len(payloads') = 0
    BY <1>2, EmptySeq
  <2>6. Chain(payloads)'
    BY <2>5 DEF Chain, Position
  <2> QED
    BY <2>4, <2>6
<1>8. \A p \in Position(packets) : packets[p].frame \in 1..g
  BY PayloadFacts DEF SenderInv, TypeOK
<1>9. CallInv'
  <2>1. \A f \in Position(given') : given'[f] > 0
    <3>1. \A f \in 1..g : given'[f] > 0
      BY <1>1 DEF SenderInv, CallInv, Position
    <3>2. \A f \in 1..(g + 1) : f \in 1..g \/ f = g + 1
      OBVIOUS
    <3> QED
      BY <1>1, <1>2, <3>1, <3>2 DEF Position
  <2>2. \A p \in Position(packets') : packets'[p].frame < Frame'
    <3>1. Frame' = g + 1
      BY <1>1 DEF Frame
    <3>2. \A p \in Position(packets) : packets[p].frame < g + 1
      BY <1>8
    <3> QED
      BY <1>2, <3>1, <3>2
  <2>3. Position(payloads') = {}
    BY <1>2, EmptySeq DEF Position
  <2>4. /\ given'[Frame'] = size /\ payloadDataIndex' < given'[Frame']
        /\ pc' = "fragment" => ~Refuses(given[Frame])'
    <3>1. given'[Frame'] = size
      BY <1>1 DEF Frame
    <3>2. payloadDataIndex' < given'[Frame']
      BY <1>2, <3>1
    <3>3. ASSUME pc' = "fragment" PROVE ~Refuses(given[Frame])'
      BY <1>2, <3>1, <3>3 DEF Refuses, minInt, maxFragmentSize, headerSize
    <3> QED
      BY <3>1, <3>2, <3>3
  <2> QED
    BY <1>2, <1>5, <2>1, <2>2, <2>3, <2>4 DEF CallInv, Position
<1>10. SizeInv'
  <2>1. Position(payloads') = {}
    BY <1>2, EmptySeq DEF Position
  <2> QED
    BY <1>2, <2>1 DEF SenderInv, SizeInv, PayloadSize, Position
<1>11. WholeFrames'
  BY <1>2 DEF SenderInv, WholeFrames, Position
<1>12. IdInv'
  <2>1. NextCall = g + 1 /\ NextCall' = g + 1
    BY <1>1, <1>2 DEF NextCall
  <2>2. ASSUME NEW p \in Position(packets) PROVE pictureID' = pictureID
    <3>1. given # <<>>
      BY <1>8, EmptySeq
    <3> QED
      BY <3>1 DEF SenderInv, CallInv, Packetize
  <2>3. \A f, h : Kept(f, h)' = Kept(f, h)
    BY <1>2 DEF Kept
  <2>4. \A p \in Position(packets) :
           Kept(packets[p].frame, g + 1) =>
               pictureID' = (packets[p].id + (g + 1) - packets[p].frame) % WrapId
    BY <2>1, <2>2 DEF SenderInv, IdInv
  <2>6. \A p \in Position(packets') :
           Kept(packets[p].frame, NextCall)' =>
               pictureID' = (packets'[p].id + NextCall' - packets'[p].frame) % WrapId
    BY <1>2, <2>1, <2>4 DEF Kept
  <2>7. \A p, q \in Position(packets') :
           packets'[p].frame <= packets'[q].frame /\ Kept(packets[p].frame, packets[q].frame)' =>
               packets'[q].id = (packets'[p].id + packets'[q].frame - packets'[p].frame) % WrapId
    BY <1>2 DEF SenderInv, IdInv, Kept
  <2> QED
    BY <2>6, <2>7 DEF IdInv, Position
<1> QED
  BY <1>4, <1>6, <1>7, <1>9, <1>10, <1>11, <1>12 DEF SenderInv

\* The next fragment goes on where the last ended, and holds at least a byte where it
\* begins the frame or ends it.
LEMMA FragmentStep ==
    ASSUME SenderInv, Fragment, UNCHANGED <<receiverVars, transportVars>>
    PROVE  SenderInv'
<1> USE DEF receiverVars, transportVars
<1> PICK g \in Nat : g = Len(given)
  BY LenProperties DEF SenderInv, TypeOK
<1> PICK n, m : n = minInt(maxFragmentSize, payloadDataRemaining) /\ m = Len(payloads)
  OBVIOUS
<1> PICK idx, size : idx = payloadDataIndex /\ size = given[Frame]
  OBVIOUS
<1> PICK x : x = Payload(Frame, idx, idx + n, idx = 0, IsEnd(idx + n), headerSize, pictureID)
  OBVIOUS
<1>1. /\ payloads' = Append(payloads, x) /\ payloadDataIndex' = idx + n
      /\ pc = "fragment"
      /\ pc' = (IF idx + n < size THEN "fragment" ELSE "return")
      /\ UNCHANGED <<given, renumbered, flexibleMode, pictureID, initialized, packets, returned>>
  BY DEF Fragment
<1>2. /\ Frame = g /\ g \in 1..g /\ size \in Nat /\ idx \in Nat /\ idx < size /\ m \in Nat
      /\ headerSize \in {3, 5} /\ maxFragmentSize \in Int /\ payloadDataRemaining = size - idx
  <2>1. given # <<>>
    BY <1>1 DEF SenderInv, CallInv
  <2>2. g > 0
    BY <2>1, EmptySeq DEF SenderInv, TypeOK
  <2>3. size \in FrameSizes
    BY <2>2, ElementOfSeq DEF SenderInv, TypeOK, Frame
  <2>4. idx \in Nat /\ idx < size
    BY <1>1 DEF SenderInv, TypeOK, CallInv
  <2>5. headerSize \in {3, 5} /\ maxFragmentSize \in Int
    BY MtuAssumption DEF headerSize, maxFragmentSize
  <2>6. m \in Nat
    BY LenProperties DEF SenderInv, TypeOK
  <2> QED
    BY <2>2, <2>3, <2>4, <2>5, <2>6, FrameSizesAssumption DEF Frame, payloadDataRemaining
<1>3. /\ n \in Nat /\ idx + n <= size
      /\ maxFragmentSize >= 0 => n <= maxFragmentSize
  <2>1. size - idx \in Nat
    BY <1>2
  <2>2. n \in Nat /\ n <= size - idx /\ (maxFragmentSize >= 0 => n <= maxFragmentSize)
    BY <1>2, <2>1, MinIntFacts
  <2> QED
    BY <1>2, <2>2
<1>4. /\ x.frame = g /\ x.from = idx /\ x.to = idx + n /\ x.b = (idx = 0)
      /\ x.e = (idx + n = size) /\ x.header = headerSize /\ x.id = pictureID
  <2>1. pictureID % WrapId = pictureID
    BY SmallRemainder, WidthAssumption DEF SenderInv, TypeOK
  <2> QED
    BY <1>2, <2>1 DEF Payload, IsEnd
<1>5. x \in PayloadType
  <2>1. pictureID \in 0 .. WrapId - 1
    BY DEF SenderInv, TypeOK
  <2>2. x = [frame |-> g, from |-> idx, to |-> idx + n, b |-> (idx = 0), e |-> (idx + n = size),
             header |-> headerSize, id |-> pictureID]
    <3>1. pictureID % WrapId = pictureID
      BY SmallRemainder, WidthAssumption DEF SenderInv, TypeOK
    <3> QED
      BY <1>2, <3>1 DEF Payload, IsEnd
  <2>3. PICK first \in BOOLEAN, last \in BOOLEAN : first = (idx = 0) /\ last = (idx + n = size)
    OBVIOUS
  <2>4. x = [frame |-> g, from |-> idx, to |-> idx + n, b |-> first, e |-> last,
             header |-> headerSize, id |-> pictureID]
    BY <2>2, <2>3
  <2>5. idx + n \in Nat
    BY <1>2, <1>3
  <2> QED
    BY SMTT(30), <1>2, <2>1, <2>4, <2>5 DEF PayloadType
<1>6. /\ Len(payloads') = m + 1 /\ payloads'[m + 1] = x /\ payloads' \in Seq(PayloadType)
      /\ \A p \in 1..m : payloads'[p] = payloads[p]
  BY <1>1, <1>5, AppendGrows DEF SenderInv, TypeOK
<1>7. payloads # <<>> =>
         /\ m \in 1..m /\ payloads[m].to = idx /\ payloads[m].frame = g
         /\ payloads[m].id = pictureID /\ ~payloads[m].e /\ payloads[m].to > 0
  <2> SUFFICES ASSUME payloads # <<>>
               PROVE  /\ m \in 1..m /\ payloads[m].to = idx /\ payloads[m].frame = g
                      /\ payloads[m].id = pictureID /\ ~payloads[m].e /\ payloads[m].to > 0
    OBVIOUS
  <2>1. m \in 1..m
    BY EmptySeq DEF SenderInv, TypeOK
  <2>2. payloads[m].to = idx /\ payloads[m].frame = g /\ payloads[m].id = pictureID
    BY <1>1, <1>2, <2>1 DEF SenderInv, CallInv, Position
  <2>3. Sound(payloads[m])
    BY <2>1 DEF SenderInv, Chain, Position
  <2>4. payloads[m].to \in Nat
    BY <1>2, <2>2
  <2> QED
    BY <1>2, <2>1, <2>2, <2>3, <2>4 DEF Sound, Frame
<1>8. Sound(x)
  <2>1. 0 < idx + n
    <3>1. CASE payloads # <<>>
      <4>1. payloads[m].to = idx /\ payloads[m].to > 0
        BY <1>7, <3>1
      <4>2. idx > 0
        BY <4>1
      <4> QED
        BY <1>2, <1>3, <4>2
    <3>2. CASE payloads = <<>>
      <4>1. ~Refuses(size) /\ idx = 0
        BY <1>1, <3>2 DEF SenderInv, CallInv
      <4>2. n = minInt(maxFragmentSize, size)
        BY <1>2, <4>1
      <4> QED
        BY <1>2, <1>3, <4>1, <4>2 DEF Refuses
    <3> QED
      BY <3>1, <3>2
  <2>2. given[x.frame] = size
    BY <1>2, <1>4
  <2>3. /\ idx <= idx + n /\ idx + n <= size
        /\ idx + n = size => idx < idx + n
    BY <1>2, <1>3
  <2> QED
    BY <1>4, <2>1, <2>2, <2>3 DEF Sound
<1>9. ~x.b => payloads # <<>> /\ GoesOn(payloads[Len(payloads)], x)
  <2> SUFFICES ASSUME idx # 0 PROVE payloads # <<>> /\ GoesOn(payloads[m], x)
    BY <1>4
  <2>1. payloads # <<>>
    BY <1>1 DEF SenderInv, CallInv
  <2> QED
    BY <1>4, <1>7, <2>1 DEF GoesOn
<1>10. Chain(payloads)' /\ Chain(packets)'
  <2>1. Chain(Append(payloads, x))
    BY <1>5, <1>8, <1>9, ChainAppend DEF SenderInv, TypeOK
  <2> QED
    BY <1>1, <2>1 DEF SenderInv, Chain, Sound, GoesOn, Position
<1>11. TypeOK'
  <2>1. payloadDataIndex' \in Nat /\ pc' \in {"idle", "fragment", "return"}
    BY SMTT(30), <1>1, <1>2, <1>3
  <2> QED
    BY <1>1, <1>6, <2>1 DEF SenderInv, TypeOK, PayloadType
<1>12. \A p \in 1..(m + 1) : p \in 1..m \/ p = m + 1
  BY <1>2
<1>13. CallInv'
  <2>1. payloads' # <<>> /\ Len(payloads') = m + 1 /\ Frame' = g /\ given'[g] = size
    <3>1. Len(payloads') # 0
      BY <1>2, <1>6
    <3> QED
      BY <1>1, <1>2, <1>6, <3>1, EmptySeq DEF Frame
  <2>2. \A p \in 1..(m + 1) : payloads'[p].frame = g /\ payloads'[p].id = pictureID'
    <3>1. \A p \in 1..m : payloads[p].frame = g /\ payloads[p].id = pictureID
      BY <1>1, <1>2 DEF SenderInv, CallInv, Position
    <3> QED
      BY <1>1, <1>4, <1>6, <1>12, <3>1
  <2>3. pc' = "fragment" => payloadDataIndex' < size /\ payloads'[m + 1].to = payloadDataIndex'
    BY <1>1, <1>4, <1>6
  <2>4. pc' = "return" => payloads'[m + 1].e
    <3>1. ~(idx + n < size) => idx + n = size
      BY <1>2, <1>3
    <3> QED
      BY <1>1, <1>4, <1>6, <3>1
  <2>5. pc' = "fragment" \/ pc' = "return"
    BY <1>1
  <2>6. /\ \A f \in Position(given') : given'[f] > 0
        /\ given' # <<>> /\ initialized'
        /\ \A p \in Position(packets') : packets'[p].frame < g
    BY <1>1, <1>2 DEF SenderInv, CallInv, Position
  <2> QED
    BY <2>1, <2>2, <2>3, <2>4, <2>6 DEF CallInv, Position
<1>14. SizeInv'
  <2> SUFFICES ASSUME Mtu >= 5
               PROVE  /\ \A p \in 1..(m + 1) : PayloadSize(payloads'[p]) <= Mtu
                      /\ \A p \in Position(packets') : PayloadSize(packets'[p]) <= Mtu
    BY <1>6 DEF SizeInv, PayloadSize, Position
  <2>1. PayloadSize(x) <= Mtu
    <3>1. maxFragmentSize = Mtu - headerSize /\ maxFragmentSize >= 0
      BY <1>2, MtuAssumption DEF maxFragmentSize
    <3>2. PayloadSize(x) = headerSize + (idx + n) - idx
      BY <1>4 DEF PayloadSize
    <3> HIDE DEF headerSize, maxFragmentSize
    <3>3. headerSize \in Nat
      BY <1>2
    <3> QED
      BY <1>2, <1>3, <3>1, <3>2, <3>3, MtuAssumption
  <2>2. \A p \in 1..m : PayloadSize(payloads'[p]) <= Mtu
    BY <1>6 DEF SenderInv, SizeInv, Position
  <2> QED
    BY <1>1, <1>6, <1>12, <2>1, <2>2 DEF SenderInv, SizeInv
<1>15. WholeFrames'
  BY <1>1 DEF SenderInv, WholeFrames, Position
<1>16. IdInv'
  BY <1>1 DEF SenderInv, IdInv, NextCall, Kept, Position
<1> QED
  BY <1>10, <1>11, <1>13, <1>14, <1>15, <1>16 DEF SenderInv

\* The call hands over whole frames, or none, and uses the identifier up.
LEMMA ReturnStep ==
    ASSUME SenderInv, Return, UNCHANGED <<receiverVars, transportVars>>
    PROVE  /\ SenderInv'
           /\ Len(packets) <= Len(packets')
           /\ \A p \in Position(packets) : packets'[p] = packets[p]
<1> USE DEF receiverVars, transportVars
<1> PICK g \in Nat, n \in Nat, m \in Nat : g = Len(given) /\ n = Len(packets) /\ m = Len(payloads)
  BY LenProperties DEF SenderInv, TypeOK
<1>1. /\ packets' = packets \o payloads /\ pictureID' = NextId /\ pc = "return" /\ pc' = "idle"
      /\ returned' \in BOOLEAN
      /\ UNCHANGED <<given, renumbered, flexibleMode, initialized, payloadDataIndex, payloads>>
  BY DEF Return
<1>2. /\ packets' \in Seq(PayloadType) /\ Len(packets') = n + m
      /\ \A p \in 1..n : packets'[p] = packets[p]
      /\ \A k \in 1..m : packets'[n + k] = payloads[k]
  BY <1>1, ConcatGrows DEF SenderInv, TypeOK
<1>3. \A p \in 1..(n + m) : p \in 1..n \/ \E k \in 1..m : p = n + k
  BY ConcatPosition
<1>4. /\ \A p \in 1..n : packets[p].frame \in 1..g /\ packets[p].frame < g
                         /\ packets[p].id \in 0 .. WrapId - 1
      /\ \A k \in 1..m : payloads[k].frame = g /\ payloads[k].id = pictureID
  <2>1. \A p \in 1..n : packets[p].frame \in 1..g /\ packets[p].id \in 0 .. WrapId - 1
    BY PayloadFacts DEF SenderInv, TypeOK, Position
  <2>2. \A p \in 1..n : packets[p].frame < g
    BY <1>1 DEF SenderInv, CallInv, Position, Frame
  <2>3. \A k \in 1..m : payloads[k].frame = g /\ payloads[k].id = pictureID
    BY <1>1 DEF SenderInv, CallInv, Position, Frame
  <2> QED
    BY <2>1, <2>2, <2>3
<1>5. pictureID \in 0 .. WrapId - 1 /\ WrapId \in Nat /\ 1 < WrapId
  BY WidthAssumption DEF SenderInv, TypeOK
<1>6. TypeOK'
  <2>1. pictureID' \in 0 .. WrapId - 1
    BY <1>1, <1>5 DEF NextId
  <2>2. rcvd' \in 0..Len(packets')
    <3>1. rcvd \in 0..n
      BY DEF SenderInv, TypeOK
    <3> QED
      BY <1>2, <3>1
  <2> QED
    BY <1>1, <1>2, <2>1, <2>2 DEF SenderInv, TypeOK, PayloadType
<1>7. Chain(payloads)' /\ Chain(packets)'
  <2>1. Chain(packets \o payloads)
    BY ChainConcat DEF SenderInv, TypeOK
  <2>2. PICK all : all = packets \o payloads /\ Chain(all) /\ packets' = all
    BY <1>1, <2>1
  <2>3. PICK made : made = payloads /\ Chain(made) /\ payloads' = made
    BY <1>1 DEF SenderInv
  <2>4. given' = given
    BY <1>1
  <2>5. Chain(all)' /\ Chain(made)'
    BY ONLY <2>2, <2>3, <2>4 DEF Chain, Sound, GoesOn, Position
  <2> QED
    BY <2>2, <2>3, <2>5
<1>8. CallInv'
  BY <1>1 DEF SenderInv, CallInv, Position
<1>9. SizeInv'
  <2> SUFFICES ASSUME Mtu >= 5
               PROVE  /\ \A p \in 1..m : PayloadSize(payloads[p]) <= Mtu
                      /\ \A p \in 1..(n + m) : PayloadSize(packets'[p]) <= Mtu
    BY <1>1, <1>2 DEF SizeInv, PayloadSize, Position
  <2>1. /\ \A p \in 1..m : PayloadSize(payloads[p]) <= Mtu
        /\ \A p \in 1..n : PayloadSize(packets[p]) <= Mtu
    BY DEF SenderInv, SizeInv, Position
  <2>2. ASSUME NEW p \in 1..(n + m) PROVE PayloadSize(packets'[p]) <= Mtu
    BY ZenonT(30), <1>2, <1>3, <2>1
  <2> QED
    BY <2>1, <2>2
<1>10. WholeFrames'
  <2>1. ASSUME NEW p \in 1..n
        PROVE  \E q \in p..(n + m) : packets'[q].frame = packets'[p].frame /\ packets'[q].e
    <3>1. PICK q \in p..n : packets[q].frame = packets[p].frame /\ packets[q].e
      BY DEF SenderInv, WholeFrames, Position
    <3>2. q \in p..(n + m) /\ q \in 1..n
      OBVIOUS
    <3> QED
      BY <1>2, <3>1, <3>2
  <2>2. ASSUME NEW k \in 1..m
        PROVE  \E q \in (n + k)..(n + m) :
                  packets'[q].frame = packets'[n + k].frame /\ packets'[q].e
    <3>1. m \in 1..m /\ n + m \in (n + k)..(n + m)
      OBVIOUS
    <3>2. payloads # <<>>
      BY <3>1, EmptySeq
    <3>3. payloads[m].e
      BY <1>1, <3>2 DEF SenderInv, CallInv
    <3> QED
      BY SMTT(30), <1>2, <1>4, <3>1, <3>3
  <2>3. ASSUME NEW p \in 1..(n + m)
        PROVE  \E q \in p..(n + m) : packets'[q].frame = packets'[p].frame /\ packets'[q].e
    <3>1. CASE p \in 1..n
      BY <2>1, <3>1
    <3>2. CASE p \notin 1..n
      <4>1. PICK k \in 1..m : p = n + k
        BY <1>3, <3>2
      <4> QED
        BY <2>2, <4>1
    <3> QED
      BY <3>1, <3>2
  <2>4. ASSUME NEW p \in 1..(n + m), NEW q \in 1..(n + m), p <= q
        PROVE  packets'[p].frame <= packets'[q].frame
    <3>1. CASE q \in 1..n
      <4>1. p \in 1..n
        BY <2>4, <3>1
      <4> QED
        BY <1>2, <2>4, <3>1, <4>1 DEF SenderInv, WholeFrames, Position
    <3>2. CASE q \notin 1..n
      <4>1. packets'[q].frame = g
        <5>1. PICK k \in 1..m : q = n + k
          BY <1>3, <3>2
        <5> QED
          BY <1>2, <1>4, <5>1
      <4>2. packets'[p].frame <= g
        <5>1. CASE p \in 1..n
          <6>1. packets'[p] = packets[p] /\ packets[p].frame \in 1..g
            BY <1>2, <1>4, <5>1
          <6> QED
            BY <6>1
        <5>2. CASE p \notin 1..n
          <6>1. PICK k \in 1..m : p = n + k
            BY <1>3, <5>2
          <6>2. packets'[p].frame = g
            BY <1>2, <1>4, <6>1
          <6> QED
            BY <6>2
        <5> QED
          BY <5>1, <5>2
      <4> QED
        BY <4>1, <4>2
    <3> QED
      BY <3>1, <3>2
  <2> QED
    BY <1>2, <2>3, <2>4 DEF WholeFrames, Position
<1>11. IdInv'
  <2>1. NextCall = g /\ NextCall' = g + 1
    BY <1>1 DEF NextCall
  <2>2. \A f, h : Kept(f, h)' = Kept(f, h)
    BY <1>1 DEF Kept
  <2>3. \A f \in Nat : Kept(f, g + 1) => Kept(f, g)
    BY DEF Kept, SenderInv, TypeOK
  <2>4. \A p \in 1..n : Kept(packets[p].frame, g) =>
           pictureID = (packets[p].id + g - packets[p].frame) % WrapId
    BY <2>1 DEF SenderInv, IdInv, Position
  <2>5. ASSUME NEW p \in 1..n, Kept(packets[p].frame, g + 1)
        PROVE  pictureID' = (packets[p].id + (g + 1) - packets[p].frame) % WrapId
    <3>1. PICK i \in 0 .. WrapId - 1, f \in 1..g : i = packets[p].id /\ f = packets[p].frame
      BY <1>4
    <3>2. PICK a \in Nat : a = i + g - f /\ i + (g + 1) - f = a + 1
      <4>1. i \in Nat /\ f \in Nat /\ f <= g
        BY <1>5
      <4>2. i + g - f \in Nat /\ i + (g + 1) - f = (i + g - f) + 1
        BY <4>1
      <4> QED
        BY <4>2
    <3>3. Kept(f, g)
      <4>1. f \in Nat /\ Kept(f, g + 1)
        BY <2>5, <3>1
      <4> QED
        BY <2>3, <4>1
    <3>4. pictureID = a % WrapId
      BY <2>4, <3>1, <3>2, <3>3
    <3>5. pictureID' = (a + 1) % WrapId
      BY <1>1, <1>5, <3>4, NextRemainder DEF NextId
    <3> QED
      BY <3>1, <3>2, <3>5
  <2>6. ASSUME NEW k \in 1..m
        PROVE  pictureID' = (payloads[k].id + (g + 1) - payloads[k].frame) % WrapId
    <3>1. payloads[k].id + (g + 1) - payloads[k].frame = pictureID + 1
      BY <1>4, <1>5
    <3>2. pictureID % WrapId = pictureID /\ pictureID \in Nat
      BY <1>5, SmallRemainder
    <3> QED
      BY ZenonT(30), <1>1, <1>5, <3>1, <3>2, NextRemainder DEF NextId
  <2>7. ASSUME NEW p \in 1..(n + m), Kept(packets'[p].frame, g + 1)
        PROVE  pictureID' = (packets'[p].id + (g + 1) - packets'[p].frame) % WrapId
    <3>1. CASE p \in 1..n
      <4>1. packets'[p] = packets[p]
        BY <1>2, <3>1
      <4>2. Kept(packets[p].frame, g + 1)
        BY <2>7, <4>1
      <4> QED
        BY <2>5, <3>1, <4>1, <4>2
    <3>2. CASE p \notin 1..n
      <4>1. PICK k \in 1..m : p = n + k
        BY <1>3, <3>2
      <4>2. packets'[p] = payloads[k]
        BY <1>2, <4>1
      <4> QED
        BY <2>6, <4>2
    <3> QED
      BY <3>1, <3>2
  <2>8. ASSUME NEW p \in 1..(n + m), NEW q \in 1..(n + m),
               packets'[p].frame <= packets'[q].frame,
               Kept(packets'[p].frame, packets'[q].frame)
        PROVE  packets'[q].id =
                   (packets'[p].id + packets'[q].frame - packets'[p].frame) % WrapId
    <3>1. CASE p \in 1..n /\ q \in 1..n
      BY <1>2, <2>8, <3>1 DEF SenderInv, IdInv, Position
    <3>2. CASE p \in 1..n /\ q \notin 1..n
      <4>1. PICK k \in 1..m : q = n + k
        BY <1>3, <3>2
      <4> QED
        BY <1>2, <1>4, <2>4, <2>8, <3>2, <4>1
    <3>3. CASE p \notin 1..n /\ q \in 1..n
      <4>1. PICK k \in 1..m : p = n + k
        BY <1>3, <3>3
      <4> QED
        BY <1>2, <1>4, <2>8, <3>3, <4>1
    <3>4. CASE p \notin 1..n /\ q \notin 1..n
      <4>1. PICK k \in 1..m, j \in 1..m : p = n + k /\ q = n + j
        BY <1>3, <3>4
      <4>2. packets'[q].id = pictureID /\ packets'[p].id = pictureID
            /\ packets'[p].frame = g /\ packets'[q].frame = g
        BY <1>2, <1>4, <4>1
      <4>3. pictureID + g - g = pictureID
        BY <1>5
      <4> QED
        BY <1>5, <4>2, <4>3, SmallRemainder
    <3> QED
      BY <3>1, <3>2, <3>3, <3>4
  <2>9. \A p \in Position(packets') :
           Kept(packets[p].frame, NextCall)' =>
               pictureID' = (packets'[p].id + NextCall' - packets'[p].frame) % WrapId
    BY <1>1, <1>2, <2>1, <2>7 DEF Kept, Position
  <2>10. \A p, q \in Position(packets') :
           packets'[p].frame <= packets'[q].frame /\ Kept(packets[p].frame, packets[q].frame)' =>
               packets'[q].id = (packets'[p].id + packets'[q].frame - packets'[p].frame) % WrapId
    BY ZenonT(30), <1>1, <1>2, <2>8 DEF Kept, Position
  <2> QED
    BY <2>9, <2>10 DEF IdInv, Position
<1>12. n <= n + m
  OBVIOUS
<1> QED
  BY <1>2, <1>6, <1>7, <1>8, <1>9, <1>10, <1>11, <1>12 DEF SenderInv, Position

\* Whatever the sender does, it leaves alone what it has sent and the receiver.
LEMMA SenderStep ==
    ASSUME SenderInv, Send
    PROVE  /\ SenderInv' /\ GivenStays
           /\ Len(packets) <= Len(packets') /\ Len(given) <= Len(given')
           /\ renumbered \subseteq renumbered'
           /\ \A p \in Position(packets) : packets'[p] = packets[p]
<1>1. UNCHANGED <<receiverVars, transportVars>>
  BY DEF Send
<1> PICK g \in Nat, n \in Nat : g = Len(given) /\ n = Len(packets)
  BY LenProperties DEF SenderInv, TypeOK
<1>2. CASE SetFlexibleMode \/ SetInitialPictureID
  <2>1. given' = given /\ packets' = packets /\ renumbered \subseteq renumbered'
    BY <1>2 DEF SetFlexibleMode, SetInitialPictureID
  <2>2. SenderInv'
    BY <1>1, <1>2, SetFlexibleModeStep, SetInitialPictureIDStep
  <2> QED
    BY <2>1, <2>2 DEF GivenStays
<1>3. ASSUME NEW size \in FrameSizes, Packetize(size)
      PROVE  /\ SenderInv' /\ GivenStays
             /\ Len(packets) <= Len(packets') /\ Len(given) <= Len(given')
             /\ renumbered \subseteq renumbered'
             /\ \A p \in Position(packets) : packets'[p] = packets[p]
  <2>1. Len(given') = g + 1 /\ packets' = packets /\ renumbered' = renumbered
    BY <1>3, AppendGrows DEF Packetize, SenderInv, TypeOK
  <2>2. SenderInv' /\ GivenStays
    BY <1>1, <1>3, PacketizeStep
  <2> QED
    BY <2>1, <2>2
<1>4. CASE Fragment
  <2>1. given' = given /\ packets' = packets /\ renumbered' = renumbered
    BY <1>4 DEF Fragment
  <2>2. SenderInv'
    BY <1>1, <1>4, FragmentStep
  <2> QED
    BY <2>1, <2>2 DEF GivenStays
<1>5. CASE Return
  <2>1. given' = given /\ renumbered' = renumbered
    BY <1>5 DEF Return
  <2>2. /\ SenderInv' /\ Len(packets) <= Len(packets')
        /\ \A p \in Position(packets) : packets'[p] = packets[p]
    BY <1>1, <1>5, ReturnStep
  <2> QED
    BY <2>1, <2>2 DEF GivenStays
<1> QED
  BY <1>2, <1>3, <1>4, <1>5 DEF Send, PacketizerNext

-----------------------------------------------------------------------------
(* The receiver.                                                           *)

\* Growing what was given and sent changes nothing in what was received.
LEMMA ReceiverStays ==
    ASSUME SenderInv, MixedInv, LocalInv, GivenStays,
           UNCHANGED <<receiverVars, transportVars>>,
           Len(packets) <= Len(packets'), Len(given) <= Len(given'),
           Len(given') \in Nat,
           renumbered \subseteq renumbered',
           \A p \in Position(packets) : packets'[p] = packets[p]
    PROVE  MixedInv' /\ LocalInv'
<1> PICK g \in Nat, h \in Nat, n \in Nat :
       g = Len(given) /\ h = Len(given') /\ n = Len(packets)
  BY LenProperties DEF SenderInv, TypeOK
<1>1. /\ rcvd \in 0..n /\ lost \subseteq 1..rcvd
      /\ PictureID' = PictureID /\ vp9Frame' = vp9Frame /\ isOpen' = isOpen /\ frames' = frames
      /\ rcvd' = rcvd /\ lost' = lost
  BY DEF SenderInv, TypeOK, receiverVars, transportVars
<1>2. \A p \in 1..rcvd : p \in 1..n /\ packets'[p] = packets[p]
  BY <1>1 DEF Position
<1>3. \A f \in 1..g : f \in 1..h /\ given'[f] = given[f]
  BY DEF GivenStays, Position
<1>4. \A p \in 1..rcvd : packets[p].frame \in 1..g
  BY <1>2, PayloadFacts DEF SenderInv, TypeOK, Position
<1>5. MixedInv'
  <2> SUFFICES ASSUME AllDistinct'
               PROVE  /\ isOpen' => \E p \in 1..rcvd' :
                             /\ PictureID' = packets'[p].id
                             /\ OneFrame(vp9Frame', packets'[p].frame)
                      /\ \A i \in Position(frames') : \E f \in Position(given') :
                             OneFrame(frames'[i], f) /\ Last(frames'[i]) = <<f, given'[f] - 1>>
    BY DEF MixedInv, OneFrame, Position
  <2>1. AllDistinct
    <3>1. h <= WrapId /\ renumbered' \subseteq {0}
      BY DEF AllDistinct
    <3>2. g <= WrapId
      BY <3>1, WidthAssumption
    <3> QED
      BY <3>1, <3>2 DEF AllDistinct
  <2>2. ASSUME isOpen
        PROVE  \E p \in 1..rcvd' :
                  PictureID' = packets'[p].id /\ OneFrame(vp9Frame', packets'[p].frame)
    <3>1. PICK p \in 1..rcvd : PictureID = packets[p].id /\ OneFrame(vp9Frame, packets[p].frame)
      BY <2>1, <2>2 DEF MixedInv
    <3>2. packets'[p] = packets[p] /\ p \in 1..rcvd'
      BY <1>1, <1>2
    <3> QED
      BY <1>1, <3>1, <3>2
  <2>3. ASSUME NEW i \in Position(frames)
        PROVE  \E f \in Position(given') :
                  OneFrame(frames[i], f) /\ Last(frames[i]) = <<f, given'[f] - 1>>
    <3>1. PICK f \in 1..g : OneFrame(frames[i], f) /\ Last(frames[i]) = <<f, given[f] - 1>>
      BY <2>1 DEF MixedInv, Position
    <3> QED
      BY <1>3, <3>1 DEF Position
  <2> QED
    BY <1>1, <2>2, <2>3 DEF Position
<1>6. LocalInv'
  <2>1. ASSUME NEW f PROVE Intact(f)' = Intact(f)
    BY <1>1, <1>2 DEF Intact
  <2>2. ASSUME NEW p \in 1..rcvd PROVE Whole(packets[p].frame)' = Whole(packets[p].frame)
    BY <1>2, <1>3, <1>4 DEF Whole
  <2>3. ASSUME NEW p \in 1..rcvd', packets'[p].e, Intact(packets[p].frame)'
        PROVE  Whole(packets[p].frame)' \in Range(frames')
    <3>1. PICK f : f = packets[p].frame
      OBVIOUS
    <3>2. p \in 1..rcvd /\ packets'[p] = packets[p]
      BY <1>1, <1>2
    <3>3. Intact(f)'
      BY <2>3, <3>1, <3>2 DEF Intact
    <3>4. packets[p].e /\ Intact(f)
      BY <2>1, <2>3, <3>2, <3>3
    <3>5. Whole(f) \in Range(frames)
      BY <3>1, <3>2, <3>4 DEF LocalInv
    <3> QED
      BY <1>1, <2>2, <3>1, <3>2, <3>5
  <2>4. ASSUME rcvd' > 0, ~packets'[rcvd'].e, Intact(packets[rcvd].frame)'
        PROVE  /\ isOpen' /\ PictureID' = packets'[rcvd'].id
               /\ vp9Frame' = Bytes(packets'[rcvd'].frame, 0, packets'[rcvd'].to)
    <3>1. PICK f : f = packets[rcvd].frame
      OBVIOUS
    <3>2. rcvd \in 1..rcvd /\ packets'[rcvd] = packets[rcvd]
      BY <1>1, <1>2, <2>4
    <3>3. Intact(f)'
      BY <1>1, <2>4, <3>1, <3>2 DEF Intact
    <3>4. Intact(f)
      BY <2>1, <3>3
    <3> QED
      BY <1>1, <2>4, <3>1, <3>2, <3>4 DEF LocalInv
  <2> QED
    BY <2>3, <2>4 DEF LocalInv
<1> QED
  BY <1>5, <1>6

\* What a lost packet leaves.
LEMMA LoseStep ==
    ASSUME SenderInv, MixedInv, LocalInv, Lose
    PROVE  IndInv'
<1> USE DEF Lose, packetizerVars, receiverVars
<1> PICK n \in Nat : n = Len(packets)
  BY LenProperties DEF SenderInv, TypeOK
<1>1. rcvd \in Nat /\ rcvd + 1 \in 1..n /\ rcvd' = rcvd + 1 /\ lost' = lost \cup {rcvd + 1}
      /\ lost \subseteq 1..rcvd
  BY DEF SenderInv, TypeOK
<1>2. SenderInv'
  <2>1. TypeOK'
    <3>1. rcvd' \in 0..n /\ lost' \subseteq 1..rcvd'
      BY <1>1
    <3> QED
      BY <3>1 DEF SenderInv, TypeOK, PayloadType
  <2>2. CallInv' /\ IdInv'
    BY DEF SenderInv, CallInv, IdInv, Position, NextCall, Kept, Frame, Refuses, minInt,
           maxFragmentSize, headerSize
  <2> QED
    BY <2>1, <2>2, PayloadsStay DEF SenderInv
<1>3. MixedInv'
  <2>1. \A p \in 1..rcvd : p \in 1..rcvd'
    BY <1>1
  <2> QED
    BY <2>1 DEF MixedInv, AllDistinct, OneFrame, Position
<1>4. LocalInv'
  <2>1. \A f : Intact(f)' => Intact(f) /\ packets[rcvd + 1].frame # f
    BY <1>1 DEF Intact
  <2>2. \A f : Whole(f)' = Whole(f)
    BY DEF Whole
  <2>3. \A p \in 1..(rcvd + 1) : p \in 1..rcvd \/ p = rcvd + 1
    BY <1>1
  <2>4. ASSUME NEW p \in 1..(rcvd + 1), packets[p].e, Intact(packets[p].frame)'
        PROVE  Whole(packets[p].frame) \in Range(frames)
    <3>1. PICK f : f = packets[p].frame
      OBVIOUS
    <3>2. Intact(f)'
      BY <2>4, <3>1 DEF Intact
    <3>3. Intact(f) /\ packets[rcvd + 1].frame # f
      BY <2>1, <3>2
    <3> QED
      BY <2>3, <2>4, <3>1, <3>3 DEF LocalInv
  <2>5. PICK h : h = packets[rcvd + 1].frame /\ ~Intact(h)'
    BY <1>1 DEF Intact
  <2>6. \A p \in 1..rcvd' : packets'[p].e /\ Intact(packets[p].frame)' =>
           Whole(packets[p].frame)' \in Range(frames')
    BY <1>1, <2>2, <2>4
  <2>7. ~Intact(packets[rcvd].frame)'
    <3>1. packets'[rcvd'].frame = h
      BY <1>1, <2>5
    <3> QED
      BY <2>5, <3>1 DEF Intact
  <2> QED
    BY <2>6, <2>7 DEF LocalInv
<1> QED
  BY <1>2, <1>3, <1>4 DEF IndInv

\* Two packets with one identifier are of one frame, where no two frames share one.
LEMMA SameFrame ==
    ASSUME SenderInv, AllDistinct, NEW p \in Position(packets), NEW q \in Position(packets),
           p <= q, packets[p].id = packets[q].id
    PROVE  packets[p].frame = packets[q].frame
<1> PICK g \in Nat : g = Len(given)
  BY LenProperties DEF SenderInv, TypeOK
<1>1. PICK f \in 1..g, h \in 1..g, i \in 0 .. WrapId - 1 :
         f = packets[p].frame /\ h = packets[q].frame /\ i = packets[p].id
  BY PayloadFacts DEF SenderInv, TypeOK
<1>2. f <= h
  BY <1>1 DEF SenderInv, WholeFrames
<1>3. Kept(f, h)
  BY <1>1 DEF Kept, AllDistinct
<1>4. i = (i + h - f) % WrapId
  BY <1>1, <1>2, <1>3 DEF SenderInv, IdInv
<1>5. h - f \in 0 .. WrapId - 1 /\ i + h - f = i + (h - f)
  BY <1>2, WidthAssumption DEF AllDistinct
<1>6. h - f = 0
  BY <1>4, <1>5, WidthAssumption, SameRemainder
<1> QED
  BY <1>1, <1>6

\* A part of a frame goes behind parts of the same frame.
LEMMA OneFrameGrows ==
    ASSUME NEW s \in Seq(Nat \X Nat), NEW f \in Nat, NEW a \in Nat, NEW b \in Nat, a <= b,
           (s = <<>> /\ a = 0 /\ a < b) \/ OneFrame(s, f)
    PROVE  /\ s \o Bytes(f, a, b) \in Seq(Nat \X Nat)
           /\ OneFrame(s \o Bytes(f, a, b), f)
           /\ a < b => Last(s \o Bytes(f, a, b)) = <<f, b - 1>>
<1> PICK t : t = Bytes(f, a, b)
  OBVIOUS
<1> PICK new : new = s \o t
  OBVIOUS
<1>1. /\ t \in Seq(Nat \X Nat) /\ Len(t) = b - a
      /\ \A i \in 1..(b - a) : t[i] = <<f, a + i - 1>>
  BY BytesType
<1> PICK n \in Nat, m \in Nat : n = Len(s) /\ m = b - a
  BY LenProperties
<1>2. /\ new \in Seq(Nat \X Nat) /\ Len(new) = n + m
      /\ \A i \in 1..n : new[i] = s[i]
      /\ \A i \in 1..m : new[n + i] = t[i]
  <2>1. s \in Seq(Nat \X Nat) /\ t \in Seq(Nat \X Nat)
    BY <1>1
  <2>2. /\ s \o t \in Seq(Nat \X Nat) /\ Len(s \o t) = Len(s) + Len(t)
        /\ \A i \in 1..Len(s) : (s \o t)[i] = s[i]
        /\ \A i \in 1..Len(t) : (s \o t)[Len(s) + i] = t[i]
    BY ONLY <2>1, ConcatGrows
  <2>3. /\ new \in Seq(Nat \X Nat) /\ Len(new) = Len(s) + Len(t)
        /\ \A i \in 1..Len(s) : new[i] = s[i]
        /\ \A i \in 1..Len(t) : new[Len(s) + i] = t[i]
    BY ONLY <2>2, new = s \o t
  <2>4. Len(s) = n /\ Len(t) = m
    BY <1>1
  <2> QED
    BY ONLY <2>3, <2>4
<1>3. \A p \in 1..(n + m) : p \in 1..n \/ \E k \in 1..m : p = n + k
  BY ConcatPosition
<1>4. n = 0 => s = <<>>
  BY EmptySeq
<1>5. \A i \in 1..m : t[i][1] = f
  <2>1. \A c, d : <<c, d>>[1] = c
    OBVIOUS
  <2>2. \A i \in 1..m : t[i] = <<f, a + i - 1>>
    BY <1>1
  <2> QED
    BY <2>1, <2>2
<1>6. n > 0 => OneFrame(s, f)
  BY EmptySeq
<1>7. new[1] = <<f, 0>> /\ n + m > 0
  <2>1. CASE n = 0
    <3>1. a = 0 /\ a < b
      BY <1>4, <2>1 DEF OneFrame
    <3>2. 1 \in 1..m /\ n + 1 = 1 /\ a + 1 - 1 = 0
      BY <2>1, <3>1
    <3>3. t[1] = <<f, 0>>
      BY <1>1, <3>2
    <3> QED
      BY SMTT(30), <1>2, <2>1, <3>2, <3>3
  <2>2. CASE n > 0
    <3>1. 1 \in 1..n /\ s[1] = <<f, 0>>
      BY <1>6, <2>2 DEF OneFrame
    <3> QED
      BY <1>2, <2>2, <3>1
  <2>3. n = 0 \/ n > 0
    OBVIOUS
  <2> QED
    BY <2>1, <2>2, <2>3
<1>8. ASSUME NEW p \in 1..(n + m) PROVE new[p][1] = f
  <2>1. CASE p \in 1..n
    <3>1. s[p][1] = f
      BY <1>6, <2>1 DEF OneFrame, Position
    <3> QED
      BY <1>2, <2>1, <3>1
  <2>2. CASE p \notin 1..n
    <3>1. PICK k \in 1..m : p = n + k
      BY <1>3, <2>2
    <3> QED
      BY <1>2, <1>5, <3>1
  <2> QED
    BY <2>1, <2>2
<1>9. new # <<>>
  BY <1>2, <1>7, EmptySeq
<1>10. OneFrame(new, f)
  BY <1>2, <1>7, <1>8, <1>9 DEF OneFrame, Position
<1>11. a < b => Last(new) = <<f, b - 1>>
  <2> SUFFICES ASSUME a < b PROVE Last(new) = <<f, b - 1>>
    OBVIOUS
  <2>1. m \in 1..m /\ a + m - 1 = b - 1
    OBVIOUS
  <2>2. t[m] = <<f, b - 1>>
    BY <1>1, <2>1
  <2> QED
    BY <1>2, <2>1, <2>2 DEF Last
<1> QED
  BY <1>2, <1>10, <1>11

\* The application marks no packet but the end of a frame.
LEMMA MarkedIsEnd ==
    ASSUME SenderInv, NEW p \in Position(packets), NEW marker \in MarkersOf(p), marker
    PROVE  packets[p].e
<1> PICK n \in Nat : n = Len(packets)
  BY LenProperties DEF SenderInv, TypeOK
<1>1. p \in 1..n /\ (p = n \/ packets[p + 1].frame # packets[p].frame)
  BY DEF MarkersOf, Position
<1>2. PICK q \in p..n : packets[q].frame = packets[p].frame /\ packets[q].e
  BY <1>1 DEF SenderInv, WholeFrames, Position
<1>3. CASE q = p
  BY <1>2, <1>3
<1>4. CASE q # p
  <2>1. p \in 1..n /\ q \in 1..n /\ p + 1 \in 1..n /\ p <= p + 1 /\ p + 1 <= q /\ p # n
    BY <1>1, <1>4
  <2>2. /\ packets[p].frame \in Nat /\ packets[p + 1].frame \in Nat
        /\ packets[p].frame <= packets[p + 1].frame
        /\ packets[p + 1].frame <= packets[q].frame
    <3>1. \A i \in 1..n : packets[i].frame \in Nat
      BY PayloadFacts DEF SenderInv, TypeOK, Position
    <3>2. \A i, j \in 1..n : i <= j => packets[i].frame <= packets[j].frame
      BY DEF SenderInv, WholeFrames, Position
    <3> QED
      BY <2>1, <3>1, <3>2
  <2>3. packets[p + 1].frame = packets[p].frame
    BY <1>2, <2>2
  <2> QED
    BY <1>1, <2>1, <2>3
<1> QED
  BY <1>3, <1>4

\* A packet that arrives goes on with what arrived of its frame, or with nothing.
LEMMA ReceiveStep ==
    ASSUME SenderInv, MixedInv, LocalInv, Receive
    PROVE  IndInv'
<1> PICK n, r : n \in Nat /\ n = Len(packets) /\ r = rcvd + 1
  BY LenProperties DEF SenderInv, TypeOK
<1>1. /\ rcvd \in Nat /\ r \in 1..n /\ rcvd' = r /\ r - 1 = rcvd /\ lost \subseteq 1..rcvd
      /\ lost' = lost /\ UNCHANGED packetizerVars
  BY DEF Receive, SenderInv, TypeOK
<1> PICK x : x = packets[r]
  OBVIOUS
<1> PICK f, a, b : f = x.frame /\ a = x.from /\ b = x.to
  OBVIOUS
<1>2. /\ x \in PayloadType /\ f \in 1..Len(given) /\ f \in Nat /\ given[f] \in Nat
      /\ a \in Nat /\ b \in Nat /\ x.b \in BOOLEAN /\ x.e \in BOOLEAN
      /\ x.id \in 0 .. WrapId - 1
  BY <1>1, PayloadFacts DEF SenderInv, TypeOK, Position
<1>3. /\ a <= b /\ 0 < b /\ b <= given[f] /\ (x.b <=> a = 0) /\ (x.e <=> b = given[f])
      /\ x.e => a < b
      /\ ~x.b => r > 1 /\ GoesOn(packets[r - 1], x)
  BY <1>1 DEF SenderInv, Chain, Sound, Position
<1> DEFINE goesOn == ~x.b /\ isOpen /\ PictureID = x.id
<1> PICK base : base = IF goesOn THEN vp9Frame ELSE <<>>
  OBVIOUS
<1> PICK bytes : bytes = Bytes(f, a, b)
  OBVIOUS
<1> PICK all : all = base \o bytes
  OBVIOUS
<1>4. /\ PictureID' = x.id /\ vp9Frame' = all
      /\ isOpen' = ((x.b \/ goesOn) /\ ~x.e)
      /\ frames' = IF (x.b \/ goesOn) /\ x.e THEN Append(frames, all) ELSE frames
  <2>1. PICK marker \in MarkersOf(r) : Depacketize(marker, x)
    BY DEF Receive
  <2>2. IsPartitionTail(marker, x) <=> x.e
    BY <1>1, <2>1, MarkedIsEnd DEF IsPartitionTail, Position
  <2>3. marker \in BOOLEAN /\ x.e \in BOOLEAN
    BY <1>2 DEF MarkersOf
  <2>4. PICK tail \in BOOLEAN : tail = IsPartitionTail(marker, x) /\ tail = x.e
    BY <2>2, <2>3, Zenon DEF IsPartitionTail
  <2> QED
    BY <2>1, <2>4 DEF Depacketize, IsPartitionHead, PayloadBytes
<1>5. /\ base \in Seq(Nat \X Nat) /\ bytes \in Seq(Nat \X Nat) /\ all \in Seq(Nat \X Nat)
      /\ vp9Frame \in Seq(Nat \X Nat) /\ frames \in Seq(Seq(Nat \X Nat))
  <2>1. vp9Frame \in Seq(Nat \X Nat) /\ frames \in Seq(Seq(Nat \X Nat))
    BY DEF SenderInv, TypeOK
  <2>2. bytes \in Seq(Nat \X Nat)
    BY <1>2, <1>3, BytesType
  <2>3. base \in Seq(Nat \X Nat)
    BY <2>1, EmptySeq
  <2> QED
    BY <2>1, <2>2, <2>3, ConcatProperties
<1>6. /\ frames' \in Seq(Seq(Nat \X Nat)) /\ Len(frames) \in Nat
      /\ Len(frames') = IF (x.b \/ goesOn) /\ x.e THEN Len(frames) + 1 ELSE Len(frames)
      /\ \A i \in 1..Len(frames) : frames'[i] = frames[i]
      /\ (x.b \/ goesOn) /\ x.e => frames'[Len(frames) + 1] = all
  <2>1. CASE (x.b \/ goesOn) /\ x.e
    <3>1. frames' = Append(frames, all)
      BY <1>4, <2>1
    <3>2. frames \in Seq(Seq(Nat \X Nat)) /\ all \in Seq(Nat \X Nat)
      BY <1>5
    <3>3. /\ Append(frames, all) \in Seq(Seq(Nat \X Nat)) /\ Len(frames) \in Nat
          /\ Len(Append(frames, all)) = Len(frames) + 1
          /\ \A i \in 1..Len(frames) : Append(frames, all)[i] = frames[i]
          /\ Append(frames, all)[Len(frames) + 1] = all
      BY ONLY <3>2, AppendGrows
    <3> QED
      BY <2>1, <3>1, <3>3
  <2>2. CASE ~((x.b \/ goesOn) /\ x.e)
    <3>1. frames' = frames
      BY <1>4, <2>2
    <3> QED
      BY <1>5, <2>2, <3>1, LenProperties
  <2> QED
    BY <2>1, <2>2
<1>7. SenderInv'
  <2> USE <1>1 DEF packetizerVars
  <2>1. TypeOK'
    <3>1. rcvd' \in 0..n /\ lost' \subseteq 1..rcvd'
      OBVIOUS
    <3>2. PictureID' \in 0 .. WrapId - 1 /\ isOpen' \in BOOLEAN /\ vp9Frame' \in Seq(Nat \X Nat)
      BY <1>2, <1>4, <1>5
    <3> QED
      BY <1>6, <3>1, <3>2 DEF SenderInv, TypeOK, PayloadType
  <2>2. CallInv' /\ IdInv'
    BY DEF SenderInv, CallInv, IdInv, Position, NextCall, Kept, Frame, Refuses, minInt,
           maxFragmentSize, headerSize
  <2> QED
    BY <2>1, <2>2, PayloadsStay DEF SenderInv
<1>8. given' = given /\ packets' = packets /\ renumbered' = renumbered
  BY <1>1 DEF packetizerVars
<1>9. MixedInv'
  <2> SUFFICES ASSUME AllDistinct
               PROVE  /\ isOpen' => \E p \in 1..r :
                             PictureID' = packets[p].id /\ OneFrame(vp9Frame', packets[p].frame)
                      /\ \A i \in Position(frames') : \E h \in Position(given) :
                             OneFrame(frames'[i], h) /\ Last(frames'[i]) = <<h, given[h] - 1>>
    BY <1>1, <1>8 DEF MixedInv, AllDistinct, OneFrame, Position
  <2>1. ASSUME goesOn PROVE OneFrame(vp9Frame, f)
    <3>1. PICK p \in 1..rcvd : PictureID = packets[p].id /\ OneFrame(vp9Frame, packets[p].frame)
      BY <2>1 DEF MixedInv
    <3>2. p \in Position(packets) /\ r \in Position(packets) /\ p <= r
      BY <1>1 DEF Position
    <3>3. packets[p].id = packets[r].id
      BY <2>1, <3>1
    <3>4. packets[p].frame = packets[r].frame
      BY <3>2, <3>3, SameFrame
    <3> QED
      BY <3>1, <3>4
  <2>2. ASSUME x.b \/ goesOn
        PROVE  OneFrame(all, f) /\ (x.e => Last(all) = <<f, given[f] - 1>>)
    <3>1. (base = <<>> /\ a = 0 /\ a < b) \/ OneFrame(base, f)
      BY <1>2, <1>3, <2>1, <2>2
    <3>2. OneFrame(all, f) /\ (a < b => Last(all) = <<f, b - 1>>)
      <4>1. all = base \o Bytes(f, a, b)
        OBVIOUS
      <4>2. f \in Nat /\ a \in Nat /\ b \in Nat /\ a <= b /\ base \in Seq(Nat \X Nat)
        BY <1>2, <1>3, <1>5
      <4> QED
        BY ONLY <3>1, <4>1, <4>2, OneFrameGrows
    <3> QED
      BY <1>3, <3>2
  <2>3. ASSUME isOpen'
        PROVE  \E p \in 1..r : PictureID' = packets[p].id /\ OneFrame(vp9Frame', packets[p].frame)
    <3>1. r \in 1..r
      BY <1>1
    <3>2. PictureID' = packets[r].id /\ OneFrame(vp9Frame', packets[r].frame)
      BY <1>4, <2>2, <2>3
    <3> QED
      BY <3>1, <3>2
  <2>4. ASSUME NEW i \in Position(frames')
        PROVE  \E h \in Position(given) :
                  OneFrame(frames'[i], h) /\ Last(frames'[i]) = <<h, given[h] - 1>>
    <3>1. CASE i \in 1..Len(frames)
      BY <1>6, <3>1 DEF MixedInv, Position
    <3>2. CASE i \notin 1..Len(frames)
      <4>1. (x.b \/ goesOn) /\ x.e /\ i = Len(frames) + 1
        BY SMTT(30), <1>6, <3>2 DEF Position
      <4> QED
        BY <1>2, <1>6, <2>2, <4>1 DEF Position
    <3> QED
      BY <3>1, <3>2
  <2> QED
    BY <2>3, <2>4
<1>10. LocalInv'
  <2>1. \A h : Intact(h)' = Intact(h) /\ Whole(h)' = Whole(h)
    BY <1>1, <1>8 DEF Intact, Whole
  <2>2. Range(frames) \subseteq Range(frames')
    <3>1. DOMAIN frames = 1..Len(frames) /\ DOMAIN frames' = 1..Len(frames')
      BY <1>5, <1>6, LenProperties
    <3>2. 1..Len(frames) \subseteq 1..Len(frames')
      BY SMTT(30), <1>6
    <3> QED
      BY <1>6, <3>1, <3>2 DEF Range
  <2>3. ASSUME Intact(f)
        PROVE  (x.b \/ goesOn) /\ all = Bytes(f, 0, b)
    <3>1. CASE x.b
      <4>1. base = <<>> /\ a = 0
        BY <1>3, <3>1
      <4> QED
        BY <1>5, <3>1, <4>1, ConcatEmptySeq
    <3>2. CASE ~x.b
      <4>1. r > 1 /\ GoesOn(packets[rcvd], x)
        BY <1>1, <1>3, <3>2
      <4>2. rcvd > 0 /\ ~packets[rcvd].e /\ packets[rcvd].frame = f
        BY <1>1, <4>1 DEF GoesOn
      <4>3. /\ isOpen /\ PictureID = packets[rcvd].id
            /\ vp9Frame = Bytes(packets[rcvd].frame, 0, packets[rcvd].to)
        BY <2>3, <4>2 DEF LocalInv
      <4>4. goesOn /\ base = Bytes(f, 0, a)
        BY <3>2, <4>1, <4>3 DEF GoesOn
      <4>5. Bytes(f, 0, a) \o Bytes(f, a, b) = Bytes(f, 0, b)
        <5>1. f \in Nat /\ a \in Nat /\ b \in Nat /\ a <= b
          BY <1>2, <1>3
        <5> QED
          BY ONLY <5>1, BytesPrefix
      <4>6. all = Bytes(f, 0, a) \o Bytes(f, a, b)
        BY <4>4
      <4> QED
        BY <4>4, <4>5, <4>6
    <3> QED
      BY <3>1, <3>2
  <2>4. ASSUME Intact(f), x.e PROVE Whole(f) \in Range(frames')
    <3>1. all = Whole(f) /\ (x.b \/ goesOn)
      BY <1>3, <2>3, <2>4 DEF Whole
    <3>2. frames'[Len(frames) + 1] = all /\ Len(frames') = Len(frames) + 1
      BY <1>6, <2>3, <2>4
    <3>3. Len(frames) + 1 \in DOMAIN frames'
      <4>1. DOMAIN frames' = 1..Len(frames')
        BY <1>6, LenProperties
      <4>2. Len(frames) + 1 \in 1..(Len(frames) + 1)
        BY SMTT(30), <1>6
      <4> QED
        BY <3>2, <4>1, <4>2
    <3> QED
      BY <1>3, <2>3, <2>4, <3>2, <3>3 DEF Range, Whole
  <2>5. ASSUME NEW p \in 1..r, packets[p].e, Intact(packets[p].frame)
        PROVE  Whole(packets[p].frame) \in Range(frames')
    <3>1. CASE p \in 1..rcvd
      BY <2>2, <2>5, <3>1 DEF LocalInv
    <3>2. CASE p \notin 1..rcvd
      <4>1. p = r
        BY <1>1, <3>2
      <4> QED
        BY <2>4, <2>5, <4>1
    <3> QED
      BY <3>1, <3>2
  <2>6. ASSUME ~x.e, Intact(f)
        PROVE  isOpen' /\ PictureID' = x.id /\ vp9Frame' = Bytes(f, 0, b)
    BY <1>4, <2>3, <2>6
  <2>7. \A p \in 1..rcvd' : packets'[p].e /\ Intact(packets[p].frame)' =>
           Whole(packets[p].frame)' \in Range(frames')
    BY <1>1, <1>8, <2>5 DEF Intact, Whole
  <2>8. rcvd' > 0 /\ ~packets'[rcvd'].e /\ Intact(packets[rcvd].frame)' =>
           /\ isOpen' /\ PictureID' = packets'[rcvd'].id
           /\ vp9Frame' = Bytes(packets'[rcvd'].frame, 0, packets'[rcvd'].to)
    <3>1. packets'[rcvd'] = x
      BY <1>1, <1>8
    <3>2. Intact(packets[rcvd].frame)' => Intact(f)
      BY <1>1, <1>8, <3>1 DEF Intact
    <3> QED
      BY <2>6, <3>1, <3>2
  <2> QED
    BY <2>7, <2>8 DEF LocalInv
<1> QED
  BY <1>7, <1>9, <1>10 DEF IndInv

-----------------------------------------------------------------------------
(* The specification.                                                      *)

\* The initial states are in the invariant.
LEMMA InitInd == Init => IndInv
<1> SUFFICES ASSUME Init PROVE IndInv
  OBVIOUS
<1> USE DEF Init, PacketizerInit
<1>0. \A S : <<>> \in Seq(S)
  BY EmptySeq
<1>1. Len(<<>>) = 0 /\ 1..0 = {}
  BY EmptySeq
<1>2. TypeOK
  <2>1. given \in Seq(FrameSizes) /\ payloads \in Seq(PayloadType)
        /\ packets \in Seq(PayloadType) /\ vp9Frame \in Seq(Nat \X Nat)
        /\ frames \in Seq(Seq(Nat \X Nat))
    BY <1>0
  <2>2. 0 \in 0 .. WrapId - 1 /\ rcvd \in 0..Len(packets)
    BY <1>1, WidthAssumption
  <2> QED
    BY <2>1, <2>2 DEF TypeOK
<1>3. Position(payloads) = {} /\ Position(packets) = {} /\ Position(given) = {}
      /\ Position(frames) = {}
  BY <1>1 DEF Position
<1>4. Chain(payloads) /\ Chain(packets) /\ CallInv /\ SizeInv /\ WholeFrames /\ IdInv
  BY <1>3 DEF Chain, CallInv, SizeInv, WholeFrames, IdInv
<1>5. MixedInv /\ LocalInv
  BY <1>1, <1>3 DEF MixedInv, LocalInv
<1> QED
  BY <1>2, <1>4, <1>5 DEF IndInv, SenderInv

\* Every step keeps the invariant.
LEMMA NextInd == IndInv /\ [Next]_vars => IndInv'
<1> SUFFICES ASSUME IndInv, [Next]_vars PROVE IndInv'
  OBVIOUS
<1>1. SenderInv /\ MixedInv /\ LocalInv
  BY DEF IndInv
<1>2. CASE Send
  <2>1. /\ SenderInv' /\ GivenStays
        /\ Len(packets) <= Len(packets') /\ Len(given) <= Len(given')
        /\ renumbered \subseteq renumbered'
        /\ \A p \in Position(packets) : packets'[p] = packets[p]
    BY <1>1, <1>2, SenderStep
  <2>2. Len(given') \in Nat
    BY <2>1, LenProperties DEF SenderInv, TypeOK
  <2>3. UNCHANGED <<receiverVars, transportVars>>
    BY <1>2 DEF Send
  <2>4. MixedInv' /\ LocalInv'
    BY <1>1, <2>1, <2>2, <2>3, ReceiverStays
  <2> QED
    BY <2>1, <2>4 DEF IndInv
<1>3. CASE Receive
  BY <1>1, <1>3, ReceiveStep
<1>4. CASE Lose
  BY <1>1, <1>4, LoseStep
<1>5. CASE UNCHANGED vars
  <2>1. SenderInv'
    <3>1. TypeOK'
      BY <1>1, <1>5 DEF SenderInv, TypeOK, PayloadType, vars, packetizerVars, receiverVars,
                        transportVars
    <3>2. CallInv' /\ IdInv'
      BY <1>1, <1>5 DEF SenderInv, CallInv, IdInv, Position, NextCall, Kept, Frame, Refuses,
                        minInt, maxFragmentSize, headerSize, vars, packetizerVars
    <3> QED
      BY <1>1, <1>5, <3>1, <3>2, PayloadsStay DEF SenderInv, vars, packetizerVars
  <2>2. MixedInv'
    BY <1>1, <1>5 DEF MixedInv, AllDistinct, OneFrame, Position, vars, packetizerVars,
                      receiverVars, transportVars
  <2>3. LocalInv'
    BY <1>1, <1>5 DEF LocalInv, Intact, Whole, Position, vars, packetizerVars,
                      receiverVars, transportVars
  <2> QED
    BY <2>1, <2>2, <2>3 DEF IndInv
<1> QED
  BY <1>2, <1>3, <1>4, <1>5 DEF Next

\* The fragments of a frame follow each other under one identifier, calls hand over
\* whole frames in order with identifiers that count the calls, and the application
\* holds what has arrived of a frame that lost nothing (vp9_packetizer.cc:92-160 and
\* vp9_depacketizer.cc).
THEOREM Invariant == Spec => []IndInv
BY InitInd, NextInd, PTL DEF Spec

\* The members keep the shape their declarations give them, the identifier its 15 bits.
THEOREM TypeCorrect == Spec => []TypeOK
<1>1. IndInv => TypeOK
  BY DEF IndInv, SenderInv
<1> QED
  BY <1>1, Invariant, PTL

\* With room for the descriptor, every payload fits the MTU, and identifiers count the
\* calls of Packetize modulo 15 bits, refused ones included.
THEOREM Identifiers ==
    ASSUME Mtu >= 5
    PROVE  Spec => []IdsCountCalls
<1>1. IndInv => IdsCountCalls
  <2> SUFFICES ASSUME IndInv PROVE IdsCountCalls
    OBVIOUS
  <2>1. SizeInv /\ IdInv
    BY DEF IndInv, SenderInv
  <2> QED
    BY <2>1 DEF SizeInv, IdInv, IdsCountCalls, Kept
<1> QED
  BY <1>1, Invariant, PTL

\* The first and the last byte of a frame of the sender.
LEMMA WholeEnds ==
    ASSUME NEW f \in Nat, given[f] \in Nat, given[f] > 0
    PROVE  Head(Whole(f)) = <<f, 0>> /\ Last(Whole(f)) = <<f, given[f] - 1>>
<1> PICK k, w : k = given[f] /\ w = Bytes(f, 0, k)
  OBVIOUS
<1>0. f \in Nat /\ k \in Nat /\ k > 0 /\ 0 \in Nat /\ 0 <= k
  OBVIOUS
<1>1. /\ w \in Seq(Nat \X Nat) /\ Len(w) = k - 0
      /\ \A i \in 1..(k - 0) : w[i] = <<f, 0 + i - 1>>
  BY ONLY <1>0, BytesType, w = Bytes(f, 0, k)
<1>2. 1 \in 1..(k - 0) /\ k \in 1..(k - 0) /\ k - 0 = k /\ 0 + 1 - 1 = 0 /\ 0 + k - 1 = k - 1
  BY <1>0
<1>3. w[1] = <<f, 0>> /\ w[Len(w)] = <<f, k - 1>>
  BY <1>1, <1>2
<1>4. Head(w) = w[1] /\ Last(w) = w[Len(w)]
  BY <1>1 DEF Last
<1> QED
  BY <1>3, <1>4 DEF Whole

\* A frame the application takes for complete is of one sender frame, from its first
\* byte to its last, whatever was lost, while no two frames share an identifier.
THEOREM Unmixed == Spec => []NeverMixed
<1>1. IndInv => NeverMixed
  <2> SUFFICES ASSUME IndInv, AllDistinct, NEW i \in Position(frames)
               PROVE  /\ \A j \in Position(frames[i]) : frames[i][j][1] = FrameOf(frames[i])
                      /\ Head(frames[i]) = Head(Whole(FrameOf(frames[i])))
                      /\ Last(frames[i]) = Last(Whole(FrameOf(frames[i])))
    BY DEF NeverMixed, AllDistinct
  <2>1. PICK f \in Position(given) :
           OneFrame(frames[i], f) /\ Last(frames[i]) = <<f, given[f] - 1>>
    BY DEF IndInv, MixedInv
  <2>2. f \in Nat /\ given[f] \in Nat /\ given[f] > 0
    <3>1. given \in Seq(Nat)
      BY FrameSizesAssumption, SeqMonotone DEF IndInv, SenderInv, TypeOK
    <3>2. given[f] > 0
      BY DEF IndInv, SenderInv, CallInv
    <3>3. given[f] \in Nat
      BY <3>1, ElementOfSeq DEF Position
    <3> QED
      BY <3>2, <3>3, <2>1 DEF Position
  <2>3. frames[i] \in Seq(Nat \X Nat)
    BY DEF IndInv, SenderInv, TypeOK, Position
  <2>4. FrameOf(frames[i]) = f
    <3>1. <<f, 0>>[1] = f
      OBVIOUS
    <3> QED
      BY <2>1, <3>1 DEF FrameOf, OneFrame
  <2>5. Head(frames[i]) = <<f, 0>>
    <3>1. Head(frames[i]) = frames[i][1]
      BY <2>1, <2>3 DEF OneFrame
    <3> QED
      BY <2>1, <3>1 DEF OneFrame
  <2> QED
    BY <2>1, <2>2, <2>4, <2>5, WholeEnds DEF OneFrame, Position
<1> QED
  BY <1>1, Invariant, PTL

\* A frame none of whose packets was lost is complete once they have all arrived,
\* whatever was lost of the others.
THEOREM LossLocal == Spec => []LossIsLocal
<1>1. IndInv => LossIsLocal
  <2> SUFFICES ASSUME IndInv, NEW f \in Position(given),
                      NEW C, C = {p \in Position(packets) : packets[p].frame = f},
                      C # {}, C \subseteq 1..rcvd \ lost
               PROVE  Whole(f) \in Range(frames)
    BY DEF LossIsLocal
  <2>1. PICK p \in Position(packets) : packets[p].frame = f
    OBVIOUS
  <2>2. PICK q \in p..Len(packets) : packets[q].frame = f /\ packets[q].e
    BY <2>1 DEF IndInv, SenderInv, WholeFrames
  <2>3. q \in C
    <3>1. q \in Position(packets)
      BY LenProperties DEF Position, IndInv, SenderInv, TypeOK
    <3> QED
      BY <2>2, <3>1
  <2>4. lost \subseteq 1..rcvd /\ rcvd \in 0..Len(packets)
    BY DEF IndInv, SenderInv, TypeOK
  <2>5. Intact(f)
    <3> SUFFICES ASSUME NEW k \in lost, packets[k].frame = f PROVE FALSE
      BY DEF Intact
    <3>1. k \in Position(packets)
      BY <2>4, LenProperties DEF Position, IndInv, SenderInv, TypeOK
    <3> QED
      BY <3>1
  <2> QED
    BY <2>2, <2>3, <2>5 DEF IndInv, LocalInv
<1> QED
  BY <1>1, Invariant, PTL
=============================================================================
