----------------------------- MODULE VP8Proofs ------------------------------
(***************************************************************************)
(* Proofs about VP8Session, whatever the transport loses, for every MTU,   *)
(* every width of the identifiers and the sequence numbers, and frames of  *)
(* all sizes.                                                              *)
(***************************************************************************)
EXTENDS VP8Session, SequenceTheorems, TLAPS

-----------------------------------------------------------------------------
(* Sequences.                                                              *)

\* A sequence over a set is one over a larger set.
LEMMA SeqMonotone ==
    ASSUME NEW S, NEW T, S \subseteq T
    PROVE  Seq(S) \subseteq Seq(T)
OBVIOUS

\* Appending keeps what is there and adds one.
LEMMA AppendGrows ==
    ASSUME NEW S, NEW s \in Seq(S), NEW x \in S
    PROVE  /\ Append(s, x) \in Seq(S)
           /\ Len(s) \in Nat /\ Len(Append(s, x)) = Len(s) + 1
           /\ \A i \in 1..Len(s) : Append(s, x)[i] = s[i]
           /\ Append(s, x)[Len(s) + 1] = x
BY AppendProperties, LenProperties

\* Concatenating keeps what is there and adds the rest.
LEMMA ConcatGrows ==
    ASSUME NEW S, NEW s \in Seq(S), NEW t \in Seq(S)
    PROVE  /\ s \o t \in Seq(S)
           /\ Len(s) \in Nat /\ Len(t) \in Nat
           /\ Len(s \o t) = Len(s) + Len(t)
           /\ \A i \in 1..Len(s) : (s \o t)[i] = s[i]
           /\ \A i \in 1..Len(t) : (s \o t)[Len(s) + i] = t[i]
<1> PICK n \in Nat, m \in Nat : n = Len(s) /\ m = Len(t)
  BY LenProperties
<1>2. /\ s \o t \in Seq(S) /\ Len(s \o t) = n + m
      /\ \A i \in 1..(n + m) : (s \o t)[i] = IF i <= n THEN s[i] ELSE t[i - n]
  BY ConcatProperties
<1>3. \A i \in 1..n : i \in 1..(n + m) /\ i <= n
  OBVIOUS
<1>4. \A i \in 1..m : n + i \in 1..(n + m) /\ ~(n + i <= n) /\ (n + i) - n = i
  OBVIOUS
<1> QED
  BY <1>2, <1>3, <1>4

\* A position of a concatenation is one of its parts.
LEMMA ConcatPosition ==
    ASSUME NEW n \in Nat, NEW m \in Nat, NEW p \in 1..(n + m)
    PROVE  p \in 1..n \/ \E k \in 1..m : p = n + k
<1> SUFFICES ASSUME p \notin 1..n PROVE \E k \in 1..m : p = n + k
  OBVIOUS
<1>1. p - n \in 1..m /\ p = n + (p - n)
  OBVIOUS
<1> QED
  BY <1>1

\* A piece of a frame is a sequence of bytes of its length.
LEMMA BytesType ==
    ASSUME NEW f \in Nat, NEW a \in Nat, NEW b \in Nat, a <= b
    PROVE  /\ Bytes(f, a, b) \in Seq(Nat \X Nat)
           /\ Len(Bytes(f, a, b)) = b - a
           /\ \A i \in 1..(b - a) : Bytes(f, a, b)[i] = <<f, a + i - 1>>
<1>1. b - a \in Nat
  OBVIOUS
<1>2. \A i \in 1..(b - a) : <<f, a + i - 1>> \in Nat \X Nat
  OBVIOUS
<1> QED
  BY <1>1, <1>2 DEF Bytes

\* A prefix and the piece behind it join into the longer prefix.
LEMMA BytesPrefix ==
    ASSUME NEW f \in Nat, NEW a \in Nat, NEW b \in Nat, a <= b
    PROVE  Bytes(f, 0, a) \o Bytes(f, a, b) = Bytes(f, 0, b)
<1> DEFINE front == Bytes(f, 0, a)
           back == Bytes(f, a, b)
           all == Bytes(f, 0, b)
<1>0. 0 \in Nat /\ 0 <= a /\ 0 <= b
  OBVIOUS
<1>1. /\ front \in Seq(Nat \X Nat) /\ Len(front) = a
      /\ \A i \in 1..a : front[i] = <<f, i - 1>>
  <2>1. /\ front \in Seq(Nat \X Nat) /\ Len(front) = a - 0
        /\ \A i \in 1..(a - 0) : front[i] = <<f, 0 + i - 1>>
    BY <1>0, BytesType
  <2> QED
    BY <2>1
<1>2. /\ back \in Seq(Nat \X Nat) /\ Len(back) = b - a
      /\ \A i \in 1..(b - a) : back[i] = <<f, a + i - 1>>
  BY BytesType
<1>3. /\ all \in Seq(Nat \X Nat) /\ Len(all) = b
      /\ \A i \in 1..b : all[i] = <<f, i - 1>>
  <2>1. /\ all \in Seq(Nat \X Nat) /\ Len(all) = b - 0
        /\ \A i \in 1..(b - 0) : all[i] = <<f, 0 + i - 1>>
    BY <1>0, BytesType
  <2> QED
    BY <2>1
<1> HIDE DEF front, back, all
<1>4. /\ front \o back \in Seq(Nat \X Nat) /\ Len(front \o back) = b
      /\ \A i \in 1..b : (front \o back)[i] = IF i <= a THEN front[i] ELSE back[i - a]
  <2>1. /\ front \o back \in Seq(Nat \X Nat) /\ Len(front \o back) = Len(front) + Len(back)
        /\ \A i \in 1..(Len(front) + Len(back)) :
              (front \o back)[i] = IF i <= Len(front) THEN front[i] ELSE back[i - Len(front)]
    BY <1>1, <1>2, ConcatProperties
  <2>2. Len(front) + Len(back) = b
    BY <1>1, <1>2
  <2> QED
    BY <1>1, <2>1, <2>2
<1>5. ASSUME NEW i \in 1..b PROVE (front \o back)[i] = all[i]
  <2>1. CASE i <= a
    <3>1. i \in 1..a
      BY <2>1
    <3> QED
      BY <1>1, <1>3, <1>4, <2>1, <3>1
  <2>2. CASE ~(i <= a)
    <3>1. i - a \in 1..(b - a) /\ a + (i - a) = i
      BY <2>2
    <3>2. back[i - a] = <<f, i - 1>>
      BY SMTT(30), <1>2, <3>1
    <3> QED
      BY <1>3, <1>4, <2>2, <3>2
  <2> QED
    BY <2>1, <2>2
<1>6. front \o back = all
  BY <1>3, <1>4, <1>5, SeqEqual
<1> QED
  BY <1>6 DEF front, back, all

-----------------------------------------------------------------------------
(* Identifiers and sequence numbers.                                       *)

\* Counting up and wrapping is counting up modulo the width.
LEMMA NextRemainder ==
    ASSUME NEW w \in Nat, 1 < w, NEW a \in Nat
    PROVE  /\ a % w \in 0 .. w - 1
           /\ ((a % w) + 1) % w = (a + 1) % w
<1> DEFINE q == a \div w
           r == a % w
<1>1. q \in Nat /\ r \in 0..(w - 1) /\ a = w * q + r
  OBVIOUS
<1> HIDE DEF q, r
<1>2. CASE r + 1 >= w
  <2>1. r + 1 = w /\ a + 1 = w * (q + 1) + 0
    BY <1>1, <1>2
  <2>2. (w * (q + 1) + 0) % w = 0
    BY <1>1
  <2>3. w % w = 0
    OBVIOUS
  <2> QED
    BY <1>1, <2>1, <2>2, <2>3 DEF r
<1>3. CASE ~(r + 1 >= w)
  <2>1. a + 1 = w * q + (r + 1) /\ r + 1 \in 0..(w - 1)
    BY <1>1, <1>3
  <2>2. (w * q + (r + 1)) % w = r + 1
    BY <1>1, <2>1
  <2>3. (r + 1) % w = r + 1
    BY <2>1
  <2> QED
    BY <1>1, <2>1, <2>2, <2>3 DEF r
<1> QED
  BY <1>2, <1>3

\* Numbers less than a turn apart are the same only where nothing is between.
LEMMA SameRemainder ==
    ASSUME NEW w \in Nat, 1 < w, NEW a \in Nat, NEW d \in 0 .. w - 1, (a + d) % w = a % w
    PROVE  d = 0
<1> DEFINE q == a \div w
           r == a % w
<1>1. q \in Nat /\ r \in 0..(w - 1) /\ a = w * q + r
  OBVIOUS
<1>2. (a + d) % w = r
  OBVIOUS
<1> HIDE DEF q, r
<1>3. CASE r + d >= w
  <2>1. a + d = w * (q + 1) + (r + d - w) /\ r + d - w \in 0..(w - 1)
    BY <1>1, <1>3
  <2>2. (w * (q + 1) + (r + d - w)) % w = r + d - w
    BY <1>1, <2>1
  <2>3. r + d - w = r
    BY <1>2, <2>1, <2>2
  <2> QED
    BY <1>1, <2>3
<1>4. CASE ~(r + d >= w)
  <2>1. a + d = w * q + (r + d) /\ r + d \in 0..(w - 1)
    BY <1>1, <1>4
  <2>2. (w * q + (r + d)) % w = r + d
    BY <1>1, <2>1
  <2>3. r + d = r
    BY <1>2, <2>1, <2>2
  <2> QED
    BY <1>1, <2>3
<1> QED
  BY <1>3, <1>4

LEMMA SmallRemainder ==
    ASSUME NEW w \in Nat, NEW a \in 0 .. w - 1
    PROVE  a % w = a
OBVIOUS

\* Sequence numbers count packets, and are the same only for the same packet.
LEMMA NumberFacts ==
    ASSUME NEW k \in Nat
    PROVE  /\ Number(k) \in 0 .. Word - 1
           /\ (Number(k) + 1) % Word = Number(k + 1)
<1> PICK a \in Nat : a = FirstNumber + k /\ a + 1 = FirstNumber + (k + 1)
  <2>1. FirstNumber \in Nat
    BY FirstNumberAssumption, WordAssumption
  <2> QED
    BY <2>1
<1>1. a % Word \in 0 .. Word - 1 /\ ((a % Word) + 1) % Word = (a + 1) % Word
  BY WordAssumption, NextRemainder
<1> QED
  BY <1>1 DEF Number

LEMMA NumberTells ==
    ASSUME NEW k \in Nat, NEW j \in Nat, k <= j, j - k < Word, Number(j) = Number(k)
    PROVE  j = k
<1> PICK a \in Nat, d \in 0 .. Word - 1 : a = FirstNumber + k /\ d = j - k
  <2>1. FirstNumber \in Nat
    BY FirstNumberAssumption, WordAssumption
  <2>2. j - k \in 0 .. Word - 1
    BY WordAssumption
  <2> QED
    BY <2>1, <2>2
<1>1. FirstNumber + j = a + d
  BY FirstNumberAssumption, WordAssumption
<1>2. (a + d) % Word = a % Word
  BY <1>1 DEF Number
<1>3. d = 0
  BY <1>2, WordAssumption, SameRemainder
<1> QED
  BY <1>3

-----------------------------------------------------------------------------
(* The sender.                                                             *)

\* A packet carries a part of a frame that was given.
LEMMA PacketFacts ==
    ASSUME given \in Seq(FrameSizes), NEW seq \in Seq(PacketType), NEW p \in Position(seq)
    PROVE  /\ seq[p] \in PacketType
           /\ seq[p].payload.frame \in 1..Len(given) /\ seq[p].payload.frame \in Nat
           /\ given[seq[p].payload.frame] \in Nat
           /\ seq[p].payload.from \in Nat /\ seq[p].payload.to \in Nat
           /\ seq[p].payload.s \in BOOLEAN /\ seq[p].marker \in BOOLEAN
           /\ seq[p].sequence_number \in 0 .. Word - 1
<1>1. seq[p] \in PacketType
  BY ElementOfSeq DEF Position
<1>2. seq[p].payload \in PayloadType
  BY <1>1 DEF PacketType
<1>3. seq[p].payload.frame \in 1..Len(given)
  BY <1>2 DEF PayloadType
<1>4. given[seq[p].payload.frame] \in FrameSizes
  BY <1>3, ElementOfSeq
<1>5. Len(given) \in Nat
  BY LenProperties
<1>6. seq[p].payload.frame \in Nat
  BY <1>3, <1>5
<1>7. seq[p].payload.from \in Nat /\ seq[p].payload.to \in Nat /\ seq[p].payload.s \in BOOLEAN
  BY <1>2 DEF PayloadType
<1>8. seq[p].marker \in BOOLEAN /\ seq[p].sequence_number \in 0 .. Word - 1
  BY <1>1 DEF PacketType
<1> QED
  BY <1>1, <1>3, <1>4, <1>6, <1>7, <1>8, FrameSizesAssumption

\* Frames keep their sizes while others are given.
GivenStays == \A f \in Position(given) : given'[f] = given[f]

LEMMA ChainStays ==
    ASSUME given \in Seq(FrameSizes), GivenStays, NEW seq \in Seq(PacketType), Chain(seq)
    PROVE  Chain(seq)'
<1>1. ASSUME NEW p \in Position(seq) PROVE Sound(seq[p])'
  <2>1. PICK x : x = seq[p]
    OBVIOUS
  <2>2. Sound(x) /\ given'[x.payload.frame] = given[x.payload.frame]
    <3>1. seq[p].payload.frame \in Position(given)
      BY PacketFacts DEF Position
    <3> QED
      BY <2>1, <3>1 DEF Chain, GivenStays
  <2>3. Sound(x)'
    BY <2>2 DEF Sound, PayloadSize
  <2> QED
    BY <2>1, <2>3
<1> QED
  BY <1>1 DEF Chain, Position, GoesOn

\* A fragment goes behind those of its frame.
LEMMA ChainAppend ==
    ASSUME NEW seq \in Seq(PacketType), NEW x \in PacketType, Chain(seq), Sound(x),
           ~x.payload.s => seq # <<>> /\ GoesOn(seq[Len(seq)], x)
    PROVE  Chain(Append(seq, x))
<1> PICK n \in Nat : n = Len(seq)
  BY LenProperties
<1> PICK new : new = Append(seq, x)
  OBVIOUS
<1>1. /\ Len(new) = n + 1 /\ new[n + 1] = x
      /\ \A i \in 1..n : new[i] = seq[i]
  BY AppendGrows
<1>2. seq # <<>> => n > 0
  BY EmptySeq
<1>3. ASSUME NEW p \in 1..n
      PROVE  Sound(new[p]) /\ (~new[p].payload.s => p > 1 /\ GoesOn(new[p - 1], new[p]))
  <2>1. Sound(seq[p]) /\ (~seq[p].payload.s => p > 1 /\ GoesOn(seq[p - 1], seq[p]))
    BY DEF Chain, Position
  <2>2. p > 1 => p - 1 \in 1..n
    OBVIOUS
  <2> QED
    BY <1>1, <2>1, <2>2
<1>4. Sound(new[n + 1]) /\ (~new[n + 1].payload.s => n + 1 > 1 /\ GoesOn(new[(n + 1) - 1], new[n + 1]))
  <2>1. (n + 1) - 1 = n
    OBVIOUS
  <2>2. n > 0 => n \in 1..n /\ n + 1 > 1
    OBVIOUS
  <2> QED
    BY <1>1, <1>2, <2>1, <2>2
<1>5. \A p \in 1..(n + 1) : p \in 1..n \/ p = n + 1
  OBVIOUS
<1> QED
  BY <1>1, <1>3, <1>4, <1>5 DEF Chain, Position

\* So do those of a call behind those of the calls before.
LEMMA ChainConcat ==
    ASSUME NEW s \in Seq(PacketType), NEW t \in Seq(PacketType), Chain(s), Chain(t)
    PROVE  Chain(s \o t)
<1> PICK n \in Nat, m \in Nat : n = Len(s) /\ m = Len(t)
  BY LenProperties
<1> PICK new : new = s \o t
  OBVIOUS
<1>1. /\ Len(new) = n + m
      /\ \A i \in 1..n : new[i] = s[i]
      /\ \A i \in 1..m : new[n + i] = t[i]
  BY ConcatGrows
<1>2. ASSUME NEW p \in 1..n
      PROVE  Sound(new[p]) /\ (~new[p].payload.s => p > 1 /\ GoesOn(new[p - 1], new[p]))
  <2>1. Sound(s[p]) /\ (~s[p].payload.s => p > 1 /\ GoesOn(s[p - 1], s[p]))
    BY DEF Chain, Position
  <2>2. p > 1 => p - 1 \in 1..n
    OBVIOUS
  <2> QED
    BY <1>1, <2>1, <2>2
<1>3. ASSUME NEW k \in 1..m
      PROVE  /\ Sound(new[n + k])
             /\ ~new[n + k].payload.s => n + k > 1 /\ GoesOn(new[(n + k) - 1], new[n + k])
  <2>1. Sound(t[k]) /\ (~t[k].payload.s => k > 1 /\ GoesOn(t[k - 1], t[k]))
    BY DEF Chain, Position
  <2>2. k > 1 => k - 1 \in 1..m /\ n + (k - 1) = (n + k) - 1 /\ n + k > 1
    OBVIOUS
  <2> QED
    BY <1>1, <2>1, <2>2
<1>4. \A p \in 1..(n + m) : p \in 1..n \/ \E k \in 1..m : p = n + k
  BY ConcatPosition
<1>5. ASSUME NEW p \in 1..(n + m)
      PROVE  Sound(new[p]) /\ (~new[p].payload.s => p > 1 /\ GoesOn(new[p - 1], new[p]))
  <2>1. CASE p \in 1..n
    BY <1>2, <2>1
  <2>2. CASE p \notin 1..n
    <3>1. PICK k \in 1..m : p = n + k
      BY <1>4, <2>2
    <3> QED
      BY <1>3, <3>1
  <2> QED
    BY <2>1, <2>2
<1> QED
  BY <1>1, <1>5 DEF Chain, Position

-----------------------------------------------------------------------------
\* What a step that neither gives a frame nor makes or hands over a packet leaves
\* as it was.
LEMMA PacketsStay ==
    ASSUME SenderInv, given' = given, rtp_packets' = rtp_packets, packets' = packets
    PROVE  Chain(rtp_packets)' /\ Chain(packets)' /\ WholeFrames'
<1>1. Chain(rtp_packets)' /\ Chain(packets)'
  BY DEF SenderInv, Chain, Sound, GoesOn, PayloadSize, Position
<1>2. WholeFrames'
  BY DEF SenderInv, WholeFrames, Position
<1> QED
  BY <1>1, <1>2

LEMMA EnablePictureIDStep ==
    ASSUME SenderInv, EnablePictureID, UNCHANGED <<receiverVars, transportVars>>
    PROVE  SenderInv'
<1> USE DEF EnablePictureID, receiverVars, transportVars
<1>1. TypeOK'
  BY DEF SenderInv, TypeOK, PacketType, PayloadType, Position
<1>2. NumberInv'
  BY DEF SenderInv, NumberInv, Pending, Number, Position
<1>3. CallInv'
  BY DEF CallInv
<1>4. IdInv'
  BY DEF SenderInv, IdInv, PictureID, Position
<1> QED
  BY <1>1, <1>2, <1>3, <1>4, PacketsStay DEF SenderInv

\* Resetting the identifier starts the count over.
LEMMA ResetPictureIDStep ==
    ASSUME SenderInv, ResetPictureID, UNCHANGED <<receiverVars, transportVars>>
    PROVE  SenderInv'
<1> USE DEF ResetPictureID, receiverVars, transportVars
<1>0. Len(numbered') = 0 /\ numbered' = <<>> /\ Position(numbered') = {}
  BY EmptySeq DEF Position
<1>1. TypeOK'
  <2>1. numbered' \in Seq(Position(given))
    BY <1>0, EmptySeq
  <2>2. picture_id' \in 0 .. WrapId - 1
    BY IdAssumption
  <2> QED
    BY <2>1, <2>2 DEF SenderInv, TypeOK, PacketType, PayloadType, Position
<1>2. NumberInv'
  BY DEF SenderInv, NumberInv, Pending, Number, Position
<1>3. CallInv'
  BY DEF CallInv
<1>4. IdInv'
  <2>1. 0 % WrapId = 0
    BY IdAssumption, SmallRemainder
  <2> QED
    BY <1>0, <2>1 DEF IdInv
<1> QED
  BY <1>1, <1>2, <1>3, <1>4, PacketsStay DEF SenderInv

\* A call with a new frame: the frame is refused, or its first packet is about to be
\* made.
LEMMA PacketizeStep ==
    ASSUME SenderInv, NEW size \in FrameSizes, Packetize(size),
           UNCHANGED <<receiverVars, transportVars>>
    PROVE  SenderInv' /\ GivenStays
<1> USE DEF receiverVars, transportVars
<1> PICK g \in Nat : g = Len(given)
  BY LenProperties DEF SenderInv, TypeOK
<1> DEFINE refuses == Smaller(max_fragment_size(HeaderSize), size) <= 0
<1>1. /\ given' \in Seq(FrameSizes) /\ Len(given') = g + 1 /\ given'[g + 1] = size
      /\ \A f \in 1..g : given'[f] = given[f]
  BY AppendGrows DEF SenderInv, TypeOK, Packetize
<1>2. /\ pc = "idle" /\ UNCHANGED <<numbered, idVars, sequence_number, packets>>
      /\ refuses => /\ refused' = refused \cup {Len(given')}
                    /\ UNCHANGED <<pc, using_header_size, payload_data_index, rtp_packets>>
      /\ ~refuses => /\ pc' = "fragment" /\ using_header_size' = HeaderSize
                     /\ payload_data_index' = 0 /\ rtp_packets' = <<>> /\ refused' = refused
  BY DEF Packetize
<1>3. PacketType \subseteq PacketType' /\ Position(given) \subseteq Position(given')
  <2>1. 1..g \subseteq 1..(g + 1)
    OBVIOUS
  <2>2. PayloadType \subseteq PayloadType'
    BY <1>1, <2>1 DEF PayloadType
  <2> QED
    BY <1>1, <2>1, <2>2 DEF PacketType, Position
<1>4. GivenStays
  BY <1>1 DEF GivenStays, Position
<1>5. given' # <<>> /\ Frame' = g + 1 /\ given'[Frame'] = size
  BY <1>1, EmptySeq DEF Frame
<1>6. /\ HeaderSize' = HeaderSize /\ HeaderSize \in Nat
      /\ ~refuses => HeaderSize < Mtu /\ 0 < size
  <2>1. HeaderSize' = HeaderSize
    BY <1>2 DEF HeaderSize, idVars
  <2>2. HeaderSize \in Nat
    BY DEF HeaderSize, kVP8HeaderSize
  <2>3. PICK h : h = HeaderSize
    OBVIOUS
  <2>4. size \in Nat /\ Mtu \in Nat /\ h \in Nat
    BY <2>2, <2>3, FrameSizesAssumption, MtuAssumption
  <2>5. ASSUME ~refuses PROVE h < Mtu /\ 0 < size
    <3>1. ~((IF Mtu - h < size THEN Mtu - h ELSE size) <= 0)
      BY <2>3, <2>5 DEF Smaller, max_fragment_size
    <3> QED
      BY ONLY <2>4, <3>1
  <2> QED
    BY <2>1, <2>2, <2>3, <2>5
<1> HIDE DEF refuses
<1>7. rtp_packets' \in Seq(PacketType)
  BY <1>2, EmptySeq DEF SenderInv, TypeOK
<1>8. TypeOK'
  <2>1. packets' \in Seq(PacketType') /\ rtp_packets' \in Seq(PacketType')
    BY <1>2, <1>3, <1>7, SeqMonotone DEF SenderInv, TypeOK
  <2>2. numbered' \in Seq(Position(given'))
    BY <1>2, <1>3, SeqMonotone DEF SenderInv, TypeOK
  <2>3. refused' \subseteq Position(given')
    <3>1. Len(given') \in Position(given')
      BY <1>1 DEF Position
    <3> QED
      BY <1>2, <1>3, <3>1 DEF SenderInv, TypeOK
  <2>4. /\ pc' \in {"idle", "fragment"} /\ payload_data_index' \in Nat
        /\ using_header_size' \in Nat
    <3>1. CASE refuses
      BY <1>2, <3>1 DEF SenderInv, TypeOK
    <3>2. CASE ~refuses
      BY <1>2, <1>6, <3>2
    <3> QED
      BY <3>1, <3>2
  <2> QED
    BY <1>1, <1>2, <2>1, <2>2, <2>3, <2>4 DEF SenderInv, TypeOK, idVars, PacketType, PayloadType,
                                             Position
<1>9. Chain(rtp_packets)' /\ Chain(packets)'
  <2>1. PICK s, r : s = packets /\ r = rtp_packets
    OBVIOUS
  <2>2. /\ s \in Seq(PacketType) /\ Chain(s) /\ r \in Seq(PacketType) /\ Chain(r)
        /\ given \in Seq(FrameSizes)
    BY <2>1 DEF SenderInv, TypeOK
  <2>3. Chain(s)' /\ Chain(r)'
    BY <1>4, <2>2, ChainStays
  <2>4. Chain(packets)'
    BY <1>2, <2>1, <2>3 DEF Chain
  <2>5. CASE refuses
    BY <1>2, <2>1, <2>3, <2>4, <2>5 DEF Chain
  <2>6. CASE ~refuses
    <3>1. Position(rtp_packets') = {}
      BY <1>2, <2>6, EmptySeq DEF Position
    <3> QED
      BY <2>4, <3>1 DEF Chain, Position
  <2> QED
    BY <2>5, <2>6
<1>10. NumberInv'
  <2>1. Pending = 0 /\ Pending' = 0
    BY <1>2, EmptySeq DEF Pending
  <2>2. pc' = "fragment" => Position(rtp_packets') = {}
    BY <1>2, EmptySeq DEF Position
  <2> QED
    BY <1>2, <2>1, <2>2 DEF SenderInv, NumberInv, Number, Position
<1>11. CallInv'
  <2> SUFFICES ASSUME pc' = "fragment" PROVE CallInv'
    BY DEF CallInv
  <2>1. ~refuses
    BY <1>2
  <2>2. Position(rtp_packets') = {} /\ rtp_packets' = <<>> /\ payload_data_index' = 0
    BY <1>2, <2>1, EmptySeq DEF Position
  <2>3. \A p \in Position(packets') : packets'[p].payload.frame < Frame'
    <3>1. \A p \in Position(packets) : packets[p].payload.frame \in 1..g
      BY PacketFacts DEF SenderInv, TypeOK
    <3>2. \A k \in 1..g : k < g + 1
      OBVIOUS
    <3> QED
      BY <1>2, <1>5, <3>1, <3>2
  <2>4. \A n \in Position(numbered') : numbered'[n] < Frame'
    <3>1. \A n \in Position(numbered) : numbered[n] \in 1..g
      BY ElementOfSeq DEF SenderInv, TypeOK, Position
    <3>2. \A k \in 1..g : k < g + 1
      OBVIOUS
    <3> QED
      BY <1>2, <1>5, <3>1, <3>2
  <2>5. /\ using_header_size' = HeaderSize' /\ HeaderSize' < Mtu /\ 0 < given'[Frame']
        /\ payload_data_index' <= given'[Frame']
    BY <1>2, <1>5, <1>6, <2>1, <2>2, FrameSizesAssumption
  <2> QED
    BY <1>5, <2>2, <2>3, <2>4, <2>5 DEF CallInv, Position
<1>12. WholeFrames'
  BY <1>2 DEF SenderInv, WholeFrames, Position
<1>13. IdInv'
  BY <1>2 DEF SenderInv, IdInv, PictureID, idVars, Position
<1> QED
  BY <1>4, <1>8, <1>9, <1>10, <1>11, <1>12, <1>13 DEF SenderInv

\* What the application reads from a packet is the identifier it was sent with,
\* whichever of the three descriptors it has.
LEMMA IdentifierRead ==
    ASSUME NEW x, picture_id \in 0 .. WrapId - 1, enable_picture_id,
           x.header = HeaderSize,
           x.field = IF HeaderSize = kVP8HeaderSize THEN 0 ELSE picture_id
    PROVE  PictureID(x) = picture_id
<1> USE DEF kVP8HeaderSize
<1>1. CASE picture_id = 0
  <2>1. x.header = kVP8HeaderSize
    BY <1>1 DEF HeaderSize
  <2> QED
    BY <1>1, <2>1 DEF PictureID
<1>2. CASE picture_id # 0 /\ picture_id < NarrowId
  <2>1. x.header = kVP8HeaderSize + 2 /\ x.field = picture_id
    BY <1>2 DEF HeaderSize
  <2>2. picture_id % NarrowId = picture_id
    <3>1. NarrowId \in Nat /\ picture_id \in 0 .. NarrowId - 1
      BY <1>2, IdAssumption
    <3> QED
      BY <3>1, SmallRemainder
  <2> QED
    BY <2>1, <2>2 DEF PictureID
<1>3. CASE picture_id # 0 /\ ~(picture_id < NarrowId)
  <2>1. x.header = kVP8HeaderSize + 3 /\ x.field = picture_id
    BY <1>3 DEF HeaderSize
  <2>2. picture_id % WrapId = picture_id
    BY IdAssumption, SmallRemainder
  <2> QED
    BY <2>1, <2>2 DEF PictureID
<1> QED
  BY <1>1, <1>2, <1>3

\* The next fragment goes on where the last ended, holds at least a byte and fits.
LEMMA FragmentStep ==
    ASSUME SenderInv, Fragment, UNCHANGED <<receiverVars, transportVars>>
    PROVE  SenderInv'
<1> USE DEF receiverVars, transportVars
<1> PICK g \in Nat, m \in Nat, n \in Nat :
        g = Len(given) /\ m = Len(rtp_packets) /\ n = Len(packets)
  BY LenProperties DEF SenderInv, TypeOK
<1> PICK idx, size, h : idx = payload_data_index /\ size = given[Frame] /\ h = using_header_size
  OBVIOUS
<1> PICK k : k = Smaller(max_fragment_size(h), Remaining)
  OBVIOUS
<1> PICK load : load = Payload(Frame, idx, idx + k, IsFirst, h,
                               IF h = kVP8HeaderSize THEN 0 ELSE picture_id)
  OBVIOUS
<1> PICK x : x = [sequence_number |-> sequence_number,
                  marker |-> Marker(Remaining, max_fragment_size(h)), payload |-> load]
  OBVIOUS
<1>1. /\ pc = "fragment" /\ Remaining > 0
      /\ rtp_packets' = Append(rtp_packets, x) /\ payload_data_index' = idx + k
      /\ sequence_number' = (sequence_number + 1) % Word
      /\ UNCHANGED <<given, refused, numbered, idVars, pc, using_header_size, packets>>
  BY DEF Fragment
<1>2. /\ Frame = g /\ g \in 1..g /\ size \in Nat /\ idx \in Nat /\ idx < size
      /\ h \in Nat /\ h < Mtu /\ h = HeaderSize
      /\ Remaining = size - idx /\ max_fragment_size(h) = Mtu - h
  <2>1. given # <<>> /\ h = HeaderSize /\ h < Mtu
    BY <1>1 DEF SenderInv, CallInv
  <2>2. g > 0
    BY <2>1, EmptySeq DEF SenderInv, TypeOK
  <2>3. size \in FrameSizes
    BY <2>2, ElementOfSeq DEF SenderInv, TypeOK, Frame
  <2>4. idx \in Nat /\ h \in Nat
    BY DEF SenderInv, TypeOK
  <2>5. size \in Nat
    BY <2>3, FrameSizesAssumption
  <2>6. Remaining = size - idx
    BY DEF Remaining
  <2>7. idx < size
    BY <1>1, <2>4, <2>5, <2>6
  <2> QED
    BY <2>1, <2>2, <2>4, <2>5, <2>6, <2>7 DEF Frame, max_fragment_size
<1>3. /\ k \in Nat /\ 0 < k /\ idx + k <= size /\ h + k <= Mtu
      /\ Marker(Remaining, max_fragment_size(h)) = (idx + k = size)
  <2>1. k = IF Mtu - h < size - idx THEN Mtu - h ELSE size - idx
    BY <1>2 DEF Smaller
  <2>2. k \in Nat /\ 0 < k /\ idx + k <= size /\ h + k <= Mtu
    BY SMTT(30), <1>2, <2>1, MtuAssumption
  <2>3. Marker(Remaining, max_fragment_size(h)) = (size - idx <= Mtu - h)
    BY <1>2 DEF Marker
  <2>4. size - idx <= Mtu - h <=> idx + k = size
    BY <1>2, <2>1, MtuAssumption
  <2> QED
    BY <2>2, <2>3, <2>4
<1>4. /\ load.frame = g /\ load.from = idx /\ load.to = idx + k /\ load.s = (idx = 0)
      /\ load.header = h /\ load.field = (IF h = kVP8HeaderSize THEN 0 ELSE picture_id)
      /\ x.payload = load /\ x.marker = (idx + k = size) /\ x.sequence_number = sequence_number
  BY <1>2, <1>3 DEF Payload, IsFirst
<1>5. x \in PacketType
  <2>1. picture_id \in 0 .. WrapId - 1 /\ sequence_number \in 0 .. Word - 1
    BY DEF SenderInv, TypeOK
  <2>2. PICK first \in BOOLEAN, last \in BOOLEAN : first = (idx = 0) /\ last = (idx + k = size)
    OBVIOUS
  <2>3. PICK field \in Nat : field = IF h = kVP8HeaderSize THEN 0 ELSE picture_id
    BY <2>1, IdAssumption
  <2>4. h \in {kVP8HeaderSize, kVP8HeaderSize + 2, kVP8HeaderSize + 3}
    BY <1>2 DEF HeaderSize
  <2>5. load = [frame |-> g, from |-> idx, to |-> idx + k, s |-> first, header |-> h,
                field |-> field]
    BY <1>2, <2>2, <2>3 DEF Payload, IsFirst
  <2>6. idx + k \in Nat
    BY <1>2, <1>3
  <2>7. load \in PayloadType
    <3>1. g \in 1..Len(given) /\ idx \in Nat
      BY <1>2
    <3> QED
      BY ONLY <2>2, <2>3, <2>4, <2>5, <2>6, <3>1 DEF PayloadType
  <2>8. x = [sequence_number |-> sequence_number, marker |-> last, payload |-> load]
    BY <1>3, <2>2
  <2> QED
    BY ONLY <2>1, <2>2, <2>7, <2>8 DEF PacketType
<1>6. /\ Len(rtp_packets') = m + 1 /\ rtp_packets'[m + 1] = x
      /\ rtp_packets' \in Seq(PacketType)
      /\ \A p \in 1..m : rtp_packets'[p] = rtp_packets[p]
  BY <1>1, <1>5, AppendGrows DEF SenderInv, TypeOK
<1>7. rtp_packets # <<>> =>
         /\ m \in 1..m /\ rtp_packets[m].payload.to = idx /\ rtp_packets[m].payload.frame = g
  <2> SUFFICES ASSUME rtp_packets # <<>>
               PROVE  /\ m \in 1..m /\ rtp_packets[m].payload.to = idx
                      /\ rtp_packets[m].payload.frame = g
    OBVIOUS
  <2>1. m \in 1..m
    BY EmptySeq DEF SenderInv, TypeOK
  <2> QED
    BY <1>1, <1>2, <2>1 DEF SenderInv, CallInv, Position
<1>8. Sound(x)
  <2>1. given[x.payload.frame] = size
    BY <1>2, <1>4
  <2>2. PayloadSize(load) <= Mtu
    <3>1. PayloadSize(load) = h + (idx + k) - idx
      BY <1>4 DEF PayloadSize
    <3>2. h + (idx + k) - idx = h + k
      BY <1>2, <1>3
    <3> QED
      BY <1>3, <3>1, <3>2
  <2>3. idx < idx + k /\ idx + k <= size
    BY <1>2, <1>3
  <2> QED
    BY <1>4, <2>1, <2>2, <2>3 DEF Sound
<1>9. ~x.payload.s => rtp_packets # <<>> /\ GoesOn(rtp_packets[Len(rtp_packets)], x)
  <2> SUFFICES ASSUME idx # 0 PROVE rtp_packets # <<>> /\ GoesOn(rtp_packets[m], x)
    BY <1>4
  <2>1. rtp_packets # <<>>
    BY <1>1 DEF SenderInv, CallInv
  <2> QED
    BY <1>4, <1>7, <2>1 DEF GoesOn
<1>10. Chain(rtp_packets)' /\ Chain(packets)'
  <2>1. Chain(Append(rtp_packets, x))
    BY <1>5, <1>8, <1>9, ChainAppend DEF SenderInv, TypeOK
  <2> QED
    BY SMTT(30), <1>1, <2>1 DEF SenderInv, Chain, Sound, GoesOn, PayloadSize, Position
<1>11. PICK q \in Nat : q = n + m /\ sequence_number = Number(q) /\ n + (m + 1) = q + 1
                        /\ n + (m + 1) - 1 = q
  BY <1>1 DEF SenderInv, NumberInv, Pending
<1>12. sequence_number' = Number(q + 1) /\ sequence_number' \in 0 .. Word - 1
  <2>1. q + 1 \in Nat
    OBVIOUS
  <2> QED
    BY <1>1, <1>11, <2>1, NumberFacts
<1>13. TypeOK'
  <2>1. payload_data_index' \in Nat
    BY SMTT(30), <1>1, <1>2, <1>3
  <2> QED
    BY <1>1, <1>6, <1>12, <2>1 DEF SenderInv, TypeOK, idVars, PacketType, PayloadType, Position
<1>14. \A p \in 1..(m + 1) : p \in 1..m \/ p = m + 1
  OBVIOUS
<1>15. NumberInv'
  <2>1. Len(packets') + Pending' = q + 1 /\ Len(packets') = n /\ pc = "fragment"
    BY <1>1, <1>6, <1>11 DEF Pending
  <2>2. \A p \in 1..m : rtp_packets[p].sequence_number = Number(n + p - 1)
    BY <1>1 DEF SenderInv, NumberInv, Position
  <2>3. \A p \in 1..(m + 1) : rtp_packets'[p].sequence_number = Number(n + p - 1)
    BY <1>4, <1>6, <1>11, <1>14, <2>2
  <2>4. \A p \in Position(packets) : packets[p].sequence_number = Number(p - 1)
    BY DEF SenderInv, NumberInv
  <2>5. /\ sequence_number' = Number(Len(packets') + Pending')
        /\ \A p \in Position(packets') : packets'[p].sequence_number = Number(p - 1)
        /\ \A p \in Position(rtp_packets') :
              rtp_packets'[p].sequence_number = Number(Len(packets') + p - 1)
    BY <1>1, <1>6, <1>12, <2>1, <2>3, <2>4 DEF Position
  <2> QED
    BY <2>5 DEF NumberInv, Number, Position
<1>16. CallInv'
  <2>1. rtp_packets' # <<>> /\ Frame' = g /\ given'[g] = size
    <3>1. Len(rtp_packets') # 0
      BY <1>6
    <3> QED
      BY <1>1, <1>2, <3>1, EmptySeq DEF Frame
  <2>2. enable_picture_id => PictureID(load) = picture_id
    BY SMTT(30), <1>2, <1>4, IdentifierRead DEF SenderInv, TypeOK
  <2>3. \A p \in 1..(m + 1) :
           /\ rtp_packets'[p].payload.frame = g
           /\ enable_picture_id => PictureID(rtp_packets'[p].payload) = picture_id
    <3>1. \A p \in 1..m :
             /\ rtp_packets[p].payload.frame = g
             /\ enable_picture_id => PictureID(rtp_packets[p].payload) = picture_id
      BY <1>1, <1>2 DEF SenderInv, CallInv, Position
    <3> QED
      BY <1>4, <1>6, <1>14, <2>2, <3>1
  <2>4. rtp_packets'[m + 1].payload.to = payload_data_index' /\ payload_data_index' <= size
    BY <1>1, <1>3, <1>4, <1>6
  <2>5. HeaderSize' = HeaderSize
    BY <1>1 DEF HeaderSize, idVars
  <2>6. /\ \A p \in Position(packets) : packets[p].payload.frame < g
        /\ \A i \in Position(numbered) : numbered[i] < g
        /\ 0 < size /\ given # <<>>
    BY <1>1, <1>2 DEF SenderInv, CallInv, Position
  <2>7. \A y : PictureID(y)' = PictureID(y)
    BY DEF PictureID
  <2>8. enable_picture_id' = enable_picture_id /\ picture_id' = picture_id
    BY <1>1 DEF idVars
  <2>9. /\ using_header_size' = HeaderSize' /\ HeaderSize' < Mtu
        /\ given' # <<>> /\ 0 < given'[Frame'] /\ payload_data_index' <= given'[Frame']
    BY <1>1, <1>2, <2>1, <2>4, <2>5, <2>6
  <2>10. /\ rtp_packets'[Len(rtp_packets')].payload.to = payload_data_index'
         /\ \A p \in Position(rtp_packets') :
               /\ rtp_packets'[p].payload.frame = Frame'
               /\ enable_picture_id' => PictureID(rtp_packets'[p].payload) = picture_id'
         /\ \A p \in Position(packets') : packets'[p].payload.frame < Frame'
         /\ \A i \in Position(numbered') : numbered'[i] < Frame'
    BY <1>1, <1>6, <2>1, <2>3, <2>4, <2>6, <2>8 DEF Position
  <2> QED
    BY <2>1, <2>9, <2>10 DEF CallInv, Position, PictureID
<1>17. WholeFrames'
  BY <1>1 DEF SenderInv, WholeFrames, Position
<1>18. IdInv'
  BY SMTT(30), <1>1 DEF SenderInv, IdInv, PictureID, idVars, Position
<1> QED
  BY <1>10, <1>13, <1>15, <1>16, <1>17, <1>18 DEF SenderInv

\* The call hands over a whole frame and, with identifiers on, counts it.
LEMMA ReturnStep ==
    ASSUME SenderInv, Return, UNCHANGED <<receiverVars, transportVars>>
    PROVE  /\ SenderInv'
           /\ Len(packets) <= Len(packets')
           /\ \A p \in Position(packets) : packets'[p] = packets[p]
<1> USE DEF receiverVars, transportVars
<1> PICK g \in Nat, n \in Nat, m \in Nat :
        g = Len(given) /\ n = Len(packets) /\ m = Len(rtp_packets)
  BY LenProperties DEF SenderInv, TypeOK
<1>1. /\ packets' = packets \o rtp_packets /\ pc = "fragment" /\ pc' = "idle" /\ Remaining <= 0
      /\ enable_picture_id => picture_id' = NextId /\ numbered' = Append(numbered, Frame)
      /\ ~enable_picture_id => UNCHANGED <<picture_id, numbered>>
      /\ UNCHANGED <<given, refused, enable_picture_id, sequence_number, using_header_size,
                     payload_data_index, rtp_packets>>
  BY DEF Return
<1>2. /\ packets' \in Seq(PacketType) /\ Len(packets') = n + m
      /\ \A p \in 1..n : packets'[p] = packets[p]
      /\ \A k \in 1..m : packets'[n + k] = rtp_packets[k]
  <2>1. packets \in Seq(PacketType) /\ rtp_packets \in Seq(PacketType)
    BY DEF SenderInv, TypeOK
  <2> QED
    BY <1>1, <2>1, ConcatGrows
<1>3. \A p \in 1..(n + m) : p \in 1..n \/ \E k \in 1..m : p = n + k
  BY ConcatPosition
<1>4. /\ \A p \in 1..n : packets[p].payload.frame \in 1..g /\ packets[p].payload.frame < g
      /\ \A k \in 1..m : rtp_packets[k].payload.frame = g
      /\ enable_picture_id => \A k \in 1..m : PictureID(rtp_packets[k].payload) = picture_id
  <2>1. \A p \in 1..n : packets[p].payload.frame \in 1..g
    BY PacketFacts DEF SenderInv, TypeOK, Position
  <2> QED
    BY <1>1, <2>1 DEF SenderInv, CallInv, Position, Frame
<1>5. /\ g \in 1..g /\ m \in 1..m /\ rtp_packets[m].marker
  <2>1. given # <<>> /\ 0 < given[g] /\ payload_data_index <= given[g]
    BY <1>1 DEF SenderInv, CallInv, Frame
  <2>2. g > 0
    BY <2>1, EmptySeq DEF SenderInv, TypeOK
  <2>3. given[g] \in Nat /\ payload_data_index \in Nat
    <3>1. given \in Seq(FrameSizes) /\ g \in 1..Len(given) /\ payload_data_index \in Nat
      BY <2>2 DEF SenderInv, TypeOK
    <3>2. given[g] \in FrameSizes
      BY ONLY <3>1, ElementOfSeq
    <3> QED
      BY <3>1, <3>2, FrameSizesAssumption
  <2>4. given[g] - payload_data_index <= 0
    BY <1>1 DEF Remaining, Frame
  <2>5. payload_data_index = given[g] /\ payload_data_index # 0
    BY <2>1, <2>3, <2>4
  <2>6. rtp_packets # <<>> /\ rtp_packets[m].payload.to = given[g]
    BY <1>1, <2>5 DEF SenderInv, CallInv
  <2>7. m \in 1..m
    BY <2>6, EmptySeq DEF SenderInv, TypeOK
  <2>8. Sound(rtp_packets[m]) /\ rtp_packets[m].payload.frame = g
    BY <1>4, <2>7 DEF SenderInv, Chain, Position
  <2> QED
    BY <2>2, <2>6, <2>7, <2>8 DEF Sound
<1>6. Len(packets) <= Len(packets') /\ \A p \in Position(packets) : packets'[p] = packets[p]
  BY <1>2 DEF Position
<1>7. /\ numbered' \in Seq(Position(given)) /\ picture_id' \in 0 .. WrapId - 1
      /\ Len(numbered) \in Nat /\ numbered \in Seq(Position(given))
      /\ enable_picture_id => /\ Len(numbered') = Len(numbered) + 1
                              /\ numbered'[Len(numbered) + 1] = g
                              /\ \A i \in 1..Len(numbered) : numbered'[i] = numbered[i]
      /\ picture_id' = Len(numbered') % WrapId
  <2>1. /\ numbered \in Seq(Position(given)) /\ g \in Position(given) /\ Frame = g
        /\ picture_id \in 0 .. WrapId - 1
    BY <1>5 DEF SenderInv, TypeOK, Position, Frame
  <2>2. PICK c \in Nat : c = Len(numbered)
    BY <2>1, LenProperties
  <2>3. picture_id = c % WrapId
    BY <2>2 DEF SenderInv, IdInv
  <2>4. CASE enable_picture_id
    <3>1. numbered' = Append(numbered, g)
      BY <1>1, <2>1, <2>4
    <3>2. /\ Append(numbered, g) \in Seq(Position(given))
          /\ Len(Append(numbered, g)) = Len(numbered) + 1
          /\ \A i \in 1..Len(numbered) : Append(numbered, g)[i] = numbered[i]
          /\ Append(numbered, g)[Len(numbered) + 1] = g
      BY ONLY <2>1, AppendGrows
    <3>3. picture_id' = ((c % WrapId) + 1) % WrapId
      BY <1>1, <2>3, <2>4 DEF NextId
    <3>4. /\ ((c % WrapId) + 1) % WrapId = (c + 1) % WrapId
          /\ (c + 1) % WrapId \in 0 .. WrapId - 1
      <4>1. WrapId \in Nat /\ 1 < WrapId /\ c + 1 \in Nat
        BY IdAssumption
      <4> QED
        BY <4>1, NextRemainder
    <3> QED
      BY <2>1, <2>2, <2>4, <3>1, <3>2, <3>3, <3>4
  <2>5. CASE ~enable_picture_id
    BY <1>1, <2>1, <2>2, <2>3, <2>5
  <2> QED
    BY <2>4, <2>5
<1>8. TypeOK'
  <2>1. rcvd' \in 0..Len(packets')
    <3>1. rcvd \in 0..n
      BY DEF SenderInv, TypeOK
    <3> QED
      BY <1>2, <3>1
  <2> QED
    BY <1>1, <1>2, <1>7, <2>1 DEF SenderInv, TypeOK, PacketType, PayloadType, Position
<1>9. Chain(rtp_packets)' /\ Chain(packets)'
  <2>1. PICK s, r : s = packets \o rtp_packets /\ r = rtp_packets
    OBVIOUS
  <2>2. Chain(s) /\ Chain(r)
    BY <2>1, ChainConcat DEF SenderInv, TypeOK
  <2>3. Chain(s)' /\ Chain(r)'
    BY <1>1, <2>2 DEF Chain, Sound, GoesOn, PayloadSize
  <2>4. packets' = s /\ rtp_packets' = r
    BY <1>1, <2>1
  <2> QED
    BY <2>3, <2>4 DEF Chain
<1>10. NumberInv'
  <2>1. sequence_number = Number(n + m)
    BY <1>1 DEF SenderInv, NumberInv, Pending
  <2>2. \A p \in 1..n : packets[p].sequence_number = Number(p - 1)
    BY DEF SenderInv, NumberInv, Position
  <2>3. \A k \in 1..m : rtp_packets[k].sequence_number = Number(n + k - 1)
    BY <1>1 DEF SenderInv, NumberInv, Position
  <2>4. \A p \in 1..(n + m) : packets'[p].sequence_number = Number(p - 1)
    <3>1. ASSUME NEW p \in 1..(n + m), p \notin 1..n
          PROVE  packets'[p].sequence_number = Number(p - 1)
      <4>1. PICK k \in 1..m : p = n + k
        BY <1>3, <3>1
      <4> QED
        BY <1>2, <2>3, <4>1
    <3> QED
      BY <1>2, <2>2, <3>1
  <2>5. Len(packets') + Pending' = n + m
    BY <1>1, <1>2 DEF Pending
  <2>6. /\ sequence_number' = Number(Len(packets') + Pending')
        /\ \A p \in Position(packets') : packets'[p].sequence_number = Number(p - 1)
    BY <1>1, <1>2, <2>1, <2>4, <2>5 DEF Position
  <2> QED
    BY <1>1, <2>6 DEF NumberInv, Number, Position
<1>11. CallInv'
  BY <1>1 DEF CallInv
<1>12. WholeFrames'
  <2>1. ASSUME NEW p \in 1..(n + m)
        PROVE  \E q \in p..(n + m) :
                  packets'[q].payload.frame = packets'[p].payload.frame /\ packets'[q].marker
    <3>1. CASE p \in 1..n
      <4>1. PICK q \in p..n :
               packets[q].payload.frame = packets[p].payload.frame /\ packets[q].marker
        BY <3>1 DEF SenderInv, WholeFrames, Position
      <4>2. q \in p..(n + m) /\ q \in 1..n
        BY <3>1
      <4> QED
        BY <1>2, <3>1, <4>1, <4>2
    <3>2. CASE p \notin 1..n
      <4>1. PICK k \in 1..m : p = n + k
        BY <1>3, <3>2
      <4>2. n + m \in p..(n + m)
        BY <4>1
      <4>3. packets'[n + m] = rtp_packets[m] /\ packets'[p] = rtp_packets[k]
        BY <1>2, <1>5, <4>1
      <4>4. packets'[n + m].payload.frame = packets'[p].payload.frame /\ packets'[n + m].marker
        BY <1>4, <1>5, <4>3
      <4> QED
        BY <4>2, <4>4
    <3> QED
      BY <3>1, <3>2
  <2> QED
    BY <1>2, <2>1 DEF WholeFrames, Position
<1>13. IdInv'
  <2> SUFFICES ASSUME NEW i \in 1..Len(numbered'), NEW p \in 1..(n + m),
                      packets'[p].payload.frame = numbered'[i]
               PROVE  PictureID(packets'[p].payload) = (i - 1) % WrapId
    BY <1>2, <1>7 DEF IdInv, Position, PictureID
  <2> PICK c \in Nat : c = Len(numbered) /\ picture_id = c % WrapId
    BY <1>7 DEF SenderInv, IdInv
  <2>0. numbered'[i] < g => p \in 1..n
    <3> SUFFICES ASSUME p \notin 1..n PROVE ~(numbered'[i] < g)
      OBVIOUS
    <3>1. PICK k \in 1..m : p = n + k
      BY <1>3
    <3>2. packets'[p].payload.frame = g
      BY <1>2, <1>4, <3>1
    <3> QED
      BY <3>2
  <2>1. \A j \in 1..c : numbered[j] < g
    BY <1>1 DEF SenderInv, CallInv, Position, Frame
  <2>2. \A j \in 1..c : \A k \in 1..n :
           packets[k].payload.frame = numbered[j] =>
               PictureID(packets[k].payload) = (j - 1) % WrapId
    BY DEF SenderInv, IdInv, Position
  <2>3. CASE enable_picture_id
    <3>1. i \in 1..c \/ i = c + 1
      BY <1>7, <2>3
    <3>2. CASE i \in 1..c
      <4>1. numbered'[i] = numbered[i] /\ numbered[i] < g
        BY <1>7, <2>1, <2>3, <3>2
      <4>2. p \in 1..n
        BY <2>0, <4>1
      <4> QED
        BY <1>2, <2>2, <3>2, <4>1, <4>2
    <3>3. CASE i = c + 1
      <4>1. numbered'[i] = g
        BY <1>7, <2>3, <3>3
      <4>2. p \notin 1..n
        BY <1>2, <1>4, <4>1
      <4>3. PICK k \in 1..m : p = n + k
        BY <1>3, <4>2
      <4>4. PictureID(packets'[p].payload) = picture_id
        BY <1>2, <1>4, <2>3, <4>3
      <4>5. i - 1 = c
        BY <3>3
      <4> QED
        BY <4>4, <4>5
    <3> QED
      BY <3>1, <3>2, <3>3
  <2>4. CASE ~enable_picture_id
    <3>1. numbered' = numbered /\ i \in 1..c
      BY <1>1, <2>4
    <3>2. p \in 1..n
      BY <2>0, <2>1, <3>1
    <3> QED
      BY <1>2, <2>2, <3>1, <3>2
  <2> QED
    BY <2>3, <2>4
<1> QED
  BY <1>6, <1>8, <1>9, <1>10, <1>11, <1>12, <1>13 DEF SenderInv

\* Whatever the sender does, it leaves alone what it has sent and the receiver.
LEMMA SenderStep ==
    ASSUME SenderInv, Send
    PROVE  /\ SenderInv' /\ GivenStays
           /\ Len(packets) <= Len(packets') /\ Len(given) <= Len(given')
           /\ \A p \in Position(packets) : packets'[p] = packets[p]
<1>1. UNCHANGED <<receiverVars, transportVars>>
  BY DEF Send
<1> PICK g \in Nat, n \in Nat : g = Len(given) /\ n = Len(packets)
  BY LenProperties DEF SenderInv, TypeOK
<1>2. CASE EnablePictureID \/ ResetPictureID
  <2>1. given' = given /\ packets' = packets
    BY <1>2 DEF EnablePictureID, ResetPictureID
  <2>2. SenderInv'
    BY <1>1, <1>2, EnablePictureIDStep, ResetPictureIDStep
  <2> QED
    BY <2>1, <2>2 DEF GivenStays
<1>3. ASSUME NEW size \in FrameSizes, Packetize(size)
      PROVE  /\ SenderInv' /\ GivenStays
             /\ Len(packets) <= Len(packets') /\ Len(given) <= Len(given')
             /\ \A p \in Position(packets) : packets'[p] = packets[p]
  <2>1. Len(given') = g + 1 /\ packets' = packets
    BY <1>3, AppendGrows DEF Packetize, SenderInv, TypeOK
  <2>2. SenderInv' /\ GivenStays
    BY <1>1, <1>3, PacketizeStep
  <2> QED
    BY <2>1, <2>2
<1>4. CASE Fragment
  <2>1. given' = given /\ packets' = packets
    BY <1>4 DEF Fragment
  <2>2. SenderInv'
    BY <1>1, <1>4, FragmentStep
  <2> QED
    BY <2>1, <2>2 DEF GivenStays
<1>5. CASE Return
  <2>1. given' = given
    BY <1>5 DEF Return
  <2>2. /\ SenderInv' /\ Len(packets) <= Len(packets')
        /\ \A p \in Position(packets) : packets'[p] = packets[p]
    BY <1>1, <1>5, ReturnStep
  <2> QED
    BY <2>1, <2>2 DEF GivenStays
<1> QED
  BY <1>2, <1>3, <1>4, <1>5 DEF Send, PacketizerNext

-----------------------------------------------------------------------------
(* The receiver.                                                           *)

\* Growing what was given and sent changes nothing in what was received.
LEMMA ReceiverStays ==
    ASSUME SenderInv, OpenInv, LocalInv, GivenStays,
           UNCHANGED <<receiverVars, transportVars>>,
           Len(packets) <= Len(packets'), Len(given) <= Len(given'),
           Len(given') \in Nat, Len(packets') \in Nat,
           \A p \in Position(packets) : packets'[p] = packets[p]
    PROVE  OpenInv' /\ LocalInv'
<1> PICK g \in Nat, h \in Nat, n \in Nat, m \in Nat :
       g = Len(given) /\ h = Len(given') /\ n = Len(packets) /\ m = Len(packets')
  BY LenProperties DEF SenderInv, TypeOK
<1>1. /\ rcvd \in 0..n /\ lost \subseteq 1..rcvd
      /\ expected' = expected /\ open' = open /\ frames' = frames
      /\ rcvd' = rcvd /\ lost' = lost
  BY DEF SenderInv, TypeOK, receiverVars, transportVars
<1>2. \A p \in 1..rcvd : p \in 1..n /\ packets'[p] = packets[p]
  BY <1>1 DEF Position
<1>3. \A f \in 1..g : f \in 1..h /\ given'[f] = given[f]
  BY DEF GivenStays, Position
<1>4. \A p \in 1..rcvd : packets[p].payload.frame \in 1..g
  BY <1>2, PacketFacts DEF SenderInv, TypeOK, Position
<1>5. ASSUME NEW q \in 1..rcvd PROVE WaitsBehind(q)' = WaitsBehind(q)
  BY <1>1, <1>2 DEF WaitsBehind, Number
<1>6. \A f \in 1..g : Whole(f)' = Whole(f)
  BY <1>3 DEF Whole
<1>7. OpenInv'
  <2> SUFFICES ASSUME m <= Word
               PROVE  /\ expected # <<>> => \E q \in 1..rcvd : WaitsBehind(q)'
                      /\ \A i \in Position(frames) : \E f \in Position(given') :
                             frames[i] = Whole(f)'
    BY <1>1 DEF OpenInv, WaitsBehind, Whole, Position
  <2>1. n <= Word
    BY WordAssumption
  <2>2. ASSUME expected # <<>> PROVE \E q \in 1..rcvd : WaitsBehind(q)'
    <3>1. PICK q \in 1..rcvd : WaitsBehind(q)
      BY <2>1, <2>2 DEF OpenInv
    <3> QED
      BY <1>5, <3>1
  <2>3. ASSUME NEW i \in Position(frames)
        PROVE  \E f \in Position(given') : frames[i] = Whole(f)'
    <3>1. PICK f \in 1..g : frames[i] = Whole(f)
      BY <2>1 DEF OpenInv, Position
    <3> QED
      BY <1>3, <1>6, <3>1 DEF Position
  <2> QED
    BY <2>2, <2>3
<1>8. LocalInv'
  <2>1. ASSUME NEW f PROVE Intact(f)' = Intact(f)
    BY <1>1, <1>2 DEF Intact
  <2>2. ASSUME NEW p \in 1..rcvd', packets'[p].marker, Intact(packets[p].payload.frame)'
        PROVE  Whole(packets[p].payload.frame)' \in Range(frames')
    <3>1. PICK f : f = packets[p].payload.frame
      OBVIOUS
    <3>2. p \in 1..rcvd /\ packets'[p] = packets[p]
      BY <1>1, <1>2
    <3>3. Intact(f)'
      BY <2>2, <3>1, <3>2 DEF Intact
    <3>4. packets[p].marker /\ Intact(f)
      BY <2>1, <2>2, <3>2, <3>3
    <3>5. Whole(f) \in Range(frames) /\ f \in 1..g
      BY <1>4, <3>1, <3>2, <3>4 DEF LocalInv
    <3>6. Whole(f)' \in Range(frames')
      BY <1>1, <1>6, <3>5
    <3> QED
      BY <3>1, <3>2, <3>6 DEF Whole
  <2>3. ASSUME rcvd' > 0, ~packets'[rcvd'].marker, Intact(packets[rcvd].payload.frame)'
        PROVE  WaitsBehind(rcvd)'
    <3>1. PICK f, q : f = packets[rcvd].payload.frame /\ q = rcvd
      OBVIOUS
    <3>2. q \in 1..rcvd /\ packets'[q] = packets[q] /\ rcvd' = q
      BY <1>1, <1>2, <2>3, <3>1
    <3>3. Intact(f)'
      BY <1>1, <2>3, <3>1, <3>2 DEF Intact
    <3>4. Intact(f)
      BY <2>1, <3>3
    <3>5. WaitsBehind(q)
      BY <1>1, <2>3, <3>1, <3>2, <3>4 DEF LocalInv
    <3>6. WaitsBehind(q)'
      BY <1>5, <3>2, <3>5
    <3> QED
      BY <3>2, <3>6 DEF WaitsBehind
  <2> QED
    BY <2>2, <2>3 DEF LocalInv
<1> QED
  BY <1>7, <1>8

\* What a lost packet leaves.
LEMMA LoseStep ==
    ASSUME SenderInv, OpenInv, LocalInv, Lose
    PROVE  IndInv'
<1> USE DEF Lose, packetizerVars, idVars, receiverVars
<1> PICK n \in Nat : n = Len(packets)
  BY LenProperties DEF SenderInv, TypeOK
<1>1. rcvd \in Nat /\ rcvd + 1 \in 1..n /\ rcvd' = rcvd + 1 /\ lost' = lost \cup {rcvd + 1}
      /\ lost \subseteq 1..rcvd
  BY DEF SenderInv, TypeOK
<1>2. SenderInv'
  <2>1. TypeOK'
    <3>1. rcvd' \in 0..n /\ lost' \subseteq 1..rcvd'
      BY <1>1
    <3> QED
      BY <3>1 DEF SenderInv, TypeOK, PacketType, PayloadType, Position
  <2>2. NumberInv' /\ IdInv'
    BY DEF SenderInv, NumberInv, Pending, Number, IdInv, PictureID, Position
  <2>3. CallInv'
    BY DEF SenderInv, CallInv, Position, Frame, HeaderSize, PictureID
  <2> QED
    BY <2>1, <2>2, <2>3, PacketsStay DEF SenderInv
<1>3. OpenInv'
  <2>1. \A p \in 1..rcvd : p \in 1..rcvd'
    BY <1>1
  <2>2. \A q : WaitsBehind(q)' = WaitsBehind(q)
    BY DEF WaitsBehind, Number
  <2> QED
    BY <2>1, <2>2 DEF OpenInv, Whole, Position
<1>4. LocalInv'
  <2>1. \A f : Intact(f)' => Intact(f) /\ packets[rcvd + 1].payload.frame # f
    BY <1>1 DEF Intact
  <2>2. \A f : Whole(f)' = Whole(f)
    BY DEF Whole
  <2>3. \A p \in 1..(rcvd + 1) : p \in 1..rcvd \/ p = rcvd + 1
    BY <1>1
  <2>4. ASSUME NEW p \in 1..(rcvd + 1), packets[p].marker, Intact(packets[p].payload.frame)'
        PROVE  Whole(packets[p].payload.frame) \in Range(frames)
    <3>1. PICK f : f = packets[p].payload.frame
      OBVIOUS
    <3>2. Intact(f)'
      BY <2>4, <3>1 DEF Intact
    <3>3. Intact(f) /\ packets[rcvd + 1].payload.frame # f
      BY <2>1, <3>2
    <3> QED
      BY <2>3, <2>4, <3>1, <3>3 DEF LocalInv
  <2>5. PICK h : h = packets[rcvd + 1].payload.frame /\ ~Intact(h)'
    BY <1>1 DEF Intact
  <2>6. \A p \in 1..rcvd' : packets'[p].marker /\ Intact(packets[p].payload.frame)' =>
           Whole(packets[p].payload.frame)' \in Range(frames')
    BY <1>1, <2>2, <2>4
  <2>7. ~Intact(packets[rcvd].payload.frame)'
    <3>1. packets'[rcvd'].payload.frame = h
      BY <1>1, <2>5
    <3> QED
      BY <2>5, <3>1 DEF Intact
  <2> QED
    BY <2>6, <2>7 DEF LocalInv
<1> QED
  BY <1>2, <1>3, <1>4 DEF IndInv

\* A packet that arrives begins a frame, goes on with the open one, or is dropped.
LEMMA ReceiveStep ==
    ASSUME SenderInv, OpenInv, LocalInv, Receive
    PROVE  IndInv'
<1> PICK n, r : n \in Nat /\ n = Len(packets) /\ r = rcvd + 1
  BY LenProperties DEF SenderInv, TypeOK
<1>1. /\ rcvd \in Nat /\ r \in 1..n /\ rcvd' = r /\ r - 1 = rcvd /\ lost \subseteq 1..rcvd
      /\ lost' = lost /\ UNCHANGED packetizerVars /\ r \in Position(packets)
  BY DEF Receive, SenderInv, TypeOK, Position
<1> PICK x : x = packets[r]
  OBVIOUS
<1> PICK f, a, b, head, tail :
       /\ f = x.payload.frame /\ a = x.payload.from /\ b = x.payload.to
       /\ head = x.payload.s /\ tail = x.marker
  OBVIOUS
<1>2. /\ x \in PacketType /\ f \in 1..Len(given) /\ f \in Nat /\ given[f] \in Nat
      /\ a \in Nat /\ b \in Nat /\ head \in BOOLEAN /\ tail \in BOOLEAN
  BY <1>1, PacketFacts DEF SenderInv, TypeOK
<1>3. /\ a < b /\ a <= b /\ b <= given[f] /\ (head <=> a = 0) /\ (tail <=> b = given[f])
      /\ ~head => r > 1 /\ GoesOn(packets[rcvd], x)
  <2>1. Sound(x) /\ (~head => r > 1 /\ GoesOn(packets[r - 1], x))
    BY <1>1 DEF SenderInv, Chain
  <2> QED
    BY <1>1, <1>2, <2>1 DEF Sound
<1>4. x.sequence_number = Number(rcvd) /\ (x.sequence_number + 1) % Word = Number(r)
  <2>1. x.sequence_number = Number(r - 1)
    BY <1>1 DEF SenderInv, NumberInv
  <2> QED
    BY <1>1, <2>1, NumberFacts
<1> DEFINE goesOn == ~head /\ expected = <<Number(rcvd)>>
<1> PICK bytes : bytes = Bytes(f, a, b)
  OBVIOUS
<1> PICK all : all = IF head THEN bytes ELSE open \o bytes
  OBVIOUS
<1>5. /\ vp8_frame' = bytes /\ picture' = PictureID(x.payload)
      /\ frames' = (IF (head \/ goesOn) /\ tail THEN Append(frames, all) ELSE frames)
      /\ open' = (IF (head \/ goesOn) /\ ~tail THEN all ELSE <<>>)
      /\ expected' = (IF (head \/ goesOn) /\ ~tail THEN <<Number(r)>> ELSE <<>>)
  BY <1>4 DEF Receive, Depacketize, Collect, IsPartitionHead, IsPartitionTail, PayloadBytes
<1>6. /\ bytes \in Seq(Nat \X Nat) /\ all \in Seq(Nat \X Nat)
      /\ open \in Seq(Nat \X Nat) /\ frames \in Seq(Seq(Nat \X Nat))
  <2>1. open \in Seq(Nat \X Nat) /\ frames \in Seq(Seq(Nat \X Nat))
    BY DEF SenderInv, TypeOK
  <2>2. bytes \in Seq(Nat \X Nat)
    BY <1>2, <1>3, BytesType
  <2> QED
    BY <2>1, <2>2, ConcatProperties
<1>7. /\ frames' \in Seq(Seq(Nat \X Nat)) /\ Len(frames) \in Nat
      /\ Len(frames') = IF (head \/ goesOn) /\ tail THEN Len(frames) + 1 ELSE Len(frames)
      /\ \A i \in 1..Len(frames) : frames'[i] = frames[i]
      /\ (head \/ goesOn) /\ tail => frames'[Len(frames) + 1] = all
  <2>1. CASE (head \/ goesOn) /\ tail
    <3>1. frames' = Append(frames, all)
      BY <1>5, <2>1
    <3>2. frames \in Seq(Seq(Nat \X Nat)) /\ all \in Seq(Nat \X Nat)
      BY <1>6
    <3>3. /\ Append(frames, all) \in Seq(Seq(Nat \X Nat)) /\ Len(frames) \in Nat
          /\ Len(Append(frames, all)) = Len(frames) + 1
          /\ \A i \in 1..Len(frames) : Append(frames, all)[i] = frames[i]
          /\ Append(frames, all)[Len(frames) + 1] = all
      BY ONLY <3>2, AppendGrows
    <3> QED
      BY <2>1, <3>1, <3>3
  <2>2. CASE ~((head \/ goesOn) /\ tail)
    <3>1. frames' = frames
      BY <1>5, <2>2
    <3> QED
      BY <1>6, <2>2, <3>1, LenProperties
  <2> QED
    BY <2>1, <2>2
<1>8. given' = given /\ packets' = packets
  BY <1>1 DEF packetizerVars
<1>9. SenderInv'
  <2> USE <1>1 DEF packetizerVars, idVars
  <2>1. TypeOK'
    <3>1. rcvd' \in 0..n /\ lost' \subseteq 1..rcvd'
      OBVIOUS
    <3>2. vp8_frame' \in Seq(Nat \X Nat) /\ open' \in Seq(Nat \X Nat)
      BY <1>5, <1>6, EmptySeq
    <3>3. expected' \in Seq(0 .. Word - 1) /\ Len(expected') <= 1
      <4>1. Number(r) \in 0 .. Word - 1
        BY NumberFacts
      <4>2. \A k \in 0 .. Word - 1 : <<k>> \in Seq(0 .. Word - 1) /\ Len(<<k>>) = 1
        OBVIOUS
      <4>3. expected' = <<>> \/ expected' = <<Number(r)>>
        BY <1>5
      <4>4. <<>> \in Seq(0 .. Word - 1) /\ Len(<<>>) <= 1
        OBVIOUS
      <4>5. <<Number(r)>> \in Seq(0 .. Word - 1) /\ Len(<<Number(r)>>) <= 1
        BY ONLY <4>1, <4>2
      <4> QED
        BY ONLY <4>3, <4>4, <4>5
    <3>4. picture' \in 0 .. WrapId - 1
      <4>1. x.payload.field \in Nat
        BY <1>2 DEF PacketType, PayloadType
      <4>2. \A k \in Nat : k % WrapId \in 0 .. WrapId - 1 /\ k % NarrowId \in 0 .. WrapId - 1
        BY IdAssumption
      <4>3. 0 \in 0 .. WrapId - 1
        BY IdAssumption
      <4> QED
        BY <1>5, <4>1, <4>2, <4>3 DEF PictureID
    <3> QED
      BY <1>7, <3>1, <3>2, <3>3, <3>4 DEF SenderInv, TypeOK, PacketType, PayloadType, Position
  <2>2. NumberInv' /\ IdInv'
    BY DEF SenderInv, NumberInv, Pending, Number, IdInv, PictureID, Position
  <2>3. CallInv'
    BY DEF SenderInv, CallInv, Position, Frame, HeaderSize, PictureID
  <2> QED
    BY <2>1, <2>2, <2>3, PacketsStay DEF SenderInv
<1>10. ASSUME ~head => WaitsBehind(rcvd)
       PROVE  (head \/ goesOn) /\ all = Bytes(f, 0, b)
  <2>1. CASE head
    BY <1>3, <2>1
  <2>2. CASE ~head
    <3>1. goesOn /\ open = Bytes(packets[rcvd].payload.frame, 0, packets[rcvd].payload.to)
      BY <1>10, <2>2 DEF WaitsBehind
    <3>2. open = Bytes(f, 0, a)
      BY <1>3, <2>2, <3>1 DEF GoesOn
    <3>3. Bytes(f, 0, a) \o Bytes(f, a, b) = Bytes(f, 0, b)
      <4>1. f \in Nat /\ a \in Nat /\ b \in Nat /\ a <= b
        BY <1>2, <1>3
      <4> QED
        BY ONLY <4>1, BytesPrefix
    <3>4. all = Bytes(f, 0, a) \o Bytes(f, a, b)
      BY <2>2, <3>2
    <3> QED
      BY <3>1, <3>3, <3>4
  <2> QED
    BY <2>1, <2>2
<1>11. ASSUME ~tail, head \/ goesOn, all = Bytes(f, 0, b)
       PROVE  WaitsBehind(r)'
  <2>1. expected' = <<Number(r)>> /\ open' = Bytes(f, 0, b)
    BY <1>5, <1>11
  <2>2. ~packets'[r].marker /\ packets'[r].payload.frame = f /\ packets'[r].payload.to = b
    BY <1>8, <1>11
  <2> QED
    BY <2>1, <2>2 DEF WaitsBehind, Number
<1>12. ASSUME tail, all = Bytes(f, 0, b) PROVE all = Whole(f)
  BY <1>3, <1>12 DEF Whole
<1>13. OpenInv'
  <2> SUFFICES ASSUME n <= Word
               PROVE  /\ expected' # <<>> => WaitsBehind(r)'
                      /\ \A i \in Position(frames') : \E k \in Position(given) :
                             frames'[i] = Whole(k)
    <3>1. r \in 1..r
      BY <1>1
    <3> QED
      BY <1>1, <1>8, <3>1 DEF OpenInv, Whole, Position
  <2>1. head \/ goesOn => all = Bytes(f, 0, b)
    <3> SUFFICES ASSUME goesOn PROVE WaitsBehind(rcvd)
      BY <1>10
    <3>1. expected # <<>>
      OBVIOUS
    <3>2. PICK q \in 1..rcvd : WaitsBehind(q)
      BY <3>1 DEF OpenInv
    <3>3. expected = <<Number(q)>>
      BY <3>2 DEF WaitsBehind
    <3>4. Number(rcvd) = Number(q)
      BY <3>3
    <3>5. q \in Nat /\ q <= rcvd /\ rcvd - q < Word
      BY <1>1, WordAssumption
    <3>6. rcvd = q
      BY <1>1, <3>4, <3>5, NumberTells
    <3> QED
      BY <3>2, <3>6
  <2>2. expected' # <<>> => WaitsBehind(r)'
    BY <1>5, <1>11, <2>1
  <2>3. ASSUME NEW i \in Position(frames')
        PROVE  \E k \in Position(given) : frames'[i] = Whole(k)
    <3>1. CASE i \in 1..Len(frames)
      BY <1>7, <3>1 DEF OpenInv, Position
    <3>2. CASE i \notin 1..Len(frames)
      <4>1. (head \/ goesOn) /\ tail /\ i = Len(frames) + 1
        BY <1>7, <3>2 DEF Position
      <4>2. frames'[i] = Whole(f)
        BY <1>7, <1>12, <2>1, <4>1
      <4> QED
        BY <1>2, <4>2 DEF Position
    <3> QED
      BY <3>1, <3>2
  <2> QED
    BY <2>2, <2>3
<1>14. LocalInv'
  <2>1. \A h : Intact(h)' = Intact(h) /\ Whole(h)' = Whole(h)
    BY <1>1, <1>8 DEF Intact, Whole
  <2>2. Range(frames) \subseteq Range(frames')
    <3>1. DOMAIN frames = 1..Len(frames) /\ DOMAIN frames' = 1..Len(frames')
      BY <1>6, <1>7, LenProperties
    <3>2. 1..Len(frames) \subseteq 1..Len(frames')
      BY <1>7
    <3> QED
      BY ONLY <1>7, <3>1, <3>2 DEF Range
  <2>3. ASSUME Intact(f)
        PROVE  (head \/ goesOn) /\ all = Bytes(f, 0, b)
    <3> SUFFICES ASSUME ~head PROVE WaitsBehind(rcvd)
      BY <1>10
    <3>1. r > 1 /\ GoesOn(packets[rcvd], x)
      BY <1>3
    <3>2. rcvd > 0 /\ packets[rcvd].payload.frame = f /\ packets[rcvd].payload.to = a
      BY <1>1, <3>1 DEF GoesOn
    <3>3. Sound(packets[rcvd])
      BY <1>1, <3>2 DEF SenderInv, Chain, Position
    <3>4. ~packets[rcvd].marker
      BY SMTT(30), <1>2, <1>3, <3>2, <3>3 DEF Sound
    <3> QED
      BY <2>3, <3>2, <3>4 DEF LocalInv
  <2>4. ASSUME Intact(f), tail PROVE Whole(f) \in Range(frames')
    <3>1. all = Whole(f) /\ (head \/ goesOn)
      BY <1>12, <2>3, <2>4
    <3>2. frames'[Len(frames) + 1] = all /\ Len(frames') = Len(frames) + 1
      BY <1>7, <2>4, <3>1
    <3>3. Len(frames) + 1 \in DOMAIN frames'
      <4>1. DOMAIN frames' = 1..Len(frames')
        BY <1>7, LenProperties
      <4>2. Len(frames) + 1 \in 1..(Len(frames) + 1)
        BY <1>7
      <4> QED
        BY ONLY <3>2, <4>1, <4>2
    <3> QED
      BY ONLY <3>1, <3>2, <3>3 DEF Range
  <2>5. ASSUME NEW p \in 1..r, packets[p].marker, Intact(packets[p].payload.frame)
        PROVE  Whole(packets[p].payload.frame) \in Range(frames')
    <3>1. CASE p \in 1..rcvd
      BY <2>2, <2>5, <3>1 DEF LocalInv
    <3>2. CASE p \notin 1..rcvd
      <4>1. p = r
        BY <1>1, <3>2
      <4> QED
        BY <2>4, <2>5, <4>1
    <3> QED
      BY <3>1, <3>2
  <2>6. ASSUME ~tail, Intact(f) PROVE WaitsBehind(r)'
    BY <1>11, <2>3, <2>6
  <2>7. \A p \in 1..rcvd' : packets'[p].marker /\ Intact(packets[p].payload.frame)' =>
           Whole(packets[p].payload.frame)' \in Range(frames')
    BY <1>1, <1>8, <2>5 DEF Intact, Whole
  <2>8. rcvd' > 0 /\ ~packets'[rcvd'].marker /\ Intact(packets[rcvd].payload.frame)' =>
           WaitsBehind(rcvd)'
    <3>1. packets'[rcvd'] = x
      BY <1>1, <1>8
    <3>2. Intact(packets[rcvd].payload.frame)' => Intact(f)
      BY <1>1, <1>8, <3>1 DEF Intact
    <3>3. WaitsBehind(r)' => WaitsBehind(rcvd)'
      BY <1>1 DEF WaitsBehind
    <3> QED
      BY <2>6, <3>1, <3>2, <3>3
  <2> QED
    BY <2>7, <2>8 DEF LocalInv
<1> QED
  BY <1>9, <1>13, <1>14 DEF IndInv

-----------------------------------------------------------------------------
(* The specification.                                                      *)

\* The initial states are in the invariant.
LEMMA InitInd == Init => IndInv
<1> SUFFICES ASSUME Init PROVE IndInv
  OBVIOUS
<1> USE DEF Init, PacketizerInit
<1>0. \A S : <<>> \in Seq(S)
  BY EmptySeq
<1>1. Len(<<>>) = 0 /\ 1..0 = {}
  BY EmptySeq
<1>2. TypeOK
  <2>1. /\ given \in Seq(FrameSizes) /\ rtp_packets \in Seq(PacketType)
        /\ packets \in Seq(PacketType) /\ vp8_frame \in Seq(Nat \X Nat)
        /\ open \in Seq(Nat \X Nat) /\ frames \in Seq(Seq(Nat \X Nat))
        /\ numbered \in Seq(Position(given)) /\ expected \in Seq(0 .. Word - 1)
    BY <1>0
  <2>2. 0 \in 0 .. WrapId - 1 /\ rcvd \in 0..Len(packets) /\ Len(expected) <= 1
    BY <1>1, IdAssumption
  <2>3. using_header_size \in Nat
    BY DEF kVP8HeaderSize
  <2> QED
    BY <2>1, <2>2, <2>3, FirstNumberAssumption DEF TypeOK
<1>3. Position(rtp_packets) = {} /\ Position(packets) = {} /\ Position(given) = {}
      /\ Position(frames) = {} /\ Position(numbered) = {}
  BY <1>1 DEF Position
<1>4. Chain(rtp_packets) /\ Chain(packets) /\ CallInv /\ WholeFrames
  BY <1>3 DEF Chain, CallInv, WholeFrames
<1>5. NumberInv
  <2>1. FirstNumber % Word = FirstNumber /\ FirstNumber + (0 + 0) = FirstNumber
    BY FirstNumberAssumption, WordAssumption, SmallRemainder
  <2> QED
    BY <1>1, <1>3, <2>1 DEF NumberInv, Pending, Number
<1>6. IdInv
  <2>1. 0 % WrapId = 0
    BY IdAssumption, SmallRemainder
  <2> QED
    BY <1>1, <1>3, <2>1 DEF IdInv
<1>7. OpenInv /\ LocalInv
  BY <1>1, <1>3 DEF OpenInv, LocalInv
<1> QED
  BY <1>2, <1>4, <1>5, <1>6, <1>7 DEF IndInv, SenderInv

\* Every step keeps the invariant.
LEMMA NextInd == IndInv /\ [Next]_vars => IndInv'
<1> SUFFICES ASSUME IndInv, [Next]_vars PROVE IndInv'
  OBVIOUS
<1>1. SenderInv /\ OpenInv /\ LocalInv
  BY DEF IndInv
<1>2. CASE Send
  <2>1. /\ SenderInv' /\ GivenStays
        /\ Len(packets) <= Len(packets') /\ Len(given) <= Len(given')
        /\ \A p \in Position(packets) : packets'[p] = packets[p]
    BY <1>1, <1>2, SenderStep
  <2>2. Len(given') \in Nat /\ Len(packets') \in Nat
    BY <2>1, LenProperties DEF SenderInv, TypeOK
  <2>3. UNCHANGED <<receiverVars, transportVars>>
    BY <1>2 DEF Send
  <2>4. OpenInv' /\ LocalInv'
    BY <1>1, <2>1, <2>2, <2>3, ReceiverStays
  <2> QED
    BY <2>1, <2>4 DEF IndInv
<1>3. CASE Receive
  BY <1>1, <1>3, ReceiveStep
<1>4. CASE Lose
  BY <1>1, <1>4, LoseStep
<1>5. CASE UNCHANGED vars
  <2> USE <1>1, <1>5 DEF vars, packetizerVars, idVars, receiverVars, transportVars
  <2>1. SenderInv'
    <3>1. TypeOK'
      BY DEF SenderInv, TypeOK, PacketType, PayloadType, Position
    <3>2. NumberInv' /\ IdInv'
      BY DEF SenderInv, NumberInv, Pending, Number, IdInv, PictureID, Position
    <3>3. CallInv'
      BY DEF SenderInv, CallInv, Position, Frame, HeaderSize, PictureID
    <3> QED
      BY <3>1, <3>2, <3>3, PacketsStay DEF SenderInv
  <2>2. OpenInv'
    BY DEF OpenInv, WaitsBehind, Number, Whole, Position
  <2>3. LocalInv'
    BY DEF LocalInv, WaitsBehind, Number, Intact, Whole, Position
  <2> QED
    BY <2>1, <2>2, <2>3 DEF IndInv
<1> QED
  BY <1>2, <1>3, <1>4, <1>5 DEF Next

\* The fragments of a frame follow each other, numbers count packets, the identifier
\* counts the frames sent with one, and the application holds what has arrived of a
\* frame that lost nothing (vp8_packetizer.cc:42-112 and vp8_depacketizer.cc).
THEOREM Invariant == Spec => []IndInv
BY InitInd, NextInd, PTL DEF Spec

\* The members keep the shape their declarations give them, the identifier its 15 bits.
THEOREM TypeCorrect == Spec => []TypeOK
<1>1. IndInv => TypeOK
  BY DEF IndInv, SenderInv
<1> QED
  BY <1>1, Invariant, PTL

\* Every payload fits the MTU, whichever descriptor it has; and a receiver reads from
\* the packets of the n-th frame since the last reset the identifier n - 1 modulo 15
\* bits.
THEOREM Identifiers == Spec => []IdsCountFrames
<1>1. IndInv => IdsCountFrames
  BY DEF IndInv, SenderInv, IdInv, Chain, Sound, IdsCountFrames
<1> QED
  BY <1>1, Invariant, PTL

\* What runs from a head to a tail without a gap is a frame, while no two packets
\* share a sequence number; and a frame none of whose packets was lost is complete
\* once they have all arrived.
THEOREM LossLocal == Spec => []LossIsLocal
<1>1. IndInv => LossIsLocal
  <2> SUFFICES ASSUME IndInv, NEW f \in Position(given),
                      CarriedBy(f) # {}, CarriedBy(f) \subseteq 1..rcvd \ lost
               PROVE  Whole(f) \in Range(frames)
    BY DEF LossIsLocal, IndInv, OpenInv
  <2>1. PICK p \in Position(packets) : packets[p].payload.frame = f
    BY DEF CarriedBy
  <2>2. PICK q \in p..Len(packets) : packets[q].payload.frame = f /\ packets[q].marker
    BY <2>1 DEF IndInv, SenderInv, WholeFrames
  <2>3. q \in CarriedBy(f)
    <3>1. q \in Position(packets)
      BY LenProperties DEF Position, IndInv, SenderInv, TypeOK
    <3> QED
      BY <2>2, <3>1 DEF CarriedBy
  <2>4. lost \subseteq 1..rcvd /\ rcvd \in 0..Len(packets)
    BY DEF IndInv, SenderInv, TypeOK
  <2>5. Intact(f)
    <3> SUFFICES ASSUME NEW k \in lost, packets[k].payload.frame = f PROVE FALSE
      BY DEF Intact
    <3>1. k \in Position(packets)
      BY <2>4, LenProperties DEF Position, IndInv, SenderInv, TypeOK
    <3> QED
      BY <3>1 DEF CarriedBy
  <2> QED
    BY <2>2, <2>3, <2>5 DEF IndInv, LocalInv
<1> QED
  BY <1>1, Invariant, PTL
=============================================================================
