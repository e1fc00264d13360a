----------------------------- MODULE H264Proofs -----------------------------
(***************************************************************************)
(* Proofs about H264Session, whatever the transport loses, for every set   *)
(* of frames and every MTU of at least 2.                                  *)
(***************************************************************************)
EXTENDS H264Session, SequenceTheorems, TLAPS

\* A piece of a body is a sequence of bytes of its length.
LEMMA BytesType ==
    ASSUME NEW k \in Nat, NEW a \in Nat, NEW b \in Nat, a <= b
    PROVE  /\ Bytes(k, a, b) \in Seq(Nat \X Nat)
           /\ Len(Bytes(k, a, b)) = b - a
           /\ \A i \in 1..(b - a) : Bytes(k, a, b)[i] = <<k, a + i>>
<1>1. b - a \in Nat
  OBVIOUS
<1>2. \A i \in 1..(b - a) : <<k, a + i>> \in Nat \X Nat
  OBVIOUS
<1> QED
  BY <1>1, <1>2 DEF Bytes

\* A prefix and the piece behind it join into the longer prefix: what appending
\* a fragment to fua_buffer_ relies on.
LEMMA BytesPrefix ==
    ASSUME NEW k \in Nat, NEW a \in Nat, NEW b \in Nat, a <= b
    PROVE  /\ Bytes(k, 0, a) \o Bytes(k, a, b) = Bytes(k, 0, b)
           /\ Bytes(k, 0, b) \in Seq(Nat \X Nat)
<1> DEFINE front == Bytes(k, 0, a)
           back == Bytes(k, a, b)
           all == Bytes(k, 0, b)
<1>0. 0 \in Nat /\ 0 <= a /\ 0 <= b
  OBVIOUS
<1>1. /\ front \in Seq(Nat \X Nat) /\ Len(front) = a
      /\ \A i \in 1..a : front[i] = <<k, i>>
  <2>1. /\ front \in Seq(Nat \X Nat) /\ Len(front) = a - 0
        /\ \A i \in 1..(a - 0) : front[i] = <<k, 0 + i>>
    BY <1>0, BytesType
  <2> QED
    BY <2>1
<1>2. /\ back \in Seq(Nat \X Nat) /\ Len(back) = b - a
      /\ \A i \in 1..(b - a) : back[i] = <<k, a + i>>
  BY BytesType
<1>3. /\ all \in Seq(Nat \X Nat) /\ Len(all) = b
      /\ \A i \in 1..b : all[i] = <<k, i>>
  <2>1. /\ all \in Seq(Nat \X Nat) /\ Len(all) = b - 0
        /\ \A i \in 1..(b - 0) : all[i] = <<k, 0 + i>>
    BY <1>0, BytesType
  <2> QED
    BY <2>1
<1> HIDE DEF front, back, all
<1>4. /\ front \o back \in Seq(Nat \X Nat) /\ Len(front \o back) = b
      /\ \A i \in 1..b : (front \o back)[i] = IF i <= a THEN front[i] ELSE back[i - a]
  <2>1. /\ front \o back \in Seq(Nat \X Nat) /\ Len(front \o back) = Len(front) + Len(back)
        /\ \A i \in 1..(Len(front) + Len(back)) :
              (front \o back)[i] = IF i <= Len(front) THEN front[i] ELSE back[i - Len(front)]
    BY <1>1, <1>2, ConcatProperties
  <2>2. Len(front) + Len(back) = b
    BY <1>1, <1>2
  <2> QED
    BY <1>1, <2>1, <2>2
<1>5. ASSUME NEW i \in 1..b PROVE (front \o back)[i] = all[i]
  <2>1. CASE i <= a
    <3>1. i \in 1..a
      BY <2>1
    <3> QED
      BY <1>1, <1>3, <1>4, <2>1, <3>1
  <2>2. CASE ~(i <= a)
    <3>1. i - a \in 1..(b - a) /\ a + (i - a) = i
      BY <2>2
    <3>2. back[i - a] = <<k, i>>
      BY <1>2, <3>1
    <3> QED
      BY <1>3, <1>4, <2>2, <3>2
  <2> QED
    BY <2>1, <2>2
<1>6. front \o back = all
  BY <1>3, <1>4, <1>5, SeqEqual
<1> QED
  BY <1>3, <1>6 DEF front, back, all

-----------------------------------------------------------------------------
\* The initial state satisfies the invariant.
LEMMA InitInd == Init => IndInv
<1> SUFFICES ASSUME Init PROVE IndInv
  OBVIOUS
<1> USE DEF Init, PacketizerInit, DepacketizerInit
<1>1. TypeOK
  <2>1. \A S : <<>> \in Seq(S)
    BY EmptySeq
  <2>2. Len(<<>>) = 0
    OBVIOUS
  <2>3. given \in Seq(Nalu) /\ payloads \in Seq(PayloadType) /\ sent \in Seq(1..Len(given))
    BY <2>1
  <2>4. fua_buffer \in Seq(Nat \X Nat) /\ delivered \in Seq(UnitType)
    BY <2>1
  <2>5. /\ cur \in 0..Len(given) /\ sps_nalu \in 0..cur /\ pps_nalu \in 0..cur
        /\ packets \in 0..Len(payloads) /\ rcvd \in 0..packets
    BY <2>2
  <2> QED
    BY <2>3, <2>4, <2>5 DEF TypeOK
<1>2. LoopInv /\ ShapeInv /\ ChainInv /\ OpenInv
  BY DEF LoopInv, ShapeInv, ChainInv, OpenInv, Continues, Position
<1>3. MarkInv /\ OrderInv /\ BufferInv /\ DamageIsLocal
  BY DEF MarkInv, OrderInv, BufferInv, DamageIsLocal, Continues, Position
<1> QED
  BY <1>1, <1>2, <1>3 DEF IndInv

\* A fragment is of a NAL unit that was given.
LEMMA FragmentFacts ==
    ASSUME IndInv, NEW p \in Position(payloads)
    PROVE  /\ payloads[p] \in PayloadType
           /\ Fragment(p) \in PieceType
           /\ Fragment(p).nalu \in 1..Len(given) /\ Fragment(p).nalu \in Nat
           /\ \A i \in Position(payloads[p].pieces) :
                 payloads[p].pieces[i].nalu \in 1..Len(given)
<1>1. payloads[p] \in PayloadType
  BY ElementOfSeq DEF IndInv, TypeOK, Position
<1>2. payloads[p].pieces \in Seq(PieceType)
  BY <1>1 DEF PayloadType
<1>3. Len(payloads[p].pieces) = 1 \/ Len(payloads[p].pieces) = 3
  BY DEF IndInv, ShapeInv
<1>4. \A i \in Position(payloads[p].pieces) : payloads[p].pieces[i] \in PieceType
  BY <1>2, ElementOfSeq DEF Position
<1>5. 1 \in Position(payloads[p].pieces)
  <2> DEFINE n == Len(payloads[p].pieces)
  <2>1. n = 1 \/ n = 3
    BY <1>3
  <2> HIDE DEF n
  <2>2. 1 \in 1..n
    BY <2>1
  <2> QED
    BY <2>2 DEF n, Position
<1>6. \A i \in Position(payloads[p].pieces) : payloads[p].pieces[i].nalu \in 1..Len(given)
  BY <1>4 DEF PieceType
<1>7. Fragment(p) \in PieceType /\ Fragment(p).nalu \in 1..Len(given)
  BY <1>4, <1>5, <1>6 DEF Fragment
<1> QED
  BY <1>1, <1>6, <1>7

\* A step that makes no payload and brings none leaves what is known of
\* the payloads and of the receiver as it was.
LEMMA SamePayloads ==
    ASSUME IndInv, cur' \in {cur, Current},
           UNCHANGED <<given, payloads, depacketizerVars, transportVars>>
    PROVE  (ShapeInv /\ ChainInv /\ OrderInv /\ BufferInv /\ DamageIsLocal)'
<1>1. (ShapeInv /\ ChainInv)'
  BY DEF IndInv, ShapeInv, ChainInv, Continues, Fragment, Position, EndsNalu, IsFragment,
         WholePiece
<1>2. (BufferInv /\ DamageIsLocal)'
  BY DEF IndInv, BufferInv, DamageIsLocal, Reached, EndLost, Continues, Fragment, Position,
         EndsNalu, IsFragment, Whole, depacketizerVars, transportVars
<1>3. OrderInv'
  <2>1. cur \in Nat /\ cur' \in Nat /\ cur <= cur' /\ Current' = cur' + 1 /\ Current = cur + 1
    BY LenProperties DEF IndInv, TypeOK, Current
  <2>2. \A p \in Position(payloads) : Fragment(p)' = Fragment(p) /\ Fragment(p).nalu \in Nat
    BY FragmentFacts DEF Fragment
  <2>3. ASSUME NEW p \in Position(payloads), IsFragment(payloads[p])
        PROVE  Fragment(p).nalu <= IF payloads[p].e THEN cur' ELSE Current'
    <3>1. Fragment(p).nalu <= IF payloads[p].e THEN cur ELSE Current
      BY <2>3 DEF IndInv, OrderInv
    <3>2. Fragment(p).nalu \in Nat
      BY <2>2
    <3> QED
      BY <2>1, <3>1, <3>2
  <2> QED
    BY <2>2, <2>3 DEF IndInv, OrderInv, IsFragment, Position
<1> QED
  BY <1>1, <1>2, <1>3

\* A payload put behind the others, if it continues what the last one left open.
LEMMA AppendPayload ==
    ASSUME IndInv, NEW x \in PayloadType,
           payloads' = Append(payloads, x), cur' \in {cur, Current},
           UNCHANGED <<given, packets, marked, depacketizerVars, transportVars>>,
           Len(x.pieces) = IF x.kind = "stapa" THEN 3 ELSE 1,
           x.kind # "fua" =>
              \A i \in Position(x.pieces) : x.pieces[i] = WholePiece(x.pieces[i].nalu),
           Continues(Len(payloads) + 1) =>
              /\ x.kind = "fua"
              /\ x.pieces[1].nalu = Fragment(Len(payloads)).nalu
              /\ x.pieces[1].from = Fragment(Len(payloads)).to,
           x.kind = "fua" =>
              /\ ~Continues(Len(payloads) + 1) => x.pieces[1].from = 0
              /\ x.pieces[1].from <= x.pieces[1].to
              /\ x.e => x.pieces[1].to = given[x.pieces[1].nalu].len /\ cur' = Current
              /\ x.pieces[1].nalu = Current
    PROVE  (ShapeInv /\ ChainInv /\ MarkInv /\ OrderInv /\ BufferInv /\ DamageIsLocal)'
<1> USE DEF IndInv
<1>1. /\ payloads \in Seq(PayloadType) /\ payloads' \in Seq(PayloadType)
      /\ Len(payloads) \in Nat /\ Len(payloads') = Len(payloads) + 1
      /\ \A p \in 1..Len(payloads) : payloads'[p] = payloads[p]
      /\ payloads'[Len(payloads) + 1] = x
  BY AppendProperties, LenProperties DEF TypeOK
<1>2. rcvd \in Nat /\ packets \in Nat /\ rcvd <= Len(payloads) /\ marked \subseteq 1..Len(payloads)
  <2>1. packets \in 0..Len(payloads) /\ rcvd \in 0..packets /\ marked \subseteq 1..packets
    BY DEF TypeOK
  <2> QED
    BY <1>1, <2>1
<1>3. \A p \in 1..(Len(payloads) + 1) : Continues(p)' = Continues(p)
  BY <1>1 DEF Continues, EndsNalu, IsFragment
<1>4. \A p \in 1..Len(payloads) : Fragment(p)' = Fragment(p)
  BY <1>1 DEF Fragment
<1>5. \A p : p = Len(payloads) + 1 => Fragment(p)' = x.pieces[1]
  BY <1>1 DEF Fragment
<1>6. ShapeInv'
  <2> SUFFICES ASSUME NEW p \in 1..(Len(payloads) + 1)
               PROVE  (/\ Len(payloads[p].pieces) =
                             (IF payloads[p].kind = "stapa" THEN 3 ELSE 1)
                       /\ ~IsFragment(payloads[p]) =>
                             \A i \in Position(payloads[p].pieces) :
                                 payloads[p].pieces[i] = WholePiece(payloads[p].pieces[i].nalu))'
    BY <1>1 DEF ShapeInv, Position
  <2>1. CASE p \in 1..Len(payloads)
    <3>1. payloads'[p] = payloads[p]
      BY <1>1, <2>1
    <3> QED
      BY <2>1, <3>1 DEF ShapeInv, Position, IsFragment, WholePiece
  <2>2. CASE p = Len(payloads) + 1
    <3>1. payloads'[p] = x
      BY <1>1, <2>2
    <3> QED
      BY <3>1 DEF Position, IsFragment, WholePiece
  <2> QED
    BY <1>1, <2>1, <2>2
<1>7. ChainInv'
  <2> SUFFICES ASSUME NEW p \in 1..(Len(payloads) + 1)
               PROVE  (/\ Continues(p) => /\ IsFragment(payloads[p])
                                          /\ Fragment(p).nalu = Fragment(p - 1).nalu
                                          /\ Fragment(p).from = Fragment(p - 1).to
                       /\ IsFragment(payloads[p]) =>
                             /\ ~Continues(p) => Fragment(p).from = 0
                             /\ Fragment(p).from <= Fragment(p).to
                             /\ payloads[p].e => Fragment(p).to = given[Fragment(p).nalu].len)'
    BY <1>1 DEF ChainInv, Position
  <2>1. CASE p \in 1..Len(payloads)
    <3>1. Continues(p) => p - 1 \in 1..Len(payloads)
      BY <2>1 DEF Continues
    <3> QED
      BY <1>1, <1>3, <1>4, <2>1, <3>1 DEF ChainInv, Position, IsFragment
  <2>2. CASE p = Len(payloads) + 1
    <3>1. Continues(p) => p - 1 \in 1..Len(payloads) /\ p - 1 = Len(payloads)
      BY <1>1, <2>2 DEF Continues
    <3> QED
      BY <1>1, <1>3, <1>4, <1>5, <2>2, <3>1, p \in 1..(Len(payloads) + 1) DEF IsFragment
  <2> QED
    BY <1>1, <2>1, <2>2
<1>8. MarkInv'
  BY <1>1, <1>2 DEF MarkInv, EndsNalu, IsFragment
<1>9. /\ lost' = lost /\ lost \subseteq 1..Len(payloads) /\ (EndLost' <=> EndLost)
      /\ \A k : Reached(k)' <=> Reached(k)
  <2>1. lost' = lost /\ lost \subseteq 1..Len(payloads)
    BY <1>1, <1>2 DEF TypeOK, transportVars
  <2>2. \A p \in lost : payloads'[p] = payloads[p] /\ Fragment(p)' = Fragment(p)
    BY <1>1, <1>4, <2>1
  <2> QED
    BY <2>1, <2>2 DEF EndLost, Reached, IsFragment
<1>10. BufferInv'
  <2>1. rcvd + 1 \in 1..(Len(payloads) + 1) /\ (Continues(rcvd + 1) => rcvd \in 1..Len(payloads))
    BY <1>1, <1>2 DEF Continues
  <2>2. rcvd' = rcvd /\ fua_buffer' = fua_buffer /\ Continues(rcvd + 1)' = Continues(rcvd + 1)
    BY <1>3, <2>1 DEF depacketizerVars, transportVars
  <2>3. CASE Continues(rcvd + 1)
    <3>1. Fragment(rcvd)' = Fragment(rcvd)
      BY <1>4, <2>1, <2>2, <2>3
    <3> QED
      BY <1>9, <2>2, <2>3, <3>1 DEF BufferInv
  <2>4. CASE ~Continues(rcvd + 1)
    BY <1>9, <2>2, <2>4 DEF BufferInv
  <2> QED
    BY <2>3, <2>4
<1>11. DamageIsLocal'
  <2>1. delivered' = delivered /\ \A k : Whole(k)' = Whole(k)
    BY DEF Whole, depacketizerVars
  <2> QED
    BY <1>9, <2>1 DEF DamageIsLocal, Position
<1>12. OrderInv'
  <2>1. cur \in Nat /\ cur' \in Nat /\ cur <= cur' /\ Current' = cur' + 1 /\ Current = cur + 1
    BY LenProperties DEF TypeOK, Current
  <2>2. \A p \in 1..Len(payloads) : Fragment(p).nalu \in Nat /\ (IsFragment(payloads[p]) =>
           Fragment(p).nalu <= IF payloads[p].e THEN cur ELSE Current)
    BY FragmentFacts DEF OrderInv, Position
  <2>3. Position(payloads') = 1..(Len(payloads) + 1)
    BY <1>1 DEF Position
  <2>4. \A p \in 1..Len(payloads) : payloads'[p] = payloads[p] /\ Fragment(p)' = Fragment(p)
    BY <1>1, <1>4
  <2>5. \A p : p = Len(payloads) + 1 => payloads'[p] = x /\ Fragment(p)' = x.pieces[1]
    BY <1>1, <1>5
  <2>6. ASSUME NEW p \in 1..(Len(payloads) + 1), IsFragment(payloads'[p])
        PROVE  Fragment(p)'.nalu <= IF payloads'[p].e THEN cur' ELSE Current'
    <3>1. CASE p \in 1..Len(payloads)
      BY <2>1, <2>2, <2>4, <2>6, <3>1
    <3>2. CASE p = Len(payloads) + 1
      BY <2>1, <2>5, <2>6, <3>2 DEF IsFragment
    <3> QED
      BY <1>1, <3>1, <3>2
  <2>7. ASSUME NEW p \in 1..(Len(payloads) + 1), NEW q \in 1..(Len(payloads) + 1),
               IsFragment(payloads'[p]), payloads'[p].e, IsFragment(payloads'[q]), p < q
        PROVE  Fragment(p)'.nalu < Fragment(q)'.nalu
    <3>1. p \in 1..Len(payloads)
      BY <1>1, <2>7
    <3>2. CASE q \in 1..Len(payloads)
      BY <2>4, <2>7, <3>1, <3>2 DEF OrderInv, Position
    <3>3. CASE q = Len(payloads) + 1
      <4>1. Fragment(q)'.nalu = Current
        BY <2>5, <2>7, <3>3 DEF IsFragment
      <4>2. Fragment(p)' = Fragment(p) /\ Fragment(p).nalu <= cur /\ Fragment(p).nalu \in Nat
        BY <2>2, <2>4, <2>7, <3>1
      <4> QED
        BY <2>1, <4>1, <4>2
    <3> QED
      BY <1>1, <3>2, <3>3
  <2> QED
    BY <2>3, <2>6, <2>7 DEF OrderInv, IsFragment, Position
<1> QED
  BY <1>6, <1>7, <1>8, <1>10, <1>11, <1>12

-----------------------------------------------------------------------------
(* The packetizer's steps, one lemma for each.                             *)

\* Facts about the NAL unit EmitNalus is at.
LEMMA AtNaluFacts ==
    ASSUME IndInv, AtNalu \/ pc = "fua"
    PROVE  /\ Current \in 1..Len(given) /\ Current \in Nat /\ Len(given) \in Nat
           /\ CurrentNalu \in Nalu /\ CurrentNalu.len \in Nat
           /\ WholePiece(Current) \in PieceType
           /\ NaluSize(CurrentNalu) > Mtu => CurrentNalu.len > 0
<1>1. cur \in Nat /\ Len(given) \in Nat /\ cur < Len(given)
  BY LenProperties DEF IndInv, TypeOK, LoopInv, AtNalu
<1>2. Current \in 1..Len(given)
  BY <1>1 DEF Current
<1>3. CurrentNalu \in Nalu
  BY <1>2, ElementOfSeq DEF IndInv, TypeOK, CurrentNalu
<1>4. CurrentNalu.len \in Nat
  BY <1>3 DEF Nalu
<1>5. NaluSize(CurrentNalu) > Mtu => CurrentNalu.len > 0
  <2> DEFINE n == CurrentNalu.len
  <2>0. n \in Nat
    BY <1>4
  <2>1. n \in Nat /\ Mtu \in Nat /\ Mtu >= 1
    BY <2>0, MtuAssumption
  <2>2. NaluSize(CurrentNalu) = 1 + n
    BY DEF NaluSize
  <2> HIDE DEF n
  <2>3. 1 + n > Mtu => n > 0
    BY <2>1
  <2> QED
    BY <2>2, <2>3 DEF n
<1> QED
  BY <1>1, <1>2, <1>3, <1>4, <1>5 DEF WholePiece, Piece, PieceType, CurrentNalu

\* The configuration calls.
LEMMA ToggleInd ==
    ASSUME IndInv, EnableStapA \/ DisableStapA, UNCHANGED <<depacketizerVars, transportVars>>
    PROVE  IndInv'
<1> USE DEF EnableStapA, DisableStapA, storeVars, outVars
<1>1. (ShapeInv /\ ChainInv /\ OrderInv /\ BufferInv /\ DamageIsLocal)'
  BY SamePayloads
<1>2. TypeOK'
  BY DEF IndInv, TypeOK, PayloadType, PieceType, UnitType, depacketizerVars, transportVars
<1>3. (LoopInv /\ OpenInv /\ MarkInv)'
  BY DEF IndInv, LoopInv, OpenInv, MarkInv, Continues, Fragment, EndsNalu, IsFragment,
         Current, CurrentNalu
<1> QED
  BY <1>1, <1>2, <1>3 DEF IndInv

\* A NAL unit that makes no payload: filtered or stored.
LEMMA NoPayloadInd ==
    ASSUME IndInv, FilterNalu \/ StoreParameterSet, UNCHANGED <<depacketizerVars, transportVars>>
    PROVE  IndInv'
<1> USE DEF FilterNalu, StoreParameterSet, storeVars, outVars
<1>1. (ShapeInv /\ ChainInv /\ OrderInv /\ BufferInv /\ DamageIsLocal)'
  BY SamePayloads
<1>2. Current \in 1..Len(given) /\ cur \in Nat /\ AtNalu
  BY AtNaluFacts DEF IndInv, TypeOK
<1>3. TypeOK'
  <2>1. cur' \in 0..Len(given') /\ sps_nalu' \in 0..cur' /\ pps_nalu' \in 0..cur'
    BY <1>2 DEF IndInv, TypeOK, Current
  <2> QED
    BY <2>1 DEF IndInv, TypeOK, PayloadType, PieceType, UnitType, depacketizerVars, transportVars
<1>4. (LoopInv /\ OpenInv /\ MarkInv)'
  BY <1>2 DEF IndInv, LoopInv, OpenInv, MarkInv, Continues, Fragment, EndsNalu, IsFragment, AtNalu
<1> QED
  BY <1>1, <1>3, <1>4 DEF IndInv

\* The FU-A loop starts on a NAL unit of more than Mtu bytes.
LEMMA StartFuaInd ==
    ASSUME IndInv, StartFua, UNCHANGED <<depacketizerVars, transportVars>>
    PROVE  IndInv'
<1> USE DEF StartFua, AtOutgoing, ClearPair, storeVars, outVars
<1>1. (ShapeInv /\ ChainInv /\ OrderInv /\ BufferInv /\ DamageIsLocal)'
  BY SamePayloads
<1>2. /\ Current \in 1..Len(given) /\ cur \in Nat /\ cur < Len(given)
      /\ CurrentNalu.len \in Nat
  BY AtNaluFacts DEF IndInv, TypeOK, AtNalu
<1>3. TypeOK'
  <2>1. sps_nalu' \in 0..cur' /\ pps_nalu' \in 0..cur' /\ nalu_index' \in Nat
    BY <1>2 DEF IndInv, TypeOK
  <2> QED
    BY <2>1 DEF IndInv, TypeOK, PayloadType, PieceType, UnitType, depacketizerVars, transportVars
<1>4. LoopInv'
  <2>1. CurrentNalu.len > 0
    BY AtNaluFacts
  <2>2. CurrentNalu' = CurrentNalu
    BY DEF CurrentNalu, Current
  <2> QED
    BY <1>2, <2>1, <2>2 DEF LoopInv, NaluSize
<1>5. OpenInv'
  BY <1>2 DEF IndInv, OpenInv, Continues, EndsNalu, IsFragment, AtNalu
<1>6. MarkInv'
  BY DEF IndInv, MarkInv, EndsNalu, IsFragment
<1> QED
  BY <1>1, <1>3, <1>4, <1>5, <1>6 DEF IndInv

\* The call returns: the payload it marks ends its NAL unit.
LEMMA ReturnInd ==
    ASSUME IndInv, Return, UNCHANGED <<depacketizerVars, transportVars>>
    PROVE  IndInv'
<1> USE DEF Return, storeVars
<1>1. (ShapeInv /\ ChainInv /\ OrderInv /\ BufferInv /\ DamageIsLocal)'
  BY SamePayloads
<1>2. /\ Len(payloads) \in Nat /\ packets \in Nat /\ packets <= Len(payloads)
      /\ marked \subseteq 1..packets
      /\ marked' \subseteq 1..Len(payloads)
  <2>1. /\ Len(payloads) \in Nat /\ packets \in Nat /\ packets <= Len(payloads)
        /\ marked \subseteq 1..packets
    BY LenProperties DEF IndInv, TypeOK
  <2>2. Len(payloads) > packets => Len(payloads) \in 1..Len(payloads)
    BY <2>1
  <2>3. 1..packets \subseteq 1..Len(payloads)
    BY <2>1
  <2> QED
    BY <2>1, <2>2, <2>3 DEF MarkedPacket
<1>3. TypeOK'
  <2>1. packets' \in 0..Len(payloads) /\ rcvd' \in 0..packets' /\ marked' \subseteq 1..packets'
    BY <1>2 DEF IndInv, TypeOK, transportVars
  <2> QED
    BY <2>1 DEF IndInv, TypeOK, PayloadType, PieceType, UnitType, depacketizerVars, transportVars
<1>4. LoopInv'
  BY DEF LoopInv
<1>5. OpenInv'
  BY DEF IndInv, OpenInv, Continues, EndsNalu, IsFragment
<1>6. MarkInv'
  <2>1. Len(payloads) > packets => EndsNalu(payloads[Len(payloads)])
    <3>1. ~Continues(Len(payloads) + 1)
      BY DEF IndInv, OpenInv
    <3> QED
      BY <1>2, <3>1 DEF Continues
  <2> QED
    BY <2>1 DEF IndInv, MarkInv, MarkedPacket, EndsNalu, IsFragment
<1> QED
  BY <1>1, <1>3, <1>4, <1>5, <1>6 DEF IndInv

LEMMA SeqMonotone ==
    ASSUME NEW S, NEW T, S \subseteq T
    PROVE  Seq(S) \subseteq Seq(T)
OBVIOUS

\* A call with a new frame: what was given before keeps its place.
LEMMA PacketizeInd ==
    ASSUME IndInv, NEW frame \in Frames, Packetize(frame),
           UNCHANGED <<depacketizerVars, transportVars>>
    PROVE  IndInv'
<1> USE DEF Packetize, storeVars, outVars
<1>1. frame \in Seq(Nalu)
  BY FramesAssumption
<1>2. /\ given \in Seq(Nalu) /\ given' \in Seq(Nalu)
      /\ Len(given) \in Nat /\ Len(given') \in Nat /\ Len(given) <= Len(given')
      /\ \A k \in 1..Len(given) : given'[k] = given[k]
  BY <1>1, ConcatProperties, LenProperties DEF IndInv, TypeOK
<1>3. 1..Len(given) \subseteq 1..Len(given')
  BY <1>2
<1>4. PayloadType \subseteq PayloadType' /\ UnitType \subseteq UnitType'
  <2>1. PieceType \subseteq PieceType'
    BY <1>3 DEF PieceType
  <2>2. Seq(PieceType) \subseteq Seq(PieceType')
    BY <2>1, SeqMonotone
  <2> QED
    BY <1>3, <2>2 DEF PayloadType, UnitType
<1>5. TypeOK'
  <2>1. payloads \in Seq(PayloadType') /\ delivered \in Seq(UnitType') /\ sent \in Seq(1..Len(given'))
    BY <1>3, <1>4, SeqMonotone DEF IndInv, TypeOK
  <2>2. cur \in 0..Len(given')
    BY <1>2 DEF IndInv, TypeOK
  <2> QED
    BY <1>2, <2>1, <2>2 DEF IndInv, TypeOK, depacketizerVars, transportVars
<1>6. LoopInv'
  BY DEF LoopInv
<1>7. \A p \in Position(payloads) :
         /\ Fragment(p).nalu \in 1..Len(given)
         /\ \A i \in Position(payloads[p].pieces) :
               payloads[p].pieces[i].nalu \in 1..Len(given)
  BY FragmentFacts
<1>8. ShapeInv'
  BY <1>2, <1>7 DEF IndInv, ShapeInv, Position, IsFragment, WholePiece
<1>9. ChainInv'
  BY <1>2, <1>7 DEF IndInv, ChainInv, Continues, Fragment, EndsNalu, IsFragment, Position
<1>10. OpenInv' /\ MarkInv' /\ OrderInv'
  BY DEF IndInv, OpenInv, MarkInv, OrderInv, Continues, Fragment, EndsNalu, IsFragment, Current,
         Position
<1>11. BufferInv'
  BY DEF IndInv, BufferInv, EndLost, Reached, Continues, Fragment, EndsNalu, IsFragment,
         depacketizerVars, transportVars
<1>12. DamageIsLocal'
  <2>1. \A i \in Position(delivered) : delivered[i].hdr \in 1..Len(given)
    <3>1. \A i \in Position(delivered) : delivered[i] \in UnitType
      BY ElementOfSeq DEF IndInv, TypeOK, Position
    <3> QED
      BY <3>1 DEF UnitType
  <2>2. \A k : Reached(k)' <=> Reached(k)
    BY DEF Reached, Fragment, IsFragment, transportVars
  <2> QED
    BY <1>2, <2>1, <2>2 DEF IndInv, DamageIsLocal, Whole, Position, depacketizerVars
<1> QED
  BY <1>5, <1>6, <1>8, <1>9, <1>10, <1>11, <1>12 DEF IndInv

\* What SendSingle and SendStapA share: a payload of whole NAL units goes out
\* and EmitNalus goes on to the next NAL unit.
LEMMA SendWholeInd ==
    ASSUME IndInv, AtNalu,
           NEW x \in PayloadType, x.kind # "fua",
           Len(x.pieces) = IF x.kind = "stapa" THEN 3 ELSE 1,
           \A i \in Position(x.pieces) : x.pieces[i] = WholePiece(x.pieces[i].nalu),
           payloads' = Append(payloads, x),
           sent' \in Seq(1..Len(given)),
           ClearPair, cur' = Current,
           UNCHANGED <<given, disable_stap_a, pc, nalu_index, outVars,
                       depacketizerVars, transportVars>>
    PROVE  IndInv'
<1> USE DEF outVars, storeVars, ClearPair
<1>1. Current \in 1..Len(given) /\ cur \in Nat /\ Len(given) \in Nat
  BY AtNaluFacts DEF IndInv, TypeOK
<1>2. ~Continues(Len(payloads) + 1)
  BY DEF IndInv, OpenInv, AtNalu
<1>3. (ShapeInv /\ ChainInv /\ MarkInv /\ OrderInv /\ BufferInv /\ DamageIsLocal)'
  BY <1>2, AppendPayload
<1>4. /\ payloads' \in Seq(PayloadType) /\ Len(payloads') = Len(payloads) + 1
      /\ Len(payloads) \in Nat
      /\ payloads'[Len(payloads')] = x
  BY AppendProperties, LenProperties DEF IndInv, TypeOK
<1>5. TypeOK'
  <2>1. cur' \in 0..Len(given) /\ cur' = cur + 1
    BY <1>1 DEF Current
  <2>2. /\ sps_nalu \in 0..cur /\ sps_nalu' \in {0, sps_nalu}
        /\ pps_nalu \in 0..cur /\ pps_nalu' \in {0, pps_nalu}
    BY DEF IndInv, TypeOK
  <2>3. sps_nalu' \in 0..cur' /\ pps_nalu' \in 0..cur'
    BY <1>1, <2>1, <2>2
  <2>4. packets' \in 0..Len(payloads')
    BY <1>4 DEF IndInv, TypeOK
  <2> QED
    BY <1>4, <2>1, <2>3, <2>4
    DEF IndInv, TypeOK, PayloadType, PieceType, UnitType, depacketizerVars, transportVars
<1>6. LoopInv'
  BY DEF LoopInv, AtNalu
<1>7. OpenInv'
  <2>1. ~Continues(Len(payloads) + 1)'
    BY <1>4 DEF Continues, EndsNalu, IsFragment
  <2> QED
    BY <2>1 DEF OpenInv, AtNalu
<1> QED
  BY <1>3, <1>5, <1>6, <1>7 DEF IndInv

LEMMA SendSingleInd ==
    ASSUME IndInv, SendSingle, UNCHANGED <<depacketizerVars, transportVars>>
    PROVE  IndInv'
<1> DEFINE x == SinglePayload(WholePiece(Current))
<1>1. AtNalu /\ Current \in 1..Len(given) /\ WholePiece(Current) \in PieceType
  BY AtNaluFacts DEF SendSingle, AtOutgoing
<1>2. x \in PayloadType /\ Len(x.pieces) = 1 /\ x.kind = "single"
  BY <1>1 DEF SinglePayload, PayloadType
<1>3. \A i \in Position(x.pieces) : x.pieces[i] = WholePiece(x.pieces[i].nalu)
  BY DEF SinglePayload, WholePiece, Piece, Position
<1>4. sent' \in Seq(1..Len(given))
  BY <1>1, AppendProperties DEF SendSingle, IndInv, TypeOK
<1> HIDE DEF x
<1>5. payloads' = Append(payloads, x)
  BY DEF SendSingle, x
<1> QED
  BY <1>1, <1>2, <1>3, <1>4, <1>5, SendWholeInd DEF SendSingle

LEMMA SendStapAInd ==
    ASSUME IndInv, SendStapA, UNCHANGED <<depacketizerVars, transportVars>>
    PROVE  IndInv'
<1> DEFINE x == StapAPayload(WholePiece(sps_nalu), WholePiece(pps_nalu), WholePiece(Current))
<1>1. AtNalu /\ Current \in 1..Len(given) /\ WholePiece(Current) \in PieceType
  BY AtNaluFacts DEF SendStapA, AtOutgoing
<1>2. /\ sps_nalu \in 1..Len(given) /\ pps_nalu \in 1..Len(given)
      /\ cur \in Nat /\ Len(given) \in Nat
  BY LenProperties DEF IndInv, TypeOK, SendStapA, PairPending
<1>3. \A k \in 1..Len(given) : WholePiece(k) \in PieceType
  <2> SUFFICES ASSUME NEW k \in 1..Len(given) PROVE WholePiece(k) \in PieceType
    OBVIOUS
  <2>1. given[k] \in Nalu
    BY ElementOfSeq DEF IndInv, TypeOK
  <2>2. given[k].len \in Nat
    BY <2>1 DEF Nalu
  <2> QED
    BY <2>2 DEF WholePiece, Piece, PieceType
<1>4. x \in PayloadType /\ Len(x.pieces) = 3 /\ x.kind = "stapa"
  <2>1. /\ WholePiece(sps_nalu) \in PieceType /\ WholePiece(pps_nalu) \in PieceType
    BY <1>2, <1>3
  <2>2. <<WholePiece(sps_nalu), WholePiece(pps_nalu), WholePiece(Current)>> \in Seq(PieceType)
    BY <1>1, <2>1
  <2> QED
    BY <2>2 DEF StapAPayload, PayloadType
<1>5. \A i \in Position(x.pieces) : x.pieces[i] = WholePiece(x.pieces[i].nalu)
  BY DEF StapAPayload, WholePiece, Piece, Position
<1>6. sent' \in Seq(1..Len(given))
  <2>1. <<sps_nalu, pps_nalu, Current>> \in Seq(1..Len(given))
    BY <1>1, <1>2
  <2> QED
    BY <2>1, ConcatProperties DEF SendStapA, IndInv, TypeOK
<1> HIDE DEF x
<1>7. payloads' = Append(payloads, x)
  BY DEF SendStapA, x
<1> QED
  BY <1>1, <1>4, <1>5, <1>6, <1>7, SendWholeInd DEF SendStapA

\* What a turn of the FU-A loop cuts: it fits, stays within the NAL unit, and has
\* the end bit exactly if it reaches the end.
LEMMA FuaFacts ==
    ASSUME Mtu >= 2, IndInv, FuaFragment, NEW next, next = nalu_index + CurrentFragmentSize
    PROVE  /\ next \in Nat /\ nalu_index <= next /\ next <= CurrentNalu.len
           /\ 2 + (next - nalu_index) <= Mtu
           /\ EndBit \in BOOLEAN /\ StartBit \in BOOLEAN
           /\ EndBit <=> next = CurrentNalu.len
<1> DEFINE size == CurrentFragmentSize
           len == CurrentNalu.len
<1>1. /\ len \in Nat /\ nalu_index \in Nat /\ nalu_index < len /\ 1 + len > Mtu
  BY AtNaluFacts DEF FuaFragment, IndInv, TypeOK, LoopInv, NaluSize
<1>2. Mtu \in Nat /\ NaluRemaining = len - nalu_index
  BY MtuAssumption DEF NaluRemaining
<1>3. size = IF Mtu - 2 < len - nalu_index THEN Mtu - 2 ELSE len - nalu_index
  BY <1>2 DEF CurrentFragmentSize, kFuaHeaderSize
<1>4. StartBit <=> len - nalu_index = len
  BY <1>2 DEF StartBit
<1>5. EndBit <=> ~StartBit /\ len - nalu_index <= size
  BY <1>2 DEF EndBit
<1>6. EndBit \in BOOLEAN /\ StartBit \in BOOLEAN
  BY DEF EndBit, StartBit
<1> HIDE DEF size, len
<1>7. next = nalu_index + size
  BY DEF size
<1>8. /\ next \in Nat /\ nalu_index <= next /\ next <= len
      /\ 2 + (next - nalu_index) <= Mtu
  BY <1>1, <1>2, <1>3, <1>7
<1>9. EndBit <=> next = len
  BY <1>1, <1>2, <1>3, <1>4, <1>5, <1>7
<1> QED
  BY <1>6, <1>8, <1>9 DEF len

\* One turn of the FU-A loop.  With an MTU of 1 the only fragment would be a
\* start without an end.
LEMMA FuaFragmentInd ==
    ASSUME Mtu >= 2, IndInv, FuaFragment, UNCHANGED <<depacketizerVars, transportVars>>
    PROVE  IndInv'
<1> DEFINE next == nalu_index + CurrentFragmentSize
           x == FuaPayload(Piece(Current, nalu_index, next), StartBit, EndBit)
           len == CurrentNalu.len
<1> USE DEF outVars, storeVars
<1>1. /\ pc = "fua" /\ Current \in 1..Len(given) /\ cur \in Nat /\ Len(given) \in Nat
      /\ len \in Nat /\ nalu_index \in Nat /\ nalu_index < len /\ 1 + len > Mtu
  BY AtNaluFacts DEF FuaFragment, IndInv, TypeOK, LoopInv, NaluSize
<1>2. /\ next \in Nat /\ nalu_index <= next /\ next <= len
      /\ EndBit \in BOOLEAN /\ (EndBit <=> next = len)
  BY FuaFacts
<1>3. x \in PayloadType /\ Len(x.pieces) = 1 /\ x.kind = "fua" /\ x.e = EndBit
      /\ x.pieces[1].nalu = Current /\ x.pieces[1].from = nalu_index /\ x.pieces[1].to = next
  <2>1. Piece(Current, nalu_index, next) \in PieceType
    BY <1>1, <1>2 DEF Piece, PieceType
  <2>2. StartBit \in BOOLEAN
    BY DEF StartBit
  <2> QED
    BY <1>2, <2>1, <2>2 DEF FuaPayload, PayloadType, Piece
<1>4. /\ given' = given /\ payloads' = Append(payloads, x) /\ nalu_index' = next
      /\ IF next = len
         THEN pc' = "emit" /\ cur' = Current /\ sent' = Append(sent, Current)
         ELSE UNCHANGED <<pc, cur, sent>>
      /\ UNCHANGED <<sps_nalu, pps_nalu, disable_stap_a, packets, marked>>
  BY DEF FuaFragment
<1> HIDE DEF next, x
<1>5. IF Continues(Len(payloads) + 1)
      THEN Fragment(Len(payloads)).nalu = Current /\ Fragment(Len(payloads)).to = nalu_index
      ELSE nalu_index = 0
  BY <1>1 DEF IndInv, OpenInv
<1>6. (ShapeInv /\ ChainInv /\ MarkInv /\ OrderInv /\ BufferInv /\ DamageIsLocal)'
  BY <1>2, <1>3, <1>4, <1>5, AppendPayload DEF CurrentNalu
<1>7. /\ payloads' \in Seq(PayloadType) /\ Len(payloads') = Len(payloads) + 1
      /\ Len(payloads) \in Nat
      /\ payloads'[Len(payloads')] = x
  BY <1>3, <1>4, AppendProperties, LenProperties DEF IndInv, TypeOK
<1>8. TypeOK'
  <2>1. cur' \in 0..Len(given) /\ sps_nalu' \in 0..cur' /\ pps_nalu' \in 0..cur'
    <3>1. sps_nalu \in 0..cur /\ pps_nalu \in 0..cur /\ cur \in 0..Len(given)
      BY DEF IndInv, TypeOK
    <3>2. cur' = cur \/ cur' = cur + 1
      BY <1>4 DEF Current
    <3>3. cur' \in 0..Len(given)
      BY <1>1, <1>4, <3>1
    <3>4. 0..cur \subseteq 0..cur'
      BY <1>1, <3>2
    <3> QED
      BY <1>4, <3>1, <3>3, <3>4
  <2>2. packets' \in 0..Len(payloads')
    BY <1>4, <1>7 DEF IndInv, TypeOK
  <2>3. sent' \in Seq(1..Len(given))
    <3>1. sent \in Seq(1..Len(given))
      BY DEF IndInv, TypeOK
    <3>2. Append(sent, Current) \in Seq(1..Len(given))
      BY <1>1, <3>1, AppendProperties
    <3> QED
      BY <1>4, <3>1, <3>2
  <2>4. nalu_index' \in Nat /\ pc' \in {"idle", "emit", "fua"}
    BY <1>1, <1>2, <1>4
  <2> QED
    BY <1>4, <1>7, <2>1, <2>2, <2>3, <2>4
    DEF IndInv, TypeOK, PayloadType, PieceType, UnitType, depacketizerVars, transportVars
<1>9. LoopInv'
  <2>1. CASE next = len
    BY <1>4, <2>1 DEF LoopInv
  <2>2. CASE next # len
    BY <1>1, <1>2, <1>4, <2>2 DEF IndInv, LoopInv, CurrentNalu, Current, NaluSize
  <2> QED
    BY <2>1, <2>2
<1>10. OpenInv'
  <2>1. Continues(Len(payloads) + 1)' <=> next # len
    BY <1>2, <1>3, <1>7 DEF Continues, EndsNalu, IsFragment
  <2>2. CASE next = len
    BY <1>4, <2>1, <2>2 DEF OpenInv
  <2>3. CASE next # len
    <3>1. Fragment(Len(payloads))' = x.pieces[1]
      BY <1>7 DEF Fragment
    <3> QED
      BY <1>1, <1>3, <1>4, <2>1, <2>3, <3>1 DEF OpenInv, Current
  <2> QED
    BY <2>2, <2>3
<1> QED
  BY <1>6, <1>8, <1>9, <1>10 DEF IndInv

-----------------------------------------------------------------------------
(* The depacketizer's step.                                                *)

\* A unit that DamageIsLocal does not object to.
Right(u) == u = Whole(u.hdr) \/ Reached(u.hdr)

\* Whatever arrives or is lost leaves the sender's part of the invariant alone.
LEMMA SenderKeeps ==
    ASSUME IndInv, UNCHANGED <<given, cur, pc, nalu_index, payloads, marked>>
    PROVE  (LoopInv /\ ShapeInv /\ ChainInv /\ OpenInv /\ MarkInv /\ OrderInv)'
<1>1. LoopInv' /\ MarkInv'
  BY DEF IndInv, LoopInv, MarkInv, EndsNalu, IsFragment, Current, CurrentNalu
<1>2. ShapeInv'
  BY DEF IndInv, ShapeInv, IsFragment, WholePiece, Position
<1>3. ChainInv' /\ OpenInv'
  BY DEF IndInv, ChainInv, OpenInv, Continues, Fragment, EndsNalu, IsFragment, Current, Position
<1>4. OrderInv'
  BY DEF IndInv, OrderInv, Fragment, IsFragment, Current, Position
<1> QED
  BY <1>1, <1>2, <1>3, <1>4

LEMMA ReceiveInd ==
    ASSUME IndInv, Receive
    PROVE  IndInv'
<1> DEFINE r == rcvd + 1
           x == payloads[r]
<1> USE DEF Receive, packetizerVars
<1>1. /\ rcvd \in Nat /\ r \in 1..packets /\ packets \in Nat /\ packets <= Len(payloads)
      /\ Len(payloads) \in Nat /\ Len(given) \in Nat
      /\ r \in Position(payloads)
  BY LenProperties DEF IndInv, TypeOK, Position
<1>2. x \in PayloadType /\ x.pieces \in Seq(PieceType)
  <2>1. x \in PayloadType
    BY <1>1, ElementOfSeq DEF IndInv, TypeOK, Position
  <2> QED
    BY <2>1 DEF PayloadType
<1>3. \A i \in Position(x.pieces) :
         /\ x.pieces[i].nalu \in 1..Len(given) /\ x.pieces[i].nalu \in Nat
         /\ x.pieces[i].from \in Nat /\ x.pieces[i].to \in Nat
  <2>1. \A i \in Position(x.pieces) : x.pieces[i] \in PieceType
    BY <1>2, ElementOfSeq DEF Position
  <2> QED
    BY <1>1, <2>1 DEF PieceType
<1>4. 1 \in Position(x.pieces) /\ (x.kind = "stapa" => Position(x.pieces) = 1..3)
  <2>1. Len(x.pieces) = IF x.kind = "stapa" THEN 3 ELSE 1
    BY <1>1 DEF IndInv, ShapeInv
  <2> QED
    BY <2>1 DEF Position
<1>5. UNCHANGED <<given, cur, sps_nalu, pps_nalu, disable_stap_a, pc, nalu_index,
                 payloads, packets, marked, sent, lost>> /\ rcvd' = r
  OBVIOUS
<1>6. \A k \in 1..Len(given) :
         Whole(k) \in UnitType /\ Whole(k)' = Whole(k) /\ Whole(k).hdr = k
  <2> SUFFICES ASSUME NEW k \in 1..Len(given)
               PROVE  Whole(k) \in UnitType /\ Whole(k)' = Whole(k) /\ Whole(k).hdr = k
    OBVIOUS
  <2>1. given[k] \in Nalu
    BY ElementOfSeq DEF IndInv, TypeOK
  <2>2. given[k].len \in Nat /\ k \in Nat
    BY <1>1, <2>1 DEF Nalu
  <2>3. Bytes(k, 0, given[k].len) \in Seq(Nat \X Nat)
    <3>1. 0 \in Nat /\ 0 <= given[k].len
      BY <2>2
    <3> QED
      BY <2>2, <3>1, BytesType
  <2>4. Whole(k) = [hdr |-> k, body |-> Bytes(k, 0, given[k].len)]
    BY DEF Whole, Unit
  <2>5. Whole(k) \in UnitType /\ Whole(k).hdr = k
    BY <2>3, <2>4 DEF UnitType
  <2>6. Whole(k)' = Whole(k)
    BY <1>5 DEF Whole
  <2> QED
    BY <2>5, <2>6
<1>7. x.kind # "fua" => \A i \in Position(x.pieces) :
         Unit(x.pieces[i].nalu, PieceBytes(x.pieces[i])) = Whole(x.pieces[i].nalu)
  <2> SUFFICES ASSUME x.kind # "fua", NEW i \in Position(x.pieces)
               PROVE  Unit(x.pieces[i].nalu, PieceBytes(x.pieces[i])) = Whole(x.pieces[i].nalu)
    OBVIOUS
  <2>1. x.pieces[i] = WholePiece(x.pieces[i].nalu)
    BY <1>1 DEF IndInv, ShapeInv, IsFragment
  <2>2. x.pieces[i].from = 0 /\ x.pieces[i].to = given[x.pieces[i].nalu].len
    BY <2>1 DEF WholePiece, Piece
  <2> QED
    BY <2>2 DEF Unit, PieceBytes, Whole
<1>8. x.kind # "fua" => (fua_buffer = <<>> \/ EndLost) /\ ~Continues(r + 1)
  BY <1>1 DEF IndInv, ChainInv, BufferInv, Continues, EndsNalu, IsFragment
<1> DEFINE f == Fragment(r)
<1>9. f.nalu \in 1..Len(given) /\ f.nalu \in Nat /\ f.from \in Nat /\ f.to \in Nat
  BY <1>3, <1>4 DEF Fragment
<1>10. x.kind = "fua" =>
         /\ \/ fua_buffer = Bytes(f.nalu, 0, f.from)
            \/ Reached(f.nalu)
         /\ f.from <= f.to
         /\ x.e => f.to = given[f.nalu].len
  <2> SUFFICES ASSUME x.kind = "fua"
               PROVE  /\ fua_buffer = Bytes(f.nalu, 0, f.from) \/ Reached(f.nalu)
                      /\ f.from <= f.to
                      /\ x.e => f.to = given[f.nalu].len
    OBVIOUS
  <2>1. f.from <= f.to /\ (x.e => f.to = given[f.nalu].len) /\ (~Continues(r) => f.from = 0)
    BY <1>1 DEF IndInv, ChainInv, IsFragment
  <2>2. CASE Continues(r)
    <3>1. f.nalu = Fragment(r - 1).nalu /\ f.from = Fragment(r - 1).to /\ r - 1 = rcvd
      BY <1>1, <2>2 DEF IndInv, ChainInv
    <3> QED
      BY <2>1, <2>2, <3>1 DEF IndInv, BufferInv
  <2>3. CASE ~Continues(r)
    <3>1. fua_buffer = <<>> \/ EndLost
      BY <2>3 DEF IndInv, BufferInv
    <3>2. fua_buffer = <<>> => fua_buffer = Bytes(f.nalu, 0, f.from)
      BY <2>1, <2>3 DEF Bytes
    <3>3. EndLost => Reached(f.nalu)
      <4> SUFFICES ASSUME NEW p \in lost, IsFragment(payloads[p]), payloads[p].e
                   PROVE  Reached(f.nalu)
        BY DEF EndLost
      <4>1. p \in Position(payloads) /\ p < r
        BY <1>1 DEF IndInv, TypeOK, Position
      <4>2. Fragment(p).nalu < f.nalu
        BY <1>1, <4>1 DEF IndInv, OrderInv, IsFragment
      <4> QED
        BY <4>2 DEF Reached
    <3> QED
      BY <2>1, <3>1, <3>2, <3>3
  <2> QED
    BY <2>2, <2>3
<1>11. /\ Continues(r + 1) <=> x.kind = "fua" /\ ~x.e
       /\ (Continues(rcvd + 1))' <=> Continues(r + 1)
       /\ \A k : Reached(k)' <=> Reached(k)
       /\ EndLost' <=> EndLost
       /\ Fragment(rcvd)' = f
  BY <1>1, <1>5 DEF Continues, EndsNalu, IsFragment, Reached, EndLost, Fragment
<1>12. /\ delivered \in Seq(UnitType) /\ fua_buffer \in Seq(Nat \X Nat)
       /\ \A i \in Position(delivered) : Right(delivered[i])
  BY DEF IndInv, TypeOK, DamageIsLocal, Right
<1>13. \A k \in 1..Len(given) : Right(Whole(k))
  BY <1>6 DEF Right
<1>14. x.kind = "fua" => fua_buffer \o PieceBytes(f) \in Seq(Nat \X Nat)
  <2> DEFINE k == f.nalu
             a == f.from
             b == f.to
  <2>1. k \in Nat /\ a \in Nat /\ b \in Nat
    BY <1>9
  <2>2. x.kind = "fua" => a <= b
    BY <1>10
  <2> HIDE DEF k, a, b
  <2>3. a <= b => Bytes(k, a, b) \in Seq(Nat \X Nat)
    BY <2>1, BytesType
  <2> QED
    BY <1>12, <2>2, <2>3, ConcatProperties DEF k, a, b, PieceBytes
<1>15. x.kind = "fua" =>
          fua_buffer \o PieceBytes(f) = Bytes(f.nalu, 0, f.to) \/ Reached(f.nalu)
  <2> DEFINE k == f.nalu
             a == f.from
             b == f.to
  <2>1. k \in Nat /\ a \in Nat /\ b \in Nat
    BY <1>9
  <2>2. x.kind = "fua" => a <= b /\ (fua_buffer = Bytes(k, 0, a) \/ Reached(k))
    BY <1>10
  <2>3. PieceBytes(f) = Bytes(k, a, b)
    BY DEF PieceBytes
  <2> HIDE DEF k, a, b
  <2>4. a <= b => Bytes(k, 0, a) \o Bytes(k, a, b) = Bytes(k, 0, b)
    BY <2>1, BytesPrefix
  <2>5. x.kind = "fua" => fua_buffer \o PieceBytes(f) = Bytes(k, 0, b) \/ Reached(k)
    BY <2>2, <2>3, <2>4
  <2> QED
    BY <2>5 DEF k, b
<1> HIDE DEF r, x, f
<1>16. /\ delivered' \in Seq(UnitType) /\ fua_buffer' \in Seq(Nat \X Nat)
       /\ outcome' \in {"true", "throw"}
       /\ \A i \in Position(delivered') : Right(delivered'[i])
       /\ IF Continues(r + 1)
          THEN fua_buffer' = Bytes(f.nalu, 0, f.to) \/ Reached(f.nalu)
          ELSE fua_buffer' = <<>> \/ EndLost
  <2>1. ASSUME NEW u \in UnitType, Right(u), delivered' = Append(delivered, u)
        PROVE  /\ delivered' \in Seq(UnitType)
               /\ \A i \in Position(delivered') : Right(delivered'[i])
    <3>1. /\ delivered' \in Seq(UnitType) /\ Len(delivered') = Len(delivered) + 1
          /\ Len(delivered) \in Nat
          /\ \A i \in 1..Len(delivered) : delivered'[i] = delivered[i]
          /\ delivered'[Len(delivered) + 1] = u
      BY <1>12, <2>1, AppendProperties, LenProperties
    <3>2. ASSUME NEW i \in Position(delivered') PROVE Right(delivered'[i])
      <4>1. i \in 1..Len(delivered) \/ i = Len(delivered) + 1
        BY <3>1 DEF Position
      <4> QED
        BY <1>12, <2>1, <3>1, <4>1 DEF Position
    <3> QED
      BY <3>1, <3>2
  <2>2. CASE ParseSingle(x)
    <3>1. /\ x.kind # "fua" /\ fua_buffer' = fua_buffer /\ outcome' = "true"
          /\ delivered' = Append(delivered, Whole(x.pieces[1].nalu))
      BY <1>4, <1>7, <2>2 DEF ParseSingle
    <3>2. PICK k \in 1..Len(given) : delivered' = Append(delivered, Whole(k))
      BY <1>3, <1>4, <3>1
    <3>3. Whole(k) \in UnitType /\ Right(Whole(k))
      BY <1>6, <1>13
    <3>4. /\ delivered' \in Seq(UnitType)
          /\ \A i \in Position(delivered') : Right(delivered'[i])
      BY <2>1, <3>2, <3>3
    <3> QED
      BY <1>8, <1>12, <3>1, <3>4
  <2>3. CASE ParseStapA(x)
    <3>1. x.kind = "stapa" /\ fua_buffer' = fua_buffer /\ outcome' \in {"true", "throw"}
      BY <2>3 DEF ParseStapA
    <3>2. CASE LengthsAgree(x)
      <4> DEFINE units == [i \in DOMAIN x.pieces |->
                              Unit(x.pieces[i].nalu, PieceBytes(x.pieces[i]))]
      <4>1. DOMAIN x.pieces = 1..3
        BY <1>2, <1>4, <3>1, LenProperties DEF Position
      <4>2. \A i \in 1..3 : units[i] = Whole(x.pieces[i].nalu) /\ x.pieces[i].nalu \in 1..Len(given)
        BY <1>3, <1>4, <1>7, <3>1, <4>1
      <4>3. units \in [1..3 -> UnitType]
        BY <1>6, <4>1, <4>2
      <4>4. units \in Seq(UnitType) /\ Len(units) = 3 /\ \A i \in 1..3 : Right(units[i])
        BY <1>13, <4>1, <4>2, <4>3
      <4>5. delivered' = delivered \o units
        BY <2>3, <3>2 DEF ParseStapA
      <4> HIDE DEF units
      <4>6. /\ delivered' \in Seq(UnitType) /\ Len(delivered') = Len(delivered) + 3
            /\ Len(delivered) \in Nat
            /\ \A i \in 1..(Len(delivered) + 3) : delivered'[i] =
                  IF i <= Len(delivered) THEN delivered[i] ELSE units[i - Len(delivered)]
        <5>1. /\ delivered' \in Seq(UnitType) /\ Len(delivered') = Len(delivered) + Len(units)
              /\ \A i \in 1..(Len(delivered) + Len(units)) : delivered'[i] =
                    IF i <= Len(delivered) THEN delivered[i] ELSE units[i - Len(delivered)]
          BY <1>12, <4>4, <4>5, ConcatProperties
        <5>2. Len(delivered) \in Nat /\ Len(units) = 3
          BY <1>12, <4>4, LenProperties
        <5> QED
          BY <5>1, <5>2
      <4>7. ASSUME NEW i \in Position(delivered') PROVE Right(delivered'[i])
        <5>1. CASE i <= Len(delivered)
          <6>1. i \in 1..Len(delivered) /\ i \in 1..(Len(delivered) + 3)
            BY <4>6, <5>1 DEF Position
          <6>2. delivered'[i] = delivered[i]
            BY <4>6, <5>1, <6>1
          <6> QED
            BY <1>12, <6>1, <6>2 DEF Position
        <5>2. CASE ~(i <= Len(delivered))
          <6>1. i - Len(delivered) \in 1..3
            BY <4>6, <5>2 DEF Position
          <6> QED
            BY <4>4, <4>6, <5>2, <6>1 DEF Position
        <5> QED
          BY <5>1, <5>2
      <4> QED
        BY <1>8, <1>12, <3>1, <4>6, <4>7
    <3>3. CASE ~LengthsAgree(x)
      <4>1. delivered' = delivered
        BY <2>3, <3>3 DEF ParseStapA
      <4> QED
        BY <1>8, <1>12, <3>1, <4>1
    <3> QED
      BY <3>2, <3>3
  <2>4. CASE ParseFua(x)
    <3> DEFINE joined == fua_buffer \o PieceBytes(f)
               u == Unit(f.nalu, joined)
    <3>1. /\ x.kind = "fua" /\ outcome' = "true"
          /\ fua_buffer' = IF x.e THEN <<>> ELSE joined
          /\ delivered' = IF x.e THEN Append(delivered, u) ELSE delivered
      BY <2>4 DEF ParseFua, Leftover, Fragment, f, x
    <3>2. joined \in Seq(Nat \X Nat) /\ (joined = Bytes(f.nalu, 0, f.to) \/ Reached(f.nalu))
      BY <1>14, <1>15, <3>1
    <3>3. CASE x.e
      <4>1. u \in UnitType /\ u.hdr = f.nalu
        BY <1>9, <3>2 DEF Unit, UnitType
      <4>2. joined = Bytes(f.nalu, 0, f.to) => u = Whole(f.nalu)
        BY <1>10, <3>1, <3>3 DEF Whole
      <4>3. Right(u)
        BY <3>2, <4>1, <4>2 DEF Right
      <4> HIDE DEF u, joined
      <4> QED
        BY <1>11, <2>1, <3>1, <3>3, <4>1, <4>3, EmptySeq
    <3>4. CASE ~x.e
      BY <1>11, <1>12, <3>1, <3>2, <3>4
    <3> QED
      BY <3>3, <3>4
  <2> QED
    BY <2>2, <2>3, <2>4 DEF Receive, Depacketize, x, r
<1>17. TypeOK'
  <2>1. rcvd' \in 0..packets /\ lost \subseteq 1..rcvd'
    BY <1>1, <1>5 DEF IndInv, TypeOK, r
  <2> QED
    BY <1>5, <1>16, <2>1 DEF IndInv, TypeOK, PayloadType, PieceType, UnitType
<1>18. (LoopInv /\ ShapeInv /\ ChainInv /\ OpenInv /\ MarkInv /\ OrderInv)'
  BY <1>5, SenderKeeps
<1>19. BufferInv'
  BY <1>5, <1>11, <1>16 DEF BufferInv
<1>20. DamageIsLocal'
  <2>1. \A i \in Position(delivered') : delivered'[i].hdr \in 1..Len(given)
    <3>1. \A i \in Position(delivered') : delivered'[i] \in UnitType
      BY <1>16, ElementOfSeq DEF Position
    <3> QED
      BY <3>1 DEF UnitType
  <2> QED
    BY <1>6, <1>11, <1>16, <2>1 DEF DamageIsLocal, Right, Position
<1> QED
  BY <1>17, <1>18, <1>19, <1>20 DEF IndInv

\* The transport loses the next packet.
LEMMA LoseInd ==
    ASSUME IndInv, Lose
    PROVE  IndInv'
<1> DEFINE r == rcvd + 1
<1> USE DEF Lose, packetizerVars, depacketizerVars
<1>1. /\ rcvd \in Nat /\ r \in 1..packets /\ packets \in Nat /\ packets <= Len(payloads)
      /\ Len(payloads) \in Nat /\ r \in Position(payloads) /\ lost \subseteq 1..rcvd
      /\ rcvd' = r /\ lost' = lost \cup {r}
  BY LenProperties DEF IndInv, TypeOK, Position
<1>2. UNCHANGED <<given, cur, sps_nalu, pps_nalu, disable_stap_a, pc, nalu_index,
                 payloads, packets, marked, sent, fua_buffer, delivered, outcome>>
  OBVIOUS
<1>3. TypeOK'
  <2>1. rcvd' \in 0..packets /\ lost' \subseteq 1..rcvd'
    BY <1>1
  <2> QED
    BY <1>2, <2>1 DEF IndInv, TypeOK, PayloadType, PieceType, UnitType
<1>4. (LoopInv /\ ShapeInv /\ ChainInv /\ OpenInv /\ MarkInv /\ OrderInv)'
  BY <1>2, SenderKeeps
<1>5. (EndLost => EndLost') /\ \A k : Reached(k) => Reached(k)'
  BY <1>1, <1>2 DEF EndLost, Reached, Fragment, IsFragment
<1>6. BufferInv'
  <2>1. /\ Continues(rcvd + 1)' <=> IsFragment(payloads[r]) /\ ~payloads[r].e
        /\ Fragment(rcvd)' = payloads[r].pieces[1]
    BY <1>1, <1>2 DEF Continues, EndsNalu, Fragment, IsFragment
  <2>2. CASE IsFragment(payloads[r]) /\ ~payloads[r].e
    <3>1. Reached(Fragment(rcvd).nalu)'
      BY <1>1, <1>2, <2>1, <2>2 DEF Reached, Fragment, IsFragment
    <3> QED
      BY <2>1, <2>2, <3>1 DEF BufferInv
  <2>3. CASE IsFragment(payloads[r]) /\ payloads[r].e
    <3>1. EndLost'
      BY <1>1, <1>2, <2>3 DEF EndLost, IsFragment
    <3> QED
      BY <2>1, <2>3, <3>1 DEF BufferInv
  <2>4. CASE ~IsFragment(payloads[r])
    <3>1. ~Continues(r)
      BY <1>1, <2>4 DEF IndInv, ChainInv
    <3>2. fua_buffer = <<>> \/ EndLost
      BY <3>1 DEF IndInv, BufferInv
    <3> QED
      BY <1>2, <1>5, <2>1, <2>4, <3>2 DEF BufferInv
  <2> QED
    BY <2>2, <2>3, <2>4
<1>7. DamageIsLocal'
  BY <1>2, <1>5 DEF IndInv, DamageIsLocal, Whole, Position
<1> QED
  BY <1>3, <1>4, <1>6, <1>7 DEF IndInv

\* Only a loss damages what comes out.
LEMMA Intact == IndInv => NoCorruption
BY DEF IndInv, DamageIsLocal, NoCorruption, Reached

-----------------------------------------------------------------------------
(* The stored parameter sets and the order of sending.                     *)

\* What has been sent keeps its place, and everything but NAL units of kinds
\* that Payload drops or stores is where it was.
LEMMA StoreSame ==
    ASSUME IndInv, StoreIndInv,
           UNCHANGED <<given, cur, storeVars, payloads, sent>>
    PROVE  StoreIndInv'
<1> USE DEF StoreIndInv, storeVars
<1>1. PayloadsFit' /\ FreshParameterSets'
  BY DEF PayloadsFit, FreshParameterSets, FreshAt, SentAlone, Fragment, Position
<1>2. SentOnceInOrder'
  BY DEF SentOnceInOrder, IsSlice, IsInjective, Range, Position
<1>3. StoreInv'
  BY DEF StoreInv, StoredRight, SentAlone, Fragment, Range, Position
<1> QED
  BY <1>1, <1>2, <1>3

\* A new frame: what was given before keeps its place.
LEMMA StorePacketize ==
    ASSUME IndInv, StoreIndInv, NEW frame \in Frames, Packetize(frame)
    PROVE  StoreIndInv'
<1> USE DEF StoreIndInv, Packetize, storeVars
<1>1. /\ Len(given) \in Nat /\ Len(given') \in Nat /\ Len(given) <= Len(given')
      /\ \A k \in 1..Len(given) : given'[k] = given[k]
  BY FramesAssumption, ConcatProperties, LenProperties DEF IndInv, TypeOK
<1>2. /\ cur \in Nat /\ cur <= Len(given) /\ sps_nalu \in 0..cur /\ pps_nalu \in 0..cur
      /\ sent \in Seq(1..Len(given))
  BY <1>1 DEF IndInv, TypeOK
<1>3. PayloadsFit'
  BY DEF PayloadsFit, Position
<1>4. FreshParameterSets'
  <2> SUFFICES ASSUME NEW p \in Position(payloads), payloads[p].kind = "stapa",
                      NEW i \in 1..2,
                      NEW k \in payloads[p].pieces[i].nalu + 1 .. payloads[p].pieces[3].nalu - 1,
                      given'[k].type = given'[payloads[p].pieces[i].nalu].type
               PROVE  SentAlone(k, p)'
    BY DEF FreshParameterSets, FreshAt, Position
  <2>1. Position(payloads[p].pieces) = 1..3
    BY DEF IndInv, ShapeInv, Position
  <2>2. /\ payloads[p].pieces[i].nalu \in 1..Len(given)
        /\ payloads[p].pieces[3].nalu \in 1..Len(given)
    <3>1. i \in 1..3 /\ 3 \in 1..3
      OBVIOUS
    <3> QED
      BY <2>1, <3>1, FragmentFacts
  <2>3. k \in 1..Len(given)
    <3> DEFINE a == payloads[p].pieces[i].nalu
               b == payloads[p].pieces[3].nalu
    <3>1. a \in 1..Len(given) /\ b \in 1..Len(given) /\ k \in a + 1 .. b - 1
      BY <2>2
    <3> HIDE DEF a, b
    <3> QED
      BY <1>1, <3>1
  <2>4. SentAlone(k, p)
    <3>1. p \in Position(payloads) /\ FreshAt(p)
      BY DEF FreshParameterSets
    <3> QED
      BY <1>1, <2>2, <2>3, <3>1 DEF FreshAt
  <2> QED
    BY <2>4 DEF SentAlone, Fragment
<1>5. SentOnceInOrder'
  <2>1. \A k \in Range(sent) : k \in 1..Len(given)
    BY <1>2, ElementOfSeq DEF Range
  <2>2. \A k \in 1..Len(given) : IsSlice(k)' <=> IsSlice(k)
    BY <1>1 DEF IsSlice
  <2>3. {k \in Range(sent) : IsSlice(k)'} = {k \in 1..cur : IsSlice(k)'}
    <3>1. \A k \in 1..cur : k \in 1..Len(given)
      BY <1>1, <1>2
    <3> QED
      BY <2>1, <2>2, <3>1 DEF SentOnceInOrder
  <2>4. \A i \in Position(sent) : sent[i] \in 1..Len(given)
    BY <1>2, ElementOfSeq DEF Position
  <2> QED
    BY <2>2, <2>3, <2>4 DEF SentOnceInOrder, Position, IsInjective, Range
<1>6. StoreInv'
  <2>1. ASSUME NEW set \in 0..cur, NEW type, StoredRight(set, type), set # 0
        PROVE  /\ given'[set].type = type
               /\ set \notin Range(sent)
               /\ \A k \in set + 1 .. cur : given'[k].type = type => SentAlone(k, Len(payloads) + 1)
    <3>1. \A k \in set + 1 .. cur : k \in 1..Len(given)
      BY <1>1, <1>2
    <3>2. set \in 1..Len(given)
      BY <1>1, <1>2, <2>1
    <3> QED
      BY <1>1, <2>1, <3>1, <3>2 DEF StoredRight
  <2>2. StoredRight(sps_nalu, "sps")'
    BY <1>2, <2>1 DEF StoreInv, StoredRight, SentAlone, Fragment, Range
  <2>3. StoredRight(pps_nalu, "pps")'
    BY <1>2, <2>1 DEF StoreInv, StoredRight, SentAlone, Fragment, Range
  <2> QED
    BY <2>2, <2>3 DEF StoreInv, Position
<1> QED
  BY <1>3, <1>4, <1>5, <1>6

\* A NAL unit that is dropped or stored is no slice, and replaces only an older
\* set of its kind.
LEMMA StoreNoPayload ==
    ASSUME IndInv, StoreIndInv, FilterNalu \/ StoreParameterSet
    PROVE  StoreIndInv'
<1> USE DEF StoreIndInv
<1>1. /\ AtNalu /\ cur' = Current /\ Current = cur + 1 /\ cur \in Nat
      /\ UNCHANGED <<given, payloads, sent>>
  BY LenProperties DEF FilterNalu, StoreParameterSet, IndInv, TypeOK, Current
<1>2. PayloadsFit' /\ FreshParameterSets'
  BY <1>1 DEF PayloadsFit, FreshParameterSets, FreshAt, SentAlone, Fragment, Position
<1>3. \A i \in Position(sent) : sent[i] <= cur /\ sent[i] \in Nat
  <2>1. \A i \in Position(sent) : sent[i] \in 1..Len(given)
    BY ElementOfSeq DEF IndInv, TypeOK, Position
  <2>2. Len(given) \in Nat
    BY LenProperties DEF IndInv, TypeOK
  <2> QED
    BY <2>1, <2>2 DEF StoreInv
<1>4. SentOnceInOrder'
  <2>1. ~IsSlice(Current)
    BY DEF FilterNalu, StoreParameterSet, IsStored, IsParameterSet, IsFiltered, CurrentNalu,
           IsSlice
  <2>2. \A k \in 1 .. cur + 1 : k \in 1..cur \/ k = Current
    BY <1>1
  <2>3. {k \in 1..cur' : IsSlice(k)} = {k \in 1..cur : IsSlice(k)}
    BY <1>1, <2>1, <2>2
  <2> QED
    BY <1>1, <2>3 DEF SentOnceInOrder, IsSlice, Position, IsInjective, Range
<1>5. ASSUME NEW set \in 0..cur, NEW type, StoredRight(set, type), CurrentNalu.type # type
      PROVE  StoredRight(set, type)'
  <2>1. \A k \in set + 1 .. cur + 1 : k \in set + 1 .. cur \/ k = Current
    BY <1>1
  <2> QED
    BY <1>1, <1>5, <2>1 DEF StoredRight, SentAlone, Fragment, CurrentNalu, Range
<1>6. ASSUME NEW type, CurrentNalu.type = type
      PROVE  /\ given'[Current].type = type
             /\ Current \notin Range(sent')
             /\ \A k \in Current + 1 .. cur' : FALSE
  <2>1. Current \notin Range(sent)
    <3> SUFFICES ASSUME NEW i \in DOMAIN sent, sent[i] = Current PROVE FALSE
      BY DEF Range
    <3>1. i \in Position(sent)
      BY LenProperties DEF IndInv, TypeOK, Position
    <3> QED
      BY <1>1, <1>3, <3>1
  <2> QED
    BY <1>1, <1>6, <2>1 DEF CurrentNalu
<1>7. StoredRight(sps_nalu, "sps")' /\ StoredRight(pps_nalu, "pps")'
  <2>1. /\ sps_nalu \in 0..cur /\ pps_nalu \in 0..cur
        /\ StoredRight(sps_nalu, "sps") /\ StoredRight(pps_nalu, "pps")
    BY DEF IndInv, TypeOK, StoreInv
  <2>2. CASE CurrentNalu.type = "sps" /\ StoreParameterSet
    <3>1. sps_nalu' = Current /\ pps_nalu' = pps_nalu
      BY <2>2 DEF StoreParameterSet
    <3>2. StoredRight(pps_nalu, "pps")'
      BY <1>5, <2>1, <2>2, <3>1 DEF StoredRight
    <3>3. StoredRight(sps_nalu, "sps")'
      BY <1>6, <2>2, <3>1 DEF StoredRight
    <3> QED
      BY <3>2, <3>3
  <2>3. CASE CurrentNalu.type = "pps" /\ StoreParameterSet
    <3>1. pps_nalu' = Current /\ sps_nalu' = sps_nalu
      BY <2>3 DEF StoreParameterSet
    <3>2. StoredRight(sps_nalu, "sps")'
      BY <1>5, <2>1, <2>3, <3>1 DEF StoredRight
    <3>3. StoredRight(pps_nalu, "pps")'
      BY <1>6, <2>3, <3>1 DEF StoredRight
    <3> QED
      BY <3>2, <3>3
  <2>4. CASE FilterNalu
    <3>1. CurrentNalu.type # "sps" /\ CurrentNalu.type # "pps"
      BY <2>4 DEF FilterNalu, IsFiltered
    <3>2. sps_nalu' = sps_nalu /\ pps_nalu' = pps_nalu
      BY <2>4 DEF FilterNalu, storeVars
    <3> QED
      BY <1>5, <2>1, <3>1, <3>2 DEF StoredRight
  <2> QED
    BY <2>2, <2>3, <2>4 DEF StoreParameterSet, IsStored, IsParameterSet
<1>8. StoreInv'
  <2>1. \A i \in Position(sent) : sent[i] <= cur + 1
    BY <1>1, <1>3
  <2> QED
    BY <1>1, <1>7, <2>1 DEF StoreInv, Position
<1> QED
  BY <1>2, <1>4, <1>8

\* A payload that fits, put behind the others, leaves them as they are.
LEMMA StoreAppend ==
    ASSUME IndInv, StoreIndInv, NEW x \in PayloadType,
           payloads' = Append(payloads, x), given' = given,
           PayloadSize(x) <= Mtu,
           x.kind = "stapa" =>
              \A i \in 1..2 : \A k \in x.pieces[i].nalu + 1 .. x.pieces[3].nalu - 1 :
                 given[k].type = given[x.pieces[i].nalu].type => SentAlone(k, Len(payloads) + 1)
    PROVE  /\ PayloadsFit' /\ FreshParameterSets'
           /\ \A k : SentAlone(k, Len(payloads) + 1) => SentAlone(k, Len(payloads) + 1)'
           /\ x.kind # "stapa" => SentAlone(x.pieces[1].nalu, Len(payloads) + 1)'
<1> USE DEF StoreIndInv
<1> PICK n \in Nat : n = Len(payloads)
  BY LenProperties DEF IndInv, TypeOK
<1>1. /\ Len(payloads') = n + 1
      /\ \A p \in 1..n : payloads'[p] = payloads[p]
      /\ payloads'[n + 1] = x
  BY AppendProperties DEF IndInv, TypeOK
<1>2. PayloadsFit'
  <2>1. \A p \in 1..(n + 1) : p \in 1..n \/ p = n + 1
    OBVIOUS
  <2> QED
    BY <1>1, <2>1 DEF PayloadsFit, Position
<1>3. ASSUME NEW p \in 1..(n + 1), NEW k, SentAlone(k, p)
      PROVE  SentAlone(k, p)'
  <2>1. PICK q \in 1..(p - 1) : payloads[q].kind # "stapa" /\ payloads[q].pieces[1].nalu = k
    BY <1>3 DEF SentAlone, Fragment
  <2>2. payloads'[q] = payloads[q]
    BY <1>1, <2>1
  <2> QED
    BY <2>1, <2>2 DEF SentAlone, Fragment
<1>4. FreshParameterSets'
  <2> SUFFICES ASSUME NEW p \in 1..(n + 1) PROVE FreshAt(p)'
    BY <1>1 DEF FreshParameterSets, Position
  <2> SUFFICES ASSUME NEW x2, x2 = payloads'[p], x2.kind = "stapa", NEW i \in 1..2,
                      NEW k \in x2.pieces[i].nalu + 1 .. x2.pieces[3].nalu - 1,
                      given[k].type = given[x2.pieces[i].nalu].type
               PROVE  SentAlone(k, p)'
    BY <1>1 DEF FreshAt
  <2>1. CASE p \in 1..n
    <3>1. x2 = payloads[p]
      BY <1>1, <2>1
    <3>2. FreshAt(p)
      BY <2>1 DEF FreshParameterSets, Position
    <3>3. SentAlone(k, p)
      BY <3>1, <3>2 DEF FreshAt
    <3> QED
      BY <1>3, <3>3
  <2>2. CASE p = n + 1
    <3>1. x2 = x
      BY <1>1, <2>2
    <3>2. SentAlone(k, p)
      BY <2>2, <3>1
    <3> QED
      BY <1>3, <3>2
  <2> QED
    BY <2>1, <2>2
<1>5. \A k : SentAlone(k, Len(payloads) + 1) => SentAlone(k, Len(payloads) + 1)'
  <2> SUFFICES ASSUME NEW k, SentAlone(k, n + 1) PROVE SentAlone(k, Len(payloads) + 1)'
    OBVIOUS
  <2>1. PICK q \in 1..n : payloads[q].kind # "stapa" /\ payloads[q].pieces[1].nalu = k
    <3>1. (n + 1) - 1 = n
      OBVIOUS
    <3> QED
      BY <3>1 DEF SentAlone, Fragment
  <2>2. payloads'[q] = payloads[q] /\ q \in 1 .. Len(payloads') + 1 - 1
    BY <1>1
  <2> QED
    BY <2>1, <2>2 DEF SentAlone, Fragment
<1>6. ASSUME x.kind # "stapa" PROVE SentAlone(x.pieces[1].nalu, Len(payloads) + 1)'
  <2>1. n + 1 \in 1 .. Len(payloads') + 1 - 1
    BY <1>1
  <2> QED
    BY <1>1, <1>6, <2>1 DEF SentAlone, Fragment
<1> QED
  BY <1>2, <1>4, <1>5, <1>6

\* NAL units that were not sent before go out with the current one, of which only
\* it may be a slice.
LEMMA StoreSent ==
    ASSUME IndInv, StoreIndInv, AtNalu \/ pc = "fua",
           NEW more \in Seq(1..Current), IsInjective(more),
           sent' = sent \o more, given' = given, cur' = Current,
           \A j \in Position(more) : more[j] \notin Range(sent),
           \A j \in Position(more) : IsSlice(more[j]) => more[j] = Current,
           Current \in Range(more)
    PROVE  /\ SentOnceInOrder' /\ \A i \in Position(sent') : sent'[i] <= cur'
           /\ Range(sent') = Range(sent) \cup Range(more)
<1> USE DEF StoreIndInv
<1>1. /\ Current \in Nat /\ cur \in Nat /\ Current = cur + 1
      /\ \A i \in Position(sent) : sent[i] <= cur /\ sent[i] \in Nat
  <2>1. Len(given) \in Nat /\ \A i \in Position(sent) : sent[i] \in 1..Len(given)
    BY ElementOfSeq, LenProperties DEF IndInv, TypeOK, Position
  <2>2. cur \in Nat
    BY <2>1 DEF IndInv, TypeOK
  <2> QED
    BY <2>1, <2>2 DEF StoreInv, Current
<1> PICK n \in Nat, m \in Nat : n = Len(sent) /\ m = Len(more)
  BY LenProperties DEF IndInv, TypeOK
<1>2. /\ Len(sent') = n + m /\ DOMAIN sent' = 1..(n + m)
      /\ DOMAIN sent = 1..n /\ DOMAIN more = 1..m
      /\ \A i \in 1..n : sent'[i] = sent[i]
      /\ \A j \in 1..m : sent'[n + j] = more[j] /\ more[j] \in 1..Current
  <2>0. sent \in Seq(1..Len(given))
    BY DEF IndInv, TypeOK
  <2>1. /\ sent' \in Seq((1..Len(given)) \cup (1..Current)) /\ Len(sent') = n + m
        /\ \A i \in 1..(n + m) : sent'[i] = IF i <= n THEN sent[i] ELSE more[i - n]
    <3>1. sent \in Seq((1..Len(given)) \cup (1..Current)) /\ more \in Seq((1..Len(given)) \cup (1..Current))
      BY <2>0, SeqMonotone
    <3> QED
      BY <3>1, ConcatProperties
  <2>2. \A j \in 1..m : ~(n + j <= n) /\ n + j \in 1..(n + m) /\ (n + j) - n = j
    OBVIOUS
  <2>3. \A i \in 1..n : i <= n /\ i \in 1..(n + m)
    OBVIOUS
  <2>4. \A j \in 1..m : more[j] \in 1..Current
    BY ElementOfSeq
  <2>5. DOMAIN sent' = 1..(n + m)
    BY <2>1, LenProperties
  <2>6. DOMAIN sent = 1..n /\ DOMAIN more = 1..m
    BY <2>0, LenProperties
  <2> QED
    BY <2>1, <2>2, <2>3, <2>4, <2>5, <2>6
<1>3. \A i \in 1..(n + m) : i \in 1..n \/ \E j \in 1..m : i = n + j
  <2> SUFFICES ASSUME NEW i \in 1..(n + m), i \notin 1..n PROVE \E j \in 1..m : i = n + j
    OBVIOUS
  <2>1. i - n \in 1..m /\ i = n + (i - n)
    OBVIOUS
  <2> QED
    BY <2>1
<1>4. Range(sent') = Range(sent) \cup Range(more)
  <2>1. \A j \in 1..m : n + j \in 1..(n + m)
    OBVIOUS
  <2>2. \A i \in 1..n : i \in 1..(n + m)
    OBVIOUS
  <2>3. ASSUME NEW i \in 1..(n + m) PROVE sent'[i] \in Range(sent) \cup Range(more)
    <3>1. CASE i \in 1..n
      BY <1>2, <3>1 DEF Range
    <3>2. CASE i \notin 1..n
      <4>1. PICK j \in 1..m : i = n + j
        BY <1>3, <3>2
      <4>2. sent'[i] = more[j] /\ j \in DOMAIN more
        BY <1>2, <4>1
      <4> QED
        BY <4>2 DEF Range
    <3> QED
      BY <3>1, <3>2
  <2>4. ASSUME NEW i \in 1..n PROVE sent[i] \in Range(sent')
    BY <1>2, <2>2 DEF Range
  <2>5. ASSUME NEW j \in 1..m PROVE more[j] \in Range(sent')
    <3>1. sent'[n + j] = more[j] /\ n + j \in DOMAIN sent'
      BY <1>2, <2>1
    <3> QED
      BY <3>1 DEF Range
  <2>6. Range(sent') \subseteq Range(sent) \cup Range(more)
    <3>1. Range(sent') = {sent'[i] : i \in 1..(n + m)}
      BY <1>2 DEF Range
    <3> QED
      BY <2>3, <3>1
  <2>7. Range(sent) \subseteq Range(sent') /\ Range(more) \subseteq Range(sent')
    <3>1. Range(sent) = {sent[i] : i \in 1..n}
      BY <1>2 DEF Range
    <3>2. Range(more) = {more[j] : j \in 1..m}
      BY <1>2 DEF Range
    <3> QED
      BY <2>4, <2>5, <3>1, <3>2
  <2> QED
    BY <2>6, <2>7
<1>5. \A i \in Position(sent') : sent'[i] <= cur'
  <2>1. \A i \in 1..n : sent'[i] <= cur + 1
    BY <1>1, <1>2 DEF Position
  <2>2. \A j \in 1..m : sent'[n + j] <= cur + 1
    BY <1>1, <1>2
  <2> QED
    BY <1>1, <1>2, <1>3, <2>1, <2>2 DEF Position
<1>6. IsInjective(sent')
  <2> SUFFICES ASSUME NEW a \in 1..(n + m), NEW b \in 1..(n + m), sent'[a] = sent'[b]
               PROVE  a = b
    BY <1>2 DEF IsInjective
  <2>1. ASSUME NEW i \in 1..n, NEW j \in 1..m PROVE sent'[i] # sent'[n + j]
    <3>1. sent'[i] = sent[i] /\ i \in DOMAIN sent
      BY <1>2
    <3>2. sent'[n + j] = more[j] /\ more[j] \notin Range(sent)
      BY <1>2 DEF Position
    <3> QED
      BY <3>1, <3>2 DEF Range
  <2>2. CASE a \in 1..n /\ b \in 1..n
    BY <1>2, <2>2 DEF SentOnceInOrder, IsInjective
  <2>3. CASE a \in 1..n /\ b \notin 1..n
    BY <1>3, <2>1, <2>3
  <2>4. CASE a \notin 1..n /\ b \in 1..n
    BY <1>3, <2>1, <2>4
  <2>5. CASE a \notin 1..n /\ b \notin 1..n
    <3>1. PICK i \in 1..m, j \in 1..m : a = n + i /\ b = n + j
      BY <1>3, <2>5
    <3>2. more[i] = more[j]
      BY <1>2, <3>1
    <3> QED
      BY <1>2, <3>1, <3>2 DEF IsInjective
  <2> QED
    BY <2>2, <2>3, <2>4, <2>5
<1>7. {k \in Range(sent') : IsSlice(k)} = {k \in 1..cur' : IsSlice(k)}
  <2>1. \A k \in 1 .. cur + 1 : k \in 1..cur \/ k = Current
    BY <1>1
  <2>2. 1..cur \subseteq 1..cur' /\ Current \in 1..cur'
    BY <1>1
  <2>3. \A k \in Range(more) : IsSlice(k) => k = Current
    BY <1>2 DEF Range, Position
  <2> QED
    BY <1>1, <1>4, <2>1, <2>2, <2>3 DEF SentOnceInOrder
<1>8. ASSUME NEW a \in 1..(n + m), NEW b \in 1..(n + m), a < b,
             IsSlice(sent'[a]), IsSlice(sent'[b])
      PROVE  sent'[a] < sent'[b]
  <2>1. CASE b \in 1..n
    <3>1. a \in 1..n
      BY <1>8, <2>1
    <3> QED
      BY <1>2, <1>8, <2>1, <3>1 DEF SentOnceInOrder, Position
  <2>2. CASE b \notin 1..n
    <3>1. PICK j \in 1..m : b = n + j
      BY <1>3, <2>2
    <3>2. sent'[b] = Current
      BY <1>2, <1>8, <3>1 DEF Position
    <3>3. CASE a \in 1..n
      BY <1>1, <1>2, <3>2, <3>3 DEF Position
    <3>4. CASE a \notin 1..n
      <4>1. PICK i \in 1..m : a = n + i
        BY <1>3, <3>4
      <4>2. sent'[a] = Current
        BY <1>2, <1>8, <4>1 DEF Position
      <4> QED
        <5>1. a \in DOMAIN sent' /\ b \in DOMAIN sent' /\ sent'[a] = sent'[b]
          BY <1>2, <3>2, <4>2
        <5>2. a = b
          BY <1>6, <5>1 DEF IsInjective
        <5> QED
          BY <1>8, <5>2
    <3> QED
      BY <3>3, <3>4
  <2> QED
    BY <2>1, <2>2
<1>9. SentOnceInOrder'
  BY <1>2, <1>6, <1>7, <1>8 DEF SentOnceInOrder, IsSlice, Position
<1> QED
  BY <1>4, <1>5, <1>9

\* What a stored set that stays stored needs while a payload of the current NAL
\* unit alone goes out.
LEMMA StoreStays ==
    ASSUME IndInv, StoreIndInv, AtNalu \/ pc = "fua", given' = given,
           NEW set \in 0..cur, NEW type, StoredRight(set, type), NEW k0, k0 = Current,
           \A k : SentAlone(k, Len(payloads) + 1) => SentAlone(k, Len(payloads) + 1)',
           \/ cur' = cur /\ sent' = sent
           \/ /\ cur' = Current /\ Range(sent') = Range(sent) \cup {Current}
              /\ SentAlone(k0, Len(payloads) + 1)'
    PROVE  (set # 0 => /\ given[set].type = type
                       /\ set \notin Range(sent)
                       /\ \A k \in set + 1 .. cur :
                             given[k].type = type => SentAlone(k, Len(payloads) + 1))'
<1>1. cur \in Nat /\ Current = cur + 1
  BY LenProperties DEF IndInv, TypeOK, Current
<1> SUFFICES ASSUME set # 0
             PROVE  /\ given[set].type = type /\ set \notin Range(sent')
                    /\ \A k \in set + 1 .. cur' :
                          given[k].type = type => SentAlone(k, Len(payloads) + 1)'
  OBVIOUS
<1>2. CASE cur' = cur /\ sent' = sent
  BY <1>2 DEF StoredRight
<1>3. CASE /\ cur' = Current /\ Range(sent') = Range(sent) \cup {Current}
           /\ SentAlone(k0, Len(payloads) + 1)'
  <2>1. set # Current
    BY <1>1
  <2>2. \A k \in set + 1 .. cur' : k \in set + 1 .. cur \/ k = Current
    BY <1>1, <1>3
  <2>3. given[set].type = type /\ set \notin Range(sent)
    BY DEF StoredRight
  <2>4. set \notin Range(sent')
    BY <1>3, <2>1, <2>3
  <2>5. ASSUME NEW k \in set + 1 .. cur', given[k].type = type
        PROVE  SentAlone(k, Len(payloads) + 1)'
    <3>1. CASE k = Current
      BY <1>3, <3>1
    <3>2. CASE k \in set + 1 .. cur
      <4>1. SentAlone(k, Len(payloads) + 1)
        BY <2>5, <3>2 DEF StoredRight
      <4> QED
        BY <4>1
    <3> QED
      BY <2>2, <2>5, <3>1, <3>2
  <2> QED
    BY <2>3, <2>4, <2>5
<1> QED
  BY <1>2, <1>3

\* What is sent now was not sent before.
LEMMA CurrentNotSent ==
    ASSUME IndInv, StoreIndInv
    PROVE  Current \notin Range(sent)
<1> SUFFICES ASSUME NEW i \in DOMAIN sent, sent[i] = Current PROVE FALSE
  BY DEF Range
<1>1. i \in Position(sent) /\ cur \in Nat
  BY LenProperties DEF IndInv, TypeOK, Position
<1>2. sent[i] <= cur
  BY <1>1 DEF StoreIndInv, StoreInv
<1> QED
  BY <1>1, <1>2 DEF Current

\* The current NAL unit goes out alone.
LEMMA StoreSentOne ==
    ASSUME IndInv, StoreIndInv, AtNalu \/ pc = "fua",
           sent' = Append(sent, Current), given' = given, cur' = Current
    PROVE  /\ SentOnceInOrder' /\ \A i \in Position(sent') : sent'[i] <= cur'
           /\ Range(sent') = Range(sent) \cup {Current}
<1> DEFINE more == <<Current>>
<1>1. /\ more \in Seq(1..Current) /\ Len(more) = 1 /\ DOMAIN more = 1..1 /\ more[1] = Current
  BY AtNaluFacts
<1>2. sent' = sent \o more
  <2>1. sent \in Seq(1..Len(given)) /\ Current \in 1..Len(given)
    BY AtNaluFacts DEF IndInv, TypeOK
  <2> QED
    BY <2>1, AppendIsConcat
<1> HIDE DEF more
<1>3. IsInjective(more) /\ Range(more) = {Current}
  BY <1>1 DEF IsInjective, Range
<1>4. \A j \in Position(more) : more[j] = Current
  BY <1>1 DEF Position
<1>5. /\ SentOnceInOrder' /\ \A i \in Position(sent') : sent'[i] <= cur'
      /\ Range(sent') = Range(sent) \cup Range(more)
  <2>1. \A j \in Position(more) : more[j] \notin Range(sent)
    BY <1>4, CurrentNotSent
  <2>2. Current \in Range(more)
    BY <1>3
  <2> QED
    BY <1>1, <1>2, <1>3, <1>4, <2>1, <2>2, StoreSent
<1> QED
  BY <1>3, <1>5

\* Both stored sets, where they stay stored or are dropped.
LEMMA StoreKept ==
    ASSUME IndInv, StoreIndInv, AtNalu \/ pc = "fua", given' = given,
           NEW k0, k0 = Current,
           \A k : SentAlone(k, Len(payloads) + 1) => SentAlone(k, Len(payloads) + 1)',
           \/ cur' = cur /\ sent' = sent
           \/ /\ cur' = Current /\ Range(sent') = Range(sent) \cup {Current}
              /\ SentAlone(k0, Len(payloads) + 1)',
           \A i \in Position(sent') : sent'[i] <= cur',
           ClearPair \/ UNCHANGED storeVars
    PROVE  StoreInv'
<1>1. ASSUME NEW set \in 0..cur, NEW type, StoredRight(set, type)
      PROVE  StoredRight(set, type)'
  BY <1>1, StoreStays DEF StoredRight
<1>2. ASSUME NEW type PROVE StoredRight(0, type)'
  BY DEF StoredRight
<1>3. /\ StoredRight(sps_nalu, "sps") /\ sps_nalu \in 0..cur
      /\ StoredRight(pps_nalu, "pps") /\ pps_nalu \in 0..cur
      /\ sps_nalu' \in {0, sps_nalu} /\ pps_nalu' \in {0, pps_nalu}
  BY DEF IndInv, TypeOK, StoreIndInv, StoreInv, ClearPair, storeVars
<1>4. PICK a, b : /\ a \in {0, sps_nalu} /\ sps_nalu' = a
                  /\ b \in {0, pps_nalu} /\ pps_nalu' = b
  BY <1>3
<1>5. StoredRight(a, "sps")' /\ StoredRight(b, "pps")'
  BY <1>1, <1>2, <1>3, <1>4
<1>6. StoredRight(sps_nalu, "sps")' /\ StoredRight(pps_nalu, "pps")'
  BY <1>4, <1>5 DEF StoredRight
<1> QED
  BY <1>6 DEF StoreInv

\* A NAL unit that goes out on its own, whole.
LEMMA StoreSendSingle ==
    ASSUME IndInv, StoreIndInv, SendSingle
    PROVE  StoreIndInv'
<1> DEFINE x == SinglePayload(WholePiece(Current))
<1>1. /\ AtNalu /\ Current \in 1..Len(given) /\ WholePiece(Current) \in PieceType
      /\ CurrentNalu.len \in Nat /\ Current \in Nat
  BY AtNaluFacts DEF SendSingle, AtOutgoing
<1>2. x \in PayloadType /\ x.kind = "single" /\ x.pieces[1].nalu = Current
  BY <1>1 DEF SinglePayload, PayloadType, WholePiece, Piece
<1>3. PayloadSize(x) <= Mtu
  <2>1. PayloadSize(x) = 1 + (CurrentNalu.len - 0)
    BY DEF SinglePayload, PayloadSize, PieceLen, WholePiece, Piece, CurrentNalu
  <2>2. 1 + CurrentNalu.len <= Mtu
    BY DEF SendSingle, NaluSize
  <2> QED
    BY <1>1, <2>1, <2>2
<1> HIDE DEF x
<1>4. payloads' = Append(payloads, x)
  BY DEF SendSingle, x
<1>5. PICK k0 \in Nat : k0 = Current
  BY <1>1
<1>6. /\ PayloadsFit' /\ FreshParameterSets'
      /\ \A k : SentAlone(k, Len(payloads) + 1) => SentAlone(k, Len(payloads) + 1)'
      /\ SentAlone(k0, Len(payloads) + 1)'
  <2>1. PICK y : y = x
    OBVIOUS
  <2>2. PICK a : a = y.pieces[1].nalu
    OBVIOUS
  <2>3. y.kind # "stapa" /\ a = k0
    BY <1>2, <1>5, <2>1, <2>2
  <2>4. /\ PayloadsFit' /\ FreshParameterSets'
        /\ \A k : SentAlone(k, Len(payloads) + 1) => SentAlone(k, Len(payloads) + 1)'
        /\ SentAlone(y.pieces[1].nalu, Len(payloads) + 1)'
    BY <1>2, <1>3, <1>4, <2>1, <2>3, StoreAppend DEF SendSingle
  <2> QED
    BY <2>2, <2>3, <2>4
<1>7. /\ SentOnceInOrder' /\ (\A i \in Position(sent') : sent'[i] <= cur')
      /\ Range(sent') = Range(sent) \cup {Current}
  BY <1>1, StoreSentOne DEF SendSingle
<1>8. StoreInv'
  BY <1>1, <1>5, <1>6, <1>7, StoreKept DEF SendSingle
<1> QED
  BY <1>6, <1>7, <1>8 DEF StoreIndInv

\* A slice goes out with the stored pair, which no longer is stored.
LEMMA StoreSendStapA ==
    ASSUME IndInv, StoreIndInv, SendStapA
    PROVE  StoreIndInv'
<1> DEFINE x == StapAPayload(WholePiece(sps_nalu), WholePiece(pps_nalu), WholePiece(Current))
           more == <<sps_nalu, pps_nalu, Current>>
<1>1. /\ AtNalu /\ Current \in 1..Len(given) /\ Current \in Nat /\ Current = cur + 1
      /\ CurrentNalu.type = "slice" /\ PairPending
  <2>1. AtNalu /\ Current \in 1..Len(given) /\ Current \in Nat /\ CurrentNalu \in Nalu
    BY AtNaluFacts DEF SendStapA, AtOutgoing
  <2>2. CurrentNalu.type \in NaluType
    BY <2>1 DEF Nalu
  <2> QED
    BY <2>1, <2>2 DEF SendStapA, AtOutgoing, IsFiltered, IsStored, IsParameterSet, PairPending,
                      NaluType, Current
<1>2. /\ cur \in Nat /\ sps_nalu \in 1..cur /\ pps_nalu \in 1..cur
      /\ given[sps_nalu].type = "sps" /\ given[pps_nalu].type = "pps"
      /\ sps_nalu \notin Range(sent) /\ pps_nalu \notin Range(sent)
      /\ \A k \in sps_nalu + 1 .. cur :
            given[k].type = "sps" => SentAlone(k, Len(payloads) + 1)
      /\ \A k \in pps_nalu + 1 .. cur :
            given[k].type = "pps" => SentAlone(k, Len(payloads) + 1)
  <2>1. sps_nalu # 0 /\ pps_nalu # 0
    BY <1>1 DEF PairPending
  <2>2. cur \in Nat /\ sps_nalu \in 0..cur /\ pps_nalu \in 0..cur
    BY LenProperties DEF IndInv, TypeOK
  <2> QED
    BY <2>1, <2>2 DEF StoreIndInv, StoreInv, StoredRight
<1>3. \A k \in 1..Len(given) : WholePiece(k) \in PieceType /\ given[k].len \in Nat
  <2> SUFFICES ASSUME NEW k \in 1..Len(given)
               PROVE  WholePiece(k) \in PieceType /\ given[k].len \in Nat
    OBVIOUS
  <2>1. given[k] \in Nalu
    BY ElementOfSeq DEF IndInv, TypeOK
  <2>2. given[k].len \in Nat
    BY <2>1 DEF Nalu
  <2> QED
    BY <2>2 DEF WholePiece, Piece, PieceType
<1>4. sps_nalu \in 1..Len(given) /\ pps_nalu \in 1..Len(given)
  BY <1>1, <1>2, LenProperties DEF IndInv, TypeOK
<1>5. /\ x \in PayloadType /\ x.kind = "stapa"
      /\ x.pieces[1].nalu = sps_nalu /\ x.pieces[2].nalu = pps_nalu
      /\ x.pieces[3].nalu = Current
  <2>1. <<WholePiece(sps_nalu), WholePiece(pps_nalu), WholePiece(Current)>> \in Seq(PieceType)
    BY <1>1, <1>3, <1>4
  <2> QED
    BY <2>1 DEF StapAPayload, PayloadType, WholePiece, Piece
<1>6. PayloadSize(x) <= Mtu
  <2>1. PayloadSize(x) = StapASize(given[sps_nalu].len - 0, given[pps_nalu].len - 0,
                                   given[Current].len - 0)
    BY DEF StapAPayload, PayloadSize, PieceLen, WholePiece, Piece
  <2>2. StapASize(given[sps_nalu].len, given[pps_nalu].len, given[Current].len) <= Mtu
    BY DEF SendStapA, StapAFits, CurrentNalu
  <2>3. /\ given[sps_nalu].len \in Nat /\ given[pps_nalu].len \in Nat
        /\ given[Current].len \in Nat
    BY <1>1, <1>3, <1>4
  <2>4. \A a \in Nat : a - 0 = a
    OBVIOUS
  <2> QED
    BY <2>1, <2>2, <2>3, <2>4
<1>7. payloads' = Append(payloads, x)
  BY DEF SendStapA
<1> HIDE DEF x
<1>8. PayloadsFit' /\ FreshParameterSets'
  <2>1. ASSUME NEW i \in 1..2, NEW k \in x.pieces[i].nalu + 1 .. x.pieces[3].nalu - 1,
               given[k].type = given[x.pieces[i].nalu].type
        PROVE  SentAlone(k, Len(payloads) + 1)
    <3>1. x.pieces[3].nalu - 1 = cur
      BY <1>1, <1>2, <1>5
    <3>2. CASE i = 1
      BY <1>2, <1>5, <2>1, <3>1, <3>2
    <3>3. CASE i = 2
      BY <1>2, <1>5, <2>1, <3>1, <3>3
    <3> QED
      BY <3>2, <3>3
  <2> QED
    BY <1>5, <1>6, <1>7, <2>1, StoreAppend DEF SendStapA
<1>9. /\ SentOnceInOrder' /\ (\A i \in Position(sent') : sent'[i] <= cur')
  <2>1. more \in Seq(1..Current) /\ Len(more) = 3 /\ DOMAIN more = 1..3
    <3>1. sps_nalu \in 1..Current /\ pps_nalu \in 1..Current /\ Current \in 1..Current
      BY <1>1, <1>2
    <3> QED
      BY <3>1
  <2>2. more[1] = sps_nalu /\ more[2] = pps_nalu /\ more[3] = Current
    OBVIOUS
  <2> HIDE DEF more
  <2>3. sps_nalu # pps_nalu /\ sps_nalu # Current /\ pps_nalu # Current
    BY <1>1, <1>2
  <2>4. IsInjective(more)
    BY <2>1, <2>2, <2>3 DEF IsInjective
  <2>5. Current \notin Range(sent)
    BY <1>1, CurrentNotSent
  <2>6. \A j \in Position(more) : more[j] \notin Range(sent)
    BY <1>2, <2>1, <2>2, <2>5 DEF Position
  <2>7. \A j \in Position(more) : IsSlice(more[j]) => more[j] = Current
    BY <1>2, <2>1, <2>2 DEF Position, IsSlice
  <2>8. Current \in Range(more)
    BY <2>1, <2>2 DEF Range
  <2>9. sent' = sent \o more /\ given' = given /\ cur' = Current
    BY DEF SendStapA, more
  <2> QED
    BY <1>1, <2>1, <2>4, <2>6, <2>7, <2>8, <2>9, StoreSent
<1>10. StoreInv'
  <2>1. sps_nalu' = 0 /\ pps_nalu' = 0
    BY <1>1 DEF SendStapA, ClearPair
  <2> QED
    BY <1>9, <2>1 DEF StoreInv, StoredRight
<1> QED
  BY <1>8, <1>9, <1>10 DEF StoreIndInv

\* The start of the FU-A loop sends nothing yet.
LEMMA StoreStartFua ==
    ASSUME IndInv, StoreIndInv, StartFua
    PROVE  StoreIndInv'
<1> USE DEF StoreIndInv, StartFua, ClearPair, storeVars
<1>1. PayloadsFit' /\ FreshParameterSets'
  BY DEF PayloadsFit, FreshParameterSets, FreshAt, SentAlone, Fragment, Position
<1>2. SentOnceInOrder'
  BY DEF SentOnceInOrder, IsSlice, IsInjective, Range, Position
<1>3. StoreInv'
  BY DEF StoreInv, StoredRight, SentAlone, Fragment, Range, Position
<1> QED
  BY <1>1, <1>2, <1>3

\* A fragment fits the MTU; the last one completes its NAL unit.
LEMMA StoreFuaFragment ==
    ASSUME Mtu >= 2, IndInv, StoreIndInv, FuaFragment
    PROVE  StoreIndInv'
<1> DEFINE next == nalu_index + CurrentFragmentSize
           x == FuaPayload(Piece(Current, nalu_index, next), StartBit, EndBit)
           len == CurrentNalu.len
<1>1. /\ pc = "fua" /\ Current \in Nat /\ Current \in 1..Len(given) /\ len \in Nat
      /\ nalu_index \in Nat /\ nalu_index < len
  BY AtNaluFacts DEF FuaFragment, IndInv, TypeOK, LoopInv
<1>2. next \in Nat /\ 2 + (next - nalu_index) <= Mtu /\ EndBit \in BOOLEAN /\ StartBit \in BOOLEAN
  BY FuaFacts
<1>3. x \in PayloadType /\ x.kind = "fua" /\ x.pieces[1].nalu = Current
  <2>1. Piece(Current, nalu_index, next) \in PieceType
    BY <1>1, <1>2 DEF Piece, PieceType
  <2> QED
    BY <1>2, <2>1 DEF FuaPayload, PayloadType, Piece
<1>4. PayloadSize(x) <= Mtu
  <2>1. PayloadSize(x) = 2 + (next - nalu_index)
    BY DEF FuaPayload, PayloadSize, PieceLen, Piece, kFuaHeaderSize
  <2> QED
    BY <1>2, <2>1
<1>5. payloads' = Append(payloads, x) /\ given' = given
  BY DEF FuaFragment
<1>6. \/ cur' = cur /\ sent' = sent
      \/ cur' = Current /\ sent' = Append(sent, Current)
  BY DEF FuaFragment
<1> HIDE DEF x, next, len
<1>7. PICK k0 \in Nat : k0 = Current
  BY <1>1
<1>8. /\ PayloadsFit' /\ FreshParameterSets'
      /\ \A k : SentAlone(k, Len(payloads) + 1) => SentAlone(k, Len(payloads) + 1)'
      /\ SentAlone(k0, Len(payloads) + 1)'
  <2>1. PICK y : y = x
    OBVIOUS
  <2>2. PICK a : a = y.pieces[1].nalu
    OBVIOUS
  <2>3. y.kind # "stapa" /\ a = k0
    BY <1>3, <1>7, <2>1, <2>2
  <2>4. /\ PayloadsFit' /\ FreshParameterSets'
        /\ \A k : SentAlone(k, Len(payloads) + 1) => SentAlone(k, Len(payloads) + 1)'
        /\ SentAlone(y.pieces[1].nalu, Len(payloads) + 1)'
    BY <1>3, <1>4, <1>5, <2>1, <2>3, StoreAppend
  <2> QED
    BY <2>2, <2>3, <2>4
<1>9. CASE cur' = cur /\ sent' = sent
  <2>1. SentOnceInOrder'
    BY <1>5, <1>9 DEF StoreIndInv, SentOnceInOrder, IsSlice, IsInjective, Range, Position
  <2>2. \A i \in Position(sent') : sent'[i] <= cur'
    BY <1>9 DEF StoreIndInv, StoreInv, Position
  <2>3. StoreInv'
    BY <1>1, <1>5, <1>7, <1>8, <1>9, <2>2, StoreKept DEF FuaFragment, storeVars
  <2> QED
    BY <1>8, <2>1, <2>3 DEF StoreIndInv
<1>10. CASE cur' = Current /\ sent' = Append(sent, Current)
  <2>1. /\ SentOnceInOrder' /\ (\A i \in Position(sent') : sent'[i] <= cur')
        /\ Range(sent') = Range(sent) \cup {Current}
    BY <1>1, <1>5, <1>10, StoreSentOne
  <2>2. StoreInv'
    BY <1>1, <1>5, <1>7, <1>8, <1>10, <2>1, StoreKept DEF FuaFragment, storeVars
  <2> QED
    BY <1>8, <2>1, <2>2 DEF StoreIndInv
<1> QED
  BY <1>6, <1>9, <1>10

\* The steps together.
LEMMA StoreNext ==
    ASSUME Mtu >= 2
    PROVE  IndInv /\ StoreIndInv /\ [Next]_vars => StoreIndInv'
<1> SUFFICES ASSUME IndInv, StoreIndInv, [Next]_vars PROVE StoreIndInv'
  OBVIOUS
<1>1. CASE Send
  <2>1. CASE EnableStapA \/ DisableStapA \/ Return
    BY <2>1, StoreSame DEF EnableStapA, DisableStapA, Return
  <2>2. ASSUME NEW frame \in Frames, Packetize(frame) PROVE StoreIndInv'
    BY <2>2, StorePacketize
  <2>3. CASE FilterNalu \/ StoreParameterSet
    BY <2>3, StoreNoPayload
  <2> QED
    BY <1>1, <2>1, <2>2, <2>3, StoreSendStapA, StoreSendSingle, StoreStartFua, StoreFuaFragment
    DEF Send, PacketizerNext, Working
<1>2. CASE Receive \/ Lose \/ UNCHANGED vars
  BY <1>2, StoreSame DEF Receive, Lose, vars, packetizerVars, storeVars
<1> QED
  BY <1>1, <1>2 DEF Next

-----------------------------------------------------------------------------
(* The session implements the stream of NAL units.                         *)

\* How many NAL units end in a payload.
Completes(payload) == IF EndsNalu(payload) THEN Len(payload.pieces) ELSE 0

(***************************************************************************)
(* upto[p] of the NAL units sent end in the first p payloads: those are    *)
(* the first ones, in the order of the payloads' pieces.  n of the NAL     *)
(* units sent end in what has arrived or been lost: what came out is of    *)
(* them, in their order, and is all of them if nothing was lost.           *)
(***************************************************************************)
Counts(upto) ==
    /\ upto[0] = 0 /\ upto[Len(payloads)] = Len(sent)
    /\ \A p \in Position(payloads) :
          /\ upto[p] = upto[p - 1] + Completes(payloads[p])
          /\ EndsNalu(payloads[p]) =>
                \A i \in Position(payloads[p].pieces) :
                    sent[upto[p - 1] + i] = payloads[p].pieces[i].nalu

Arrived(n) ==
    /\ \A i \in Position(delivered) : \E a \in 1..n : sent[a] = delivered[i].hdr
    /\ \A i, j \in Position(delivered) : i < j =>
          \E a, b \in 1..n : a < b /\ sent[a] = delivered[i].hdr /\ sent[b] = delivered[j].hdr
    /\ lost = {} => /\ Len(delivered) = n
                    /\ \A i \in Position(delivered) : delivered[i].hdr = sent[i]

StreamInv ==
    \E upto \in [0..Len(payloads) -> 0..Len(sent)] : Counts(upto) /\ Arrived(upto[rcvd])

\* Appending keeps what is there and adds one, whatever it is.
LEMMA AppendGrows ==
    ASSUME NEW S, NEW s \in Seq(S), NEW x
    PROVE  /\ Len(Append(s, x)) = Len(s) + 1
           /\ \A i \in 1..Len(s) : Append(s, x)[i] = s[i]
           /\ Append(s, x)[Len(s) + 1] = x
<1>1. s \in Seq(S \cup {x}) /\ x \in S \cup {x}
  BY SeqMonotone
<1> QED
  BY <1>1, AppendProperties

\* Concatenating keeps what is there and adds the rest.
LEMMA ConcatGrows ==
    ASSUME NEW S, NEW T, NEW s \in Seq(S), NEW t \in Seq(T)
    PROVE  /\ Len(s) \in Nat /\ Len(t) \in Nat
           /\ Len(s \o t) = Len(s) + Len(t)
           /\ \A i \in 1..Len(s) : (s \o t)[i] = s[i]
           /\ \A i \in 1..Len(t) : (s \o t)[Len(s) + i] = t[i]
<1>1. s \in Seq(S \cup T) /\ t \in Seq(S \cup T)
  BY SeqMonotone
<1> PICK n \in Nat, m \in Nat : n = Len(s) /\ m = Len(t)
  BY LenProperties
<1>2. /\ Len(s \o t) = n + m
      /\ \A i \in 1..(n + m) : (s \o t)[i] = IF i <= n THEN s[i] ELSE t[i - n]
  BY <1>1, ConcatProperties
<1>3. \A i \in 1..n : i \in 1..(n + m) /\ i <= n
  OBVIOUS
<1>4. \A i \in 1..m : n + i \in 1..(n + m) /\ ~(n + i <= n) /\ (n + i) - n = i
  OBVIOUS
<1> QED
  BY <1>2, <1>3, <1>4

\* A step that leaves the payloads and the receiver alone.
LEMMA StreamSame ==
    ASSUME StreamInv, UNCHANGED <<payloads, sent, delivered, rcvd, lost>>
    PROVE  StreamInv'
<1>1. PICK upto \in [0..Len(payloads) -> 0..Len(sent)] : Counts(upto) /\ Arrived(upto[rcvd])
  BY DEF StreamInv
<1>2. Counts(upto)'
  BY <1>1 DEF Counts, Completes, EndsNalu, IsFragment, Position
<1>3. PICK n : n = upto[rcvd] /\ rcvd' = rcvd
  OBVIOUS
<1>4. Arrived(n)'
  BY <1>1, <1>3 DEF Arrived, Position
<1>5. Arrived(upto[rcvd])'
  BY <1>3, <1>4
<1>6. upto \in [0..Len(payloads') -> 0..Len(sent')]
  BY <1>1
<1> QED
  BY <1>2, <1>5, <1>6 DEF StreamInv

\* What is known of the units sent is true when more are.
LEMMA StreamAppend ==
    ASSUME IndInv, StreamInv, NEW x \in PayloadType, NEW more \in Seq(1..Len(given)),
           payloads' = Append(payloads, x), sent' = sent \o more,
           Len(more) = Completes(x),
           EndsNalu(x) => \A i \in Position(x.pieces) : more[i] = x.pieces[i].nalu,
           UNCHANGED <<delivered, rcvd, lost>>
    PROVE  StreamInv'
<1>1. PICK upto \in [0..Len(payloads) -> 0..Len(sent)] : Counts(upto) /\ Arrived(upto[rcvd])
  BY DEF StreamInv
<1>2. /\ payloads \in Seq(PayloadType) /\ sent \in Seq(1..Len(given))
      /\ packets \in 0..Len(payloads) /\ rcvd \in 0..packets
  BY DEF IndInv, TypeOK
<1> PICK n \in Nat, m \in Nat, k \in Nat : n = Len(payloads) /\ m = Len(sent) /\ k = Len(more)
  BY <1>2, LenProperties
<1>3. /\ Len(payloads') = n + 1 /\ payloads'[n + 1] = x
      /\ \A p \in 1..n : payloads'[p] = payloads[p]
  BY <1>2, AppendProperties
<1>4. /\ Len(sent') = m + k
      /\ \A i \in 1..m : sent'[i] = sent[i]
      /\ \A i \in 1..k : sent'[m + i] = more[i]
  <2>1. sent \in Seq(1..Len(given)) /\ more \in Seq(1..Len(given))
    BY <1>2
  <2>2. /\ Len(sent \o more) = Len(sent) + Len(more)
        /\ \A i \in 1..Len(sent) : (sent \o more)[i] = sent[i]
        /\ \A i \in 1..Len(more) : (sent \o more)[Len(sent) + i] = more[i]
    BY ONLY <2>1, ConcatGrows
  <2> QED
    BY <2>2
<1> DEFINE longer == [p \in 0..(n + 1) |-> IF p = n + 1 THEN m + k ELSE upto[p]]
<1>5. /\ longer \in [0..(n + 1) -> 0..(m + k)]
      /\ \A p \in 0..n : longer[p] = upto[p] /\ upto[p] \in 0..m
      /\ longer[n + 1] = m + k
  <2>1. \A p \in 0..(n + 1) : p \in 0..n \/ p = n + 1
    OBVIOUS
  <2>2. \A p \in 0..n : p # n + 1 /\ p \in 0..(n + 1) /\ upto[p] \in 0..m
    BY <1>1
  <2>3. \A a \in 0..m : a \in 0..(m + k)
    OBVIOUS
  <2>4. m + k \in 0..(m + k) /\ n + 1 \in 0..(n + 1)
    OBVIOUS
  <2> QED
    BY <2>1, <2>2, <2>3, <2>4
<1> HIDE DEF longer
<1>6. upto[0] = 0 /\ upto[n] = m
  BY <1>1 DEF Counts
<1>7. ASSUME NEW p \in 1..(n + 1)
      PROVE  /\ longer[p] = longer[p - 1] + Completes(payloads'[p])
             /\ EndsNalu(payloads'[p]) =>
                   \A i \in Position(payloads'[p].pieces) :
                       sent'[longer[p - 1] + i] = payloads'[p].pieces[i].nalu
  <2>1. CASE p \in 1..n
    <3>1. /\ longer[p] = upto[p] /\ longer[p - 1] = upto[p - 1] /\ payloads'[p] = payloads[p]
          /\ upto[p - 1] \in Nat /\ upto[p] \in 0..m
      <4>1. p - 1 \in 0..n /\ p \in 0..n
        BY <2>1
      <4> QED
        BY <1>3, <1>5, <2>1, <4>1
    <3>2. /\ upto[p] = upto[p - 1] + Completes(payloads[p])
          /\ EndsNalu(payloads[p]) =>
                \A i \in Position(payloads[p].pieces) :
                    sent[upto[p - 1] + i] = payloads[p].pieces[i].nalu
      BY <1>1, <2>1 DEF Counts, Position
    <3>3. ASSUME EndsNalu(payloads[p]), NEW i \in Position(payloads[p].pieces)
          PROVE  sent'[upto[p - 1] + i] = payloads[p].pieces[i].nalu
      <4> DEFINE c == Len(payloads[p].pieces)
                 u == upto[p - 1]
      <4>1. upto[p] = u + c /\ u \in Nat /\ u + c \in 0..m
        BY <3>1, <3>2, <3>3 DEF Completes
      <4>2. c \in Nat
        <5>1. payloads[p] \in PayloadType
          BY <1>2, <2>1, ElementOfSeq
        <5> QED
          BY <5>1, LenProperties DEF PayloadType
      <4>3. i \in 1..c
        BY <3>3 DEF Position
      <4> HIDE DEF c, u
      <4>4. u + i \in 1..m
        BY <4>1, <4>2, <4>3
      <4>5. sent'[u + i] = sent[u + i]
        BY <1>4, <4>4
      <4> QED
        BY <3>2, <3>3, <4>5 DEF u
    <3> QED
      BY <3>1, <3>2, <3>3
  <2>2. CASE p = n + 1
    <3>1. longer[p - 1] = m /\ longer[p] = m + k /\ payloads'[p] = x
      <4>1. p - 1 = n /\ n \in 0..n
        BY <2>2
      <4> QED
        BY <1>3, <1>5, <1>6, <2>2, <4>1
    <3>2. ASSUME EndsNalu(x), NEW i \in Position(x.pieces)
          PROVE  sent'[m + i] = x.pieces[i].nalu
      <4>1. i \in 1..k
        BY <3>2 DEF Completes, Position
      <4> QED
        BY <1>4, <3>2, <4>1
    <3>3. k = Completes(x)
      OBVIOUS
    <3>4. longer[p] = longer[p - 1] + Completes(payloads'[p])
      BY <3>1, <3>3
    <3> QED
      BY <3>1, <3>2, <3>4
  <2>3. p \in 1..n \/ p = n + 1
    OBVIOUS
  <2> QED
    BY <2>1, <2>2, <2>3
<1>8. Counts(longer)'
  <2>1. longer[0] = 0 /\ longer[Len(payloads')] = Len(sent')
    BY <1>3, <1>4, <1>5, <1>6
  <2> QED
    BY <1>3, <1>7, <2>1 DEF Counts, Position, Completes, EndsNalu, IsFragment
<1>9. rcvd \in 0..n /\ rcvd' = rcvd
  BY <1>2
<1>10. PICK a \in 0..m : a = upto[rcvd] /\ longer[rcvd'] = a
  BY <1>5, <1>9
<1>11. Arrived(a)'
  <2>1. \A i \in 1..a : sent'[i] = sent[i]
    BY <1>4, <1>10
  <2>2. Arrived(a)
    BY <1>1, <1>10
  <2>3. \A i \in Position(delivered) : \E b \in 1..a : sent'[b] = delivered[i].hdr
    BY <2>1, <2>2 DEF Arrived
  <2>4. \A i, j \in Position(delivered) : i < j =>
           \E b, c \in 1..a : b < c /\ sent'[b] = delivered[i].hdr /\ sent'[c] = delivered[j].hdr
    <3> SUFFICES ASSUME NEW i \in Position(delivered), NEW j \in Position(delivered), i < j
                 PROVE  \E b, c \in 1..a : /\ b < c /\ sent'[b] = delivered[i].hdr
                                            /\ sent'[c] = delivered[j].hdr
      OBVIOUS
    <3>1. PICK b \in 1..a, c \in 1..a :
             b < c /\ sent[b] = delivered[i].hdr /\ sent[c] = delivered[j].hdr
      BY <2>2 DEF Arrived
    <3> QED
      BY <2>1, <3>1
  <2>5. lost = {} => /\ Len(delivered) = a
                     /\ \A i \in Position(delivered) : delivered[i].hdr = sent'[i]
    BY <2>1, <2>2 DEF Arrived, Position
  <2> QED
    BY <2>3, <2>4, <2>5 DEF Arrived, Position
<1>12. Arrived(longer[rcvd])'
  BY <1>10, <1>11
<1>13. longer \in [0..Len(payloads') -> 0..Len(sent')]
  BY <1>3, <1>4, <1>5
<1> QED
  BY <1>8, <1>12, <1>13 DEF StreamInv

\* A NAL unit that is dropped or stored, and those that go out.
LEMMA StreamSendSingle ==
    ASSUME IndInv, StreamInv, SendSingle, UNCHANGED <<depacketizerVars, transportVars>>
    PROVE  StreamInv'
<1> DEFINE x == SinglePayload(WholePiece(Current))
           more == <<Current>>
<1>1. AtNalu /\ Current \in 1..Len(given) /\ WholePiece(Current) \in PieceType
  BY AtNaluFacts DEF SendSingle, AtOutgoing
<1>2. x \in PayloadType /\ Len(x.pieces) = 1 /\ x.kind = "single" /\ x.pieces[1].nalu = Current
  BY <1>1 DEF SinglePayload, PayloadType, WholePiece, Piece
<1>3. more \in Seq(1..Len(given)) /\ Len(more) = 1 /\ more[1] = Current
  BY <1>1
<1>4. payloads' = Append(payloads, x) /\ sent' = sent \o more
  <2>1. sent \in Seq(1..Len(given))
    BY DEF IndInv, TypeOK
  <2>2. Append(sent, Current) = sent \o more
    BY <1>1, <2>1, AppendIsConcat
  <2> QED
    BY <2>2 DEF SendSingle
<1> HIDE DEF x, more
<1>5. Completes(x) = 1 /\ \A i \in Position(x.pieces) : more[i] = x.pieces[i].nalu
  BY <1>2, <1>3 DEF Completes, EndsNalu, IsFragment, Position
<1>6. UNCHANGED <<delivered, rcvd, lost>>
  BY DEF depacketizerVars, transportVars
<1>7. PICK y, z : y = x /\ z = more
  OBVIOUS
<1> QED
  BY <1>2, <1>3, <1>4, <1>5, <1>6, <1>7, StreamAppend

LEMMA StreamSendStapA ==
    ASSUME IndInv, StreamInv, SendStapA, UNCHANGED <<depacketizerVars, transportVars>>
    PROVE  StreamInv'
<1> DEFINE x == StapAPayload(WholePiece(sps_nalu), WholePiece(pps_nalu), WholePiece(Current))
           more == <<sps_nalu, pps_nalu, Current>>
<1>1. /\ Current \in 1..Len(given) /\ sps_nalu \in 1..Len(given) /\ pps_nalu \in 1..Len(given)
  BY SMTT(30), AtNaluFacts, LenProperties DEF IndInv, TypeOK, SendStapA, AtOutgoing, PairPending
<1>2. \A k \in 1..Len(given) : WholePiece(k) \in PieceType
  <2> SUFFICES ASSUME NEW k \in 1..Len(given) PROVE WholePiece(k) \in PieceType
    OBVIOUS
  <2>1. given[k] \in Nalu
    BY ElementOfSeq DEF IndInv, TypeOK
  <2>2. given[k].len \in Nat
    BY <2>1 DEF Nalu
  <2> QED
    BY <2>2 DEF WholePiece, Piece, PieceType
<1>3. /\ x \in PayloadType /\ Len(x.pieces) = 3 /\ x.kind = "stapa"
      /\ x.pieces[1].nalu = sps_nalu /\ x.pieces[2].nalu = pps_nalu
      /\ x.pieces[3].nalu = Current
  <2>1. <<WholePiece(sps_nalu), WholePiece(pps_nalu), WholePiece(Current)>> \in Seq(PieceType)
    BY <1>1, <1>2
  <2> QED
    BY <2>1 DEF StapAPayload, PayloadType, WholePiece, Piece
<1>4. more \in Seq(1..Len(given)) /\ Len(more) = 3
  BY <1>1
<1>5. more[1] = sps_nalu /\ more[2] = pps_nalu /\ more[3] = Current
  OBVIOUS
<1>6. payloads' = Append(payloads, x) /\ sent' = sent \o more
  BY DEF SendStapA
<1> HIDE DEF x, more
<1>7. Completes(x) = 3 /\ \A i \in Position(x.pieces) : more[i] = x.pieces[i].nalu
  <2>1. \A i \in 1..3 : i = 1 \/ i = 2 \/ i = 3
    OBVIOUS
  <2> QED
    BY <1>3, <1>5, <2>1 DEF Completes, EndsNalu, IsFragment, Position
<1>8. UNCHANGED <<delivered, rcvd, lost>>
  BY DEF depacketizerVars, transportVars
<1>9. PICK y, z : y = x /\ z = more
  OBVIOUS
<1> QED
  BY <1>3, <1>4, <1>6, <1>7, <1>8, <1>9, StreamAppend

\* The last fragment of a NAL unit, and no other, completes it.
LEMMA StreamFuaFragment ==
    ASSUME Mtu >= 2, IndInv, StreamInv, FuaFragment,
           UNCHANGED <<depacketizerVars, transportVars>>
    PROVE  StreamInv'
<1> DEFINE next == nalu_index + CurrentFragmentSize
           x == FuaPayload(Piece(Current, nalu_index, next), StartBit, EndBit)
           more == IF EndBit THEN <<Current>> ELSE <<>>
<1>1. Current \in 1..Len(given)
  BY AtNaluFacts DEF FuaFragment
<1>2. next \in Nat /\ EndBit \in BOOLEAN /\ (EndBit <=> next = CurrentNalu.len)
  <2>1. PICK y : y = next
    OBVIOUS
  <2> QED
    BY <2>1, FuaFacts
<1>3. x \in PayloadType /\ Len(x.pieces) = 1 /\ x.kind = "fua" /\ x.e = EndBit
      /\ x.pieces[1].nalu = Current
  <2>1. Piece(Current, nalu_index, next) \in PieceType
    BY <1>1, <1>2 DEF Piece, PieceType, FuaFragment, IndInv, TypeOK
  <2>2. StartBit \in BOOLEAN
    BY DEF StartBit
  <2> QED
    BY <1>2, <2>1, <2>2 DEF FuaPayload, PayloadType, Piece
<1>4. /\ more \in Seq(1..Len(given)) /\ Len(more) = IF EndBit THEN 1 ELSE 0
      /\ EndBit => more[1] = Current
  <2>1. <<Current>> \in Seq(1..Len(given)) /\ Len(<<Current>>) = 1 /\ <<Current>>[1] = Current
    BY <1>1
  <2>2. <<>> \in Seq(1..Len(given)) /\ Len(<<>>) = 0
    BY EmptySeq
  <2>3. CASE EndBit
    BY <2>1, <2>3
  <2>4. CASE ~EndBit
    BY <2>2, <2>4
  <2> QED
    BY <2>3, <2>4
<1>5. payloads' = Append(payloads, x)
  BY DEF FuaFragment
<1>6. sent' = sent \o more
  <2>1. sent \in Seq(1..Len(given))
    BY DEF IndInv, TypeOK
  <2>2. CASE EndBit
    <3>1. Append(sent, Current) = sent \o <<Current>>
      BY <1>1, <2>1, AppendIsConcat
    <3> QED
      BY <1>2, <2>2, <3>1 DEF FuaFragment
  <2>3. CASE ~EndBit
    <3>1. sent \o <<>> = sent
      BY <2>1, ConcatEmptySeq
    <3> QED
      BY <1>2, <2>3, <3>1 DEF FuaFragment
  <2> QED
    BY <1>2, <2>2, <2>3
<1> HIDE DEF x, more, next
<1>7. /\ Completes(x) = IF EndBit THEN 1 ELSE 0
      /\ EndsNalu(x) => \A i \in Position(x.pieces) : more[i] = x.pieces[i].nalu
  BY <1>3, <1>4 DEF Completes, EndsNalu, IsFragment, Position
<1>8. UNCHANGED <<delivered, rcvd, lost>>
  BY DEF depacketizerVars, transportVars
<1>9. PICK y, z : y = x /\ z = more
  OBVIOUS
<1> QED
  BY <1>3, <1>4, <1>5, <1>6, <1>7, <1>8, <1>9, StreamAppend

\* The c units handed out after the first d are the NAL units payload x completes.
Names(x, d, c) == \A i \in 1..c : delivered'[d + i].hdr = x.pieces[i].nalu

\* What comes out of one packet goes behind what came out before.
LEMMA ReceiveGrows ==
    ASSUME ~SwapLength, IndInv, Receive, NEW x, x = payloads[rcvd + 1],
           NEW d, d = Len(delivered), NEW c, c = Completes(x)
    PROVE  /\ x \in PayloadType /\ d \in Nat /\ c \in Nat
           /\ Len(delivered') = d + c
           /\ \A i \in 1..d : delivered'[i] = delivered[i]
           /\ \A i \in 1..c : i \in Position(x.pieces) /\ EndsNalu(x)
           /\ Names(x, d, c)
<1>1. rcvd + 1 \in 1..Len(payloads) /\ payloads \in Seq(PayloadType) /\ delivered \in Seq(UnitType)
  BY LenProperties DEF Receive, IndInv, TypeOK
<1>3. /\ x \in PayloadType /\ x.pieces \in Seq(PieceType)
      /\ Len(x.pieces) = IF x.kind = "stapa" THEN 3 ELSE 1
  <2>1. x \in PayloadType
    BY <1>1, ElementOfSeq
  <2>2. Len(x.pieces) = IF x.kind = "stapa" THEN 3 ELSE 1
    BY <1>1 DEF IndInv, ShapeInv, Position
  <2> QED
    BY <2>1, <2>2 DEF PayloadType
<1>4. d \in Nat /\ c \in Nat
  BY <1>1, <1>3, LenProperties DEF Completes
<1>8. /\ Len(delivered') = d + c
      /\ \A i \in 1..d : delivered'[i] = delivered[i]
      /\ \A i \in 1..c : delivered'[d + i].hdr = x.pieces[i].nalu /\ EndsNalu(x)
  <2>1. CASE ParseSingle(x)
    <3>1. PICK u : delivered' = Append(delivered, u) /\ u.hdr = x.pieces[1].nalu
      BY <2>1 DEF ParseSingle, Unit
    <3>2. c = 1 /\ EndsNalu(x)
      BY <1>3, <2>1 DEF ParseSingle, Completes, EndsNalu, IsFragment
    <3>3. /\ Len(delivered') = d + 1 /\ delivered'[d + 1] = u
          /\ \A i \in 1..d : delivered'[i] = delivered[i]
      BY <1>1, <3>1, AppendGrows
    <3>4. \A i \in 1..1 : i = 1
      OBVIOUS
    <3> QED
      BY <3>1, <3>2, <3>3, <3>4
  <2>2. CASE ParseStapA(x)
    <3> DEFINE units == [i \in DOMAIN x.pieces |->
                            Unit(x.pieces[i].nalu, PieceBytes(x.pieces[i]))]
    <3>1. x.kind = "stapa" /\ c = 3 /\ EndsNalu(x) /\ DOMAIN x.pieces = 1..3
      BY <1>3, <2>2, LenProperties DEF ParseStapA, Completes, EndsNalu, IsFragment
    <3>2. LengthsAgree(x)
      BY DEF LengthsAgree, LengthField
    <3>3. delivered' = delivered \o units
      BY <2>2, <3>2 DEF ParseStapA
    <3>4. \A i \in 1..3 : units[i].hdr = x.pieces[i].nalu
      BY <3>1 DEF Unit
    <3> DEFINE T == {Unit(x.pieces[i].nalu, PieceBytes(x.pieces[i])) : i \in 1..3}
    <3>5. units \in Seq(T) /\ Len(units) = 3
      <4>1. units \in [1..3 -> T]
        BY <3>1
      <4>2. DOMAIN units = 1..3
        BY <3>1
      <4> HIDE DEF units, T
      <4>3. units \in Seq(T)
        BY <4>1, SeqDef, 3 \in Nat
      <4>4. Len(units) = 3
        BY <4>2, <4>3, LenProperties
      <4> QED
        BY <4>3, <4>4
    <3> HIDE DEF units, T
    <3>6. /\ Len(delivered \o units) = d + 3
          /\ \A i \in 1..d : (delivered \o units)[i] = delivered[i]
          /\ \A i \in 1..3 : (delivered \o units)[d + i] = units[i]
      <4>1. /\ Len(delivered \o units) = Len(delivered) + Len(units)
            /\ \A i \in 1..Len(delivered) : (delivered \o units)[i] = delivered[i]
            /\ \A i \in 1..Len(units) : (delivered \o units)[Len(delivered) + i] = units[i]
        <5>1. delivered \in Seq(UnitType) /\ units \in Seq(T)
          BY <1>1, <3>5
        <5> QED
          BY ONLY <5>1, ConcatGrows
      <4> QED
        BY <3>5, <4>1
    <3> QED
      BY <3>1, <3>3, <3>4, <3>6
  <2>3. CASE ParseFua(x)
    <3>1. x.kind = "fua" /\ (EndsNalu(x) <=> x.e) /\ c = IF x.e THEN 1 ELSE 0
      BY <1>3, <2>3 DEF ParseFua, Completes, EndsNalu, IsFragment
    <3>2. CASE x.e
      <4>1. PICK u : delivered' = Append(delivered, u) /\ u.hdr = x.pieces[1].nalu
        BY <2>3, <3>2 DEF ParseFua, Unit
      <4>2. /\ Len(delivered') = d + 1 /\ delivered'[d + 1] = u
            /\ \A i \in 1..d : delivered'[i] = delivered[i]
        BY <1>1, <4>1, AppendGrows
      <4>3. \A i \in 1..1 : i = 1
        OBVIOUS
      <4> QED
        BY <3>1, <3>2, <4>1, <4>2, <4>3
    <3>3. CASE ~x.e
      <4>1. delivered' = delivered
        BY <2>3, <3>3 DEF ParseFua
      <4> QED
        BY <3>1, <3>3, <4>1
    <3> QED
      BY <3>2, <3>3
  <2> QED
    BY <2>1, <2>2, <2>3 DEF Receive, Depacketize
<1>9. \A i \in 1..c : i \in Position(x.pieces)
  BY <1>8 DEF Completes, Position
<1> QED
  BY <1>3, <1>4, <1>8, <1>9 DEF Names

LEMMA StreamReceive ==
    ASSUME ~SwapLength, IndInv, StreamInv, Receive
    PROVE  StreamInv'
<1> DEFINE r == rcvd + 1
<1>1. /\ rcvd \in Nat /\ r \in 1..Len(payloads) /\ Len(payloads) \in Nat
      /\ payloads \in Seq(PayloadType) /\ delivered \in Seq(UnitType) /\ r - 1 = rcvd
      /\ lost \subseteq 1..rcvd
  BY LenProperties DEF Receive, IndInv, TypeOK
<1>2. PICK x : x = payloads[r]
  OBVIOUS
<1>4. PICK upto \in [0..Len(payloads) -> 0..Len(sent)] : Counts(upto) /\ Arrived(upto[rcvd])
  BY DEF StreamInv
<1> PICK d \in Nat, s \in Nat : d = Len(delivered) /\ s = Len(sent)
  BY <1>1, LenProperties DEF IndInv, TypeOK
<1>5. PICK n \in 0..s, m \in 0..s : n = upto[rcvd] /\ m = upto[r]
  <2>1. rcvd \in 0..Len(payloads) /\ r \in 0..Len(payloads)
    BY <1>1
  <2> QED
    BY <1>4, <2>1
<1>6. /\ m = n + Completes(x)
      /\ EndsNalu(x) => \A i \in Position(x.pieces) : sent[n + i] = x.pieces[i].nalu
  BY <1>1, <1>2, <1>4, <1>5 DEF Counts, Position
<1>7. UNCHANGED <<payloads, sent, lost>> /\ rcvd' = r
  BY DEF Receive, packetizerVars
<1>3. PICK c : c = Completes(x)
  OBVIOUS
<1>8. /\ c \in Nat
      /\ Len(delivered') = d + c
      /\ \A i \in 1..d : delivered'[i] = delivered[i]
      /\ \A i \in 1..c : /\ delivered'[d + i].hdr = x.pieces[i].nalu
                         /\ i \in Position(x.pieces) /\ EndsNalu(x)
  <2>1. x = payloads[rcvd + 1] /\ d = Len(delivered) /\ c = Completes(x)
    BY <1>2, <1>3
  <2>2. /\ c \in Nat /\ Len(delivered') = d + c
        /\ \A i \in 1..d : delivered'[i] = delivered[i]
    BY <2>1, ReceiveGrows
  <2>3. Names(x, d, c)
    BY <2>1, ReceiveGrows
  <2>4. \A i \in 1..c : i \in Position(x.pieces)
    BY <2>1, ReceiveGrows
  <2>5. \A i \in 1..c : EndsNalu(x)
    BY <2>1, ReceiveGrows
  <2> QED
    BY <2>2, <2>3, <2>4, <2>5 DEF Names
<1>9. \A i \in 1..c : delivered'[d + i].hdr = sent[n + i]
  BY <1>6, <1>8
<1>10. \A i \in 1..(d + c) : i \in 1..d \/ \E j \in 1..c : i = d + j
  <2>0. c \in Nat
    BY <1>8
  <2> SUFFICES ASSUME NEW i \in 1..(d + c), i \notin 1..d PROVE \E j \in 1..c : i = d + j
    OBVIOUS
  <2>1. i - d \in 1..c /\ i = d + (i - d)
    BY <2>0
  <2> QED
    BY <2>1
<1>11. m = n + c /\ c \in Nat
  BY <1>3, <1>6, <1>8
<1>12. Arrived(n)
  BY <1>4, <1>5
<1>13. Arrived(m)'
  <2>1. \A i \in 1..n : i \in 1..m
    BY <1>11
  <2>2. ASSUME NEW i \in 1..(d + c)
        PROVE  \E a \in 1..m : sent[a] = delivered'[i].hdr
    <3>1. CASE i \in 1..d
      BY <1>8, <1>12, <2>1, <3>1 DEF Arrived, Position
    <3>2. CASE i \notin 1..d
      <4>1. PICK j \in 1..c : i = d + j
        BY <1>10, <3>2
      <4>2. n + j \in 1..m /\ sent[n + j] = delivered'[i].hdr
        BY <1>9, <1>11, <4>1
      <4> QED
        BY <4>2
    <3> QED
      BY <3>1, <3>2
  <2>3. ASSUME NEW i \in 1..(d + c), NEW j \in 1..(d + c), i < j
        PROVE  \E a, b \in 1..m : a < b /\ sent[a] = delivered'[i].hdr
                                        /\ sent[b] = delivered'[j].hdr
    <3>1. CASE j \in 1..d
      <4>1. i \in 1..d
        BY <2>3, <3>1
      <4>2. PICK a \in 1..n, b \in 1..n :
               a < b /\ sent[a] = delivered[i].hdr /\ sent[b] = delivered[j].hdr
        BY <1>12, <2>3, <3>1, <4>1 DEF Arrived, Position
      <4> QED
        BY <1>8, <2>1, <3>1, <4>1, <4>2
    <3>2. CASE j \notin 1..d
      <4>1. PICK q \in 1..c : j = d + q
        BY <1>10, <3>2
      <4>2. n + q \in 1..m /\ sent[n + q] = delivered'[j].hdr
        <5>1. n + q \in 1..m
          BY <1>11
        <5>2. delivered'[d + q].hdr = sent[n + q]
          BY <1>9
        <5> QED
          BY <4>1, <5>1, <5>2
      <4>3. CASE i \in 1..d
        <5>1. PICK a \in 1..n : sent[a] = delivered'[i].hdr
          BY <1>8, <1>12, <4>3 DEF Arrived, Position
        <5>2. a < n + q /\ a \in 1..m
          BY <2>1
        <5> QED
          BY <4>2, <5>1, <5>2
      <4>4. CASE i \notin 1..d
        <5>1. PICK h \in 1..c : i = d + h
          BY <1>10, <4>4
        <5>2. n + h \in 1..m /\ sent[n + h] = delivered'[i].hdr /\ n + h < n + q
          <6>1. n + h \in 1..m
            BY <1>11
          <6>2. delivered'[d + h].hdr = sent[n + h]
            BY <1>9
          <6>3. n + h < n + q
            BY <1>11, <2>3, <4>1, <5>1
          <6> QED
            BY <5>1, <6>1, <6>2, <6>3
        <5> QED
          BY <4>2, <5>2
      <4> QED
        BY <4>3, <4>4
    <3> QED
      BY <3>1, <3>2
  <2>4. ASSUME lost = {}
        PROVE  d + c = m /\ \A i \in 1..(d + c) : delivered'[i].hdr = sent[i]
    <3>1. d = n /\ \A i \in 1..d : delivered[i].hdr = sent[i]
      BY <1>12, <2>4 DEF Arrived, Position
    <3>2. ASSUME NEW i \in 1..(d + c) PROVE delivered'[i].hdr = sent[i]
      <4>1. CASE i \in 1..d
        BY <1>8, <3>1, <4>1
      <4>2. CASE i \notin 1..d
        <5>1. PICK j \in 1..c : i = d + j
          BY <1>10, <4>2
        <5> QED
          BY <1>9, <3>1, <5>1
      <4> QED
        BY <4>1, <4>2
    <3> QED
      BY <1>11, <3>1, <3>2
  <2>5. Position(delivered') = 1..(d + c)
    BY <1>8 DEF Position
  <2>6. sent' = sent /\ lost' = lost
    BY <1>7
  <2>7. \A i \in Position(delivered') : \E a \in 1..m : sent'[a] = delivered'[i].hdr
    BY <2>2, <2>5, <2>6
  <2>8. \A i, j \in Position(delivered') : i < j =>
           \E a, b \in 1..m :
              a < b /\ sent'[a] = delivered'[i].hdr /\ sent'[b] = delivered'[j].hdr
    BY <2>3, <2>5, <2>6
  <2>9. lost' = {} => /\ Len(delivered') = m
                      /\ \A i \in Position(delivered') : delivered'[i].hdr = sent'[i]
    BY <1>8, <2>4, <2>5, <2>6
  <2> QED
    BY <2>7, <2>8, <2>9 DEF Arrived, Position
<1>14. Counts(upto)'
  BY <1>4, <1>7 DEF Counts, Completes, EndsNalu, IsFragment, Position
<1>15. Arrived(upto[rcvd])'
  <2>1. m = upto[rcvd']
    BY <1>5, <1>7
  <2> QED
    BY <1>13, <2>1
<1>16. upto \in [0..Len(payloads') -> 0..Len(sent')]
  BY <1>7
<1> QED
  BY <1>14, <1>15, <1>16 DEF StreamInv

\* A loss leaves what came out in its place.
LEMMA StreamLose ==
    ASSUME IndInv, StreamInv, Lose
    PROVE  StreamInv'
<1>1. PICK upto \in [0..Len(payloads) -> 0..Len(sent)] : Counts(upto) /\ Arrived(upto[rcvd])
  BY DEF StreamInv
<1>2. /\ UNCHANGED <<payloads, sent, delivered>> /\ rcvd' = rcvd + 1 /\ lost' # {}
      /\ rcvd \in Nat /\ Len(payloads) \in Nat /\ rcvd + 1 \in 1..Len(payloads)
      /\ (rcvd + 1) - 1 = rcvd
  BY LenProperties DEF Lose, packetizerVars, depacketizerVars, IndInv, TypeOK
<1>3. Len(sent) \in Nat
  BY LenProperties DEF IndInv, TypeOK
<1>4. PICK n \in Nat, m \in Nat : n = upto[rcvd] /\ m = upto[rcvd + 1]
  <2>1. rcvd \in 0..Len(payloads) /\ rcvd + 1 \in 0..Len(payloads)
    BY <1>2
  <2>2. upto[rcvd] \in 0..Len(sent) /\ upto[rcvd + 1] \in 0..Len(sent)
    BY <2>1
  <2> QED
    BY <1>3, <2>2
<1>5. n <= m
  <2>1. payloads[rcvd + 1] \in PayloadType
    BY <1>2, ElementOfSeq DEF IndInv, TypeOK
  <2>2. Completes(payloads[rcvd + 1]) \in Nat
    BY <2>1, LenProperties DEF Completes, PayloadType
  <2>3. m = n + Completes(payloads[rcvd + 1])
    BY <1>1, <1>2, <1>4 DEF Counts, Position
  <2> QED
    BY <2>2, <2>3
<1>6. Counts(upto)'
  BY <1>1, <1>2 DEF Counts, Completes, EndsNalu, IsFragment, Position
<1>7. Arrived(m)'
  <2>1. \A a \in 1..n : a \in 1..m
    BY <1>5
  <2>2. Arrived(n)
    BY <1>1, <1>4
  <2>3. \A i \in Position(delivered) : \E a \in 1..m : sent[a] = delivered[i].hdr
    BY <2>1, <2>2 DEF Arrived
  <2>4. \A i, j \in Position(delivered) : i < j =>
           \E a, b \in 1..m : a < b /\ sent[a] = delivered[i].hdr /\ sent[b] = delivered[j].hdr
    BY <2>1, <2>2 DEF Arrived
  <2>5. sent' = sent /\ delivered' = delivered /\ lost' # {}
    BY <1>2
  <2>6. \A i, j \in Position(delivered') : i < j =>
           \E a, b \in 1..m :
              a < b /\ sent'[a] = delivered'[i].hdr /\ sent'[b] = delivered'[j].hdr
    BY <2>4, <2>5
  <2>7. \A i \in Position(delivered') : \E a \in 1..m : sent'[a] = delivered'[i].hdr
    BY <2>3, <2>5
  <2> QED
    BY <2>5, <2>6, <2>7 DEF Arrived, Position
<1>8. Arrived(upto[rcvd])'
  <2>1. m = upto[rcvd']
    BY <1>2, <1>4
  <2> QED
    BY <1>7, <2>1
<1>9. upto \in [0..Len(payloads') -> 0..Len(sent')]
  BY <1>2
<1> QED
  BY <1>6, <1>8, <1>9 DEF StreamInv

LEMMA StreamNext ==
    ASSUME Mtu >= 2, ~SwapLength
    PROVE  IndInv /\ StreamInv /\ [Next]_vars => StreamInv'
<1> SUFFICES ASSUME IndInv, StreamInv, [Next]_vars PROVE StreamInv'
  OBVIOUS
<1>1. CASE Send
  <2>1. UNCHANGED <<depacketizerVars, transportVars>> /\ UNCHANGED <<delivered, rcvd, lost>>
    BY <1>1 DEF Send, depacketizerVars, transportVars
  <2>2. CASE \/ EnableStapA \/ DisableStapA \/ Return \/ FilterNalu \/ StoreParameterSet
             \/ StartFua \/ \E frame \in Frames : Packetize(frame)
    BY <2>1, <2>2, StreamSame DEF EnableStapA, DisableStapA, Return, FilterNalu,
       StoreParameterSet, StartFua, Packetize
  <2> QED
    BY <1>1, <2>1, <2>2, StreamSendStapA, StreamSendSingle, StreamFuaFragment
    DEF Send, PacketizerNext, Working
<1>2. CASE UNCHANGED vars
  BY <1>2, StreamSame DEF vars, packetizerVars, depacketizerVars, transportVars
<1> QED
  BY <1>1, <1>2, StreamReceive, StreamLose DEF Next

-----------------------------------------------------------------------------
\* A sequence that agrees with the beginning of another is a prefix of it.
LEMMA PrefixOf ==
    ASSUME NEW S, NEW s \in Seq(S), NEW t \in Seq(S), Len(s) <= Len(t),
           \A i \in 1..Len(s) : s[i] = t[i]
    PROVE  IsPrefix(s, t)
<1> PICK n \in Nat, m \in Nat : n = Len(s) /\ m = Len(t)
  BY LenProperties
<1>1. SubSeq(s, 1, n) = s
  BY SubSeqFull
<1>2. \A i \in 1..n : s[i] \in S /\ t[i] \in S
  <2>1. \A i \in 1..n : s[i] \in S
    BY ElementOfSeq
  <2> QED
    BY <2>1
<1>3. /\ SubSeq(t, 1, n) \in Seq(S)
      /\ Len(SubSeq(t, 1, n)) = (IF 1 <= n THEN n - 1 + 1 ELSE 0)
      /\ \A i \in 1..(n - 1 + 1) : SubSeq(t, 1, n)[i] = t[1 + i - 1]
  <2>1. 1 \in Int /\ n \in Int
    OBVIOUS
  <2> QED
    BY <1>2, <2>1, SubSeqProperties
<1>4. /\ SubSeq(t, 1, n) \in Seq(S) /\ Len(SubSeq(t, 1, n)) = n
      /\ \A i \in 1..n : SubSeq(t, 1, n)[i] = t[i]
  <2>1. (IF 1 <= n THEN n - 1 + 1 ELSE 0) = n /\ n - 1 + 1 = n
    OBVIOUS
  <2>2. \A i \in 1..n : 1 + i - 1 = i
    OBVIOUS
  <2> QED
    BY <1>3, <2>1, <2>2
<1>5. SubSeq(t, 1, n) = s
  BY <1>4, SeqEqual
<1> QED
  BY <1>1, <1>5 DEF IsPrefix

\* The units that came out, as numbers.
LEMMA DeliveredType ==
    IndInv => /\ DeliveredNalus \in Seq(Nat) /\ Len(DeliveredNalus) = Len(delivered)
              /\ DOMAIN DeliveredNalus = Position(delivered)
              /\ \A i \in Position(delivered) :
                    /\ delivered[i].hdr \in 1..Len(given) /\ delivered[i].hdr \in Nat \ {0}
                    /\ DeliveredNalus[i] =
                          IF delivered[i] = Whole(delivered[i].hdr) THEN delivered[i].hdr ELSE 0
<1> SUFFICES ASSUME IndInv
             PROVE  /\ DeliveredNalus \in Seq(Nat) /\ Len(DeliveredNalus) = Len(delivered)
                    /\ DOMAIN DeliveredNalus = Position(delivered)
                    /\ \A i \in Position(delivered) :
                          /\ delivered[i].hdr \in 1..Len(given) /\ delivered[i].hdr \in Nat \ {0}
                          /\ DeliveredNalus[i] =
                                IF delivered[i] = Whole(delivered[i].hdr)
                                THEN delivered[i].hdr ELSE 0
  OBVIOUS
<1> PICK n \in Nat, g \in Nat : n = Len(delivered) /\ g = Len(given)
  BY LenProperties DEF IndInv, TypeOK
<1>1. \A i \in 1..n : delivered[i].hdr \in 1..g
  <2>1. \A i \in 1..n : delivered[i] \in UnitType
    BY ElementOfSeq DEF IndInv, TypeOK
  <2> QED
    BY <2>1 DEF UnitType
<1>2. \A i \in 1..n : delivered[i].hdr \in Nat \ {0}
  BY <1>1
<1>3. DeliveredNalus = [i \in 1..n |-> IF delivered[i] = Whole(delivered[i].hdr)
                                       THEN delivered[i].hdr ELSE 0]
  BY DEF DeliveredNalus, Position
<1>4. DeliveredNalus \in [1..n -> Nat]
  BY <1>2, <1>3
<1>5. DeliveredNalus \in Seq(Nat)
  BY <1>4, SeqDef
<1>6. DOMAIN DeliveredNalus = 1..n
  BY <1>3
<1>7. Len(DeliveredNalus) = n
  BY <1>5, <1>6, LenProperties
<1> QED
  BY <1>1, <1>2, <1>3, <1>5, <1>6, <1>7 DEF Position

\* Nothing comes out and nothing is lost when the packetizer works.
LEMMA StreamSend ==
    ASSUME Mtu >= 2, IndInv, IndInv', Send
    PROVE  /\ DeliveredNalus' = DeliveredNalus /\ lost' = lost
           /\ sent' = sent \/ IsPrefix(sent, sent')
<1>1. delivered' = delivered /\ lost' = lost
  BY DEF Send, depacketizerVars, transportVars
<1>2. \A k \in 1..Len(given) : given'[k] = given[k]
  <2>1. CASE \E frame \in Frames : Packetize(frame)
    <3>1. PICK frame \in Seq(Nalu) : given' = given \o frame
      BY <2>1, FramesAssumption DEF Packetize
    <3> QED
      BY <3>1, ConcatProperties, LenProperties DEF IndInv, TypeOK
  <2>2. CASE EnableStapA \/ DisableStapA \/ Working
    <3>1. given' = given
      BY <2>2 DEF EnableStapA, DisableStapA, Working, FilterNalu, StoreParameterSet, SendStapA,
                  SendSingle, StartFua, FuaFragment, Return
    <3> QED
      BY <3>1
  <2> QED
    BY <2>1, <2>2 DEF Send, PacketizerNext
<1>3. DeliveredNalus' = DeliveredNalus
  <2>1. \A i \in Position(delivered) : Whole(delivered[i].hdr)' = Whole(delivered[i].hdr)
    BY <1>1, <1>2, DeliveredType DEF Whole
  <2> QED
    BY <1>1, <2>1 DEF DeliveredNalus, Position
<1>4. sent' = sent \/ IsPrefix(sent, sent')
  <2> SUFFICES ASSUME sent' # sent PROVE IsPrefix(sent, sent')
    OBVIOUS
  <2>1. given' = given /\ sent \in Seq(1..Len(given)) /\ sent' \in Seq(1..Len(given))
    BY DEF IndInv, TypeOK, Send, PacketizerNext, Packetize, EnableStapA, DisableStapA, Working,
           FilterNalu, StoreParameterSet, SendStapA, SendSingle, StartFua, FuaFragment, Return
  <2>2. Len(sent) <= Len(sent') /\ \A i \in 1..Len(sent) : sent'[i] = sent[i]
    <3>1. CASE SendStapA
      <4>1. sent' = sent \o <<sps_nalu, pps_nalu, Current>>
        BY <3>1 DEF SendStapA
      <4>2. <<sps_nalu, pps_nalu, Current>> \in Seq({sps_nalu, pps_nalu, Current})
        OBVIOUS
      <4>3. PICK more : /\ more = <<sps_nalu, pps_nalu, Current>> /\ Len(more) = 3
                        /\ more \in Seq({sps_nalu, pps_nalu, Current})
        BY <4>2
      <4>4. /\ Len(sent) \in Nat /\ Len(more) \in Nat /\ Len(sent \o more) = Len(sent) + Len(more)
            /\ \A i \in 1..Len(sent) : (sent \o more)[i] = sent[i]
        BY <2>1, <4>3, ConcatGrows
      <4> QED
        BY <4>1, <4>3, <4>4
    <3>2. CASE sent' = Append(sent, Current)
      <4>1. /\ Len(sent') = Len(sent) + 1 /\ Len(sent) \in Nat
            /\ \A i \in 1..Len(sent) : sent'[i] = sent[i]
        BY <2>1, <3>2, AppendGrows, LenProperties
      <4> QED
        BY <4>1
    <3> QED
      BY <3>1, <3>2
      DEF Send, PacketizerNext, Packetize, EnableStapA, DisableStapA, Working,
          FilterNalu, StoreParameterSet, SendSingle, StartFua, FuaFragment, Return
  <2> QED
    BY <2>1, <2>2, PrefixOf
<1> QED
  BY <1>1, <1>3, <1>4

\* What the receiver hands out goes on with what it handed out before.
LEMMA StreamDeliver ==
    ASSUME ~SwapLength, IndInv, IndInv', StreamInv', Receive
    PROVE  /\ sent' = sent /\ lost' = lost
           /\ IsPrefix(DeliveredNalus, DeliveredNalus')
           /\ IF lost # {} THEN Stream!InOrder(DeliveredNalus', sent)
                           ELSE IsPrefix(DeliveredNalus', sent)
<1>1. given' = given /\ sent' = sent /\ lost' = lost
  BY DEF Receive, packetizerVars
<1>2. PICK out, d : out = DeliveredNalus /\ d = delivered
  OBVIOUS
<1>3. PICK out2, d2 : out2 = DeliveredNalus' /\ d2 = delivered'
  OBVIOUS
<1>4. /\ out \in Seq(Nat) /\ Len(out) = Len(d) /\ DOMAIN out = 1..Len(d)
      /\ \A i \in 1..Len(d) :
            out[i] = IF d[i] = Whole(d[i].hdr) THEN d[i].hdr ELSE 0
  BY <1>2, DeliveredType DEF Position
<1>5. /\ out2 \in Seq(Nat) /\ Len(out2) = Len(d2) /\ DOMAIN out2 = 1..Len(d2)
      /\ \A i \in 1..Len(d2) :
            /\ d2[i].hdr \in Nat \ {0}
            /\ out2[i] = IF d2[i] = Whole(d2[i].hdr) THEN d2[i].hdr ELSE 0
  <2>1. (/\ DeliveredNalus \in Seq(Nat) /\ Len(DeliveredNalus) = Len(delivered)
         /\ DOMAIN DeliveredNalus = Position(delivered)
         /\ \A i \in Position(delivered) :
              /\ delivered[i].hdr \in 1..Len(given) /\ delivered[i].hdr \in Nat \ {0}
              /\ DeliveredNalus[i] =
                    IF delivered[i] = Whole(delivered[i].hdr) THEN delivered[i].hdr ELSE 0)'
    BY DeliveredType, PTL
  <2>2. \A i : Whole(delivered[i].hdr)' = Whole(delivered'[i].hdr)
    BY <1>1 DEF Whole
  <2>3. \A i : Whole(d2[i].hdr) = Whole(delivered'[i].hdr)
    BY <1>3
  <2> QED
    BY <1>3, <2>1, <2>2, <2>3 DEF Position
<1>6. Len(d) <= Len(d2) /\ \A i \in 1..Len(d) : d2[i] = d[i]
  <2>1. PICK x, c : x = payloads[rcvd + 1] /\ c = Completes(x)
    OBVIOUS
  <2>2. /\ Len(d) \in Nat /\ c \in Nat /\ Len(d2) = Len(d) + c
        /\ \A i \in 1..Len(d) : d2[i] = d[i]
    BY <1>2, <1>3, <2>1, ReceiveGrows
  <2> QED
    BY <2>2
<1> PICK m \in Nat, m2 \in Nat : m = Len(d) /\ m2 = Len(d2)
  BY <1>4, <1>5, LenProperties
<1>7. IsPrefix(out, out2)
  <2>1. \A i \in 1..m : i \in 1..m2 /\ d2[i] = d[i]
    BY <1>6
  <2>2. \A i \in 1..m : out[i] = out2[i]
    BY <1>4, <1>5, <2>1
  <2> QED
    BY <1>4, <1>5, <1>6, <2>2, PrefixOf
<1>8. PICK n \in 0..Len(sent) :
         /\ \A i \in 1..m2 : \E a \in 1..n : sent[a] = d2[i].hdr
         /\ \A i, j \in 1..m2 : i < j =>
               \E a, b \in 1..n : a < b /\ sent[a] = d2[i].hdr /\ sent[b] = d2[j].hdr
         /\ lost = {} => m2 = n /\ \A i \in 1..m2 : d2[i].hdr = sent[i]
  <2>1. PICK upto \in [0..Len(payloads') -> 0..Len(sent')] : Arrived(upto[rcvd])'
    BY DEF StreamInv
  <2>2. PICK n : n = upto[rcvd']
    OBVIOUS
  <2>3. rcvd' \in 0..Len(payloads')
    BY LenProperties DEF IndInv, TypeOK
  <2>4. n \in 0..Len(sent)
    BY <1>1, <2>1, <2>2, <2>3
  <2>5. Arrived(n)'
    BY <2>1, <2>2 DEF Arrived
  <2>6. /\ \A i \in 1..m2 : \E a \in 1..n : sent[a] = d2[i].hdr
        /\ \A i, j \in 1..m2 : i < j =>
              \E a, b \in 1..n : a < b /\ sent[a] = d2[i].hdr /\ sent[b] = d2[j].hdr
        /\ lost = {} => m2 = n /\ \A i \in 1..m2 : d2[i].hdr = sent[i]
    <3>1. /\ \A i \in 1..Len(delivered') : \E a \in 1..n : sent'[a] = delivered'[i].hdr
          /\ \A i, j \in 1..Len(delivered') : i < j =>
                \E a, b \in 1..n : a < b /\ sent'[a] = delivered'[i].hdr
                                       /\ sent'[b] = delivered'[j].hdr
          /\ lost' = {} => /\ Len(delivered') = n
                           /\ \A i \in 1..Len(delivered') : delivered'[i].hdr = sent'[i]
      BY ONLY <2>5 DEF Arrived, Position
    <3>2. sent' = sent /\ lost' = lost /\ delivered' = d2 /\ m2 = Len(d2)
      BY <1>1, <1>3
    <3>3. \A i \in 1..m2 : \E a \in 1..n : sent[a] = d2[i].hdr
      BY ONLY <3>1, <3>2
    <3>4. \A i, j \in 1..m2 : i < j =>
              \E a, b \in 1..n : a < b /\ sent[a] = d2[i].hdr /\ sent[b] = d2[j].hdr
      BY ONLY <3>1, <3>2
    <3>5. lost = {} => m2 = n /\ \A i \in 1..m2 : d2[i].hdr = sent[i]
      BY ONLY <3>1, <3>2
    <3> QED
      BY <3>3, <3>4, <3>5
  <2> QED
    BY <2>4, <2>6
<1>9. Len(sent) \in Nat /\ DOMAIN sent = 1..Len(sent) /\ sent \in Seq(1..Len(given))
      /\ Len(given) \in Nat
  BY LenProperties DEF IndInv, TypeOK
<1>10. \A a \in 1..n : a \in DOMAIN sent
  BY <1>8, <1>9
<1>11. ASSUME lost # {} PROVE Stream!InOrder(out2, sent)
  <2>1. ASSUME NEW i \in 1..m2, out2[i] # 0 PROVE out2[i] \in Range(sent)
    <3>1. out2[i] = d2[i].hdr
      BY <1>5, <2>1
    <3> QED
      BY <1>8, <1>10, <3>1 DEF Range
  <2>2. ASSUME NEW i \in 1..m2, NEW j \in 1..m2, i < j, out2[i] # 0, out2[j] # 0
        PROVE  \E a, b \in DOMAIN sent : a < b /\ sent[a] = out2[i] /\ sent[b] = out2[j]
    <3>1. out2[i] = d2[i].hdr /\ out2[j] = d2[j].hdr
      BY <1>5, <2>2
    <3>2. PICK a \in 1..n, b \in 1..n :
             a < b /\ sent[a] = d2[i].hdr /\ sent[b] = d2[j].hdr
      BY <1>8, <2>2
    <3> QED
      BY <1>10, <3>1, <3>2
  <2>3. DOMAIN out2 = 1..m2
    BY <1>5
  <2>4. \A i \in DOMAIN out2 : out2[i] # 0 => out2[i] \in Range(sent)
    BY <2>1, <2>3
  <2>5. \A i, j \in DOMAIN out2 : i < j /\ out2[i] # 0 /\ out2[j] # 0 =>
           \E a, b \in DOMAIN sent : a < b /\ sent[a] = out2[i] /\ sent[b] = out2[j]
    BY <2>2, <2>3
  <2> QED
    BY ONLY <2>4, <2>5 DEF Stream!InOrder, Range, Stream!Range
<1>12. ASSUME lost = {} PROVE IsPrefix(out2, sent)
  <2>1. \A i \in 1..m2 : d2[i] = Whole(d2[i].hdr)
    <3>1. NoCorruption'
      BY Intact, PTL
    <3>2. \A i \in Position(delivered') : delivered'[i] = Whole(delivered[i].hdr)'
      BY <1>1, <1>12, <3>1 DEF NoCorruption
    <3>3. \A i : Whole(delivered[i].hdr)' = Whole(delivered'[i].hdr)
      BY <1>1 DEF Whole
    <3> QED
      BY <1>3, <3>2, <3>3 DEF Position
  <2>2. \A i \in 1..m2 : out2[i] = sent[i]
    BY <1>5, <1>8, <1>12, <2>1
  <2>3. Len(out2) <= Len(sent)
    BY <1>5, <1>8, <1>9, <1>12
  <2>4. sent \in Seq(Nat)
    <3>1. 1..Len(given) \subseteq Nat
      BY <1>9
    <3> QED
      BY <1>9, <3>1, SeqMonotone
  <2> QED
    BY <1>5, <2>2, <2>3, <2>4, PrefixOf
<1> QED
  BY <1>1, <1>2, <1>3, <1>7, <1>11, <1>12

-----------------------------------------------------------------------------
(* The theorems.                                                           *)

\* The invariant is inductive.
LEMMA NextInd ==
    ASSUME Mtu >= 2
    PROVE  IndInv /\ [Next]_vars => IndInv'
<1> SUFFICES ASSUME IndInv, [Next]_vars PROVE IndInv'
  OBVIOUS
<1>1. CASE Send
  <2>1. UNCHANGED <<depacketizerVars, transportVars>>
    BY <1>1 DEF Send
  <2>2. CASE EnableStapA \/ DisableStapA
    BY <2>1, <2>2, ToggleInd
  <2>3. ASSUME NEW frame \in Frames, Packetize(frame) PROVE IndInv'
    BY <2>1, <2>3, PacketizeInd
  <2>4. CASE FilterNalu \/ StoreParameterSet
    BY <2>1, <2>4, NoPayloadInd
  <2>5. CASE SendStapA
    BY <2>1, <2>5, SendStapAInd
  <2>6. CASE SendSingle
    BY <2>1, <2>6, SendSingleInd
  <2>7. CASE StartFua
    BY <2>1, <2>7, StartFuaInd
  <2>8. CASE FuaFragment
    BY <2>1, <2>8, FuaFragmentInd
  <2>9. CASE Return
    BY <2>1, <2>9, ReturnInd
  <2> QED
    BY <1>1, <2>2, <2>3, <2>4, <2>5, <2>6, <2>7, <2>8, <2>9 DEF Send, PacketizerNext, Working
<1>2. CASE Receive
  BY <1>2, ReceiveInd
<1>3. CASE Lose
  BY <1>3, LoseInd
<1>4. CASE UNCHANGED vars
  <2> USE DEF vars, packetizerVars, depacketizerVars, transportVars
  <2>1. TypeOK'
    BY <1>4 DEF IndInv, TypeOK, PayloadType, PieceType, UnitType
  <2>2. (LoopInv /\ ShapeInv /\ ChainInv /\ OpenInv /\ MarkInv /\ OrderInv)'
    BY <1>4, SenderKeeps
  <2>3. (BufferInv /\ DamageIsLocal)'
    BY <1>4, SamePayloads
  <2> QED
    BY <2>1, <2>2, <2>3 DEF IndInv
<1> QED
  BY <1>1, <1>2, <1>3, <1>4 DEF Next

\* The invariant holds of every behaviour of a session, whatever is lost.
THEOREM Invariant ==
    ASSUME Mtu >= 2
    PROVE  Spec => []IndInv
<1>1. Init => IndInv
  BY InitInd
<1>2. IndInv /\ [Next]_vars => IndInv'
  BY NextInd
<1> QED
  BY <1>1, <1>2, PTL DEF Spec

\* The types of both objects' fields, and the order of call, packet and arrival.
THEOREM TypeCorrect ==
    ASSUME Mtu >= 2
    PROVE  Spec => []TypeOK
<1>1. IndInv => TypeOK
  BY DEF IndInv
<1> QED
  BY <1>1, Invariant, PTL

\* Whatever is lost, a NAL unit comes out damaged only if one of its own fragments
\* was lost, or the last fragment of an earlier one (h264_depacketizer.cc:103).
THEOREM Locality ==
    ASSUME Mtu >= 2
    PROVE  Spec => []DamageIsLocal
<1>1. IndInv => DamageIsLocal
  BY DEF IndInv
<1> QED
  BY <1>1, Invariant, PTL

\* Fragmentation and reassembly lose, repeat and mix no byte of a NAL unit.
THEOREM Integrity ==
    ASSUME Mtu >= 2
    PROVE  Spec => []NoCorruption
<1>1. IndInv => NoCorruption
  BY Intact
<1> QED
  BY <1>1, Invariant, PTL

\* The marker bit is on a packet that completes the frame's last NAL unit.
THEOREM MarkerIsEnd ==
    ASSUME Mtu >= 2
    PROVE  Spec => []MarkerCompletes
<1>1. IndInv => MarkerCompletes
  <2> SUFFICES ASSUME IndInv, rcvd \in marked PROVE EndLost \/ fua_buffer = <<>>
    BY DEF MarkerCompletes
  <2>1. rcvd \in Nat /\ EndsNalu(payloads[rcvd])
    BY LenProperties DEF IndInv, TypeOK, MarkInv
  <2> QED
    BY <2>1 DEF IndInv, BufferInv, Continues
<1> QED
  BY <1>1, Invariant, PTL

\* The invariant of the stored parameter sets holds of every behaviour too.
THEOREM StoreInvariant ==
    ASSUME Mtu >= 2
    PROVE  Spec => []StoreIndInv
<1>1. Init => StoreIndInv
  <2> SUFFICES ASSUME Init PROVE StoreIndInv
    OBVIOUS
  <2>1. payloads = <<>> /\ sent = <<>> /\ cur = 0 /\ sps_nalu = 0 /\ pps_nalu = 0
    BY DEF Init, PacketizerInit
  <2> QED
    BY <2>1 DEF StoreIndInv, StoreInv, StoredRight, PayloadsFit, SentOnceInOrder,
                FreshParameterSets, FreshAt, IsInjective, Range, Position
<1>2. IndInv /\ StoreIndInv /\ [Next]_vars => StoreIndInv'
  BY StoreNext
<1> QED
  BY <1>1, <1>2, Invariant, PTL DEF Spec

\* No payload is larger than the MTU, whatever is cut or aggregated.
THEOREM Fits ==
    ASSUME Mtu >= 2
    PROVE  Spec => []PayloadsFit
<1>1. StoreIndInv => PayloadsFit
  BY DEF StoreIndInv
<1> QED
  BY <1>1, StoreInvariant, PTL

\* No NAL unit is sent twice, and every slice is sent, in order, whatever happens
\* to the parameter sets around it (h264_packetizer.cc:67-112).
THEOREM OnceInOrder ==
    ASSUME Mtu >= 2
    PROVE  Spec => []SentOnceInOrder
<1>1. StoreIndInv => SentOnceInOrder
  BY DEF StoreIndInv
<1> QED
  BY <1>1, StoreInvariant, PTL

\* No STAP-A carries a parameter set older than one the packetizer kept back.
THEOREM Fresh ==
    ASSUME Mtu >= 2
    PROVE  Spec => []FreshParameterSets
<1>1. StoreIndInv => FreshParameterSets
  BY DEF StoreIndInv
<1> QED
  BY <1>1, StoreInvariant, PTL

\* On a host that writes the STAP-A lengths right, packetizer, transport and
\* depacketizer together are a stream of NAL units: they come out in the order in
\* which they were sent and, until something is lost, all of them and intact.
THEOREM Refinement ==
    ASSUME Mtu >= 2, ~SwapLength
    PROVE  Spec => StreamSpec
<1>1. Init => StreamInv /\ Stream!Init
  <2> SUFFICES ASSUME Init PROVE StreamInv /\ Stream!Init
    OBVIOUS
  <2>1. payloads = <<>> /\ sent = <<>> /\ delivered = <<>> /\ rcvd = 0 /\ lost = {}
    BY DEF Init, PacketizerInit, DepacketizerInit
  <2>2. Len(payloads) = 0 /\ Len(sent) = 0 /\ Len(delivered) = 0
    BY <2>1
  <2>3. StreamInv
    <3> DEFINE upto == [p \in 0..0 |-> 0]
    <3>1. upto[0] = 0 /\ upto \in [0..0 -> 0..0]
      OBVIOUS
    <3>2. Counts(upto)
      BY <2>2, <3>1 DEF Counts, Position
    <3>3. Arrived(upto[rcvd])
      BY <2>1, <2>2, <3>1 DEF Arrived, Position
    <3> HIDE DEF upto
    <3> QED
      BY <2>2, <3>1, <3>2, <3>3 DEF StreamInv
  <2>4. DeliveredNalus = <<>>
    BY <2>2 DEF DeliveredNalus, Position
  <2> QED
    BY <2>1, <2>3, <2>4 DEF Stream!Init
<1>2. IndInv /\ StreamInv /\ [Next]_vars => StreamInv'
  BY StreamNext
<1>3. IndInv /\ IndInv' /\ StreamInv' /\ [Next]_vars
         => [Stream!Next]_<<sent, DeliveredNalus, lost # {}>>
  <2> SUFFICES ASSUME IndInv, IndInv', StreamInv', [Next]_vars
               PROVE  [Stream!Next]_<<sent, DeliveredNalus, lost # {}>>
    OBVIOUS
  <2> USE DEF Stream!Next, Stream!Accept, Stream!Deliver, Stream!Fail
  <2>1. CASE Send
    <3>1. /\ DeliveredNalus' = DeliveredNalus /\ lost' = lost
          /\ sent' = sent \/ IsPrefix(sent, sent')
      BY <2>1, StreamSend
    <3>2. (lost # {})' = (lost # {})
      BY <3>1
    <3>3. CASE sent' = sent
      BY <3>1, <3>2, <3>3
    <3>4. CASE sent' # sent
      <4>1. Stream!Accept
        BY <3>1, <3>2, <3>4 DEF IsPrefix, Stream!IsPrefix
      <4> QED
        BY <4>1
    <3> QED
      BY <3>3, <3>4
  <2>2. CASE Receive
    <3>1. /\ sent' = sent /\ lost' = lost
          /\ IsPrefix(DeliveredNalus, DeliveredNalus')
          /\ IF lost # {} THEN Stream!InOrder(DeliveredNalus', sent)
                          ELSE IsPrefix(DeliveredNalus', sent)
      BY <2>2, StreamDeliver
    <3>2. (lost # {})' = (lost # {})
      BY <3>1
    <3>3. CASE DeliveredNalus' = DeliveredNalus
      BY <3>1, <3>2, <3>3
    <3>4. CASE DeliveredNalus' # DeliveredNalus
      <4>1. Stream!Deliver
        BY <3>1, <3>2, <3>4 DEF IsPrefix, Stream!IsPrefix
      <4> QED
        BY <4>1
    <3> QED
      BY <3>3, <3>4
  <2>3. CASE Lose
    <3>1. (lost # {})' /\ sent' = sent /\ delivered' = delivered /\ given' = given
      BY <2>3 DEF Lose, packetizerVars, depacketizerVars
    <3>2. DeliveredNalus' = DeliveredNalus
      BY <3>1 DEF DeliveredNalus, Whole, Position
    <3> QED
      BY <3>1, <3>2
  <2>4. CASE UNCHANGED vars
    <3>1. UNCHANGED <<sent, delivered, given, lost>>
      BY <2>4 DEF vars, packetizerVars, depacketizerVars, transportVars
    <3>2. DeliveredNalus' = DeliveredNalus
      BY <3>1 DEF DeliveredNalus, Whole, Position
    <3> QED
      BY <3>1, <3>2
  <2> QED
    BY <2>1, <2>2, <2>3, <2>4 DEF Next
<1> QED
  BY <1>1, <1>2, <1>3, Invariant, PTL DEF Spec, StreamSpec, Stream!Spec
=============================================================================
