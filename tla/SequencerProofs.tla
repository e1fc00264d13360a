-------------------------- MODULE SequencerProofs --------------------------
(***************************************************************************)
(* Proofs about OpusSenders for every set of threads and every width of    *)
(* the sequence number: mutual exclusion, and that a call returns the very *)
(* number it took.                                                         *)
(***************************************************************************)
EXTENDS OpusSenders, SequenceTheorems, TLAPS

\* Between the increment and the return a thread's number is the last issued.
JustIssued ==
    \A t \in Threads :
        pc[t] \in {"roll_over", "return_next"} =>
            /\ place[t] = Len(issued) /\ Len(issued) > 0
            /\ sequence_number = issued[Len(issued)]
Placed ==
    \A t \in Threads :
        pc[t] \in {"has_number", "lock_count", "return_count", "has_count"} => place[t] > 0

SeqInv == TypeOK /\ LockHeld /\ JustIssued /\ Placed /\ OwnNumber

\* Arithmetic in uint16_t.
LEMMA SuccessorType ==
    ASSUME sequence_number \in 0..(SeqModulus - 1)
    PROVE  Successor \in 0..(SeqModulus - 1)
BY ModulusAssumption DEF Successor

LEMMA SeqInit == Init => SeqInv
<1> SUFFICES ASSUME Init PROVE SeqInv
  OBVIOUS
<1> USE DEF Init, SequencerInit
<1>1. sequence_number \in 0..(SeqModulus - 1)
  <2>1. \A s \in 0..(SeqModulus - 1) : (s + SeqModulus - 1) % SeqModulus \in 0..(SeqModulus - 1)
    BY ModulusAssumption
  <2>2. RandomStarts \subseteq 0..(SeqModulus - 1)
    BY ModulusAssumption DEF RandomStarts
  <2> QED
    BY <2>1, <2>2 DEF FixedStarts
<1>2. TypeOK
  <2>1. <<>> \in Seq(0..(SeqModulus - 1)) /\ Len(<<>>) = 0
    BY EmptySeq
  <2>2. number \in [Threads -> 0..(SeqModulus - 1)] /\ roll_overs \in [Threads -> Nat]
    BY ModulusAssumption
  <2>3. pc \in [Threads -> Statements] /\ place \in [Threads -> 0..Len(issued)]
    BY <2>1 DEF Statements
  <2> QED
    BY <1>1, <2>1, <2>2, <2>3 DEF TypeOK
<1>3. LockHeld
  BY FreeAssumption DEF LockHeld, UnderLock
<1>4. JustIssued /\ Placed /\ OwnNumber
  BY DEF JustIssued, Placed, OwnNumber
<1> QED
  BY <1>2, <1>3, <1>4 DEF SeqInv

\* Steps that neither issue a number nor return one.
LEMMA QuietStep ==
    ASSUME SeqInv, NEW t \in Threads,
           \/ \E size \in FrameSizes : Packetize(t, size)
           \/ (LockNext(t) \/ CountRollOver(t) \/ LockCount(t) \/ ReturnCount(t)) /\ Sequence(t)
           \/ AskRollOvers(t)
           \/ Finish(t)
    PROVE  SeqInv'
<1> USE DEF SeqInv, Goto, Lock, Unlock
<1>1. CASE \E size \in FrameSizes : Packetize(t, size)
  <2> PICK size \in FrameSizes : Packetize(t, size)
    BY <1>1
  <2> USE DEF Packetize, CallNext
  <2>1. TypeOK'
    BY SizesAssumption, SMTT(20) DEF TypeOK, Statements
  <2>2. LockHeld'
    BY DEF TypeOK, LockHeld, UnderLock
  <2>3. (JustIssued /\ Placed /\ OwnNumber)'
    BY DEF TypeOK, JustIssued, Placed, OwnNumber
  <2> QED
    BY <2>1, <2>2, <2>3
<1>2. CASE LockNext(t) /\ Sequence(t)
  <2> USE <1>2 DEF LockNext, Sequence
  <2>1. TypeOK'
    BY DEF TypeOK, Statements
  <2>2. LockHeld'
    BY FreeAssumption DEF TypeOK, LockHeld, UnderLock
  <2>3. (JustIssued /\ Placed /\ OwnNumber)'
    BY DEF TypeOK, JustIssued, Placed, OwnNumber
  <2> QED
    BY <2>1, <2>2, <2>3
<1>3. CASE CountRollOver(t) /\ Sequence(t)
  <2> USE <1>3 DEF CountRollOver, Sequence
  <2>1. TypeOK'
    BY DEF TypeOK, Statements
  <2>2. LockHeld'
    BY DEF TypeOK, LockHeld, UnderLock
  <2>3. (JustIssued /\ Placed /\ OwnNumber)'
    BY DEF TypeOK, JustIssued, Placed, OwnNumber
  <2> QED
    BY <2>1, <2>2, <2>3
<1>4. CASE LockCount(t) /\ Sequence(t)
  <2> USE <1>4 DEF LockCount, Sequence
  <2>1. TypeOK'
    BY DEF TypeOK, Statements
  <2>2. LockHeld'
    BY FreeAssumption DEF TypeOK, LockHeld, UnderLock
  <2>3. (JustIssued /\ Placed /\ OwnNumber)'
    BY DEF TypeOK, JustIssued, Placed, OwnNumber
  <2> QED
    BY <2>1, <2>2, <2>3
<1>5. CASE ReturnCount(t) /\ Sequence(t)
  <2> USE <1>5 DEF ReturnCount, Sequence
  <2>1. TypeOK'
    BY DEF TypeOK, Statements
  <2>2. LockHeld'
    BY FreeAssumption DEF TypeOK, LockHeld, UnderLock
  <2>3. (JustIssued /\ Placed /\ OwnNumber)'
    BY DEF TypeOK, JustIssued, Placed, OwnNumber
  <2> QED
    BY <2>1, <2>2, <2>3
<1>6. CASE AskRollOvers(t)
  <2> USE <1>6 DEF AskRollOvers, CallRollOverCount, senderVars
  <2>1. TypeOK'
    BY DEF TypeOK, Statements
  <2>2. LockHeld'
    BY DEF TypeOK, LockHeld, UnderLock
  <2>3. (JustIssued /\ Placed /\ OwnNumber)'
    BY DEF TypeOK, JustIssued, Placed, OwnNumber
  <2> QED
    BY <2>1, <2>2, <2>3
<1>7. CASE Finish(t)
  <2> USE <1>7 DEF Finish
  <2>1. place[t] \in 1..Len(issued)
    BY DEF TypeOK, Placed
  <2>2. TypeOK'
    BY <2>1 DEF TypeOK, Statements
  <2>3. LockHeld'
    BY DEF TypeOK, LockHeld, UnderLock
  <2>4. (JustIssued /\ Placed /\ OwnNumber)'
    BY DEF TypeOK, JustIssued, Placed, OwnNumber
  <2> QED
    BY <2>2, <2>3, <2>4
<1> QED
  BY <1>1, <1>2, <1>3, <1>4, <1>5, <1>6, <1>7

\* The increment: under the lock, so no other thread is about to return.
LEMMA IncrementStep ==
    ASSUME SeqInv, NEW t \in Threads, Increment(t), Sequence(t)
    PROVE  SeqInv'
<1> USE DEF SeqInv, Goto, Increment, Sequence
<1>1. /\ issued \in Seq(0..(SeqModulus - 1)) /\ issued' \in Seq(0..(SeqModulus - 1))
      /\ sequence_number' \in 0..(SeqModulus - 1)
      /\ Len(issued) \in Nat /\ Len(issued') = Len(issued) + 1
      /\ \A i \in 1..Len(issued) : issued'[i] = issued[i]
      /\ issued'[Len(issued) + 1] = sequence_number'
      /\ issued' # issued
  BY SuccessorType, AppendProperties, LenProperties DEF TypeOK
<1>2. place' = [place EXCEPT ![t] = Len(issued) + 1]
  BY <1>1
<1>3. TypeOK'
  <2>1. /\ 0..Len(issued) \subseteq 0..Len(issued') /\ 1..Len(issued) \subseteq 1..Len(issued')
        /\ Len(issued) + 1 \in 0..Len(issued')
    BY <1>1
  <2>2. place' \in [Threads -> 0..Len(issued')]
    BY <1>2, <2>1 DEF TypeOK
  <2>3. packets' \subseteq 1..Len(issued') /\ failed' \subseteq 1..Len(issued')
    BY <2>1 DEF TypeOK
  <2>4. pc' \in [Threads -> Statements]
    BY DEF TypeOK, Statements
  <2> QED
    BY <1>1, <2>2, <2>3, <2>4 DEF TypeOK
<1>4. LockHeld'
  BY DEF TypeOK, LockHeld, UnderLock
<1>5. \A u \in Threads : u # t => pc[u] \notin UnderLock
  BY DEF LockHeld, UnderLock
<1>6. JustIssued'
  BY <1>1, <1>2, <1>5 DEF TypeOK, JustIssued, UnderLock
<1>7. Placed' /\ OwnNumber'
  <2> SUFFICES ASSUME NEW u \in Threads,
                      pc'[u] \in {"has_number", "lock_count", "return_count", "has_count"}
               PROVE  place'[u] > 0 /\ number'[u] = issued'[place'[u]]
    BY DEF Placed, OwnNumber
  <2>1. u # t /\ pc'[u] = pc[u] /\ place'[u] = place[u] /\ number'[u] = number[u]
    BY <1>2 DEF TypeOK
  <2>2. place[u] > 0 /\ number[u] = issued[place[u]]
    BY <2>1 DEF Placed, OwnNumber
  <2>3. place[u] \in 1..Len(issued)
    BY <1>1, <2>2 DEF TypeOK
  <2> QED
    BY <1>1, <2>1, <2>2, <2>3
<1> QED
  BY <1>3, <1>4, <1>6, <1>7

\* The return reads the number the thread itself issued.
LEMMA ReturnNextStep ==
    ASSUME SeqInv, NEW t \in Threads, ReturnNext(t), Sequence(t)
    PROVE  SeqInv'
<1> USE DEF SeqInv, Goto, Unlock, ReturnNext, Sequence
<1>1. TypeOK'
  BY DEF TypeOK, Statements
<1>2. LockHeld'
  BY FreeAssumption DEF TypeOK, LockHeld, UnderLock
<1>3. JustIssued' /\ Placed'
  BY DEF TypeOK, JustIssued, Placed
<1>4. OwnNumber'
  BY DEF TypeOK, JustIssued, OwnNumber
<1> QED
  BY <1>1, <1>2, <1>3, <1>4

LEMMA SeqNext == SeqInv /\ [Next]_vars => SeqInv'
<1> SUFFICES ASSUME SeqInv, [Next]_vars PROVE SeqInv'
  OBVIOUS
<1>1. CASE UNCHANGED vars
  BY <1>1 DEF SeqInv, TypeOK, LockHeld, JustIssued, Placed, OwnNumber, vars, sequencerVars,
              senderVars
<1>2. ASSUME NEW t \in Threads, Sequence(t) PROVE SeqInv'
  BY <1>2, QuietStep, IncrementStep, ReturnNextStep DEF Sequence, InSequencer
<1>3. ASSUME NEW t \in Threads,
             (\E size \in FrameSizes : Packetize(t, size)) \/ AskRollOvers(t) \/ Finish(t)
      PROVE  SeqInv'
  BY <1>3, QuietStep
<1> QED
  BY <1>1, <1>2, <1>3 DEF Next, Working

\* The fields keep their widths, and every thread is at a statement of the code.
THEOREM TypeCorrect == Spec => []TypeOK
<1>1. SeqInv => TypeOK
  BY DEF SeqInv
<1> QED
  BY <1>1, SeqInit, SeqNext, PTL DEF Spec

\* The lock_guards exclude one another, and every call returns the number it took.
THEOREM SequencerCorrect == Spec => [](LockHeld /\ OwnNumber)
<1>1. SeqInv => LockHeld /\ OwnNumber
  BY DEF SeqInv
<1> QED
  BY <1>1, SeqInit, SeqNext, PTL DEF Spec

-----------------------------------------------------------------------------
(* The sequencer implements the atomic counter.                            *)

\* A number below the modulus is the remainder of the counter it belongs to,
\* and the successor of the largest one opens the next turn.
LEMMA Turns ==
    ASSUME NEW m \in Nat \ {0}, NEW q \in Nat, NEW s \in 0..(m - 1)
    PROVE  /\ q * m + s \in Nat
           /\ (q * m + s) % m = s
           /\ (q + 1) * m + 0 = q * m + (m - 1) + 1
           /\ (s + 1) % m = IF s = m - 1 THEN 0 ELSE s + 1
<1>1. (q * m + s) % m = s
  OBVIOUS
<1>2. (q + 1) * m + 0 = q * m + (m - 1) + 1
  OBVIOUS
<1>3. (s + 1) % m = IF s = m - 1 THEN 0 ELSE s + 1
  OBVIOUS
<1>4. q * m + s \in Nat
  OBVIOUS
<1> QED
  BY <1>1, <1>2, <1>3, <1>4

LEMMA CounterInit == Init => Counter!Init
<1> SUFFICES ASSUME Init PROVE Counter!Init
  OBVIOUS
<1>1. sequence_number \in 0..(SeqModulus - 1)
  BY SeqInit DEF SeqInv, TypeOK
<1>2. Index = 0 * SeqModulus + sequence_number
  BY <1>1 DEF Init, SequencerInit, Index, Uncounted
<1>3. Index = sequence_number
  BY <1>1, <1>2, ModulusAssumption
<1>4. issued = <<>>
  BY DEF Init, SequencerInit
<1> QED
  BY <1>1, <1>3, <1>4, ModulusAssumption DEF Counter!Init

\* The linearization point is the increment.
LEMMA CounterTake ==
    ASSUME SeqInv, NEW t \in Threads, Increment(t)
    PROVE  Counter!Take
<1> USE DEF SeqInv
<1>1. /\ sequence_number \in 0..(SeqModulus - 1) /\ roll_over_count \in Nat
      /\ SeqModulus \in Nat \ {0} /\ roll_over_count' = roll_over_count
      /\ sequence_number' = (sequence_number + 1) % SeqModulus
      /\ issued' = Append(issued, sequence_number')
  BY ModulusAssumption DEF TypeOK, Increment, Successor
<1>2. Index = roll_over_count * SeqModulus + sequence_number
  <2>1. \A u \in Threads : pc[u] # "roll_over"
    BY DEF LockHeld, UnderLock, Increment
  <2> QED
    BY <1>1, <2>1 DEF Index, Uncounted
<1>3. Index' = (roll_over_count + IF sequence_number' = 0 THEN 1 ELSE 0) * SeqModulus
               + sequence_number'
  <2>1. pc'[t] = "roll_over"
    BY DEF TypeOK, Increment, Goto
  <2> QED
    BY <1>1, <2>1 DEF Index, Uncounted
<1>4. Index' = Index + 1 /\ Index' % SeqModulus = sequence_number'
  <2>1. CASE sequence_number = SeqModulus - 1
    <3>1. sequence_number' = 0
      BY <1>1, <2>1, Turns
    <3>2. Index' = (roll_over_count + 1) * SeqModulus + 0
      BY <1>3, <3>1
    <3>3. (roll_over_count + 1) * SeqModulus + 0 = Index + 1
      BY <1>1, <1>2, <2>1, Turns
    <3>4. ((roll_over_count + 1) * SeqModulus + 0) % SeqModulus = 0
      <4>1. roll_over_count + 1 \in Nat /\ 0 \in 0..(SeqModulus - 1)
        BY <1>1
      <4> QED
        BY <1>1, <4>1, Turns
    <3> QED
      BY <3>1, <3>2, <3>3, <3>4
  <2>2. CASE sequence_number # SeqModulus - 1
    <3>1. sequence_number' = sequence_number + 1 /\ sequence_number' \in 0..(SeqModulus - 1)
          /\ sequence_number' # 0
      BY <1>1, <2>2, Turns
    <3>2. Index' = roll_over_count * SeqModulus + sequence_number'
      BY <1>1, <1>3, <3>1
    <3>3. Index' % SeqModulus = sequence_number'
      BY <1>1, <3>1, <3>2, Turns
    <3>4. roll_over_count * SeqModulus \in Nat
      BY <1>1
    <3> QED
      BY <1>1, <1>2, <3>1, <3>2, <3>3, <3>4
  <2> QED
    BY <2>1, <2>2
<1> QED
  BY <1>1, <1>4 DEF Counter!Take

\* Counting a roll-over moves it from the one place of the counter to the other.
LEMMA CounterCount ==
    ASSUME SeqInv, NEW t \in Threads, CountRollOver(t)
    PROVE  UNCHANGED <<Index, issued>>
<1> USE DEF SeqInv
<1>1. Uncounted <=> sequence_number = 0
  BY DEF Uncounted, CountRollOver
<1>2. ~Uncounted'
  <2>1. \A u \in Threads : pc'[u] # "roll_over"
    BY DEF TypeOK, LockHeld, UnderLock, CountRollOver, Goto
  <2> QED
    BY <2>1 DEF Uncounted
<1>3. /\ roll_over_count' = roll_over_count + (IF sequence_number = 0 THEN 1 ELSE 0)
      /\ sequence_number' = sequence_number /\ issued' = issued /\ roll_over_count \in Nat
  BY DEF TypeOK, CountRollOver, RolledOver
<1> QED
  BY <1>1, <1>2, <1>3 DEF Index

\* Every other step leaves the counter alone.
LEMMA CounterStutter ==
    ASSUME SeqInv, NEW t \in Threads, NEW label, pc' = [pc EXCEPT ![t] = label],
           pc[t] # "roll_over", label # "roll_over",
           UNCHANGED <<sequence_number, roll_over_count, issued>>
    PROVE  UNCHANGED <<Index, issued>>
<1>1. \A u \in Threads : pc'[u] = "roll_over" <=> pc[u] = "roll_over"
  BY DEF SeqInv, TypeOK
<1> QED
  BY <1>1 DEF Index, Uncounted

LEMMA CounterNext == SeqInv /\ [Next]_vars => [Counter!Take]_<<Index, issued>>
<1> SUFFICES ASSUME SeqInv, [Next]_vars PROVE [Counter!Take]_<<Index, issued>>
  OBVIOUS
<1>1. CASE UNCHANGED vars
  BY <1>1 DEF vars, sequencerVars, Index, Uncounted
<1>2. ASSUME NEW t \in Threads, InSequencer(t) PROVE [Counter!Take]_<<Index, issued>>
  <2> USE DEF Goto
  <2>1. CASE Increment(t)
    BY <2>1, CounterTake
  <2>2. CASE CountRollOver(t)
    BY <2>2, CounterCount
  <2>3. CASE LockNext(t)
    BY <2>3, CounterStutter DEF LockNext
  <2>4. CASE ReturnNext(t)
    BY <2>4, CounterStutter DEF ReturnNext
  <2>5. CASE LockCount(t)
    BY <2>5, CounterStutter DEF LockCount
  <2>6. CASE ReturnCount(t)
    BY <2>6, CounterStutter DEF ReturnCount
  <2> QED
    BY <1>2, <2>1, <2>2, <2>3, <2>4, <2>5, <2>6 DEF InSequencer
<1>3. ASSUME NEW t \in Threads, NEW size \in FrameSizes, Packetize(t, size)
      PROVE  [Counter!Take]_<<Index, issued>>
  BY <1>3, CounterStutter DEF Packetize, CallNext, Goto
<1>4. ASSUME NEW t \in Threads, AskRollOvers(t) PROVE [Counter!Take]_<<Index, issued>>
  BY <1>4, CounterStutter DEF AskRollOvers, CallRollOverCount, Goto
<1>5. ASSUME NEW t \in Threads, Finish(t) PROVE [Counter!Take]_<<Index, issued>>
  BY <1>5, CounterStutter DEF Finish, Goto
<1> QED
  BY <1>1, <1>2, <1>3, <1>4, <1>5 DEF Next, Working, Sequence

\* Seen from its callers, on any number of threads, the sequencer is a counter
\* that is read and advanced in one step and never wraps.
THEOREM CounterRefined == Spec => CounterSpec
<1>1. Init => Counter!Init
  BY CounterInit
<1>2. SeqInv /\ [Next]_vars => [Counter!Take]_<<Index, issued>>
  BY CounterNext
<1> QED
  BY <1>1, <1>2, SeqInit, SeqNext, PTL DEF Spec, Counter!Spec, CounterSpec

-----------------------------------------------------------------------------
(* Every number issued is accounted for.                                   *)

\* The thread has a number whose packet is neither handed over nor refused.
Holding(t) ==
    pc[t] \in {"roll_over", "return_next", "has_number", "lock_count", "return_count", "has_count"}

(***************************************************************************)
(* Accounted is not inductive: a thread that finishes must not leave the   *)
(* place of its number to nobody, so no two threads may hold the same one, *)
(* and none may hold one that is settled already.                          *)
(***************************************************************************)
HeldInv ==
    /\ packets \cap failed = {}
    /\ \A t \in Threads : Holding(t) => place[t] \in (1..Len(issued)) \ (packets \cup failed)
    /\ \A t, u \in Threads : Holding(t) /\ Holding(u) /\ place[t] = place[u] => t = u
    /\ \A i \in 1..Len(issued) :
          i \in packets \cup failed \/ \E t \in Threads : Holding(t) /\ place[t] = i

LEMMA HeldInit == Init => HeldInv
<1> SUFFICES ASSUME Init PROVE HeldInv
  OBVIOUS
<1>1. Len(issued) = 0
  BY EmptySeq DEF Init, SequencerInit
<1> QED
  BY <1>1 DEF Init, SequencerInit, HeldInv, Holding

\* A step that moves no thread into or out of Holding and settles nothing.
LEMMA HeldQuiet ==
    ASSUME SeqInv, HeldInv, NEW t \in Threads, NEW label, pc' = [pc EXCEPT ![t] = label],
           Holding(t)' <=> Holding(t), UNCHANGED <<issued, place, packets, failed>>
    PROVE  HeldInv'
<1>1. \A u \in Threads : Holding(u)' <=> Holding(u)
  BY DEF SeqInv, TypeOK, Holding
<1> QED
  BY <1>1 DEF HeldInv

\* The increment issues a new place, which the thread then holds.
LEMMA HeldIncrement ==
    ASSUME SeqInv, HeldInv, NEW t \in Threads, Increment(t), Sequence(t)
    PROVE  HeldInv'
<1> DEFINE n == Len(issued)
<1>1. n \in Nat /\ Len(issued') = n + 1 /\ issued' # issued
  BY SuccessorType, AppendProperties, LenProperties DEF SeqInv, TypeOK, Increment
<1>2. place' = [place EXCEPT ![t] = n + 1] /\ UNCHANGED <<packets, failed>>
  BY <1>1 DEF Sequence
<1>3. ~Holding(t) /\ Holding(t)' /\ \A u \in Threads : u # t => (Holding(u)' <=> Holding(u))
  BY DEF SeqInv, TypeOK, Increment, Goto, Holding
<1>4. place'[t] = n + 1 /\ \A u \in Threads : u # t => place'[u] = place[u]
  BY <1>2 DEF SeqInv, TypeOK
<1>5. packets \subseteq 1..n /\ failed \subseteq 1..n
  BY DEF SeqInv, TypeOK
<1>6. \A u \in Threads : Holding(u) => place[u] \in (1..n) \ (packets \cup failed)
  BY DEF HeldInv
<1> HIDE DEF n
<1>7. packets' \cap failed' = {}
  BY <1>2 DEF HeldInv
<1>8. \A u \in Threads : Holding(u)' => place'[u] \in (1..(n + 1)) \ (packets' \cup failed')
  BY <1>1, <1>2, <1>3, <1>4, <1>5, <1>6
<1>9. \A u, v \in Threads : Holding(u)' /\ Holding(v)' /\ place'[u] = place'[v] => u = v
  BY <1>1, <1>3, <1>4, <1>6 DEF HeldInv
<1>10. ASSUME NEW i \in 1..(n + 1)
       PROVE  i \in packets' \cup failed' \/ \E u \in Threads : Holding(u)' /\ place'[u] = i
  <2>1. CASE i = n + 1
    BY <2>1, <1>3, <1>4
  <2>2. CASE i # n + 1
    <3>1. i \in 1..n
      BY <2>2, <1>1
    <3>2. i \in packets \cup failed \/ \E u \in Threads : Holding(u) /\ place[u] = i
      BY <3>1 DEF HeldInv, n
    <3> QED
      BY <3>2, <1>2, <1>3, <1>4
  <2> QED
    BY <2>1, <2>2
<1> QED
  BY <1>1, <1>7, <1>8, <1>9, <1>10 DEF HeldInv

\* The end of a call settles the place it held, one way or the other.
LEMMA HeldFinish ==
    ASSUME SeqInv, HeldInv, NEW t \in Threads, Finish(t)
    PROVE  HeldInv'
<1>1. Holding(t) /\ ~Holding(t)' /\ \A u \in Threads : u # t => (Holding(u)' <=> Holding(u))
  BY DEF SeqInv, TypeOK, Finish, Goto, Holding
<1>2. UNCHANGED <<issued, place>>
  BY DEF Finish
<1>3. /\ packets' \cup failed' = (packets \cup failed) \cup {place[t]}
      /\ \/ packets' = packets \cup {place[t]} /\ failed' = failed
         \/ packets' = packets /\ failed' = failed \cup {place[t]}
  BY DEF Finish, HandsOver
<1>4. place[t] \notin packets \cup failed
  BY <1>1 DEF HeldInv
<1>5. packets' \cap failed' = {}
  BY <1>3, <1>4 DEF HeldInv
<1>6. \A u \in Threads : Holding(u)' => place'[u] \in (1..Len(issued')) \ (packets' \cup failed')
  BY <1>1, <1>2, <1>3 DEF HeldInv
<1>7. \A u, v \in Threads : Holding(u)' /\ Holding(v)' /\ place'[u] = place'[v] => u = v
  BY <1>1, <1>2 DEF HeldInv
<1>8. \A i \in 1..Len(issued') :
         i \in packets' \cup failed' \/ \E u \in Threads : Holding(u)' /\ place'[u] = i
  BY <1>1, <1>2, <1>3 DEF HeldInv
<1> QED
  BY <1>5, <1>6, <1>7, <1>8 DEF HeldInv

LEMMA HeldNext == SeqInv /\ HeldInv /\ [Next]_vars => HeldInv'
<1> SUFFICES ASSUME SeqInv, HeldInv, [Next]_vars PROVE HeldInv'
  OBVIOUS
<1> USE DEF Goto
<1>1. CASE UNCHANGED vars
  BY <1>1 DEF HeldInv, Holding, vars, sequencerVars, senderVars
<1>2. ASSUME NEW t \in Threads, NEW label, Sequence(t), pc' = [pc EXCEPT ![t] = label],
             Holding(t)' <=> Holding(t), issued' = issued
      PROVE  HeldInv'
  BY <1>2, HeldQuiet DEF Sequence
<1>3. ASSUME NEW t \in Threads, Sequence(t) PROVE HeldInv'
  <2> USE <1>3
  <2>1. pc \in [Threads -> Statements]
    BY DEF SeqInv, TypeOK
  <2>2. CASE LockNext(t)
    BY <2>1, <2>2, <1>2 DEF LockNext, Holding
  <2>3. CASE Increment(t)
    BY <2>3, HeldIncrement
  <2>4. CASE CountRollOver(t)
    BY <2>1, <2>4, <1>2 DEF CountRollOver, Holding
  <2>5. CASE ReturnNext(t)
    BY <2>1, <2>5, <1>2 DEF ReturnNext, Holding
  <2>6. CASE LockCount(t)
    BY <2>1, <2>6, <1>2 DEF LockCount, Holding
  <2>7. CASE ReturnCount(t)
    BY <2>1, <2>7, <1>2 DEF ReturnCount, Holding
  <2> QED
    BY <2>2, <2>3, <2>4, <2>5, <2>6, <2>7 DEF Sequence, InSequencer
<1>4. ASSUME NEW t \in Threads, NEW size \in FrameSizes, Packetize(t, size) PROVE HeldInv'
  <2>1. ~Holding(t) /\ ~Holding(t)'
    BY <1>4 DEF SeqInv, TypeOK, Packetize, CallNext, Holding
  <2> QED
    BY <1>4, <2>1, HeldQuiet DEF Packetize, CallNext
<1>5. ASSUME NEW t \in Threads, AskRollOvers(t) PROVE HeldInv'
  <2>1. Holding(t) /\ Holding(t)'
    BY <1>5 DEF SeqInv, TypeOK, AskRollOvers, CallRollOverCount, Holding
  <2> QED
    BY <1>5, <2>1, HeldQuiet DEF AskRollOvers, CallRollOverCount, senderVars
<1>6. ASSUME NEW t \in Threads, Finish(t) PROVE HeldInv'
  BY <1>6, HeldFinish
<1> QED
  BY <1>1, <1>3, <1>4, <1>5, <1>6 DEF Next, Working

\* Whatever the threads do, every number is in a packet, was spent on a call
\* that returned false, or is in the hands of a thread; none is both of the first.
THEOREM AllAccounted == Spec => []Accounted
<1>1. HeldInv => Accounted
  <2>1. \A t \in Threads : Holding(t) => pc[t] # "outside"
    BY DEF Holding
  <2> QED
    BY <2>1 DEF HeldInv, Accounted
<1> QED
  BY <1>1, SeqInit, SeqNext, HeldInit, HeldNext, PTL DEF Spec

-----------------------------------------------------------------------------
(* The roll-over count a call returns.                                     *)

\* Where the counter stands, from the first number and how many were issued.
IndexInv ==
    /\ issued = <<>> => Index \in 0..(SeqModulus - 1)
    /\ issued # <<>> =>
          /\ First \in 0..(SeqModulus - 1)
          /\ Index = First + Len(issued) - 1 + (IF First = 0 THEN SeqModulus ELSE 0)

LEMMA IndexInit == Init => IndexInv
<1>1. Init => issued = <<>>
  BY DEF Init, SequencerInit
<1>2. Counter!Init => Index \in 0..(SeqModulus - 1)
  BY ModulusAssumption DEF Counter!Init
<1> QED
  BY <1>1, <1>2, CounterInit DEF IndexInv

\* It follows from what the sequencer implements: each step takes or stutters.
LEMMA IndexNext ==
    ASSUME issued \in Seq(0..(SeqModulus - 1)), IndexInv, [Counter!Take]_<<Index, issued>>
    PROVE  IndexInv'
<1> DEFINE new == Index' % SeqModulus
           n == Len(issued)
<1> USE ModulusAssumption
<1>1. CASE UNCHANGED <<Index, issued>>
  BY <1>1 DEF IndexInv, First
<1>2. CASE Counter!Take
  <2>1. Index' = Index + 1 /\ issued' = Append(issued, new) /\ n \in Nat
    BY <1>2, LenProperties DEF Counter!Take
  <2>2. Index \in Int
    BY <2>1 DEF IndexInv
  <2>3. new \in 0..(SeqModulus - 1)
    BY <2>1, <2>2
  <2>4. issued' # <<>> /\ Len(issued') = n + 1 /\ (n > 0 => issued'[1] = issued[1])
        /\ issued'[n + 1] = new
    <3> HIDE DEF new
    <3> QED
      BY <2>1, <2>3, AppendProperties, EmptySeq
  <2>5. CASE issued = <<>>
    <3>1. n = 0 /\ First' = new /\ Index \in 0..(SeqModulus - 1)
      BY <2>4, <2>5, EmptySeq DEF IndexInv, First
    <3>2. CASE Index = SeqModulus - 1
      <4>1. new = 0 /\ Index' = SeqModulus
        BY <2>1, <3>2
      <4> HIDE DEF new, n
      <4> QED
        BY <2>3, <2>4, <3>1, <4>1 DEF IndexInv
    <3>3. CASE Index # SeqModulus - 1
      <4>1. new = Index + 1 /\ Index + 1 # 0
        BY <2>1, <3>1, <3>3
      <4> HIDE DEF new, n
      <4> QED
        BY <2>1, <2>3, <2>4, <3>1, <4>1 DEF IndexInv
    <3> QED
      BY <3>2, <3>3
  <2>6. CASE issued # <<>>
    <3>1. n > 0
      BY <2>1, <2>6, EmptySeq
    <3>2. First' = First
      BY <2>4, <2>6, <3>1 DEF First
    <3>3. First \in 0..(SeqModulus - 1)
          /\ Index = First + n - 1 + (IF First = 0 THEN SeqModulus ELSE 0)
      BY <2>6 DEF IndexInv
    <3> HIDE DEF n, new
    <3> QED
      BY <2>1, <2>4, <3>2, <3>3 DEF IndexInv
  <2> QED
    BY <2>5, <2>6
<1> QED
  BY <1>1, <1>2

LEMMA Quotient ==
    ASSUME NEW m \in Nat \ {0}, NEW q \in Nat, NEW s \in 0..(m - 1)
    PROVE  (q * m + s) \div m = q
OBVIOUS

LEMMA QuotientStep ==
    ASSUME NEW m \in Nat \ {0}, NEW a \in Nat
    PROVE  (a + m) \div m = a \div m + 1
<1> DEFINE q == a \div m
           r == a % m
<1>1. q \in Nat /\ r \in 0..(m - 1) /\ a = q * m + r
  OBVIOUS
<1>2. a + m = (q + 1) * m + r
  <2>1. (q + 1) * m = q * m + m
    BY <1>1
  <2> HIDE DEF q, r
  <2> QED
    BY <1>1, <2>1
<1>3. ((q + 1) * m + r) \div m = q + 1
  <2>1. q + 1 \in Nat
    BY <1>1
  <2> HIDE DEF q, r
  <2> QED
    BY <1>1, <2>1, Quotient
<1> QED
  <2> HIDE DEF r
  <2> QED
    BY <1>2, <1>3

LEMMA QuotientMonotone ==
    ASSUME NEW m \in Nat \ {0}, NEW a \in Nat, NEW b \in Nat, a <= b
    PROVE  a \div m \in Nat /\ a \div m <= b \div m
OBVIOUS

\* With nobody between the increment and the count, the field is the true count.
LEMMA CountIsTrue ==
    ASSUME TypeOK, IndexInv, issued # <<>>, ~Uncounted
    PROVE  TrueRollOvers(Len(issued)) = roll_over_count
<1> USE ModulusAssumption
<1> DEFINE n == Len(issued)
<1>1. n \in Nat \ {0} /\ First \in 0..(SeqModulus - 1)
  BY LenProperties, EmptySeq DEF TypeOK, IndexInv
<1>2. Index = roll_over_count * SeqModulus + sequence_number
      /\ roll_over_count \in Nat /\ sequence_number \in 0..(SeqModulus - 1)
  BY DEF Index, TypeOK
<1>3. Index \div SeqModulus = roll_over_count
  BY <1>2, Quotient
<1>4. Index = First + n - 1 + (IF First = 0 THEN SeqModulus ELSE 0)
  BY DEF IndexInv
<1> HIDE DEF n
<1>5. CASE First = 0
  <2>1. Index = n - 1 + SeqModulus /\ n - 1 \in Nat
    BY <1>1, <1>4, <1>5
  <2>2. (n - 1 + SeqModulus) \div SeqModulus = (n - 1) \div SeqModulus + 1
    <3> DEFINE a == n - 1
    <3>1. SeqModulus \in Nat \ {0} /\ a \in Nat
      BY <2>1
    <3>2. (a + SeqModulus) \div SeqModulus = a \div SeqModulus + 1
      <4> HIDE DEF a
      <4> QED
        BY <3>1, QuotientStep
    <3> QED
      BY <3>2
  <2> QED
    BY <1>1, <1>3, <1>5, <2>1, <2>2 DEF TrueRollOvers, n
<1>6. CASE First # 0
  <2>1. Index = First + n - 1 /\ Index \in Nat
    BY <1>1, <1>4, <1>6
  <2> QED
    BY <1>3, <1>6, <2>1 DEF TrueRollOvers, n
<1> QED
  BY <1>5, <1>6

LEMMA TrueMonotone ==
    ASSUME NEW i \in Nat \ {0}, NEW j \in Nat, i <= j, First \in Nat
    PROVE  TrueRollOvers(i) <= TrueRollOvers(j)
<1>1. /\ (First + i - 1) \div SeqModulus \in Nat /\ (First + j - 1) \div SeqModulus \in Nat
      /\ (First + i - 1) \div SeqModulus <= (First + j - 1) \div SeqModulus
  <2>1. First + i - 1 \in Nat /\ First + j - 1 \in Nat /\ First + i - 1 <= First + j - 1
    OBVIOUS
  <2> QED
    BY <2>1, QuotientMonotone, ModulusAssumption
<1> QED
  BY <1>1 DEF TrueRollOvers

CountInv == SeqInv /\ IndexInv /\ IndexRight

\* A step that issues nothing and hands no count to anybody.
LEMMA CountQuiet ==
    ASSUME IndexRight, UNCHANGED <<issued, roll_overs, place>>,
           \A u \in Threads : pc'[u] = "has_count" => pc[u] = "has_count"
    PROVE  IndexRight'
BY DEF IndexRight, TrueRollOvers, First

\* The increment leaves every count behind that was taken before it.
LEMMA CountIncrement ==
    ASSUME CountInv, NEW t \in Threads, Increment(t), Sequence(t)
    PROVE  IndexRight'
<1> SUFFICES ASSUME NEW u \in Threads, pc'[u] = "has_count"
             PROVE  /\ roll_overs'[u] >= TrueRollOvers(place[u])'
                    /\ place'[u] = Len(issued') => roll_overs'[u] = TrueRollOvers(place[u])'
  BY DEF IndexRight
<1> DEFINE n == Len(issued)
<1>1. /\ n \in Nat /\ Len(issued') = n + 1 /\ issued' # <<>>
      /\ \A i \in 1..n : issued'[i] = issued[i]
  <2> DEFINE new == sequence_number'
  <2>1. issued \in Seq(0..(SeqModulus - 1)) /\ new \in 0..(SeqModulus - 1)
        /\ issued' = Append(issued, new)
    BY SuccessorType DEF CountInv, SeqInv, TypeOK, Increment
  <2> HIDE DEF new
  <2> QED
    BY <2>1, AppendProperties, LenProperties, EmptySeq
<1>2. u # t /\ pc[u] = "has_count" /\ place'[u] = place[u] /\ roll_overs'[u] = roll_overs[u]
  BY DEF CountInv, SeqInv, TypeOK, Increment, Goto, Sequence
<1>3. place[u] \in 1..n
  BY <1>1, <1>2 DEF CountInv, SeqInv, TypeOK, Placed
<1>4. First' = First
  <2>1. n > 0 /\ issued # <<>>
    BY <1>1, <1>3, EmptySeq
  <2> QED
    BY <1>1, <2>1 DEF First
<1>5. TrueRollOvers(place[u])' = TrueRollOvers(place[u])
  BY <1>2, <1>4 DEF TrueRollOvers
<1> QED
  BY <1>1, <1>2, <1>3, <1>5 DEF CountInv, IndexRight

\* The count is read under the lock, where the field is the true count.
LEMMA CountReturn ==
    ASSUME CountInv, NEW t \in Threads, ReturnCount(t), Sequence(t)
    PROVE  IndexRight'
<1>1. /\ issued' = issued /\ place' = place
      /\ pc' = [pc EXCEPT ![t] = "has_count"]
      /\ roll_overs' = [roll_overs EXCEPT ![t] = roll_over_count]
  BY DEF ReturnCount, Sequence, Goto
<1>2. ~Uncounted
  BY DEF CountInv, SeqInv, LockHeld, UnderLock, ReturnCount, Uncounted
<1>3. place[t] \in 1..Len(issued) /\ Len(issued) \in Nat
  BY LenProperties DEF CountInv, SeqInv, TypeOK, Placed, ReturnCount
<1>4. issued # <<>>
  BY <1>3, EmptySeq
<1>5. TrueRollOvers(Len(issued)) = roll_over_count
  BY <1>2, <1>4, CountIsTrue DEF CountInv, SeqInv
<1>6. TrueRollOvers(place[t]) <= TrueRollOvers(Len(issued))
  <2>1. First \in Nat
    BY <1>4, ModulusAssumption DEF CountInv, IndexInv
  <2> QED
    BY <1>3, <2>1, TrueMonotone
<1>7. \A i : TrueRollOvers(i)' = TrueRollOvers(i)
  BY <1>1 DEF TrueRollOvers, First
<1>8. roll_overs'[t] = roll_over_count /\ roll_over_count \in Nat
  BY <1>1 DEF CountInv, SeqInv, TypeOK
<1>9. \A u \in Threads : u # t => pc'[u] = pc[u] /\ roll_overs'[u] = roll_overs[u]
  BY <1>1 DEF CountInv, SeqInv, TypeOK
<1> QED
  BY <1>1, <1>5, <1>6, <1>7, <1>8, <1>9 DEF CountInv, IndexRight

LEMMA CountInvNext == CountInv /\ [Next]_vars => CountInv'
<1> SUFFICES ASSUME CountInv, [Next]_vars PROVE IndexRight'
  BY SeqNext, CounterNext, IndexNext DEF CountInv, SeqInv, TypeOK
<1> USE DEF Goto
<1>1. pc \in [Threads -> Statements]
  BY DEF CountInv, SeqInv, TypeOK
<1>2. IndexRight
  BY DEF CountInv
<1>3. CASE UNCHANGED vars
  BY <1>2, <1>3, CountQuiet DEF vars, sequencerVars, senderVars
<1>4. ASSUME NEW t \in Threads, Sequence(t) PROVE IndexRight'
  <2> USE <1>4
  <2>1. CASE Increment(t)
    BY <2>1, CountIncrement
  <2>2. CASE ReturnCount(t)
    BY <2>2, CountReturn
  <2>3. CASE LockNext(t)
    BY <1>1, <1>2, <2>3, CountQuiet DEF LockNext, Sequence
  <2>4. CASE CountRollOver(t)
    BY <1>1, <1>2, <2>4, CountQuiet DEF CountRollOver, Sequence
  <2>5. CASE ReturnNext(t)
    BY <1>1, <1>2, <2>5, CountQuiet DEF ReturnNext, Sequence
  <2>6. CASE LockCount(t)
    BY <1>1, <1>2, <2>6, CountQuiet DEF LockCount, Sequence
  <2> QED
    BY <2>1, <2>2, <2>3, <2>4, <2>5, <2>6 DEF Sequence, InSequencer
<1>5. ASSUME NEW t \in Threads, NEW size \in FrameSizes, Packetize(t, size) PROVE IndexRight'
  BY <1>1, <1>2, <1>5, CountQuiet DEF Packetize, CallNext
<1>6. ASSUME NEW t \in Threads, AskRollOvers(t) PROVE IndexRight'
  BY <1>1, <1>2, <1>6, CountQuiet DEF AskRollOvers, CallRollOverCount, senderVars
<1>7. ASSUME NEW t \in Threads, Finish(t) PROVE IndexRight'
  BY <1>1, <1>2, <1>7, CountQuiet DEF Finish
<1> QED
  BY <1>3, <1>4, <1>5, <1>6, <1>7 DEF Next, Working

\* For any number of threads and any width, a roll-over count asked for after a
\* number is never behind it, and exact while no other number was taken.
THEOREM RollOversRight == Spec => []IndexRight
<1>1. Init => CountInv
  BY SeqInit, IndexInit DEF Init, SequencerInit, CountInv, IndexRight
<1>2. CountInv => IndexRight
  BY DEF CountInv
<1> QED
  BY <1>1, <1>2, CountInvNext, PTL DEF Spec
=============================================================================
