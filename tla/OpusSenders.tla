----------------------------- MODULE OpusSenders -----------------------------
(***************************************************************************)
(* Opus packetizers (packetizer/opus_packetizer.{h,cc}), one per thread,   *)
(* that SetSequencer made share a sequencer, as the streams of one SSRC    *)
(* do.  Packetize takes its sequence number before it looks at the size of *)
(* the frame.  A sender that also feeds an SRTP index asks for the         *)
(* roll-over count of the number it got.                                   *)
(***************************************************************************)
EXTENDS Sequencer

CONSTANTS
    FrameSizes,   \* sizes of the frames the application passes
    Mtu,          \* mtu_: the largest RTP packet, header included
    MaxCalls      \* bound: calls of Packetize by all threads

ASSUME SizesAssumption == FrameSizes \subseteq Nat /\ Mtu \in Nat /\ MaxCalls \in Nat

kRTPHeaderSize == 12

VARIABLES
    frame,     \* per thread: the size of the frame being packetized
    calls,     \* calls of Packetize so far
    place,     \* history, per thread: the place of its number in issued
    packets,   \* places in issued whose packet was handed over
    failed     \* places in issued whose call returned false

senderVars == <<frame, calls, place, packets, failed>>
vars == <<sequencerVars, senderVars>>

Init ==
    /\ SequencerInit
    /\ frame = [t \in Threads |-> 0]
    /\ calls = 0
    /\ place = [t \in Threads |-> 0]
    /\ packets = {} /\ failed = {}

\* Empty frames are refused before anything happens and are left out.
Packetize(t, size) ==
    /\ calls < MaxCalls
    /\ size > 0
    /\ CallNext(t)
    /\ frame' = [frame EXCEPT ![t] = size]
    /\ calls' = calls + 1
    /\ UNCHANGED <<place, packets, failed>>

\* place is a history variable: the statement that issues the number sets it.
Sequence(t) ==
    /\ InSequencer(t)
    /\ place' = IF issued' = issued THEN place ELSE [place EXCEPT ![t] = Len(issued')]
    /\ UNCHANGED <<frame, calls, packets, failed>>

AskRollOvers(t) == CallRollOverCount(t) /\ UNCHANGED senderVars

ExceedsMtu(t) == kRTPHeaderSize + frame[t] > Mtu

\* Mutant: the packet is handed over before its size is checked.
HandsOverFirst(t) == TRUE
HandsOver(t) == ~ExceedsMtu(t)

Finish(t) ==
    /\ pc[t] \in {"has_number", "has_count"}
    /\ packets' = IF HandsOver(t) THEN packets \cup {place[t]} ELSE packets
    /\ failed' = IF ExceedsMtu(t) THEN failed \cup {place[t]} ELSE failed
    /\ Goto(t, "outside")
    /\ UNCHANGED <<kind, sequence_number, roll_over_count, mutex, number, roll_overs, issued>>
    /\ UNCHANGED <<frame, calls, place>>

Working(t) == Sequence(t) \/ AskRollOvers(t) \/ Finish(t)

Next ==
    \E t \in Threads :
        \/ \E size \in FrameSizes : Packetize(t, size)
        \/ Working(t)

Spec == Init /\ [][Next]_vars

(***************************************************************************)
(* A call runs to its end on its thread.  std::mutex promises no order     *)
(* among waiters: a thread is only sure of the lock once the others stop,  *)
(* which they do, MaxCalls being finite.                                   *)
(***************************************************************************)
LiveSpec == Spec /\ \A t \in Threads : WF_vars(Working(t))

-----------------------------------------------------------------------------
(* Properties.                                                             *)

Statements ==
    {"outside", "lock_next", "increment", "roll_over", "return_next", "has_number",
     "lock_count", "return_count", "has_count"}
UnderLock == {"increment", "roll_over", "return_next", "return_count"}

\* The fields have their widths and every thread is at a statement.
TypeOK ==
    /\ kind \in {"random", "fixed"}
    /\ sequence_number \in 0..(SeqModulus - 1)
    /\ roll_over_count \in Nat
    /\ mutex \in Threads \cup {Free}
    /\ pc \in [Threads -> Statements]
    /\ number \in [Threads -> 0..(SeqModulus - 1)]
    /\ roll_overs \in [Threads -> Nat]
    /\ issued \in Seq(0..(SeqModulus - 1))
    /\ frame \in [Threads -> Nat]
    /\ calls \in Nat
    /\ place \in [Threads -> 0..Len(issued)]
    /\ packets \subseteq 1..Len(issued)
    /\ failed \subseteq 1..Len(issued)

\* A thread between lock and unlock is the one that holds the mutex.
LockHeld == \A t \in Threads : pc[t] \in UnderLock <=> mutex = t

(***************************************************************************)
(* The counter the two fields stand for.  Between the increment and the    *)
(* count the roll-over is still missing from roll_over_count_.             *)
(***************************************************************************)
Uncounted == sequence_number = 0 /\ \E t \in Threads : pc[t] = "roll_over"
Index ==
    (roll_over_count + IF Uncounted THEN 1 ELSE 0) * SeqModulus + sequence_number

\* The sequencer, called from any number of threads, is an atomic counter.
Counter == INSTANCE IndexCounter WITH index <- Index
CounterSpec == Counter!Spec

\* The number a call returns is the one it took: no other call's number
\* reached it between the increment and the return (rtp_packet.cc:499-506).
OwnNumber ==
    \A t \in Threads :
        pc[t] \in {"has_number", "lock_count", "return_count", "has_count"} =>
            number[t] = issued[place[t]]

(***************************************************************************)
(* No packet number is used twice, and the receiver sees a gap exactly for *)
(* each call that returned false: every number issued is in a packet, in a *)
(* failed call, or in the hands of a thread.                               *)
(***************************************************************************)
Accounted ==
    /\ packets \cap failed = {}
    /\ \A i \in 1..Len(issued) :
          i \in packets \cup failed \/ \E t \in Threads : pc[t] # "outside" /\ place[t] = i

First == IF issued = <<>> THEN 0 ELSE issued[1]
TrueRollOvers(i) ==
    (First + i - 1) \div SeqModulus + (IF First = 0 THEN 1 ELSE 0)

(***************************************************************************)
(* A roll-over count asked for after the number is never too small for it: *)
(* the index made of the two is that of the number or, if other threads    *)
(* rolled over in between, one or more whole turns ahead.  It is exact     *)
(* while no other thread has taken a number since: what a single user of   *)
(* the sequencer may rely on.                                              *)
(***************************************************************************)
IndexRight ==
    \A t \in Threads : pc[t] = "has_count" =>
        /\ roll_overs[t] >= TrueRollOvers(place[t])
        /\ place[t] = Len(issued) => roll_overs[t] = TrueRollOvers(place[t])

\* Every call returns, however the threads meet at the mutex.
CallsReturn == \A t \in Threads : pc[t] # "outside" ~> pc[t] = "outside"
=============================================================================
