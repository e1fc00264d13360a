----------------------------- MODULE Sequencer -----------------------------
(***************************************************************************)
(* rtp::RandomSequencer and rtp::FixedSequencer (packet/rtp_packet.{h,cc}):*)
(* a 16-bit sequence number and its roll-over count behind a mutex, shared *)
(* by threads.  Each method is a lock_guard, the statements under it, and  *)
(* the unlock as the guard goes out of scope.                              *)
(***************************************************************************)
EXTENDS Integers, Sequences

CONSTANTS
    Threads,      \* the threads that call the sequencer
    Free,         \* mutex_ when no thread holds it
    SeqModulus    \* 2^16 in the code

ASSUME FreeAssumption == Free \notin Threads
ASSUME ModulusAssumption == SeqModulus \in Nat /\ SeqModulus >= 2 /\ SeqModulus % 2 = 0

VARIABLES
    kind,              \* "random" or "fixed"
    sequence_number,   \* sequence_number_
    roll_over_count,   \* roll_over_count_
    mutex,             \* the holder of mutex_, or Free
    pc,                \* per thread: the statement it is at
    number,            \* per thread: what its last NextSequenceNumber returned
    roll_overs,        \* per thread: what its last RollOverCount returned
    issued             \* history: the numbers given out, in order

sequencerVars ==
    <<kind, sequence_number, roll_over_count, mutex, pc, number, roll_overs, issued>>

\* Use only half of the number space for a random start (line 494).
RandomStarts == 0..(SeqModulus \div 2 - 1)
\* starting_seq - 1 in uint16_t.
FixedStarts == {(s + SeqModulus - 1) % SeqModulus : s \in 0..(SeqModulus - 1)}

SequencerInit ==
    /\ \/ kind = "random" /\ sequence_number \in RandomStarts
       \/ kind = "fixed" /\ sequence_number \in FixedStarts
    /\ roll_over_count = 0
    /\ mutex = Free
    /\ pc = [t \in Threads |-> "outside"]
    /\ number = [t \in Threads |-> 0]
    /\ roll_overs = [t \in Threads |-> 0]
    /\ issued = <<>>

Goto(t, label) == pc' = [pc EXCEPT ![t] = label]

\* Mutant: the methods run without their lock_guard.
NoLock(t) == UNCHANGED mutex
Lock(t) == mutex = Free /\ mutex' = t
\* Mutant: the guard outlives the method.
KeepLock == UNCHANGED mutex
Unlock == mutex' = Free

-----------------------------------------------------------------------------
(* NextSequenceNumber.                                                     *)

CallNext(t) ==
    /\ pc[t] = "outside"
    /\ Goto(t, "lock_next")
    /\ UNCHANGED <<kind, sequence_number, roll_over_count, mutex, number, roll_overs, issued>>

LockNext(t) ==
    /\ pc[t] = "lock_next"
    /\ Lock(t)
    /\ Goto(t, "increment")
    /\ UNCHANGED <<kind, sequence_number, roll_over_count, number, roll_overs, issued>>

\* Mutant: the number does not wrap at 16 bits.
SuccessorUnwrapped == sequence_number + 1
Successor == (sequence_number + 1) % SeqModulus

Increment(t) ==
    /\ pc[t] = "increment"
    /\ sequence_number' = Successor
    /\ issued' = Append(issued, sequence_number')
    /\ Goto(t, "roll_over")
    /\ UNCHANGED <<kind, roll_over_count, mutex, number, roll_overs>>

\* Mutant: the roll-over is seen one number late.
RolledOverLate == sequence_number = 1
RolledOver == sequence_number = 0

CountRollOver(t) ==
    /\ pc[t] = "roll_over"
    /\ roll_over_count' = IF RolledOver THEN roll_over_count + 1 ELSE roll_over_count
    /\ Goto(t, "return_next")
    /\ UNCHANGED <<kind, sequence_number, mutex, number, roll_overs, issued>>

ReturnNext(t) ==
    /\ pc[t] = "return_next"
    /\ number' = [number EXCEPT ![t] = sequence_number]
    /\ Unlock
    /\ Goto(t, "has_number")
    /\ UNCHANGED <<kind, sequence_number, roll_over_count, roll_overs, issued>>

-----------------------------------------------------------------------------
(* RollOverCount, asked for a number the thread already has.               *)

CallRollOverCount(t) ==
    /\ pc[t] = "has_number"
    /\ Goto(t, "lock_count")
    /\ UNCHANGED <<kind, sequence_number, roll_over_count, mutex, number, roll_overs, issued>>

LockCount(t) ==
    /\ pc[t] = "lock_count"
    /\ Lock(t)
    /\ Goto(t, "return_count")
    /\ UNCHANGED <<kind, sequence_number, roll_over_count, number, roll_overs, issued>>

ReturnCount(t) ==
    /\ pc[t] = "return_count"
    /\ roll_overs' = [roll_overs EXCEPT ![t] = roll_over_count]
    /\ Unlock
    /\ Goto(t, "has_count")
    /\ UNCHANGED <<kind, sequence_number, roll_over_count, number, issued>>

InSequencer(t) ==
    \/ LockNext(t) \/ Increment(t) \/ CountRollOver(t) \/ ReturnNext(t)
    \/ LockCount(t) \/ ReturnCount(t)
=============================================================================
