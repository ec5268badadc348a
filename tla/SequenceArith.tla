--------------------------- MODULE SequenceArith ---------------------------
(***************************************************************************)
(* The circular message numbers of code/qcommon/netchan_safety.hpp: every  *)
(* number a netchan puts in a packet header lives modulo SequenceModulus   *)
(* (2^31 in the program: bit 31 of the header word marks a fragment).      *)
(***************************************************************************)
EXTENDS Integers

CONSTANT SequenceModulus   \* SequenceMask + 1

ASSUME ModulusAssumption == SequenceModulus \in Nat /\ SequenceModulus >= 4

SequenceMask == SequenceModulus - 1

SequenceHalfRange == SequenceModulus \div 2

AdvanceSequence(sequence, amount) == (sequence + amount) % SequenceModulus

RetreatSequence(sequence, amount) == (sequence - amount) % SequenceModulus

NextSequence(sequence) == AdvanceSequence(sequence, 1)

PreviousSequence(sequence) == RetreatSequence(sequence, 1)

SequenceDistance(newer, older) == (newer - older) % SequenceModulus

\* Defective variant: takes a repeated number for a new one.
IsNewerOrSameSequence(candidate, current) ==
    SequenceDistance(candidate, current) < SequenceHalfRange

\* A number is newer when it is ahead by less than half the circle.
IsNewerSequence(candidate, current) ==
    LET distance == SequenceDistance(candidate, current)
    IN  distance # 0 /\ distance < SequenceHalfRange
=============================================================================
