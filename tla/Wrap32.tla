------------------------------- MODULE Wrap32 -------------------------------
(***************************************************************************)
(* Wrap32 (CS144_note/Lab2.md, wrapping_integers.cc): sequence numbers     *)
(* that start at a zero point and wrap, and the absolute number such a     *)
(* number stands for near a checkpoint.                                    *)
(***************************************************************************)
EXTENDS Integers

CONSTANT Half  \* 0x80000000, half of the cycle of a sequence number

HalfAssumption == Half \in Nat \ {0}

Cycle == 2 * Half
Raw == 0..(Cycle - 1)

Wrap(n, zero_point) == (n + zero_point) % Cycle

\* left_low: the least absolute number that wraps to raw_value
LeftLow(raw_value, zero_point) ==
  IF raw_value >= zero_point
  THEN raw_value - zero_point
  ELSE (raw_value + Cycle - zero_point) % Cycle

\* checkpoint_low: the checkpoint in the first cycle, or in the second one when
\* left_low lies behind its right window
CheckpointLow(left_low, checkpoint) ==
  LET low == checkpoint % Cycle
  IN  IF low + Half <= left_low THEN low + Cycle ELSE low

\* Mutant: always in the cycle of the checkpoint.
Unwrap_Left(raw_value, zero_point, checkpoint) ==
  LeftLow(raw_value, zero_point) + (checkpoint - (checkpoint % Cycle))
Unwrap(raw_value, zero_point, checkpoint) ==
  LET left_low  == LeftLow(raw_value, zero_point)
      right_low == left_low + Cycle
      low       == CheckpointLow(left_low, checkpoint)
      lwindow   == IF low > Half THEN low - Half ELSE 0
      distance  == IF checkpoint > low THEN checkpoint - low ELSE 0
  IN  (IF lwindow <= left_low /\ left_low < low + Half THEN left_low ELSE right_low) + distance
=============================================================================
