-------------------------------- MODULE Amounts --------------------------------
(***************************************************************************)
(* The client's amounts (core/types/src/amounts.rs): a note's is a u128, a *)
(* public one an i128, and what the circuit is given an element of the     *)
(* field.  Every operation is checked: one without a result fails.         *)
(***************************************************************************)
EXTENDS Integers

CONSTANTS
  MaxI128,   \* i128::MAX
  FieldSize  \* BN254_MODULUS_BE

MaxU128 == 2 * MaxI128 + 1

NoteAmount == 0 .. MaxU128
ExtAmount == -(MaxI128 + 1) .. MaxI128

\* TryFrom<ExtAmount> for Field: a negative amount is that much below the modulus.
FieldOf(ext) == IF ext >= 0 THEN ext ELSE FieldSize + ext

\* What is on each side of the equation: a negative public amount is moved to
\* the side of the outputs.
Received(ext) == IF ext >= 0 THEN ext ELSE 0
Paid(ext) == IF ext >= 0 THEN 0 ELSE -ext

\* The checked operations of flows::transact have results.
SumsFit(in, ext, out) ==
  /\ in \in NoteAmount /\ out \in NoteAmount
  /\ -ext \in ExtAmount \/ ext >= 0
  /\ in + Received(ext) \in NoteAmount /\ out + Paid(ext) \in NoteAmount

\* The equation flows::transact insists on: inputs and outputs are two each.
Conserved(ins, ext, outs) ==
  /\ SumsFit(ins[1] + ins[2], ext, outs[1] + outs[2])
  /\ ins[1] + ins[2] + Received(ext) = outs[1] + outs[2] + Paid(ext)

\* What a withdrawal pays out: the worth of its notes, each and all an i128.
WithdrawalFits(ins) ==
  ins[1] \in ExtAmount /\ ins[2] \in ExtAmount /\ ins[1] + ins[2] \in ExtAmount
=============================================================================
