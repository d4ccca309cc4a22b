-------------------------------- MODULE Size --------------------------------
(***************************************************************************)
(* The checked arithmetic of mem/size.h on a size_t whose largest value is *)
(* SizeMax.  Every component that computes a byte count or rounds one up   *)
(* to an alignment goes through these operators before it touches memory.  *)
(***************************************************************************)
EXTENDS Integers

CONSTANT SizeMax     \* SIZE_MAX: the width of size_t, small in the models

ASSUME SizeMaxAssumption == SizeMax \in Nat \ {0}

SizeT == 0 .. SizeMax

\* k4c_size_add_overflow: TRUE when the sum does not fit a size_t.
AddOverflows(lhs, rhs) == lhs > SizeMax - rhs

\* k4c_size_mul_overflow: TRUE when the product does not fit a size_t.
MulOverflows(lhs, rhs) == rhs # 0 /\ lhs > SizeMax \div rhs

\* k4c_align_up_overflow: the rounding mask is added with the check above.
AlignUpOverflows(n, alignment) == AddOverflows(n, alignment - 1)

\* k4c_align_up: (n + mask) & ~mask in size_t, so the sum wraps.  Clearing
\* the low bits of a multiple-of-two alignment drops the remainder.
AlignUp(n, alignment) ==
  LET sum == (n + (alignment - 1)) % (SizeMax + 1)
  IN  sum - (sum % alignment)

=============================================================================
