------------------------------ MODULE MCCounter ------------------------------
(* The sets of widths, steps and clock readings of the counter run. *)
EXTENDS CounterContinuity

AnyWidth == {"Bits32", "Bits64"}

\* From 3 a step of 1 wraps 32 bits and a step of 3 wraps 64 bits.
ShortAndLong == {1, 3}

\* Two readings MaxGap apart, and one so early that the difference overflows.
Clock == {-4, 1, 3}
=============================================================================
