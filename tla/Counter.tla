------------------------------- MODULE Counter -------------------------------
(***************************************************************************)
(* The continuity engine of one counter stream (class CounterContinuity,   *)
(* src/src/domain/counter.cpp), as operators on its state.  The state      *)
(* machine that feeds it is CounterContinuity; EvidenceStore keeps one     *)
(* engine per stream.                                                      *)
(*                                                                         *)
(* A reading is a record                                                   *)
(*   [value, width, reset, observed, seq, incarnation, generation]         *)
(* and may carry further fields: the engine keeps the reading it was last  *)
(* based on and looks at nothing else.                                     *)
(***************************************************************************)
EXTENDS Integers

CONSTANTS
    Modulus32,       \* stands for 2^32, where a 32-bit counter wraps
    Modulus64,       \* stands for 2^64, where u64 arithmetic wraps
    CeilingQuarters, \* wrap_ceiling_fraction, in quarters (3 is 0.75)
    FloorQuarters,   \* wrap_floor_fraction, in quarters (1 is 0.25)
    WrapInference,   \* the policy's wrap_inference switch
    MaxGap,          \* max_gap_nanos
    TimeLimit        \* stands for the largest i64, 2^63 - 1

ASSUME ModulusAssumption ==
    /\ Modulus32 \in Nat \ {0}
    /\ Modulus64 \in Nat
    /\ Modulus32 < Modulus64
ASSUME FractionAssumption ==
    /\ CeilingQuarters \in 0..4
    /\ FloorQuarters \in 0..4
ASSUME CounterConfigAssumption ==
    /\ WrapInference \in BOOLEAN
    /\ MaxGap \in Nat
    /\ TimeLimit \in Nat

-----------------------------------------------------------------------------
\* The number of values a counter of this width can show.
Modulus(width) == IF width = "Bits32" THEN Modulus32 ELSE Modulus64

InRange(value, width) == width = "Bits32" => value < Modulus32

(***************************************************************************)
(* Wrap inference.  The boundaries are fractions of 2^32, or of 2^64 - 1   *)
(* for a 64-bit counter, rounded down.                                     *)
(***************************************************************************)
Boundary(width, quarters) ==
    ((IF width = "Bits64" THEN Modulus64 - 1 ELSE Modulus32) * quarters) \div 4

\* The decrease from previous to current is taken for a modular wrap.
WrapProven(previous, current, width) ==
    /\ WrapInference
    /\ width # "Unspecified"
    /\ previous >= Boundary(width, CeilingQuarters)
    /\ current <= Boundary(width, FloorQuarters)

\* Mutated form: the step from the largest value to zero is not counted.
WrapDeltaOffByOne(previous, current, width) ==
    ((Modulus(width) - 1 - previous) + current) % Modulus64

\* (2^32 - previous) + current, or current - previous, in u64 arithmetic.
WrapDelta(previous, current, width) ==
    ((IF width = "Bits32" THEN Modulus32 ELSE 0) - previous + current) % Modulus64

-----------------------------------------------------------------------------
NoReading == [value |-> 0, width |-> "Unspecified", reset |-> FALSE, observed |-> 0,
              seq |-> 0, incarnation |-> 0, generation |-> 0]

\* An absent optional<CounterDelta>.
NoDelta == [delta |-> 0, elapsed |-> 0, gap |-> TRUE, wrap |-> FALSE, present |-> FALSE]

\* A default-constructed engine: no baseline, no identity bound.
FreshCounter == [baseline |-> FALSE, bound |-> FALSE, last |-> NoReading,
                 event |-> "baseline", delta |-> NoDelta, rate |-> FALSE]

\* The interval between two readings: the largest i64 when the subtraction
\* overflows, zero when the source clock moved backwards.
Elapsed(c, r) ==
    LET difference == r.observed - c.last.observed
    IN  IF difference \notin (-TimeLimit - 1)..TimeLimit THEN TimeLimit
        ELSE IF difference < 0 THEN 0 ELSE difference

\* Mutated form: a clock that stands still or runs back is no gap.
GapIgnoresClock(c, r) == Elapsed(c, r) > MaxGap

SpansGap(c, r) == Elapsed(c, r) > MaxGap \/ Elapsed(c, r) <= 0

\* Mutated form: sequence numbers are not compared.
NeverLate(c, r) == FALSE

\* The reading is older than the one the engine is based on.
Late(c, r) == c.baseline /\ r.seq < c.last.seq

\* The source says that it reset the counter before this reading.
DeclaresReset(r) == r.reset

(***************************************************************************)
(* What happened between the baseline and this reading: the tests of       *)
(* observe in the order they return.                                       *)
(***************************************************************************)
Event(c, r) ==
    IF c.bound /\ r.incarnation # c.last.incarnation THEN "source-reincarnated"
    ELSE IF c.bound /\ r.generation # c.last.generation THEN "link-generation-changed"
    ELSE IF ~InRange(r.value, r.width) THEN "out-of-range"
    ELSE IF c.baseline /\ r.width # c.last.width THEN "width-changed"
    ELSE IF Late(c, r) THEN "sequence-regressed"
    ELSE IF DeclaresReset(r) THEN "reset"
    ELSE IF ~c.baseline THEN "baseline"
    ELSE IF r.value >= c.last.value THEN "advance"
    ELSE IF WrapProven(c.last.value, r.value, r.width) THEN "wrap"
    ELSE "decrease-unproven"

\* Only an advance and a proven wrap give a difference.
Continuous(event) == event \in {"advance", "wrap"}

DeltaOf(c, r, event) ==
    [delta   |-> IF event = "wrap" THEN WrapDelta(c.last.value, r.value, r.width)
                                   ELSE r.value - c.last.value,
     elapsed |-> Elapsed(c, r),
     gap     |-> SpansGap(c, r),
     wrap    |-> event = "wrap",
     present |-> TRUE]

(***************************************************************************)
(* observe: an out-of-range reading drops the baseline, a regressed one    *)
(* leaves it alone, every other reading becomes the new baseline.          *)
(***************************************************************************)
Observe(c, r) ==
    LET event == Event(c, r)
        rebase == event \notin {"out-of-range", "sequence-regressed"}
    IN  [baseline |-> rebase \/ (event = "sequence-regressed" /\ c.baseline),
         bound    |-> rebase \/ c.bound,
         last     |-> IF rebase THEN r ELSE c.last,
         event    |-> event,
         delta    |-> IF Continuous(event) THEN DeltaOf(c, r, event) ELSE NoDelta,
         rate     |-> Continuous(event) /\ ~SpansGap(c, r)]
=============================================================================
