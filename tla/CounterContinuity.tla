-------------------------- MODULE CounterContinuity --------------------------
(***************************************************************************)
(* The continuity engine of Counter fed by a device over an unreliable     *)
(* path.  The device counts, wraps, resets, restarts as a new source       *)
(* incarnation or appears under a new link generation; its readings are    *)
(* lost, duplicated and reordered, its clock jumps.                        *)
(*                                                                         *)
(* The device is the environment of src/src/domain/counter.cpp: the        *)
(* readings it sends are the ones the code's own event names provide for   *)
(* (enum CounterEvent).  Each reading carries two fields the engine never  *)
(* looks at, the device's true total and the number of its resets, so      *)
(* that a delta can be compared with what really happened.                 *)
(***************************************************************************)
EXTENDS Counter, FiniteSets

CONSTANTS
    DeviceWidths,  \* the widths the device may declare
    Malformed,     \* TRUE if it may declare a width its value does not fit
    Times,         \* the readings of its clock
    Steps,         \* what it may count between two readings
    MaxTotal,      \* bound on its total
    MaxSeq,        \* bound on the sequence numbers of one incarnation
    MaxLives,      \* bound on resets, incarnations and generations
    MaxInFlight    \* bound on the readings under way

ASSUME DeviceAssumption ==
    /\ DeviceWidths \subseteq {"Bits32", "Bits64"}
    /\ Malformed \in BOOLEAN
    /\ Times \subseteq (-TimeLimit - 1)..TimeLimit
    /\ Steps \subseteq Nat
    /\ {MaxTotal, MaxSeq, MaxLives, MaxInFlight} \subseteq Nat

VARIABLES
    counter,  \* the engine's state
    device,   \* the device: total, resets so far, reset not yet reported, identity
    wire      \* the set of readings under way

vars == <<counter, device, wire>>

Init ==
    /\ counter = FreshCounter
    /\ device = [total |-> 0, resets |-> 0, pending |-> FALSE, seq |-> 0,
                 incarnation |-> 1, generation |-> 1]
    /\ wire = {}

-----------------------------------------------------------------------------
(* The device *)

Reading(value, width, observed, total) ==
    [value |-> value, width |-> width, reset |-> device.pending, observed |-> observed,
     seq |-> device.seq + 1, incarnation |-> device.incarnation,
     generation |-> device.generation, total |-> total, resets |-> device.resets]

\* The device counts on, then reports its register.
Sample(step, width, observed) ==
    LET total == device.total + step
    IN  /\ device.seq < MaxSeq
        /\ total <= MaxTotal
        /\ Cardinality(wire) < MaxInFlight
        /\ wire' = wire \union {Reading(total % Modulus(width), width, observed, total)}
        /\ device' = [device EXCEPT !.total = total, !.seq = @ + 1, !.pending = FALSE]
        /\ UNCHANGED counter

\* The device declares 32 bits and reports a value that does not fit.
SampleMalformed ==
    /\ Malformed
    /\ device.seq < MaxSeq
    /\ Cardinality(wire) < MaxInFlight
    /\ \E observed \in Times :
           wire' = wire \union {Reading(Modulus32, "Bits32", observed, device.total)}
    /\ device' = [device EXCEPT !.seq = @ + 1, !.pending = FALSE]
    /\ UNCHANGED counter

\* The counter restarts from zero; the next reading declares it.
ResetDevice ==
    /\ device.resets < MaxLives
    /\ device' = [device EXCEPT !.total = 0, !.resets = @ + 1, !.pending = TRUE]
    /\ UNCHANGED <<counter, wire>>

\* The source restarts as a new incarnation with new sequence numbers.
Reincarnate ==
    /\ device.incarnation <= MaxLives
    /\ device.resets < MaxLives
    /\ device' = [device EXCEPT !.total = 0, !.resets = @ + 1, !.pending = FALSE,
                                !.seq = 0, !.incarnation = @ + 1]
    /\ UNCHANGED <<counter, wire>>

\* The link is re-created; the counter behind it goes on.
Regenerate ==
    /\ device.generation <= MaxLives
    /\ device' = [device EXCEPT !.generation = @ + 1]
    /\ UNCHANGED <<counter, wire>>

-----------------------------------------------------------------------------
(* The path and the engine *)

\* A reading is delivered, in any order, and may stay under way to be
\* delivered again.
Deliver(r) ==
    /\ counter' = Observe(counter, r)
    /\ wire' \in {wire, wire \ {r}}
    /\ UNCHANGED device

Lose(r) ==
    /\ wire' = wire \ {r}
    /\ UNCHANGED <<counter, device>>

Next ==
    \/ \E step \in Steps, width \in DeviceWidths, observed \in Times :
           Sample(step, width, observed)
    \/ SampleMalformed
    \/ ResetDevice
    \/ Reincarnate
    \/ Regenerate
    \/ \E r \in wire : Deliver(r) \/ Lose(r)

Spec == Init /\ [][Next]_vars

-----------------------------------------------------------------------------
(* Properties *)

\* What lay between the old baseline and the new one.
Counted == counter'.last.total - counter.last.total

\* The readings on both sides of a delta belong to one life of the counter.
WithinOneLife ==
    /\ counter.baseline
    /\ counter'.last.incarnation = counter.last.incarnation
    /\ counter'.last.generation = counter.last.generation
    /\ counter'.last.width = counter.last.width
    /\ counter'.last.seq >= counter.last.seq
    /\ ~counter'.last.reset

(***************************************************************************)
(* "The tracker never invents a delta" (CounterContinuity::observe).  No   *)
(* delta joins two lives of the counter: the readings on both sides come   *)
(* from one incarnation, generation and width, in the order they were      *)
(* taken, with no declared reset between them.  And a delta is what the    *)
(* device really counted between them, whatever was lost, duplicated or    *)
(* reordered, as long as the baseline fits its width, the device counted   *)
(* less than one modulus, and the report of a reset was not lost with its  *)
(* reading.  The baseline has to fit by assumption: the first reading of a *)
(* new incarnation or generation is taken unchecked.                       *)
(***************************************************************************)
DeltaExact ==
    [][ counter' # counter /\ counter'.delta.present =>
            /\ WithinOneLife
            /\ /\ InRange(counter.last.value, counter.last.width)
               /\ counter'.last.resets = counter.last.resets
               /\ Counted < Modulus(counter'.last.width)
               => counter'.delta.delta = Counted ]_vars

(***************************************************************************)
(* A rate is offered only over a positive interval of at most MaxGap that  *)
(* the source's clock really showed: a clock that stands still, runs       *)
(* backwards or jumps so far that the i64 difference overflows never       *)
(* yields one (rate_admissible_ in CounterContinuity::observe).  The       *)
(* interval it is computed over is that difference.                        *)
(***************************************************************************)
RateHonest ==
    [][ counter' # counter /\ counter'.rate =>
            LET difference == counter'.last.observed - counter.last.observed
            IN  difference \in 1..MaxGap /\ counter'.delta.elapsed = difference ]_vars

(***************************************************************************)
(* "A late sample can never rewind continuity" (counter.cpp:211-212):      *)
(* within one incarnation and generation an engine with a baseline never   *)
(* moves to an older reading.  Two late readings are let through: one that *)
(* declares another width, which observe tests before it looks at the      *)
(* sequence number, and one after a reading out of range, which has taken  *)
(* the baseline away.                                                      *)
(***************************************************************************)
LateNeverRewinds ==
    [][ /\ counter.baseline
        /\ counter'.last.incarnation = counter.last.incarnation
        /\ counter'.last.generation = counter.last.generation
        /\ counter'.last.width = counter.last.width
        => counter'.last.seq >= counter.last.seq ]_vars
=============================================================================
