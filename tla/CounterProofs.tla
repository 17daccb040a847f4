---------------------------- MODULE CounterProofs ----------------------------
(***************************************************************************)
(* Proofs about CounterContinuity, for every pair of moduli, every wrap    *)
(* fraction and gap, every clock, and any number of readings, resets,      *)
(* incarnations and generations, lost, duplicated and reordered.           *)
(***************************************************************************)
EXTENDS CounterContinuity, TLAPS

\* The gap a policy allows is less than the largest i64.  validate_policy bounds
\* it only from below (policy.cpp:203, 245); a gap of exactly the largest i64
\* admits a difference that overflowed and was replaced by that value.
GapBelowSaturation == MaxGap < TimeLimit

Readings == [value : Nat, width : {"Bits32", "Bits64"}, reset : BOOLEAN, observed : Int,
             seq : Nat, incarnation : Nat, generation : Nat, total : Nat, resets : Nat]

Devices == [total : Nat, resets : Nat, pending : BOOLEAN, seq : Nat, incarnation : Nat,
            generation : Nat]

\* The readings under way and the one the engine is based on.
Known == wire \union (IF counter.bound THEN {counter.last} ELSE {})

TypeOK ==
    /\ device \in Devices
    /\ Known \subseteq Readings
    /\ counter.bound \in BOOLEAN /\ counter.baseline \in BOOLEAN
    /\ counter.baseline => counter.bound

\* A reading that fits its width shows the device's total modulo that width.
ValueInv ==
    \A x \in Known : InRange(x.value, x.width) => x.value = x.total % Modulus(x.width)

\* Within one life the total never falls as the sequence number rises, and no
\* reading is ahead of the device.
OrderInv ==
    /\ \A x \in Known :
           /\ x.resets <= device.resets
           /\ x.resets = device.resets => x.seq <= device.seq /\ x.total <= device.total
    /\ \A x, y \in Known : x.resets = y.resets /\ x.seq <= y.seq => x.total <= y.total

IInv == TypeOK /\ ValueInv /\ OrderInv
-----------------------------------------------------------------------------
(***************************************************************************)
(* Modular arithmetic.                                                     *)
(***************************************************************************)
LEMMA Division ==
  ASSUME NEW a \in Int, NEW m \in Nat \ {0}
  PROVE  a \div m \in Int /\ a % m \in 0 .. m - 1 /\ a = m * (a \div m) + (a % m)
  OBVIOUS

LEMMA SmallModulo ==
  ASSUME NEW m \in Nat \ {0}, NEW d \in 0 .. m - 1
  PROVE  d % m = d /\ (d - m) % m = d
  OBVIOUS

\* Less than one modulus further on, the remainder has grown by the distance,
\* or by the distance less one modulus.
LEMMA RemainderStep ==
  ASSUME NEW m \in Nat \ {0}, NEW a \in Nat, NEW b \in Nat, b - a \in 0 .. m - 1
  PROVE  /\ a % m \in 0 .. m - 1 /\ b % m \in 0 .. m - 1
         /\ b % m = (a % m) + (b - a) \/ b % m = (a % m) + (b - a) - m
<1> DEFINE ra == a % m  rb == b % m  k == (b \div m) - (a \div m)
<1>1. ra \in 0 .. m - 1 /\ rb \in 0 .. m - 1
  BY Division
<1>2. k \in Int /\ b - a = m * k + (rb - ra)
  <2> DEFINE qa == a \div m  qb == b \div m
  <2>1. qa \in Int /\ a = m * qa + ra
    BY Division
  <2>2. qb \in Int /\ b = m * qb + rb
    BY Division
  <2> HIDE DEF qa, qb, ra, rb
  <2>3. m * (qb - qa) = m * qb - m * qa
    BY <2>1, <2>2
  <2> QED
    BY <1>1, <2>1, <2>2, <2>3 DEF qa, qb
<1> HIDE DEF ra, rb, k
<1>3. ~(k >= 2)
  <2> SUFFICES ASSUME k >= 2 PROVE FALSE
    OBVIOUS
  <2>1. m * k >= 2 * m
    BY <1>2
  <2> QED
    BY <1>1, <1>2, <2>1
<1>4. ~(k <= -1)
  <2> SUFFICES ASSUME k <= -1 PROVE FALSE
    OBVIOUS
  <2>1. m * k <= -m
    BY <1>2
  <2> QED
    BY <1>1, <1>2, <2>1
<1>5. k = 0 \/ k = 1
  BY <1>2, <1>3, <1>4
<1> QED
  BY <1>1, <1>2, <1>5 DEF ra, rb

\* The difference of an advance and of a wrap is what lies between the totals.
LEMMA DeltaCounts ==
  ASSUME NEW width \in {"Bits32", "Bits64"}, NEW a \in Nat, NEW b \in Nat,
         b - a \in 0 .. Modulus(width) - 1,
         NEW before, before = a % Modulus(width), NEW now, now = b % Modulus(width)
  PROVE  /\ now >= before => now - before = b - a
         /\ now < before => WrapDelta(before, now, width) = b - a
<1> DEFINE m == Modulus(width)
<1>1. m \in Nat \ {0} /\ Modulus64 \in Nat \ {0} /\ m <= Modulus64
  BY ModulusAssumption DEF Modulus
<1>2. /\ before \in 0 .. m - 1 /\ now \in 0 .. m - 1
      /\ now = before + (b - a) \/ now = before + (b - a) - m
  BY <1>1, RemainderStep
<1>3. b - a \in 0 .. Modulus64 - 1 /\ b - a \in 0 .. m - 1
  BY <1>1
<1> HIDE DEF m
<1>4. now >= before => now - before = b - a
  BY <1>1, <1>2, <1>3
<1>5. now < before => now - before = (b - a) - m
  BY <1>1, <1>2, <1>3
<1>6. ASSUME now < before PROVE WrapDelta(before, now, width) = b - a
  <2>1. CASE width = "Bits32"
    <3>1. Modulus32 - before + now = b - a
      BY <1>1, <1>2, <1>5, <1>6, <2>1, ModulusAssumption DEF m, Modulus
    <3> QED
      BY <1>1, <1>3, <2>1, <3>1, SmallModulo DEF WrapDelta
  <2>2. CASE width = "Bits64"
    <3>1. 0 - before + now = (b - a) - Modulus64
      BY <1>1, <1>2, <1>5, <1>6, <2>2 DEF m, Modulus
    <3> QED
      BY <1>1, <1>3, <2>2, <3>1, SmallModulo DEF WrapDelta
  <2> QED
    BY <2>1, <2>2
<1> QED
  BY <1>4, <1>6
-----------------------------------------------------------------------------
(***************************************************************************)
(* The invariant.                                                          *)
(***************************************************************************)
LEMMA ModulusTyped ==
  ASSUME NEW width \in {"Bits32", "Bits64"}
  PROVE  Modulus(width) \in Nat \ {0}
  BY ModulusAssumption DEF Modulus

\* The device after a reading, after a reset and as a new incarnation.
LEMMA CountedTyped ==
  ASSUME NEW d \in Devices, NEW t \in Nat, NEW e,
         e = [d EXCEPT !.total = t, !.seq = @ + 1, !.pending = FALSE]
  PROVE  /\ e \in Devices
         /\ e.resets = d.resets /\ e.seq = d.seq + 1 /\ e.total = t
<1>1. /\ d.resets \in Nat /\ d.seq + 1 \in Nat /\ d.incarnation \in Nat /\ d.generation \in Nat
      /\ e.total = t /\ e.seq = d.seq + 1 /\ e.resets = d.resets
  BY DEF Devices
<1>2. e = [total |-> t, resets |-> d.resets, pending |-> FALSE, seq |-> d.seq + 1,
           incarnation |-> d.incarnation, generation |-> d.generation]
  BY DEF Devices
<1> QED
  BY <1>1, <1>2 DEF Devices

LEMMA RestartedTyped ==
  ASSUME NEW d \in Devices, NEW e,
         \/ e = [d EXCEPT !.total = 0, !.resets = @ + 1, !.pending = TRUE]
         \/ e = [d EXCEPT !.total = 0, !.resets = @ + 1, !.pending = FALSE, !.seq = 0,
                         !.incarnation = @ + 1]
  PROVE  e \in Devices /\ e.resets = d.resets + 1
<1>1. /\ d.resets + 1 \in Nat /\ d.seq \in Nat /\ d.incarnation \in Nat
      /\ d.incarnation + 1 \in Nat /\ d.generation \in Nat
  BY DEF Devices
<1>2. CASE e = [d EXCEPT !.total = 0, !.resets = @ + 1, !.pending = TRUE]
  <2>1. e = [total |-> 0, resets |-> d.resets + 1, pending |-> TRUE, seq |-> d.seq,
             incarnation |-> d.incarnation, generation |-> d.generation]
    BY <1>2 DEF Devices
  <2> QED
    BY <1>1, <2>1 DEF Devices
<1>3. CASE e = [d EXCEPT !.total = 0, !.resets = @ + 1, !.pending = FALSE, !.seq = 0,
                        !.incarnation = @ + 1]
  <2>1. e = [total |-> 0, resets |-> d.resets + 1, pending |-> FALSE, seq |-> 0,
             incarnation |-> d.incarnation + 1, generation |-> d.generation]
    BY <1>3 DEF Devices
  <2> QED
    BY <1>1, <2>1 DEF Devices
<1> QED
  BY <1>2, <1>3

\* observe keeps the baseline or takes the reading.
LEMMA ObserveKnows ==
  ASSUME TypeOK, NEW r \in wire, counter' = Observe(counter, r), wire' \subseteq wire
  PROVE  /\ Known' \subseteq Known
         /\ counter'.bound \in BOOLEAN /\ counter'.baseline \in BOOLEAN
         /\ counter'.baseline => counter'.bound
<1> DEFINE event == Event(counter, r)
           rebase == event \notin {"out-of-range", "sequence-regressed"}
<1>1. /\ counter'.baseline = (rebase \/ (event = "sequence-regressed" /\ counter.baseline))
      /\ counter'.bound = (rebase \/ counter.bound)
      /\ counter'.last = IF rebase THEN r ELSE counter.last
  BY DEF Observe
<1> HIDE DEF event
<1>2. counter'.bound \in BOOLEAN /\ counter'.baseline \in BOOLEAN
  BY <1>1, Zenon
<1>3. counter'.baseline => counter'.bound
  BY <1>1 DEF TypeOK
<1>4. Known' \subseteq Known
  <2>1. CASE rebase
    BY <1>1, <2>1 DEF Known
  <2>2. CASE ~rebase
    <3>1. counter'.last = counter.last /\ (counter'.bound => counter.bound)
      BY <1>1, <2>2
    <3> QED
      BY <3>1 DEF Known
  <2> QED
    BY <2>1, <2>2
<1> QED
  BY <1>2, <1>3, <1>4

\* A step that learns nothing new and leaves the device alone.
LEMMA NothingNew ==
  ASSUME IInv, Known' \subseteq Known, device' = device,
         counter'.bound \in BOOLEAN /\ counter'.baseline \in BOOLEAN,
         counter'.baseline => counter'.bound
  PROVE  IInv'
<1>1. TypeOK'
  BY DEF IInv, TypeOK
<1>2. ValueInv'
  BY DEF IInv, ValueInv
<1>3. OrderInv'
  BY DEF IInv, OrderInv
<1> QED
  BY <1>1, <1>2, <1>3 DEF IInv

\* A new reading of the device.
LEMMA NewReading ==
  ASSUME IInv, NEW x \in Readings, Known' = Known \union {x}, UNCHANGED counter,
         device' \in Devices,
         device'.resets = device.resets, device'.seq = device.seq + 1,
         device'.total >= device.total,
         x.seq = device.seq + 1, x.total = device'.total, x.resets = device.resets,
         InRange(x.value, x.width) => x.value = x.total % Modulus(x.width)
  PROVE  IInv'
<1>0. /\ device.total \in Nat /\ device.resets \in Nat /\ device.seq \in Nat
      /\ device'.total \in Nat
      /\ \A y \in Known : y \in Readings
  BY DEF IInv, TypeOK, Devices
<1>1. \A y \in Known : y.seq \in Nat /\ y.total \in Nat /\ y.resets \in Nat
  BY <1>0 DEF Readings
<1>2. TypeOK'
  BY DEF IInv, TypeOK
<1>3. ValueInv'
  BY DEF IInv, ValueInv
<1>4. \A y \in Known' : /\ y.resets <= device'.resets
                        /\ y.resets = device'.resets => y.seq <= device'.seq /\ y.total <= device'.total
  BY <1>0, <1>1 DEF IInv, OrderInv
<1>5. ASSUME NEW y \in Known', NEW z \in Known', y.resets = z.resets, y.seq <= z.seq
      PROVE  y.total <= z.total
  <2>1. CASE y \in Known /\ z \in Known
    BY <1>5, <2>1 DEF IInv, OrderInv
  <2>2. CASE z = x /\ y \in Known
    BY <1>0, <1>1, <1>5, <2>2 DEF IInv, OrderInv
  <2>3. CASE y = x /\ z \in Known
    <3>1. z.seq <= device.seq
      BY <1>5, <2>3 DEF IInv, OrderInv
    <3> QED
      BY <1>0, <1>1, <1>5, <2>3, <3>1
  <2>4. CASE y = x /\ z = x
    BY <1>0, <2>4
  <2> QED
    BY <2>1, <2>2, <2>3, <2>4
<1> QED
  BY <1>2, <1>3, <1>4, <1>5 DEF IInv, OrderInv

LEMMA NextInv == IInv /\ [Next]_vars => IInv'
<1> SUFFICES ASSUME IInv, [Next]_vars PROVE IInv'
  OBVIOUS
<1>0. /\ device \in Devices /\ TypeOK
      /\ device.total \in Nat /\ device.resets \in Nat /\ device.seq \in Nat
      /\ device.pending \in BOOLEAN /\ device.incarnation \in Nat /\ device.generation \in Nat
  BY DEF IInv, TypeOK, Devices
<1>1. ASSUME NEW step \in Steps, NEW width \in DeviceWidths, NEW observed \in Times,
             Sample(step, width, observed)
      PROVE  IInv'
  <2> DEFINE total == device.total + step
             x == Reading(total % Modulus(width), width, observed, total)
  <2>1. /\ total \in Nat /\ total >= device.total /\ width \in {"Bits32", "Bits64"}
        /\ observed \in Int
    BY <1>0, DeviceAssumption, CounterConfigAssumption
  <2>2. total % Modulus(width) \in Nat
    <3>1. Modulus(width) \in Nat \ {0}
      BY <2>1, ModulusTyped
    <3> HIDE DEF total
    <3> QED
      BY <2>1, <3>1, Division
  <2>3. x \in Readings
    BY <1>0, <2>1, <2>2 DEF Reading, Readings
  <2>4. wire' = wire \union {x} /\ UNCHANGED counter
    BY <1>1 DEF Sample
  <2>5. device' = [device EXCEPT !.total = total, !.seq = @ + 1, !.pending = FALSE]
    BY <1>1 DEF Sample
  <2>6. /\ x.seq = device.seq + 1 /\ x.total = total /\ x.resets = device.resets
        /\ x.value = x.total % Modulus(x.width)
    BY DEF Reading
  <2> HIDE DEF x
  <2>7. /\ device' \in Devices
        /\ device'.resets = device.resets /\ device'.seq = device.seq + 1
        /\ device'.total = total
    BY <1>0, <2>1, <2>5, CountedTyped DEF Devices
  <2> HIDE DEF total
  <2>8. Known' = Known \union {x}
    BY <2>4 DEF Known
  <2> QED
    BY <2>1, <2>3, <2>4, <2>6, <2>7, <2>8, NewReading
<1>2. CASE SampleMalformed
  <2>1. PICK observed \in Times :
           wire' = wire \union {Reading(Modulus32, "Bits32", observed, device.total)}
    BY <1>2 DEF SampleMalformed
  <2> DEFINE x == Reading(Modulus32, "Bits32", observed, device.total)
  <2>2. observed \in Int /\ Modulus32 \in Nat
    BY DeviceAssumption, CounterConfigAssumption, ModulusAssumption
  <2>3. x \in Readings
    BY <1>0, <2>2 DEF Reading, Readings
  <2>4. /\ x.seq = device.seq + 1 /\ x.total = device.total /\ x.resets = device.resets
        /\ ~InRange(x.value, x.width)
    BY <2>2 DEF Reading, InRange
  <2>5. device' = [device EXCEPT !.seq = @ + 1, !.pending = FALSE] /\ UNCHANGED counter
    BY <1>2 DEF SampleMalformed
  <2>6. wire' = wire \union {x}
    BY <2>1
  <2> HIDE DEF x
  <2>7. /\ device' \in Devices
        /\ device'.resets = device.resets /\ device'.seq = device.seq + 1
        /\ device'.total = device.total
    <3>1. device' = [device EXCEPT !.total = device.total, !.seq = @ + 1, !.pending = FALSE]
      BY <1>0, <2>5 DEF Devices
    <3> QED
      BY <1>0, <3>1, CountedTyped DEF Devices
  <2>8. Known' = Known \union {x}
    BY <2>5, <2>6 DEF Known
  <2> QED
    BY <1>0, <2>3, <2>4, <2>5, <2>7, <2>8, NewReading
<1>3. CASE ResetDevice \/ Reincarnate
  <2>1. /\ UNCHANGED <<counter, wire>>
        /\ device' \in Devices
        /\ device'.resets = device.resets + 1
    BY <1>0, <1>3, RestartedTyped DEF ResetDevice, Reincarnate
  <2>2. Known' = Known
    BY <2>1 DEF Known
  <2>3. \A x \in Known : x.resets \in Nat /\ x.resets <= device.resets
    BY <1>0 DEF TypeOK, Readings, IInv, OrderInv
  <2>4. \A x \in Known : x.resets <= device'.resets /\ x.resets # device'.resets
    BY <1>0, <2>1, <2>3
  <2> QED
    BY <2>1, <2>2, <2>4 DEF IInv, TypeOK, ValueInv, OrderInv
<1>4. CASE Regenerate
  <2>1. /\ UNCHANGED <<counter, wire>>
        /\ device' \in Devices
        /\ device'.resets = device.resets /\ device'.seq = device.seq
        /\ device'.total = device.total
    BY <1>0, <1>4 DEF Regenerate, Devices
  <2>2. Known' = Known
    BY <2>1 DEF Known
  <2> QED
    BY <2>1, <2>2 DEF IInv, TypeOK, ValueInv, OrderInv
<1>5. ASSUME NEW r \in wire, Deliver(r)
      PROVE  IInv'
  BY <1>0, <1>5, ObserveKnows, NothingNew DEF Deliver
<1>6. ASSUME NEW r \in wire, Lose(r)
      PROVE  IInv'
  <2>1. UNCHANGED <<counter, device>> /\ Known' \subseteq Known
    BY <1>6 DEF Lose, Known
  <2> QED
    BY <1>0, <2>1, NothingNew DEF TypeOK
<1>7. CASE UNCHANGED vars
  <2>1. UNCHANGED <<counter, device>> /\ Known' \subseteq Known
    BY <1>7 DEF vars, Known
  <2> QED
    BY <1>0, <2>1, NothingNew DEF TypeOK
<1> QED
  BY <1>1, <1>2, <1>3, <1>4, <1>5, <1>6, <1>7 DEF Next

LEMMA InitInv == Init => IInv
  BY DEF Init, IInv, TypeOK, ValueInv, OrderInv, Known, FreshCounter, Devices

\* In every reachable state: within one life of the device the totals follow the
\* sequence numbers, and a reading that fits its width shows its total.
THEOREM ReadingsInvariant == Spec => []IInv
  BY InitInv, NextInv, PTL DEF Spec
-----------------------------------------------------------------------------
(***************************************************************************)
(* What a reading does to the engine.                                      *)
(***************************************************************************)
\* A reading that gives a delta was compared with a baseline of its own life.
LEMMA ContinuousReading ==
  ASSUME TypeOK, NEW r \in wire, counter' = Observe(counter, r), counter'.delta.present
  PROVE  LET event == Event(counter, r)
         IN  /\ event \in {"advance", "wrap"}
             /\ counter'.last = r /\ counter'.delta = DeltaOf(counter, r, event)
             /\ counter.baseline /\ counter.bound /\ counter.last \in Readings /\ r \in Readings
             /\ r.incarnation = counter.last.incarnation
             /\ r.generation = counter.last.generation
             /\ InRange(r.value, r.width) /\ r.width = counter.last.width
             /\ r.seq >= counter.last.seq /\ ~r.reset
             /\ event = "advance" <=> r.value >= counter.last.value
<1> DEFINE event == Event(counter, r)
<1>1. event \in {"advance", "wrap"}
  <2>1. counter'.delta = IF Continuous(event) THEN DeltaOf(counter, r, event) ELSE NoDelta
    BY DEF Observe
  <2>2. Continuous(event)
    BY <2>1 DEF NoDelta
  <2> QED
    BY <2>2 DEF Continuous
<1>2. counter'.last = r /\ counter'.delta = DeltaOf(counter, r, event)
  BY <1>1 DEF Observe, Continuous
<1>3. /\ ~(counter.bound /\ r.incarnation # counter.last.incarnation)
      /\ ~(counter.bound /\ r.generation # counter.last.generation)
      /\ InRange(r.value, r.width)
      /\ ~(counter.baseline /\ r.width # counter.last.width)
      /\ ~Late(counter, r) /\ ~DeclaresReset(r) /\ counter.baseline
      /\ event = "advance" <=> r.value >= counter.last.value
  BY <1>1 DEF Event
<1> HIDE DEF event
<1>4. counter.bound
  BY <1>3 DEF TypeOK
<1>5. r \in Readings /\ counter.last \in Readings
  BY <1>4 DEF TypeOK, Known
<1>6. r.seq \in Nat /\ counter.last.seq \in Nat
  BY <1>5 DEF Readings
<1> QED
  BY <1>1, <1>2, <1>3, <1>4, <1>5, <1>6 DEF Late, DeclaresReset, event

LEMMA OtherStepsKeep ==
  ASSUME [Next]_vars
  PROVE  counter' = counter \/ \E r \in wire : counter' = Observe(counter, r)
  BY DEF Next, Sample, SampleMalformed, ResetDevice, Reincarnate, Regenerate, Deliver, Lose, vars

LEMMA StepDelta ==
  ASSUME IInv, [Next]_vars, counter' # counter, counter'.delta.present
  PROVE  /\ WithinOneLife
         /\ /\ InRange(counter.last.value, counter.last.width)
            /\ counter'.last.resets = counter.last.resets
            /\ Counted < Modulus(counter'.last.width)
            => counter'.delta.delta = Counted
<1>1. PICK r \in wire : counter' = Observe(counter, r)
  BY OtherStepsKeep
<1> DEFINE event == Event(counter, r)
           last == counter.last
<1>2. /\ event \in {"advance", "wrap"}
      /\ counter'.last = r /\ counter'.delta = DeltaOf(counter, r, event)
      /\ counter.baseline /\ counter.bound /\ last \in Readings /\ r \in Readings
      /\ r.incarnation = last.incarnation /\ r.generation = last.generation
      /\ InRange(r.value, r.width) /\ r.width = last.width
      /\ r.seq >= last.seq /\ ~r.reset
      /\ event = "advance" <=> r.value >= last.value
  BY <1>1, ContinuousReading DEF IInv
<1>3. WithinOneLife
  BY <1>2 DEF WithinOneLife
<1>4. ASSUME InRange(last.value, last.width), r.resets = last.resets,
             r.total - last.total < Modulus(r.width)
      PROVE  counter'.delta.delta = r.total - last.total
  <2>1. /\ last.value = last.total % Modulus(r.width) /\ r.value = r.total % Modulus(r.width)
        /\ r \in Known /\ last \in Known
    BY <1>2, <1>4 DEF IInv, ValueInv, Known
  <2>2. /\ last.seq \in Nat /\ r.seq \in Nat /\ last.total \in Nat /\ r.total \in Nat
        /\ last.value \in Nat /\ r.value \in Nat /\ r.width \in {"Bits32", "Bits64"}
    BY <1>2 DEF Readings
  <2>3. last.total <= r.total
    BY <1>2, <1>4, <2>1, <2>2 DEF IInv, OrderInv
  <2>4. Modulus(r.width) \in Nat
    BY <2>2, ModulusTyped
  <2>5. r.total - last.total \in 0 .. Modulus(r.width) - 1
    BY <1>4, <2>2, <2>3, <2>4
  <2>6. /\ r.value >= last.value => r.value - last.value = r.total - last.total
        /\ r.value < last.value => WrapDelta(last.value, r.value, r.width) = r.total - last.total
    BY <2>1, <2>2, <2>5, DeltaCounts
  <2>7. counter'.delta.delta = IF event = "wrap" THEN WrapDelta(last.value, r.value, r.width)
                                                 ELSE r.value - last.value
    BY <1>2 DEF DeltaOf
  <2> HIDE DEF event
  <2> QED
    BY <1>2, <2>2, <2>6, <2>7
<1> QED
  BY <1>2, <1>3, <1>4 DEF Counted

\* "The tracker never invents a delta": whatever is lost, duplicated or
\* reordered, for every modulus, every delta lies within one life of the
\* counter and is what the device counted.
THEOREM DeltasExact == Spec => DeltaExact
<1>1. IInv /\ [Next]_vars =>
         [ counter' # counter /\ counter'.delta.present =>
              /\ WithinOneLife
              /\ /\ InRange(counter.last.value, counter.last.width)
                 /\ counter'.last.resets = counter.last.resets
                 /\ Counted < Modulus(counter'.last.width)
                 => counter'.delta.delta = Counted ]_vars
  BY StepDelta
<1> QED
  BY <1>1, ReadingsInvariant, PTL DEF Spec, DeltaExact

LEMMA StepRate ==
  ASSUME GapBelowSaturation, IInv, [Next]_vars, counter' # counter, counter'.rate
  PROVE  LET difference == counter'.last.observed - counter.last.observed
         IN  difference \in 1 .. MaxGap /\ counter'.delta.elapsed = difference
<1>1. PICK r \in wire : counter' = Observe(counter, r)
  BY OtherStepsKeep
<1>2. Continuous(Event(counter, r)) /\ ~SpansGap(counter, r)
  BY <1>1 DEF Observe
<1>3. counter'.delta.present
  BY <1>1, <1>2 DEF Observe, DeltaOf
<1>4. /\ counter'.last = r /\ counter'.delta = DeltaOf(counter, r, Event(counter, r))
      /\ counter.last \in Readings /\ r \in Readings
  BY <1>1, <1>3, ContinuousReading DEF IInv
<1>5. counter.last.observed \in Int /\ r.observed \in Int
  BY <1>4 DEF Readings
<1>6. counter'.delta.elapsed = Elapsed(counter, r)
  BY <1>4 DEF DeltaOf
<1>7. Elapsed(counter, r) \in 1 .. MaxGap /\ Elapsed(counter, r) = r.observed - counter.last.observed
  BY <1>2, <1>5, CounterConfigAssumption DEF SpansGap, Elapsed, GapBelowSaturation
<1> QED
  BY <1>4, <1>6, <1>7

\* A rate is offered only over a positive interval of at most the policy's gap
\* that the source's clock really showed.
THEOREM RatesHonest ==
  ASSUME GapBelowSaturation
  PROVE  Spec => RateHonest
<1>1. IInv /\ [Next]_vars =>
         [ counter' # counter /\ counter'.rate =>
              LET difference == counter'.last.observed - counter.last.observed
              IN  difference \in 1..MaxGap /\ counter'.delta.elapsed = difference ]_vars
  BY StepRate
<1> QED
  BY <1>1, ReadingsInvariant, PTL DEF Spec, RateHonest

LEMMA StepLate ==
  ASSUME IInv, [Next]_vars, counter.baseline,
         counter'.last.incarnation = counter.last.incarnation,
         counter'.last.generation = counter.last.generation,
         counter'.last.width = counter.last.width
  PROVE  counter'.last.seq >= counter.last.seq
<1>1. counter.bound /\ counter.last \in Readings
  BY DEF IInv, TypeOK, Known
<1>2. counter.last.seq \in Nat
  BY <1>1 DEF Readings
<1>3. CASE counter' = counter
  BY <1>2, <1>3
<1>4. ASSUME NEW r \in wire, counter' = Observe(counter, r)
      PROVE  counter'.last.seq >= counter.last.seq
  <2>1. CASE Event(counter, r) \in {"out-of-range", "sequence-regressed"}
    BY <1>2, <1>4, <2>1 DEF Observe
  <2>2. CASE Event(counter, r) \notin {"out-of-range", "sequence-regressed"}
    <3>1. counter'.last = r
      BY <1>4, <2>2 DEF Observe
    <3>2. ~Late(counter, r)
      BY <2>2, <3>1 DEF Event
    <3>3. r \in Readings
      BY DEF IInv, TypeOK, Known
    <3>4. r.seq \in Nat
      BY <3>3 DEF Readings
    <3> QED
      BY <1>2, <3>1, <3>2, <3>4 DEF Late
  <2> QED
    BY <2>1, <2>2
<1> QED
  BY <1>3, <1>4, OtherStepsKeep

\* "A late sample can never rewind continuity": within one incarnation,
\* generation and width an engine with a baseline never moves to an older
\* reading.
THEOREM LateReadingsHeld == Spec => LateNeverRewinds
<1>1. IInv /\ [Next]_vars =>
         [ /\ counter.baseline
           /\ counter'.last.incarnation = counter.last.incarnation
           /\ counter'.last.generation = counter.last.generation
           /\ counter'.last.width = counter.last.width
           => counter'.last.seq >= counter.last.seq ]_vars
  BY StepLate
<1> QED
  BY <1>1, ReadingsInvariant, PTL DEF Spec, LateNeverRewinds
=============================================================================
