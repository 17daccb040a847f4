-------------------------- MODULE JournalFileProofs --------------------------
(***************************************************************************)
(* Proofs about JournalFile, for every size of bodies and records, any     *)
(* number of appends and any number of faults of the medium.               *)
(*                                                                         *)
(* The argument is about the records one by one.  While the runtime is up  *)
(* every record is as it was written and continues the one before it, for  *)
(* opening accepts no other record and cuts the file where it meets one.   *)
(* A crash that keeps a prefix spoils only the last record, by cutting it  *)
(* off.  So without damage and lost pages a scan stops at a record that is *)
(* cut off or too long, and both are torn tails.                           *)
(***************************************************************************)
EXTENDS JournalFile, TLAPS, WellFoundedInduction

Records == [ordinal : Nat, ids : SUBSET Nat, size : Nat, says : Nat,
            sound : BOOLEAN, whole : BOOLEAN]

TypeOK ==
    /\ proc \in {"up", "down", "refused"}
    /\ header \in {"none", "empty", "fresh", "ok", "garbage"}
    /\ file \in Seq(Records)
    /\ synced \in Nat /\ appended \in Nat /\ damage \in Nat
    /\ verified \in BOOLEAN

\* Record i is as encode_record_bytes made it, except that it may be cut off.
Written(i) == file[i].says = file[i].size /\ file[i].sound /\ file[i].size >= PrefixBytes

Continues(i) == i > 1 => file[i].ordinal = file[i - 1].ordinal + 1

\* Only an interrupted append cuts a record off, and nothing is behind it.
CutOffInv == \A i \in DOMAIN file : i < Len(file) => file[i].whole

UpInv == proc = "up" => \A i \in DOMAIN file : file[i].whole /\ Written(i) /\ Continues(i)

CrashInv == damage = 0 /\ ~scarred => \A i \in DOMAIN file : Written(i) /\ Continues(i)

\* Before the header is there to stay nothing was appended.
HeaderInv ==
    /\ proc = "up" => header = "ok"
    /\ header # "ok" => file = <<>> /\ acked = {}

RefusedInv == proc = "refused" => damage > 0 \/ scarred \/ header = "garbage"

LostInv == lost \subseteq {"length", "too long"}

\* The scan of the whole file accepts every record.
Reads == \A i \in DOMAIN file : Accepts(i)

\* The tool accepts every record it looks at.
ToolReads == \A i \in DOMAIN file : i <= ToolMaxRecords => AcceptsWithin(i, ToolRecordBytes)

VerifiedInv ==
    verified => /\ header = "ok" /\ ToolReads
                /\ Len(file) <= ToolMaxRecords => proc # "refused"

IInv ==
    /\ TypeOK /\ CutOffInv /\ UpInv /\ CrashInv /\ HeaderInv
    /\ RefusedInv /\ LostInv /\ VerifiedInv
-----------------------------------------------------------------------------
(* Counting *)

\* The least number of a set, from the well-founded order of the library.
LEMMA LeastNumber ==
  ASSUME NEW U \in SUBSET Nat, U # {}
  PROVE  \E n \in U : \A m \in U : n <= m
<1> DEFINE R == {ss \in Nat \X Nat : ss[1] < ss[2]}
<1>1. IsWellFoundedOn(R, Nat)
  BY NatLessThanWellFounded DEF OpToRel
<1>2. \A x, y \in Nat : y < x => <<y, x>> \in R
  OBVIOUS
<1> HIDE DEF R
<1>3. PICK n \in U : \A m \in U : <<m, n>> \notin R
  BY <1>1, WFMin
<1>4. ASSUME NEW m \in U PROVE n <= m
  <2>1. m \in Nat /\ n \in Nat /\ ~(m < n)
    BY <1>2, <1>3
  <2> QED
    BY <2>1
<1> QED
  BY <1>4

\* Induction on the natural numbers, for a set that is a constant.
LEMMA SetInduction ==
  ASSUME NEW T, 0 \in T, \A n \in Nat : n \in T => n + 1 \in T
  PROVE  \A n \in Nat : n \in T
<1> DEFINE U == Nat \ T
<1>1. SUFFICES ASSUME U # {} PROVE FALSE
  OBVIOUS
<1>2. PICK n \in U : \A m \in U : n <= m
  <2>1. U \in SUBSET Nat
    OBVIOUS
  <2> HIDE DEF U
  <2> QED
    BY <1>1, <2>1, LeastNumber
<1>3. n # 0 /\ n - 1 \in Nat /\ ~(n <= n - 1)
  OBVIOUS
<1>4. n - 1 \in T
  BY <1>2, <1>3
<1> QED
  BY <1>3, <1>4

\* The recursion of UnitsOfLast has a solution, so it holds of UnitsOfLast.
LEMMA UnitsDefined ==
  ASSUME file \in Seq(Records)
  PROVE  UnitsOfLast = [n \in 0..Len(file) |->
             IF n = 0 THEN 0 ELSE UnitsOfLast[n - 1] + Units(file[Len(file) + 1 - n])]
<1> DEFINE unit(n) == Units(file[Len(file) + 1 - n])
           Sums(f, top) == f = [n \in 0..top |-> IF n = 0 THEN 0 ELSE f[n - 1] + unit(n)]
           T == {top \in Nat : \E f : Sums(f, top)}
<1>1. 0 \in T
  <2>1. Sums([n \in 0..0 |-> 0], 0)
    OBVIOUS
  <2> HIDE DEF Sums
  <2> QED
    BY <2>1
<1>2. ASSUME NEW top \in Nat, top \in T
      PROVE  top + 1 \in T
  <2>1. PICK f : Sums(f, top)
    BY <1>2
  <2> DEFINE g == [n \in 0..(top + 1) |-> IF n = 0 THEN 0 ELSE f[n - 1] + unit(n)]
  <2> HIDE DEF unit
  <2>2. \A n \in 0..top : g[n] = f[n]
    BY <2>1
  <2>3. \A n \in 1..(top + 1) : g[n - 1] = f[n - 1]
    BY <2>2, SMTT(30)
  <2>4. \A n \in 0..(top + 1) : g[n] = IF n = 0 THEN 0 ELSE g[n - 1] + unit(n)
    <3>1. TAKE n \in 0..(top + 1)
    <3>2. n # 0 => n \in 1..(top + 1)
      OBVIOUS
    <3> QED
      BY <2>3, <3>2
  <2>5. DOMAIN g = 0..(top + 1) /\ g = [n \in DOMAIN g |-> g[n]]
    OBVIOUS
  <2> HIDE DEF g
  <2>6. Sums(g, top + 1)
    BY <2>4, <2>5
  <2> HIDE DEF Sums
  <2> QED
    BY <2>6
<1> HIDE DEF T
<1>3. Len(file) \in T
  BY <1>1, <1>2, SetInduction
<1>4. PICK f : f = [n \in 0..Len(file) |->
                      IF n = 0 THEN 0 ELSE f[n - 1] + Units(file[Len(file) + 1 - n])]
  BY <1>3 DEF T
<1> QED
  BY <1>4 DEF UnitsOfLast

\* The payload of a whole record lies between its start and the end of the
\* file.
LEMMA UnitsLeftEnough ==
  ASSUME file \in Seq(Records), NEW i \in DOMAIN file, file[i].whole
  PROVE  UnitsLeft(i) \in Nat /\ file[i].size <= UnitsLeft(i)
<1> DEFINE L == Len(file)
           T == {n \in Nat : n <= L => UnitsOfLast[n] \in Nat}
<1>0. L \in Nat /\ DOMAIN file = 1..L /\ \A j \in 1..L : file[j] \in Records
  OBVIOUS
<1>1. UnitsOfLast[0] = 0
  BY <1>0, UnitsDefined
<1>2. \A n \in 1..L : UnitsOfLast[n] = UnitsOfLast[n - 1] + Units(file[L + 1 - n])
  BY <1>0, UnitsDefined
<1>3. \A j \in 1..L : Units(file[j]) \in Nat
  BY <1>0 DEF Units, Records
<1>4. 0 \in T
  BY <1>0, <1>1
<1> HIDE DEF L
<1>5. ASSUME NEW n \in Nat, n \in T
      PROVE  n + 1 \in T
  <2>1. SUFFICES ASSUME n + 1 <= L PROVE UnitsOfLast[n + 1] \in Nat
    OBVIOUS
  <2>2. UnitsOfLast[n] \in Nat /\ n + 1 \in 1..L /\ L + 1 - (n + 1) \in 1..L
    BY <1>0, <1>5, <2>1
  <2>3. UnitsOfLast[n + 1] = UnitsOfLast[n] + Units(file[L + 1 - (n + 1)])
    <3>1. n + 1 - 1 = n
      OBVIOUS
    <3> QED
      BY <1>2, <2>2, <3>1
  <2> QED
    BY <1>3, <2>2, <2>3
<1> HIDE DEF T
<1>6. \A n \in Nat : n \in T
  BY <1>4, <1>5, SetInduction
<1> DEFINE k == L + 1 - i
<1>7. k \in 1..L /\ L + 1 - k = i /\ k - 1 \in Nat /\ k - 1 <= L
  BY <1>0
<1> HIDE DEF k
<1>8. UnitsOfLast[k - 1] \in Nat
  BY <1>6, <1>7 DEF T
<1>9. UnitsOfLast[k] = UnitsOfLast[k - 1] + (1 + file[i].size)
  <2>1. UnitsOfLast[k] = UnitsOfLast[k - 1] + Units(file[L + 1 - k])
    BY <1>2, <1>7
  <2> QED
    BY <1>7, <2>1 DEF Units
<1>10. file[i].size \in Nat
  BY <1>0 DEF Records
<1> QED
  BY <1>8, <1>9, <1>10 DEF UnitsLeft, L, k

\* The scan ends: it has read every record or stands at one it does not accept.
LEMMA ReadableIs ==
  ASSUME file \in Seq(Records)
  PROVE  /\ Readable \in 0..Len(file)
         /\ \A i \in 1..Readable : Accepts(i)
         /\ Readable < Len(file) => ~Accepts(Readable + 1)
<1> DEFINE L == Len(file)
           U == {i \in 1..L : ~Accepts(i)}
           Stops(n) == /\ \A i \in 1..n : Accepts(i)
                       /\ n < L => ~Accepts(n + 1)
<1>1. L \in Nat
  OBVIOUS
<1> HIDE DEF L
<1>2. \E n \in 0..L : Stops(n)
  <2>1. CASE U = {}
    <3>1. L \in 0..L /\ \A i \in 1..L : Accepts(i)
      BY <1>1, <2>1
    <3> QED
      BY <1>1, <3>1
  <2>2. CASE U # {}
    <3>1. U \in SUBSET Nat
      BY <1>1
    <3> HIDE DEF U
    <3>2. PICK i \in U : \A m \in U : i <= m
      BY <2>2, <3>1, LeastNumber
    <3>3. i \in 1..L /\ ~Accepts(i) /\ \A m \in 1..L : m < i => Accepts(m)
      BY <1>1, <3>2 DEF U
    <3>4. i - 1 \in 0..L /\ i - 1 + 1 = i /\ \A m \in 1..(i - 1) : m \in 1..L /\ m < i
      BY <1>1, <3>3
    <3>5. Stops(i - 1)
      BY <3>3, <3>4
    <3> HIDE DEF Stops
    <3> QED
      BY <3>4, <3>5
  <2> QED
    BY <2>1, <2>2
<1>3. Readable = CHOOSE n \in 0..L : Stops(n)
  BY DEF Readable, L
<1> HIDE DEF Stops
<1>4. Readable \in 0..L /\ Stops(Readable)
  BY <1>2, <1>3
<1> QED
  BY <1>4 DEF Stops, L

LEMMA ReadableBelow ==
  ASSUME file \in Seq(Records), Readable # Len(file)
  PROVE  Readable < Len(file) /\ Readable \in Nat /\ Readable + 1 \in 1..Len(file)
<1>1. Len(file) \in Nat /\ Readable \in 0..Len(file)
  BY ReadableIs
<1> QED
  BY <1>1
-----------------------------------------------------------------------------
(* What a scan reports *)

\* A scan reports a clean file exactly when it accepts every record.
LEMMA CleanReads ==
  ASSUME file \in Seq(Records)
  PROVE  Report = "clean" <=> Reads
<1>1. /\ Readable \in 0..Len(file) /\ Len(file) \in Nat /\ DOMAIN file = 1..Len(file)
      /\ \A i \in 1..Readable : Accepts(i)
      /\ Readable < Len(file) => ~Accepts(Readable + 1)
  BY ReadableIs
<1>2. \A i : Found(i) # "clean"
  BY DEF Found, CutOff
<1>3. Report = "clean" <=> Readable = Len(file)
  BY <1>2 DEF Report
<1>4. CASE Readable = Len(file)
  BY <1>1, <1>3, <1>4 DEF Reads
<1>5. CASE Readable # Len(file)
  <2>1. Readable + 1 \in DOMAIN file /\ ~Accepts(Readable + 1)
    <3>1. Readable < Len(file) /\ Readable + 1 \in 1..Len(file)
      BY <1>5, ReadableBelow
    <3> QED
      BY <1>1, <3>1
  <2> QED
    BY <1>3, <1>5, <2>1 DEF Reads
<1> QED
  BY <1>4, <1>5

\* Where a scan that is not clean stops, and with what.
LEMMA StopsAt ==
  ASSUME file \in Seq(Records), Report # "clean"
  PROVE  /\ Readable \in Nat /\ Readable + 1 \in DOMAIN file
         /\ ~Accepts(Readable + 1) /\ Report = Found(Readable + 1)
<1>1. /\ Readable \in 0..Len(file) /\ Len(file) \in Nat /\ DOMAIN file = 1..Len(file)
      /\ Readable < Len(file) => ~Accepts(Readable + 1)
  BY ReadableIs
<1>2. Readable # Len(file) /\ Report = Found(Readable + 1)
  BY DEF Report
<1>3. Readable < Len(file) /\ Readable \in Nat /\ Readable + 1 \in 1..Len(file)
  BY <1>2, ReadableBelow
<1> QED
  BY <1>1, <1>2, <1>3

\* As long as nothing but interrupted appends happened, no scan reports
\* corruption.
LEMMA InterruptedIsTorn ==
  ASSUME TypeOK, CrashInv, damage = 0, ~scarred
  PROVE  Report # "degraded"
<1>1. CASE Report = "clean"
  BY <1>1
<1>2. CASE Report # "clean"
  <2> DEFINE i == Readable + 1
  <2>1. i \in DOMAIN file /\ ~Accepts(i) /\ Report = Found(i)
    BY <1>2, StopsAt DEF TypeOK
  <2> HIDE DEF i
  <2>2. Written(i) /\ Continues(i)
    BY <2>1 DEF CrashInv
  <2>3. ~file[i].whole \/ ~PermittedLength(file[i].says, MaxRecordBytes)
    BY <2>1, <2>2 DEF Accepts, AcceptsWithin, IntactWithin, Written, Continues
  <2> QED
    BY <2>1, <2>3 DEF Found, CutOff
<1> QED
  BY <1>1, <1>2

\* A record that the tool accepts and the runtime does not is too long for it,
\* which is a torn tail.
LEMMA VerifiedIsTorn ==
  ASSUME TypeOK, ToolReads, Len(file) <= ToolMaxRecords, Report # "clean"
  PROVE  /\ Report # "degraded"
         /\ \E i \in DOMAIN file : file[i].size > MaxRecordBytes
<1> DEFINE i == Readable + 1
<1>1. i \in DOMAIN file /\ ~Accepts(i) /\ Report = Found(i)
  BY StopsAt DEF TypeOK
<1> HIDE DEF i
<1>2. /\ DOMAIN file = 1..Len(file) /\ Len(file) \in Nat /\ file[i].size \in Nat
      /\ ToolMaxRecords \in Nat /\ MaxRecordBytes \in Nat
  <2>1. file[i] \in Records /\ file \in Seq(Records)
    BY <1>1 DEF TypeOK
  <2> QED
    BY <2>1, JournalFileAssumption DEF Records
<1>3. AcceptsWithin(i, ToolRecordBytes)
  <2>1. i \in Nat /\ i <= ToolMaxRecords
    BY <1>1, <1>2
  <2> QED
    BY <1>1, <2>1 DEF ToolReads
<1>4. file[i].whole /\ file[i].says = file[i].size /\ ~PermittedLength(file[i].size, MaxRecordBytes)
  BY <1>1, <1>3 DEF Accepts, AcceptsWithin, IntactWithin, PermittedLength
<1>5. Found(i) = "torn"
  BY <1>4 DEF Found
<1>6. file[i].size > MaxRecordBytes
  BY <1>2, <1>3, <1>4 DEF AcceptsWithin, IntactWithin, PermittedLength
<1> QED
  BY <1>1, <1>5, <1>6

\* A torn tail in front of an intact record is there because of a length.
LEMMA TornBecause ==
  ASSUME TypeOK, CutOffInv, Report = "torn"
  PROVE  CutIntact(Readable + 1) \subseteq {"length", "too long"}
<1> DEFINE i == Readable + 1
<1>1. i \in DOMAIN file /\ ~Accepts(i) /\ Found(i) = "torn"
  BY StopsAt DEF TypeOK
<1> HIDE DEF i
<1>2. DOMAIN file = 1..Len(file) /\ Len(file) \in Nat /\ file[i] \in Records
  BY <1>1 DEF TypeOK
<1>3. ASSUME NEW j \in (i + 1)..Len(file), Intact(file[j])
      PROVE  Fault(i) \in {"length", "too long"}
  <2>1. file[i].whole
    BY <1>1, <1>2 DEF CutOffInv
  <2>2. IntactRecordFollows(i)
    BY <1>3 DEF IntactRecordFollows
  <2>3. ASSUME file[i].says = file[i].size, PermittedLength(file[i].size, MaxRecordBytes)
        PROVE  FALSE
    <3>1. file[i].size <= UnitsLeft(i) /\ UnitsLeft(i) \in Nat /\ file[i].size \in Nat
      BY <1>1, <1>2, <2>1, UnitsLeftEnough DEF TypeOK, Records
    <3>2. ~(file[i].says > UnitsLeft(i))
      BY <2>3, <3>1
    <3> QED
      BY <1>1, <2>1, <2>2, <2>3, <3>2 DEF Found
  <2> QED
    BY <2>1, <2>3 DEF Fault
<1> QED
  BY <1>3 DEF CutIntact, i
-----------------------------------------------------------------------------
(* The invariant is inductive *)

LEMMA InitInv == Init => IInv
<1> SUFFICES ASSUME Init PROVE IInv
  OBVIOUS
<1>1. file = <<>> /\ DOMAIN file = {}
  BY DEF Init
<1>2. TypeOK
  <2>1. file \in Seq(Records)
    BY <1>1
  <2> QED
    BY <2>1 DEF Init, TypeOK
<1>3. CutOffInv /\ UpInv /\ CrashInv /\ HeaderInv
  BY <1>1 DEF Init, CutOffInv, UpInv, CrashInv, HeaderInv
<1>4. RefusedInv /\ LostInv /\ VerifiedInv
  BY DEF Init, RefusedInv, LostInv, VerifiedInv
<1> QED
  BY <1>2, <1>3, <1>4 DEF IInv

\* A step that leaves the file alone keeps what is said of its records.
LEMMA SameFile ==
  ASSUME IInv, UNCHANGED <<file, damage, scarred>>
  PROVE  /\ file' \in Seq(Records) /\ CutOffInv' /\ CrashInv'
         /\ (Reads => Reads') /\ (ToolReads => ToolReads')
  BY DEF IInv, TypeOK, CutOffInv, CrashInv, Written, Continues, Reads, ToolReads, Accepts,
         AcceptsWithin

\* Opening: refused for a reason, or up with a file in which every record is
\* intact and continues the one before.
LEMMA OpenInv ==
  ASSUME IInv, Open
  PROVE  IInv'
<1> USE DEF IInv
<1>0. /\ file \in Seq(Records) /\ TypeOK
      /\ UNCHANGED <<header, appended, acked, damage, scarred>>
  BY DEF Open, TypeOK
<1>1. CASE header = "garbage" \/ Report = "degraded"
  <2>1. proc' = "refused" /\ UNCHANGED <<file, synced, lost, verified>>
    BY <1>1 DEF Open
  <2>2. TypeOK'
    BY <1>0, <2>1 DEF TypeOK
  <2>3. damage > 0 \/ scarred \/ header = "garbage"
    BY <1>0, <1>1, InterruptedIsTorn DEF TypeOK
  <2>4. ~(verified /\ Len(file) <= ToolMaxRecords)
    <3>1. SUFFICES ASSUME verified, Len(file) <= ToolMaxRecords PROVE FALSE
      OBVIOUS
    <3>2. header = "ok" /\ ToolReads
      BY <3>1 DEF VerifiedInv
    <3> QED
      BY <1>0, <1>1, <3>1, <3>2, VerifiedIsTorn
  <2>5. CutOffInv' /\ CrashInv' /\ (ToolReads => ToolReads')
    BY <1>0, <2>1, SameFile
  <2>6. UpInv' /\ HeaderInv' /\ RefusedInv' /\ LostInv' /\ VerifiedInv'
    BY <1>0, <2>1, <2>3, <2>4, <2>5 DEF UpInv, HeaderInv, RefusedInv, LostInv, VerifiedInv
  <2> QED
    BY <2>2, <2>5, <2>6
<1>2. CASE ~(header = "garbage" \/ Report = "degraded")
  <2>1. proc' = "up" /\ header = "ok"
    BY <1>2 DEF Open
  <2>2. /\ file' \in Seq(Records) /\ synced' \in Nat /\ lost' \subseteq {"length", "too long"}
        /\ Reads' /\ verified' \in BOOLEAN /\ (verified' => verified /\ (ToolReads => ToolReads'))
    <3>1. CASE Report = "torn"
      <4>1. /\ file' = Truncated /\ synced' = Len(file') /\ verified' = FALSE
            /\ lost' = lost \union CutIntact(Readable + 1)
        BY <1>2, <3>1 DEF Open
      <4>2. /\ Readable \in 0..Len(file) /\ Len(file) \in Nat
            /\ \A i \in 1..Readable : Accepts(i)
        BY <1>0, ReadableIs
      <4>3. Readable \in Nat
        BY <4>2
      <4>4. file' \in Seq(Records) /\ Len(file') = Readable /\ \A i \in 1..Readable : file'[i] = file[i]
        BY <1>0, <4>1, <4>2 DEF Truncated
      <4>5. Reads'
        <5>1. SUFFICES ASSUME NEW i \in 1..Readable PROVE Accepts(i)'
          BY <4>4 DEF Reads
        <5>2. Accepts(i) /\ file'[i] = file[i] /\ (i > 1 => file'[i - 1] = file[i - 1])
          BY <4>2, <4>3, <4>4
        <5> QED
          BY <5>2 DEF Accepts, AcceptsWithin
      <4>6. lost' \subseteq {"length", "too long"}
        BY <1>0, <3>1, <4>1, TornBecause DEF LostInv
      <4> QED
        BY <4>1, <4>3, <4>4, <4>5, <4>6
    <3>2. CASE Report # "torn"
      <4>1. UNCHANGED <<file, synced, lost, verified>>
        BY <1>2, <3>2 DEF Open
      <4>2. Report = "clean"
        BY <1>2, <3>2 DEF Report, Found, CutOff
      <4>3. Reads
        BY <1>0, <4>2, CleanReads
      <4> QED
        BY <1>0, <4>1, <4>3, SameFile DEF TypeOK, LostInv
    <3> QED
      BY <3>1, <3>2
  <2>3. \A i \in DOMAIN file' : file'[i].whole /\ Written(i)' /\ Continues(i)'
    BY <2>2 DEF Reads, Accepts, AcceptsWithin, IntactWithin, PermittedLength, Written, Continues
  <2>4. TypeOK'
    BY <1>0, <2>1, <2>2 DEF TypeOK
  <2>5. CutOffInv' /\ UpInv' /\ CrashInv'
    BY <2>3 DEF CutOffInv, UpInv, CrashInv
  <2>6. HeaderInv' /\ RefusedInv' /\ LostInv' /\ VerifiedInv'
    BY <1>0, <2>1, <2>2 DEF HeaderInv, RefusedInv, LostInv, VerifiedInv
  <2> QED
    BY <2>4, <2>5, <2>6
<1> QED
  BY <1>1, <1>2

LEMMA AppendInv ==
  ASSUME IInv, NEW body \in Bodies, Append1(body)
  PROVE  IInv'
<1> USE DEF IInv
<1> DEFINE r == Record(NextOrdinal(file), {appended + 1}, body)
<1>0. /\ file \in Seq(Records) /\ TypeOK /\ proc = "up" /\ header = "ok" /\ body \in Nat
      /\ Len(file) \in Nat /\ DOMAIN file = 1..Len(file)
  BY JournalFileAssumption DEF Append1, TypeOK, HeaderInv
<1>1. /\ file' = Append(file, r) /\ appended' = appended + 1 /\ verified' = FALSE
      /\ UNCHANGED <<proc, header, synced, acked, damage, scarred, lost>>
  BY DEF Append1
<1>2. /\ NextOrdinal(file) \in Nat
      /\ file # <<>> => NextOrdinal(file) = file[Len(file)].ordinal + 1
  <2>1. CASE file = <<>>
    BY <2>1 DEF NextOrdinal
  <2>2. CASE file # <<>>
    <3>1. file[Len(file)] \in Records
      BY <1>0, <2>2
    <3> QED
      BY <2>2, <3>1 DEF NextOrdinal, Last, Records
  <2> QED
    BY <2>1, <2>2
<1>3. /\ r.ordinal = NextOrdinal(file) /\ r.whole /\ r.sound /\ r.says = r.size
      /\ r.size \in Nat /\ r.size >= PrefixBytes
  BY <1>0 DEF Record, PrefixBytes
<1>4. r \in Records
  BY <1>0, <1>2 DEF Record, Records, PrefixBytes, TypeOK
<1> HIDE DEF r
<1>5. /\ file' \in Seq(Records) /\ DOMAIN file' = 1..(Len(file) + 1)
      /\ \A i \in 1..Len(file) : file'[i] = file[i]
      /\ file'[Len(file) + 1] = r
  BY <1>0, <1>1, <1>4
<1>6. \A i \in DOMAIN file' : file'[i].whole /\ Written(i)' /\ Continues(i)'
  <2>1. SUFFICES ASSUME NEW i \in 1..(Len(file) + 1)
                 PROVE  file'[i].whole /\ Written(i)' /\ Continues(i)'
    BY <1>5
  <2>2. CASE i \in 1..Len(file)
    <3>1. file[i].whole /\ Written(i) /\ Continues(i)
      BY <1>0, <2>2 DEF UpInv
    <3>2. file'[i] = file[i] /\ (i > 1 => file'[i - 1] = file[i - 1])
      BY <1>0, <1>5, <2>2
    <3> QED
      BY <3>1, <3>2 DEF Written, Continues
  <2>3. CASE i = Len(file) + 1
    <3>1. file'[i] = r
      BY <1>5, <2>3
    <3>2. i > 1 => file # <<>> /\ file'[i - 1] = file[Len(file)]
      BY <1>0, <1>5, <2>3
    <3> QED
      BY <1>2, <1>3, <3>1, <3>2 DEF Written, Continues
  <2> QED
    BY <1>0, <2>2, <2>3
<1>7. TypeOK'
  <2>1. appended' \in Nat /\ synced' \in Nat /\ damage' \in Nat
    BY <1>0, <1>1 DEF TypeOK
  <2>2. verified' \in BOOLEAN
    BY <1>1
  <2>3. proc' = proc /\ header' = header
    BY <1>1
  <2> QED
    BY <1>0, <1>5, <2>1, <2>2, <2>3 DEF TypeOK
<1>8. CutOffInv' /\ UpInv' /\ CrashInv'
  BY <1>6 DEF CutOffInv, UpInv, CrashInv
<1>9. HeaderInv' /\ RefusedInv' /\ LostInv' /\ VerifiedInv'
  BY <1>0, <1>1 DEF HeaderInv, RefusedInv, LostInv, VerifiedInv
<1> QED
  BY <1>7, <1>8, <1>9

LEMMA CompactInv ==
  ASSUME IInv, NEW body \in Bodies, Compact(body)
  PROVE  IInv'
<1> USE DEF IInv
<1> DEFINE r == Record(Last(file).ordinal, Ids(file), body)
<1>0. /\ file \in Seq(Records) /\ TypeOK /\ proc = "up" /\ body \in Nat /\ file # <<>>
  BY JournalFileAssumption DEF Compact, TypeOK
<1>1. /\ file' = <<r>> /\ synced' = 1 /\ header' = "ok" /\ verified' = FALSE
      /\ UNCHANGED <<proc, appended, damage, scarred, lost>>
  BY DEF Compact
<1>2. file[Len(file)] \in Records /\ \A i \in DOMAIN file : file[i] \in Records
  BY <1>0
<1>3. Last(file).ordinal \in Nat
  BY <1>2 DEF Last, Records
<1>4. Ids(file) \in SUBSET Nat
  BY <1>2 DEF Ids, Records
<1>5. r \in Records
  BY <1>0, <1>3, <1>4 DEF Record, Records, PrefixBytes
<1>6. r.whole /\ r.sound /\ r.says = r.size /\ r.size >= PrefixBytes
  BY <1>0 DEF Record, PrefixBytes
<1> HIDE DEF r
<1>7. file' \in Seq(Records) /\ DOMAIN file' = {1} /\ file'[1] = r
  BY <1>1, <1>5
<1>8. \A i \in DOMAIN file' : file'[i].whole /\ Written(i)' /\ Continues(i)'
  BY <1>6, <1>7 DEF Written, Continues
<1>9. TypeOK'
  BY <1>0, <1>1, <1>7 DEF TypeOK
<1>10. CutOffInv' /\ UpInv' /\ CrashInv'
  BY <1>8 DEF CutOffInv, UpInv, CrashInv
<1>11. HeaderInv' /\ RefusedInv' /\ LostInv' /\ VerifiedInv'
  BY <1>0, <1>1 DEF HeaderInv, RefusedInv, LostInv, VerifiedInv
<1> QED
  BY <1>9, <1>10, <1>11

\* A crash: what survives is whole but for the last record, and as it was
\* written when no page is missing.
LEMMA CrashStep ==
  ASSUME IInv, Crash
  PROVE  IInv'
<1> USE DEF IInv
<1>0. /\ file \in Seq(Records) /\ TypeOK /\ proc = "up" /\ header = "ok" /\ Len(file) \in Nat
      /\ synced \in Nat /\ DOMAIN file = 1..Len(file)
      /\ \A i \in 1..Len(file) : file[i] \in Records /\ file[i].whole /\ Written(i) /\ Continues(i)
  BY DEF Crash, TypeOK, HeaderInv, UpInv
<1>1. /\ proc' = "down" /\ verified' = FALSE
      /\ UNCHANGED <<header, synced, appended, acked, damage, lost>>
  BY DEF Crash
<1>prefix. PICK n \in synced..Len(file) :
      \E holes \in [(synced + 1)..n -> {"none", "header", "payload"}], cut \in BOOLEAN :
        /\ cut => n < Len(file)
        /\ file' = [i \in 1..n |->
                        IF i > synced /\ holes[i] # "none" THEN Unwritten(file[i], holes[i])
                                                           ELSE file[i]]
                     \o (IF cut THEN <<[file[n + 1] EXCEPT !.whole = FALSE]>> ELSE <<>>)
        /\ scarred' = (scarred \/ \E i \in DOMAIN holes : holes[i] # "none")
  BY DEF Crash
<1>2. PICK holes \in [(synced + 1)..n -> {"none", "header", "payload"}], cut \in BOOLEAN :
        /\ cut => n < Len(file)
        /\ file' = [i \in 1..n |->
                        IF i > synced /\ holes[i] # "none" THEN Unwritten(file[i], holes[i])
                                                           ELSE file[i]]
                     \o (IF cut THEN <<[file[n + 1] EXCEPT !.whole = FALSE]>> ELSE <<>>)
        /\ scarred' = (scarred \/ \E i \in DOMAIN holes : holes[i] # "none")
  BY <1>prefix
<1> DEFINE kept == [i \in 1..n |->
                      IF i > synced /\ holes[i] # "none" THEN Unwritten(file[i], holes[i])
                                                         ELSE file[i]]
           part == [file[n + 1] EXCEPT !.whole = FALSE]
<1>3. n \in Nat /\ n <= Len(file) /\ \A i \in 1..n : i \in 1..Len(file)
  BY <1>0, <1>2
<1>4. \A i \in 1..n : /\ kept[i] \in Records /\ kept[i].whole
                      /\ kept[i] = file[i] \/ (i \in DOMAIN holes /\ holes[i] # "none")
  <2>1. TAKE i \in 1..n
  <2>2. file[i] \in Records /\ file[i].whole
    BY <1>0, <1>3
  <2>3. Unwritten(file[i], holes[i]) \in Records /\ Unwritten(file[i], holes[i]).whole
    BY <2>2 DEF Unwritten, Records
  <2>4. i > synced => i \in DOMAIN holes
    BY <1>0, <1>3
  <2> QED
    BY <2>2, <2>3, <2>4
<1>5. cut => /\ n + 1 \in 1..Len(file) /\ part \in Records
             /\ part.ordinal = file[n + 1].ordinal /\ part.size = file[n + 1].size
             /\ part.says = file[n + 1].says /\ part.sound = file[n + 1].sound
  <2>1. SUFFICES ASSUME cut PROVE
             /\ n + 1 \in 1..Len(file) /\ part \in Records
             /\ part.ordinal = file[n + 1].ordinal /\ part.size = file[n + 1].size
             /\ part.says = file[n + 1].says /\ part.sound = file[n + 1].sound
    OBVIOUS
  <2>2. n + 1 \in 1..Len(file)
    BY <1>0, <1>2, <1>3, <2>1
  <2>3. file[n + 1] \in Records
    BY <1>0, <2>2
  <2> QED
    BY <2>2, <2>3 DEF Records
<1>6. kept \in Seq(Records) /\ Len(kept) = n
  <2>1. kept \in [1..n -> Records]
    BY <1>4
  <2> HIDE DEF kept
  <2> QED
    BY <1>3, <2>1
<1>7. file' = kept \o (IF cut THEN <<part>> ELSE <<>>)
  BY <1>2
<1> HIDE DEF kept, part
<1>8. /\ file' \in Seq(Records) /\ DOMAIN file' = 1..Len(file')
      /\ Len(file') = IF cut THEN n + 1 ELSE n
      /\ \A i \in 1..n : file'[i] = kept[i]
      /\ cut => file'[n + 1] = part
  <2>1. CASE cut
    <3>1. part \in Records /\ file' = kept \o <<part>>
      BY <1>5, <1>7, <2>1
    <3> QED
      BY <1>3, <1>6, <2>1, <3>1
  <2>2. CASE ~cut
    <3>1. file' = kept
      BY <1>6, <1>7, <2>2
    <3> QED
      BY <1>3, <1>6, <2>2, <3>1
  <2> QED
    BY <1>2, <2>1, <2>2
<1>9. CutOffInv'
  <2>1. SUFFICES ASSUME NEW i \in DOMAIN file', i < Len(file') PROVE file'[i].whole
    BY DEF CutOffInv
  <2>2. i \in 1..n
    BY <1>3, <1>8, <2>1
  <2> QED
    BY <1>4, <1>8, <2>2
<1>10. CrashInv'
  <2>1. SUFFICES ASSUME damage' = 0, ~scarred', NEW i \in DOMAIN file'
                 PROVE  Written(i)' /\ Continues(i)'
    BY DEF CrashInv
  <2>2. \A j \in DOMAIN holes : holes[j] = "none"
    BY <1>2, <2>1
  <2>3. \A j \in 1..n : file'[j] = file[j]
    BY <1>4, <1>8, <2>2
  <2>4. CASE i \in 1..n
    <3>1. file'[i] = file[i] /\ (i > 1 => file'[i - 1] = file[i - 1])
      BY <1>3, <2>3, <2>4
    <3>2. Written(i) /\ Continues(i)
      BY <1>0, <1>3, <2>4
    <3> QED
      BY <3>1, <3>2 DEF Written, Continues
  <2>5. CASE i \notin 1..n
    <3>1. cut /\ i = n + 1
      BY <1>2, <1>3, <1>8, <2>1, <2>5
    <3>2. i > 1 => file'[i - 1] = file[i - 1]
      BY <1>3, <2>3, <3>1
    <3>3. Written(i) /\ Continues(i) /\ file'[i] = part
      BY <1>0, <1>5, <1>8, <3>1
    <3> QED
      BY <1>5, <3>1, <3>2, <3>3 DEF Written, Continues
  <2> QED
    BY <2>4, <2>5
<1>11. TypeOK'
  <2>1. verified' \in BOOLEAN
    BY <1>1
  <2> QED
    BY <1>0, <1>1, <1>8, <2>1 DEF TypeOK
<1>12. UpInv' /\ HeaderInv' /\ RefusedInv' /\ LostInv' /\ VerifiedInv'
  BY <1>0, <1>1 DEF UpInv, HeaderInv, RefusedInv, LostInv, VerifiedInv
<1> QED
  BY <1>9, <1>10, <1>11, <1>12

LEMMA RotInv ==
  ASSUME IInv, NEW k \in DOMAIN file, Rot(k)
  PROVE  IInv'
<1> USE DEF IInv
<1>0. /\ file \in Seq(Records) /\ TypeOK /\ proc = "down" /\ damage \in Nat
      /\ file[k] \in Records
  BY DEF Rot, TypeOK
<1>1. /\ damage' = damage + 1 /\ verified' = FALSE
      /\ UNCHANGED <<proc, header, synced, appended, acked, scarred, lost>>
  BY DEF Rot
<1>2. PICK length \in 0..(MaxRecordBytes + 2) :
         file' = [file EXCEPT ![k].says = length, ![k].sound = FALSE]
  BY DEF Rot
<1>3. length \in Nat
  BY <1>2
<1>4. [file[k] EXCEPT !.says = length, !.sound = FALSE] \in Records
  BY <1>0, <1>3 DEF Records
<1>5. file' = [file EXCEPT ![k] = [file[k] EXCEPT !.says = length, !.sound = FALSE]]
  BY <1>0, <1>2
<1>6. file' \in Seq(Records) /\ Len(file') = Len(file) /\ DOMAIN file' = DOMAIN file
  BY <1>0, <1>4, <1>5
<1>7. \A i \in DOMAIN file : file'[i].whole = file[i].whole
  BY <1>0, <1>5, <1>6 DEF Records
<1>8. CutOffInv'
  BY <1>6, <1>7 DEF CutOffInv
<1>9. CrashInv'
  BY <1>0, <1>1 DEF CrashInv
<1>10. TypeOK'
  <2>1. damage' \in Nat
    BY <1>0, <1>1
  <2>2. verified' \in BOOLEAN
    BY <1>1
  <2> QED
    BY <1>0, <1>1, <1>6, <2>1, <2>2 DEF TypeOK
<1>11. UpInv' /\ RefusedInv' /\ LostInv' /\ VerifiedInv'
  BY <1>0, <1>1 DEF UpInv, RefusedInv, LostInv, VerifiedInv
<1>12. HeaderInv'
  <2>1. file # <<>>
    OBVIOUS
  <2> QED
    BY <1>0, <1>1, <2>1 DEF HeaderInv
<1> QED
  BY <1>8, <1>9, <1>10, <1>11, <1>12

LEMMA NextInv == IInv /\ [Next]_vars => IInv'
<1> SUFFICES ASSUME IInv, [Next]_vars PROVE IInv'
  OBVIOUS
<1> USE DEF IInv
<1>1. CASE CreateHeader
  <2>1. /\ header' = "fresh" /\ header \in {"none", "empty"}
        /\ UNCHANGED <<proc, file, synced, appended, acked, damage, scarred, lost, verified>>
    BY <1>1 DEF CreateHeader
  <2>2. file' = <<>> /\ DOMAIN file' = {}
    BY <2>1 DEF HeaderInv
  <2> QED
    BY <2>1, <2>2 DEF TypeOK, CutOffInv, UpInv, CrashInv, HeaderInv, RefusedInv, LostInv, VerifiedInv
<1>2. CASE SyncHeader
  <2>1. /\ header' = "ok" /\ proc' = "up" /\ header = "fresh"
        /\ UNCHANGED <<file, synced, appended, acked, damage, scarred, lost, verified>>
    BY <1>2 DEF SyncHeader
  <2>2. file' = <<>> /\ DOMAIN file' = {}
    BY <2>1 DEF HeaderInv
  <2> QED
    BY <2>1, <2>2 DEF TypeOK, CutOffInv, UpInv, CrashInv, HeaderInv, RefusedInv, LostInv, VerifiedInv
<1>3. CASE Open
  BY <1>3, OpenInv
<1>4. CASE Flush
  <2>1. /\ proc = "up" /\ synced' = Len(file)
        /\ UNCHANGED <<proc, header, file, appended, damage, scarred, lost, verified>>
    BY <1>4 DEF Flush
  <2>2. CutOffInv' /\ CrashInv' /\ (ToolReads => ToolReads')
    BY <2>1, SameFile
  <2>3. TypeOK'
    BY <2>1 DEF TypeOK
  <2>4. UpInv' /\ HeaderInv' /\ RefusedInv' /\ LostInv' /\ VerifiedInv'
    BY <2>1, <2>2 DEF UpInv, HeaderInv, RefusedInv, LostInv, VerifiedInv, Written, Continues
  <2> QED
    BY <2>2, <2>3, <2>4
<1>5. CASE Crash
  BY <1>5, CrashStep
<1>6. CASE CrashBeforeHeader
  <2>1. /\ header = "fresh" /\ proc = "down" /\ header' \in {"none", "empty", "ok", "garbage"}
        /\ UNCHANGED <<proc, file, synced, appended, acked, damage, scarred, lost, verified>>
    BY <1>6 DEF CrashBeforeHeader
  <2>2. file' = <<>> /\ DOMAIN file' = {}
    BY <2>1 DEF HeaderInv
  <2>3. TypeOK'
    BY <2>1 DEF TypeOK
  <2> QED
    BY <2>1, <2>2, <2>3 DEF CutOffInv, UpInv, CrashInv, HeaderInv, RefusedInv, LostInv, VerifiedInv
<1>7. CASE Verify
  <2>1. /\ proc = "down" /\ header \in {"empty", "ok", "garbage"}
        /\ header' = IF header = "empty" THEN "ok" ELSE header
        /\ verified' = VerdictOk
        /\ UNCHANGED <<proc, file, synced, appended, acked, damage, scarred, lost>>
    BY <1>7 DEF Verify
  <2>2. CutOffInv' /\ CrashInv' /\ (ToolReads => ToolReads')
    BY <2>1, SameFile
  <2>3. TypeOK'
    <3>1. verified' \in BOOLEAN
      BY <2>1 DEF VerdictOk
    <3> QED
      BY <2>1, <3>1 DEF TypeOK
  <2>4. VerifiedInv'
    <3>1. SUFFICES ASSUME verified' PROVE header' = "ok" /\ proc' # "refused" /\ ToolReads'
      BY DEF VerifiedInv
    <3>2. header # "garbage" /\ ToolReads
      BY <2>1, <3>1 DEF VerdictOk, ToolReads
    <3> QED
      BY <2>1, <2>2, <3>2
  <2>5. UpInv' /\ HeaderInv' /\ RefusedInv' /\ LostInv'
    BY <2>1 DEF UpInv, HeaderInv, RefusedInv, LostInv
  <2> QED
    BY <2>2, <2>3, <2>4, <2>5
<1>8. ASSUME NEW body \in Bodies, Append1(body) PROVE IInv'
  BY <1>8, AppendInv
<1>9. ASSUME NEW body \in Bodies, Compact(body) PROVE IInv'
  BY <1>9, CompactInv
<1>10. ASSUME NEW i \in DOMAIN file, Rot(i) PROVE IInv'
  BY <1>10, RotInv
<1>11. CASE UNCHANGED vars
  BY <1>11, SameFile DEF vars, TypeOK, UpInv, HeaderInv, RefusedInv, LostInv, VerifiedInv, Written,
     Continues
<1> QED
  BY <1>1, <1>2, <1>3, <1>4, <1>5, <1>6, <1>7, <1>8, <1>9, <1>10, <1>11 DEF Next

\* The invariant of the file: what each record can look like while the runtime
\* is up and after a crash, why a file was refused, and what repairs cut.
THEOREM FileInvariant == Spec => []IInv
  BY InitInv, NextInv, PTL DEF Spec

\* Recovery (JournalReader::open and next, Fabric::initialize) refuses a file
\* only when the medium has damaged a record, when a power loss kept later pages
\* without earlier ones, or when the very first start was interrupted before its
\* header was synced, and then nothing was ever acknowledged.  A file that lqf
\* journal-verify has passed opens as it is if the tool read all of it and no
\* record is longer than the runtime permits.
THEOREM RefusalsJustified == Spec => []RefusedOnlyForDamage
<1>1. IInv => RefusedOnlyForDamage
  <2> SUFFICES ASSUME IInv PROVE RefusedOnlyForDamage
    OBVIOUS
  <2>1. proc = "refused" => damage > 0 \/ scarred \/ (header = "garbage" /\ acked = {})
    BY DEF IInv, RefusedInv, HeaderInv
  <2>2. ASSUME verified, Len(file) <= ToolMaxRecords
        PROVE  /\ proc # "refused"
               /\ Report = "clean" \/ \E i \in DOMAIN file : file[i].size > MaxRecordBytes
    BY <2>2, VerifiedIsTorn DEF IInv, VerifiedInv
  <2> QED
    BY <2>1, <2>2 DEF RefusedOnlyForDamage
<1> QED
  BY <1>1, FileInvariant, PTL

\* A repair (repair_torn_tail) cuts no intact record that was acknowledged
\* because of a checksum, an interrupted append or an ordinal, and while the
\* runtime is up the file reads back to its end unless a record is longer than
\* next permits.
THEOREM RepairsExact == Spec => []RepairIsExact
<1>1. IInv => RepairIsExact
  <2> SUFFICES ASSUME IInv PROVE RepairIsExact
    OBVIOUS
  <2>2. ASSUME proc = "up", \A i \in DOMAIN file : ~(file[i].size > MaxRecordBytes)
        PROVE  Report = "clean"
    <3>1. SUFFICES ASSUME NEW i \in DOMAIN file PROVE Accepts(i)
      BY CleanReads DEF IInv, TypeOK, Reads
    <3>2. file[i].whole /\ Written(i) /\ Continues(i)
      BY <2>2 DEF IInv, UpInv
    <3>3. file[i].size \in Nat /\ MaxRecordBytes \in Nat
      <4>1. file \in Seq(Records)
        BY DEF IInv, TypeOK
      <4>2. file[i] \in Records
        BY <4>1
      <4> QED
        BY <4>2, JournalFileAssumption DEF Records
    <3>4. PermittedLength(file[i].size, MaxRecordBytes)
      BY <2>2, <3>2, <3>3 DEF PermittedLength, Written
    <3> QED
      BY <3>2, <3>4 DEF Accepts, AcceptsWithin, IntactWithin, Written, Continues
  <2> QED
    BY <2>2 DEF RepairIsExact, IInv, LostInv
<1> QED
  BY <1>1, FileInvariant, PTL
=============================================================================
