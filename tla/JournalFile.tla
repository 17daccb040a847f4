----------------------------- MODULE JournalFile -----------------------------
(***************************************************************************)
(* The journal file as JournalReader sees it (src/src/persist/journal.cpp):*)
(* the sizes, lengths and checksums of its records, what crashes and a bad *)
(* medium make of them, and what opening, repairing and lqf journal-verify *)
(* (src/apps/lqf/cmd_journal.cpp) make of that.  The queue, the writer and *)
(* the threads around the file are the business of Journal.                *)
(*                                                                         *)
(* Sizes are in units: a record is a header of one unit and a payload, the *)
(* payload a prefix (ordinal and kind) of one unit and the body.  A record *)
(* keeps the length its header states and whether its payload matches its  *)
(* checksum; bytes that are no record's payload never match one.  A crash  *)
(* keeps what was synced, and of the rest any pages in any order.          *)
(***************************************************************************)
EXTENDS Naturals, Sequences, FiniteSets, SequencesExt

CONSTANTS
    Bodies,          \* the sizes of bodies that are appended
    MaxRecordBytes,  \* max_record_bytes of the runtime's JournalConfig
    ToolRecordBytes, \* and of the default one, with which the tool reads
    ToolMaxRecords,  \* its max_recovery_records or max_recovery_bytes, in records
    MaxAppends,      \* bound on the records ever appended
    MaxDamage        \* bound on the faults of the medium

PrefixBytes == 1  \* kRecordPrefixBytes

ASSUME JournalFileAssumption ==
    /\ Bodies \subseteq Nat
    /\ {MaxRecordBytes, ToolRecordBytes, ToolMaxRecords, MaxAppends, MaxDamage} \subseteq Nat

VARIABLES
    proc,     \* the runtime: "up", "down", "refused" (it would not open)
    header,   \* the file header: "none" (no file), "empty", "fresh" (not synced), "ok",
              \* "garbage"
    file,     \* the records
    synced,   \* how many of them a completed sync covers
    appended, \* how many records were ever appended
    acked,    \* ghost: the appended records a flush or stop acknowledged
    damage,   \* how many faults the medium has had
    scarred,  \* ghost: a crash kept later pages without earlier ones
    lost,     \* ghost: why repairs cut acknowledged records that were intact
    verified  \* ghost: journal-verify passed the file as it is now

vars == <<proc, header, file, synced, appended, acked, damage, scarred, lost, verified>>

Init ==
    /\ proc = "down" /\ header = "none"
    /\ file = <<>> /\ synced = 0
    /\ appended = 0 /\ acked = {}
    /\ damage = 0 /\ scarred = FALSE /\ lost = {} /\ verified = FALSE

-----------------------------------------------------------------------------
(* Reading: JournalReader::next *)

\* encode_record_bytes.  A snapshot stands for several appended records.
Record(ordinal, ids, body) ==
    [ordinal |-> ordinal, ids |-> ids, size |-> PrefixBytes + body,
     says |-> PrefixBytes + body, sound |-> TRUE, whole |-> TRUE]

PermittedLength(length, limit) == length >= PrefixBytes /\ length <= limit

IntactWithin(r, limit) == r.whole /\ r.says = r.size /\ r.sound /\ PermittedLength(r.size, limit)

\* A record that the scan of intact_record_follows recognises.
Intact(r) == IntactWithin(r, MaxRecordBytes)

Units(r) == IF r.whole THEN 1 + r.size ELSE 1

\* The units of the last n records.
UnitsOfLast[n \in 0..Len(file)] ==
    IF n = 0 THEN 0 ELSE UnitsOfLast[n - 1] + Units(file[Len(file) + 1 - n])

\* The units from the payload of record i to the end of the file.
UnitsLeft(i) == UnitsOfLast[Len(file) + 1 - i] - 1

\* next() accepts record i after the ones before it, with a limit on records.
AcceptsWithin(i, limit) ==
    /\ IntactWithin(file[i], limit)
    /\ i > 1 => file[i].ordinal = file[i - 1].ordinal + 1

Accepts(i) == AcceptsWithin(i, MaxRecordBytes)

\* How many records recovery reads.
Readable == CHOOSE n \in 0..Len(file) :
    /\ \A i \in 1..n : Accepts(i)
    /\ n < Len(file) => ~Accepts(n + 1)

\* Mutated form: only the record right behind is looked at.
IntactRecordNext(i) == i < Len(file) /\ Intact(file[i + 1])

\* intact_record_follows, from the payload of record i.
IntactRecordFollows(i) == \E j \in (i + 1)..Len(file) : Intact(file[j])

\* Mutated form: a record that is cut off at the end counts as corruption.
CutOffRefused(i) == "degraded"

CutOff(i) == "torn"

\* What stopped the scan at record i.
Fault(i) ==
    LET r == file[i] IN
    IF ~r.whole THEN "cut off"
    ELSE IF r.says # r.size THEN "length"
    ELSE IF ~PermittedLength(r.size, MaxRecordBytes) THEN "too long"
    ELSE IF ~r.sound THEN "checksum" ELSE "ordinal"

\* The report of a scan that stopped at record i: a length that is not
\* permitted or runs past the end of the file is a torn tail without a look
\* at what follows; a checksum that does not match is one when nothing intact
\* does; an ordinal that does not continue is corruption.
Found(i) ==
    LET r == file[i] IN
    IF ~r.whole THEN CutOff(i)
    ELSE IF ~PermittedLength(r.says, MaxRecordBytes) \/ r.says > UnitsLeft(i) THEN "torn"
    ELSE IF r.says # r.size \/ ~r.sound
    THEN IF IntactRecordFollows(i) THEN "degraded" ELSE "torn"
    ELSE "degraded"

Report == IF Readable = Len(file) THEN "clean" ELSE Found(Readable + 1)

-----------------------------------------------------------------------------
(* The runtime *)

NextOrdinal(records) == IF records = <<>> THEN 0 ELSE Last(records).ordinal + 1

\* The file header of a file that does not exist or is empty.
CreateHeader ==
    /\ proc = "down" /\ header \in {"none", "empty"}
    /\ header' = "fresh"
    /\ UNCHANGED <<proc, file, synced, appended, acked, damage, scarred, lost, verified>>

SyncHeader ==
    /\ proc = "down" /\ header = "fresh"
    /\ header' = "ok" /\ proc' = "up"
    /\ UNCHANGED <<file, synced, appended, acked, damage, scarred, lost, verified>>

Ids(records) == UNION {records[i].ids : i \in DOMAIN records}

\* The acknowledged records a repair at record i would cut although they are
\* intact, as the reason it stopped there.
CutIntact(i) ==
    IF \E j \in (i + 1)..Len(file) : Intact(file[j]) /\ file[j].ids \cap acked # {}
    THEN {Fault(i)}
    ELSE IF Fault(i) = "too long" /\ file[i].ids \cap acked # {} THEN {"too long"} ELSE {}

\* repair_torn_tail: the file ends after the last record that was read.
Truncated == SubSeq(file, 1, Readable)

\* Fabric::initialize on an existing file.
Open ==
    /\ proc = "down" /\ header \in {"ok", "garbage"}
    /\ IF header = "garbage" \/ Report = "degraded"
       THEN proc' = "refused" /\ UNCHANGED <<file, synced, lost, verified>>
       ELSE /\ proc' = "up"
            /\ IF Report = "torn"
               THEN /\ file' = Truncated
                    /\ synced' = Len(file')
                    /\ lost' = lost \union CutIntact(Readable + 1)
                    /\ verified' = FALSE
               ELSE UNCHANGED <<file, synced, lost, verified>>
    /\ UNCHANGED <<header, appended, acked, damage, scarred>>

\* append and the writer: the size of the body is checked, that of the payload
\* is not.
Append1(body) ==
    /\ proc = "up" /\ appended < MaxAppends
    /\ body <= MaxRecordBytes
    /\ appended' = appended + 1
    /\ file' = Append(file, Record(NextOrdinal(file), {appended + 1}, body))
    /\ verified' = FALSE
    /\ UNCHANGED <<proc, header, synced, acked, damage, scarred, lost>>

\* flush, or stop at the end.
Flush ==
    /\ proc = "up"
    /\ synced' = Len(file)
    /\ acked' = acked \union Ids(file)
    /\ UNCHANGED <<proc, header, file, appended, damage, scarred, lost, verified>>

\* compact: one snapshot takes the place of the records it stands for.
Compact(body) ==
    /\ proc = "up" /\ file # <<>>
    /\ body <= MaxRecordBytes
    /\ file' = <<Record(Last(file).ordinal, Ids(file), body)>>
    /\ synced' = 1
    /\ acked' = acked \union Ids(file)
    /\ header' = "ok" /\ verified' = FALSE
    /\ UNCHANGED <<proc, appended, damage, scarred, lost>>

-----------------------------------------------------------------------------
(* Crashes, the medium, and the tool *)

\* Pages that were not written hold zeroes: the header of a record, or only a
\* part of its payload.
Unwritten(r, hole) == IF hole = "header" THEN [r EXCEPT !.says = 0, !.sound = FALSE]
                                         ELSE [r EXCEPT !.sound = FALSE]

\* A crash at any time.  Of what was not synced a prefix survives, perhaps
\* with a record cut off behind it, or pages of it in any order.
Crash ==
    /\ proc = "up"
    /\ proc' = "down"
    /\ \E n \in synced..Len(file) :
       \E holes \in [(synced + 1)..n -> {"none", "header", "payload"}], cut \in BOOLEAN :
          /\ cut => n < Len(file)
          /\ file' = [i \in 1..n |->
                        IF i > synced /\ holes[i] # "none" THEN Unwritten(file[i], holes[i])
                                                           ELSE file[i]]
                     \o (IF cut THEN <<[file[n + 1] EXCEPT !.whole = FALSE]>> ELSE <<>>)
          /\ scarred' = (scarred \/ \E i \in DOMAIN holes : holes[i] # "none")
    /\ verified' = FALSE
    /\ UNCHANGED <<header, synced, appended, acked, damage, lost>>

\* A crash before the first header is synced leaves no file, an empty one, the
\* whole header, or a part of it and zeroes.
CrashBeforeHeader ==
    /\ proc = "down" /\ header = "fresh"
    /\ header' \in {"none", "empty", "ok", "garbage"}
    /\ UNCHANGED <<proc, file, synced, appended, acked, damage, scarred, lost, verified>>

\* The medium changes a record at rest: its payload, or the length it states.
Rot(i) ==
    /\ proc = "down" /\ damage < MaxDamage
    /\ file[i].whole /\ file[i].sound /\ file[i].says = file[i].size
    /\ damage' = damage + 1
    /\ \E length \in 0..(MaxRecordBytes + 2) :
          file' = [file EXCEPT ![i].says = length, ![i].sound = FALSE]
    /\ verified' = FALSE
    /\ UNCHANGED <<proc, header, synced, appended, acked, scarred, lost>>

\* The verdict of journal-verify: the scan met no fault before its end or the
\* limit on records, which it takes for the end.
VerdictOk ==
    /\ header # "garbage"
    /\ \A i \in DOMAIN file : i <= ToolMaxRecords => AcceptsWithin(i, ToolRecordBytes)

\* lqf journal-verify on a file that exists reads it with limits of its own and
\* repairs nothing; opening an empty file writes and syncs its header.
Verify ==
    /\ proc = "down" /\ header \in {"empty", "ok", "garbage"}
    /\ header' = IF header = "empty" THEN "ok" ELSE header
    /\ verified' = VerdictOk
    /\ UNCHANGED <<proc, file, synced, appended, acked, damage, scarred, lost>>

Next ==
    \/ CreateHeader \/ SyncHeader \/ Open \/ Flush \/ Crash \/ CrashBeforeHeader \/ Verify
    \/ \E body \in Bodies : Append1(body) \/ Compact(body)
    \/ \E i \in DOMAIN file : Rot(i)

Spec == Init /\ [][Next]_vars

-----------------------------------------------------------------------------
(* Properties *)

\* A repair cuts no intact record that was acknowledged because of a checksum,
\* an interrupted append or an ordinal: "a torn tail repaired only when nothing
\* intact follows it" (README.md:42).  Two reasons remain for which it does: a
\* length the medium has changed (journal.cpp:361, 372), and a record whose
\* body append admitted although its payload is longer than next permits
\* (journal.cpp:649, 361).  What it leaves reads back to the end of the file,
\* until such a record is appended again (journal.cpp:475-511).
RepairIsExact ==
    /\ lost \subseteq {"length", "too long"}
    /\ proc = "up" =>
           Report = "clean" \/ \E i \in DOMAIN file : file[i].size > MaxRecordBytes

\* Recovery refuses a file only when the medium has damaged a record, when a
\* power loss kept later pages without earlier ones, or when one during the very
\* first start left a part of the file header, and then nothing was ever
\* acknowledged; interrupted appends, restarts and compactions never lead there
\* (journal.cpp:289-327, 331-434).  A file that lqf journal-verify has passed is
\* opened as it is, with two exceptions: the tool reads with the limits of a
\* default JournalConfig and takes their end for the end of the file
\* (cmd_journal.cpp:54-57, 86), so it vouches for no more records than that, and
\* the runtime cuts a record that is longer than its own limit.
RefusedOnlyForDamage ==
    /\ proc = "refused" =>
           damage > 0 \/ scarred \/ (header = "garbage" /\ acked = {})
    /\ verified /\ Len(file) <= ToolMaxRecords =>
           /\ proc # "refused"
           /\ Report = "clean" \/ \E i \in DOMAIN file : file[i].size > MaxRecordBytes
=============================================================================
