------------------------------ MODULE Evidence ------------------------------
(***************************************************************************)
(* The evidence store (class EvidenceStore,                                *)
(* src/src/store/evidence_store.cpp) as operators on its state, a record   *)
(*   streams  a function from the keys of the streams that exist           *)
(*   used     streams_per_link_, the number of streams charged to a link   *)
(*   history  the records of all streams in arrival order, bounded         *)
(* EvidenceStore drives it by itself, FabricState inside the fabric.       *)
(*                                                                         *)
(* An observation is [link, stream, seq, value]: stream stands for its     *)
(* metric, lane and source.  Every stream is a 64-bit counter and value    *)
(* is its reading; value also stands for the payload digest, since the     *)
(* rest of the payload is a function of link, stream and seq.  A stored    *)
(* record adds its origin, "Live" or "Recovered"; what else an observation *)
(* carries is kept as it is.                                               *)
(***************************************************************************)
EXTENDS Counter, Sequences, FiniteSets, SequencesExt

CONSTANTS
    Links,             \* link identities: [id, generation]
    MaxDedupWindow,    \* limits.max_dedup_window
    MaxStreamHistory,  \* limits.max_stream_history
    MaxGlobalHistory,  \* limits.max_global_history
    MaxStreamsPerLink  \* limits.max_streams_per_link

\* FabricLimits::validate refuses a limit of zero.
ASSUME EvidenceLimitsAssumption ==
    {MaxDedupWindow, MaxStreamHistory, MaxGlobalHistory, MaxStreamsPerLink} \subseteq Nat \ {0}

-----------------------------------------------------------------------------
None == -1  \* an absent sequence number

FreshStream == [recent |-> <<>>, dedup |-> <<>>, watermark |-> None, fed |-> None,
                latest |-> <<>>, counter |-> FreshCounter]

EmptyStore == [streams |-> <<>>, used |-> [l \in Links |-> 0], history |-> <<>>]

KeyOf(o) == [link |-> o.link, stream |-> o.stream]

\* The last n elements of a deque that is popped at the front when it overflows.
Newest(q, n) == IF Len(q) > n THEN SubSeq(q, Len(q) - n + 1, Len(q)) ELSE q

StreamOf(s, key) == IF key \in DOMAIN s.streams THEN s.streams[key] ELSE FreshStream

\* admit_stream and emplace: the stream exists and is charged to its link.
Admitted(s, key) ==
    IF key \in DOMAIN s.streams THEN s
    ELSE [s EXCEPT !.used[key.link] = @ + 1, !.streams = (key :> FreshStream) @@ @]

\* There is no room for a new stream of this link.
Full(s, key) == key \notin DOMAIN s.streams /\ s.used[key.link] >= MaxStreamsPerLink

(***************************************************************************)
(* What append decides about an observation, in the order of its tests.    *)
(***************************************************************************)
\* The sequence lies too far behind the newest one to be verified.
BehindWindow(st, seq) == seq < st.watermark /\ st.watermark - seq > MaxDedupWindow

Decision(s, o) ==
    LET st == StreamOf(s, KeyOf(o))
    IN  IF Full(s, KeyOf(o)) THEN "LimitExceeded"
        ELSE IF st.watermark = None THEN "accepted"
        ELSE IF o.seq \in DOMAIN st.dedup
             THEN IF st.dedup[o.seq] = o.value THEN "duplicate" ELSE "IdMismatch"
        ELSE IF BehindWindow(st, o.seq) THEN "Fenced" ELSE "accepted"

\* The statuses that are not errors.
Ok(decision) == decision \in {"accepted", "duplicate"}

-----------------------------------------------------------------------------
(* An accepted observation *)

\* Mutated form: the window is cut by its size.
WindowBySize(dedup, watermark) ==
    LET kept == {q \in DOMAIN dedup :
                    Cardinality({p \in DOMAIN dedup : p > q}) < MaxDedupWindow - 1}
    IN  [q \in kept |-> dedup[q]]

\* The dedup window is cut by distance from the watermark.
Window(dedup, watermark) ==
    LET kept == {q \in DOMAIN dedup : watermark - q < MaxDedupWindow}
    IN  [q \in kept |-> dedup[q]]

\* Mutated form: late records are fed, too.
FeedsAlways(st, seq) == TRUE

\* Only a sequence newer than every one fed before reaches the counter.
Feeds(st, seq) == st.fed = None \/ seq > st.fed

CounterReading(o) ==
    [value |-> o.value, width |-> "Bits64", reset |-> FALSE, observed |-> o.seq,
     seq |-> o.seq, incarnation |-> 1, generation |-> o.link.generation]

StreamAppend(st, record) ==
    LET watermark == IF record.seq > st.watermark THEN record.seq ELSE st.watermark
        feed == Feeds(st, record.seq)
    IN  [recent    |-> Newest(Append(st.recent, record), MaxStreamHistory),
         dedup     |-> Window((record.seq :> record.value) @@ st.dedup, watermark),
         watermark |-> watermark,
         fed       |-> IF feed THEN record.seq ELSE st.fed,
         latest    |-> IF feed THEN <<record>> ELSE st.latest,
         counter   |-> IF feed THEN Observe(st.counter, CounterReading(record))
                               ELSE st.counter]

(***************************************************************************)
(* append: every branch but "accepted" leaves the store as it was (an      *)
(* admitted stream has no watermark yet, so nothing later refuses it).     *)
(***************************************************************************)
AppendEvidence(s, o, origin) ==
    LET key == KeyOf(o)
        record == ("origin" :> origin) @@ o
        admitted == Admitted(s, key)
    IN  IF Decision(s, o) # "accepted" THEN s
        ELSE [admitted EXCEPT !.streams[key] = StreamAppend(@, record),
                              !.history = Newest(Append(@, record), MaxGlobalHistory)]

\* drop_link: the streams, the charge and the history of an evicted link.
DropLink(s, link) ==
    [s EXCEPT !.streams = [k \in {key \in DOMAIN @ : key.link # link} |-> @[k]],
              !.used[link] = 0,
              !.history = SelectSeq(@, LAMBDA record : record.link # link)]

-----------------------------------------------------------------------------
(* What a snapshot keeps of the store *)

LinkBefore(a, b) == a.id < b.id \/ (a.id = b.id /\ a.generation < b.generation)

KeyBefore(a, b) ==
    \/ LinkBefore(a.link, b.link)
    \/ a.link = b.link /\ a.stream < b.stream

RecordBefore(a, b) ==
    \/ KeyBefore(KeyOf(a), KeyOf(b))
    \/ KeyOf(a) = KeyOf(b) /\ a.seq < b.seq

\* Mutated form: only the ring is kept.
RetainedRing(st) == ToSet(st.recent)

\* The record of the stream kept for a sequence: the last one fed, or else
\* the first of that sequence in the ring.
RetainedOf(st) ==
    LET ring == st.latest \o st.recent
    IN  {ring[i] : i \in {i \in DOMAIN ring : \A j \in 1..(i - 1) : ring[j].seq # ring[i].seq}}

RetainedRecords(s) ==
    SetToSortSeq(UNION {RetainedOf(s.streams[k]) : k \in DOMAIN s.streams}, RecordBefore)

StreamKeys(s) == SetToSortSeq(DOMAIN s.streams, KeyBefore)

\* seed_dedup_window: the saved entries are merged into the window, the
\* watermark follows, and the window keeps its largest sequences.
SeedDedupWindow(s, key, entries) ==
    LET admitted == Admitted(s, key)
        st == admitted.streams[key]
        merged == DOMAIN st.dedup \union DOMAIN entries
        kept == {q \in merged : Cardinality({p \in merged : p > q}) < MaxDedupWindow}
        newest == CHOOSE q \in merged \union {st.watermark} :
                      \A p \in merged \union {st.watermark} : p <= q
    IN  IF Full(s, key) THEN s
        ELSE [admitted EXCEPT
                 !.streams[key].dedup =
                     [q \in kept |-> IF q \in DOMAIN entries THEN entries[q] ELSE st.dedup[q]],
                 !.streams[key].watermark = newest]
=============================================================================
