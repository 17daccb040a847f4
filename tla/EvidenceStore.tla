---------------------------- MODULE EvidenceStore ----------------------------
(***************************************************************************)
(* The evidence store on its own: observations arrive lost, late, twice or *)
(* with altered content, link generations are dropped, and the store is    *)
(* written to a snapshot and rebuilt from it.                              *)
(***************************************************************************)
EXTENDS Evidence

CONSTANTS
    Streams,  \* what a link's streams are called: numbers, in key order
    Values,   \* the counter readings
    MaxSeq    \* bound on the sequence numbers

ASSUME StoreAssumption == MaxSeq \in Nat

VARIABLES
    store,    \* the evidence store
    accepted  \* the observations accepted and not dropped since

vars == <<store, accepted>>

Observation == [link : Links, stream : Streams, seq : 0..MaxSeq, value : Values]

\* The sequences of this stream that were accepted.
AcceptedSeqs(key) == {o.seq : o \in {a \in accepted : KeyOf(a) = key}}

Init ==
    /\ store = EmptyStore
    /\ accepted = {}

-----------------------------------------------------------------------------
Ingest(o) ==
    /\ store' = AppendEvidence(store, o, "Live")
    /\ accepted' = IF Decision(store, o) = "accepted" THEN accepted \union {o} ELSE accepted

Drop(link) ==
    /\ store' = DropLink(store, link)
    /\ accepted' = {o \in accepted : o.link # link}

(***************************************************************************)
(* The evidence of a snapshot, replayed into an empty store: first the     *)
(* retained records in key and sequence order, then the dedup windows      *)
(* (Fabric::build_snapshot and the Evidence and DedupWindow cases of       *)
(* Fabric::apply_record; the links and policies are in FabricState).       *)
(***************************************************************************)
Reloaded(s) ==
    LET replayed == FoldLeft(LAMBDA t, r : AppendEvidence(t, r, "Recovered"),
                             EmptyStore, RetainedRecords(s))
    IN  FoldLeft(LAMBDA t, k : SeedDedupWindow(t, k, s.streams[k].dedup),
                 replayed, StreamKeys(s))

Reload ==
    /\ store' = Reloaded(store)
    /\ UNCHANGED accepted

Next ==
    \/ \E o \in Observation : Ingest(o)
    \/ \E l \in Links : Drop(l)
    \/ Reload

Spec == Init /\ [][Next]_vars

-----------------------------------------------------------------------------
(* Properties *)

(***************************************************************************)
(* Replays, up to the edge of the window.  The dedup window of a stream    *)
(* holds precisely the sequences accepted less than max_dedup_window       *)
(* behind the newest one, with the content that was accepted, however late *)
(* they came and however often the store was rebuilt (the erase loop of    *)
(* EvidenceStore::append and seed_dedup_window).  So an accepted sequence  *)
(* that comes again is a duplicate or a mismatch inside the window and     *)
(* fenced behind it, with one exception: exactly max_dedup_window behind   *)
(* it is forgotten already (>=, evidence_store.cpp:146) and not fenced yet *)
(* (>, :118), and is accepted again, whatever it says.  config.cpp:110-113 *)
(* ("replay fencing covers every retained record") overlooks this one: a   *)
(* ring of max_dedup_window records may hold it.                           *)
(***************************************************************************)
ReplaysFencedButAtEdge ==
    /\ \A k \in DOMAIN store.streams :
           LET st == store.streams[k]
           IN  /\ DOMAIN st.dedup = {q \in AcceptedSeqs(k) : st.watermark - q < MaxDedupWindow}
               /\ \A q \in DOMAIN st.dedup :
                      [link |-> k.link, stream |-> k.stream, seq |-> q, value |-> st.dedup[q]]
                          \in accepted
    /\ \A o \in Observation :
           LET behind == StreamOf(store, KeyOf(o)).watermark - o.seq
           IN  o.seq \in AcceptedSeqs(KeyOf(o)) =>
                   /\ Decision(store, o) = "accepted" <=> behind = MaxDedupWindow
                   /\ Decision(store, o) = "Fenced" <=> behind > MaxDedupWindow

(***************************************************************************)
(* The counter of a stream rests on the newest sequence ever accepted, and *)
(* never sees a late one: fed_sequence, the watermark, latest_fed and the  *)
(* engine's baseline agree although they are updated by separate tests     *)
(* (EvidenceStore::append) and rebuilt by separate records.                *)
(***************************************************************************)
NewestFed ==
    \A k \in DOMAIN store.streams :
        LET st == store.streams[k]
        IN  /\ \A q \in AcceptedSeqs(k) : q <= st.watermark
            /\ st.fed = st.watermark
            /\ st.latest # <<>> /\ st.latest[1].seq = st.watermark
            /\ st.counter.last = CounterReading(st.latest[1])
            /\ st.counter.event # "sequence-regressed"

(***************************************************************************)
(* "Replay fence state, persisted so that duplicate and stale-id decisions *)
(* after a restart are identical to the decisions taken before the         *)
(* restart" (evidence_store.hpp:106-107): a store rebuilt from a snapshot  *)
(* decides on every observation as the one it was taken from, and          *)
(* continues every counter from the same reading (retained_records keeps   *)
(* latest_fed).                                                            *)
(***************************************************************************)
SnapshotKeepsDecisions ==
    LET reloaded == Reloaded(store)
    IN  /\ \A o \in Observation : Decision(reloaded, o) = Decision(store, o)
        /\ \A k \in DOMAIN store.streams :
               reloaded.streams[k].counter.last = store.streams[k].counter.last
=============================================================================
