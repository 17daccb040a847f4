---------------------------- MODULE LinkQuality ----------------------------
(***************************************************************************)
(* The classifier over time: evidence arrives early or late, sources       *)
(* declare other capabilities, the clock runs, the process restarts and    *)
(* recovers its evidence.  A query changes nothing, so the properties are  *)
(* about what a query would answer in each state.                          *)
(***************************************************************************)
EXTENDS Classifier

CONSTANTS
    Observations,  \* what the sources send: [link, stream, seq, value, authority]
    FirstDeclared, \* what every source declares at first
    Declarations,  \* what a source may declare: a capability for every metric
    MaxNow,        \* bound on the clock
    MaxEpoch,      \* bound on the process incarnations
    MaxArrivals,   \* bound on the observations that are accepted
    MaxRevisions,  \* bound on the declarations that replace another
    MaxEntries     \* filter.max_entries of an inspection

ASSUME LinkQualityAssumption ==
    /\ \A d \in Declarations : \A m \in Metrics :
           /\ d[m].kind \in {"none", "supported", "unsupported"}
           /\ d[m].lanes \in Nat /\ d[m].validity \in Nat
    /\ FirstDeclared \in [Sources -> Declarations]
    /\ {MaxNow, MaxEpoch, MaxArrivals, MaxRevisions, MaxEntries} \subseteq Nat

VARIABLES
    store,      \* the evidence store, without the history across streams
    declared,   \* the capability registry, for this link
    now,        \* the steady clock
    epoch,      \* the process incarnation
    revisions,  \* how many declarations were replaced
    answers     \* what a query answered at each past instant, as long as a
                \* query as of that instant is about the same declarations

vars == <<store, declared, now, epoch, revisions, answers>>

\* The context of a query as of an instant (Fabric::query, Fabric::window).
ContextAt(instant) == [store |-> store, declared |-> declared, now |-> instant, epoch |-> epoch]

Report(instant) == ClassifyLink(ContextAt(instant), {})

\* Every lane that may be asked for.
LanesOfInterest == {o.stream.lane : o \in Observations}
LaneState(m, lane) == AssessLane(ContextAt(now), m, lane).state

\* The lanes of a metric that its assessment is made from.
Assessed(m, lane) ==
    lane \in IF LanesOf(ContextAt(now), m) = {} THEN {Aggregate} ELSE LanesOf(ContextAt(now), m)

Init ==
    /\ store = EmptyStore
    /\ declared = FirstDeclared
    /\ now = 1 /\ epoch = 1 /\ revisions = 0
    /\ answers = <<>>

-----------------------------------------------------------------------------
\* The capability a source declared covers the observation (Fabric::ingest).
CapabilityCovers(o) ==
    LET capability == declared[o.stream.source][o.stream.metric]
    IN  /\ capability.kind = "supported"
        /\ o.stream.lane # Aggregate => o.stream.lane < capability.lanes

\* The records of all streams.
Records == UNION {ToSet(store.streams[k].recent) : k \in DOMAIN store.streams}

WithoutHistory(s) == [s EXCEPT !.history = <<>>]

Received(o) ==
    WithoutHistory(AppendEvidence(store, ("received" :> now) @@ ("epoch" :> epoch) @@ o, "Live"))

\* Whatever is refused, here or by the replay fence, changes nothing.
Ingest(o) ==
    /\ CapabilityCovers(o)
    /\ Cardinality(Records) < MaxArrivals
    /\ store' = Received(o)
    /\ UNCHANGED <<declared, now, epoch, revisions, answers>>

Tick ==
    /\ now < MaxNow
    /\ answers' = (now :> Report(now)) @@ answers
    /\ now' = now + 1
    /\ UNCHANGED <<store, declared, epoch, revisions>>

\* A newer revision replaces the declaration of a source.
Declare(s, d) ==
    /\ revisions < MaxRevisions
    /\ d # declared[s]
    /\ declared' = [declared EXCEPT ![s] = d]
    /\ revisions' = revisions + 1
    /\ answers' = <<>>
    /\ UNCHANGED <<store, now, epoch>>

\* The evidence is replayed, each stream in the order it was accepted; streams
\* are independent of each other, so their interleaving is left out.
Replayed(st) ==
    FoldLeft(LAMBDA t, r : StreamAppend(t, [r EXCEPT !.origin = "Recovered"]), FreshStream, st.recent)

Recovered == [store EXCEPT !.streams = [k \in DOMAIN @ |-> Replayed(@[k])]]

\* The steady clock of the new process starts anew.
Restart ==
    /\ epoch < MaxEpoch
    /\ epoch' = epoch + 1
    /\ store' = Recovered
    /\ now' = 1
    /\ answers' = <<>>
    /\ UNCHANGED <<declared, revisions>>

Next ==
    \/ \E o \in Observations : Ingest(o)
    \/ Tick
    \/ \E s \in Sources, d \in Declarations : Declare(s, d)
    \/ Restart

Spec == Init /\ [][Next]_vars

-----------------------------------------------------------------------------
(* Properties *)

\* The states that say how good the link is.
Claims == {"Healthy", "Marginal", "Degraded", "Severe"}

\* What arrived for a lane of a metric, from sources that still declare it.
ArrivedFor(m, lane) ==
    {r \in Records : /\ r.stream.metric = m /\ r.stream.lane = lane
                     /\ r.stream.source \in DeclaredBy(ContextAt(now), m)}

\* The newest of each source.
NewestOf(m, lane) ==
    LET arrived == ArrivedFor(m, lane)
    IN  {r \in arrived : \A q \in arrived : q.stream = r.stream => q.seq <= r.seq}

\* Received by this process within the validity.
Current(r) ==
    /\ r.origin = "Live"
    /\ now - r.received <= ValidityFor(ContextAt(now), r.stream.metric, r.stream.source)

(***************************************************************************)
(* "Stale evidence never asserts current health" (classifier.hpp:44-45): a *)
(* claim about a lane rests on an observation that this process received   *)
(* within its validity, from a source that still declares the metric, and  *)
(* than which the source has sent none newer.                              *)
(***************************************************************************)
ClaimsRestOnFreshEvidence ==
    \A m \in Metrics, lane \in LanesOfInterest :
        LaneState(m, lane) \in Claims =>
            \E r \in NewestOf(m, lane) : Current(r)

ShowsConflict(report, m) ==
    report.metrics[m].state = "Conflicting" /\ report.overall = "Conflicting"

(***************************************************************************)
(* "Equal-authority disagreement stays conflicting" (classifier.hpp:45):   *)
(* if two sources of the highest authority heard from last say of a gauge  *)
(* what differs beyond the tolerance, both fresh, then the lane, the       *)
(* metric and the whole link are conflicting, whatever else is known.      *)
(***************************************************************************)
DisagreementSurfaces ==
    \A m \in Metrics \ Counters, lane \in LanesOfInterest :
        LET fresh == {r \in NewestOf(m, lane) : Current(r)}
            top == {r \in fresh : \A q \in fresh : q.authority <= r.authority}
        IN  (\E r, q \in top : r.value - q.value > Tolerance(m)) =>
                /\ LaneState(m, lane) = "Conflicting"
                /\ Assessed(m, lane) => ShowsConflict(Report(now), m)

(***************************************************************************)
(* "An aggregate that hides an unmeasured lane would be a false roll-up"   *)
(* (classifier.cpp:461): with the default ranks a link is healthy only if  *)
(* every declared lane of every metric is.                                 *)
(***************************************************************************)
HealthyLinkHidesNoLane ==
    Report(now).overall = "Healthy" =>
        \A m \in Metrics : \A lane \in LanesOf(ContextAt(now), m) :
            LaneState(m, lane) = "Healthy"

SameStates(report, other, m) ==
    report.metrics[m].state = other.metrics[m].state /\ report.overall = other.overall

(***************************************************************************)
(* "A strictly higher rank wins" (docs/semantics.md:71): evidence of a     *)
(* gauge that would arrive now, with less authority than another source's  *)
(* fresh reading, changes neither the state of the lane nor that of the    *)
(* metric and the link.                                                    *)
(***************************************************************************)
LowerAuthorityChangesNothing ==
    \A o \in {p \in Observations : p.stream.metric \notin Counters /\ CapabilityCovers(p)} :
        LET m == o.stream.metric
            lane == o.stream.lane
            outranked(a) == \E r \in NewestOf(m, lane) :
                                r.stream.source # o.stream.source /\ Current(r) /\ r.authority > a
            mine == {r \in NewestOf(m, lane) : r.stream.source = o.stream.source}
            after == [ContextAt(now) EXCEPT !.store = Received(o)]
        IN  outranked(o.authority) /\ (\A r \in mine : outranked(r.authority)) =>
                /\ AssessLane(after, m, lane).state = LaneState(m, lane)
                /\ SameStates(ClassifyLink(after, {}), Report(now), m)

(***************************************************************************)
(* "This is what makes an as-of query a real historical question"          *)
(* (classifier.cpp:53-54): as long as the records of each stream came in   *)
(* the order of their sequences and none was evicted, a query as of an     *)
(* earlier instant answers what was answered then: states, confidence and  *)
(* roll-up, with counter rates recomputed from the retained records.       *)
(***************************************************************************)
InOrder ==
    \A k \in DOMAIN store.streams :
        LET recent == store.streams[k].recent
        IN  \A i, j \in DOMAIN recent : i < j => recent[i].seq < recent[j].seq

AsOfAnswersHistory == InOrder => \A t \in DOMAIN answers : Report(t) = answers[t]

(***************************************************************************)
(* An inspection is there "for conflicts, stale evidence and freshness     *)
(* counts" (docs/boundaries.md:39; inspect_fabric).  As long as neither an *)
(* evidence list nor the report is cut, the sources listed stale are       *)
(* exactly those whose newest reading of an assessed lane was received by  *)
(* this process and has expired, recovered readings are counted apart, and *)
(* the readings that dispute a lane are all among the claimants.           *)
(***************************************************************************)
InspectionHidesNothing ==
    LET report == InspectLink(ContextAt(now), MaxEntries)
    IN  \A m \in Metrics :
        LET newest == {r \in Records : Assessed(m, r.stream.lane) /\ r \in NewestOf(m, r.stream.lane)}
            current == {r \in newest : Current(r)}
            expired == {r \in newest : r.origin = "Live"} \ current
            recovered == {r \in newest : r.origin = "Recovered"}
            disputing == {r \in current : LaneState(m, r.stream.lane) = "Conflicting"}
            sources(records) == {r.stream.source : r \in records}
        IN  Cardinality(newest) <= Min({MaxEvidencePerMetric, MaxClaimants}) /\ report.dropped = 0 =>
                /\ {e.source : e \in {f \in ToSet(report.stale) : f.metric = m}} = sources(expired)
                /\ \A f \in ToSet(report.freshness) : f.metric = m =>
                       f.stale = Cardinality(expired) /\ f.recovered = Cardinality(recovered)
                /\ disputing # {} =>
                       \E c \in ToSet(report.conflicts) :
                           /\ c.metric = m
                           /\ sources(disputing) \subseteq {e.source : e \in ToSet(c.claimants)}
=============================================================================
