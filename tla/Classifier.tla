----------------------------- MODULE Classifier -----------------------------
(***************************************************************************)
(* The classifier (src/src/classify/classifier.cpp): what a query answers, *)
(* as operators on a context                                               *)
(*   store     the evidence store (module Evidence)                        *)
(*   declared  what each source declared of each metric of the link        *)
(*   now       the instant that is evaluated, on the steady clock          *)
(*   epoch     the running process incarnation                             *)
(* A stream of the link is [metric, lane, source]; a record adds authority,*)
(* received and epoch to what Evidence keeps of it.  Left out: the reason  *)
(* codes and the wall clock age of recovered evidence, on which no state   *)
(* depends.  The counter of a gauge's stream is never    *)
(* looked at.                                                              *)
(***************************************************************************)
EXTENDS Evidence, FiniteSetsExt

CONSTANTS
    Link,                 \* the link that is queried
    Metrics,              \* numbers, in the order of MetricId
    Counters,             \* the metrics whose readings are counters
    Sources,              \* numbers, in the order of SourceIdentity
    Rules,                \* the policy's rules: [bands, tolerance, validity] of some metrics
    DefaultValidity,      \* freshness.default_validity_nanos
    MinRateInterval,      \* freshness.min_rate_interval_nanos
    Severity,             \* aggregation.severity
    ConflictingDominates, \* aggregation.conflicting_dominates
    MaxEvidencePerMetric, \* limits.max_evidence_per_metric
    MaxClaimants          \* filter.max_claimants_per_conflict

States == {"Unknown", "Unsupported", "Healthy", "Incomplete", "Stale", "Marginal", "Degraded",
           "Severe", "Conflicting"}

\* validate_bands: contiguous bands that cover every value; the upper bound of
\* the last one is not looked at.
ValidRule(rule) ==
    /\ rule.bands # <<>>
    /\ \A i \in DOMAIN rule.bands : rule.bands[i].state \in States
    /\ \A i \in 1..(Len(rule.bands) - 2) : rule.bands[i].upper < rule.bands[i + 1].upper
    /\ {rule.tolerance, rule.validity} \subseteq Nat

\* validate_policy
ValidPolicy ==
    /\ DOMAIN Rules \subseteq Metrics
    /\ \A m \in DOMAIN Rules : ValidRule(Rules[m])
    /\ DefaultValidity \in Nat \ {0} /\ MinRateInterval \in Nat
    /\ Severity \in [States -> 0..8] /\ IsInjective(Severity)
    /\ ConflictingDominates \in BOOLEAN

ASSUME ClassifierAssumption ==
    /\ Link \in Links
    /\ Counters \subseteq Metrics /\ Metrics \subseteq Nat /\ Sources \subseteq Nat
    /\ {MaxEvidencePerMetric, MaxClaimants} \subseteq Nat
    /\ ValidPolicy

\* The lane of evidence about the link as a whole.
Aggregate == -1

-----------------------------------------------------------------------------
(* Capabilities: [kind, lanes, validity], lanes = 0 if not declared per lane *)

\* view_for_link: the sources that declare the metric.
DeclaredBy(ctx, m) == {s \in Sources : ctx.declared[s][m].kind = "supported"}

\* The metrics somebody declared, supported or not.
Viewed(ctx) == {m \in Metrics : \E s \in Sources : ctx.declared[s][m].kind # "none"}

\* The lanes of the largest declaration.
LanesOf(ctx, m) ==
    LET counts == {ctx.declared[s][m].lanes : s \in DeclaredBy(ctx, m)}
    IN  0..(Max(counts \union {0}) - 1)

ValidityFor(ctx, m, s) ==
    IF m \in DOMAIN Rules /\ Rules[m].validity > 0 THEN Rules[m].validity
    ELSE IF ctx.declared[s][m].validity > 0 THEN ctx.declared[s][m].validity
    ELSE DefaultValidity

-----------------------------------------------------------------------------
(* Time *)

\* Received by the running process incarnation.
IsLive(ctx, r) == r.origin = "Live" /\ r.epoch = ctx.epoch

\* Evidence received after an instant is no evidence for that instant.
ReceivedAfter(ctx, r) == IsLive(ctx, r) /\ r.received > ctx.now

Age(ctx, r) == Max({ctx.now - r.received, 0})

\* Mutated form: recovered evidence is aged like any other.
FreshByAge(ctx, r, validity) == Age(ctx, r) <= validity

\* record_is_fresh
IsFresh(ctx, r, validity) == IsLive(ctx, r) /\ validity > 0 /\ Age(ctx, r) <= validity

\* The retained records of a stream that the evaluated instant knows of.
KnownRecords(ctx, st) == SelectSeq(st.recent, LAMBDA r : ~ReceivedAfter(ctx, r))

\* The record fed last, unless it is from a later instant.
LatestKnown(ctx, st) == st.latest # <<>> /\ ~ReceivedAfter(ctx, st.latest[1])

\* newest_at_or_before, as a sequence of one record or none.
NewestAtOrBefore(ctx, st) ==
    IF LatestKnown(ctx, st) THEN st.latest
    ELSE Newest(KnownRecords(ctx, st), 1)

\* Mutated form: an earlier instant is shown the counter of today.
CounterNow(ctx, st) == st.counter

\* The continuity of that instant is recomputed from the retained records.
CounterAt(ctx, st) ==
    IF LatestKnown(ctx, st) THEN st.counter
    ELSE FoldLeft(LAMBDA c, r : Observe(c, CounterReading(r)), FreshCounter,
                  KnownRecords(ctx, st))

-----------------------------------------------------------------------------
(* One lane of one metric *)

KeyFor(m, lane, s) == [link |-> Link, stream |-> [metric |-> m, lane |-> lane, source |-> s]]

\* The rate of a counter, if there is one that is current.
Rate(delta) == delta.delta \div delta.elapsed

HasRate(counter, validity) ==
    /\ counter.delta.present
    /\ counter.delta.elapsed > 0 /\ counter.delta.elapsed >= MinRateInterval
    /\ counter.rate
    /\ counter.delta.elapsed <= validity

\* What a source last said of a lane, r, with the counter of its stream.
Entry(ctx, m, s, r, counter, validity) ==
    LET fresh == IsFresh(ctx, r, validity)
        rated == m \in Counters /\ HasRate(counter, validity)
    IN  [source    |-> s,
         authority |-> r.authority,
         fresh     |-> fresh,
         recovered |-> r.origin = "Recovered",
         age       |-> Age(ctx, r),
         candidate |-> fresh /\ (m \in Counters => rated),
         value     |-> IF m \notin Counters THEN r.value
                       ELSE IF rated THEN Rate(counter.delta) ELSE 0]

\* collect_lane: one entry per declared source with evidence.  A source whose
\* declaration was withdrawn is passed over.
Collected(ctx, m, lane) ==
    LET st(s) == ctx.store.streams[KeyFor(m, lane, s)]
        heard == {s \in DeclaredBy(ctx, m) : KeyFor(m, lane, s) \in DOMAIN ctx.store.streams}
        known == {s \in heard : NewestAtOrBefore(ctx, st(s)) # <<>>}
    IN  {Entry(ctx, m, s, NewestAtOrBefore(ctx, st(s))[1], CounterAt(ctx, st(s)),
               ValidityFor(ctx, m, s)) : s \in known}

\* Mutated form: every candidate has a say.
WinnersAll(candidates) == candidates

\* Strictly greater authority wins outright.
Winners(candidates) ==
    {c \in candidates : \A d \in candidates : d.authority <= c.authority}

Spread(entries) == Max({c.value : c \in entries}) - Min({c.value : c \in entries})

Tolerance(m) == IF m \in DOMAIN Rules THEN Rules[m].tolerance ELSE 0

\* Mutated form: a disagreement is settled by the first source.
DisagreeNever(m, winners) == FALSE

Disagree(m, winners) == Cardinality(winners) >= 2 /\ Spread(winners) > Tolerance(m)

\* MetricRule::classify: bands in order, each up to its upper bound, the last
\* one without.
BandOf(m, value) ==
    LET bands == Rules[m].bands
        holds(i) == i = Len(bands) \/ value < bands[i].upper
    IN  bands[CHOOSE i \in DOMAIN bands : holds(i) /\ \A j \in 1..(i - 1) : ~holds(j)].state

\* Confidence levels: 0 none, 1 low, 2 medium, 3 high.
ConfidenceFor(ctx, m, state, seen, winners) ==
    LET age == Min({c.age : c \in {e \in seen : e.fresh}})
        validity == ValidityFor(ctx, m, Min(DeclaredBy(ctx, m)))
    IN  IF state \in {"Unknown", "Unsupported"} THEN 0
        ELSE IF state \in {"Stale", "Incomplete", "Conflicting"} THEN 1
        ELSE IF Cardinality(winners) >= 2 THEN 3
        ELSE IF age * 2 <= validity THEN 2 ELSE 1

Assessment(state, confidence) == [state |-> state, confidence |-> confidence]

\* The value that is shown: that of the first of the winners.
Shown(winners) == (CHOOSE w \in winners : \A v \in winners : w.source <= v.source).value

Verdict(ctx, m, seen, winners) ==
    LET band == BandOf(m, Shown(winners))
    IN  IF DeclaredBy(ctx, m) = {} THEN Assessment("Unsupported", 0)
        ELSE IF seen = {} THEN Assessment("Unknown", 0)
        ELSE IF winners = {}
             THEN Assessment(IF \E c \in seen : c.fresh THEN "Incomplete" ELSE "Stale", 1)
        ELSE IF Disagree(m, winners) THEN Assessment("Conflicting", 1)
        ELSE IF m \notin DOMAIN Rules THEN Assessment("Unknown", 0)
        ELSE Assessment(band, ConfidenceFor(ctx, m, band, seen, winners))

AssessEntries(ctx, m, seen) == Verdict(ctx, m, seen, Winners({c \in seen : c.candidate}))

AssessLane(ctx, m, lane) == AssessEntries(ctx, m, Collected(ctx, m, lane))

-----------------------------------------------------------------------------
(* Roll-up *)

Worst(states) == CHOOSE s \in states : \A t \in states : Severity[t] <= Severity[s]

\* Mutated form: a lane nobody measured is left out.
WithMissingLanesHidden(states) == states

\* "An aggregate that hides an unmeasured lane would be a false roll-up."
WithMissingLanes(states) ==
    IF states \intersect {"Unsupported", "Unknown"} # {} THEN states \union {"Incomplete"}
                                                        ELSE states

AggregateLanes(lanes) ==
    Assessment(Worst(WithMissingLanes({a.state : a \in lanes})),
               Min({a.confidence : a \in lanes}))

AssessMetric(ctx, m) ==
    IF LanesOf(ctx, m) = {}
    THEN AssessLane(ctx, m, Aggregate)
    ELSE AggregateLanes({AssessLane(ctx, m, lane) : lane \in LanesOf(ctx, m)})

\* The overall state of a link and its confidence.
RollUp(assessed) ==
    LET all == {assessed[m] : m \in DOMAIN assessed}
        states == {a.state : a \in all}
        conflict == ConflictingDominates /\ "Conflicting" \in states
    IN  [overall    |-> IF conflict THEN "Conflicting" ELSE Worst(states),
         confidence |-> IF conflict THEN 1 ELSE Min({a.confidence : a \in all}),
         metrics    |-> assessed]

\* classify_link for a set of metrics, all that are declared if it is empty.
ClassifyLink(ctx, requested) ==
    LET metrics == IF requested = {} THEN Viewed(ctx) ELSE requested
    IN  IF Viewed(ctx) = {}
        THEN [overall |-> "Unsupported", confidence |-> 0, metrics |-> <<>>]
        ELSE RollUp([m \in metrics |-> AssessMetric(ctx, m)])

-----------------------------------------------------------------------------
(* The inspection report, of one link *)

\* The lanes a metric is assessed from, in their order.
LaneSequence(ctx, m) ==
    IF LanesOf(ctx, m) = {} THEN <<Aggregate>>
    ELSE [i \in 1..Cardinality(LanesOf(ctx, m)) |-> i - 1]

LaneEvidence(ctx, m, lane) ==
    SetToSortSeq(Collected(ctx, m, lane), LAMBDA e, f : e.source < f.source)

UpTo(limit, entries) == SubSeq(entries, 1, Min({limit, Len(entries)}))

\* The evidence list of a metric: lane by lane, up to the limit of the query.
EvidenceOf(ctx, m) ==
    UpTo(MaxEvidencePerMetric,
         FoldLeft(LAMBDA refs, lane : refs \o LaneEvidence(ctx, m, lane), <<>>, LaneSequence(ctx, m)))

\* Mutated form: recovered evidence is listed like evidence that expired.
StaleWithRecovered(refs) == SelectSeq(refs, LAMBDA e : ~e.fresh)

StaleEvidence(refs) == SelectSeq(refs, LAMBDA e : ~e.recovered /\ ~e.fresh)

\* What inspect_fabric finds of a metric with this evidence list and state.
FindingsOf(m, refs, stale, state) ==
    [stale     |-> [i \in DOMAIN stale |-> [metric |-> m, source |-> stale[i].source]],
     conflicts |-> IF state # "Conflicting" THEN <<>>
                   ELSE <<[metric |-> m, claimants |-> UpTo(MaxClaimants, refs)]>>,
     freshness |-> <<[metric    |-> m,
                      stale     |-> Len(stale),
                      recovered |-> Len(SelectSeq(refs, LAMBDA e : e.recovered))]>>]

\* Of all metrics in their order, before the limit on entries.
Findings(ctx, metrics) ==
    FoldLeft(LAMBDA found, m :
                 LET refs == EvidenceOf(ctx, m)
                     more == FindingsOf(m, refs, StaleEvidence(refs), AssessMetric(ctx, m).state)
                 IN  [list \in DOMAIN found |-> found[list] \o more[list]],
             [stale |-> <<>>, conflicts |-> <<>>, freshness |-> <<>>],
             SetToSortSeq(metrics, LAMBDA m, n : m < n))

\* inspect_fabric: each list up to the limit, the rest counted.
InspectLink(ctx, maxEntries) ==
    LET found == Findings(ctx, Viewed(ctx))
        beyond(entries) == Max({Len(entries) - maxEntries, 0})
    IN  [stale     |-> UpTo(maxEntries, found.stale),
         conflicts |-> UpTo(maxEntries, found.conflicts),
         freshness |-> UpTo(maxEntries, found.freshness),
         dropped   |-> beyond(found.stale) + beyond(found.conflicts) + beyond(found.freshness)]
=============================================================================
