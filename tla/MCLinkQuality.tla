---------------------------- MODULE MCLinkQuality ----------------------------
(***************************************************************************)
(* Metric 1 is a gauge with two lanes, metric 2 a counter of the link.     *)
(***************************************************************************)
EXTENDS LinkQuality

TheLink == [id |-> 1, generation |-> 1]
TheLinks == {TheLink}
TwoMetrics == {1, 2}
TheCounter == {2}
TwoSources == {1, 2}

\* Values below 2 are healthy, more is degraded; readings may differ by 1.
TheRules == [m \in TwoMetrics |->
                [bands |-> <<[upper |-> 2, state |-> "Healthy"], [upper |-> 9, state |-> "Degraded"]>>,
                 tolerance |-> 1, validity |-> IF m = 2 THEN 2 ELSE 0]]

\* SeverityTable::defaults
DefaultSeverity ==
    [s \in States |->
        CASE s = "Unknown" -> 0 [] s = "Unsupported" -> 1 [] s = "Healthy" -> 2
          [] s = "Incomplete" -> 3 [] s = "Stale" -> 4 [] s = "Marginal" -> 5
          [] s = "Degraded" -> 6 [] s = "Severe" -> 7 [] s = "Conflicting" -> 8]

Capability(kind, lanes, validity) == [kind |-> kind, lanes |-> lanes, validity |-> validity]

BothMetrics == <<Capability("supported", 2, 0), Capability("supported", 0, 0)>>
AllDeclared == [s \in TwoSources |-> BothMetrics]

\* Both metrics; the gauge alone, with one lane less and fresh for longer;
\* nothing.
ThreeDeclarations ==
    { BothMetrics,
      <<Capability("supported", 1, 2), Capability("unsupported", 0, 0)>>,
      <<Capability("none", 0, 0), Capability("none", 0, 0)>> }

Gauge(lane, source, seq, value, authority) ==
    [link |-> TheLink, stream |-> [metric |-> 1, lane |-> lane, source |-> source],
     seq |-> seq, value |-> value, authority |-> authority]
Counted(seq, value) ==
    [link |-> TheLink, stream |-> [metric |-> 2, lane |-> Aggregate, source |-> 1],
     seq |-> seq, value |-> value, authority |-> 1]

\* Two sources that disagree, then agree, or differ with less authority; a
\* second lane; a counter whose rate is degraded over one instant, healthy over
\* two.
TheObservations ==
    { Gauge(0, 1, 0, 0, 2), Gauge(0, 1, 1, 2, 2), Gauge(0, 2, 0, 2, 2), Gauge(0, 2, 1, 3, 1),
      Gauge(1, 1, 0, 1, 2),
      Counted(0, 0), Counted(1, 3) }
=============================================================================
