------------------------------ MODULE MCEvidence ------------------------------
(* The links, streams and readings of the evidence run. *)
EXTENDS EvidenceStore

OneLink == {[id |-> 1, generation |-> 1]}

TwoStreams == {1, 2}

TwoValues == {0, 2}
=============================================================================
