---------------------------- MODULE LinkRegistry ----------------------------
(***************************************************************************)
(* The link registry (class LinkRegistry,                                  *)
(* src/src/store/link_registry.cpp) as operators on its state, a record    *)
(*   current      the current generation of each known link id             *)
(*   generations  the retained generations of an id, oldest first          *)
(*   states       what is known of a link identity: superseded_by, or 0    *)
(*   evicted      the identities evicted and not yet taken                 *)
(* The time stamps and the evidence count of a LinkState are left out:     *)
(* nothing in the fabric decides by them.                                  *)
(***************************************************************************)
EXTENDS Integers, Sequences, FiniteSets, TLC

CONSTANTS
    LinkIds,               \* link ids, numbers in map order
    MaxLinks,              \* limits.max_links
    MaxGenerationsPerLink  \* limits.max_generations_per_link

ASSUME LinkLimitsAssumption == {MaxLinks, MaxGenerationsPerLink} \subseteq Nat \ {0}

-----------------------------------------------------------------------------
EmptyRegistry == [current |-> [i \in {} |-> 0], generations |-> [i \in LinkIds |-> <<>>],
                  states |-> [l \in {} |-> 0], evicted |-> <<>>]

LinkOf(id, generation) == [id |-> id, generation |-> generation]

KnowsLink(r, link) == link \in DOMAIN r.states

KnowsId(r, id) == id \in DOMAIN r.current

\* No room for another link id.
IdsFull(r) == Cardinality(DOMAIN r.current) >= MaxLinks

(***************************************************************************)
(* advance_generation, for a generation above the current one or a new id: *)
(* older states are superseded, the generation is retained, the oldest     *)
(* beyond the bound are evicted, and the new identity gets a state.        *)
(***************************************************************************)
Advanced(r, id, generation) ==
    LET retained == Append(r.generations[id], LinkOf(id, generation))
        excess == IF Len(retained) > MaxGenerationsPerLink
                  THEN Len(retained) - MaxGenerationsPerLink ELSE 0
        gone == SubSeq(retained, 1, excess)
        kept == {l \in DOMAIN r.states : \A i \in DOMAIN gone : gone[i] # l}
        superseded == [l \in kept |-> IF l.id = id /\ l.generation < generation
                                      THEN generation ELSE r.states[l]]
    IN  [current     |-> (id :> generation) @@ r.current,
         generations |-> [r.generations EXCEPT
                             ![id] = SubSeq(retained, excess + 1, Len(retained))],
         states      |-> IF LinkOf(id, generation) \in kept THEN superseded
                         ELSE (LinkOf(id, generation) :> 0) @@ superseded,
         evicted     |-> r.evicted \o gone]

AdvanceStatus(r, id, generation) ==
    IF KnowsId(r, id) /\ generation < r.current[id] THEN "Fenced"
    ELSE IF ~KnowsId(r, id) /\ IdsFull(r) THEN "LimitExceeded"
    ELSE "ok"

AdvanceGeneration(r, id, generation) ==
    IF AdvanceStatus(r, id, generation) # "ok" THEN r
    ELSE IF KnowsId(r, id) /\ generation = r.current[id] THEN r
    ELSE Advanced(r, id, generation)

\* Mutated form: a late identity is taken for a current one.
NoteAsCurrent(r, link) ==
    IF KnowsLink(r, link) THEN r ELSE [r EXCEPT !.states = (link :> 0) @@ @]

(***************************************************************************)
(* observe: a new id or a newer generation first becomes current; then     *)
(* note_evidence gives the identity a state if it has none, superseded     *)
(* from the start when the generation is an old one.                       *)
(***************************************************************************)
NoteEvidence(r, link) ==
    IF KnowsLink(r, link) THEN r
    ELSE [r EXCEPT !.states = (link :> IF link.generation < r.current[link.id]
                                     THEN r.current[link.id] ELSE 0) @@ @]

ObserveStatus(r, link) ==
    IF ~KnowsId(r, link.id) /\ IdsFull(r) THEN "LimitExceeded" ELSE "ok"

ObserveLink(r, link) ==
    IF ObserveStatus(r, link) # "ok" THEN r
    ELSE IF ~KnowsId(r, link.id)
         THEN NoteEvidence([r EXCEPT !.current = (link.id :> link.generation) @@ @,
                                     !.generations[link.id] = Append(@, link)], link)
    ELSE IF link.generation > r.current[link.id]
         THEN NoteEvidence(Advanced(r, link.id, link.generation), link)
    ELSE NoteEvidence(r, link)

\* take_evicted hands the list over and empties it.
EvictionsTaken(r) == [r EXCEPT !.evicted = <<>>]
=============================================================================
