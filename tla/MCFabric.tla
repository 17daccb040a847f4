------------------------------- MODULE MCFabric -------------------------------
(* The inputs of the fabric state runs. *)
EXTENDS FabricState

Ids == {1}
Generations(n) == [id : Ids, generation : 1..n]
OneGeneration == Generations(1)
ThreeGenerations == Generations(3)
SecondGeneration == [id : Ids, generation : {2}]

\* The first sequence of one stream, on some links.
FirstOn(links) == [link : links, stream : {1}, seq : {1}, value : {0}]
OneObservation == FirstOn(OneGeneration)
LateGenerations == FirstOn(ThreeGenerations)

Nothing == {}
OpenOnly == {"open"}
StrictOnly == {"strict"}

\* Revisions of a declaration for every link, of one for a single link, and
\* a third key, beyond the limit of two.
Declare(stream, scope, revision, covers) ==
    [stream |-> stream, scope |-> scope, revision |-> revision, covers |-> covers]
ThreeKeys == {Declare(1, AnyLink, 1, TRUE), Declare(1, AnyLink, 2, FALSE),
              Declare(1, LinkOf(1, 1), 1, FALSE), Declare(1, LinkOf(1, 1), 1, TRUE),
              Declare(2, AnyLink, 1, TRUE)}

(***************************************************************************)
(* The bound on how much a state holds at once: the more declarations and  *)
(* policies, the fewer link generations.                                   *)
(***************************************************************************)
MaxHeld == 4
Held == Cardinality(DOMAIN live.capabilities) + Len(live.policies)
            + Cardinality(DOMAIN live.links.states)
WithinHeld == Held <= MaxHeld
=============================================================================
