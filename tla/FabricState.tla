----------------------------- MODULE FabricState -----------------------------
(***************************************************************************)
(* The state of the fabric and the journal it can be rebuilt from          *)
(* (src/src/runtime/fabric.cpp): policy generations, capability            *)
(* declarations, the link registry and the evidence store change under one *)
(* state lock, and each change is journaled before the lock is released.   *)
(* So an operation is one step here, and the journal is the sequence of    *)
(* records in ordinal order.  That the file really holds a prefix of it    *)
(* after a crash is the business of Journal; a crash that loses a suffix   *)
(* leads to the recovered state of an earlier point of this module.        *)
(*                                                                         *)
(* A policy document is "strict" or "open": it requires a capability       *)
(* declaration or does not.  A declaration of a source either covers the   *)
(* metric of its stream or does not.  Journal appends succeed here.        *)
(***************************************************************************)
EXTENDS Evidence, LinkRegistry

CONSTANTS
    Observations,         \* the observations that arrive
    Registrations,        \* the links that are registered explicitly
    Advances,             \* the link identities that are advanced to
    Documents,            \* the policy documents that are published
    Declarations,         \* the capability declarations that arrive
    InitialDocument,      \* the document of generation 1
    MaxPolicyGenerations, \* config.max_policy_generations
    MaxDeclarations,      \* limits.max_capability_declarations
    CompactAfter,         \* journal.compact_after_records, 0 to disable
    MaxRecords,           \* bound on the records in the journal
    MaxPublished          \* bound on the policy generation numbers

ASSUME FabricAssumption ==
    /\ {MaxPolicyGenerations, MaxDeclarations} \subseteq Nat \ {0}
    /\ {CompactAfter, MaxRecords, MaxPublished} \subseteq Nat
    /\ \A l \in Links : l.id \in LinkIds

VARIABLES
    live,      \* the state in memory: policies, capabilities, links, evidence
    log,       \* the journal's records in order
    since,     \* records_since_compaction_
    complete,  \* every record of the last recovery was applied
    degraded   \* what the recovery report says of the last recovery

vars == <<live, log, since, complete, degraded>>

-----------------------------------------------------------------------------
(* Policy generations: PolicyRegistry *)

CurrentPolicy(st) == st.policies[Len(st.policies)]

Installed(st, policy) ==
    [st EXCEPT !.policies = Newest(Append(@, policy), MaxPolicyGenerations)]

\* restore: already there, re-used with other content, not the next, or new.
RestoreStatus(st, policy) ==
    IF \E i \in DOMAIN st.policies : st.policies[i].generation = policy.generation
    THEN IF policy \in ToSet(st.policies) THEN "Duplicate" ELSE "IdMismatch"
    ELSE IF policy.generation # CurrentPolicy(st).generation + 1 THEN "Corrupt" ELSE "ok"

-----------------------------------------------------------------------------
(* Capability declarations: CapabilityRegistry *)

AnyLink == LinkOf(0, 0)  \* the scope of a declaration without a link_scope

ScopedKey(d) == [stream |-> d.stream, scope |-> d.scope]

DeclareStatus(st, d) ==
    IF ScopedKey(d) \notin DOMAIN st.capabilities
    THEN IF Cardinality(DOMAIN st.capabilities) >= MaxDeclarations THEN "LimitExceeded" ELSE "ok"
    ELSE LET stored == st.capabilities[ScopedKey(d)]
         IN  IF d.revision < stored.revision THEN "Fenced"
             ELSE IF d.revision > stored.revision THEN "ok"
             ELSE IF d = stored THEN "Duplicate" ELSE "IdMismatch"

Declared(st, d) == [st EXCEPT !.capabilities = (ScopedKey(d) :> d) @@ @]

\* capability_of: the first declaration of the source that applies to the
\* link decides, and one without a scope comes first.
Covered(st, o) ==
    LET any == [stream |-> o.stream, scope |-> AnyLink]
        scoped == [stream |-> o.stream, scope |-> o.link]
    IN  IF any \in DOMAIN st.capabilities THEN st.capabilities[any].covers
        ELSE scoped \in DOMAIN st.capabilities /\ st.capabilities[scoped].covers

DeclarationBefore(a, b) ==
    \/ a.stream < b.stream
    \/ a.stream = b.stream /\ LinkBefore(a.scope, b.scope)

-----------------------------------------------------------------------------
(* Links and evidence *)

\* Mutated form: the evictions are taken and nothing is dropped.
EvictedKept(st) == [st EXCEPT !.links = EvictionsTaken(@)]

\* take_evicted and drop_link: the evidence of evicted generations goes.
EvictedDropped(st) ==
    [st EXCEPT !.evidence = FoldLeft(DropLink, @, st.links.evicted),
               !.links = EvictionsTaken(@)]

Observed(st, link) == [st EXCEPT !.links = ObserveLink(@, link)]

AdvancedTo(st, link) == [st EXCEPT !.links = AdvanceGeneration(@, link.id, link.generation)]

WithEvidence(st, o, origin) == [st EXCEPT !.evidence = AppendEvidence(@, o, origin)]

-----------------------------------------------------------------------------
(* The journal *)

Journaled(kind, body) == [kind |-> kind, body |-> body]

FreshState ==
    [policies |-> <<[generation |-> 1, document |-> InitialDocument]>>,
     capabilities |-> <<>>, links |-> EmptyRegistry, evidence |-> EmptyStore]

(***************************************************************************)
(* build_snapshot: policies, declarations, links, retained evidence, and   *)
(* after the evidence the dedup windows that fence it.                     *)
(***************************************************************************)
Snapshot(st) ==
    LET each(kind, bodies) == [i \in DOMAIN bodies |-> Journaled(kind, bodies[i])]
        declarations == {st.capabilities[k] : k \in DOMAIN st.capabilities}
        windows == [i \in DOMAIN StreamKeys(st.evidence) |->
                       [key |-> StreamKeys(st.evidence)[i],
                        entries |-> st.evidence.streams[StreamKeys(st.evidence)[i]].dedup]]
    IN     each("Policy", st.policies)
        \o each("Capability", SetToSortSeq(declarations, DeclarationBefore))
        \o each("LinkObserved", SetToSortSeq(DOMAIN st.links.states, LinkBefore))
        \o each("Evidence", RetainedRecords(st.evidence))
        \o each("DedupWindow", windows)

(***************************************************************************)
(* apply_record for everything but a snapshot: the new state and whether   *)
(* the record could be applied.  Replaying a LinkObserved record leaves    *)
(* the evicted generations in the registry's list.                         *)
(***************************************************************************)
Applied(st, ok) == [state |-> st, ok |-> ok]

ApplyEvidence(st, o) ==
    IF ~Ok(Decision(st.evidence, o)) THEN Applied(st, FALSE)
    ELSE LET appended == WithEvidence(st, o, "Recovered")
         IN  IF ObserveStatus(st.links, o.link) # "ok" THEN Applied(appended, FALSE)
             ELSE Applied(EvictedDropped(Observed(appended, o.link)), TRUE)

ApplySimple(st, record) ==
    LET body == record.body
    IN  CASE record.kind = "Capability" ->
                 IF DeclareStatus(st, body) = "ok" THEN Applied(Declared(st, body), TRUE)
                                                   ELSE Applied(st, FALSE)
          [] record.kind = "Policy" ->
                 IF RestoreStatus(st, body) = "ok" THEN Applied(Installed(st, body), TRUE)
                 ELSE Applied(st, RestoreStatus(st, body) = "Duplicate")
          [] record.kind = "LinkObserved" ->
                 Applied(Observed(st, body), ObserveStatus(st.links, body) = "ok")
          [] record.kind = "LinkGenerationAdvanced" ->
                 IF AdvanceStatus(st.links, body.id, body.generation) = "ok"
                 THEN Applied(EvictedDropped(AdvancedTo(st, body)), TRUE)
                 ELSE Applied(st, FALSE)
          [] record.kind = "Evidence" -> ApplyEvidence(st, body)
          [] record.kind = "DedupWindow" ->
                 Applied([st EXCEPT !.evidence = SeedDedupWindow(@, body.key, body.entries)],
                         ~Full(st.evidence, body.key))

\* A snapshot is applied record by record up to the first that fails.
ApplySnapshot(st, records) ==
    FoldLeft(LAMBDA done, record : IF done.ok THEN ApplySimple(done.state, record) ELSE done,
             Applied(st, TRUE), records)

ApplyRecord(st, record) ==
    IF record.kind = "Snapshot" THEN ApplySnapshot(st, record.body)
                                ELSE ApplySimple(st, record)

\* The replay loop of initialize goes on after a record that fails.
Recovered(records) ==
    FoldLeft(LAMBDA done, record :
                 LET next == ApplyRecord(done.state, record)
                 IN  Applied(next.state, done.ok /\ next.ok),
             Applied(FreshState, TRUE), records)

-----------------------------------------------------------------------------
(* Operations *)

Init ==
    /\ live = FreshState
    /\ log = <<Journaled("Policy", FreshState.policies[1])>>
    /\ since = 1
    /\ complete = TRUE
    /\ degraded = FALSE

\* The operation leaves this state and journals these records.
Commit(st, records) ==
    /\ live' = st
    /\ log' = log \o records
    /\ since' = since + Len(records)
    /\ UNCHANGED <<complete, degraded>>

\* Mutated form: the snapshot is taken before the operation is applied.
CompactsEarlierState(st, records) ==
    LET due == CompactAfter # 0 /\ since + Len(records) >= CompactAfter
    IN  /\ live' = st
        /\ log' = IF due THEN <<Journaled("Snapshot", Snapshot(live))>> ELSE log \o records
        /\ since' = IF due THEN 0 ELSE since + Len(records)
        /\ UNCHANGED <<complete, degraded>>

\* As Commit, and maybe_compact at the end.
CommitAndCompact(st, records) ==
    LET due == CompactAfter # 0 /\ since + Len(records) >= CompactAfter
    IN  /\ live' = st
        /\ log' = IF due THEN <<Journaled("Snapshot", Snapshot(st))>> ELSE log \o records
        /\ since' = IF due THEN 0 ELSE since + Len(records)
        /\ UNCHANGED <<complete, degraded>>

Room(n) == Len(log) + n <= MaxRecords

DeclareCapability(d) ==
    /\ Room(1)
    /\ DeclareStatus(live, d) = "ok"
    /\ Commit(Declared(live, d), <<Journaled("Capability", d)>>)

\* Mutated form: the record of the generation before is journaled.
PublishJournalsPrevious(document) ==
    LET policy == [generation |-> CurrentPolicy(live).generation + 1, document |-> document]
    IN  /\ Room(1)
        /\ policy.generation <= MaxPublished
        /\ Commit(Installed(live, policy), <<Journaled("Policy", CurrentPolicy(live))>>)

PublishPolicy(document) ==
    LET policy == [generation |-> CurrentPolicy(live).generation + 1, document |-> document]
    IN  /\ Room(1)
        /\ policy.generation <= MaxPublished
        /\ Commit(Installed(live, policy), <<Journaled("Policy", policy)>>)

RegisterLink(link) ==
    /\ Room(1)
    /\ ~KnowsLink(live.links, link)
    /\ ObserveStatus(live.links, link) = "ok"
    /\ Commit(EvictedDropped(Observed(live, link)), <<Journaled("LinkObserved", link)>>)

AdvanceLinkGeneration(link) ==
    /\ Room(1)
    /\ AdvanceStatus(live.links, link.id, link.generation) = "ok"
    /\ Commit(EvictedDropped(AdvancedTo(live, link)),
              <<Journaled("LinkGenerationAdvanced", link)>>)

(***************************************************************************)
(* ingest: the link is observed first, and stays observed and journaled    *)
(* when the store then refuses the evidence.  A duplicate is journaled     *)
(* like an accepted record.                                                *)
(***************************************************************************)
Ingest(o) ==
    LET observed == EvictedDropped(Observed(live, o.link))
        link == IF KnowsLink(live.links, o.link) THEN <<>>
                ELSE <<Journaled("LinkObserved", o.link)>>
    IN  /\ Room(2)
        /\ CurrentPolicy(live).document = "strict" => Covered(live, o)
        /\ ObserveStatus(live.links, o.link) = "ok"
        /\ IF Ok(Decision(observed.evidence, o))
           THEN CommitAndCompact(WithEvidence(observed, o, "Live"),
                                 link \o <<Journaled("Evidence", o)>>)
           ELSE Commit(observed, link)

Compact ==
    /\ log' = <<Journaled("Snapshot", Snapshot(live))>>
    /\ since' = 0
    /\ UNCHANGED <<live, complete, degraded>>

(***************************************************************************)
(* Close and open again: initialize.  A record that could not be applied   *)
(* sets recovery_.degraded, which the assignment of the reader's report    *)
(* then overwrites; the file itself is sound, so the reader reports none.  *)
(***************************************************************************)
Restart ==
    LET done == Recovered(log)
    IN  /\ live' = done.state
        /\ complete' = done.ok
        /\ degraded' = FALSE
        /\ since' = 0
        /\ UNCHANGED log

Next ==
    \/ \E d \in Declarations : DeclareCapability(d)
    \/ \E document \in Documents : PublishPolicy(document)
    \/ \E link \in Registrations : RegisterLink(link)
    \/ \E link \in Advances : AdvanceLinkGeneration(link)
    \/ \E o \in Observations : Ingest(o)
    \/ Compact
    \/ Restart

Spec == Init /\ [][Next]_vars
-----------------------------------------------------------------------------
(* Properties *)

(***************************************************************************)
(* A restart restores the registries: the policy generations with their    *)
(* numbers, the capability declarations, and the current generation of     *)
(* every link, whatever was compacted, re-declared or refused in between   *)
(* (Fabric::initialize, apply_record and build_snapshot).  Every record    *)
(* that was journaled applies when it is read back, directly or inside a   *)
(* snapshot: "replay restores state instead of re-deciding it".            *)
(***************************************************************************)
RecoveryRestoresRegistries ==
    LET recovered == Recovered(log).state
    IN  /\ Recovered(log).ok
        /\ recovered.policies = live.policies
        /\ recovered.capabilities = live.capabilities
        /\ recovered.links.current = live.links.current

(***************************************************************************)
(* A link state is marked superseded exactly while a newer generation of   *)
(* its id is current, and by that generation: late observations of old     *)
(* generations, evictions and restarts included (advance_generation and    *)
(* note_evidence of LinkRegistry).                                         *)
(***************************************************************************)
SupersededExactly ==
    \A l \in DOMAIN live.links.states :
        /\ KnowsId(live.links, l.id)
        /\ l.generation <= live.links.current[l.id]
        /\ live.links.states[l] =
               IF l.generation < live.links.current[l.id] THEN live.links.current[l.id] ELSE 0

(***************************************************************************)
(* No operation leaves evidence behind its link generation: while every    *)
(* stream and every record of the history belongs to a link identity the   *)
(* registry has, no ingestion, registration or advance changes that, and   *)
(* in particular none that evicts generations (evidence_store.hpp:116-117, *)
(* drop_link is "used when a link generation is evicted by the retention   *)
(* bound").                                                                *)
(***************************************************************************)
EvidenceHasItsLink ==
    /\ \A k \in DOMAIN live.evidence.streams : KnowsLink(live.links, k.link)
    /\ \A i \in DOMAIN live.evidence.history :
           KnowsLink(live.links, live.evidence.history[i].link)

OperationsLeaveNoOrphans ==
    [][ log' # log /\ EvidenceHasItsLink => EvidenceHasItsLink' ]_vars

(***************************************************************************)
(* "A record that cannot be applied degrades recovery; it is never         *)
(* silently dropped" (fabric.cpp:222-223).                                 *)
(***************************************************************************)
NothingSilentlyDropped == complete \/ degraded

(***************************************************************************)
(* "Everything that was reported accepted is present after recovery"       *)
(* (tests/test_shutdown.cpp:121) and "a replayed frame is refused after a  *)
(* restart exactly as it was refused before it" (formats.md:27-29): for    *)
(* the current generation of a link, the recovered store holds what the    *)
(* store in memory holds and decides alike about every observation.  Not   *)
(* so for late evidence of a generation that was evicted: a replayed       *)
(* LinkObserved record leaves the evicted generations listed, and the next *)
(* Evidence record drops what was accepted for them since.                 *)
(***************************************************************************)
AcceptedIsRecovered ==
    LET recovered == Recovered(log).state.evidence
        current == {l \in Links : KnowsId(live.links, l.id) /\ live.links.current[l.id] = l.generation}
        kept(store, k) == {[seq |-> r.seq, value |-> r.value] : r \in ToSet(StreamOf(store, k).recent)}
    IN  /\ \A k \in DOMAIN live.evidence.streams :
               k.link \in current => kept(live.evidence, k) \subseteq kept(recovered, k)
        /\ \A o \in Observations :
               o.link \in current => Decision(recovered, o) = Decision(live.evidence, o)
=============================================================================
