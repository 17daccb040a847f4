# A TLA+ model of the Link Quality Fabric

The Link Quality Fabric collects telemetry about network links, keeps it with
its provenance, journals it, and answers how good a link is. These modules
model the parts of it that hold state or run concurrently, check them with TLC
on small instances, and prove what matters most about journal, journal file,
counter, calls, server and lock audit with TLAPS, for instances of any size.
Paths below are relative to the repository (`src/` in `PROJECT.json`).

## 1. Inventory: the system and its parts

| Part (source) | State | Operations | What is hard about it |
|---|---|---|---|
| Background journal (`src/persist/journal.cpp`) | queue, record in flight, flags, file, file position | append, flush, compact, stop; the writer thread | three kinds of threads share one FILE; pauses and condition variables; failing writes, syncs, closes, renames and reopens |
| Journal recovery (`JournalReader`) | file position, ordinals | open, next, repair of a torn tail | crashes at any step, damaged lengths and payloads, limits |
| Counter continuity (`src/domain/counter.cpp`) | baseline, bound identity, last delta | observe | resets, wraps, restarts and lateness look alike; 64-bit arithmetic |
| Evidence store (`src/store/evidence_store.cpp`) | per stream: ring, dedup window, watermark, counter; a global history | append, drop_link, retained_records, seed_dedup_window | bounded memory against replays of any age |
| Link registry (`src/store/link_registry.cpp`) | current generation per id, state per generation, retention list | observe, advance_generation, take_evicted | late evidence of old generations |
| Capability registry (`src/store/capability_registry.cpp`) | declarations by source and scope | declare, capability_of, view_for_link | revisions, limits, scopes that shadow each other |
| Policy registry (`src/domain/policy.cpp`) | retained generations | publish, restore | numbering across restarts |
| Fabric (`src/runtime/fabric.cpp`) | all of the above, one state lock, ordinals | ingest, declare, publish, register, advance, query, window, flush, compact, close, open | steps before, under and after the lock; replay against live processing; snapshots |
| Classifier (`src/classify/classifier.cpp`) | none | classify_link, explain, inspect | freshness, authority, conflicts, missing lanes, history |
| Loopback server (`src/transport/server.cpp`) | threads, sockets, wakeup channels, stop flag | start, wait, request_stop, stop; accept and connection loops | shutdown from any side, joins, lost wakeups, bounds |
| Client, sockets, frames (`src/transport`) | a connection | connect, handshake, one method per request, close | partial frames, resets, answers left unread, limits on both sides |
| Command line tool (`apps/lqf`) | one command | query, explain, inspect, metrics, policy, emit, shutdown, journal-verify | what an exit status promises when the server or the process dies; two runs at once |
| Lock tracker (`src/core/lock_tracker.cpp`) | lists of held locks, lock order graph | lock, try_lock, unlock, shared or not | order inversions, failed tries, bounds |
| Codecs, identities, units, text, hashes | none | pure functions, formatting | |

What correctness means, part by part:

* **Journal**: file order is ordinal order; what a flush acknowledged survives;
  compaction has the file to itself; recovery starts from a gap-free prefix;
  everything that waits stops waiting.
* **Counter**: a delta is what the device counted, within one life of the
  counter, and no rate is given without a usable interval.
* **Store and registries**: a replay is recognised or fenced, but for the one
  sequence at the edge of the window; limits are exact, and a restart leaves all
  of this as it was.
* **Fabric**: success means journaled, a refused entry leaves no trace, close
  loses nothing and every call returns.
* **Classifier**: no claim without fresh evidence; neither a disagreement nor
  an unmeasured lane is hidden; history does not change; an inspection lists
  every problem or says that its list was cut.
* **Server**: bounded, silent only about an answer that does not fit a frame,
  stoppable but for a peer that does not read.
* **Client and commands**: an exit status of zero means that every request was
  performed once; every command ends.
* **Lock tracker**: no deadlock without a report, no report against threads
  that keep one order.

Hazards, with the lines where they bite and the properties that would catch
them, are listed in `PROJECT.json`.

## 2. Plan

Built so far, in this order: journal and its proofs; counter; evidence store;
registries and fabric state with recovery; calls from several threads; server;
classifier; client sessions and commands; lock tracker; the journal file and
its repair; inspection; sends that block; proofs about calls, server, counter,
journal file and lock tracker. Left for later work:

1. proofs: the evidence store's window (`ReplaysFencedButAtEdge`), `LinkRegistry`'s
   `SupersededExactly`, the exit status of the commands (`ExitZeroMeansDone`);
2. a composition of `FabricState` with `Journal`, replacing the assumption that
   the log read back is the log written by the refinement already proved;
3. scoped and unscoped declarations of one source in the classifier, and
   severity tables other than the default.

## 3. Modules

Four pairs separate *what an operation computes* (operators on a state record)
from *when it happens* (a state machine), so that the same definitions serve in
several compositions:

```
Counter ------> CounterContinuity          one engine fed by a device
   |
Evidence -----> EvidenceStore              one store fed by sources
   |      \
   |       Classifier --> LinkQuality      what queries answer over time
   |
LinkRegistry
   \------> FabricState                    all registries, journal, recovery

Fabric                                     threads, state lock, journal, close
Server                                     threads and sockets of lqf serve
Session                                    commands, clients, frames, answers
LockTracker                                the audit behind every mutex
JournalFile                                sizes, checksums, damage, repair
Journal ---implements---> DurableLog
```

Modules named `MC...` only give constants their values. The theorems about a
module `X` are in `XProofs` (those about `CounterContinuity` in
`CounterProofs`).

**Journal** follows `BackgroundJournal` and `JournalReader`. The writer loop,
flush, compact and stop are split where the code releases a mutex, waits or
performs I/O; program counters `wpc`, `cpc`, `spc` and `fpc` name the places. A
record is its kind and its ordinal. The file is what `fwrite` was given,
`synced` the part a completed sync covers, `handle` the position of the stream
("start" after the failed compaction's reopen). `Crash` keeps any prefix at
least as long as the synced one, possibly with a torn record; `Recover` is the
reader of the next process with its contiguity test and limit.

A rename may also fail because `lqf journal-verify` or `journal-dump`, run
beside the runtime, discarded the temporary file.

**JournalFile** looks at the same file from below: records have sizes, state a
length and match their checksum or not. `Found` is the decision of
`JournalReader::next` between a torn tail and corruption, with the scan of
`intact_record_follows`; `Open` refuses, repairs or accepts the file as
`Fabric::initialize` does; `Crash` keeps unsynced pages in any order, and `Rot`
changes a payload or a length at rest. A body and a prefix are separate, because
`append` checks the one and `next` both. `Verify` is `lqf journal-verify`, which
reads with a default `JournalConfig` and takes its limits for the end of the
file: it has constants of its own, `ToolRecordBytes` and `ToolMaxRecords`.

**DurableLog** is the promise: a restart loses at most a suffix, and nothing
acknowledged.

**Counter** has the tests of `CounterContinuity::observe` in their order, wrap
inference, gap detection and arithmetic modulo 2^64 (by the constant
`Modulus64`). **CounterContinuity** adds a device that counts, is reset,
restarts, and whose readings are lost, duplicated and reordered on their way.

**Evidence** is `append` with the replay fence, windows, rings and limits, and
what a snapshot keeps. **EvidenceStore** feeds it every order of arrival, drops
links and reloads it from a snapshot.

**LinkRegistry** and **FabricState**: every operation of the fabric with the
records it journals, automatic compaction, snapshots as the list of records
`build_snapshot` writes, replay of every kind of record as in `apply_record`,
and restart. Operations are atomic here, since they run under the state lock.

**Fabric** is about the steps outside that lock: `open_` tested before it,
`journal_` used without it, the admission probe and the appends, the writer's
failure in between, flush and compaction, and close. What the operations do to
the registries is reduced to entries in a set; the registries may refuse an
entry before the probe, at the link and, with the link already journaled, at the
evidence (`IngestRefused`, `DeclareRefused`).

**Classifier** is `classify_link` as operators on a context (store,
declarations, instant, incarnation): validity, freshness, selection of the
newest record at an instant, reconstruction of the counter, authority,
conflict, bands, confidence, lane aggregation and roll-up; and `inspect_fabric`
with its evidence lists and their bounds. **LinkQuality** lets
evidence arrive, declarations change, the clock run and the process restart
(with a steady clock that starts anew). It takes `require_capability` to be on
and looks at one policy.

**Server** has the owner (start, wait, stop as in `cmd_serve`), the accept
thread, one thread per connection and the peers. A frame is sent in two parts
and may be damaged in either; calls of the socket layer may fail; closing with
unread bytes may take an answer away; an answer may wait for a peer that does
not read, or be too large for a frame (`TooLarge`), which closes the connection
without a word. `KilledByPipe` is the death of the process by a send to a peer
that is gone: `send_all` passes no flags and nothing handles SIGPIPE.

**Session** runs one command per client process against one server, down to the
cells of a byte stream: a header and the body of a frame. `NextRequest` and the
`After...` operators are the commands of `apps/lqf` and the methods of
`FabricClient`; `Received` is what either side makes of the bytes it finds, also
of bytes left over from something else; `Dispatched` is the server's dispatch on
a fabric reduced to a revision, a stream, a policy generation and a stop flag.
An observation is acknowledged as accepted or as rejected, for whatever reason
(`IngestBatch`); other requests are answered with an error when the fabric
refuses them. Clients are killed and the server dies between any two steps.

**LockTracker** has threads that take, try and release `TrackedMutex`es, shared
or exclusive, on top of the real ownership of the locks. `BeforeAcquire` is the
audit with its three bounds: held locks per thread, edges, search depth.

State is named as in the code where the code has a name for it; the comment at
each variable gives it otherwise. `map` in `PROJECT.json` ties every definition
to its lines. Definitions commented "Mutated form" are not part of the model:
each is a plausible mistake in the definition after it, and substituting it
breaks one of the properties.

## 4. Runs

| Run | Module | States | Shows |
|---|---|---|---|
| `journal_order` | MCJournal | 123 k | order, durability, exclusive use of the file, recoverability, refinement of `DurableLog`, with failing writes and syncs and crashes |
| `journal_faults` | MCJournal | 568 k | with every fault: recovery starts from a prefix; compaction, stop and an overtaken flush end |
| `counter` | MCCounter | 1.25 M | deltas are exact and within one life, rates honest, late readings never rewind |
| `evidence` | MCEvidence | 54 k | replays are recognised or fenced but for one sequence at the edge of the window, only newest sequences reach the counter, snapshots keep decisions and baselines |
| `fabric_state` | MCFabric | 139 k | restarts restore registries and evidence and decide as before; superseded generations are marked exactly; no orphans |
| `calls_serve` | MCFabricCalls | 152 k | honest reports, refused entries without trace, close loses nothing, every call returns |
| `server` | MCServer | 312 k | the bound, no silent drop but of too large an answer, stop returns and leaves nothing behind, every frame answered |
| `link_quality` | MCLinkQuality | 175 k | claims rest on fresh evidence, conflicts surface, lanes are not hidden, authority decides, as-of answers history, inspection hides nothing |
| `session` | MCSession | 903 k | exit status zero means done, a generator run fails on its declaration only for a cause and leaves a prefix it can account for, every command ends |
| `locks` | MCLockTracker | 367 k | a deadlock is reported while the bounds hold; no false alarm against one order |
| `journal_file` | MCJournalFile | 276 k | a repair cuts no intact acknowledged record but for two named reasons; a file is refused only after damage, reordered pages or an interrupted first start; what journal-verify vouches for |
| `fabric_policy_retention` | MCFabric | violation | see section 7 |

Deadlock is checked in the two runs of `Journal`. In the others the system may
stop: all inputs are used up, the fabric is closed, the server is stopped, every
command has ended, or, in `locks`, threads do deadlock.

### Bounds

* **Journal**: four ordinals and a queue of two make a full queue, a record in
  flight and one in the file meet a compaction and a crash; two flushing
  threads are symmetric. With all faults and fairness, one flusher and three
  ordinals; the recovery limit of three is then within reach.
* **Counter**: 4 and 6 stand for 2^32 and 2^64. They keep the quarter
  boundaries apart and let a step of 3 wrap either width; the clock set has a
  forward step of exactly the gap limit, backward steps and one overflow.
* **Evidence**: a window of two over sequences 0 to 4 has sequences inside, at
  the edge of and behind the window; two streams meet a limit of one.
* **Fabric state**: three generations with a retention of two, two policies,
  two declarations of three keys, compaction after four records; `WithinHeld`
  keeps a state from holding all of these at once. One observation per
  generation is enough here: orders of arrival are the business of `evidence`.
* **Calls**: two threads with two calls each, a queue of two (an ingestion
  needs two places), compaction after three records.
* **Server**: two peers at a bound of one connection, one start, one failing
  socket call; between them the peers send every kind of frame (the second the
  damaged ones and the one with too large an answer).
* **Session**: two processes that between them run every command that changes
  something and one that only reads; two revisions, two observations, one
  retained policy generation; sizes 1 to 3 on both sides of limits 1, 2 and 3,
  so that each side can be sent more than it takes; a connection bound of two
  with other peers holding up to one, so that a command is turned away. The
  commands that only read differ in nothing but the type of the request.
* **Locks**: three threads and three locks make a cycle of three, the longest
  the tracker's search has to follow at a depth of one; the bounds on held
  locks (two) and edges (three) are reached. Reports stop at one, since a
  property asks whether there was any.
* **Journal file**: empty bodies and bodies of the maximal length, four
  appends, two faults of the medium: enough for a damaged record with intact
  records on both sides and for a second repair after the first. The tool takes
  longer records than the runtime and one record less than the file can hold, so
  that both exceptions of `RefusedOnlyForDamage` occur.
* **Link quality**: two sources, a gauge with two lanes, a counter, seven
  observations of which three arrive, three instants at a validity of one or
  two, one restart and one replaced declaration. Every property needs at most
  three observations to be violated by its mutated form.

### Fairness

Weak fairness only, and only on steps of threads that the operating system
schedules: the writer thread, a thread inside compact, stop, flush or any entry
point, the accept thread, connection threads, the owner's waiting thread, and
the client process of a command. A thread waiting on a condition variable has a
step only when it was notified (or when its predicate is tested), so fairness
does not paper over a lost wakeup (section 7). Nothing is assumed of the
server's peers, devices, faults, crashes or callers; `StopReturns` therefore
allows a stop to wait for a send to a peer that reads nothing, or to be killed
by a send to one that is gone, and nothing else.

## 5. Proofs

Every theorem is about the same specification its run checks, for every value of
the constants that the assumptions of the module allow. Each rests on an
inductive invariant, called `IInv` or built from named parts, which TLC checked
on the instance of the run before it was proved; the proof that a step keeps it
has one case per action.

### Journal (`JournalProofs`)

For every number of flushing threads, queue depth, number of records and set of
faults:

* `TypeCorrect`: `Spec => []TypeOK`, with no further assumption.

and under the two assumptions `CompactionSucceeds` (the faults do not include a
failed compaction, close or reopen; section 7 says why it is needed) and
`RecoveryUnlimited` (the recovery limit exceeds what the file can hold):

* `JournalInvariant`: `Spec => []IInv`;
* `OrderHolds`, `DurabilityHolds`, `ExclusiveFile`, `RecoverySucceeds`: the
  invariants `FileOrder`, `FlushedIsDurable`, `CompactionOwnsFile` and
  `NeverRefused`, which `journal_order` checks on an instance;
* `Refinement`: `Spec => ImplementsDurableLog`.

None of the invariants is inductive by itself. That compaction owns the file
depends on where the other threads are when it begins (`ThreadInv`); that the
file ends where the queue continues depends on file, record in flight and queue
together (`PipeInv`: the end of the file, plus what is in flight and queued, is
the next ordinal, unless a write failed); that the acknowledged part is durable
depends on the order inside the file (`FileInv`, `SyncInv`). `IInv` is their
conjunction with `TypeOK`. Lemmas collect
what several actions do: `FileUnchanged`, `FileCut` (crash, close), `FileGrows`
(the writer), `FileRead` (recovery), `Acknowledged` (flush and stop).
`StepRefines` maps append to `Accept`, a successful flush or stop to
`Acknowledge`, recovery to `Restart` and everything else to stuttering.

### Journal file (`JournalFileProofs`)

`FileInvariant`, `RefusalsJustified` (`RefusedOnlyForDamage`) and `RepairsExact`
(`RepairIsExact`), for files of any length, any bodies, and any limits of the
runtime and the tool. The invariant says what each record looks like while the
runtime is up (`UpInv`) and as long as nothing was damaged (`CrashInv`), that
only the last may be cut off (`CutOffInv`), that nothing was appended or
acknowledged before the file header was there to stay (`HeaderInv`), why a file
was refused (`RefusedInv`), what repairs have cut (`LostInv`) and what a passed
verification means (`VerifiedInv`): a record the tool accepts and the runtime
does not is too long for the runtime, hence a torn tail and never a reason to
refuse (`VerifiedIsTorn`). The center is
what the reader meets: by induction on the length of the file the bytes left
from a whole record on suffice for it (`UnitsLeftEnough`), so a sound record is
read (`CleanReads`), and the reader stops at the first record that is not
(`StopsAt`, `TornBecause`).

### Counter (`CounterProofs`)

`DeltasExact`, `RatesHonest` and `LateReadingsHeld` are the action properties
`DeltaExact`, `RateHonest` and `LateNeverRewinds`, for every modulus, quarter
boundaries, gap and clock. They follow from `ReadingsInvariant`: readings of one
life of the device, in the messages and in the baseline, have totals in the
order of their sequence numbers and show them modulo the width; a difference of
two of them, wrapped or not, is then the difference of the totals.
`RatesHonest` assumes `GapBelowSaturation`: a gap of exactly the largest i64,
which `validate_policy` does not exclude (`policy.cpp:203`, `245`), would admit
an interval that overflowed and was replaced by that number.

### Calls of the fabric (`FabricProofs`)

`RefusalsLeaveNoTrace` needs no assumption on the order of close: the invariant
is who holds the state lock, which numbers were taken under it, and that
between a successful probe and its appends the queue has room and the journal
is there (`LockInv`, `NumberInv`, `ProbeInv`). `ReportsHonest` and
`AcceptedDurable` assume `ServeOrder`, that close waits for the callers as
`lqf serve` does; without it they are false (section 7). `ThreadAssumption`, in
`Fabric`, only says that the closing thread is none of the clients.

### Server (`ServerProofs`)

`AccountsHold` (`ConnectionsAccounted`) and `ReasonsHold` (`ClosedWithReason`)
for any number of peers, starts, frames and failing calls. The count of
connections is exact because each thread's entry, socket and share of the count
are created and given up together; the invariant ties them to the place of the
thread in `connection_loop` and of the owner in `stop`. `ReasonsHold` says
that, unless the server is stopping, was killed or had a socket call fail, a
live peer's connection is closed with an error for an answer, or because its
request was read whole and the answer does not fit a frame. For that `FrameInv`
ties what a thread has read to what its peer has sent, so that no thread
answers, or gives up on, a frame it does not have.

### Lock audit (`LockTrackerProofs`)

`AlarmsJustified` (`NoFalseAlarm`) and `DeadlocksReported`
(`DeadlockIsReported`), for any number of threads, any finite set of locks and
any bounds. The first rests on the lists: each holds, once, locks its thread
really has and at its end the one being acquired (`ListInv`), so that all edges
are orders that occurred. The second rests on the search: `SearchIsComplete`
shows by counting that a search of `MaxDepth + 1` edges misses no path among
`MaxDepth + 2` locks, since each level of it either adds a lock or is closed
under successors; `EdgeKeepsAcyclic` that an edge closes a cycle only when such
a path leads back; `DeadlockNeedsCycle` that the locks a set of stuck threads
waits for would form one, also where a reader waits behind a waiting writer.

### What is only model-checked

* All liveness properties, which need fairness and `ENABLED`: `WaitsEnd`,
  `EveryCallReturns`, `StopReturns`, `EveryFrameAnswered`,
  `AcknowledgedShutdownStops`, `EveryCommandEnds`.
* `RecoveryIsPrefix`, whose run has the faults that the proofs about the
  journal exclude.
* The properties of `EvidenceStore`, `FabricState`, `LinkQuality` and `Session`.
  The first three are about folds over sorted sequences (replay, snapshots,
  reconstruction of a counter): the induction theorems of the library take an
  operator for the property, which the provers cannot instantiate. The proofs
  above use `SetInduction` instead, which takes the set of the numbers that have
  the property, and unfold each recursive function by hand; this has not been
  done for the folds.

## 6. What is not modelled

* Byte formats and codecs: a field is what it says, a checksum matches or does
  not. That encoding and decoding are inverse is arithmetic on buffers without
  state, which the repository's round-trip tests exercise.
* Formatting, explanations, reason codes, statistics, option tables and what
  the commands print; `journal-dump` beyond its opening of the file.
* Validation of single inputs (identities, units, documents): inputs are well
  formed.
* Windows-specific socket behaviour, descriptor limits, and signals other than
  SIGPIPE.
* Addresses that the lock tracker sees again after a mutex was destroyed
  (`lock_tracker.hpp:66`): the locks of `LockTracker` live for ever.
* The bounds of a batch: a generator run sends one observation at a time, so a
  batch is never refused as a whole.
* The selection of records by a window query: a stateless filter over the
  history, whose contents and order `Evidence` has. Truncation of a report by
  `max_metrics`.
* A second `start` of a server whose accept loop ended by itself
  (`server.cpp:98` would assign over a thread that was not joined): the owner of
  the model starts again only after `stop`, as every caller in the repository
  does.
* The time between reading the clock and taking the state lock
  (`fabric.cpp:570`): stamps may be out of the order of arrival by as long as a
  call waits.
* `capability_of` looks at the first matching declaration of a source,
  `view_for_link` merges all (`capability_registry.cpp:161`); `FabricState` has
  the first, `Classifier` gives a source one declaration per metric.

## 7. Where code and documentation disagree

One disagreement has a run of its own; the trace TLC prints is the argument.

* `fabric_policy_retention` (`fabric.cpp:227`): once a policy generation is no
  longer retained, a snapshot written later cannot be applied, and the recovery
  report does not say so. `fabric_state` stays below that point
  (`MaxPublished` is at most `MaxPolicyGenerations`), which is why its
  `RecoveryRestoresRegistries` holds.

Three more are in the models and come back when a constant is changed:

* `journal.cpp:781`: after a failed compaction the file is reopened at its
  start and the next record overwrites the header ("durability is never
  silently traded for availability", `journal.hpp:129-131`). `FlushedIsDurable`
  fails as soon as `Faults` contains "compact"; the proofs assume it does not.
  A failed rename needs no failing disk: `lqf journal-verify`, described as
  read-only, discards the temporary file of a compaction under way.
* `fabric.cpp:567`: an ingestion that tested `open_` before close is reported
  accepted and is not journaled (`test_shutdown.cpp:103-104`).
  `AcceptedIsDurableAfterClose` fails with `ServeOrder = FALSE`.
* `server.cpp:629`: a shutdown signalled between the predicate and the sleep of
  `wait` is lost, and `lqf serve` does not end ("exits zero on a protocol
  shutdown", `docs/validation.md:24`). In `Server` the step is `NotifyOwner` at
  "wait:blocking"; no property asks that the owner wakes up.

Others were met while modelling. The models contain the behaviour, and the
properties are stated so as to hold beside it:

* `journal.cpp:338`: a recovery that stops at `max_recovery_records` numbers on
  from there although the file goes on, so ordinals repeat (`formats.md:25-26`).
* `counter.cpp:197`: the width is tested before the sequence, so a late reading
  of another width becomes the baseline (comment at `counter.cpp:211-212`).
  `LateNeverRewinds` is about readings of the same width and identity.
* `counter.cpp:161`: a new incarnation takes its first reading for baseline
  before the range test; `DeltaExact` is about readings in range. Ingestion
  refuses the others earlier.
* `evidence_store.cpp:146`, `118`: a sequence leaves the deduplication window
  when it is `max_dedup_window` behind, and is fenced only when it is more than
  that behind, so a record exactly at the edge is accepted a second time, altered
  or not ("replay fencing covers every retained record", `config.cpp:110-113`).
  `ReplaysFencedButAtEdge` names the edge and shows that there is no other.
* `evidence_store.cpp:277`: a snapshot replays by sequence, so a late record
  reaches the counter and the last delta shown may differ from before
  (`evidence_store.hpp:52-53`). Decisions and baselines do not differ.
* `fabric.cpp:337`: replay drops evidence of evicted generations that arrived
  after their eviction (`test_shutdown.cpp:121`), and
  `link_registry.cpp:60` keeps states for them beyond the bound
  (`architecture.md:93-94`).
* `fabric.cpp:955`: flush uses `journal_` without the lock while close destroys
  it (`fabric.hpp:86`). `calls_serve` closes in the order of `lqf serve`, where
  this cannot happen.
* `fabric.cpp:686`: a writer that fails between probe and append leaves the
  link registered by a refused ingestion (`journal.hpp:145-146`).
* `fabric.cpp:469`: a declaration that could not be journaled is acknowledged
  like one that was (comment at `fabric.cpp:470-471`).
* `quality.hpp:33-34` calls a link healthy when "every declared metric is
  inside its healthy band"; with the default ranks an unknown metric without
  lanes does not keep a link from being healthy. `HealthyLinkHidesNoLane` is
  about lanes.
* `classifier.cpp:213-219`: a rate between a recovered and a live reading is
  asserted, as `semantics.md:63-65` has it and `quality.hpp` does not.
* `classifier.cpp:67`: an as-of query may show a late arrival instead of the
  newest sequence; `AsOfAnswersHistory` is about streams in order.
* `classifier.cpp:703-709`: the newest age in an inspection is always zero when
  there is fresh evidence, since the minimum starts at zero.
* `classifier.cpp:455-459`: evidence cut from the list of a metric is not
  counted as truncation, so a stale source can be missing from an inspection
  that does not call itself truncated. `InspectionHidesNothing` names this.
* `journal.cpp:361`, `372`: a damaged length is taken for a torn tail, and the
  repair cuts the intact records behind it, against "a torn tail repaired only
  when nothing intact follows it" (`README.md:42`); `journal.cpp:649`, `711`: a
  body of maximal length is written and acknowledged, and cut at the next
  start. `RepairIsExact` names both and shows that nothing else leads there.
* `journal.cpp:296-328`: a crash while the first header is written can leave a
  file that is refused from then on, before anything was acknowledged; so can,
  later, a power loss that keeps later pages of an append without the earlier
  ones. `RefusedOnlyForDamage` names both.
* `cmd_journal.cpp:54-67`, `86`: `journal-verify` passes a file it read only up
  to the recovery limit, and reads with the default limits whatever the runtime
  uses, so a file it passed can be refused, or cut, at the next start.
  `RefusedOnlyForDamage` says what the verdict is worth.
* `server.cpp:605-610`: an answer that does not fit a frame closes the
  connection without an error, against "never silently dropped"
  (`test_shutdown.cpp:198-200`, said of connections beyond the bound); the
  client reports a cancelled request that was performed. `ClosedWithReason`
  names this. `client.cpp:93`: after such a failure the client counts as
  connected; `ExitZeroMeansDone` holds because every command gives up.
* `socket.cpp:209`: a send to a peer that is gone raises SIGPIPE, which nothing
  handles, so a client that hung up can end `lqf serve`, and a server that did
  can end a command, where the code has an error path for a failed send.
* `cmd_generate.cpp:191-231`: of two generator runs on one source the earlier
  is rejected as soon as the later has begun; a run is also rejected, and does
  not try again, for a journal queue that was full at the moment
  (`fabric.cpp:659-665`, `762-770`).
* `cmd_client.cpp:383-468`: `lqf policy` reports NotFound when the generation
  it was told of is no longer retained by the time it asks for the document.
* `server.cpp:226`: no signal interrupts a send, so `stop` waits for a peer
  that neither reads nor goes away ("a signal, not a deadline",
  `server.hpp:58-60`). `StopReturns` names this.
