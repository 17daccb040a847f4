------------------------------- MODULE Journal -------------------------------
(***************************************************************************)
(* The background journal and its recovery (src/persist/journal.cpp), with *)
(* the part of Fabric that drives it (src/runtime/fabric.cpp): the caller  *)
(* numbers records under the fabric state lock, a bounded queue feeds one  *)
(* writer thread, any thread may flush, the state lock holder may compact, *)
(* and the owner stops the journal.  The process may crash between any two *)
(* steps; a new process runs JournalReader over what the file holds.       *)
(*                                                                         *)
(* A record is its kind and its ordinal.  A snapshot with ordinal n stands *)
(* for every record up to n: what a snapshot contains is the subject of    *)
(* other modules.  "file" is what fwrite has been given, in the stdio      *)
(* buffer or below it, and "synced" counts the leading records a completed *)
(* sync covers: a crash keeps any longer prefix, possibly followed by a    *)
(* partial record ("torn").                                                *)
(***************************************************************************)
EXTENDS Integers, Sequences

CONSTANTS
  Flushers,            \* threads that call flush
  MaxQueueDepth,       \* JournalConfig::max_queue_depth
  MaxRecoveryRecords,  \* JournalConfig::max_recovery_records
  MaxOrdinal,          \* bound of the model: the largest ordinal appended, and
                       \* the number of records in the file and the queue
  Faults               \* the I/O failures the environment may inject

FaultKinds == {"write", "sync", "close", "compact", "reopen"}

ASSUME DepthAssumption == MaxQueueDepth \in Nat \ {0}
ASSUME RecoveryAssumption == MaxRecoveryRecords \in Nat \ {0}
ASSUME OrdinalAssumption == MaxOrdinal \in Nat
ASSUME FaultAssumption == Faults \subseteq FaultKinds

VARIABLES
  proc,              \* "up", "down" (crashed or exited), "refused" (open failed)
  next_ordinal,      \* Fabric::next_ordinal_
  flushed,           \* history variable: ordinals below it were acknowledged
  queue,             \* queue_
  inflight,          \* the record writer_loop has popped (writing_), or << >>
  last_enqueued,     \* last_enqueued_ordinal_, NoOrdinal when it has none
  expected_ordinal,  \* expected_ordinal_, NoOrdinal when it has none
  open, accepting, stopping, failed, writer_paused,
  wpc,               \* program counter of the writer thread
  cpc,               \* ... of the thread inside compact
  spc,               \* ... of the thread inside stop
  fpc,               \* ... of each thread inside flush
  file,              \* records given to the journal file
  synced,            \* how many of them a completed sync covers
  torn,              \* a partial record follows them
  header,            \* file header: "ok", "dirty" (overwritten, not synced), "bad"
  handle,            \* file_: positioned at "end" or "start", or "none"
  tmp                \* the compaction temporary: "none", "partial", "complete"

callerVars == <<proc, next_ordinal, flushed>>
queueVars == <<queue, inflight, last_enqueued, expected_ordinal>>
flagVars == <<open, accepting, stopping, failed, writer_paused>>
fileVars == <<file, synced, torn, header, handle, tmp>>
vars == <<callerVars, queueVars, flagVars, wpc, cpc, spc, fpc, fileVars>>

NoOrdinal == -1
Record(n) == [kind |-> "record", ordinal |-> n]
Snapshot(n) == [kind |-> "snapshot", ordinal |-> n]
Records == [kind : {"record", "snapshot"}, ordinal : Nat]

\* The types of the program counters and flags, and of the data.
ControlOK ==
  /\ open \in BOOLEAN /\ accepting \in BOOLEAN /\ stopping \in BOOLEAN
  /\ failed \in BOOLEAN /\ writer_paused \in BOOLEAN /\ torn \in BOOLEAN
  /\ proc \in {"up", "down", "refused"}
  /\ wpc \in {"wait", "write", "sync", "done"}
  /\ cpc \in {"idle", "wait", "asleep", "close", "build", "rename", "reopen",
               "restore"}
  /\ spc \in {"idle", "join", "stopped"}
  /\ fpc \in [Flushers -> {"idle", "wait", "asleep"}]
  /\ header \in {"ok", "dirty", "bad"}
  /\ handle \in {"none", "start", "end"}
  /\ tmp \in {"none", "partial", "complete"}

DataOK ==
  /\ next_ordinal \in Nat \ {0} /\ flushed \in Nat
  /\ last_enqueued \in Nat \cup {NoOrdinal}
  /\ expected_ordinal \in Nat \cup {NoOrdinal}
  /\ queue \in Seq(Records) /\ Len(queue) <= MaxQueueDepth
  /\ inflight \in Seq(Records)
  /\ wpc = "write" => Len(inflight) = 1
  /\ wpc /= "write" => inflight = << >>
  /\ file \in Seq(Records) /\ synced \in 0 .. Len(file)

\* Types, with the queue within max_queue_depth, the writer holding a record
\* exactly while it writes it, and the synced part within the file.
TypeOK == ControlOK /\ DataOK
-----------------------------------------------------------------------------
\* A journal file that did not exist: JournalReader::open writes the header,
\* and Fabric::initialize appends the initial policy generation as record 0.
Init ==
  /\ proc = "up" /\ next_ordinal = 1 /\ flushed = 0
  /\ queue = <<Record(0)>> /\ last_enqueued = 0
  /\ inflight = << >> /\ expected_ordinal = NoOrdinal
  /\ open = TRUE /\ accepting = TRUE
  /\ stopping = FALSE /\ failed = FALSE /\ writer_paused = FALSE
  /\ wpc = "wait" /\ cpc = "idle" /\ spc = "idle"
  /\ fpc = [f \in Flushers |-> "idle"]
  /\ file = << >> /\ synced = 0 /\ torn = FALSE
  /\ header = "ok" /\ handle = "end" /\ tmp = "none"

\* Mutated form: a caller that does not exclude compact.
StateLockIgnoresCompaction == proc = "up" /\ spc = "idle"

\* The state lock holder is not inside compact and the journal has not been
\* moved out of the Fabric by close.
StateLockFree == proc = "up" /\ cpc = "idle" /\ spc = "idle"

\* Mutated form: a record the writer has popped is forgotten.
IdleIgnoresWriting == queue = << >>

\* idle_cv_ predicate of flush and compact.
Idle == queue = << >> /\ inflight = << >>
DoneWaiting == Idle \/ failed \/ ~open

\* idle_cv_.notify_all: the waiters evaluate their predicate again.
NotifyIdle ==
  /\ fpc' = [f \in Flushers |-> IF fpc[f] = "asleep" THEN "wait" ELSE fpc[f]]
  /\ cpc' = IF cpc = "asleep" THEN "wait" ELSE cpc

\* Mutated form: fflush without fsync.
SyncFileFlushOnly == UNCHANGED <<synced, header>>

\* sync_file on the journal file succeeds.
SyncFile ==
  /\ synced' = Len(file)
  /\ header' = IF header = "dirty" THEN "bad" ELSE header
-----------------------------------------------------------------------------
\* Mutated form: one record too many.
HasCapacityOffByOne == open /\ accepting /\ ~failed /\ Len(queue) <= MaxQueueDepth

\* has_capacity, and the same tests in append.
HasCapacity == open /\ accepting /\ ~failed /\ Len(queue) < MaxQueueDepth

\* has_capacity and append, as Fabric::journal_append calls them.
AppendRecord ==
  /\ StateLockFree
  /\ next_ordinal <= MaxOrdinal /\ Len(file \o queue) <= MaxOrdinal
  /\ HasCapacity
  /\ last_enqueued \in {NoOrdinal, next_ordinal - 1}
  /\ queue' = Append(queue, Record(next_ordinal))
  /\ last_enqueued' = next_ordinal
  /\ next_ordinal' = next_ordinal + 1
  /\ UNCHANGED <<proc, flushed, inflight, expected_ordinal, flagVars, wpc, cpc,
                 spc, fpc, fileVars>>

\* writer_loop: take the front of the queue.
WriterPop ==
  /\ proc = "up" /\ wpc = "wait"
  /\ queue /= << >> /\ ~writer_paused
  /\ inflight' = <<Head(queue)>>
  /\ queue' = Tail(queue)
  /\ wpc' = "write"
  /\ UNCHANGED <<callerVars, last_enqueued, expected_ordinal, flagVars, cpc, spc,
                 fpc, fileVars>>

\* What an overwritten file header becomes.
Damaged == IF header = "ok" THEN "dirty" ELSE header

\* writer_loop: fwrite succeeds and the bookkeeping under the queue mutex
\* follows.  Through a handle left at the start of the file the bytes land on
\* the header.  Behind a partial record that recovery did not truncate they are
\* lost to the reader, which refuses the file or cuts them off.
WriterWrite ==
  /\ proc = "up" /\ wpc = "write" /\ handle /= "none"
  /\ \/ /\ handle = "end" /\ ~torn
        /\ file' = file \o inflight
        /\ UNCHANGED header
     \/ /\ handle = "end" /\ torn
        /\ header' \in {header, Damaged}
        /\ UNCHANGED file
     \/ /\ handle = "start"
        /\ header' = Damaged
        /\ UNCHANGED file
  /\ expected_ordinal' = inflight[1].ordinal + 1
  /\ inflight' = << >>
  /\ wpc' = "wait"
  /\ NotifyIdle
  /\ UNCHANGED <<callerVars, queue, last_enqueued, flagVars, spc, synced, torn,
                 handle, tmp>>

\* writer_loop: fwrite fails, part of the record may be in the file, and
\* everything still queued is dropped.
WriterFail ==
  /\ proc = "up" /\ wpc = "write"
  /\ handle = "none" \/ "write" \in Faults
  /\ failed' = TRUE
  /\ queue' = << >> /\ inflight' = << >>
  /\ torn' \in {torn, TRUE}
  /\ wpc' = "wait"
  /\ NotifyIdle
  /\ UNCHANGED <<callerVars, last_enqueued, expected_ordinal, open, accepting,
                 stopping, writer_paused, spc, file, synced, header, handle, tmp>>

\* The condition on which writer_loop breaks out of its loop.
Drained == queue = << >> /\ ~writer_paused /\ (stopping \/ failed)

\* writer_loop: leave the loop once it is told to stop or has failed.
WriterExit ==
  /\ proc = "up" /\ wpc = "wait" /\ Drained
  /\ wpc' = "sync"
  /\ UNCHANGED <<callerVars, queueVars, flagVars, cpc, spc, fpc, fileVars>>

\* writer_loop: the sync after the loop.
WriterSync ==
  /\ proc = "up" /\ wpc = "sync"
  /\ wpc' = "done"
  /\ \/ /\ handle /= "none" /\ SyncFile
        /\ UNCHANGED failed
     \/ /\ handle /= "none" /\ "sync" \in Faults
        /\ failed' = TRUE
        /\ UNCHANGED <<synced, header>>
     \/ /\ handle = "none"
        /\ UNCHANGED <<failed, synced, header>>
  /\ NotifyIdle
  /\ UNCHANGED <<callerVars, queueVars, open, accepting, stopping,
                 writer_paused, spc, file, torn, handle, tmp>>
-----------------------------------------------------------------------------
\* flush: the shared compaction lock, then the wait for an idle writer.
FlushBegin(f) ==
  /\ proc = "up" /\ fpc[f] = "idle"
  /\ cpc = "idle" /\ spc = "idle"
  /\ fpc' = [fpc EXCEPT ![f] = "wait"]
  /\ UNCHANGED <<callerVars, queueVars, flagVars, wpc, cpc, spc, fileVars>>

\* flush: the predicate of the wait is false.
FlushSleep(f) ==
  /\ proc = "up" /\ fpc[f] = "wait" /\ ~DoneWaiting
  /\ fpc' = [fpc EXCEPT ![f] = "asleep"]
  /\ UNCHANGED <<callerVars, queueVars, flagVars, wpc, cpc, spc, fileVars>>

\* flush: the wait is over.  The journal failed or is closed, or the file is
\* synced, or the sync itself fails.
FlushEnd(f) ==
  /\ proc = "up" /\ fpc[f] = "wait" /\ DoneWaiting
  /\ fpc' = [fpc EXCEPT ![f] = "idle"]
  /\ \/ /\ ~open \/ failed
        /\ UNCHANGED <<flushed, failed, synced, header>>
     \/ /\ open /\ ~failed
        /\ IF handle = "none" THEN UNCHANGED <<synced, header>> ELSE SyncFile
        /\ flushed' = next_ordinal
        /\ UNCHANGED failed
     \/ /\ open /\ ~failed /\ handle /= "none" /\ "sync" \in Faults
        /\ failed' = TRUE
        /\ UNCHANGED <<flushed, synced, header>>
  /\ UNCHANGED <<proc, next_ordinal, queueVars, open, accepting, stopping,
                 writer_paused, wpc, cpc, spc, file, torn, handle, tmp>>
-----------------------------------------------------------------------------
\* Fabric::compact under the state lock, then compact: the exclusive
\* compaction lock, which waits for every flush to leave.
CompactBegin ==
  /\ StateLockFree
  /\ \A f \in Flushers : fpc[f] = "idle"
  /\ cpc' = "wait"
  /\ UNCHANGED <<callerVars, queueVars, flagVars, wpc, spc, fpc, fileVars>>

CompactSleep ==
  /\ proc = "up" /\ cpc = "wait" /\ ~DoneWaiting
  /\ cpc' = "asleep"
  /\ UNCHANGED <<callerVars, queueVars, flagVars, wpc, spc, fpc, fileVars>>

\* Mutated form: the ordinal the next record will get.
SnapshotOrdinalAhead == next_ordinal

\* Fabric::compact: the snapshot carries the last assigned ordinal.
SnapshotOrdinal == next_ordinal - 1

\* The early returns after the wait for an idle writer.
CompactRefused == ~open \/ failed \/ expected_ordinal > SnapshotOrdinal + 1

CompactPause ==
  /\ proc = "up" /\ cpc = "wait" /\ DoneWaiting
  /\ cpc' = IF CompactRefused THEN "idle" ELSE "close"
  /\ writer_paused' = ~CompactRefused
  /\ UNCHANGED <<callerVars, queueVars, open, accepting, stopping, failed, wpc,
                 spc, fpc, fileVars>>

\* fclose of the journal file.  Its result is ignored: a failing fclose loses
\* what was still buffered.
CompactClose ==
  /\ proc = "up" /\ cpc = "close"
  /\ cpc' = "build"
  /\ handle' = "none"
  /\ \E n \in synced .. Len(file) :
       /\ n = Len(file) \/ "close" \in Faults
       /\ file' = SubSeq(file, 1, n)
  /\ UNCHANGED <<callerVars, queueVars, flagVars, wpc, spc, fpc, synced, torn,
                 header, tmp>>

\* Header and snapshot record written to the temporary file and synced.
CompactBuild ==
  /\ proc = "up" /\ cpc = "build"
  /\ \/ tmp' = "complete" /\ cpc' = "rename"
     \/ /\ "compact" \in Faults
        /\ tmp' \in {tmp, "partial"} /\ cpc' = "restore"
  /\ UNCHANGED <<callerVars, queueVars, flagVars, wpc, spc, fpc, file, synced,
                 torn, header, handle>>

\* replace_file_atomically.  It also fails when lqf journal-verify or
\* journal-dump, run beside the runtime, has meanwhile discarded the temporary
\* file (JournalReader::open).
CompactRename ==
  /\ proc = "up" /\ cpc = "rename"
  /\ \/ /\ file' = <<Snapshot(SnapshotOrdinal)>>
        /\ synced' = 1 /\ torn' = FALSE /\ header' = "ok"
        /\ tmp' = "none" /\ cpc' = "reopen"
     \/ /\ "compact" \in Faults
        /\ cpc' = "restore" /\ tmp' \in {tmp, "none"}
        /\ UNCHANGED <<file, synced, torn, header>>
  /\ UNCHANGED <<callerVars, queueVars, flagVars, wpc, spc, fpc, handle>>

\* Mutated form: the writer stays paused.
ResumeWriterForgotten == UNCHANGED writer_paused

\* compact, on every path past the pause.
ResumeWriter == writer_paused' = FALSE

\* The journal is reopened at its end and the bookkeeping follows the snapshot.
CompactReopen ==
  /\ proc = "up" /\ cpc = "reopen"
  /\ \/ /\ handle' = "end"
        /\ expected_ordinal' = SnapshotOrdinal + 1
        /\ last_enqueued' = SnapshotOrdinal
        /\ ResumeWriter
        /\ cpc' = "idle"
     \/ /\ "reopen" \in Faults
        /\ cpc' = "restore"
        /\ UNCHANGED <<handle, expected_ordinal, last_enqueued, writer_paused>>
  /\ UNCHANGED <<callerVars, queue, inflight, open, accepting, stopping, failed,
                 wpc, spc, fpc, file, synced, torn, header, tmp>>

\* After a failed step the journal is reopened without a seek to its end, or
\* gives up when it cannot be reopened.
CompactRestore ==
  /\ proc = "up" /\ cpc = "restore"
  /\ \/ handle' = "start" /\ UNCHANGED <<failed, open, accepting>>
     \/ /\ "reopen" \in Faults
        /\ failed' = TRUE /\ open' = FALSE /\ accepting' = FALSE
        /\ UNCHANGED handle
  /\ ResumeWriter
  /\ cpc' = "idle"
  /\ UNCHANGED <<callerVars, queueVars, stopping, wpc, spc, fpc, file, synced,
                 torn, header, tmp>>
-----------------------------------------------------------------------------
\* Fabric::close takes the journal out under the state lock, then stop.
StopBegin ==
  /\ StateLockFree
  /\ stopping' = TRUE /\ accepting' = FALSE
  /\ spc' = "join"
  /\ UNCHANGED <<callerVars, queueVars, open, failed, writer_paused, wpc, cpc,
                 fpc, fileVars>>

\* stop: the writer is joined, the file synced and closed.
StopEnd ==
  /\ proc = "up" /\ spc = "join" /\ wpc = "done"
  /\ spc' = "stopped"
  /\ open' = FALSE
  /\ handle' = "none"
  /\ \/ /\ IF handle = "none" THEN UNCHANGED <<synced, header>> ELSE SyncFile
        /\ flushed' = IF failed THEN flushed ELSE next_ordinal
     \/ /\ handle /= "none" /\ "sync" \in Faults
        /\ UNCHANGED <<flushed, synced, header>>
  /\ UNCHANGED <<proc, next_ordinal, queueVars, accepting, stopping, failed,
                 writer_paused, wpc, cpc, fpc, file, torn, tmp>>
-----------------------------------------------------------------------------
\* The process dies, or exits after stop.  Bytes a sync covers are kept; of
\* the others any prefix, with a partial record behind it.  Bytes that fell on
\* the header may have reached it.
Crash ==
  /\ proc = "up"
  /\ proc' = "down"
  /\ \E n \in synced .. Len(file) :
       /\ file' = SubSeq(file, 1, n)
       /\ torn' \in (IF n < Len(file) \/ inflight /= << >> THEN BOOLEAN ELSE {torn})
  /\ header' \in (IF header = "dirty" THEN {"ok", "bad"} ELSE {header})
  /\ UNCHANGED <<next_ordinal, flushed, queueVars, flagVars, wpc, cpc, spc, fpc,
                 synced, handle, tmp>>

\* The first n records follow each other without a gap.
Contiguous(recs, n) ==
  \A i \in 1 .. n - 1 : recs[i + 1].ordinal = recs[i].ordinal + 1

\* JournalReader::next returns exactly n records: it stops at the recovery
\* limit, at the end of the file or its torn tail, or at a break in the
\* ordinals.
LimitReached(n) == n = MaxRecoveryRecords
OrdinalBreak(n) ==
  n < Len(file) /\ ~LimitReached(n) /\ ~Contiguous(file, n + 1)
Reads(n) ==
  /\ n <= MaxRecoveryRecords
  /\ Contiguous(file, n)
  /\ LimitReached(n) \/ n = Len(file) \/ OrdinalBreak(n)

\* BackgroundJournal::open on the recovered file, then the initial policy
\* generation when the file held no record.
OpenJournal(fresh) ==
  /\ queue' = (IF fresh THEN <<Record(0)>> ELSE << >>)
  /\ last_enqueued' = (IF fresh THEN 0 ELSE NoOrdinal)
  /\ inflight' = << >> /\ expected_ordinal' = NoOrdinal
  /\ open' = TRUE /\ accepting' = TRUE
  /\ stopping' = FALSE /\ failed' = FALSE /\ writer_paused' = FALSE
  /\ wpc' = "wait" /\ cpc' = "idle" /\ spc' = "idle"
  /\ fpc' = [f \in Flushers |-> "idle"]
  /\ handle' = "end"

\* Mutated form: the last recovered ordinal is given out again.
NumberingRepeats(n) == IF n = 0 THEN 1 ELSE file[n].ordinal

\* Fabric::initialize: the ordinal after the last record read.
NumberingAfter(n) == IF n = 0 THEN 1 ELSE file[n].ordinal + 1

\* Fabric::initialize on an existing file: JournalReader::open discards the
\* temporary file and validates the header; every readable record is applied;
\* a break in the ordinals refuses to open; a torn tail is truncated away and
\* the file synced; the journal is opened for append at its end.
Recover ==
  /\ proc \in {"down", "refused"}
  /\ tmp' = "none"
  /\ \E n \in 0 .. Len(file) :
       /\ Reads(n)
       /\ IF header = "bad" \/ OrdinalBreak(n)
            THEN /\ proc' = "refused"
                 /\ UNCHANGED <<next_ordinal, queueVars, flagVars, wpc, cpc, spc,
                                fpc, synced, torn, handle>>
            ELSE /\ proc' = "up"
                 /\ next_ordinal' = NumberingAfter(n)
                 /\ OpenJournal(n = 0)
                 /\ IF torn /\ ~LimitReached(n)
                      THEN torn' = FALSE /\ synced' = Len(file)
                      ELSE UNCHANGED <<torn, synced>>
  /\ UNCHANGED <<flushed, file, header>>
-----------------------------------------------------------------------------
Writer == WriterPop \/ WriterWrite \/ WriterFail \/ WriterExit \/ WriterSync
Compactor == CompactSleep \/ CompactPause \/ CompactClose \/ CompactBuild
             \/ CompactRename \/ CompactReopen \/ CompactRestore

Next ==
  \/ AppendRecord \/ Writer
  \/ \E f \in Flushers : FlushBegin(f) \/ FlushSleep(f) \/ FlushEnd(f)
  \/ CompactBegin \/ Compactor
  \/ StopBegin \/ StopEnd
  \/ Crash \/ Recover

Spec == Init /\ [][Next]_vars

\* Threads that have work keep running; nobody is obliged to call the journal,
\* and nothing obliges the process to crash or to be restarted.
FairSpec ==
  /\ Spec
  /\ WF_vars(Writer) /\ WF_vars(Compactor) /\ WF_vars(StopEnd)
  /\ \A f \in Flushers : WF_vars(FlushSleep(f) \/ FlushEnd(f))
-----------------------------------------------------------------------------
(***************************************************************************)
(* Properties.                                                             *)
(***************************************************************************)
\* What has been given to the file, what the writer holds and what waits in
\* the queue, in that order.  After a crash only the file is left.
Pipeline == IF proc = "up" THEN file \o inflight \o queue ELSE file

Covers(rec, n) == n = rec.ordinal \/ (rec.kind = "snapshot" /\ n < rec.ordinal)

\* File order equals ordinal order (docs/formats.md, Journal): from the first
\* record in the file to the last one in the queue the ordinals increase by
\* one; the first is record 0 or a snapshot; and unless a write failed the last
\* is the last ordinal that was assigned.
FileOrder ==
  /\ Contiguous(Pipeline, Len(Pipeline))
  /\ Pipeline /= << >> => Pipeline[1] = Record(0) \/ Pipeline[1].kind = "snapshot"
  /\ proc = "up" /\ ~failed =>
       /\ Pipeline /= << >>
       /\ Pipeline[Len(Pipeline)].ordinal = next_ordinal - 1

\* A record that a successful flush or stop acknowledged is in the synced part
\* of a file whose header is intact, alone or inside a snapshot, at every
\* later moment: during a compaction, after a failed write, after a crash.
FlushedIsDurable ==
  /\ header = "ok"
  /\ \A n \in 0 .. flushed - 1 : \E i \in 1 .. synced : Covers(file[i], n)

\* While compact closes, replaces and reopens the journal file, neither the
\* writer thread nor a flush nor stop is using the same FILE handle.
CompactionOwnsFile ==
  proc = "up" /\ cpc \in {"close", "build", "rename", "reopen", "restore"} =>
    /\ wpc = "wait" /\ inflight = << >> /\ writer_paused
    /\ \A f \in Flushers : fpc[f] = "idle"
    /\ spc = "idle"

\* No crash and no failed write or sync leaves a file that recovery refuses.
NeverRefused == proc /= "refused"

\* A new process starts from a gap-free prefix of what the old one accepted:
\* the records it read cover 0 .. next_ordinal-1, and it numbers its first
\* record no higher than the old process would have (Fabric::initialize).
RecoveryIsPrefix ==
  [][proc /= "up" /\ proc' = "up" =>
       /\ next_ordinal' <= next_ordinal
       /\ \A n \in 0 .. next_ordinal' - 1 :
            \E i \in 1 .. Len((file \o queue)') : Covers((file \o queue)'[i], n)]_vars

Log == INSTANCE DurableLog WITH accepted <- next_ordinal, durable <- flushed

\* Queue, writer thread, file, compaction and recovery together keep the
\* promise of DurableLog: a restart loses at most a suffix of the records, and
\* none that flush or stop acknowledged.
ImplementsDurableLog == Log!LSpec

\* compact waits for the writer to drain the queue and then hands the file
\* back.
CompactionEnds == cpc /= "idle" ~> (cpc = "idle" \/ proc /= "up")

\* stop drains the queue and joins the writer, whatever the writer was doing.
StopEnds == spc = "join" ~> (spc = "stopped" \/ proc /= "up")

\* A flush that is waiting when the journal is stopped returns: the wakeup it
\* sleeps on is never lost, although stop itself notifies only the writer.
FlushReturnsAfterStop ==
  \A f \in Flushers :
    (fpc[f] /= "idle" /\ spc = "join") ~> (fpc[f] = "idle" \/ proc /= "up")

\* Nobody waits forever: compact, stop and a flush overtaken by stop all return
\* (the predicates of wait in flush, compact, stop and the writer's loop).
WaitsEnd == CompactionEnds /\ StopEnds /\ FlushReturnsAfterStop
=============================================================================
