---------------------------- MODULE JournalProofs ----------------------------
(***************************************************************************)
(* Proofs about Journal, for every set of flushers, queue depth and bound  *)
(* on the ordinals.  The write and sync failures are allowed; the failures *)
(* inside a compaction and a recovery that stops at its limit are excluded *)
(* by assumption, because they break the properties (see README).          *)
(***************************************************************************)
EXTENDS Journal, TLAPS

\* Compaction meets no I/O failure.
CompactionSucceeds == Faults \cap {"close", "compact", "reopen"} = {}

\* Recovery never meets its record limit.
RecoveryUnlimited == MaxRecoveryRecords > MaxOrdinal + 1

\* The compaction steps that own the journal file.
OwnsFile == cpc \in {"close", "build", "rename", "reopen"}

\* The records of a sequence are numbered consecutively.
Aligned(recs) == \A i \in 1 .. Len(recs) : recs[i].ordinal = recs[1].ordinal + i - 1

\* Who may be where: the state lock and the compaction lock as invariants.
ThreadInv ==
  /\ cpc /= "idle" => spc = "idle" /\ \A f \in Flushers : fpc[f] = "idle"
  /\ cpc /= "restore"
  /\ writer_paused <=> OwnsFile
  /\ OwnsFile => wpc = "wait" /\ queue = << >> /\ ~failed
  /\ wpc \in {"sync", "done"} => queue = << >> /\ (stopping \/ failed)
  /\ failed => queue = << >> /\ wpc /= "write"
  /\ stopping <=> spc /= "idle"
  /\ accepting <=> ~stopping
  /\ open <=> spc /= "stopped"
  /\ spc = "stopped" => wpc = "done"
  /\ handle /= "start"
  /\ handle = "none" <=> cpc \in {"build", "rename", "reopen"} \/ spc = "stopped"

\* The file, whether the process is up or down: intact, consecutive, rooted at
\* record 0 or at a snapshot, and not ahead of the caller.
FileInv ==
  /\ header = "ok"
  /\ next_ordinal <= MaxOrdinal + 1
  /\ Aligned(file)
  /\ file /= << >> =>
       /\ file[1] = Record(0) \/ file[1].kind = "snapshot"
       /\ file[Len(file)].ordinal < next_ordinal

\* The acknowledged records lie in the synced part of the file.
SyncInv ==
  flushed > 0 => synced > 0 /\ flushed <= file[synced].ordinal + 1

\* The number of the first record that is not in the file.
FileEnd == IF file = << >> THEN 0 ELSE file[Len(file)].ordinal + 1

\* While the process is up, file, writer and queue hold consecutive records
\* that end with the last one accepted, unless a write failed.
PipeInv ==
  /\ \A i \in 1 .. Len(queue) : queue[i] = Record(next_ordinal - Len(queue) + i - 1)
  /\ wpc = "write" => inflight = <<Record(next_ordinal - Len(queue) - 1)>>
  /\ ~failed => FileEnd + Len(inflight) + Len(queue) = next_ordinal
  /\ torn => failed

IInv ==
  /\ TypeOK /\ FileInv /\ SyncInv
  /\ proc = "up" => ThreadInv /\ PipeInv
  /\ proc /= "refused"
-----------------------------------------------------------------------------
(***************************************************************************)
(* Type correctness, for every value of the constants and every failure.   *)
(***************************************************************************)
LEMMA RecordTyped ==
  ASSUME NEW n \in Nat
  PROVE  Record(n) \in Records /\ Snapshot(n) \in Records
  BY DEF Record, Snapshot, Records

LEMMA OrdinalTyped ==
  ASSUME NEW s \in Seq(Records), NEW i \in 1 .. Len(s)
  PROVE  s[i] \in Records /\ s[i].ordinal \in Nat
<1>1. s[i] \in Records
  OBVIOUS
<1> QED
  BY <1>1 DEF Records

LEMMA InitTyped == Init => TypeOK
<1>1. Init => ControlOK
  BY DEF Init, ControlOK
<1>2. Init => DataOK
  BY DepthAssumption DEF Init, DataOK, Record, Records, NoOrdinal
<1> QED
  BY <1>1, <1>2 DEF TypeOK

LEMMA NextControl == ControlOK /\ [Next]_vars => ControlOK'
<1> SUFFICES ASSUME ControlOK, [Next]_vars PROVE ControlOK'
  OBVIOUS
<1> USE DEF ControlOK, callerVars, queueVars, flagVars, fileVars
<1>1. CASE AppendRecord \/ WriterPop \/ WriterExit
  BY <1>1 DEF AppendRecord, WriterPop, WriterExit
<1>2. CASE WriterWrite
  BY <1>2 DEF WriterWrite, NotifyIdle, Damaged
<1>3. CASE WriterFail
  <2>1. torn' \in BOOLEAN
    BY <1>3, Zenon DEF WriterFail
  <2>2. failed' \in BOOLEAN
    BY <1>3, Zenon DEF WriterFail
  <2> QED
    BY <1>3, <2>1, <2>2 DEF WriterFail, NotifyIdle
<1>4. CASE WriterSync
  <2>1. failed' \in BOOLEAN
    BY <1>4, Zenon DEF WriterSync
  <2>2. header' \in {"ok", "dirty", "bad"}
    BY <1>4 DEF WriterSync, SyncFile
  <2> QED
    BY <1>4, <2>1, <2>2 DEF WriterSync, NotifyIdle
<1>5. ASSUME NEW f \in Flushers, FlushBegin(f) \/ FlushSleep(f) \/ FlushEnd(f)
      PROVE  ControlOK'
  <2>1. CASE FlushBegin(f)
    BY <2>1 DEF FlushBegin
  <2>2. CASE FlushSleep(f)
    BY <2>2 DEF FlushSleep
  <2>3. CASE FlushEnd(f)
    <3>1. header' \in {"ok", "dirty", "bad"}
      BY <2>3 DEF FlushEnd, SyncFile
    <3>2. failed' \in BOOLEAN
      BY <2>3, Zenon DEF FlushEnd
    <3> QED
      BY <2>3, <3>1, <3>2 DEF FlushEnd
  <2> QED
    BY <1>5, <2>1, <2>2, <2>3
<1>6. CASE CompactBegin \/ CompactSleep \/ CompactPause
  <2>1. CASE CompactBegin
    BY <2>1 DEF CompactBegin
  <2>2. CASE CompactSleep
    BY <2>2 DEF CompactSleep
  <2>3. CASE CompactPause
    BY <2>3 DEF CompactPause
  <2> QED
    BY <1>6, <2>1, <2>2, <2>3
<1>7. CASE CompactClose \/ CompactBuild \/ CompactRename
  BY <1>7 DEF CompactClose, CompactBuild, CompactRename
<1>8. CASE CompactReopen \/ CompactRestore
  BY <1>8 DEF CompactReopen, CompactRestore, ResumeWriter
<1>9. CASE StopBegin \/ StopEnd
  BY <1>9 DEF StopBegin, StopEnd, SyncFile
<1>10. CASE Crash
  BY <1>10 DEF Crash
<1>11. CASE Recover
  <2>1. PICK n \in 0 .. Len(file) :
          \/ /\ proc' = "refused"
             /\ UNCHANGED <<flagVars, wpc, cpc, spc, fpc, torn, handle>>
          \/ /\ proc' = "up" /\ OpenJournal(n = 0)
             /\ torn' = FALSE \/ torn' = torn
    BY <1>11 DEF Recover
  <2>2. tmp' = "none" /\ header' = header
    BY <1>11 DEF Recover
  <2>3. CASE proc' = "refused" /\ UNCHANGED <<flagVars, wpc, cpc, spc, fpc, torn, handle>>
    BY <2>2, <2>3
  <2>4. CASE proc' = "up" /\ OpenJournal(n = 0) /\ (torn' = FALSE \/ torn' = torn)
    <3>1. torn' \in BOOLEAN
      BY <2>4, Zenon
    <3> QED
      BY <2>2, <2>4, <3>1 DEF OpenJournal
  <2> QED
    BY <2>1, <2>3, <2>4
<1>12. CASE UNCHANGED vars
  BY <1>12 DEF vars
<1> QED
  BY <1>1, <1>2, <1>3, <1>4, <1>5, <1>6, <1>7, <1>8, <1>9, <1>10, <1>11, <1>12
     DEF Next, Writer, Compactor

LEMMA NextData == DataOK /\ [Next]_vars => DataOK'
<1> SUFFICES ASSUME DataOK, [Next]_vars PROVE DataOK'
  OBVIOUS
<1> USE DepthAssumption DEF DataOK, callerVars, queueVars, fileVars
<1>1. CASE AppendRecord
  BY <1>1 DEF AppendRecord, HasCapacity, Record, Records
<1>2. CASE WriterPop
  BY <1>2 DEF WriterPop
<1>3. CASE WriterWrite
  <2>0. inflight \in Seq(Records) /\ Len(inflight) = 1
    BY <1>3 DEF WriterWrite
  <2>1. inflight[1].ordinal \in Nat
    <3>1. 1 \in 1 .. Len(inflight)
      BY <2>0
    <3> QED
      BY <2>0, <3>1, OrdinalTyped
  <2>2. file \o inflight \in Seq(Records) /\ Len(file \o inflight) >= Len(file)
    OBVIOUS
  <2> QED
    <3>1. file' \in Seq(Records) /\ Len(file') >= Len(file)
      <4>1. file' = file \/ file' = file \o inflight
        BY <1>3 DEF WriterWrite
      <4>2. CASE file' = file
        BY <4>2
      <4>3. CASE file' = file \o inflight
        BY <2>2, <4>3
      <4> QED
        BY <4>1, <4>2, <4>3
    <3>2. /\ expected_ordinal' \in Nat /\ inflight' = << >> /\ wpc' = "wait"
          /\ UNCHANGED <<callerVars, queue, last_enqueued, synced>>
      BY <1>3, <2>1 DEF WriterWrite
    <3> QED
      BY <3>1, <3>2
<1>4. CASE WriterFail
  BY <1>4 DEF WriterFail
<1>5. CASE WriterExit \/ WriterSync
  <2>1. CASE WriterExit
    BY <2>1 DEF WriterExit
  <2>2. CASE WriterSync
    BY <2>2 DEF WriterSync, SyncFile
  <2> QED
    BY <1>5, <2>1, <2>2
<1>6. ASSUME NEW f \in Flushers, FlushBegin(f) \/ FlushSleep(f) \/ FlushEnd(f)
      PROVE  DataOK'
  <2>1. CASE FlushBegin(f)
    BY <2>1 DEF FlushBegin
  <2>2. CASE FlushSleep(f)
    BY <2>2 DEF FlushSleep
  <2>3. CASE FlushEnd(f)
    BY <2>3 DEF FlushEnd, SyncFile
  <2> QED
    BY <1>6, <2>1, <2>2, <2>3
<1>7. CASE CompactBegin \/ CompactSleep \/ CompactPause \/ CompactBuild
  BY <1>7 DEF CompactBegin, CompactSleep, CompactPause, CompactBuild
<1>8. CASE CompactClose \/ Crash
  <2>1. PICK n \in synced .. Len(file) : file' = SubSeq(file, 1, n)
    BY <1>8 DEF CompactClose, Crash
  <2>2. file' \in Seq(Records) /\ Len(file') = n
    BY <2>1
  <2>3. UNCHANGED <<next_ordinal, flushed, queueVars, wpc, synced>>
    BY <1>8 DEF CompactClose, Crash
  <2> QED
    BY <2>2, <2>3
<1>9. CASE CompactRename
  <2>1. Snapshot(next_ordinal - 1) \in Records
    BY RecordTyped
  <2>2. UNCHANGED <<callerVars, queueVars, wpc>>
    BY <1>9 DEF CompactRename
  <2>3. file' \in Seq(Records) /\ synced' \in 0 .. Len(file')
    <3>1. \/ file' = <<Snapshot(next_ordinal - 1)>> /\ synced' = 1
          \/ file' = file /\ synced' = synced
      BY <1>9 DEF CompactRename, SnapshotOrdinal
    <3>2. CASE file' = <<Snapshot(next_ordinal - 1)>> /\ synced' = 1
      BY <2>1, <3>2
    <3>3. CASE file' = file /\ synced' = synced
      BY <3>3
    <3> QED
      BY <3>1, <3>2, <3>3
  <2> QED
    BY <2>2, <2>3
<1>10. CASE CompactReopen \/ CompactRestore
  BY <1>10 DEF CompactReopen, CompactRestore, SnapshotOrdinal
<1>11. CASE StopBegin \/ StopEnd
  BY <1>11 DEF StopBegin, StopEnd, SyncFile
<1>12. CASE Recover
  <2>1. PICK n \in 0 .. Len(file) :
          \/ UNCHANGED <<next_ordinal, queueVars, wpc, synced>>
          \/ /\ next_ordinal' = NumberingAfter(n)
             /\ OpenJournal(n = 0)
             /\ synced' \in {synced, Len(file)}
    BY <1>12 DEF Recover
  <2>2. NumberingAfter(n) \in Nat \ {0}
    BY OrdinalTyped DEF NumberingAfter
  <2>3. UNCHANGED <<flushed, file>>
    BY <1>12 DEF Recover
  <2>4. OpenJournal(n = 0) =>
          /\ queue' \in Seq(Records) /\ Len(queue') <= 1
          /\ inflight' = << >> /\ wpc' = "wait"
          /\ last_enqueued' \in Nat \cup {NoOrdinal}
          /\ expected_ordinal' = NoOrdinal
    BY RecordTyped DEF OpenJournal
  <2>5. CASE UNCHANGED <<next_ordinal, queueVars, wpc, synced>>
    BY <2>3, <2>5
  <2>6. CASE /\ next_ordinal' = NumberingAfter(n) /\ OpenJournal(n = 0)
             /\ synced' \in {synced, Len(file)}
    BY <2>2, <2>3, <2>4, <2>6
  <2> QED
    BY <2>1, <2>5, <2>6
<1>13. CASE UNCHANGED vars
  BY <1>13 DEF vars
<1> QED
  BY <1>1, <1>2, <1>3, <1>4, <1>5, <1>6, <1>7, <1>8, <1>9, <1>10, <1>11, <1>12,
     <1>13 DEF Next, Writer, Compactor

\* Every reachable state of the journal is well typed: the queue within
\* max_queue_depth, at most one record in the writer's hands, the synced part
\* no longer than the file.
THEOREM TypeCorrect == Spec => []TypeOK
<1>1. Init => TypeOK
  BY InitTyped
<1>2. TypeOK /\ [Next]_vars => TypeOK'
  BY NextControl, NextData DEF TypeOK
<1> QED
  BY <1>1, <1>2, PTL DEF Spec
-----------------------------------------------------------------------------
(***************************************************************************)
(* The control part of the invariant.                                      *)
(***************************************************************************)
LEMMA IdleWriter == TypeOK /\ Idle => wpc /= "write"
  BY DEF TypeOK, DataOK, Idle

LEMMA NextThread ==
  ASSUME CompactionSucceeds, TypeOK, proc = "up" => ThreadInv, [Next]_vars,
         proc' = "up"
  PROVE  ThreadInv'
<1> USE DEF ThreadInv, OwnsFile, TypeOK, ControlOK, callerVars, queueVars,
            flagVars, fileVars
<1>1. CASE AppendRecord
  BY <1>1 DEF AppendRecord, StateLockFree, HasCapacity
<1>2. CASE WriterPop
  BY <1>2 DEF WriterPop
<1>3. CASE WriterWrite
  BY <1>3 DEF WriterWrite, NotifyIdle
<1>4. CASE WriterFail
  BY <1>4 DEF WriterFail, NotifyIdle
<1>5. CASE WriterExit
  BY <1>5 DEF WriterExit, Drained
<1>6. CASE WriterSync
  BY <1>6 DEF WriterSync, NotifyIdle
<1>7. ASSUME NEW f \in Flushers, FlushBegin(f) \/ FlushSleep(f)
      PROVE  ThreadInv'
  BY <1>7 DEF FlushBegin, FlushSleep
<1>8. ASSUME NEW f \in Flushers, FlushEnd(f) PROVE ThreadInv'
  <2>1. open /\ ~failed => Idle
    BY <1>8 DEF FlushEnd, DoneWaiting
  <2>2. Idle => queue = << >> /\ wpc /= "write"
    BY IdleWriter DEF Idle
  <2> QED
    BY <1>8, <2>1, <2>2 DEF FlushEnd
<1>9. CASE CompactBegin \/ CompactSleep
  BY <1>9 DEF CompactBegin, CompactSleep, StateLockFree
<1>10. CASE CompactPause
  <2>1. ~CompactRefused => queue = << >> /\ wpc /= "write" /\ ~failed
    BY <1>10, IdleWriter DEF CompactPause, CompactRefused, DoneWaiting, Idle
  <2> QED
    BY <1>10, <2>1 DEF CompactPause
<1>11. CASE CompactClose
  BY <1>11 DEF CompactClose
<1>12. CASE CompactBuild
  BY <1>12 DEF CompactBuild, CompactionSucceeds
<1>13. CASE CompactRename
  BY <1>13 DEF CompactRename, CompactionSucceeds
<1>14. CASE CompactReopen
  BY <1>14 DEF CompactReopen, CompactionSucceeds, ResumeWriter
<1>15. CASE CompactRestore
  BY <1>15 DEF CompactRestore
<1>16. CASE StopBegin
  BY <1>16 DEF StopBegin, StateLockFree
<1>17. CASE StopEnd
  BY <1>17 DEF StopEnd
<1>18. CASE Crash
  BY <1>18 DEF Crash
<1>19. CASE Recover
  BY <1>19 DEF Recover, OpenJournal
<1>20. CASE UNCHANGED vars
  BY <1>20 DEF vars
<1> QED
  BY <1>1, <1>2, <1>3, <1>4, <1>5, <1>6, <1>7, <1>8, <1>9, <1>10, <1>11, <1>12,
     <1>13, <1>14, <1>15, <1>16, <1>17, <1>18, <1>19, <1>20
     DEF Next, Writer, Compactor
-----------------------------------------------------------------------------
(***************************************************************************)
(* The data part of the invariant.                                         *)
(***************************************************************************)
\* What a step that leaves the file alone keeps.
LEMMA FileUnchanged ==
  ASSUME FileInv, SyncInv, TypeOK,
         UNCHANGED <<file, header, flushed>>, synced' \in synced .. Len(file),
         next_ordinal' <= MaxOrdinal + 1,
         file /= << >> => file[Len(file)].ordinal < next_ordinal'
  PROVE  FileInv' /\ SyncInv'
<1>1. /\ file \in Seq(Records) /\ synced \in 0 .. Len(file)
      /\ next_ordinal \in Nat /\ flushed \in Nat
  BY DEF TypeOK, DataOK
<1>2. FileInv'
  BY DEF FileInv, Aligned
<1>3. SyncInv'
  <2>1. CASE flushed > 0
    <3>1. file[synced].ordinal = file[1].ordinal + synced - 1
      BY <1>1, <2>1 DEF FileInv, SyncInv, Aligned
    <3>2. file[synced'].ordinal = file[1].ordinal + synced' - 1
      BY <1>1, <2>1 DEF FileInv, SyncInv, Aligned
    <3>3. file[1].ordinal \in Nat
      BY <1>1, <2>1, OrdinalTyped DEF SyncInv
    <3> QED
      BY <1>1, <2>1, <3>1, <3>2, <3>3, SMTT(30) DEF SyncInv
  <2>2. CASE ~(flushed > 0)
    BY <2>2 DEF SyncInv
  <2> QED
    BY <2>1, <2>2
<1> QED
  BY <1>2, <1>3

\* A crash and fclose cut the file behind its synced part.
LEMMA FileCut ==
  ASSUME FileInv, SyncInv, TypeOK, NEW n \in synced .. Len(file),
         file' = SubSeq(file, 1, n),
         UNCHANGED <<header, flushed, synced, next_ordinal>>
  PROVE  FileInv' /\ SyncInv'
<1>1. file \in Seq(Records) /\ synced \in 0 .. Len(file) /\ next_ordinal \in Nat
  BY DEF TypeOK, DataOK
<1>2. Len(file') = n /\ \A i \in 1 .. n : file'[i] = file[i]
  BY <1>1
<1>3. Aligned(file')
  BY <1>1, <1>2 DEF FileInv, Aligned
<1>4. SyncInv'
  BY <1>1, <1>2 DEF SyncInv
<1>5. file' /= << >> =>
        /\ file'[1] = Record(0) \/ file'[1].kind = "snapshot"
        /\ file'[Len(file')].ordinal < next_ordinal
  <2> SUFFICES ASSUME n > 0
               PROVE  /\ file[1] = Record(0) \/ file[1].kind = "snapshot"
                      /\ file[n].ordinal < next_ordinal
    BY <1>1, <1>2
  <2>1. file /= << >> /\ n \in 1 .. Len(file) /\ Len(file) \in 1 .. Len(file)
    BY <1>1
  <2>2. /\ file[n].ordinal = file[1].ordinal + n - 1
        /\ file[Len(file)].ordinal = file[1].ordinal + Len(file) - 1
    BY <1>1, <2>1 DEF FileInv, Aligned
  <2>3. file[1].ordinal \in Nat
    BY <1>1, <2>1, OrdinalTyped
  <2> QED
    BY <1>1, <2>1, <2>2, <2>3 DEF FileInv
<1> QED
  BY <1>3, <1>4, <1>5 DEF FileInv

\* The writer appends the record that follows the file.
LEMMA FileGrows ==
  ASSUME IInv, WriterWrite, proc = "up"
  PROVE  FileInv' /\ SyncInv' /\ PipeInv'
<1> DEFINE n == next_ordinal - Len(queue) - 1
<1>1. /\ file \in Seq(Records) /\ synced \in 0 .. Len(file)
      /\ next_ordinal \in Nat /\ queue \in Seq(Records)
  BY DEF IInv, TypeOK, DataOK
<1>2. wpc = "write" /\ ~failed /\ inflight = <<Record(n)>> /\ FileEnd = n
  <2>1. wpc = "write" /\ ~failed /\ inflight = <<Record(n)>>
    BY DEF WriterWrite, IInv, ThreadInv, PipeInv
  <2>2. FileEnd + Len(inflight) + Len(queue) = next_ordinal
    BY <2>1 DEF IInv, PipeInv
  <2>3. FileEnd \in Nat
    BY <1>1, OrdinalTyped DEF FileEnd
  <2> QED
    BY <1>1, <2>1, <2>2, <2>3
<1>3. handle = "end" /\ ~torn
  BY <1>2 DEF WriterWrite, IInv, ThreadInv, PipeInv, TypeOK, ControlOK
<1>4. /\ file' = Append(file, Record(n)) /\ inflight' = << >> /\ wpc' = "wait"
      /\ UNCHANGED <<header, synced, flushed, next_ordinal, queue, failed, torn>>
  <2>1. /\ file' = file \o inflight /\ inflight' = << >> /\ wpc' = "wait"
        /\ UNCHANGED <<header, synced, flushed, next_ordinal, queue, failed, torn>>
    BY <1>3 DEF WriterWrite, callerVars, flagVars
  <2>2. file \o <<Record(n)>> = Append(file, Record(n))
    BY <1>1
  <2> QED
    BY <1>2, <2>1, <2>2
<1>5. n \in Nat /\ Record(n).ordinal = n
  <2>1. FileEnd \in Nat
    BY <1>1, OrdinalTyped DEF FileEnd
  <2> QED
    BY <1>2, <2>1 DEF Record
<1> HIDE DEF n
<1>6. /\ Len(file') = Len(file) + 1 /\ file'[Len(file')] = Record(n)
      /\ \A i \in 1 .. Len(file) : file'[i] = file[i]
  BY <1>1, <1>4
<1>7. n < next_ordinal
  BY <1>1 DEF n
<1>8. CASE file = << >>
  <2>1. n = 0 /\ Len(file') = 1 /\ file'[1] = Record(0)
    BY <1>2, <1>6, <1>8 DEF FileEnd
  <2>2. FileInv'
    BY <1>1, <1>4, <1>5, <1>7, <2>1 DEF IInv, FileInv, Aligned
  <2>3. SyncInv'
    BY <1>1, <1>4, <1>8 DEF IInv, SyncInv
  <2>4. PipeInv'
    BY <1>1, <1>4, <1>5, <1>6, <2>1 DEF IInv, PipeInv, FileEnd, n
  <2> QED
    BY <2>2, <2>3, <2>4
<1>9. CASE file /= << >>
  <2>1. n = file[Len(file)].ordinal + 1 /\ Len(file) > 0
    BY <1>1, <1>2, <1>9 DEF FileEnd
  <2>2. file[Len(file)].ordinal = file[1].ordinal + Len(file) - 1
    BY <1>1, <2>1 DEF IInv, FileInv, Aligned
  <2>3. file[1].ordinal \in Nat
    BY <1>1, <2>1, OrdinalTyped
  <2>4. Aligned(file')
    <3> SUFFICES ASSUME NEW i \in 1 .. Len(file')
                 PROVE  file'[i].ordinal = file[1].ordinal + i - 1
      BY <1>6, <2>1 DEF Aligned
    <3>1. CASE i = Len(file')
      BY <1>1, <1>5, <1>6, <2>1, <2>2, <2>3, <3>1
    <3>2. CASE i # Len(file')
      <4>1. i \in 1 .. Len(file) /\ file'[i] = file[i]
        BY <1>1, <1>6, <3>2
      <4> QED
        BY <4>1 DEF IInv, FileInv, Aligned
    <3> QED
      BY <3>1, <3>2
  <2>5. FileInv'
    BY <1>1, <1>4, <1>5, <1>6, <1>7, <1>9, <2>1, <2>4 DEF IInv, FileInv
  <2>6. SyncInv'
    BY <1>1, <1>4, <1>6 DEF IInv, SyncInv
  <2>7. PipeInv'
    <3>1. FileEnd' = n + 1
      BY <1>1, <1>4, <1>5, <1>6 DEF FileEnd
    <3>2. FileEnd' + Len(inflight') + Len(queue') = next_ordinal'
      BY <1>1, <1>4, <3>1 DEF n
    <3> QED
      BY <1>1, <1>4, <3>2 DEF IInv, PipeInv
  <2> QED
    BY <2>5, <2>6, <2>7
<1> QED
  BY <1>8, <1>9

\* Recovery reads the whole file, numbers on from its end and refuses nothing.
LEMMA FileRead ==
  ASSUME RecoveryUnlimited, IInv, Recover
  PROVE  /\ FileInv' /\ SyncInv' /\ PipeInv' /\ proc' = "up"
         /\ next_ordinal' <= next_ordinal
<1>1. /\ file \in Seq(Records) /\ synced \in 0 .. Len(file)
      /\ next_ordinal \in Nat \ {0} /\ flushed \in Nat
  BY DEF IInv, TypeOK, DataOK
<1>2. Aligned(file) /\ header = "ok"
  BY DEF IInv, FileInv
<1>3. FileEnd \in Nat /\ FileEnd <= next_ordinal /\ Len(file) <= FileEnd
  <2>1. CASE file = << >>
    BY <1>1, <2>1 DEF FileEnd
  <2>2. CASE file /= << >>
    <3>1. Len(file) \in 1 .. Len(file) /\ 1 \in 1 .. Len(file)
      BY <1>1, <2>2
    <3>2. file[1].ordinal \in Nat /\ file[Len(file)].ordinal \in Nat
      BY <1>1, <3>1, OrdinalTyped
    <3>3. file[Len(file)].ordinal = file[1].ordinal + Len(file) - 1
      BY <1>2, <3>1 DEF Aligned
    <3>4. file[Len(file)].ordinal < next_ordinal
      BY <2>2 DEF IInv, FileInv
    <3> QED
      BY <1>1, <2>2, <3>2, <3>3, <3>4 DEF FileEnd
  <2> QED
    BY <2>1, <2>2
<1>4. Len(file) < MaxRecoveryRecords
  BY <1>1, <1>3, OrdinalAssumption, RecoveryAssumption
     DEF RecoveryUnlimited, IInv, FileInv
<1>5. ASSUME NEW n \in 0 .. Len(file)
      PROVE  ~OrdinalBreak(n) /\ ~LimitReached(n)
  <2>1. ~LimitReached(n)
    BY <1>1, <1>4, RecoveryAssumption DEF LimitReached
  <2>2. n < Len(file) => Contiguous(file, n + 1)
    <3> SUFFICES ASSUME n < Len(file), NEW i \in 1 .. n
                 PROVE  file[i + 1].ordinal = file[i].ordinal + 1
      BY <1>1 DEF Contiguous
    <3>1. i \in 1 .. Len(file) /\ i + 1 \in 1 .. Len(file) /\ 1 \in 1 .. Len(file)
      BY <1>1
    <3>2. file[i].ordinal = file[1].ordinal + i - 1
      BY <1>2, <3>1 DEF Aligned
    <3>3. file[i + 1].ordinal = file[1].ordinal + (i + 1) - 1
      BY <1>2, <3>1 DEF Aligned
    <3>4. file[1].ordinal \in Nat /\ i \in Nat
      BY <1>1, <3>1, OrdinalTyped
    <3> QED
      BY <3>2, <3>3, <3>4
  <2> QED
    BY <2>1, <2>2 DEF OrdinalBreak
<1>6. /\ proc' = "up" /\ OpenJournal(Len(file) = 0)
      /\ next_ordinal' = NumberingAfter(Len(file))
      /\ \/ torn' = FALSE /\ synced' = Len(file)
         \/ ~torn /\ UNCHANGED <<torn, synced>>
  <2>1. PICK n \in 0 .. Len(file) :
          /\ Reads(n) /\ proc' = "up" /\ OpenJournal(n = 0)
          /\ next_ordinal' = NumberingAfter(n)
          /\ \/ torn' = FALSE /\ synced' = Len(file)
             \/ ~torn /\ UNCHANGED <<torn, synced>>
    BY <1>2, <1>5 DEF Recover
  <2>2. n = Len(file)
    BY <1>5, <2>1 DEF Reads
  <2> QED
    BY <2>1, <2>2
<1>7. UNCHANGED <<flushed, file, header>>
  BY DEF Recover
<1>8. synced' \in synced .. Len(file)
  BY <1>1, <1>6
<1> ~torn'
  BY <1>6
<1>9. CASE file = << >>
  <2>1. /\ next_ordinal' = 1 /\ queue' = <<Record(0)>> /\ inflight' = << >>
        /\ wpc' = "wait"
    BY <1>6, <1>9 DEF NumberingAfter, OpenJournal
  <2>2. FileInv' /\ SyncInv'
    BY <1>7, <1>8, <1>9, <2>1, OrdinalAssumption, FileUnchanged DEF IInv
  <2>3. PipeInv'
    <3>1. FileEnd' = 0 /\ Len(queue') = 1 /\ Len(inflight') = 0
      BY <1>7, <1>9, <2>1 DEF FileEnd
    <3>2. \A i \in 1 .. 1 : queue'[i] = Record(1 - 1 + i - 1)
      BY <2>1
    <3> QED
      BY <2>1, <3>1, <3>2 DEF PipeInv
  <2> QED
    BY <1>1, <1>6, <2>1, <2>2, <2>3
<1>10. CASE file /= << >>
  <2>1. Len(file) \in 1 .. Len(file)
    BY <1>1, <1>10
  <2>2. file[Len(file)].ordinal \in Nat
    BY <1>1, <2>1, OrdinalTyped
  <2>3. /\ next_ordinal' = FileEnd /\ queue' = << >> /\ inflight' = << >>
        /\ wpc' = "wait"
    BY <1>6, <1>10, <2>1 DEF NumberingAfter, OpenJournal, FileEnd
  <2>4. FileEnd' = FileEnd
    BY <1>7 DEF FileEnd
  <2>5. FileInv' /\ SyncInv'
    <3>1. next_ordinal' <= MaxOrdinal + 1
      BY <1>1, <1>3, <2>3, OrdinalAssumption DEF IInv, FileInv
    <3>2. file[Len(file)].ordinal < next_ordinal'
      BY <1>10, <2>2, <2>3 DEF FileEnd
    <3> QED
      BY <1>7, <1>8, <3>1, <3>2, FileUnchanged DEF IInv
  <2>6. PipeInv'
    <3>1. FileEnd' + Len(inflight') + Len(queue') = next_ordinal'
      BY <1>3, <2>3, <2>4
    <3> QED
      BY <2>3, <3>1 DEF PipeInv
  <2> QED
    BY <1>3, <1>6, <2>3, <2>5, <2>6
<1> QED
  BY <1>9, <1>10

\* A step that moves no record and assigns no ordinal keeps the pipeline.
LEMMA PipeUnchanged ==
  ASSUME PipeInv, UNCHANGED <<file, next_ordinal, queue, inflight, torn>>,
         wpc' = "write" => wpc = "write", failed => failed'
  PROVE  PipeInv'
<1>1. FileEnd' = FileEnd
  BY DEF FileEnd
<1> QED
  BY <1>1 DEF PipeInv

\* A sync that covers everything accepted may acknowledge it.
LEMMA Acknowledged ==
  ASSUME IInv, UNCHANGED <<file, header, next_ordinal>>,
         synced' = Len(file), flushed' = next_ordinal, FileEnd = next_ordinal
  PROVE  FileInv' /\ SyncInv'
<1>1. FileInv'
  BY DEF IInv, FileInv, Aligned
<1>2. next_ordinal \in Nat \ {0} /\ file \in Seq(Records)
  BY DEF IInv, TypeOK, DataOK
<1>3. file /= << >> /\ Len(file) > 0
  BY <1>2 DEF FileEnd
<1>4. SyncInv'
  BY <1>2, <1>3 DEF SyncInv, FileEnd
<1> QED
  BY <1>1, <1>4

\* An idle journal that has not failed has everything accepted in its file.
LEMMA IdleComplete ==
  ASSUME IInv, proc = "up", ~failed, Idle
  PROVE  FileEnd = next_ordinal
<1>1. FileEnd + Len(inflight) + Len(queue) = next_ordinal
  BY DEF IInv, PipeInv
<1>2. FileEnd \in Nat
  BY OrdinalTyped DEF FileEnd, IInv, TypeOK, DataOK
<1>3. Len(inflight) = 0 /\ Len(queue) = 0
  BY DEF Idle
<1> QED
  BY <1>1, <1>2, <1>3

LEMMA NextDataInv ==
  ASSUME CompactionSucceeds, RecoveryUnlimited, IInv, [Next]_vars
  PROVE  FileInv' /\ SyncInv' /\ (proc' = "up" => PipeInv') /\ proc' /= "refused"
<1> DEFINE Goal == FileInv' /\ SyncInv' /\ (proc' = "up" => PipeInv')
                   /\ proc' /= "refused"
<1>0. /\ file \in Seq(Records) /\ synced \in 0 .. Len(file)
      /\ next_ordinal \in Nat \ {0} /\ flushed \in Nat /\ queue \in Seq(Records)
      /\ TypeOK /\ FileInv /\ SyncInv /\ proc /= "refused"
      /\ proc = "up" => ThreadInv /\ PipeInv
  BY DEF IInv, TypeOK, DataOK
\* The common case: records, acknowledgements and numbering stay as they are.
<1> DEFINE Quiet ==
      /\ UNCHANGED <<file, header, flushed, next_ordinal, queue, inflight, torn>>
      /\ synced' = synced \/ synced' = Len(file)
      /\ wpc' = "write" => wpc = "write"
      /\ failed => failed'
      /\ proc = "up" /\ proc' = "up"
<1>1. ASSUME Quiet PROVE Goal
  <2>0. synced' \in synced .. Len(file)
    BY <1>0, <1>1
  <2>1. FileInv' /\ SyncInv'
    BY <1>0, <1>1, <2>0, FileUnchanged DEF FileInv
  <2>2. PipeInv'
    BY <1>0, <1>1, PipeUnchanged
  <2> QED
    BY <1>1, <2>1, <2>2
<1> USE DEF callerVars, queueVars, flagVars, fileVars
<1>3. CASE WriterExit
  <2> Quiet
    BY <1>3, Zenon DEF WriterExit
  <2> QED
    BY <1>1
<1>4. CASE WriterSync
  <2>1. header = "ok"
    BY <1>0 DEF FileInv
  <2>2. header' = header /\ (synced' = synced \/ synced' = Len(file))
    BY <1>4, <2>1 DEF WriterSync, SyncFile
  <2>3. failed => failed'
    BY <1>4 DEF WriterSync
  <2>4. /\ UNCHANGED <<file, flushed, next_ordinal, queue, inflight, torn>>
        /\ wpc' /= "write" /\ proc = "up" /\ proc' = "up"
    BY <1>4 DEF WriterSync
  <2> Quiet
    BY <2>2, <2>3, <2>4, Zenon
  <2> QED
    BY <1>1
<1>5. ASSUME NEW f \in Flushers, FlushBegin(f) \/ FlushSleep(f) PROVE Goal
  <2>1. CASE FlushBegin(f)
    <3> Quiet
      BY <2>1, Zenon DEF FlushBegin
    <3> QED
      BY <1>1
  <2>2. CASE FlushSleep(f)
    <3> Quiet
      BY <2>2, Zenon DEF FlushSleep
    <3> QED
      BY <1>1
  <2> QED
    BY <1>5, <2>1, <2>2
<1>6. CASE CompactBegin \/ CompactSleep \/ CompactPause
  <2>1. UNCHANGED <<proc, file, header, flushed, next_ordinal, queue, inflight,
                    torn, synced, wpc, failed>>
    BY <1>6 DEF CompactBegin, CompactSleep, CompactPause
  <2>2. proc = "up"
    BY <1>6 DEF CompactBegin, CompactSleep, CompactPause, StateLockFree
  <2> Quiet
    BY <2>1, <2>2, Zenon
  <2> QED
    BY <1>1
<1>7. CASE CompactBuild \/ CompactReopen
  <2>1. UNCHANGED <<proc, file, header, flushed, next_ordinal, queue, inflight,
                    torn, synced, wpc, failed>>
    BY <1>7 DEF CompactBuild, CompactReopen
  <2>2. proc = "up"
    BY <1>7 DEF CompactBuild, CompactReopen
  <2> Quiet
    BY <2>1, <2>2, Zenon
  <2> QED
    BY <1>1
<1>8. CASE CompactRestore
  BY <1>0, <1>8 DEF CompactRestore, ThreadInv
<1>9. CASE StopBegin
  <2> Quiet
    BY <1>9, Zenon DEF StopBegin, StateLockFree
  <2> QED
    BY <1>1
<1>10. ASSUME NEW f \in Flushers, FlushEnd(f) PROVE Goal
  <2>1. header = "ok" /\ ThreadInv
    BY <1>0, <1>10 DEF FileInv, FlushEnd
  <2>2. CASE flushed' = flushed /\ header' = header /\ synced' = synced
    <3>1. failed => failed'
      BY <1>10 DEF FlushEnd
    <3>2. /\ UNCHANGED <<file, next_ordinal, queue, inflight, torn, wpc>>
          /\ proc = "up" /\ proc' = "up"
      BY <1>10 DEF FlushEnd
    <3> Quiet
      BY <2>2, <3>1, <3>2, Zenon
    <3> QED
      BY <1>1
  <2>3. CASE open /\ ~failed /\ flushed' = next_ordinal /\ failed' = failed
             /\ (IF handle = "none" THEN UNCHANGED <<synced, header>> ELSE SyncFile)
    <3>1. handle /= "none" /\ Idle
      BY <1>10, <2>1, <2>3 DEF FlushEnd, ThreadInv, DoneWaiting
    <3>2. synced' = Len(file) /\ header' = header
      BY <2>1, <2>3, <3>1 DEF SyncFile
    <3>3. proc = "up" /\ proc' = "up" /\ wpc' = wpc
          /\ UNCHANGED <<file, next_ordinal, queue, inflight, torn>>
      BY <1>10 DEF FlushEnd
    <3>4. FileInv' /\ SyncInv'
      BY <2>3, <3>1, <3>2, <3>3, IdleComplete, Acknowledged
    <3>5. PipeInv'
      BY <1>0, <2>3, <3>3, PipeUnchanged
    <3> QED
      BY <3>3, <3>4, <3>5 DEF Goal
  <2> QED
    BY <1>10, <2>2, <2>3 DEF FlushEnd
<1>11. CASE StopEnd
  <2>1. header = "ok" /\ ThreadInv /\ handle /= "none"
    BY <1>0, <1>11 DEF FileInv, StopEnd, ThreadInv
  <2>2. proc = "up" /\ proc' = "up" /\ wpc' = wpc /\ failed' = failed
        /\ UNCHANGED <<file, next_ordinal, queue, inflight, torn>>
    BY <1>11 DEF StopEnd
  <2>3. header' = header /\ (synced' = synced \/ synced' = Len(file))
    BY <1>11, <2>1 DEF StopEnd, SyncFile
  <2>4. CASE flushed' = flushed
    <3> Quiet
      BY <2>2, <2>3, <2>4, Zenon
    <3> QED
      BY <1>1
  <2>5. CASE ~failed /\ flushed' = next_ordinal /\ SyncFile
    <3>1. synced' = Len(file)
      BY <2>5 DEF SyncFile
    <3>2. Idle
      BY <1>0, <1>11, <2>1 DEF StopEnd, ThreadInv, Idle, TypeOK, DataOK
    <3>3. FileInv' /\ SyncInv'
      BY <2>2, <2>3, <2>5, <3>1, <3>2, IdleComplete, Acknowledged
    <3>4. PipeInv'
      BY <1>0, <2>2, PipeUnchanged
    <3> QED
      BY <2>2, <3>3, <3>4 DEF Goal
  <2> QED
    BY <1>11, <2>1, <2>4, <2>5 DEF StopEnd
<1>12. CASE AppendRecord
  <2>1. /\ proc = "up" /\ proc' = "up" /\ ~failed /\ next_ordinal <= MaxOrdinal
        /\ queue' = Append(queue, Record(next_ordinal))
        /\ next_ordinal' = next_ordinal + 1
        /\ UNCHANGED <<flushed, file, header, synced, inflight, failed, torn, wpc>>
    BY <1>12 DEF AppendRecord, StateLockFree, HasCapacity
  <2>2. FileEnd \in Nat /\ FileEnd' = FileEnd
    BY <1>0, <2>1, OrdinalTyped DEF FileEnd
  <2>3. FileInv' /\ SyncInv'
    <3>1. next_ordinal' <= MaxOrdinal + 1
      BY <1>0, <2>1, OrdinalAssumption
    <3>2. file /= << >> => file[Len(file)].ordinal < next_ordinal'
      BY <1>0, <2>1, OrdinalTyped DEF FileInv
    <3>3. synced' \in synced .. Len(file)
      BY <1>0, <2>1
    <3> QED
      BY <1>0, <2>1, <3>1, <3>2, <3>3, FileUnchanged
  <2>4. Len(queue') = Len(queue) + 1
    BY <1>0, <2>1
  <2>5. \A i \in 1 .. Len(queue') :
          queue'[i] = Record(next_ordinal' - Len(queue') + i - 1)
    <3> SUFFICES ASSUME NEW i \in 1 .. Len(queue')
                 PROVE  queue'[i] = Record(next_ordinal - Len(queue) + i - 1)
      <4>1. next_ordinal' - Len(queue') = next_ordinal - Len(queue)
        BY <1>0, <2>1, <2>4
      <4> QED
        BY <4>1
    <3>1. CASE i = Len(queue')
      <4>1. queue'[i] = Record(next_ordinal)
        BY <1>0, <2>1, <2>4, <3>1
      <4>2. next_ordinal - Len(queue) + i - 1 = next_ordinal
        BY <1>0, <2>4, <3>1
      <4> QED
        BY <4>1, <4>2
    <3>2. CASE i /= Len(queue')
      <4>1. i \in 1 .. Len(queue) /\ queue'[i] = queue[i]
        BY <1>0, <2>1, <2>4, <3>2
      <4> QED
        BY <1>0, <2>1, <4>1 DEF PipeInv
    <3> QED
      BY <3>1, <3>2
  <2>6. Len(inflight) \in Nat
    BY <1>0 DEF TypeOK, DataOK
  <2>7. FileEnd' + Len(inflight') + Len(queue') = next_ordinal'
    BY <1>0, <2>1, <2>2, <2>4, <2>6 DEF PipeInv
  <2>8. wpc' = "write" => inflight' = <<Record(next_ordinal' - Len(queue') - 1)>>
    <3>1. next_ordinal' - Len(queue') - 1 = next_ordinal - Len(queue) - 1
      BY <1>0, <2>1, <2>4
    <3> QED
      BY <1>0, <2>1, <3>1 DEF PipeInv
  <2>9. torn' => failed'
    BY <1>0, <2>1 DEF PipeInv
  <2> QED
    BY <2>1, <2>3, <2>5, <2>7, <2>8, <2>9 DEF PipeInv, Goal
<1>13. CASE WriterPop
  <2>1. /\ proc = "up" /\ proc' = "up" /\ wpc = "wait" /\ queue /= << >>
        /\ inflight' = <<Head(queue)>> /\ queue' = Tail(queue)
        /\ UNCHANGED <<flushed, file, header, synced, next_ordinal, failed, torn>>
    BY <1>13 DEF WriterPop
  <2>2. FileInv' /\ SyncInv'
    <3>1. synced' \in synced .. Len(file)
      BY <1>0, <2>1
    <3> QED
      BY <1>0, <2>1, <3>1, FileUnchanged DEF FileInv
  <2>3. Len(queue) > 0 /\ Len(queue') = Len(queue) - 1
    BY <1>0, <2>1
  <2>4. inflight = << >>
    BY <1>0, <2>1 DEF TypeOK, DataOK
  <2>5. \A i \in 1 .. Len(queue') :
          queue'[i] = Record(next_ordinal' - Len(queue') + i - 1)
    <3> SUFFICES ASSUME NEW i \in 1 .. Len(queue')
                 PROVE  queue'[i] = Record(next_ordinal - Len(queue') + i - 1)
      BY <2>1
    <3>1. i + 1 \in 1 .. Len(queue) /\ queue'[i] = queue[i + 1]
      BY <1>0, <2>1, <2>3
    <3>2. queue[i + 1] = Record(next_ordinal - Len(queue) + (i + 1) - 1)
      BY <1>0, <2>1, <3>1 DEF PipeInv
    <3>3. next_ordinal - Len(queue) + (i + 1) - 1 = next_ordinal - Len(queue') + i - 1
      BY <1>0, <2>3
    <3> QED
      BY <3>1, <3>2, <3>3
  <2>6. Head(queue) = Record(next_ordinal' - Len(queue') - 1)
    <3>1. queue[1] = Record(next_ordinal - Len(queue) + 1 - 1)
      BY <1>0, <2>1, <2>3 DEF PipeInv
    <3>2. next_ordinal - Len(queue) + 1 - 1 = next_ordinal' - Len(queue') - 1
      BY <1>0, <2>1, <2>3
    <3> QED
      BY <1>0, <2>1, <3>1, <3>2
  <2>7. FileEnd' = FileEnd /\ FileEnd \in Nat
    BY <1>0, <2>1, OrdinalTyped DEF FileEnd
  <2>8. ~failed' => FileEnd' + Len(inflight') + Len(queue') = next_ordinal'
    <3>1. ~failed' => FileEnd + 0 + Len(queue) = next_ordinal
      BY <1>0, <2>1, <2>4 DEF PipeInv
    <3>2. Len(inflight') = 1
      BY <2>1
    <3> QED
      BY <1>0, <2>1, <2>3, <2>7, <3>1, <3>2
  <2>9. torn' => failed'
    BY <1>0, <2>1 DEF PipeInv
  <2> QED
    BY <2>1, <2>2, <2>5, <2>6, <2>8, <2>9 DEF PipeInv, Goal
<1>14. CASE WriterWrite
  <2>1. proc = "up" /\ proc' = "up"
    BY <1>14 DEF WriterWrite
  <2> QED
    BY <1>14, <2>1, FileGrows DEF Goal
<1>15. CASE WriterFail
  <2>1. /\ proc = "up" /\ proc' = "up" /\ wpc' = "wait" /\ failed'
        /\ queue' = << >> /\ inflight' = << >>
        /\ UNCHANGED <<flushed, file, header, synced, next_ordinal>>
    BY <1>15 DEF WriterFail
  <2>2. FileInv' /\ SyncInv'
    <3>1. synced' \in synced .. Len(file)
      BY <1>0, <2>1
    <3> QED
      BY <1>0, <2>1, <3>1, FileUnchanged DEF FileInv
  <2> QED
    BY <2>1, <2>2 DEF PipeInv, Goal
<1>16. CASE CompactClose
  <2>1. UNCHANGED <<proc, header, flushed, synced, next_ordinal, queue, inflight,
                    torn, wpc, failed>>
    BY <1>16 DEF CompactClose
  <2>2. file' = SubSeq(file, 1, Len(file)) /\ proc = "up"
    BY <1>16 DEF CompactClose, CompactionSucceeds
  <2>3. file' = file
    BY <1>0, <2>2
  <2> Quiet
    BY <2>1, <2>2, <2>3, Zenon
  <2> QED
    BY <1>1
<1>17. CASE CompactRename
  <2>1. /\ file' = <<Snapshot(next_ordinal - 1)>> /\ synced' = 1 /\ torn' = FALSE
        /\ header' = "ok" /\ proc = "up" /\ proc' = "up"
        /\ UNCHANGED <<flushed, next_ordinal, queue, inflight, wpc, failed>>
    BY <1>17 DEF CompactRename, CompactionSucceeds, SnapshotOrdinal
  <2>2. /\ Len(file') = 1 /\ file'[1] = Snapshot(next_ordinal - 1)
        /\ file'[1].ordinal = next_ordinal - 1 /\ file'[1].kind = "snapshot"
    BY <2>1 DEF Snapshot
  <2>3. FileInv'
    BY <1>0, <2>1, <2>2 DEF FileInv, Aligned
  <2>4. flushed <= next_ordinal
    <3>1. CASE flushed > 0
      <4>1. synced \in 1 .. Len(file) /\ 1 \in 1 .. Len(file)
            /\ Len(file) \in 1 .. Len(file) /\ file /= << >>
        BY <1>0, <3>1 DEF SyncInv
      <4>2. file[1].ordinal \in Nat
        BY <1>0, <4>1, OrdinalTyped
      <4>3. /\ file[synced].ordinal = file[1].ordinal + synced - 1
            /\ file[Len(file)].ordinal = file[1].ordinal + Len(file) - 1
        BY <1>0, <4>1 DEF FileInv, Aligned
      <4>4. file[Len(file)].ordinal < next_ordinal
        BY <1>0, <4>1 DEF FileInv
      <4> QED
        BY <1>0, <3>1, <4>1, <4>2, <4>3, <4>4 DEF SyncInv
    <3> QED
      BY <1>0, <3>1
  <2>5. SyncInv'
    BY <1>0, <2>1, <2>2, <2>4 DEF SyncInv
  <2>6. queue = << >> /\ inflight = << >> /\ wpc = "wait"
    BY <1>0, <1>17, <2>1 DEF CompactRename, ThreadInv, OwnsFile, TypeOK, DataOK
  <2>7. FileEnd' = next_ordinal
    BY <1>0, <2>1, <2>2 DEF FileEnd
  <2>8. FileEnd' + Len(inflight') + Len(queue') = next_ordinal'
    BY <1>0, <2>1, <2>6, <2>7
  <2>9. PipeInv'
    BY <2>1, <2>6, <2>8 DEF PipeInv
  <2> QED
    BY <2>1, <2>3, <2>5, <2>9 DEF Goal
<1>18. CASE Crash
  <2>1. PICK n \in synced .. Len(file) : file' = SubSeq(file, 1, n)
    BY <1>18 DEF Crash
  <2>2. header' = header /\ proc' = "down"
        /\ UNCHANGED <<flushed, synced, next_ordinal>>
    BY <1>0, <1>18 DEF Crash, FileInv
  <2> QED
    BY <1>0, <2>1, <2>2, FileCut DEF Goal
<1>19. CASE Recover
  BY <1>19, FileRead DEF Goal
<1>20. CASE UNCHANGED vars
  <2>1. UNCHANGED <<proc, header, flushed, synced, next_ordinal, queue, inflight,
                    torn, wpc, failed, file>>
    BY <1>20 DEF vars
  <2>2. FileInv' /\ SyncInv'
    <3>1. synced' \in synced .. Len(file)
      BY <1>0, <2>1
    <3> QED
      BY <1>0, <2>1, <3>1, FileUnchanged DEF FileInv
  <2>3. PipeInv => PipeInv'
    BY <2>1, PipeUnchanged
  <2> QED
    BY <1>0, <2>1, <2>2, <2>3 DEF Goal
<1> QED
  BY <1>3, <1>4, <1>5, <1>6, <1>7, <1>8, <1>9, <1>10, <1>11, <1>12, <1>13, <1>14,
     <1>15, <1>16, <1>17, <1>18, <1>19, <1>20 DEF Next, Writer, Compactor, Goal

LEMMA InitInv == Init => IInv
<1> SUFFICES ASSUME Init PROVE IInv
  OBVIOUS
<1>1. TypeOK
  BY InitTyped
<1>2. FileInv /\ SyncInv
  BY OrdinalAssumption DEF Init, FileInv, SyncInv, Aligned
<1>3. ThreadInv
  BY DEF Init, ThreadInv, OwnsFile
<1>4. PipeInv
  <2>1. FileEnd = 0 /\ Len(queue) = 1 /\ Len(inflight) = 0 /\ next_ordinal = 1
    BY DEF Init, FileEnd
  <2>2. \A i \in 1 .. 1 : queue[i] = Record(1 - 1 + i - 1)
    BY DEF Init
  <2>3. wpc = "wait" /\ ~torn
    BY DEF Init
  <2> QED
    BY <2>1, <2>2, <2>3 DEF PipeInv
<1> QED
  BY <1>1, <1>2, <1>3, <1>4 DEF IInv, Init

LEMMA NextInv ==
  ASSUME CompactionSucceeds, RecoveryUnlimited
  PROVE  IInv /\ [Next]_vars => IInv'
<1> SUFFICES ASSUME IInv, [Next]_vars PROVE IInv'
  OBVIOUS
<1>1. TypeOK'
  BY NextControl, NextData DEF IInv, TypeOK
<1>2. proc' = "up" => ThreadInv'
  BY NextThread DEF IInv
<1>3. FileInv' /\ SyncInv' /\ (proc' = "up" => PipeInv') /\ proc' /= "refused"
  BY NextDataInv
<1> QED
  BY <1>1, <1>2, <1>3 DEF IInv

\* The inductive invariant holds in every reachable state.
THEOREM JournalInvariant ==
  ASSUME CompactionSucceeds, RecoveryUnlimited
  PROVE  Spec => []IInv
<1>1. Init => IInv
  BY InitInv
<1>2. IInv /\ [Next]_vars => IInv'
  BY NextInv
<1> QED
  BY <1>1, <1>2, PTL DEF Spec
-----------------------------------------------------------------------------
(***************************************************************************)
(* What follows from it.                                                   *)
(***************************************************************************)
LEMMA InvDurable == IInv => FlushedIsDurable
<1> SUFFICES ASSUME IInv, NEW n \in 0 .. flushed - 1
             PROVE  \E i \in 1 .. synced : Covers(file[i], n)
  BY DEF IInv, FileInv, FlushedIsDurable
<1>1. /\ file \in Seq(Records) /\ synced \in 0 .. Len(file) /\ flushed \in Nat
  BY DEF IInv, TypeOK, DataOK
<1>2. flushed > 0 /\ synced \in 1 .. Len(file) /\ flushed <= file[synced].ordinal + 1
  <2>1. flushed > 0
    BY <1>1
  <2>2. synced > 0 /\ flushed <= file[synced].ordinal + 1
    BY <2>1 DEF IInv, SyncInv
  <2>3. Len(file) \in Nat /\ synced \in 0 .. Len(file)
    BY <1>1
  <2>4. synced \in 1 .. Len(file)
    BY <2>2, <2>3
  <2> QED
    BY <2>1, <2>2, <2>4
<1>3. 1 \in 1 .. Len(file) /\ file /= << >>
  BY <1>1, <1>2
<1>4. file[1].ordinal \in Nat
  BY <1>1, <1>3, OrdinalTyped
<1>5. \A i \in 1 .. Len(file) : file[i].ordinal = file[1].ordinal + i - 1
  BY DEF IInv, FileInv, Aligned
\* Either the snapshot at the front covers n, or n has a record of its own.
<1>6. CASE n < file[1].ordinal
  <2>1. file[1].kind = "snapshot"
    BY <1>3, <1>4, <1>6 DEF IInv, FileInv, Record
  <2> QED
    BY <1>2, <1>6, <2>1 DEF Covers
<1>7. CASE n >= file[1].ordinal
  <2> DEFINE k == n - file[1].ordinal + 1
  <2>0. file[synced].ordinal = file[1].ordinal + synced - 1
    BY <1>2, <1>5
  <2>1. k \in 1 .. synced /\ k \in 1 .. Len(file)
    BY <1>1, <1>2, <1>4, <1>7, <2>0
  <2>2. file[k].ordinal = n
    <3>1. file[k].ordinal = file[1].ordinal + k - 1
      BY <1>5, <2>1
    <3> QED
      BY <1>1, <1>4, <3>1
  <2> QED
    BY <2>1, <2>2 DEF Covers
<1> QED
  BY <1>4, <1>6, <1>7

\* For every number of flushers, queue depth and length of run, in the presence
\* of failing writes and syncs and of crashes at any step: what flush and stop
\* acknowledged stays in the synced part of an intact file.
THEOREM DurabilityHolds ==
  ASSUME CompactionSucceeds, RecoveryUnlimited
  PROVE  Spec => []FlushedIsDurable
  BY JournalInvariant, InvDurable, PTL

\* The compaction lock, the pause of the writer and the state lock together
\* give compact the FILE handle to itself.
THEOREM ExclusiveFile ==
  ASSUME CompactionSucceeds, RecoveryUnlimited
  PROVE  Spec => []CompactionOwnsFile
<1>1. IInv => CompactionOwnsFile
  BY DEF IInv, ThreadInv, OwnsFile, CompactionOwnsFile, TypeOK, DataOK
<1> QED
  BY <1>1, JournalInvariant, PTL

\* Recovery never refuses a file that crashes, failing writes and failing
\* syncs have left behind.
THEOREM RecoverySucceeds ==
  ASSUME CompactionSucceeds, RecoveryUnlimited
  PROVE  Spec => []NeverRefused
<1>1. IInv => NeverRefused
  BY DEF IInv, NeverRefused
<1> QED
  BY <1>1, JournalInvariant, PTL

LEMMA InvOrder == IInv => FileOrder
<1> SUFFICES ASSUME IInv PROVE FileOrder
  OBVIOUS
<1>1. /\ file \in Seq(Records) /\ queue \in Seq(Records)
      /\ inflight \in Seq(Records) /\ next_ordinal \in Nat \ {0}
  BY DEF IInv, TypeOK, DataOK
<1>2. \A i \in 1 .. Len(file) : file[i].ordinal = file[1].ordinal + i - 1
  BY DEF IInv, FileInv, Aligned
<1>3. ASSUME Pipeline = file, ~(proc = "up" /\ ~failed) PROVE FileOrder
  <2>1. Contiguous(file, Len(file))
    <3> SUFFICES ASSUME NEW i \in 1 .. Len(file) - 1
                 PROVE  file[i + 1].ordinal = file[i].ordinal + 1
      BY DEF Contiguous
    <3>1. i \in 1 .. Len(file) /\ i + 1 \in 1 .. Len(file) /\ 1 \in 1 .. Len(file)
      BY <1>1
    <3>2. file[i].ordinal = file[1].ordinal + i - 1
      BY <1>2, <3>1
    <3>3. file[i + 1].ordinal = file[1].ordinal + (i + 1) - 1
      BY <1>2, <3>1
    <3>4. file[1].ordinal \in Nat /\ i \in Nat
      BY <1>1, <3>1, OrdinalTyped
    <3> QED
      BY <3>2, <3>3, <3>4
  <2> QED
    BY <1>3, <2>1 DEF IInv, FileInv, FileOrder
<1>4. CASE proc /= "up"
  BY <1>3, <1>4 DEF Pipeline
<1>5. CASE proc = "up" /\ failed
  <2>1. queue = << >> /\ inflight = << >>
    BY <1>5 DEF IInv, ThreadInv, TypeOK, DataOK
  <2>2. Pipeline = file
    BY <1>1, <1>5, <2>1 DEF Pipeline
  <2> QED
    BY <1>3, <1>5, <2>2
<1>6. CASE proc = "up" /\ ~failed
  <2> DEFINE lf == Len(file)
             li == Len(inflight)
             lq == Len(queue)
             p == file \o inflight \o queue
  <2>1. Pipeline = p
    BY <1>6 DEF Pipeline
  <2>2. /\ lf \in Nat /\ li \in Nat /\ lq \in Nat
        /\ Len(p) = lf + li + lq
        /\ \A i \in 1 .. lf : p[i] = file[i]
        /\ \A i \in 1 .. li : p[lf + i] = inflight[i]
        /\ \A i \in 1 .. lq : p[lf + li + i] = queue[i]
    BY <1>1
  <2>3. /\ FileEnd + li + lq = next_ordinal
        /\ \A i \in 1 .. lq : queue[i] = Record(next_ordinal - lq + i - 1)
    BY <1>6 DEF IInv, PipeInv
  <2>4. \A i \in 1 .. li : i = 1 /\ li = 1 /\ inflight[i] = Record(next_ordinal - lq - 1)
    <3>1. CASE wpc = "write"
      <4>1. inflight = <<Record(next_ordinal - lq - 1)>>
        BY <1>6, <3>1 DEF IInv, PipeInv
      <4> QED
        BY <4>1
    <3>2. CASE wpc /= "write"
      <4>1. inflight = << >>
        BY <3>2 DEF IInv, TypeOK, DataOK
      <4> QED
        BY <4>1
    <3> QED
      BY <3>1, <3>2
  <2>5. FileEnd \in Nat
    BY <1>1, OrdinalTyped DEF FileEnd
  <2> HIDE DEF lf, li, lq, p
  <2>6. lf > 0 => file[1].ordinal \in Nat /\ FileEnd = file[1].ordinal + lf
    <3> SUFFICES ASSUME lf > 0
                 PROVE  file[1].ordinal \in Nat /\ FileEnd = file[1].ordinal + lf
      OBVIOUS
    <3>1. lf \in 1 .. Len(file) /\ 1 \in 1 .. Len(file) /\ file /= << >>
      BY <1>1, <2>2 DEF lf
    <3>2. file[1].ordinal \in Nat
      BY <1>1, <3>1, OrdinalTyped
    <3>3. file[lf].ordinal = file[1].ordinal + lf - 1
      BY <1>2, <3>1
    <3>4. FileEnd = file[lf].ordinal + 1
      BY <3>1 DEF FileEnd, lf
    <3> QED
      BY <2>2, <3>2, <3>3, <3>4
  \* Every record of the pipeline has the ordinal its place demands.
  <2>7. ASSUME NEW i \in 1 .. Len(p)
        PROVE  p[i].ordinal = next_ordinal - Len(p) + i - 1
    <3>1. CASE i <= lf
      <4>1. i \in 1 .. lf /\ lf > 0 /\ i \in 1 .. Len(file)
        BY <2>2, <3>1 DEF lf
      <4>2. p[i] = file[i]
        BY <2>2, <4>1
      <4>3. file[i].ordinal = file[1].ordinal + i - 1
        BY <1>2, <4>1
      <4>4. /\ lf \in Nat /\ li \in Nat /\ lq \in Nat /\ Len(p) = lf + li + lq
            /\ FileEnd + li + lq = next_ordinal
        BY <2>2, <2>3
      <4>5. file[1].ordinal \in Nat /\ FileEnd = file[1].ordinal + lf
        BY <2>6, <4>1
      <4> QED
        <5>1. next_ordinal - Len(p) = file[1].ordinal
          <6>1. next_ordinal = file[1].ordinal + lf + li + lq
            BY <4>4, <4>5
          <6> HIDE DEF p, lf, li, lq
          <6> QED
            BY <4>4, <4>5, <6>1, SMTT(30)
        <5> QED
          BY <4>2, <4>3, <5>1
    <3>2. CASE i > lf /\ i <= lf + li
      <4>1. i - lf \in 1 .. li /\ lf + (i - lf) = i
        BY <2>2, <3>2
      <4>2. p[lf + (i - lf)] = inflight[i - lf]
        BY <2>2, <4>1
      <4>3. i - lf = 1 /\ li = 1 /\ inflight[i - lf] = Record(next_ordinal - lq - 1)
        BY <2>4, <4>1
      <4>4. p[i] = Record(next_ordinal - lq - 1)
        BY <4>1, <4>2, <4>3
      <4>5. next_ordinal - lq - 1 = next_ordinal - Len(p) + i - 1
        BY <1>1, <2>2, <4>1, <4>3
      <4> QED
        BY <4>4, <4>5 DEF Record
    <3>3. CASE i > lf + li
      <4>1. i - (lf + li) \in 1 .. lq /\ lf + li + (i - (lf + li)) = i
        BY <2>2, <3>3
      <4>2. p[lf + li + (i - (lf + li))] = queue[i - (lf + li)]
        BY <2>2, <4>1
      <4>3. queue[i - (lf + li)] = Record(next_ordinal - lq + (i - (lf + li)) - 1)
        BY <2>3, <4>1
      <4>4. next_ordinal - lq + (i - (lf + li)) - 1 = next_ordinal - Len(p) + i - 1
        BY <1>1, <2>2, <4>1
      <4> QED
        BY <4>1, <4>2, <4>3, <4>4 DEF Record
    <3> QED
      BY <2>2, <3>1, <3>2, <3>3
  <2>8. Len(p) \in Nat \ {0} /\ (lf = 0 => Len(p) = next_ordinal)
    <3>1. CASE lf = 0
      <4>1. FileEnd = 0
        BY <1>1, <3>1 DEF FileEnd, lf
      <4> QED
        BY <1>1, <2>2, <2>3, <3>1, <4>1
    <3>2. CASE lf /= 0
      BY <2>2, <3>2
    <3> QED
      BY <3>1, <3>2
  <2>9. Contiguous(p, Len(p))
    <3> SUFFICES ASSUME NEW i \in 1 .. Len(p) - 1
                 PROVE  p[i + 1].ordinal = p[i].ordinal + 1
      BY DEF Contiguous
    <3>1. i \in 1 .. Len(p) /\ i + 1 \in 1 .. Len(p)
      BY <2>8
    <3>2. /\ p[i].ordinal = next_ordinal - Len(p) + i - 1
          /\ p[i + 1].ordinal = next_ordinal - Len(p) + (i + 1) - 1
      BY <2>7, <3>1
    <3> QED
      BY <1>1, <2>8, <3>1, <3>2
  <2>10. p /= << >> /\ p[Len(p)].ordinal = next_ordinal - 1
    <3>1. Len(p) \in 1 .. Len(p) /\ p /= << >>
      BY <2>8
    <3>2. p[Len(p)].ordinal = next_ordinal - Len(p) + Len(p) - 1
      BY <2>7, <3>1
    <3> QED
      BY <1>1, <2>8, <3>1, <3>2
  <2>11. p[1] = Record(0) \/ p[1].kind = "snapshot"
    <3>1. CASE lf > 0
      <4>1. p[1] = file[1] /\ file /= << >>
        BY <1>1, <2>2, <3>1 DEF lf
      <4> QED
        BY <4>1 DEF IInv, FileInv
    <3>2. CASE lf = 0 /\ li > 0
      <4>1. 1 \in 1 .. li /\ lf + 1 = 1
        BY <2>2, <3>2
      <4>2. p[1] = inflight[1] /\ inflight[1] = Record(next_ordinal - lq - 1) /\ li = 1
        BY <2>2, <2>4, <4>1
      <4>3. next_ordinal - lq - 1 = 0
        BY <1>1, <2>2, <2>8, <3>2, <4>2
      <4> QED
        BY <4>2, <4>3
    <3>3. CASE lf = 0 /\ li = 0
      <4>1. lq = next_ordinal /\ 1 \in 1 .. lq /\ lf + li + 1 = 1
        BY <1>1, <2>2, <2>8, <3>3
      <4>2. p[1] = queue[1] /\ queue[1] = Record(next_ordinal - lq + 1 - 1)
        BY <2>2, <2>3, <4>1
      <4>3. next_ordinal - lq + 1 - 1 = 0
        BY <1>1, <4>1
      <4> QED
        BY <4>2, <4>3
    <3> QED
      BY <2>2, <3>1, <3>2, <3>3
  <2> QED
    BY <2>1, <2>9, <2>10, <2>11 DEF FileOrder
<1> QED
  BY <1>4, <1>5, <1>6

\* File order equals ordinal order, from the first record in the file to the
\* last in the queue, with no gap and none out of place.
THEOREM OrderHolds ==
  ASSUME CompactionSucceeds, RecoveryUnlimited
  PROVE  Spec => []FileOrder
  BY JournalInvariant, InvOrder, PTL

LEMMA AckBounded == IInv => flushed \in 0 .. FileEnd /\ FileEnd <= next_ordinal
<1> SUFFICES ASSUME IInv
             PROVE  flushed \in 0 .. FileEnd /\ FileEnd <= next_ordinal
  OBVIOUS
<1>1. /\ file \in Seq(Records) /\ synced \in 0 .. Len(file) /\ flushed \in Nat
      /\ next_ordinal \in Nat
  BY DEF IInv, TypeOK, DataOK
<1>2. CASE file = << >>
  <2>1. ~(flushed > 0)
    BY <1>1, <1>2 DEF IInv, SyncInv
  <2> QED
    BY <1>1, <1>2, <2>1 DEF FileEnd
<1>3. CASE file /= << >>
  <2>1. 1 \in 1 .. Len(file) /\ Len(file) \in 1 .. Len(file)
    BY <1>1, <1>3
  <2>2. file[1].ordinal \in Nat
    BY <1>1, <2>1, OrdinalTyped
  <2>3. file[Len(file)].ordinal = file[1].ordinal + Len(file) - 1
    BY <2>1 DEF IInv, FileInv, Aligned
  <2>4. FileEnd = file[Len(file)].ordinal + 1 /\ file[Len(file)].ordinal < next_ordinal
    BY <1>3 DEF FileEnd, IInv, FileInv
  <2>5. flushed > 0 => flushed <= file[1].ordinal + synced
    <3> SUFFICES ASSUME flushed > 0 PROVE flushed <= file[1].ordinal + synced
      OBVIOUS
    <3>1. synced \in 1 .. Len(file) /\ flushed <= file[synced].ordinal + 1
      BY <1>1 DEF IInv, SyncInv
    <3>2. file[synced].ordinal = file[1].ordinal + synced - 1
      BY <3>1 DEF IInv, FileInv, Aligned
    <3> QED
      BY <1>1, <2>2, <3>1, <3>2
  <2> QED
    BY <1>1, <2>2, <2>3, <2>4, <2>5
<1> QED
  BY <1>2, <1>3

LEMMA AckBoundedNext ==
  (IInv => flushed \in 0 .. FileEnd /\ FileEnd <= next_ordinal)'
  BY AckBounded, PTL

\* Every step of the journal is a step of DurableLog or leaves it alone.
LEMMA StepRefines ==
  ASSUME IInv, IInv', [Next]_vars, RecoveryUnlimited
  PROVE  [Log!LNext]_(Log!lvars)
<1> USE DEF Log!LNext, Log!lvars
<1>0. next_ordinal \in Nat \ {0} /\ flushed \in Nat
  BY DEF IInv, TypeOK, DataOK
<1>1. CASE AppendRecord
  BY <1>1 DEF AppendRecord, Log!Accept
<1>2. ASSUME NEW f \in Flushers, FlushEnd(f) PROVE Log!LNext \/ UNCHANGED Log!lvars
  BY <1>2 DEF FlushEnd, Log!Acknowledge
<1>3. CASE StopEnd
  BY <1>3 DEF StopEnd, Log!Acknowledge
<1>4. CASE Recover
  <2>1. FileEnd' = FileEnd /\ flushed' = flushed
    BY <1>4 DEF Recover, FileEnd
  <2>2. next_ordinal' <= next_ordinal
    BY <1>4, FileRead
  <2>3. next_ordinal' \in Nat
    BY DEF IInv, TypeOK, DataOK
  <2>4. flushed <= FileEnd /\ FileEnd' <= next_ordinal' /\ FileEnd \in Nat
    <3>1. flushed \in 0 .. FileEnd
      BY AckBounded
    <3>2. FileEnd' <= next_ordinal'
      BY AckBoundedNext
    <3>3. FileEnd \in Nat
      <4>1. file \in Seq(Records)
        BY DEF IInv, TypeOK, DataOK
      <4> QED
        BY <4>1, OrdinalTyped DEF FileEnd
    <3> QED
      BY <1>0, <3>1, <3>2, <3>3
  <2> QED
    BY <1>0, <2>1, <2>2, <2>3, <2>4 DEF Log!Restart
<1>5. CASE WriterPop \/ WriterWrite \/ WriterFail \/ WriterExit \/ WriterSync
  BY <1>5 DEF WriterPop, WriterWrite, WriterFail, WriterExit, WriterSync, callerVars
<1>6. ASSUME NEW f \in Flushers, FlushBegin(f) \/ FlushSleep(f)
      PROVE  UNCHANGED Log!lvars
  BY <1>6 DEF FlushBegin, FlushSleep, callerVars
<1>7. CASE CompactBegin \/ Compactor
  BY <1>7 DEF CompactBegin, Compactor, CompactSleep, CompactPause, CompactClose,
     CompactBuild, CompactRename, CompactReopen, CompactRestore, callerVars
<1>8. CASE StopBegin \/ Crash \/ UNCHANGED vars
  BY <1>8 DEF StopBegin, Crash, vars, callerVars
<1> QED
  BY <1>1, <1>2, <1>3, <1>4, <1>5, <1>6, <1>7, <1>8 DEF Next, Writer

\* The journal implements DurableLog: a restart loses at most a suffix of what
\* was accepted, and nothing that flush or stop acknowledged.
THEOREM Refinement ==
  ASSUME CompactionSucceeds, RecoveryUnlimited
  PROVE  Spec => ImplementsDurableLog
<1>1. Init => Log!LInit
  BY DEF Init, Log!LInit
<1>2. IInv /\ IInv' /\ [Next]_vars => [Log!LNext]_(Log!lvars)
  BY StepRefines
<1>3. Spec => []IInv
  BY JournalInvariant
<1> QED
  BY <1>1, <1>2, <1>3, PTL DEF Spec, ImplementsDurableLog, Log!LSpec
=============================================================================
