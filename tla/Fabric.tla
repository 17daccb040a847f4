-------------------------------- MODULE Fabric --------------------------------
(***************************************************************************)
(* The public entry points of the fabric called by several threads at once *)
(* (src/src/runtime/fabric.cpp): what happens before, under and after the  *)
(* state lock.  Ingestion and declaration read open_ before they lock;     *)
(* flush and compact read journal_ before they lock or without locking;    *)
(* close takes the journal away under the lock and stops it outside.       *)
(*                                                                         *)
(* What the operations do to the state is in FabricState, how the journal  *)
(* writes its file in Journal.  Here the state in memory is a set of       *)
(* entries: a declaration, or the link or the evidence of an ingestion.    *)
(* Every client ingests on a link of its own.                              *)
(***************************************************************************)
EXTENDS Integers, Sequences

CONSTANTS
    Clients,       \* the threads that call the fabric
    Operations,    \* the entry points they call
    MaxCalls,      \* bound on the calls of one client
    MaxQueueDepth, \* journal.max_queue_depth
    CompactAfter,  \* journal.compact_after_records, 0 to disable
    WriteFaults,   \* TRUE if the journal's writer may fail
    ServeOrder     \* TRUE if close waits for the clients, as lqf serve does

ASSUME FabricCallsAssumption ==
    /\ Operations \subseteq {"ingest", "declare", "query", "flush", "compact"}
    /\ MaxCalls \in Nat
    /\ MaxQueueDepth \in Nat \ {0}
    /\ CompactAfter \in Nat
    /\ WriteFaults \in BOOLEAN
    /\ ServeOrder \in BOOLEAN

VARIABLES
    pc,        \* where each client is
    calls,     \* the calls each client has made
    holder,    \* the thread that holds the state lock exclusively, or Nobody
    readers,   \* the threads that hold it shared
    open,      \* Fabric::open_
    journal,   \* the BackgroundJournal: held by the fabric, moved out by close, gone
    closer,    \* where the thread that closes the fabric is
    accepting, \* BackgroundJournal::accepting_
    failed,    \* BackgroundJournal::failed_
    queue,     \* the records queued for the writer
    written,   \* the records in the file
    since,     \* records_since_compaction_
    memory,    \* the entries of the state in memory
    journaled, \* the entries the journal ever took
    reported,  \* the entries whose call returned plain success
    degraded,  \* the entries whose call returned PersistenceDegraded
    refused,   \* the entries whose call returned an error
    fault      \* a null or destroyed journal was used

lockVars == <<holder, readers>>
journalVars == <<journal, accepting, failed, queue, written>>
outcomeVars == <<reported, degraded, refused>>
vars == <<pc, calls, holder, readers, open, journal, closer, accepting, failed, queue,
          written, since, memory, journaled, reported, degraded, refused, fault>>

Nobody == "nobody"
Closer == "closer"

\* The thread that closes is not one of the clients.
ASSUME ThreadAssumption == {Nobody, Closer} \intersect Clients = {}

Link(c) == [kind |-> "link", by |-> c, call |-> 0]
Evidence(c) == [kind |-> "evidence", by |-> c, call |-> calls[c]]
Declaration(c) == [kind |-> "capability", by |-> c, call |-> calls[c]]

Init ==
    /\ pc = [c \in Clients |-> "idle"]
    /\ calls = [c \in Clients |-> 0]
    /\ holder = Nobody /\ readers = {}
    /\ open = TRUE /\ journal = "held" /\ closer = "idle"
    /\ accepting = TRUE /\ failed = FALSE
    /\ queue = <<>> /\ written = {} /\ since = 0
    /\ memory = {} /\ journaled = {}
    /\ reported = {} /\ degraded = {} /\ refused = {}
    /\ fault = FALSE

-----------------------------------------------------------------------------
(* The state lock and the journal's admission *)

Goto(c, stage) == pc' = [pc EXCEPT ![c] = stage]

LockFree == holder = Nobody /\ readers = {}

\* Mutated form: a return that keeps the lock.
UnlockForgotten == UNCHANGED holder

Unlock == holder' = Nobody

HasCapacity == accepting /\ ~failed /\ Len(queue) < MaxQueueDepth

\* Mutated form: the status of the append is not looked at.
AppendAssumedOk == TRUE

\* journal_append: a fabric without a journal reports success.
AppendOk == journal # "held" \/ HasCapacity

JournalAppend(entry) ==
    IF journal = "held" /\ HasCapacity
    THEN /\ queue' = Append(queue, entry)
         /\ journaled' = journaled \union {entry}
         /\ since' = since + 1
    ELSE UNCHANGED <<queue, journaled, since>>

\* Mutated form: no probe.
ProbeSkipped == TRUE

\* The admission probe before the state changes.
Probe == journal # "held" \/ HasCapacity

-----------------------------------------------------------------------------
(* ingest *)

\* The check of open_ comes before the lock.
Begin(c, operation) ==
    /\ pc[c] = "idle"
    /\ calls[c] < MaxCalls
    /\ ServeOrder => closer = "idle"
    /\ calls' = [calls EXCEPT ![c] = @ + 1]
    /\ CASE operation = "ingest" -> Goto(c, IF open THEN "ingest:lock" ELSE "idle")
         [] operation = "declare" -> Goto(c, IF open THEN "declare:lock" ELSE "idle")
         [] operation = "query" -> Goto(c, "query:lock")
         [] operation = "flush" -> Goto(c, IF journal = "held" THEN "flush:call" ELSE "idle")
         [] operation = "compact" -> Goto(c, IF journal = "held" THEN "compact:lock" ELSE "idle")
    /\ UNCHANGED <<lockVars, open, journalVars, closer, since, memory, journaled, outcomeVars,
                   fault>>

Acquire(c, from, to) ==
    /\ pc[c] = from
    /\ LockFree
    /\ holder' = c
    /\ Goto(c, to)
    /\ UNCHANGED <<calls, readers, open, journalVars, closer, since, memory, journaled,
                   outcomeVars, fault>>

IngestProbe(c) ==
    /\ pc[c] = "ingest:probe"
    /\ IF Probe THEN /\ Goto(c, "ingest:link")
                     /\ UNCHANGED <<holder, refused>>
                ELSE /\ Goto(c, "idle")
                     /\ Unlock
                     /\ refused' = refused \union {Evidence(c)}
    /\ UNCHANGED <<calls, readers, open, journalVars, closer, since, memory, journaled,
                   reported, degraded, fault>>

\* The link is observed; a new one is journaled, and if that fails the call
\* ends with an error.
IngestLink(c) ==
    /\ pc[c] = "ingest:link"
    /\ memory' = memory \union {Link(c)}
    /\ IF Link(c) \in memory
       THEN /\ Goto(c, "ingest:evidence")
            /\ UNCHANGED <<holder, refused, queue, journaled, since>>
       ELSE /\ JournalAppend(Link(c))
            /\ IF AppendOk THEN /\ Goto(c, "ingest:evidence")
                                /\ UNCHANGED <<holder, refused>>
                           ELSE /\ Goto(c, "idle")
                                /\ Unlock
                                /\ refused' = refused \union {Link(c)}
    /\ UNCHANGED <<calls, readers, open, journal, accepting, failed, written, closer, reported,
                   degraded, fault>>

\* The state refuses what the journal would have taken: the call ends with an
\* error and without its entry.
StateRefuses(c, entry) ==
    /\ Goto(c, "idle")
    /\ Unlock
    /\ refused' = refused \union {entry}
    /\ UNCHANGED <<calls, readers, open, journalVars, closer, since, memory, journaled,
                   reported, degraded, fault>>

\* The observation is invalid or too old (tested before the probe), the
\* registry has no room for its link, or the store refuses it: then the link
\* was observed and journaled already, and stays.
IngestRefused(c) ==
    /\ pc[c] \in {"ingest:probe", "ingest:link", "ingest:evidence"}
    /\ StateRefuses(c, Evidence(c))

\* Only the success path ends with maybe_compact.
IngestEvidence(c) ==
    LET due == /\ journal = "held"
               /\ CompactAfter # 0
               /\ since + 1 >= CompactAfter
    IN  /\ pc[c] = "ingest:evidence"
        /\ memory' = memory \union {Evidence(c)}
        /\ JournalAppend(Evidence(c))
        /\ IF AppendOk
           THEN /\ reported' = reported \union {Evidence(c)}
                /\ UNCHANGED degraded
           ELSE /\ degraded' = degraded \union {Evidence(c)}
                /\ UNCHANGED reported
        /\ IF AppendOk /\ due
           THEN /\ Goto(c, "ingest:compact")
                /\ UNCHANGED holder
           ELSE /\ Goto(c, "idle")
                /\ Unlock
        /\ UNCHANGED <<calls, readers, open, journal, accepting, failed, written, closer,
                       refused, fault>>

-----------------------------------------------------------------------------
(* declare_capability: one record, and plain success in every case *)

DeclareProbe(c) ==
    /\ pc[c] = "declare:probe"
    /\ IF Probe THEN /\ Goto(c, "declare:apply")
                     /\ UNCHANGED <<holder, refused>>
                ELSE /\ Goto(c, "idle")
                     /\ Unlock
                     /\ refused' = refused \union {Declaration(c)}
    /\ UNCHANGED <<calls, readers, open, journalVars, closer, since, memory, journaled,
                   reported, degraded, fault>>

DeclareApply(c) ==
    /\ pc[c] = "declare:apply"
    /\ memory' = memory \union {Declaration(c)}
    /\ JournalAppend(Declaration(c))
    /\ reported' = reported \union {Declaration(c)}
    /\ Goto(c, "idle")
    /\ Unlock
    /\ UNCHANGED <<calls, readers, open, journal, accepting, failed, written, closer, degraded,
                   refused, fault>>

\* The registry refuses the declaration, behind the probe.
DeclareRefused(c) ==
    /\ pc[c] = "declare:apply"
    /\ StateRefuses(c, Declaration(c))

-----------------------------------------------------------------------------
(* query: the lock is taken shared *)

QueryLock(c) ==
    /\ pc[c] = "query:lock"
    /\ holder = Nobody
    /\ readers' = readers \union {c}
    /\ Goto(c, "query:read")
    /\ UNCHANGED <<calls, holder, open, journalVars, closer, since, memory, journaled,
                   outcomeVars, fault>>

QueryRead(c) ==
    /\ pc[c] = "query:read"
    /\ readers' = readers \ {c}
    /\ Goto(c, "idle")
    /\ UNCHANGED <<calls, holder, open, journalVars, closer, since, memory, journaled,
                   outcomeVars, fault>>

-----------------------------------------------------------------------------
(* flush and compact *)

\* journal_ is read again, without the lock, after the check.
FlushCall(c) ==
    /\ pc[c] = "flush:call"
    /\ IF journal = "held" THEN Goto(c, "flush:wait") /\ UNCHANGED fault
                           ELSE Goto(c, "idle") /\ fault' = TRUE
    /\ UNCHANGED <<calls, lockVars, open, journalVars, closer, since, memory, journaled,
                   outcomeVars>>

FlushWait(c) ==
    /\ pc[c] = "flush:wait"
    /\ queue = <<>> \/ failed \/ journal = "gone"
    /\ Goto(c, "idle")
    /\ fault' = (fault \/ journal = "gone")
    /\ UNCHANGED <<calls, lockVars, open, journalVars, closer, since, memory, journaled,
                   outcomeVars>>

\* BackgroundJournal::compact under the state lock: wait until the writer is
\* idle, replace the file by a snapshot of the state.
CompactRun(c, stage) ==
    /\ pc[c] = stage
    /\ IF journal # "held"
       THEN /\ fault' = TRUE
            /\ UNCHANGED <<written, since>>
       ELSE /\ queue = <<>> \/ failed
            /\ written' = IF failed THEN written ELSE memory
            /\ since' = IF failed THEN since ELSE 0
            /\ UNCHANGED fault
    /\ Goto(c, "idle")
    /\ Unlock
    /\ UNCHANGED <<calls, readers, open, journal, accepting, failed, queue, closer, memory,
                   journaled, outcomeVars>>

-----------------------------------------------------------------------------
(* close *)

\* lqf serve stops the server, which joins its connections, before it closes.
ClientsRetired == ServeOrder => \A c \in Clients : pc[c] = "idle"

CloseLock ==
    /\ closer = "idle"
    /\ ClientsRetired
    /\ LockFree
    /\ holder' = Closer
    /\ closer' = "locked"
    /\ UNCHANGED <<pc, calls, readers, open, journalVars, since, memory, journaled,
                   outcomeVars, fault>>

CloseMove ==
    /\ closer = "locked"
    /\ open' = FALSE
    /\ journal' = "moved"
    /\ Unlock
    /\ closer' = "stopping"
    /\ UNCHANGED <<pc, calls, readers, accepting, failed, queue, written, since, memory,
                   journaled, outcomeVars, fault>>

CloseStop ==
    /\ closer = "stopping"
    /\ accepting' = FALSE
    /\ closer' = "joining"
    /\ UNCHANGED <<pc, calls, lockVars, open, journal, failed, queue, written, since, memory,
                   journaled, outcomeVars, fault>>

\* Mutated form: the writer is not joined.
JoinedAtOnce == TRUE

\* The writer has drained the queue or failed.
WriterJoined == queue = <<>> \/ failed

\* The file is synced and closed and the journal destroyed.
CloseJoin ==
    /\ closer = "joining"
    /\ WriterJoined
    /\ journal' = "gone"
    /\ closer' = "done"
    /\ UNCHANGED <<pc, calls, lockVars, open, accepting, failed, queue, written, since, memory,
                   journaled, outcomeVars, fault>>

-----------------------------------------------------------------------------
(* The writer thread *)

WriterWrite ==
    /\ queue # <<>> /\ ~failed /\ journal # "gone"
    /\ queue' = Tail(queue)
    /\ written' = written \union {Head(queue)}
    /\ UNCHANGED <<pc, calls, lockVars, open, journal, closer, accepting, failed, since, memory,
                   journaled, outcomeVars, fault>>

WriterFail ==
    /\ WriteFaults
    /\ queue # <<>> /\ ~failed /\ journal # "gone"
    /\ failed' = TRUE
    /\ queue' = <<>>
    /\ UNCHANGED <<pc, calls, lockVars, open, journal, closer, accepting, written, since, memory,
                   journaled, outcomeVars, fault>>

-----------------------------------------------------------------------------
Step(c) ==
    \/ Acquire(c, "ingest:lock", "ingest:probe")
    \/ IngestProbe(c)
    \/ IngestLink(c)
    \/ IngestEvidence(c)
    \/ IngestRefused(c)
    \/ CompactRun(c, "ingest:compact")
    \/ Acquire(c, "declare:lock", "declare:probe")
    \/ DeclareProbe(c)
    \/ DeclareApply(c)
    \/ DeclareRefused(c)
    \/ QueryLock(c)
    \/ QueryRead(c)
    \/ FlushCall(c)
    \/ FlushWait(c)
    \/ Acquire(c, "compact:lock", "compact:run")
    \/ CompactRun(c, "compact:run")

Close == CloseLock \/ CloseMove \/ CloseStop \/ CloseJoin

Next ==
    \/ \E c \in Clients, operation \in Operations : Begin(c, operation)
    \/ \E c \in Clients : Step(c)
    \/ Close
    \/ WriterWrite
    \/ WriterFail

Spec == Init /\ [][Next]_vars

(***************************************************************************)
(* A thread inside a call goes on, a thread that wants the lock gets it    *)
(* eventually (the calls are bounded, so it is free from some point on),   *)
(* and the writer drains its queue.  Nobody has to call anything.          *)
(***************************************************************************)
Fairness ==
    /\ \A c \in Clients : WF_vars(Step(c))
    /\ WF_vars(CloseMove \/ CloseStop \/ CloseJoin)
    /\ WF_vars(WriterWrite)

FairSpec == Spec /\ Fairness

-----------------------------------------------------------------------------
(* Properties *)

\* Everything a call reported accepted before close returned is in the file
\* the next open recovers, unless the writer failed (then stop reports it);
\* and nobody goes through journal_ after close took it or destroyed it.
AcceptedIsDurableAfterClose ==
    /\ closer = "done" /\ ~failed => reported \subseteq written
    /\ ~fault

\* A call returns plain success only for what the journal took: as long as
\* the writer has not failed, neither a full queue nor a close hides behind
\* an acknowledgement (declare_capability, ingest).  A writer that fails
\* between the probe and the append does: declare_capability then returns
\* the acknowledgement of a durable declaration.  And whenever no thread holds
\* the state lock, what is in memory and was never journaled belongs to a call
\* that said so (PersistenceDegraded).
ReportsAreHonest ==
    ~failed => /\ reported \subseteq journaled
               /\ holder = Nobody => memory \subseteq journaled \union degraded

\* A call that returned an error left nothing of its entry in memory: while
\* the writer works, the probe under the state lock cannot be overtaken
\* (has_capacity).  What the store refuses may leave its link behind, which
\* is an entry of its own (fabric.cpp:698-701).
RefusedLeavesNoTrace == ~failed => refused \intersect memory = {}

\* Every call returns and a close that began ends, whatever the others do
\* and even when the writer fails: nobody waits for ever for the state lock,
\* for an empty queue or for the writer.
EveryCallReturns ==
    /\ \A c \in Clients : pc[c] # "idle" ~> pc[c] = "idle"
    /\ closer = "locked" ~> closer = "done"
=============================================================================
