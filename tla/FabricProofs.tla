----------------------------- MODULE FabricProofs -----------------------------
(***************************************************************************)
(* Proofs about Fabric, for every set of clients, every mix of entry       *)
(* points, number of calls, queue depth and compaction threshold, with and *)
(* without a writer that fails.  What a call reports is proved for the     *)
(* order of lqf serve, which stops its clients before it closes the        *)
(* fabric; that a refusal leaves no trace is proved for every order.       *)
(***************************************************************************)
EXTENDS Fabric, TLAPS

Stages == {"idle", "ingest:lock", "ingest:probe", "ingest:link", "ingest:evidence",
           "ingest:compact", "declare:lock", "declare:probe", "declare:apply",
           "query:lock", "query:read", "flush:call", "flush:wait", "compact:lock",
           "compact:run"}

\* The stages under the state lock.
Exclusive == {"ingest:probe", "ingest:link", "ingest:evidence", "ingest:compact",
              "declare:probe", "declare:apply", "compact:run"}

\* The stages of a call before its entry is applied or refused.
BeforeEvidence == {"ingest:lock", "ingest:probe", "ingest:link", "ingest:evidence"}
BeforeDeclaration == {"declare:lock", "declare:probe", "declare:apply"}

Entries == [kind : {"link", "evidence", "capability"}, by : Clients, call : Nat]

TypeOK ==
    /\ pc \in [Clients -> Stages]
    /\ calls \in [Clients -> Nat]
    /\ holder \in Clients \union {Nobody, Closer}
    /\ closer \in {"idle", "locked", "stopping", "joining", "done"}
    /\ journal \in {"held", "moved", "gone"}
    /\ queue \in Seq(Entries)
    /\ since \in Nat
    /\ memory \subseteq Entries /\ refused \subseteq Entries
    /\ accepting \in BOOLEAN /\ failed \in BOOLEAN

\* The state lock: who is past it holds it, and nobody else.
LockInv ==
    /\ \A c \in Clients : pc[c] \in Exclusive <=> holder = c
    /\ closer = "locked" <=> holder = Closer
    /\ journal = "held" <=> closer \in {"idle", "locked"}
    /\ journal = "held" => accepting

\* Entries are numbered by the calls that make them, and the entry of a call
\* under way is neither applied nor refused yet.
NumberInv ==
    /\ \A e \in memory \union refused : e.call <= calls[e.by]
    /\ \A c \in Clients :
           /\ pc[c] \in BeforeEvidence => Evidence(c) \notin memory \union refused
           /\ pc[c] \in BeforeDeclaration => Declaration(c) \notin memory \union refused

\* What the probe found still holds when the state changes.
ProbeInv ==
    ~failed => /\ \A c \in Clients : pc[c] \in {"ingest:link", "declare:apply"} => AppendOk
               /\ \A c \in Clients : Link(c) \notin refused
               /\ refused \intersect memory = {}

TraceInv == TypeOK /\ LockInv /\ NumberInv /\ ProbeInv

\* The records that wait for the writer.
Queued == {queue[i] : i \in 1..Len(queue)}

\* Under the order of lqf serve: no client is inside a call once close has
\* begun, memory and journal agree but for what was reported degraded, and
\* what the journal took is in the file or on its way.
HonestInv ==
    /\ closer # "idle" => \A c \in Clients : pc[c] = "idle"
    /\ closer = "done" => queue = <<>> \/ failed
    /\ journaled \subseteq memory
    /\ ~fault
    /\ ~failed => /\ reported \subseteq journaled
                  /\ memory \subseteq journaled \union degraded
                  /\ journaled \subseteq written \union Queued
-----------------------------------------------------------------------------
(***************************************************************************)
(* Types.                                                                  *)
(***************************************************************************)
LEMMA EntryTyped ==
  ASSUME TypeOK, NEW c \in Clients
  PROVE  Link(c) \in Entries /\ Evidence(c) \in Entries /\ Declaration(c) \in Entries
  BY DEF TypeOK, Entries, Link, Evidence, Declaration

LEMMA AppendTyped ==
  ASSUME TypeOK, NEW e \in Entries, JournalAppend(e)
  PROVE  queue' \in Seq(Entries) /\ since' \in Nat
<1>1. queue \in Seq(Entries) /\ since \in Nat
  BY DEF TypeOK
<1>2. CASE journal = "held" /\ HasCapacity
  BY <1>1, <1>2 DEF JournalAppend
<1>3. CASE ~(journal = "held" /\ HasCapacity)
  BY <1>1, <1>3 DEF JournalAppend
<1> QED
  BY <1>2, <1>3

LEMMA NextType == TypeOK /\ [Next]_vars => TypeOK'
<1> SUFFICES ASSUME TypeOK, [Next]_vars PROVE TypeOK'
  OBVIOUS
<1> USE DEF lockVars, journalVars, outcomeVars
<1>1. ASSUME NEW c \in Clients, NEW operation \in Operations, Begin(c, operation)
      PROVE  TypeOK'
  <2>1. pc' \in [Clients -> Stages]
    BY <1>1, FabricCallsAssumption DEF TypeOK, Begin, Goto, Stages
  <2>2. calls' \in [Clients -> Nat]
    BY <1>1 DEF TypeOK, Begin
  <2>3. UNCHANGED <<holder, closer, journal, queue, since, memory, refused, accepting, failed>>
    BY <1>1 DEF Begin
  <2> QED
    BY <2>1, <2>2, <2>3 DEF TypeOK
<1>2. ASSUME NEW c \in Clients, NEW from, NEW to \in Stages, Acquire(c, from, to)
      PROVE  TypeOK'
  BY <1>2 DEF TypeOK, Acquire, Goto
<1>3. ASSUME NEW c \in Clients, IngestProbe(c) \/ DeclareProbe(c)
      PROVE  TypeOK'
  BY <1>3, EntryTyped, SMTT(30) DEF TypeOK, IngestProbe, DeclareProbe, Goto, Unlock, Stages
<1>4. ASSUME NEW c \in Clients, IngestLink(c)
      PROVE  TypeOK'
  <2>1. queue' \in Seq(Entries) /\ since' \in Nat
    BY <1>4, EntryTyped, AppendTyped DEF IngestLink, TypeOK
  <2> QED
    BY <1>4, <2>1, EntryTyped DEF TypeOK, IngestLink, Goto, Unlock, Stages
<1>5. ASSUME NEW c \in Clients, IngestEvidence(c)
      PROVE  TypeOK'
  <2>1. queue' \in Seq(Entries) /\ since' \in Nat
    BY <1>5, EntryTyped, AppendTyped DEF IngestEvidence
  <2> QED
    BY <1>5, <2>1, EntryTyped DEF TypeOK, IngestEvidence, Goto, Unlock, Stages
<1>6. ASSUME NEW c \in Clients, DeclareApply(c)
      PROVE  TypeOK'
  <2>1. queue' \in Seq(Entries) /\ since' \in Nat
    BY <1>6, EntryTyped, AppendTyped DEF DeclareApply
  <2> QED
    BY <1>6, <2>1, EntryTyped DEF TypeOK, DeclareApply, Goto, Unlock, Stages
<1>7. ASSUME NEW c \in Clients, QueryLock(c) \/ QueryRead(c) \/ FlushCall(c) \/ FlushWait(c)
      PROVE  TypeOK'
  BY <1>7 DEF TypeOK, QueryLock, QueryRead, FlushCall, FlushWait, Goto, Stages
<1>8. ASSUME NEW c \in Clients, NEW stage, CompactRun(c, stage)
      PROVE  TypeOK'
  BY <1>8 DEF TypeOK, CompactRun, Goto, Unlock, Stages
<1>9. CASE Close
  BY <1>9 DEF TypeOK, Close, CloseLock, CloseMove, CloseStop, CloseJoin, Unlock
<1>10. CASE WriterWrite \/ WriterFail
  <2>0. failed' \in BOOLEAN
    BY <1>10, Zenon DEF TypeOK, WriterWrite, WriterFail
  <2>1. queue' \in Seq(Entries)
    <3>1. queue \in Seq(Entries) /\ queue # <<>>
      BY <1>10 DEF TypeOK, WriterWrite, WriterFail
    <3>2. queue' = Tail(queue) \/ queue' = <<>>
      BY <1>10 DEF WriterWrite, WriterFail
    <3>3. Tail(queue) \in Seq(Entries)
      BY <3>1
    <3>4. <<>> \in Seq(Entries)
      OBVIOUS
    <3> QED
      BY <3>2, <3>3, <3>4
  <2>2. UNCHANGED <<pc, calls, holder, closer, journal, since, memory, refused, accepting>>
    BY <1>10 DEF WriterWrite, WriterFail
  <2> QED
    BY <2>0, <2>1, <2>2 DEF TypeOK
<1>11. CASE UNCHANGED vars
  BY <1>11 DEF TypeOK, vars
<1>12. ASSUME NEW c \in Clients, IngestRefused(c) \/ DeclareRefused(c)
       PROVE  TypeOK'
  BY <1>12, EntryTyped
     DEF TypeOK, IngestRefused, DeclareRefused, StateRefuses, Goto, Unlock, Stages
<1> QED
  BY <1>1, <1>2, <1>3, <1>4, <1>5, <1>6, <1>7, <1>8, <1>9, <1>10, <1>11, <1>12
     DEF Next, Step, Stages
-----------------------------------------------------------------------------
(***************************************************************************)
(* The state lock excludes.                                                *)
(***************************************************************************)
LEMMA NextLock == TypeOK /\ LockInv /\ [Next]_vars => LockInv'
<1> SUFFICES ASSUME TypeOK, LockInv, [Next]_vars PROVE LockInv'
  OBVIOUS
<1>0. Nobody \notin Clients /\ Closer \notin Clients /\ Nobody # Closer
  BY ThreadAssumption DEF Nobody, Closer
<1> USE DEF lockVars, journalVars, outcomeVars
<1>1. ASSUME NEW c \in Clients, NEW operation \in Operations, Begin(c, operation)
      PROVE  LockInv'
  <2>1. \A d \in Clients : pc'[d] \in Exclusive <=> pc[d] \in Exclusive
    BY <1>1, FabricCallsAssumption DEF TypeOK, Begin, Goto, Exclusive
  <2> QED
    BY <1>1, <2>1 DEF LockInv, Begin
<1>2. ASSUME NEW c \in Clients, NEW from, NEW to \in Exclusive, Acquire(c, from, to)
      PROVE  LockInv'
  BY <1>0, <1>2 DEF LockInv, TypeOK, Acquire, Goto, LockFree
<1>3. ASSUME NEW c \in Clients,
             IngestProbe(c) \/ DeclareProbe(c) \/ IngestLink(c) \/ IngestEvidence(c)
               \/ DeclareApply(c) \/ IngestRefused(c) \/ DeclareRefused(c)
      PROVE  LockInv'
  <2>1. holder = c
    BY <1>3 DEF LockInv, Exclusive, IngestProbe, DeclareProbe, IngestLink, IngestEvidence,
       DeclareApply, IngestRefused, DeclareRefused
  <2>2. \/ pc' = [pc EXCEPT ![c] = "idle"] /\ holder' = Nobody
        \/ \E to \in Exclusive : pc' = [pc EXCEPT ![c] = to] /\ holder' = holder
    BY <1>3 DEF IngestProbe, DeclareProbe, IngestLink, IngestEvidence, DeclareApply,
       IngestRefused, DeclareRefused, StateRefuses, Goto, Unlock, Exclusive
  <2>3. UNCHANGED <<closer, journal, accepting>>
    BY <1>3 DEF IngestProbe, DeclareProbe, IngestLink, IngestEvidence, DeclareApply,
       IngestRefused, DeclareRefused, StateRefuses
  <2> QED
    BY <1>0, <2>1, <2>2, <2>3 DEF LockInv, TypeOK, Exclusive
<1>4. ASSUME NEW c \in Clients, QueryLock(c) \/ QueryRead(c) \/ FlushCall(c) \/ FlushWait(c)
      PROVE  LockInv'
  BY <1>4 DEF LockInv, TypeOK, QueryLock, QueryRead, FlushCall, FlushWait, Goto, Exclusive
<1>5. ASSUME NEW c \in Clients, NEW stage \in Exclusive, CompactRun(c, stage)
      PROVE  LockInv'
  <2>1. holder = c
    BY <1>5 DEF LockInv, CompactRun
  <2> QED
    BY <1>0, <1>5, <2>1 DEF LockInv, TypeOK, CompactRun, Goto, Unlock, Exclusive
<1>6. CASE Close
  BY <1>0, <1>6
     DEF LockInv, TypeOK, Close, CloseLock, CloseMove, CloseStop, CloseJoin, LockFree, Unlock
<1>7. CASE WriterWrite \/ WriterFail \/ UNCHANGED vars
  BY <1>7 DEF LockInv, WriterWrite, WriterFail, vars
<1> QED
  BY <1>1, <1>2, <1>3, <1>4, <1>5, <1>6, <1>7 DEF Next, Step, Exclusive
-----------------------------------------------------------------------------
(***************************************************************************)
(* Entries are fresh when they are made.                                   *)
(***************************************************************************)
LEMMA EntriesDistinct ==
  ASSUME NEW c \in Clients, NEW d \in Clients
  PROVE  /\ Evidence(c) = Evidence(d) => c = d
         /\ Declaration(c) = Declaration(d) => c = d
         /\ Link(c) = Link(d) => c = d
         /\ Evidence(c) # Declaration(d) /\ Evidence(c) # Link(d) /\ Declaration(c) # Link(d)
  BY DEF Evidence, Declaration, Link

\* A step that adds at most one entry of c, and ends c's part in it.
LEMMA NumberStep ==
  ASSUME TypeOK, NumberInv, NEW c \in Clients, NEW e \in {Link(c), Evidence(c), Declaration(c)},
         NEW to \in Stages,
         pc' = [pc EXCEPT ![c] = to], calls' = calls,
         memory' \union refused' \subseteq memory \union refused \union {e},
         to \in BeforeEvidence => pc[c] \in BeforeEvidence /\ e # Evidence(c),
         to \in BeforeDeclaration => pc[c] \in BeforeDeclaration /\ e # Declaration(c)
  PROVE  NumberInv'
<1>1. \A d \in Clients : Evidence(d)' = Evidence(d) /\ Declaration(d)' = Declaration(d)
  BY DEF Evidence, Declaration
<1>2. e.by = c /\ e.call <= calls[c]
  BY DEF TypeOK, Link, Evidence, Declaration
<1>3. \A x \in memory' \union refused' : x.call <= calls'[x.by]
  BY <1>2 DEF NumberInv
<1>4. ASSUME NEW d \in Clients
      PROVE  /\ pc'[d] \in BeforeEvidence => Evidence(d) \notin memory' \union refused'
             /\ pc'[d] \in BeforeDeclaration => Declaration(d) \notin memory' \union refused'
  <2>1. CASE d = c
    BY <2>1 DEF NumberInv, TypeOK
  <2>2. CASE d # c
    <3>1. Evidence(d) # e /\ Declaration(d) # e
      BY <2>2 DEF Link, Evidence, Declaration
    <3> QED
      BY <2>2, <3>1 DEF NumberInv, TypeOK
  <2> QED
    BY <2>1, <2>2
<1> QED
  BY <1>1, <1>3, <1>4 DEF NumberInv

LEMMA NextNumber == TypeOK /\ NumberInv /\ [Next]_vars => NumberInv'
<1> SUFFICES ASSUME TypeOK, NumberInv, [Next]_vars PROVE NumberInv'
  OBVIOUS
<1> USE DEF lockVars, journalVars, outcomeVars
<1>1. ASSUME NEW c \in Clients, NEW operation \in Operations, Begin(c, operation)
      PROVE  NumberInv'
  <2>1. /\ calls' = [calls EXCEPT ![c] = @ + 1] /\ calls[c] \in Nat
        /\ memory' = memory /\ refused' = refused
    BY <1>1 DEF Begin, TypeOK
  <2>2. \A d \in Clients : d # c => pc'[d] = pc[d]
    BY <1>1, FabricCallsAssumption DEF Begin, Goto, TypeOK
  <2>3. \A e \in memory \union refused : e.by \in Clients /\ e.call \in Nat
    BY DEF TypeOK, Entries
  <2>4. \A e \in memory \union refused : e.call <= calls'[e.by]
    BY <2>1, <2>3 DEF NumberInv, TypeOK
  <2>5. Evidence(c)' \notin memory \union refused /\ Declaration(c)' \notin memory \union refused
    <3>1. \A e \in memory \union refused : e.by = c => e.call # calls[c] + 1
      BY <2>1, <2>3 DEF NumberInv
    <3> QED
      BY <2>1, <3>1 DEF Evidence, Declaration, TypeOK
  <2>6. \A d \in Clients : d # c => Evidence(d)' = Evidence(d) /\ Declaration(d)' = Declaration(d)
    BY <2>1 DEF Evidence, Declaration, TypeOK
  <2> QED
    BY <2>1, <2>2, <2>4, <2>5, <2>6 DEF NumberInv
<1>2. ASSUME NEW c \in Clients,
             \/ Acquire(c, "ingest:lock", "ingest:probe")
             \/ Acquire(c, "declare:lock", "declare:probe")
             \/ Acquire(c, "compact:lock", "compact:run")
      PROVE  NumberInv'
  <2>1. PICK to \in Stages :
          /\ pc' = [pc EXCEPT ![c] = to]
          /\ to \in BeforeEvidence => pc[c] \in BeforeEvidence
          /\ to \in BeforeDeclaration => pc[c] \in BeforeDeclaration
    BY <1>2 DEF Acquire, Goto, Stages, BeforeEvidence, BeforeDeclaration
  <2>2. UNCHANGED <<calls, memory, refused>>
    BY <1>2 DEF Acquire
  <2> QED
    BY <2>1, <2>2, NumberStep, EntriesDistinct
<1>3. ASSUME NEW c \in Clients, IngestProbe(c)
      PROVE  NumberInv'
  <2>1. CASE Probe
    BY <1>3, <2>1, NumberStep, EntriesDistinct
       DEF IngestProbe, Goto, Stages, BeforeEvidence, BeforeDeclaration
  <2>2. CASE ~Probe
    BY <1>3, <2>2, NumberStep
       DEF IngestProbe, Goto, Stages, BeforeEvidence, BeforeDeclaration
  <2> QED
    BY <2>1, <2>2
<1>4. ASSUME NEW c \in Clients, DeclareProbe(c)
      PROVE  NumberInv'
  <2>1. CASE Probe
    BY <1>4, <2>1, NumberStep, EntriesDistinct
       DEF DeclareProbe, Goto, Stages, BeforeEvidence, BeforeDeclaration
  <2>2. CASE ~Probe
    BY <1>4, <2>2, NumberStep
       DEF DeclareProbe, Goto, Stages, BeforeEvidence, BeforeDeclaration
  <2> QED
    BY <2>1, <2>2
<1>5. ASSUME NEW c \in Clients, IngestLink(c)
      PROVE  NumberInv'
  <2>1. PICK to \in {"ingest:evidence", "idle"} : pc' = [pc EXCEPT ![c] = to]
    BY <1>5 DEF IngestLink, Goto
  <2>2. /\ calls' = calls /\ pc[c] = "ingest:link"
        /\ memory' \union refused' \subseteq memory \union refused \union {Link(c)}
    BY <1>5 DEF IngestLink
  <2> QED
    BY <2>1, <2>2, NumberStep, EntriesDistinct DEF Stages, BeforeEvidence, BeforeDeclaration
<1>6. ASSUME NEW c \in Clients, IngestEvidence(c)
      PROVE  NumberInv'
  <2>1. PICK to \in {"ingest:compact", "idle"} : pc' = [pc EXCEPT ![c] = to]
    BY <1>6 DEF IngestEvidence, Goto
  <2>2. /\ calls' = calls
        /\ memory' \union refused' \subseteq memory \union refused \union {Evidence(c)}
    BY <1>6 DEF IngestEvidence
  <2> QED
    BY <2>1, <2>2, NumberStep DEF Stages, BeforeEvidence, BeforeDeclaration
<1>7. ASSUME NEW c \in Clients, DeclareApply(c)
      PROVE  NumberInv'
  BY <1>7, NumberStep DEF DeclareApply, Goto, Stages, BeforeEvidence, BeforeDeclaration
<1>8. ASSUME NEW c \in Clients, NEW stage,
             \/ QueryLock(c) \/ QueryRead(c) \/ FlushCall(c) \/ FlushWait(c)
             \/ CompactRun(c, stage)
      PROVE  NumberInv'
  <2>1. PICK to \in {"query:read", "flush:wait", "idle"} : pc' = [pc EXCEPT ![c] = to]
    BY <1>8 DEF QueryLock, QueryRead, FlushCall, FlushWait, CompactRun, Goto
  <2>2. UNCHANGED <<calls, memory, refused>>
    BY <1>8 DEF QueryLock, QueryRead, FlushCall, FlushWait, CompactRun
  <2> QED
    BY <2>1, <2>2, NumberStep DEF Stages, BeforeEvidence, BeforeDeclaration
<1>9. CASE Close \/ WriterWrite \/ WriterFail \/ UNCHANGED vars
  <2>1. UNCHANGED <<pc, calls, memory, refused>>
    BY <1>9 DEF Close, CloseLock, CloseMove, CloseStop, CloseJoin, WriterWrite, WriterFail, vars
  <2> QED
    BY <2>1 DEF NumberInv, Evidence, Declaration
<1>10. ASSUME NEW c \in Clients, IngestRefused(c) \/ DeclareRefused(c)
       PROVE  NumberInv'
  <2>1. PICK e \in {Evidence(c), Declaration(c)} : refused' = refused \union {e}
    BY <1>10 DEF IngestRefused, DeclareRefused, StateRefuses
  <2>2. /\ calls' = calls /\ memory' = memory
        /\ pc' = [pc EXCEPT ![c] = "idle"]
    BY <1>10 DEF IngestRefused, DeclareRefused, StateRefuses, Goto
  <2> QED
    BY <2>1, <2>2, NumberStep DEF Stages, BeforeEvidence, BeforeDeclaration
<1> QED
  BY <1>1, <1>2, <1>3, <1>4, <1>5, <1>6, <1>7, <1>8, <1>9, <1>10 DEF Next, Step
-----------------------------------------------------------------------------
(***************************************************************************)
(* The probe is not overtaken.                                             *)
(***************************************************************************)
\* A step that keeps the journal's admission and brings nobody past a probe.
LEMMA ProbeStep ==
  ASSUME ProbeInv, UNCHANGED <<journal, accepting, failed, queue, refused>>,
         memory' = memory,
         \A c \in Clients : pc'[c] \in {"ingest:link", "declare:apply"} => pc'[c] = pc[c]
  PROVE  ProbeInv'
  BY DEF ProbeInv, AppendOk, HasCapacity, Link

\* A step that refuses an entry which is not in memory.
LEMMA RefuseStep ==
  ASSUME ProbeInv, UNCHANGED <<journal, accepting, failed, queue, memory>>,
         NEW c \in Clients, NEW e \in {Evidence(c), Declaration(c)},
         refused' = refused \union {e}, e \notin memory,
         \A d \in Clients : pc'[d] \in {"ingest:link", "declare:apply"} => pc'[d] = pc[d]
  PROVE  ProbeInv'
<1>1. \A d \in Clients : Link(d)' = Link(d) /\ Link(d) # e
  BY EntriesDistinct DEF Link
<1>2. AppendOk' <=> AppendOk
  BY DEF AppendOk, HasCapacity
<1> QED
  BY <1>1, <1>2 DEF ProbeInv

\* A step under the state lock after which nobody is between probe and append.
LEMMA ApplyStep ==
  ASSUME TypeOK, LockInv, ProbeInv, NEW c \in Clients, NEW to \in Stages,
         NEW e \in {Link(c), Evidence(c), Declaration(c)},
         pc[c] \in Exclusive,
         pc' = [pc EXCEPT ![c] = to], to \notin {"ingest:link", "declare:apply"},
         memory' = memory \union {e}, failed' = failed,
         ~failed => refused' = refused /\ e \notin refused
  PROVE  ProbeInv'
<1>1. \A d \in Clients : d # c => pc[d] \notin {"ingest:link", "declare:apply"}
  BY DEF LockInv, Exclusive
<1>2. \A d \in Clients : pc'[d] \notin {"ingest:link", "declare:apply"}
  BY <1>1 DEF TypeOK
<1>3. \A d \in Clients : Link(d)' = Link(d)
  BY DEF Link
<1> QED
  BY <1>2, <1>3 DEF ProbeInv

LEMMA NextProbe == TraceInv /\ [Next]_vars => ProbeInv'
<1> SUFFICES ASSUME TraceInv, [Next]_vars PROVE ProbeInv'
  OBVIOUS
<1>0. TypeOK /\ LockInv /\ NumberInv /\ ProbeInv
  BY DEF TraceInv
<1> USE DEF lockVars, journalVars, outcomeVars
<1>1. ASSUME NEW c \in Clients, NEW operation \in Operations, Begin(c, operation)
      PROVE  ProbeInv'
  <2>1. \A d \in Clients : pc'[d] \in {"ingest:link", "declare:apply"} => pc'[d] = pc[d]
    BY <1>0, <1>1, FabricCallsAssumption DEF TypeOK, Begin, Goto
  <2> QED
    BY <1>0, <1>1, <2>1, ProbeStep DEF Begin
<1>2. ASSUME NEW c \in Clients, NEW from, NEW to \in {"ingest:probe", "declare:probe", "compact:run"},
             Acquire(c, from, to)
      PROVE  ProbeInv'
  <2>1. \A d \in Clients : pc'[d] \in {"ingest:link", "declare:apply"} => pc'[d] = pc[d]
    BY <1>0, <1>2 DEF TypeOK, Acquire, Goto
  <2> QED
    BY <1>0, <1>2, <2>1, ProbeStep DEF Acquire
<1>3. ASSUME NEW c \in Clients, IngestProbe(c) \/ DeclareProbe(c)
      PROVE  ProbeInv'
  <2>1. UNCHANGED <<journal, accepting, failed, queue, memory>>
    BY <1>3 DEF IngestProbe, DeclareProbe
  <2>2. CASE Probe
    <3>1. AppendOk' /\ refused' = refused
      BY <1>3, <2>1, <2>2 DEF Probe, AppendOk, HasCapacity, IngestProbe, DeclareProbe
    <3> QED
      BY <1>0, <2>1, <3>1 DEF ProbeInv, Link
  <2>3. CASE ~Probe
    <3>1. PICK e \in {Evidence(c), Declaration(c)} : refused' = refused \union {e} /\ e \notin memory
      BY <1>0, <1>3, <2>3 DEF IngestProbe, DeclareProbe, NumberInv, BeforeEvidence,
         BeforeDeclaration
    <3>2. \A d \in Clients : pc'[d] \in {"ingest:link", "declare:apply"} => pc'[d] = pc[d]
      BY <1>0, <1>3, <2>3 DEF IngestProbe, DeclareProbe, Goto, TypeOK
    <3> QED
      BY <1>0, <2>1, <3>1, <3>2, RefuseStep
  <2> QED
    BY <2>2, <2>3
<1>4. ASSUME NEW c \in Clients, IngestLink(c)
      PROVE  ProbeInv'
  <2>1. PICK to \in {"ingest:evidence", "idle"} : pc' = [pc EXCEPT ![c] = to]
    BY <1>4 DEF IngestLink, Goto
  <2>2. /\ pc[c] = "ingest:link" /\ failed' = failed
        /\ memory' = memory \union {Link(c)}
        /\ AppendOk => refused' = refused
    BY <1>4 DEF IngestLink
  <2>3. ~failed => AppendOk /\ Link(c) \notin refused
    BY <1>0, <2>2 DEF ProbeInv
  <2> QED
    BY <1>0, <2>1, <2>2, <2>3, ApplyStep DEF Stages, Exclusive
<1>5. ASSUME NEW c \in Clients, IngestEvidence(c)
      PROVE  ProbeInv'
  <2>1. PICK to \in {"ingest:compact", "idle"} : pc' = [pc EXCEPT ![c] = to]
    BY <1>5 DEF IngestEvidence, Goto
  <2>2. /\ pc[c] = "ingest:evidence" /\ failed' = failed /\ refused' = refused
        /\ memory' = memory \union {Evidence(c)}
    BY <1>5 DEF IngestEvidence
  <2>3. Evidence(c) \notin refused
    BY <1>0, <2>2 DEF NumberInv, BeforeEvidence
  <2> QED
    BY <1>0, <2>1, <2>2, <2>3, ApplyStep DEF Stages, Exclusive
<1>6. ASSUME NEW c \in Clients, DeclareApply(c)
      PROVE  ProbeInv'
  <2>1. Declaration(c) \notin refused
    BY <1>0, <1>6 DEF DeclareApply, NumberInv, BeforeDeclaration
  <2> QED
    BY <1>0, <1>6, <2>1, ApplyStep DEF DeclareApply, Goto, Stages, Exclusive
<1>7. ASSUME NEW c \in Clients, NEW stage,
             \/ QueryLock(c) \/ QueryRead(c) \/ FlushCall(c) \/ FlushWait(c)
             \/ CompactRun(c, stage)
      PROVE  ProbeInv'
  <2>1. PICK to \in {"query:read", "flush:wait", "idle"} : pc' = [pc EXCEPT ![c] = to]
    BY <1>7 DEF QueryLock, QueryRead, FlushCall, FlushWait, CompactRun, Goto
  <2>2. UNCHANGED <<journal, accepting, failed, queue, memory, refused>>
    BY <1>7 DEF QueryLock, QueryRead, FlushCall, FlushWait, CompactRun
  <2> QED
    BY <1>0, <2>1, <2>2, ProbeStep DEF TypeOK
<1>8. CASE Close
  <2>1. /\ UNCHANGED <<pc, failed, memory, refused, queue>>
        /\ AppendOk => AppendOk'
    BY <1>0, <1>8 DEF Close, CloseLock, CloseMove, CloseStop, CloseJoin, AppendOk, HasCapacity,
       LockInv
  <2> QED
    BY <1>0, <2>1 DEF ProbeInv, Link
<1>9. CASE WriterWrite
  <2>1. UNCHANGED <<pc, failed, memory, refused, journal, accepting>> /\ queue' = Tail(queue)
    BY <1>9 DEF WriterWrite
  <2>2. queue \in Seq(Entries) /\ queue # <<>>
    BY <1>0, <1>9 DEF TypeOK, WriterWrite
  <2>3. Len(queue') = Len(queue) - 1 /\ Len(queue) \in Nat
    BY <2>1, <2>2
  <2>4. AppendOk => AppendOk'
    BY <2>1, <2>3, FabricCallsAssumption DEF AppendOk, HasCapacity
  <2> QED
    BY <1>0, <2>1, <2>4 DEF ProbeInv, Link
<1>10. CASE WriterFail
  BY <1>10 DEF WriterFail, ProbeInv
<1>11. CASE UNCHANGED vars
  BY <1>0, <1>11, ProbeStep DEF vars
<1>12. ASSUME NEW c \in Clients, IngestRefused(c) \/ DeclareRefused(c)
       PROVE  ProbeInv'
  <2>1. PICK e \in {Evidence(c), Declaration(c)} : refused' = refused \union {e} /\ e \notin memory
    BY <1>0, <1>12 DEF IngestRefused, DeclareRefused, StateRefuses, NumberInv, BeforeEvidence,
       BeforeDeclaration
  <2>2. \A d \in Clients : pc'[d] \in {"ingest:link", "declare:apply"} => pc'[d] = pc[d]
    BY <1>0, <1>12 DEF IngestRefused, DeclareRefused, StateRefuses, Goto, TypeOK
  <2>3. UNCHANGED <<journal, accepting, failed, queue, memory>>
    BY <1>12 DEF IngestRefused, DeclareRefused, StateRefuses
  <2> QED
    BY <1>0, <2>1, <2>2, <2>3, RefuseStep
<1> QED
  BY <1>1, <1>2, <1>3, <1>4, <1>5, <1>6, <1>7, <1>8, <1>9, <1>10, <1>11, <1>12 DEF Next, Step

LEMMA InitTrace == Init => TraceInv
<1> SUFFICES ASSUME Init PROVE TraceInv
  OBVIOUS
<1>1. TypeOK
  <2>1. pc \in [Clients -> Stages] /\ calls \in [Clients -> Nat]
    BY DEF Init, Stages
  <2>2. queue \in Seq(Entries)
    BY DEF Init
  <2> QED
    BY <2>1, <2>2 DEF Init, TypeOK
<1>2. LockInv
  BY ThreadAssumption DEF Init, LockInv, Exclusive, Nobody, Closer
<1>3. NumberInv /\ ProbeInv
  BY DEF Init, NumberInv, ProbeInv, BeforeEvidence, BeforeDeclaration
<1> QED
  BY <1>1, <1>2, <1>3 DEF TraceInv

LEMMA NextTrace == TraceInv /\ [Next]_vars => TraceInv'
  BY NextType, NextLock, NextNumber, NextProbe DEF TraceInv

\* Whatever the order of calls and of close, as long as the writer works: a
\* call that the admission probe of ingest or declare_capability lets through
\* is not refused by the journal afterwards, so an error return leaves nothing
\* of the refused entry in memory.
THEOREM RefusalsLeaveNoTrace == Spec => []RefusedLeavesNoTrace
<1>1. Init => TraceInv
  BY InitTrace
<1>2. TraceInv /\ [Next]_vars => TraceInv'
  BY NextTrace
<1>3. TraceInv => RefusedLeavesNoTrace
  BY DEF TraceInv, ProbeInv, RefusedLeavesNoTrace
<1> QED
  BY <1>1, <1>2, <1>3, PTL DEF Spec
-----------------------------------------------------------------------------
(***************************************************************************)
(* What is reported is journaled, and what is journaled reaches the file.  *)
(***************************************************************************)
LEMMA QueuedAppend ==
  ASSUME TypeOK, NEW e \in Entries, queue' = Append(queue, e)
  PROVE  Queued' = Queued \union {e}
<1>1. queue \in Seq(Entries) /\ Len(queue) \in Nat
  BY DEF TypeOK
<1>2. /\ Len(queue') = Len(queue) + 1
      /\ \A i \in 1..Len(queue) : queue'[i] = queue[i]
      /\ queue'[Len(queue) + 1] = e
  BY <1>1
<1> QED
  BY <1>1, <1>2 DEF Queued

LEMMA QueuedTail ==
  ASSUME TypeOK, queue # <<>>, queue' = Tail(queue)
  PROVE  Queued \subseteq Queued' \union {Head(queue)}
<1>1. queue \in Seq(Entries) /\ Len(queue) \in Nat \ {0}
  BY DEF TypeOK
<1>2. /\ Len(queue') = Len(queue) - 1
      /\ \A i \in 1..Len(queue) - 1 : queue'[i] = queue[i + 1]
      /\ Head(queue) = queue[1]
  BY <1>1
<1>3. ASSUME NEW i \in 1..Len(queue) PROVE queue[i] \in Queued' \union {Head(queue)}
  <2>1. CASE i = 1
    BY <1>2, <2>1
  <2>2. CASE i # 1
    <3>1. i - 1 \in 1..Len(queue') /\ queue'[i - 1] = queue[i]
      BY <1>1, <1>2, <2>2
    <3> QED
      BY <3>1 DEF Queued
  <2> QED
    BY <2>1, <2>2
<1> QED
  BY <1>3 DEF Queued

\* While a client is inside a call the fabric is not closing.
LEMMA InsideCall ==
  ASSUME LockInv, HonestInv, NEW c \in Clients, pc[c] # "idle"
  PROVE  closer = "idle" /\ journal = "held"
  BY DEF LockInv, HonestInv

\* journal_append on an open fabric.
LEMMA AppendStep ==
  ASSUME TypeOK, journal = "held", NEW e \in Entries, JournalAppend(e)
  PROVE  /\ AppendOk => journaled' = journaled \union {e} /\ Queued' = Queued \union {e}
         /\ ~AppendOk => journaled' = journaled /\ Queued' = Queued
<1>1. CASE HasCapacity
  BY <1>1, QueuedAppend DEF JournalAppend, AppendOk
<1>2. CASE ~HasCapacity
  BY <1>2 DEF JournalAppend, AppendOk, Queued
<1> QED
  BY <1>1, <1>2

\* A client's step that leaves the state and the journal alone.
LEMMA QuietStep ==
  ASSUME HonestInv,
         UNCHANGED <<failed, queue, written, memory, journaled, reported, degraded>>,
         ~fault',
         closer' # "idle" => \A c \in Clients : pc'[c] = "idle",
         closer' = "done" => queue = <<>> \/ failed
  PROVE  HonestInv'
  BY DEF HonestInv, Queued

\* A client's step that applies an entry and journals it.
LEMMA RecordStep ==
  ASSUME TypeOK, HonestInv, journal = "held", closer = "idle",
         NEW e \in Entries, JournalAppend(e),
         memory' = memory \union {e}, UNCHANGED <<closer, failed, written, fault>>,
         reported \subseteq reported', degraded \subseteq degraded',
         reported' \subseteq reported \union {e},
         ~failed /\ ~AppendOk => reported' = reported /\ e \in degraded'
  PROVE  HonestInv'
<1>1. CASE AppendOk
  <2>1. journaled' = journaled \union {e} /\ Queued' = Queued \union {e}
    BY <1>1, AppendStep
  <2> QED
    BY <2>1 DEF HonestInv
<1>2. CASE ~AppendOk
  <2>1. journaled' = journaled /\ Queued' = Queued
    BY <1>2, AppendStep
  <2> QED
    BY <1>2, <2>1 DEF HonestInv
<1> QED
  BY <1>1, <1>2

LEMMA NextHonest ==
  ASSUME ServeOrder
  PROVE  TraceInv /\ HonestInv /\ [Next]_vars => HonestInv'
<1> SUFFICES ASSUME TraceInv, HonestInv, [Next]_vars PROVE HonestInv'
  OBVIOUS
<1>0. TypeOK /\ LockInv /\ ProbeInv
  BY DEF TraceInv
<1> USE DEF lockVars, journalVars, outcomeVars
<1>1. ASSUME NEW c \in Clients, NEW operation \in Operations, Begin(c, operation)
      PROVE  HonestInv'
  BY <1>1, QuietStep DEF Begin, HonestInv
<1>2. ASSUME NEW c \in Clients, NEW from, NEW to, from # "idle", Acquire(c, from, to)
      PROVE  HonestInv'
  <2>1. closer = "idle"
    BY <1>0, <1>2, InsideCall DEF Acquire
  <2> QED
    BY <1>2, <2>1, QuietStep DEF Acquire, HonestInv
<1>3. ASSUME NEW c \in Clients, IngestProbe(c) \/ DeclareProbe(c) \/ QueryLock(c) \/ QueryRead(c)
      PROVE  HonestInv'
  <2>1. closer = "idle"
    BY <1>0, <1>3, InsideCall DEF IngestProbe, DeclareProbe, QueryLock, QueryRead
  <2>2. CASE IngestProbe(c)
    BY <2>1, <2>2, QuietStep DEF IngestProbe, HonestInv
  <2>3. CASE DeclareProbe(c)
    BY <2>1, <2>3, QuietStep DEF DeclareProbe, HonestInv
  <2>4. CASE QueryLock(c) \/ QueryRead(c)
    BY <2>1, <2>4, QuietStep DEF QueryLock, QueryRead, HonestInv
  <2> QED
    BY <1>3, <2>2, <2>3, <2>4
<1>4. ASSUME NEW c \in Clients, FlushCall(c) \/ FlushWait(c)
      PROVE  HonestInv'
  <2>1. closer = "idle" /\ journal = "held"
    BY <1>0, <1>4, InsideCall DEF FlushCall, FlushWait
  <2> QED
    BY <1>4, <2>1, QuietStep DEF FlushCall, FlushWait, HonestInv
<1>5. ASSUME NEW c \in Clients, IngestLink(c)
      PROVE  HonestInv'
  <2>1. closer = "idle" /\ journal = "held"
    BY <1>0, <1>5, InsideCall DEF IngestLink
  <2>2. CASE Link(c) \in memory
    <3>1. memory' = memory
      BY <1>5, <2>2 DEF IngestLink
    <3> QED
      BY <1>5, <2>1, <2>2, <3>1, QuietStep DEF IngestLink, HonestInv
  <2>3. CASE Link(c) \notin memory
    <3>1. ~failed => AppendOk
      BY <1>0, <1>5 DEF IngestLink, ProbeInv
    <3>2. JournalAppend(Link(c))
      BY <1>5, <2>3 DEF IngestLink
    <3> QED
      BY <1>0, <1>5, <2>1, <3>1, <3>2, EntryTyped, RecordStep DEF IngestLink
  <2> QED
    BY <2>2, <2>3
<1>6. ASSUME NEW c \in Clients, IngestEvidence(c)
      PROVE  HonestInv'
  <2>1. closer = "idle" /\ journal = "held"
    BY <1>0, <1>6, InsideCall DEF IngestEvidence
  <2>2. /\ reported \subseteq reported' /\ degraded \subseteq degraded'
        /\ reported' \subseteq reported \union {Evidence(c)}
        /\ ~AppendOk => reported' = reported /\ Evidence(c) \in degraded'
    BY <1>6 DEF IngestEvidence
  <2> QED
    BY <1>0, <1>6, <2>1, <2>2, EntryTyped, RecordStep DEF IngestEvidence
<1>7. ASSUME NEW c \in Clients, DeclareApply(c)
      PROVE  HonestInv'
  <2>1. closer = "idle" /\ journal = "held"
    BY <1>0, <1>7, InsideCall DEF DeclareApply
  <2>2. ~failed => AppendOk
    BY <1>0, <1>7 DEF DeclareApply, ProbeInv
  <2> QED
    BY <1>0, <1>7, <2>1, <2>2, EntryTyped, RecordStep DEF DeclareApply
<1>8. ASSUME NEW c \in Clients, NEW stage, stage # "idle", CompactRun(c, stage)
      PROVE  HonestInv'
  <2>1. closer = "idle" /\ journal = "held"
    BY <1>0, <1>8, InsideCall DEF CompactRun
  <2>2. /\ UNCHANGED <<closer, failed, queue, memory, journaled, reported, degraded, fault>>
        /\ ~failed => written' = memory
    BY <1>8, <2>1 DEF CompactRun
  <2> QED
    BY <2>1, <2>2 DEF HonestInv, Queued
<1>9. CASE Close
  <2>1. closer = "idle" /\ closer' # "idle" => \A c \in Clients : pc[c] = "idle"
    BY <1>9 DEF Close, CloseLock, CloseMove, CloseStop, CloseJoin, ClientsRetired
  <2>2. UNCHANGED <<pc, failed, queue, written, memory, journaled, reported, degraded, fault>>
    BY <1>9 DEF Close, CloseLock, CloseMove, CloseStop, CloseJoin
  <2>3. closer' = "done" => queue = <<>> \/ failed
    BY <1>9 DEF Close, CloseLock, CloseMove, CloseStop, CloseJoin, WriterJoined
  <2> QED
    BY <2>1, <2>2, <2>3, QuietStep DEF HonestInv
<1>10. CASE WriterWrite
  <2>1. Queued \subseteq Queued' \union {Head(queue)}
    BY <1>0, <1>10, QueuedTail DEF WriterWrite
  <2>2. closer # "done"
    BY <1>10 DEF WriterWrite, HonestInv
  <2> QED
    BY <1>10, <2>1, <2>2 DEF WriterWrite, HonestInv
<1>11. CASE WriterFail
  BY <1>11 DEF WriterFail, HonestInv
<1>12. CASE UNCHANGED vars
  BY <1>12, QuietStep DEF vars, HonestInv
<1>13. ASSUME NEW c \in Clients, IngestRefused(c) \/ DeclareRefused(c)
       PROVE  HonestInv'
  <2>1. closer = "idle"
    BY <1>0, <1>13, InsideCall DEF IngestRefused, DeclareRefused
  <2> QED
    BY <1>13, <2>1, QuietStep DEF IngestRefused, DeclareRefused, StateRefuses, HonestInv
<1> QED
  BY <1>1, <1>2, <1>3, <1>4, <1>5, <1>6, <1>7, <1>8, <1>9, <1>10, <1>11, <1>12, <1>13
     DEF Next, Step

\* The inductive invariant of the fabric's calls under the order of lqf serve.
THEOREM CallsInvariant ==
  ASSUME ServeOrder
  PROVE  Spec => [](TraceInv /\ HonestInv)
<1>1. Init => TraceInv
  BY InitTrace
<1>2. Init => HonestInv
  BY DEF Init, HonestInv
<1>3. TraceInv /\ HonestInv /\ [Next]_vars => TraceInv' /\ HonestInv'
  BY NextTrace, NextHonest
<1> QED
  BY <1>1, <1>2, <1>3, PTL DEF Spec

\* A call reports plain success only for what the journal took, and between
\* calls memory holds nothing unjournaled but what was reported as degraded.
THEOREM ReportsHonest ==
  ASSUME ServeOrder
  PROVE  Spec => []ReportsAreHonest
<1>1. HonestInv => ReportsAreHonest
  BY DEF HonestInv, ReportsAreHonest
<1> QED
  BY <1>1, CallsInvariant, PTL

\* Everything reported accepted is in the file once close has returned, unless
\* the writer failed, and no thread goes through a journal that close took.
THEOREM AcceptedDurable ==
  ASSUME ServeOrder
  PROVE  Spec => []AcceptedIsDurableAfterClose
<1>1. HonestInv => AcceptedIsDurableAfterClose
  <2> SUFFICES ASSUME HonestInv PROVE AcceptedIsDurableAfterClose
    OBVIOUS
  <2>1. queue = <<>> => Queued = {}
    BY DEF Queued
  <2> QED
    BY <2>1 DEF HonestInv, AcceptedIsDurableAfterClose
<1> QED
  BY <1>1, CallsInvariant, PTL
=============================================================================
