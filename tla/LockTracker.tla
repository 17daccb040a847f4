----------------------------- MODULE LockTracker -----------------------------
(***************************************************************************)
(* The lock audit (src/src/core/lock_tracker.cpp) around the mutexes it    *)
(* watches (TrackedMutex, src/include/lqf/core/lock_tracker.hpp).  Threads *)
(* acquire, try and release locks in any order and in either mode; the     *)
(* audit sees the address of a lock before the mutex does and keeps a list *)
(* of held locks per thread and one graph of the orders it has seen.       *)
(*                                                                         *)
(* unlock releases the mutex before it updates the list of its thread,     *)
(* which no other thread can see: one step here.  So are the steps under   *)
(* the registry's own mutex.                                               *)
(***************************************************************************)
EXTENDS Naturals, Sequences, FiniteSets

CONSTANTS
    Threads,
    Locks,
    MaxHeldPerThread,  \* kMaxHeldPerThread
    MaxEdges,          \* kMaxEdges
    MaxDepth,          \* the deepest call of reaches that searches
    MaxNesting,        \* bound on the locks a thread holds and waits for
    MaxViolations,     \* bounds: with so many violations, dropped edges or
    MaxDropped,        \* unlisted locks no lock is acquired
    MaxUnlisted

Modes == {"shared", "exclusive"}

ASSUME LockTrackerAssumption ==
    /\ IsFiniteSet(Locks)
    /\ {MaxHeldPerThread, MaxEdges, MaxDepth, MaxNesting, MaxViolations,
        MaxDropped, MaxUnlisted} \subseteq Nat

VARIABLES
    held,        \* tls_held of each thread
    owns,        \* the locks each thread really has, with their modes
    wants,       \* the acquisition a thread is in: none, blocking or try
    edges,       \* reg.edges
    violations,  \* reg.violations
    dropped,     \* reg.edges_dropped
    nested,      \* ghost: the pairs of locks held and acquired since the reset
    unlisted     \* ghost: how many acquisitions found their thread's list full

vars == <<held, owns, wants, edges, violations, dropped, nested, unlisted>>

NoWant == [kind |-> "none"]

Init ==
    /\ held = [t \in Threads |-> <<>>]
    /\ owns = [t \in Threads |-> {}]
    /\ wants = [t \in Threads |-> NoWant]
    /\ edges = {} /\ violations = 0 /\ dropped = 0
    /\ nested = {} /\ unlisted = 0

Elements(list) == {list[i] : i \in DOMAIN list}
Owned(t) == {o.lock : o \in owns[t]}

-----------------------------------------------------------------------------
(* The audit *)

Successors(graph, from) == {l \in Locks : <<from, l>> \in graph}

\* reaches: the locks at the end of a path of at most MaxDepth + 1 edges out of
\* each lock.
ReachedWithin(graph) ==
    LET within[depth \in 0..(MaxDepth + 1)] ==
            [from \in Locks |->
                IF depth = 0 THEN {}
                ELSE LET next == Successors(graph, from)
                     IN  next \union UNION {within[depth - 1][l] : l \in next}]
    IN  within[MaxDepth + 1]

Reaches(graph, from, target) == target \in ReachedWithin(graph)[from]

\* The loop of before_acquire over the locks on the thread's list: each is
\* checked against the graph of the iterations before it, then its edge is
\* added when there is room.  Some lock is on the list more than once only
\* after a reentrant acquisition.
AuditFrom(list, lock, reg) ==
    LET after[i \in 0..Len(list)] ==
            IF i = 0 THEN reg
            ELSE LET r == after[i - 1]
                     edge == <<list[i], lock>>
                     room == Cardinality(r.edges) < MaxEdges
                 IN  [edges |-> IF room THEN r.edges \union {edge} ELSE r.edges,
                      violations |-> r.violations + (IF Reaches(r.edges, lock, list[i]) THEN 1 ELSE 0),
                      dropped |-> r.dropped + (IF edge \notin r.edges /\ ~room THEN 1 ELSE 0)]
    IN  after[Len(list)]

\* What before_acquire makes of the registry.
Audited(list, lock, reg) ==
    IF lock \in Elements(list) THEN [reg EXCEPT !.violations = @ + 1]
                               ELSE AuditFrom(list, lock, reg)

\* Mutated form: readers are not audited.
AuditWriters(t, lock, mode) ==
    IF mode = "shared" THEN [edges |-> edges, violations |-> violations, dropped |-> dropped]
    ELSE Audited(held[t], lock, [edges |-> edges, violations |-> violations, dropped |-> dropped])

\* The mode is not looked at.
Audit(t, lock, mode) ==
    Audited(held[t], lock, [edges |-> edges, violations |-> violations, dropped |-> dropped])

Listed(list, lock) == IF Len(list) < MaxHeldPerThread THEN Append(list, lock) ELSE list

BeforeAcquire(t, lock, mode) ==
    LET reg == Audit(t, lock, mode)
    IN  /\ edges' = reg.edges
        /\ violations' = reg.violations
        /\ dropped' = reg.dropped
        /\ held' = [held EXCEPT ![t] = Listed(@, lock)]
        /\ unlisted' = unlisted + (IF Len(held[t]) >= MaxHeldPerThread THEN 1 ELSE 0)
        /\ nested' = nested \union {<<l, lock>> : l \in Owned(t)}

\* after_release: the last occurrence leaves the list.
Unlisted(list, lock) ==
    IF lock \notin Elements(list) THEN list
    ELSE LET last == CHOOSE i \in DOMAIN list :
                        list[i] = lock /\ \A j \in (i + 1)..Len(list) : list[j] # lock
         IN  SubSeq(list, 1, last - 1) \o SubSeq(list, last + 1, Len(list))

-----------------------------------------------------------------------------
(* The mutexes *)

\* std::shared_mutex: one writer or any number of readers.
Free(lock, mode) ==
    \A t \in Threads : \A o \in owns[t] :
        o.lock = lock => mode = "shared" /\ o.mode = "shared"

auditless == <<edges, violations, dropped, nested, unlisted>>

\* lock, lock_shared, try_lock and try_lock_shared, before the mutex: the
\* thread is audited, then blocks or tries.
Acquire(t, lock, mode, kind) ==
    /\ wants[t] = NoWant
    /\ Cardinality(owns[t]) < MaxNesting /\ violations < MaxViolations
    /\ dropped < MaxDropped /\ unlisted < MaxUnlisted
    /\ BeforeAcquire(t, lock, mode)
    /\ wants' = [wants EXCEPT ![t] = [kind |-> kind, lock |-> lock, mode |-> mode]]
    /\ UNCHANGED owns

\* The mutex is free: the acquisition returns.  A lock the thread has already
\* is not given to it again.
Take(t) ==
    LET w == wants[t] IN
    /\ w # NoWant
    /\ Free(w.lock, w.mode) /\ w.lock \notin Owned(t)
    /\ owns' = [owns EXCEPT ![t] = @ \union {[lock |-> w.lock, mode |-> w.mode]}]
    /\ wants' = [wants EXCEPT ![t] = NoWant]
    /\ UNCHANGED <<held, auditless>>

\* Mutated form: a failed try leaves the lock on the list.
ForgetFailedTry(t) == UNCHANGED held

AfterFailedTry(t) == held' = [held EXCEPT ![t] = Unlisted(@, wants[t].lock)]

\* A try may fail for no reason, too.
TryFails(t) ==
    /\ wants[t].kind = "try"
    /\ AfterFailedTry(t)
    /\ wants' = [wants EXCEPT ![t] = NoWant]
    /\ UNCHANGED <<owns, auditless>>

\* unlock and unlock_shared.
Release(t, o) ==
    /\ wants[t] = NoWant
    /\ o \in owns[t]
    /\ owns' = [owns EXCEPT ![t] = @ \ {o}]
    /\ held' = [held EXCEPT ![t] = Unlisted(@, o.lock)]
    /\ UNCHANGED <<wants, auditless>>

\* reset_tracking, as its callers use it: while no lock is held.
ResetTracking ==
    /\ \A t \in Threads : owns[t] = {} /\ wants[t] = NoWant
    /\ edges' = {} /\ violations' = 0 /\ dropped' = 0
    /\ nested' = {} /\ unlisted' = 0
    /\ UNCHANGED <<held, owns, wants>>

Next ==
    \/ \E t \in Threads :
          \/ \E lock \in Locks, mode \in Modes, kind \in {"block", "try"} :
                Acquire(t, lock, mode, kind)
          \/ Take(t)
          \/ TryFails(t)
          \/ \E o \in owns[t] : Release(t, o)
    \/ ResetTracking

Spec == Init /\ [][Next]_vars

-----------------------------------------------------------------------------
(* Properties *)

\* Thread u keeps t waiting: it has the lock in a mode that excludes t's, or
\* is a writer in line before a reader.
Blocks(u, t) ==
    \/ \E o \in owns[u] :
          /\ o.lock = wants[t].lock
          /\ u = t \/ "exclusive" \in {o.mode, wants[t].mode}
    \/ /\ wants[t].mode = "shared"
       /\ wants[u].kind = "block" /\ wants[u].lock = wants[t].lock /\ wants[u].mode = "exclusive"

Waiting == {t \in Threads : wants[t].kind = "block"}

Deadlocked ==
    \E stuck \in SUBSET Waiting :
        stuck # {} /\ \A t \in stuck : \E u \in stuck : Blocks(u, t)

\* No set of threads waits for each other, in any mode, before the audit has
\* counted a violation: "Two defects are detected before they can deadlock"
\* (lock_tracker.hpp:38-44).  That holds while the graph and the lists of held
\* locks have room and no path is longer than the search: all three are
\* bounded, and a full list drops locks uncounted.
DeadlockIsReported ==
    Deadlocked /\ dropped = 0 /\ unlisted = 0 /\ Cardinality(Locks) <= MaxDepth + 2 => violations > 0

\* The pairs follow some order of the locks.
Ordered(pairs) ==
    \E rank \in [Locks -> 1..Cardinality(Locks)] :
        \A pair \in pairs : rank[pair[1]] < rank[pair[2]]

\* As long as the threads have nested the locks they really held in some fixed
\* order, the audit counts nothing (lock_tracker.cpp:100-191): failed tries, releases out of
\* order and full lists leave no lock on a list that its thread does not have.
NoFalseAlarm == violations > 0 => ~Ordered(nested)
=============================================================================
