-------------------------- MODULE LockTrackerProofs --------------------------
(***************************************************************************)
(* Proofs about LockTracker, for any number of threads, every finite set   *)
(* of locks and every value of the audit's limits.                         *)
(*                                                                         *)
(* A deadlock makes every lock that is waited for in it the predecessor of *)
(* another such lock, so the graph of the audit has a set of locks without *)
(* a sink.  An edge brings the first such set about only when its target   *)
(* reaches its source, and a search of MaxDepth + 1 edges finds that: what *)
(* the search has reached either is closed under successors or grows by a  *)
(* lock with each level, and there are no more than MaxDepth + 2 locks.    *)
(*                                                                         *)
(* That the graph knows the order in which a thread really holds its locks *)
(* rests on the lists: each holds what its thread has, once, and at its    *)
(* end the lock that is being acquired.                                    *)
(***************************************************************************)
EXTENDS LockTracker, TLAPS, FiniteSetTheorems, WellFoundedInduction

Wanted == [kind : {"block", "try"}, lock : Locks, mode : Modes]

TypeOK ==
    /\ held \in [Threads -> Seq(Locks)]
    /\ owns \in [Threads -> SUBSET [lock : Locks, mode : Modes]]
    /\ wants \in [Threads -> {NoWant} \union Wanted]
    /\ edges \subseteq Locks \X Locks /\ nested \subseteq Locks \X Locks
    /\ violations \in Nat /\ dropped \in Nat /\ unlisted \in Nat

Injective(list) == \A i, j \in DOMAIN list : list[i] = list[j] => i = j

\* The list of a thread that holds these locks: nothing else and nothing
\* twice, and nothing less unless a lock found a list full.
Lists(list, locks, missing) ==
    /\ Injective(list) /\ Elements(list) \subseteq locks
    /\ missing = 0 => locks \subseteq Elements(list)

\* In an acquisition the list ends with the lock that is wanted, unless there
\* was no room for it.
ListFits(list, locks, want, missing) ==
    \/ Lists(list, locks, missing) /\ (want = NoWant \/ missing > 0)
    \/ /\ want # NoWant
       /\ \E before \in Seq(Locks) :
             Lists(before, locks, missing) /\ list = Append(before, want.lock)

ListInv == \A t \in Threads : ListFits(held[t], Owned(t), wants[t], unlisted)

\* No thread has a lock in both modes.
OwnInv == \A t \in Threads : \A o, p \in owns[t] : o.lock = p.lock => o = p

\* The graph holds orders that occurred, and a violation is a reason to say
\* that they follow none.
AlarmInv == edges \subseteq nested /\ (violations > 0 => ~Ordered(nested))

\* Every lock of the set has a successor in it.
Sinkless(graph, locks) == locks # {} /\ \A l \in locks : \E m \in locks : <<l, m>> \in graph

Acyclic(graph) == \A locks \in SUBSET Locks : ~Sinkless(graph, locks)

\* Nothing was reported and nothing left out.
Quiet == violations = 0 /\ dropped = 0 /\ unlisted = 0

SearchIsDeepEnough == Cardinality(Locks) <= MaxDepth + 2

GraphInv ==
    Quiet /\ SearchIsDeepEnough =>
        /\ Acyclic(edges)
        /\ \A t \in Threads : wants[t] # NoWant =>
               \A l \in Owned(t) : <<l, wants[t].lock>> \in edges

IInv == TypeOK /\ OwnInv /\ ListInv /\ AlarmInv /\ GraphInv
-----------------------------------------------------------------------------
(* Counting *)

\* The least number of a set, from the well-founded order of the library.
LEMMA LeastNumber ==
  ASSUME NEW U \in SUBSET Nat, U # {}
  PROVE  \E n \in U : \A m \in U : n <= m
<1> DEFINE R == {ss \in Nat \X Nat : ss[1] < ss[2]}
<1>1. IsWellFoundedOn(R, Nat)
  BY NatLessThanWellFounded DEF OpToRel
<1>2. \A x, y \in Nat : y < x => <<y, x>> \in R
  OBVIOUS
<1> HIDE DEF R
<1>3. PICK n \in U : \A m \in U : <<m, n>> \notin R
  BY <1>1, WFMin
<1>4. ASSUME NEW m \in U PROVE n <= m
  <2>1. m \in Nat /\ n \in Nat /\ ~(m < n)
    BY <1>2, <1>3
  <2> QED
    BY <2>1
<1> QED
  BY <1>4

\* Induction on the natural numbers, for a set that is a constant.
LEMMA SetInduction ==
  ASSUME NEW T, 0 \in T, \A n \in Nat : n \in T => n + 1 \in T
  PROVE  \A n \in Nat : n \in T
<1> DEFINE U == Nat \ T
<1>1. SUFFICES ASSUME U # {} PROVE FALSE
  OBVIOUS
<1>2. PICK n \in U : \A m \in U : n <= m
  <2>1. U \in SUBSET Nat
    OBVIOUS
  <2> HIDE DEF U
  <2> QED
    BY <1>1, <2>1, LeastNumber
<1>3. n # 0 /\ n - 1 \in Nat /\ ~(n <= n - 1)
  OBVIOUS
<1>4. n - 1 \in T
  BY <1>2, <1>3
<1> QED
  BY <1>3, <1>4

-----------------------------------------------------------------------------
(* The search *)

\* One more level of the search: the successors and what they reach.
NextLevel(graph, level) ==
    [from \in Locks |-> Successors(graph, from) \union UNION {level[l] : l \in Successors(graph, from)}]

NoLevel == [from \in Locks |-> {}]

\* reaches goes through levels, as a function of the depth.
Levels(graph) ==
    CHOOSE w : w = [depth \in 0..(MaxDepth + 1) |->
                      IF depth = 0 THEN NoLevel ELSE NextLevel(graph, w[depth - 1])]

LEMMA LevelsDefined ==
  ASSUME NEW graph
  PROVE  LET w == Levels(graph)
         IN  /\ w = [depth \in 0..(MaxDepth + 1) |->
                       IF depth = 0 THEN NoLevel ELSE NextLevel(graph, w[depth - 1])]
             /\ ReachedWithin(graph) = w[MaxDepth + 1]
<1> DEFINE step(level) == NextLevel(graph, level)
           Solves(f, top) == f = [d \in 0..top |-> IF d = 0 THEN NoLevel ELSE step(f[d - 1])]
           T == {top \in Nat : \E f : Solves(f, top)}
<1>0. MaxDepth + 1 \in Nat
  BY LockTrackerAssumption
<1>1. 0 \in T
  <2>1. Solves([d \in 0..0 |-> NoLevel], 0)
    OBVIOUS
  <2> HIDE DEF Solves
  <2> QED
    BY <2>1
<1>2. ASSUME NEW top \in Nat, top \in T
      PROVE  top + 1 \in T
  <2>1. PICK f : Solves(f, top)
    BY <1>2
  <2> DEFINE g == [d \in 0..(top + 1) |-> IF d = 0 THEN NoLevel ELSE step(f[d - 1])]
  <2> HIDE DEF step
  <2>2. \A d \in 0..top : g[d] = f[d]
    BY <2>1
  <2>3. \A d \in 1..(top + 1) : g[d - 1] = f[d - 1]
    <3>1. \A d \in 1..(top + 1) : d - 1 \in 0..top
      OBVIOUS
    <3> HIDE DEF g
    <3> QED
      BY <2>2, <3>1
  <2>4. \A d \in 0..(top + 1) : g[d] = IF d = 0 THEN NoLevel ELSE step(g[d - 1])
    <3>1. TAKE d \in 0..(top + 1)
    <3>2. d # 0 => d \in 1..(top + 1)
      OBVIOUS
    <3> QED
      BY <2>3, <3>2
  <2>5. DOMAIN g = 0..(top + 1) /\ g = [d \in DOMAIN g |-> g[d]]
    OBVIOUS
  <2> HIDE DEF g
  <2>6. Solves(g, top + 1)
    BY <2>4, <2>5
  <2> HIDE DEF Solves
  <2> QED
    BY <2>6
<1> HIDE DEF T
<1>3. MaxDepth + 1 \in T
  BY <1>0, <1>1, <1>2, SetInduction
<1>4. PICK f : f = [depth \in 0..(MaxDepth + 1) |->
                      IF depth = 0 THEN NoLevel ELSE NextLevel(graph, f[depth - 1])]
  BY <1>3 DEF T
<1>5. LET w == Levels(graph)
      IN  w = [depth \in 0..(MaxDepth + 1) |->
                 IF depth = 0 THEN NoLevel ELSE NextLevel(graph, w[depth - 1])]
  BY <1>4 DEF Levels
<1>6. ASSUME NEW w
      PROVE  [depth \in 0..(MaxDepth + 1) |->
                 IF depth = 0 THEN NoLevel ELSE NextLevel(graph, w[depth - 1])]
             = [depth \in 0..(MaxDepth + 1) |->
                  [from \in Locks |->
                     IF depth = 0 THEN {}
                     ELSE LET next == Successors(graph, from)
                          IN  next \union UNION {w[depth - 1][l] : l \in next}]]
  BY DEF NoLevel, NextLevel
<1>7. ReachedWithin(graph) = Levels(graph)[MaxDepth + 1]
  BY <1>6 DEF ReachedWithin, Levels
<1> QED
  BY <1>5, <1>7

\* The recursion, level by level.
LEMMA LevelsStep ==
  ASSUME NEW graph
  PROVE  LET w == Levels(graph)
         IN  /\ \A from \in Locks : w[0][from] = {}
             /\ \A d \in 0..MaxDepth, from \in Locks :
                   w[d + 1][from] = Successors(graph, from)
                                      \union UNION {w[d][l] : l \in Successors(graph, from)}
             /\ ReachedWithin(graph) = w[MaxDepth + 1]
<1> DEFINE w == Levels(graph)
<1>0. MaxDepth \in Nat
  BY LockTrackerAssumption
<1>1. /\ w = [depth \in 0..(MaxDepth + 1) |->
                IF depth = 0 THEN NoLevel ELSE NextLevel(graph, w[depth - 1])]
      /\ ReachedWithin(graph) = w[MaxDepth + 1]
  BY LevelsDefined
<1> HIDE DEF w
<1>2. w[0] = NoLevel
  BY <1>0, <1>1
<1>3. ASSUME NEW d \in 0..MaxDepth PROVE w[d + 1] = NextLevel(graph, w[d])
  <2>1. d + 1 \in 0..(MaxDepth + 1) /\ d + 1 # 0 /\ d + 1 - 1 = d
    BY <1>0
  <2>2. \A e \in 0..(MaxDepth + 1) : e # 0 => w[e] = NextLevel(graph, w[e - 1])
    BY <1>1
  <2>3. w[d + 1] = NextLevel(graph, w[d + 1 - 1])
    BY <2>1, <2>2
  <2> QED
    BY <2>1, <2>3
<1>4. \A d \in 0..MaxDepth, from \in Locks :
        w[d + 1][from] = Successors(graph, from)
                           \union UNION {w[d][l] : l \in Successors(graph, from)}
  BY <1>3 DEF NextLevel
<1>5. \A from \in Locks : w[0][from] = {}
  BY <1>2 DEF NoLevel
<1> QED
  BY <1>1, <1>4, <1>5 DEF w

\* What is reached is a lock, and of a higher rank when every edge goes up.
LEMMA ReachedRanks ==
  ASSUME NEW graph, NEW rank \in [Locks -> Nat],
         \A pair \in graph : rank[pair[1]] < rank[pair[2]],
         NEW from \in Locks, NEW target, Reaches(graph, from, target)
  PROVE  target \in Locks /\ rank[from] < rank[target]
<1> DEFINE w == Levels(graph)
           Up(d) == \A l \in Locks : \A x \in w[d][l] : x \in Locks /\ rank[l] < rank[x]
           T == {d \in Nat : d <= MaxDepth + 1 => Up(d)}
<1>0. MaxDepth \in Nat
  BY LockTrackerAssumption
<1>1. /\ \A l \in Locks : w[0][l] = {}
      /\ \A d \in 0..MaxDepth, l \in Locks :
            w[d + 1][l] = Successors(graph, l) \union UNION {w[d][m] : m \in Successors(graph, l)}
      /\ ReachedWithin(graph) = w[MaxDepth + 1]
  BY LevelsStep
<1> HIDE DEF w
<1>2. \A l, m \in Locks : m \in Successors(graph, l) => rank[l] < rank[m]
  <2>1. TAKE l, m \in Locks
  <2>2. HAVE m \in Successors(graph, l)
  <2>3. <<l, m>> \in graph
    BY <2>2 DEF Successors
  <2> QED
    BY <2>3
<1>3. 0 \in T
  BY <1>1
<1>4. ASSUME NEW d \in Nat, d \in T PROVE d + 1 \in T
  <2>1. SUFFICES ASSUME d + 1 <= MaxDepth + 1 PROVE Up(d + 1)
    OBVIOUS
  <2>2. Up(d) /\ d \in 0..MaxDepth
    BY <1>0, <1>4, <2>1
  <2>3. SUFFICES ASSUME NEW l \in Locks, NEW x \in w[d + 1][l]
                 PROVE  x \in Locks /\ rank[l] < rank[x]
    OBVIOUS
  <2>4. x \in Successors(graph, l) \/ \E m \in Successors(graph, l) : x \in w[d][m]
    BY <1>1, <2>2, <2>3
  <2>5. CASE x \in Successors(graph, l)
    BY <1>2, <2>5 DEF Successors
  <2>6. CASE \E m \in Successors(graph, l) : x \in w[d][m]
    <3>1. PICK m \in Successors(graph, l) : x \in w[d][m]
      BY <2>6
    <3>2. m \in Locks /\ rank[l] < rank[m]
      BY <1>2 DEF Successors
    <3>3. x \in Locks /\ rank[m] < rank[x]
      BY <2>2, <3>1, <3>2
    <3>4. rank[l] \in Nat /\ rank[m] \in Nat /\ rank[x] \in Nat
      BY <3>2, <3>3
    <3> QED
      BY <3>2, <3>3, <3>4
  <2> QED
    BY <2>4, <2>5, <2>6
<1> HIDE DEF T
<1>5. MaxDepth + 1 \in T
  BY <1>0, <1>3, <1>4, SetInduction
<1>6. Up(MaxDepth + 1)
  BY <1>0, <1>5 DEF T
<1> QED
  BY <1>1, <1>6 DEF Reaches

\* A lock and what a search from it has reached after d levels.
Ball(graph, d, from) == {from} \union Levels(graph)[d][from]

LEMMA BallsAreLocks ==
  ASSUME NEW graph, NEW d \in 0..(MaxDepth + 1), NEW from \in Locks
  PROVE  Ball(graph, d, from) \subseteq Locks
<1>0. MaxDepth \in Nat
  BY LockTrackerAssumption
<1> DEFINE w == Levels(graph)
           T == {n \in Nat : n <= MaxDepth + 1 => \A l \in Locks : w[n][l] \subseteq Locks}
<1>1. /\ \A l \in Locks : w[0][l] = {}
      /\ \A n \in 0..MaxDepth, l \in Locks :
            w[n + 1][l] = Successors(graph, l) \union UNION {w[n][m] : m \in Successors(graph, l)}
  BY LevelsStep
<1> HIDE DEF w
<1>2. \A l \in Locks : Successors(graph, l) \subseteq Locks
  BY DEF Successors
<1>3. 0 \in T
  BY <1>1
<1>4. ASSUME NEW n \in Nat, n \in T PROVE n + 1 \in T
  <2>1. SUFFICES ASSUME n + 1 <= MaxDepth + 1, NEW l \in Locks PROVE w[n + 1][l] \subseteq Locks
    OBVIOUS
  <2>2. n \in 0..MaxDepth /\ \A m \in Locks : w[n][m] \subseteq Locks
    BY <1>0, <1>4, <2>1
  <2>3. w[n + 1][l] = Successors(graph, l) \union UNION {w[n][m] : m \in Successors(graph, l)}
    BY <1>1, <2>2
  <2> QED
    BY <1>2, <2>2, <2>3
<1> HIDE DEF T
<1>5. d \in T /\ d \in Nat /\ d <= MaxDepth + 1
  BY <1>0, <1>3, <1>4, SetInduction
<1>6. w[d][from] \subseteq Locks
  BY <1>5 DEF T
<1> QED
  BY <1>6 DEF Ball, w

\* The search is written from the first edge on; it grows as if it were
\* written from the last.
LEMMA BallsGrow ==
  ASSUME NEW graph, NEW d \in 0..MaxDepth, NEW from \in Locks, NEW x
  PROVE  x \in Ball(graph, d + 1, from) <=>
             \/ x \in Ball(graph, d, from)
             \/ \E l \in Ball(graph, d, from) : x \in Successors(graph, l)
<1> DEFINE next(l) == Successors(graph, l)
           ball(n, l) == Ball(graph, n, l)
           Grows(n) == \A l \in Locks : \A y :
                          y \in ball(n + 1, l) <=>
                             y \in ball(n, l) \/ \E m \in ball(n, l) : y \in next(m)
           T == {n \in Nat : n <= MaxDepth => Grows(n)}
<1>0. MaxDepth \in Nat
  BY LockTrackerAssumption
<1>1. \A l : next(l) \subseteq Locks
  BY DEF Successors
<1>2. \A l \in Locks : ball(0, l) = {l}
  BY LevelsStep DEF Ball
<1>3. \A n \in 0..MaxDepth, l \in Locks : \A y :
         y \in ball(n + 1, l) <=> y = l \/ \E m \in next(l) : y \in ball(n, m)
  <2>1. TAKE n \in 0..MaxDepth, l \in Locks
  <2>2. Levels(graph)[n + 1][l] = next(l) \union UNION {Levels(graph)[n][m] : m \in next(l)}
    BY LevelsStep
  <2> HIDE DEF next
  <2> QED
    BY <2>2 DEF Ball
<1>4. \A n, l : l \in ball(n, l)
  BY DEF Ball
<1> HIDE DEF next, ball
<1>5. 0 \in T
  <2>1. 0 \in 0..MaxDepth /\ 0 + 1 = 1
    BY <1>0
  <2>2. \A l \in Locks : \A y : y \in ball(0 + 1, l) <=> y = l \/ \E m \in next(l) : y \in ball(0, m)
    BY <1>3, <2>1
  <2>3. Grows(0)
    BY <1>1, <1>2, <2>2
  <2> HIDE DEF Grows
  <2> QED
    BY <2>3
<1>6. ASSUME NEW n \in Nat, n \in T PROVE n + 1 \in T
  <2>1. SUFFICES ASSUME n + 1 <= MaxDepth PROVE Grows(n + 1)
    OBVIOUS
  <2>2. Grows(n) /\ n \in 0..MaxDepth /\ n + 1 \in 0..MaxDepth
    BY <1>0, <1>6, <2>1
  <2>3. SUFFICES ASSUME NEW l \in Locks, NEW y
                 PROVE  y \in ball(n + 1 + 1, l) <=>
                          y \in ball(n + 1, l) \/ \E m \in ball(n + 1, l) : y \in next(m)
    OBVIOUS
  <2>4. y \in ball(n + 1 + 1, l) <=> y = l \/ \E m \in next(l) : y \in ball(n + 1, m)
    BY <1>3, <2>2
  <2>5. \A z : z \in ball(n + 1, l) <=> z = l \/ \E m \in next(l) : z \in ball(n, m)
    BY <1>3, <2>2
  <2>6. \A m \in next(l) : y \in ball(n + 1, m) <=>
                             y \in ball(n, m) \/ \E k \in ball(n, m) : y \in next(k)
    BY <1>1, <2>2
  <2> HIDE DEF Grows
  <2> QED
    BY <1>4, <2>4, <2>5, <2>6
<1> HIDE DEF T
<1>7. d \in T /\ d \in Nat /\ d <= MaxDepth
  BY <1>0, <1>5, <1>6, SetInduction
<1>8. Grows(d)
  BY <1>7 DEF T
<1> QED
  BY <1>8 DEF ball, next

\* A search that is deep enough for the locks there are finds all that a lock
\* reaches.
LEMMA SearchIsComplete ==
  ASSUME SearchIsDeepEnough, NEW graph, NEW from \in Locks
  PROVE  LET found == {from} \union ReachedWithin(graph)[from]
         IN  /\ found \subseteq Locks
             /\ \A l \in found : Successors(graph, l) \subseteq found
<1> DEFINE ball(n) == Ball(graph, n, from)
           Closed(n) == \A l \in ball(n) : Successors(graph, l) \subseteq ball(n)
           T == {n \in Nat : n <= MaxDepth + 1 => Closed(n) \/ Cardinality(ball(n)) >= n + 1}
<1>0. MaxDepth \in Nat /\ IsFiniteSet(Locks)
  BY LockTrackerAssumption
<1>1. \A n \in 0..(MaxDepth + 1) : ball(n) \subseteq Locks
  BY BallsAreLocks
<1>2. \A n \in 0..(MaxDepth + 1) : IsFiniteSet(ball(n)) /\ Cardinality(ball(n)) \in Nat
  BY <1>0, <1>1, FS_Subset, FS_CardinalityType
<1>3. \A n \in 0..MaxDepth : \A x :
         x \in ball(n + 1) <=> x \in ball(n) \/ \E l \in ball(n) : x \in Successors(graph, l)
  BY BallsGrow
<1>4. 0 \in T
  <2>1. ball(0) = {from}
    BY LevelsStep DEF Ball
  <2>2. Cardinality(ball(0)) = 1
    BY <2>1, FS_Singleton
  <2> QED
    BY <2>2
<1> HIDE DEF ball
<1>5. ASSUME NEW n \in Nat, n \in T PROVE n + 1 \in T
  <2>1. SUFFICES ASSUME n + 1 <= MaxDepth + 1
                 PROVE  Closed(n + 1) \/ Cardinality(ball(n + 1)) >= n + 1 + 1
    OBVIOUS
  <2>2. /\ n \in 0..MaxDepth /\ n \in 0..(MaxDepth + 1) /\ n + 1 \in 0..(MaxDepth + 1)
        /\ Closed(n) \/ Cardinality(ball(n)) >= n + 1
    BY <1>0, <1>5, <2>1
  <2>3. CASE Closed(n)
    <3>1. ball(n + 1) = ball(n)
      BY <1>3, <2>2, <2>3
    <3> QED
      BY <2>3, <3>1
  <2>4. CASE ~Closed(n)
    <3>1. PICK x : x \notin ball(n) /\ \E l \in ball(n) : x \in Successors(graph, l)
      BY <2>4
    <3>2. ball(n) \union {x} \in SUBSET ball(n + 1)
      BY <1>3, <2>2, <3>1
    <3>3. Cardinality(ball(n) \union {x}) = Cardinality(ball(n)) + 1
      BY <1>2, <2>2, <3>1, FS_AddElement
    <3>4. Cardinality(ball(n) \union {x}) <= Cardinality(ball(n + 1))
      BY <1>2, <2>2, <3>2, FS_Subset
    <3>5. Cardinality(ball(n)) \in Nat /\ Cardinality(ball(n + 1)) \in Nat
      BY <1>2, <2>2
    <3>6. Cardinality(ball(n)) >= n + 1
      BY <2>2, <2>4
    <3> HIDE DEF Closed
    <3> QED
      BY <3>3, <3>4, <3>5, <3>6
  <2> QED
    BY <2>3, <2>4
<1> HIDE DEF T
<1>6. MaxDepth + 1 \in T
  BY <1>0, <1>4, <1>5, SetInduction
<1>7. MaxDepth + 1 \in 0..(MaxDepth + 1) /\ MaxDepth + 1 + 1 = MaxDepth + 2
  BY <1>0
<1>8. Closed(MaxDepth + 1)
  <2>1. Closed(MaxDepth + 1) \/ Cardinality(ball(MaxDepth + 1)) >= MaxDepth + 2
    BY <1>6, <1>7 DEF T
  <2>2. CASE Cardinality(ball(MaxDepth + 1)) >= MaxDepth + 2
    <3>1. /\ ball(MaxDepth + 1) \in SUBSET Locks /\ Cardinality(ball(MaxDepth + 1)) \in Nat
          /\ Cardinality(Locks) \in Nat /\ Cardinality(ball(MaxDepth + 1)) <= Cardinality(Locks)
      BY <1>0, <1>1, <1>2, <1>7, FS_Subset, FS_CardinalityType
    <3>2. Cardinality(Locks) = Cardinality(ball(MaxDepth + 1))
      BY <1>0, <2>2, <3>1 DEF SearchIsDeepEnough
    <3>3. ball(MaxDepth + 1) = Locks
      BY <1>0, <3>1, <3>2, FS_Subset
    <3> QED
      BY <3>3 DEF Successors
  <2> QED
    BY <2>1, <2>2
<1>9. {from} \union ReachedWithin(graph)[from] = ball(MaxDepth + 1)
  BY LevelsStep DEF Ball, ball
<1> QED
  BY <1>1, <1>7, <1>8, <1>9

\* An edge that closes no path leaves every set of locks a sink.
LEMMA EdgeKeepsAcyclic ==
  ASSUME SearchIsDeepEnough, NEW graph, Acyclic(graph), NEW a \in Locks, NEW b \in Locks,
         a # b, ~Reaches(graph, b, a)
  PROVE  Acyclic(graph \union {<<a, b>>})
<1> DEFINE found == {b} \union ReachedWithin(graph)[b]
<1>1. a \notin found
  BY DEF Reaches
<1>2. \A l \in found : \A m \in Locks : <<l, m>> \in graph => m \in found
  BY SearchIsComplete DEF Successors
<1>3. b \in found
  OBVIOUS
<1> HIDE DEF found
<1>4. SUFFICES ASSUME NEW locks \in SUBSET Locks, Sinkless(graph \union {<<a, b>>}, locks)
               PROVE  FALSE
  BY DEF Acyclic
<1>5. \A l \in locks : \E m \in locks : <<l, m>> \in graph \/ (l = a /\ m = b)
  BY <1>4 DEF Sinkless
<1>6. CASE locks \intersect found = {}
  <2>1. Sinkless(graph, locks)
    BY <1>3, <1>4, <1>5, <1>6 DEF Sinkless
  <2> QED
    BY <2>1 DEF Acyclic
<1>7. CASE locks \intersect found # {}
  <2>1. Sinkless(graph, locks \intersect found)
    BY <1>1, <1>2, <1>5, <1>7 DEF Sinkless
  <2>2. locks \intersect found \in SUBSET Locks
    OBVIOUS
  <2> QED
    BY <2>1, <2>2 DEF Acyclic
<1> QED
  BY <1>6, <1>7
-----------------------------------------------------------------------------
(* The loop of before_acquire *)

\* One iteration, for a lock on the list.
Iteration(r, listed, lock) ==
    LET edge == <<listed, lock>>
        room == Cardinality(r.edges) < MaxEdges
    IN  [edges |-> IF room THEN r.edges \union {edge} ELSE r.edges,
         violations |-> r.violations + (IF Reaches(r.edges, lock, listed) THEN 1 ELSE 0),
         dropped |-> r.dropped + (IF edge \notin r.edges /\ ~room THEN 1 ELSE 0)]

After(list, lock, reg) ==
    CHOOSE f : f = [i \in 0..Len(list) |->
                      IF i = 0 THEN reg ELSE Iteration(f[i - 1], list[i], lock)]

LEMMA AfterDefined ==
  ASSUME NEW list \in Seq(Locks), NEW lock, NEW reg
  PROVE  LET after == After(list, lock, reg)
         IN  /\ after[0] = reg
             /\ \A i \in 1..Len(list) : after[i] = Iteration(after[i - 1], list[i], lock)
             /\ AuditFrom(list, lock, reg) = after[Len(list)]
<1> DEFINE step(r, i) == Iteration(r, list[i], lock)
           Solves(f, top) == f = [i \in 0..top |-> IF i = 0 THEN reg ELSE step(f[i - 1], i)]
           T == {top \in Nat : \E f : Solves(f, top)}
<1>0. Len(list) \in Nat
  OBVIOUS
<1>1. 0 \in T
  <2>1. Solves([i \in 0..0 |-> reg], 0)
    OBVIOUS
  <2> HIDE DEF Solves
  <2> QED
    BY <2>1
<1>2. ASSUME NEW top \in Nat, top \in T
      PROVE  top + 1 \in T
  <2>1. PICK f : Solves(f, top)
    BY <1>2
  <2> DEFINE g == [i \in 0..(top + 1) |-> IF i = 0 THEN reg ELSE step(f[i - 1], i)]
  <2> HIDE DEF step
  <2>2. \A i \in 0..top : g[i] = f[i]
    BY <2>1
  <2>3. \A i \in 1..(top + 1) : g[i - 1] = f[i - 1]
    <3>1. \A i \in 1..(top + 1) : i - 1 \in 0..top
      OBVIOUS
    <3> HIDE DEF g
    <3> QED
      BY <2>2, <3>1
  <2>4. \A i \in 0..(top + 1) : g[i] = IF i = 0 THEN reg ELSE step(g[i - 1], i)
    <3>1. TAKE i \in 0..(top + 1)
    <3>2. i # 0 => i \in 1..(top + 1)
      OBVIOUS
    <3> QED
      BY <2>3, <3>2
  <2>5. DOMAIN g = 0..(top + 1) /\ g = [i \in DOMAIN g |-> g[i]]
    OBVIOUS
  <2> HIDE DEF g
  <2>6. Solves(g, top + 1)
    BY <2>4, <2>5
  <2> HIDE DEF Solves
  <2> QED
    BY <2>6
<1> HIDE DEF T
<1>3. Len(list) \in T
  BY <1>0, <1>1, <1>2, SetInduction
<1>4. PICK f : f = [i \in 0..Len(list) |->
                      IF i = 0 THEN reg ELSE Iteration(f[i - 1], list[i], lock)]
  BY <1>3 DEF T
<1> DEFINE after == After(list, lock, reg)
<1>5. after = [i \in 0..Len(list) |->
                 IF i = 0 THEN reg ELSE Iteration(after[i - 1], list[i], lock)]
  BY <1>4 DEF After
<1>6. AuditFrom(list, lock, reg) = after[Len(list)]
  BY DEF AuditFrom, After, Iteration
<1> HIDE DEF after
<1>7. after[0] = reg /\ \A i \in 1..Len(list) : after[i] = Iteration(after[i - 1], list[i], lock)
  BY <1>0, <1>5
<1> QED
  BY <1>6, <1>7 DEF after

Registries == [edges : SUBSET (Locks \X Locks), violations : Nat, dropped : Nat]

LEMMA IterationTyped ==
  ASSUME NEW r \in Registries, NEW listed \in Locks, NEW lock \in Locks
  PROVE  LET next == Iteration(r, listed, lock)
         IN  /\ next \in Registries
             /\ next.edges \subseteq r.edges \union {<<listed, lock>>} /\ r.edges \subseteq next.edges
             /\ next.violations >= r.violations /\ next.dropped >= r.dropped
             /\ next.violations = r.violations => ~Reaches(r.edges, lock, listed)
             /\ ~Reaches(r.edges, lock, listed) => next.violations = r.violations
             /\ next.dropped = r.dropped => next.edges = r.edges \union {<<listed, lock>>}
<1> DEFINE next == Iteration(r, listed, lock)
           room == Cardinality(r.edges) < MaxEdges
           edge == <<listed, lock>>
<1>1. r.violations \in Nat /\ r.dropped \in Nat /\ r.edges \in SUBSET (Locks \X Locks)
  BY DEF Registries
<1>2. /\ next.edges = IF room THEN r.edges \union {edge} ELSE r.edges
      /\ next.violations = r.violations + (IF Reaches(r.edges, lock, listed) THEN 1 ELSE 0)
      /\ next.dropped = r.dropped + (IF edge \notin r.edges /\ ~room THEN 1 ELSE 0)
      /\ next = [edges |-> next.edges, violations |-> next.violations, dropped |-> next.dropped]
  BY DEF Iteration
<1>3. edge \in Locks \X Locks
  OBVIOUS
<1> HIDE DEF next, room, edge
<1>4. /\ next.edges \in SUBSET (Locks \X Locks)
      /\ next.edges \subseteq r.edges \union {edge} /\ r.edges \subseteq next.edges
  BY <1>1, <1>2, <1>3
<1>5. /\ next.violations \in Nat /\ next.violations >= r.violations
      /\ next.violations = r.violations <=> ~Reaches(r.edges, lock, listed)
  BY <1>1, <1>2
<1>6. /\ next.dropped \in Nat /\ next.dropped >= r.dropped
      /\ next.dropped = r.dropped => edge \in r.edges \/ room
  BY <1>1, <1>2
<1>7. next \in Registries
  BY <1>2, <1>4, <1>5, <1>6 DEF Registries
<1>8. next.dropped = r.dropped => next.edges = r.edges \union {edge}
  BY <1>2, <1>6
<1> QED
  BY <1>4, <1>5, <1>6, <1>7, <1>8 DEF next, edge

\* The loop only adds, and counts what it leaves out.
LEMMA AuditAdds ==
  ASSUME NEW list \in Seq(Locks), NEW lock \in Locks, NEW reg \in Registries
  PROVE  LET done == AuditFrom(list, lock, reg)
         IN  /\ done \in Registries
             /\ reg.edges \subseteq done.edges
             /\ done.edges \subseteq reg.edges \union {<<l, lock>> : l \in Elements(list)}
             /\ done.violations >= reg.violations /\ done.dropped >= reg.dropped
             /\ done.dropped = reg.dropped => \A l \in Elements(list) : <<l, lock>> \in done.edges
<1> DEFINE after == After(list, lock, reg)
           Adds(i, r) == /\ r \in Registries /\ reg.edges \subseteq r.edges
                         /\ r.edges \subseteq reg.edges \union {<<l, lock>> : l \in Elements(list)}
                         /\ r.violations >= reg.violations /\ r.dropped >= reg.dropped
                         /\ r.dropped = reg.dropped =>
                               \A j \in 1..i : <<list[j], lock>> \in r.edges
           T == {i \in Nat : i <= Len(list) => Adds(i, after[i])}
<1>0. /\ Len(list) \in Nat /\ \A i \in 1..Len(list) : list[i] \in Locks /\ list[i] \in Elements(list)
      /\ reg.violations \in Nat /\ reg.dropped \in Nat
  BY DEF Elements, Registries
<1>1. /\ after[0] = reg
      /\ \A i \in 1..Len(list) : after[i] = Iteration(after[i - 1], list[i], lock)
      /\ AuditFrom(list, lock, reg) = after[Len(list)]
  BY AfterDefined
<1> HIDE DEF after
<1>2. 0 \in T
  BY <1>0, <1>1
<1>3. ASSUME NEW i \in Nat, i \in T PROVE i + 1 \in T
  <2>1. SUFFICES ASSUME i + 1 <= Len(list) PROVE Adds(i + 1, after[i + 1])
    OBVIOUS
  <2> DEFINE r == after[i]
             next == after[i + 1]
             edge == <<list[i + 1], lock>>
  <2>2. i + 1 \in 1..Len(list) /\ i + 1 - 1 = i /\ i <= Len(list)
    BY <1>0, <2>1
  <2>3. next = Iteration(r, list[i + 1], lock)
    BY <1>1, <2>2
  <2>4. Adds(i, r)
    BY <1>3, <2>2
  <2>5. /\ next \in Registries
        /\ next.edges \subseteq r.edges \union {edge} /\ r.edges \subseteq next.edges
        /\ next.violations >= r.violations /\ next.dropped >= r.dropped
        /\ next.dropped = r.dropped => next.edges = r.edges \union {edge}
    <3>1. r \in Registries /\ list[i + 1] \in Locks
      BY <1>0, <2>2, <2>4
    <3> HIDE DEF r, next
    <3> QED
      BY <2>3, <3>1, IterationTyped
  <2> HIDE DEF r, next
  <2>6. /\ reg.edges \subseteq next.edges
        /\ next.edges \subseteq reg.edges \union {<<l, lock>> : l \in Elements(list)}
    BY <1>0, <2>2, <2>4, <2>5
  <2>7. r.violations \in Nat /\ next.violations \in Nat /\ r.dropped \in Nat /\ next.dropped \in Nat
    BY <2>4, <2>5 DEF Registries
  <2>8. /\ next.violations >= reg.violations /\ next.dropped >= reg.dropped
        /\ next.dropped = reg.dropped => next.dropped = r.dropped /\ r.dropped = reg.dropped
    BY <1>0, <2>4, <2>5, <2>7
  <2>9. next.dropped = reg.dropped => \A j \in 1..(i + 1) : <<list[j], lock>> \in next.edges
    <3>1. SUFFICES ASSUME next.dropped = reg.dropped, NEW j \in 1..(i + 1)
                   PROVE  <<list[j], lock>> \in next.edges
      OBVIOUS
    <3>2. next.edges = r.edges \union {edge} /\ \A k \in 1..i : <<list[k], lock>> \in r.edges
      BY <2>4, <2>5, <2>8, <3>1
    <3>3. j \in 1..i \/ j = i + 1
      OBVIOUS
    <3> QED
      BY <3>2, <3>3
  <2> QED
    BY <2>5, <2>6, <2>8, <2>9 DEF next
<1> HIDE DEF T
<1>4. Len(list) \in T
  BY <1>0, <1>2, <1>3, SetInduction
<1>5. Adds(Len(list), after[Len(list)])
  BY <1>0, <1>4 DEF T
<1>6. \A l \in Elements(list) : \E j \in 1..Len(list) : l = list[j]
  BY DEF Elements
<1> QED
  BY <1>1, <1>5, <1>6

\* While the loop counts no violation it closes no cycle.
LEMMA AuditKeepsAcyclic ==
  ASSUME SearchIsDeepEnough,
         NEW list \in Seq(Locks), NEW lock \in Locks, lock \notin Elements(list),
         NEW reg \in Registries, Acyclic(reg.edges),
         AuditFrom(list, lock, reg).violations = reg.violations
  PROVE  Acyclic(AuditFrom(list, lock, reg).edges)
<1> DEFINE after == After(list, lock, reg)
           Keeps(r) == /\ r \in Registries /\ r.violations >= reg.violations
                       /\ r.violations = reg.violations => Acyclic(r.edges)
           T == {i \in Nat : i <= Len(list) => Keeps(after[i])}
<1>0. /\ Len(list) \in Nat /\ \A i \in 1..Len(list) : list[i] \in Locks /\ list[i] # lock
      /\ reg.violations \in Nat
  BY DEF Elements, Registries
<1>1. /\ after[0] = reg
      /\ \A i \in 1..Len(list) : after[i] = Iteration(after[i - 1], list[i], lock)
      /\ AuditFrom(list, lock, reg) = after[Len(list)]
  BY AfterDefined
<1> HIDE DEF after
<1>2. 0 \in T
  BY <1>0, <1>1
<1>3. ASSUME NEW i \in Nat, i \in T PROVE i + 1 \in T
  <2>1. SUFFICES ASSUME i + 1 <= Len(list) PROVE Keeps(after[i + 1])
    OBVIOUS
  <2> DEFINE r == after[i]
             next == after[i + 1]
             edge == <<list[i + 1], lock>>
  <2>2. i + 1 \in 1..Len(list) /\ i + 1 - 1 = i /\ i <= Len(list)
    BY <1>0, <2>1
  <2>3. next = Iteration(r, list[i + 1], lock)
    BY <1>1, <2>2
  <2>4. Keeps(r)
    BY <1>3, <2>2
  <2>5. /\ next \in Registries
        /\ next.violations >= r.violations
        /\ next.violations = r.violations => ~Reaches(r.edges, lock, list[i + 1])
        /\ next.edges \subseteq r.edges \union {edge} /\ r.edges \subseteq next.edges
    <3>1. r \in Registries /\ list[i + 1] \in Locks
      BY <1>0, <2>2, <2>4
    <3> HIDE DEF r, next
    <3> QED
      BY <2>3, <3>1, IterationTyped
  <2>6. r.violations \in Nat /\ next.violations \in Nat
    BY <2>4, <2>5 DEF Registries
  <2>7. /\ next.violations >= reg.violations
        /\ next.violations = reg.violations =>
              next.violations = r.violations /\ r.violations = reg.violations
    BY <1>0, <2>4, <2>5, <2>6
  <2>8. ASSUME next.violations = reg.violations PROVE Acyclic(next.edges)
    <3>1. Acyclic(r.edges) /\ ~Reaches(r.edges, lock, list[i + 1])
      BY <2>4, <2>5, <2>7, <2>8
    <3>2. Acyclic(r.edges \union {edge})
      BY <1>0, <2>2, <3>1, EdgeKeepsAcyclic
    <3> QED
      BY <2>5, <3>2 DEF Acyclic, Sinkless
  <2> QED
    BY <2>5, <2>7, <2>8
<1> HIDE DEF T
<1>4. Len(list) \in T
  BY <1>0, <1>2, <1>3, SetInduction
<1>5. Keeps(after[Len(list)])
  BY <1>0, <1>4 DEF T
<1> QED
  BY <1>1, <1>5

\* The loop counts nothing when every edge follows one order of the locks.
LEMMA AuditTrustsOrder ==
  ASSUME NEW list \in Seq(Locks), NEW lock \in Locks, NEW reg \in Registries,
         NEW rank \in [Locks -> Nat],
         \A pair \in reg.edges : rank[pair[1]] < rank[pair[2]],
         \A l \in Elements(list) : rank[l] < rank[lock]
  PROVE  AuditFrom(list, lock, reg).violations = reg.violations
<1> DEFINE after == After(list, lock, reg)
           Trusts(r) == /\ r \in Registries /\ r.violations = reg.violations
                        /\ \A pair \in r.edges : rank[pair[1]] < rank[pair[2]]
           T == {i \in Nat : i <= Len(list) => Trusts(after[i])}
<1>0. /\ Len(list) \in Nat
      /\ \A i \in 1..Len(list) : list[i] \in Locks /\ rank[list[i]] < rank[lock]
  BY DEF Elements
<1>1. /\ after[0] = reg
      /\ \A i \in 1..Len(list) : after[i] = Iteration(after[i - 1], list[i], lock)
      /\ AuditFrom(list, lock, reg) = after[Len(list)]
  BY AfterDefined
<1> HIDE DEF after
<1>2. 0 \in T
  BY <1>0, <1>1
<1>3. ASSUME NEW i \in Nat, i \in T PROVE i + 1 \in T
  <2>1. SUFFICES ASSUME i + 1 <= Len(list) PROVE Trusts(after[i + 1])
    OBVIOUS
  <2> DEFINE r == after[i]
             next == after[i + 1]
             edge == <<list[i + 1], lock>>
  <2>2. i + 1 \in 1..Len(list) /\ i + 1 - 1 = i /\ i <= Len(list)
    BY <1>0, <2>1
  <2>3. next = Iteration(r, list[i + 1], lock)
    BY <1>1, <2>2
  <2>4. Trusts(r)
    BY <1>3, <2>2
  <2>5. /\ next \in Registries
        /\ ~Reaches(r.edges, lock, list[i + 1]) => next.violations = r.violations
        /\ next.edges \subseteq r.edges \union {edge}
    <3>1. r \in Registries /\ list[i + 1] \in Locks
      BY <1>0, <2>2, <2>4
    <3> HIDE DEF r, next
    <3>2. ~Reaches(r.edges, lock, list[i + 1]) =>
            Iteration(r, list[i + 1], lock).violations = r.violations
      BY <3>1, IterationTyped
    <3>3. /\ Iteration(r, list[i + 1], lock) \in Registries
          /\ Iteration(r, list[i + 1], lock).edges \subseteq r.edges \union {edge}
      BY <3>1, IterationTyped
    <3> QED
      BY <2>3, <3>2, <3>3
  <2>6. ~Reaches(r.edges, lock, list[i + 1])
    <3>1. SUFFICES ASSUME Reaches(r.edges, lock, list[i + 1]) PROVE FALSE
      OBVIOUS
    <3>2. rank[lock] < rank[list[i + 1]]
      BY <2>4, <3>1, ReachedRanks
    <3>3. rank[list[i + 1]] < rank[lock] /\ rank[lock] \in Nat /\ rank[list[i + 1]] \in Nat
      BY <1>0, <2>2
    <3> QED
      BY <3>2, <3>3
  <2>7. rank[edge[1]] < rank[edge[2]]
    BY <1>0, <2>2
  <2> HIDE DEF edge
  <2> QED
    BY <2>4, <2>5, <2>6, <2>7
<1> HIDE DEF T
<1>4. Len(list) \in T
  BY <1>0, <1>2, <1>3, SetInduction
<1>5. Trusts(after[Len(list)])
  BY <1>0, <1>4 DEF T
<1> QED
  BY <1>1, <1>5

\* What before_acquire makes of the registry, a reentrant acquisition included.
LEMMA AuditedIs ==
  ASSUME NEW list \in Seq(Locks), NEW lock \in Locks, NEW reg \in Registries
  PROVE  LET done == Audited(list, lock, reg)
         IN  /\ done \in Registries
             /\ reg.edges \subseteq done.edges
             /\ done.edges \subseteq reg.edges \union {<<l, lock>> : l \in Elements(list)}
             /\ done.violations >= reg.violations /\ done.dropped >= reg.dropped
             /\ done.violations = reg.violations /\ done.dropped = reg.dropped =>
                   \A l \in Elements(list) : <<l, lock>> \in done.edges
             /\ SearchIsDeepEnough /\ Acyclic(reg.edges) /\ done.violations = reg.violations =>
                   Acyclic(done.edges)
<1>1. CASE lock \in Elements(list)
  <2> DEFINE done == [reg EXCEPT !.violations = @ + 1]
  <2>1. Audited(list, lock, reg) = done
    BY <1>1 DEF Audited
  <2>2. reg.violations \in Nat /\ reg.dropped \in Nat /\ reg.edges \in SUBSET (Locks \X Locks)
    BY DEF Registries
  <2>3. /\ done.edges = reg.edges /\ done.violations = reg.violations + 1
        /\ done.dropped = reg.dropped
        /\ done = [edges |-> reg.edges, violations |-> reg.violations + 1, dropped |-> reg.dropped]
    BY DEF Registries
  <2>4. done \in Registries
    BY <2>2, <2>3 DEF Registries
  <2> HIDE DEF done
  <2>5. done.violations # reg.violations /\ done.violations >= reg.violations /\ done.dropped >= reg.dropped
    BY <2>2, <2>3
  <2> QED
    BY <2>1, <2>3, <2>4, <2>5
<1>2. CASE lock \notin Elements(list)
  <2>1. Audited(list, lock, reg) = AuditFrom(list, lock, reg)
    BY <1>2 DEF Audited
  <2> DEFINE done == AuditFrom(list, lock, reg)
  <2>2. /\ done \in Registries /\ reg.edges \subseteq done.edges
        /\ done.edges \subseteq reg.edges \union {<<l, lock>> : l \in Elements(list)}
        /\ done.violations >= reg.violations /\ done.dropped >= reg.dropped
        /\ done.dropped = reg.dropped => \A l \in Elements(list) : <<l, lock>> \in done.edges
    BY AuditAdds
  <2>3. SearchIsDeepEnough /\ Acyclic(reg.edges) /\ done.violations = reg.violations =>
           Acyclic(done.edges)
    BY <1>2, AuditKeepsAcyclic
  <2> HIDE DEF done
  <2> QED
    BY <2>1, <2>2, <2>3 DEF done
<1> QED
  BY <1>1, <1>2

LEMMA AuditedTrusts ==
  ASSUME NEW list \in Seq(Locks), NEW lock \in Locks, NEW reg \in Registries,
         NEW rank \in [Locks -> Nat],
         \A pair \in reg.edges : rank[pair[1]] < rank[pair[2]],
         \A l \in Elements(list) : rank[l] < rank[lock]
  PROVE  Audited(list, lock, reg).violations = reg.violations
<1>1. lock \notin Elements(list)
  OBVIOUS
<1>2. Audited(list, lock, reg) = AuditFrom(list, lock, reg)
  BY <1>1 DEF Audited
<1> QED
  BY <1>2, AuditTrustsOrder
-----------------------------------------------------------------------------
(* The lists of held locks *)

LEMMA AppendElements ==
  ASSUME NEW list \in Seq(Locks), NEW lock \in Locks
  PROVE  /\ Append(list, lock) \in Seq(Locks)
         /\ Elements(Append(list, lock)) = Elements(list) \union {lock}
         /\ Injective(list) /\ lock \notin Elements(list) => Injective(Append(list, lock))
<1> DEFINE longer == Append(list, lock)
<1>1. /\ Len(list) \in Nat /\ DOMAIN list = 1..Len(list)
      /\ longer \in Seq(Locks) /\ DOMAIN longer = 1..(Len(list) + 1)
      /\ \A i \in 1..Len(list) : longer[i] = list[i]
      /\ longer[Len(list) + 1] = lock
  OBVIOUS
<1> HIDE DEF longer
<1>2. \A i \in 1..(Len(list) + 1) : i \in 1..Len(list) \/ i = Len(list) + 1
  BY <1>1
<1>3. Elements(longer) = Elements(list) \union {lock}
  <2>1. \A x : x \in Elements(longer) <=> \E i \in 1..(Len(list) + 1) : x = longer[i]
    BY <1>1 DEF Elements
  <2>2. \A x : x \in Elements(list) <=> \E i \in 1..Len(list) : x = list[i]
    BY <1>1 DEF Elements
  <2>3. \A i \in 1..Len(list) : i \in 1..(Len(list) + 1)
    BY <1>1
  <2>4. Len(list) + 1 \in 1..(Len(list) + 1)
    BY <1>1
  <2> QED
    BY <1>1, <1>2, <2>1, <2>2, <2>3, <2>4
<1>4. Injective(list) /\ lock \notin Elements(list) => Injective(longer)
  BY <1>1, <1>2 DEF Injective, Elements
<1> QED
  BY <1>1, <1>3, <1>4 DEF longer

\* after_release right after before_acquire.
LEMMA UnlistedLast ==
  ASSUME NEW list \in Seq(Locks), NEW lock \in Locks
  PROVE  Unlisted(Append(list, lock), lock) = list
<1> DEFINE longer == Append(list, lock)
           Is(i) == longer[i] = lock /\ \A j \in (i + 1)..Len(longer) : longer[j] # lock
<1>1. /\ Len(list) \in Nat /\ longer \in Seq(Locks) /\ Len(longer) = Len(list) + 1
      /\ DOMAIN longer = 1..(Len(list) + 1)
      /\ longer[Len(list) + 1] = lock
  OBVIOUS
<1>2. lock \in Elements(longer)
  BY <1>1 DEF Elements
<1>3. Len(list) + 1 \in DOMAIN longer /\ Is(Len(list) + 1)
  BY <1>1
<1>4. ASSUME NEW i \in DOMAIN longer, Is(i) PROVE i = Len(list) + 1
  <2>1. SUFFICES ASSUME i # Len(list) + 1 PROVE FALSE
    OBVIOUS
  <2>2. Len(list) + 1 \in (i + 1)..Len(longer)
    BY <1>1, <2>1
  <2> QED
    BY <1>1, <1>4, <2>2
<1> DEFINE last == CHOOSE i \in DOMAIN longer : Is(i)
<1>5. last = Len(list) + 1
  <2> HIDE DEF Is
  <2> QED
    BY <1>3, <1>4
<1>6. Unlisted(longer, lock) = SubSeq(longer, 1, last - 1) \o SubSeq(longer, last + 1, Len(longer))
  BY <1>2 DEF Unlisted
<1> HIDE DEF last
<1>7. SubSeq(longer, 1, last - 1) = list
  <2>1. last - 1 = Len(list)
    BY <1>1, <1>5
  <2> QED
    BY <1>1, <2>1
<1>8. SubSeq(longer, last + 1, Len(longer)) = <<>>
  BY <1>1, <1>5
<1>9. list \o <<>> = list
  OBVIOUS
<1> QED
  BY <1>6, <1>7, <1>8, <1>9

\* after_release of a lock that is listed once at most.
LEMMA UnlistedOnce ==
  ASSUME NEW list \in Seq(Locks), NEW lock, Injective(list)
  PROVE  LET shorter == Unlisted(list, lock)
         IN  /\ shorter \in Seq(Locks) /\ Injective(shorter)
             /\ Elements(shorter) = Elements(list) \ {lock}
<1>1. CASE lock \notin Elements(list)
  <2>1. Unlisted(list, lock) = list
    BY <1>1 DEF Unlisted
  <2> QED
    BY <1>1, <2>1
<1>2. CASE lock \in Elements(list)
  <2> DEFINE Is(i) == list[i] = lock /\ \A j \in (i + 1)..Len(list) : list[j] # lock
             last == CHOOSE i \in DOMAIN list : Is(i)
             n == Len(list)
             head == SubSeq(list, 1, last - 1)
             tail == SubSeq(list, last + 1, n)
             shorter == head \o tail
  <2>0. n \in Nat /\ DOMAIN list = 1..n
    OBVIOUS
  <2>1. PICK i \in 1..n : list[i] = lock
    BY <1>2 DEF Elements
  <2>2. Is(i)
    BY <2>0, <2>1 DEF Injective
  <2>3. last \in DOMAIN list /\ Is(last)
    <3> HIDE DEF Is
    <3> QED
      BY <2>0, <2>2
  <2>4. Unlisted(list, lock) = shorter
    BY <1>2 DEF Unlisted
  <2>5. list[last] = lock /\ last \in 1..n
    BY <2>0, <2>3
  <2> HIDE DEF last, Is
  <2>6. /\ head \in Seq(Locks) /\ Len(head) = last - 1 /\ \A k \in 1..(last - 1) : head[k] = list[k]
    BY <2>0, <2>5
  <2>7. /\ tail \in Seq(Locks) /\ Len(tail) = n - last
        /\ \A k \in 1..(n - last) : tail[k] = list[last + k]
    <3>1. CASE last = n
      BY <2>0, <2>5, <3>1
    <3>2. CASE last # n
      <4>1. last + 1 \in 1..n /\ n - (last + 1) + 1 = n - last /\ last + 1 <= n
        <5>1. n \in Nat /\ last \in 1..n /\ last # n
          BY <2>0, <2>5, <3>2
        <5> HIDE DEF n
        <5> QED
          BY <5>1
      <4>2. tail \in Seq(Locks)
        BY <2>0, <4>1
      <4>3. Len(tail) = n - last
        BY <2>0, <2>5, <4>1
      <4>4. \A k \in 1..(n - last) : tail[k] = list[last + k]
        BY <2>0, <2>5, <4>1
      <4> QED
        BY <4>2, <4>3, <4>4
    <3> QED
      BY <3>1, <3>2
  <2> HIDE DEF head, tail
  <2>8. /\ shorter \in Seq(Locks) /\ DOMAIN shorter = 1..(n - 1)
        /\ \A k \in 1..(last - 1) : shorter[k] = list[k]
        /\ \A k \in last..(n - 1) : shorter[k] = list[k + 1]
    <3>1. shorter \in Seq(Locks) /\ Len(shorter) = Len(head) + Len(tail)
      <4>1. head \in Seq(Locks) /\ tail \in Seq(Locks)
        BY <2>6, <2>7
      <4> QED
        BY <4>1
    <3>2. DOMAIN shorter = 1..(n - 1)
      <4>1. Len(head) + Len(tail) = n - 1
        BY <2>0, <2>5, <2>6, <2>7
      <4>2. DOMAIN shorter = 1..Len(shorter)
        BY <3>1
      <4> QED
        BY <3>1, <4>1, <4>2
    <3>3. \A k \in 1..(last - 1) : shorter[k] = list[k]
      BY <2>0, <2>5, <2>6, <2>7
    <3>4. ASSUME NEW k \in last..(n - 1) PROVE shorter[k] = list[k + 1]
      <4>1. k - Len(head) \in 1..(n - last) /\ last + (k - Len(head)) = k + 1
        BY <2>0, <2>5, <2>6
      <4>2. shorter[k] = tail[k - Len(head)]
        BY <2>0, <2>5, <2>6, <2>7
      <4> QED
        BY <2>7, <4>1, <4>2
    <3> QED
      BY <3>1, <3>2, <3>3, <3>4
  <2> HIDE DEF shorter
  <2>9. \A k \in 1..(n - 1) : \/ k \in 1..(last - 1) /\ shorter[k] = list[k]
                              \/ k \in last..(n - 1) /\ shorter[k] = list[k + 1]
    BY <2>0, <2>5, <2>8
  <2>10. Injective(shorter)
    <3>1. SUFFICES ASSUME NEW k \in 1..(n - 1), NEW m \in 1..(n - 1), shorter[k] = shorter[m]
                   PROVE  k = m
      BY <2>8 DEF Injective
    <3>2. \A a, b \in 1..n : list[a] = list[b] => a = b
      BY <2>0 DEF Injective
    <3> QED
      BY <2>0, <2>5, <2>9, <3>1, <3>2
  <2>11. ASSUME NEW x \in Elements(shorter) PROVE x \in Elements(list) \ {lock}
    <3>1. PICK k \in 1..(n - 1) : x = shorter[k]
      BY <2>8 DEF Elements
    <3>2. \E a \in 1..n : a # last /\ x = list[a]
      BY <2>0, <2>5, <2>9, <3>1
    <3> QED
      BY <2>0, <2>5, <3>2 DEF Elements, Injective
  <2>12. ASSUME NEW x \in Elements(list) \ {lock} PROVE x \in Elements(shorter)
    <3>1. PICK a \in 1..n : x = list[a]
      BY <2>0 DEF Elements
    <3>2. a # last
      BY <2>5, <3>1
    <3>3. CASE a < last
      <4>1. a \in 1..(last - 1) /\ a \in 1..(n - 1)
        BY <2>0, <2>5, <3>3
      <4> QED
        BY <2>8, <3>1, <4>1 DEF Elements
    <3>4. CASE a > last
      <4>1. a - 1 \in last..(n - 1) /\ a - 1 \in 1..(n - 1) /\ a - 1 + 1 = a
        BY <2>0, <2>5, <3>4
      <4>2. x = shorter[a - 1]
        BY <2>8, <3>1, <4>1
      <4> QED
        BY <2>8, <4>1, <4>2 DEF Elements
    <3> QED
      BY <2>0, <2>5, <3>2, <3>3, <3>4
  <2> QED
    BY <2>4, <2>8, <2>10, <2>11, <2>12
<1> QED
  BY <1>1, <1>2
-----------------------------------------------------------------------------
(* The invariant is inductive *)

LEMMA InitInv == Init => IInv
<1> SUFFICES ASSUME Init PROVE IInv
  OBVIOUS
<1>1. TypeOK
  BY DEF Init, TypeOK
<1>2. \A t \in Threads : /\ held[t] = <<>> /\ owns[t] = {} /\ wants[t] = NoWant
                         /\ Elements(held[t]) = {} /\ Owned(t) = {} /\ DOMAIN held[t] = {}
  BY DEF Init, Elements, Owned
<1>3. OwnInv
  BY <1>2 DEF OwnInv
<1>4. ListInv
  BY <1>2 DEF ListInv, ListFits, Lists, Injective
<1>5. AlarmInv
  BY DEF Init, AlarmInv
<1>6. GraphInv
  <2>1. Acyclic(edges)
    BY DEF Init, Acyclic, Sinkless
  <2> QED
    BY <1>2, <2>1 DEF GraphInv
<1> QED
  BY <1>1, <1>3, <1>4, <1>5, <1>6 DEF IInv

\* Locks that are left out later do not change what a list holds.
LEMMA StillFits ==
  ASSUME NEW list, NEW locks, NEW want, NEW m \in Nat, NEW n \in Nat, n >= m,
         ListFits(list, locks, want, m)
  PROVE  ListFits(list, locks, want, n)
<1>1. n = 0 => m = 0
  OBVIOUS
<1>2. m > 0 => n > 0
  OBVIOUS
<1> QED
  BY <1>1, <1>2 DEF ListFits, Lists

LEMMA AcquireInv ==
  ASSUME IInv, NEW t \in Threads, NEW lock \in Locks, NEW mode \in Modes,
         NEW kind \in {"block", "try"}, Acquire(t, lock, mode, kind)
  PROVE  IInv'
<1> DEFINE reg == [edges |-> edges, violations |-> violations, dropped |-> dropped]
           done == Audited(held[t], lock, reg)
           want == [kind |-> kind, lock |-> lock, mode |-> mode]
<1>0. TypeOK /\ OwnInv /\ ListInv /\ AlarmInv /\ GraphInv
  BY DEF IInv
<1>1. /\ wants[t] = NoWant /\ wants' = [wants EXCEPT ![t] = want] /\ UNCHANGED owns
      /\ held' = [held EXCEPT ![t] = Listed(held[t], lock)]
      /\ edges' = done.edges /\ violations' = done.violations /\ dropped' = done.dropped
      /\ unlisted' = unlisted + (IF Len(held[t]) >= MaxHeldPerThread THEN 1 ELSE 0)
      /\ nested' = nested \union {<<l, lock>> : l \in Owned(t)}
  <2>1. BeforeAcquire(t, lock, mode)
    BY DEF Acquire
  <2>2. /\ edges' = done.edges /\ violations' = done.violations /\ dropped' = done.dropped
        /\ unlisted' = unlisted + (IF Len(held[t]) >= MaxHeldPerThread THEN 1 ELSE 0)
        /\ nested' = nested \union {<<l, lock>> : l \in Owned(t)}
    BY <2>1 DEF BeforeAcquire, Audit
  <2>3. held' = [held EXCEPT ![t] = Listed(held[t], lock)]
    BY <1>0, <2>1 DEF BeforeAcquire, TypeOK
  <2>4. wants[t] = NoWant /\ wants' = [wants EXCEPT ![t] = want] /\ UNCHANGED owns
    BY DEF Acquire
  <2> QED
    BY <2>2, <2>3, <2>4
<1>2. held[t] \in Seq(Locks) /\ reg \in Registries /\ want \in Wanted /\ want # NoWant
  BY <1>0 DEF TypeOK, Registries, Wanted, NoWant
<1>3. /\ done \in Registries /\ edges \subseteq done.edges
      /\ done.edges \subseteq edges \union {<<l, lock>> : l \in Elements(held[t])}
      /\ done.violations >= violations /\ done.dropped >= dropped
      /\ done.violations = violations /\ done.dropped = dropped =>
            \A l \in Elements(held[t]) : <<l, lock>> \in done.edges
      /\ SearchIsDeepEnough /\ Acyclic(edges) /\ done.violations = violations => Acyclic(done.edges)
  BY <1>2, AuditedIs
<1> HIDE DEF done
<1>4. Lists(held[t], Owned(t), unlisted)
  BY <1>0, <1>1 DEF ListInv, ListFits
<1>5. Owned(t) \subseteq Locks /\ \A u \in Threads : Owned(u)' = Owned(u)
  BY <1>0, <1>1 DEF Owned, TypeOK
<1>6. /\ unlisted \in Nat /\ unlisted' \in Nat /\ unlisted' >= unlisted
      /\ violations \in Nat /\ violations' \in Nat /\ dropped \in Nat /\ dropped' \in Nat
      /\ violations' >= violations /\ dropped' >= dropped
  <2>1. unlisted \in Nat /\ violations \in Nat /\ dropped \in Nat
    BY <1>0 DEF TypeOK
  <2>2. done.violations \in Nat /\ done.dropped \in Nat
    BY <1>3 DEF Registries
  <2>3. violations' \in Nat /\ dropped' \in Nat /\ violations' >= violations /\ dropped' >= dropped
    BY <1>1, <1>3, <2>2
  <2>4. unlisted' \in Nat /\ unlisted' >= unlisted
    BY <1>1, <2>1
  <2> QED
    BY <2>1, <2>3, <2>4
<1>7. TypeOK'
  <2>1. Listed(held[t], lock) \in Seq(Locks)
    BY <1>2 DEF Listed
  <2>2. held' \in [Threads -> Seq(Locks)]
    BY <1>0, <1>1, <2>1 DEF TypeOK
  <2>3. wants' \in [Threads -> {NoWant} \union Wanted]
    BY <1>0, <1>1, <1>2 DEF TypeOK
  <2>4. edges' \subseteq Locks \X Locks
    BY <1>1, <1>3 DEF Registries
  <2>5. nested' \subseteq Locks \X Locks
    <3>1. nested \subseteq Locks \X Locks
      BY <1>0 DEF TypeOK
    <3>2. {<<l, lock>> : l \in Owned(t)} \subseteq Locks \X Locks
      BY <1>5
    <3>3. nested' = nested \union {<<l, lock>> : l \in Owned(t)}
      BY <1>1
    <3> QED
      BY <3>1, <3>2, <3>3
  <2> QED
    BY <1>0, <1>1, <1>6, <2>2, <2>3, <2>4, <2>5 DEF TypeOK
<1>8. OwnInv'
  BY <1>0, <1>1 DEF OwnInv
<1>9. ListInv'
  <2>1. SUFFICES ASSUME NEW u \in Threads
                 PROVE  ListFits(held'[u], Owned(u), wants'[u], unlisted')
    BY <1>5 DEF ListInv
  <2>2. CASE u # t
    <3>1. held'[u] = held[u] /\ wants'[u] = wants[u]
      BY <1>0, <1>1, <2>2 DEF TypeOK
    <3>2. ListFits(held[u], Owned(u), wants[u], unlisted)
      BY <1>0 DEF ListInv
    <3> QED
      BY <1>6, <3>1, <3>2, StillFits
  <2>3. CASE u = t
    <3>1. held'[t] = Listed(held[t], lock) /\ wants'[t] = want
      BY <1>0, <1>1 DEF TypeOK
    <3>2. Len(held[t]) \in Nat /\ MaxHeldPerThread \in Nat
      <4>1. Len(held[t]) \in Nat
        BY <1>2
      <4>2. MaxHeldPerThread \in Nat
        BY LockTrackerAssumption
      <4> QED
        BY <4>1, <4>2
    <3>3. CASE Len(held[t]) < MaxHeldPerThread
      <4>1. unlisted' = unlisted
        <5>1. unlisted' = unlisted + (IF Len(held[t]) >= MaxHeldPerThread THEN 1 ELSE 0)
          BY <1>1
        <5>2. ~(Len(held[t]) >= MaxHeldPerThread)
          BY <3>2, <3>3
        <5>3. unlisted \in Nat
          BY <1>6
        <5> QED
          BY <5>1, <5>2, <5>3
      <4>2. held'[t] = Append(held[t], want.lock)
        BY <3>1, <3>3 DEF Listed
      <4> QED
        BY <1>2, <1>4, <2>3, <3>1, <4>1, <4>2 DEF ListFits
    <3>4. CASE ~(Len(held[t]) < MaxHeldPerThread)
      <4>1. unlisted' = unlisted + 1
        <5>1. unlisted' = unlisted + (IF Len(held[t]) >= MaxHeldPerThread THEN 1 ELSE 0)
          BY <1>1
        <5>2. Len(held[t]) >= MaxHeldPerThread
          BY <3>2, <3>4
        <5> QED
          BY <5>1, <5>2
      <4>2. unlisted' > 0 /\ unlisted' # 0
        BY <1>6, <4>1
      <4>3. held'[t] = held[t]
        BY <3>1, <3>4 DEF Listed
      <4> QED
        BY <1>4, <2>3, <4>2, <4>3 DEF ListFits, Lists
    <3> QED
      BY <3>3, <3>4
  <2> QED
    BY <2>2, <2>3
<1>10. AlarmInv'
  <2>1. edges' \subseteq nested'
    BY <1>0, <1>1, <1>3, <1>4 DEF AlarmInv, Lists
  <2>2. ASSUME violations' > 0, Ordered(nested)' PROVE FALSE
    <3>1. PICK rank \in [Locks -> 1..Cardinality(Locks)] :
              \A pair \in nested' : rank[pair[1]] < rank[pair[2]]
      BY <2>2 DEF Ordered
    <3>2. rank \in [Locks -> Nat]
      OBVIOUS
    <3>3. \A pair \in nested : rank[pair[1]] < rank[pair[2]]
      BY <1>1, <3>1
    <3>4. Ordered(nested)
      BY <3>3 DEF Ordered
    <3>5. violations = 0
      BY <1>0, <1>6, <3>4 DEF AlarmInv
    <3>6. \A pair \in reg.edges : rank[pair[1]] < rank[pair[2]]
      BY <1>0, <3>3 DEF AlarmInv
    <3>7. \A l \in Elements(held[t]) : rank[l] < rank[lock]
      <4>1. TAKE l \in Elements(held[t])
      <4>2. <<l, lock>> \in nested'
        BY <1>1, <1>4 DEF Lists
      <4> QED
        BY <3>1, <4>2
    <3>8. done.violations = reg.violations
      BY <1>2, <3>2, <3>6, <3>7, AuditedTrusts DEF done
    <3>9. reg.violations = violations /\ violations' = done.violations
      BY <1>1
    <3>10. violations' = 0
      BY <3>5, <3>8, <3>9
    <3> QED
      BY <2>2, <3>10
  <2> QED
    BY <2>1, <2>2 DEF AlarmInv
<1>11. GraphInv'
  <2>1. SUFFICES ASSUME Quiet', SearchIsDeepEnough
                 PROVE  /\ Acyclic(edges')
                        /\ \A u \in Threads : wants'[u] # NoWant =>
                               \A l \in Owned(u) : <<l, wants'[u].lock>> \in edges'
    BY <1>5 DEF GraphInv
  <2>2. /\ violations = 0 /\ dropped = 0 /\ unlisted = 0 /\ Quiet
        /\ done.violations = violations /\ done.dropped = dropped
    <3> HIDE DEF done
    <3> QED
      BY <1>1, <1>6, <2>1 DEF Quiet
  <2>3. /\ Acyclic(edges)
        /\ \A u \in Threads : wants[u] # NoWant =>
               \A l \in Owned(u) : <<l, wants[u].lock>> \in edges
    BY <1>0, <2>1, <2>2 DEF GraphInv
  <2>4. Acyclic(edges')
    BY <1>1, <1>3, <2>1, <2>2, <2>3
  <2>5. ASSUME NEW u \in Threads, wants'[u] # NoWant, NEW l \in Owned(u)
        PROVE  <<l, wants'[u].lock>> \in edges'
    <3>1. CASE u # t
      <4>1. wants'[u] = wants[u]
        BY <1>0, <1>1, <3>1 DEF TypeOK
      <4>2. <<l, wants[u].lock>> \in edges
        BY <2>3, <2>5, <4>1
      <4> QED
        BY <1>1, <1>3, <4>1, <4>2
    <3>2. CASE u = t
      <4>1. wants'[t].lock = lock
        BY <1>0, <1>1 DEF TypeOK
      <4>2. l \in Elements(held[t])
        BY <1>4, <2>2, <2>5, <3>2 DEF Lists
      <4> QED
        BY <1>1, <1>3, <2>2, <3>2, <4>1, <4>2
    <3> QED
      BY <3>1, <3>2
  <2> QED
    BY <2>4, <2>5
<1> QED
  BY <1>7, <1>8, <1>9, <1>10, <1>11 DEF IInv

LEMMA TakeInv ==
  ASSUME IInv, NEW t \in Threads, Take(t)
  PROVE  IInv'
<1> DEFINE w == wants[t]
           new == [lock |-> w.lock, mode |-> w.mode]
<1>0. TypeOK /\ OwnInv /\ ListInv /\ AlarmInv /\ GraphInv
  BY DEF IInv
<1>1. /\ w # NoWant /\ w.lock \notin Owned(t)
      /\ owns' = [owns EXCEPT ![t] = owns[t] \union {new}]
      /\ wants' = [wants EXCEPT ![t] = NoWant]
      /\ UNCHANGED <<held, edges, violations, dropped, nested, unlisted>>
  BY <1>0 DEF Take, auditless, TypeOK
<1>2. w \in Wanted
  BY <1>0, <1>1 DEF TypeOK
<1>3. w.lock \in Locks /\ w.mode \in Modes /\ new \in [lock : Locks, mode : Modes] /\ new.lock = w.lock
  BY <1>2 DEF Wanted
<1> HIDE DEF new, w
<1>4. /\ owns'[t] = owns[t] \union {new} /\ wants'[t] = NoWant
      /\ \A u \in Threads : u # t => owns'[u] = owns[u] /\ wants'[u] = wants[u]
  BY <1>0, <1>1 DEF TypeOK
<1>5. TypeOK'
  <2>1. owns' \in [Threads -> SUBSET [lock : Locks, mode : Modes]]
    BY <1>0, <1>1, <1>3 DEF TypeOK
  <2>2. wants' \in [Threads -> {NoWant} \union Wanted]
    BY <1>0, <1>1 DEF TypeOK
  <2> QED
    BY <1>0, <1>1, <2>1, <2>2 DEF TypeOK
<1>6. Owned(t)' = Owned(t) \union {w.lock} /\ \A u \in Threads : u # t => Owned(u)' = Owned(u)
  BY <1>3, <1>4 DEF Owned
<1>7. OwnInv'
  <2>1. SUFFICES ASSUME NEW u \in Threads, NEW o \in owns'[u], NEW p \in owns'[u], o.lock = p.lock
                 PROVE  o = p
    BY DEF OwnInv
  <2>2. CASE u # t
    BY <1>0, <1>4, <2>1, <2>2 DEF OwnInv
  <2>3. CASE u = t
    <3>1. \A x \in owns[t] : x.lock # new.lock
      BY <1>1, <1>3 DEF Owned
    <3> QED
      BY <1>0, <1>4, <2>1, <2>3, <3>1 DEF OwnInv
  <2> QED
    BY <2>2, <2>3
<1>8. ListInv'
  <2>1. SUFFICES ASSUME NEW u \in Threads
                 PROVE  ListFits(held[u], Owned(u)', wants'[u], unlisted)
    BY <1>1 DEF ListInv
  <2>2. ListFits(held[u], Owned(u), wants[u], unlisted)
    BY <1>0 DEF ListInv
  <2>3. CASE u # t
    BY <1>4, <1>6, <2>2, <2>3
  <2>4. CASE u = t
    <3>1. CASE Lists(held[t], Owned(t), unlisted) /\ unlisted > 0
      <4>1. unlisted # 0
        BY <1>0, <3>1 DEF TypeOK
      <4> QED
        BY <1>4, <1>6, <2>4, <3>1, <4>1 DEF ListFits, Lists
    <3>2. CASE \E before \in Seq(Locks) :
                  Lists(before, Owned(t), unlisted) /\ held[t] = Append(before, w.lock)
      <4>1. PICK before \in Seq(Locks) :
                  Lists(before, Owned(t), unlisted) /\ held[t] = Append(before, w.lock)
        BY <3>2
      <4>2. /\ Elements(held[t]) = Elements(before) \union {w.lock}
            /\ Injective(before) /\ w.lock \notin Elements(before) => Injective(held[t])
        BY <1>3, <4>1, AppendElements
      <4>3. Injective(before) /\ w.lock \notin Elements(before)
        BY <1>1, <4>1 DEF Lists
      <4> QED
        BY <1>4, <1>6, <2>4, <4>1, <4>2, <4>3 DEF ListFits, Lists
    <3> QED
      BY <1>1, <2>2, <2>4, <3>1, <3>2 DEF ListFits, w
  <2> QED
    BY <2>3, <2>4
<1>9. AlarmInv'
  BY <1>0, <1>1 DEF AlarmInv, Ordered
<1>10. GraphInv'
  BY <1>0, <1>1, <1>4, <1>6 DEF GraphInv, Quiet
<1> QED
  BY <1>5, <1>7, <1>8, <1>9, <1>10 DEF IInv

LEMMA TryFailsInv ==
  ASSUME IInv, NEW t \in Threads, TryFails(t)
  PROVE  IInv'
<1> DEFINE w == wants[t]
<1>0. TypeOK /\ OwnInv /\ ListInv /\ AlarmInv /\ GraphInv
  BY DEF IInv
<1>1. /\ w.kind = "try"
      /\ held' = [held EXCEPT ![t] = Unlisted(held[t], w.lock)]
      /\ wants' = [wants EXCEPT ![t] = NoWant]
      /\ UNCHANGED <<owns, edges, violations, dropped, nested, unlisted>>
  BY <1>0 DEF TryFails, AfterFailedTry, auditless, TypeOK
<1>2. w # NoWant
  BY <1>1 DEF NoWant
<1>3. w \in Wanted /\ held[t] \in Seq(Locks)
  BY <1>0, <1>2 DEF TypeOK
<1>4. w.lock \in Locks
  BY <1>3 DEF Wanted
<1> DEFINE shorter == Unlisted(held[t], w.lock)
<1>5. shorter \in Seq(Locks) /\ Lists(shorter, Owned(t), unlisted)
  <2>1. ListFits(held[t], Owned(t), w, unlisted)
    BY <1>0 DEF ListInv
  <2> HIDE DEF w
  <2>2. CASE Lists(held[t], Owned(t), unlisted) /\ unlisted > 0
    <3>1. unlisted # 0
      BY <1>0, <2>2 DEF TypeOK
    <3>2. shorter \in Seq(Locks) /\ Injective(shorter) /\ Elements(shorter) = Elements(held[t]) \ {w.lock}
      BY <1>3, <2>2, UnlistedOnce DEF Lists
    <3> HIDE DEF shorter
    <3> QED
      BY <2>2, <3>1, <3>2 DEF Lists
  <2>3. CASE \E before \in Seq(Locks) :
                Lists(before, Owned(t), unlisted) /\ held[t] = Append(before, w.lock)
    <3>1. PICK before \in Seq(Locks) :
                Lists(before, Owned(t), unlisted) /\ held[t] = Append(before, w.lock)
      BY <2>3
    <3>2. shorter = before
      BY <1>4, <3>1, UnlistedLast
    <3> QED
      BY <3>1, <3>2
  <2> QED
    BY <1>2, <2>1, <2>2, <2>3 DEF ListFits
<1> HIDE DEF shorter
<1>6. /\ held'[t] = shorter /\ wants'[t] = NoWant
      /\ \A u \in Threads : u # t => held'[u] = held[u] /\ wants'[u] = wants[u]
      /\ \A u \in Threads : Owned(u)' = Owned(u)
  BY <1>0, <1>1 DEF TypeOK, Owned, shorter
<1>7. TypeOK'
  <2>1. held' \in [Threads -> Seq(Locks)]
    BY <1>0, <1>1, <1>5 DEF TypeOK, shorter
  <2>2. wants' \in [Threads -> {NoWant} \union Wanted]
    BY <1>0, <1>1 DEF TypeOK
  <2> QED
    BY <1>0, <1>1, <2>1, <2>2 DEF TypeOK
<1>8. OwnInv'
  BY <1>0, <1>1 DEF OwnInv
<1>9. ListInv'
  <2>1. SUFFICES ASSUME NEW u \in Threads
                 PROVE  ListFits(held'[u], Owned(u), wants'[u], unlisted)
    BY <1>1, <1>6 DEF ListInv
  <2>2. CASE u # t
    BY <1>0, <1>6, <2>2 DEF ListInv
  <2>3. CASE u = t
    BY <1>5, <1>6, <2>3 DEF ListFits
  <2> QED
    BY <2>2, <2>3
<1>10. AlarmInv'
  BY <1>0, <1>1 DEF AlarmInv, Ordered
<1>11. GraphInv'
  <2>1. SUFFICES ASSUME Quiet', SearchIsDeepEnough
                 PROVE  /\ Acyclic(edges')
                        /\ \A u \in Threads : wants'[u] # NoWant =>
                               \A l \in Owned(u)' : <<l, wants'[u].lock>> \in edges'
    BY DEF GraphInv, SearchIsDeepEnough
  <2>2. edges' = edges /\ Quiet
    BY <1>1, <2>1 DEF Quiet
  <2>3. /\ Acyclic(edges)
        /\ \A u \in Threads : wants[u] # NoWant => \A l \in Owned(u) : <<l, wants[u].lock>> \in edges
    BY <1>0, <2>1, <2>2 DEF GraphInv
  <2>4. ASSUME NEW u \in Threads, wants'[u] # NoWant
        PROVE  \A l \in Owned(u)' : <<l, wants'[u].lock>> \in edges'
    <3>1. u # t /\ wants'[u] = wants[u] /\ Owned(u)' = Owned(u)
      BY <1>6, <2>4
    <3> QED
      BY <2>2, <2>3, <2>4, <3>1
  <2> QED
    BY <2>2, <2>3, <2>4
<1> QED
  BY <1>7, <1>8, <1>9, <1>10, <1>11 DEF IInv

LEMMA ReleaseInv ==
  ASSUME IInv, NEW t \in Threads, NEW o \in owns[t], Release(t, o)
  PROVE  IInv'
<1> DEFINE shorter == Unlisted(held[t], o.lock)
<1>0. TypeOK /\ OwnInv /\ ListInv /\ AlarmInv /\ GraphInv
  BY DEF IInv
<1>1. /\ wants[t] = NoWant
      /\ owns' = [owns EXCEPT ![t] = owns[t] \ {o}]
      /\ held' = [held EXCEPT ![t] = shorter]
      /\ UNCHANGED <<wants, edges, violations, dropped, nested, unlisted>>
  BY <1>0 DEF Release, auditless, TypeOK
<1>2. held[t] \in Seq(Locks) /\ Lists(held[t], Owned(t), unlisted)
  BY <1>0, <1>1 DEF TypeOK, ListInv, ListFits
<1>3. shorter \in Seq(Locks) /\ Injective(shorter) /\ Elements(shorter) = Elements(held[t]) \ {o.lock}
  BY <1>2, UnlistedOnce DEF Lists
<1> HIDE DEF shorter
<1>4. /\ held'[t] = shorter /\ owns'[t] = owns[t] \ {o}
      /\ \A u \in Threads : u # t => held'[u] = held[u] /\ owns'[u] = owns[u]
  BY <1>0, <1>1 DEF TypeOK
<1>5. Owned(t)' = Owned(t) \ {o.lock} /\ \A u \in Threads : u # t => Owned(u)' = Owned(u)
  <2>1. \A p \in owns[t] : p.lock = o.lock => p = o
    BY <1>0 DEF OwnInv
  <2> QED
    BY <1>4, <2>1 DEF Owned
<1>6. TypeOK'
  <2>1. held' \in [Threads -> Seq(Locks)]
    BY <1>0, <1>1, <1>3 DEF TypeOK
  <2>2. owns' \in [Threads -> SUBSET [lock : Locks, mode : Modes]]
    BY <1>0, <1>1 DEF TypeOK
  <2> QED
    BY <1>0, <1>1, <2>1, <2>2 DEF TypeOK
<1>7. OwnInv'
  <2>1. SUFFICES ASSUME NEW u \in Threads, NEW p \in owns'[u], NEW q \in owns'[u], p.lock = q.lock
                 PROVE  p = q
    BY DEF OwnInv
  <2>2. p \in owns[u] /\ q \in owns[u]
    BY <1>4
  <2> QED
    BY <1>0, <2>1, <2>2 DEF OwnInv
<1>8. ListInv'
  <2>1. SUFFICES ASSUME NEW u \in Threads
                 PROVE  ListFits(held'[u], Owned(u)', wants[u], unlisted)
    BY <1>1 DEF ListInv
  <2>2. CASE u # t
    BY <1>0, <1>4, <1>5, <2>2 DEF ListInv
  <2>3. CASE u = t
    BY <1>1, <1>2, <1>3, <1>4, <1>5, <2>3 DEF ListFits, Lists
  <2> QED
    BY <2>2, <2>3
<1>9. AlarmInv'
  BY <1>0, <1>1 DEF AlarmInv, Ordered
<1>10. GraphInv'
  BY <1>0, <1>1, <1>5 DEF GraphInv, Quiet
<1> QED
  BY <1>6, <1>7, <1>8, <1>9, <1>10 DEF IInv

LEMMA ResetInv ==
  ASSUME IInv, ResetTracking
  PROVE  IInv'
<1>0. TypeOK /\ OwnInv /\ ListInv
  BY DEF IInv
<1>1. /\ \A t \in Threads : owns[t] = {} /\ wants[t] = NoWant
      /\ edges' = {} /\ violations' = 0 /\ dropped' = 0 /\ nested' = {} /\ unlisted' = 0
      /\ held' = held /\ owns' = owns /\ wants' = wants
  BY DEF ResetTracking
<1>2. TypeOK' /\ OwnInv'
  BY <1>0, <1>1 DEF TypeOK, OwnInv
<1>3. ListInv'
  <2>1. SUFFICES ASSUME NEW t \in Threads
                 PROVE  ListFits(held[t], {}, NoWant, 0)
    BY <1>1 DEF ListInv, Owned
  <2>2. ListFits(held[t], {}, NoWant, unlisted)
    BY <1>0, <1>1 DEF ListInv, Owned
  <2> QED
    BY <2>2 DEF ListFits, Lists
<1>4. AlarmInv'
  BY <1>1 DEF AlarmInv
<1>5. GraphInv'
  <2>1. Acyclic({})
    BY DEF Acyclic, Sinkless
  <2> QED
    BY <1>1, <2>1 DEF GraphInv
<1> QED
  BY <1>2, <1>3, <1>4, <1>5 DEF IInv

LEMMA NextInv == IInv /\ [Next]_vars => IInv'
<1> SUFFICES ASSUME IInv, [Next]_vars PROVE IInv'
  OBVIOUS
<1>1. ASSUME NEW t \in Threads, NEW lock \in Locks, NEW mode \in Modes, NEW kind \in {"block", "try"},
             Acquire(t, lock, mode, kind)
      PROVE  IInv'
  BY <1>1, AcquireInv
<1>2. ASSUME NEW t \in Threads, Take(t) PROVE IInv'
  BY <1>2, TakeInv
<1>3. ASSUME NEW t \in Threads, TryFails(t) PROVE IInv'
  BY <1>3, TryFailsInv
<1>4. ASSUME NEW t \in Threads, NEW o \in owns[t], Release(t, o) PROVE IInv'
  BY <1>4, ReleaseInv
<1>5. CASE ResetTracking
  BY <1>5, ResetInv
<1>6. CASE UNCHANGED vars
  BY <1>6 DEF vars, IInv, TypeOK, OwnInv, ListInv, AlarmInv, GraphInv, Quiet, Owned, Ordered
<1> QED
  BY <1>1, <1>2, <1>3, <1>4, <1>5, <1>6 DEF Next

-----------------------------------------------------------------------------
(* What the audit promises *)

\* Where the lists and the graph stand in every reachable state: a list holds
\* what its thread has and the lock it is acquiring (before_acquire and
\* after_release, lock_tracker.cpp), the graph only orders that occurred, and
\* as long as nothing was reported or left out every order that occurred, with
\* no cycle.
THEOREM AuditInvariant == Spec => []IInv
<1> QED
  BY InitInv, NextInv, PTL DEF Spec

\* The audit counts no violation while the threads nest the locks they hold in
\* some fixed order, whatever tries fail, in whatever order locks are released
\* and however full lists and graph are (before_acquire, after_release).
THEOREM AlarmsJustified == Spec => []NoFalseAlarm
<1>1. IInv => NoFalseAlarm
  BY DEF IInv, AlarmInv, NoFalseAlarm
<1> QED
  BY <1>1, AuditInvariant, PTL

\* Threads that wait for each other give the graph a set of locks without a
\* sink: the locks they wait for.
LEMMA DeadlockNeedsCycle ==
  ASSUME IInv, Quiet, SearchIsDeepEnough, Deadlocked
  PROVE  FALSE
<1>1. PICK stuck \in SUBSET Waiting :
         stuck # {} /\ \A t \in stuck : \E u \in stuck : Blocks(u, t)
  BY DEF Deadlocked
<1>2. /\ Acyclic(edges)
      /\ \A t \in Threads : wants[t] # NoWant => \A l \in Owned(t) : <<l, wants[t].lock>> \in edges
  BY DEF IInv, GraphInv
<1>3. \A t \in stuck : t \in Threads /\ wants[t] # NoWant /\ wants[t].lock \in Locks
  <2>1. SUFFICES ASSUME NEW t \in stuck
                 PROVE  t \in Threads /\ wants[t] # NoWant /\ wants[t].lock \in Locks
    OBVIOUS
  <2>2. t \in Threads /\ wants[t].kind = "block"
    BY DEF Waiting
  <2>3. wants[t] # NoWant
    BY <2>2 DEF NoWant
  <2>4. wants[t] \in Wanted
    BY <2>2, <2>3 DEF IInv, TypeOK
  <2> QED
    BY <2>2, <2>3, <2>4 DEF Wanted
<1> DEFINE waitedFor == {wants[t].lock : t \in stuck}
<1>4. ASSUME NEW t \in stuck, NEW u \in stuck, NEW o \in owns[u], o.lock = wants[t].lock
      PROVE  <<wants[t].lock, wants[u].lock>> \in edges
  BY <1>2, <1>3, <1>4 DEF Owned
<1>5. ASSUME NEW t \in stuck
      PROVE  \E u \in stuck : <<wants[t].lock, wants[u].lock>> \in edges
  <2>1. PICK u \in stuck : Blocks(u, t)
    BY <1>1
  <2>2. CASE \E o \in owns[u] : o.lock = wants[t].lock
    BY <1>4, <2>2
  <2>3. CASE wants[u].lock = wants[t].lock /\ wants[u].mode = "exclusive"
    <3>1. PICK v \in stuck : Blocks(v, u)
      BY <1>1
    <3>2. PICK o \in owns[v] : o.lock = wants[u].lock
      BY <2>3, <3>1 DEF Blocks
    <3> QED
      BY <1>4, <2>3, <3>2
  <2> QED
    BY <2>1, <2>2, <2>3 DEF Blocks
<1>6. Sinkless(edges, waitedFor)
  BY <1>1, <1>5 DEF Sinkless
<1>7. waitedFor \in SUBSET Locks
  BY <1>3
<1> QED
  BY <1>2, <1>6, <1>7 DEF Acyclic

\* Whenever threads wait for each other, readers behind a waiting writer
\* included, the audit has counted a violation, unless it left an edge or a
\* list entry out or there are more locks than its search is deep
\* (before_acquire and reaches, lock_tracker.cpp).
THEOREM DeadlocksReported == Spec => []DeadlockIsReported
<1>1. IInv => DeadlockIsReported
  <2> SUFFICES ASSUME IInv, Deadlocked, dropped = 0, unlisted = 0, Cardinality(Locks) <= MaxDepth + 2
               PROVE  violations > 0
    BY DEF DeadlockIsReported
  <2>1. violations \in Nat
    BY DEF IInv, TypeOK
  <2>2. violations # 0
    BY DeadlockNeedsCycle DEF Quiet, SearchIsDeepEnough
  <2> QED
    BY <2>1, <2>2
<1> QED
  BY <1>1, AuditInvariant, PTL
=============================================================================
