---------------------------- MODULE MCLockTracker ----------------------------
(* Threads and locks are interchangeable. *)
EXTENDS LockTracker, TLC

Interchangeable == Permutations(Threads) \union Permutations(Locks)
=============================================================================
