------------------------------ MODULE MCJournal ------------------------------
(* Instances of Journal for TLC. *)
EXTENDS Journal, TLC

CONSTANTS f1, f2

OneFlusher == {f1}
TwoFlushers == {f1, f2}
FlusherSymmetry == Permutations(TwoFlushers)

WriteAndSyncFaults == {"write", "sync"}
AllFaults == FaultKinds
=============================================================================
