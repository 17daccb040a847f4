---------------------------- MODULE MCJournalFile ----------------------------
(* Bodies of which one is as long as a record may be. *)
EXTENDS JournalFile

SmallAndLargest == {0, MaxRecordBytes}
=============================================================================
