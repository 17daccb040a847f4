---------------------------- MODULE MCFabricCalls ----------------------------
(* The threads and the entry points they call. *)
EXTENDS Fabric

Threads == {"t1", "t2"}
EveryOperation == {"ingest", "declare", "query", "flush", "compact"}
=============================================================================
