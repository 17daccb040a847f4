----------------------------- MODULE DurableLog -----------------------------
(***************************************************************************)
(* What the persistence layer promises its callers, without queue, writer  *)
(* thread, file or snapshot.  Records are numbered 0, 1, 2, ... in the     *)
(* order they are accepted.  A successful flush or stop makes every        *)
(* accepted record durable.  A restart may lose accepted records, but only *)
(* a suffix of them, and never one that was durable.                       *)
(***************************************************************************)
EXTENDS Naturals

VARIABLES
  accepted,  \* records 0 .. accepted-1 are part of the history
  durable    \* records 0 .. durable-1 survive every restart

lvars == <<accepted, durable>>

LInit == accepted \in Nat /\ durable \in 0 .. accepted

\* The caller is told that one more record was taken.
Accept == accepted' = accepted + 1 /\ UNCHANGED durable

\* A flush or a stop reports success.
Acknowledge == durable' = accepted /\ UNCHANGED accepted

\* A new process reads back a prefix that contains every durable record.
Restart == accepted' \in durable .. accepted /\ UNCHANGED durable

LNext == Accept \/ Acknowledge \/ Restart

LSpec == LInit /\ [][LNext]_lvars
=============================================================================
