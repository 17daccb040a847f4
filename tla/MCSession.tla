------------------------------ MODULE MCSession ------------------------------
(* Two commands at a time, of every kind that the server tells apart. *)
EXTENDS Session

TwoProcesses == {"p1", "p2"}

\* Between them the processes run every command that changes something, and one
\* of those that only read.
MixedCommands ==
    [p \in TwoProcesses |-> IF p = "p1" THEN {"emit", "policy", "query"}
                                        ELSE {"emit", "publish", "shutdown"}]

\* Policies, queries and reports may outgrow a frame; everything else fits.
PolicySizes ==
    [type \in RequestTypes |-> CASE type = "PublishPolicy" -> {1, 3}
                                 [] type = "Query" -> {1, 2}
                                 [] OTHER -> {1}]
ReportSizes == [type \in ReplyTypes |-> IF type = "QualityReport" THEN {1, 2, 3} ELSE {1}]

\* The first client takes smaller frames than the server, the second larger.
UnequalLimits == [p \in TwoProcesses |-> IF p = "p1" THEN 1 ELSE 3]
=============================================================================
