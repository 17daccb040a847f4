------------------------------ MODULE MCServer ------------------------------
(* The peers of the server run. *)
EXTENDS Server

\* Between them the peers send every kind of frame.
TwoPeers == {"p1", "p2"}
EveryFrame == [p \in TwoPeers |-> IF p = "p1" THEN {"request", "shutdown"}
                                              ELSE {"oversize", "bad header", "bad payload"}]
=============================================================================
