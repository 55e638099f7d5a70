----------------------------- MODULE MCMailbox ------------------------------
(* Two packets may arrive, two go where nobody is: enough to fill pkt_map and *)
(* the hands of both workers at the same time.                                *)
EXTENDS Mailbox

CONSTANTS p1, p2, p3, p4, s1, s2

MCBatch == [s \in {s1, s2} |-> IF s = s1 THEN {p1, p3} ELSE {p2, p4}]
=============================================================================
