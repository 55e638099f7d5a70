---------------------------- MODULE MCRestRetry -----------------------------
(* c1 retries, c2 asks once: its id is what makes the server forget c1's. *)
EXTENDS RestRetry

CONSTANTS c1, c2

MCMaxRetry == [c \in {c1, c2} |-> IF c = c1 THEN 1 ELSE 0]
=============================================================================
