--------------------------- MODULE MCConnectivity ---------------------------
(* Small instances of Connectivity for TLC.                                *)
EXTENDS Connectivity, TLC

Symmetry == Permutations(Slaves)

\* What NoFalseAlarm is about: states after a close() are not explored further.
NobodyCloses == closing = "open" /\ \A s \in Slaves : ~slave[s].closed
=============================================================================
