------------------------- MODULE MCDaemonController -------------------------
(* Small instances of DaemonController for TLC.                            *)
EXTENDS DaemonController, TLC

CONSTANTS a, b, c

MCRunnerKind == <<1, 2, 1>>
MCClientKind == a :> 1 @@ b :> 1 @@ c :> 2
=============================================================================
