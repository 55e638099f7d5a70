----------------------------- MODULE MCOnflyPool -----------------------------
(* Small instances of OnflyPool for TLC.                                   *)
EXTENDS OnflyPool, TLC

CONSTANTS t1, t2, t3

Flat   == t1 :> User @@ t2 :> User @@ t3 :> User
Nested == t1 :> User @@ t2 :> t1 @@ t3 :> User
=============================================================================
