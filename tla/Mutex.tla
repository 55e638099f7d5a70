------------------------------- MODULE Mutex -------------------------------
(***************************************************************************)
(* What xlock_guard promises its users: one thread at a time between its   *)
(* constructor and its destructor, and a free lock that is wanted is taken *)
(* eventually.  It makes no promise about which waiter is next.            *)
(***************************************************************************)
CONSTANT Threads

VARIABLES waiting,  \* threads inside the constructor
          holders   \* threads that own the lock

vars == <<waiting, holders>>

Init == waiting = {} /\ holders = {}

Request(t) == /\ t \notin waiting \cup holders
              /\ waiting' = waiting \cup {t}
              /\ UNCHANGED holders

Acquire(t) == /\ t \in waiting
              /\ holders = {}
              /\ holders' = {t}
              /\ waiting' = waiting \ {t}

Release(t) == /\ t \in holders
              /\ holders' = holders \ {t}
              /\ UNCHANGED waiting

Next == \E t \in Threads : Request(t) \/ Acquire(t) \/ Release(t)

Safety == Init /\ [][Next]_vars

Spec == Safety /\ WF_vars(\E t \in Threads : Acquire(t))
=============================================================================
