------------------------------ MODULE Channel ------------------------------
(***************************************************************************)
(* What a closable channel promises its users: an item that was sent is    *)
(* received once at most, and closing the channel loses only the items     *)
(* that no receiver has been given yet.  No order is promised.             *)
(***************************************************************************)
CONSTANT Items

VARIABLES
  fresh,     \* items nobody has sent yet, or that were made again
  buffer,    \* items sent and not given to anybody
  handed,    \* items given to a receiver that still has to wake up
  received,
  closed

vars == <<fresh, buffer, handed, received, closed>>

Init == /\ fresh = Items /\ buffer = {} /\ handed = {} /\ received = {}
        /\ closed = FALSE

Send(i) == /\ ~closed /\ i \in fresh
           /\ fresh' = fresh \ {i}
           /\ buffer' = buffer \cup {i}
           /\ UNCHANGED <<handed, received, closed>>

\* A receiver was waiting for the item.
Hand(i) == /\ ~closed /\ i \in fresh
           /\ fresh' = fresh \ {i}
           /\ handed' = handed \cup {i}
           /\ UNCHANGED <<buffer, received, closed>>

Take(i) == /\ ~closed /\ i \in buffer
           /\ buffer' = buffer \ {i}
           /\ received' = received \cup {i}
           /\ UNCHANGED <<fresh, handed, closed>>

Receive(i) == /\ i \in handed
              /\ handed' = handed \ {i}
              /\ received' = received \cup {i}
              /\ UNCHANGED <<fresh, buffer, closed>>

\* A new item takes the name of a received one.
Again(i) == /\ i \in received
            /\ received' = received \ {i}
            /\ fresh' = fresh \cup {i}
            /\ UNCHANGED <<buffer, handed, closed>>

Close == /\ ~closed
         /\ closed' = TRUE
         /\ buffer' = {}
         /\ UNCHANGED <<fresh, handed, received>>

Next == Close \/ \E i \in Items : Send(i) \/ Hand(i) \/ Take(i) \/ Receive(i) \/ Again(i)

Safety == Init /\ [][Next]_vars

\* The channel may be closed on items nobody took, but a receiver that was
\* given an item wakes up with it.
Spec == Safety /\ \A i \in Items : WF_vars(Receive(i))
=============================================================================
