---------------------------- MODULE BoundedQueue ----------------------------
(***************************************************************************)
(* concurrent_queue/bounded_queue.h: the queue between the users of the    *)
(* thread pool or of the resource disposer and the worker daemons.         *)
(*                                                                         *)
(* The part of push, pop and poison under the queue's lock is one action   *)
(* (the lock is FairMutex); the acquire of the call's own binary semaphore *)
(* is another.  poison is called once, by the owner's destructor.          *)
(***************************************************************************)
EXTENDS Integers, Sequences, FiniteSets

CONSTANTS
  Items,      \* names of work orders
  Producers,
  Consumers,
  Caps,       \* the capacities a queue may be constructed with
  Nothing     \* std::nullopt

ASSUME NothingAssumption == Nothing \notin Items
ASSUME ThreadAssumption  == Producers \cap Consumers = {}
ASSUME CapAssumption     == Caps \subseteq Nat /\ Caps # {}

VARIABLES
  cap,        \* workorder_container_cap
  container,  \* workorder_container
  waiting,    \* waiting_arg_vec: the consumers whose dst and smp it points to
  pushing,    \* pushing_arg_vec: producer and item
  poisoned,   \* is_poisoned
  blocked,    \* the threads inside waiting_smp.acquire()
  smp,        \* the binary semaphore of each thread's call
  dst,        \* wait_item of each consumer's call
  fresh,      \* items not pushed yet, or made again
  received,   \* history: items that pop() returned, until made again
  dropped     \* history: items push() accepted and poison() gave up

vars == <<cap, container, waiting, pushing, poisoned, blocked, smp, dst, fresh,
          received, dropped>>

Threads == Producers \cup Consumers

Elements(s)  == {s[n] : n \in 1..Len(s)}
PushingItems == {a.item : a \in Elements(pushing)}
PushingBy    == {a.by : a \in Elements(pushing)}

Init ==
  /\ cap \in Caps
  /\ container = <<>>
  /\ waiting = <<>>
  /\ pushing = <<>>
  /\ poisoned = FALSE
  /\ blocked = {}
  /\ smp = [t \in Threads |-> 0]
  /\ dst = [c \in Consumers |-> Nothing]
  /\ fresh = Items
  /\ received = {}
  /\ dropped = {}

release(s, t) == [s EXCEPT ![t] = @ + 1]

\* The users make a new item under the name of one that was received, and so
\* may push for ever.
Again(i) ==
  /\ i \in received
  /\ fresh' = fresh \cup {i}
  /\ received' = received \ {i}
  /\ UNCHANGED <<container, waiting, pushing, poisoned, blocked, smp, dst, dropped, cap>>

-----------------------------------------------------------------------------
(* push                                                                    *)

\* A thread in a blocked call does not start another one.
Calls(t) == t \notin blocked

PushHand(p, i) ==
  /\ Calls(p) /\ i \in fresh
  /\ ~poisoned
  /\ waiting # <<>>
  /\ dst' = [dst EXCEPT ![Head(waiting)] = i]
  /\ smp' = release(smp, Head(waiting))
  /\ waiting' = Tail(waiting)
  /\ fresh' = fresh \ {i}
  /\ UNCHANGED <<container, pushing, poisoned, blocked, received, dropped, cap>>

PushBlock(p, i) ==
  /\ Calls(p) /\ i \in fresh
  /\ ~poisoned
  /\ waiting = <<>>
  /\ Len(container) = cap
  /\ pushing' = Append(pushing, [by |-> p, item |-> i])
  /\ blocked' = blocked \cup {p}
  /\ fresh' = fresh \ {i}
  /\ UNCHANGED <<container, waiting, poisoned, smp, dst, received, dropped, cap>>

\* Mutant of PushStore: a waiting consumer is overlooked.
PushStoreAlways(p, i) ==
  /\ Calls(p) /\ i \in fresh
  /\ ~poisoned
  /\ Len(container) # cap
  /\ container' = Append(container, i)
  /\ fresh' = fresh \ {i}
  /\ UNCHANGED <<waiting, pushing, poisoned, blocked, smp, dst, received, dropped, cap>>

PushStore(p, i) ==
  /\ Calls(p) /\ i \in fresh
  /\ ~poisoned
  /\ waiting = <<>>
  /\ Len(container) # cap
  /\ container' = Append(container, i)
  /\ fresh' = fresh \ {i}
  /\ UNCHANGED <<waiting, pushing, poisoned, blocked, smp, dst, received, dropped, cap>>

-----------------------------------------------------------------------------
(* pop                                                                     *)

\* Mutant of PopPushing: the popped pusher stays in pushing_arg_vec.
PopPushingKept(c) ==
  /\ Calls(c) /\ ~poisoned
  /\ pushing # <<>>
  /\ smp' = release(smp, Head(pushing).by)
  /\ received' = received \cup {Head(pushing).item}
  /\ UNCHANGED <<container, waiting, pushing, poisoned, blocked, dst, fresh, dropped, cap>>

\* Mutant of PopPushing: the pusher that came last is served first.
PopPushingLast(c) ==
  /\ Calls(c) /\ ~poisoned
  /\ pushing # <<>>
  /\ LET last == pushing[Len(pushing)]
     IN /\ smp' = release(smp, last.by)
        /\ received' = received \cup {last.item}
  /\ pushing' = SubSeq(pushing, 1, Len(pushing) - 1)
  /\ UNCHANGED <<container, waiting, poisoned, blocked, dst, fresh, dropped, cap>>

\* A blocked pusher is served before the container.
PopPushing(c) ==
  /\ Calls(c) /\ ~poisoned
  /\ pushing # <<>>
  /\ smp' = release(smp, Head(pushing).by)
  /\ received' = received \cup {Head(pushing).item}
  /\ pushing' = Tail(pushing)
  /\ UNCHANGED <<container, waiting, poisoned, blocked, dst, fresh, dropped, cap>>

PopStored(c) ==
  /\ Calls(c) /\ ~poisoned
  /\ pushing = <<>>
  /\ container # <<>>
  /\ received' = received \cup {Head(container)}
  /\ container' = Tail(container)
  /\ UNCHANGED <<waiting, pushing, poisoned, blocked, smp, dst, fresh, dropped, cap>>

PopWait(c) ==
  /\ Calls(c) /\ ~poisoned
  /\ pushing = <<>>
  /\ container = <<>>
  /\ waiting' = Append(waiting, c)
  /\ blocked' = blocked \cup {c}
  /\ dst' = [dst EXCEPT ![c] = Nothing]
  /\ UNCHANGED <<container, pushing, poisoned, smp, fresh, received, dropped, cap>>

-----------------------------------------------------------------------------
(* The end of a blocked call.                                              *)

PushReturn(p) ==
  /\ p \in blocked
  /\ smp[p] > 0
  /\ smp' = [smp EXCEPT ![p] = 0]
  /\ blocked' = blocked \ {p}
  /\ UNCHANGED <<container, waiting, pushing, poisoned, dst, fresh, received, dropped, cap>>

PopReturn(c) ==
  /\ c \in blocked
  /\ smp[c] > 0
  /\ smp' = [smp EXCEPT ![c] = 0]
  /\ blocked' = blocked \ {c}
  /\ received' = received \cup ({dst[c]} \ {Nothing})
  /\ dst' = [dst EXCEPT ![c] = Nothing]
  /\ UNCHANGED <<container, waiting, pushing, poisoned, fresh, dropped, cap>>

-----------------------------------------------------------------------------
(* poison: every call recorded in the two vectors is released.  The        *)
(* vectors and the container keep their contents, which nobody reads       *)
(* again: later calls return at once (pop) or throw (push).                *)

\* Mutant of Poison: every blocked consumer's destination is cleared.
PoisonAll ==
  /\ ~poisoned
  /\ poisoned' = TRUE
  /\ dst' = [c \in Consumers |-> Nothing]
  /\ smp' = [t \in Threads |-> IF t \in blocked THEN 1 ELSE smp[t]]
  /\ dropped' = dropped \cup Elements(container) \cup PushingItems
  /\ UNCHANGED <<container, waiting, pushing, blocked, fresh, received, cap>>

Poison ==
  /\ ~poisoned
  /\ poisoned' = TRUE
  /\ dst' = [c \in Consumers |-> IF c \in Elements(waiting) THEN Nothing ELSE dst[c]]
  /\ smp' = [t \in Threads |-> IF t \in Elements(waiting) \cup PushingBy
                                 THEN smp[t] + 1 ELSE smp[t]]
  /\ dropped' = dropped \cup Elements(container) \cup PushingItems
  /\ UNCHANGED <<container, waiting, pushing, blocked, fresh, received, cap>>

Push(p) == \E i \in Items : PushHand(p, i) \/ PushBlock(p, i) \/ PushStore(p, i)
Pop(c)  == PopPushing(c) \/ PopStored(c) \/ PopWait(c)

Next == \/ Poison
        \/ \E i \in Items : Again(i)
        \/ \E p \in Producers : Push(p) \/ PushReturn(p)
        \/ \E c \in Consumers : Pop(c) \/ PopReturn(c)

Spec == Init /\ [][Next]_vars

-----------------------------------------------------------------------------
(* Properties.                                                             *)

\* Never do consumers wait while there is something to take, and never do
\* producers wait while the container has room.
NobodyWaitsInVain ==
  /\ waiting # <<>> => container = <<>> /\ pushing = <<>>
  /\ pushing # <<>> => Len(container) = cap
  /\ Len(container) <= cap

\* A blocked call is known to the queue or has been released, never both: the
\* queue points to live stack frames only, and releases each semaphore once
\* (a second release of a binary_semaphore is undefined).
SemaphoreOnce ==
  /\ \A t \in Threads : smp[t] <= 1 /\ (smp[t] = 1 => t \in blocked)
  /\ ~poisoned => \A t \in blocked : smp[t] = 1 <=> t \notin Elements(waiting) \cup PushingBy
  /\ ~poisoned => Elements(waiting) \cup PushingBy \subseteq blocked
  /\ poisoned  => \A t \in blocked : smp[t] = 1

InHand == {dst[c] : c \in Consumers} \ {Nothing}
Stored == IF poisoned THEN {} ELSE Elements(container) \cup PushingItems

\* An item that was pushed is in exactly one place: on its way to a consumer,
\* in the queue, received, or dropped because the queue was poisoned.
EveryItemOnce ==
  /\ fresh \cup Stored \cup InHand \cup received \cup dropped = Items
  /\ fresh \cap (Stored \cup InHand \cup received \cup dropped) = {}
  /\ Stored \cap (InHand \cup received \cup dropped) = {}
  /\ InHand \cap (received \cup dropped) = {}
  /\ received \cap dropped = {}
  /\ ~poisoned => dropped = {}

\* The queue implements the channel its users rely on; an item already handed
\* to a waiting consumer is not lost when the queue is poisoned.
Ch == INSTANCE Channel WITH buffer <- Stored, handed <- InHand,
                            closed <- poisoned
RefinesChannel == Ch!Spec
=============================================================================
