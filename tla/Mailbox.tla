------------------------------ MODULE Mailbox -------------------------------
(***************************************************************************)
(* The mailbox of internal_rest (network_kernel_mailbox_impl1.h): request  *)
(* packets are retransmitted until they are acknowledged or max_           *)
(* retransmission_sz is reached (MemoryEfficientRetransmissionController,  *)
(* RetransmissionWorker), and a receiver passes each on once               *)
(* (InBoundWorker, InBoundIDController).                                   *)
(*                                                                         *)
(* One mailbox sends, another one receives; some packets go to addresses   *)
(* where nobody is.  A packet that is lost on its way, in a container that *)
(* cannot allocate, in the socket, in the network, or at a border          *)
(* controller, is one that stays on the wire for ever.  Feeders flush      *)
(* packets in batches under one lock; the receiver's packets are taken one *)
(* by one here, which allows their batches and more.  What is handed to    *)
(* the controller at a time is a set: which of its packets come first is   *)
(* left open.  Time is left out: whatever is in pkt_map may have expired,  *)
(* and the delay negotiators, none of which ever fails, only say when.     *)
(***************************************************************************)
EXTENDS CyclicSet

CONSTANTS
  Packets,
  Live,        \* the packets to an address where a mailbox receives
  Senders,     \* threads in send()
  Batch,       \* the packets each sends
  Workers,     \* retransmission workers
  ConsumeCap,  \* worker_retransmission_consumption_cap
  MapCap,      \* retransmission_queue_cap, the capacity of pkt_map
  UserCap,     \* retransmission_user_queue_cap, what users may fill of it
  UserPushCap,   \* capacity of push_wait_queue_1
  WorkerPushCap, \* capacity of push_wait_queue_2
  MaxRetrans,  \* retransmission_packet_cap
  AckedCap,    \* capacity of acked_id_hashset
  IdCap,       \* capacity of the receiver's id_hashset
  InFlight,    \* bound on the copies of a packet that are under way: more are lost
  InBound,     \* the inbound worker of the sending side
  Nobody

\* The factory accepts any capacities.  A user capacity above that of pkt_map
\* aborts in move_to_pkt_map; with less room for workers than this they may all
\* wait for each other; with more threads than a push_wait_queue has places the
\* push_back of one that has to wait aborts; and with a packet cap of 256 the 8
\* bits of a packet's count never reach it.
ASSUME MailboxAssumption ==
  /\ {ConsumeCap, MapCap, UserCap, UserPushCap, WorkerPushCap, AckedCap, IdCap, InFlight}
       \subseteq Nat \ {0}
  /\ MaxRetrans \in 0 .. 255
  /\ Live \subseteq Packets
  /\ MapCap > UserCap + Cardinality(Workers) * (ConsumeCap - 1)
  /\ {Nobody, InBound} \cap Workers = {} /\ Nobody # InBound
  /\ IsFiniteSet(Workers) /\ Workers # {}
  /\ IsFiniteSet(Senders) /\ Senders \cap Workers = {}
  /\ Cardinality(Senders) <= UserPushCap /\ Cardinality(Workers) <= WorkerPushCap

\* A packet has an id of its own, made by the send() that makes the packet.
ASSUME BatchAssumption ==
  /\ Batch \in [Senders -> SUBSET Packets]
  /\ \A s \in Senders : IsFiniteSet(Batch[s])
  /\ \A s, t \in Senders : s # t => Batch[s] \cap Batch[t] = {}

VARIABLES
  call,     \* of each thread in send(): "idle", "add", "wait" or "done"
  copies,   \* what it, or a worker, has still to add to pkt_map
  work,     \* of each worker: "get", "push", "add" or "wait"
  map,      \* the packets in pkt_map
  count,    \* retransmission_count, a uint8_t of the packet, gone with it
  q1,       \* push_wait_queue_1: who waits.  An item points to what it still
            \* has to add
  q2,       \* push_wait_queue_2
  acked,    \* acked_id_hashset, oldest first
  mtx,      \* who is in fulfill_wait_queue()
  wire,     \* copies of each packet on their way
  acks,     \* acks of each packet on their way
  window,   \* id_hashset of the receiver, oldest first
  received, \* packets that were passed on to the inbound container
  passed,   \* how often a packet was passed on since its id was last forgotten
  late      \* retransmissions while in acked

sender   == <<call, copies, work, map, count, q1, q2, acked, mtx, late>>
receiver == <<window, received, passed>>
vars     == <<sender, wire, acks, receiver>>

Zero == [p \in Packets |-> 0]

Init ==
  /\ call = [s \in Senders |-> "idle"]
  /\ copies = [x \in Senders \cup Workers |-> {}]
  /\ work = [w \in Workers |-> "get"]
  /\ map = {}
  /\ count = Zero
  /\ q1 = <<>> /\ q2 = <<>>
  /\ acked = <<>>
  /\ mtx = Nobody
  /\ wire = Zero /\ acks = Zero
  /\ window = <<>>
  /\ received = {}
  /\ passed = Zero /\ late = Zero

\* f with one more for the packets in S
Count(f, S) == [p \in Packets |-> f[p] + IF p \in S THEN 1 ELSE 0]

\* f with nothing left of the packets in S
Without(f, S) == [p \in Packets |-> IF p \in S THEN 0 ELSE f[p]]

Under(f, S) == [p \in Packets |-> Min({Count(f, S)[p], InFlight})]

-----------------------------------------------------------------------------
(* The retransmission controller.                                          *)

Size == Cardinality(map)

\* Mutant of Retriable: packets that were acknowledged are not looked for.
RetriableAcked(pkts) == {p \in pkts : count[p] < MaxRetrans}

\* internal_add_retriables: what is acknowledged, or was sent often enough, is
\* refused.
Retriable(pkts) == {p \in pkts : count[p] < MaxRetrans /\ p \notin ToSet(acked)}

\* Those of pkts that find room under cap
Fitting(pkts, cap) == kSubset(Min({Max({cap - Size, 0}), Cardinality(pkts)}), pkts)

\* Mutant of MoveToMap: the retransmission is not counted.
MoveToMapUncounted(S, refused) == map' = map \cup S /\ UNCHANGED count

\* The packets of S are put into pkt_map; what was refused is destroyed.
MoveToMap(S, refused) ==
  /\ map' = map \cup S
  /\ count' = [p \in Packets |-> Without(Count(count, S), refused)[p] % 256]

\* Mutant of add_retriables: users fill pkt_map and leave no room for workers.
add_retriablesFull(s) ==
  /\ call[s] = "add" /\ mtx = Nobody
  /\ LET ok == Retriable(copies[s])
     IN \E S \in Fitting(ok, MapCap) :
          /\ MoveToMap(S, copies[s] \ ok)
          /\ copies' = [copies EXCEPT ![s] = ok \ S]
          /\ q1' = IF S = ok THEN q1 ELSE Append(q1, s)
          /\ call' = [call EXCEPT ![s] = IF S = ok THEN "done" ELSE "wait"]
  /\ UNCHANGED <<work, q2, acked, mtx, late, wire, acks, receiver>>

add_retriables(s) ==
  /\ call[s] = "add" /\ mtx = Nobody
  /\ LET ok == Retriable(copies[s])
     IN \E S \in Fitting(ok, UserCap) :
          /\ MoveToMap(S, copies[s] \ ok)
          /\ copies' = [copies EXCEPT ![s] = ok \ S]
          /\ q1' = IF S = ok THEN q1 ELSE Append(q1, s)
          /\ call' = [call EXCEPT ![s] = IF S = ok THEN "done" ELSE "wait"]
  /\ UNCHANGED <<work, q2, acked, mtx, late, wire, acks, receiver>>

reentrant_add_retriables(w) ==
  /\ work[w] = "add" /\ mtx = Nobody
  /\ LET ok == Retriable(copies[w])
     IN \E S \in Fitting(ok, MapCap) :
          /\ MoveToMap(S, copies[w] \ ok)
          /\ copies' = [copies EXCEPT ![w] = ok \ S]
          /\ q2' = IF S = ok THEN q2 ELSE Append(q2, w)
          /\ work' = [work EXCEPT ![w] = IF S = ok THEN "get" ELSE "wait"]
  /\ UNCHANGED <<call, q1, acked, mtx, late, wire, acks, receiver>>

\* The ack of p takes it out of pkt_map and is remembered.
Acknowledge(p) ==
  /\ acks[p] > 0 /\ mtx = Nobody
  /\ acks' = [acks EXCEPT ![p] = @ - 1]
  /\ map' = map \ {p}
  /\ count' = Without(count, {p} \cap map)
  /\ acked' = CyclicInsert(acked, p, AckedCap)
  /\ late' = [q \in Packets |-> IF Forgets(acked, AckedCap, q) THEN 0 ELSE late[q]]
  /\ UNCHANGED <<call, copies, work, q1, q2, wire, receiver>>

\* Mutant of ack: nobody who waits for room gets it.
ackUnfilled(p) == Acknowledge(p) /\ UNCHANGED mtx

\* An ack arrives and passes the inbound worker, which then fulfills.
ack(p) == Acknowledge(p) /\ mtx' = InBound

\* An epoch of a retransmission worker begins: what has expired is taken out.
get_retriables(w) ==
  /\ work[w] = "get" /\ mtx = Nobody
  /\ \E S \in SUBSET map \ {{}} :
       /\ Cardinality(S) <= ConsumeCap
       /\ map' = map \ S
       /\ copies' = [copies EXCEPT ![w] = S]
  /\ work' = [work EXCEPT ![w] = "push"]
  /\ mtx' = w
  /\ UNCHANGED <<call, count, q1, q2, acked, late, wire, acks, receiver>>

\* fulfill_one_push_wait_queue_1.  What waits is not compared with the
\* acknowledged ids again.
fulfill_one_1 ==
  /\ mtx # Nobody
  /\ q1 # <<>> /\ Size < UserCap
  /\ LET s == Head(q1)
     IN \E S \in Fitting(copies[s], UserCap) :
          /\ MoveToMap(S, {})
          /\ copies' = [copies EXCEPT ![s] = @ \ S]
          /\ q1' = IF S = copies[s] THEN Tail(q1) ELSE q1
          /\ call' = [call EXCEPT ![s] = IF S = copies[s] THEN "done" ELSE @]
  /\ UNCHANGED <<work, q2, acked, mtx, late, wire, acks, receiver>>

\* fulfill_one_push_wait_queue_2.  A coin decides when both queues have room.
fulfill_one_2 ==
  /\ mtx # Nobody
  /\ q2 # <<>> /\ Size < MapCap
  /\ LET w == Head(q2)
     IN \E S \in Fitting(copies[w], MapCap) :
          /\ MoveToMap(S, {})
          /\ copies' = [copies EXCEPT ![w] = @ \ S]
          /\ q2' = IF S = copies[w] THEN Tail(q2) ELSE q2
          /\ work' = [work EXCEPT ![w] = IF S = copies[w] THEN "get" ELSE @]
  /\ UNCHANGED <<call, q1, acked, mtx, late, wire, acks, receiver>>

fulfill_end ==
  /\ mtx # Nobody
  /\ q1 = <<>> \/ Size >= UserCap
  /\ q2 = <<>> \/ Size = MapCap
  /\ mtx' = Nobody
  /\ UNCHANGED <<call, copies, work, map, count, q1, q2, acked, late, wire, acks, receiver>>

fulfill_wait_queue == fulfill_one_1 \/ fulfill_one_2 \/ fulfill_end

-----------------------------------------------------------------------------
(* The threads of the sending side.                                        *)

\* send(): a packet the outbound container refuses is not retransmitted.
send(s) ==
  /\ call[s] = "idle"
  /\ \E refused \in SUBSET Batch[s] :
       /\ wire' = Under(wire, (Batch[s] \ refused) \cap Live)
       /\ copies' = [copies EXCEPT ![s] = Batch[s] \ refused]
  /\ call' = [call EXCEPT ![s] = "add"]
  /\ UNCHANGED <<work, map, count, q1, q2, acked, mtx, late, acks, receiver>>

\* The epoch of a retransmission worker goes on: packets go out, for the last
\* time when they cannot be copied.
retransmit(w) ==
  /\ work[w] = "push" /\ mtx # w
  /\ \E uncopied \in SUBSET copies[w] :
       /\ copies' = [copies EXCEPT ![w] = @ \ uncopied]
       /\ count' = Without(count, uncopied)
  /\ wire' = Under(wire, copies[w] \cap Live)
  /\ late' = Count(late, copies[w] \cap ToSet(acked))
  /\ work' = [work EXCEPT ![w] = "add"]
  /\ UNCHANGED <<call, map, q1, q2, acked, mtx, acks, receiver>>

-----------------------------------------------------------------------------
(* The inbound worker of the receiving side.                               *)

\* InBoundIDController: an id is let through when it is not remembered.
IsNew(p) == p \notin ToSet(window)

\* Mutant of thru: a packet is acknowledged before the border controller has
\* refused it.
thruRefused(p) ==
  /\ wire[p] > 0
  /\ wire' = [wire EXCEPT ![p] = @ - 1]
  /\ acks' = Under(acks, {p})
  /\ UNCHANGED <<sender, receiver>>

\* A packet passes InBoundIDController.  It is acknowledged whether it is new or
\* not, unless no ack packet can be made, before it is put into the container.
thru(p) ==
  /\ wire[p] > 0
  /\ wire' = [wire EXCEPT ![p] = @ - 1]
  /\ \E made \in BOOLEAN : acks' = IF made THEN Under(acks, {p}) ELSE acks
  /\ IF IsNew(p)
       THEN /\ window' = CyclicInsert(window, p, IdCap)
            /\ received' = received \cup {p}
            /\ passed' = [q \in Packets |-> IF Forgets(window, IdCap, q) THEN 0
                                           ELSE Count(passed, {p})[q]]
       ELSE UNCHANGED <<window, received, passed>>
  /\ UNCHANGED sender

-----------------------------------------------------------------------------
Worker(w) == get_retriables(w) \/ retransmit(w) \/ reentrant_add_retriables(w)

Sending ==
  \/ \E s \in Senders : add_retriables(s)
  \/ \E w \in Workers : Worker(w)
  \/ fulfill_wait_queue

Next ==
  \/ \E s \in Senders : send(s)
  \/ Sending
  \/ \E p \in Packets : ack(p) \/ thru(p)

Safety == Init /\ [][Next]_vars

\* Some thread of the sending side runs whenever one can, and packets expire:
\* much less than the scheduler gives, and enough, as no packet is retransmitted
\* for ever.  That anything arrives, or is received, is not assumed.
Spec == Safety /\ WF_vars(Sending)

-----------------------------------------------------------------------------
(* Properties.                                                             *)

\* While its id is remembered a packet is passed on once, however many copies
\* arrive, and an ack is only ever made for one that was.
ExactlyOnce == \A p \in Packets :
  /\ passed[p] <= 1
  /\ p \in ToSet(acked) \/ acks[p] > 0 => p \in received

\* Nobody waits for room that is there.
NobodyWaitsInVain == mtx = Nobody =>
  /\ q1 # <<>> => Size >= UserCap
  /\ q2 # <<>> => Size = MapCap

\* Workers make room for each other, even if no ack ever comes: they never all
\* wait for it.
SomeWorkerFree == \E w \in Workers : work[w] # "wait"

\* An acknowledged packet that is still somewhere goes out once more at most, as
\* long as its id is remembered.
OneLateCopy == \A p \in Packets : late[p] <= 1

\* Every send() returns, although nothing is acknowledged and some of the packets
\* it shares pkt_map with go where nobody is.
SendReturns == <>[](\A s \in Senders : call[s] \in {"idle", "done"})
=============================================================================
