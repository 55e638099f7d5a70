------------------------- MODULE CyclicMemoryProofs -------------------------
(***************************************************************************)
(* Theorems about the two parts of internal_rest that keep ids in bounded  *)
(* memories (CyclicSet) and so forget them: the mailbox, for every set of  *)
(* packets, senders and workers, every capacity and every order in which   *)
(* copies and acks arrive; and the REST server under its retrying clients, *)
(* for every set of promises and workers, every retry policy and capacity  *)
(* and every order in which attempts are received and answered.            *)
(***************************************************************************)
EXTENDS Mailbox, RestRetry, SequenceTheorems, FiniteSetTheorems, TLAPS

-----------------------------------------------------------------------------
(* The cyclic memory.                                                      *)

\* The elements of a sequence are the values at its places.
LEMMA Places ==
  ASSUME NEW S, NEW s \in Seq(S)
  PROVE  /\ Len(s) \in Nat
         /\ ToSet(s) \subseteq S
         /\ \A x : x \in ToSet(s) <=> \E i \in 1 .. Len(s) : s[i] = x
  <1>1. Len(s) \in Nat /\ DOMAIN s = 1 .. Len(s) /\ \A i \in 1 .. Len(s) : s[i] \in S
    BY LenProperties, ElementOfSeq
  <1> QED
    BY <1>1 DEF ToSet

\* Nothing is in the empty sequence only.
LEMMA NoPlaces ==
  ASSUME NEW X, NEW q \in Seq(X)
  PROVE  ToSet(q) = {} <=> q = <<>>
  <1>1. Len(q) = 0 <=> q = <<>>
    BY EmptySeq
  <1>2. Len(q) \in Nat /\ \A y : y \in ToSet(q) <=> \E i \in 1 .. Len(q) : q[i] = y
    BY Places
  <1>3. (Len(q) # 0 => 1 \in 1 .. Len(q)) /\ (Len(q) = 0 => 1 .. Len(q) = {})
    BY <1>2
  <1> QED
    BY <1>1, <1>2, <1>3

\* Making room costs the first element its place, and no other.
LEMMA Erased ==
  ASSUME NEW S, NEW s \in Seq(S), NEW cap \in Nat \ {0}
  PROVE  /\ EraseFront(s, cap) \in Seq(S)
         /\ ToSet(EraseFront(s, cap)) \subseteq ToSet(s)
         /\ \A x \in ToSet(s) : x \in ToSet(EraseFront(s, cap)) \/ Forgets(s, cap, x)
  <1>1. CASE Len(s) # cap
    BY <1>1 DEF EraseFront
  <1>2. CASE Len(s) = cap
    <2> DEFINE t == Tail(s)
    <2>1. EraseFront(s, cap) = t /\ s # <<>>
      BY <1>2, EmptySeq DEF EraseFront
    <2>2. t \in Seq(S) /\ Len(t) = Len(s) - 1 /\ \A i \in 1 .. Len(t) : t[i] = s[i + 1]
      BY <2>1, HeadTailProperties
    <2> HIDE DEF t
    <2>3. /\ Len(s) \in Nat /\ Len(t) \in Nat
          /\ \A x : x \in ToSet(s) <=> \E i \in 1 .. Len(s) : s[i] = x
          /\ \A x : x \in ToSet(t) <=> \E i \in 1 .. Len(t) : t[i] = x
      BY <2>2, Places
    <2>4. \A i \in 1 .. Len(t) : i + 1 \in 1 .. Len(s)
      BY <2>2, <2>3
    <2>5. ToSet(t) \subseteq ToSet(s)
      BY <2>2, <2>3, <2>4
    <2>6. ASSUME NEW i \in 1 .. Len(s), i # 1 PROVE s[i] \in ToSet(t)
      <3>1. i - 1 \in 1 .. Len(t) /\ (i - 1) + 1 = i
        BY <2>2, <2>3, <2>6
      <3>2. t[i - 1] = s[i]
        BY <2>2, <3>1
      <3> QED
        BY <2>3, <3>1, <3>2
    <2>7. \A x \in ToSet(s) : x \in ToSet(t) \/ Forgets(s, cap, x)
      BY <1>2, <2>3, <2>6 DEF Forgets
    <2> QED
      BY <2>1, <2>2, <2>5, <2>7
  <1> QED
    BY <1>1, <1>2

\* An insert adds its element and forgets one at most, the oldest.
LEMMA Inserted ==
  ASSUME NEW S, NEW s \in Seq(S), NEW e \in S, NEW cap \in Nat \ {0}
  PROVE  /\ CyclicInsert(s, e, cap) \in Seq(S)
         /\ ToSet(CyclicInsert(s, e, cap)) \subseteq ToSet(s) \cup {e}
         /\ e \in ToSet(CyclicInsert(s, e, cap))
         /\ \A x \in ToSet(s) : x \in ToSet(CyclicInsert(s, e, cap)) \/ Forgets(s, cap, x)
  <1> DEFINE kept == EraseFront(s, cap)
             t    == Append(kept, e)
  <1>1. /\ kept \in Seq(S) /\ ToSet(kept) \subseteq ToSet(s)
        /\ \A x \in ToSet(s) : x \in ToSet(kept) \/ Forgets(s, cap, x)
    BY Erased
  <1>2. CyclicInsert(s, e, cap) = IF e \in ToSet(kept) THEN kept ELSE t
    BY DEF CyclicInsert
  <1> HIDE DEF kept
  <1>3. /\ t \in Seq(S) /\ Len(t) = Len(kept) + 1 /\ t[Len(kept) + 1] = e
        /\ \A i \in 1 .. Len(kept) : t[i] = kept[i]
    BY <1>1, AppendProperties
  <1> HIDE DEF t
  <1>4. /\ Len(kept) \in Nat /\ Len(t) \in Nat
        /\ \A x : x \in ToSet(kept) <=> \E i \in 1 .. Len(kept) : kept[i] = x
        /\ \A x : x \in ToSet(t) <=> \E i \in 1 .. Len(t) : t[i] = x
    BY <1>1, <1>3, Places
  <1>5. /\ \A i \in 1 .. Len(kept) : i \in 1 .. Len(t)
        /\ Len(kept) + 1 \in 1 .. Len(t)
        /\ \A i \in 1 .. Len(t) : i \in 1 .. Len(kept) \/ i = Len(kept) + 1
    BY <1>3, <1>4
  <1>6. ToSet(t) = ToSet(kept) \cup {e}
    <2>1. \A x : x \in ToSet(t) => x \in ToSet(kept) \cup {e}
      BY <1>3, <1>4, <1>5
    <2>2. \A x : x \in ToSet(kept) \cup {e} => x \in ToSet(t)
      BY <1>3, <1>4, <1>5
    <2> QED
      BY <2>1, <2>2
  <1> QED
    BY <1>1, <1>2, <1>3, <1>6

\* An insert into the map adds its entry at most.
LEMMA MapInserted ==
  ASSUME NEW S, NEW s \in Seq(S), NEW e \in S, NEW cap \in Nat \ {0}
  PROVE  /\ CyclicMapInsert(s, e, cap) \in Seq(S)
         /\ ToSet(CyclicMapInsert(s, e, cap)) \subseteq ToSet(s) \cup {e}
  <1> DEFINE kept == EraseFront(s, cap)
             t    == Append(kept, e)
  <1>1. kept \in Seq(S) /\ ToSet(kept) \subseteq ToSet(s)
    BY Erased
  <1>2. CyclicMapInsert(s, e, cap) \in {kept, t}
    BY DEF CyclicMapInsert
  <1> HIDE DEF kept
  <1>3. /\ t \in Seq(S) /\ Len(t) = Len(kept) + 1 /\ t[Len(kept) + 1] = e
        /\ \A i \in 1 .. Len(kept) : t[i] = kept[i]
    BY <1>1, AppendProperties
  <1> HIDE DEF t
  <1>4. /\ Len(kept) \in Nat /\ Len(t) \in Nat
        /\ \A x : x \in ToSet(kept) <=> \E i \in 1 .. Len(kept) : kept[i] = x
        /\ \A x : x \in ToSet(t) <=> \E i \in 1 .. Len(t) : t[i] = x
    BY <1>1, <1>3, Places
  <1>5. \A i \in 1 .. Len(t) : i \in 1 .. Len(kept) \/ i = Len(kept) + 1
    BY <1>3, <1>4
  <1>6. ToSet(t) \subseteq ToSet(kept) \cup {e}
    BY <1>3, <1>4, <1>5
  <1> QED
    BY <1>1, <1>2, <1>3, <1>6

\* The lesser of two numbers is one of them and exceeds neither.
LEMMA Lesser ==
  ASSUME NEW a \in Nat, NEW b \in Nat
  PROVE  Min({a, b}) \in Nat /\ Min({a, b}) \in {a, b} /\ Min({a, b}) <= a /\ Min({a, b}) <= b
  <1>1. \E x \in {a, b} : \A y \in {a, b} : x <= y
    BY a <= b \/ b <= a
  <1>2. Min({a, b}) \in {a, b} /\ \A y \in {a, b} : Min({a, b}) <= y
    BY <1>1 DEF Min
  <1> QED
    BY <1>2

-----------------------------------------------------------------------------
(* The mailbox: the receiver.                                              *)

ReceiverTypes ==
  /\ acks \in [Packets -> Nat]
  /\ acked \in Seq(Packets)
  /\ window \in Seq(Packets)
  /\ received \subseteq Packets
  /\ passed \in [Packets -> Nat]

\* What the receiver remembers it has passed on once; what it has forgotten
\* counts as never passed on.
Remembered ==
  /\ ToSet(window) \subseteq received
  /\ \A p \in Packets : passed[p] <= 1 /\ (p \notin ToSet(window) => passed[p] = 0)

\* Acks on their way and acks that arrived are for packets that were passed on.
AcksEarned == \A p \in Packets : p \in ToSet(acked) \/ acks[p] > 0 => p \in received

Inv == ReceiverTypes /\ Remembered /\ AcksEarned

\* An ack that is made, or lost for want of room on the wire, is for p.
LEMMA UnderOne ==
  ASSUME acks \in [Packets -> Nat], NEW p \in Packets
  PROVE  /\ Under(acks, {p}) \in [Packets -> Nat]
         /\ \A q \in Packets : q # p /\ Under(acks, {p})[q] > 0 => acks[q] > 0
  <1> DEFINE f == Count(acks, {p})
  <1>1. f \in [Packets -> Nat] /\ \A q \in Packets : q # p => f[q] = acks[q]
    BY DEF Count
  <1>2. InFlight \in Nat
    BY MailboxAssumption
  <1>3. Under(acks, {p}) = [q \in Packets |-> Min({f[q], InFlight})]
    BY DEF Under
  <1> HIDE DEF f
  <1>4. \A q \in Packets : f[q] \in Nat /\ Min({f[q], InFlight}) \in Nat /\ Min({f[q], InFlight}) <= f[q]
    BY <1>1, <1>2, Lesser
  <1> DEFINE g == [q \in Packets |-> Min({f[q], InFlight})]
  <1>5. g \in [Packets -> Nat] /\ \A q \in Packets : g[q] \in Nat /\ g[q] <= f[q]
    BY <1>4
  <1>6. Under(acks, {p}) = g
    BY <1>3
  <1> HIDE DEF g
  <1>7. ASSUME NEW q \in Packets, q # p, g[q] > 0 PROVE acks[q] > 0
    BY <1>1, <1>5, <1>7
  <1> QED
    BY <1>5, <1>6, <1>7

\* A step of the sending side that touches neither acks nor what is acknowledged.
LEMMA ReceiverKept ==
  ASSUME Inv, UNCHANGED <<acks, acked, window, received, passed>>
  PROVE  Inv'
  BY DEF Inv, ReceiverTypes, Remembered, AcksEarned

\* A copy arrives: it is passed on if its id is not remembered.
LEMMA ThruStep ==
  ASSUME Inv, NEW p \in Packets, thru(p)
  PROVE  Inv'
  <1>0. /\ acks \in [Packets -> Nat] /\ acked \in Seq(Packets) /\ window \in Seq(Packets)
        /\ received \subseteq Packets /\ passed \in [Packets -> Nat] /\ IdCap \in Nat \ {0}
        /\ ToSet(window) \subseteq received
        /\ \A q \in Packets : passed[q] <= 1 /\ (q \notin ToSet(window) => passed[q] = 0)
        /\ \A q \in Packets : q \in ToSet(acked) \/ acks[q] > 0 => q \in received
    BY MailboxAssumption DEF Inv, ReceiverTypes, Remembered, AcksEarned
  <1>1. /\ acked' = acked /\ acks' \in [Packets -> Nat]
        /\ \A q \in Packets : q # p /\ acks'[q] > 0 => acks[q] > 0
    BY <1>0, UnderOne DEF thru, sender
  <1>2. CASE ~IsNew(p)
    <2>1. p \in received /\ UNCHANGED <<window, received, passed>>
      BY <1>0, <1>2 DEF thru, IsNew
    <2>2. AcksEarned'
      BY <1>0, <1>1, <2>1 DEF AcksEarned
    <2> QED
      BY <1>0, <1>1, <2>1, <2>2 DEF Inv, ReceiverTypes, Remembered
  <1>3. CASE IsNew(p)
    <2>1. /\ p \notin ToSet(window) /\ received' = received \cup {p}
          /\ window' = CyclicInsert(window, p, IdCap)
          /\ passed' = [q \in Packets |-> IF Forgets(window, IdCap, q) THEN 0
                                         ELSE Count(passed, {p})[q]]
      BY <1>3 DEF thru, IsNew
    <2> DEFINE w == CyclicInsert(window, p, IdCap)
    <2>2. /\ w \in Seq(Packets) /\ ToSet(w) \subseteq ToSet(window) \cup {p} /\ p \in ToSet(w)
          /\ \A x \in ToSet(window) : x \in ToSet(w) \/ Forgets(window, IdCap, x)
      BY <1>0, Inserted
    <2>3. window' = w
      BY <2>1
    <2> HIDE DEF w
    <2>4. \A q \in Packets : passed'[q] = IF Forgets(window, IdCap, q) THEN 0
                                         ELSE passed[q] + IF q = p THEN 1 ELSE 0
      BY <1>0, <2>1 DEF Count
    <2>5. passed' \in [Packets -> Nat]
      BY <1>0, <2>1 DEF Count
    <2>6. \A q \in Packets : passed'[q] <= 1 /\ (q \notin ToSet(w) => passed'[q] = 0)
      <3> SUFFICES ASSUME NEW q \in Packets
                   PROVE  passed'[q] <= 1 /\ (q \notin ToSet(w) => passed'[q] = 0)
        OBVIOUS
      <3>1. CASE q = p
        <4>1. passed[p] = 0 /\ p \in ToSet(w)
          BY <1>0, <2>1, <2>2
        <4>2. passed'[p] = 0 \/ passed'[p] = 1
          BY <2>4, <4>1
        <4> QED
          BY <3>1, <4>1, <4>2
      <3>2. CASE q # p
        BY <1>0, <2>2, <2>4, <3>2
      <3> QED
        BY <3>1, <3>2
    <2>7. AcksEarned'
      BY <1>0, <1>1, <2>1 DEF AcksEarned
    <2>8. ReceiverTypes'
      BY <1>0, <1>1, <2>1, <2>2, <2>3, <2>5 DEF ReceiverTypes
    <2>9. Remembered'
      BY <1>0, <2>1, <2>2, <2>3, <2>6 DEF Remembered
    <2> QED
      BY <2>7, <2>8, <2>9 DEF Inv
  <1> QED
    BY <1>2, <1>3

\* An ack arrives: its packet is remembered as acknowledged.
LEMMA AckStep ==
  ASSUME Inv, NEW p \in Packets, ack(p)
  PROVE  Inv'
  <1> DEFINE a == CyclicInsert(acked, p, AckedCap)
  <1>0. acks \in [Packets -> Nat] /\ acked \in Seq(Packets) /\ AckedCap \in Nat \ {0} /\ AcksEarned
    BY MailboxAssumption DEF Inv, ReceiverTypes
  <1>1. /\ acks[p] > 0 /\ acks' = [acks EXCEPT ![p] = @ - 1] /\ acked' = a
        /\ UNCHANGED <<window, received, passed>>
    BY DEF ack, Acknowledge, receiver
  <1>2. a \in Seq(Packets) /\ ToSet(a) \subseteq ToSet(acked) \cup {p}
    BY <1>0, Inserted
  <1> HIDE DEF a
  <1>3. acks' \in [Packets -> Nat] /\ \A q \in Packets : acks'[q] > 0 => acks[q] > 0
    BY <1>0, <1>1
  <1>4. AcksEarned'
    BY <1>0, <1>1, <1>2, <1>3 DEF AcksEarned
  <1> QED
    BY <1>1, <1>2, <1>3, <1>4 DEF Inv, ReceiverTypes, Remembered

\* Every step keeps what the receiver knows.
LEMMA InvStep == Inv /\ [Next]_vars => Inv'
  <1> SUFFICES ASSUME Inv, [Next]_vars PROVE Inv'
    OBVIOUS
  <1>1. ASSUME \/ UNCHANGED vars
               \/ \E s \in Senders : send(s)
               \/ Sending
        PROVE  UNCHANGED <<acks, acked, window, received, passed>>
    BY <1>1 DEF vars, sender, receiver, send, Sending, Worker, add_retriables, get_retriables, retransmit,
                reentrant_add_retriables, fulfill_wait_queue, fulfill_one_1, fulfill_one_2, fulfill_end
  <1> QED
    BY <1>1, ReceiverKept, ThruStep, AckStep DEF Next

\* Whatever is lost, delayed, repeated or retransmitted, a packet is passed on
\* once while its id is remembered, and no ack is made or taken for one that was
\* not passed on.
THEOREM PassedOnOnce == Safety => []ExactlyOnce
  <1>1. Init => Inv
    <2> SUFFICES ASSUME Init PROVE Inv
      OBVIOUS
    <2>1. <<>> \in Seq(Packets) /\ ToSet(<<>>) = {}
      BY EmptySeq, NoPlaces
    <2>2. acks = Zero /\ passed = Zero /\ acked = <<>> /\ window = <<>> /\ received = {}
      BY DEF Init
    <2> QED
      BY <2>1, <2>2 DEF Inv, ReceiverTypes, Remembered, AcksEarned, Zero
  <1>2. Inv => ExactlyOnce
    BY DEF Inv, Remembered, AcksEarned, ExactlyOnce
  <1> QED
    BY <1>1, <1>2, InvStep, PTL DEF Safety

-----------------------------------------------------------------------------
(* Those who wait for room in pkt_map.                                     *)

NoRepeats(q) == \A m, n \in 1 .. Len(q) : q[m] = q[n] => m = n

\* Somebody who does not wait yet joins the queue.
LEMMA Joined ==
  ASSUME NEW X, NEW q \in Seq(X), NoRepeats(q), NEW x \in X, x \notin ToSet(q)
  PROVE  /\ Append(q, x) \in Seq(X) /\ NoRepeats(Append(q, x))
         /\ ToSet(Append(q, x)) = ToSet(q) \cup {x}
  <1> DEFINE t == Append(q, x)
  <1>1. /\ t \in Seq(X) /\ Len(t) = Len(q) + 1 /\ t[Len(q) + 1] = x
        /\ \A i \in 1 .. Len(q) : t[i] = q[i]
    BY AppendProperties
  <1> HIDE DEF t
  <1>2. /\ Len(q) \in Nat /\ Len(t) \in Nat
        /\ \A y : y \in ToSet(q) <=> \E i \in 1 .. Len(q) : q[i] = y
        /\ \A y : y \in ToSet(t) <=> \E i \in 1 .. Len(t) : t[i] = y
    BY <1>1, Places
  <1>3. /\ \A i \in 1 .. Len(q) : i \in 1 .. Len(t)
        /\ Len(q) + 1 \in 1 .. Len(t)
        /\ \A i \in 1 .. Len(t) : i \in 1 .. Len(q) \/ i = Len(q) + 1
    BY <1>1, <1>2
  <1>4. \A y : y \in ToSet(t) => y \in ToSet(q) \cup {x}
    BY <1>1, <1>2, <1>3
  <1>5. \A y : y \in ToSet(q) \cup {x} => y \in ToSet(t)
    BY <1>1, <1>2, <1>3
  <1>6. NoRepeats(t)
    BY <1>1, <1>2, <1>3 DEF NoRepeats
  <1> QED
    BY <1>1, <1>4, <1>5, <1>6 DEF t

\* The first leaves the queue, which does not hold it twice.
LEMMA FirstLeaves ==
  ASSUME NEW X, NEW q \in Seq(X), NoRepeats(q), q # <<>>
  PROVE  /\ Head(q) \in X /\ Head(q) \in ToSet(q)
         /\ Tail(q) \in Seq(X) /\ NoRepeats(Tail(q))
         /\ ToSet(Tail(q)) = ToSet(q) \ {Head(q)}
  <1> DEFINE t == Tail(q)
             h == Head(q)
  <1>1. h \in X /\ t \in Seq(X) /\ Len(t) = Len(q) - 1 /\ \A i \in 1 .. Len(t) : t[i] = q[i + 1]
    BY HeadTailProperties
  <1>2. h = q[1]
    OBVIOUS
  <1>3. Len(q) # 0
    BY EmptySeq
  <1> HIDE DEF t, h
  <1>4. /\ Len(q) \in Nat /\ Len(t) \in Nat
        /\ \A y : y \in ToSet(q) <=> \E i \in 1 .. Len(q) : q[i] = y
        /\ \A y : y \in ToSet(t) <=> \E i \in 1 .. Len(t) : t[i] = y
    BY <1>1, Places
  <1>5. /\ 1 \in 1 .. Len(q)
        /\ \A i \in 1 .. Len(t) : i + 1 \in 1 .. Len(q) /\ i + 1 # 1
        /\ \A i \in 1 .. Len(q) : i # 1 => i - 1 \in 1 .. Len(t) /\ (i - 1) + 1 = i
    BY <1>1, <1>3, <1>4
  <1>6. \A y : y \in ToSet(t) => y \in ToSet(q) /\ y # h
    BY <1>1, <1>2, <1>4, <1>5 DEF NoRepeats
  <1>7. ASSUME NEW y \in ToSet(q), y # h PROVE y \in ToSet(t)
    <2>1. PICK i \in 1 .. Len(q) : q[i] = y
      BY <1>4
    <2>2. i - 1 \in 1 .. Len(t) /\ t[i - 1] = y
      BY <1>1, <1>2, <1>5, <1>7, <2>1
    <2> QED
      BY <1>4, <2>2
  <1>8. ASSUME NEW m \in 1 .. Len(t), NEW n \in 1 .. Len(t), t[m] = t[n] PROVE m = n
    <2>1. m + 1 = n + 1
      BY <1>1, <1>5, <1>8 DEF NoRepeats
    <2> QED
      BY <2>1, <1>4
  <1>9. h \in ToSet(q)
    BY <1>2, <1>4, <1>5
  <1>10. NoRepeats(t)
    BY <1>8 DEF NoRepeats
  <1>11. ToSet(t) = ToSet(q) \ {h}
    BY <1>6, <1>7
  <1> QED
    BY <1>1, <1>9, <1>10, <1>11 DEF t, h

\* A queue without repeats is no longer than there are members.
LEMMA NoLonger ==
  ASSUME NEW X, IsFiniteSet(X), NEW q \in Seq(X), NoRepeats(q)
  PROVE  Len(q) <= Cardinality(X)
  <1>1. Len(q) \in Nat /\ q \in [1 .. Len(q) -> X]
    BY LenProperties
  <1>2. q \in Injection(1 .. Len(q), X)
    BY <1>1 DEF NoRepeats, Injection, IsInjective
  <1>3. Cardinality(1 .. Len(q)) <= Cardinality(X)
    BY <1>2, FS_Injection
  <1>4. Cardinality(1 .. Len(q)) = Len(q)
    BY <1>1, FS_Interval
  <1> QED
    BY <1>3, <1>4

-----------------------------------------------------------------------------
(* Counting packets.                                                       *)

\* The greater of two numbers is one of them and not exceeded by the other.
LEMMA Greater ==
  ASSUME NEW a \in Int, NEW b \in Int
  PROVE  Max({a, b}) \in {a, b} /\ Max({a, b}) >= a /\ Max({a, b}) >= b
  <1>1. \E x \in {a, b} : \A y \in {a, b} : x >= y
    BY a >= b \/ b >= a
  <1> QED
    BY <1>1 DEF Max

\* The packets that are put into pkt_map go up to the capacity, unless all find
\* room below it.
LEMMA Fits ==
  ASSUME IsFiniteSet(map), NEW pkts, IsFiniteSet(pkts), pkts \cap map = {},
         NEW cap \in Nat, NEW S \in Fitting(pkts, cap)
  PROVE  /\ S \subseteq pkts /\ IsFiniteSet(map \cup S)
         /\ Size \in Nat /\ Cardinality(map \cup S) \in Nat
         /\ Cardinality(map \cup S) >= Size
         /\ S = {} \/ Cardinality(map \cup S) <= cap
         /\ S = pkts \/ Cardinality(map \cup S) >= cap
  <1> DEFINE room == Max({cap - Size, 0})
             k    == Cardinality(S)
             all  == Cardinality(pkts)
             sum  == Cardinality(map \cup S)
  <1>1. S \subseteq pkts /\ k = Min({room, all})
    BY DEF Fitting, kSubset
  <1>2. IsFiniteSet(S) /\ k <= all /\ (k = all => S = pkts)
    BY <1>1, FS_Subset
  <1>3. Size \in Nat /\ k \in Nat /\ all \in Nat
    BY <1>2, FS_CardinalityType DEF Size
  <1>4. room \in {cap - Size, 0} /\ room >= cap - Size /\ room >= 0
    <2> HIDE DEF k, all, sum
    <2>1. cap - Size \in Int /\ 0 \in Int
      BY <1>3
    <2> QED
      BY <2>1, Greater
  <1>5. map \cap S = {} /\ IsFiniteSet(map \cup S) /\ sum = Size + k - Cardinality(map \cap S)
    BY <1>1, <1>2, FS_Union DEF Size
  <1>6. Cardinality(map \cap S) = 0
    BY <1>5, FS_EmptySet
  <1>7. k = 0 => S = {}
    BY <1>2, FS_EmptySet
  <1> HIDE DEF room, k, all, sum
  <1>8. room \in Nat
    BY <1>3, <1>4
  <1>9. k \in {room, all} /\ k <= room
    BY <1>1, <1>3, <1>8, Lesser
  <1>10. sum = Size + k
    BY <1>3, <1>5, <1>6
  <1>11. sum \in Nat /\ sum >= Size
    BY <1>3, <1>10
  <1>12. S = {} \/ sum <= cap
    BY <1>3, <1>4, <1>7, <1>9, <1>10
  <1>13. S = pkts \/ sum >= cap
    BY <1>2, <1>3, <1>4, <1>9, <1>10
  <1> QED
    BY <1>1, <1>3, <1>5, <1>11, <1>12, <1>13 DEF sum

\* Finitely many holders of k packets each hold so many together.
LEMMA TotalHeld ==
  ASSUME NEW W, IsFiniteSet(W), NEW k \in Nat, NEW H,
         \A w \in W : IsFiniteSet(H[w]) /\ Cardinality(H[w]) <= k
  PROVE  /\ IsFiniteSet(UNION {H[w] : w \in W})
         /\ Cardinality(UNION {H[w] : w \in W}) <= Cardinality(W) * k
  <1> DEFINE n(w) == Cardinality(H[w])
             F == [w \in W |-> CHOOSE f : f \in Bijection(1 .. n(w), H[w])]
             D == {d \in W \X (1 .. k) : d[2] \in 1 .. n(d[1])}
             U == UNION {H[w] : w \in W}
             g == [d \in D |-> F[d[1]][d[2]]]
  <1>1. ASSUME NEW w \in W
        PROVE  /\ n(w) \in Nat /\ n(w) <= k
               /\ F[w] \in Bijection(1 .. n(w), H[w])
    <2>1. PICK m \in Nat : ExistsBijection(1 .. m, H[w])
      BY <1>1, FS_NatBijection
    <2>2. n(w) = m
      BY <2>1, FS_CountingElements
    <2>3. \E f : f \in Bijection(1 .. n(w), H[w])
      BY <2>1, <2>2 DEF ExistsBijection
    <2> QED
      BY <2>2, <2>3
  <1>2. \A w \in W : /\ \A i \in 1 .. n(w) : F[w][i] \in H[w]
                     /\ \A p \in H[w] : \E i \in 1 .. n(w) : F[w][i] = p
    BY <1>1 DEF Bijection, Surjection
  <1> HIDE DEF F
  <1>3. \A d \in D : d[1] \in W /\ d[2] \in 1 .. n(d[1])
    OBVIOUS
  <1>4. g \in [D -> U]
    BY <1>2, <1>3
  <1>5. ASSUME NEW p \in U PROVE \E d \in D : g[d] = p
    <2>1. PICK w \in W : p \in H[w]
      OBVIOUS
    <2>2. PICK i \in 1 .. n(w) : F[w][i] = p
      BY <1>2, <2>1
    <2>3. i \in 1 .. k
      BY <1>1
    <2>4. <<w, i>> \in D /\ g[<<w, i>>] = p
      BY <2>2, <2>3
    <2> QED
      BY <2>4
  <1>6. g \in Surjection(D, U)
    BY <1>4, <1>5 DEF Surjection
  <1>7. IsFiniteSet(1 .. k) /\ Cardinality(1 .. k) = k
    BY FS_Interval
  <1>8. IsFiniteSet(W \X (1 .. k)) /\ Cardinality(W \X (1 .. k)) = Cardinality(W) * k
    BY <1>7, FS_Product
  <1>9. IsFiniteSet(D) /\ Cardinality(D) <= Cardinality(W) * k
    <2>1. D \in SUBSET (W \X (1 .. k))
      OBVIOUS
    <2> HIDE DEF D
    <2> QED
      BY <2>1, <1>8, FS_Subset
  <1> HIDE DEF D, g, U, n
  <1>10. IsFiniteSet(U) /\ Cardinality(U) <= Cardinality(D)
    BY <1>6, <1>9, FS_Surjection
  <1>11. Cardinality(U) \in Nat /\ Cardinality(D) \in Nat /\ Cardinality(W) \in Nat
    BY <1>9, <1>10, FS_CardinalityType
  <1>12. Cardinality(W) * k \in Nat
    BY <1>11
  <1>13. Cardinality(U) <= Cardinality(W) * k
    BY <1>9, <1>10, <1>11, <1>12
  <1> QED
    BY <1>10, <1>13 DEF U

\* When all workers wait with something in their hands and pkt_map is full, more
\* packets circulate than users and workers together can have brought in.
LEMMA Overfull ==
  ASSUME NEW M, IsFiniteSet(M), Cardinality(M) = MapCap, NEW H,
         \A w \in Workers : IsFiniteSet(H[w]) /\ H[w] # {} /\ H[w] \cap M = {},
         \A v, w \in Workers : v # w => H[v] \cap H[w] = {},
         IsFiniteSet(UNION {H[w] : w \in Workers}),
         Cardinality(M \cup UNION {H[w] : w \in Workers})
           <= UserCap + Cardinality(Workers) * ConsumeCap
  PROVE  FALSE
  <1> DEFINE U == UNION {H[w] : w \in Workers}
             c == [w \in Workers |-> CHOOSE p : p \in H[w]]
             a == Cardinality(Workers)
             b == Cardinality(U)
             s == Cardinality(M \cup U)
  <1>1. \A w \in Workers : c[w] \in H[w]
    OBVIOUS
  <1>2. c \in [Workers -> U] /\ \A v, w \in Workers : c[v] = c[w] => v = w
    BY <1>1
  <1>3. c \in Injection(Workers, U)
    BY <1>2 DEF Injection, IsInjective
  <1>4. a <= b
    <2> HIDE DEF c, U
    <2> QED
      BY <1>3, FS_Injection DEF U
  <1>5. M \cap U = {}
    OBVIOUS
  <1>6. s = MapCap + b - Cardinality(M \cap U) /\ Cardinality(M \cap U) = 0
    <2> HIDE DEF U, b
    <2>1. IsFiniteSet(U)
      BY DEF U
    <2> QED
      BY <2>1, <1>5, FS_Union, FS_EmptySet DEF b
  <1>7. /\ a \in Nat /\ b \in Nat /\ MapCap \in Nat /\ UserCap \in Nat /\ ConsumeCap \in Nat
        /\ MapCap > UserCap + a * (ConsumeCap - 1)
    BY MailboxAssumption, FS_CardinalityType
  <1>8. s <= UserCap + a * ConsumeCap
    OBVIOUS
  <1> HIDE DEF a, b, s, c, U
  <1>9. a * (ConsumeCap - 1) = a * ConsumeCap - a /\ a * ConsumeCap \in Nat
    BY <1>7
  <1> DEFINE x == a * ConsumeCap
  <1>10. x \in Nat /\ s <= UserCap + x /\ MapCap > UserCap + x - a
    BY <1>7, <1>8, <1>9
  <1> HIDE DEF x
  <1>11. s = MapCap + b
    BY <1>6, <1>7
  <1> QED
    BY <1>4, <1>7, <1>10, <1>11

-----------------------------------------------------------------------------
(* The sending side: where a packet is.                                    *)

Holders == Senders \cup Workers

\* The packets in the hands of x
Held(x) == IF x \in Senders /\ call[x] = "idle" THEN Batch[x] ELSE copies[x]

SenderTypes ==
  /\ call \in [Senders -> {"idle", "add", "wait", "done"}]
  /\ work \in [Workers -> {"get", "push", "add", "wait"}]
  /\ copies \in [Holders -> SUBSET Packets]
  /\ map \subseteq Packets
  /\ acked \in Seq(Packets)
  /\ late \in [Packets -> Nat]

\* Who waits is in its queue, once, and has something to add; who does not add
\* has nothing.
Waiting ==
  /\ q1 \in Seq(Senders) /\ NoRepeats(q1)
  /\ q2 \in Seq(Workers) /\ NoRepeats(q2)
  /\ ToSet(q1) = {s \in Senders : call[s] = "wait"}
  /\ ToSet(q2) = {w \in Workers : work[w] = "wait"}
  /\ \A w \in Workers : work[w] = "wait" => copies[w] # {}
  /\ \A w \in Workers : work[w] = "get" => copies[w] = {}

\* A packet is in one place.
OnePlace == \A x \in Holders :
  /\ Held(x) \cap map = {}
  /\ \A y \in Holders : x # y => Held(x) \cap Held(y) = {}

\* pkt_map keeps its capacity, workers theirs, and what workers and pkt_map have
\* was brought in while pkt_map had room for users.
Bounded ==
  /\ IsFiniteSet(map) /\ Size <= MapCap
  /\ \A x \in Holders : IsFiniteSet(Held(x))
  /\ \A w \in Workers : Cardinality(copies[w]) <= ConsumeCap
  /\ Cardinality(map \cup UNION {copies[w] : w \in Workers})
       <= UserCap + Cardinality(Workers) * ConsumeCap

\* p is, or will again be, in pkt_map without being compared with acked first.
Loose(p) == p \in map \/ \E x \in Holders : p \in Held(x) /\ ~(x \in Workers /\ work[x] = "add")

\* What went out while it was acknowledged is not loose any more.
LateOnes == \A p \in Packets :
  /\ late[p] \in {0, 1}
  /\ late[p] = 1 => p \in ToSet(acked) /\ ~Loose(p)

SenderInv == SenderTypes /\ Waiting /\ OnePlace /\ Bounded
             /\ NobodyWaitsInVain /\ SomeWorkerFree /\ LateOnes

\* Packets move between x and pkt_map only, and out of both.
Shift(x) ==
  /\ \A y \in Holders : y # x => Held(y)' = Held(y)
  /\ Held(x)' \subseteq Held(x) \cup map
  /\ map' \subseteq map \cup Held(x)
  /\ Held(x)' \cap map' = {}

\* x puts what it can into pkt_map, up to cap.
Moved(x, cap) ==
  /\ Shift(x)
  /\ Held(x)' \subseteq Held(x) /\ map \subseteq map'
  /\ IsFiniteSet(map') /\ Size' \in Nat /\ Size' >= Size
  /\ map' = map \/ Size' <= cap
  /\ Held(x)' = {} \/ Size' >= cap

\* Who is not in send() for the first time holds its copies.
LEMMA HeldCopies ==
  ASSUME SenderTypes
  PROVE  /\ \A w \in Workers : w \in Holders /\ w \notin Senders /\ Held(w) = copies[w]
         /\ \A s \in Senders : s \in Holders /\ s \notin Workers
         /\ \A s \in Senders : call[s] # "idle" => Held(s) = copies[s]
  BY MailboxAssumption DEF Holders, Held

\* No packet gets into two places.
LEMMA OnePlaceKept ==
  ASSUME OnePlace, NEW x \in Holders, Shift(x)
  PROVE  OnePlace'
  <1> SUFFICES ASSUME NEW y \in Holders, NEW z \in Holders
               PROVE  Held(y)' \cap map' = {} /\ (y # z => Held(y)' \cap Held(z)' = {})
    BY DEF OnePlace
  <1> DEFINE hy == Held(y)'
             hz == Held(z)'
             hx == Held(x)'
  <1>1. /\ y # x => hy = Held(y)
        /\ z # x => hz = Held(z)
        /\ hx \subseteq Held(x) \cup map /\ map' \subseteq map \cup Held(x) /\ hx \cap map' = {}
        /\ y = x => hy = hx
        /\ z = x => hz = hx
    BY DEF Shift
  <1>2. /\ Held(x) \cap map = {} /\ Held(y) \cap map = {} /\ Held(z) \cap map = {}
        /\ x # y => Held(x) \cap Held(y) = {}
        /\ x # z => Held(x) \cap Held(z) = {}
        /\ y # z => Held(y) \cap Held(z) = {}
    BY DEF OnePlace
  <1> HIDE DEF hy, hz, hx
  <1>3. hy \cap map' = {}
    BY <1>1, <1>2
  <1>4. y # z => hy \cap hz = {}
    BY <1>1, <1>2
  <1> QED
    BY <1>3, <1>4 DEF hy, hz

\* Capacities are numbers, and users have no more than pkt_map.
LEMMA Capacities ==
  /\ UserCap \in Nat /\ MapCap \in Nat /\ ConsumeCap \in Nat \ {0}
  /\ UserCap <= MapCap
  /\ IsFiniteSet(Workers)
  <1>1. /\ UserCap \in Nat /\ MapCap \in Nat /\ ConsumeCap \in Nat \ {0} /\ IsFiniteSet(Workers)
        /\ MapCap > UserCap + Cardinality(Workers) * (ConsumeCap - 1)
    BY MailboxAssumption
  <1>2. Cardinality(Workers) * (ConsumeCap - 1) \in Nat
    BY <1>1, FS_CardinalityType
  <1> QED
    BY <1>1, <1>2

\* A step of a user who puts packets into pkt_map below UserCap
LEMMA MovedByUser ==
  ASSUME SenderTypes, SenderTypes', Bounded, NEW s \in Senders, Moved(s, UserCap)
  PROVE  Bounded'
  <1> DEFINE U == UNION {copies[w] : w \in Workers}
             U2 == UNION {copies'[w] : w \in Workers}
             b == UserCap + Cardinality(Workers) * ConsumeCap
  <1>0. /\ UserCap \in Nat /\ MapCap \in Nat /\ ConsumeCap \in Nat /\ UserCap <= MapCap
        /\ IsFiniteSet(Workers)
    BY Capacities
  <1>1. \A w \in Workers : copies'[w] = copies[w] /\ IsFiniteSet(copies[w])
    <2>1. \A w \in Workers : w \in Holders /\ w # s /\ Held(w)' = Held(w) /\ Held(w) = copies[w]
      BY HeldCopies DEF Moved, Shift
    <2>2. \A w \in Workers : Held(w)' = copies'[w]
      BY MailboxAssumption DEF Held
    <2> QED
      BY <2>1, <2>2 DEF Bounded
  <1>2. U2 = U
    BY <1>1
  <1>3. IsFiniteSet(U) /\ Cardinality(U) <= Cardinality(Workers) * ConsumeCap
    BY <1>0, <1>1, TotalHeld DEF Bounded
  <1>4. /\ IsFiniteSet(map') /\ Size' \in Nat /\ (map' = map \/ Size' <= UserCap)
        /\ Size' = Cardinality(map')
    BY DEF Moved, Size
  <1>5. Size <= MapCap /\ (map' = map => Size' = Size)
    BY DEF Bounded, Size
  <1>6. Size' <= MapCap
    BY <1>0, <1>4, <1>5
  <1>7. Cardinality(map' \cup U) <= b
    <2>1. CASE map' = map
      BY <2>1 DEF Bounded
    <2>2. CASE Size' <= UserCap
      <3> DEFINE i == Cardinality(map' \cap U)
                 j == Cardinality(U)
                 k == Cardinality(Workers) * ConsumeCap
      <3>1. Cardinality(map' \cup U) = Size' + j - i
        BY <1>3, <1>4, FS_Union
      <3>2. IsFiniteSet(map' \cap U)
        <4>1. map' \cap U \in SUBSET U
          OBVIOUS
        <4> QED
          BY <4>1, <1>3, FS_Subset
      <3>3. i \in Nat /\ j \in Nat /\ Cardinality(Workers) \in Nat
        BY <1>0, <1>3, <3>2, FS_CardinalityType
      <3>4. k \in Nat /\ j <= k
        BY <1>0, <1>3, <3>3
      <3> HIDE DEF i, j, k
      <3>5. Size' + j - i <= UserCap + k
        BY <1>0, <1>4, <2>2, <3>3, <3>4
      <3> QED
        BY <3>1, <3>5 DEF k
    <2> QED
      BY <1>4, <2>1, <2>2
  <1>8. \A x \in Holders : IsFiniteSet(Held(x)')
    <2> SUFFICES ASSUME NEW x \in Holders PROVE IsFiniteSet(Held(x)')
      OBVIOUS
    <2>1. Held(x)' \in SUBSET Held(x) /\ IsFiniteSet(Held(x))
      BY DEF Moved, Shift, Bounded
    <2> QED
      BY <2>1, FS_Subset
  <1>9. \A w \in Workers : Cardinality(copies'[w]) <= ConsumeCap
    BY <1>1 DEF Bounded
  <1> QED
    BY <1>2, <1>4, <1>6, <1>7, <1>8, <1>9 DEF Bounded

\* A step that brings nothing into circulation: pkt_map shrinks or takes from a
\* worker, and whoever gets packets gets no more than a worker takes.
LEMMA NothingNew ==
  ASSUME SenderTypes, SenderTypes', Bounded,
         IsFiniteSet(map'), Size' <= MapCap,
         \A x \in Holders : IsFiniteSet(Held(x)'),
         \A w \in Workers : Cardinality(copies'[w]) <= ConsumeCap,
         map' \cup UNION {copies'[w] : w \in Workers}
           \subseteq map \cup UNION {copies[w] : w \in Workers}
  PROVE  Bounded'
  <1> DEFINE U == UNION {copies[w] : w \in Workers}
             U2 == UNION {copies'[w] : w \in Workers}
             b == UserCap + Cardinality(Workers) * ConsumeCap
  <1>0. /\ UserCap \in Nat /\ ConsumeCap \in Nat /\ IsFiniteSet(Workers)
    BY MailboxAssumption
  <1>1. \A w \in Workers : IsFiniteSet(copies[w]) /\ Cardinality(copies[w]) <= ConsumeCap
    BY HeldCopies DEF Bounded
  <1>2. IsFiniteSet(U)
    BY <1>0, <1>1, TotalHeld
  <1>3. IsFiniteSet(map \cup U) /\ map' \cup U2 \in SUBSET (map \cup U) /\ Cardinality(map \cup U) <= b
    BY <1>2, FS_Union DEF Bounded
  <1>4. IsFiniteSet(map' \cup U2) /\ Cardinality(map' \cup U2) <= Cardinality(map \cup U)
    <2> HIDE DEF U, U2
    <2> QED
      BY <1>3, FS_Subset
  <1>5. /\ Cardinality(map' \cup U2) \in Nat /\ Cardinality(map \cup U) \in Nat
        /\ Cardinality(Workers) \in Nat
    BY <1>0, <1>3, <1>4, FS_CardinalityType
  <1>6. b \in Nat
    BY <1>0, <1>5
  <1>7. Cardinality(map' \cup U2) <= b
    <2> HIDE DEF b, U, U2
    <2> QED
      BY <1>3, <1>4, <1>5, <1>6
  <1> QED
    BY <1>7 DEF Bounded

\* A step that neither sends out nor acknowledges anything
LEMMA LateKept ==
  ASSUME LateOnes, late' = late, acked' = acked,
         \A p \in Packets : p \in ToSet(acked) /\ Loose(p)' => Loose(p)
  PROVE  LateOnes'
  BY DEF LateOnes

\* What x adds of some of its copies, ok, is a move.
LEMMA Adds ==
  ASSUME SenderTypes, OnePlace, Bounded,
         NEW x \in Holders, x \in Senders => call[x] # "idle",
         NEW ok \in SUBSET copies[x], NEW cap \in Nat, NEW S \in Fitting(ok, cap),
         map' = map \cup S, copies' = [copies EXCEPT ![x] = ok \ S],
         \A s \in Senders : s # x => call'[s] = call[s],
         x \in Senders => call'[x] # "idle"
  PROVE  /\ Moved(x, cap) /\ S \subseteq ok /\ Held(x)' = ok \ S
         /\ map' \subseteq Packets /\ copies' \in [Holders -> SUBSET Packets]
         /\ map' = map \cup S
  <1>1. Held(x) = copies[x] /\ copies \in [Holders -> SUBSET Packets] /\ map \subseteq Packets
    BY DEF Held, SenderTypes
  <1>2. /\ ok \in SUBSET Held(x) /\ IsFiniteSet(Held(x)) /\ IsFiniteSet(map)
        /\ Held(x) \cap map = {}
    BY <1>1 DEF Bounded, OnePlace
  <1>3. IsFiniteSet(ok) /\ ok \cap map = {}
    BY <1>2, FS_Subset
  <1>4. /\ S \subseteq ok /\ IsFiniteSet(map \cup S)
        /\ Size \in Nat /\ Cardinality(map \cup S) \in Nat
        /\ Cardinality(map \cup S) >= Size
        /\ S = {} \/ Cardinality(map \cup S) <= cap
        /\ S = ok \/ Cardinality(map \cup S) >= cap
    BY <1>2, <1>3, Fits
  <1>5. map' = map \cup S /\ Size' = Cardinality(map \cup S)
    BY DEF Size
  <1>6. /\ copies'[x] = ok \ S /\ copies' \in [Holders -> SUBSET Packets]
        /\ \A y \in Holders : y # x => copies'[y] = copies[y]
    BY <1>1
  <1>7. Held(x)' = ok \ S
    BY <1>6 DEF Held
  <1>8. \A y \in Holders : y # x => Held(y)' = Held(y)
    BY <1>6 DEF Held
  <1>9. Shift(x)
    BY <1>1, <1>3, <1>4, <1>5, <1>7, <1>8 DEF Shift
  <1>10. S = ok => Held(x)' = {}
    BY <1>7
  <1>11. S = {} => map' = map
    BY <1>5
  <1>12. Held(x)' \subseteq Held(x) /\ map \subseteq map' /\ IsFiniteSet(map')
    BY <1>1, <1>4, <1>5, <1>7
  <1>13. Moved(x, cap)
    BY <1>4, <1>5, <1>9, <1>10, <1>11, <1>12 DEF Moved
  <1> QED
    BY <1>1, <1>4, <1>5, <1>6, <1>7, <1>13

\* What x has put into pkt_map, or still has, was loose before, unless x is a
\* worker that compares with acked.
LEMMA LooseMoved ==
  ASSUME NEW x \in Holders, NEW cap, Moved(x, cap),
         \A w \in Workers : w # x => work'[w] = work[w],
         NEW p, Loose(p)', p \in Held(x) => Loose(p)
  PROVE  Loose(p)
  <1>1. /\ map' \subseteq map \cup Held(x) /\ Held(x)' \subseteq Held(x)
        /\ \A y \in Holders : y # x => Held(y)' = Held(y)
    BY DEF Moved, Shift
  <1>2. CASE p \in map'
    BY <1>1, <1>2 DEF Loose
  <1>3. CASE p \notin map'
    <2>1. PICK y \in Holders : p \in Held(y)' /\ ~(y \in Workers /\ work'[y] = "add")
      BY <1>3 DEF Loose
    <2> QED
      BY <1>1, <2>1 DEF Loose
  <1> QED
    BY <1>2, <1>3

\* A user adds its packets.
LEMMA AddStep ==
  ASSUME SenderInv, NEW s \in Senders, add_retriables(s)
  PROVE  SenderInv'
  <1> DEFINE ok == Retriable(copies[s])
  <1>1. /\ SenderTypes /\ Waiting /\ OnePlace /\ Bounded
        /\ NobodyWaitsInVain /\ SomeWorkerFree /\ LateOnes
    BY DEF SenderInv
  <1>2. PICK S \in Fitting(ok, UserCap) :
          /\ MoveToMap(S, copies[s] \ ok)
          /\ copies' = [copies EXCEPT ![s] = ok \ S]
          /\ q1' = IF S = ok THEN q1 ELSE Append(q1, s)
          /\ call' = [call EXCEPT ![s] = IF S = ok THEN "done" ELSE "wait"]
    BY DEF add_retriables
  <1>3. /\ call[s] = "add" /\ mtx = Nobody
        /\ work' = work /\ q2' = q2 /\ acked' = acked /\ mtx' = mtx /\ late' = late
    BY DEF add_retriables
  <1>4. ok \in SUBSET copies[s] /\ s \in Holders /\ s \notin Workers
    BY <1>1, HeldCopies DEF Retriable
  <1> HIDE DEF ok
  <1>5. /\ call' \in [Senders -> {"idle", "add", "wait", "done"}]
        /\ call'[s] = (IF S = ok THEN "done" ELSE "wait")
        /\ \A t \in Senders : t # s => call'[t] = call[t]
    BY <1>1, <1>2 DEF SenderTypes
  <1>6. /\ Moved(s, UserCap) /\ S \subseteq ok /\ Held(s)' = ok \ S
        /\ map' \subseteq Packets /\ copies' \in [Holders -> SUBSET Packets]
    <2>1. /\ map' = map \cup S /\ copies' = [copies EXCEPT ![s] = ok \ S]
          /\ UserCap \in Nat /\ call[s] # "idle" /\ call'[s] # "idle"
      BY <1>2, <1>3, <1>5, Capacities DEF MoveToMap
    <2> QED
      BY <1>1, <1>4, <1>5, <2>1, Adds
  <1>7. SenderTypes'
    BY <1>1, <1>3, <1>5, <1>6 DEF SenderTypes
  <1>8. OnePlace'
    BY <1>1, <1>4, <1>6, OnePlaceKept DEF Moved
  <1>9. Bounded'
    BY <1>1, <1>6, <1>7, MovedByUser
  <1>10. Waiting'
    <2>1. \A w \in Workers : copies'[w] = copies[w]
      BY <1>1, <1>2, <1>4 DEF SenderTypes, Holders
    <2>2. /\ q1' \in Seq(Senders) /\ NoRepeats(q1')
          /\ ToSet(q1') = {t \in Senders : call'[t] = "wait"}
      <3>1. /\ q1 \in Seq(Senders) /\ NoRepeats(q1) /\ s \notin ToSet(q1)
            /\ ToSet(q1) = {t \in Senders : call[t] = "wait"}
        BY <1>1, <1>3 DEF Waiting
      <3>2. CASE S = ok
        BY <1>2, <1>3, <1>5, <3>1, <3>2
      <3>3. CASE S # ok
        <4>1. /\ q1' \in Seq(Senders) /\ NoRepeats(q1') /\ ToSet(q1') = ToSet(q1) \cup {s}
          BY <1>2, <3>1, <3>3, Joined
        <4> QED
          BY <1>5, <3>1, <3>3, <4>1
      <3> QED
        BY <3>2, <3>3
    <2> QED
      BY <1>1, <1>3, <2>1, <2>2 DEF Waiting
  <1>11. NobodyWaitsInVain'
    <2>1. /\ Size \in Int /\ Size' \in Nat /\ Size' >= Size /\ Size' <= MapCap
          /\ q1 # <<>> => Size >= UserCap
          /\ q2 # <<>> => Size = MapCap
      BY <1>1, <1>3, <1>6, <1>9, FS_CardinalityType DEF Moved, Bounded, NobodyWaitsInVain, Size
    <2>2. S # ok => Size' >= UserCap
      BY <1>6 DEF Moved
    <2> QED
      BY <1>2, <1>3, <2>1, <2>2, Capacities DEF NobodyWaitsInVain
  <1>12. SomeWorkerFree'
    BY <1>1, <1>3 DEF SomeWorkerFree
  <1>13. LateOnes'
    <2>1. \A p : p \in Held(s) => Loose(p)
      BY <1>4 DEF Loose
    <2>2. \A p \in Packets : Loose(p)' => Loose(p)
      BY <1>3, <1>4, <1>6, <2>1, LooseMoved
    <2> QED
      BY <1>1, <1>3, <2>2, LateKept
  <1> QED
    BY <1>7, <1>8, <1>9, <1>10, <1>11, <1>12, <1>13 DEF SenderInv

\* A step of a worker who puts packets into pkt_map below MapCap
LEMMA MovedByWorker ==
  ASSUME SenderTypes, SenderTypes', Bounded, NEW w \in Workers, Moved(w, MapCap)
  PROVE  Bounded'
  <1>1. \A x \in Holders : Held(x)' \in SUBSET Held(x) /\ IsFiniteSet(Held(x))
    BY DEF Moved, Shift, Bounded
  <1>2. \A x \in Holders : IsFiniteSet(Held(x)') /\ Cardinality(Held(x)') <= Cardinality(Held(x))
    BY <1>1, FS_Subset
  <1>3. \A v \in Workers : v \in Holders /\ Held(v) = copies[v] /\ Held(v)' = copies'[v]
    BY MailboxAssumption DEF Held, Holders
  <1>4. \A v \in Workers : Cardinality(copies'[v]) <= ConsumeCap
    <2> SUFFICES ASSUME NEW v \in Workers PROVE Cardinality(copies'[v]) <= ConsumeCap
      OBVIOUS
    <2>1. /\ Cardinality(copies'[v]) \in Nat /\ Cardinality(copies[v]) \in Nat
          /\ Cardinality(copies'[v]) <= Cardinality(copies[v])
          /\ Cardinality(copies[v]) <= ConsumeCap
      BY <1>1, <1>2, <1>3, FS_CardinalityType DEF Bounded
    <2> QED
      BY <2>1, Capacities
  <1>5. IsFiniteSet(map') /\ Size' <= MapCap
    BY DEF Moved, Bounded, Size
  <1>6. map' \cup UNION {copies'[v] : v \in Workers}
          \subseteq map \cup UNION {copies[v] : v \in Workers}
    BY <1>1, <1>3 DEF Moved, Shift
  <1> QED
    BY <1>2, <1>4, <1>5, <1>6, NothingNew

\* A worker adds the packets it has sent.
LEMMA ReentrantAddStep ==
  ASSUME SenderInv, NEW w \in Workers, reentrant_add_retriables(w)
  PROVE  SenderInv'
  <1> DEFINE ok == Retriable(copies[w])
  <1>1. /\ SenderTypes /\ Waiting /\ OnePlace /\ Bounded
        /\ NobodyWaitsInVain /\ SomeWorkerFree /\ LateOnes
    BY DEF SenderInv
  <1>2. PICK S \in Fitting(ok, MapCap) :
          /\ MoveToMap(S, copies[w] \ ok)
          /\ copies' = [copies EXCEPT ![w] = ok \ S]
          /\ q2' = IF S = ok THEN q2 ELSE Append(q2, w)
          /\ work' = [work EXCEPT ![w] = IF S = ok THEN "get" ELSE "wait"]
    BY DEF reentrant_add_retriables
  <1>3. /\ work[w] = "add" /\ mtx = Nobody
        /\ call' = call /\ q1' = q1 /\ acked' = acked /\ mtx' = mtx /\ late' = late
    BY DEF reentrant_add_retriables
  <1>4. /\ ok \in SUBSET copies[w] /\ w \in Holders /\ w \notin Senders
        /\ \A p \in ok : p \notin ToSet(acked)
    BY <1>1, HeldCopies DEF Retriable
  <1> HIDE DEF ok
  <1>5. /\ work' \in [Workers -> {"get", "push", "add", "wait"}]
        /\ work'[w] = (IF S = ok THEN "get" ELSE "wait")
        /\ \A v \in Workers : v # w => work'[v] = work[v]
    BY <1>1, <1>2 DEF SenderTypes
  <1>6. /\ Moved(w, MapCap) /\ S \subseteq ok /\ Held(w)' = ok \ S
        /\ map' \subseteq Packets /\ copies' \in [Holders -> SUBSET Packets]
        /\ map' = map \cup S
    <2>1. map' = map \cup S /\ copies' = [copies EXCEPT ![w] = ok \ S] /\ MapCap \in Nat
      BY <1>2, Capacities DEF MoveToMap
    <2> QED
      BY <1>1, <1>3, <1>4, <2>1, Adds
  <1>7. SenderTypes'
    BY <1>1, <1>3, <1>5, <1>6 DEF SenderTypes
  <1>8. OnePlace'
    BY <1>1, <1>4, <1>6, OnePlaceKept DEF Moved
  <1>9. Bounded'
    BY <1>1, <1>6, <1>7, MovedByWorker
  <1>10. Waiting'
    <2>1. /\ \A v \in Workers : v # w => copies'[v] = copies[v]
          /\ copies'[w] = ok \ S
      BY <1>1, <1>2, <1>4 DEF SenderTypes, Holders
    <2>2. /\ q2' \in Seq(Workers) /\ NoRepeats(q2')
          /\ ToSet(q2') = {v \in Workers : work'[v] = "wait"}
      <3>1. /\ q2 \in Seq(Workers) /\ NoRepeats(q2) /\ w \notin ToSet(q2)
            /\ ToSet(q2) = {v \in Workers : work[v] = "wait"}
        BY <1>1, <1>3 DEF Waiting
      <3>2. CASE S = ok
        BY <1>2, <1>3, <1>5, <3>1, <3>2
      <3>3. CASE S # ok
        <4>1. /\ q2' \in Seq(Workers) /\ NoRepeats(q2') /\ ToSet(q2') = ToSet(q2) \cup {w}
          BY <1>2, <3>1, <3>3, Joined
        <4> QED
          BY <1>5, <3>1, <3>3, <4>1
      <3> QED
        BY <3>2, <3>3
    <2>3. /\ \A v \in Workers : work'[v] = "wait" => copies'[v] # {}
          /\ \A v \in Workers : work'[v] = "get" => copies'[v] = {}
      BY <1>1, <1>5, <1>6, <2>1 DEF Waiting
    <2> QED
      BY <1>1, <1>3, <2>2, <2>3 DEF Waiting
  <1>11. S # ok => Size' = MapCap
    <2>1. Size' \in Nat /\ Size' <= MapCap /\ (S # ok => Size' >= MapCap)
      BY <1>6, <1>9 DEF Moved, Bounded
    <2> QED
      BY <2>1, Capacities
  <1>12. NobodyWaitsInVain'
    <2>1. /\ Size \in Int /\ Size' \in Nat /\ Size' >= Size /\ Size' <= MapCap
          /\ q1 # <<>> => Size >= UserCap
          /\ q2 # <<>> => Size = MapCap
      BY <1>1, <1>3, <1>6, <1>9, FS_CardinalityType DEF Moved, Bounded, NobodyWaitsInVain, Size
    <2> QED
      BY <1>2, <1>3, <1>11, <2>1, Capacities DEF NobodyWaitsInVain
  <1>13. SomeWorkerFree'
    <2> SUFFICES ASSUME \A v \in Workers : work'[v] = "wait" PROVE FALSE
      BY DEF SomeWorkerFree
    <2>1. Cardinality(map') = MapCap /\ IsFiniteSet(map')
      BY <1>5, <1>9, <1>11 DEF Size, Bounded
    <2>2. \A v \in Workers : v \in Holders /\ Held(v)' = copies'[v]
      BY MailboxAssumption DEF Held, Holders
    <2>3. \A v \in Workers : IsFiniteSet(copies'[v]) /\ copies'[v] # {} /\ copies'[v] \cap map' = {}
      BY <1>8, <1>9, <1>10, <2>2 DEF Bounded, Waiting, OnePlace
    <2>4. \A u, v \in Workers : u # v => copies'[u] \cap copies'[v] = {}
      BY <1>8, <2>2 DEF OnePlace
    <2>5. \A v \in Workers : IsFiniteSet(copies'[v]) /\ Cardinality(copies'[v]) <= ConsumeCap
      BY <1>9, <2>3 DEF Bounded
    <2>6. IsFiniteSet(UNION {copies'[v] : v \in Workers})
      <3>1. IsFiniteSet(Workers) /\ ConsumeCap \in Nat
        BY Capacities
      <3> QED
        BY <2>5, <3>1, TotalHeld
    <2>7. Cardinality(map' \cup UNION {copies'[v] : v \in Workers})
            <= UserCap + Cardinality(Workers) * ConsumeCap
      BY <1>9 DEF Bounded
    <2> QED
      BY <2>1, <2>3, <2>4, <2>6, <2>7, Overfull
  <1>14. LateOnes'
    <2>1. \A p : p \in Held(w)' => p \notin ToSet(acked)
      BY <1>4, <1>6
    <2>2. \A p \in map' : p \in ToSet(acked) => p \in map
      BY <1>4, <1>6
    <2>3. ASSUME NEW p \in Packets, p \in ToSet(acked), Loose(p)' PROVE Loose(p)
      <3>1. CASE p \in map'
        BY <2>2, <2>3, <3>1 DEF Loose
      <3>2. CASE p \notin map'
        <4>1. PICK y \in Holders : p \in Held(y)' /\ ~(y \in Workers /\ work'[y] = "add")
          BY <2>3, <3>2 DEF Loose
        <4>2. y # w /\ Held(y)' = Held(y)
          BY <1>6, <2>1, <2>3, <4>1 DEF Moved, Shift
        <4> QED
          BY <1>5, <4>1, <4>2 DEF Loose
      <3> QED
        BY <3>1, <3>2
    <2> QED
      BY <1>1, <1>3, <2>3, LateKept
  <1> QED
    BY <1>7, <1>8, <1>9, <1>10, <1>12, <1>13, <1>14 DEF SenderInv

\* The first user that waits gets room.
LEMMA Fulfill1Step ==
  ASSUME SenderInv, fulfill_one_1
  PROVE  SenderInv'
  <1> DEFINE s == Head(q1)
             ok == copies[s]
  <1>1. /\ SenderTypes /\ Waiting /\ OnePlace /\ Bounded /\ SomeWorkerFree /\ LateOnes
    BY DEF SenderInv
  <1>2. PICK S \in Fitting(ok, UserCap) :
          /\ MoveToMap(S, {})
          /\ copies' = [copies EXCEPT ![s] = @ \ S]
          /\ q1' = IF S = ok THEN Tail(q1) ELSE q1
          /\ call' = [call EXCEPT ![s] = IF S = ok THEN "done" ELSE @]
    BY DEF fulfill_one_1
  <1>3. /\ mtx # Nobody /\ q1 # <<>>
        /\ work' = work /\ q2' = q2 /\ acked' = acked /\ mtx' = mtx /\ late' = late
    BY DEF fulfill_one_1
  <1>4. /\ q1 \in Seq(Senders) /\ NoRepeats(q1)
        /\ ToSet(q1) = {t \in Senders : call[t] = "wait"}
    BY <1>1 DEF Waiting
  <1>5. /\ s \in Senders /\ s \in ToSet(q1)
        /\ Tail(q1) \in Seq(Senders) /\ NoRepeats(Tail(q1))
        /\ ToSet(Tail(q1)) = ToSet(q1) \ {s}
    BY <1>3, <1>4, FirstLeaves
  <1> HIDE DEF s
  <1>6. s \in Holders /\ s \notin Workers /\ call[s] = "wait" /\ ok \in SUBSET copies[s]
    BY <1>1, <1>4, <1>5, HeldCopies
  <1>7. copies' = [copies EXCEPT ![s] = ok \ S]
    BY <1>1, <1>2, <1>6 DEF SenderTypes
  <1>8. /\ call' \in [Senders -> {"idle", "add", "wait", "done"}]
        /\ call'[s] = (IF S = ok THEN "done" ELSE "wait")
        /\ \A t \in Senders : t # s => call'[t] = call[t]
    BY <1>1, <1>2, <1>5, <1>6 DEF SenderTypes
  <1> HIDE DEF ok
  <1>9. /\ Moved(s, UserCap) /\ map' \subseteq Packets /\ copies' \in [Holders -> SUBSET Packets]
    <2>1. map' = map \cup S /\ UserCap \in Nat /\ call[s] # "idle" /\ call'[s] # "idle"
      BY <1>2, <1>6, <1>8, Capacities DEF MoveToMap
    <2> QED
      BY <1>1, <1>6, <1>7, <1>8, <2>1, Adds
  <1>10. SenderTypes'
    BY <1>1, <1>3, <1>8, <1>9 DEF SenderTypes
  <1>11. OnePlace'
    BY <1>1, <1>6, <1>9, OnePlaceKept DEF Moved
  <1>12. Bounded'
    BY <1>1, <1>5, <1>9, <1>10, MovedByUser
  <1>13. Waiting'
    <2>1. \A w \in Workers : copies'[w] = copies[w]
      BY <1>1, <1>6, <1>7 DEF SenderTypes, Holders
    <2>2. /\ q1' \in Seq(Senders) /\ NoRepeats(q1')
          /\ ToSet(q1') = {t \in Senders : call'[t] = "wait"}
      <3>1. CASE S = ok
        BY <1>2, <1>4, <1>5, <1>8, <3>1
      <3>2. CASE S # ok
        BY <1>2, <1>4, <1>6, <1>8, <3>2
      <3> QED
        BY <3>1, <3>2
    <2> QED
      BY <1>1, <1>3, <2>1, <2>2 DEF Waiting
  <1>14. NobodyWaitsInVain' /\ SomeWorkerFree'
    BY <1>1, <1>3 DEF NobodyWaitsInVain, SomeWorkerFree
  <1>15. LateOnes'
    <2>1. \A p : p \in Held(s) => Loose(p)
      BY <1>6 DEF Loose
    <2>2. \A p \in Packets : Loose(p)' => Loose(p)
      BY <1>3, <1>6, <1>9, <2>1, LooseMoved
    <2> QED
      BY <1>1, <1>3, <2>2, LateKept
  <1> QED
    BY <1>10, <1>11, <1>12, <1>13, <1>14, <1>15 DEF SenderInv

\* The first worker that waits gets room.
LEMMA Fulfill2Step ==
  ASSUME SenderInv, fulfill_one_2
  PROVE  SenderInv'
  <1> DEFINE w == Head(q2)
             ok == copies[w]
  <1>1. /\ SenderTypes /\ Waiting /\ OnePlace /\ Bounded /\ SomeWorkerFree /\ LateOnes
    BY DEF SenderInv
  <1>2. PICK S \in Fitting(ok, MapCap) :
          /\ MoveToMap(S, {})
          /\ copies' = [copies EXCEPT ![w] = @ \ S]
          /\ q2' = IF S = ok THEN Tail(q2) ELSE q2
          /\ work' = [work EXCEPT ![w] = IF S = ok THEN "get" ELSE @]
    BY DEF fulfill_one_2
  <1>3. /\ mtx # Nobody /\ q2 # <<>>
        /\ call' = call /\ q1' = q1 /\ acked' = acked /\ mtx' = mtx /\ late' = late
    BY DEF fulfill_one_2
  <1>4. /\ q2 \in Seq(Workers) /\ NoRepeats(q2)
        /\ ToSet(q2) = {v \in Workers : work[v] = "wait"}
    BY <1>1 DEF Waiting
  <1>5. /\ w \in Workers /\ w \in ToSet(q2)
        /\ Tail(q2) \in Seq(Workers) /\ NoRepeats(Tail(q2))
        /\ ToSet(Tail(q2)) = ToSet(q2) \ {w}
    BY <1>3, <1>4, FirstLeaves
  <1> HIDE DEF w
  <1>6. w \in Holders /\ w \notin Senders /\ work[w] = "wait" /\ ok \in SUBSET copies[w]
    BY <1>1, <1>4, <1>5, HeldCopies
  <1>7. copies' = [copies EXCEPT ![w] = ok \ S]
    BY <1>1, <1>2, <1>6 DEF SenderTypes
  <1>8. /\ work' \in [Workers -> {"get", "push", "add", "wait"}]
        /\ work'[w] = (IF S = ok THEN "get" ELSE "wait")
        /\ \A v \in Workers : v # w => work'[v] = work[v]
    BY <1>1, <1>2, <1>5, <1>6 DEF SenderTypes
  <1> HIDE DEF ok
  <1>9. /\ Moved(w, MapCap) /\ map' \subseteq Packets /\ copies' \in [Holders -> SUBSET Packets]
        /\ S \subseteq ok
    <2>1. map' = map \cup S /\ MapCap \in Nat
      BY <1>2, Capacities DEF MoveToMap
    <2> QED
      BY <1>1, <1>3, <1>6, <1>7, <2>1, Adds
  <1>10. SenderTypes'
    BY <1>1, <1>3, <1>8, <1>9 DEF SenderTypes
  <1>11. OnePlace'
    BY <1>1, <1>6, <1>9, OnePlaceKept DEF Moved
  <1>12. Bounded'
    BY <1>1, <1>5, <1>9, <1>10, MovedByWorker
  <1>13. Waiting'
    <2>1. /\ \A v \in Workers : v # w => copies'[v] = copies[v]
          /\ copies'[w] = ok \ S
      BY <1>1, <1>6, <1>7 DEF SenderTypes, Holders
    <2>2. /\ q2' \in Seq(Workers) /\ NoRepeats(q2')
          /\ ToSet(q2') = {v \in Workers : work'[v] = "wait"}
      <3>1. CASE S = ok
        BY <1>2, <1>4, <1>5, <1>8, <3>1
      <3>2. CASE S # ok
        BY <1>2, <1>4, <1>6, <1>8, <3>2
      <3> QED
        BY <3>1, <3>2
    <2>3. /\ \A v \in Workers : work'[v] = "wait" => copies'[v] # {}
          /\ \A v \in Workers : work'[v] = "get" => copies'[v] = {}
      BY <1>1, <1>8, <1>9, <2>1 DEF Waiting
    <2> QED
      BY <1>1, <1>3, <2>2, <2>3 DEF Waiting
  <1>14. NobodyWaitsInVain'
    BY <1>3 DEF NobodyWaitsInVain
  <1>15. SomeWorkerFree'
    BY <1>1, <1>6, <1>8 DEF SomeWorkerFree
  <1>16. LateOnes'
    <2>1. \A p : p \in Held(w) => Loose(p)
      BY <1>6 DEF Loose
    <2>2. \A p \in Packets : Loose(p)' => Loose(p)
      BY <1>6, <1>8, <1>9, <2>1, LooseMoved
    <2> QED
      BY <1>1, <1>3, <2>2, LateKept
  <1> QED
    BY <1>10, <1>11, <1>12, <1>13, <1>14, <1>15, <1>16 DEF SenderInv

\* Nobody else gets room, because there is none or nobody waits for it.
LEMMA FulfillEndStep ==
  ASSUME SenderInv, fulfill_end
  PROVE  SenderInv'
  <1>1. NobodyWaitsInVain'
    BY DEF fulfill_end, NobodyWaitsInVain, Size
  <1>2. /\ call' = call /\ copies' = copies /\ work' = work /\ map' = map
        /\ q1' = q1 /\ q2' = q2 /\ acked' = acked /\ late' = late
    BY DEF fulfill_end
  <1>3. SenderTypes' /\ Waiting' /\ SomeWorkerFree'
    BY <1>2 DEF SenderInv, SenderTypes, Waiting, SomeWorkerFree
  <1>4. OnePlace' /\ Bounded' /\ LateOnes'
    BY <1>2 DEF SenderInv, OnePlace, Bounded, LateOnes, Loose, Held, Size
  <1> QED
    BY <1>1, <1>3, <1>4 DEF SenderInv

\* What x loses or takes out of pkt_map was loose before.
LEMMA LooseShift ==
  ASSUME NEW x \in Holders, Shift(x), map' \subseteq map,
         \A w \in Workers : w # x => work'[w] = work[w],
         NEW p, Loose(p)', p \in Held(x)' => Loose(p) \/ (x \in Workers /\ work'[x] = "add")
  PROVE  Loose(p)
  <1>1. CASE p \in map'
    BY <1>1 DEF Loose
  <1>2. CASE p \notin map'
    <2>1. PICK y \in Holders : p \in Held(y)' /\ ~(y \in Workers /\ work'[y] = "add")
      BY <1>2 DEF Loose
    <2>2. CASE y = x
      BY <2>1, <2>2
    <2>3. CASE y # x
      <3>1. Held(y)' = Held(y)
        BY <2>3 DEF Shift
      <3> QED
        BY <2>1, <2>3, <3>1 DEF Loose
    <2> QED
      BY <2>2, <2>3
  <1> QED
    BY <1>1, <1>2

\* A user hands its packets to the outbound container.
LEMMA SendStep ==
  ASSUME SenderInv, NEW s \in Senders, send(s)
  PROVE  SenderInv'
  <1>1. /\ SenderTypes /\ Waiting /\ OnePlace /\ Bounded
        /\ NobodyWaitsInVain /\ SomeWorkerFree /\ LateOnes
    BY DEF SenderInv
  <1>2. PICK refused \in SUBSET Batch[s] : copies' = [copies EXCEPT ![s] = Batch[s] \ refused]
    BY DEF send
  <1>3. /\ call[s] = "idle" /\ call' = [call EXCEPT ![s] = "add"]
        /\ work' = work /\ map' = map /\ q1' = q1 /\ q2' = q2 /\ acked' = acked
        /\ mtx' = mtx /\ late' = late
    BY DEF send
  <1>4. s \in Holders /\ s \notin Workers /\ Batch[s] \subseteq Packets /\ Held(s) = Batch[s]
    BY <1>1, <1>3, HeldCopies, BatchAssumption DEF Held
  <1>5. /\ call' \in [Senders -> {"idle", "add", "wait", "done"}] /\ call'[s] = "add"
        /\ \A t \in Senders : t # s => call'[t] = call[t]
    BY <1>1, <1>3 DEF SenderTypes
  <1>6. /\ copies' \in [Holders -> SUBSET Packets] /\ copies'[s] = Batch[s] \ refused
        /\ \A x \in Holders : x # s => copies'[x] = copies[x]
    BY <1>1, <1>2, <1>4 DEF SenderTypes
  <1>7. SenderTypes'
    BY <1>1, <1>3, <1>5, <1>6 DEF SenderTypes
  <1>8. /\ \A x \in Holders : x # s => Held(x)' = Held(x)
        /\ Held(s)' \subseteq Held(s)
    BY <1>4, <1>5, <1>6 DEF Held
  <1>9. Shift(s)
    BY <1>1, <1>3, <1>4, <1>8 DEF Shift, OnePlace
  <1>10. OnePlace'
    BY <1>1, <1>4, <1>9, OnePlaceKept
  <1>11. \A w \in Workers : copies'[w] = copies[w]
    BY <1>4, <1>6 DEF Holders
  <1>12. Bounded'
    <2>1. \A x \in Holders : Held(x)' \in SUBSET Held(x) /\ IsFiniteSet(Held(x))
      BY <1>1, <1>8 DEF Bounded
    <2>2. \A x \in Holders : IsFiniteSet(Held(x)')
      BY <2>1, FS_Subset
    <2>3. UNION {copies'[w] : w \in Workers} = UNION {copies[w] : w \in Workers}
      BY <1>11
    <2> QED
      BY <1>1, <1>3, <1>11, <2>2, <2>3 DEF Bounded, Size
  <1>13. Waiting'
    BY <1>1, <1>3, <1>5, <1>11 DEF Waiting
  <1>14. NobodyWaitsInVain' /\ SomeWorkerFree'
    BY <1>1, <1>3 DEF NobodyWaitsInVain, SomeWorkerFree, Size
  <1>15. LateOnes'
    <2>1. \A p : p \in Held(s) => Loose(p)
      BY <1>4 DEF Loose
    <2>2. \A p \in Packets : Loose(p)' => Loose(p)
      BY <1>3, <1>4, <1>8, <1>9, <2>1, LooseShift
    <2> QED
      BY <1>1, <1>3, <2>2, LateKept
  <1> QED
    BY <1>7, <1>10, <1>12, <1>13, <1>14, <1>15 DEF SenderInv

\* A worker takes what has expired out of pkt_map.
LEMMA GetStep ==
  ASSUME SenderInv, NEW w \in Workers, get_retriables(w)
  PROVE  SenderInv'
  <1>1. /\ SenderTypes /\ Waiting /\ OnePlace /\ Bounded /\ LateOnes
    BY DEF SenderInv
  <1>2. PICK S \in SUBSET map : /\ Cardinality(S) <= ConsumeCap
                                /\ map' = map \ S
                                /\ copies' = [copies EXCEPT ![w] = S]
    BY DEF get_retriables
  <1>3. /\ work[w] = "get" /\ work' = [work EXCEPT ![w] = "push"] /\ mtx' = w
        /\ call' = call /\ q1' = q1 /\ q2' = q2 /\ acked' = acked /\ late' = late
    BY DEF get_retriables
  <1>4. w \in Holders /\ w \notin Senders /\ w # Nobody
    BY <1>1, HeldCopies, MailboxAssumption
  <1>5. /\ work' \in [Workers -> {"get", "push", "add", "wait"}] /\ work'[w] = "push"
        /\ \A v \in Workers : v # w => work'[v] = work[v]
    BY <1>1, <1>3 DEF SenderTypes
  <1>6. /\ copies' \in [Holders -> SUBSET Packets] /\ copies'[w] = S /\ map' \subseteq Packets
        /\ \A x \in Holders : x # w => copies'[x] = copies[x]
    BY <1>1, <1>2, <1>4 DEF SenderTypes
  <1>7. SenderTypes'
    BY <1>1, <1>3, <1>5, <1>6 DEF SenderTypes
  <1>8. /\ \A x \in Holders : x # w => Held(x)' = Held(x)
        /\ Held(w)' = S
    BY <1>3, <1>4, <1>6 DEF Held
  <1>9. Shift(w)
    BY <1>2, <1>8 DEF Shift
  <1>10. OnePlace'
    BY <1>1, <1>4, <1>9, OnePlaceKept
  <1>11. Bounded'
    <2>1. IsFiniteSet(map) /\ map' \in SUBSET map /\ S \in SUBSET map
      BY <1>1, <1>2 DEF Bounded
    <2>2. IsFiniteSet(map') /\ IsFiniteSet(S) /\ Cardinality(map') <= Cardinality(map)
      BY <2>1, FS_Subset
    <2>3. Size' \in Nat /\ Size \in Nat /\ Size' <= Size /\ Size <= MapCap
      BY <1>1, <2>1, <2>2, FS_CardinalityType DEF Size, Bounded
    <2>4. Size' <= MapCap
      BY <2>3, Capacities
    <2>5. \A x \in Holders : IsFiniteSet(Held(x)')
      BY <1>1, <1>8, <2>2 DEF Bounded
    <2>6. \A v \in Workers : Cardinality(copies'[v]) <= ConsumeCap
      BY <1>1, <1>2, <1>6 DEF Bounded, Holders
    <2>7. map' \cup UNION {copies'[v] : v \in Workers}
            \subseteq map \cup UNION {copies[v] : v \in Workers}
      BY <1>2, <1>6 DEF Holders
    <2> QED
      BY <1>1, <1>7, <2>2, <2>4, <2>5, <2>6, <2>7, NothingNew
  <1>12. Waiting'
    <2>1. \A v \in Workers : v # w => copies'[v] = copies[v]
      BY <1>6 DEF Holders
    <2>2. {v \in Workers : work'[v] = "wait"} = {v \in Workers : work[v] = "wait"}
      BY <1>3, <1>5
    <2> QED
      BY <1>1, <1>3, <1>5, <2>1, <2>2 DEF Waiting
  <1>13. NobodyWaitsInVain'
    BY <1>3, <1>4 DEF NobodyWaitsInVain
  <1>14. SomeWorkerFree'
    BY <1>5 DEF SomeWorkerFree
  <1>15. LateOnes'
    <2>1. \A p \in Held(w)' : Loose(p)
      BY <1>8 DEF Loose
    <2>2. \A p \in Packets : Loose(p)' => Loose(p)
      BY <1>2, <1>4, <1>5, <1>9, <2>1, LooseShift
    <2> QED
      BY <1>1, <1>3, <2>2, LateKept
  <1> QED
    BY <1>7, <1>10, <1>11, <1>12, <1>13, <1>14, <1>15 DEF SenderInv

\* A worker sends what it has taken.
LEMMA RetransmitStep ==
  ASSUME SenderInv, NEW w \in Workers, retransmit(w)
  PROVE  SenderInv'
  <1>1. /\ SenderTypes /\ Waiting /\ OnePlace /\ Bounded
        /\ NobodyWaitsInVain /\ SomeWorkerFree /\ LateOnes
    BY DEF SenderInv
  <1>2. PICK uncopied \in SUBSET copies[w] : copies' = [copies EXCEPT ![w] = @ \ uncopied]
    BY DEF retransmit
  <1>3. /\ work[w] = "push" /\ work' = [work EXCEPT ![w] = "add"]
        /\ late' = Count(late, copies[w] \cap ToSet(acked))
        /\ call' = call /\ map' = map /\ q1' = q1 /\ q2' = q2 /\ acked' = acked /\ mtx' = mtx
    BY DEF retransmit
  <1>4. w \in Holders /\ w \notin Senders /\ Held(w) = copies[w]
    BY <1>1, HeldCopies
  <1>5. /\ work' \in [Workers -> {"get", "push", "add", "wait"}] /\ work'[w] = "add"
        /\ \A v \in Workers : v # w => work'[v] = work[v]
    BY <1>1, <1>3 DEF SenderTypes
  <1>6. /\ copies' \in [Holders -> SUBSET Packets] /\ copies'[w] \in SUBSET copies[w]
        /\ \A x \in Holders : x # w => copies'[x] = copies[x]
    BY <1>1, <1>2, <1>4 DEF SenderTypes
  <1>7. /\ \A x \in Holders : x # w => Held(x)' = Held(x)
        /\ Held(w)' \in SUBSET Held(w)
    BY <1>3, <1>4, <1>6 DEF Held
  <1>8. late' \in [Packets -> Nat] /\ \A p \in Packets :
          late'[p] = late[p] + IF p \in Held(w) \cap ToSet(acked) THEN 1 ELSE 0
    BY <1>1, <1>3, <1>4 DEF Count, SenderTypes
  <1>9. SenderTypes'
    BY <1>1, <1>3, <1>5, <1>6, <1>8 DEF SenderTypes
  <1>10. Shift(w)
    BY <1>1, <1>3, <1>4, <1>7 DEF Shift, OnePlace
  <1>11. OnePlace'
    BY <1>1, <1>4, <1>10, OnePlaceKept
  <1>12. Bounded'
    <2>1. \A x \in Holders : Held(x)' \in SUBSET Held(x) /\ IsFiniteSet(Held(x))
      BY <1>1, <1>7 DEF Bounded
    <2>2. \A x \in Holders : IsFiniteSet(Held(x)') /\ Cardinality(Held(x)') <= Cardinality(Held(x))
      BY <2>1, FS_Subset
    <2>3. \A v \in Workers : Cardinality(copies'[v]) <= ConsumeCap
      <3> SUFFICES ASSUME NEW v \in Workers PROVE Cardinality(copies'[v]) <= ConsumeCap
        OBVIOUS
      <3>1. v \in Holders /\ Held(v)' = copies'[v] /\ Held(v) = copies[v]
        BY MailboxAssumption DEF Held, Holders
      <3>2. /\ Cardinality(copies'[v]) \in Nat /\ Cardinality(copies[v]) \in Nat
            /\ Cardinality(copies'[v]) <= Cardinality(copies[v])
            /\ Cardinality(copies[v]) <= ConsumeCap
        BY <1>1, <2>1, <2>2, <3>1, FS_CardinalityType DEF Bounded
      <3> QED
        BY <3>2, Capacities
    <2>4. map' \cup UNION {copies'[v] : v \in Workers}
            \subseteq map \cup UNION {copies[v] : v \in Workers}
      BY <1>3, <1>6 DEF Holders
    <2>5. IsFiniteSet(map') /\ Size' <= MapCap
      BY <1>1, <1>3 DEF Bounded, Size
    <2> QED
      BY <1>1, <1>9, <2>2, <2>3, <2>4, <2>5, NothingNew
  <1>13. Waiting'
    <2>1. \A v \in Workers : v # w => copies'[v] = copies[v]
      BY <1>6 DEF Holders
    <2>2. {v \in Workers : work'[v] = "wait"} = {v \in Workers : work[v] = "wait"}
      BY <1>3, <1>5
    <2> QED
      BY <1>1, <1>3, <1>5, <2>1, <2>2 DEF Waiting
  <1>14. NobodyWaitsInVain'
    BY <1>1, <1>3 DEF NobodyWaitsInVain, Size
  <1>15. SomeWorkerFree'
    BY <1>5 DEF SomeWorkerFree
  <1>16. LateOnes'
    <2> SUFFICES ASSUME NEW p \in Packets
                 PROVE  late'[p] \in {0, 1} /\ (late'[p] = 1 => p \in ToSet(acked') /\ ~Loose(p)')
      BY DEF LateOnes
    <2>1. CASE p \in Held(w) \cap ToSet(acked)
      <3>1. Loose(p)
        BY <1>3, <1>4, <2>1 DEF Loose
      <3>2. late'[p] = 1
        BY <1>1, <1>8, <2>1, <3>1 DEF LateOnes
      <3>3. p \notin map' /\ \A x \in Holders : x # w => p \notin Held(x)'
        BY <1>1, <1>3, <1>4, <1>7, <2>1 DEF OnePlace
      <3>4. ~Loose(p)'
        BY <1>5, <3>3 DEF Loose
      <3> QED
        BY <1>3, <2>1, <3>2, <3>4
    <2>2. CASE p \notin Held(w) \cap ToSet(acked)
      <3>1. late'[p] = late[p]
        BY <1>1, <1>8, <2>2 DEF SenderTypes
      <3>2. Loose(p)' => Loose(p)
        BY <1>3, <1>4, <1>5, <1>10, LooseShift
      <3> QED
        BY <1>1, <1>3, <3>1, <3>2 DEF LateOnes
    <2> QED
      BY <2>1, <2>2
  <1> QED
    BY <1>9, <1>11, <1>12, <1>13, <1>14, <1>15, <1>16 DEF SenderInv

\* An ack takes its packet out of pkt_map; what acked forgets starts anew.
LEMMA AckSenderStep ==
  ASSUME SenderInv, NEW p \in Packets, ack(p)
  PROVE  SenderInv'
  <1>1. /\ SenderTypes /\ Waiting /\ OnePlace /\ Bounded /\ SomeWorkerFree /\ LateOnes
    BY DEF SenderInv
  <1> DEFINE a == CyclicInsert(acked, p, AckedCap)
  <1>2. /\ map' = map \ {p} /\ acked' = a /\ mtx' = InBound
        /\ late' = [q \in Packets |-> IF Forgets(acked, AckedCap, q) THEN 0 ELSE late[q]]
        /\ call' = call /\ copies' = copies /\ work' = work /\ q1' = q1 /\ q2' = q2
    BY DEF ack, Acknowledge
  <1>3. /\ a \in Seq(Packets)
        /\ \A x \in ToSet(acked) : x \in ToSet(a) \/ Forgets(acked, AckedCap, x)
    BY <1>1, MailboxAssumption, Inserted DEF SenderTypes
  <1> HIDE DEF a
  <1>4. SenderTypes'
    BY <1>1, <1>2, <1>3 DEF SenderTypes
  <1>5. Waiting' /\ SomeWorkerFree'
    BY <1>1, <1>2 DEF Waiting, SomeWorkerFree
  <1>6. \A x \in Holders : Held(x)' = Held(x)
    BY <1>2 DEF Held
  <1>7. OnePlace'
    BY <1>1, <1>2, <1>6 DEF OnePlace
  <1>8. Bounded'
    <2>1. IsFiniteSet(map) /\ map' \in SUBSET map
      BY <1>1, <1>2 DEF Bounded
    <2>2. IsFiniteSet(map') /\ Cardinality(map') <= Cardinality(map)
      BY <2>1, FS_Subset
    <2>3. Size' \in Nat /\ Size \in Nat /\ Size' <= Size /\ Size <= MapCap
      BY <1>1, <2>1, <2>2, FS_CardinalityType DEF Size, Bounded
    <2>4. Size' <= MapCap
      BY <2>3, Capacities
    <2>5. map' \cup UNION {copies'[v] : v \in Workers}
            \subseteq map \cup UNION {copies[v] : v \in Workers}
      BY <1>2
    <2>6. /\ \A x \in Holders : IsFiniteSet(Held(x)')
          /\ \A v \in Workers : Cardinality(copies'[v]) <= ConsumeCap
      BY <1>1, <1>2, <1>6 DEF Bounded
    <2> QED
      BY <1>1, <1>4, <2>2, <2>4, <2>5, <2>6, NothingNew
  <1>9. NobodyWaitsInVain'
    BY <1>2, MailboxAssumption DEF NobodyWaitsInVain
  <1>10. LateOnes'
    <2> SUFFICES ASSUME NEW q \in Packets
                 PROVE  late'[q] \in {0, 1} /\ (late'[q] = 1 => q \in ToSet(acked') /\ ~Loose(q)')
      BY DEF LateOnes
    <2>1. Loose(q)' => Loose(q)
      BY <1>2, <1>6 DEF Loose
    <2>2. late'[q] = IF Forgets(acked, AckedCap, q) THEN 0 ELSE late[q]
      BY <1>2
    <2> QED
      BY <1>1, <1>2, <1>3, <2>1, <2>2 DEF LateOnes
  <1> QED
    BY <1>4, <1>5, <1>7, <1>8, <1>9, <1>10 DEF SenderInv

\* The receiver does not touch the sender.
LEMMA SenderKept ==
  ASSUME SenderInv, UNCHANGED sender
  PROVE  SenderInv'
  <1>1. /\ call' = call /\ copies' = copies /\ work' = work /\ map' = map /\ mtx' = mtx
        /\ q1' = q1 /\ q2' = q2 /\ acked' = acked /\ late' = late
    BY DEF sender
  <1>2. SenderTypes' /\ Waiting' /\ SomeWorkerFree'
    BY <1>1 DEF SenderInv, SenderTypes, Waiting, SomeWorkerFree
  <1>3. OnePlace' /\ Bounded' /\ NobodyWaitsInVain' /\ LateOnes'
    BY <1>1 DEF SenderInv, OnePlace, Bounded, NobodyWaitsInVain, LateOnes, Loose, Held, Size
  <1> QED
    BY <1>2, <1>3 DEF SenderInv

\* Every step keeps packets in one place, bounded in number, and nobody waiting
\* for room that is there.
LEMMA SenderInvStep == SenderInv /\ [Next]_vars => SenderInv'
  <1> SUFFICES ASSUME SenderInv, [Next]_vars PROVE SenderInv'
    OBVIOUS
  <1>1. CASE UNCHANGED vars
    BY <1>1, SenderKept DEF vars
  <1>2. CASE \E s \in Senders : send(s)
    BY <1>2, SendStep
  <1>3. CASE \E s \in Senders : add_retriables(s)
    BY <1>3, AddStep
  <1>4. CASE \E w \in Workers : Worker(w)
    BY <1>4, GetStep, RetransmitStep, ReentrantAddStep DEF Worker
  <1>5. CASE fulfill_wait_queue
    BY <1>5, Fulfill1Step, Fulfill2Step, FulfillEndStep DEF fulfill_wait_queue
  <1>6. CASE \E p \in Packets : ack(p)
    BY <1>6, AckSenderStep
  <1>7. CASE \E p \in Packets : thru(p)
    BY <1>7, SenderKept DEF thru
  <1> QED
    BY <1>1, <1>2, <1>3, <1>4, <1>5, <1>6, <1>7 DEF Next, Sending

\* At the start every packet is with the user who is to send it.
LEMMA SenderInvInit == Init => SenderInv
  <1> SUFFICES ASSUME Init PROVE SenderInv
    OBVIOUS
  <1>1. /\ call = [s \in Senders |-> "idle"] /\ copies = [x \in Holders |-> {}]
        /\ work = [w \in Workers |-> "get"] /\ map = {} /\ q1 = <<>> /\ q2 = <<>>
        /\ acked = <<>> /\ late = [p \in Packets |-> 0]
    BY DEF Init, Holders, Zero
  <1>2. /\ <<>> \in Seq(Packets) /\ <<>> \in Seq(Senders) /\ <<>> \in Seq(Workers)
        /\ ToSet(<<>>) = {} /\ NoRepeats(<<>>)
    <2>1. <<>> \in Seq(Packets) /\ <<>> \in Seq(Senders) /\ <<>> \in Seq(Workers)
      BY EmptySeq
    <2>2. Len(<<>>) = 0 /\ 1 .. 0 = {}
      BY EmptySeq
    <2> QED
      BY <2>1, <2>2, NoPlaces DEF NoRepeats
  <1>3. SenderTypes
    BY <1>1, <1>2 DEF SenderTypes
  <1>4. Waiting
    BY <1>1, <1>2 DEF Waiting, Holders
  <1>5. \A x \in Holders : Held(x) = IF x \in Senders THEN Batch[x] ELSE {}
    BY <1>1 DEF Held
  <1>6. OnePlace
    BY <1>1, <1>5, BatchAssumption DEF OnePlace
  <1>7. Bounded
    <2>1. IsFiniteSet({}) /\ Cardinality({}) = 0
      BY FS_EmptySet
    <2>2. \A x \in Holders : IsFiniteSet(Held(x))
      BY <1>5, <2>1, BatchAssumption
    <2>3. \A w \in Workers : copies[w] = {}
      BY <1>1 DEF Holders
    <2>4. map \cup UNION {copies[w] : w \in Workers} = {}
      BY <1>1, <2>3
    <2>5. UserCap + Cardinality(Workers) * ConsumeCap \in Nat
      BY Capacities, FS_CardinalityType
    <2>6. IsFiniteSet(map) /\ Size = 0 /\ 0 <= MapCap
      BY <1>1, <2>1, Capacities DEF Size
    <2>7. \A w \in Workers : Cardinality(copies[w]) <= ConsumeCap
      BY <2>1, <2>3, Capacities
    <2> DEFINE c == Cardinality(map \cup UNION {copies[w] : w \in Workers})
    <2>8. c = 0
      BY <2>1, <2>4
    <2> HIDE DEF c
    <2>9. c <= UserCap + Cardinality(Workers) * ConsumeCap
      BY <2>5, <2>8
    <2> QED
      BY <2>2, <2>6, <2>7, <2>9 DEF Bounded, c
  <1>8. NobodyWaitsInVain /\ SomeWorkerFree
    BY <1>1, MailboxAssumption DEF NobodyWaitsInVain, SomeWorkerFree
  <1>9. LateOnes
    BY <1>1 DEF LateOnes
  <1> QED
    BY <1>3, <1>4, <1>6, <1>7, <1>8, <1>9 DEF SenderInv

\* Nobody, user or worker, waits in push_wait_queue_1 or _2 while pkt_map has room
\* for it: whoever makes room calls fulfill_wait_queue() before anyone else gets in.
THEOREM NoRoomUnused == Safety => []NobodyWaitsInVain
  <1>1. SenderInv => NobodyWaitsInVain
    BY DEF SenderInv
  <1> QED
    BY <1>1, SenderInvInit, SenderInvStep, PTL DEF Safety

\* Retransmission workers never all wait in push_wait_queue_2, even if no ack
\* ever comes: too few packets circulate.
THEOREM WorkersNeverAllWait == Safety => []SomeWorkerFree
  <1>1. SenderInv => SomeWorkerFree
    BY DEF SenderInv
  <1> QED
    BY <1>1, SenderInvInit, SenderInvStep, PTL DEF Safety

\* The push_back of a thread that has to wait finds a place in push_wait_queue_1 or
\* _2 and does not abort, if each has a place for every thread that may call.
THEOREM PlacesSuffice == Safety => [](Len(q1) <= UserPushCap /\ Len(q2) <= WorkerPushCap)
  <1>1. SenderInv => Len(q1) <= UserPushCap /\ Len(q2) <= WorkerPushCap
    <2> SUFFICES ASSUME SenderInv
                 PROVE  Len(q1) <= UserPushCap /\ Len(q2) <= WorkerPushCap
      OBVIOUS
    <2>1. /\ q1 \in Seq(Senders) /\ NoRepeats(q1)
          /\ q2 \in Seq(Workers) /\ NoRepeats(q2)
      BY DEF SenderInv, Waiting
    <2>2. /\ IsFiniteSet(Senders) /\ Cardinality(Senders) <= UserPushCap
          /\ IsFiniteSet(Workers) /\ Cardinality(Workers) <= WorkerPushCap
          /\ UserPushCap \in Nat /\ WorkerPushCap \in Nat
      BY MailboxAssumption
    <2>3. Len(q1) <= Cardinality(Senders) /\ Len(q2) <= Cardinality(Workers)
      BY <2>1, <2>2, NoLonger
    <2>4. /\ Len(q1) \in Nat /\ Len(q2) \in Nat
          /\ Cardinality(Senders) \in Nat /\ Cardinality(Workers) \in Nat
      BY <2>1, <2>2, LenProperties, FS_CardinalityType
    <2> QED
      BY <2>2, <2>3, <2>4
  <1> QED
    BY <1>1, SenderInvInit, SenderInvStep, PTL DEF Safety

\* A packet is retransmitted once at most while acked_id_hashset remembers that
\* it was acknowledged.
THEOREM LateCopies == Safety => []OneLateCopy
  <1>1. SenderInv => OneLateCopy
    BY DEF SenderInv, LateOnes, OneLateCopy
  <1> QED
    BY <1>1, SenderInvInit, SenderInvStep, PTL DEF Safety

-----------------------------------------------------------------------------
(* The server: where a request is.                                         *)

Tickets == Clients \X Nat \X (Ids \cup {NoId})
Replies == {Error} \cup {Resp(v) : v \in Nat}

Jobs == [at    : {"recv", "gate"},
         batch : SUBSET Tickets,
         miss  : SUBSET Tickets,
         write : SUBSET Tickets,
         serve : SUBSET Tickets,
         put   : Seq(Ids \X Nat),
         out   : SUBSET (Tickets \X Replies)]

\* The requests that have their answer
Done(j) == {m[1] : m \in j.out}

ServerTypes ==
  /\ inbox \in SUBSET Tickets /\ IsFiniteSet(inbox)
  /\ answers \in SUBSET (Tickets \X Replies)
  /\ cache \in Seq(Ids \X Nat)
  /\ uex \in Seq(Ids)
  /\ job \in [Resolvers -> Jobs]
  /\ runs \in [Ids -> Nat]
  /\ forgotten \in [Ids -> Nat]

\* Each request of an epoch is in one feeder, or has one answer.
Sorted(j) ==
  /\ j.at = "recv" => j = NoJob
  /\ IsFiniteSet(j.batch)
  /\ j.batch = j.miss \cup j.write \cup j.serve \cup Done(j)
  /\ j.miss \cap j.write = {} /\ j.miss \cap j.serve = {} /\ j.write \cap j.serve = {}
  /\ Done(j) \cap (j.miss \cup j.write \cup j.serve) = {}
  /\ \A m, n \in j.out : m[1] = n[1] => m = n
  /\ \A t \in j.miss \cup j.write : IdOf(t) \in Ids

\* Two sets without a common element count together.
LEMMA Together ==
  ASSUME NEW A, NEW B, IsFiniteSet(A), IsFiniteSet(B), A \cap B = {}
  PROVE  /\ IsFiniteSet(A \cup B) /\ Cardinality(A) \in Nat /\ Cardinality(B) \in Nat
         /\ Cardinality(A \cup B) = Cardinality(A) + Cardinality(B)
  <1>1. /\ Cardinality(A \cup B) = Cardinality(A) + Cardinality(B) - Cardinality(A \cap B)
        /\ IsFiniteSet(A \cup B)
    BY FS_Union
  <1>2. Cardinality(A \cap B) = 0 /\ Cardinality(A) \in Nat /\ Cardinality(B) \in Nat
    BY FS_EmptySet, FS_CardinalityType
  <1> QED
    BY <1>1, <1>2

\* A sorted epoch counts as many requests in its feeders and answers as it has.
LEMMA SortedCounts ==
  ASSUME NEW j, Sorted(j)
  PROVE  Cardinality(j.batch) = Cardinality(j.miss)
          + Cardinality(j.write) + Cardinality(j.serve) + Cardinality(j.out)
  <1> DEFINE D == Done(j)
             f == [d \in D |-> CHOOSE m \in j.out : m[1] = d]
  <1>1. /\ j.miss \in SUBSET j.batch /\ j.write \in SUBSET j.batch
        /\ j.serve \in SUBSET j.batch /\ D \in SUBSET j.batch
        /\ IsFiniteSet(j.batch)
    BY DEF Sorted
  <1>2. IsFiniteSet(j.miss) /\ IsFiniteSet(j.write) /\ IsFiniteSet(j.serve) /\ IsFiniteSet(D)
    BY <1>1, FS_Subset
  <1>3. f \in Bijection(D, j.out)
    <2>1. \A d \in D : f[d] \in j.out /\ f[d][1] = d
      BY DEF Done
    <2>2. \A m \in j.out : m[1] \in D /\ f[m[1]] = m
      <3>1. \A m \in j.out : m[1] \in D
        BY DEF Done
      <3> HIDE DEF f, D
      <3> QED
        BY <2>1, <3>1 DEF Sorted
    <2>3. f \in [D -> j.out]
      BY <2>1
    <2> HIDE DEF f, D
    <2> QED
      BY <2>1, <2>2, <2>3 DEF Bijection, Injection, Surjection, IsInjective
  <1> HIDE DEF f
  <1>4. Cardinality(j.out) = Cardinality(D)
    <2>1. ExistsBijection(D, j.out)
      BY <1>3 DEF ExistsBijection
    <2> QED
      BY <1>2, <2>1, FS_Bijection
  <1> HIDE DEF D
  <1>5. /\ IsFiniteSet(j.miss \cup j.write)
        /\ Cardinality(j.miss) \in Nat /\ Cardinality(j.write) \in Nat
        /\ Cardinality(j.miss \cup j.write) = Cardinality(j.miss) + Cardinality(j.write)
    BY <1>2, Together DEF Sorted
  <1>6. /\ IsFiniteSet((j.miss \cup j.write) \cup j.serve) /\ Cardinality(j.serve) \in Nat
        /\ Cardinality((j.miss \cup j.write) \cup j.serve)
             = Cardinality(j.miss \cup j.write) + Cardinality(j.serve)
    <2>1. (j.miss \cup j.write) \cap j.serve = {}
      BY DEF Sorted
    <2> QED
      BY <1>2, <1>5, <2>1, Together
  <1>7. /\ Cardinality(D) \in Nat
        /\ Cardinality(((j.miss \cup j.write) \cup j.serve) \cup D)
             = Cardinality((j.miss \cup j.write) \cup j.serve) + Cardinality(D)
    <2>1. ((j.miss \cup j.write) \cup j.serve) \cap D = {}
      BY DEF Sorted, D
    <2> QED
      BY <1>2, <1>6, <2>1, Together
  <1>8. j.batch = ((j.miss \cup j.write) \cup j.serve) \cup D
    BY DEF Sorted, D
  <1> QED
    BY <1>4, <1>5, <1>6, <1>7, <1>8

\* The requests with id i that have the right to be handled
Pending(i) == {p \in Resolvers \X Tickets : p[2] \in job[p[1]].serve /\ IdOf(p[2]) = i}

\* Rights to be handled are given once while the unique write set has the id.
Rights == \A i \in Ids :
  /\ IsFiniteSet(Pending(i))
  /\ runs[i] + Cardinality(Pending(i)) <= forgotten[i] + IF i \in ToSet(uex) THEN 1 ELSE 0

\* v is a response about the id of c, in the cache or on its way to or from it
Utters(c, v) ==
  \/ \E n \in 1 .. Len(cache) : cache[n] = <<c, v>>
  \/ \E m \in answers : IdOf(m[1]) = c /\ m[2] = Resp(v)
  \/ \E w \in Resolvers : \E m \in job[w].out : IdOf(m[1]) = c /\ m[2] = Resp(v)
  \/ \E w \in Resolvers : \E n \in 1 .. Len(job[w].put) : job[w].put[n] = <<c, v>>
  \/ id[c] = c /\ result[c] = Resp(v)

\* While an id is remembered there is one response about it, and none before its
\* request is handled.
OneVoice == \A c \in Clients : forgotten[c] = 0 =>
  /\ c \notin ToSet(uex) \/ Pending(c) # {} => \A v \in Nat : ~Utters(c, v)
  /\ \A u, v \in Nat : Utters(c, u) /\ Utters(c, v) => u = v

ClientTypes ==
  /\ phase \in [Clients -> {"idle", "attempt", "sleep", "done"}]
  /\ id \in [Clients -> Ids \cup {NoId}]
  /\ idx \in [Clients -> Nat]
  /\ result \in [Clients -> {<<>>} \cup Replies]
  /\ \A c \in Clients : phase[c] = "idle" => result[c] = <<>>

AllSorted == \A w \in Resolvers : Sorted(job[w])

RetryInv == ServerTypes /\ AllSorted /\ Rights /\ ClientTypes /\ OneVoice

\* A step that gives no right and handles nothing
LEMMA RightsKept ==
  ASSUME ServerTypes, Rights, runs' = runs, forgotten' = forgotten, uex' = uex,
         \A w \in Resolvers : \A t \in Tickets :
           t \in job'[w].serve /\ IdOf(t) \in Ids => t \in job[w].serve
  PROVE  Rights' /\ \A i \in Ids : Pending(i)' \subseteq Pending(i)
  <1> SUFFICES ASSUME NEW i \in Ids
               PROVE  /\ IsFiniteSet(Pending(i)') /\ Pending(i)' \subseteq Pending(i)
                      /\ runs[i] + Cardinality(Pending(i)')
                           <= forgotten[i] + IF i \in ToSet(uex) THEN 1 ELSE 0
    BY DEF Rights
  <1>1. Pending(i)' \in SUBSET Pending(i) /\ IsFiniteSet(Pending(i))
    BY DEF Pending, Rights
  <1>2. IsFiniteSet(Pending(i)') /\ Cardinality(Pending(i)') <= Cardinality(Pending(i))
    BY <1>1, FS_Subset
  <1>3. Cardinality(Pending(i)') \in Nat /\ Cardinality(Pending(i)) \in Nat
    BY <1>1, <1>2, FS_CardinalityType
  <1>4. /\ runs[i] \in Nat /\ forgotten[i] \in Nat
        /\ runs[i] + Cardinality(Pending(i)) <= forgotten[i] + IF i \in ToSet(uex) THEN 1 ELSE 0
    BY DEF ServerTypes, Rights
  <1> QED
    BY <1>1, <1>2, <1>3, <1>4

\* A step that says nothing new
LEMMA VoiceKept ==
  ASSUME OneVoice, forgotten' = forgotten, uex' = uex,
         \A c \in Clients : Pending(c)' \subseteq Pending(c),
         \A c \in Clients, v \in Nat : Utters(c, v)' => Utters(c, v)
  PROVE  OneVoice'
  <1> SUFFICES ASSUME NEW c \in Clients, forgotten[c] = 0
               PROVE  /\ c \notin ToSet(uex) \/ Pending(c)' # {} => \A v \in Nat : ~Utters(c, v)'
                      /\ \A u, v \in Nat : Utters(c, u)' /\ Utters(c, v)' => u = v
    BY DEF OneVoice
  <1>1. Pending(c)' # {} => Pending(c) # {}
    OBVIOUS
  <1> QED
    BY <1>1 DEF OneVoice

\* The responses of a worker and those that no worker has
LEMMA UttersKept ==
  ASSUME NEW w \in Resolvers, \A v \in Resolvers : v # w => job'[v] = job[v],
         answers' = answers, id' = id, result' = result,
         NEW c, NEW v, Utters(c, v)',
         \A n \in 1 .. Len(cache') : cache'[n] = <<c, v>> => Utters(c, v),
         \A m \in job'[w].out : IdOf(m[1]) = c /\ m[2] = Resp(v) => Utters(c, v),
         \A n \in 1 .. Len(job'[w].put) : job'[w].put[n] = <<c, v>> => Utters(c, v)
  PROVE  Utters(c, v)
  <1>1. CASE \E n \in 1 .. Len(cache') : cache'[n] = <<c, v>>
    BY <1>1
  <1>2. CASE \E m \in answers : IdOf(m[1]) = c /\ m[2] = Resp(v)
    BY <1>2 DEF Utters
  <1>3. CASE \E x \in Resolvers : \E m \in job'[x].out : IdOf(m[1]) = c /\ m[2] = Resp(v)
    BY <1>3 DEF Utters
  <1>4. CASE \E x \in Resolvers : \E n \in 1 .. Len(job'[x].put) : job'[x].put[n] = <<c, v>>
    BY <1>4 DEF Utters
  <1>5. CASE id[c] = c /\ result[c] = Resp(v)
    BY <1>5 DEF Utters
  <1> QED
    BY <1>1, <1>2, <1>3, <1>4, <1>5 DEF Utters

\* The requests that have their answer when those in C got a
LEMMA DoneMore ==
  ASSUME NEW j, NEW k, NEW C, NEW a, k.out = j.out \cup Answered(C, a)
  PROVE  /\ Done(k) = Done(j) \cup C
         /\ \A m \in k.out : m \in j.out \/ (m = <<m[1], a>> /\ m[1] \in C /\ m[2] = a)
  <1>1. \A m : m \in Answered(C, a) <=> \E t \in C : m = <<t, a>>
    BY DEF Answered
  <1>2. \A t \in C : <<t, a>> \in k.out /\ <<t, a>>[1] = t
    BY <1>1
  <1>3. \A t \in C : t \in Done(k)
    BY <1>2 DEF Done
  <1>4. Done(j) \subseteq Done(k)
    BY DEF Done
  <1>5. \A m \in k.out : m \in j.out \/ (m = <<m[1], a>> /\ m[1] \in C /\ m[2] = a)
    BY <1>1
  <1>6. Done(k) \subseteq Done(j) \cup C
    BY <1>5 DEF Done
  <1> QED
    BY <1>3, <1>4, <1>5, <1>6

LEMMA ErrorIsNone == \A v : Error # Resp(v)
  BY DEF Error, Resp

\* Requests that miss the cache are let through, or refused, by the traffic
\* controller.
LEMMA TrafficStep ==
  ASSUME RetryInv, NEW w \in Resolvers, TrafficThru(w), UNCHANGED clientVars
  PROVE  RetryInv'
  <1> DEFINE j == job[w]
             k == job'[w]
  <1>1. /\ ServerTypes /\ AllSorted /\ Rights /\ ClientTypes /\ OneVoice
        /\ job \in [Resolvers -> Jobs] /\ j \in Jobs /\ Sorted(j)
    BY DEF RetryInv, ServerTypes, AllSorted
  <1>2. /\ j.at = "gate" /\ j.write = {}
        /\ UNCHANGED <<open, inbox, answers, cache, uex, runs, forgotten>>
        /\ UNCHANGED <<phase, id, idx, result>>
    BY DEF TrafficThru, clientVars
  <1>3. PICK C \in Chunks(j.miss) :
          \/ job' = [job EXCEPT ![w].miss = @ \ C, ![w].out  = @ \cup Answered(C, Error)]
          \/ job' = [job EXCEPT ![w].miss = @ \ C, ![w].write = C]
    BY DEF TrafficThru
  <1>4. C \subseteq j.miss
    BY DEF Chunks
  <1> DEFINE refused == k.out = j.out \cup Answered(C, Error) /\ k.write = j.write
             allowed == k.out = j.out /\ k.write = C
  <1>5. /\ k.at = j.at /\ k.batch = j.batch /\ k.miss = j.miss \ C /\ k.serve = j.serve
        /\ k.put = j.put /\ (refused \/ allowed)
        /\ \A v \in Resolvers : v # w => job'[v] = job[v]
        /\ job' \in [Resolvers -> Jobs]
    <2>1. Answered(C, Error) \subseteq Tickets \X Replies
      BY <1>1, <1>4 DEF Answered, Replies, Jobs
    <2>2. CASE job' = [job EXCEPT ![w].miss = @ \ C, ![w].out  = @ \cup Answered(C, Error)]
      BY <1>1, <2>1, <2>2 DEF Jobs
    <2>3. CASE job' = [job EXCEPT ![w].miss = @ \ C, ![w].write = C]
      BY <1>1, <1>4, <2>3 DEF Jobs
    <2> QED
      BY <1>3, <2>2, <2>3
  <1>6. ServerTypes' /\ ClientTypes'
    BY <1>1, <1>2, <1>5 DEF ServerTypes, ClientTypes
  <1> HIDE DEF k
  <1>7. Sorted(k)
    <2>1. refused => Done(k) = Done(j) \cup C
      BY DoneMore
    <2>2. allowed => Done(k) = Done(j)
      BY DEF Done
    <2>3. k.batch = k.miss \cup k.write \cup k.serve \cup Done(k)
      BY <1>1, <1>2, <1>4, <1>5, <2>1, <2>2 DEF Sorted
    <2>4. /\ k.miss \cap k.write = {} /\ k.miss \cap k.serve = {} /\ k.write \cap k.serve = {}
          /\ Done(k) \cap (k.miss \cup k.write \cup k.serve) = {}
      BY <1>1, <1>2, <1>4, <1>5, <2>1, <2>2 DEF Sorted
    <2>5. \A m, n \in k.out : m[1] = n[1] => m = n
      <3>1. CASE allowed
        BY <1>1, <3>1 DEF Sorted
      <3>2. CASE refused
        <4>1. \A m \in j.out : m[1] \notin C
          BY <1>1, <1>4 DEF Sorted, Done
        <4>2. \A m \in k.out : m \in j.out \/ (m = <<m[1], Error>> /\ m[1] \in C)
          BY <3>2, DoneMore
        <4> QED
          BY <1>1, <4>1, <4>2 DEF Sorted
      <3> QED
        BY <1>5, <3>1, <3>2
    <2>6. \A t \in k.miss \cup k.write : IdOf(t) \in Ids
      BY <1>1, <1>2, <1>4, <1>5 DEF Sorted
    <2>7. k.at # "recv" /\ IsFiniteSet(k.batch)
      BY <1>1, <1>2, <1>5 DEF Sorted
    <2> QED
      BY <2>3, <2>4, <2>5, <2>6, <2>7 DEF Sorted
  <1>8. AllSorted'
    BY <1>1, <1>5, <1>7 DEF AllSorted, k
  <1>9. Rights' /\ \A i \in Ids : Pending(i)' \subseteq Pending(i)
    BY <1>1, <1>2, <1>5, RightsKept DEF k
  <1>10. OneVoice'
    <2>1. ASSUME NEW c \in Clients, NEW v \in Nat, Utters(c, v)' PROVE Utters(c, v)
      <3>1. \A m \in k.out : m[2] = Resp(v) => m \in j.out
        BY <1>5, ErrorIsNone, DoneMore
      <3>2. \A m \in k.out : IdOf(m[1]) = c /\ m[2] = Resp(v) => Utters(c, v)
        BY <3>1 DEF Utters
      <3>3. /\ \A n \in 1 .. Len(k.put) : k.put[n] = <<c, v>> => Utters(c, v)
            /\ \A n \in 1 .. Len(cache') : cache'[n] = <<c, v>> => Utters(c, v)
        BY <1>2, <1>5 DEF Utters
      <3> QED
        BY <1>2, <1>5, <2>1, <3>2, <3>3, UttersKept DEF k
    <2> QED
      BY <1>1, <1>2, <1>9, <2>1, VoiceKept, RetryAssumption
  <1> QED
    BY <1>6, <1>8, <1>9, <1>10 DEF RetryInv

\* A response from the cache is one about the id that was looked up.
LEMMA HitIsCached ==
  ASSUME ServerTypes, NEW t, Cached(t) # {}
  PROVE  \E n \in 1 .. Len(cache) : /\ cache[n] = <<IdOf(t), cache[n][2]>>
                                    /\ cache[n][2] \in Nat /\ Hit(t) = Resp(cache[n][2])
  <1> DEFINE n == CHOOSE n \in Cached(t) : TRUE
  <1>1. n \in Cached(t) /\ Hit(t) = Resp(cache[n][2])
    BY DEF Hit
  <1> HIDE DEF n
  <1>2. DOMAIN cache = 1 .. Len(cache) /\ \A i \in 1 .. Len(cache) : cache[i] \in Ids \X Nat
    BY LenProperties, ElementOfSeq DEF ServerTypes
  <1>3. n \in 1 .. Len(cache) /\ cache[n][1] = IdOf(t)
    BY <1>1, <1>2 DEF Cached
  <1>4. cache[n] = <<cache[n][1], cache[n][2]>> /\ cache[n][2] \in Nat
    BY <1>2, <1>3
  <1> QED
    BY <1>1, <1>3, <1>4

\* An epoch begins.
LEMMA ReceiveStep ==
  ASSUME RetryInv, NEW w \in Resolvers, Receive(w), UNCHANGED clientVars
  PROVE  RetryInv'
  <1> DEFINE k == job'[w]
  <1>1. /\ ServerTypes /\ AllSorted /\ Rights /\ ClientTypes /\ OneVoice
        /\ job \in [Resolvers -> Jobs]
    BY DEF RetryInv, ServerTypes
  <1>2. /\ UNCHANGED <<open, answers, cache, uex, thru_counter, runs, forgotten>>
        /\ UNCHANGED <<phase, id, idx, result>>
    BY DEF Receive, clientVars
  <1>3. PICK S \in SUBSET inbox : \E refused \in SUBSET S, broken \in SUBSET S :
          LET fetch == {t \in S \ refused : IdOf(t) # NoId}
              hits  == {t \in fetch : Cached(t) # {}}
          IN /\ broken \subseteq hits
             /\ inbox' = inbox \ S
             /\ job' = [job EXCEPT ![w] =
                  [NoJob EXCEPT !.at    = "gate",
                                !.batch = S,
                                !.miss  = fetch \ hits,
                                !.serve = (S \ refused) \ fetch,
                                !.out   = Answered(refused \cup broken, Error)
                                            \cup {<<t, Hit(t)>> : t \in hits \ broken}]]
    BY DEF Receive
  <1>4. PICK refused \in SUBSET S, broken \in SUBSET S :
          LET fetch == {t \in S \ refused : IdOf(t) # NoId}
              hits  == {t \in fetch : Cached(t) # {}}
          IN /\ broken \subseteq hits
             /\ inbox' = inbox \ S
             /\ job' = [job EXCEPT ![w] =
                  [NoJob EXCEPT !.at    = "gate",
                                !.batch = S,
                                !.miss  = fetch \ hits,
                                !.serve = (S \ refused) \ fetch,
                                !.out   = Answered(refused \cup broken, Error)
                                            \cup {<<t, Hit(t)>> : t \in hits \ broken}]]
    BY <1>3
  <1> DEFINE fetch == {t \in S \ refused : IdOf(t) # NoId}
             hits  == {t \in fetch : Cached(t) # {}}
             wrong == Answered(refused \cup broken, Error)
             right == {<<t, Hit(t)>> : t \in hits \ broken}
  <1>5. /\ k.at = "gate" /\ k.batch = S /\ k.miss = fetch \ hits /\ k.write = {}
        /\ k.serve = (S \ refused) \ fetch /\ k.put = <<>> /\ k.out = wrong \cup right
        /\ k = [at |-> k.at, batch |-> k.batch, miss |-> k.miss, write |-> k.write,
                serve |-> k.serve, put |-> k.put, out |-> k.out]
        /\ \A v \in Resolvers : v # w => job'[v] = job[v]
        /\ job' = [job EXCEPT ![w] = k]
    BY <1>1, <1>4 DEF NoJob
  <1>6. broken \subseteq hits /\ inbox' = inbox \ S
    BY <1>4
  <1>7. S \in SUBSET Tickets /\ IsFiniteSet(S) /\ IsFiniteSet(inbox')
    <2>1. S \in SUBSET inbox /\ inbox' \in SUBSET inbox /\ IsFiniteSet(inbox)
      BY <1>1, <1>6 DEF ServerTypes
    <2> QED
      BY <1>1, <2>1, FS_Subset DEF ServerTypes
  <1>8. /\ fetch \subseteq S /\ hits \subseteq fetch /\ refused \cap fetch = {}
        /\ \A t \in fetch : IdOf(t) \in Ids
        /\ \A t \in S \ fetch : t \in refused \/ IdOf(t) = NoId
    BY <1>7 DEF Tickets, IdOf
  <1>9. \A t \in hits : Cached(t) # {}
    OBVIOUS
  <1> HIDE DEF fetch, hits, k
  <1>10. /\ \A m \in wrong : m = <<m[1], Error>> /\ m[1] \in refused \cup broken
         /\ \A t \in refused \cup broken : <<t, Error>> \in wrong
    BY DEF Answered
  <1>11. /\ \A m \in right : m = <<m[1], Hit(m[1])>> /\ m[1] \in hits \ broken
         /\ \A t \in hits \ broken : <<t, Hit(t)>> \in right
    OBVIOUS
  <1>12. \A t \in hits : Hit(t) \in Replies
    BY <1>1, <1>9, HitIsCached DEF Replies
  <1> HIDE DEF wrong, right
  <1>13. k.out \subseteq Tickets \X Replies
    <2>1. ASSUME NEW m \in wrong PROVE m \in Tickets \X Replies
      BY <1>7, <1>10, <2>1 DEF Replies
    <2>2. ASSUME NEW m \in right PROVE m \in Tickets \X Replies
      <3>1. m[1] \in Tickets /\ Hit(m[1]) \in Replies /\ m = <<m[1], Hit(m[1])>>
        BY <1>7, <1>8, <1>11, <1>12, <2>2
      <3> QED
        BY <3>1
    <2> QED
      BY <1>5, <2>1, <2>2
  <1>14. job' \in [Resolvers -> Jobs]
    <2>1. <<>> \in Seq(Ids \X Nat)
      BY EmptySeq
    <2>2. k \in Jobs
      BY <1>5, <1>7, <1>8, <1>13, <2>1 DEF Jobs
    <2> QED
      BY <1>1, <1>5, <2>2
  <1>15. ServerTypes' /\ ClientTypes'
    BY <1>1, <1>2, <1>6, <1>7, <1>14 DEF ServerTypes, ClientTypes
  <1>16. Sorted(k)
    <2>1. Done(k) = refused \cup hits
      <3>1. \A t : t \in Done(k) <=> \E m \in k.out : m[1] = t
        BY DEF Done
      <3>2. ASSUME NEW t \in Done(k) PROVE t \in refused \cup hits
        BY <1>5, <1>6, <1>10, <1>11, <3>1
      <3>3. ASSUME NEW t \in refused \cup hits PROVE t \in Done(k)
        <4>1. CASE t \in refused \cup broken
          <5>1. <<t, Error>> \in k.out /\ <<t, Error>>[1] = t
            BY <1>5, <1>10, <4>1
          <5> QED
            BY <3>1, <5>1
        <4>2. CASE t \in hits \ broken
          <5>1. <<t, Hit(t)>> \in k.out /\ <<t, Hit(t)>>[1] = t
            BY <1>5, <1>11, <4>2
          <5> QED
            BY <3>1, <5>1
        <4> QED
          BY <4>1, <4>2
      <3> QED
        BY <3>2, <3>3
    <2>2. \A m, n \in k.out : m[1] = n[1] => m = n
      <3>1. (refused \cup broken) \cap (hits \ broken) = {}
        BY <1>8
      <3> QED
        BY <1>5, <1>10, <1>11, <3>1
    <2>3. k.batch = k.miss \cup k.write \cup k.serve \cup Done(k)
      BY <1>5, <1>8, <2>1
    <2>4. /\ k.miss \cap k.write = {} /\ k.miss \cap k.serve = {} /\ k.write \cap k.serve = {}
          /\ Done(k) \cap (k.miss \cup k.write \cup k.serve) = {}
      BY <1>5, <1>8, <2>1
    <2> QED
      BY <1>5, <1>7, <1>8, <2>2, <2>3, <2>4 DEF Sorted
  <1>17. AllSorted'
    BY <1>1, <1>5, <1>16 DEF AllSorted, k
  <1>18. Rights' /\ \A i \in Ids : Pending(i)' \subseteq Pending(i)
    <2>1. \A t \in k.serve : IdOf(t) \notin Ids
      BY <1>5, <1>8, ServerAssumption
    <2> QED
      BY <1>1, <1>2, <1>5, <2>1, RightsKept DEF k
  <1>19. OneVoice'
    <2>1. ASSUME NEW c \in Clients, NEW v \in Nat, Utters(c, v)' PROVE Utters(c, v)
      <3>1. ASSUME NEW m \in k.out, IdOf(m[1]) = c, m[2] = Resp(v) PROVE Utters(c, v)
        <4>1. m \in right
          <5>1. m \notin wrong
            BY <1>10, <3>1, ErrorIsNone
          <5> QED
            BY <1>5, <5>1
        <4>2. Cached(m[1]) # {} /\ Hit(m[1]) = Resp(v)
          BY <1>9, <1>11, <3>1, <4>1
        <4>3. PICK n \in 1 .. Len(cache) : cache[n] = <<c, cache[n][2]>> /\ Resp(v) = Resp(cache[n][2])
          BY <1>1, <3>1, <4>2, HitIsCached
        <4>4. cache[n] = <<c, v>>
          BY <4>3 DEF Resp
        <4> QED
          BY <4>4 DEF Utters
      <3>2. /\ \A n \in 1 .. Len(k.put) : k.put[n] = <<c, v>> => Utters(c, v)
            /\ \A n \in 1 .. Len(cache') : cache'[n] = <<c, v>> => Utters(c, v)
        BY <1>2, <1>5 DEF Utters
      <3> QED
        BY <1>2, <1>5, <2>1, <3>1, <3>2, UttersKept DEF k
    <2> QED
      BY <1>1, <1>2, <1>18, <2>1, VoiceKept, RetryAssumption
  <1> QED
    BY <1>15, <1>17, <1>18, <1>19 DEF RetryInv

\* A request finds its id in the unique write set.
LEMMA LostStep ==
  ASSUME RetryInv, NEW w \in Resolvers, NEW t \in job[w].write, UNCHANGED clientVars,
         job' = [job EXCEPT ![w].write = @ \ {t}, ![w].out = @ \cup {<<t, Error>>}],
         UNCHANGED <<open, inbox, answers, cache, uex, runs, forgotten>>
  PROVE  RetryInv'
  <1> DEFINE j == job[w]
             k == job'[w]
  <1>1. /\ ServerTypes /\ AllSorted /\ Rights /\ ClientTypes /\ OneVoice
        /\ job \in [Resolvers -> Jobs] /\ j \in Jobs /\ Sorted(j)
    BY DEF RetryInv, ServerTypes, AllSorted
  <1>2. UNCHANGED <<phase, id, idx, result>>
    BY DEF clientVars
  <1>3. {<<t, Error>>} = Answered({t}, Error)
    BY DEF Answered
  <1>4. /\ k.at = j.at /\ k.batch = j.batch /\ k.miss = j.miss /\ k.write = j.write \ {t}
        /\ k.serve = j.serve /\ k.put = j.put /\ k.out = j.out \cup Answered({t}, Error)
        /\ \A v \in Resolvers : v # w => job'[v] = job[v]
        /\ job' \in [Resolvers -> Jobs]
    <2>1. <<t, Error>> \in Tickets \X Replies
      BY <1>1 DEF Replies, Jobs
    <2> QED
      BY <1>1, <1>3, <2>1 DEF Jobs
  <1>5. ServerTypes' /\ ClientTypes'
    BY <1>1, <1>2, <1>4 DEF ServerTypes, ClientTypes
  <1> HIDE DEF k
  <1>6. /\ Done(k) = Done(j) \cup {t}
        /\ \A m \in k.out : m \in j.out \/ (m = <<t, Error>> /\ m[1] = t /\ m[2] = Error)
    <2> DEFINE C == {t}
    <2>1. k.out = j.out \cup Answered(C, Error)
      BY <1>4
    <2> HIDE DEF C, j
    <2>2. /\ Done(k) = Done(j) \cup C
          /\ \A m \in k.out : m \in j.out \/ (m = <<m[1], Error>> /\ m[1] \in C /\ m[2] = Error)
      BY <2>1, DoneMore
    <2> QED
      BY <2>2 DEF C
  <1>7. Sorted(k)
    <2>1. k.batch = k.miss \cup k.write \cup k.serve \cup Done(k)
      BY <1>1, <1>4, <1>6 DEF Sorted
    <2>2. /\ k.miss \cap k.write = {} /\ k.miss \cap k.serve = {} /\ k.write \cap k.serve = {}
          /\ Done(k) \cap (k.miss \cup k.write \cup k.serve) = {}
      BY <1>1, <1>4, <1>6 DEF Sorted
    <2>3. \A m, n \in k.out : m[1] = n[1] => m = n
      <3>1. \A m \in j.out : m[1] # t
        BY <1>1 DEF Sorted, Done
      <3> QED
        BY <1>1, <1>6, <3>1 DEF Sorted
    <2>4. k.at # "recv"
      BY <1>1, <1>4 DEF Sorted, NoJob
    <2> QED
      BY <1>1, <1>4, <2>1, <2>2, <2>3, <2>4 DEF Sorted
  <1>8. AllSorted'
    BY <1>1, <1>4, <1>7 DEF AllSorted, k
  <1>9. Rights' /\ \A i \in Ids : Pending(i)' \subseteq Pending(i)
    BY <1>1, <1>4, RightsKept DEF k
  <1>10. OneVoice'
    <2>1. ASSUME NEW c \in Clients, NEW v \in Nat, Utters(c, v)' PROVE Utters(c, v)
      <3>1. \A m \in k.out : m[2] = Resp(v) => m \in j.out
        BY <1>6, ErrorIsNone
      <3>2. \A m \in k.out : IdOf(m[1]) = c /\ m[2] = Resp(v) => Utters(c, v)
        BY <3>1 DEF Utters
      <3>3. /\ \A n \in 1 .. Len(k.put) : k.put[n] = <<c, v>> => Utters(c, v)
            /\ \A n \in 1 .. Len(cache') : cache'[n] = <<c, v>> => Utters(c, v)
        BY <1>4 DEF Utters
      <3> QED
        BY <1>2, <1>4, <2>1, <3>2, <3>3, UttersKept DEF k
    <2> QED
      BY <1>1, <1>9, <2>1, VoiceKept, RetryAssumption
  <1> QED
    BY <1>5, <1>8, <1>9, <1>10 DEF RetryInv

\* A request gets the right to be handled.
LEMMA WonStep ==
  ASSUME RetryInv, NEW w \in Resolvers, NEW t \in job[w].write, UNCHANGED clientVars,
         IdOf(t) \notin ToSet(uex),
         job' = [job EXCEPT ![w].write = @ \ {t}, ![w].serve = @ \cup {t}],
         uex' = CyclicInsert(uex, IdOf(t), UexCap),
         forgotten' = [i \in Ids |-> forgotten[i] + IF Forgets(uex, UexCap, i) THEN 1 ELSE 0],
         UNCHANGED <<open, inbox, answers, cache, runs>>
  PROVE  RetryInv'
  <1> DEFINE j == job[w]
             k == job'[w]
             d == IdOf(t)
  <1>1. /\ ServerTypes /\ AllSorted /\ Rights /\ ClientTypes /\ OneVoice
        /\ job \in [Resolvers -> Jobs] /\ j \in Jobs /\ Sorted(j)
    BY DEF RetryInv, ServerTypes, AllSorted
  <1>2. UNCHANGED <<phase, id, idx, result>>
    BY DEF clientVars
  <1>3. d \in Ids /\ t \in Tickets
    BY <1>1 DEF Sorted, Jobs
  <1>4. /\ k.at = j.at /\ k.batch = j.batch /\ k.miss = j.miss /\ k.write = j.write \ {t}
        /\ k.serve = j.serve \cup {t} /\ k.put = j.put /\ k.out = j.out
        /\ \A v \in Resolvers : v # w => job'[v] = job[v]
        /\ job' \in [Resolvers -> Jobs]
    BY <1>1, <1>3 DEF Jobs
  <1>5. /\ uex \in Seq(Ids) /\ UexCap \in Nat \ {0} /\ uex' \in Seq(Ids) /\ d \in ToSet(uex')
        /\ \A i \in ToSet(uex) : i \in ToSet(uex') \/ Forgets(uex, UexCap, i)
    <2>1. uex \in Seq(Ids) /\ UexCap \in Nat \ {0}
      BY <1>1, ServerAssumption DEF ServerTypes
    <2> QED
      BY <1>3, <2>1, Inserted
  <1>6. \A i \in Ids : Forgets(uex, UexCap, i) => i \in ToSet(uex)
    <2>1. Len(uex) \in Nat /\ \A i : i \in ToSet(uex) <=> \E n \in 1 .. Len(uex) : uex[n] = i
      BY <1>5, Places
    <2>2. Len(uex) = UexCap => 1 \in 1 .. Len(uex)
      BY <1>5, <2>1
    <2> QED
      BY <2>1, <2>2 DEF Forgets
  <1>7. /\ forgotten' \in [Ids -> Nat]
        /\ \A i \in Ids : forgotten'[i] = forgotten[i] + IF Forgets(uex, UexCap, i) THEN 1 ELSE 0
        /\ \A i \in Ids : runs[i] \in Nat /\ forgotten[i] \in Nat
    BY <1>1 DEF ServerTypes
  <1>8. ServerTypes' /\ ClientTypes'
    BY <1>1, <1>2, <1>4, <1>5, <1>7 DEF ServerTypes, ClientTypes
  <1> HIDE DEF k
  <1>9. Sorted(k)
    <2>1. Done(k) = Done(j)
      BY <1>4 DEF Done
    <2>2. k.at # "recv"
      BY <1>1, <1>4 DEF Sorted, NoJob
    <2>3. k.batch = k.miss \cup k.write \cup k.serve \cup Done(k)
      BY <1>1, <1>4, <2>1 DEF Sorted
    <2>4. /\ k.miss \cap k.write = {} /\ k.miss \cap k.serve = {} /\ k.write \cap k.serve = {}
          /\ Done(k) \cap (k.miss \cup k.write \cup k.serve) = {}
      BY <1>1, <1>4, <2>1 DEF Sorted
    <2> QED
      BY <1>1, <1>4, <2>2, <2>3, <2>4 DEF Sorted
  <1>10. AllSorted'
    BY <1>1, <1>4, <1>9 DEF AllSorted, k
  <1>11. /\ Pending(d)' = Pending(d) \cup {<<w, t>>} /\ <<w, t>> \notin Pending(d)
         /\ \A i \in Ids : i # d => Pending(i)' = Pending(i)
    <2>1. t \notin j.serve
      BY <1>1 DEF Sorted
    <2>2. \A p \in Resolvers \X Tickets :
            p[2] \in job'[p[1]].serve <=> p[2] \in job[p[1]].serve \/ p = <<w, t>>
      BY <1>4 DEF k
    <2>3. \A i : Pending(i)' = {p \in Resolvers \X Tickets : p[2] \in job'[p[1]].serve /\ IdOf(p[2]) = i}
      BY DEF Pending
    <2>4. <<w, t>> \in Resolvers \X Tickets
      BY <1>3
    <2>5. <<w, t>>[1] = w /\ <<w, t>>[2] = t
      OBVIOUS
    <2>6. \A p : p \in Pending(d)' <=> p \in Pending(d) \/ p = <<w, t>>
      BY <2>2, <2>3, <2>4, <2>5 DEF Pending
    <2>7. \A i \in Ids : i # d => \A p : p \in Pending(i)' <=> p \in Pending(i)
      BY <2>2, <2>3, <2>5 DEF Pending
    <2>8. <<w, t>> \notin Pending(d)
      BY <2>1, <2>5 DEF Pending
    <2> HIDE DEF d
    <2> QED
      BY <2>6, <2>7, <2>8
  <1>12. Rights'
    <2> SUFFICES ASSUME NEW i \in Ids
                 PROVE  /\ IsFiniteSet(Pending(i)')
                        /\ runs[i] + Cardinality(Pending(i)')
                             <= forgotten'[i] + IF i \in ToSet(uex') THEN 1 ELSE 0
      BY DEF Rights
    <2>1. /\ IsFiniteSet(Pending(i)) /\ Cardinality(Pending(i)) \in Nat
          /\ runs[i] + Cardinality(Pending(i)) <= forgotten[i] + IF i \in ToSet(uex) THEN 1 ELSE 0
      BY <1>1, FS_CardinalityType DEF Rights
    <2>2. CASE i = d
      <3>1. IsFiniteSet(Pending(i)') /\ Cardinality(Pending(i)') = Cardinality(Pending(i)) + 1
        BY <1>11, <2>1, <2>2, FS_AddElement
      <3> QED
        BY <1>5, <1>7, <2>1, <2>2, <3>1
    <2>3. CASE i # d
      BY <1>5, <1>6, <1>7, <1>11, <2>1, <2>3
    <2> QED
      BY <2>2, <2>3
  <1>13. OneVoice'
    <2>1. ASSUME NEW c \in Clients, NEW v \in Nat, Utters(c, v)' PROVE Utters(c, v)
      <3>1. /\ \A m \in k.out : IdOf(m[1]) = c /\ m[2] = Resp(v) => Utters(c, v)
            /\ \A n \in 1 .. Len(k.put) : k.put[n] = <<c, v>> => Utters(c, v)
            /\ \A n \in 1 .. Len(cache') : cache'[n] = <<c, v>> => Utters(c, v)
        BY <1>4 DEF Utters
      <3> QED
        BY <1>2, <1>4, <2>1, <3>1, UttersKept DEF k
    <2> SUFFICES ASSUME NEW c \in Clients, forgotten'[c] = 0
                 PROVE  /\ c \notin ToSet(uex') \/ Pending(c)' # {} => \A v \in Nat : ~Utters(c, v)'
                        /\ \A u, v \in Nat : Utters(c, u)' /\ Utters(c, v)' => u = v
      BY DEF OneVoice
    <2>2. c \in Ids /\ forgotten[c] = 0 /\ ~Forgets(uex, UexCap, c)
      BY <1>7, RetryAssumption
    <2>3. c \notin ToSet(uex') => c \notin ToSet(uex)
      BY <1>5, <2>2
    <2>4. Pending(c)' # {} => c \notin ToSet(uex) \/ Pending(c) # {}
      BY <1>11, <2>2
    <2> QED
      BY <1>1, <2>1, <2>2, <2>3, <2>4 DEF OneVoice
  <1> QED
    BY <1>8, <1>10, <1>12, <1>13 DEF RetryInv

\* The handler, or the filterer, answers a request.
LEMMA ServeStep ==
  ASSUME RetryInv, NEW w \in Resolvers, NEW t \in job[w].serve, Serve(w, t), UNCHANGED clientVars
  PROVE  RetryInv'
  <1> DEFINE j == job[w]
             k == job'[w]
             d == IdOf(t)
  <1>1. /\ ServerTypes /\ AllSorted /\ Rights /\ ClientTypes /\ OneVoice
        /\ job \in [Resolvers -> Jobs] /\ j \in Jobs /\ Sorted(j)
    BY DEF RetryInv, ServerTypes, AllSorted
  <1>2. /\ UNCHANGED <<phase, id, idx, result>>
        /\ UNCHANGED <<open, inbox, answers, cache, uex, forgotten>>
    BY DEF clientVars, Serve
  <1>3. t \in Tickets /\ (d # NoId => d \in Ids) /\ NoId \notin Ids
    BY <1>1, ServerAssumption DEF Jobs, Tickets, IdOf
  <1>4. runs \in [Ids -> Nat]
    BY <1>1 DEF ServerTypes
  <1>5. PICK filtered \in BOOLEAN, kept \in BOOLEAN :
          LET v == IF filtered THEN 0 ELSE IF d = NoId THEN 1 ELSE runs[d] + 1
          IN /\ kept => d # NoId
             /\ runs' = IF v = 0 \/ d = NoId THEN runs ELSE [runs EXCEPT ![d] = v]
             /\ job' = [job EXCEPT
                  ![w].serve = @ \ {t},
                  ![w].put   = IF kept THEN Append(@, <<d, v>>) ELSE @,
                  ![w].out   = @ \cup {<<t, Resp(v)>>}]
    BY DEF Serve, Outcome
  <1> DEFINE v == IF filtered THEN 0 ELSE IF d = NoId THEN 1 ELSE runs[d] + 1
  <1>6. /\ kept => d \in Ids
        /\ runs' = IF v = 0 \/ d = NoId THEN runs ELSE [runs EXCEPT ![d] = v]
        /\ v \in Nat
        /\ d \in Ids => v = 0 \/ v = runs[d] + 1
    BY <1>3, <1>4, <1>5
  <1>7. job' = [job EXCEPT ![w].serve = @ \ {t},
                           ![w].put   = IF kept THEN Append(@, <<d, v>>) ELSE @,
                           ![w].out   = @ \cup {<<t, Resp(v)>>}]
    BY <1>5
  <1> HIDE DEF v
  <1>8. /\ k.at = j.at /\ k.batch = j.batch /\ k.miss = j.miss /\ k.write = j.write
        /\ k.serve = j.serve \ {t} /\ k.put = (IF kept THEN Append(j.put, <<d, v>>) ELSE j.put)
        /\ k.out = j.out \cup {<<t, Resp(v)>>}
        /\ \A x \in Resolvers : x # w => job'[x] = job[x]
        /\ job' \in [Resolvers -> Jobs]
    <2>1. <<t, Resp(v)>> \in Tickets \X Replies
      BY <1>3, <1>6 DEF Replies
    <2>2. j.put \in Seq(Ids \X Nat)
      BY <1>1 DEF Jobs
    <2>3. kept => <<d, v>> \in Ids \X Nat
      BY <1>6
    <2>4. kept => Append(j.put, <<d, v>>) \in Seq(Ids \X Nat)
      BY <2>2, <2>3, AppendProperties
    <2> QED
      BY <1>1, <1>7, <2>1, <2>2, <2>4 DEF Jobs
  <1>9. /\ runs' \in [Ids -> Nat]
        /\ \A i \in Ids : i # d => runs'[i] = runs[i]
        /\ d \in Ids => runs'[d] = runs[d] \/ runs'[d] = runs[d] + 1
    BY <1>3, <1>4, <1>6
  <1>10. ServerTypes' /\ ClientTypes'
    BY <1>1, <1>2, <1>8, <1>9 DEF ServerTypes, ClientTypes
  <1> HIDE DEF k
  <1>11. /\ Done(k) = Done(j) \cup {t}
         /\ \A m \in k.out : m \in j.out \/ (m = <<t, Resp(v)>> /\ m[1] = t /\ m[2] = Resp(v))
    <2> DEFINE C == {t}
               a == Resp(v)
    <2>1. k.out = j.out \cup Answered(C, a)
      BY <1>8 DEF Answered
    <2> HIDE DEF C, j, a
    <2>2. /\ Done(k) = Done(j) \cup C
          /\ \A m \in k.out : m \in j.out \/ (m = <<m[1], a>> /\ m[1] \in C /\ m[2] = a)
      BY <2>1, DoneMore
    <2> QED
      BY <2>2 DEF C, a
  <1>12. Sorted(k)
    <2>1. k.batch = k.miss \cup k.write \cup k.serve \cup Done(k)
      BY <1>1, <1>8, <1>11 DEF Sorted
    <2>2. /\ k.miss \cap k.write = {} /\ k.miss \cap k.serve = {} /\ k.write \cap k.serve = {}
          /\ Done(k) \cap (k.miss \cup k.write \cup k.serve) = {}
      BY <1>1, <1>8, <1>11 DEF Sorted
    <2>3. \A m, n \in k.out : m[1] = n[1] => m = n
      <3>1. \A m \in j.out : m[1] # t
        BY <1>1 DEF Sorted, Done
      <3> QED
        BY <1>1, <1>11, <3>1 DEF Sorted
    <2>4. k.at # "recv"
      BY <1>1, <1>8 DEF Sorted, NoJob
    <2> QED
      BY <1>1, <1>8, <2>1, <2>2, <2>3, <2>4 DEF Sorted
  <1>13. AllSorted'
    BY <1>1, <1>8, <1>12 DEF AllSorted, k
  <1>14. /\ <<w, t>> \in Pending(d) /\ Pending(d)' = Pending(d) \ {<<w, t>>}
         /\ \A i \in Ids : i # d => Pending(i)' = Pending(i)
    <2>1. \A p \in Resolvers \X Tickets :
            p[2] \in job'[p[1]].serve <=> p[2] \in job[p[1]].serve /\ p # <<w, t>>
      BY <1>8 DEF k
    <2>2. \A i : Pending(i)' = {p \in Resolvers \X Tickets : p[2] \in job'[p[1]].serve /\ IdOf(p[2]) = i}
      BY DEF Pending
    <2>3. <<w, t>> \in Resolvers \X Tickets /\ <<w, t>>[1] = w /\ <<w, t>>[2] = t
      BY <1>3
    <2>4. \A p : p \in Pending(d)' <=> p \in Pending(d) /\ p # <<w, t>>
      BY <2>1, <2>2 DEF Pending
    <2>5. \A i \in Ids : i # d => \A p : p \in Pending(i)' <=> p \in Pending(i)
      BY <2>1, <2>2, <2>3 DEF Pending
    <2>6. <<w, t>> \in Pending(d)
      BY <2>3 DEF Pending
    <2> HIDE DEF d
    <2> QED
      BY <2>4, <2>5, <2>6
  <1>15. d \in Ids => /\ IsFiniteSet(Pending(d)) /\ Cardinality(Pending(d)) \in Nat
                      /\ IsFiniteSet(Pending(d)') /\ Cardinality(Pending(d)') \in Nat
                      /\ Cardinality(Pending(d)') = Cardinality(Pending(d)) - 1
                      /\ runs[d] \in Nat /\ forgotten[d] \in Nat
                      /\ runs[d] + Cardinality(Pending(d))
                           <= forgotten[d] + IF d \in ToSet(uex) THEN 1 ELSE 0
    <2> SUFFICES ASSUME d \in Ids
                 PROVE  /\ IsFiniteSet(Pending(d)) /\ Cardinality(Pending(d)) \in Nat
                        /\ IsFiniteSet(Pending(d)') /\ Cardinality(Pending(d)') \in Nat
                        /\ Cardinality(Pending(d)') = Cardinality(Pending(d)) - 1
                        /\ runs[d] \in Nat /\ forgotten[d] \in Nat
                        /\ runs[d] + Cardinality(Pending(d))
                             <= forgotten[d] + IF d \in ToSet(uex) THEN 1 ELSE 0
      OBVIOUS
    <2>1. /\ IsFiniteSet(Pending(d)) /\ runs[d] \in Nat /\ forgotten[d] \in Nat
          /\ runs[d] + Cardinality(Pending(d)) <= forgotten[d] + IF d \in ToSet(uex) THEN 1 ELSE 0
      BY <1>1 DEF Rights, ServerTypes
    <2>2. IsFiniteSet(Pending(d)') /\ Cardinality(Pending(d)') = Cardinality(Pending(d)) - 1
      BY <1>14, <2>1, FS_RemoveElement
    <2> QED
      BY <2>1, <2>2, FS_CardinalityType
  <1>16. Rights'
    <2> SUFFICES ASSUME NEW i \in Ids
                 PROVE  /\ IsFiniteSet(Pending(i)')
                        /\ runs'[i] + Cardinality(Pending(i)')
                             <= forgotten[i] + IF i \in ToSet(uex) THEN 1 ELSE 0
      BY <1>2 DEF Rights
    <2>1. CASE i = d
      BY <1>9, <1>15, <2>1
    <2>2. CASE i # d
      BY <1>1, <1>9, <1>14, <2>2 DEF Rights
    <2> QED
      BY <2>1, <2>2
  <1>17. OneVoice'
    <2>1. ASSUME NEW c \in Clients, NEW u \in Nat, Utters(c, u)', ~(c = d /\ u = v)
          PROVE  Utters(c, u)
      <3>1. ASSUME NEW m \in k.out, IdOf(m[1]) = c, m[2] = Resp(u) PROVE Utters(c, u)
        <4>1. m \in j.out
          BY <1>11, <2>1, <3>1 DEF Resp
        <4> QED
          BY <3>1, <4>1 DEF Utters
      <3>2. ASSUME NEW n \in 1 .. Len(k.put), k.put[n] = <<c, u>> PROVE Utters(c, u)
        <4>1. j.put \in Seq(Ids \X Nat) /\ Len(j.put) \in Nat
          BY <1>1, LenProperties DEF Jobs
        <4>2. CASE kept
          <5>1. <<d, v>> \in Ids \X Nat
            BY <1>6, <4>2
          <5>2. /\ k.put = Append(j.put, <<d, v>>)
                /\ Len(k.put) = Len(j.put) + 1 /\ k.put[Len(j.put) + 1] = <<d, v>>
                /\ \A i \in 1 .. Len(j.put) : k.put[i] = j.put[i]
            BY <1>8, <4>1, <4>2, <5>1, AppendProperties
          <5>3. n # Len(j.put) + 1
            BY <2>1, <3>2, <5>2
          <5>4. n \in 1 .. Len(j.put)
            BY <4>1, <5>2, <5>3
          <5> QED
            BY <3>2, <5>2, <5>4 DEF Utters
        <4>3. CASE ~kept
          BY <1>8, <3>2, <4>3 DEF Utters
        <4> QED
          BY <4>2, <4>3
      <3>3. \A n \in 1 .. Len(cache') : cache'[n] = <<c, u>> => Utters(c, u)
        BY <1>2 DEF Utters
      <3> QED
        BY <1>2, <1>8, <2>1, <3>1, <3>2, <3>3, UttersKept DEF k
    <2> SUFFICES ASSUME NEW c \in Clients, forgotten[c] = 0
                 PROVE  /\ c \notin ToSet(uex) \/ Pending(c)' # {} => \A u \in Nat : ~Utters(c, u)'
                        /\ \A u, x \in Nat : Utters(c, u)' /\ Utters(c, x)' => u = x
      BY <1>2 DEF OneVoice
    <2>2. CASE c = d
      <3>1. d \in Ids
        BY <2>2, RetryAssumption
      <3>2. \A u \in Nat : ~Utters(c, u)
        BY <1>1, <1>14, <2>2 DEF OneVoice
      <3>3. Cardinality(Pending(d)) # 0
        <4>1. IsFiniteSet(Pending(d)) /\ Pending(d) # {}
          BY <1>14, <1>15, <3>1
        <4> QED
          BY <4>1, FS_EmptySet
      <3>4. d \in ToSet(uex) /\ Cardinality(Pending(d)') = 0 /\ IsFiniteSet(Pending(d)')
        <4>1. forgotten[d] = 0
          BY <2>2
        <4> QED
          BY <1>15, <3>1, <3>3, <4>1
      <3>5. Pending(d)' = {}
        BY <3>4, FS_EmptySet
      <3>6. \A u \in Nat : Utters(c, u)' => u = v
        BY <2>1, <3>2
      <3> QED
        BY <2>2, <3>4, <3>5, <3>6
    <2>3. CASE c # d
      <3>1. Pending(c)' = Pending(c)
        BY <1>14, <2>3, RetryAssumption
      <3>2. \A u \in Nat : Utters(c, u)' => Utters(c, u)
        BY <2>1, <2>3
      <3> QED
        BY <1>1, <3>1, <3>2 DEF OneVoice
    <2> QED
      BY <2>2, <2>3
  <1> QED
    BY <1>10, <1>13, <1>16, <1>17 DEF RetryInv

\* A response is put into the cache.
LEMMA InsertStep ==
  ASSUME RetryInv, NEW w \in Resolvers, Insert(w), UNCHANGED clientVars
  PROVE  RetryInv'
  <1> DEFINE j == job[w]
             k == job'[w]
             e == Head(j.put)
  <1>1. /\ ServerTypes /\ AllSorted /\ Rights /\ ClientTypes /\ OneVoice
        /\ job \in [Resolvers -> Jobs] /\ j \in Jobs /\ Sorted(j)
    BY DEF RetryInv, ServerTypes, AllSorted
  <1>2. /\ UNCHANGED <<phase, id, idx, result>> /\ j.at = "gate" /\ j.put # <<>>
        /\ UNCHANGED <<open, inbox, answers, uex, runs, forgotten>>
        /\ cache' = CyclicMapInsert(cache, e, CacheCap)
        /\ job' = [job EXCEPT ![w].put = Tail(@)]
    BY DEF clientVars, Insert, Handled, Allowed
  <1>3. j.put \in Seq(Ids \X Nat)
    BY <1>1 DEF Jobs
  <1>4. /\ e \in Ids \X Nat /\ e = j.put[1] /\ Tail(j.put) \in Seq(Ids \X Nat)
        /\ Len(Tail(j.put)) = Len(j.put) - 1
        /\ \A n \in 1 .. Len(Tail(j.put)) : Tail(j.put)[n] = j.put[n + 1]
    BY <1>2, <1>3, HeadTailProperties
  <1>5. Len(j.put) \in Nat /\ Len(j.put) # 0
    BY <1>2, <1>3, EmptySeq, LenProperties
  <1>6. /\ cache' \in Seq(Ids \X Nat) /\ ToSet(cache') \subseteq ToSet(cache) \cup {e}
    <2>1. cache \in Seq(Ids \X Nat) /\ CacheCap \in Nat \ {0}
      BY <1>1, ServerAssumption DEF ServerTypes
    <2> DEFINE X == Ids \X Nat
    <2>2. cache \in Seq(X) /\ e \in X /\ cache' = CyclicMapInsert(cache, e, CacheCap)
      BY <1>2, <1>4, <2>1
    <2> HIDE DEF e, X
    <2>3. cache' \in Seq(X) /\ ToSet(cache') \subseteq ToSet(cache) \cup {e}
      BY <2>1, <2>2, MapInserted
    <2> QED
      BY <2>3 DEF X
  <1>7. /\ k.at = j.at /\ k.batch = j.batch /\ k.miss = j.miss /\ k.write = j.write
        /\ k.serve = j.serve /\ k.put = Tail(j.put) /\ k.out = j.out
        /\ \A x \in Resolvers : x # w => job'[x] = job[x]
        /\ job' \in [Resolvers -> Jobs]
    BY <1>1, <1>2, <1>4 DEF Jobs
  <1>8. ServerTypes' /\ ClientTypes'
    BY <1>1, <1>2, <1>6, <1>7 DEF ServerTypes, ClientTypes
  <1> HIDE DEF k
  <1>9. AllSorted'
    <2>1. Done(k) = Done(j)
      BY <1>7 DEF Done
    <2>2. Sorted(k)
      BY <1>1, <1>2, <1>7, <2>1 DEF Sorted
    <2> QED
      BY <1>1, <1>7, <2>2 DEF AllSorted, k
  <1>10. Rights' /\ \A i \in Ids : Pending(i)' \subseteq Pending(i)
    BY <1>1, <1>2, <1>7, RightsKept DEF k
  <1>11. OneVoice'
    <2>1. ASSUME NEW c \in Clients, NEW v \in Nat, Utters(c, v)' PROVE Utters(c, v)
      <3>1. ASSUME NEW n \in 1 .. Len(cache'), cache'[n] = <<c, v>> PROVE Utters(c, v)
        <4>1. cache'[n] \in ToSet(cache')
          BY <1>6, Places
        <4>2. CASE cache'[n] = e
          <5>1. 1 \in 1 .. Len(j.put)
            BY <1>5
          <5> QED
            BY <1>4, <3>1, <4>2, <5>1 DEF Utters
        <4>3. CASE cache'[n] \in ToSet(cache)
          <5>1. PICK i \in 1 .. Len(cache) : cache[i] = <<c, v>>
            BY <1>1, <3>1, <4>3, Places DEF ServerTypes
          <5> QED
            BY <5>1 DEF Utters
        <4> QED
          BY <1>6, <4>1, <4>2, <4>3
      <3>2. ASSUME NEW n \in 1 .. Len(k.put), k.put[n] = <<c, v>> PROVE Utters(c, v)
        <4>1. n + 1 \in 1 .. Len(j.put) /\ j.put[n + 1] = <<c, v>>
          BY <1>4, <1>5, <1>7, <3>2
        <4> QED
          BY <4>1 DEF Utters
      <3>3. \A m \in k.out : IdOf(m[1]) = c /\ m[2] = Resp(v) => Utters(c, v)
        BY <1>7 DEF Utters
      <3> QED
        BY <1>2, <1>7, <2>1, <3>1, <3>2, <3>3, UttersKept DEF k
    <2> QED
      BY <1>1, <1>2, <1>10, <2>1, VoiceKept, RetryAssumption
  <1> QED
    BY <1>8, <1>9, <1>10, <1>11 DEF RetryInv

LEMMA FreshJob == NoJob \in Jobs /\ Sorted(NoJob)
  <1>1. <<>> \in Seq(Ids \X Nat) /\ IsFiniteSet({})
    BY EmptySeq, FS_EmptySet
  <1>2. Done(NoJob) = {}
    BY DEF Done, NoJob
  <1> QED
    BY <1>1, <1>2 DEF NoJob, Jobs, Sorted

\* An epoch ends: its responses are sent.
LEMMA SendResponsesStep ==
  ASSUME RetryInv, NEW w \in Resolvers, Send(w), UNCHANGED clientVars
  PROVE  RetryInv'
  <1> DEFINE j == job[w]
  <1>1. /\ ServerTypes /\ AllSorted /\ Rights /\ ClientTypes /\ OneVoice
        /\ job \in [Resolvers -> Jobs] /\ j \in Jobs
    BY DEF RetryInv, ServerTypes
  <1>2. /\ UNCHANGED <<phase, id, idx, result>>
        /\ UNCHANGED <<open, inbox, cache, uex, runs, forgotten>>
        /\ answers' = answers \cup {m \in j.out : m[1] \in open}
        /\ job' = [job EXCEPT ![w] = NoJob]
    BY DEF clientVars, Send
  <1>3. /\ job' \in [Resolvers -> Jobs] /\ job'[w] = NoJob
        /\ \A x \in Resolvers : x # w => job'[x] = job[x]
    BY <1>1, <1>2, FreshJob
  <1>4. answers' \subseteq answers \cup j.out /\ j.out \subseteq Tickets \X Replies
    BY <1>1, <1>2 DEF Jobs
  <1>5. ServerTypes' /\ ClientTypes'
    BY <1>1, <1>2, <1>3, <1>4 DEF ServerTypes, ClientTypes
  <1>6. AllSorted'
    BY <1>1, <1>3, FreshJob DEF AllSorted
  <1>7. NoJob.serve = {} /\ NoJob.out = {} /\ NoJob.put = <<>>
    BY DEF NoJob
  <1>8. Rights' /\ \A i \in Ids : Pending(i)' \subseteq Pending(i)
    BY <1>1, <1>2, <1>3, <1>7, RightsKept
  <1>9. OneVoice'
    <2>1. ASSUME NEW c \in Clients, NEW v \in Nat, Utters(c, v)' PROVE Utters(c, v)
      <3>1. CASE \E m \in answers' : IdOf(m[1]) = c /\ m[2] = Resp(v)
        BY <1>4, <3>1 DEF Utters
      <3>2. CASE \E x \in Resolvers : \E m \in job'[x].out : IdOf(m[1]) = c /\ m[2] = Resp(v)
        BY <1>3, <1>7, <3>2 DEF Utters
      <3>3. CASE \E x \in Resolvers : \E n \in 1 .. Len(job'[x].put) : job'[x].put[n] = <<c, v>>
        <4>1. Len(<<>>) = 0
          BY EmptySeq
        <4> QED
          BY <1>3, <1>7, <3>3, <4>1 DEF Utters
      <3>4. CASE \/ \E n \in 1 .. Len(cache) : cache[n] = <<c, v>>
                 \/ id[c] = c /\ result[c] = Resp(v)
        BY <3>4 DEF Utters
      <3> QED
        BY <1>2, <2>1, <3>1, <3>2, <3>3, <3>4 DEF Utters
    <2> QED
      BY <1>1, <1>2, <1>8, <2>1, VoiceKept, RetryAssumption
  <1> QED
    BY <1>5, <1>6, <1>8, <1>9 DEF RetryInv

\* A step of the server that leaves requests and responses where they are
LEMMA ServerKept ==
  ASSUME RetryInv, UNCHANGED <<inbox, answers, cache, uex, job, runs, forgotten>>,
         UNCHANGED clientVars
  PROVE  RetryInv'
  <1>1. /\ UNCHANGED <<phase, id, idx, result>>
        /\ inbox' = inbox /\ answers' = answers /\ cache' = cache /\ uex' = uex /\ job' = job
        /\ runs' = runs /\ forgotten' = forgotten
    BY DEF clientVars
  <1>2. ServerTypes' /\ AllSorted' /\ ClientTypes' /\ Rights'
    BY <1>1 DEF RetryInv, ServerTypes, AllSorted, ClientTypes, Rights, Pending
  <1>3. OneVoice'
    BY <1>1 DEF RetryInv, OneVoice, Utters, Pending
  <1> QED
    BY <1>2, <1>3 DEF RetryInv

\* Every step of the server keeps the invariant.
LEMMA ServerStep ==
  ASSUME RetryInv, ServerNext, UNCHANGED clientVars
  PROVE  RetryInv'
  <1>1. CASE ResetTraffic
    BY <1>1, ServerKept DEF ResetTraffic
  <1>2. ASSUME NEW w \in Resolvers, Receive(w) PROVE RetryInv'
    BY <1>2, ReceiveStep
  <1>3. ASSUME NEW w \in Resolvers, Epoch(w) PROVE RetryInv'
    <2>1. CASE TrafficThru(w)
      BY <2>1, TrafficStep
    <2>2. CASE Insert(w)
      BY <2>2, InsertStep
    <2>3. CASE Send(w)
      BY <2>3, SendResponsesStep
    <2>4. ASSUME NEW t \in job[w].write, UniqueWriteThru(w, t) PROVE RetryInv'
      <3>1. CASE IdOf(t) \in ToSet(uex)
        BY <2>4, <3>1, LostStep DEF UniqueWriteThru, UniqueWrite
      <3>2. CASE IdOf(t) \notin ToSet(uex)
        BY <2>4, <3>2, WonStep DEF UniqueWriteThru, UniqueWrite
      <3> QED
        BY <3>1, <3>2
    <2>5. ASSUME NEW t \in job[w].serve, Serve(w, t) PROVE RetryInv'
      BY <2>5, ServeStep
    <2> QED
      BY <1>3, <2>1, <2>2, <2>3, <2>4, <2>5 DEF Epoch
  <1> QED
    BY <1>1, <1>2, <1>3 DEF ServerNext

-----------------------------------------------------------------------------
(* The promises.                                                           *)

\* A promise makes a request, ends an attempt, or is concluded with r, which is
\* an answer to its current attempt, an error or what it was.
LEMMA PromiseStep ==
  ASSUME RetryInv, NEW c \in Clients,
         UNCHANGED <<cache, uex, job, runs, forgotten>>,
         inbox' \in SUBSET Tickets, IsFiniteSet(inbox'), answers' \subseteq answers,
         ClientTypes', NEW r, result' = [result EXCEPT ![c] = r],
         \A x \in Clients : x # c => id'[x] = id[x],
         \/ r = <<>>
         \/ r = Error
         \/ id' = id /\ \E m \in answers : m[1] = Ticket(c) /\ m[2] = r
         \/ id' = id /\ r = result[c]
  PROVE  RetryInv'
  <1>1. /\ ServerTypes /\ AllSorted /\ Rights /\ ClientTypes /\ OneVoice
    BY DEF RetryInv
  <1>2. cache' = cache /\ uex' = uex /\ job' = job /\ runs' = runs /\ forgotten' = forgotten
    OBVIOUS
  <1>3. ServerTypes'
    BY <1>1, <1>2 DEF ServerTypes
  <1>4. AllSorted'
    BY <1>1, <1>2 DEF AllSorted
  <1>5. Rights' /\ \A i \in Ids : Pending(i)' \subseteq Pending(i)
    BY <1>1, <1>2, RightsKept
  <1>6. OneVoice'
    <2>1. ASSUME NEW x \in Clients, NEW v \in Nat, Utters(x, v)' PROVE Utters(x, v)
      <3>1. CASE id'[x] = x /\ result'[x] = Resp(v)
        <4>1. CASE x # c
          <5>1. id[x] = x /\ result[x] = Resp(v)
            BY <1>1, <3>1, <4>1 DEF ClientTypes
          <5> QED
            BY <5>1 DEF Utters
        <4>2. CASE x = c
          <5>1. r = Resp(v)
            BY <1>1, <3>1, <4>2 DEF ClientTypes
          <5>2. r # Error /\ r # <<>>
            BY <5>1, ErrorIsNone DEF Resp
          <5>3. id[c] = c
            BY <3>1, <4>2, <5>2
          <5>4. CASE \E m \in answers : m[1] = Ticket(c) /\ m[2] = r
            <6>1. IdOf(Ticket(c)) = c
              BY <5>3 DEF IdOf, Ticket
            <6> QED
              BY <4>2, <5>1, <5>4, <6>1 DEF Utters
          <5>5. CASE r = result[c]
            BY <4>2, <5>1, <5>3, <5>5 DEF Utters
          <5> QED
            BY <5>2, <5>4, <5>5
        <4> QED
          BY <4>1, <4>2
      <3>2. CASE ~(id'[x] = x /\ result'[x] = Resp(v))
        BY <1>2, <2>1, <3>2 DEF Utters
      <3> QED
        BY <3>1, <3>2
    <2> QED
      BY <1>1, <1>2, <1>5, <2>1, VoiceKept, RetryAssumption
  <1> QED
    BY <1>3, <1>4, <1>5, <1>6 DEF RetryInv

\* A promise is concluded.
LEMMA FinalizeStep ==
  ASSUME RetryInv, NEW c \in Clients, NEW r \in Replies, Finalize(c, r),
         r = Error \/ \E m \in answers : m[1] = Ticket(c) /\ m[2] = r
  PROVE  RetryInv'
  <1>1. ServerTypes /\ ClientTypes
    BY DEF RetryInv
  <1>2. /\ UNCHANGED <<cache, uex, job, runs, forgotten>> /\ inbox' = inbox
        /\ answers' \subseteq answers /\ id' = id /\ idx' = idx
        /\ phase' = [phase EXCEPT ![c] = "done"] /\ result' = [result EXCEPT ![c] = r]
    BY DEF Finalize, Closes
  <1>3. inbox' \in SUBSET Tickets /\ IsFiniteSet(inbox')
    BY <1>1, <1>2 DEF ServerTypes
  <1>4. ClientTypes'
    BY <1>1, <1>2 DEF ClientTypes
  <1> QED
    BY <1>2, <1>3, <1>4, PromiseStep

\* A promise makes an attempt.
LEMMA AttemptStep ==
  ASSUME RetryInv, NEW c \in Clients, NEW t \in Tickets, Attempt(c, t),
         \/ id' = id
         \/ phase[c] = "idle" /\ \E i \in Ids \cup {NoId} : id' = [id EXCEPT ![c] = i]
  PROVE  RetryInv'
  <1>1. ServerTypes /\ ClientTypes
    BY DEF RetryInv
  <1>2. /\ UNCHANGED <<answers, cache, uex, job, runs, forgotten>> /\ inbox' = inbox \cup {t}
        /\ answers' \subseteq answers /\ idx' = idx /\ result' = result
        /\ phase' = [phase EXCEPT ![c] = "attempt"]
    BY DEF Attempt
  <1>3. inbox' \in SUBSET Tickets /\ IsFiniteSet(inbox')
    BY <1>1, <1>2, FS_AddElement DEF ServerTypes
  <1>4. ClientTypes' /\ \A x \in Clients : x # c => id'[x] = id[x]
    BY <1>1, <1>2 DEF ClientTypes
  <1>5. result' = [result EXCEPT ![c] = result[c]]
    BY <1>1, <1>2 DEF ClientTypes
  <1>6. result[c] = <<>> \/ id' = id
    BY <1>1 DEF ClientTypes
  <1> QED
    BY <1>2, <1>3, <1>4, <1>5, <1>6, PromiseStep

\* An attempt has failed and is to be repeated.
LEMMA RetryFailedStep ==
  ASSUME RetryInv, NEW c \in Clients, NextRetry(c)
  PROVE  RetryInv'
  <1>1. ServerTypes /\ ClientTypes
    BY DEF RetryInv
  <1>2. /\ UNCHANGED <<cache, uex, job, runs, forgotten>> /\ inbox' = inbox
        /\ answers' \subseteq answers /\ id' = id /\ idx' = [idx EXCEPT ![c] = @ + 1]
        /\ phase' = [phase EXCEPT ![c] = "sleep"] /\ result' = result
    BY DEF NextRetry, Closes
  <1>3. inbox' \in SUBSET Tickets /\ IsFiniteSet(inbox')
    BY <1>1, <1>2 DEF ServerTypes
  <1>4. ClientTypes'
    BY <1>1, <1>2 DEF ClientTypes
  <1>5. result' = [result EXCEPT ![c] = result[c]]
    BY <1>1, <1>2 DEF ClientTypes
  <1> QED
    BY <1>2, <1>3, <1>4, <1>5, PromiseStep

\* Every step of a promise keeps the invariant.
LEMMA ClientStep ==
  ASSUME RetryInv, NEW c \in Clients,
         GetPromise(c, c) \/ GetPromise(c, NoId) \/ NextOver(c) \/ NextPromise(c)
  PROVE  RetryInv'
  <1>1. ASSUME NEW i \in Ids \cup {NoId}, GetPromise(c, i) PROVE RetryInv'
    <2>1. <<c, 0, i>> \in Tickets
      BY DEF Tickets
    <2> QED
      BY <1>1, <2>1, AttemptStep DEF GetPromise
  <1>2. ASSUME Finalize(c, Error) PROVE RetryInv'
    <2>1. Error \in Replies
      BY DEF Replies
    <2> QED
      BY <1>2, <2>1, FinalizeStep
  <1>3. CASE NextResult(c)
    <2>1. PICK m \in answers : m[1] = Ticket(c) /\ m[2] # Error /\ Finalize(c, m[2])
      BY <1>3 DEF NextResult
    <2>2. m[2] \in Replies
      BY DEF RetryInv, ServerTypes
    <2> QED
      BY <2>1, <2>2, FinalizeStep
  <1>4. CASE NextAttempt(c)
    <2>1. Ticket(c) \in Tickets
      BY DEF RetryInv, ClientTypes, Ticket, Tickets
    <2> QED
      BY <1>4, <2>1, AttemptStep DEF NextAttempt
  <1>5. CASE NextRetry(c)
    BY <1>5, RetryFailedStep
  <1> QED
    BY <1>1, <1>2, <1>3, <1>4, <1>5, RetryAssumption DEF NextPromise, NextOver, NextGiveUp

\* Every step keeps each request in one place, rights counted and responses one.
LEMMA RetryInvStep == RetryInv /\ [RetryStep]_retryVars => RetryInv'
  <1> SUFFICES ASSUME RetryInv, [RetryStep]_retryVars PROVE RetryInv'
    OBVIOUS
  <1>1. CASE UNCHANGED retryVars
    BY <1>1, ServerKept DEF retryVars, serverVars
  <1>2. CASE ServerNext /\ UNCHANGED clientVars
    BY <1>2, ServerStep
  <1>3. CASE \E c \in Clients : GetPromise(c, c) \/ GetPromise(c, NoId) \/ NextOver(c) \/ NextPromise(c)
    BY <1>3, ClientStep
  <1> QED
    BY <1>1, <1>2, <1>3 DEF RetryStep

LEMMA RetryInvInit == RetryInit => RetryInv
  <1> SUFFICES ASSUME RetryInit PROVE RetryInv
    OBVIOUS
  <1>1. /\ inbox = {} /\ answers = {} /\ cache = <<>> /\ uex = <<>>
        /\ job = [w \in Resolvers |-> NoJob]
        /\ runs = [i \in Ids |-> 0] /\ forgotten = [i \in Ids |-> 0]
    BY DEF RetryInit, ServerInit
  <1>2. /\ <<>> \in Seq(Ids \X Nat) /\ <<>> \in Seq(Ids) /\ Len(<<>>) = 0
        /\ IsFiniteSet({}) /\ Cardinality({}) = 0
    BY EmptySeq, FS_EmptySet
  <1>3. ServerTypes
    BY <1>1, <1>2, FreshJob DEF ServerTypes
  <1>4. AllSorted
    BY <1>1, FreshJob DEF AllSorted
  <1>5. \A w \in Resolvers : job[w].serve = {} /\ job[w].out = {} /\ job[w].put = <<>>
    BY <1>1 DEF NoJob
  <1>6. \A i : Pending(i) = {}
    BY <1>5 DEF Pending
  <1>7. Rights
    <2> SUFFICES ASSUME NEW i \in Ids
                 PROVE  /\ IsFiniteSet(Pending(i))
                        /\ runs[i] + Cardinality(Pending(i))
                             <= forgotten[i] + IF i \in ToSet(uex) THEN 1 ELSE 0
      BY DEF Rights
    <2>1. runs[i] = 0 /\ forgotten[i] = 0 /\ Cardinality(Pending(i)) = 0 /\ IsFiniteSet(Pending(i))
      BY <1>1, <1>2, <1>6
    <2> QED
      BY <2>1
  <1>8. /\ phase = [c \in Clients |-> "idle"] /\ id = [c \in Clients |-> NoId]
        /\ idx = [c \in Clients |-> 0] /\ result = [c \in Clients |-> <<>>]
    BY DEF RetryInit
  <1>9. ClientTypes
    BY <1>8 DEF ClientTypes
  <1>10. \A c \in Clients, v \in Nat : ~Utters(c, v)
    <2> SUFFICES ASSUME NEW c \in Clients, NEW v \in Nat, Utters(c, v) PROVE FALSE
      OBVIOUS
    <2>1. result[c] # Resp(v)
      BY <1>8 DEF Resp
    <2> QED
      BY <1>1, <1>2, <1>5, <2>1 DEF Utters
  <1>11. OneVoice
    BY <1>10 DEF OneVoice
  <1> QED
    BY <1>3, <1>4, <1>7, <1>9, <1>11 DEF RetryInv

\* However attempts are retried, delayed and spread over the workers, the handler
\* runs once for an id, and once more at most each time the unique write set has
\* forgotten it.
THEOREM IdsHandledOnce == RetrySafety => []HandledOnce
  <1>1. RetryInv => HandledOnce
    <2> SUFFICES ASSUME RetryInv, NEW i \in Ids PROVE runs[i] <= 1 + forgotten[i]
      BY DEF HandledOnce
    <2>1. /\ runs[i] \in Nat /\ forgotten[i] \in Nat /\ Cardinality(Pending(i)) \in Nat
          /\ runs[i] + Cardinality(Pending(i)) <= forgotten[i] + IF i \in ToSet(uex) THEN 1 ELSE 0
      BY FS_CardinalityType DEF RetryInv, ServerTypes, Rights
    <2> QED
      BY <2>1
  <1> QED
    BY <1>1, RetryInvInit, RetryInvStep, PTL DEF RetrySafety

\* An epoch of the request resolver has each of its requests in one feeder or
\* answered, once, whichever of them it passes.
THEOREM RequestsAnsweredOnce == RetrySafety => []AnsweredOnce
  <1>1. RetryInv => AnsweredOnce
    <2> SUFFICES ASSUME RetryInv, NEW w \in Resolvers
                 PROVE  /\ job[w].batch = job[w].miss \cup job[w].write \cup job[w].serve
                                            \cup {m[1] : m \in job[w].out}
                        /\ Cardinality(job[w].batch) = Cardinality(job[w].miss)
                             + Cardinality(job[w].write) + Cardinality(job[w].serve)
                             + Cardinality(job[w].out)
      BY DEF AnsweredOnce
    <2>1. Sorted(job[w])
      BY DEF RetryInv, AllSorted
    <2>2. job[w].batch = job[w].miss \cup job[w].write \cup job[w].serve \cup Done(job[w])
      BY <2>1 DEF Sorted
    <2> QED
      BY <2>1, <2>2, SortedCounts DEF Done
  <1> QED
    BY <1>1, RetryInvInit, RetryInvStep, PTL DEF RetrySafety

\* All responses about an id, cached, under way or delivered, are the same as long
\* as the unique write set has not forgotten it.
THEOREM SameResponse == RetrySafety => []OneResponse
  <1>1. RetryInv => OneResponse
    <2> SUFFICES ASSUME RetryInv, NEW c \in Clients, forgotten[c] = 0
                 PROVE  Cardinality(Said(c)) <= 1
      BY DEF OneResponse
    <2>1. ServerTypes /\ ClientTypes /\ OneVoice
      BY DEF RetryInv
    <2>2. \A a \in Replies : (a[1] = "response" \/ a # Error) => a[2] \in Nat /\ a = Resp(a[2])
      BY DEF Replies, Error, Resp
    <2>3. ASSUME NEW u \in Said(c) PROVE u \in Nat /\ Utters(c, u)
      <3>1. CASE u \in {cache[n][2] : n \in {m \in DOMAIN cache : cache[m][1] = c}}
        <4>1. PICK n \in DOMAIN cache : cache[n][1] = c /\ u = cache[n][2]
          BY <3>1
        <4>2. n \in 1 .. Len(cache) /\ cache[n] \in Ids \X Nat
          BY <2>1, <4>1, LenProperties, ElementOfSeq DEF ServerTypes
        <4>3. cache[n] = <<c, u>> /\ u \in Nat
          BY <4>1, <4>2
        <4> QED
          BY <4>2, <4>3 DEF Utters
      <3>2. CASE u \in {m[2][2] : m \in {x \in answers \cup UNION {job[w].out : w \in Resolvers} :
                                            IdOf(x[1]) = c /\ x[2][1] = "response"}}
        <4>1. PICK m \in answers \cup UNION {job[w].out : w \in Resolvers} :
                IdOf(m[1]) = c /\ m[2][1] = "response" /\ u = m[2][2]
          BY <3>2
        <4>2. m \in Tickets \X Replies
          BY <2>1, <4>1 DEF ServerTypes, Jobs
        <4>3. u \in Nat /\ m[2] = Resp(u)
          BY <2>2, <4>1, <4>2
        <4> QED
          BY <4>1, <4>3 DEF Utters
      <3>3. CASE u \in {r[2] : r \in {x \in {result[c]} \ {<<>>, Error} : id[c] = c}}
        <4>1. id[c] = c /\ result[c] # <<>> /\ result[c] # Error /\ u = result[c][2]
          BY <3>3
        <4>2. result[c] \in Replies
          BY <2>1, <4>1 DEF ClientTypes
        <4>3. u \in Nat /\ result[c] = Resp(u)
          BY <2>2, <4>1, <4>2
        <4> QED
          BY <4>1, <4>3 DEF Utters
      <3> QED
        BY <3>1, <3>2, <3>3 DEF Said
    <2>4. \A u, v \in Said(c) : u = v
      BY <2>1, <2>3 DEF OneVoice
    <2>5. CASE Said(c) = {}
      BY <2>5, FS_EmptySet
    <2>6. CASE Said(c) # {}
      <3>1. PICK u : Said(c) = {u}
        BY <2>4, <2>6
      <3>2. Cardinality({u}) = 1
        BY FS_Singleton
      <3> QED
        BY <3>1, <3>2
    <2> QED
      BY <2>5, <2>6
  <1> QED
    BY <1>1, RetryInvInit, RetryInvStep, PTL DEF RetrySafety
=============================================================================
