-------------------------- MODULE RestClientProofs --------------------------
(***************************************************************************)
(* Theorems about RestClient, for every set of calls and workers and all   *)
(* capacities: who owns a ticket, who holds an observer, who wakes a       *)
(* caller, and that the client keeps the promise of RestCall.              *)
(***************************************************************************)
EXTENDS RestClient, FiniteSetTheorems, SequenceTheorems, TLAPS

USE DEF Goto

-----------------------------------------------------------------------------
(* Types, the callers blocked in clock_in() and the room of the expiry     *)
(* queue.  internal_update wakes as many callers as there is room, so its  *)
(* effect is understood only together with the bound of the queue.         *)

\* push_wait_bucket_vec holds callers that wait, each of them once.
Queued == /\ \A i \in 1 .. Len(pushWait) : pc[pushWait[i]] = "waiting"
          /\ \A i, j \in 1 .. Len(pushWait) : pushWait[i] = pushWait[j] => i = j

\* The expiry queue keeps its capacity.
ClockRoom == IsFiniteSet(Clocked(clock)) /\ Cardinality(Clocked(clock)) <= ClockCap

\* The elements of a sequence's first n places are at most n.
LEMMA PrefixSize ==
  ASSUME NEW S, NEW q \in Seq(S), NEW n \in 0 .. Len(q)
  PROVE  /\ IsFiniteSet({q[i] : i \in 1 .. n})
         /\ Cardinality({q[i] : i \in 1 .. n}) <= n
<1> DEFINE f == [i \in 1 .. n |-> q[i]]
           T == {q[i] : i \in 1 .. n}
<1>1. n \in Nat /\ 1 .. n \subseteq 1 .. Len(q)
  BY LenProperties
<1>2. IsFiniteSet(1 .. n) /\ Cardinality(1 .. n) = n
  BY <1>1, FS_Interval
<1>3. f \in Surjection(1 .. n, T)
  BY DEF Surjection
<1>4. QED BY <1>2, <1>3, FS_Surjection

\* A sequence without its first n elements; when no element occurs twice, none
\* of the dropped ones is left.
LEMMA WithoutPrefix ==
  ASSUME NEW S, NEW q \in Seq(S), NEW n \in 0 .. Len(q)
  PROVE  LET r == SubSeq(q, n + 1, Len(q))
         IN  /\ r \in Seq(S)
             /\ Len(r) = Len(q) - n
             /\ \A i \in 1 .. Len(r) : n + i \in 1 .. Len(q) /\ r[i] = q[n + i]
             /\ (\A i, j \in 1 .. Len(q) : q[i] = q[j] => i = j)
                  => /\ \A i, j \in 1 .. Len(r) : r[i] = r[j] => i = j
                     /\ \A i \in 1 .. Len(r) : r[i] \notin {q[j] : j \in 1 .. n}
<1> DEFINE r == SubSeq(q, n + 1, Len(q))
<1>1. Len(q) \in Nat /\ n \in Nat /\ n <= Len(q)
  BY LenProperties
<1>2. \A i \in n + 1 .. Len(q) : q[i] \in S
  BY <1>1, ElementOfSeq
<1>3. /\ r \in Seq(S)
      /\ Len(r) = IF n + 1 <= Len(q) THEN Len(q) - (n + 1) + 1 ELSE 0
      /\ \A i \in 1 .. Len(q) - (n + 1) + 1 : r[i] = q[(n + 1) + i - 1]
  BY <1>1, <1>2, SubSeqProperties
<1> HIDE DEF r
<1>4. Len(r) = Len(q) - n
  <2> DEFINE long == Len(q)
             short == Len(r)
  <2>1. long \in Nat /\ n \in Nat /\ n <= long
    BY <1>1
  <2>2. short = IF n + 1 <= long THEN long - (n + 1) + 1 ELSE 0
    BY <1>3
  <2> HIDE DEF long, short
  <2>3. short = long - n
    BY <2>1, <2>2
  <2>4. QED BY <2>3 DEF long, short
<1>5. \A i \in 1 .. Len(r) : n + i \in 1 .. Len(q) /\ r[i] = q[n + i]
  <2> TAKE i \in 1 .. Len(r)
  <2>1. i \in 1 .. Len(q) - (n + 1) + 1 /\ (n + 1) + i - 1 = n + i
    BY <1>1, <1>4
  <2>2. QED BY <2>1, <1>1, <1>3, <1>4
<1>6. ASSUME \A i, j \in 1 .. Len(q) : q[i] = q[j] => i = j
      PROVE  /\ \A i, j \in 1 .. Len(r) : r[i] = r[j] => i = j
             /\ \A i \in 1 .. Len(r) : r[i] \notin {q[j] : j \in 1 .. n}
  <2>1. ASSUME NEW i \in 1 .. Len(r), NEW j \in 1 .. Len(r), r[i] = r[j] PROVE i = j
    <3>1. n + i = n + j
      BY <1>5, <1>6, <2>1
    <3>2. QED BY <3>1, <1>1, <1>4
  <2>2. ASSUME NEW i \in 1 .. Len(r), NEW j \in 1 .. n, r[i] = q[j] PROVE FALSE
    <3>1. n + i = j
      BY <1>1, <1>5, <1>6, <2>2
    <3>2. QED BY <3>1, <1>1, <1>4
  <2>3. QED BY <2>1, <2>2
<1>7. QED BY <1>3, <1>4, <1>5, <1>6 DEF r

Locations == {"idle", "opened", "bound", "pushed", "waiting", "woken", "handle", "closing",
              "done"}
ClockStates == {"out", "max", "ticking", "expired"}

\* What internal_update does to the queues: it wakes waiting callers only, the
\* queue keeps its capacity, and a ticket that leaves it is in the hands of the
\* expiry worker, who was waiting for one.
Rearranged(k) ==
  /\ pc' \in [Calls -> Locations]
  /\ clock' \in [Calls -> ClockStates]
  /\ pushWait' \in Seq(Calls)
  /\ expiry' \in [at: {"ask", "wait", "steal", "update"}, for: SUBSET Calls]
  /\ Queued'
  /\ ClockRoom'
  /\ \A c \in Calls : pc'[c] = pc[c] \/ (pc[c] = "waiting" /\ pc'[c] = "woken")
  /\ expiry' = expiry \/ (expiry.at = "wait" /\ expiry'.at = "steal")
  /\ \A c \in Calls : \/ pc'[c] # pc[c]
                      \/ clock'[c] = k[c]
                      \/ k[c] = "expired" /\ expiry'.at = "steal" /\ c \in expiry'.for

\* internal_update does no more than that.
LEMMA UpdateEffect ==
  ASSUME TypeOK, Queued, NEW k \in [Calls -> ClockStates],
         IsFiniteSet(Clocked(k)), Cardinality(Clocked(k)) <= ClockCap,
         internal_update(k)
  PROVE  Rearranged(k)
<1>0. /\ pc \in [Calls -> Locations]
      /\ pushWait \in Seq(Calls)
      /\ expiry \in [at: {"ask", "wait", "steal", "update"}, for: SUBSET Calls]
  BY DEF TypeOK, Locations
<1>1. PICK T \in Handed(k) :
        LET room == ClockCap - Cardinality(Clocked(k) \ T)
            n    == Min(room, Len(pushWait))
            in   == {pushWait[i] : i \in 1 .. n}
        IN /\ clock' = [c \in Calls |-> IF c \in in THEN "max"
                                        ELSE IF c \in T THEN "out" ELSE k[c]]
           /\ pushWait' = SubSeq(pushWait, n + 1, Len(pushWait))
           /\ pc' = [c \in Calls |-> IF c \in in THEN "woken" ELSE pc[c]]
           /\ expiry' = IF T = {} THEN expiry ELSE [at |-> "steal", for |-> T]
  BY DEF internal_update
<1> DEFINE room == ClockCap - Cardinality(Clocked(k) \ T)
           n    == Min(room, Len(pushWait))
           in   == {pushWait[i] : i \in 1 .. n}
<1>2. /\ T \subseteq Expired(k) /\ T \subseteq Calls
      /\ T # {} => expiry.at = "wait"
  BY DEF Handed, Expired
<1>3. /\ IsFiniteSet(Clocked(k) \ T) /\ Cardinality(Clocked(k) \ T) \in Nat
      /\ Cardinality(Clocked(k) \ T) <= ClockCap
  <2>1. IsFiniteSet(Clocked(k) \ T)
        /\ Cardinality(Clocked(k) \ T) <= Cardinality(Clocked(k))
    BY FS_Subset, Clocked(k) \ T \in SUBSET Clocked(k)
  <2>2. Cardinality(Clocked(k) \ T) \in Nat /\ Cardinality(Clocked(k)) \in Nat
    BY <2>1, FS_CardinalityType
  <2>3. QED BY <2>1, <2>2, CapAssumption
<1>5. room \in Nat /\ n \in 0 .. Len(pushWait) /\ n <= room
  <2>1. Len(pushWait) \in Nat
    BY <1>0, LenProperties
  <2>2. QED BY <2>1, <1>3, CapAssumption DEF Min
<1> HIDE DEF room, n
<1>7. \A c \in in : c \in Calls /\ pc[c] = "waiting"
  <2> TAKE c \in in
  <2>1. PICK i \in 1 .. n : c = pushWait[i]
    OBVIOUS
  <2>2. i \in 1 .. Len(pushWait)
    BY <1>0, <1>5, LenProperties
  <2>3. QED BY <1>0, <2>1, <2>2, ElementOfSeq DEF Queued
<1>8. /\ clock' = [c \in Calls |-> IF c \in in THEN "max"
                                   ELSE IF c \in T THEN "out" ELSE k[c]]
      /\ pc' = [c \in Calls |-> IF c \in in THEN "woken" ELSE pc[c]]
      /\ expiry' = IF T = {} THEN expiry ELSE [at |-> "steal", for |-> T]
      /\ pushWait' = SubSeq(pushWait, n + 1, Len(pushWait))
  BY <1>1 DEF room, n
<1>9. /\ pushWait' \in Seq(Calls)
      /\ \A i \in 1 .. Len(pushWait') : /\ n + i \in 1 .. Len(pushWait)
                                        /\ pushWait'[i] = pushWait[n + i]
                                        /\ pushWait'[i] \notin in
      /\ \A i, j \in 1 .. Len(pushWait') : pushWait'[i] = pushWait'[j] => i = j
  <2>1. \A i, j \in 1 .. Len(pushWait) : pushWait[i] = pushWait[j] => i = j
    BY DEF Queued
  <2>2. LET r == SubSeq(pushWait, n + 1, Len(pushWait))
        IN  /\ r \in Seq(Calls)
            /\ \A i \in 1 .. Len(r) : /\ n + i \in 1 .. Len(pushWait)
                                      /\ r[i] = pushWait[n + i]
                                      /\ r[i] \notin in
            /\ \A i, j \in 1 .. Len(r) : r[i] = r[j] => i = j
    BY <1>0, <1>5, <2>1, WithoutPrefix
  <2>3. QED BY <2>2, <1>8
<1>10. Queued'
  <2>1. ASSUME NEW i \in 1 .. Len(pushWait') PROVE pc'[pushWait'[i]] = "waiting"
    <3>1. pc[pushWait[n + i]] = "waiting"
      BY <1>9 DEF Queued
    <3>2. pushWait[n + i] \in Calls
      BY <1>0, <1>9, ElementOfSeq
    <3>3. QED BY <3>1, <3>2, <1>8, <1>9
  <2>2. QED BY <2>1, <1>9 DEF Queued
<1>11. ClockRoom'
  <2>1. Clocked(clock') = (Clocked(k) \ T) \cup in
    BY <1>7, <1>8 DEF Clocked
  <2>2. IsFiniteSet(in) /\ Cardinality(in) <= n
    BY <1>0, <1>5, PrefixSize
  <2>3. Cardinality((Clocked(k) \ T) \cap in) \in Nat /\ Cardinality(in) \in Nat
    BY <2>2, <1>3, FS_Intersection, FS_CardinalityType
  <2> HIDE DEF in
  <2>4. IsFiniteSet((Clocked(k) \ T) \cup in)
        /\ Cardinality((Clocked(k) \ T) \cup in)
             = Cardinality(Clocked(k) \ T) + Cardinality(in)
               - Cardinality((Clocked(k) \ T) \cap in)
    BY <2>2, <1>3, FS_Union
  <2>5. n \in Int
    BY <1>0, <1>5, LenProperties
  <2>6. Cardinality(Clocked(clock')) <= ClockCap
    BY <2>1, <2>2, <2>3, <2>4, <2>5, <1>3, <1>5, CapAssumption DEF room
  <2>7. QED BY <2>1, <2>4, <2>6 DEF ClockRoom, Clocked
<1> HIDE DEF in
<1>12. clock' \in [Calls -> ClockStates]
  BY <1>8 DEF ClockStates
<1>13. expiry' \in [at: {"ask", "wait", "steal", "update"}, for: SUBSET Calls]
       /\ (expiry' = expiry \/ (expiry.at = "wait" /\ expiry'.at = "steal"))
  BY <1>0, <1>2, <1>8
<1>14. \A c \in Calls : \/ pc'[c] # pc[c]
                        \/ clock'[c] = k[c]
                        \/ k[c] = "expired" /\ expiry'.at = "steal" /\ c \in expiry'.for
  BY <1>2, <1>7, <1>8 DEF Expired
<1>15. pc' \in [Calls -> Locations]
       /\ \A c \in Calls : pc'[c] = pc[c] \/ (pc[c] = "waiting" /\ pc'[c] = "woken")
  BY <1>0, <1>7, <1>8 DEF Locations
<1>16. QED BY <1>9, <1>10, <1>11, <1>12, <1>13, <1>14, <1>15 DEF Rearranged

\* The types hold together with what internal_update relies on.
Shape == TypeOK /\ Queued /\ ClockRoom

\* A client that was just constructed has its shape.
LEMMA InitShape == Init => Shape
<1> SUFFICES ASSUME Init PROVE Shape
  OBVIOUS
<1>1. TypeOK
  <2>1. ticketCap \in TicketCaps /\ aborted \in BOOLEAN
    BY DEF Init
  <2>2. /\ tickets \subseteq Calls /\ observer \subseteq Calls /\ sent \subseteq Calls
        /\ container \in Seq(Calls) /\ pushWait \in Seq(Calls)
        /\ response \in [Calls -> Seq({"answer", "timeout"})]
    BY DEF Init
  <2>3. /\ pc \in [Calls -> Locations] /\ clock \in [Calls -> ClockStates]
        /\ outcome \in [Calls -> {"none", "answer", "timeout", "refused", "failed", "dropped"}]
        /\ inbound \in [InWorkers -> [at: {"recv", "update", "void"}, for: SUBSET Calls]]
        /\ expiry \in [at: {"ask", "wait", "steal", "update"}, for: SUBSET Calls]
    BY DEF Init, Locations, ClockStates
  <2>4. QED BY <2>1, <2>2, <2>3 DEF TypeOK, Locations, ClockStates
<1>2. Queued
  BY DEF Init, Queued
<1>3. Clocked(clock) = {}
  BY DEF Init, Clocked
<1>4. ClockRoom
  BY <1>3, FS_EmptySet, CapAssumption DEF ClockRoom
<1>5. QED BY <1>1, <1>2, <1>4 DEF Shape

\* Fewer entries leave room in the expiry queue.
LEMMA RoomKept ==
  ASSUME ClockRoom, NEW k, Clocked(k) \subseteq Clocked(clock)
  PROVE  IsFiniteSet(Clocked(k)) /\ Cardinality(Clocked(k)) <= ClockCap
<1>1. /\ IsFiniteSet(Clocked(k))
      /\ Cardinality(Clocked(k)) <= Cardinality(Clocked(clock))
  BY FS_Subset DEF ClockRoom
<1>2. Cardinality(Clocked(k)) \in Nat /\ Cardinality(Clocked(clock)) \in Nat
  BY <1>1, FS_CardinalityType DEF ClockRoom
<1>3. QED BY <1>1, <1>2, CapAssumption DEF ClockRoom

\* Steps that put nobody into push_wait_bucket_vec and no ticket into the queue.
LEMMA QuietQueues ==
  ASSUME Shape, pushWait' = pushWait, Clocked(clock)' \subseteq Clocked(clock),
         \A c \in Calls : pc[c] = "waiting" => pc'[c] = "waiting"
  PROVE  Queued' /\ ClockRoom'
<1>1. \A i \in 1 .. Len(pushWait) : pushWait[i] \in Calls
  BY ElementOfSeq DEF Shape, TypeOK
<1>2. Queued'
  BY <1>1 DEF Shape, Queued
<1>3. Clocked(clock') \subseteq Clocked(clock)
  BY DEF Clocked
<1>4. IsFiniteSet(Clocked(clock')) /\ Cardinality(Clocked(clock')) <= ClockCap
  BY <1>3, RoomKept DEF Shape
<1>5. QED BY <1>2, <1>4 DEF ClockRoom, Clocked

\* The two places that call internal_update.
LEMMA VoidEffect ==
  ASSUME Shape, NEW w \in InWorkers, NEW c \in Calls, InBoundVoid(w, c)
  PROVE  Rearranged([clock EXCEPT ![c] = "out"])
<1> DEFINE k == [clock EXCEPT ![c] = "out"]
<1>1. k \in [Calls -> ClockStates] /\ Clocked(k) \subseteq Clocked(clock)
  BY DEF Shape, TypeOK, ClockStates, Clocked
<1>2. IsFiniteSet(Clocked(k)) /\ Cardinality(Clocked(k)) <= ClockCap
  BY <1>1, RoomKept DEF Shape
<1>3. TypeOK /\ Queued /\ internal_update(k)
  BY DEF Shape, InBoundVoid
<1> HIDE DEF k
<1>4. Rearranged(k)
  BY <1>1, <1>2, <1>3, UpdateEffect
<1>5. QED BY <1>4 DEF k

\* What one run of the cron job does to the expiry queue.
LEMMA CronEffect ==
  ASSUME Shape, CronUpdate
  PROVE  Rearranged(clock)
<1>1. clock \in [Calls -> ClockStates] /\ TypeOK /\ Queued
  BY DEF Shape, TypeOK, ClockStates
<1>2. IsFiniteSet(Clocked(clock)) /\ Cardinality(Clocked(clock)) <= ClockCap
  BY DEF Shape, ClockRoom
<1>3. internal_update(clock)
  BY DEF CronUpdate
<1>4. QED BY <1>1, <1>2, <1>3, UpdateEffect

\* Every step keeps the shape.
LEMMA ShapeStep == Shape /\ [Next]_vars => Shape'
<1> SUFFICES ASSUME Shape, [Next]_vars PROVE Shape'
  OBVIOUS
<1>0. TypeOK /\ Queued /\ ClockRoom /\ pushWait \in Seq(Calls)
  BY DEF Shape, TypeOK
<1>1. CASE UNCHANGED vars
  <2>1. TypeOK'
    BY <1>0, <1>1 DEF vars, TypeOK
  <2>2. Queued' /\ ClockRoom'
    BY <1>1, QuietQueues DEF vars, Clocked
  <2>3. QED BY <2>1, <2>2 DEF Shape
<1>2. ASSUME NEW c \in Calls, Request(c), UNCHANGED ticketCap PROVE Shape'
  <2>1. CASE \/ Open(c) \/ OpenExhausted(c) \/ MakeResponseFails(c) \/ AssignObserver(c)
             \/ MakeRequestFails(c)
    <3>1. TypeOK'
      <4>1. CASE Open(c)
        BY <1>0, <1>2, <4>1 DEF TypeOK, Open
      <4>2. CASE AssignObserver(c)
        BY <1>0, <1>2, <4>2 DEF TypeOK, AssignObserver
      <4>3. CASE OpenExhausted(c)
        BY <1>0, <1>2, <4>3 DEF TypeOK, OpenExhausted, Ends
      <4>4. CASE MakeResponseFails(c)
        BY <1>0, <1>2, <4>4 DEF TypeOK, MakeResponseFails, Ends
      <4>5. CASE MakeRequestFails(c)
        BY <1>0, <1>2, <4>5 DEF TypeOK, MakeRequestFails, Ends
      <4>6. QED BY <2>1, <4>1, <4>2, <4>3, <4>4, <4>5
    <3>2. /\ pushWait' = pushWait /\ clock' = clock
          /\ \A d \in Calls : pc[d] = "waiting" => pc'[d] = "waiting"
      BY <1>0, <2>1 DEF TypeOK, Open, OpenExhausted, MakeResponseFails, AssignObserver,
                   MakeRequestFails, Ends
    <3>3. QED BY <3>1, <3>2, QuietQueues DEF Shape, Clocked
  <2>2. CASE Push(c)
    <3>1. container' \in Seq(Calls)
      BY <1>0, <2>2, AppendProperties DEF TypeOK, Push
    <3>2. TypeOK'
      BY <1>0, <1>2, <2>2, <3>1 DEF TypeOK, Push
    <3>3. /\ pushWait' = pushWait /\ clock' = clock
          /\ \A d \in Calls : pc[d] = "waiting" => pc'[d] = "waiting"
      BY <1>0, <2>2 DEF TypeOK, Push
    <3>4. QED BY <3>2, <3>3, QuietQueues DEF Shape, Clocked
  <2>3. CASE ClockIn(c)
    <3>1. TypeOK'
      BY <1>0, <1>2, <2>3 DEF TypeOK, ClockIn
    <3>2. Queued'
      <4>1. pushWait' = <<>>
        BY <2>3 DEF ClockIn
      <4>2. QED BY <4>1 DEF Queued
    <3>3. Clocked(clock') = Clocked(clock) \cup {c}
      BY <1>0, <2>3 DEF TypeOK, ClockIn, Clocked
    <3>4. /\ IsFiniteSet(Clocked(clock'))
          /\ Cardinality(Clocked(clock')) <= Cardinality(Clocked(clock)) + 1
          /\ Cardinality(Clocked(clock)) \in Nat /\ Cardinality(Clocked(clock')) \in Nat
      BY <1>0, <3>3, FS_AddElement, FS_CardinalityType DEF ClockRoom
    <3>5. Cardinality(Clocked(clock')) <= ClockCap
      BY <2>3, <3>4, CapAssumption DEF ClockIn
    <3>6. QED BY <3>1, <3>2, <3>4, <3>5 DEF Shape, ClockRoom, Clocked
  <2>4. CASE ClockInBlocks(c)
    <3>1. pushWait' \in Seq(Calls)
      BY <1>0, <2>4, AppendProperties DEF ClockInBlocks
    <3>2. TypeOK'
      BY <1>0, <1>2, <2>4, <3>1 DEF TypeOK, ClockInBlocks
    <3>3. /\ pc[c] = "pushed" /\ pc'[c] = "waiting"
          /\ pushWait' = Append(pushWait, c) /\ clock' = clock
          /\ \A d \in Calls : pc[d] = "waiting" => pc'[d] = "waiting"
      BY <1>0, <2>4 DEF TypeOK, ClockInBlocks
    <3>4. /\ Len(pushWait') = Len(pushWait) + 1 /\ Len(pushWait) \in Nat
          /\ \A i \in 1 .. Len(pushWait) : pushWait'[i] = pushWait[i] /\ pushWait[i] \in Calls
          /\ pushWait'[Len(pushWait) + 1] = c
      BY <1>0, <3>3, AppendProperties, LenProperties, ElementOfSeq
    <3>5. \A i \in 1 .. Len(pushWait') : i \in 1 .. Len(pushWait) \/ i = Len(pushWait) + 1
      BY <3>4
    <3>6. Queued'
      BY <1>0, <3>3, <3>4, <3>5 DEF Queued
    <3>7. QED BY <1>0, <3>2, <3>3, <3>6 DEF Shape, ClockRoom, Clocked
  <2>5. CASE ClockInWakes(c)
    <3>1. TypeOK'
      BY <1>0, <1>2, <2>5 DEF TypeOK, ClockInWakes
    <3>2. /\ pushWait' = pushWait
          /\ \A d \in Calls : clock[d] = "out" => clock'[d] = "out"
          /\ \A d \in Calls : pc[d] = "waiting" => pc'[d] = "waiting"
      BY <1>0, <2>5 DEF TypeOK, ClockInWakes
    <3>3. QED BY <3>1, <3>2, QuietQueues DEF Shape, Clocked
  <2>6. QED BY <1>2, <2>1, <2>2, <2>3, <2>4, <2>5 DEF Request
<1>3. ASSUME NEW c \in Calls, Handle(c) \/ Abandon(c) \/ Tick(c), UNCHANGED ticketCap
      PROVE  Shape'
  <2>1. ASSUME Respond(c) PROVE Head(response[c]) \in {"answer", "timeout"}
    BY <1>0, <2>1, HeadTailProperties DEF Respond, TypeOK
  <2>2. TypeOK'
    <3>1. CASE Respond(c)
      BY <1>0, <1>3, <2>1, <3>1 DEF TypeOK, Respond
    <3>2. CASE Close(c)
      BY <1>0, <1>3, <3>2 DEF TypeOK, Close
    <3>3. CASE Abandon(c)
      <4>1. PICK v \in {"failed", "dropped"} : Destroyed(c, v)
        BY <3>3 DEF Abandon, MakeSingleResponseFails, Drop
      <4>2. QED BY <1>0, <1>3, <4>1 DEF TypeOK, Destroyed, Ends
    <3>4. CASE Tick(c)
      BY <1>0, <1>3, <3>4 DEF TypeOK, Tick
    <3>5. QED BY <1>3, <3>1, <3>2, <3>3, <3>4 DEF Handle
  <2>3. /\ pushWait' = pushWait
        /\ \A d \in Calls : clock[d] = "out" => clock'[d] = "out"
        /\ \A d \in Calls : pc[d] = "waiting" => pc'[d] = "waiting"
    BY <1>0, <1>3 DEF TypeOK, Handle, Respond, Close,
             Abandon, MakeSingleResponseFails, Drop, Destroyed, Tick, Ends
  <2>4. QED BY <2>2, <2>3, QuietQueues DEF Shape, Clocked
<1>4. ASSUME OutBound \/ Expiry, UNCHANGED ticketCap PROVE Shape'
  <2>1. CASE OutBound
    <3>1. Head(container) \in Calls /\ Tail(container) \in Seq(Calls)
      BY <1>0, <2>1, HeadTailProperties DEF TypeOK, OutBound, OutBoundSend, OutBoundFails
    <3>2. TypeOK' /\ pushWait' = pushWait /\ clock' = clock /\ pc' = pc
      BY <1>0, <1>4, <2>1, <3>1 DEF OutBound, OutBoundSend, OutBoundFails, TypeOK
    <3>3. QED BY <3>2, QuietQueues DEF Shape, Clocked
  <2>2. CASE ExpiryAsk
    <3>1. /\ \A c \in Calls : clock[c] = "out" => clock'[c] = "out"
          /\ clock' \in [Calls -> ClockStates]
          /\ expiry' \in [at: {"ask", "wait", "steal", "update"}, for: SUBSET Calls]
      <4>1. CASE Expired(clock) = {}
        BY <1>0, <2>2, <4>1 DEF TypeOK, ExpiryAsk, ClockStates
      <4>2. CASE Expired(clock) # {}
        <5>1. PICK T \in SUBSET Expired(clock) :
                /\ expiry' = [at |-> "steal", for |-> T]
                /\ clock' = [c \in Calls |-> IF c \in T THEN "out" ELSE clock[c]]
          BY <2>2, <4>2 DEF ExpiryAsk
        <5>2. T \subseteq Calls
          BY DEF Expired
        <5>3. QED BY <1>0, <5>1, <5>2 DEF TypeOK, ClockStates
      <4>3. QED BY <4>1, <4>2
    <3>2. TypeOK' /\ pushWait' = pushWait /\ pc' = pc
      BY <1>0, <1>4, <2>2, <3>1 DEF TypeOK, ExpiryAsk, ClockStates
    <3>3. QED BY <3>1, <3>2, QuietQueues DEF Shape, Clocked
  <2>3. CASE ExpirySteal \/ ExpiryDone
    <3>1. TypeOK' /\ pushWait' = pushWait /\ pc' = pc /\ clock' = clock
      BY <1>0, <1>4, <2>3 DEF ExpirySteal, ExpiryDone, TypeOK
    <3>2. QED BY <3>1, QuietQueues DEF Shape, Clocked
  <2>4. ASSUME NEW c \in Calls, ExpiryUpdate(c) PROVE Shape'
    <3>1. Append(response[c], "timeout") \in Seq({"answer", "timeout"})
      BY <1>0, AppendProperties DEF TypeOK
    <3>2. TypeOK' /\ pushWait' = pushWait /\ pc' = pc /\ clock' = clock
      BY <1>0, <1>4, <2>4, <3>1 DEF ExpiryUpdate, update, TypeOK
    <3>3. QED BY <3>2, QuietQueues DEF Shape, Clocked
  <2>5. QED BY <1>4, <2>1, <2>2, <2>3, <2>4 DEF Expiry
<1>5. ASSUME NEW w \in InWorkers, NEW c \in Calls, UNCHANGED ticketCap,
             InBoundUpdate(w, c) \/ InBoundVoid(w, c) \/ InBoundSteal(w, c)
      PROVE  Shape'
  <2>1. CASE InBoundUpdate(w, c)
    <3>1. Append(response[c], "answer") \in Seq({"answer", "timeout"})
      BY <1>0, AppendProperties DEF TypeOK
    <3>2. TypeOK' /\ pushWait' = pushWait /\ pc' = pc /\ clock' = clock
      BY <1>0, <1>5, <2>1, <3>1 DEF InBoundUpdate, InBoundAt, update, TypeOK
    <3>3. QED BY <3>2, QuietQueues DEF Shape, Clocked
  <2>2. CASE InBoundSteal(w, c)
    <3>1. TypeOK' /\ pushWait' = pushWait /\ pc' = pc /\ clock' = clock
      BY <1>0, <1>5, <2>2 DEF InBoundSteal, InBoundAt, TypeOK
    <3>2. QED BY <3>1, QuietQueues DEF Shape, Clocked
  <2>3. CASE InBoundVoid(w, c)
    <3>1. Rearranged([clock EXCEPT ![c] = "out"])
      BY <2>3, VoidEffect
    <3>2. TypeOK'
      BY <1>0, <1>5, <2>3, <3>1 DEF Rearranged, InBoundVoid, TypeOK, Locations, ClockStates
    <3>3. QED BY <3>1, <3>2 DEF Rearranged, Shape
  <2>4. QED BY <1>5, <2>1, <2>2, <2>3
<1>6. ASSUME CronUpdate, UNCHANGED ticketCap PROVE Shape'
  <2>1. Rearranged(clock)
    BY <1>6, CronEffect
  <2>2. TypeOK'
    BY <1>0, <1>6, <2>1 DEF Rearranged, CronUpdate, TypeOK, Locations, ClockStates
  <2>3. QED BY <2>1, <2>2 DEF Rearranged, Shape
<1>7. QED BY <1>1, <1>2, <1>3, <1>4, <1>5, <1>6 DEF Next, InBound

\* The types of every reachable state, and with them the bound of the expiry
\* queue and that push_wait_bucket_vec holds blocked callers, each once.
THEOREM TypeCorrect == Safety => [](TypeOK /\ Queued /\ ClockRoom)
<1>1. Shape => TypeOK /\ Queued /\ ClockRoom
  BY DEF Shape
<1>2. QED BY <1>1, InitShape, ShapeStep, PTL DEF Safety

-----------------------------------------------------------------------------
(* Who owns a ticket.                                                      *)

\* The map is finite, because tickets are opened one at a time, and owned.
Tickets == IsFiniteSet(tickets) /\ TicketsOwned

\* No ticket is open.
LEMMA InitTickets == Init => Tickets
<1> SUFFICES ASSUME Init PROVE Tickets
  OBVIOUS
<1>1. tickets = {} /\ {c \in Calls : pc[c] \notin {"idle", "done"}} = {}
  BY DEF Init
<1>2. ticketCap \in Nat
  BY CapAssumption DEF Init
<1>3. QED BY <1>1, <1>2, FS_EmptySet DEF Tickets, TicketsOwned

\* A ticket leaves with its call.
LEMMA TicketLeaves ==
  ASSUME Shape, Tickets, UNCHANGED ticketCap, NEW c \in Calls,
         tickets' = tickets \ {c}, pc' = [pc EXCEPT ![c] = "done"]
  PROVE  Tickets'
<1>1. IsFiniteSet(tickets') /\ Cardinality(tickets') <= Cardinality(tickets)
  BY FS_Subset, tickets' \in SUBSET tickets DEF Tickets
<1>2. Cardinality(tickets') \in Nat /\ Cardinality(tickets) \in Nat /\ ticketCap \in Nat
  BY <1>1, FS_CardinalityType, CapAssumption DEF Tickets, Shape, TypeOK
<1>3. Cardinality(tickets') <= ticketCap'
  BY <1>1, <1>2 DEF Tickets, TicketsOwned
<1>4. tickets' = {d \in Calls : pc'[d] \notin {"idle", "done"}}
  BY DEF Tickets, TicketsOwned, Shape, TypeOK
<1>5. QED BY <1>1, <1>3, <1>4 DEF Tickets, TicketsOwned

\* Steps that neither begin nor end a call leave the map alone.
LEMMA TicketsKept ==
  ASSUME Tickets, UNCHANGED <<ticketCap, tickets>>,
         \A c \in Calls : pc[c] \in {"idle", "done"} <=> pc'[c] \in {"idle", "done"}
  PROVE  Tickets'
BY DEF Tickets, TicketsOwned

\* Tickets are opened by calls that have none and closed by the calls that own
\* them.
LEMMA TicketsStep == Shape /\ Tickets /\ [Next]_vars => Tickets'
<1> SUFFICES ASSUME Shape, Tickets, [Next]_vars PROVE Tickets'
  OBVIOUS
<1>0. /\ pc \in [Calls -> Locations] /\ tickets \subseteq Calls /\ ticketCap \in Nat
  BY CapAssumption DEF Shape, TypeOK, Locations
<1>1. CASE UNCHANGED vars
  BY <1>1, TicketsKept DEF vars
<1>2. ASSUME NEW c \in Calls, Request(c), UNCHANGED ticketCap PROVE Tickets'
  <2>1. CASE Open(c)
    <3>1. c \notin tickets /\ tickets' = tickets \cup {c}
          /\ Cardinality(tickets) + 1 <= ticketCap
      BY <2>1 DEF Open, Tickets, TicketsOwned
    <3>2. IsFiniteSet(tickets') /\ Cardinality(tickets') = Cardinality(tickets) + 1
      BY <3>1, FS_AddElement DEF Tickets
    <3>3. tickets' = {d \in Calls : pc'[d] \notin {"idle", "done"}}
      BY <1>0, <2>1 DEF Open, Tickets, TicketsOwned
    <3>4. QED BY <1>2, <3>1, <3>2, <3>3 DEF Tickets, TicketsOwned
  <2>2. CASE MakeResponseFails(c) \/ MakeRequestFails(c)
    BY <1>2, <2>2, TicketLeaves DEF MakeResponseFails, MakeRequestFails, Ends
  <2>3. CASE OpenExhausted(c)
    BY <1>0, <1>2, <2>3, TicketsKept DEF OpenExhausted, Ends
  <2>4. CASE \/ AssignObserver(c) \/ Push(c) \/ ClockIn(c) \/ ClockInBlocks(c)
             \/ ClockInWakes(c)
    <3>1. /\ tickets' = tickets
          /\ \A d \in Calls : pc[d] \in {"idle", "done"} <=> pc'[d] \in {"idle", "done"}
      BY <1>0, <2>4 DEF AssignObserver, Push, ClockIn, ClockInBlocks, ClockInWakes
    <3>2. QED BY <1>2, <3>1, TicketsKept
  <2>5. QED BY <1>2, <2>1, <2>2, <2>3, <2>4 DEF Request
<1>3. ASSUME NEW c \in Calls, Handle(c) \/ Abandon(c) \/ Tick(c), UNCHANGED ticketCap
      PROVE  Tickets'
  <2>1. CASE Close(c) \/ Abandon(c)
    BY <1>3, <2>1, TicketLeaves DEF Close,
             Abandon, MakeSingleResponseFails, Drop, Destroyed, Ends
  <2>2. CASE Respond(c) \/ Tick(c)
    <3>1. /\ tickets' = tickets
          /\ \A d \in Calls : pc[d] \in {"idle", "done"} <=> pc'[d] \in {"idle", "done"}
      BY <1>0, <2>2 DEF Respond, Tick
    <3>2. QED BY <1>3, <3>1, TicketsKept
  <2>3. QED BY <1>3, <2>1, <2>2 DEF Handle
<1>4. ASSUME OutBound \/ Expiry, UNCHANGED ticketCap PROVE Tickets'
  <2>1. tickets' = tickets /\ pc' = pc
    BY <1>4 DEF OutBound, OutBoundSend, OutBoundFails, Expiry, ExpiryAsk, ExpirySteal,
             ExpiryDone, ExpiryUpdate
  <2>2. QED BY <1>4, <2>1, TicketsKept
<1>5. ASSUME NEW w \in InWorkers, NEW c \in Calls, UNCHANGED ticketCap,
             InBoundUpdate(w, c) \/ InBoundSteal(w, c)
      PROVE  Tickets'
  BY <1>5, TicketsKept DEF InBoundUpdate, InBoundSteal
<1>6. ASSUME NEW w \in InWorkers, NEW c \in Calls, UNCHANGED ticketCap, InBoundVoid(w, c)
      PROVE  Tickets'
  <2>1. Rearranged([clock EXCEPT ![c] = "out"])
    BY <1>6, VoidEffect
  <2>2. tickets' = tickets
    BY <1>6 DEF InBoundVoid
  <2>3. QED BY <1>6, <2>1, <2>2, TicketsKept DEF Rearranged
<1>7. ASSUME CronUpdate, UNCHANGED ticketCap PROVE Tickets'
  <2>1. Rearranged(clock)
    BY <1>7, CronEffect
  <2>2. tickets' = tickets
    BY <1>7 DEF CronUpdate
  <2>3. QED BY <1>7, <2>1, <2>2, TicketsKept DEF Rearranged
<1>8. QED BY <1>1, <1>2, <1>3, <1>4, <1>5, <1>6, <1>7 DEF Next, InBound

\* Every path through request() and the handle closes the ticket it opened, and
\* ticket_resource_map never exceeds its capacity.
THEOREM TicketOwnership == Safety => []TicketsOwned
<1>1. Tickets => TicketsOwned
  BY DEF Tickets
<1>2. QED BY <1>1, InitShape, ShapeStep, InitTickets, TicketsStep, PTL DEF Safety

-----------------------------------------------------------------------------
(* Who holds an observer, and what has been sent.                          *)

Takes(w, c) == inbound[w] = [at |-> "update", for |-> {c}]
Times(c)    == expiry.at = "update" /\ c \in expiry.for
Taken(c)    == Times(c) \/ \E w \in InWorkers : Takes(w, c)

\* The observer of a call is bound once, and from then on in one place: the
\* ticket, the hands of one worker, or the response that was updated.
Observers == \A c \in Calls :
  /\ pc[c] \in {"idle", "opened"} => c \notin observer /\ ~Taken(c) /\ response[c] = <<>>
  /\ c \in observer => pc[c] # "done" /\ ~Taken(c) /\ response[c] = <<>>
  /\ Taken(c) => response[c] = <<>>
  /\ Len(response[c]) <= 1
  /\ \A v, w \in InWorkers : Takes(v, c) /\ Takes(w, c) => v = w
  /\ \A w \in InWorkers : ~(Takes(w, c) /\ Times(c))

\* A request is on its way only for a call that got as far as pushing it, and an
\* answer is only for a request that was sent.
Past(c) == pc[c] \notin {"idle", "opened", "bound"} /\ outcome[c] # "refused"

Requests ==
  /\ \A i \in 1 .. Len(container) : Past(container[i])
  /\ \A c \in sent : Past(c)
  /\ \A w \in InWorkers : inbound[w].for \subseteq sent
  /\ \A c \in Calls : response[c] # <<>> /\ Head(response[c]) = "answer" => c \in sent
  /\ \A c \in Calls : outcome[c] = "none" <=> pc[c] \notin {"closing", "done"}

\* Until a call ends somebody can complete its response: the observer is not
\* lost, a worker that voids a ticket has taken the observer out of it, and an
\* observer that is still in the ticket of a returned handle is timed.
Rescuers ==
  /\ \A c \in Calls : pc[c] \in {"bound", "pushed", "waiting", "woken", "handle"}
                        => c \in observer \/ Taken(c) \/ response[c] # <<>>
  /\ \A w \in InWorkers : inbound[w].for \cap observer = {}
  /\ \A c \in Calls : pc[c] = "handle" /\ c \in observer
                        => \/ clock[c] \in {"ticking", "expired"}
                           \/ expiry.at = "steal" /\ c \in expiry.for

\* Steps after which nobody holds an observer who did not hold it before.
LEMMA ObserversKept ==
  ASSUME Observers, response' = response, observer' \subseteq observer,
         \A c \in Calls : Times(c)' => Times(c),
         \A c \in Calls, w \in InWorkers : Takes(w, c)' => Takes(w, c),
         \A c \in Calls : pc'[c] \in {"idle", "opened"} => pc[c] \in {"idle", "opened"},
         \A c \in Calls : pc'[c] = "done" => pc[c] = "done" \/ c \notin observer'
  PROVE  Observers'
<1>1. \A c \in Calls : Taken(c)' => Taken(c)
  BY DEF Taken
<1>2. QED BY <1>1 DEF Observers

\* No response is expected.
LEMMA InitObservers == Init => Observers
<1> SUFFICES ASSUME Init PROVE Observers
  OBVIOUS
<1>1. \A c \in Calls : ~Taken(c) /\ ~Times(c) /\ \A w \in InWorkers : ~Takes(w, c)
  BY DEF Init, Taken, Takes, Times
<1>2. \A c \in Calls : pc[c] = "idle" /\ response[c] = <<>> /\ c \notin observer
  BY DEF Init
<1>3. QED BY <1>1, <1>2 DEF Observers

\* An observer is bound, taken and written by one party at a time.
LEMMA ObserversStep == Shape /\ Observers /\ [Next]_vars => Observers'
<1> SUFFICES ASSUME Shape, Observers, [Next]_vars PROVE Observers'
  OBVIOUS
<1>0. /\ pc \in [Calls -> Locations]
      /\ inbound \in [InWorkers -> [at: {"recv", "update", "void"}, for: SUBSET Calls]]
      /\ expiry \in [at: {"ask", "wait", "steal", "update"}, for: SUBSET Calls]
      /\ response \in [Calls -> Seq({"answer", "timeout"})]
      /\ observer \subseteq Calls
  BY DEF Shape, TypeOK, Locations
<1>1. CASE UNCHANGED vars
  BY <1>1, ObserversKept DEF vars, Takes, Times
<1>2. ASSUME NEW c \in Calls, Request(c) \/ Handle(c) \/ Abandon(c) \/ Tick(c)
      PROVE  Observers'
  <2>1. inbound' = inbound /\ expiry' = expiry /\ response' = response
    BY <1>2 DEF Request, Open, OpenExhausted, MakeResponseFails, AssignObserver,
             MakeRequestFails, Push, ClockIn, ClockInBlocks, ClockInWakes, Handle, Respond,
             Close, Abandon, MakeSingleResponseFails, Drop, Destroyed, Tick
  <2>2. \A d \in Calls : /\ Times(d)' = Times(d)
                         /\ \A w \in InWorkers : Takes(w, d)' = Takes(w, d)
                         /\ Taken(d)' = Taken(d)
    BY <2>1 DEF Times, Takes, Taken
  <2>3. CASE AssignObserver(c)
    <3>1. /\ pc[c] = "opened" /\ pc'[c] = "bound" /\ observer' = observer \cup {c}
          /\ \A d \in Calls \ {c} : pc'[d] = pc[d]
      BY <1>0, <2>3 DEF AssignObserver
    <3>2. QED BY <2>1, <2>2, <3>1 DEF Observers
  <2>4. CASE Open(c) \/ OpenExhausted(c) \/ MakeResponseFails(c)
    <3>1. /\ observer' = observer /\ pc[c] \in {"idle", "opened"}
          /\ \A d \in Calls \ {c} : pc'[d] = pc[d]
      BY <1>0, <2>4 DEF Open, OpenExhausted, MakeResponseFails, Ends
    <3>2. c \notin observer
      BY <3>1 DEF Observers
    <3>3. QED BY <2>1, <2>2, <3>1, <3>2, ObserversKept
  <2>5. CASE MakeRequestFails(c) \/ Abandon(c) \/ Close(c)
    <3>1. /\ observer' = observer \ {c} /\ pc'[c] = "done"
          /\ \A d \in Calls \ {c} : pc'[d] = pc[d]
      BY <1>0, <2>5 DEF MakeRequestFails,
               Abandon, MakeSingleResponseFails, Drop, Destroyed, Close, Ends
    <3>2. QED BY <2>1, <2>2, <3>1, ObserversKept
  <2>6. CASE Push(c) \/ ClockIn(c) \/ ClockInBlocks(c) \/ ClockInWakes(c)
             \/ Respond(c) \/ Tick(c)
    <3>1. /\ observer' = observer
          /\ pc'[c] = pc[c] \/ pc'[c] \notin {"idle", "opened", "done"}
          /\ \A d \in Calls \ {c} : pc'[d] = pc[d]
      BY <1>0, <2>6 DEF Push, ClockIn, ClockInBlocks, ClockInWakes, Respond, Tick
    <3>2. QED BY <2>1, <2>2, <3>1, ObserversKept
  <2>7. QED BY <1>2, <2>3, <2>4, <2>5, <2>6 DEF Request, Handle
<1>3. ASSUME OutBound \/ ExpiryAsk \/ ExpiryDone PROVE Observers'
  <2>1. /\ pc' = pc /\ observer' = observer /\ response' = response /\ inbound' = inbound
        /\ expiry' = expiry \/ expiry'.at # "update"
    BY <1>3 DEF OutBound, OutBoundSend, OutBoundFails, ExpiryAsk, ExpiryDone
  <2>2. QED BY <2>1, ObserversKept DEF Times, Takes
<1>4. CASE ExpirySteal
  <2>1. /\ pc' = pc /\ observer' = observer \ expiry.for /\ response' = response
        /\ inbound' = inbound /\ expiry.at = "steal"
        /\ expiry' = [at |-> "update", for |-> expiry.for \cap observer]
    BY <1>4 DEF ExpirySteal
  <2>2. \A d \in Calls : /\ Times(d)' <=> d \in expiry.for /\ d \in observer
                         /\ \A w \in InWorkers : Takes(w, d)' = Takes(w, d)
                         /\ Taken(d)' <=> Taken(d) \/ (d \in expiry.for /\ d \in observer)
    BY <2>1 DEF Times, Takes, Taken
  <2>3. QED BY <2>1, <2>2 DEF Observers, Taken
<1>5. ASSUME NEW c \in Calls, ExpiryUpdate(c) PROVE Observers'
  <2>1. /\ pc' = pc /\ observer' = observer /\ inbound' = inbound /\ Times(c)
        /\ response' = [response EXCEPT ![c] = Append(@, "timeout")]
        /\ expiry' = [expiry EXCEPT !.for = @ \ {c}]
    BY <1>5 DEF ExpiryUpdate, update, Times
  <2>2. \A d \in Calls : /\ Times(d)' <=> Times(d) /\ d # c
                         /\ \A w \in InWorkers : Takes(w, d)' = Takes(w, d)
    BY <1>0, <2>1 DEF Times, Takes
  <2>3. Taken(c) /\ response[c] = <<>> /\ \A w \in InWorkers : ~Takes(w, c)
    BY <2>1 DEF Observers, Taken
  <2>4. Len(response'[c]) = 1 /\ \A d \in Calls \ {c} : response'[d] = response[d]
    BY <1>0, <2>1, <2>3, AppendProperties
  <2>5. ~Taken(c)' /\ \A d \in Calls \ {c} : Taken(d)' <=> Taken(d)
    BY <2>2, <2>3 DEF Taken
  <2>6. QED BY <2>1, <2>2, <2>3, <2>4, <2>5 DEF Observers
<1>6. ASSUME NEW w \in InWorkers, NEW c \in Calls, InBoundSteal(w, c) PROVE Observers'
  <2>1. /\ pc' = pc /\ observer' = observer \ {c} /\ response' = response /\ expiry' = expiry
        /\ inbound[w].at = "recv"
        /\ inbound' = [inbound EXCEPT ![w] =
                         [at |-> IF c \in observer THEN "update" ELSE "void", for |-> {c}]]
    BY <1>6 DEF InBoundSteal, InBoundAt
  <2>2. \A d \in Calls : Times(d)' = Times(d)
    BY <2>1 DEF Times
  <2>3. \A d \in Calls, v \in InWorkers \ {w} : Takes(v, d)' = Takes(v, d)
    BY <1>0, <2>1 DEF Takes
  <2>4. \A d \in Calls : ~Takes(w, d) /\ (Takes(w, d)' <=> d = c /\ c \in observer)
    <3> TAKE d \in Calls
    <3>1. ~Takes(w, d)
      BY <2>1 DEF Takes
    <3>2. inbound'[w] = [at |-> IF c \in observer THEN "update" ELSE "void", for |-> {c}]
      BY <1>0, <2>1
    <3>3. c \notin observer => ~Takes(w, d)'
      BY <3>2 DEF Takes
    <3>4. Takes(w, d)' => inbound'[w].for = {d}
      BY DEF Takes
    <3>5. Takes(w, d)' => d = c
      BY <3>2, <3>4
    <3>6. d = c /\ c \in observer => Takes(w, d)'
      BY <3>2 DEF Takes
    <3>7. QED BY <3>1, <3>3, <3>5, <3>6
  <2>5. \A d \in Calls : Taken(d)' <=> Taken(d) \/ (d = c /\ c \in observer)
    BY <2>2, <2>3, <2>4 DEF Taken
  <2>6. QED BY <2>1, <2>2, <2>3, <2>4, <2>5 DEF Observers, Taken
<1>7. ASSUME NEW w \in InWorkers, NEW c \in Calls, InBoundUpdate(w, c) PROVE Observers'
  <2>1. /\ pc' = pc /\ observer' = observer /\ expiry' = expiry /\ Takes(w, c)
        /\ response' = [response EXCEPT ![c] = Append(@, "answer")]
        /\ inbound' = [inbound EXCEPT ![w] = [at |-> "void", for |-> {c}]]
    BY <1>7 DEF InBoundUpdate, InBoundAt, update, Takes
  <2>2. \A d \in Calls : Times(d)' = Times(d)
    BY <2>1 DEF Times
  <2>3. \A d \in Calls, v \in InWorkers \ {w} : Takes(v, d)' = Takes(v, d)
    BY <1>0, <2>1 DEF Takes
  <2>4. \A d \in Calls : ~Takes(w, d)' /\ (Takes(w, d) => d = c)
    <3> TAKE d \in Calls
    <3>1. inbound'[w].at = "void"
      BY <1>0, <2>1
    <3>2. inbound[w].for = {c} /\ (Takes(w, d) => inbound[w].for = {d})
      BY <2>1 DEF Takes
    <3>3. QED BY <3>1, <3>2 DEF Takes
  <2>5. Taken(c) /\ response[c] = <<>> /\ ~Times(c)
    BY <2>1 DEF Observers, Taken
  <2>6. Len(response'[c]) = 1 /\ \A d \in Calls \ {c} : response'[d] = response[d]
    BY <1>0, <2>1, <2>5, AppendProperties
  <2>7. ~Taken(c)' /\ \A d \in Calls \ {c} : Taken(d)' <=> Taken(d)
    BY <2>1, <2>2, <2>3, <2>4, <2>5 DEF Observers, Taken
  <2>8. QED BY <2>1, <2>2, <2>3, <2>4, <2>5, <2>6, <2>7 DEF Observers
<1>8. ASSUME NEW w \in InWorkers, NEW c \in Calls, InBoundVoid(w, c) PROVE Observers'
  <2>1. Rearranged([clock EXCEPT ![c] = "out"])
    BY <1>8, VoidEffect
  <2>2. /\ observer' = observer /\ response' = response
        /\ inbound' = [inbound EXCEPT ![w] = [at |-> "recv", for |-> {}]]
    BY <1>8 DEF InBoundVoid
  <2>3. \A d \in Calls, v \in InWorkers : Takes(v, d)' => Takes(v, d)
    BY <1>0, <2>2 DEF Takes
  <2>4. QED BY <2>1, <2>2, <2>3, ObserversKept DEF Rearranged, Times
<1>9. CASE CronUpdate
  <2>1. Rearranged(clock)
    BY <1>9, CronEffect
  <2>2. observer' = observer /\ response' = response /\ inbound' = inbound
    BY <1>9 DEF CronUpdate
  <2>3. QED BY <2>1, <2>2, ObserversKept DEF Rearranged, Times, Takes
<1>10. QED BY <1>1, <1>2, <1>3, <1>4, <1>5, <1>6, <1>7, <1>8, <1>9
           DEF Next, InBound, Expiry

\* What ObserverOnce counts.
LEMMA HoldersCount ==
  ASSUME Observers, NEW c \in Calls
  PROVE  /\ ~Taken(c) => Holders(c) = {} /\ Cardinality(Holders(c)) = 0
         /\ Taken(c) => Holders(c) # {} /\ Cardinality(Holders(c)) = 1
<1>1. Holders(c) = {w \in InWorkers : Takes(w, c)} \cup (IF Times(c) THEN {"expiry"} ELSE {})
  BY DEF Holders, Takes, Times
<1>2. CASE ~Taken(c)
  <2>1. Holders(c) = {}
    BY <1>1, <1>2 DEF Taken
  <2>2. QED BY <1>2, <2>1, FS_EmptySet
<1>3. CASE Times(c)
  <2>1. \A w \in InWorkers : ~Takes(w, c)
    BY <1>3 DEF Observers
  <2>2. Holders(c) = {"expiry"}
    BY <1>1, <1>3, <2>1
  <2>3. QED BY <1>3, <2>2, FS_Singleton DEF Taken
<1>4. CASE Taken(c) /\ ~Times(c)
  <2>1. PICK w \in InWorkers : Takes(w, c)
    BY <1>4 DEF Taken
  <2>2. \A v \in InWorkers : Takes(v, c) => v = w
    BY <2>1 DEF Observers
  <2>3. Holders(c) = {w}
    BY <1>1, <1>4, <2>1, <2>2
  <2>4. QED BY <1>4, <2>3, FS_Singleton
<1>5. QED BY <1>2, <1>3, <1>4 DEF Taken

\* An answer, its duplicates and the timeout race for the observer, and one of
\* them gets it: no response is updated twice, and no observer outlives its
\* ticket.
THEOREM ObserverOwnership == Safety => []ObserverOnce
<1>1. Shape /\ Tickets /\ Observers => ObserverOnce
  <2> SUFFICES ASSUME Shape, Tickets, Observers, NEW c \in Calls
               PROVE  /\ Cardinality(Holders(c)) + Len(response[c])
                           + (IF c \in observer THEN 1 ELSE 0) <= 1
                      /\ c \in observer => c \in tickets
    BY DEF ObserverOnce
  <2>1. c \in observer => c \in tickets
    BY DEF Observers, Tickets, TicketsOwned
  <2>2. Len(response[c]) \in Nat
    BY LenProperties DEF Shape, TypeOK
  <2>3. response[c] = <<>> => Len(response[c]) = 0
    OBVIOUS
  <2>4. CASE Taken(c)
    BY <2>1, <2>3, <2>4, HoldersCount DEF Observers
  <2>5. CASE ~Taken(c)
    BY <2>1, <2>2, <2>3, <2>5, HoldersCount DEF Observers
  <2>6. QED BY <2>4, <2>5
<1>2. QED BY <1>1, InitShape, ShapeStep, InitTickets, TicketsStep, InitObservers,
             ObserversStep, PTL DEF Safety

-----------------------------------------------------------------------------
(* What was sent, and how a call ends.                                     *)

\* No request is on its way.
LEMMA InitRequests == Init => Requests
<1> SUFFICES ASSUME Init PROVE Requests
  OBVIOUS
<1>1. container = <<>> /\ sent = {} /\ (\A w \in InWorkers : inbound[w].for = {})
  BY DEF Init
<1>2. \A c \in Calls : pc[c] = "idle" /\ response[c] = <<>> /\ outcome[c] = "none"
  BY DEF Init
<1>3. QED BY <1>1, <1>2 DEF Requests

\* Steps of everybody but the workers: the request stays where it is.
LEMMA RequestsKept ==
  ASSUME Shape, Requests, sent' = sent, response' = response,
         \A w \in InWorkers : inbound'[w].for \subseteq inbound[w].for,
         \A c \in Calls : Past(c) => Past(c)',
         \A c \in Calls : outcome'[c] = "none" <=> pc'[c] \notin {"closing", "done"},
         container' = container
  PROVE  Requests'
<1>1. \A i \in 1 .. Len(container) : container[i] \in Calls
  BY ElementOfSeq DEF Shape, TypeOK
<1>2. sent \subseteq Calls
  BY DEF Shape, TypeOK
<1>3. QED BY <1>1, <1>2 DEF Requests

\* A request is known to the outbound side only after its call has pushed it.
LEMMA RequestsStep == Shape /\ Requests /\ [Next]_vars => Requests'
<1> SUFFICES ASSUME Shape, Requests, [Next]_vars PROVE Requests'
  OBVIOUS
<1>0. /\ pc \in [Calls -> Locations]
      /\ outcome \in [Calls -> {"none", "answer", "timeout", "refused", "failed", "dropped"}]
      /\ inbound \in [InWorkers -> [at: {"recv", "update", "void"}, for: SUBSET Calls]]
      /\ response \in [Calls -> Seq({"answer", "timeout"})]
      /\ container \in Seq(Calls) /\ sent \subseteq Calls
  BY DEF Shape, TypeOK, Locations
<1>e. \A c \in Calls : outcome[c] = "none" <=> pc[c] \notin {"closing", "done"}
  BY DEF Requests
<1>1. CASE UNCHANGED vars
  BY <1>1, RequestsKept, <1>e DEF vars, Past
<1>2. ASSUME NEW c \in Calls, Request(c) \/ Handle(c) \/ Abandon(c) \/ Tick(c)
      PROVE  Requests'
  <2>1. inbound' = inbound /\ response' = response /\ sent' = sent
    BY <1>2 DEF Request, Open, OpenExhausted, MakeResponseFails, AssignObserver,
             MakeRequestFails, Push, ClockIn, ClockInBlocks, ClockInWakes, Handle, Respond,
             Close, Abandon, MakeSingleResponseFails, Drop, Destroyed, Tick
  <2>2. CASE Push(c)
    <3>1. /\ container' = Append(container, c) /\ pc[c] = "bound" /\ outcome' = outcome
          /\ pc'[c] = "pushed" /\ \A d \in Calls \ {c} : pc'[d] = pc[d]
      BY <1>0, <2>2 DEF Push
    <3>2. /\ Len(container') = Len(container) + 1 /\ Len(container) \in Nat
          /\ \A i \in 1 .. Len(container) : container'[i] = container[i]
                                            /\ container[i] \in Calls
          /\ container'[Len(container) + 1] = c
      BY <1>0, <3>1, AppendProperties, LenProperties, ElementOfSeq
    <3>3. Past(c)' /\ \A d \in Calls : Past(d) => Past(d)'
      BY <1>e, <3>1 DEF Past
    <3>4. \A i \in 1 .. Len(container') : i \in 1 .. Len(container) \/ i = Len(container) + 1
      BY <3>2
    <3>5. (\A i \in 1 .. Len(container) : Past(container[i]))'
      BY <3>2, <3>3, <3>4 DEF Requests
    <3>6. \A d \in Calls : outcome'[d] = "none" <=> pc'[d] \notin {"closing", "done"}
      BY <1>e, <3>1
    <3>7. (\A d \in sent : Past(d))' /\ (\A w \in InWorkers : inbound[w].for \subseteq sent)'
      BY <1>0, <2>1, <3>3 DEF Requests
    <3>8. QED BY <2>1, <3>5, <3>6, <3>7 DEF Requests
  <2>3. CASE \/ Open(c) \/ AssignObserver(c) \/ ClockIn(c) \/ ClockInBlocks(c)
             \/ ClockInWakes(c) \/ Close(c) \/ Tick(c)
    <3>1. /\ container' = container /\ outcome' = outcome
          /\ \A d \in Calls \ {c} : pc'[d] = pc[d]
          /\ \/ pc'[c] = pc[c]
             \/ pc[c] = "closing" /\ pc'[c] = "done"
             \/ pc[c] = "idle" /\ pc'[c] = "opened"
             \/ pc[c] = "opened" /\ pc'[c] = "bound"
             \/ /\ pc[c] \in {"pushed", "waiting", "woken"}
                /\ pc'[c] \in {"waiting", "woken", "handle"}
      BY <1>0, <2>3 DEF Open, AssignObserver, ClockIn, ClockInBlocks, ClockInWakes, Close, Tick
    <3>2. \A d \in Calls : Past(d) => Past(d)'
      BY <3>1 DEF Past
    <3>3. QED BY <1>e, <2>1, <3>1, <3>2, RequestsKept
  <2>4. CASE OpenExhausted(c) \/ MakeResponseFails(c) \/ MakeRequestFails(c) \/ Abandon(c)
    <3>1. /\ container' = container /\ pc'[c] = "done"
          /\ \A d \in Calls \ {c} : pc'[d] = pc[d] /\ outcome'[d] = outcome[d]
          /\ \/ pc[c] \in {"idle", "opened", "bound"} /\ outcome'[c] = "refused"
             \/ outcome'[c] \in {"failed", "dropped"}
      BY <1>0, <2>4 DEF OpenExhausted, MakeResponseFails, MakeRequestFails,
               Abandon, MakeSingleResponseFails, Drop, Destroyed, Ends
    <3>2. \A d \in Calls : Past(d) => Past(d)'
      BY <3>1 DEF Past
    <3>3. QED BY <1>e, <2>1, <3>1, <3>2, RequestsKept
  <2>5. CASE Respond(c)
    <3>1. Head(response[c]) \in {"answer", "timeout"}
      BY <1>0, <2>5, HeadTailProperties DEF Respond
    <3>2. /\ container' = container /\ pc'[c] = "closing"
          /\ outcome'[c] \in {"answer", "timeout"}
          /\ \A d \in Calls \ {c} : pc'[d] = pc[d] /\ outcome'[d] = outcome[d]
      BY <1>0, <2>5, <3>1 DEF Respond
    <3>3. \A d \in Calls : Past(d) => Past(d)'
      BY <3>2 DEF Past
    <3>4. QED BY <1>e, <2>1, <3>2, <3>3, RequestsKept
  <2>6. QED BY <1>2, <2>2, <2>3, <2>4, <2>5 DEF Request, Handle
<1>3. CASE OutBound
  <2>1. /\ pc' = pc /\ outcome' = outcome /\ response' = response /\ inbound' = inbound
        /\ container # <<>> /\ container' = Tail(container)
        /\ sent' = sent \/ sent' = sent \cup {Head(container)}
    BY <1>3 DEF OutBound, OutBoundSend, OutBoundFails
  <2>2. /\ Len(container') = Len(container) - 1 /\ Len(container) \in Nat \ {0}
        /\ \A i \in 1 .. Len(container') : container'[i] = container[i + 1]
        /\ Head(container) = container[1]
    BY <1>0, <2>1, HeadTailProperties, LenProperties, EmptySeq
  <2>3. \A i \in 1 .. Len(container') : i + 1 \in 1 .. Len(container)
    BY <2>2
  <2>4. \A i \in 1 .. Len(container') : Past(container'[i])
    BY <2>2, <2>3 DEF Requests
  <2>5. 1 \in 1 .. Len(container) /\ Past(Head(container))
    BY <2>2 DEF Requests
  <2>6. \A c : Past(c)' <=> Past(c)
    BY <2>1 DEF Past
  <2>7. (\A i \in 1 .. Len(container) : Past(container[i]))' /\ (\A c \in sent : Past(c))'
    BY <2>1, <2>4, <2>5, <2>6 DEF Requests
  <2>8. QED BY <2>1, <2>7 DEF Requests
<1>4. ASSUME ExpiryAsk \/ ExpiryDone \/ ExpirySteal PROVE Requests'
  BY <1>4, <1>e, RequestsKept DEF ExpiryAsk, ExpiryDone, ExpirySteal, Past
<1>5. ASSUME NEW c \in Calls, NEW v \in {"answer", "timeout"},
             response' = [response EXCEPT ![c] = Append(@, v)],
             v = "answer" => c \in sent,
             \A w \in InWorkers : inbound'[w].for \subseteq inbound[w].for,
             UNCHANGED <<pc, outcome, sent, container>>
      PROVE  Requests'
  <2>1. response'[c] # <<>>
        /\ Head(response'[c]) = IF response[c] = <<>> THEN v ELSE Head(response[c])
    BY <1>0, <1>5, HeadTailAppend, AppendProperties
  <2>2. \A d \in Calls \ {c} : response'[d] = response[d]
    BY <1>0, <1>5
  <2>3. \A d \in Calls : response'[d] # <<>> /\ Head(response'[d]) = "answer" => d \in sent
    BY <1>5, <2>1, <2>2 DEF Requests
  <2>4. QED BY <1>5, <2>3 DEF Requests, Past
<1>6. ASSUME NEW c \in Calls, ExpiryUpdate(c) PROVE Requests'
  BY <1>6, <1>5 DEF ExpiryUpdate, update
<1>7. ASSUME NEW w \in InWorkers, NEW c \in Calls, InBoundUpdate(w, c) PROVE Requests'
  <2>1. /\ response' = [response EXCEPT ![c] = Append(@, "answer")]
        /\ UNCHANGED <<pc, outcome, sent, container>>
        /\ inbound[w] = [at |-> "update", for |-> {c}]
        /\ inbound' = [inbound EXCEPT ![w] = [at |-> "void", for |-> {c}]]
    BY <1>7 DEF InBoundUpdate, update, InBoundAt
  <2>2. inbound[w].for = {c} /\ \A v \in InWorkers : inbound'[v].for \subseteq inbound[v].for
    BY <1>0, <2>1
  <2>3. c \in sent
    BY <2>2 DEF Requests
  <2>4. QED BY <2>1, <2>2, <2>3, <1>5
<1>8. ASSUME NEW w \in InWorkers, NEW c \in Calls, InBoundSteal(w, c) PROVE Requests'
  <2>1. /\ UNCHANGED <<pc, outcome, sent, container, response>> /\ c \in sent
        /\ \A v \in InWorkers : inbound'[v].for = inbound[v].for \/ inbound'[v].for = {c}
    BY <1>0, <1>8 DEF InBoundSteal, InBoundAt
  <2>2. QED BY <2>1 DEF Requests, Past
<1>9. ASSUME NEW w \in InWorkers, NEW c \in Calls, InBoundVoid(w, c) PROVE Requests'
  <2>1. Rearranged([clock EXCEPT ![c] = "out"])
    BY <1>9, VoidEffect
  <2>2. /\ UNCHANGED <<outcome, sent, container, response>>
        /\ \A v \in InWorkers : inbound'[v].for \subseteq inbound[v].for
    BY <1>0, <1>9 DEF InBoundVoid
  <2>3. \A d \in Calls : pc'[d] = pc[d] \/ (pc[d] = "waiting" /\ pc'[d] = "woken")
    BY <2>1 DEF Rearranged
  <2>4. \A d \in Calls : Past(d) => Past(d)'
    BY <2>2, <2>3 DEF Past
  <2>5. QED BY <1>e, <2>2, <2>3, <2>4, RequestsKept
<1>10. CASE CronUpdate
  <2>1. Rearranged(clock)
    BY <1>10, CronEffect
  <2>2. UNCHANGED <<outcome, sent, container, response, inbound>>
    BY <1>10 DEF CronUpdate
  <2>3. \A d \in Calls : pc'[d] = pc[d] \/ (pc[d] = "waiting" /\ pc'[d] = "woken")
    BY <2>1 DEF Rearranged
  <2>4. \A d \in Calls : Past(d) => Past(d)'
    BY <2>2, <2>3 DEF Past
  <2>5. QED BY <1>e, <2>2, <2>3, <2>4, RequestsKept
<1>11. QED BY <1>1, <1>2, <1>3, <1>4, <1>6, <1>7, <1>8, <1>9, <1>10
           DEF Next, InBound, Expiry

\* The stage of a call, as RestCall sees it.
Stage == [c \in Calls |-> IF outcome[c] # "none" THEN "done"
                          ELSE IF pc[c] = "idle" THEN "idle" ELSE "pending"]

\* The steps of RestCall, over the mapped state.
LEMMA CallSteps ==
  ASSUME NEW c \in Calls
  PROVE  /\ (/\ Stage[c] = "idle" /\ Stage' = [Stage EXCEPT ![c] = "pending"]
             /\ UNCHANGED <<outcome, sent>>) => Call!Next
         /\ (/\ Stage[c] # "idle" /\ outcome[c] # "refused" /\ c \notin sent
             /\ sent' = sent \cup {c} /\ UNCHANGED <<Stage, outcome>>) => Call!Next
         /\ \A v \in {"answer", "timeout", "refused", "failed", "dropped"} :
              (/\ Stage[c] # "done"
               /\ v = "answer" => c \in sent
               /\ v = "refused" => c \notin sent
               /\ Stage' = [Stage EXCEPT ![c] = "done"]
               /\ outcome' = [outcome EXCEPT ![c] = v]
               /\ UNCHANGED sent) => Call!Next
<1>1. (/\ Stage[c] = "idle" /\ Stage' = [Stage EXCEPT ![c] = "pending"]
       /\ UNCHANGED <<outcome, sent>>) => Call!Begin(c)
  BY DEF Call!Begin, Stage
<1>2. (/\ Stage[c] # "idle" /\ outcome[c] # "refused" /\ c \notin sent
       /\ sent' = sent \cup {c} /\ UNCHANGED <<Stage, outcome>>) => Call!Send(c)
  BY DEF Call!Send, Stage
<1>3. ASSUME NEW v \in {"answer", "timeout", "refused", "failed", "dropped"},
             Stage[c] # "done", v = "answer" => c \in sent, v = "refused" => c \notin sent,
             Stage' = [Stage EXCEPT ![c] = "done"],
             outcome' = [outcome EXCEPT ![c] = v], UNCHANGED sent
      PROVE  v \in Call!Outcomes \ {"none"} /\ Call!Finish(c, v)
  BY <1>3 DEF Call!Finish, Call!Outcomes, Stage
<1>4. QED BY <1>1, <1>2, <1>3 DEF Call!Next

\* Steps that begin and end no call and send nothing.
LEMMA CallStutters ==
  ASSUME UNCHANGED <<outcome, sent>>,
         \A c \in Calls : pc[c] = "idle" <=> pc'[c] = "idle"
  PROVE  UNCHANGED Call!callVars
BY DEF Call!callVars

\* Every step of the client is a step of RestCall, or none.
LEMMA CallStep == Shape /\ Requests /\ [Next]_vars => [Call!Next]_(Call!callVars)
<1> SUFFICES ASSUME Shape, Requests, [Next]_vars PROVE Call!Next \/ UNCHANGED Call!callVars
  OBVIOUS
<1>0. /\ pc \in [Calls -> Locations]
      /\ outcome \in [Calls -> {"none", "answer", "timeout", "refused", "failed", "dropped"}]
      /\ response \in [Calls -> Seq({"answer", "timeout"})]
      /\ container \in Seq(Calls)
  BY DEF Shape, TypeOK, Locations
<1>e. \A c \in Calls : /\ outcome[c] = "none" <=> pc[c] \notin {"closing", "done"}
                       /\ pc[c] \in {"idle", "opened", "bound"} => c \notin sent
                       /\ response[c] # <<>> /\ Head(response[c]) = "answer" => c \in sent
  BY DEF Requests, Past
<1>1. CASE UNCHANGED vars
  BY <1>1, CallStutters DEF vars
<1>2. ASSUME NEW c \in Calls, Open(c) PROVE Call!Next
  <2>1. Stage[c] = "idle" /\ Stage' = [Stage EXCEPT ![c] = "pending"]
        /\ UNCHANGED <<outcome, sent>>
    BY <1>0, <1>2, <1>e DEF Open, Stage
  <2>2. QED BY <2>1, CallSteps
<1>3. ASSUME NEW c \in Calls, NEW v \in {"answer", "timeout", "refused", "failed", "dropped"},
             pc[c] \notin {"closing", "done"}, UNCHANGED sent,
             v = "answer" => c \in sent, v = "refused" => c \notin sent,
             outcome' = [outcome EXCEPT ![c] = v],
             \A d \in Calls \ {c} : pc'[d] = pc[d]
      PROVE  Call!Next
  <2>1. Stage[c] # "done" /\ Stage' = [Stage EXCEPT ![c] = "done"]
    BY <1>0, <1>3, <1>e DEF Stage
  <2>2. QED BY <1>3, <2>1, CallSteps
<1>4. ASSUME NEW c \in Calls,
             OpenExhausted(c) \/ MakeResponseFails(c) \/ MakeRequestFails(c)
      PROVE  Call!Next
  <2>1. /\ pc[c] \in {"idle", "opened", "bound"} /\ UNCHANGED sent
        /\ outcome' = [outcome EXCEPT ![c] = "refused"]
        /\ \A d \in Calls \ {c} : pc'[d] = pc[d]
    BY <1>0, <1>4 DEF OpenExhausted, MakeResponseFails, MakeRequestFails, Ends
  <2>2. c \notin sent
    BY <2>1, <1>e
  <2>3. QED BY <2>1, <2>2, <1>3
<1>5. ASSUME NEW c \in Calls, Abandon(c) PROVE Call!Next
  <2>1. PICK v \in {"failed", "dropped"} : Destroyed(c, v)
    BY <1>5 DEF Abandon, MakeSingleResponseFails, Drop
  <2>2. /\ pc[c] = "handle" /\ UNCHANGED sent
        /\ outcome' = [outcome EXCEPT ![c] = v]
        /\ \A d \in Calls \ {c} : pc'[d] = pc[d]
    BY <1>0, <2>1 DEF Destroyed, Ends
  <2>3. QED BY <2>2, <1>3
<1>6. ASSUME NEW c \in Calls, Respond(c) PROVE Call!Next
  <2>1. /\ pc[c] = "handle" /\ UNCHANGED sent /\ response[c] # <<>>
        /\ outcome' = [outcome EXCEPT ![c] = Head(response[c])]
        /\ \A d \in Calls \ {c} : pc'[d] = pc[d]
    BY <1>0, <1>6 DEF Respond
  <2>2. Head(response[c]) \in {"answer", "timeout"}
    BY <1>0, <2>1, HeadTailProperties
  <2>3. QED BY <2>1, <2>2, <1>e, <1>3
<1>7. ASSUME NEW c \in Calls, Request(c) \/ Handle(c) \/ Tick(c)
      PROVE  Call!Next \/ UNCHANGED Call!callVars
  <2>1. CASE \/ AssignObserver(c) \/ Push(c) \/ ClockIn(c) \/ ClockInBlocks(c)
             \/ ClockInWakes(c) \/ Close(c) \/ Tick(c)
    <3>1. UNCHANGED <<outcome, sent>> /\ \A d \in Calls : pc[d] = "idle" <=> pc'[d] = "idle"
      BY <1>0, <2>1 DEF AssignObserver, Push, ClockIn, ClockInBlocks, ClockInWakes, Close, Tick
    <3>2. QED BY <3>1, CallStutters
  <2>2. QED BY <1>2, <1>4, <1>6, <1>7, <2>1 DEF Request, Handle
<1>8. CASE OutBound
  <2>1. pc' = pc /\ outcome' = outcome
    BY <1>8 DEF OutBound, OutBoundSend, OutBoundFails
  <2>2. CASE sent' = sent
    BY <2>1, <2>2, CallStutters
  <2>3. CASE sent' # sent
    <3> DEFINE c == Head(container)
    <3>1. container # <<>> /\ sent' = sent \cup {c}
      BY <1>8, <2>3 DEF OutBound, OutBoundSend, OutBoundFails
    <3>2. c \notin sent /\ c \in Calls /\ c = container[1] /\ 1 \in 1 .. Len(container)
      BY <1>0, <2>3, <3>1, HeadTailProperties, EmptySeq
    <3>3. Past(c)
      BY <3>2 DEF Requests
    <3> HIDE DEF c
    <3>4. Stage[c] # "idle" /\ outcome[c] # "refused" /\ UNCHANGED <<Stage, outcome>>
      BY <2>1, <3>2, <3>3 DEF Stage, Past
    <3>5. QED BY <3>1, <3>2, <3>4, CallSteps
  <2>4. QED BY <2>2, <2>3
<1>9. ASSUME Expiry PROVE UNCHANGED Call!callVars
  BY <1>9, CallStutters DEF Expiry, ExpiryAsk, ExpirySteal, ExpiryDone, ExpiryUpdate
<1>10. ASSUME NEW w \in InWorkers, NEW c \in Calls, InBoundUpdate(w, c) \/ InBoundSteal(w, c)
       PROVE  UNCHANGED Call!callVars
  BY <1>10, CallStutters DEF InBoundUpdate, InBoundSteal
<1>11. ASSUME NEW w \in InWorkers, NEW c \in Calls, InBoundVoid(w, c)
       PROVE  UNCHANGED Call!callVars
  <2>1. Rearranged([clock EXCEPT ![c] = "out"]) /\ UNCHANGED <<outcome, sent>>
    BY <1>11, VoidEffect DEF InBoundVoid
  <2>2. QED BY <2>1, CallStutters DEF Rearranged
<1>12. ASSUME CronUpdate PROVE UNCHANGED Call!callVars
  <2>1. Rearranged(clock) /\ UNCHANGED <<outcome, sent>>
    BY <1>12, CronEffect DEF CronUpdate
  <2>2. QED BY <2>1, CallStutters DEF Rearranged
<1>13. QED BY <1>1, <1>5, <1>7, <1>8, <1>9, <1>10, <1>11, <1>12 DEF Next, InBound

\* The client keeps the promise of RestCall: a call ends once, with an answer
\* only to a request that was sent, with an error only when nothing was sent.
THEOREM Implementation == Safety => RefinesCall
<1>1. Init => Call!Init
  BY DEF Init, Call!Init
<1>2. QED BY <1>1, InitShape, ShapeStep, InitRequests, RequestsStep, CallStep, PTL
          DEF Safety, RefinesCall, Call!Spec

-----------------------------------------------------------------------------
(* Who wakes the caller of response().                                     *)

\* Nobody waits in response().
LEMMA InitRescuers == Init => Rescuers
BY DEF Init, Rescuers

\* Steps of the caller: the workers' hands and the responses stay as they are.
LEMMA RescuersKept ==
  ASSUME Rescuers, inbound' = inbound, expiry' = expiry, response' = response,
         NEW c \in Calls,
         \A d \in Calls \ {c} : /\ pc'[d] = pc[d] /\ clock'[d] = clock[d]
                                /\ d \in observer' <=> d \in observer,
         c \in observer' => c \in observer \/ \A w \in InWorkers : c \notin inbound[w].for,
         pc'[c] \in {"bound", "pushed", "waiting", "woken", "handle"}
           => c \in observer' \/ Taken(c) \/ response[c] # <<>>,
         pc'[c] = "handle" /\ c \in observer'
           => \/ clock'[c] \in {"ticking", "expired"}
              \/ expiry.at = "steal" /\ c \in expiry.for,
         observer' \subseteq Calls
  PROVE  Rescuers'
<1>1. \A d \in Calls : Taken(d)' <=> Taken(d)
  BY DEF Taken, Takes, Times
<1>2. \A w \in InWorkers : inbound'[w].for \cap observer' = {}
  BY DEF Rescuers
<1>3. QED BY <1>1, <1>2 DEF Rescuers

\* No step takes the last rescuer from a call that waits without writing its
\* response.
LEMMA RescuersStep ==
  Shape /\ Observers /\ Requests /\ Rescuers /\ [Next]_vars => Rescuers'
<1> SUFFICES ASSUME Shape, Observers, Requests, Rescuers, [Next]_vars PROVE Rescuers'
  OBVIOUS
<1>0. /\ pc \in [Calls -> Locations] /\ clock \in [Calls -> ClockStates]
      /\ inbound \in [InWorkers -> [at: {"recv", "update", "void"}, for: SUBSET Calls]]
      /\ expiry \in [at: {"ask", "wait", "steal", "update"}, for: SUBSET Calls]
      /\ response \in [Calls -> Seq({"answer", "timeout"})]
      /\ observer \subseteq Calls /\ sent \subseteq Calls
  BY DEF Shape, TypeOK, Locations, ClockStates
<1>1. CASE UNCHANGED vars
  BY <1>1 DEF vars, Rescuers, Taken, Takes, Times
<1>2. ASSUME NEW c \in Calls, Request(c) \/ Handle(c) \/ Abandon(c) \/ Tick(c)
      PROVE  Rescuers'
  <2>1. inbound' = inbound /\ expiry' = expiry /\ response' = response
    BY <1>2 DEF Request, Open, OpenExhausted, MakeResponseFails, AssignObserver,
             MakeRequestFails, Push, ClockIn, ClockInBlocks, ClockInWakes, Handle, Respond,
             Close, Abandon, MakeSingleResponseFails, Drop, Destroyed, Tick
  <2>2. \A d \in Calls \ {c} : /\ pc'[d] = pc[d] /\ clock'[d] = clock[d]
                               /\ d \in observer' <=> d \in observer
    <3>1. CASE Request(c)
      BY <1>0, <3>1 DEF Request, Open, OpenExhausted, MakeResponseFails, AssignObserver,
               MakeRequestFails, Push, ClockIn, ClockInBlocks, ClockInWakes, Ends
    <3>2. CASE Handle(c) \/ Abandon(c) \/ Tick(c)
      BY <1>0, <3>2 DEF Handle, Respond, Close,
               Abandon, MakeSingleResponseFails, Drop, Destroyed, Tick, Ends
    <3>3. QED BY <1>2, <3>1, <3>2
  <2>3. CASE AssignObserver(c)
    <3>1. pc[c] = "opened" /\ observer' = observer \cup {c} /\ pc'[c] = "bound"
      BY <1>0, <2>3 DEF AssignObserver
    <3>2. c \notin sent
      BY <3>1 DEF Requests, Past
    <3>3. \A w \in InWorkers : c \notin inbound[w].for
      BY <3>2 DEF Requests
    <3>4. QED BY <1>0, <2>1, <2>2, <3>1, <3>3, RescuersKept
  <2>4. CASE \/ Open(c) \/ OpenExhausted(c) \/ MakeResponseFails(c) \/ MakeRequestFails(c)
             \/ Respond(c) \/ Abandon(c) \/ Close(c)
    <3>1. observer' \subseteq observer /\ pc'[c] \in {"opened", "closing", "done"}
      BY <1>0, <2>4 DEF Open, OpenExhausted, MakeResponseFails, MakeRequestFails, Respond,
               Abandon, MakeSingleResponseFails, Drop, Destroyed, Close, Ends
    <3>2. QED BY <1>0, <2>1, <2>2, <3>1, RescuersKept
  <2>5. CASE Push(c) \/ ClockInBlocks(c)
    <3>1. observer' = observer /\ pc'[c] \in {"pushed", "waiting"}
          /\ pc[c] \in {"bound", "pushed"}
      BY <1>0, <2>5 DEF Push, ClockInBlocks
    <3>2. c \in observer' \/ Taken(c) \/ response[c] # <<>>
      BY <3>1 DEF Rescuers
    <3>3. QED BY <1>0, <2>1, <2>2, <3>1, <3>2, RescuersKept
  <2>6. CASE ClockIn(c) \/ ClockInWakes(c)
    <3>1. /\ observer' = observer /\ pc[c] \in {"pushed", "woken"}
          /\ \/ pc'[c] = "woken"
             \/ pc'[c] = "handle" /\ clock'[c] = "ticking"
      BY <1>0, <2>6 DEF ClockIn, ClockInWakes
    <3>2. c \in observer' \/ Taken(c) \/ response[c] # <<>>
      BY <3>1 DEF Rescuers
    <3>3. QED BY <1>0, <2>1, <2>2, <3>1, <3>2, RescuersKept
  <2>7. CASE Tick(c)
    <3>1. observer' = observer /\ pc' = pc /\ clock'[c] = "expired"
      BY <1>0, <2>7 DEF Tick
    <3>2. pc[c] \in {"bound", "pushed", "waiting", "woken", "handle"}
            => c \in observer' \/ Taken(c) \/ response[c] # <<>>
      BY <3>1 DEF Rescuers
    <3>3. QED BY <1>0, <2>1, <2>2, <3>1, <3>2, RescuersKept
  <2>8. QED BY <1>2, <2>3, <2>4, <2>5, <2>6, <2>7 DEF Request, Handle
<1>3. CASE OutBound
  BY <1>3 DEF OutBound, OutBoundSend, OutBoundFails, Rescuers, Taken, Takes, Times
<1>4. CASE ExpiryAsk
  <2>1. /\ UNCHANGED <<pc, observer, response, inbound>> /\ expiry.at = "ask"
        /\ expiry'.at # "update"
    BY <1>4 DEF ExpiryAsk
  <2>2. \A d \in Calls : clock[d] \in {"ticking", "expired"}
                           => \/ clock'[d] \in {"ticking", "expired"}
                              \/ expiry'.at = "steal" /\ d \in expiry'.for
    <3>1. CASE Expired(clock) = {}
      BY <1>4, <3>1 DEF ExpiryAsk
    <3>2. CASE Expired(clock) # {}
      BY <1>0, <1>4, <3>2 DEF ExpiryAsk
    <3>3. QED BY <3>1, <3>2
  <2>3. \A d \in Calls : Taken(d)' <=> Taken(d)
    BY <2>1 DEF Taken, Takes, Times
  <2>4. QED BY <2>1, <2>2, <2>3 DEF Rescuers
<1>5. CASE ExpirySteal
  <2>1. /\ UNCHANGED <<pc, response, inbound, clock>> /\ expiry.at = "steal"
        /\ observer' = observer \ expiry.for
        /\ expiry' = [at |-> "update", for |-> expiry.for \cap observer]
    BY <1>5 DEF ExpirySteal
  <2>2. \A d \in Calls : Taken(d)' <=> Taken(d) \/ (d \in expiry.for /\ d \in observer)
    BY <2>1 DEF Taken, Takes, Times
  <2>3. QED BY <2>1, <2>2 DEF Rescuers
<1>6. CASE ExpiryDone
  <2>1. /\ UNCHANGED <<pc, response, inbound, clock, observer>>
        /\ expiry = [at |-> "update", for |-> {}] /\ expiry' = [at |-> "ask", for |-> {}]
    BY <1>6 DEF ExpiryDone
  <2>2. \A d \in Calls : Taken(d)' <=> Taken(d)
    BY <2>1 DEF Taken, Takes, Times
  <2>3. QED BY <2>1, <2>2 DEF Rescuers
<1>7. ASSUME NEW c \in Calls, ExpiryUpdate(c) PROVE Rescuers'
  <2>1. /\ UNCHANGED <<pc, inbound, clock, observer>> /\ expiry.at = "update"
        /\ expiry' = [expiry EXCEPT !.for = @ \ {c}]
        /\ response' = [response EXCEPT ![c] = Append(@, "timeout")]
    BY <1>7 DEF ExpiryUpdate, update
  <2>2. response'[c] # <<>> /\ \A d \in Calls \ {c} : response'[d] = response[d]
    BY <1>0, <2>1, AppendProperties
  <2>3. \A d \in Calls \ {c} : Taken(d)' <=> Taken(d)
    BY <1>0, <2>1 DEF Taken, Takes, Times
  <2>4. expiry'.at = expiry.at
    BY <1>0, <2>1
  <2>5. QED BY <2>1, <2>2, <2>3, <2>4 DEF Rescuers
<1>8. ASSUME NEW w \in InWorkers, NEW c \in Calls, InBoundSteal(w, c) PROVE Rescuers'
  <2>1. /\ UNCHANGED <<pc, response, expiry, clock>> /\ observer' = observer \ {c}
        /\ inbound[w].at = "recv"
        /\ inbound' = [inbound EXCEPT ![w] =
                         [at |-> IF c \in observer THEN "update" ELSE "void", for |-> {c}]]
    BY <1>8 DEF InBoundSteal, InBoundAt
  <2>2. \A v \in InWorkers : inbound'[v].for = inbound[v].for \/ inbound'[v].for = {c}
    BY <1>0, <2>1
  <2>3. c \in observer => Takes(w, c)'
    BY <1>0, <2>1 DEF Takes
  <2>4. \A d \in Calls : Taken(d) => Taken(d)'
    <3>1. \A d \in Calls : ~Takes(w, d)
      BY <2>1 DEF Takes
    <3>2. \A d \in Calls, v \in InWorkers \ {w} : Takes(v, d) => Takes(v, d)'
      BY <1>0, <2>1 DEF Takes
    <3>3. QED BY <2>1, <3>1, <3>2 DEF Taken, Times
  <2>5. QED BY <2>1, <2>2, <2>3, <2>4 DEF Rescuers, Taken
<1>9. ASSUME NEW w \in InWorkers, NEW c \in Calls, InBoundUpdate(w, c) PROVE Rescuers'
  <2>1. /\ UNCHANGED <<pc, observer, expiry, clock>> /\ Takes(w, c)
        /\ response' = [response EXCEPT ![c] = Append(@, "answer")]
        /\ inbound' = [inbound EXCEPT ![w] = [at |-> "void", for |-> {c}]]
    BY <1>9 DEF InBoundUpdate, InBoundAt, update, Takes
  <2>2. response'[c] # <<>> /\ \A d \in Calls \ {c} : response'[d] = response[d]
    BY <1>0, <2>1, AppendProperties
  <2>3. inbound[w].for = {c} /\ \A v \in InWorkers : inbound'[v].for = inbound[v].for
    <3>1. inbound[w].for = {c}
      BY <2>1 DEF Takes
    <3>2. \A v \in InWorkers : IF v = w THEN inbound'[v].for = {c}
                               ELSE inbound'[v] = inbound[v]
      BY <1>0, <2>1
    <3>3. QED BY <3>1, <3>2
  <2>4. \A d \in Calls \ {c} : ~Takes(w, d)
    BY <2>3 DEF Takes
  <2>5. \A d \in Calls \ {c} : Taken(d) => Taken(d)'
    BY <1>0, <2>1, <2>4 DEF Taken, Takes, Times
  <2>6. QED BY <2>1, <2>2, <2>3, <2>5 DEF Rescuers
<1>10. ASSUME Rearranged(clock) \/ (\E c \in Calls : /\ Rearranged([clock EXCEPT ![c] = "out"])
                                                    /\ c \notin observer),
              UNCHANGED <<observer, response>>,
              \A d \in Calls, w \in InWorkers : Takes(w, d) => Takes(w, d)',
              \A w \in InWorkers : inbound'[w].for \subseteq inbound[w].for
       PROVE  Rescuers'
  <2>1. /\ \A d \in Calls : pc'[d] = pc[d] \/ (pc[d] = "waiting" /\ pc'[d] = "woken")
        /\ expiry' = expiry \/ (expiry.at = "wait" /\ expiry'.at = "steal")
        /\ \A d \in observer : \/ pc'[d] # pc[d]
                               \/ clock'[d] = clock[d]
                               \/ expiry'.at = "steal" /\ d \in expiry'.for
    BY <1>0, <1>10 DEF Rearranged
  <2>2. \A d \in Calls : Taken(d) => Taken(d)'
    BY <1>10, <2>1 DEF Taken, Times
  <2>3. QED BY <1>0, <1>10, <2>1, <2>2 DEF Rescuers
<1>11. ASSUME NEW w \in InWorkers, NEW c \in Calls, InBoundVoid(w, c) PROVE Rescuers'
  <2>1. Rearranged([clock EXCEPT ![c] = "out"])
    BY <1>11, VoidEffect
  <2>2. /\ UNCHANGED <<observer, response>> /\ inbound[w] = [at |-> "void", for |-> {c}]
        /\ inbound' = [inbound EXCEPT ![w] = [at |-> "recv", for |-> {}]]
    BY <1>11 DEF InBoundVoid
  <2>3. c \notin observer
    <3>1. inbound[w].for = {c}
      BY <2>2
    <3>2. QED BY <3>1 DEF Rescuers
  <2>4. \A d \in Calls, v \in InWorkers : Takes(v, d) => Takes(v, d)'
    <3>1. inbound[w].at = "void" /\ \A v \in InWorkers \ {w} : inbound'[v] = inbound[v]
      BY <1>0, <2>2
    <3>2. \A d \in Calls, v \in InWorkers : Takes(v, d) => inbound[v].at = "update"
      BY DEF Takes
    <3>3. QED BY <3>1, <3>2 DEF Takes
  <2>5. \A v \in InWorkers : inbound'[v].for \subseteq inbound[v].for
    BY <1>0, <2>2
  <2>6. QED BY <2>1, <2>2, <2>3, <2>4, <2>5, <1>10
<1>12. CASE CronUpdate
  <2>1. Rearranged(clock) /\ UNCHANGED <<observer, response, inbound>>
    BY <1>12, CronEffect DEF CronUpdate
  <2>2. QED BY <2>1, <1>10 DEF Takes
<1>13. QED BY <1>1, <1>2, <1>3, <1>4, <1>5, <1>6, <1>7, <1>8, <1>9, <1>11, <1>12
           DEF Next, InBound, Expiry

\* Who waits in response() is sure to be woken: the response is written, or a
\* worker has the observer, or the ticket is timed and holds it, or the expiry
\* worker was handed the ticket while it holds it.
THEOREM RescueInPlace == Safety => []Rescued
<1>1. Observers /\ Rescuers => Rescued
  <2> SUFFICES ASSUME Observers, Rescuers, NEW c \in Calls, pc[c] = "handle",
                      response[c] = <<>>, Holders(c) = {}
               PROVE  /\ c \in observer
                      /\ \/ clock[c] \in {"ticking", "expired"}
                         \/ expiry.at = "steal" /\ c \in expiry.for
    BY DEF Rescued
  <2>1. ~Taken(c)
    BY HoldersCount
  <2>2. QED BY <2>1 DEF Rescuers
<1>2. QED BY <1>1, InitShape, ShapeStep, InitObservers, ObserversStep, InitRequests,
             RequestsStep, InitRescuers, RescuersStep, PTL DEF Safety
=============================================================================
