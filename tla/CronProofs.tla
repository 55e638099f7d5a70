----------------------------- MODULE CronProofs -----------------------------
(***************************************************************************)
(* Theorems about Cron, for every set of jobs and workers, all periods and *)
(* every POISON_CHK_INTERVAL_DUE.                                          *)
(***************************************************************************)
EXTENDS Cron, FiniteSetTheorems, SequenceTheorems, TLAPS

-----------------------------------------------------------------------------
(* The invariant.                                                          *)

Distinct(s) == \A m, n \in 1 .. Len(s) : s[m] = s[n] => m = n

\* wait_bucket_vec holds workers blocked in pop() that nothing has woken, once
\* each, until it is given up; a worker has a job in hand from the pop() that
\* returns it to the end of its epoch.
Waiters ==
  /\ ~poisoned => Distinct(waiting)
  /\ ~poisoned => \A w \in Elements(waiting) : pc[w] = "waiting" /\ w \notin smp /\ item[w] = NoJob
  /\ \A w \in smp : pc[w] = "waiting"
  /\ \A w \in Workers : pc[w] \in {"idle", "gone"} => item[w] = NoJob
  /\ \A w \in Workers : pc[w] \in {"popped", "go", "running", "ran"} => item[w] # NoJob

\* The heap is ordered: no job expires before the one in front of it.
HeapOrdered == \A m, n \in 1 .. Len(heap) : m <= n => left[heap[m]] <= left[heap[n]]

\* poison_chk_interval_counter counts the runs begun since the handle went, and
\* one more when a run is about to begin.
LateCounted ==
  /\ \A j \in Jobs : late[j] <= counter[j] /\ (late[j] > 0 => j \in pill)
  /\ \A w \in Workers : pc[w] = "go" => late[item[w]] + 1 <= counter[item[w]]

Inv == TypeOK /\ Waiters /\ EveryJobOnce /\ HeapOrdered /\ LateCounted

-----------------------------------------------------------------------------
(* Sequences.                                                              *)

\* What a sequence holds are the values at its places.
LEMMA ElementsMember ==
  ASSUME NEW S, NEW s \in Seq(S)
  PROVE  /\ Elements(s) \subseteq S
         /\ \A n \in 1 .. Len(s) : s[n] \in Elements(s) /\ s[n] \in S
         /\ Len(s) \in Nat
<1>1. Len(s) \in Nat
  BY LenProperties
<1>2. \A n \in 1 .. Len(s) : s[n] \in S
  BY ElementOfSeq
<1>3. QED BY <1>1, <1>2 DEF Elements

\* The first k elements are taken off.
LEMMA DropProperties ==
  ASSUME NEW S, NEW s \in Seq(S), NEW k \in 0 .. Len(s)
  PROVE  /\ Drop(s, k) \in Seq(S)
         /\ Len(Drop(s, k)) = Len(s) - k
         /\ \A n \in 1 .. Len(s) - k : n + k \in 1 .. Len(s) /\ Drop(s, k)[n] = s[n + k]
<1>1. Len(s) \in Nat /\ k \in Nat /\ k <= Len(s)
  BY LenProperties
<1>2. \A n \in k + 1 .. Len(s) : s[n] \in S
  BY <1>1, ElementOfSeq
<1> DEFINE b == SubSeq(s, k + 1, Len(s))
<1>3. /\ b \in Seq(S)
      /\ Len(b) = IF k + 1 <= Len(s) THEN Len(s) - (k + 1) + 1 ELSE 0
      /\ \A n \in 1 .. Len(s) - (k + 1) + 1 : b[n] = s[k + 1 + n - 1]
  BY <1>1, <1>2, SubSeqProperties
<1>4. Drop(s, k) = b
  BY DEF Drop
<1> HIDE DEF b
<1>5. Len(b) = Len(s) - k
  BY <1>1, <1>3
<1>6. ASSUME NEW n \in 1 .. Len(s) - k
      PROVE  n + k \in 1 .. Len(s) /\ b[n] = s[n + k]
  <2>1. n \in 1 .. Len(s) - (k + 1) + 1 /\ k + 1 + n - 1 = n + k /\ n + k \in 1 .. Len(s)
    BY <1>1
  <2>2. QED BY <1>3, <2>1
<1>7. QED BY <1>3, <1>4, <1>5, <1>6

\* What is taken off is gone when the elements are different.
LEMMA DropDistinct ==
  ASSUME NEW S, NEW s \in Seq(S), NEW k \in 0 .. Len(s), Distinct(s)
  PROVE  /\ Distinct(Drop(s, k))
         /\ Elements(Drop(s, k)) = Elements(s) \ {s[n] : n \in 1 .. k}
         /\ {s[n] : n \in 1 .. k} \subseteq Elements(s)
<1> DEFINE d == Drop(s, k)
           F == {s[n] : n \in 1 .. k}
<1>1. /\ d \in Seq(S) /\ Len(d) = Len(s) - k
      /\ \A n \in 1 .. Len(s) - k : n + k \in 1 .. Len(s) /\ d[n] = s[n + k]
      /\ Len(s) \in Nat /\ k \in Nat /\ k <= Len(s)
  <2>1. Len(s) \in Nat /\ k \in Nat /\ k <= Len(s)
    BY LenProperties
  <2>2. QED BY <2>1, DropProperties
<1> HIDE DEF d
<1>2. Distinct(d)
  <2> SUFFICES ASSUME NEW m \in 1 .. Len(d), NEW n \in 1 .. Len(d), d[m] = d[n]
               PROVE  m = n
    BY DEF Distinct
  <2>1. m \in 1 .. Len(s) - k /\ n \in 1 .. Len(s) - k
    BY <1>1
  <2>2. m + k = n + k
    BY <1>1, <2>1 DEF Distinct
  <2>3. QED BY <1>1, <2>1, <2>2
<1>3. \A n \in 1 .. k : n \in 1 .. Len(s)
  BY <1>1
<1>4. F \subseteq Elements(s)
  BY <1>3 DEF Elements
<1>5. ASSUME NEW n \in 1 .. Len(d)
      PROVE  d[n] \in Elements(s) /\ d[n] \notin F
  <2>1. n \in 1 .. Len(s) - k /\ n + k > k
    BY <1>1
  <2>2. n + k \in 1 .. Len(s) /\ d[n] = s[n + k]
    BY <1>1, <2>1
  <2>3. \A m \in 1 .. k : m # n + k
    BY <1>1, <2>1
  <2>4. \A m \in 1 .. k : s[m] # s[n + k]
    BY <1>3, <2>2, <2>3 DEF Distinct
  <2>5. QED BY <2>2, <2>4 DEF Elements
<1>6. ASSUME NEW n \in 1 .. Len(s), s[n] \notin F
      PROVE  s[n] \in Elements(d)
  <2>1. n \notin 1 .. k
    BY <1>6
  <2>2. n - k \in 1 .. Len(s) - k /\ (n - k) + k = n /\ n - k \in 1 .. Len(d)
    BY <1>1, <2>1
  <2>3. d[n - k] = s[n]
    BY <1>1, <2>2
  <2>4. QED BY <2>2, <2>3 DEF Elements
<1> HIDE DEF F
<1>7. Elements(d) \subseteq Elements(s) \ F
  BY <1>5 DEF Elements
<1>8. Elements(s) \ F \subseteq Elements(d)
  <2> SUFFICES ASSUME NEW x \in Elements(s), x \notin F
               PROVE  x \in Elements(d)
    OBVIOUS
  <2>1. PICK n \in 1 .. Len(s) : x = s[n]
    BY DEF Elements
  <2>2. QED BY <1>6, <2>1
<1>9. QED BY <1>2, <1>4, <1>7, <1>8 DEF d, F

\* Tail takes off the first element.
LEMMA TailDrops ==
  ASSUME NEW S, NEW s \in Seq(S), s # <<>>
  PROVE  /\ Tail(s) = Drop(s, 1)
         /\ 1 \in 0 .. Len(s)
         /\ Head(s) = s[1] /\ Head(s) \in Elements(s)
         /\ {s[n] : n \in 1 .. 1} = {Head(s)}
<1>1. Len(s) \in Nat \ {0} /\ Head(s) = s[1]
  BY EmptySeq, LenProperties
<1>2. 1 \in 0 .. Len(s) /\ 1 \in 1 .. Len(s)
  BY <1>1
<1>3. Tail(s) = SubSeq(s, 2, Len(s))
  BY TailIsSubSeq
<1>4. 1 .. 1 = {1} /\ 1 + 1 = 2
  OBVIOUS
<1>5. QED BY <1>1, <1>2, <1>3, <1>4 DEF Drop, Elements

\* t is s with j after its first k elements.
Inserted(s, k, j, t) ==
  /\ Len(t) = Len(s) + 1
  /\ \A n \in 1 .. Len(t) : n <= k => n \in 1 .. Len(s) /\ t[n] = s[n]
  /\ t[k + 1] = j
  /\ \A n \in 1 .. Len(t) : n > k + 1 => n - 1 \in 1 .. Len(s) /\ t[n] = s[n - 1]

\* An insertion moves what stands behind it by one place and changes nothing
\* else.
LEMMA InsertProperties ==
  ASSUME NEW S, NEW s \in Seq(S), NEW j \in S, NEW k \in 0 .. Len(s), NEW t,
         t = Insert(s, k, j)
  PROVE  t \in Seq(S) /\ Inserted(s, k, j, t)
<1> DEFINE a == SubSeq(s, 1, k)
           d == Drop(s, k)
           b == a \o <<j>>
<1>1. Len(s) \in Nat /\ k \in Nat /\ k <= Len(s)
  BY LenProperties
<1>2. \A n \in 1 .. k : s[n] \in S
  BY <1>1, ElementOfSeq
<1>3. /\ a \in Seq(S) /\ Len(a) = IF 1 <= k THEN k - 1 + 1 ELSE 0
      /\ \A n \in 1 .. k - 1 + 1 : a[n] = s[1 + n - 1]
  BY <1>1, <1>2, SubSeqProperties
<1>4. /\ d \in Seq(S) /\ Len(d) = Len(s) - k
      /\ \A n \in 1 .. Len(s) - k : n + k \in 1 .. Len(s) /\ d[n] = s[n + k]
  BY DropProperties
<1> HIDE DEF a, d
<1>5. Len(a) = k
  BY <1>1, <1>3
<1>6. \A n \in 1 .. k : a[n] = s[n]
  <2> TAKE n \in 1 .. k
  <2>1. n \in 1 .. k - 1 + 1 /\ 1 + n - 1 = n
    BY <1>1
  <2>2. QED BY <1>3, <2>1
<1>7. b = Append(a, j)
  BY <1>3, AppendIsConcat
<1>8. /\ b \in Seq(S) /\ Len(b) = k + 1
      /\ \A n \in 1 .. k : b[n] = a[n]
      /\ b[k + 1] = j
  BY <1>3, <1>5, <1>7, AppendProperties
<1> HIDE DEF b
<1>9. t = b \o d
  BY DEF Insert, a, b, d
<1>10. /\ t \in Seq(S) /\ Len(t) = Len(b) + Len(d)
       /\ \A n \in 1 .. Len(b) + Len(d) : t[n] = IF n <= Len(b) THEN b[n] ELSE d[n - Len(b)]
  <2> DEFINE e == b \o d
  <2>1. b \in Seq(S) /\ d \in Seq(S)
    BY <1>4, <1>8
  <2>2. /\ e \in Seq(S) /\ Len(e) = Len(b) + Len(d)
        /\ \A n \in 1 .. Len(b) + Len(d) : e[n] = IF n <= Len(b) THEN b[n] ELSE d[n - Len(b)]
    BY <2>1, ConcatProperties
  <2> HIDE DEF e
  <2>3. t = e
    BY <1>9 DEF e
  <2>4. QED BY <2>2, <2>3
<1>11. Len(t) = Len(s) + 1
  BY <1>1, <1>4, <1>8, <1>10
<1>12. ASSUME NEW n \in 1 .. Len(t), n <= k
       PROVE  n \in 1 .. Len(s) /\ t[n] = s[n]
  <2>1. n \in 1 .. k /\ n <= Len(b) /\ n \in 1 .. Len(b) + Len(d) /\ n \in 1 .. Len(s)
    BY <1>1, <1>8, <1>10, <1>12
  <2>2. QED BY <1>6, <1>8, <1>10, <2>1
<1>13. t[k + 1] = j
  <2>1. k + 1 \in 1 .. Len(b) + Len(d) /\ k + 1 <= Len(b)
    BY <1>1, <1>4, <1>8
  <2>2. QED BY <1>8, <1>10, <2>1
<1>14. ASSUME NEW n \in 1 .. Len(t), n > k + 1
       PROVE  n - 1 \in 1 .. Len(s) /\ t[n] = s[n - 1]
  <2> DEFINE m == n - Len(b)
  <2>1. /\ n \in 1 .. Len(b) + Len(d) /\ ~(n <= Len(b)) /\ m \in 1 .. Len(s) - k
        /\ m + k = n - 1
    BY <1>1, <1>4, <1>8, <1>10, <1>11, <1>14
  <2>2. t[n] = d[m]
    BY <1>10, <2>1
  <2>3. QED BY <1>4, <2>1, <2>2
<1>15. QED BY <1>10, <1>11, <1>12, <1>13, <1>14 DEF Inserted

\* Inserting what is not there keeps the elements distinct.
LEMMA InsertDistinct ==
  ASSUME NEW S, NEW s \in Seq(S), NEW j \in S, NEW k \in 0 .. Len(s), NEW t,
         t = Insert(s, k, j),
         Distinct(s), j \notin Elements(s)
  PROVE  Elements(t) = Elements(s) \cup {j} /\ Distinct(t)
<1>1. /\ t \in Seq(S) /\ Len(t) = Len(s) + 1
      /\ \A n \in 1 .. Len(t) : n <= k => n \in 1 .. Len(s) /\ t[n] = s[n]
      /\ t[k + 1] = j
      /\ \A n \in 1 .. Len(t) : n > k + 1 => n - 1 \in 1 .. Len(s) /\ t[n] = s[n - 1]
  <2>1. t \in Seq(S) /\ Inserted(s, k, j, t)
    BY InsertProperties
  <2>2. QED BY <2>1 DEF Inserted
<1>2. Len(s) \in Nat /\ k \in Nat /\ k <= Len(s)
  BY LenProperties
<1> DEFINE p(n) == IF n <= k THEN n ELSE n - 1
<1>3. /\ \A n \in 1 .. Len(t) : n # k + 1 => p(n) \in 1 .. Len(s)
      /\ \A m, n \in 1 .. Len(t) : m # k + 1 /\ n # k + 1 /\ p(m) = p(n) => m = n
  BY <1>1, <1>2
<1>4. \A n \in 1 .. Len(t) : n # k + 1 => t[n] = s[p(n)]
  <2> TAKE n \in 1 .. Len(t)
  <2> HAVE n # k + 1
  <2>1. CASE n <= k
    BY <1>1, <2>1
  <2>2. CASE ~(n <= k)
    <3>1. n > k + 1
      BY <1>1, <1>2, <2>2
    <3>2. QED BY <1>1, <2>2, <3>1
  <2>3. QED BY <2>1, <2>2
<1>5. \A n \in 1 .. Len(s) : \E m \in 1 .. Len(t) : m # k + 1 /\ p(m) = n
  <2> TAKE n \in 1 .. Len(s)
  <2>1. CASE n <= k
    BY <1>1, <1>2, <2>1
  <2>2. CASE ~(n <= k)
    <3>1. n + 1 \in 1 .. Len(t) /\ n + 1 # k + 1 /\ p(n + 1) = n
      BY <1>1, <1>2, <2>2
    <3>2. QED BY <3>1
  <2>3. QED BY <2>1, <2>2
<1>6. k + 1 \in 1 .. Len(t)
  BY <1>1, <1>2
<1> HIDE DEF p
<1>7. \A n \in 1 .. Len(t) : n # k + 1 => t[n] \in Elements(s) /\ t[n] # j
  BY <1>3, <1>4 DEF Elements
<1>8. Distinct(t)
  <2> SUFFICES ASSUME NEW m \in 1 .. Len(t), NEW n \in 1 .. Len(t), t[m] = t[n]
               PROVE  m = n
    BY DEF Distinct
  <2>1. m = k + 1 <=> n = k + 1
    BY <1>1, <1>7
  <2>2. m # k + 1 => s[p(m)] = s[p(n)] /\ p(m) \in 1 .. Len(s) /\ p(n) \in 1 .. Len(s)
    BY <1>3, <1>4, <2>1
  <2>3. m # k + 1 => p(m) = p(n)
    BY <2>2 DEF Distinct
  <2>4. QED BY <1>3, <2>1, <2>3
<1>9. Elements(t) \subseteq Elements(s) \cup {j}
  BY <1>1, <1>7 DEF Elements
<1>10. j \in Elements(t)
  BY <1>1, <1>6 DEF Elements
<1>11. \A n \in 1 .. Len(s) : s[n] \in Elements(t)
  <2> TAKE n \in 1 .. Len(s)
  <2>1. PICK m \in 1 .. Len(t) : m # k + 1 /\ p(m) = n
    BY <1>5
  <2>2. QED BY <1>4, <2>1 DEF Elements
<1>12. Elements(s) \subseteq Elements(t)
  BY <1>11 DEF Elements
<1>13. QED BY <1>8, <1>9, <1>10, <1>12

-----------------------------------------------------------------------------
(* The container.                                                          *)

\* push() puts a job that is not in the heap there once, behind the jobs that
\* expire earlier.
LEMMA PushProperties ==
  ASSUME heap \in Seq(Jobs), left \in [Jobs -> Int], Distinct(heap), HeapOrdered,
         NEW j \in Jobs, j \notin Elements(heap), Push(j)
  PROVE  /\ heap' \in Seq(Jobs)
         /\ Elements(heap') = Elements(heap) \cup {j}
         /\ Distinct(heap')
         /\ HeapOrdered'
<1> DEFINE d == Dur[j]
<1>1. d \in Nat
  BY DurAssumption
<1>2. left' = [left EXCEPT ![j] = d] /\ heap' \in Insertions(heap, j, d)
  BY DEF Push
<1> HIDE DEF d
<1>3. PICK k \in 0 .. Len(heap) :
        /\ \A i \in 1 .. k : left[heap[i]] <= d
        /\ \A i \in k + 1 .. Len(heap) : left[heap[i]] >= d
        /\ heap' = Insert(heap, k, j)
  BY <1>2 DEF Insertions
<1>4. /\ heap' \in Seq(Jobs) /\ Len(heap') = Len(heap) + 1
      /\ \A n \in 1 .. Len(heap') : n <= k => n \in 1 .. Len(heap) /\ heap'[n] = heap[n]
      /\ heap'[k + 1] = j
      /\ \A n \in 1 .. Len(heap') : n > k + 1 => n - 1 \in 1 .. Len(heap) /\ heap'[n] = heap[n - 1]
  <2>1. heap' = Insert(heap, k, j)
    BY <1>3
  <2>2. heap' \in Seq(Jobs) /\ Inserted(heap, k, j, heap')
    BY <2>1, InsertProperties
  <2>3. QED BY <2>2 DEF Inserted
<1>5. Elements(heap') = Elements(heap) \cup {j} /\ Distinct(heap')
  BY <1>3, InsertDistinct
<1>6. /\ \A n \in 1 .. Len(heap) : heap[n] \in Jobs /\ heap[n] # j
      /\ Len(heap) \in Nat /\ k \in Nat /\ k <= Len(heap)
  <2>1. Len(heap) \in Nat /\ \A n \in 1 .. Len(heap) : heap[n] \in Jobs
    BY ElementsMember
  <2>2. QED BY <2>1 DEF Elements
<1>7. /\ left'[j] = d
      /\ \A n \in 1 .. Len(heap) : left'[heap[n]] = left[heap[n]] /\ left[heap[n]] \in Int
  BY <1>2, <1>6
<1>8. ASSUME NEW m \in 1 .. Len(heap'), NEW n \in 1 .. Len(heap'), m <= n
      PROVE  left'[heap'[m]] <= left'[heap'[n]]
  <2>1. CASE n <= k
    <3>1. m <= k
      BY <1>6, <1>8, <2>1
    <3>2. /\ heap'[m] = heap[m] /\ heap'[n] = heap[n]
          /\ m \in 1 .. Len(heap) /\ n \in 1 .. Len(heap)
      BY <1>4, <2>1, <3>1
    <3>3. QED BY <1>7, <1>8, <3>2 DEF HeapOrdered
  <2>2. CASE n = k + 1
    <3>1. CASE m = k + 1
      BY <1>1, <1>4, <1>7, <2>2, <3>1
    <3>2. CASE m # k + 1
      <4>1. m <= k /\ m \in 1 .. k
        BY <1>4, <1>6, <1>8, <2>2, <3>2
      <4>2. heap'[m] = heap[m] /\ m \in 1 .. Len(heap)
        BY <1>4, <4>1
      <4>3. QED BY <1>3, <1>4, <1>7, <2>2, <4>1, <4>2
    <3>3. QED BY <3>1, <3>2
  <2>3. CASE n > k + 1
    <3> DEFINE v == n - 1
    <3>1. heap'[n] = heap[v] /\ v \in 1 .. Len(heap) /\ v \in k + 1 .. Len(heap)
      BY <1>4, <1>6, <2>3
    <3>2. left'[heap'[n]] = left[heap[v]] /\ left[heap[v]] >= d
      BY <1>3, <1>7, <3>1
    <3>3. CASE m <= k
      <4>1. heap'[m] = heap[m] /\ m \in 1 .. Len(heap) /\ m <= v
        BY <1>4, <1>6, <2>3, <3>3
      <4>2. left[heap[m]] <= left[heap[v]]
        BY <3>1, <4>1 DEF HeapOrdered
      <4>3. QED BY <1>7, <3>2, <4>1, <4>2
    <3>4. CASE m = k + 1
      BY <1>1, <1>4, <1>7, <3>1, <3>2, <3>4
    <3>5. CASE m > k + 1
      <4> DEFINE u == m - 1
      <4>1. heap'[m] = heap[u] /\ u \in 1 .. Len(heap) /\ u <= v
        BY <1>4, <1>6, <1>8, <3>5
      <4>2. left[heap[u]] <= left[heap[v]]
        BY <3>1, <4>1 DEF HeapOrdered
      <4> HIDE DEF u
      <4>3. QED BY <1>7, <3>2, <4>1, <4>2
    <3>6. QED BY <1>6, <3>3, <3>4, <3>5
  <2>4. QED BY <1>6, <2>1, <2>2, <2>3
<1>9. HeapOrdered'
  BY <1>8 DEF HeapOrdered
<1>10. QED BY <1>4, <1>5, <1>9

\* update() hands the first k jobs, all of them due, to the first k workers.
Handed(k) ==
  /\ k \in 0 .. Len(heap) /\ k \in 0 .. Len(waiting)
  /\ \A n \in 1 .. k : left[heap[n]] = Past /\ item'[waiting[n]] = heap[n]
  /\ \A w \in Workers : w \notin {waiting[n] : n \in 1 .. k} => item'[w] = item[w]
  /\ smp' = smp \cup {waiting[n] : n \in 1 .. k}
  /\ waiting' = Drop(waiting, k)
  /\ heap' = Drop(heap, k)

\* The due jobs are at the front of an ordered heap: those handed over are
\* due, and each worker gets its own.
LEMMA UpdateProperties ==
  ASSUME heap \in Seq(Jobs), left \in [Jobs -> Int], \A j \in Jobs : left[j] >= Past,
         waiting \in Seq(Workers), Distinct(waiting), HeapOrdered, Update
  PROVE  \E k \in Nat : Handed(k)
<1> DEFINE due == {n \in 1 .. Len(heap) : left[heap[n]] = Past}
           k   == Least(Cardinality(due), Len(waiting))
<1>1. Len(heap) \in Nat /\ Len(waiting) \in Nat
  BY LenProperties
<1>2. IsFiniteSet(due) /\ Cardinality(due) \in Nat /\ Cardinality(due) <= Len(heap)
  <2>1. \A N \in Nat : IsFiniteSet(1 .. N) /\ Cardinality(1 .. N) = N
    BY FS_Interval
  <2>2. due \subseteq 1 .. Len(heap)
    OBVIOUS
  <2> HIDE DEF due
  <2>3. IsFiniteSet(1 .. Len(heap)) /\ Cardinality(1 .. Len(heap)) = Len(heap)
    BY <1>1, <2>1
  <2>4. IsFiniteSet(due) /\ Cardinality(due) <= Cardinality(1 .. Len(heap))
    BY <2>2, <2>3, FS_Subset
  <2>5. QED BY <2>3, <2>4, FS_CardinalityType
<1>3. k \in Nat /\ k <= Cardinality(due) /\ k <= Len(waiting)
  <2> HIDE DEF due
  <2>1. QED BY <1>1, <1>2 DEF Least
<1>4. \A n \in 1 .. Len(heap) : left[heap[n]] \in Int /\ left[heap[n]] >= Past
  BY ElementsMember
<1>5. ASSUME NEW n \in 1 .. Len(heap), n \notin due PROVE Cardinality(due) < n
  <2>1. \A m \in 1 .. Len(heap) : m \in due => m <= n - 1
    <3> SUFFICES ASSUME NEW m \in 1 .. Len(heap), left[heap[m]] = Past, ~(m <= n - 1)
                 PROVE  FALSE
      OBVIOUS
    <3>1. n <= m
      OBVIOUS
    <3>2. left[heap[n]] <= Past
      BY <3>1 DEF HeapOrdered
    <3>3. left[heap[n]] = Past
      BY <1>4, <3>2 DEF Past
    <3>4. QED BY <1>5, <3>3
  <2>2. due \subseteq 1 .. (n - 1)
    BY <2>1
  <2>3. IsFiniteSet(1 .. (n - 1)) /\ Cardinality(1 .. (n - 1)) = n - 1
    <3>1. n - 1 \in Nat
      OBVIOUS
    <3>2. QED BY <3>1, FS_Interval
  <2> HIDE DEF due
  <2>4. Cardinality(due) <= n - 1
    BY <2>2, <2>3, FS_Subset
  <2>5. QED BY <1>2, <2>4
<1>6. \A n \in 1 .. k : n \in due
  <2> HIDE DEF due
  <2> SUFFICES ASSUME NEW n \in 1 .. k, n \notin due PROVE FALSE
    OBVIOUS
  <2> HIDE DEF k
  <2>1. n \in 1 .. Len(heap) /\ ~(Cardinality(due) < n)
    BY <1>1, <1>2, <1>3
  <2>2. QED BY <1>5, <2>1
<1>7. k \in 0 .. Len(heap) /\ k \in 0 .. Len(waiting)
  <2> HIDE DEF due, k
  <2>1. QED BY <1>1, <1>2, <1>3
<1>8. \A n \in 1 .. k : n \in 1 .. Len(waiting) /\ waiting[n] \in Workers
  <2> HIDE DEF k
  <2>1. QED BY <1>1, <1>3, ElementsMember
<1>9. /\ item' = [w \in Workers |->
           IF \E n \in 1 .. k : waiting[n] = w
             THEN heap[CHOOSE n \in 1 .. k : waiting[n] = w] ELSE item[w]]
      /\ smp' = smp \cup {waiting[n] : n \in 1 .. k}
      /\ waiting' = Drop(waiting, k)
      /\ heap' = Drop(heap, k)
  BY DEF Update
<1>10. \A n \in 1 .. k : left[heap[n]] = Past
  BY <1>6
<1> HIDE DEF due, k
<1>11. ASSUME NEW n \in 1 .. k PROVE item'[waiting[n]] = heap[n]
  <2> DEFINE w == waiting[n]
             m == CHOOSE i \in 1 .. k : waiting[i] = w
  <2>1. m \in 1 .. k /\ waiting[m] = w
    OBVIOUS
  <2>2. m = n
    BY <1>8, <2>1 DEF Distinct
  <2>3. item'[w] = heap[m]
    BY <1>8, <1>9
  <2>4. QED BY <2>2, <2>3
<1>12. \A w \in Workers : w \notin {waiting[n] : n \in 1 .. k} => item'[w] = item[w]
  BY <1>9
<1>13. Handed(k)
  BY <1>7, <1>9, <1>10, <1>11, <1>12 DEF Handed
<1>14. QED BY <1>3, <1>13

-----------------------------------------------------------------------------
(* The steps keep the invariant.                                           *)

\* No job has been launched and nobody waits.
LEMMA Initially == Init => Inv
<1> SUFFICES ASSUME Init PROVE Inv
  OBVIOUS
<1>1. \A S : <<>> \in Seq(S)
  BY EmptySeq
<1>2. Len(<<>>) = 0 /\ 1 .. 0 = {}
  BY EmptySeq
<1>3. Elements(<<>>) = {}
  BY <1>2 DEF Elements
<1>4. TypeOK
  <2>1. Past \in Int /\ \A j \in Jobs : Past <= Dur[j] /\ Past >= Past
    BY DurAssumption DEF Past
  <2>2. left \in [Jobs -> Int] /\ \A j \in Jobs : left[j] >= Past /\ left[j] <= Dur[j]
    BY <2>1 DEF Init
  <2>3. counter \in [Jobs -> 0 .. Due] /\ late \in [Jobs -> Nat]
    BY DueAssumption DEF Init
  <2>4. QED BY <1>1, <2>2, <2>3 DEF Init, TypeOK
<1>5. Waiters
  BY <1>2, <1>3 DEF Init, Waiters, Distinct
<1>6. EveryJobOnce
  BY <1>2, <1>3 DEF Init, EveryJobOnce, Pending, Held
<1>7. HeapOrdered
  BY <1>2 DEF Init, HeapOrdered
<1>8. LateCounted
  BY DueAssumption DEF Init, LateCounted
<1>9. QED BY <1>4, <1>5, <1>6, <1>7, <1>8 DEF Inv

\* What is to be known of the state before a step.
LEMMA Before ==
  ASSUME Inv
  PROVE  /\ heap \in Seq(Jobs) /\ left \in [Jobs -> Int] /\ waiting \in Seq(Workers)
         /\ \A j \in Jobs : left[j] >= Past
         /\ poisoned \in BOOLEAN
         /\ item \in [Workers -> Jobs \cup {NoJob}]
         /\ Distinct(heap)
         /\ ~poisoned => Distinct(waiting)
         /\ \A w \in Workers : item[w] # NoJob =>
              /\ item[w] \in Jobs
              /\ ~poisoned => item[w] \notin Elements(heap)
         /\ \A j \in Jobs : j \notin launched /\ ~poisoned => j \notin Elements(heap)
<1>1. /\ heap \in Seq(Jobs) /\ left \in [Jobs -> Int] /\ waiting \in Seq(Workers)
      /\ \A j \in Jobs : left[j] >= Past
      /\ poisoned \in BOOLEAN
      /\ item \in [Workers -> Jobs \cup {NoJob}]
  BY DEF Inv, TypeOK
<1>2. Distinct(heap) /\ (~poisoned => Distinct(waiting))
  BY DEF Inv, EveryJobOnce, Waiters, Distinct
<1>3. \A w \in Workers : item[w] # NoJob => item[w] \in Jobs /\ item[w] \in Held
  BY <1>1 DEF Held
<1>4. /\ ~poisoned => Elements(heap) \cap Held = {}
      /\ ~poisoned => Elements(heap) \subseteq launched
  BY DEF Inv, EveryJobOnce, Pending
<1>5. QED BY <1>1, <1>2, <1>3, <1>4

\* push() for a job in hand (Requeue) or a new one (Launch)
LEMMA Pushed ==
  ASSUME Inv, ~poisoned, NEW j \in Jobs, j \notin Elements(heap), Push(j)
  PROVE  /\ heap' \in Seq(Jobs)
         /\ Elements(heap') = Elements(heap) \cup {j}
         /\ Distinct(heap')
         /\ HeapOrdered'
<1>1. HeapOrdered
  BY DEF Inv
<1>2. heap \in Seq(Jobs) /\ left \in [Jobs -> Int] /\ Distinct(heap)
  BY Before
<1>3. QED BY <1>1, <1>2, PushProperties

\* update() hands over due jobs.
LEMMA Updated ==
  ASSUME Inv, Update
  PROVE  \E k \in Nat : Handed(k)
<1>1. HeapOrdered
  BY DEF Inv
<1>2. ~poisoned
  BY DEF Update
<1>3. QED BY <1>1, <1>2, Before, UpdateProperties

\* Every operation of container, ticker, workers and handle keeps the types.
LEMMA TypeStep == Inv /\ Next => TypeOK'
<1> SUFFICES ASSUME Inv, Next PROVE TypeOK'
  OBVIOUS
<1>0. TypeOK
  BY DEF Inv
<1> USE DEF TypeOK
<1>1. heap # <<>> => /\ Tail(heap) \in Seq(Jobs)
                     /\ Head(heap) \in Jobs
  BY <1>0, HeadTailProperties
<1>2. ASSUME NEW w \in Workers, pc[w] \in {"popped", "go", "running", "ran"}
      PROVE  item[w] \in Jobs /\ item[w] # NoJob
  BY <1>0, <1>2, NoJobAssumption DEF Inv, Waiters
<1>3. ASSUME ~poisoned, NEW j \in Jobs, j \notin Elements(heap), Push(j)
      PROVE  /\ heap' \in Seq(Jobs) /\ left' \in [Jobs -> Int]
             /\ \A i \in Jobs : left'[i] >= Past /\ left'[i] <= Dur[i]
             /\ waiting' \in Seq(Workers) /\ poisoned' \in BOOLEAN /\ smp' \subseteq Workers
  <2>1. heap' \in Seq(Jobs)
    BY <1>3, Pushed
  <2>2. left' = [left EXCEPT ![j] = Dur[j]] /\ UNCHANGED <<waiting, poisoned, smp>>
    BY <1>3 DEF Push
  <2>3. \A i \in Jobs : left'[i] \in Int /\ left'[i] >= Past /\ left'[i] <= Dur[i]
    <3> TAKE i \in Jobs
    <3>1. Dur[j] \in Nat /\ left[i] \in Int
      BY <1>0, DurAssumption
    <3>2. CASE i = j
      <4>1. left'[i] = Dur[i]
        BY <1>0, <2>2, <3>2
      <4>2. QED BY <3>1, <3>2, <4>1 DEF Past
    <3>3. CASE i # j
      <4>1. left'[i] = left[i]
        BY <1>0, <2>2, <3>3
      <4>2. QED BY <1>0, <4>1
    <3>4. QED BY <3>2, <3>3
  <2>4. QED BY <1>0, <2>1, <2>2, <2>3, DurAssumption
<1>4. ASSUME Tick PROVE TypeOK'
  <2>1. /\ left' = [j \in Jobs |-> IF j \in Elements(heap) /\ left[j] # Past
                                     THEN left[j] - 1 ELSE left[j]]
        /\ UNCHANGED <<heap, waiting, poisoned, smp, item, pc, pill, counter, launched, ended, late>>
    BY <1>4 DEF Tick, worker, job
  <2>2. \A j \in Jobs : left'[j] \in Int /\ left'[j] >= Past /\ left'[j] <= Dur[j]
    BY <1>0, <2>1, DurAssumption DEF Past
  <2>3. left' \in [Jobs -> Int]
    BY <1>0, <2>1
  <2>4. QED BY <1>0, <2>1, <2>2, <2>3
<1>5. ASSUME Update PROVE TypeOK'
  <2>1. PICK k \in Nat : Handed(k)
    BY <1>5, Updated
  <2>2. UNCHANGED <<left, poisoned, pc, pill, counter, launched, ended, late>>
    BY <1>5 DEF Update, job
  <2>3. heap' \in Seq(Jobs) /\ waiting' \in Seq(Workers)
    BY <1>0, <2>1, DropProperties DEF Handed
  <2>4. \A n \in 1 .. k : heap[n] \in Jobs /\ waiting[n] \in Workers
    <3>1. k \in 0 .. Len(heap) /\ k \in 0 .. Len(waiting) /\ Len(heap) \in Nat /\ Len(waiting) \in Nat
      BY <1>0, <2>1, LenProperties DEF Handed
    <3>2. \A n \in 1 .. k : n \in 1 .. Len(heap) /\ n \in 1 .. Len(waiting)
      BY <3>1
    <3>3. QED BY <1>0, <3>2, ElementsMember
  <2>5. smp' \subseteq Workers
    BY <1>0, <2>1, <2>4 DEF Handed
  <2>6. \A w \in Workers : item'[w] \in Jobs \cup {NoJob}
    <3> TAKE w \in Workers
    <3>1. CASE w \in {waiting[n] : n \in 1 .. k}
      <4>1. PICK n \in 1 .. k : w = waiting[n]
        BY <3>1
      <4>2. QED BY <2>1, <2>4, <4>1 DEF Handed
    <3>2. CASE w \notin {waiting[n] : n \in 1 .. k}
      <4>1. item'[w] = item[w]
        BY <2>1, <3>2 DEF Handed
      <4>2. QED BY <1>0, <4>1
    <3>3. QED BY <3>1, <3>2
  <2>7. item' \in [Workers -> Jobs \cup {NoJob}]
    <3>1. \E f : item' = [w \in Workers |-> f[w]]
      <4>1. item' = [w \in Workers |-> item'[w]]
        BY <1>5 DEF Update
      <4>2. QED BY <4>1
    <3>2. QED BY <2>6, <3>1
  <2>8. QED BY <1>0, <2>2, <2>3, <2>5, <2>7
<1>6. ASSUME Poison PROVE TypeOK'
  <2>1. Elements(heap) \subseteq Jobs /\ Elements(waiting) \subseteq Workers
    BY <1>0, ElementsMember
  <2>2. QED BY <1>0, <1>6, <2>1 DEF Poison
<1>7. ASSUME NEW w \in Workers, PopDue(w) PROVE TypeOK'
  BY <1>0, <1>1, <1>7 DEF PopDue, FrontDue, job
<1>8. ASSUME NEW w \in Workers, PopWait(w) PROVE TypeOK'
  BY <1>0, <1>8, AppendProperties DEF PopWait, job
<1>9. ASSUME NEW w \in Workers, PopReturn(w) PROVE TypeOK'
  BY <1>0, <1>9 DEF PopReturn, job
<1>10. ASSUME NEW w \in Workers, UpdateStop(w) PROVE TypeOK'
  BY <1>0, <1>2, <1>10 DEF UpdateStop, container
<1>11. ASSUME NEW w \in Workers, UpdateGo(w) PROVE TypeOK'
  <2>1. item[w] \in Jobs
    BY <1>2, <1>11 DEF UpdateGo
  <2>2. counter' \in [Jobs -> 0 .. Due]
    BY <1>0, <1>11, <2>1, DueAssumption DEF UpdateGo
  <2>3. QED BY <1>0, <1>11, <2>2 DEF UpdateGo, container
<1>12. ASSUME NEW w \in Workers, JobBegin(w) PROVE TypeOK'
  <2>1. item[w] \in Jobs
    BY <1>2, <1>12 DEF JobBegin
  <2>2. late' \in [Jobs -> Nat]
    BY <1>0, <1>12, <2>1 DEF JobBegin
  <2>3. QED BY <1>0, <1>12, <2>2 DEF JobBegin, container
<1>13. ASSUME NEW w \in Workers, JobThrows(w) PROVE TypeOK'
  BY <1>0, <1>2, <1>13 DEF JobThrows, container
<1>14. ASSUME NEW w \in Workers, JobReturns(w) PROVE TypeOK'
  BY <1>0, <1>14 DEF JobReturns, container, job
<1>15. ASSUME NEW w \in Workers, Requeue(w) PROVE TypeOK'
  <2>1. ~poisoned /\ item[w] \in Jobs /\ item[w] \notin Elements(heap) /\ Push(item[w])
    BY <1>2, <1>15, Before DEF Requeue
  <2>2. QED BY <1>0, <1>3, <1>15, <2>1 DEF Requeue, job
<1>16. ASSUME NEW w \in Workers, RequeueFails(w) PROVE TypeOK'
  BY <1>0, <1>2, <1>16 DEF RequeueFails, container
<1>17. ASSUME NEW j \in Jobs, Launch(j) PROVE TypeOK'
  <2>1. ~poisoned /\ j \notin Elements(heap) /\ Push(j)
    BY <1>17, Before DEF Launch
  <2>2. QED BY <1>0, <1>3, <1>17, <2>1 DEF Launch, worker
<1>18. ASSUME NEW j \in Jobs, Release(j) PROVE TypeOK'
  BY <1>0, <1>18 DEF Release, container, worker
<1>19. ASSUME NEW w \in Workers, Deregister(w) PROVE TypeOK'
  BY <1>0, <1>19 DEF Deregister, container, job
<1>20. QED
  BY <1>4, <1>5, <1>6, <1>7, <1>8, <1>9, <1>10, <1>11, <1>12, <1>13, <1>14, <1>15, <1>16,
     <1>17, <1>18, <1>19 DEF Next, Epoch

\* A worker joins wait_bucket_vec when it blocks and leaves it when it is woken.
LEMMA WaitersStep == Inv /\ Next => Waiters'
<1> SUFFICES ASSUME Inv, Next PROVE Waiters'
  OBVIOUS
<1> DEFINE W    == Elements(waiting)
           Free == {"idle", "gone"}
           Busy == {"popped", "go", "running", "ran"}
<1>0. /\ waiting \in Seq(Workers) /\ smp \subseteq Workers /\ poisoned \in BOOLEAN
      /\ item \in [Workers -> Jobs \cup {NoJob}] /\ W \subseteq Workers
      /\ pc \in [Workers -> {"idle", "waiting", "popped", "go", "running", "ran", "gone"}]
  BY ElementsMember DEF Inv, TypeOK
<1>1. /\ ~poisoned => Distinct(waiting)
      /\ ~poisoned => \A w \in W : pc[w] = "waiting" /\ w \notin smp /\ item[w] = NoJob
      /\ \A w \in smp : pc[w] = "waiting"
      /\ \A w \in Workers : pc[w] \in Free => item[w] = NoJob
      /\ \A w \in Workers : pc[w] \in Busy => item[w] # NoJob
  BY DEF Inv, Waiters
<1> DEFINE Good ==
      /\ ~poisoned' => Distinct(waiting')
      /\ ~poisoned' => \A w \in W' : pc'[w] = "waiting" /\ w \notin smp' /\ item'[w] = NoJob
      /\ \A w \in smp' : pc'[w] = "waiting"
      /\ \A w \in Workers : pc'[w] \in Free => item'[w] = NoJob
      /\ \A w \in Workers : pc'[w] \in Busy => item'[w] # NoJob
<1>2. SUFFICES Good
  BY DEF Waiters
<1>3. waiting' = waiting => W' = W
  OBVIOUS
<1>4. CASE UNCHANGED <<waiting, poisoned, smp, item, pc>>
  <2> HIDE DEF W
  <2>1. QED BY <1>1, <1>3, <1>4
\* a step of a worker that neither waits nor is woken
<1>5. ASSUME NEW w \in Workers, pc[w] # "waiting", pc'[w] # "waiting",
             \A v \in Workers \ {w} : pc'[v] = pc[v] /\ item'[v] = item[v],
             UNCHANGED <<waiting, poisoned, smp>>,
             pc'[w] \in Free => item'[w] = NoJob,
             pc'[w] \in Busy => item'[w] # NoJob
      PROVE  Good
  <2> HIDE DEF W
  <2>1. w \notin smp /\ (~poisoned => w \notin W)
    BY <1>1, <1>5
  <2>2. QED BY <1>0, <1>1, <1>3, <1>5, <2>1
<1>6. ASSUME Tick PROVE Good
  BY <1>4, <1>6 DEF Tick, worker
<1>7. ASSUME Update PROVE Good
  <2>1. PICK k \in Nat : Handed(k)
    BY <1>7, Updated
  <2> DEFINE F == {waiting[n] : n \in 1 .. k}
  <2>2. ~poisoned /\ poisoned' = poisoned /\ pc' = pc
    BY <1>7 DEF Update
  <2>3. Distinct(waiting') /\ W' = W \ F /\ F \subseteq W
    BY <1>0, <1>1, <2>1, <2>2, DropDistinct DEF Handed
  <2>4. smp' = smp \cup F /\ \A w \in Workers : w \notin F => item'[w] = item[w]
    BY <2>1 DEF Handed
  <2> HIDE DEF W, F
  <2>5. QED BY <1>0, <1>1, <2>2, <2>3, <2>4
<1>8. ASSUME Poison PROVE Good
  <2>1. /\ ~poisoned /\ poisoned' = TRUE /\ pc' = pc /\ smp' = smp \cup W
        /\ item' = [w \in Workers |-> IF w \in W THEN NoJob ELSE item[w]]
    BY <1>8 DEF Poison
  <2> HIDE DEF W
  <2>2. \A w \in Workers : item'[w] = item[w]
    BY <1>1, <2>1
  <2>3. QED BY <1>0, <1>1, <2>1, <2>2
<1>9. ASSUME NEW w \in Workers, PopDue(w) PROVE Good
  <2>1. /\ pc[w] = "idle" /\ item' = [item EXCEPT ![w] = Head(heap)]
        /\ pc' = [pc EXCEPT ![w] = "popped"] /\ UNCHANGED <<waiting, poisoned, smp>>
        /\ heap # <<>>
    BY <1>9 DEF PopDue, FrontDue
  <2>2. Head(heap) # NoJob
    BY <2>1, Before, HeadTailProperties, NoJobAssumption
  <2>3. QED BY <1>0, <1>5, <2>1, <2>2
<1>10. ASSUME NEW w \in Workers, PopWait(w) PROVE Good
  <2>1. /\ pc[w] = "idle" /\ ~poisoned /\ waiting' = Append(waiting, w)
        /\ item' = [item EXCEPT ![w] = NoJob] /\ pc' = [pc EXCEPT ![w] = "waiting"]
        /\ UNCHANGED <<poisoned, smp>>
    BY <1>10 DEF PopWait
  <2>2. w \notin W /\ w \notin smp
    BY <1>1, <2>1
  <2>3. W' = W \cup {w} /\ Distinct(waiting')
    <3> DEFINE a == Append(waiting, w)
    <3>1. /\ Len(a) = Len(waiting) + 1 /\ a[Len(waiting) + 1] = w
          /\ \A n \in 1 .. Len(waiting) : a[n] = waiting[n]
      BY <1>0, AppendProperties
    <3> HIDE DEF a
    <3>2. Len(waiting) \in Nat
      BY <1>0, LenProperties
    <3>3. 1 .. Len(a) = 1 .. Len(waiting) \cup {Len(waiting) + 1}
      BY <3>1, <3>2
    <3>4. Elements(a) = Elements(waiting) \cup {w}
      BY <3>1, <3>3 DEF Elements
    <3>5. \A n \in 1 .. Len(waiting) : waiting[n] # w
      BY <2>2 DEF Elements
    <3>6. Distinct(a)
      BY <1>1, <2>1, <3>1, <3>3, <3>5 DEF Distinct
    <3>7. QED BY <2>1, <3>4, <3>6 DEF a
  <2> HIDE DEF W
  <2>4. /\ pc'[w] = "waiting" /\ item'[w] = NoJob
        /\ \A v \in Workers \ {w} : pc'[v] = pc[v] /\ item'[v] = item[v]
    BY <1>0, <2>1
  <2>5. QED BY <1>0, <1>1, <2>1, <2>2, <2>3, <2>4
<1>11. ASSUME NEW w \in Workers, PopReturn(w) PROVE Good
  <2>1. /\ w \in smp /\ smp' = smp \ {w} /\ UNCHANGED <<waiting, poisoned, item>>
        /\ pc' = [pc EXCEPT ![w] = IF item[w] = NoJob THEN "idle" ELSE "popped"]
    BY <1>11 DEF PopReturn
  <2> HIDE DEF W
  <2>2. ~poisoned => w \notin W
    BY <1>1, <2>1
  <2>3. /\ pc'[w] = IF item[w] = NoJob THEN "idle" ELSE "popped"
        /\ \A v \in Workers \ {w} : pc'[v] = pc[v]
    BY <1>0, <2>1
  <2>4. QED BY <1>0, <1>1, <1>3, <2>1, <2>2, <2>3
<1>12. ASSUME NEW w \in Workers, UpdateStop(w) \/ JobThrows(w) \/ RequeueFails(w) PROVE Good
  <2>1. /\ pc[w] # "waiting" /\ item' = [item EXCEPT ![w] = NoJob]
        /\ pc' = [pc EXCEPT ![w] = "idle"] /\ UNCHANGED <<waiting, poisoned, smp>>
    BY <1>12 DEF UpdateStop, JobThrows, RequeueFails, container
  <2>2. QED BY <1>0, <1>5, <2>1
<1>13. ASSUME NEW w \in Workers, Requeue(w) PROVE Good
  <2>1. /\ pc[w] # "waiting" /\ item' = [item EXCEPT ![w] = NoJob]
        /\ pc' = [pc EXCEPT ![w] = "idle"] /\ UNCHANGED <<waiting, poisoned, smp>>
    BY <1>13 DEF Requeue, Push
  <2>2. QED BY <1>0, <1>5, <2>1
<1>14. ASSUME NEW w \in Workers, UpdateGo(w) \/ JobBegin(w) \/ JobReturns(w) PROVE Good
  <2>1. /\ pc[w] \in Busy /\ item' = item /\ UNCHANGED <<waiting, poisoned, smp>>
        /\ \/ pc' = [pc EXCEPT ![w] = "go"]
           \/ pc' = [pc EXCEPT ![w] = "running"]
           \/ pc' = [pc EXCEPT ![w] = "ran"]
    BY <1>14 DEF UpdateGo, JobBegin, JobReturns, container
  <2>2. item[w] # NoJob /\ pc[w] # "waiting"
    BY <1>1, <2>1
  <2>3. pc'[w] \in {"go", "running", "ran"} /\ \A v \in Workers \ {w} : pc'[v] = pc[v]
    BY <1>0, <2>1
  <2>4. QED BY <1>5, <2>1, <2>2, <2>3
<1>15. ASSUME NEW w \in Workers, Deregister(w) PROVE Good
  <2>1. /\ pc[w] = "idle" /\ item' = item /\ pc' = [pc EXCEPT ![w] = "gone"]
        /\ UNCHANGED <<waiting, poisoned, smp>>
    BY <1>15 DEF Deregister, container
  <2>2. item[w] = NoJob
    BY <1>1, <2>1
  <2>3. QED BY <1>0, <1>5, <2>1, <2>2
<1>16. ASSUME NEW j \in Jobs, Launch(j) \/ Release(j) PROVE Good
  BY <1>4, <1>16 DEF Launch, Push, Release, container, worker
<1>17. QED
  BY <1>6, <1>7, <1>8, <1>9, <1>10, <1>11, <1>12, <1>13, <1>14, <1>15, <1>16 DEF Next, Epoch

\* Jobs only move between the heap and the workers, and end.
LEMMA JobsStep == Inv /\ Next => EveryJobOnce'
<1> SUFFICES ASSUME Inv, Next PROVE EveryJobOnce'
  OBVIOUS
<1> DEFINE H == Elements(heap)
           I == Held
           P == IF poisoned THEN {} ELSE H
<1>0. /\ heap \in Seq(Jobs) /\ poisoned \in BOOLEAN
      /\ item \in [Workers -> Jobs \cup {NoJob}]
      /\ ~poisoned => Distinct(waiting)
      /\ waiting \in Seq(Workers)
  BY Before
<1>1. /\ launched = P \cup I \cup ended
      /\ P \cap I = {} /\ P \cap ended = {} /\ I \cap ended = {}
      /\ Distinct(heap)
      /\ \A v, w \in Workers : item[v] = item[w] /\ item[v] # NoJob => v = w
  BY DEF Inv, EveryJobOnce, Pending, Distinct
<1>2. /\ \A w \in Workers : pc[w] \in {"idle", "gone"} => item[w] = NoJob
      /\ \A w \in Workers : pc[w] \in {"popped", "go", "running", "ran"} => item[w] # NoJob
      /\ ~poisoned => \A w \in Elements(waiting) : item[w] = NoJob
  BY DEF Inv, Waiters
<1>3. /\ \A x : x \in I <=> x # NoJob /\ \E w \in Workers : item[w] = x
      /\ \A x : x \in I' <=> x # NoJob /\ \E w \in Workers : item'[w] = x
  BY DEF Held
<1> DEFINE Good ==
      /\ launched' = P' \cup I' \cup ended'
      /\ P' \cap I' = {} /\ P' \cap ended' = {} /\ I' \cap ended' = {}
      /\ Distinct(heap')
      /\ \A v, w \in Workers : item'[v] = item'[w] /\ item'[v] # NoJob => v = w
<1>4. SUFFICES Good
  BY DEF EveryJobOnce, Pending, Distinct
<1>5. /\ heap' = heap => H' = H
      /\ item' = item => I' = I
  BY DEF Held
<1> HIDE DEF H, I
<1>6. CASE UNCHANGED <<heap, poisoned, item, launched, ended>>
  BY <1>1, <1>5, <1>6
<1>7. ASSUME NEW w \in Workers, item[w] # NoJob, item' = [item EXCEPT ![w] = NoJob]
      PROVE  /\ item[w] \in I /\ I' = I \ {item[w]}
             /\ \A u, v \in Workers : item'[u] = item'[v] /\ item'[u] # NoJob => u = v
  <2>1. item'[w] = NoJob /\ \A v \in Workers \ {w} : item'[v] = item[v]
    BY <1>0, <1>7
  <2>2. QED BY <1>1, <1>3, <1>7, <2>1
<1>8. ASSUME Tick PROVE Good
  BY <1>6, <1>8 DEF Tick, worker, job
<1>9. ASSUME Update PROVE Good
  <2>1. PICK k \in Nat : Handed(k)
    BY <1>9, Updated
  <2> DEFINE F == {heap[n] : n \in 1 .. k}
             V == {waiting[n] : n \in 1 .. k}
  <2>2. /\ ~poisoned /\ poisoned' = poisoned /\ launched' = launched /\ ended' = ended
    BY <1>9 DEF Update, job
  <2>3. Distinct(heap') /\ H' = H \ F /\ F \subseteq H
    BY <1>0, <1>1, <2>1, DropDistinct DEF Handed, H
  <2>4. V \subseteq Elements(waiting)
    BY <1>0, <2>1, <2>2, DropDistinct DEF Handed
  <2>5. \A n \in 1 .. k : /\ n \in 1 .. Len(heap) /\ waiting[n] \in Workers
                          /\ heap[n] \in Jobs /\ item'[waiting[n]] = heap[n]
    <3>1. k \in 0 .. Len(heap) /\ k \in 0 .. Len(waiting) /\ Len(heap) \in Nat /\ Len(waiting) \in Nat
      BY <1>0, <2>1, LenProperties DEF Handed
    <3>2. \A n \in 1 .. k : n \in 1 .. Len(heap) /\ n \in 1 .. Len(waiting)
      BY <3>1
    <3>3. QED BY <1>0, <2>1, <3>2, ElementsMember DEF Handed
  <2>6. \A w \in Workers : w \notin V => item'[w] = item[w]
    BY <2>1 DEF Handed
  <2>7. \A w \in V : \E n \in 1 .. k : w = waiting[n] /\ item'[w] = heap[n]
    BY <2>5
  <2>8. \A w \in V : item[w] = NoJob /\ item'[w] \in F
    BY <1>2, <2>2, <2>4, <2>7
  <2>9. \A x \in F : x # NoJob /\ \E w \in V : w \in Workers /\ item'[w] = x
    BY <2>5, NoJobAssumption
  <2>10. \A v, w \in V : item'[v] = item'[w] => v = w
    BY <1>1, <2>5, <2>7 DEF Distinct
  <2> HIDE DEF F, V
  <2>11. I' = I \cup F
    BY <1>3, <2>6, <2>8, <2>9
  <2>12. \A w \in Workers \ V : item'[w] \notin F
    BY <1>1, <1>3, <2>2, <2>3, <2>6, <2>9
  <2>13. \A v, w \in Workers : item'[v] = item'[w] /\ item'[v] # NoJob => v = w
    BY <1>1, <2>6, <2>8, <2>10, <2>12
  <2>14. QED BY <1>1, <2>2, <2>3, <2>11, <2>13
<1>10. ASSUME Poison PROVE Good
  <2>1. /\ ~poisoned /\ poisoned' = TRUE /\ ended' = ended \cup H /\ heap' = heap
        /\ launched' = launched
        /\ item' = [w \in Workers |-> IF w \in Elements(waiting) THEN NoJob ELSE item[w]]
    BY <1>10 DEF Poison, H
  <2>2. \A w \in Workers : item'[w] = item[w]
    BY <1>2, <2>1
  <2>3. I' = I
    BY <1>3, <2>2
  <2>4. QED BY <1>1, <2>1, <2>2, <2>3
<1>11. ASSUME NEW w \in Workers, PopDue(w) PROVE Good
  <2> DEFINE h == Head(heap)
  <2>1. /\ ~poisoned /\ heap # <<>> /\ pc[w] = "idle"
        /\ item' = [item EXCEPT ![w] = h] /\ heap' = Tail(heap)
        /\ poisoned' = poisoned /\ launched' = launched /\ ended' = ended
    BY <1>11 DEF PopDue, FrontDue, job
  <2>2. h \in H /\ H' = H \ {h} /\ Distinct(heap') /\ h \in Jobs
    <3>1. /\ Tail(heap) = Drop(heap, 1) /\ 1 \in 0 .. Len(heap)
          /\ h \in H /\ {heap[n] : n \in 1 .. 1} = {h}
      BY <1>0, <2>1, TailDrops DEF H
    <3>2. Distinct(Drop(heap, 1)) /\ Elements(Drop(heap, 1)) = H \ {h}
      BY <1>0, <1>1, <3>1, DropDistinct DEF H
    <3>3. h \in Jobs
      BY <1>0, <3>1, ElementsMember DEF H
    <3>4. QED BY <2>1, <3>1, <3>2, <3>3 DEF H
  <2> HIDE DEF h
  <2>3. /\ item[w] = NoJob /\ item'[w] = h /\ h # NoJob
        /\ \A v \in Workers \ {w} : item'[v] = item[v]
    BY <1>0, <1>2, <2>1, <2>2, NoJobAssumption
  <2>4. I' = I \cup {h}
    BY <1>3, <2>3
  <2>5. \A v \in Workers \ {w} : item'[v] # h
    BY <1>1, <1>3, <2>1, <2>2, <2>3
  <2>6. QED BY <1>1, <2>1, <2>2, <2>3, <2>4, <2>5
<1>12. ASSUME NEW w \in Workers, PopWait(w) PROVE Good
  <2>1. /\ pc[w] = "idle" /\ item' = [item EXCEPT ![w] = NoJob]
        /\ UNCHANGED <<heap, poisoned, launched, ended>>
    BY <1>12 DEF PopWait, job
  <2>2. item' = item
    BY <1>0, <1>2, <2>1
  <2>3. QED BY <1>6, <2>1, <2>2
<1>13. ASSUME NEW w \in Workers,
              PopReturn(w) \/ UpdateGo(w) \/ JobBegin(w) \/ JobReturns(w) \/ Deregister(w)
       PROVE  Good
  BY <1>6, <1>13 DEF PopReturn, UpdateGo, JobBegin, JobReturns, Deregister, container, job
<1>14. ASSUME NEW w \in Workers, UpdateStop(w) \/ JobThrows(w) \/ RequeueFails(w) PROVE Good
  <2>1. /\ item[w] # NoJob /\ item' = [item EXCEPT ![w] = NoJob]
        /\ ended' = ended \cup {item[w]} /\ UNCHANGED <<heap, poisoned, launched>>
    BY <1>2, <1>14 DEF UpdateStop, JobThrows, RequeueFails, container
  <2>2. /\ item[w] \in I /\ I' = I \ {item[w]}
        /\ \A u, v \in Workers : item'[u] = item'[v] /\ item'[u] # NoJob => u = v
    BY <1>7, <2>1
  <2>3. QED BY <1>1, <1>5, <2>1, <2>2
<1>15. ASSUME NEW w \in Workers, Requeue(w) PROVE Good
  <2> DEFINE j == item[w]
  <2>1. /\ ~poisoned /\ j # NoJob /\ Push(j) /\ item' = [item EXCEPT ![w] = NoJob]
        /\ UNCHANGED <<poisoned, launched, ended>>
    BY <1>2, <1>15 DEF Requeue, Push, job
  <2>2. H' = H \cup {j} /\ Distinct(heap')
    BY <2>1, Before, Pushed DEF H
  <2>3. /\ j \in I /\ I' = I \ {j}
        /\ \A u, v \in Workers : item'[u] = item'[v] /\ item'[u] # NoJob => u = v
    BY <1>7, <2>1
  <2> HIDE DEF j
  <2>4. QED BY <1>1, <2>1, <2>2, <2>3
<1>16. ASSUME NEW j \in Jobs, Launch(j) PROVE Good
  <2>1. /\ ~poisoned /\ j \notin launched /\ Push(j) /\ launched' = launched \cup {j}
        /\ UNCHANGED <<poisoned, item, ended>>
    BY <1>16 DEF Launch, Push, worker
  <2>2. H' = H \cup {j} /\ Distinct(heap')
    BY <2>1, Before, Pushed DEF H
  <2>3. QED BY <1>1, <1>5, <2>1, <2>2
<1>17. ASSUME NEW j \in Jobs, Release(j) PROVE Good
  BY <1>6, <1>17 DEF Release, container, worker
<1>18. QED
  BY <1>8, <1>9, <1>10, <1>11, <1>12, <1>13, <1>14, <1>15, <1>16, <1>17 DEF Next, Epoch

\* The heap stays ordered: jobs are taken from its front, inserted in their
\* place, and time passes for all of them alike.
LEMMA OrderedStep == Inv /\ Next => HeapOrdered'
<1> SUFFICES ASSUME Inv, Next PROVE HeapOrdered'
  OBVIOUS
<1>0. /\ heap \in Seq(Jobs) /\ left \in [Jobs -> Int]
      /\ \A j \in Jobs : left[j] >= Past
  BY Before
<1>1. \A m, n \in 1 .. Len(heap) : m <= n => left[heap[m]] <= left[heap[n]]
  BY DEF Inv, HeapOrdered
<1>2. \A n \in 1 .. Len(heap) : heap[n] \in Jobs /\ heap[n] \in Elements(heap)
  BY <1>0, ElementsMember
<1>3. CASE UNCHANGED <<heap, left>>
  BY <1>1, <1>3 DEF HeapOrdered
<1>4. ASSUME NEW k \in 0 .. Len(heap), heap' = Drop(heap, k), left' = left
      PROVE  HeapOrdered'
  <2>1. /\ Len(heap') = Len(heap) - k
        /\ \A n \in 1 .. Len(heap) - k : n + k \in 1 .. Len(heap) /\ heap'[n] = heap[n + k]
    BY <1>0, <1>4, DropProperties
  <2>2. Len(heap) \in Nat /\ k \in Nat
    BY <1>0, LenProperties
  <2>3. ASSUME NEW m \in 1 .. Len(heap'), NEW n \in 1 .. Len(heap'), m <= n
        PROVE  left'[heap'[m]] <= left'[heap'[n]]
    <3>1. m \in 1 .. Len(heap) - k /\ n \in 1 .. Len(heap) - k /\ m + k <= n + k
      BY <2>1, <2>2, <2>3
    <3>2. /\ heap'[m] = heap[m + k] /\ heap'[n] = heap[n + k]
          /\ m + k \in 1 .. Len(heap) /\ n + k \in 1 .. Len(heap)
      BY <2>1, <3>1
    <3>3. QED BY <1>1, <1>4, <3>1, <3>2
  <2>4. QED BY <2>3 DEF HeapOrdered
<1>5. ASSUME Tick PROVE HeapOrdered'
  <2>1. /\ left' = [j \in Jobs |-> IF j \in Elements(heap) /\ left[j] # Past
                                     THEN left[j] - 1 ELSE left[j]]
        /\ heap' = heap
    BY <1>5 DEF Tick
  <2>2. ASSUME NEW m \in 1 .. Len(heap), NEW n \in 1 .. Len(heap), m <= n
        PROVE  left'[heap[m]] <= left'[heap[n]]
    <3> DEFINE x == left[heap[m]]
               y == left[heap[n]]
    <3>1. /\ left'[heap[m]] = (IF x # Past THEN x - 1 ELSE x)
          /\ left'[heap[n]] = (IF y # Past THEN y - 1 ELSE y)
      BY <1>2, <2>1
    <3>2. x \in Int /\ y \in Int /\ x >= Past /\ y >= Past /\ x <= y
      BY <1>0, <1>1, <1>2, <2>2
    <3> HIDE DEF x, y
    <3>3. QED BY <3>1, <3>2 DEF Past
  <2>3. QED BY <2>1, <2>2 DEF HeapOrdered
<1>6. ASSUME Update PROVE HeapOrdered'
  <2>1. PICK k \in Nat : Handed(k)
    BY <1>6, Updated
  <2>2. k \in 0 .. Len(heap) /\ heap' = Drop(heap, k) /\ left' = left
    BY <1>6, <2>1 DEF Handed, Update
  <2>3. QED BY <1>4, <2>2
<1>7. ASSUME NEW w \in Workers, PopDue(w) PROVE HeapOrdered'
  <2>1. heap # <<>> /\ heap' = Tail(heap) /\ left' = left
    BY <1>7 DEF PopDue, FrontDue
  <2>2. heap' = Drop(heap, 1) /\ 1 \in 0 .. Len(heap)
    BY <1>0, <2>1, TailDrops
  <2>3. QED BY <1>4, <2>1, <2>2
<1>8. ASSUME NEW w \in Workers, Requeue(w) PROVE HeapOrdered'
  <2>1. item[w] # NoJob /\ ~poisoned /\ Push(item[w])
    BY <1>8 DEF Requeue, Inv, Waiters
  <2>2. QED BY <2>1, Before, Pushed
<1>9. ASSUME NEW j \in Jobs, Launch(j) PROVE HeapOrdered'
  <2>1. j \notin launched /\ ~poisoned /\ Push(j)
    BY <1>9 DEF Launch
  <2>2. QED BY <2>1, Before, Pushed
<1>10. ASSUME Poison PROVE HeapOrdered'
  BY <1>3, <1>10 DEF Poison
<1>11. ASSUME NEW w \in Workers,
              \/ PopWait(w) \/ PopReturn(w) \/ UpdateStop(w) \/ UpdateGo(w) \/ JobBegin(w)
              \/ JobThrows(w) \/ JobReturns(w) \/ RequeueFails(w) \/ Deregister(w)
       PROVE  HeapOrdered'
  BY <1>3, <1>11 DEF PopWait, PopReturn, UpdateStop, UpdateGo, JobBegin, JobThrows, JobReturns,
                     RequeueFails, Deregister, container
<1>12. ASSUME NEW j \in Jobs, Release(j) PROVE HeapOrdered'
  BY <1>3, <1>12 DEF Release, container
<1>13. QED
  BY <1>5, <1>6, <1>7, <1>8, <1>9, <1>10, <1>11, <1>12 DEF Next, Epoch

\* A run begun late is one the counter has counted since its last reset, and
\* with the handle gone the counter is not reset.
LEMMA LateStep == Inv /\ Next => LateCounted'
<1> SUFFICES ASSUME Inv, Next PROVE LateCounted'
  OBVIOUS
<1>0. /\ item \in [Workers -> Jobs \cup {NoJob}] /\ pill \subseteq Jobs
      /\ pc \in [Workers -> {"idle", "waiting", "popped", "go", "running", "ran", "gone"}]
      /\ counter \in [Jobs -> 0 .. Due] /\ late \in [Jobs -> Nat]
  BY DEF Inv, TypeOK
<1>1. /\ \A j \in Jobs : late[j] <= counter[j] /\ (late[j] > 0 => j \in pill)
      /\ \A w \in Workers : pc[w] = "go" => late[item[w]] + 1 <= counter[item[w]]
  BY DEF Inv, LateCounted
<1>2. /\ \A w \in Workers : pc[w] \in {"popped", "go"} => item[w] \in Jobs /\ item[w] # NoJob
      /\ \A v, w \in Workers : item[v] = item[w] /\ item[v] # NoJob => v = w
  BY <1>0, NoJobAssumption DEF Inv, Waiters, EveryJobOnce
\* the counters stand still and nobody passes the check
<1>3. ASSUME UNCHANGED <<counter, late>>, pill \subseteq pill',
             \A w \in Workers : pc'[w] = "go" => pc[w] = "go" /\ item'[w] = item[w]
      PROVE  LateCounted'
  BY <1>1, <1>3 DEF LateCounted
<1>4. ASSUME NEW w \in Workers, UpdateGo(w) PROVE LateCounted'
  <2> DEFINE j == item[w]
  <2>1. /\ pc[w] = "popped" /\ ~(counter[j] = Due /\ j \in pill)
        /\ counter' = [counter EXCEPT ![j] = (IF @ = Due THEN 0 ELSE @) + 1]
        /\ pc' = [pc EXCEPT ![w] = "go"] /\ item' = item /\ late' = late /\ pill' = pill
    BY <1>4 DEF UpdateGo
  <2>2. j \in Jobs
    BY <1>2, <2>1
  <2> HIDE DEF j
  <2>3. /\ counter'[j] = (IF counter[j] = Due THEN 0 ELSE counter[j]) + 1
        /\ \A i \in Jobs \ {j} : counter'[i] = counter[i]
    BY <1>0, <2>1, <2>2
  <2>4. late[j] + 1 <= counter'[j]
    <3>1. late[j] \in Nat /\ counter[j] \in Nat /\ late[j] <= counter[j]
      BY <1>0, <1>1, <2>2, DueAssumption
    <3>2. CASE counter[j] = Due
      <4>1. late[j] = 0
        BY <1>1, <2>1, <2>2, <3>1, <3>2
      <4>2. QED BY <2>3, <3>2, <4>1
    <3>3. CASE counter[j] # Due
      BY <2>3, <3>1, <3>3
    <3>4. QED BY <3>2, <3>3
  <2>5. late[j] <= counter'[j]
    <3>1. late[j] \in Nat /\ counter'[j] \in Nat
      BY <1>0, <2>2, <2>3, DueAssumption
    <3>2. QED BY <2>4, <3>1
  <2>6. \A i \in Jobs : late'[i] <= counter'[i] /\ (late'[i] > 0 => i \in pill')
    BY <1>1, <2>1, <2>3, <2>5
  <2>7. ASSUME NEW v \in Workers, pc'[v] = "go"
        PROVE  late'[item'[v]] + 1 <= counter'[item'[v]]
    <3>1. CASE v = w
      BY <2>1, <2>4, <3>1 DEF j
    <3>2. CASE v # w
      <4>1. pc[v] = "go"
        BY <1>0, <2>1, <2>7, <3>2
      <4>2. item[v] \in Jobs \ {j}
        BY <1>2, <3>2, <4>1 DEF j
      <4>3. QED BY <1>1, <2>1, <2>3, <4>1, <4>2
    <3>3. QED BY <3>1, <3>2
  <2>8. QED BY <2>6, <2>7 DEF LateCounted
<1>5. ASSUME NEW w \in Workers, JobBegin(w) PROVE LateCounted'
  <2> DEFINE j == item[w]
  <2>1. /\ pc[w] = "go" /\ pc' = [pc EXCEPT ![w] = "running"]
        /\ late' = [late EXCEPT ![j] = IF j \in pill THEN @ + 1 ELSE @]
        /\ item' = item /\ counter' = counter /\ pill' = pill
    BY <1>5 DEF JobBegin
  <2>2. j \in Jobs /\ late[j] + 1 <= counter[j]
    BY <1>1, <1>2, <2>1
  <2> HIDE DEF j
  <2>3. /\ late'[j] = IF j \in pill THEN late[j] + 1 ELSE late[j]
        /\ \A i \in Jobs \ {j} : late'[i] = late[i]
    BY <1>0, <2>1, <2>2
  <2>4. late'[j] <= counter'[j] /\ (late'[j] > 0 => j \in pill')
    BY <1>1, <2>1, <2>2, <2>3
  <2>5. \A i \in Jobs : late'[i] <= counter'[i] /\ (late'[i] > 0 => i \in pill')
    BY <1>1, <2>1, <2>3, <2>4
  <2>6. ASSUME NEW v \in Workers, pc'[v] = "go"
        PROVE  late'[item'[v]] + 1 <= counter'[item'[v]]
    <3>1. v # w /\ pc[v] = "go"
      BY <1>0, <2>1, <2>6
    <3>2. item[v] \in Jobs \ {j}
      BY <1>2, <3>1 DEF j
    <3>3. QED BY <1>1, <2>1, <2>3, <3>1, <3>2
  <2>7. QED BY <2>5, <2>6 DEF LateCounted
<1>6. ASSUME Tick PROVE LateCounted'
  BY <1>3, <1>6 DEF Tick, worker, job
<1>7. ASSUME Update PROVE LateCounted'
  <2>1. PICK k \in Nat : Handed(k)
    BY <1>7, Updated
  <2>2. ~poisoned /\ pc' = pc /\ UNCHANGED <<counter, late, pill>>
    BY <1>7 DEF Update, job
  <2>3. \A n \in 1 .. k : pc[waiting[n]] = "waiting"
    <3>1. {waiting[n] : n \in 1 .. k} \subseteq Elements(waiting)
      BY <2>1, <2>2, Before, DropDistinct DEF Handed
    <3>2. QED BY <2>2, <3>1 DEF Inv, Waiters
  <2>4. \A w \in Workers : pc[w] = "go" => item'[w] = item[w]
    BY <2>1, <2>3 DEF Handed
  <2>5. QED BY <1>3, <2>2, <2>4
<1>8. ASSUME Poison PROVE LateCounted'
  <2>1. /\ ~poisoned /\ pc' = pc /\ UNCHANGED <<counter, late, pill>>
        /\ item' = [w \in Workers |-> IF w \in Elements(waiting) THEN NoJob ELSE item[w]]
    BY <1>8 DEF Poison
  <2>2. \A w \in Workers : item'[w] = item[w]
    BY <2>1 DEF Inv, Waiters
  <2>3. QED BY <1>3, <2>1, <2>2
<1>9. ASSUME NEW w \in Workers,
             \/ PopDue(w) \/ PopWait(w) \/ PopReturn(w) \/ UpdateStop(w) \/ JobThrows(w)
             \/ JobReturns(w) \/ Requeue(w) \/ RequeueFails(w) \/ Deregister(w)
      PROVE  LateCounted'
  <2>1. UNCHANGED <<counter, late, pill>>
    BY <1>9 DEF PopDue, PopWait, PopReturn, UpdateStop, JobThrows, JobReturns, Requeue,
                RequeueFails, Deregister, job
  <2>2. pc'[w] # "go" /\ \A v \in Workers \ {w} : pc'[v] = pc[v]
    BY <1>0, <1>9 DEF PopDue, PopWait, PopReturn, UpdateStop, JobThrows, JobReturns, Requeue,
                      RequeueFails, Deregister
  <2>3. \A v \in Workers \ {w} : item'[v] = item[v]
    BY <1>0, <1>9 DEF PopDue, PopWait, PopReturn, UpdateStop, JobThrows, JobReturns, Requeue,
                      RequeueFails, Deregister
  <2>4. QED BY <1>3, <2>1, <2>2, <2>3
<1>10. ASSUME NEW j \in Jobs, Launch(j) \/ Release(j) PROVE LateCounted'
  BY <1>3, <1>10 DEF Launch, Release, worker
<1>11. QED
  BY <1>4, <1>5, <1>6, <1>7, <1>8, <1>9, <1>10 DEF Next, Epoch

\* The parts of the invariant support each other through every step.
LEMMA Inductive == Inv /\ [Next]_vars => Inv'
<1>1. Inv /\ Next => Inv'
  BY TypeStep, WaitersStep, JobsStep, OrderedStep, LateStep DEF Inv
<1>2. Inv /\ UNCHANGED vars => Inv'
  BY DEF vars, container, worker, job, Inv, TypeOK, Waiters, EveryJobOnce, Pending, Held,
         HeapOrdered, LateCounted
<1>3. QED BY <1>1, <1>2

\* The invariant holds in every reachable state.
LEMMA Always == Safety => []Inv
  BY Initially, Inductive, PTL DEF Safety

-----------------------------------------------------------------------------
(* The theorems.                                                           *)

\* The variables keep their types; poison_chk_interval_counter stays below
\* POISON_CHK_INTERVAL_DUE and no expiry is further away than its job's period.
THEOREM TypeCorrect == Safety => []TypeOK
<1>1. Inv => TypeOK
  BY DEF Inv
<1>2. QED BY <1>1, Always, PTL

\* A launched job is in the container once, in the hands of one worker, or has
\* ended: none is lost and none is run by two workers at a time.
THEOREM JobOwnership == Safety => []EveryJobOnce
<1>1. Inv => EveryJobOnce
  BY DEF Inv
<1>2. QED BY <1>1, Always, PTL

\* A job is run POISON_CHK_INTERVAL_DUE times at most after its handle went
\* (InternalUpdatableWrapper::update).
THEOREM LateRuns == Safety => []LateRunsBounded
<1>1. Inv => LateRunsBounded
  <2> SUFFICES ASSUME Inv, NEW j \in Jobs PROVE late[j] <= Due
    BY DEF LateRunsBounded
  <2>1. late[j] \in Nat /\ counter[j] \in 0 .. Due /\ late[j] <= counter[j]
    BY DEF Inv, TypeOK, LateCounted
  <2>2. QED BY <2>1, DueAssumption
<1>2. QED BY <1>1, Always, PTL

\* While the container lives, pop() and update() hand out a job only when its
\* expiry has passed, although update() looks at the front of the heap alone.
OnlyWhenDue ==
  [][\A j \in Jobs : j \in Pending \ Pending' /\ ~poisoned' => left[j] = Past]_vars

\* No job is run before its period is over: the container hands out due jobs
\* only.
THEOREM NoEarlyRun == Safety => OnlyWhenDue
<1> DEFINE A == \A j \in Jobs : j \in Pending \ Pending' /\ ~poisoned' => left[j] = Past
<1>1. Inv /\ Next => A
  <2> SUFFICES ASSUME Inv, Next, NEW j \in Jobs, j \in Pending, j \notin Pending', ~poisoned'
               PROVE  left[j] = Past
    OBVIOUS
  <2>0. /\ heap \in Seq(Jobs) /\ Distinct(heap) /\ poisoned \in BOOLEAN
        /\ ~poisoned => Distinct(waiting)
    BY Before
  <2>1. ~poisoned /\ j \in Elements(heap) /\ j \notin Elements(heap')
    BY DEF Pending
  <2>2. CASE heap' = heap
    BY <2>1, <2>2
  <2>3. ASSUME Update PROVE left[j] = Past
    <3>1. PICK k \in Nat : Handed(k)
      BY <2>3, Updated
    <3>2. Elements(heap') = Elements(heap) \ {heap[n] : n \in 1 .. k}
      BY <2>0, <3>1, DropDistinct DEF Handed
    <3>3. PICK n \in 1 .. k : j = heap[n]
      BY <2>1, <3>2
    <3>4. QED BY <3>1, <3>3 DEF Handed
  <2>4. ASSUME NEW w \in Workers, PopDue(w) PROVE left[j] = Past
    <3>1. heap # <<>> /\ left[Head(heap)] = Past /\ heap' = Tail(heap)
      BY <2>4 DEF PopDue, FrontDue
    <3>2. /\ Tail(heap) = Drop(heap, 1) /\ 1 \in 0 .. Len(heap)
          /\ {heap[n] : n \in 1 .. 1} = {Head(heap)}
      BY <2>0, <3>1, TailDrops
    <3>3. Elements(heap') = Elements(heap) \ {Head(heap)}
      BY <2>0, <3>1, <3>2, DropDistinct
    <3>4. QED BY <2>1, <3>1, <3>3
  <2>5. ASSUME NEW w \in Workers, Requeue(w) PROVE FALSE
    <3>1. item[w] # NoJob /\ Push(item[w])
      BY <2>5 DEF Requeue, Inv, Waiters
    <3>2. QED BY <2>1, <3>1, Before, Pushed
  <2>6. ASSUME NEW i \in Jobs, Launch(i) PROVE FALSE
    <3>1. i \notin launched /\ Push(i)
      BY <2>6 DEF Launch
    <3>2. QED BY <2>1, <3>1, Before, Pushed
  <2>7. ASSUME NEW w \in Workers,
               \/ PopWait(w) \/ PopReturn(w) \/ UpdateStop(w) \/ UpdateGo(w) \/ JobBegin(w)
               \/ JobThrows(w) \/ JobReturns(w) \/ RequeueFails(w) \/ Deregister(w)
        PROVE  heap' = heap
    BY <2>7 DEF PopWait, PopReturn, UpdateStop, UpdateGo, JobBegin, JobThrows, JobReturns,
                RequeueFails, Deregister, container
  <2>8. ASSUME Tick \/ Poison \/ \E i \in Jobs : Release(i) PROVE heap' = heap
    BY <2>8 DEF Tick, Poison, Release, container
  <2>9. QED BY <2>2, <2>3, <2>4, <2>5, <2>6, <2>7, <2>8 DEF Next, Epoch
<1>2. Inv /\ [Next]_vars => [A]_vars
  BY <1>1
<1>3. QED BY <1>2, Always, PTL DEF Safety, OnlyWhenDue
=============================================================================
